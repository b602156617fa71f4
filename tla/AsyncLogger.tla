---------------------------- MODULE AsyncLogger ----------------------------
(***************************************************************************)
(* The asynchronous log writer of internal/logger/logger.go: goroutines    *)
(* that log, the goroutine that consumes the channel, and goroutines that  *)
(* close the logger (main on its way out, and Fatal of the goroutine that  *)
(* serves HTTP).                                                           *)
(*                                                                         *)
(* stateMu is a sync.RWMutex: a goroutine that has called Lock keeps new   *)
(* readers out and waits for those inside.  outMu is held by the goroutine *)
(* that writes to the console and the file.                                *)
(***************************************************************************)
EXTENDS Naturals, Sequences, FiniteSets

CONSTANTS
    Producers,      \* goroutines that log
    Closers,        \* goroutines that call Close
    Consumer,       \* the goroutine of consume
    QueueSize,      \* capacity of the channel (defaultQueueSize)
    Writes,         \* bound: how often each producer calls Write
    None            \* no goroutine, no message

ASSUME ConstantsOK ==
    /\ QueueSize \in Nat \ {0}
    /\ Writes \in Nat
    /\ Consumer \notin Producers \cup Closers
    /\ Producers \cap Closers = {}
    /\ None \notin Producers \cup Closers \cup {Consumer}

Goroutines == Producers \cup Closers \cup {Consumer}
Message == Producers \X (1 .. Writes)

VARIABLES
    queue, chClosed,    \* the channel
    closed,             \* asyncWriter.closed
    readers, lockedBy,  \* stateMu: the readers inside; who called Lock
    outMu,              \* who holds outMu
    fileOpen,           \* logFile
    out,                \* what was written, in order
    calls,              \* calls[p]: how many Writes p has begun
    msg,                \* the message the consumer has received
    pc,                 \* the next step of each goroutine
    accepted            \* ghost: messages whose Write reported success

vars == <<queue, chClosed, closed, readers, lockedBy, outMu, fileOpen, out,
          calls, msg, pc, accepted>>

TypeOK ==
    /\ queue \in Seq(Message) /\ Len(queue) <= QueueSize
    /\ chClosed \in BOOLEAN
    /\ closed \in BOOLEAN
    /\ readers \subseteq Producers
    /\ lockedBy \in Closers \cup {None}
    /\ outMu \in Producers \cup {Consumer, None}
    /\ fileOpen \in BOOLEAN
    /\ out \in Seq(Message)
    /\ calls \in [Producers -> 0 .. Writes]
    /\ msg \in Message \cup {None}
    /\ pc \in [Goroutines -> {"idle", "rlock", "check", "send", "sync", "syncWrite",
                              "receive", "output", "write", "done",
                              "lock", "drain", "close", "wait", "file", "closed",
                              "panic"}]
    /\ accepted \subseteq Message

Init ==
    /\ queue = <<>>
    /\ chClosed = FALSE
    /\ closed = FALSE
    /\ readers = {}
    /\ lockedBy = None
    /\ outMu = None
    /\ fileOpen = TRUE
    /\ out = <<>>
    /\ calls = [p \in Producers |-> 0]
    /\ msg = None
    /\ pc = [g \in Goroutines |-> IF g = Consumer THEN "receive" ELSE "idle"]
    /\ accepted = {}

Goto(g, step) == pc' = [pc EXCEPT ![g] = step]
Current(p) == <<p, calls[p]>>
Released(p) == readers \ {p}

\* w.out.Write: nothing arrives in a file that is closed.
Output(m) == out' = IF fileOpen THEN Append(out, m) ELSE out
-----------------------------------------------------------------------------
(* Write *)

BeginWrite(p) ==
    /\ pc[p] = "idle"
    /\ calls[p] < Writes
    /\ calls' = [calls EXCEPT ![p] = @ + 1]
    /\ Goto(p, "rlock")
    /\ UNCHANGED <<queue, chClosed, closed, readers, lockedBy, outMu, fileOpen,
                   out, msg, accepted>>

\* stateMu.RLock waits for a goroutine that holds, or waits for, the lock.
GetReadLock(p) ==
    /\ pc[p] = "rlock"
    /\ lockedBy = None
    /\ readers' = readers \cup {p}
    /\ Goto(p, "check")
    /\ UNCHANGED <<queue, chClosed, closed, lockedBy, outMu, fileOpen, out, calls,
                   msg, accepted>>

\* The read lock is kept through the send.
Mutant_ReleaseAfterCheck(p) == Released(p)
KeptForSend(p) == readers

CheckClosed(p) ==
    /\ pc[p] = "check"
    /\ IF closed THEN Goto(p, "idle") /\ readers' = Released(p)
                 ELSE Goto(p, "send") /\ readers' = KeptForSend(p)
    /\ UNCHANGED <<queue, chClosed, closed, lockedBy, outMu, fileOpen, out,
                   calls, msg, accepted>>

\* It is also kept through the fallback.
Mutant_ReleaseBeforeSync(p) == Released(p)
KeptForSync(p) == readers

Mutant_OneMore == Len(queue) <= QueueSize
HasRoom == Len(queue) < QueueSize

\* The select: send if the channel has room, else fall back to writing.
Send(p) ==
    /\ pc[p] = "send"
    /\ IF HasRoom
       THEN /\ queue' = Append(queue, Current(p))
            /\ accepted' = accepted \cup {Current(p)}
            /\ readers' = Released(p)
            /\ Goto(p, IF chClosed THEN "panic" ELSE "idle")
       ELSE /\ readers' = KeptForSync(p)
            /\ Goto(p, IF chClosed THEN "panic" ELSE "sync")
            /\ UNCHANGED <<queue, accepted>>
    /\ UNCHANGED <<chClosed, closed, lockedBy, outMu, fileOpen, out, calls, msg>>

LockOutput(p) ==
    /\ pc[p] = "sync"
    /\ outMu = None
    /\ outMu' = p
    /\ Goto(p, "syncWrite")
    /\ UNCHANGED <<queue, chClosed, closed, readers, lockedBy, fileOpen, out,
                   calls, msg, accepted>>

SyncWrite(p) ==
    /\ pc[p] = "syncWrite"
    /\ Output(Current(p))
    /\ accepted' = accepted \cup {Current(p)}
    /\ outMu' = None
    /\ readers' = Released(p)
    /\ Goto(p, "idle")
    /\ UNCHANGED <<queue, chClosed, closed, lockedBy, fileOpen, calls, msg>>
-----------------------------------------------------------------------------
(* consume *)

\* The range over the channel ends when it is closed and empty.
Mutant_StopAtClose == chClosed
Drained == chClosed /\ queue = <<>>

Receive ==
    /\ pc[Consumer] = "receive"
    /\ \/ Drained /\ Goto(Consumer, "done") /\ UNCHANGED <<queue, msg>>
       \/ /\ ~Drained /\ queue # <<>>
          /\ msg' = Head(queue)
          /\ queue' = Tail(queue)
          /\ Goto(Consumer, "output")
    /\ UNCHANGED <<chClosed, closed, readers, lockedBy, outMu, fileOpen, out,
                   calls, accepted>>

ConsumerLock ==
    /\ pc[Consumer] = "output"
    /\ outMu = None
    /\ outMu' = Consumer
    /\ Goto(Consumer, "write")
    /\ UNCHANGED <<queue, chClosed, closed, readers, lockedBy, fileOpen, out,
                   calls, msg, accepted>>

ConsumerWrite ==
    /\ pc[Consumer] = "write"
    /\ Output(msg)
    /\ msg' = None
    /\ outMu' = None
    /\ Goto(Consumer, "receive")
    /\ UNCHANGED <<queue, chClosed, closed, readers, lockedBy, fileOpen, calls,
                   accepted>>
-----------------------------------------------------------------------------
(* Close *)

BeginClose(c) ==
    /\ pc[c] = "idle"
    /\ Goto(c, "lock")
    /\ UNCHANGED <<queue, chClosed, closed, readers, lockedBy, outMu, fileOpen,
                   out, calls, msg, accepted>>

\* stateMu.Lock: first keep everyone else out, ...
CallLock(c) ==
    /\ pc[c] = "lock"
    /\ lockedBy = None
    /\ lockedBy' = c
    /\ Goto(c, "drain")
    /\ UNCHANGED <<queue, chClosed, closed, readers, outMu, fileOpen, out, calls,
                   msg, accepted>>

Mutant_ForgetUnlock(c) == c
UnlockedAgain(c) == None

\* ... then wait for the readers.  A second close only waits for the consumer.
GetLock(c) ==
    /\ pc[c] = "drain"
    /\ readers = {}
    /\ IF closed
       THEN /\ lockedBy' = UnlockedAgain(c)
            /\ Goto(c, "wait")
            /\ UNCHANGED closed
       ELSE /\ closed' = TRUE
            /\ Goto(c, "close")
            /\ UNCHANGED lockedBy
    /\ UNCHANGED <<queue, chClosed, readers, outMu, fileOpen, out, calls, msg,
                   accepted>>

CloseChannel(c) ==
    /\ pc[c] = "close"
    /\ chClosed' = TRUE
    /\ IF chClosed THEN Goto(c, "panic") ELSE Goto(c, "wait")
    /\ lockedBy' = None
    /\ UNCHANGED <<queue, closed, readers, outMu, fileOpen, out, calls, msg,
                   accepted>>

\* wg.Wait
WaitForConsumer(c) ==
    /\ pc[c] = "wait"
    /\ pc[Consumer] = "done"
    /\ Goto(c, "file")
    /\ UNCHANGED <<queue, chClosed, closed, readers, lockedBy, outMu, fileOpen,
                   out, calls, msg, accepted>>

CloseFile(c) ==
    /\ pc[c] = "file"
    /\ fileOpen' = FALSE
    /\ Goto(c, "closed")
    /\ UNCHANGED <<queue, chClosed, closed, readers, lockedBy, outMu, out, calls,
                   msg, accepted>>
-----------------------------------------------------------------------------
Write(p) == \/ GetReadLock(p) \/ CheckClosed(p) \/ Send(p)
            \/ LockOutput(p) \/ SyncWrite(p)
Consume == Receive \/ ConsumerLock \/ ConsumerWrite
Close(c) == \/ CallLock(c) \/ GetLock(c) \/ CloseChannel(c)
            \/ WaitForConsumer(c) \/ CloseFile(c)

Next ==
    \/ \E p \in Producers : BeginWrite(p) \/ Write(p)
    \/ Consume
    \/ \E c \in Closers : BeginClose(c) \/ Close(c)

Spec == Init /\ [][Next]_vars

\* The Go scheduler runs every goroutine that can run, and a goroutine that
\* waits for a mutex gets it; disk and console answer every write.
FairSpec ==
    /\ Spec
    /\ \A p \in Producers : WF_vars(Write(p))
    /\ WF_vars(Consume)
    /\ \A c \in Closers : WF_vars(Close(c))
-----------------------------------------------------------------------------
(* Properties *)

\* No goroutine sends on the closed channel or closes it twice, either of
\* which would panic: the send happens under the read lock.
NoPanic == \A g \in Goroutines : pc[g] # "panic"

\* Once the file is closed nobody is about to write to it: Close waits for the
\* consumer and, through the write lock, for every synchronous fallback.
NobodyWritesToClosedFile ==
    ~fileOpen => /\ \A p \in Producers : pc[p] \notin {"send", "sync", "syncWrite"}
                 /\ pc[Consumer] = "done"

\* When Close returns, every message whose Write reported success is in the
\* log exactly once, whether it went through the channel or around it.
Times(m) == Cardinality({i \in 1 .. Len(out) : out[i] = m})
AcceptedIsWritten ==
    (\E c \in Closers : pc[c] = "closed") => \A m \in accepted : Times(m) = 1

\* Every Close returns, also a second one, and so does every Write.
CloseReturns == \A c \in Closers : pc[c] = "lock" ~> pc[c] = "closed"
WriteReturns == \A p \in Producers : pc[p] = "rlock" ~> pc[p] = "idle"
CallsReturn == CloseReturns /\ WriteReturns
=============================================================================
