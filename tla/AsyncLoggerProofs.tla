------------------------- MODULE AsyncLoggerProofs -------------------------
(***************************************************************************)
(* Safety of AsyncLogger for any number of goroutines that log or close,   *)
(* any capacity of the channel and any number of lines.                    *)
(*                                                                         *)
(* The argument: whoever is between the check of `closed` and the end of   *)
(* its Write holds the read lock, so nobody sets `closed` meanwhile; the   *)
(* channel is only closed by the one goroutine that set `closed`, and the  *)
(* file only after the consumer has drained the channel.  From then on     *)
(* every accepted line must be in the file, and since a line is in exactly *)
(* one of channel, consumer and file, it is there once.                    *)
(***************************************************************************)
EXTENDS AsyncLogger, TLAPS, FiniteSetTheorems, SequenceTheorems

WriterStep == {"idle", "rlock", "check", "send", "sync", "syncWrite"}
ConsumerStep == {"receive", "output", "write", "done"}
CloserStep == {"idle", "lock", "drain", "close", "wait", "file", "closed"}
AnyStep == {"idle", "rlock", "check", "send", "sync", "syncWrite", "receive",
            "output", "write", "done", "lock", "drain", "close", "wait", "file",
            "closed", "panic"}

\* Past the check, with the read lock: the channel and the file may be used.
Using == {"send", "sync", "syncWrite"}

\* Every goroutine runs its own code, and none has panicked.
Roles ==
    /\ \A p \in Producers : pc[p] \in WriterStep
    /\ pc[Consumer] \in ConsumerStep
    /\ \A c \in Closers : pc[c] \in CloserStep

\* Who holds, or waits for, stateMu.
Locks ==
    /\ \A p \in Producers : pc[p] \in Using \cup {"check"} => p \in readers
    /\ \A c \in Closers : pc[c] \in {"drain", "close"} => lockedBy = c

\* The order of the shutdown: the flag, the channel, the consumer, the file.
Shutdown ==
    /\ \A p \in Producers : pc[p] \in Using => ~closed
    /\ \A c \in Closers : pc[c] = "close" => closed /\ ~chClosed
    /\ chClosed => closed
    /\ pc[Consumer] = "done" => chClosed
    /\ \A c \in Closers : pc[c] \in {"file", "closed"} => pc[Consumer] = "done"
    /\ ~fileOpen => pc[Consumer] = "done"

SafeInv == Roles /\ Locks /\ Shutdown
-----------------------------------------------------------------------------
\* It holds when the logger has been set up.
LEMMA SafeInit == ASSUME Init PROVE SafeInv
BY ConstantsOK
   DEF Init, SafeInv, Roles, Locks, Shutdown, WriterStep, ConsumerStep,
       CloserStep, Using, Goroutines

\* A goroutine that logs keeps SafeInv.
LEMMA WriterKeepsSafe ==
    ASSUME TypeOK, SafeInv, NEW p \in Producers, BeginWrite(p) \/ Write(p)
    PROVE  SafeInv'
<1> USE ConstantsOK DEF Goto, Goroutines
<1>0. /\ p # Consumer
      /\ p \notin Closers
      /\ pc \in [Goroutines -> AnyStep]
  BY DEF TypeOK, AnyStep
<1>1. CASE BeginWrite(p)
  BY <1>0, <1>1 DEF BeginWrite, SafeInv, Roles, Locks, Shutdown, WriterStep,
                    ConsumerStep, CloserStep, Using
<1>2. CASE GetReadLock(p)
  BY <1>0, <1>2 DEF GetReadLock, SafeInv, Roles, Locks, Shutdown, WriterStep,
                    ConsumerStep, CloserStep, Using
<1>3. CASE CheckClosed(p)
  BY <1>0, <1>3 DEF CheckClosed, Released, KeptForSend, SafeInv, Roles, Locks,
                    Shutdown, WriterStep, ConsumerStep, CloserStep, Using
<1>4. CASE Send(p)
  <2>1. pc[p] \in Using /\ ~closed /\ ~chClosed
    BY <1>4 DEF Send, SafeInv, Shutdown, Using
  <2> QED
    BY <1>0, <1>4, <2>1 DEF Send, Released, KeptForSync, SafeInv, Roles, Locks,
                    Shutdown, WriterStep, ConsumerStep, CloserStep, Using
<1>5. CASE LockOutput(p)
  BY <1>0, <1>5 DEF LockOutput, SafeInv, Roles, Locks, Shutdown, WriterStep,
                    ConsumerStep, CloserStep, Using
<1>6. CASE SyncWrite(p)
  BY <1>0, <1>6 DEF SyncWrite, Released, SafeInv, Roles, Locks, Shutdown,
                    WriterStep, ConsumerStep, CloserStep, Using
<1> QED BY <1>1, <1>2, <1>3, <1>4, <1>5, <1>6 DEF Write

\* The consumer keeps SafeInv: it ends only when the channel is closed.
LEMMA ConsumerKeepsSafe ==
    ASSUME TypeOK, SafeInv, Consume
    PROVE  SafeInv'
<1> USE ConstantsOK DEF Goto, Goroutines
<1>0. pc \in [Goroutines -> AnyStep]
  BY DEF TypeOK, AnyStep
<1>1. CASE Receive
  BY <1>0, <1>1 DEF Receive, Drained, SafeInv, Roles, Locks, Shutdown,
                    WriterStep, ConsumerStep, CloserStep, Using
<1>2. CASE ConsumerLock
  BY <1>0, <1>2 DEF ConsumerLock, SafeInv, Roles, Locks, Shutdown, WriterStep,
                    ConsumerStep, CloserStep, Using
<1>3. CASE ConsumerWrite
  BY <1>0, <1>3 DEF ConsumerWrite, SafeInv, Roles, Locks, Shutdown, WriterStep,
                    ConsumerStep, CloserStep, Using
<1> QED BY <1>1, <1>2, <1>3 DEF Consume

\* A goroutine that closes keeps SafeInv: it sets the flag when nobody is
\* using the channel, and closes the channel only if it has set the flag.
LEMMA CloserKeepsSafe ==
    ASSUME TypeOK, SafeInv, NEW c \in Closers, BeginClose(c) \/ Close(c)
    PROVE  SafeInv'
<1> USE ConstantsOK DEF Goto, Goroutines
<1>0. /\ c # Consumer
      /\ c \notin Producers
      /\ c # None
      /\ pc \in [Goroutines -> AnyStep]
  BY DEF TypeOK, AnyStep
<1>1. CASE BeginClose(c)
  BY <1>0, <1>1 DEF BeginClose, SafeInv, Roles, Locks, Shutdown, WriterStep,
                    ConsumerStep, CloserStep, Using
<1>2. CASE CallLock(c)
  BY <1>0, <1>2 DEF CallLock, SafeInv, Roles, Locks, Shutdown, WriterStep,
                    ConsumerStep, CloserStep, Using
<1>3. CASE GetLock(c)
  BY <1>0, <1>3 DEF GetLock, UnlockedAgain, SafeInv, Roles, Locks, Shutdown,
                    WriterStep, ConsumerStep, CloserStep, Using
<1>4. CASE CloseChannel(c)
  BY <1>0, <1>4 DEF CloseChannel, SafeInv, Roles, Locks, Shutdown, WriterStep,
                    ConsumerStep, CloserStep, Using
<1>5. CASE WaitForConsumer(c)
  BY <1>0, <1>5 DEF WaitForConsumer, SafeInv, Roles, Locks, Shutdown, WriterStep,
                    ConsumerStep, CloserStep, Using
<1>6. CASE CloseFile(c)
  BY <1>0, <1>6 DEF CloseFile, SafeInv, Roles, Locks, Shutdown, WriterStep,
                    ConsumerStep, CloserStep, Using
<1> QED BY <1>1, <1>2, <1>3, <1>4, <1>5, <1>6 DEF Close
-----------------------------------------------------------------------------
(* Types *)

\* A goroutine inside Write has begun one; a consumer that writes has a line.
Shaped ==
    /\ \A p \in Producers : pc[p] # "idle" => calls[p] >= 1
    /\ pc[Consumer] \in {"output", "write"} => msg \in Message

TypeInv == TypeOK /\ Shaped

LEMMA TypeInit == ASSUME Init PROVE TypeInv
<1>1. <<>> \in Seq(Message) /\ Len(<<>>) = 0
  OBVIOUS
<1>2. pc \in [Goroutines -> AnyStep]
  BY DEF Init, AnyStep
<1>3. calls \in [Producers -> 0 .. Writes]
  BY ConstantsOK DEF Init
<1>4. TypeOK
  <2>1. queue \in Seq(Message) /\ Len(queue) <= QueueSize /\ out \in Seq(Message)
    BY ConstantsOK, <1>1 DEF Init
  <2>2. /\ chClosed \in BOOLEAN /\ closed \in BOOLEAN /\ fileOpen \in BOOLEAN
        /\ readers \subseteq Producers /\ accepted \subseteq Message
        /\ lockedBy \in Closers \cup {None}
        /\ outMu \in Producers \cup {Consumer, None}
        /\ msg \in Message \cup {None}
    BY DEF Init
  <2> QED BY <1>2, <1>3, <2>1, <2>2 DEF TypeOK, AnyStep
<1>5. Shaped
  BY ConstantsOK DEF Init, Shaped, Goroutines
<1> QED BY <1>4, <1>5 DEF TypeInv

\* The line a goroutine is writing is one.
LEMMA CurrentIsMessage ==
    ASSUME TypeInv, NEW p \in Producers, pc[p] # "idle"
    PROVE  Current(p) \in Message
BY ConstantsOK DEF TypeInv, TypeOK, Shaped, Current, Message

\* What is written is a line, and keeps the log a sequence of lines.
LEMMA OutputKeepsType ==
    ASSUME out \in Seq(Message), NEW m \in Message, Output(m)
    PROVE  out' \in Seq(Message)
BY DEF Output

\* A goroutine that logs keeps the types.
LEMMA WriterKeepsType ==
    ASSUME TypeInv, SafeInv, NEW p \in Producers, BeginWrite(p) \/ Write(p)
    PROVE  TypeInv'
<1> USE ConstantsOK DEF Goto, Goroutines
<1>0. /\ p # Consumer
      /\ p \in Goroutines
      /\ pc[p] # "idle" => Current(p) \in Message
  BY CurrentIsMessage
<1>1. CASE BeginWrite(p)
  BY <1>0, <1>1 DEF BeginWrite, TypeInv, TypeOK, Shaped
<1>2. CASE GetReadLock(p)
  BY <1>0, <1>2 DEF GetReadLock, TypeInv, TypeOK, Shaped
<1>3. CASE CheckClosed(p)
  BY <1>0, <1>3 DEF CheckClosed, Released, KeptForSend, TypeInv, TypeOK, Shaped
<1>4. CASE Send(p)
  <2>1. Current(p) \in Message
    BY <1>0, <1>4 DEF Send
  <2>2. queue' \in Seq(Message) /\ Len(queue') <= QueueSize
    <3>1. CASE HasRoom
      <4>1. queue \in Seq(Message) /\ queue' = Append(queue, Current(p))
        BY <1>4, <3>1 DEF Send, TypeInv, TypeOK
      <4>2. queue' \in Seq(Message) /\ Len(queue') = Len(queue) + 1
        BY <2>1, <4>1
      <4> QED BY <3>1, <4>1, <4>2, LenProperties DEF HasRoom
    <3>2. CASE ~HasRoom
      BY <1>4, <3>2 DEF Send, TypeInv, TypeOK
    <3> QED BY <3>1, <3>2
  <2> QED
    BY <1>0, <1>4, <2>1, <2>2
       DEF Send, Released, KeptForSync, TypeInv, TypeOK, Shaped
<1>5. CASE LockOutput(p)
  BY <1>0, <1>5 DEF LockOutput, TypeInv, TypeOK, Shaped
<1>6. CASE SyncWrite(p)
  <2>1. Current(p) \in Message
    BY <1>0, <1>6 DEF SyncWrite
  <2>2. out' \in Seq(Message)
    BY <1>6, <2>1, OutputKeepsType DEF SyncWrite, TypeInv, TypeOK
  <2> QED
    BY <1>0, <1>6, <2>1, <2>2 DEF SyncWrite, Released, TypeInv, TypeOK, Shaped
<1> QED BY <1>1, <1>2, <1>3, <1>4, <1>5, <1>6 DEF Write

\* The consumer keeps the types.
LEMMA ConsumerKeepsType ==
    ASSUME TypeInv, SafeInv, Consume
    PROVE  TypeInv'
<1> USE ConstantsOK DEF Goto, Goroutines
<1>1. CASE Receive
  <2>1. CASE queue = <<>>
    BY <1>1, <2>1 DEF Receive, TypeInv, TypeOK, Shaped
  <2>2. CASE queue # <<>>
    <3>1. /\ Head(queue) \in Message
          /\ Tail(queue) \in Seq(Message)
          /\ Len(Tail(queue)) <= QueueSize
      BY <2>2 DEF TypeInv, TypeOK
    <3> QED
      BY <1>1, <2>2, <3>1 DEF Receive, Drained, TypeInv, TypeOK, Shaped
  <2> QED BY <2>1, <2>2
<1>2. CASE ConsumerLock
  BY <1>2 DEF ConsumerLock, TypeInv, TypeOK, Shaped
<1>3. CASE ConsumerWrite
  <2>1. out' \in Seq(Message)
    BY <1>3, OutputKeepsType DEF ConsumerWrite, TypeInv, TypeOK, Shaped
  <2> QED
    BY <1>3, <2>1 DEF ConsumerWrite, TypeInv, TypeOK, Shaped
<1> QED BY <1>1, <1>2, <1>3 DEF Consume

\* A goroutine that closes keeps the types.
LEMMA CloserKeepsType ==
    ASSUME TypeInv, SafeInv, NEW c \in Closers, BeginClose(c) \/ Close(c)
    PROVE  TypeInv'
<1> USE ConstantsOK DEF Goto, Goroutines
<1>0. /\ c # Consumer
      /\ c \notin Producers
      /\ c \in Goroutines
  OBVIOUS
<1>1. CASE BeginClose(c)
  BY <1>0, <1>1 DEF BeginClose, TypeInv, TypeOK, Shaped
<1>2. CASE CallLock(c)
  BY <1>0, <1>2 DEF CallLock, TypeInv, TypeOK, Shaped
<1>3. CASE GetLock(c)
  BY <1>0, <1>3 DEF GetLock, UnlockedAgain, TypeInv, TypeOK, Shaped
<1>4. CASE CloseChannel(c)
  BY <1>0, <1>4 DEF CloseChannel, TypeInv, TypeOK, Shaped
<1>5. CASE WaitForConsumer(c)
  BY <1>0, <1>5 DEF WaitForConsumer, TypeInv, TypeOK, Shaped
<1>6. CASE CloseFile(c)
  BY <1>0, <1>6 DEF CloseFile, TypeInv, TypeOK, Shaped
<1> QED BY <1>1, <1>2, <1>3, <1>4, <1>5, <1>6 DEF Close
-----------------------------------------------------------------------------
(* Lines *)

Has(seq, m) == \E i \in 1 .. Len(seq) : seq[i] = m
Distinct(seq) == \A i, j \in 1 .. Len(seq) : seq[i] = seq[j] => i = j

\* The line between the channel and the log.
Held(m) == pc[Consumer] \in {"output", "write"} /\ msg = m
Somewhere(m) == Has(out, m) \/ Has(queue, m) \/ Held(m)

\* Lines that are somewhere were begun, and their Write is over.
Begun(m) == /\ m[2] <= calls[m[1]]
            /\ pc[m[1]] # "idle" => m[2] < calls[m[1]]

\* An accepted line is in exactly one place, once.
Lines ==
    /\ Distinct(out) /\ Distinct(queue)
    /\ \A m \in Message :
          /\ m \in accepted => Somewhere(m)
          /\ Somewhere(m) => Begun(m)
          /\ ~(Has(out, m) /\ Has(queue, m))
          /\ Held(m) => ~Has(out, m) /\ ~Has(queue, m)
    /\ pc[Consumer] = "done" => queue = <<>>

\* Appending adds one element and keeps a sequence free of repetitions.
LEMMA AppendAdds ==
    ASSUME NEW S, NEW seq \in Seq(S), NEW e \in S
    PROVE  /\ \A m : Has(Append(seq, e), m) <=> Has(seq, m) \/ m = e
           /\ Distinct(seq) /\ ~Has(seq, e) => Distinct(Append(seq, e))
<1>1. /\ Len(seq) \in Nat
      /\ Len(Append(seq, e)) = Len(seq) + 1
      /\ \A i \in 1 .. Len(seq) : Append(seq, e)[i] = seq[i]
      /\ Append(seq, e)[Len(seq) + 1] = e
  BY AppendProperties, LenProperties
<1> QED BY <1>1 DEF Has, Distinct

\* A sequence without repetitions is its head and, elsewhere, its tail.
LEMMA TailLoses ==
    ASSUME NEW S, NEW seq \in Seq(S), seq # <<>>
    PROVE  /\ \A m : Has(seq, m) <=> m = Head(seq) \/ Has(Tail(seq), m)
           /\ Distinct(seq) => Distinct(Tail(seq)) /\ ~Has(Tail(seq), Head(seq))
<1>1. /\ Len(seq) \in Nat \ {0}
      /\ Head(seq) = seq[1]
      /\ Len(Tail(seq)) = Len(seq) - 1
      /\ \A i \in 1 .. Len(Tail(seq)) : Tail(seq)[i] = seq[i + 1]
  BY HeadTailProperties, EmptySeq, LenProperties
<1>2. ASSUME NEW m PROVE Has(seq, m) <=> m = Head(seq) \/ Has(Tail(seq), m)
  <2>1. ASSUME Has(seq, m), m # Head(seq) PROVE Has(Tail(seq), m)
    <3>1. PICK i \in 1 .. Len(seq) : seq[i] = m
      BY <2>1 DEF Has
    <3>2. i - 1 \in 1 .. Len(Tail(seq)) /\ Tail(seq)[i - 1] = m
      BY <1>1, <2>1, <3>1
    <3> QED BY <3>2 DEF Has
  <2>2. ASSUME Has(Tail(seq), m) PROVE Has(seq, m)
    <3>1. PICK i \in 1 .. Len(Tail(seq)) : Tail(seq)[i] = m
      BY <2>2 DEF Has
    <3>2. i + 1 \in 1 .. Len(seq) /\ seq[i + 1] = m
      BY <1>1, <3>1
    <3> QED BY <3>2 DEF Has
  <2>3. Has(seq, Head(seq))
    BY <1>1 DEF Has
  <2> QED BY <2>1, <2>2, <2>3
<1>3. ASSUME Distinct(seq) PROVE Distinct(Tail(seq)) /\ ~Has(Tail(seq), Head(seq))
  BY <1>1, <1>3 DEF Distinct, Has
<1> QED BY <1>2, <1>3

LEMMA LinesInit == ASSUME Init PROVE Lines
<1>1. Len(<<>>) = 0
  OBVIOUS
<1> QED
  BY <1>1, ConstantsOK
     DEF Init, Lines, Has, Distinct, Somewhere, Held, Begun, Goroutines

\* Steps that touch neither the lines nor the counts, and make no idle
\* goroutine begin.
LEMMA LinesKept ==
    ASSUME Lines, TypeInv,
           UNCHANGED <<out, queue, msg, accepted, calls>>,
           pc'[Consumer] = pc[Consumer]
               \/ {pc[Consumer], pc'[Consumer]} = {"output", "write"},
           \A p \in Producers : pc[p] = "idle" => pc'[p] = "idle"
    PROVE  Lines'
<1>1. \A m : (Held(m))' <=> Held(m)
  BY DEF Held
<1>2. \A m \in Message : Begun(m) => (Begun(m))'
  BY DEF Begun, Message
<1> QED BY <1>1, <1>2 DEF Lines, Somewhere

\* The file is open for whoever may write to it.
LEMMA OpenWhileUsed ==
    ASSUME SafeInv
    PROVE  /\ \A p \in Producers : pc[p] \in Using => ~chClosed /\ fileOpen
           /\ pc[Consumer] # "done" => fileOpen
BY DEF SafeInv, Shutdown

\* The line a goroutine is inside Write with is nowhere yet.
LEMMA CurrentIsNew ==
    ASSUME Lines, TypeInv, NEW p \in Producers, pc[p] # "idle"
    PROVE  ~Somewhere(Current(p))
<1>1. Current(p) \in Message
  BY CurrentIsMessage
<1>2. ~Begun(Current(p))
  BY ConstantsOK DEF Begun, Current, TypeInv, TypeOK
<1> QED BY <1>1, <1>2 DEF Lines

\* A goroutine that logs puts its line into the channel or the file, once.
LEMMA WriterKeepsLines ==
    ASSUME TypeInv, SafeInv, Lines, NEW p \in Producers, BeginWrite(p) \/ Write(p)
    PROVE  Lines'
<1> USE ConstantsOK
<1>0. /\ pc \in [Goroutines -> AnyStep]
      /\ p \in Goroutines /\ p # Consumer
      /\ calls \in [Producers -> Nat]
  BY DEF TypeInv, TypeOK, AnyStep, Goroutines
<1>a. ASSUME NEW step, Goto(p, step)
      PROVE  /\ pc'[Consumer] = pc[Consumer]
             /\ \A x \in Producers : x # p => pc'[x] = pc[x]
             /\ pc'[p] = step
  BY <1>0, <1>a DEF Goto, Goroutines
<1>1. CASE BeginWrite(p)
  <2>1. /\ pc'[Consumer] = pc[Consumer]
        /\ \A x \in Producers : x # p => pc'[x] = pc[x] /\ calls'[x] = calls[x]
        /\ calls'[p] = calls[p] + 1
        /\ UNCHANGED <<out, queue, msg, accepted>>
    BY <1>0, <1>1, <1>a DEF BeginWrite
  <2>2. \A m : (Held(m))' <=> Held(m)
    BY <2>1 DEF Held
  <2>3. \A m \in Message : Begun(m) => (Begun(m))'
    BY <1>0, <1>1, <2>1 DEF Begun, Message, BeginWrite
  <2> QED BY <2>1, <2>2, <2>3 DEF Lines, Somewhere
<1>2. CASE GetReadLock(p) \/ CheckClosed(p) \/ LockOutput(p)
  BY <1>0, <1>2, <1>a, LinesKept DEF GetReadLock, CheckClosed, LockOutput
<1>3. CASE Send(p)
  <2>1. /\ ~chClosed /\ Current(p) \in Message /\ ~Somewhere(Current(p))
        /\ pc[Consumer] # "done"
    BY <1>3, OpenWhileUsed, CurrentIsMessage, CurrentIsNew
       DEF Send, Using, SafeInv, Shutdown
  <2>2. CASE HasRoom
    <3>1. /\ queue' = Append(queue, Current(p))
          /\ accepted' = accepted \cup {Current(p)}
          /\ pc[p] = "send" /\ pc'[p] = "idle" /\ pc'[Consumer] = pc[Consumer]
          /\ \A x \in Producers : x # p => pc'[x] = pc[x]
          /\ UNCHANGED <<out, msg, calls>>
      BY <1>3, <1>a, <2>1, <2>2 DEF Send
    <3>2. /\ \A m : (Has(queue, m))' <=> Has(queue, m) \/ m = Current(p)
          /\ (Distinct(queue))'
      <4>1. queue \in Seq(Message)
        BY DEF TypeInv, TypeOK
      <4>2. Distinct(queue) /\ ~Has(queue, Current(p))
        BY <2>1 DEF Lines, Somewhere
      <4>3. \A m : Has(queue', m) <=> Has(queue, m) \/ m = Current(p)
        BY <2>1, <3>1, <4>1, AppendAdds
      <4>4. Distinct(queue')
        BY <2>1, <3>1, <4>1, <4>2, AppendAdds
      <4> QED BY <4>3, <4>4 DEF Has, Distinct
    <3>3. \A m : (Held(m))' <=> Held(m)
      BY <3>1 DEF Held
    <3>4. \A m : (Has(out, m))' <=> Has(out, m)
      BY <3>1 DEF Has
    <3>5. \A m \in Message : Begun(m) \/ m = Current(p) => (Begun(m))'
      BY <1>0, <3>1 DEF Begun, Message, Current
    <3>6. (Distinct(out))'
      BY <3>1 DEF Distinct, Lines
    <3> QED
      BY <2>1, <3>1, <3>2, <3>3, <3>4, <3>5, <3>6 DEF Lines, Somewhere
  <2>3. CASE ~HasRoom
    BY <1>0, <1>3, <1>a, <2>1, <2>3, LinesKept DEF Send
  <2> QED BY <2>2, <2>3
<1>4. CASE SyncWrite(p)
  <2>1. /\ fileOpen /\ Current(p) \in Message /\ ~Somewhere(Current(p))
    BY <1>4, OpenWhileUsed, CurrentIsMessage, CurrentIsNew DEF SyncWrite, Using
  <2>2. /\ out' = Append(out, Current(p))
        /\ accepted' = accepted \cup {Current(p)}
        /\ pc[p] = "syncWrite" /\ pc'[p] = "idle" /\ pc'[Consumer] = pc[Consumer]
        /\ \A x \in Producers : x # p => pc'[x] = pc[x]
        /\ UNCHANGED <<queue, msg, calls>>
    BY <1>4, <1>a, <2>1 DEF SyncWrite, Output
  <2>3. /\ \A m : (Has(out, m))' <=> Has(out, m) \/ m = Current(p)
        /\ (Distinct(out))'
    <3>1. out \in Seq(Message)
      BY DEF TypeInv, TypeOK
    <3>2. Distinct(out) /\ ~Has(out, Current(p))
      BY <2>1 DEF Lines, Somewhere
    <3>3. \A m : Has(out', m) <=> Has(out, m) \/ m = Current(p)
      BY <2>1, <2>2, <3>1, AppendAdds
    <3>4. Distinct(out')
      BY <2>1, <2>2, <3>1, <3>2, AppendAdds
    <3> QED BY <3>3, <3>4 DEF Has, Distinct
  <2>4. \A m : (Held(m))' <=> Held(m)
    BY <2>2 DEF Held
  <2>5. \A m : (Has(queue, m))' <=> Has(queue, m)
    BY <2>2 DEF Has
  <2>6. \A m \in Message : Begun(m) \/ m = Current(p) => (Begun(m))'
    BY <1>0, <2>2 DEF Begun, Message, Current
  <2>7. (Distinct(queue))'
    BY <2>2 DEF Distinct, Lines
  <2> QED
    BY <2>1, <2>2, <2>3, <2>4, <2>5, <2>6, <2>7 DEF Lines, Somewhere
<1> QED BY <1>1, <1>2, <1>3, <1>4 DEF Write

\* The consumer moves a line from the channel to its hand and to the file.
LEMMA ConsumerKeepsLines ==
    ASSUME TypeInv, SafeInv, Lines, Consume
    PROVE  Lines'
<1> USE ConstantsOK
<1>0. ASSUME NEW step, Goto(Consumer, step)
      PROVE  /\ pc'[Consumer] = step
             /\ \A x \in Producers : pc'[x] = pc[x]
  BY <1>0 DEF Goto, Goroutines, TypeInv, TypeOK
<1>1. CASE Receive
  <2>1. CASE Drained /\ Goto(Consumer, "done") /\ UNCHANGED <<queue, msg>>
    <3>1. /\ pc[Consumer] = "receive" /\ pc'[Consumer] = "done"
          /\ queue = <<>>
          /\ \A x \in Producers : pc'[x] = pc[x]
          /\ UNCHANGED <<out, queue, msg, accepted, calls>>
      BY <1>0, <1>1, <2>1 DEF Receive, Drained
    <3>2. \A m : (Held(m))' <=> Held(m)
      BY <3>1 DEF Held
    <3>3. \A m \in Message : Begun(m) => (Begun(m))'
      BY <3>1 DEF Begun, Message
    <3> QED BY <3>1, <3>2, <3>3 DEF Lines, Somewhere
  <2>2. CASE queue # <<>> /\ msg' = Head(queue) /\ queue' = Tail(queue)
             /\ Goto(Consumer, "output")
    <3>1. /\ pc[Consumer] = "receive" /\ pc'[Consumer] = "output"
          /\ \A x \in Producers : pc'[x] = pc[x]
          /\ UNCHANGED <<out, accepted, calls>>
      BY <1>0, <1>1, <2>2 DEF Receive
    <3>2. /\ \A m : Has(queue, m) <=> m = Head(queue) \/ Has(Tail(queue), m)
          /\ Distinct(Tail(queue)) /\ ~Has(Tail(queue), Head(queue))
      BY <2>2, TailLoses DEF Lines, TypeInv, TypeOK
    <3>3. /\ \A m : Has(queue, m) <=> m = msg' \/ (Has(queue, m))'
          /\ (Distinct(queue))' /\ ~(Has(queue, msg))'
      <4>1. /\ \A m : Has(queue, m) <=> m = msg' \/ Has(queue', m)
            /\ Distinct(queue') /\ ~Has(queue', msg')
        BY <2>2, <3>2
      <4>2. \A m : (Has(queue, m))' <=> Has(queue', m)
        BY DEF Has
      <4>3. (Distinct(queue))' <=> Distinct(queue')
        BY DEF Distinct
      <4>4. (Has(queue, msg))' <=> Has(queue', msg')
        BY DEF Has
      <4> QED BY <4>1, <4>2, <4>3, <4>4
    <3>4. \A m : ~Held(m) /\ ((Held(m))' <=> m = msg')
      BY <2>2, <3>1 DEF Held
    <3>5. \A m : (Has(out, m))' <=> Has(out, m)
      BY <3>1 DEF Has
    <3>6. \A m \in Message : Begun(m) => (Begun(m))'
      BY <3>1 DEF Begun, Message
    <3>7. (Distinct(out))'
      BY <3>1 DEF Distinct, Lines
    <3> QED
      BY <2>2, <3>1, <3>2, <3>3, <3>4, <3>5, <3>6, <3>7 DEF Lines, Somewhere
  <2> QED BY <1>1, <2>1, <2>2 DEF Receive
<1>2. CASE ConsumerLock
  BY <1>0, <1>2, LinesKept DEF ConsumerLock
<1>3. CASE ConsumerWrite
  <2>1. /\ fileOpen /\ msg \in Message /\ Held(msg)
    BY <1>3, OpenWhileUsed DEF ConsumerWrite, TypeInv, Shaped, Held
  <2>2. /\ out' = Append(out, msg)
        /\ pc[Consumer] = "write" /\ pc'[Consumer] = "receive"
        /\ \A x \in Producers : pc'[x] = pc[x]
        /\ UNCHANGED <<queue, accepted, calls>>
    BY <1>0, <1>3, <2>1 DEF ConsumerWrite, Output
  <2>3. /\ \A m : (Has(out, m))' <=> Has(out, m) \/ m = msg
        /\ (Distinct(out))'
    <3>1. out \in Seq(Message)
      BY DEF TypeInv, TypeOK
    <3>2. Distinct(out) /\ ~Has(out, msg)
      BY <2>1 DEF Lines
    <3>3. \A m : Has(out', m) <=> Has(out, m) \/ m = msg
      BY <2>1, <2>2, <3>1, AppendAdds
    <3>4. Distinct(out')
      BY <2>1, <2>2, <3>1, <3>2, AppendAdds
    <3> QED BY <3>3, <3>4 DEF Has, Distinct
  <2>4. \A m : ~(Held(m))' /\ (Held(m) <=> m = msg)
    BY <2>2 DEF Held
  <2>5. \A m : (Has(queue, m))' <=> Has(queue, m)
    BY <2>2 DEF Has
  <2>6. \A m \in Message : Begun(m) => (Begun(m))'
    BY <2>2 DEF Begun, Message
  <2>7. (Distinct(queue))'
    BY <2>2 DEF Distinct, Lines
  <2> QED
    BY <2>1, <2>2, <2>3, <2>4, <2>5, <2>6, <2>7 DEF Lines, Somewhere
<1> QED BY <1>1, <1>2, <1>3 DEF Consume

\* Closing moves no line.
LEMMA CloserKeepsLines ==
    ASSUME TypeInv, SafeInv, Lines, NEW c \in Closers, BeginClose(c) \/ Close(c)
    PROVE  Lines'
<1> USE ConstantsOK
<1>0. ASSUME NEW step, Goto(c, step)
      PROVE  /\ pc'[Consumer] = pc[Consumer]
             /\ \A x \in Producers : pc'[x] = pc[x]
  BY <1>0 DEF Goto, Goroutines, TypeInv, TypeOK
<1>1. /\ UNCHANGED <<out, queue, msg, accepted, calls>>
      /\ \E step \in AnyStep : Goto(c, step)
  BY DEF BeginClose, Close, CallLock, GetLock, CloseChannel, WaitForConsumer,
         CloseFile, AnyStep
<1> QED BY <1>0, <1>1, LinesKept
-----------------------------------------------------------------------------
(* The theorems *)

IInv == TypeInv /\ SafeInv /\ Lines

LEMMA IInvInit == Init => IInv
BY TypeInit, SafeInit, LinesInit DEF IInv

LEMMA IInvStep == IInv /\ [Next]_vars => IInv'
<1> SUFFICES ASSUME IInv, [Next]_vars PROVE IInv'
  OBVIOUS
<1>1. ASSUME NEW p \in Producers, BeginWrite(p) \/ Write(p) PROVE IInv'
  BY <1>1, WriterKeepsType, WriterKeepsSafe, WriterKeepsLines DEF IInv, TypeInv
<1>2. CASE Consume
  BY <1>2, ConsumerKeepsType, ConsumerKeepsSafe, ConsumerKeepsLines DEF IInv, TypeInv
<1>3. ASSUME NEW c \in Closers, BeginClose(c) \/ Close(c) PROVE IInv'
  BY <1>3, CloserKeepsType, CloserKeepsSafe, CloserKeepsLines DEF IInv, TypeInv
<1>4. CASE UNCHANGED vars
  BY <1>4
     DEF vars, IInv, TypeInv, TypeOK, Shaped, SafeInv, Roles, Locks, Shutdown,
         Lines, Has, Distinct, Somewhere, Held, Begun, Current, Goroutines, Message
<1> QED BY <1>1, <1>2, <1>3, <1>4 DEF Next

LEMMA Invariance == Spec => []IInv
BY IInvInit, IInvStep, PTL DEF Spec

\* Every reachable state of the logger is type correct.
THEOREM TypeCorrect == Spec => []TypeOK
<1>1. IInv => TypeOK
  BY DEF IInv, TypeInv
<1> QED BY <1>1, Invariance, PTL

\* No goroutine sends on the closed channel or closes it twice.
THEOREM NeverPanics == Spec => []NoPanic
<1>1. IInv => NoPanic
  BY DEF IInv, SafeInv, Roles, WriterStep, ConsumerStep, CloserStep, NoPanic,
         Goroutines
<1> QED BY <1>1, Invariance, PTL

\* The file is only closed when nobody can write to it any more.
THEOREM FileIsClosedLast == Spec => []NobodyWritesToClosedFile
<1>1. IInv => NobodyWritesToClosedFile
  BY DEF IInv, SafeInv, Shutdown, Using, NobodyWritesToClosedFile
<1> QED BY <1>1, Invariance, PTL

\* What Close leaves behind holds every accepted line exactly once.
THEOREM NothingAcceptedIsLost == Spec => []AcceptedIsWritten
<1>1. ASSUME IInv PROVE AcceptedIsWritten
  <2> SUFFICES ASSUME NEW c \in Closers, pc[c] = "closed",
                      NEW m \in accepted
               PROVE  Times(m) = 1
    BY DEF AcceptedIsWritten
  <2>1. pc[Consumer] = "done" /\ queue = <<>> /\ m \in Message
    BY <1>1 DEF IInv, SafeInv, Shutdown, Lines, TypeInv, TypeOK
  <2>2. ~Has(queue, m) /\ ~Held(m)
    <3>1. Len(<<>>) = 0
      OBVIOUS
    <3> QED BY <2>1, <3>1 DEF Has, Held
  <2>3. Has(out, m) /\ Distinct(out)
    BY <1>1, <2>1, <2>2 DEF IInv, Lines, Somewhere
  <2>4. PICK k \in 1 .. Len(out) : out[k] = m
    BY <2>3 DEF Has
  <2>5. {i \in 1 .. Len(out) : out[i] = m} = {k}
    BY <2>3, <2>4 DEF Distinct
  <2> QED BY <2>5, FS_Singleton DEF Times
<1> QED BY <1>1, Invariance, PTL
=============================================================================
