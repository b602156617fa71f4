--------------------------- MODULE MCAsyncLogger ---------------------------
(* A small instance of AsyncLogger: two goroutines that log twice each over *)
(* a channel of one place, and two that close.                              *)
EXTENDS AsyncLogger
=============================================================================
