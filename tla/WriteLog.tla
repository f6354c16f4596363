------------------------------ MODULE WriteLog ------------------------------
(***************************************************************************)
(* What the asynchronous write queue promises its callers, without         *)
(* threads, sentinels or flags: accepted writes form a log; the worker     *)
(* function is applied to the entries of that log one at a time, in order  *)
(* and never twice; and the log never runs further ahead of the worker     *)
(* than the bounded queue plus the write in the worker's hands.            *)
(***************************************************************************)
EXTENDS Integers, Sequences

CONSTANTS Write,   (* the writes callers may hand over                      *)
          Backlog  (* most accepted writes not yet handled; none if Backlog <= 0 *)

VARIABLES log,     (* the accepted writes, in acceptance order              *)
          done     (* the writes the worker function was given and left     *)

Init == log = <<>> /\ done = <<>>

(* Some write joins the log (stated without naming it, as a refinement     *)
(* knows which one it is).                                                 *)
Accept ==
  /\ Backlog > 0 => Len(log) - Len(done) < Backlog
  /\ Len(log') > Len(log)
  /\ log' = Append(log, log'[Len(log) + 1])
  /\ log'[Len(log) + 1] \in Write
  /\ UNCHANGED done

Handle ==
  /\ Len(done) < Len(log)
  /\ done' = Append(done, log[Len(done) + 1])
  /\ UNCHANGED log

Next == Accept \/ Handle

Spec == Init /\ [][Next]_<<log, done>>
=============================================================================
