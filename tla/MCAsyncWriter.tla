---------------------------- MODULE MCAsyncWriter ----------------------------
(***************************************************************************)
(* AsyncWriter for TLC: two concurrent callers of enqueue(), a queue of    *)
(* two entries, three writes, a crash, a shutdown and three drain threads,  *)
(* so that the queue fills, the sentinel meets a full queue, a crashed     *)
(* thread is replaced and a drained writer is restarted.                   *)
(***************************************************************************)
EXTENDS AsyncWriter
=============================================================================
