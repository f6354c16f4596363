----------------------------- MODULE MemoryTable -----------------------------
(***************************************************************************)
(* One table, two processes: an agent's provider that mirrors its memory   *)
(* (MemoryMirror) while the nightly sweep embeds text-only rows (Backfill). *)
(* They share the rows and nothing else.                                   *)
(***************************************************************************)
EXTENDS Integers, Sequences

CONSTANTS Contents, Blank, LikePairs, Null, Agent,
          MaxQueue, EmbedBreaker, MaxWrites, MaxSessions,
          Undecodable, BatchSize, MaxFailures, MaxSweeps

VARIABLES rows, seq, disk, call, via, queue, item, stage, session, todo, existing, breaker,
          gap, missing, stale, writes, sessions,
          bpc, last_id, page, vec, failed, consecutive, exit, owed, sweeps

Mirror == INSTANCE MemoryMirror
Sweep  == INSTANCE Backfill

ASSUME TableAssumption ==
  Mirror!RowsAssumption /\ Mirror!MirrorAssumption /\ Sweep!BackfillAssumption

mirrorOnly == <<seq, disk, call, via, queue, item, stage, session, todo, existing, breaker,
                gap, missing, stale, writes, sessions>>
sweepOnly == <<bpc, last_id, page, vec, failed, consecutive, exit, owed, sweeps>>
vars == <<rows, mirrorOnly, sweepOnly>>

Init == Mirror!Init /\ Sweep!Init

Next ==
  \/ Mirror!Next /\ UNCHANGED sweepOnly
  \/ Sweep!Next /\ UNCHANGED mirrorOnly

Spec == Init /\ [][Next]_vars

(* The sweep's process is scheduled, and its embed and database calls have *)
(* timeouts; nobody owes it a successful one.                              *)
FairSpec == Spec /\ WF_vars(Sweep!Step /\ UNCHANGED mirrorOnly)

-----------------------------------------------------------------------------
TypeOK == Mirror!TypeOK /\ Sweep!TypeOK

(* A row's embedding is that of the row's text, or absent, whatever a      *)
(* replace() does between the sweep's SELECT and its UPDATE, or the sweep  *)
(* between the worker's embed and its statement.                           *)
EmbeddingMatchesContent ==
  \A i \in DOMAIN rows : rows[i].embedding \in {Null, rows[i].content}

(* A sweep that ends by itself with no failed row has left no row it       *)
(* found text-only as it found it: each is embedded, deleted, or was       *)
(* edited meanwhile.                                                       *)
SweepHealsWhatItFound ==
  (bpc = "idle" /\ exit \in {0, 3} /\ ~failed) =>
    \A i \in DOMAIN owed :
      ~(i \in DOMAIN rows /\ rows[i] = owed[i])

(* A sweep ends, whatever rows fail: a failing row is visited once.        *)
SweepEnds == (bpc # "idle") ~> (bpc = "idle")
=============================================================================
