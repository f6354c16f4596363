------------------------------ MODULE MemoryRows ------------------------------
(***************************************************************************)
(* The table memory_entries and the SQL statements that MemoryStore runs   *)
(* on it (src/hermes_pgvector/store.py), each as a function from the rows  *)
(* before to the rows after.  A statement is one atomic step: PostgreSQL   *)
(* re-evaluates its WHERE clause on a row that another transaction changed. *)
(***************************************************************************)
EXTENDS Integers, FiniteSetsExt

CONSTANTS Contents,  (* the texts an entry may hold                         *)
          Blank,     (* those of them that str.strip() empties              *)
          LikePairs, (* pairs <<text, pattern>>: text LIKE '%pattern%'      *)
          Null       (* the embedding of a text-only row                    *)

ASSUME RowsAssumption ==
  /\ Null \notin Contents
  /\ Blank \subseteq Contents
  /\ \A c \in Contents : <<c, c>> \in LikePairs

(* A vector is known by the text it was computed from; edits counts the    *)
(* changes of updated_at.                                                  *)
Row == [agent : STRING, content : Contents, embedding : Contents \cup {Null}, edits : Nat]

Scope(rows, agent) == {i \in DOMAIN rows : rows[i].agent = agent}
TextsOf(rows, agent) == {rows[i].content : i \in Scope(rows, agent)}

(* The rows matched by "content = text" and by "content LIKE '%text%'"; a  *)
(* blank text matches nothing.                                             *)
Exactly(rows, agent, text) ==
  {i \in Scope(rows, agent) : rows[i].content = text /\ text \notin Blank}
Like(rows, agent, text) ==
  {i \in Scope(rows, agent) : <<rows[i].content, text>> \in LikePairs /\ text \notin Blank}

(* INSERT ... ON CONFLICT DO NOTHING, under the next id of the sequence.   *)
Insert(rows, id, agent, text, vec) ==
  IF text \in TextsOf(rows, agent) THEN rows
  ELSE [i \in DOMAIN rows \cup {id} |->
          IF i = id THEN [agent |-> agent, content |-> text, embedding |-> vec, edits |-> 0]
          ELSE rows[i]]

(* Updating row id to text would give its scope two rows with that text.   *)
Violates(rows, id, text) ==
  \E j \in DOMAIN rows \ {id} : rows[j].agent = rows[id].agent /\ rows[j].content = text

Update(rows, id, text, vec) ==
  [rows EXCEPT ![id].content = text, ![id].embedding = vec, ![id].edits = @ + 1]

Delete(rows, ids) == [i \in DOMAIN rows \ ids |-> rows[i]]

(* The ids a backfill query of last_id returns: text-only rows with text.  *)
TextOnly(rows, last_id) ==
  {i \in DOMAIN rows : i > last_id /\ rows[i].embedding = Null /\ rows[i].content \notin Blank}
=============================================================================
