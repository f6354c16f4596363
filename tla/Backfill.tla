------------------------------- MODULE Backfill -------------------------------
(***************************************************************************)
(* The nightly sweep that embeds text-only rows: backfill_null_embeddings() *)
(* of src/hermes_pgvector/store.py over one table, run by cmd_backfill() of *)
(* __main__.py in a process of its own.  Other processes change the rows   *)
(* between any two of its statements.                                      *)
(***************************************************************************)
EXTENDS MemoryRows, Sequences

CONSTANTS Undecodable,  (* contents that come back as non-UTF-8 bytes       *)
          BatchSize,    (* LIMIT of a page                                  *)
          MaxFailures,  (* max_consecutive_failures                         *)
          MaxSweeps     (* bound on runs of the command                     *)

(* Assumed where the sweep is composed with the table. *)
BackfillAssumption ==
  /\ Undecodable \subseteq Contents
  /\ BatchSize \in Nat \ {0} /\ MaxFailures \in Nat \ {0} /\ MaxSweeps \in Nat

VARIABLES
  rows,         (* memory_entries: a partial function from ids to Row       *)
  bpc,          (* where the sweep is                                       *)
  last_id,      (* the keyset cursor                                        *)
  page,         (* the rows fetched and not yet visited                     *)
  vec,          (* the embedding computed for the first of them             *)
  failed,       (* that some row failed                                     *)
  consecutive,  (* consecutive_failures                                     *)
  exit,         (* the exit code of the last sweep that ended               *)
  owed,         (* history: the text-only rows when the sweep started       *)
  sweeps        (* history: sweeps started                                  *)

NoExit == -1

Init ==
  /\ bpc = "idle" /\ last_id = 0 /\ page = <<>> /\ vec = Null
  /\ failed = FALSE /\ consecutive = 0 /\ exit = NoExit /\ owed = <<>> /\ sweeps = 0

Ends(code) ==
  /\ bpc' = "idle" /\ exit' = code
  /\ last_id' = 0 /\ page' = <<>> /\ vec' = Null /\ consecutive' = 0

(* The dimension probe: a wrong dimension raises, an unreachable endpoint  *)
(* ends the run with a note.                                               *)
Probe ==
  /\ bpc = "idle" /\ sweeps < MaxSweeps
  /\ sweeps' = sweeps + 1 /\ failed' = FALSE /\ owed' = <<>>
  /\ \/ bpc' = "count" /\ exit' = NoExit /\ UNCHANGED <<last_id, page, vec, consecutive>>
     \/ Ends(2)
     \/ Ends(1)
  /\ UNCHANGED rows

CountTextOnly ==
  /\ bpc = "count" /\ bpc' = "page"
  /\ owed' = [i \in TextOnly(rows, 0) |-> rows[i]]
  /\ UNCHANGED <<rows, last_id, page, vec, failed, consecutive, exit, sweeps>>

(* The rows of a page over the given ids.                                  *)
Page(ids) == [k \in DOMAIN ids |-> [id |-> ids[k], content |-> rows[ids[k]].content]]
Ascending(ids) == \A j, k \in DOMAIN ids : j < k => ids[j] < ids[k]

(* A variant whose SELECT has no LIMIT. *)
Fetch_NoLimit(found) ==
  {Page(ids) : ids \in {s \in [1..Cardinality(found) -> found] : Ascending(s)}}

(* SELECT ... WHERE embedding IS NULL AND id > last_id ORDER BY id LIMIT n: *)
(* all of them, or the first n.                                            *)
Fetch(found) ==
  {Page(ids) : ids \in {s \in UNION {[1..n -> found] : n \in 0..BatchSize} :
     /\ Ascending(s)
     /\ \A i \in found : \/ \E k \in DOMAIN s : s[k] = i
                         \/ Len(s) = BatchSize /\ \A k \in DOMAIN s : s[k] < i}}

(* A variant that pages by offset: the rows it healed are skipped twice.   *)
SelectPage_Offset ==
  /\ bpc = "page"
  /\ LET all == {i \in TextOnly(rows, 0) :
                   Cardinality({j \in TextOnly(rows, 0) : j < i})
                     >= Cardinality({j \in DOMAIN owed : j <= last_id})}
     IN  page' \in Fetch(all)
  /\ bpc' = IF page' = <<>> THEN "final" ELSE "row"
  /\ UNCHANGED <<rows, last_id, vec, failed, consecutive, exit, owed, sweeps>>

SelectPage ==
  /\ bpc = "page"
  /\ page' \in Fetch(TextOnly(rows, last_id))
  /\ bpc' = IF page' = <<>> THEN "final" ELSE "row"
  /\ UNCHANGED <<rows, last_id, vec, failed, consecutive, exit, owed, sweeps>>

(* The next row of the page, or the next page. *)
Advance(stop) ==
  /\ page' = IF stop THEN <<>> ELSE Tail(page)
  /\ bpc' = IF stop THEN "final" ELSE IF page' = <<>> THEN "page" ELSE "row"
  /\ vec' = Null

(* Bytes that are not UTF-8 fail the row and say nothing of the endpoint.  *)
SkipUndecodable_SameCursor ==
  /\ bpc = "row" /\ Head(page).content \in Undecodable
  /\ failed' = TRUE
  /\ Advance(FALSE)
  /\ UNCHANGED <<rows, last_id, consecutive, exit, owed, sweeps>>

SkipUndecodable ==
  /\ bpc = "row" /\ Head(page).content \in Undecodable
  /\ last_id' = Head(page).id
  /\ failed' = TRUE
  /\ Advance(FALSE)
  /\ UNCHANGED <<rows, consecutive, exit, owed, sweeps>>

Embed ==
  /\ bpc = "row" /\ Head(page).content \notin Undecodable
  /\ last_id' = Head(page).id
  /\ vec' = Head(page).content /\ bpc' = "update"
  /\ UNCHANGED <<rows, page, failed, consecutive, exit, owed, sweeps>>

(* The embed raises, or the update does: the breaker counts both.          *)
RowFails ==
  /\ \/ bpc = "row" /\ Head(page).content \notin Undecodable
     \/ bpc = "update"
  /\ last_id' = Head(page).id
  /\ failed' = TRUE /\ consecutive' = consecutive + 1
  /\ Advance(consecutive' >= MaxFailures)
  /\ UNCHANGED <<rows, exit, owed, sweeps>>

(* A variant whose UPDATE is guarded by the id and the NULL alone.         *)
UpdateRow_NoContentGuard ==
  /\ bpc = "update"
  /\ LET id == Head(page).id
     IN  rows' = IF id \in DOMAIN rows /\ rows[id].embedding = Null
                 THEN [rows EXCEPT ![id].embedding = vec] ELSE rows
  /\ consecutive' = 0
  /\ Advance(FALSE)
  /\ UNCHANGED <<last_id, failed, exit, owed, sweeps>>

(* UPDATE ... WHERE id = ? AND embedding IS NULL AND content = ?           *)
UpdateRow ==
  /\ bpc = "update"
  /\ LET id == Head(page).id
     IN  rows' = IF /\ id \in DOMAIN rows
                    /\ rows[id].embedding = Null /\ rows[id].content = Head(page).content
                 THEN [rows EXCEPT ![id].embedding = vec] ELSE rows
  /\ consecutive' = 0
  /\ Advance(FALSE)
  /\ UNCHANGED <<last_id, failed, exit, owed, sweeps>>

(* The final count, and the exit code of cmd_backfill(). *)
Finish ==
  /\ bpc = "final"
  /\ Ends(IF consecutive >= MaxFailures THEN 2
          ELSE IF TextOnly(rows, 0) # {} \/ failed THEN 3 ELSE 0)
  /\ UNCHANGED <<rows, failed, owed, sweeps>>

(* A SELECT raises, or the process is killed. *)
Dies ==
  /\ bpc # "idle"
  /\ Ends(1)
  /\ UNCHANGED <<rows, failed, owed, sweeps>>

Step ==
  \/ CountTextOnly \/ SelectPage \/ SkipUndecodable \/ Embed \/ RowFails
  \/ UpdateRow \/ Finish

Next == Probe \/ Step \/ Dies

-----------------------------------------------------------------------------
TypeOK ==
  /\ bpc \in {"idle", "count", "page", "row", "update", "final"}
  /\ last_id \in Nat /\ failed \in BOOLEAN /\ sweeps \in Nat
  /\ consecutive \in 0..MaxFailures
  /\ vec \in Contents \cup {Null} /\ exit \in {NoExit, 0, 1, 2, 3}
  /\ page \in Seq([id : Nat \ {0}, content : Contents]) /\ Len(page) <= BatchSize
  /\ DOMAIN owed \subseteq Nat \ {0}
=============================================================================
