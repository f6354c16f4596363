----------------------------- MODULE Maintenance -----------------------------
(***************************************************************************)
(* Operator maintenance on a live table: remap_identity() and              *)
(* delete_by_identity() of src/hermes_pgvector/store.py, run by the remap  *)
(* and cleanup commands, while agents go on writing.  Each command is one  *)
(* READ COMMITTED transaction: every statement sees what has been          *)
(* committed when it starts, and its own effects are invisible to others   *)
(* until it commits.  Advisory lock 9999 keeps these commands apart; the   *)
(* agents' statements and prune_conversations() do not take it.            *)
(***************************************************************************)
EXTENDS MemoryRows, Sequences

CONSTANTS Identities,  (* the agent identities on the table                 *)
          Operators,   (* processes that run maintenance commands           *)
          Nobody,      (* the advisory lock is free                         *)
          DupLimit,    (* duplicates a remap may drop without force         *)
          Tables,      (* what both tables may hold at first                *)
          MaxOps,      (* bound on maintenance commands                     *)
          MaxWrites    (* bound on statements of the agents and prunes      *)

ASSUME MaintenanceAssumption ==
  /\ Identities \subseteq STRING /\ Nobody \notin Operators
  /\ DupLimit \in Nat /\ MaxOps \in Nat /\ MaxWrites \in Nat
  /\ \A t \in Tables :
       /\ t.rows \in Seq(Row) /\ t.turns \in [Identities -> Nat]
       /\ \A i, j \in DOMAIN t.rows :
            i # j => <<t.rows[i].agent, t.rows[i].content>> # <<t.rows[j].agent, t.rows[j].content>>

VARIABLES
  rows,    (* memory_entries, as committed                                  *)
  turns,   (* conversations, as committed: the turns of each identity       *)
  seq,     (* the next id of the sequence                                   *)
  lock,    (* who holds advisory lock 9999                                  *)
  mpc,     (* the next statement of each operator's command                 *)
  cmd,     (* the command it runs                                           *)
  counted, (* what the command counted: rows (of a remap: duplicates), and   *)
           (* turns, of each identity; it reports their sum                 *)
  tx,      (* the uncommitted effects of its transaction                    *)
  result,  (* what its last command reported, and what was true of it       *)
  raced,   (* history: an agent or a prune wrote under a command's          *)
           (* identities between its count under the lock and its commit    *)
  ops,     (* history: commands begun                                       *)
  writes   (* history: statements of agents, and prunes                     *)

vars == <<rows, turns, seq, lock, mpc, cmd, counted, tx, result, raced, ops, writes>>

Remap(old, new, force) == [kind |-> "remap", olds |-> {old}, new |-> new, force |-> force]
Cleanup(identities) == [kind |-> "cleanup", olds |-> identities, new |-> "", force |-> FALSE]
NoCmd == Cleanup({})

Old(m) == CHOOSE a \in cmd[m].olds : TRUE
Named(m) == cmd[m].olds \cup {cmd[m].new}
ScopeOf(m) == UNION {Scope(rows, a) : a \in cmd[m].olds}

(* Inserted rows by id, deleted ids, and moved or deleted turns, which the *)
(* transaction locks.                                                      *)
NoTurns == [a \in Identities |-> 0]
NoTx == [ins |-> <<>>, del |-> {}, turns |-> NoTurns]
Nothing == [rows |-> 0, turns |-> NoTurns]
NoResult == [kind |-> "none", reported |-> Nothing, actual |-> Nothing, forced |-> FALSE, raced |-> FALSE]

(* The rows of identity old whose text identity new holds as well. *)
Duplicates(old, new) == {i \in Scope(rows, old) : rows[i].content \in TextsOf(rows, new)}

Init ==
  /\ \E t \in Tables : rows = t.rows /\ turns = t.turns /\ seq = Len(t.rows) + 1
  /\ lock = Nobody /\ mpc = [m \in Operators |-> "idle"]
  /\ cmd = [m \in Operators |-> NoCmd] /\ counted = [m \in Operators |-> Nothing]
  /\ tx = [m \in Operators |-> NoTx] /\ result = [m \in Operators |-> NoResult]
  /\ raced = [m \in Operators |-> FALSE] /\ ops = 0 /\ writes = 0

-----------------------------------------------------------------------------
(* What the agents' workers do: single statements that commit at once. A   *)
(* statement waits for a transaction that inserted or deleted the same key *)
(* or locked the row.                                                     *)

KeyFree(a, text) ==
  \A m \in Operators :
    /\ \A i \in DOMAIN tx[m].ins : ~(tx[m].ins[i].agent = a /\ tx[m].ins[i].content = text)
    /\ tx[m].del \cap {i \in Scope(rows, a) : rows[i].content = text} = {}

Unlocked(i) == \A m \in Operators : i \notin tx[m].del

Touches(identities) ==
  /\ writes < MaxWrites
  /\ writes' = writes + 1
  /\ raced' = [m \in Operators |->
       raced[m] \/ (mpc[m] \notin {"idle", "lock", "count"} /\ identities \cap Named(m) # {})]
  /\ UNCHANGED <<lock, mpc, cmd, counted, tx, result, ops>>

AgentAdds(a, text) ==
  /\ Touches({a}) /\ KeyFree(a, text)
  /\ rows' = Insert(rows, seq, a, text, Null)
  /\ seq' = seq + 1
  /\ UNCHANGED turns

AgentReplaces(a, text, new) ==
  /\ Touches({a}) /\ KeyFree(a, new)
  /\ \E i \in Exactly(rows, a, text) :
       /\ Unlocked(i) /\ ~Violates(rows, i, new)
       /\ rows' = Update(rows, i, new, Null)
  /\ UNCHANGED <<turns, seq>>

(* remove(), and the DELETE that replace() falls back on when the new text *)
(* exists already.                                                         *)
AgentRemoves(a, text) ==
  /\ Touches({a})
  /\ \E i \in Exactly(rows, a, text) : Unlocked(i) /\ rows' = Delete(rows, {i})
  /\ UNCHANGED <<turns, seq>>

AgentAppendsTurn(a) ==
  /\ Touches({a})
  /\ turns' = [turns EXCEPT ![a] = @ + 1]
  /\ UNCHANGED <<rows, seq>>

(* prune_conversations(): one DELETE, outside the lock, of the turns       *)
(* beyond an age, some of every identity.  It waits for turns that a       *)
(* transaction holds.                                                      *)
Prune(old) ==
  /\ Touches({a \in Identities : old[a] > 0}) /\ old # NoTurns
  /\ \A a \in Identities : old[a] <= turns[a]
  /\ \A a \in Identities, m \in Operators : old[a] > 0 => tx[m].turns[a] = 0
  /\ turns' = [a \in Identities |-> turns[a] - old[a]]
  /\ UNCHANGED <<rows, seq>>

-----------------------------------------------------------------------------
(* The beginning and the end of a command *)

Begin(m, c) ==
  /\ mpc[m] = "idle" /\ ops < MaxOps
  /\ ops' = ops + 1
  /\ cmd' = [cmd EXCEPT ![m] = c]
  /\ raced' = [raced EXCEPT ![m] = FALSE]
  /\ result' = [result EXCEPT ![m] = NoResult]
  /\ mpc' = [mpc EXCEPT ![m] = "lock"]
  /\ UNCHANGED <<rows, turns, seq, lock, counted, tx, writes>>

(* A variant of remap that takes any two identities. *)
RemapBegins_Any(m, old, new, force) == Begin(m, Remap(old, new, force))

(* Identity-equal remaps are refused before any row is read.  The counts   *)
(* made before the lock feed the report of a dry run alone.                *)
RemapBegins(m, old, new, force) == old # new /\ Begin(m, Remap(old, new, force))

CleanupBegins(m, identities) == Begin(m, Cleanup(identities))

(* A variant that does not wait for the lock. *)
TakeLock_NoWait(m) ==
  /\ mpc[m] = "lock"
  /\ lock' = m
  /\ mpc' = [mpc EXCEPT ![m] = "count"]
  /\ UNCHANGED <<rows, turns, seq, cmd, counted, tx, result, raced, ops, writes>>

(* SELECT pg_advisory_xact_lock(9999) *)
TakeLock(m) ==
  /\ mpc[m] = "lock" /\ lock = Nobody
  /\ lock' = m
  /\ mpc' = [mpc EXCEPT ![m] = "count"]
  /\ UNCHANGED <<rows, turns, seq, cmd, counted, tx, result, raced, ops, writes>>

(* The transaction ends; its advisory lock goes with it. *)
Ends(m) ==
  /\ lock' = IF lock = m THEN Nobody ELSE lock
  /\ mpc' = [mpc EXCEPT ![m] = "idle"]
  /\ tx' = [tx EXCEPT ![m] = NoTx]
  /\ counted' = [counted EXCEPT ![m] = Nothing]
  /\ cmd' = [cmd EXCEPT ![m] = NoCmd]
  /\ raced' = [raced EXCEPT ![m] = FALSE]
  /\ UNCHANGED <<ops, writes>>

(* A statement raises, or the process dies: everything is rolled back. *)
RollBack(m) ==
  /\ mpc[m] # "idle"
  /\ Ends(m)
  /\ result' = [result EXCEPT ![m] = NoResult]
  /\ UNCHANGED <<rows, turns, seq>>

-----------------------------------------------------------------------------
(* remap_identity() *)

(* A variant that does not count again under the lock. *)
RecountDuplicates_Never(m) ==
  /\ mpc[m] = "count" /\ cmd[m].kind = "remap"
  /\ mpc' = [mpc EXCEPT ![m] = "insert"]
  /\ UNCHANGED <<rows, turns, seq, lock, cmd, counted, tx, result, raced, ops, writes>>

(* The recount under the lock; too many duplicates need force. *)
RecountDuplicates(m) ==
  /\ mpc[m] = "count" /\ cmd[m].kind = "remap"
  /\ LET n == Cardinality(Duplicates(Old(m), cmd[m].new))
     IN  /\ n <= DupLimit \/ cmd[m].force
         /\ counted' = [counted EXCEPT ![m].rows = n]
  /\ mpc' = [mpc EXCEPT ![m] = "insert"]
  /\ UNCHANGED <<rows, turns, seq, lock, cmd, tx, result, raced, ops, writes>>

RemapRefused(m) ==
  /\ mpc[m] = "count" /\ cmd[m].kind = "remap"
  /\ Cardinality(Duplicates(Old(m), cmd[m].new)) > DupLimit /\ ~cmd[m].force
  /\ Ends(m)
  /\ result' = [result EXCEPT ![m] = NoResult]
  /\ UNCHANGED <<rows, turns, seq>>

(* INSERT INTO ... SELECT ... ON CONFLICT DO NOTHING, in order of id. *)
CopyRows(m) ==
  /\ mpc[m] = "insert"
  /\ LET src == ScopeOf(m) \ Duplicates(Old(m), cmd[m].new)
         NewId(i) == seq + Cardinality({j \in src : j < i})
         Source(id) == CHOOSE i \in src : NewId(i) = id
     IN  /\ tx' = [tx EXCEPT ![m].ins = [id \in {NewId(i) : i \in src} |->
                     [rows[Source(id)] EXCEPT !.agent = cmd[m].new]]]
         /\ seq' = seq + Cardinality(src)
  /\ mpc' = [mpc EXCEPT ![m] = "delete"]
  /\ UNCHANGED <<rows, turns, lock, cmd, counted, result, raced, ops, writes>>

(* DELETE ... WHERE agent_identity = old, or = ANY(identities), on what is *)
(* committed by now.                                                       *)
DeleteOld(m) ==
  /\ mpc[m] = "delete"
  /\ tx' = [tx EXCEPT ![m].del = ScopeOf(m)]
  /\ mpc' = [mpc EXCEPT ![m] = IF cmd[m].kind = "remap" THEN "turns" ELSE "count turns"]
  /\ UNCHANGED <<rows, turns, seq, lock, cmd, counted, result, raced, ops, writes>>

TurnsOf(m) == [a \in Identities |-> IF a \in cmd[m].olds THEN turns[a] ELSE 0]

(* UPDATE conversations, whose row count is reported, or cleanup's DELETE  *)
(* of the second table, which was counted before.                          *)
TakeTurns(m) ==
  /\ mpc[m] = "turns"
  /\ tx' = [tx EXCEPT ![m].turns = TurnsOf(m)]
  /\ counted' = IF cmd[m].kind = "cleanup" THEN counted
                ELSE [counted EXCEPT ![m].turns = TurnsOf(m)]
  /\ mpc' = [mpc EXCEPT ![m] = "commit"]
  /\ UNCHANGED <<rows, turns, seq, lock, cmd, result, raced, ops, writes>>

-----------------------------------------------------------------------------
(* delete_by_identity() *)

CountRows(m) ==
  /\ mpc[m] = "count" /\ cmd[m].kind = "cleanup"
  /\ counted' = [counted EXCEPT ![m].rows = Cardinality(ScopeOf(m))]
  /\ mpc' = [mpc EXCEPT ![m] = IF ScopeOf(m) = {} THEN "count turns" ELSE "delete"]
  /\ UNCHANGED <<rows, turns, seq, lock, cmd, tx, result, raced, ops, writes>>

CountTurns(m) ==
  /\ mpc[m] = "count turns"
  /\ counted' = [counted EXCEPT ![m].turns = TurnsOf(m)]
  /\ mpc' = [mpc EXCEPT ![m] = IF TurnsOf(m) = NoTurns THEN "commit" ELSE "turns"]
  /\ UNCHANGED <<rows, turns, seq, lock, cmd, tx, result, raced, ops, writes>>

(* The commit makes the command's effects visible and its result true or   *)
(* false: what a remap says it dropped and moved, what a cleanup says it   *)
(* deleted.                                                                *)
Commit(m) ==
  /\ mpc[m] = "commit"
  /\ rows' = [i \in (DOMAIN rows \ tx[m].del) \cup DOMAIN tx[m].ins |->
                IF i \in DOMAIN rows THEN rows[i] ELSE tx[m].ins[i]]
  /\ turns' = [a \in Identities |->
       turns[a] - tx[m].turns[a]
         + IF cmd[m].kind = "remap" /\ a = cmd[m].new THEN tx[m].turns[Old(m)] ELSE 0]
  /\ result' = [result EXCEPT ![m] =
       [kind |-> cmd[m].kind, reported |-> counted[m], forced |-> cmd[m].force, raced |-> raced[m],
        actual |-> [rows |-> Cardinality(tx[m].del) - Cardinality(DOMAIN tx[m].ins),
                    turns |-> tx[m].turns]]]
  /\ Ends(m)
  /\ UNCHANGED seq

-----------------------------------------------------------------------------
Command(m) ==
  \/ TakeLock(m) \/ RollBack(m) \/ Commit(m)
  \/ RecountDuplicates(m) \/ RemapRefused(m) \/ CopyRows(m) \/ DeleteOld(m) \/ TakeTurns(m)
  \/ CountRows(m) \/ CountTurns(m)

Agents ==
  \E a \in Identities :
    \/ \E c \in Contents : AgentAdds(a, c) \/ AgentRemoves(a, c)
    \/ \E c, d \in Contents : AgentReplaces(a, c, d)
    \/ AgentAppendsTurn(a)

Next ==
  \/ Agents
  \/ \E m \in Operators : Command(m)
  \/ \E m \in Operators, a, b \in Identities, force \in BOOLEAN : RemapBegins(m, a, b, force)
  \/ \E m \in Operators, olds \in SUBSET Identities \ {{}} : CleanupBegins(m, olds)
  \/ \E old \in [Identities -> 0..MaxWrites] : Prune(old)

Spec == Init /\ [][Next]_vars

-----------------------------------------------------------------------------
TypeOK ==
  /\ DOMAIN rows \subseteq 1..(seq - 1) /\ \A i \in DOMAIN rows : rows[i] \in Row
  /\ seq \in Nat \ {0} /\ turns \in [Identities -> Nat]
  /\ lock \in Operators \cup {Nobody}
  /\ mpc \in [Operators -> {"idle", "lock", "count", "insert", "delete", "count turns", "turns",
                         "commit"}]
  /\ counted \in [Operators -> [rows : Nat, turns : [Identities -> Nat]]] /\ raced \in [Operators -> BOOLEAN]
  /\ \A m \in Operators : tx[m].turns \in [Identities -> Nat] /\ tx[m].del \subseteq 1..(seq - 1)
  /\ ops \in Nat /\ writes \in Nat

Family(m) == TextsOf(rows, Old(m)) \cup TextsOf(rows, cmd[m].new)

(* A remap merges: every text that either identity held when it commits is *)
(* held by the new one afterwards, and the old one is empty.               *)
Merges(m) ==
  (mpc[m] = "commit" /\ mpc'[m] = "idle" /\ result'[m].kind = "remap") =>
    Family(m) = TextsOf(rows', cmd[m].new) /\ Scope(rows', Old(m)) = {}

(* A remap merges if no agent writes under its two identities while it     *)
(* runs, whatever other maintenance command runs at the same time.         *)
RemapMergesWhenQuiet == [][\A m \in Operators : ~raced[m] => Merges(m)]_vars

(* operations.md calls it a data-loss guard: a remap that drops more than  *)
(* DupLimit rows instead of moving them requires --force.                  *)
ForceGuard ==
  \A m \in Operators :
    result[m].kind = "remap" /\ ~result[m].forced => result[m].actual.rows <= DupLimit

(* What the code does guarantee of that: it holds if no agent writes       *)
(* between the recount and the commit.                                     *)
ForceGuardWhenQuiet ==
  \A m \in Operators :
    result[m].kind = "remap" /\ ~result[m].forced /\ ~result[m].raced => result[m].actual.rows <= DupLimit

(* Under the lock, what a command reports of both tables is what it did,   *)
(* if no agent wrote and no prune deleted under its identities meanwhile:  *)
(* two commands never interleave between one's count and its delete.       *)
ReportsWhatItDid ==
  \A m \in Operators : ~result[m].raced => result[m].reported = result[m].actual
=============================================================================
