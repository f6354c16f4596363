-------------------------- MODULE MaintenanceProofs --------------------------
(***************************************************************************)
(* Theorems about Maintenance, for any tables, identities, operators and   *)
(* limits: a remap that no agent raced merges two identities into one,     *)
(* drops no more than it may, and commands report what they did.           *)
(***************************************************************************)
EXTENDS Maintenance, FiniteSetTheorems, TLAPS

(* The statements that run under the advisory lock. *)
UnderLock(m) == mpc[m] \notin {"idle", "lock"}
IsRemap(m) == cmd[m].kind = "remap"

(* A command at its statement.  Before its first statement under the lock  *)
(* a transaction has done nothing, and no write is a race yet.             *)
Command_OK(m) ==
  /\ UnderLock(m) <=> lock = m
  /\ mpc[m] \in {"idle", "lock", "count"} => tx[m] = NoTx /\ ~raced[m] /\ counted[m] = Nothing
  /\ mpc[m] # "idle" =>
       \/ \E a, b \in Identities, f \in BOOLEAN : a # b /\ cmd[m] = Remap(a, b, f)
       \/ \E olds \in SUBSET Identities \ {{}} : cmd[m] = Cleanup(olds)
  /\ mpc[m] = "insert" => IsRemap(m)
  /\ mpc[m] = "count turns" => ~IsRemap(m)

IsTx(t) == t = [ins |-> t.ins, del |-> t.del, turns |-> t.turns]

(* The transaction's uncommitted effects: rows under ids of its own, for   *)
(* the new identity, and turns that nobody can take away from under it.    *)
Effects_OK(m) ==
  /\ IsTx(tx[m])
  /\ tx[m].turns \in [Identities -> Nat] /\ \A a \in Identities : tx[m].turns[a] <= turns[a]
  /\ tx[m].del \subseteq 1..(seq - 1)
  /\ DOMAIN tx[m].ins \subseteq 1..(seq - 1) /\ DOMAIN tx[m].ins \cap DOMAIN rows = {}
  /\ \A i \in DOMAIN tx[m].ins : tx[m].ins[i] \in Row /\ tx[m].ins[i].agent = cmd[m].new
  /\ ~IsRemap(m) \/ mpc[m] = "insert" => tx[m].ins = <<>>
  /\ mpc[m] \in {"insert", "delete"} => tx[m].del = {}
  /\ mpc[m] \in {"insert", "delete", "count turns", "turns"} => tx[m].turns = NoTurns

(* The rows of the old identity that a remap copies, and their texts. *)
Texts(table, ids) == {table[i].content : i \in ids}
Copied(m) == ScopeOf(m) \ Duplicates(Old(m), cmd[m].new)

(* What an unraced command has counted and done so far is still so. *)
RemapTrue(m) ==
  /\ mpc[m] \in {"insert", "delete", "turns", "commit"} =>
       /\ counted[m].rows = Cardinality(Duplicates(Old(m), cmd[m].new))
       /\ cmd[m].force \/ counted[m].rows <= DupLimit
  /\ mpc[m] \in {"delete", "turns", "commit"} =>
       /\ Cardinality(DOMAIN tx[m].ins) = Cardinality(Copied(m))
       /\ Texts(tx[m].ins, DOMAIN tx[m].ins) = Texts(rows, Copied(m))
  /\ mpc[m] \in {"turns", "commit"} => tx[m].del = ScopeOf(m)
  /\ mpc[m] = "commit" => counted[m].turns = tx[m].turns
CleanupTrue(m) ==
  /\ mpc[m] = "delete" => counted[m].rows = Cardinality(ScopeOf(m))
  /\ mpc[m] \in {"count turns", "turns", "commit"} => counted[m].rows = Cardinality(tx[m].del)
  /\ mpc[m] = "turns" => counted[m].turns = TurnsOf(m)
  /\ mpc[m] = "commit" => counted[m].turns = tx[m].turns
StillTrue(m) ==
  ~raced[m] => (IsRemap(m) => RemapTrue(m)) /\ (~IsRemap(m) => CleanupTrue(m))

(* What a command reported. *)
Result_OK(m) ==
  /\ ~result[m].raced => result[m].reported = result[m].actual
  /\ result[m].kind = "remap" /\ ~result[m].forced /\ ~result[m].raced =>
       result[m].actual.rows <= DupLimit

Inv(m) == Command_OK(m) /\ Effects_OK(m) /\ StillTrue(m) /\ Result_OK(m)

IInv ==
  /\ TypeOK /\ DOMAIN cmd = Operators /\ DOMAIN tx = Operators /\ DOMAIN result = Operators
  /\ \A m \in Operators : Inv(m)

-----------------------------------------------------------------------------
(* Counting rows *)

(* The rows of an identity are finitely many, and a part of them and the   *)
(* rest add up.                                                            *)
LEMMA Finite ==
  ASSUME NEW n \in Nat, NEW S, S \subseteq 1..n
  PROVE  /\ IsFiniteSet(S) /\ Cardinality(S) \in Nat
         /\ \A T \in SUBSET S : /\ IsFiniteSet(T) /\ Cardinality(T) \in Nat
                                /\ Cardinality(S \ T) = Cardinality(S) - Cardinality(T)
<1>1. IsFiniteSet(1..n)
  BY FS_Interval
<1>2. IsFiniteSet(S)
  BY <1>1, FS_Subset
<1>3. ASSUME NEW T \in SUBSET S
      PROVE  IsFiniteSet(T) /\ Cardinality(S \ T) = Cardinality(S) - Cardinality(T)
  <2>1. IsFiniteSet(T) /\ IsFiniteSet(S \ T)
    BY <1>2, FS_Subset
  <2>2. T \cup (S \ T) = S /\ T \cap (S \ T) = {}
    OBVIOUS
  <2>3. Cardinality(S) = Cardinality(T) + Cardinality(S \ T) - Cardinality({})
    BY <2>1, <2>2, FS_Union
  <2> QED
    BY <2>1, <2>3, <1>2, FS_EmptySet, FS_CardinalityType
<1> QED
  BY <1>2, <1>3, FS_CardinalityType

(* INSERT ... SELECT ... ORDER BY id hands out one new id per row.         *)
Rank(S, i) == Cardinality({j \in S : j < i})
LEMMA NewIds ==
  ASSUME NEW n \in Nat, NEW S, S \subseteq 1..n, NEW base \in Nat
  PROVE  /\ \A i \in S : Rank(S, i) \in Nat /\ Rank(S, i) < Cardinality(S)
         /\ \A i, j \in S : base + Rank(S, i) = base + Rank(S, j) => i = j
         /\ Cardinality({base + Rank(S, i) : i \in S}) = Cardinality(S)
<1>1. IsFiniteSet(S)
  BY Finite
<1>a. \A i \in S : i \in Nat
  OBVIOUS
<1>2. \A i \in S : {j \in S : j < i} \in SUBSET S
  OBVIOUS
<1>3. ASSUME NEW i \in S PROVE Rank(S, i) \in Nat /\ Rank(S, i) < Cardinality(S)
  <2>1. i \notin {j \in S : j < i}
    BY <1>a
  <2>2. {j \in S : j < i} # S
    BY <2>1
  <2> QED
    BY <1>1, <1>2, <2>2, FS_Subset, FS_CardinalityType DEF Rank
<1>4. ASSUME NEW i \in S, NEW j \in S, i < j PROVE Rank(S, i) < Rank(S, j)
  <2> DEFINE A == {k \in S : k < i}
             B == {k \in S : k < j}
  <2>1. ASSUME NEW k \in A PROVE k \in B
    <3>1. k \in Nat /\ i \in Nat /\ j \in Nat /\ k < i
      BY <1>a, <2>1
    <3> QED
      BY <2>1, <3>1, <1>4
  <2>2. i \in B /\ i \notin A
    BY <1>a, <1>4
  <2>3. IsFiniteSet(B)
    BY <1>1, <1>2, FS_Subset
  <2> HIDE DEF A, B
  <2>4. A \in SUBSET B /\ A # B
    BY <2>1, <2>2
  <2>5. IsFiniteSet(A) /\ Cardinality(A) <= Cardinality(B) /\ Cardinality(A) # Cardinality(B)
    BY <2>3, <2>4, FS_Subset
  <2>6. Cardinality(A) \in Nat /\ Cardinality(B) \in Nat
    BY <2>3, <2>5, FS_CardinalityType
  <2>7. Cardinality(A) < Cardinality(B)
    BY <2>5, <2>6
  <2> QED
    BY <2>7 DEF Rank, A, B
<1>5. \A i, j \in S : base + Rank(S, i) = base + Rank(S, j) => i = j
  BY <1>a, <1>3, <1>4
<1>6. Cardinality({base + Rank(S, i) : i \in S}) = Cardinality(S)
  <2> DEFINE T == {base + Rank(S, i) : i \in S}
             f == [i \in S |-> base + Rank(S, i)]
  <2>1. f \in Surjection(S, T)
    BY DEF Surjection
  <2>2. f \in Injection(S, T)
    BY <1>5 DEF Injection, IsInjective
  <2> HIDE DEF f
  <2> QED
    BY <1>1, <2>1, <2>2, FS_Surjection
<1> QED
  BY <1>3, <1>5, <1>6

-----------------------------------------------------------------------------
(* What a command has established stays true while nobody writes under its *)
(* identities                                                              *)

SameScope(b) ==
  /\ Scope(rows', b) = Scope(rows, b)
  /\ \A i \in Scope(rows, b) : rows'[i].content = rows[i].content
SameRows(m) == \A b \in Named(m) : SameScope(b)
SameTurns(m) == \A a \in cmd[m].olds : a \in Identities => turns'[a] = turns[a]
SameLocals(m) ==
  mpc'[m] = mpc[m] /\ cmd'[m] = cmd[m] /\ counted'[m] = counted[m] /\ tx'[m] = tx[m]

LEMMA SameScopes ==
  ASSUME NEW m \in Operators, SameRows(m), cmd'[m] = cmd[m]
  PROVE  /\ ScopeOf(m)' = ScopeOf(m)
         /\ \A i \in ScopeOf(m) : rows'[i].content = rows[i].content
<1>1. ScopeOf(m)' = ScopeOf(m)
  BY DEF ScopeOf, SameRows, SameScope, Named
<1> QED
  BY <1>1 DEF ScopeOf, SameRows, SameScope, Named

LEMMA SameRemap ==
  ASSUME NEW m \in Operators, SameRows(m), cmd'[m] = cmd[m],
         NEW a \in Identities, NEW b \in Identities, NEW f \in BOOLEAN, cmd[m] = Remap(a, b, f)
  PROVE  /\ ScopeOf(m) = Scope(rows, a) /\ Old(m) = a /\ Old(m)' = a
         /\ Duplicates(Old(m), cmd[m].new)' = Duplicates(Old(m), cmd[m].new)
         /\ Copied(m)' = Copied(m)
<1>1. cmd[m].olds = {a} /\ cmd[m].new = b /\ Named(m) = {a, b}
  BY DEF Remap, Named
<1>2. Old(m) = a /\ Old(m)' = a /\ ScopeOf(m) = Scope(rows, a)
  BY <1>1 DEF Old, ScopeOf
<1>3. TextsOf(rows, b)' = TextsOf(rows, b)
  BY <1>1 DEF TextsOf, SameRows, SameScope
<1>4. Duplicates(a, b)' = Duplicates(a, b)
  BY <1>1, <1>3 DEF Duplicates, SameRows, SameScope
<1>5. Duplicates(Old(m), cmd[m].new)' = Duplicates(Old(m), cmd[m].new)
  BY <1>1, <1>2, <1>4 DEF Duplicates
<1> QED
  BY <1>2, <1>5, SameScopes DEF Copied

LEMMA StaysTrue ==
  ASSUME NEW m \in Operators, Command_OK(m), StillTrue(m), SameLocals(m), SameRows(m), SameTurns(m),
         ~raced'[m] => ~raced[m]
  PROVE  StillTrue(m)'
<1> SUFFICES ASSUME ~raced[m], ~raced'[m] PROVE StillTrue(m)'
  BY DEF StillTrue
<1>1. CASE mpc[m] = "idle"
  BY <1>1 DEF StillTrue, SameLocals, RemapTrue, CleanupTrue
<1>2. CASE mpc[m] # "idle"
  <2>1. CASE IsRemap(m)
    <3>1. PICK a \in Identities, b \in Identities, f \in BOOLEAN : cmd[m] = Remap(a, b, f)
      <4>1. \A olds : Cleanup(olds).kind # "remap"
        BY DEF Cleanup
      <4>2. cmd[m].kind = "remap"
        BY <2>1 DEF IsRemap
      <4> QED
        BY <1>2, <4>1, <4>2 DEF Command_OK
    <3>2. /\ Duplicates(Old(m), cmd[m].new)' = Duplicates(Old(m), cmd[m].new)
          /\ Copied(m)' = Copied(m) /\ ScopeOf(m)' = ScopeOf(m)
          /\ \A i \in Copied(m) : rows'[i].content = rows[i].content
      BY <3>1, SameRemap, SameScopes DEF SameLocals, Copied
    <3>3. RemapTrue(m)
      BY <2>1 DEF StillTrue
    <3>4. Texts(rows, Copied(m))' = Texts(rows, Copied(m))
      BY <3>2 DEF Texts
    <3>5. RemapTrue(m)'
      BY <3>2, <3>3, <3>4 DEF RemapTrue, SameLocals
    <3> QED
      BY <2>1, <3>5 DEF StillTrue, SameLocals, IsRemap
  <2>2. CASE ~IsRemap(m)
    <3>1. ScopeOf(m)' = ScopeOf(m) /\ TurnsOf(m)' = TurnsOf(m) /\ CleanupTrue(m)
      BY <2>2, SameScopes DEF SameLocals, SameTurns, TurnsOf, StillTrue
    <3>2. CleanupTrue(m)'
      BY <3>1 DEF CleanupTrue, SameLocals
    <3> QED
      BY <2>2, <3>2 DEF StillTrue, SameLocals, IsRemap
  <2> QED
    BY <2>1, <2>2
<1> QED
  BY <1>1, <1>2

-----------------------------------------------------------------------------
(* Statements of the agents, and prunes *)

TableOK ==
  /\ DOMAIN rows \subseteq 1..(seq - 1) /\ \A i \in DOMAIN rows : rows[i] \in Row
  /\ seq \in Nat \ {0} /\ turns \in [Identities -> Nat]
LEMMA Table == ASSUME TypeOK PROVE TableOK
  BY DEF TypeOK, TableOK

LEMMA Ids ==
  ASSUME NEW n \in Nat, NEW k \in Nat, n <= k
  PROVE  n \notin 1..(n - 1) /\ 1..(n - 1) \subseteq 1..(k - 1)
  OBVIOUS

(* A statement that changes rows and turns of the touched identities only, *)
(* and no turns that a transaction holds, keeps every command's invariant: *)
(* it changes nothing of a command's identities, or it is a race.          *)
LEMMA AgentStep ==
  ASSUME TypeOK, NEW m \in Operators, Inv(m), NEW ids, Touches(ids),
         seq' \in {seq, seq + 1}, DOMAIN rows' \subseteq DOMAIN rows \cup {seq},
         \A b : b \notin ids => SameScope(b),
         \A a \in Identities : (a \notin ids => turns'[a] = turns[a]) /\ tx[m].turns[a] <= turns'[a]
  PROVE  Inv(m)'
<1>1. /\ SameLocals(m) /\ lock' = lock /\ result'[m] = result[m]
      /\ raced'[m] = (raced[m] \/ (mpc[m] \notin {"idle", "lock", "count"} /\ ids \cap Named(m) # {}))
  BY DEF Touches, SameLocals
<1>2. seq \in Nat /\ seq' \in Nat /\ seq <= seq' /\ seq \notin 1..(seq - 1) /\ 1..(seq - 1) \subseteq 1..(seq' - 1)
  <2>1. seq \in Nat /\ seq' \in Nat /\ seq <= seq'
    BY Table DEF TableOK
  <2> QED
    BY <2>1, Ids
<1>3. Command_OK(m)'
  BY <1>1 DEF Inv, Command_OK, UnderLock, IsRemap, SameLocals
<1>4. Effects_OK(m)'
  <2>1. 1..(seq - 1) \subseteq 1..(seq' - 1)
    BY <1>2
  <2>2. DOMAIN tx[m].ins \cap DOMAIN rows' = {}
    BY <1>2 DEF Inv, Effects_OK
  <2> QED
    BY <1>1, <2>1, <2>2 DEF Inv, Effects_OK, IsRemap, SameLocals
<1>5. StillTrue(m)'
  <2>1. CASE mpc[m] \in {"idle", "lock", "count"}
    BY <1>1, <2>1 DEF StillTrue, RemapTrue, CleanupTrue, SameLocals
  <2>2. CASE raced'[m]
    BY <2>2 DEF StillTrue
  <2>3. CASE mpc[m] \notin {"idle", "lock", "count"} /\ ~raced'[m]
    <3>1. ~raced[m] /\ ids \cap Named(m) = {}
      BY <1>1, <2>3
    <3>2. SameRows(m) /\ SameTurns(m)
      BY <3>1 DEF SameRows, SameTurns, Named
    <3> QED
      BY <1>1, <3>1, <3>2, StaysTrue DEF Inv
  <2> QED
    BY <2>1, <2>2, <2>3
<1>6. Result_OK(m)'
  BY <1>1 DEF Inv, Result_OK
<1> QED
  BY <1>3, <1>4, <1>5, <1>6 DEF Inv

LEMMA AgentKeeps ==
  ASSUME IInv, NEW ids, Touches(ids), TableOK',
         seq' \in {seq, seq + 1}, DOMAIN rows' \subseteq DOMAIN rows \cup {seq},
         \A b : b \notin ids => SameScope(b),
         \A a \in Identities : a \notin ids => turns'[a] = turns[a],
         \A m \in Operators : \A a \in Identities : tx[m].turns[a] <= turns'[a]
  PROVE  IInv'
<1>1. \A m \in Operators : Inv(m)'
  BY AgentStep DEF IInv
<1>2. raced' \in [Operators -> BOOLEAN]
  <2>1. \A m \in Operators :
          (raced[m] \/ (mpc[m] \notin {"idle", "lock", "count"} /\ ids \cap Named(m) # {})) \in BOOLEAN
    BY Zenon
  <2> QED
    BY <2>1 DEF Touches
<1>3. \A m \in Operators : tx[m].turns \in [Identities -> Nat] /\ tx[m].del \subseteq 1..(seq' - 1)
  <2>1. seq \in Nat /\ seq' \in Nat /\ seq <= seq'
    BY Table DEF IInv, TableOK
  <2>2. 1..(seq - 1) \subseteq 1..(seq' - 1)
    BY <2>1, Ids
  <2> QED
    BY <2>2 DEF IInv, TypeOK
<1>4. TypeOK'
  <2>1. /\ lock' = lock /\ mpc' = mpc /\ counted' = counted /\ tx' = tx /\ ops' = ops
        /\ writes' = writes + 1
    BY DEF Touches
  <2>2. /\ lock \in Operators \cup {Nobody} /\ ops \in Nat /\ writes \in Nat
        /\ mpc \in [Operators -> {"idle", "lock", "count", "insert", "delete", "count turns",
                                 "turns", "commit"}]
        /\ counted \in [Operators -> [rows : Nat, turns : [Identities -> Nat]]]
    BY Zenon DEF IInv, TypeOK
  <2>3. writes' \in Nat
    <3>1. writes \in Nat /\ writes' = writes + 1
      BY <2>1, <2>2, Zenon
    <3> QED
      BY <3>1
  <2> QED
    BY <1>2, <1>3, <2>1, <2>2, <2>3 DEF TypeOK, TableOK
<1>5. DOMAIN cmd' = Operators /\ DOMAIN tx' = Operators /\ DOMAIN result' = Operators
  BY DEF IInv, Touches
<1> QED
  BY <1>1, <1>4, <1>5 DEF IInv

(* A change of one identity's rows leaves the other identities' alone. *)
LEMMA InsertStep ==
  ASSUME TypeOK, NEW a \in Identities, NEW c \in Contents, rows' = Insert(rows, seq, a, c, Null),
         seq' = seq + 1, turns' = turns
  PROVE  /\ TableOK' /\ DOMAIN rows' \subseteq DOMAIN rows \cup {seq}
         /\ \A b : b \notin {a} => SameScope(b)
<1>1. seq \in Nat \ {0} /\ seq \notin DOMAIN rows /\ DOMAIN rows \subseteq 1..(seq' - 1)
  <2>1. seq \in Nat \ {0} /\ seq' \in Nat /\ seq <= seq' /\ DOMAIN rows \subseteq 1..(seq - 1)
    BY Table DEF TableOK
  <2> QED
    BY <2>1, Ids
<1>2. CASE c \in TextsOf(rows, a)
  <2>1. rows' = rows
    BY <1>2 DEF Insert
  <2> QED
    BY <1>1, <2>1, Table DEF TableOK, SameScope, Scope
<1>3. CASE c \notin TextsOf(rows, a)
  <2>1. /\ DOMAIN rows' = DOMAIN rows \cup {seq} /\ \A i \in DOMAIN rows : rows'[i] = rows[i]
        /\ rows'[seq] = [agent |-> a, content |-> c, embedding |-> Null, edits |-> 0]
    BY <1>1, <1>3 DEF Insert
  <2>2. rows'[seq] \in Row /\ rows'[seq].agent = a
    BY <2>1, MaintenanceAssumption DEF Row
  <2>3. DOMAIN rows' \subseteq 1..(seq' - 1) /\ seq' \in Nat \ {0}
    <3>1. seq \in 1..(seq' - 1) /\ seq' \in Nat \ {0}
      BY <1>1
    <3> QED
      BY <1>1, <2>1, <3>1
  <2>4. TableOK'
    BY <2>1, <2>2, <2>3, Table DEF TableOK
  <2> QED
    BY <1>1, <2>1, <2>2, <2>4 DEF SameScope, Scope
<1> QED
  BY <1>2, <1>3

LEMMA UpdateStep ==
  ASSUME TypeOK, NEW a \in Identities, NEW c \in Contents, NEW i \in Scope(rows, a),
         rows' = Update(rows, i, c, Null), seq' = seq, turns' = turns
  PROVE  /\ TableOK' /\ DOMAIN rows' \subseteq DOMAIN rows \cup {seq}
         /\ \A b : b \notin {a} => SameScope(b)
<1>1. i \in DOMAIN rows /\ rows[i] \in Row /\ rows[i].agent = a
  BY DEF Scope, TypeOK
<1>2. /\ DOMAIN rows' = DOMAIN rows /\ \A j \in DOMAIN rows : j # i => rows'[j] = rows[j]
      /\ rows'[i] = [agent |-> a, content |-> c, embedding |-> Null, edits |-> rows[i].edits + 1]
  BY <1>1 DEF Update, Row
<1>3. rows'[i] \in Row /\ rows'[i].agent = a
  BY <1>1, <1>2 DEF Row
<1>4. TableOK'
  BY <1>2, <1>3, Table DEF TableOK
<1> QED
  BY <1>1, <1>2, <1>3, <1>4 DEF SameScope, Scope

LEMMA DeleteStep ==
  ASSUME TypeOK, NEW a, NEW i \in Scope(rows, a),
         rows' = Delete(rows, {i}), seq' = seq, turns' = turns
  PROVE  /\ TableOK' /\ DOMAIN rows' \subseteq DOMAIN rows \cup {seq}
         /\ \A b : b \notin {a} => SameScope(b)
<1>1. DOMAIN rows' = DOMAIN rows \ {i} /\ \A j \in DOMAIN rows \ {i} : rows'[j] = rows[j]
  BY DEF Delete
<1>2. TableOK'
  BY <1>1 DEF TypeOK, TableOK
<1> QED
  BY <1>1, <1>2 DEF SameScope, Scope

LEMMA AgentsKeep ==
  ASSUME IInv, NEW a \in Identities,
         \/ \E c \in Contents : AgentAdds(a, c) \/ AgentRemoves(a, c)
         \/ \E c, d \in Contents : AgentReplaces(a, c, d)
         \/ AgentAppendsTurn(a)
  PROVE  IInv'
<1>0. /\ TypeOK /\ \A m \in Operators : \A b \in Identities : tx[m].turns[b] <= turns[b]
      /\ \A m \in Operators : tx[m].turns \in [Identities -> Nat]
  BY DEF IInv, Inv, Effects_OK
<1>1. ASSUME NEW c \in Contents, AgentAdds(a, c) PROVE IInv'
  <2>1. Touches({a}) /\ rows' = Insert(rows, seq, a, c, Null) /\ seq' = seq + 1 /\ turns' = turns
    BY <1>1 DEF AgentAdds
  <2> QED
    BY <1>0, <2>1, InsertStep, AgentKeeps
<1>2. ASSUME NEW c \in Contents, AgentRemoves(a, c) PROVE IInv'
  <2>1. PICK i \in Scope(rows, a) : rows' = Delete(rows, {i})
    BY <1>2 DEF AgentRemoves, Exactly
  <2>2. Touches({a}) /\ turns' = turns /\ seq' = seq
    BY <1>2 DEF AgentRemoves
  <2> QED
    BY <1>0, <2>1, <2>2, DeleteStep, AgentKeeps
<1>3. ASSUME NEW c \in Contents, NEW d \in Contents, AgentReplaces(a, c, d) PROVE IInv'
  <2>1. PICK i \in Scope(rows, a) : rows' = Update(rows, i, d, Null)
    BY <1>3 DEF AgentReplaces, Exactly
  <2>2. Touches({a}) /\ turns' = turns /\ seq' = seq
    BY <1>3 DEF AgentReplaces
  <2> QED
    BY <1>0, <2>1, <2>2, UpdateStep, AgentKeeps
<1>4. ASSUME AgentAppendsTurn(a) PROVE IInv'
  <2>1. Touches({a}) /\ rows' = rows /\ seq' = seq /\ turns' = [turns EXCEPT ![a] = @ + 1]
    BY <1>4 DEF AgentAppendsTurn
  <2>2. \A b : SameScope(b)
    BY <2>1 DEF SameScope, Scope
  <2>3. turns' \in [Identities -> Nat] /\ \A b \in Identities : turns[b] <= turns'[b]
    BY <1>0, <2>1, Table DEF TableOK
  <2>4. ASSUME NEW m \in Operators, NEW b \in Identities PROVE tx[m].turns[b] <= turns'[b]
    <3>1. tx[m].turns[b] \in Nat /\ turns[b] \in Nat /\ turns'[b] \in Nat
      BY <1>0, <2>3, Table DEF TableOK
    <3> QED
      BY <1>0, <2>3, <3>1
  <2>5. \A b \in Identities : b \notin {a} => turns'[b] = turns[b]
    BY <1>0, <2>1, Table DEF TableOK
  <2>6. TableOK'
    BY <1>0, <2>1, <2>3 DEF TypeOK, TableOK
  <2> QED
    BY <2>1, <2>2, <2>4, <2>5, <2>6, AgentKeeps
<1> QED
  BY <1>1, <1>2, <1>3, <1>4

LEMMA PruneKeeps ==
  ASSUME IInv, NEW old \in [Identities -> 0..MaxWrites], Prune(old)
  PROVE  IInv'
<1>0. /\ TypeOK /\ MaxWrites \in Nat
      /\ \A m \in Operators : /\ tx[m].turns \in [Identities -> Nat]
                              /\ \A b \in Identities : tx[m].turns[b] <= turns[b]
  BY MaintenanceAssumption DEF IInv, Inv, Effects_OK
<1> DEFINE ids == {a \in Identities : old[a] > 0}
<1>1. /\ Touches(ids) /\ rows' = rows /\ seq' = seq
      /\ turns' = [a \in Identities |-> turns[a] - old[a]]
  BY DEF Prune
<1>2. \A a \in Identities : old[a] \in Nat /\ turns[a] \in Nat /\ old[a] <= turns[a]
  BY <1>0, Table DEF Prune, TableOK
<1>3. \A b : SameScope(b)
  BY <1>1 DEF SameScope, Scope
<1>4. turns' \in [Identities -> Nat]
  BY <1>1, <1>2
<1>5. \A a \in Identities : a \notin ids => turns'[a] = turns[a]
  BY <1>1, <1>2
<1>6. ASSUME NEW m \in Operators, NEW a \in Identities PROVE tx[m].turns[a] <= turns'[a]
  <2>1. old[a] = 0 \/ tx[m].turns[a] = 0
    BY <1>2 DEF Prune
  <2> QED
    BY <1>0, <1>1, <1>2, <2>1
<1>7. TableOK'
  BY <1>0, <1>1, <1>4 DEF TypeOK, TableOK
<1> HIDE DEF ids
<1> QED
  BY <1>1, <1>3, <1>5, <1>6, <1>7, AgentKeeps

-----------------------------------------------------------------------------
(* Steps of the commands *)

Statements == {"idle", "lock", "count", "insert", "delete", "count turns", "turns", "commit"}
Counts == [rows : Nat, turns : [Identities -> Nat]]

LEMMA Facts ==
  ASSUME IInv
  PROVE  /\ TableOK /\ lock \in Operators \cup {Nobody} /\ ops \in Nat /\ writes \in Nat
         /\ mpc \in [Operators -> Statements] /\ counted \in [Operators -> Counts]
         /\ raced \in [Operators -> BOOLEAN]
         /\ DOMAIN cmd = Operators /\ DOMAIN tx = Operators /\ DOMAIN result = Operators
         /\ \A m \in Operators :
              tx[m].turns \in [Identities -> Nat] /\ tx[m].del \subseteq 1..(seq - 1)
  BY Zenon DEF IInv, TypeOK, TableOK, Statements, Counts

(* What a step of command m leaves alone of the other commands. *)
Frame(m) ==
  /\ \A n \in Operators \ {m} :
       SameLocals(n) /\ raced'[n] = raced[n] /\ result'[n] = result[n] /\ (lock = n <=> lock' = n)
  /\ DOMAIN cmd' = Operators /\ DOMAIN tx' = Operators /\ DOMAIN result' = Operators

LEMMA NoEffects ==
  /\ NoTx.ins = <<>> /\ DOMAIN NoTx.ins = {} /\ NoTx.del = {} /\ NoTx.turns = NoTurns
  /\ IsTx(NoTx)
  /\ NoTurns \in [Identities -> Nat] /\ \A a \in Identities : NoTurns[a] = 0
  /\ Nothing.rows = 0 /\ Nothing.turns = NoTurns /\ Nothing \in Counts
<1>1. DOMAIN <<>> = {}
  OBVIOUS
<1>2. NoTx.ins = <<>>
  BY DEF NoTx
<1> QED
  BY <1>1, <1>2 DEF NoTx, NoTurns, Nothing, Counts, IsTx

(* Before its first statement under the lock a command has done nothing.   *)
LEMMA Fresh ==
  ASSUME NEW m \in Operators, TableOK', tx'[m] = NoTx, mpc'[m] \in {"idle", "lock", "count"}
  PROVE  Effects_OK(m)' /\ StillTrue(m)'
<1>1. Effects_OK(m)'
  <2>1. /\ tx'[m].ins = <<>> /\ DOMAIN tx'[m].ins = {} /\ tx'[m].del = {} /\ tx'[m].turns = NoTurns
        /\ IsTx(tx'[m])
    BY NoEffects
  <2>2. NoTurns \in [Identities -> Nat] /\ \A a \in Identities : NoTurns[a] <= turns'[a]
    BY NoEffects DEF TableOK
  <2> QED
    BY <2>1, <2>2 DEF Effects_OK
<1>2. StillTrue(m)'
  BY DEF StillTrue, RemapTrue, CleanupTrue
<1> QED
  BY <1>1, <1>2

LEMMA OtherKeeps ==
  ASSUME NEW n \in Operators, Inv(n), TableOK, TableOK', seq <= seq',
         SameLocals(n), raced'[n] = raced[n], result'[n] = result[n], lock = n <=> lock' = n,
         (rows' = rows /\ turns' = turns) \/ ~UnderLock(n)
  PROVE  Inv(n)'
<1>1. Command_OK(n)'
  BY DEF Inv, Command_OK, UnderLock, IsRemap, SameLocals
<1>2. Result_OK(n)'
  BY DEF Inv, Result_OK
<1>3. CASE UnderLock(n)
  <2>1. rows' = rows /\ turns' = turns
    BY <1>3
  <2>2. 1..(seq - 1) \subseteq 1..(seq' - 1)
    BY Ids DEF TableOK
  <2>3. Effects_OK(n)'
    BY <2>1, <2>2 DEF Inv, Effects_OK, IsRemap, SameLocals
  <2>4. SameRows(n) /\ SameTurns(n)
    BY <2>1 DEF SameRows, SameScope, SameTurns
  <2>5. StillTrue(n)'
    BY <2>4, StaysTrue DEF Inv
  <2> QED
    BY <1>1, <1>2, <2>3, <2>5 DEF Inv
<1>4. CASE ~UnderLock(n)
  <2>1. mpc'[n] \in {"idle", "lock", "count"} /\ tx'[n] = NoTx
    BY <1>4 DEF Inv, Command_OK, UnderLock, SameLocals
  <2> QED
    BY <1>1, <1>2, <2>1, Fresh DEF Inv
<1> QED
  BY <1>3, <1>4

LEMMA StepKeeps ==
  ASSUME IInv, NEW m \in Operators, TypeOK', Inv(m)', Frame(m), seq <= seq',
         (rows' = rows /\ turns' = turns) \/ lock = m
  PROVE  IInv'
<1>1. TableOK /\ TableOK'
  BY Facts DEF TypeOK, TableOK
<1>2. ASSUME NEW n \in Operators, n # m PROVE Inv(n)'
  <2>1. Inv(n) /\ (UnderLock(n) <=> lock = n)
    BY DEF IInv, Inv, Command_OK
  <2> QED
    BY <1>1, <1>2, <2>1, OtherKeeps DEF Frame
<1> QED
  BY <1>2 DEF IInv, Frame

(* A command that ends. *)
LEMMA EndKeeps ==
  ASSUME IInv, NEW m \in Operators, Ends(m), TableOK', Result_OK(m)', seq' = seq,
         \E r : result' = [result EXCEPT ![m] = r],
         (rows' = rows /\ turns' = turns) \/ lock = m
  PROVE  IInv'
<1>1. /\ mpc'[m] = "idle" /\ tx'[m] = NoTx /\ counted'[m] = Nothing /\ cmd'[m] = NoCmd
      /\ raced'[m] = FALSE /\ lock' # m /\ lock' \in Operators \cup {Nobody}
  BY Facts, MaintenanceAssumption DEF Ends
<1>2. Frame(m)
  BY Facts, MaintenanceAssumption DEF Frame, Ends, SameLocals
<1>3. TypeOK'
  <2>1. mpc' \in [Operators -> Statements] /\ raced' \in [Operators -> BOOLEAN]
    BY Facts DEF Ends, Statements
  <2>2. counted' \in [Operators -> Counts]
    BY Facts, NoEffects DEF Ends
  <2>3. \A n \in Operators :
          tx'[n].turns \in [Identities -> Nat] /\ tx'[n].del \subseteq 1..(seq' - 1)
    <3> TAKE n \in Operators
    <3>1. CASE n = m
      BY <1>1, <3>1, NoEffects
    <3>2. CASE n # m
      BY <1>2, <3>2, Facts DEF Frame, SameLocals
    <3> QED
      BY <3>1, <3>2
  <2>4. ops' \in Nat /\ writes' \in Nat
    BY Facts DEF Ends
  <2> QED
    BY <1>1, <2>1, <2>2, <2>3, <2>4 DEF TypeOK, TableOK, Statements, Counts
<1>4. Inv(m)'
  <2>1. Command_OK(m)'
    BY <1>1 DEF Command_OK, UnderLock, IsRemap
  <2> QED
    BY <1>1, <2>1, Fresh DEF Inv
<1>5. seq <= seq'
  BY Facts DEF TableOK
<1> QED
  BY <1>2, <1>3, <1>4, <1>5, StepKeeps

(* A step of a command that changes no table. *)
LEMMA QuietStep ==
  ASSUME IInv, NEW m \in Operators, Inv(m)', Frame(m), NEW pc \in Statements, NEW c \in Counts,
         mpc' = [mpc EXCEPT ![m] = pc], counted' = [counted EXCEPT ![m] = c],
         tx'[m].turns \in [Identities -> Nat], tx'[m].del \subseteq 1..(seq' - 1),
         raced' \in [Operators -> BOOLEAN], lock' \in Operators \cup {Nobody},
         ops' \in Nat, writes' = writes, rows' = rows, turns' = turns, seq' \in Nat, seq <= seq'
  PROVE  IInv'
<1>1. mpc' \in [Operators -> Statements] /\ counted' \in [Operators -> Counts]
  BY Facts
<1>2. 1..(seq - 1) \subseteq 1..(seq' - 1) /\ seq' \in Nat \ {0}
  BY Facts, Ids DEF TableOK
<1>3. ASSUME NEW n \in Operators
      PROVE  tx'[n].turns \in [Identities -> Nat] /\ tx'[n].del \subseteq 1..(seq' - 1)
  <2>1. CASE n = m
    BY <2>1
  <2>2. CASE n # m
    BY <1>2, <2>2, Facts DEF Frame, SameLocals
  <2> QED
    BY <2>1, <2>2
<1>4. TableOK'
  BY <1>2, Facts DEF TableOK
<1>5. TypeOK'
  BY <1>1, <1>3, <1>4, Facts DEF TypeOK, TableOK, Statements, Counts
<1> QED
  BY <1>5, StepKeeps

LEMMA Own ==
  ASSUME IInv, NEW m \in Operators
  PROVE  /\ Command_OK(m) /\ Effects_OK(m) /\ StillTrue(m) /\ Result_OK(m)
         /\ mpc[m] \in Statements /\ counted[m] \in Counts /\ raced[m] \in BOOLEAN
         /\ mpc = [mpc EXCEPT ![m] = mpc[m]] /\ counted = [counted EXCEPT ![m] = counted[m]]
         /\ tx[m].turns \in [Identities -> Nat] /\ tx[m].del \subseteq 1..(seq - 1)
         /\ seq \in Nat /\ seq <= seq /\ (mpc[m] \in {"idle", "lock"} <=> lock # m)
<1>1. Inv(m)
  BY DEF IInv
<1>2. mpc = [mpc EXCEPT ![m] = mpc[m]] /\ counted = [counted EXCEPT ![m] = counted[m]]
  BY Facts
<1>3. seq \in Nat /\ seq <= seq
  BY Facts DEF TableOK
<1> QED
  BY <1>1, <1>2, <1>3, Facts DEF Inv, Command_OK, UnderLock

LEMMA BeginKeeps ==
  ASSUME IInv, NEW m \in Operators, NEW c, Begin(m, c),
         \/ \E a, b \in Identities, f \in BOOLEAN : a # b /\ c = Remap(a, b, f)
         \/ \E olds \in SUBSET Identities \ {{}} : c = Cleanup(olds)
  PROVE  IInv'
<1>1. /\ cmd'[m] = c /\ mpc'[m] = "lock" /\ raced'[m] = FALSE /\ result'[m] = NoResult
      /\ counted'[m] = counted[m] /\ tx'[m] = tx[m] /\ lock' = lock /\ mpc[m] = "idle"
  BY Facts DEF Begin
<1>2. lock # m /\ tx[m] = NoTx /\ counted[m] = Nothing
  BY <1>1, Own DEF Command_OK
<1>3. Command_OK(m)'
  BY <1>1, <1>2 DEF Command_OK, UnderLock, IsRemap
<1>4. Result_OK(m)'
  BY <1>1 DEF Result_OK, NoResult
<1>5. TableOK'
  BY Facts DEF Begin, TableOK
<1>6. Inv(m)'
  BY <1>1, <1>2, <1>3, <1>4, <1>5, Fresh DEF Inv
<1>7. Frame(m)
  BY Facts DEF Frame, Begin, SameLocals
<1>8. /\ "lock" \in Statements /\ mpc' = [mpc EXCEPT ![m] = "lock"]
      /\ counted' = [counted EXCEPT ![m] = counted[m]] /\ counted[m] \in Counts
      /\ raced' \in [Operators -> BOOLEAN] /\ lock' \in Operators \cup {Nobody}
      /\ ops' \in Nat /\ writes' = writes /\ rows' = rows /\ turns' = turns /\ seq' = seq
      /\ tx'[m].turns \in [Identities -> Nat] /\ tx'[m].del \subseteq 1..(seq' - 1)
  <2>1. raced' \in [Operators -> BOOLEAN]
    BY Facts DEF Begin
  <2>2. counted' = [counted EXCEPT ![m] = counted[m]] /\ counted[m] \in Counts
    BY Own DEF Begin
  <2>3. ops' \in Nat /\ lock' \in Operators \cup {Nobody}
    BY Facts DEF Begin
  <2>4. tx'[m].turns \in [Identities -> Nat] /\ tx'[m].del \subseteq 1..(seq' - 1)
    BY Own, <1>1 DEF Begin
  <2> QED
    BY <2>1, <2>2, <2>3, <2>4 DEF Begin, Statements
<1> QED
  BY <1>6, <1>7, <1>8, Own, QuietStep

LEMMA TakeLockKeeps ==
  ASSUME IInv, NEW m \in Operators, TakeLock(m)
  PROVE  IInv'
<1>1. /\ cmd'[m] = cmd[m] /\ mpc'[m] = "count" /\ raced'[m] = raced[m] /\ result'[m] = result[m]
      /\ counted'[m] = counted[m] /\ tx'[m] = tx[m] /\ lock' = m /\ mpc[m] = "lock" /\ lock = Nobody
  BY Facts DEF TakeLock
<1>2. Command_OK(m)'
  <2>1. tx[m] = NoTx /\ ~raced[m] /\ counted[m] = Nothing
    BY <1>1, Own DEF Command_OK
  <2>2. \/ \E a, b \in Identities, f \in BOOLEAN : a # b /\ cmd[m] = Remap(a, b, f)
        \/ \E olds \in SUBSET Identities \ {{}} : cmd[m] = Cleanup(olds)
    BY <1>1, Own DEF Command_OK
  <2> QED
    BY <1>1, <2>1, <2>2 DEF Command_OK, UnderLock, IsRemap
<1>3. Result_OK(m)'
  BY <1>1, Own DEF Result_OK
<1>4. TableOK' /\ tx[m] = NoTx
  BY <1>1, Own, Facts DEF TakeLock, TableOK, Command_OK
<1>5. Inv(m)'
  BY <1>1, <1>2, <1>3, <1>4, Fresh DEF Inv
<1>6. Frame(m)
  BY <1>1, Facts, MaintenanceAssumption DEF Frame, TakeLock, SameLocals
<1>7. /\ "count" \in Statements /\ mpc' = [mpc EXCEPT ![m] = "count"]
      /\ counted' = [counted EXCEPT ![m] = counted[m]] /\ counted[m] \in Counts
      /\ raced' \in [Operators -> BOOLEAN] /\ lock' \in Operators \cup {Nobody}
      /\ ops' \in Nat /\ writes' = writes /\ rows' = rows /\ turns' = turns /\ seq' = seq
      /\ tx'[m].turns \in [Identities -> Nat] /\ tx'[m].del \subseteq 1..(seq' - 1)
  BY Facts, Own, <1>1 DEF TakeLock, Statements
<1> QED
  BY <1>5, <1>6, <1>7, Own, QuietStep

LEMMA AbortKeeps ==
  ASSUME IInv, NEW m \in Operators, RollBack(m) \/ RemapRefused(m)
  PROVE  IInv'
<1>1. /\ Ends(m) /\ result' = [result EXCEPT ![m] = NoResult]
      /\ rows' = rows /\ turns' = turns /\ seq' = seq
  BY DEF RollBack, RemapRefused
<1>2. Result_OK(m)'
  BY <1>1, Facts DEF Result_OK, NoResult
<1>3. TableOK'
  BY <1>1, Facts DEF TableOK
<1> QED
  BY <1>1, <1>2, <1>3, EndKeeps

(* The lock is held: the steps under it leave the other commands alone. *)
LEMMA LockedFrame ==
  ASSUME IInv, NEW m \in Operators, UNCHANGED <<lock, cmd, result, raced>>,
         NEW pc, mpc' = [mpc EXCEPT ![m] = pc], NEW c, counted' = [counted EXCEPT ![m] = c],
         DOMAIN tx' = Operators, \A n \in Operators \ {m} : tx'[n] = tx[n]
  PROVE  Frame(m)
  BY Facts DEF Frame, SameLocals

LEMMA RemapFacts ==
  ASSUME IInv, NEW m \in Operators, mpc[m] # "idle", IsRemap(m)
  PROVE  \E a, b \in Identities, f \in BOOLEAN :
           /\ a # b /\ cmd[m] = Remap(a, b, f) /\ cmd[m].new = b /\ cmd[m].force = f
           /\ Old(m) = a /\ ScopeOf(m) = Scope(rows, a) /\ cmd[m].olds = {a}
<1>1. \A olds : Cleanup(olds).kind # "remap"
  BY DEF Cleanup
<1>2. PICK a \in Identities, b \in Identities, f \in BOOLEAN : a # b /\ cmd[m] = Remap(a, b, f)
  BY <1>1, Own DEF Command_OK, IsRemap
<1>3. cmd[m].olds = {a} /\ cmd[m].new = b /\ cmd[m].force = f
  BY <1>2 DEF Remap
<1>4. Old(m) = a /\ ScopeOf(m) = Scope(rows, a)
  BY <1>3 DEF Old, ScopeOf
<1> QED
  BY <1>2, <1>3, <1>4

LEMMA Scopes ==
  ASSUME IInv, NEW m \in Operators
  PROVE  /\ ScopeOf(m) \subseteq DOMAIN rows /\ ScopeOf(m) \subseteq 1..(seq - 1)
         /\ Cardinality(ScopeOf(m)) \in Nat /\ seq - 1 \in Nat
<1>1. ScopeOf(m) \subseteq DOMAIN rows
  BY DEF ScopeOf, Scope
<1>2. ScopeOf(m) \subseteq 1..(seq - 1) /\ seq - 1 \in Nat
  BY <1>1, Facts DEF TableOK
<1> QED
  BY <1>1, <1>2, Finite

LEMMA Kinds ==
  ASSUME IInv, NEW m \in Operators, mpc[m] # "idle"
  PROVE  ~IsRemap(m) => cmd[m].kind = "cleanup"
<1>1. \A a, b, f : Remap(a, b, f).kind = "remap"
  BY DEF Remap
<1>2. \A olds : Cleanup(olds).kind = "cleanup"
  BY DEF Cleanup
<1>3. \/ \E a, b \in Identities, f \in BOOLEAN : a # b /\ cmd[m] = Remap(a, b, f)
      \/ \E olds \in SUBSET Identities \ {{}} : cmd[m] = Cleanup(olds)
  BY Own DEF Command_OK
<1> QED
  BY <1>1, <1>2, <1>3 DEF IsRemap

LEMMA CommandUnderLock ==
  ASSUME IInv, NEW m \in Operators, mpc[m] \notin {"idle", "lock"}, lock' = lock, cmd' = cmd,
         mpc'[m] \in {"insert", "delete", "count turns", "turns", "commit"},
         mpc'[m] = "insert" => IsRemap(m), mpc'[m] = "count turns" => ~IsRemap(m)
  PROVE  Command_OK(m)'
<1>1. lock = m
  BY Own
<1>2. \/ \E a, b \in Identities, f \in BOOLEAN : a # b /\ cmd[m] = Remap(a, b, f)
      \/ \E olds \in SUBSET Identities \ {{}} : cmd[m] = Cleanup(olds)
  BY Own DEF Command_OK
<1> QED
  BY <1>1, <1>2 DEF Command_OK, UnderLock, IsRemap

LEMMA RecountKeeps ==
  ASSUME IInv, NEW m \in Operators, RecountDuplicates(m)
  PROVE  IInv'
<1> DEFINE n == Cardinality(Duplicates(Old(m), cmd[m].new))
           c == [counted[m] EXCEPT !.rows = n]
<1>1. IsRemap(m) /\ mpc[m] = "count" /\ (n <= DupLimit \/ cmd[m].force)
  BY DEF RecountDuplicates, IsRemap
<1>2. n \in Nat
  <2>1. Duplicates(Old(m), cmd[m].new) \subseteq ScopeOf(m)
    BY <1>1, RemapFacts DEF Duplicates
  <2> QED
    BY <2>1, Scopes, Finite
<1>3. /\ rows' = rows /\ turns' = turns /\ seq' = seq /\ lock' = lock /\ cmd' = cmd /\ tx' = tx
      /\ result' = result /\ raced' = raced /\ ops' = ops /\ writes' = writes
      /\ mpc' = [mpc EXCEPT ![m] = "insert"] /\ mpc'[m] = "insert"
  BY Facts DEF RecountDuplicates
<1>4. c \in Counts /\ c.rows = n /\ counted' = [counted EXCEPT ![m] = c] /\ counted'[m].rows = n
  BY <1>2, Facts DEF RecountDuplicates, Counts
<1> HIDE DEF c
<1>5. Command_OK(m)'
  BY <1>1, <1>3, CommandUnderLock
<1>6. Effects_OK(m)'
  <2>1. tx[m] = NoTx
    BY <1>1, Own DEF Command_OK
  <2>2. tx[m].ins = <<>> /\ tx[m].del = {} /\ tx[m].turns = NoTurns
    BY <2>1, NoEffects
  <2> QED
    BY <2>2, <1>3, Own DEF Effects_OK, IsRemap
<1>7. StillTrue(m)'
  <2>1. Duplicates(Old(m), cmd[m].new)' = Duplicates(Old(m), cmd[m].new)
    BY <1>3 DEF Duplicates, Old, Scope, TextsOf
  <2>2. RemapTrue(m)'
    BY <1>1, <1>3, <1>4, <2>1 DEF RemapTrue
  <2> QED
    BY <1>1, <1>3, <2>2 DEF StillTrue, IsRemap
<1>8. Result_OK(m)'
  BY <1>3, Own DEF Result_OK
<1>9. Frame(m)
  BY <1>3, <1>4, Facts, LockedFrame
<1>10. Inv(m)'
  BY <1>5, <1>6, <1>7, <1>8 DEF Inv
<1> HIDE DEF n
<1> QED
  BY <1>3, <1>4, <1>9, <1>10, Facts, Own, QuietStep DEF Statements

LEMMA CountRowsKeeps ==
  ASSUME IInv, NEW m \in Operators, CountRows(m)
  PROVE  IInv'
<1> DEFINE n == Cardinality(ScopeOf(m))
           c == [counted[m] EXCEPT !.rows = n]
           pc == IF ScopeOf(m) = {} THEN "count turns" ELSE "delete"
<1>1. ~IsRemap(m) /\ mpc[m] = "count"
  BY DEF CountRows, IsRemap
<1>2. n \in Nat
  BY Scopes
<1>3. /\ rows' = rows /\ turns' = turns /\ seq' = seq /\ lock' = lock /\ cmd' = cmd /\ tx' = tx
      /\ result' = result /\ raced' = raced /\ ops' = ops /\ writes' = writes
      /\ mpc' = [mpc EXCEPT ![m] = pc] /\ mpc'[m] = pc
  BY Facts DEF CountRows
<1>4. c \in Counts /\ c.rows = n /\ counted' = [counted EXCEPT ![m] = c] /\ counted'[m].rows = n
  BY <1>2, Facts DEF CountRows, Counts
<1>5. pc \in {"count turns", "delete"} /\ (pc = "count turns" => ScopeOf(m) = {})
  OBVIOUS
<1> HIDE DEF c, pc
<1>6. Command_OK(m)'
  BY <1>1, <1>3, <1>5, CommandUnderLock
<1>7. tx[m].ins = <<>> /\ tx[m].del = {} /\ tx[m].turns = NoTurns
  BY <1>1, Own, NoEffects DEF Command_OK
<1>8. Effects_OK(m)'
  BY <1>3, <1>7, Own DEF Effects_OK, IsRemap
<1>9. StillTrue(m)'
  <2>1. ScopeOf(m)' = ScopeOf(m)
    BY <1>3 DEF ScopeOf, Scope
  <2>2. pc = "count turns" => n = Cardinality(tx[m].del)
    BY <1>5, <1>7
  <2>3. CleanupTrue(m)'
    BY <1>3, <1>4, <1>5, <2>1, <2>2 DEF CleanupTrue
  <2> QED
    BY <1>1, <1>3, <2>3 DEF StillTrue, IsRemap
<1>10. Result_OK(m)'
  BY <1>3, Own DEF Result_OK
<1>11. Frame(m)
  BY <1>3, <1>4, Facts, LockedFrame
<1>12. Inv(m)'
  BY <1>6, <1>8, <1>9, <1>10 DEF Inv
<1>13. pc \in Statements
  BY <1>5 DEF Statements
<1> HIDE DEF n
<1> QED
  BY <1>3, <1>4, <1>11, <1>12, <1>13, Facts, Own, QuietStep

LEMMA TheirTurns ==
  ASSUME IInv, NEW m \in Operators
  PROVE  TurnsOf(m) \in [Identities -> Nat] /\ \A a \in Identities : TurnsOf(m)[a] <= turns[a]
<1>1. \A a \in Identities : turns[a] \in Nat
  BY Facts DEF TableOK
<1> QED
  BY <1>1 DEF TurnsOf

LEMMA CountTurnsKeeps ==
  ASSUME IInv, NEW m \in Operators, CountTurns(m)
  PROVE  IInv'
<1> DEFINE c == [counted[m] EXCEPT !.turns = TurnsOf(m)]
           pc == IF TurnsOf(m) = NoTurns THEN "commit" ELSE "turns"
<1>1. ~IsRemap(m) /\ mpc[m] = "count turns"
  BY Own DEF CountTurns, Command_OK
<1>2. /\ rows' = rows /\ turns' = turns /\ seq' = seq /\ lock' = lock /\ cmd' = cmd /\ tx' = tx
      /\ result' = result /\ raced' = raced /\ ops' = ops /\ writes' = writes
      /\ mpc' = [mpc EXCEPT ![m] = pc] /\ mpc'[m] = pc
  BY Facts DEF CountTurns
<1>3. /\ c \in Counts /\ counted' = [counted EXCEPT ![m] = c]
      /\ counted'[m].turns = TurnsOf(m) /\ counted'[m].rows = counted[m].rows
  BY TheirTurns, Facts DEF CountTurns, Counts
<1>4. pc \in {"commit", "turns"} /\ (pc = "commit" => TurnsOf(m) = NoTurns)
  OBVIOUS
<1> HIDE DEF c, pc
<1>5. Command_OK(m)'
  BY <1>1, <1>2, <1>4, CommandUnderLock
<1>6. tx[m].turns = NoTurns
  BY <1>1, Own DEF Effects_OK
<1>7. Effects_OK(m)'
  BY <1>1, <1>2, <1>4, <1>6, Own DEF Effects_OK, IsRemap
<1>8. StillTrue(m)'
  <2>1. TurnsOf(m)' = TurnsOf(m)
    BY <1>2 DEF TurnsOf
  <2>2. ~raced[m] => counted[m].rows = Cardinality(tx[m].del)
    BY <1>1, Own DEF StillTrue, CleanupTrue
  <2>3. ~raced[m] => CleanupTrue(m)'
    BY <1>2, <1>3, <1>4, <1>6, <2>1, <2>2 DEF CleanupTrue
  <2> QED
    BY <1>1, <1>2, <2>3 DEF StillTrue, IsRemap
<1>9. Result_OK(m)'
  BY <1>2, Own DEF Result_OK
<1>10. Frame(m)
  BY <1>2, <1>3, Facts, LockedFrame
<1>11. Inv(m)'
  BY <1>5, <1>7, <1>8, <1>9 DEF Inv
<1>12. pc \in Statements
  BY <1>4 DEF Statements
<1> QED
  BY <1>2, <1>3, <1>10, <1>11, <1>12, Facts, Own, QuietStep

(* A statement that leaves the copied rows alone. *)
LEMMA EffectsStep ==
  ASSUME IInv, NEW m \in Operators, UNCHANGED <<rows, turns, seq, cmd>>, IsTx(tx'[m]),
         tx'[m].ins = tx[m].ins, tx'[m].del \subseteq 1..(seq - 1),
         tx'[m].turns \in [Identities -> Nat],
         \A a \in Identities : tx'[m].turns[a] <= turns[a],
         mpc[m] # "insert", mpc'[m] \in {"count turns", "turns", "commit"},
         mpc'[m] # "commit" => tx'[m].turns = NoTurns
  PROVE  Effects_OK(m)'
<1>1. /\ DOMAIN tx[m].ins \subseteq 1..(seq - 1) /\ DOMAIN tx[m].ins \cap DOMAIN rows = {}
      /\ \A i \in DOMAIN tx[m].ins : tx[m].ins[i] \in Row /\ tx[m].ins[i].agent = cmd[m].new
      /\ ~IsRemap(m) => tx[m].ins = <<>>
  BY Own DEF Effects_OK
<1>2. IsRemap(m)' = IsRemap(m)
  BY DEF IsRemap
<1> QED
  BY <1>1, <1>2 DEF Effects_OK

LEMMA TakeTurnsKeeps ==
  ASSUME IInv, NEW m \in Operators, TakeTurns(m)
  PROVE  IInv'
<1> DEFINE c == [counted[m] EXCEPT !.turns = TurnsOf(m)]
<1>1. mpc[m] = "turns" /\ (~IsRemap(m) => cmd[m].kind = "cleanup")
  BY Kinds DEF TakeTurns
<1>2. /\ rows' = rows /\ turns' = turns /\ seq' = seq /\ lock' = lock /\ cmd' = cmd
      /\ result' = result /\ raced' = raced /\ ops' = ops /\ writes' = writes
      /\ mpc' = [mpc EXCEPT ![m] = "commit"] /\ mpc'[m] = "commit"
  BY Facts DEF TakeTurns
<1>3. /\ DOMAIN tx' = Operators /\ \A n \in Operators \ {m} : tx'[n] = tx[n]
      /\ IsTx(tx'[m])
      /\ tx'[m].ins = tx[m].ins /\ tx'[m].del = tx[m].del /\ tx'[m].turns = TurnsOf(m)
  <2>1. /\ DOMAIN tx' = Operators /\ \A n \in Operators \ {m} : tx'[n] = tx[n]
        /\ tx'[m] = [tx[m] EXCEPT !.turns = TurnsOf(m)]
    BY Facts DEF TakeTurns
  <2>2. PICK i, d, t : tx[m] = [ins |-> i, del |-> d, turns |-> t]
    BY Own DEF Effects_OK, IsTx
  <2> QED
    BY <2>1, <2>2 DEF IsTx
<1>4. \E d \in Counts :
        /\ counted' = [counted EXCEPT ![m] = d] /\ counted'[m].rows = counted[m].rows
        /\ IsRemap(m) => counted'[m].turns = TurnsOf(m)
        /\ ~IsRemap(m) => counted'[m] = counted[m]
  <2>1. CASE IsRemap(m)
    <3>1. c \in Counts /\ counted' = [counted EXCEPT ![m] = c]
      BY <2>1, TheirTurns, Facts DEF TakeTurns, Counts, IsRemap
    <3>2. counted'[m].turns = TurnsOf(m) /\ counted'[m].rows = counted[m].rows
      BY <3>1, Facts DEF Counts
    <3> QED
      BY <2>1, <3>1, <3>2
  <2>2. CASE ~IsRemap(m)
    BY <1>1, <2>2, Own DEF TakeTurns
  <2> QED
    BY <2>1, <2>2
<1>5. PICK d \in Counts :
        /\ counted' = [counted EXCEPT ![m] = d] /\ counted'[m].rows = counted[m].rows
        /\ IsRemap(m) => counted'[m].turns = TurnsOf(m)
        /\ ~IsRemap(m) => counted'[m] = counted[m]
  BY <1>4
<1>6. Command_OK(m)'
  BY <1>1, <1>2, CommandUnderLock
<1>7. Effects_OK(m)'
  BY <1>1, <1>2, <1>3, TheirTurns, Own, EffectsStep
<1>8. StillTrue(m)'
  <2>1. ScopeOf(m)' = ScopeOf(m)
    BY <1>2 DEF ScopeOf, Scope
  <2>2. Duplicates(Old(m), cmd[m].new)' = Duplicates(Old(m), cmd[m].new)
    BY <1>2 DEF Duplicates, Old, Scope, TextsOf
  <2>3. ASSUME ~raced[m], IsRemap(m) PROVE RemapTrue(m)'
    <3>1. RemapTrue(m)
      BY <2>3, Own DEF StillTrue
    <3>2. Copied(m)' = Copied(m)
      BY <2>1, <2>2 DEF Copied
    <3>3. /\ counted[m].rows = Cardinality(Duplicates(Old(m), cmd[m].new))
          /\ cmd[m].force \/ counted[m].rows <= DupLimit
          /\ Cardinality(DOMAIN tx[m].ins) = Cardinality(Copied(m))
          /\ Texts(tx[m].ins, DOMAIN tx[m].ins) = Texts(rows, Copied(m))
          /\ tx[m].del = ScopeOf(m)
      BY <1>1, <3>1 DEF RemapTrue
    <3> QED
      BY <1>2, <1>3, <1>5, <2>1, <2>2, <2>3, <3>2, <3>3 DEF RemapTrue
  <2>4. ASSUME ~raced[m], ~IsRemap(m) PROVE CleanupTrue(m)'
    <3>1. counted[m].rows = Cardinality(tx[m].del) /\ counted[m].turns = TurnsOf(m)
      BY <1>1, <2>4, Own DEF StillTrue, CleanupTrue
    <3> QED
      BY <1>2, <1>3, <1>5, <2>4, <3>1 DEF CleanupTrue
  <2> QED
    BY <1>2, <2>3, <2>4 DEF StillTrue, IsRemap
<1>9. Result_OK(m)'
  BY <1>2, Own DEF Result_OK
<1>10. Frame(m)
  BY <1>2, <1>3, <1>5, Facts, LockedFrame
<1>11. Inv(m)'
  BY <1>6, <1>7, <1>8, <1>9 DEF Inv
<1>12. /\ tx'[m].turns \in [Identities -> Nat] /\ tx'[m].del \subseteq 1..(seq' - 1)
  BY <1>2, <1>3, TheirTurns, Own
<1> QED
  BY <1>2, <1>5, <1>10, <1>11, <1>12, Facts, Own, QuietStep DEF Statements

LEMMA DeleteKeeps ==
  ASSUME IInv, NEW m \in Operators, DeleteOld(m)
  PROVE  IInv'
<1> DEFINE pc == IF cmd[m].kind = "remap" THEN "turns" ELSE "count turns"
<1>1. mpc[m] = "delete"
  BY DEF DeleteOld
<1>2. /\ rows' = rows /\ turns' = turns /\ seq' = seq /\ lock' = lock /\ cmd' = cmd
      /\ result' = result /\ raced' = raced /\ ops' = ops /\ writes' = writes
      /\ counted' = counted /\ mpc' = [mpc EXCEPT ![m] = pc] /\ mpc'[m] = pc
  BY Facts DEF DeleteOld
<1>3. /\ DOMAIN tx' = Operators /\ \A n \in Operators \ {m} : tx'[n] = tx[n]
      /\ IsTx(tx'[m])
      /\ tx'[m].ins = tx[m].ins /\ tx'[m].del = ScopeOf(m) /\ tx'[m].turns = tx[m].turns
  <2>1. /\ DOMAIN tx' = Operators /\ \A n \in Operators \ {m} : tx'[n] = tx[n]
        /\ tx'[m] = [tx[m] EXCEPT !.del = ScopeOf(m)]
    BY Facts DEF DeleteOld
  <2>2. PICK i, d, t : tx[m] = [ins |-> i, del |-> d, turns |-> t]
    BY Own DEF Effects_OK, IsTx
  <2> QED
    BY <2>1, <2>2 DEF IsTx
<1>4. (IsRemap(m) => pc = "turns") /\ (~IsRemap(m) => pc = "count turns")
  BY DEF IsRemap
<1> HIDE DEF pc
<1>5. Command_OK(m)'
  BY <1>1, <1>2, <1>4, CommandUnderLock
<1>6. Effects_OK(m)'
  <2>1. tx[m].turns = NoTurns /\ (~IsRemap(m) => tx[m].ins = <<>>)
    BY <1>1, Own DEF Effects_OK
  <2>2. tx[m].turns \in [Identities -> Nat] /\ \A a \in Identities : tx[m].turns[a] <= turns[a]
    BY Own DEF Effects_OK
  <2> QED
    BY <1>1, <1>2, <1>3, <1>4, <2>1, <2>2, Scopes, EffectsStep
<1>7. StillTrue(m)'
  <2>1. ScopeOf(m)' = ScopeOf(m)
    BY <1>2 DEF ScopeOf, Scope
  <2>2. Duplicates(Old(m), cmd[m].new)' = Duplicates(Old(m), cmd[m].new)
    BY <1>2 DEF Duplicates, Old, Scope, TextsOf
  <2>3. ASSUME ~raced[m], IsRemap(m) PROVE RemapTrue(m)'
    <3>1. RemapTrue(m)
      BY <2>3, Own DEF StillTrue
    <3>2. Copied(m)' = Copied(m)
      BY <2>1, <2>2 DEF Copied
    <3>3. /\ counted[m].rows = Cardinality(Duplicates(Old(m), cmd[m].new))
          /\ cmd[m].force \/ counted[m].rows <= DupLimit
          /\ Cardinality(DOMAIN tx[m].ins) = Cardinality(Copied(m))
          /\ Texts(tx[m].ins, DOMAIN tx[m].ins) = Texts(rows, Copied(m))
      BY <1>1, <3>1 DEF RemapTrue
    <3> QED
      BY <1>2, <1>3, <1>4, <2>1, <2>2, <2>3, <3>2, <3>3 DEF RemapTrue
  <2>4. ASSUME ~raced[m], ~IsRemap(m) PROVE CleanupTrue(m)'
    <3>1. counted[m].rows = Cardinality(ScopeOf(m))
      BY <1>1, <2>4, Own DEF StillTrue, CleanupTrue
    <3> QED
      BY <1>2, <1>3, <1>4, <2>4, <3>1 DEF CleanupTrue
  <2> QED
    BY <1>2, <2>3, <2>4 DEF StillTrue, IsRemap
<1>8. Result_OK(m)'
  BY <1>2, Own DEF Result_OK
<1>9. Inv(m)'
  BY <1>5, <1>6, <1>7, <1>8 DEF Inv
<1>10. pc \in Statements /\ counted' = [counted EXCEPT ![m] = counted[m]] /\ counted[m] \in Counts
  BY <1>2, <1>4, Own DEF Statements
<1>11. Frame(m)
  BY <1>2, <1>3, <1>10, Facts, LockedFrame
<1>12. /\ tx'[m].turns \in [Identities -> Nat] /\ tx'[m].del \subseteq 1..(seq' - 1)
  BY <1>2, <1>3, Scopes, Own
<1>13. /\ raced' \in [Operators -> BOOLEAN] /\ lock' \in Operators \cup {Nobody}
       /\ ops' \in Nat /\ seq' \in Nat /\ seq <= seq'
  BY <1>2, Facts, Own
<1> QED
  BY <1>2, <1>9, <1>10, <1>11, <1>12, <1>13, QuietStep

LEMMA CopyKeeps ==
  ASSUME IInv, NEW m \in Operators, CopyRows(m)
  PROVE  IInv'
<1> DEFINE src == ScopeOf(m) \ Duplicates(Old(m), cmd[m].new)
           NewId(i) == seq + Rank(src, i)
           Source(id) == CHOOSE i \in src : NewId(i) = id
           ids == {NewId(i) : i \in src}
           ins == [id \in ids |-> [rows[Source(id)] EXCEPT !.agent = cmd[m].new]]
<1>1. mpc[m] = "insert" /\ IsRemap(m) /\ seq \in Nat
  BY Own DEF CopyRows, Command_OK
<1>2. PICK a \in Identities, b \in Identities : cmd[m].new = b /\ ScopeOf(m) = Scope(rows, a)
  BY <1>1, RemapFacts
<1>3. src \subseteq DOMAIN rows /\ src \subseteq 1..(seq - 1) /\ seq - 1 \in Nat
  BY Scopes
<1>4. Cardinality(src) \in Nat
  <2> HIDE DEF src
  <2> QED
    BY <1>3, Finite
<1>5. /\ \A i \in src : Rank(src, i) \in Nat /\ Rank(src, i) < Cardinality(src)
      /\ \A i, j \in src : NewId(i) = NewId(j) => i = j
      /\ Cardinality(ids) = Cardinality(src)
  <2> HIDE DEF src
  <2> QED
    BY <1>1, <1>3, NewIds
<1>6. /\ rows' = rows /\ turns' = turns /\ seq' = seq + Cardinality(src) /\ lock' = lock /\ cmd' = cmd
      /\ result' = result /\ raced' = raced /\ ops' = ops /\ writes' = writes
      /\ counted' = counted /\ mpc' = [mpc EXCEPT ![m] = "delete"] /\ mpc'[m] = "delete"
  BY Facts DEF CopyRows
<1>7. /\ DOMAIN tx' = Operators /\ \A n \in Operators \ {m} : tx'[n] = tx[n]
      /\ tx'[m] = [tx[m] EXCEPT !.ins = ins]
  BY Facts DEF CopyRows, Rank
<1>8. Copied(m) = src
  BY DEF Copied
<1> HIDE DEF src
<1>9. \A id \in ids : Source(id) \in src /\ NewId(Source(id)) = id
  OBVIOUS
<1>10. \A i \in src : NewId(i) \in ids /\ Source(NewId(i)) = i
  <2> TAKE i \in src
  <2>1. NewId(i) \in ids
    OBVIOUS
  <2> QED
    BY <1>5, <1>9, <2>1
<1>11. ids \subseteq 1..(seq' - 1) /\ ids \cap DOMAIN rows = {}
  <2> SUFFICES ASSUME NEW i \in src PROVE NewId(i) \in 1..(seq' - 1) /\ NewId(i) \notin DOMAIN rows
    OBVIOUS
  <2>1. NewId(i) \in Nat /\ seq <= NewId(i) /\ NewId(i) < seq' /\ seq' \in Nat /\ 1 <= seq
    BY <1>1, <1>4, <1>5, <1>6, Facts DEF TableOK
  <2>2. NewId(i) \notin 1..(seq - 1)
    BY <1>1, <2>1
  <2> QED
    BY <1>6, <2>1, <2>2, Facts DEF TableOK
<1>12. /\ DOMAIN ins = ids
       /\ \A id \in ids : /\ ins[id] \in Row /\ ins[id].agent = cmd[m].new
                          /\ ins[id].content = rows[Source(id)].content
  <2> SUFFICES ASSUME NEW id \in ids
               PROVE  /\ ins[id] \in Row /\ ins[id].agent = cmd[m].new
                      /\ ins[id].content = rows[Source(id)].content
    OBVIOUS
  <2>1. rows[Source(id)] \in Row
    BY <1>3, <1>9, Facts DEF TableOK
  <2>2. ins[id] = [rows[Source(id)] EXCEPT !.agent = cmd[m].new]
    OBVIOUS
  <2>3. cmd[m].new \in STRING
    BY <1>2, MaintenanceAssumption
  <2> HIDE DEF Source, ins
  <2> QED
    BY <2>1, <2>2, <2>3 DEF Row
<1> HIDE DEF ins, ids, NewId, Source
<1>13. Texts(ins, ids) = Texts(rows, src)
  <2>1. ASSUME NEW id \in ids PROVE ins[id].content \in Texts(rows, src)
    BY <1>9, <1>12, <2>1 DEF Texts
  <2>2. ASSUME NEW i \in src PROVE rows[i].content \in Texts(ins, ids)
    BY <1>10, <1>12, <2>2 DEF Texts
  <2> QED
    BY <2>1, <2>2 DEF Texts
<1>14. /\ IsTx(tx'[m]) /\ tx'[m].ins = ins /\ tx'[m].del = tx[m].del /\ tx'[m].turns = tx[m].turns
  <2>1. PICK i, d, t : tx[m] = [ins |-> i, del |-> d, turns |-> t]
    BY Own DEF Effects_OK, IsTx
  <2> QED
    BY <1>7, <2>1 DEF IsTx
<1>15. tx[m].del = {} /\ tx[m].turns = NoTurns
  BY <1>1, Own DEF Effects_OK
<1>16. seq' \in Nat /\ seq <= seq' /\ 1..(seq - 1) \subseteq 1..(seq' - 1)
  <2>1. seq' \in Nat /\ seq <= seq'
    BY <1>1, <1>4, <1>6
  <2> QED
    BY <1>1, <2>1, Ids
<1>17. Command_OK(m)'
  BY <1>1, <1>6, CommandUnderLock
<1>18. Effects_OK(m)'
  <2>1. tx[m].turns \in [Identities -> Nat] /\ \A x \in Identities : tx[m].turns[x] <= turns[x]
    BY Own DEF Effects_OK
  <2>2. IsRemap(m)'
    BY <1>1, <1>6 DEF IsRemap
  <2> QED
    BY <1>6, <1>11, <1>12, <1>14, <1>15, <1>16, <2>1, <2>2 DEF Effects_OK
<1>19. StillTrue(m)'
  <2>1. Copied(m)' = Copied(m) /\ Duplicates(Old(m), cmd[m].new)' = Duplicates(Old(m), cmd[m].new)
    BY <1>6 DEF Copied, ScopeOf, Duplicates, Old, Scope, TextsOf
  <2>2. ~raced[m] => /\ counted[m].rows = Cardinality(Duplicates(Old(m), cmd[m].new))
                     /\ cmd[m].force \/ counted[m].rows <= DupLimit
    BY <1>1, Own DEF StillTrue, RemapTrue
  <2>3. Cardinality(DOMAIN tx'[m].ins) = Cardinality(Copied(m))
    BY <1>5, <1>8, <1>12, <1>14
  <2>4. Texts(tx'[m].ins, DOMAIN tx'[m].ins) = Texts(rows', Copied(m))
    BY <1>6, <1>8, <1>12, <1>13, <1>14
  <2>5. ~raced[m] => RemapTrue(m)'
    BY <1>6, <2>1, <2>2, <2>3, <2>4 DEF RemapTrue
  <2> QED
    BY <1>1, <1>6, <2>5 DEF StillTrue, IsRemap
<1>20. Result_OK(m)'
  BY <1>6, Own DEF Result_OK
<1>21. Inv(m)'
  BY <1>17, <1>18, <1>19, <1>20 DEF Inv
<1>22. counted' = [counted EXCEPT ![m] = counted[m]] /\ counted[m] \in Counts /\ "delete" \in Statements
  BY <1>6, Own DEF Statements
<1>23. Frame(m)
  BY <1>6, <1>7, <1>22, Facts, LockedFrame
<1>24. /\ tx'[m].turns \in [Identities -> Nat] /\ tx'[m].del \subseteq 1..(seq' - 1)
       /\ raced' \in [Operators -> BOOLEAN] /\ lock' \in Operators \cup {Nobody} /\ ops' \in Nat
  BY <1>6, <1>14, <1>15, Facts, NoEffects
<1> QED
  BY <1>6, <1>16, <1>21, <1>22, <1>23, <1>24, QuietStep

(* What an unraced command did is what it has counted. *)
LEMMA CommitTrue ==
  ASSUME IInv, NEW m \in Operators, mpc[m] = "commit", ~raced[m]
  PROVE  /\ counted[m] = [rows |-> Cardinality(tx[m].del) - Cardinality(DOMAIN tx[m].ins),
                          turns |-> tx[m].turns]
         /\ IsRemap(m) => cmd[m].force \/ counted[m].rows <= DupLimit
<1>1. counted[m] = [rows |-> counted[m].rows, turns |-> counted[m].turns] /\ counted[m].rows \in Nat
  BY Own DEF Counts
<1>2. CASE IsRemap(m)
  <2>1. RemapTrue(m)
    BY <1>2, Own DEF StillTrue
  <2>2. /\ counted[m].rows = Cardinality(Duplicates(Old(m), cmd[m].new))
        /\ Cardinality(DOMAIN tx[m].ins) = Cardinality(Copied(m))
        /\ tx[m].del = ScopeOf(m) /\ counted[m].turns = tx[m].turns
        /\ cmd[m].force \/ counted[m].rows <= DupLimit
    BY <2>1 DEF RemapTrue
  <2>3. Duplicates(Old(m), cmd[m].new) \in SUBSET ScopeOf(m)
    BY <1>2, RemapFacts DEF Duplicates
  <2>4. /\ Cardinality(Copied(m)) = Cardinality(ScopeOf(m)) - Cardinality(Duplicates(Old(m), cmd[m].new))
        /\ Cardinality(Duplicates(Old(m), cmd[m].new)) \in Nat /\ Cardinality(ScopeOf(m)) \in Nat
    BY <2>3, Scopes, Finite DEF Copied
  <2>5. counted[m].rows = Cardinality(tx[m].del) - Cardinality(DOMAIN tx[m].ins)
    BY <2>2, <2>4
  <2> QED
    BY <1>1, <2>2, <2>5
<1>3. CASE ~IsRemap(m)
  <2>1. CleanupTrue(m) /\ tx[m].ins = <<>>
    BY <1>3, Own DEF StillTrue, Effects_OK
  <2>2. counted[m].rows = Cardinality(tx[m].del) /\ counted[m].turns = tx[m].turns
    BY <2>1 DEF CleanupTrue
  <2>3. Cardinality(DOMAIN tx[m].ins) = 0
    BY <2>1, NoEffects, FS_EmptySet
  <2>4. counted[m].rows = Cardinality(tx[m].del) - Cardinality(DOMAIN tx[m].ins)
    BY <1>1, <2>2, <2>3
  <2> QED
    BY <1>1, <1>3, <2>2, <2>4
<1> QED
  BY <1>2, <1>3

LEMMA CommitKeeps ==
  ASSUME IInv, NEW m \in Operators, Commit(m)
  PROVE  IInv'
<1> DEFINE r == [kind |-> cmd[m].kind, reported |-> counted[m], forced |-> cmd[m].force,
                 raced |-> raced[m],
                 actual |-> [rows |-> Cardinality(tx[m].del) - Cardinality(DOMAIN tx[m].ins),
                             turns |-> tx[m].turns]]
<1>1. mpc[m] = "commit" /\ Ends(m) /\ seq' = seq /\ lock = m /\ result' = [result EXCEPT ![m] = r]
  BY Own DEF Commit
<1>2. Result_OK(m)'
  <2>1. result'[m] = r
    BY <1>1, Facts
  <2>2. ~raced[m] => r.reported = r.actual
    BY <1>1, CommitTrue
  <2>3. ~raced[m] /\ IsRemap(m) /\ ~cmd[m].force => r.reported.rows <= DupLimit
    BY <1>1, CommitTrue
  <2>4. r.kind = cmd[m].kind /\ r.forced = cmd[m].force /\ r.raced = raced[m]
    OBVIOUS
  <2> HIDE DEF r
  <2> QED
    BY <2>1, <2>2, <2>3, <2>4 DEF Result_OK, IsRemap
<1>3. DOMAIN rows' \subseteq 1..(seq' - 1) /\ \A i \in DOMAIN rows' : rows'[i] \in Row
  <2>1. /\ DOMAIN rows' = (DOMAIN rows \ tx[m].del) \cup DOMAIN tx[m].ins
        /\ \A i \in DOMAIN rows' : rows'[i] = IF i \in DOMAIN rows THEN rows[i] ELSE tx[m].ins[i]
    BY DEF Commit
  <2>2. DOMAIN tx[m].ins \subseteq 1..(seq - 1) /\ \A i \in DOMAIN tx[m].ins : tx[m].ins[i] \in Row
    BY Own DEF Effects_OK
  <2> QED
    BY <1>1, <2>1, <2>2, Facts DEF TableOK
<1>4. turns' \in [Identities -> Nat]
  <2>1. ASSUME NEW a \in Identities
        PROVE  turns[a] - tx[m].turns[a]
                 + (IF cmd[m].kind = "remap" /\ a = cmd[m].new THEN tx[m].turns[Old(m)] ELSE 0) \in Nat
    <3>1. turns[a] \in Nat /\ tx[m].turns[a] \in Nat /\ tx[m].turns[a] <= turns[a]
      <4>1. tx[m].turns \in [Identities -> Nat] /\ tx[m].turns[a] <= turns[a]
        BY Own DEF Effects_OK
      <4>2. turns[a] \in Nat
        BY Facts DEF TableOK
      <4> QED
        BY <4>1, <4>2
    <3>2. turns[a] - tx[m].turns[a] \in Nat
      BY <3>1
    <3>3. cmd[m].kind = "remap" => tx[m].turns[Old(m)] \in Nat
      BY <1>1, RemapFacts, Own DEF IsRemap
    <3>4. (IF cmd[m].kind = "remap" /\ a = cmd[m].new THEN tx[m].turns[Old(m)] ELSE 0) \in Nat
      BY <3>3
    <3> QED
      BY <3>2, <3>4
  <2> QED
    BY <2>1 DEF Commit
<1>5. TableOK'
  BY <1>1, <1>3, <1>4, Facts DEF TableOK
<1> HIDE DEF r
<1> QED
  BY <1>1, <1>2, <1>5, EndKeeps

-----------------------------------------------------------------------------
(* The theorems *)

LEMMA CommandKeeps ==
  ASSUME IInv, NEW m \in Operators, Command(m)
  PROVE  IInv'
  BY TakeLockKeeps, AbortKeeps, CommitKeeps, RecountKeeps, CopyKeeps, DeleteKeeps, TakeTurnsKeeps,
     CountRowsKeeps, CountTurnsKeeps DEF Command

LEMMA InitIInv == Init => IInv
<1> SUFFICES ASSUME Init PROVE IInv
  OBVIOUS
<1>1. PICK t \in Tables : rows = t.rows /\ turns = t.turns /\ seq = Len(t.rows) + 1
  BY DEF Init
<1>2. TableOK
  <2>1. t.rows \in Seq(Row) /\ t.turns \in [Identities -> Nat]
    BY MaintenanceAssumption
  <2>2. Len(t.rows) \in Nat /\ DOMAIN rows = 1..Len(t.rows) /\ seq - 1 = Len(t.rows)
    BY <1>1, <2>1
  <2> QED
    BY <1>1, <2>1, <2>2 DEF TableOK
<1>3. /\ mpc = [m \in Operators |-> "idle"] /\ lock = Nobody /\ cmd = [m \in Operators |-> NoCmd]
      /\ counted = [m \in Operators |-> Nothing] /\ tx = [m \in Operators |-> NoTx]
      /\ result = [m \in Operators |-> NoResult] /\ raced = [m \in Operators |-> FALSE]
      /\ ops = 0 /\ writes = 0
  BY DEF Init
<1>4. TypeOK
  <2>1. mpc \in [Operators -> Statements] /\ raced \in [Operators -> BOOLEAN]
    BY <1>3 DEF Statements
  <2>2. counted \in [Operators -> Counts]
    BY <1>3, NoEffects
  <2>3. \A m \in Operators : tx[m].turns \in [Identities -> Nat] /\ tx[m].del \subseteq 1..(seq - 1)
    BY <1>3, NoEffects
  <2> QED
    BY <1>2, <1>3, <2>1, <2>2, <2>3 DEF TypeOK, TableOK, Statements, Counts
<1>5. ASSUME NEW m \in Operators PROVE Inv(m)
  <2>1. /\ mpc[m] = "idle" /\ tx[m] = NoTx /\ ~raced[m] /\ counted[m] = Nothing /\ lock # m
        /\ result[m] = NoResult
    BY <1>3, MaintenanceAssumption
  <2>2. Command_OK(m)
    BY <2>1 DEF Command_OK, UnderLock
  <2>3. Effects_OK(m)
    <3>1. \A a \in Identities : NoTurns[a] <= turns[a]
      BY <1>2, NoEffects DEF TableOK
    <3> QED
      BY <2>1, <3>1, NoEffects DEF Effects_OK
  <2>4. StillTrue(m) /\ Result_OK(m)
    BY <2>1 DEF StillTrue, RemapTrue, CleanupTrue, Result_OK, NoResult
  <2> QED
    BY <2>2, <2>3, <2>4 DEF Inv
<1> QED
  BY <1>3, <1>4, <1>5 DEF IInv

LEMMA StepIInv == IInv /\ [Next]_vars => IInv'
<1> SUFFICES ASSUME IInv, [Next]_vars PROVE IInv'
  OBVIOUS
<1>1. CASE Agents
  BY <1>1, AgentsKeep DEF Agents
<1>2. ASSUME NEW m \in Operators, Command(m) PROVE IInv'
  BY <1>2, CommandKeeps
<1>3. ASSUME NEW m \in Operators, NEW a \in Identities, NEW b \in Identities, NEW f \in BOOLEAN,
             RemapBegins(m, a, b, f)
      PROVE  IInv'
  BY <1>3, BeginKeeps DEF RemapBegins
<1>4. ASSUME NEW m \in Operators, NEW olds \in SUBSET Identities \ {{}}, CleanupBegins(m, olds)
      PROVE  IInv'
  BY <1>4, BeginKeeps DEF CleanupBegins
<1>5. ASSUME NEW old \in [Identities -> 0..MaxWrites], Prune(old) PROVE IInv'
  BY <1>5, PruneKeeps
<1>6. CASE UNCHANGED vars
  <2>1. ASSUME NEW m \in Operators PROVE Inv(m)'
    <3>1. Inv(m)
      BY DEF IInv
    <3>2. /\ Command_OK(m)' = Command_OK(m) /\ Effects_OK(m)' = Effects_OK(m)
          /\ StillTrue(m)' = StillTrue(m) /\ Result_OK(m)' = Result_OK(m)
      BY <1>6 DEF vars, Command_OK, Effects_OK, StillTrue, Result_OK, UnderLock, IsRemap, RemapTrue,
         CleanupTrue, Copied, ScopeOf, Duplicates, Old, Scope, TextsOf, TurnsOf, Texts
    <3> QED
      BY <3>1, <3>2 DEF Inv
  <2>2. TypeOK'
    BY <1>6 DEF IInv, TypeOK, vars
  <2> QED
    BY <1>6, <2>1, <2>2 DEF IInv, vars
<1> QED
  BY <1>1, <1>2, <1>3, <1>4, <1>5, <1>6 DEF Next

(* The invariant holds of every run, whatever agents and operators do.     *)
THEOREM Invariance == Spec => []IInv
  BY InitIInv, StepIInv, PTL DEF Spec

(* The variables keep their types: among others, no turn count of an       *)
(* identity goes below zero, whichever moves, deletes and prunes overlap.  *)
THEOREM TypeCorrect == Spec => []TypeOK
<1>1. IInv => TypeOK
  BY DEF IInv
<1> QED
  BY <1>1, Invariance, PTL

(* What remap and cleanup report of both tables is what they did, unless   *)
(* an agent or a prune wrote under their identities between the count and  *)
(* the commit: the advisory lock keeps all other commands out.             *)
THEOREM Reports == Spec => []ReportsWhatItDid
<1>1. IInv => ReportsWhatItDid
  BY DEF IInv, Inv, Result_OK, ReportsWhatItDid
<1> QED
  BY <1>1, Invariance, PTL

(* A remap without force drops no more duplicates than the limit, under    *)
(* the same proviso: the recount under the lock is what decides.           *)
THEOREM ForceGuardHolds == Spec => []ForceGuardWhenQuiet
<1>1. IInv => ForceGuardWhenQuiet
  BY DEF IInv, Inv, Result_OK, ForceGuardWhenQuiet
<1> QED
  BY <1>1, Invariance, PTL

LEMMA CommitMerges ==
  ASSUME IInv, NEW m \in Operators, Commit(m), ~raced[m], IsRemap(m)
  PROVE  Family(m) = TextsOf(rows', cmd[m].new) /\ Scope(rows', Old(m)) = {}
<1>1. mpc[m] = "commit"
  BY DEF Commit
<1>2. PICK a \in Identities, b \in Identities :
        a # b /\ cmd[m].new = b /\ Old(m) = a /\ ScopeOf(m) = Scope(rows, a)
  BY <1>1, RemapFacts
<1>3. /\ Texts(tx[m].ins, DOMAIN tx[m].ins) = Texts(rows, Copied(m))
      /\ tx[m].del = Scope(rows, a) /\ Copied(m) = Scope(rows, a) \ Duplicates(a, b)
  BY <1>1, <1>2, Own DEF StillTrue, RemapTrue, Copied
<1>4. /\ DOMAIN tx[m].ins \cap DOMAIN rows = {}
      /\ \A i \in DOMAIN tx[m].ins : tx[m].ins[i].agent = b
  BY <1>2, Own DEF Effects_OK
<1>5. /\ DOMAIN rows' = (DOMAIN rows \ Scope(rows, a)) \cup DOMAIN tx[m].ins
      /\ \A i \in DOMAIN rows' : rows'[i] = IF i \in DOMAIN rows THEN rows[i] ELSE tx[m].ins[i]
  BY <1>3 DEF Commit
<1>6. /\ \A i \in DOMAIN rows \ Scope(rows, a) : i \in DOMAIN rows' /\ rows'[i] = rows[i]
      /\ \A i \in DOMAIN tx[m].ins : i \in DOMAIN rows' /\ rows'[i] = tx[m].ins[i]
  BY <1>4, <1>5
<1>7. Scope(rows', a) = {}
  BY <1>2, <1>4, <1>5, <1>6 DEF Scope
<1>8. Scope(rows', b) = Scope(rows, b) \cup DOMAIN tx[m].ins
  BY <1>2, <1>4, <1>5, <1>6 DEF Scope
<1>9. \A i \in Scope(rows, b) : rows'[i] = rows[i]
  BY <1>2, <1>6 DEF Scope
<1>10. ASSUME NEW i \in Scope(rows', b) PROVE rows'[i].content \in Family(m)
  <2>1. CASE i \in Scope(rows, b)
    BY <1>2, <1>9, <2>1 DEF Family, TextsOf
  <2>2. CASE i \in DOMAIN tx[m].ins
    <3>1. rows'[i].content \in Texts(rows, Copied(m))
      BY <1>3, <1>6, <2>2 DEF Texts
    <3> QED
      BY <1>2, <1>3, <3>1 DEF Texts, Family, TextsOf
  <2> QED
    BY <1>8, <2>1, <2>2
<1>11. ASSUME NEW i \in Scope(rows, b) PROVE rows[i].content \in TextsOf(rows', b)
  BY <1>8, <1>9 DEF TextsOf
<1>12. ASSUME NEW i \in Scope(rows, a) PROVE rows[i].content \in TextsOf(rows', b)
  <2>1. CASE i \in Duplicates(a, b)
    BY <1>11, <2>1 DEF Duplicates, TextsOf
  <2>2. CASE i \notin Duplicates(a, b)
    <3>1. rows[i].content \in Texts(tx[m].ins, DOMAIN tx[m].ins)
      BY <1>3, <2>2 DEF Texts
    <3> QED
      BY <1>6, <1>8, <3>1 DEF Texts, TextsOf
  <2> QED
    BY <2>1, <2>2
<1>13. Family(m) = TextsOf(rows', b)
  <2>1. ASSUME NEW c \in TextsOf(rows', b) PROVE c \in Family(m)
    BY <1>10, <2>1 DEF TextsOf
  <2>2. ASSUME NEW c \in Family(m) PROVE c \in TextsOf(rows', b)
    <3>1. c \in TextsOf(rows, a) \/ c \in TextsOf(rows, b)
      BY <1>2, <2>2 DEF Family
    <3>2. \E i \in Scope(rows, a) \cup Scope(rows, b) : c = rows[i].content
      BY <3>1 DEF TextsOf
    <3> QED
      BY <1>11, <1>12, <3>2
  <2> QED
    BY <2>1, <2>2
<1> QED
  BY <1>2, <1>7, <1>13

(* A step of one command moves no other to another statement. *)
LEMMA OneMoves ==
  ASSUME IInv, NEW n \in Operators,
         Command(n) \/ (\E a, b \in Identities, f \in BOOLEAN : RemapBegins(n, a, b, f))
           \/ (\E olds \in SUBSET Identities \ {{}} : CleanupBegins(n, olds))
  PROVE  \A m \in Operators \ {n} : mpc'[m] = mpc[m]
<1>1. \E pc : mpc' = [mpc EXCEPT ![n] = pc]
  <2>1. CASE Command(n)
    BY <2>1 DEF Command, TakeLock, RollBack, Commit, RecountDuplicates, RemapRefused, CopyRows,
       DeleteOld, TakeTurns, CountRows, CountTurns, Ends
  <2>2. CASE ~Command(n)
    BY <2>2 DEF RemapBegins, CleanupBegins, Begin
  <2> QED
    BY <2>1, <2>2
<1> QED
  BY <1>1, Facts

(* A remap under whose two identities no agent writes merges them, at any  *)
(* size and beside any other command: every text either held is held by    *)
(* the new one when it commits, and nothing is left under the old one.     *)
THEOREM RemapMerges == Spec => RemapMergesWhenQuiet
<1>1. ASSUME IInv, [Next]_vars, NEW m \in Operators, ~raced[m] PROVE Merges(m)
  <2> SUFFICES ASSUME mpc[m] = "commit", mpc'[m] = "idle", result'[m].kind = "remap"
               PROVE  Family(m) = TextsOf(rows', cmd[m].new) /\ Scope(rows', Old(m)) = {}
    BY DEF Merges
  <2>1. mpc' # mpc
    OBVIOUS
  <2>2. Next /\ ~(\E ids : Touches(ids))
    BY <1>1, <2>1 DEF vars, Touches
  <2>3. PICK n \in Operators :
          Command(n) \/ (\E a, b \in Identities, f \in BOOLEAN : RemapBegins(n, a, b, f))
            \/ (\E olds \in SUBSET Identities \ {{}} : CleanupBegins(n, olds))
    BY <2>2 DEF Next, Agents, AgentAdds, AgentRemoves, AgentReplaces, AgentAppendsTurn, Prune
  <2>4. n = m
    BY <1>1, <2>3, OneMoves
  <2>5. Commit(m) \/ RollBack(m)
    BY <2>3, <2>4 DEF Command, TakeLock, RecountDuplicates, RemapRefused, CopyRows, DeleteOld,
       TakeTurns, CountRows, CountTurns, RemapBegins, CleanupBegins, Begin
  <2>6. ~RollBack(m)
    BY <1>1, Facts DEF RollBack, NoResult
  <2>7. IsRemap(m)
    <3>1. result'[m].kind = cmd[m].kind
      BY <1>1, <2>5, <2>6, Facts DEF Commit
    <3> QED
      BY <3>1 DEF IsRemap
  <2> QED
    BY <1>1, <2>5, <2>6, <2>7, CommitMerges
<1>2. IInv /\ [Next]_vars => [\A m \in Operators : ~raced[m] => Merges(m)]_vars
  BY <1>1
<1> QED
  BY <1>2, Invariance, PTL DEF Spec, RemapMergesWhenQuiet

=============================================================================
