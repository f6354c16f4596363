---------------------------- MODULE MCMaintenance ----------------------------
(***************************************************************************)
(* Maintenance for TLC: two operators run one command each, or one of them *)
(* two, over two texts and two identities, while agents write.             *)
(***************************************************************************)
EXTENDS Maintenance, TLC

(* Operators are interchangeable; the properties checked are safety.       *)
Symmetry == Permutations(Operators)

Entry(a, text) == [agent |-> a, content |-> text, embedding |-> Null, edits |-> 0]

(* Nothing yet, or a text that both identities hold, one that the first    *)
(* holds alone, and a turn of each.                                        *)
MCTables ==
  {[rows |-> <<>>, turns |-> NoTurns],
   [rows |-> <<Entry("Sales", "x"), Entry("sales", "x"), Entry("Sales", "y")>>,
    turns |-> [a \in Identities |-> 1]]}

MCLikePairs == {<<c, c>> : c \in Contents}
=============================================================================
