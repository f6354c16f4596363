---------------------------- MODULE MCMemoryTable ----------------------------
(***************************************************************************)
(* MemoryTable for TLC: an entry that the database returns as bytes, one   *)
(* that it returns as text and a blank row from an earlier version, while  *)
(* a sweep works through pages of one row.                                 *)
(***************************************************************************)
EXTENDS MemoryTable

MCLikePairs == {<<c, c>> : c \in Contents}
=============================================================================
