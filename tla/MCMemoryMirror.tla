---------------------------- MODULE MCMemoryMirror ----------------------------
(***************************************************************************)
(* MemoryMirror for TLC: entry "ab" contains "a", so that a hint may match *)
(* the wrong row; a queue of one entry overflows, the second session       *)
(* imports what the first one lost, and its writer runs beside the one     *)
(* that the first left behind.  No guard reads an embedding or the number  *)
(* of edits of a row, so states that differ in nothing else are one.       *)
(***************************************************************************)
EXTENDS MemoryMirror

MCLikePairs == {<<c, c>> : c \in Contents} \cup {<<"ab", "a">>}

MCView == <<[i \in DOMAIN rows |-> rows[i].content], seq, disk, hook, worker, session,
            import, flags, counts>>
=============================================================================
