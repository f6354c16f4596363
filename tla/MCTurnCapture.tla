---------------------------- MODULE MCTurnCapture ----------------------------
(***************************************************************************)
(* TurnCapture for TLC: a queue of one turn refuses turns, two sessions    *)
(* say the same texts, and the fingerprint set reaches its cap.            *)
(***************************************************************************)
EXTENDS TurnCapture
=============================================================================
