---------------------------- MODULE MCEmbedClient ----------------------------
(***************************************************************************)
(* EmbedClient for TLC: the drain thread has more retries than its budget  *)
(* lets it use, and the configured prefetch budget is beyond the clamp.    *)
(***************************************************************************)
EXTENDS EmbedClient
=============================================================================
