------------------------- MODULE MCProviderLifecycle -------------------------
(***************************************************************************)
(* ProviderLifecycle for TLC.  What is torn, astray or straddled no        *)
(* property looks into: states that differ in nothing but the names that   *)
(* such a write, session or call carries, or in what a dropped write said, *)
(* are one (MCView).                                                       *)
(***************************************************************************)
EXTENDS ProviderLifecycle

NamesValue == {"", "default", "whatsapp-dm", "external-group", "_bench",
               "Sales", "sales", "dm-key", "group-key", "ops-bench", "Desk", "desk", "WhatsApp-DM"}
FoldValue == [n \in NamesValue |-> CASE n = "Sales" -> "sales" [] n = "Desk" -> "desk" [] n = "WhatsApp-DM" -> "whatsapp-dm" [] OTHER -> n]
AliasesValue == [n \in {"desk"} |-> "group-key"]

Kwargs(key, profile, workspace) ==
  [gateway_session_key |-> key, agent_identity |-> profile, agent_workspace |-> workspace]
RequestsValue ==
  {Kwargs("dm-key", "default", "Sales") @@ [session |-> "s1", writes |-> TRUE],
   Kwargs("", "Desk", "Sales") @@ [session |-> "s2", writes |-> TRUE],
   Kwargs("", "default", "") @@ [session |-> "s3", writes |-> FALSE]}

(* s1b is a session that the host rotates to from s1. *)
ThemeByValue ==
  [s \in {"s1", "s1b", "s2", "s3"} |->
     CASE s \in {"s1", "s1b"} -> "whatsapp-dm" [] s = "s2" -> "external-group" [] s = "s3" -> "default"]

OldRow(theme, s) == [identity |-> theme, session |-> s]
OldRowsValue == {OldRow("whatsapp-dm", "s1"), OldRow("external-group", "o1"),
                 OldRow("_bench", "o2"), OldRow("sales", "o3")}

WriteView(w) ==
  CASE w.torn -> <<w.id, w.late, w.writer>>
    [] ~w.torn /\ w.astray -> <<w.id, w.late, w.writer, w.identity>>
    [] OTHER -> w
HandView(h) == [h EXCEPT !.write = IF h.stage \in {"embed", "apply"} THEN WriteView(@) ELSE @]

Unread ==
  CASE call.op = "hook" /\ CallTorn ->
         {"born", "torn", "given", "session", "astray", "identity"}
    [] hpc = "filter" /\ CallTorn -> {"born", "torn", "scope", "theme", "restricted"}
    [] hpc \in {"load", "search", "answered"} /\ call.straddled -> {"filter", "theme", "answer"}
    [] OTHER -> {}
CallView == [f \in DOMAIN call \ Unread |-> call[f]]

MCView ==
  <<IF astray THEN NoName ELSE session, astray, identity, writes, machinery, lifecycle,
    [n \in Runs |-> [k \in DOMAIN queue[n] |-> WriteView(queue[n][k])]],
    [n \in Runs |-> HandView(hand[n])], flag, hpc, CallView, ops,
    [k \in DOMAIN rows |-> WriteView(rows[k])],
    drains, abandoned, {<<w.late, w.writer>> : w \in unstored}>>
=============================================================================
