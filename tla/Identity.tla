------------------------------- MODULE Identity -------------------------------
(***************************************************************************)
(* Identity governance (src/hermes_pgvector/identity.py): from the sources *)
(* that a host passes to initialize() to the theme that rows are stored    *)
(* under.  A name is known by the classes that the regular expressions of  *)
(* identity.py sort it into, not by its characters.                        *)
(***************************************************************************)
EXTENDS Integers, Sequences

CONSTANTS Names,      (* the names a host or an operator may write           *)
          Fold,       (* strip() and lower(), as a function on Names         *)
          DmKeys,     (* folded names that _DM_RE finds                      *)
          GroupKeys,  (* folded names that _GROUP_RE finds                   *)
          BenchNames, (* folded names that _BENCH_RE matches                 *)
          Aliases,    (* identity_aliases: from folded names to names        *)
          Allowed,    (* allowed_themes, folded; empty when there is no list *)
          BenchMode   (* "bucket" or "reject"                                *)

NoName == ""
Default == "default"
DmBucket == "whatsapp-dm"
GroupBucket == "external-group"
BenchBucket == "_bench"

Sinks == {DmBucket, GroupBucket, BenchBucket}
AlwaysAllowed == Sinks \cup {Default}
PrivateKeys == DmKeys \cup GroupKeys

ASSUME IdentityAssumption ==
  /\ Names \subseteq STRING /\ {NoName} \cup AlwaysAllowed \subseteq Names
  /\ Fold \in [Names -> Names] /\ \A n \in Names : Fold[Fold[n]] = Fold[n]
  /\ \A n \in {NoName} \cup AlwaysAllowed : Fold[n] = n
  /\ (PrivateKeys \cup BenchNames) \cap ({NoName} \cup AlwaysAllowed) = {}
  /\ DOMAIN Aliases \subseteq Names /\ \A n \in DOMAIN Aliases : Aliases[n] \in Names
  /\ Allowed \subseteq Names /\ BenchMode \in {"bucket", "reject"}

-----------------------------------------------------------------------------
FirstFilled(sources) ==
  sources[CHOOSE i \in DOMAIN sources :
            sources[i] # NoName /\ \A j \in 1..(i - 1) : sources[j] = NoName]

Explicit(kwargs) == IF kwargs.agent_identity = Default THEN NoName ELSE kwargs.agent_identity

(* A variant that accepts "default" from no source. *)
Resolve_NoDefault(kwargs) ==
  IF kwargs.gateway_session_key = NoName /\ Explicit(kwargs) = NoName THEN kwargs.agent_workspace
  ELSE FirstFilled(<<kwargs.gateway_session_key, Explicit(kwargs)>>)

(* The first source that the host filled in wins; the automatic identity   *)
(* "default" counts only when there is no other.                           *)
Resolve(kwargs) ==
  FirstFilled(<<kwargs.gateway_session_key, Explicit(kwargs), kwargs.agent_workspace,
                kwargs.agent_identity, Default>>)

Aliased(name) ==
  IF name \notin DOMAIN Aliases THEN name
  ELSE IF Fold[Aliases[name]] = NoName THEN Default ELSE Fold[Aliases[name]]

AllowListed(name) ==
  IF Allowed = {} \/ name \in Allowed \cup AlwaysAllowed THEN name ELSE Default

(* The sink of a governed family of names, or the allow-list's verdict.    *)
Bucketed(name) ==
  IF name \in DmKeys THEN DmBucket
  ELSE IF name \in GroupKeys THEN GroupBucket
  ELSE IF name \in BenchNames THEN (IF BenchMode = "reject" THEN Default ELSE BenchBucket)
  ELSE AllowListed(name)

(* normalize_identity(): an alias is applied first, and what it names is   *)
(* governed like any other name.                                           *)
NormalizeIdentity(raw) ==
  IF Fold[raw] = NoName THEN Default ELSE Bucketed(Aliased(Fold[raw]))

(* The names that rows may be stored under. *)
Governed ==
  {n \in Names : n \notin PrivateKeys \cup BenchNames /\ AllowListed(n) = n /\ n # NoName}
=============================================================================
