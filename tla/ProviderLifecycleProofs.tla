----------------------- MODULE ProviderLifecycleProofs -----------------------
(***************************************************************************)
(* What holds of one provider over any number of sessions, writes and      *)
(* recalls, whatever the host passes and however identities are governed:  *)
(* types, the attribution of rows, the read gate and the handover from one *)
(* session's writer and store to the next one's.                           *)
(***************************************************************************)
EXTENDS ProviderLifecycle, TLAPS

-----------------------------------------------------------------------------
(* Identity governance: what holds for every set of names, every           *)
(* classification, alias map and allow-list that satisfy                   *)
(* IdentityAssumption.                                                     *)

(* The sinks and "default" are stored as they are, whatever the allow-list. *)
LEMMA SinksGoverned == AlwaysAllowed \subseteq Governed
<1> SUFFICES ASSUME NEW n \in AlwaysAllowed PROVE n \in Governed
  OBVIOUS
<1>1. n \in Names /\ n \notin PrivateKeys \cup BenchNames
  BY IdentityAssumption
<1>2. AllowListed(n) = n
  BY DEF AllowListed
<1>3. n # NoName
  BY DEF AlwaysAllowed, Sinks, Default, DmBucket, GroupBucket, BenchBucket, NoName
<1> QED
  BY <1>1, <1>2, <1>3 DEF Governed

(* An alias never names nothing. *)
LEMMA AliasedIsName ==
  ASSUME NEW name \in Names, name # NoName
  PROVE  Aliased(name) \in Names /\ Aliased(name) # NoName
<1>1. CASE name \notin DOMAIN Aliases
  BY <1>1 DEF Aliased
<1>2. CASE name \in DOMAIN Aliases
  <2>1. Aliases[name] \in Names /\ Fold[Aliases[name]] \in Names
    BY <1>2, IdentityAssumption
  <2>2. Default \in Names /\ Default # NoName
    BY IdentityAssumption DEF AlwaysAllowed, Default, NoName
  <2> QED
    BY <1>2, <2>1, <2>2 DEF Aliased
<1> QED
  BY <1>1, <1>2

(* Buckets and allow-list leave a name that may be stored. *)
LEMMA BucketedIsGoverned ==
  ASSUME NEW name \in Names, name # NoName
  PROVE  Bucketed(name) \in Governed
<1>1. {DmBucket, GroupBucket, BenchBucket, Default} \subseteq Governed
  BY SinksGoverned DEF AlwaysAllowed, Sinks
<1>2. CASE name \in PrivateKeys \cup BenchNames
  BY <1>1, <1>2 DEF Bucketed, PrivateKeys
<1>3. CASE name \notin PrivateKeys \cup BenchNames
  <2>1. Bucketed(name) = AllowListed(name)
    BY <1>3 DEF Bucketed, PrivateKeys
  <2>2. CASE AllowListed(name) = name
    BY <1>3, <2>1, <2>2 DEF Governed
  <2>3. CASE AllowListed(name) = Default
    BY <1>1, <2>1, <2>3
  <2> QED
    BY <2>2, <2>3 DEF AllowListed
<1> QED
  BY <1>2, <1>3

(* normalize_identity() never returns a private key, a benchmark's name, a *)
(* theme off the allow-list or nothing, whatever the host passes and       *)
(* whatever an alias says.                                                 *)
THEOREM NormalizedIsGoverned ==
  ASSUME NEW raw \in Names
  PROVE  NormalizeIdentity(raw) \in Governed
<1>1. CASE Fold[raw] = NoName
  BY <1>1, SinksGoverned DEF NormalizeIdentity, AlwaysAllowed
<1>2. CASE Fold[raw] # NoName
  <2>1. Fold[raw] \in Names
    BY IdentityAssumption
  <2>2. Aliased(Fold[raw]) \in Names /\ Aliased(Fold[raw]) # NoName
    BY <1>2, <2>1, AliasedIsName
  <2> QED
    BY <1>2, <2>2, BucketedIsGoverned DEF NormalizeIdentity
<1> QED
  BY <1>1, <1>2

(* Without aliases a stored theme is a fixed point: what governance has    *)
(* let through it lets through again, so that recall under a stored theme  *)
(* finds the rows stored under it.                                         *)
THEOREM GovernedIsFixed ==
  ASSUME NEW name \in Governed, Fold[name] = name, name \notin DOMAIN Aliases
  PROVE  NormalizeIdentity(name) = name
<1>1. name # NoName /\ name \notin PrivateKeys \cup BenchNames /\ AllowListed(name) = name
  BY DEF Governed
<1>2. Aliased(Fold[name]) = name
  BY DEF Aliased
<1>3. Bucketed(name) = name
  BY <1>1 DEF Bucketed, PrivateKeys
<1> QED
  BY <1>1, <1>2, <1>3 DEF NormalizeIdentity

-----------------------------------------------------------------------------
(* The inductive invariant *)

(* The provider's theme and gate are those of the initialize() call r. *)
Of(r) == identity = ThemeOf(r) /\ writes = r.writes

(* Its session belongs to its theme, unless a switch that an initialize()  *)
(* overtook wrote it.                                                      *)
Paired == astray \/ (session \in Sessions /\ ThemeBy[session] = identity)

(* Where initialize() stands, and whose attributes the provider has when   *)
(* it does not stand among its first assignments.                          *)
Stage ==
  /\ lpc # "idle" \/ healthy \/ store # None \/ writer # None => inits > 0
  /\ Torn => request \in Requests /\ (astray \/ session = request.session)
  /\ lpc = "canonical" => identity = Resolve(request)
  /\ lpc = "gate" => identity = ThemeOf(request)
  /\ ~Torn /\ inits > 0 => Paired /\ \E r \in Requests : Of(r)
  /\ lpc = "import" => writes
  /\ lpc = "join" => writer \in drains

(* A call that has overlapped no initialize() holds live attributes. *)
Calls ==
  /\ hpc \in {"session", "writer", "put", "switch", "filter"} =>
       /\ inits > 0 /\ call.born \in 0..inits /\ call.torn \in BOOLEAN
       /\ Torn => CallTorn
  /\ hpc \in {"session", "writer", "put"} => ops <= MaxOps /\ (~CallTorn => writes)
  /\ hpc = "session" =>
       /\ call.given \in {NoName} \cup Sessions
       /\ ~CallTorn /\ call.given # NoName => ThemeBy[call.given] = identity
  /\ hpc \in {"writer", "put"} =>
       /\ call.session \in {NoName} \cup Sessions /\ call.astray \in BOOLEAN
       /\ ~CallTorn /\ ~call.astray => ThemeBy[call.session] = identity
  /\ hpc = "switch" =>
       call.session \in Sessions /\ (~CallTorn => ThemeBy[call.session] = identity)
  /\ hpc = "put" =>
       /\ call.writer \in Runs /\ call.identity \in Names
       /\ ~CallTorn => call.identity = identity

(* Every write, wherever it is, has the theme of an initialize() that may  *)
(* write, and a session of that theme.                                     *)
Attributed(w) ==
  ~w.torn => /\ \E r \in Requests : r.writes /\ w.identity = ThemeOf(r)
             /\ w.astray \/ w.session = NoName \/ ThemeBy[w.session] = w.identity
Writes ==
  /\ \A k \in DOMAIN rows : Attributed(rows[k])
  /\ \A n \in Runs : \A k \in DOMAIN queue[n] : Attributed(queue[n][k])
  /\ \A n \in Runs : hand[n].stage \in {"embed", "apply"} => Attributed(hand[n].write)

(* No attributed row that passes the filter is of a sink that the theme    *)
(* may not read.                                                           *)
Keeps(filter, theme) ==
  \/ filter.by = "theme" /\ filter.value \notin Restricted(theme)
  \/ filter.by = "others" /\ filter.value = Restricted(theme)
  \/ filter.by = "session" /\ filter.value \in Sessions /\ ThemeBy[filter.value] = theme
Gate ==
  /\ hpc = "filter" =>
       /\ call.scope \in Scopes /\ call.restricted = Restricted(call.theme)
       /\ call.scope \in Asked => Fold[call.scope] \notin call.restricted
       /\ ~CallTorn => call.theme = identity
  /\ hpc \in {"load", "search"} =>
       /\ {"theme", "straddled", "filter", "store"} \subseteq DOMAIN call
       /\ ~call.straddled => Keeps(call.filter, call.theme)

IInv == TypeOK /\ Stage /\ Calls /\ Writes /\ Gate /\ RecallGate

-----------------------------------------------------------------------------
(* Which names the operators of Identity return *)

(* There is always a source: the last one is "default". *)
LEMMA ResolveIsName ==
  ASSUME NEW r \in Requests
  PROVE  Resolve(r) \in Names /\ Resolve(r) # NoName
<1> DEFINE sources == <<r.gateway_session_key, Explicit(r), r.agent_workspace,
                        r.agent_identity, Default>>
           First(i) == i \in 1..5 /\ sources[i] # NoName /\ \A j \in 1..(i - 1) : sources[j] = NoName
<1>1. \A i \in 1..5 : sources[i] \in Names
  BY IdentityAssumption, LifecycleAssumption DEF Explicit, AlwaysAllowed
<1>2. sources[5] # NoName
  BY DEF Default, NoName
<1>3. \E i \in 1..5 : First(i)
  <2>1. CASE sources[1] # NoName
    BY <2>1
  <2>2. CASE sources[1] = NoName /\ sources[2] # NoName
    BY <2>2
  <2>3. CASE sources[1] = NoName /\ sources[2] = NoName /\ sources[3] # NoName
    BY <2>3
  <2>4. CASE sources[1] = NoName /\ sources[2] = NoName /\ sources[3] = NoName /\ sources[4] # NoName
    BY <2>4
  <2>5. CASE sources[1] = NoName /\ sources[2] = NoName /\ sources[3] = NoName /\ sources[4] = NoName
    BY <1>2, <2>5
  <2> QED
    BY <2>1, <2>2, <2>3, <2>4, <2>5
<1>4. DOMAIN sources = 1..5
  OBVIOUS
<1>5. Resolve(r) = sources[CHOOSE i \in 1..5 : sources[i] # NoName /\ \A j \in 1..(i - 1) : sources[j] = NoName]
  BY <1>4, Zenon DEF Resolve, FirstFilled
<1> HIDE DEF sources
<1>6. \E i \in 1..5 : Resolve(r) = sources[i] /\ sources[i] # NoName
  BY <1>3, <1>5
<1> QED
  BY <1>1, <1>6

LEMMA ThemeIsGoverned ==
  ASSUME NEW r \in Requests
  PROVE  ThemeOf(r) \in Governed /\ ThemeOf(r) \in Names \ {NoName}
BY ResolveIsName, NormalizedIsGoverned DEF ThemeOf, Governed

(* Stored under a governed name, the theme of one initialize(). *)
LEMMA LiveNames ==
  ASSUME TypeOK, Stage, ~Torn, inits > 0
  PROVE  \E r \in Requests : Of(r) /\ identity \in Governed
BY ThemeIsGoverned DEF Stage, Of

-----------------------------------------------------------------------------
(* The initial state satisfies the inductive invariant. *)
LEMMA InitIInv == Init => IInv
<1> SUFFICES ASSUME Init PROVE IInv
  OBVIOUS
<1>1. Default \in Names \ {NoName}
  BY IdentityAssumption DEF AlwaysAllowed, Default, NoName
<1>2. TypeOK
  <2>1. <<>> \in Seq(Write)
    OBVIOUS
  <2>2. queue \in [Runs -> Seq(Write)] /\ rows \in Seq(Write)
    BY <2>1 DEF Init
  <2>3. inits \in 0..MaxInits /\ ops \in 0..MaxOps + 1
    BY LifecycleAssumption DEF Init
  <2> QED
    BY <1>1, <2>2, <2>3 DEF Init, TypeOK
<1>3. Stage /\ Calls
  BY DEF Init, Stage, Calls, Torn, None
<1>4. Writes
  BY DEF Init, Writes, Off
<1>5. Gate /\ RecallGate
  BY DEF Init, Gate, RecallGate
<1> QED
  BY <1>2, <1>3, <1>4, <1>5 DEF IInv

Hands == {Off, Waiting, SawEmpty} \cup [stage : {"embed"}, write : Write, store : {None}]
                                 \cup [stage : {"apply"}, write : Write, store : Runs]

(* The steps of initialize() and shutdown() keep the types. *)
LEMMA LifecycleTypes ==
  ASSUME TypeOK, Stage, Lifecycle
  PROVE  TypeOK'
<1> USE LifecycleAssumption DEF TypeOK, Stage, None, Runs, attributes, machinery, lifecycle,
          threads, host, history
<1>1. ASSUME NEW r \in Requests, InitializeBegins(r) PROVE TypeOK'
  <2>1. session' \in Sessions /\ inits' \in 0..MaxInits
    BY <1>1 DEF InitializeBegins
  <2>2. astray' \in BOOLEAN
    BY <1>1, Zenon DEF InitializeBegins
  <2> QED
    BY <1>1, <2>1, <2>2 DEF InitializeBegins
<1>2. CASE AssignRaw
  <2>1. identity' \in Names \ {NoName}
    BY <1>2, ResolveIsName DEF AssignRaw, Torn
  <2> QED
    BY <1>2, <2>1 DEF AssignRaw
<1>3. CASE AssignCanonical
  <2>1. identity' = ThemeOf(request) /\ request \in Requests
    BY <1>3 DEF AssignCanonical, ThemeOf, Torn
  <2>2. identity' \in Names \ {NoName}
    BY <2>1, ThemeIsGoverned
  <2> QED
    BY <1>3, <2>2 DEF AssignCanonical
<1>4. CASE AssignGate
  BY <1>4 DEF AssignGate, Torn
<1>5. CASE OpenStore
  BY <1>5 DEF OpenStore
<1>6. CASE Probe
  BY <1>6 DEF Probe
<1>7. CASE NewWriter
  BY <1>7 DEF NewWriter
<1>8. CASE Import
  <2>1. CASE rows' = rows /\ ops' = ops
    BY <1>8, <2>1 DEF Import
  <2>2. CASE ops < MaxOps
    <3> DEFINE row == [id |-> 0, identity |-> identity, session |-> NoName,
                       torn |-> FALSE, astray |-> FALSE, late |-> FALSE,
                       writer |-> inits]
    <3>1. row \in Write
      BY <1>8 DEF Import, Write
    <3>2. (rows' = rows \/ rows' = Append(rows, row)) /\ ops' \in 0..MaxOps + 1
      BY <1>8, <2>2 DEF Import
    <3> HIDE DEF row
    <3>3. rows' \in Seq(Write)
      <4>1. rows \in Seq(Write) /\ Append(rows, row) \in Seq(Write)
        BY <3>1
      <4> QED
        BY <3>2, <4>1
    <3> QED
      BY <1>8, <3>2, <3>3 DEF Import
  <2> QED
    BY <1>8, <2>1, <2>2 DEF Import
<1>9. CASE ShutdownBegins
  BY <1>9 DEF ShutdownBegins
<1>10. CASE DrainBegins
  <2>1. flag' \in [Runs -> BOOLEAN]
    BY <1>10, Zenon DEF DrainBegins
  <2> QED
    BY <1>10, <2>1 DEF DrainBegins
<1>11. CASE JoinReturns
  BY <1>11 DEF JoinReturns
<1>12. CASE JoinTimesOut
  BY <1>12 DEF JoinTimesOut
<1>13. CASE ClosePool
  BY <1>13 DEF ClosePool
<1>14. CASE ShutdownEnds
  BY <1>14 DEF ShutdownEnds
<1> QED
  BY <1>1, <1>2, <1>3, <1>4, <1>5, <1>6, <1>7, <1>8, <1>9, <1>10, <1>11, <1>12, <1>13, <1>14
     DEF Lifecycle

(* A put starts a thread that is not alive; one that is goes on. *)
LEMMA Started ==
  ASSUME TypeOK, NEW n \in Runs, EnsureThread(n)
  PROVE  /\ \A m \in Runs \ {n} : hand'[m] = hand[m] /\ flag'[m] = flag[m]
         /\ \/ hand[n] = Off /\ hand'[n] = Waiting /\ ~flag'[n]
            \/ hand[n] # Off /\ hand'[n] = hand[n] /\ flag'[n] = flag[n]
         /\ hand' \in [Runs -> Hands] /\ flag' \in [Runs -> BOOLEAN]
<1>1. hand \in [Runs -> Hands] /\ flag \in [Runs -> BOOLEAN] /\ Waiting \in Hands
  BY DEF TypeOK, Hands
<1> QED
  BY <1>1 DEF EnsureThread

(* So do the steps of the host's calls and of the drain threads. *)
LEMMA CallTypes ==
  ASSUME TypeOK, Calls, Hook \/ Switch \/ Recall
  PROVE  TypeOK'
<1> USE LifecycleAssumption DEF TypeOK, None, Runs, attributes, machinery, lifecycle,
          threads, host, history
<1>1. ASSUME NEW given \in {NoName} \cup Sessions, HookBegins(given) PROVE TypeOK'
  BY <1>1 DEF HookBegins
<1>2. CASE HookReadsSession
  BY <1>2 DEF HookReadsSession
<1>3. CASE HookReadsWriter
  BY <1>3 DEF HookReadsWriter
<1>4. CASE HookPuts
  <2> DEFINE write == [id |-> ops + 1, identity |-> call.identity, session |-> call.session,
                       torn |-> CallTorn, astray |-> call.astray,
                       late |-> call.writer \in drains, writer |-> call.writer]
  <2>1. write \in Write /\ ops' \in 0..MaxOps + 1
    BY <1>4 DEF HookPuts, Calls, Write, CallTorn
  <2>2. queue' = [queue EXCEPT ![call.writer] = Append(@, write)]
    BY <1>4 DEF HookPuts
  <2> HIDE DEF write
  <2>3. queue' \in [Runs -> Seq(Write)]
    <3>1. queue \in [Runs -> Seq(Write)] /\ queue[call.writer] \in Seq(Write)
      BY <1>4 DEF HookPuts, Calls
    <3>2. Append(queue[call.writer], write) \in Seq(Write)
      BY <2>1, <3>1
    <3> QED
      BY <2>2, <3>1, <3>2
  <2>4. hand' \in [Runs -> Hands] /\ flag' \in [Runs -> BOOLEAN]
    BY <1>4, Started DEF HookPuts, Calls
  <2> QED
    BY <1>4, <2>1, <2>3, <2>4 DEF HookPuts, Hands
<1>11. CASE HookRefused
  <2>1. hand' \in [Runs -> Hands] /\ flag' \in [Runs -> BOOLEAN] /\ ops' \in 0..MaxOps + 1
    BY <1>11, Started DEF HookRefused, Calls
  <2> QED
    BY <1>11, <2>1 DEF HookRefused, Hands
<1>12. ASSUME NEW s \in Sessions, SwitchBegins(s) PROVE TypeOK'
  BY <1>12 DEF SwitchBegins
<1>13. CASE SwitchWrites
  <2>1. astray' \in BOOLEAN
    BY <1>13, Zenon DEF SwitchWrites, Calls, CallTorn
  <2> QED
    BY <1>13, <2>1 DEF SwitchWrites, Calls
<1>5. ASSUME NEW tool \in {"memory", "conversation"}, NEW scope \in Scopes,
             RecallBegins(tool, scope)
      PROVE  TypeOK'
  BY <1>5 DEF RecallBegins
<1>6. CASE RecallFilters
  BY <1>6 DEF RecallFilters
<1>7. CASE RecallLoads
  BY <1>7 DEF RecallLoads
<1>8. CASE RecallFails
  <2>1. pool' \in [Runs -> {"none", "open", "closed", "reopened"}] /\ hpc' \in {"idle", "load"}
    BY <1>8 DEF RecallFails, Used
  <2> QED
    BY <1>8, <2>1 DEF RecallFails
<1>9. CASE RecallAnswers
  BY <1>9 DEF RecallAnswers, Used
<1>10. CASE RecallReturns
  BY <1>10 DEF RecallReturns
<1>14. CASE Hook
  BY <1>1, <1>2, <1>3, <1>4, <1>11, <1>14 DEF Hook
<1>15. CASE Recall
  BY <1>5, <1>6, <1>7, <1>8, <1>9, <1>10, <1>15 DEF Recall
<1> QED
  BY <1>12, <1>13, <1>14, <1>15 DEF Switch

LEMMA TakeFacts ==
  ASSUME TypeOK, NEW n \in Runs, queue[n] # <<>>
  PROVE  /\ Head(queue[n]) \in Write /\ Head(queue[n]) = queue[n][1] /\ 1 \in DOMAIN queue[n]
         /\ Tail(queue[n]) \in Seq(Write)
         /\ \A k \in DOMAIN Tail(queue[n]) :
              k + 1 \in DOMAIN queue[n] /\ Tail(queue[n])[k] = queue[n][k + 1]
<1>1. queue[n] \in Seq(Write)
  BY DEF TypeOK
<1> QED
  BY <1>1

LEMMA WorkerTypes ==
  ASSUME TypeOK, NEW n \in Runs, Worker(n)
  PROVE  TypeOK'
<1> USE DEF TypeOK, attributes, machinery, lifecycle, threads, host, history, None
<1>0. hand \in [Runs -> Hands]
  BY DEF Hands
<1>1. CASE Take(n)
  <2>1. queue[n] # <<>> /\ queue' = [queue EXCEPT ![n] = Tail(@)]
    BY <1>1 DEF Take
  <2>2. Head(queue[n]) \in Write /\ Tail(queue[n]) \in Seq(Write)
    BY <2>1, TakeFacts
  <2>3. queue' \in [Runs -> Seq(Write)]
    BY <2>1, <2>2
  <2>4. hand' = hand \/ hand' = [hand EXCEPT ![n] = [stage |-> "embed", write |-> Head(queue[n]), store |-> None]]
    BY <1>1 DEF Take
  <2>5. hand' \in [Runs -> Hands]
    <3>1. [stage |-> "embed", write |-> Head(queue[n]), store |-> None] \in Hands
      BY <2>2 DEF Hands
    <3> QED
      BY <1>0, <2>4, <3>1
  <2> QED
    BY <1>1, <2>2, <2>3, <2>5 DEF Take, Hands
<1>2. CASE Load(n)
  <2>0. hand[n].stage = "embed"
    BY <1>2 DEF Load
  <2>1. hand[n].write \in Write
    BY <2>0 DEF Off, Waiting, SawEmpty
  <2>2. CASE store = None
    <3>1. hand' = [hand EXCEPT ![n] = Waiting] /\ unstored' = unstored \cup {hand[n].write}
      BY <1>2, <2>2 DEF Load, Drop
    <3>2. hand' \in [Runs -> Hands]
      BY <1>0, <3>1 DEF Hands
    <3> QED
      BY <1>2, <2>1, <3>1, <3>2 DEF Load, Hands
  <2>3. CASE store # None
    <3>1. /\ hand' = [hand EXCEPT ![n] = [stage |-> "apply", write |-> hand[n].write, store |-> store]]
          /\ unstored' = unstored
      BY <1>0, <1>2, <2>3 DEF Load
    <3>2. [stage |-> "apply", write |-> hand[n].write, store |-> store] \in Hands
      BY <2>1, <2>3 DEF Hands
    <3>3. hand' \in [Runs -> Hands]
      BY <1>0, <3>1, <3>2
    <3> QED
      BY <1>2, <3>1, <3>3 DEF Load, Hands
  <2> QED
    BY <2>2, <2>3
<1>3. CASE Apply(n)
  <2>1. hand[n].write \in Write
    BY <1>3 DEF Apply, Off, Waiting, SawEmpty
  <2>2. rows' \in Seq(Write)
    <3>1. rows \in Seq(Write) /\ Append(rows, hand[n].write) \in Seq(Write)
      BY <2>1
    <3> QED
      BY <1>3, <3>1 DEF Apply
  <2>3. hand' \in [Runs -> Hands]
    BY <1>0, <1>3 DEF Apply, Hands
  <2>4. pool' \in [Runs -> {"none", "open", "closed", "reopened"}]
    BY <1>3 DEF Apply, Used
  <2> QED
    BY <1>3, <2>2, <2>3, <2>4 DEF Apply, Hands
<1>4. CASE GetTimesOut(n) \/ LooksAtFlag(n) \/ Dies(n)
  <2>1. hand' \in [Runs -> Hands]
    BY <1>0, <1>4 DEF GetTimesOut, LooksAtFlag, Dies, Hands
  <2>2. abandoned' \subseteq Runs
    BY <1>4 DEF GetTimesOut, LooksAtFlag, Dies
  <2> QED
    BY <1>4, <2>1, <2>2 DEF GetTimesOut, LooksAtFlag, Dies, Hands
<1> QED
  BY <1>1, <1>2, <1>3, <1>4 DEF Worker

(* What a step of a drain thread does to its queue and its hands: it lets  *)
(* go of a write or holds none, goes on with it, or takes the next one.    *)
LEMMA WorkHands ==
  ASSUME TypeOK, NEW n \in Runs, Worker(n)
  PROVE  /\ \/ queue' = queue /\ hand'[n] \in {Off, Waiting, SawEmpty}
            \/ /\ queue' = queue /\ hand[n].stage = "embed"
               /\ hand'[n].stage = "apply" /\ hand'[n].write = hand[n].write
               /\ hand'[n].store = store
            \/ /\ queue[n] # <<>> /\ queue' = [queue EXCEPT ![n] = Tail(@)] /\ hand[n] = Waiting
               /\ \/ hand'[n] = Waiting
                  \/ hand'[n].stage = "embed" /\ hand'[n].write = Head(queue[n])
         /\ \A m \in Runs \ {n} : hand'[m] = hand[m] /\ queue'[m] = queue[m]
<1>1. hand \in [Runs -> Hands] /\ queue \in [Runs -> Seq(Write)]
  BY DEF TypeOK, Hands
<1>2. CASE Take(n)
  <2>1. hand[n] = Waiting /\ queue[n] # <<>> /\ queue' = [queue EXCEPT ![n] = Tail(@)]
    BY <1>2 DEF Take
  <2>2. \/ hand' = hand
        \/ hand' = [hand EXCEPT ![n] = [stage |-> "embed", write |-> Head(queue[n]), store |-> None]]
    BY <1>2 DEF Take
  <2>3. CASE hand' = hand
    BY <1>1, <2>1, <2>3
  <2>4. CASE hand' = [hand EXCEPT ![n] = [stage |-> "embed", write |-> Head(queue[n]), store |-> None]]
    BY <1>1, <2>1, <2>4
  <2> QED
    BY <2>2, <2>3, <2>4
<1>3. CASE Load(n)
  <2>1. queue' = queue /\ hand[n].stage = "embed"
    BY <1>3 DEF Load
  <2>2. \/ hand' = [hand EXCEPT ![n] = Waiting]
        \/ hand' = [hand EXCEPT ![n] = [stage |-> "apply", write |-> hand[n].write, store |-> store]]
    BY <1>1, <1>3 DEF Load, Drop
  <2> QED
    BY <1>1, <2>1, <2>2
<1>4. CASE GetTimesOut(n) \/ LooksAtFlag(n) \/ Dies(n) \/ Apply(n)
  <2>1. queue' = queue
    BY <1>4 DEF GetTimesOut, LooksAtFlag, Dies, Apply
  <2>2. \E h \in {Off, Waiting, SawEmpty} : hand' = [hand EXCEPT ![n] = h]
    BY <1>4 DEF GetTimesOut, LooksAtFlag, Dies, Apply
  <2> QED
    BY <1>1, <2>1, <2>2
<1> QED
  BY <1>2, <1>3, <1>4 DEF Worker

LEMMA TypeStep ==
  ASSUME TypeOK, Stage, Calls, [Next]_vars
  PROVE  TypeOK'
<1>1. CASE UNCHANGED vars
  BY <1>1 DEF TypeOK, vars, attributes, machinery, lifecycle, threads, host, history
<1>2. CASE Next
  BY <1>2, LifecycleTypes, CallTypes, WorkerTypes DEF Next
<1> QED
  BY <1>1, <1>2

-----------------------------------------------------------------------------
(* Calls and drain threads leave initialize() alone, and but for a switch  *)
(* the attributes.                                                         *)
LEMMA OthersKeepStage ==
  ASSUME UNCHANGED vars \/ Hook \/ Switch \/ Recall \/ \E n \in Runs : Worker(n)
  PROVE  /\ UNCHANGED <<identity, writes, healthy, store, writer, lpc, request, inits, drains>>
         /\ SwitchWrites \/ UNCHANGED <<session, astray>>
<1> USE DEF vars, attributes, machinery, lifecycle, threads, host, history
<1>1. CASE Hook
  BY <1>1 DEF Hook, HookBegins, HookReadsSession, HookReadsWriter, HookPuts, HookRefused
<1>2. CASE Recall
  BY <1>2 DEF Recall, RecallBegins, RecallFilters, RecallLoads, RecallFails, RecallAnswers,
              RecallReturns
<1>3. ASSUME NEW n \in Runs, Worker(n)
      PROVE  UNCHANGED <<session, astray, identity, writes, healthy, store, writer, lpc, request,
                         inits, drains>>
  BY <1>3 DEF Worker, GetTimesOut, LooksAtFlag, Dies, Take, Load, Apply, Drop
<1>4. CASE Switch
  BY <1>4 DEF Switch, SwitchBegins, SwitchWrites
<1> QED
  BY <1>1, <1>2, <1>3, <1>4

LEMMA StageStep ==
  ASSUME TypeOK, Stage, Calls, [Next]_vars
  PROVE  Stage'
<1> USE DEF TypeOK, Stage, Paired, Torn, Of, None, attributes, machinery, lifecycle, threads, host,
          history
<1>0. CASE SwitchWrites
  <2>1. UNCHANGED <<identity, writes, healthy, store, writer, lpc, request, inits, drains>>
    BY <1>0 DEF SwitchWrites
  <2>2. session' \in Sessions /\ (astray' \/ (~Torn /\ ThemeBy[session'] = identity))
    BY <1>0 DEF SwitchWrites, Calls
  <2> QED
    BY <2>1, <2>2
<1>1. CASE UNCHANGED vars \/ Hook \/ Switch \/ Recall \/ \E n \in Runs : Worker(n)
  BY <1>0, <1>1, OthersKeepStage
<1>2. ASSUME NEW r \in Requests, InitializeBegins(r) PROVE Stage'
  BY <1>2 DEF InitializeBegins
<1>3. CASE AssignRaw
  BY <1>3 DEF AssignRaw
<1>4. CASE AssignCanonical
  BY <1>4 DEF AssignCanonical, ThemeOf
<1>5. CASE AssignGate
  BY <1>5, LifecycleAssumption DEF AssignGate
<1>6. CASE OpenStore \/ Probe \/ NewWriter \/ Import
  BY <1>6 DEF OpenStore, Probe, NewWriter, Import
<1>7. CASE ShutdownBegins \/ ClosePool \/ ShutdownEnds
  BY <1>7 DEF ShutdownBegins, Teardown, ClosePool, ShutdownEnds
<1>8. CASE DrainBegins \/ JoinReturns \/ JoinTimesOut
  BY <1>8 DEF DrainBegins, JoinReturns, JoinTimesOut
<1> QED
  BY <1>1, <1>2, <1>3, <1>4, <1>5, <1>6, <1>7, <1>8 DEF Next, Lifecycle

(* initialize() is torn when it moves the attributes, or a call under way  *)
(* can tell that it has begun.                                             *)
LEMMA AttributesMove ==
  ASSUME TypeOK, Stage, Lifecycle
  PROVE  /\ inits' \in {inits, inits + 1} /\ UNCHANGED <<hpc, call>>
         /\ inits' = inits =>
              /\ Torn' => Torn
              /\ ~Torn => UNCHANGED <<identity, writes>>
<1> USE DEF TypeOK, Torn, attributes, machinery, lifecycle, threads, host, history
<1>1. ASSUME NEW r \in Requests, InitializeBegins(r)
      PROVE  inits' = inits + 1 /\ UNCHANGED <<hpc, call>>
  BY <1>1 DEF InitializeBegins
<1>2. CASE AssignRaw \/ AssignCanonical \/ AssignGate
  BY <1>2 DEF AssignRaw, AssignCanonical, AssignGate
<1>3. CASE OpenStore \/ Probe \/ NewWriter \/ Import
  BY <1>3 DEF OpenStore, Probe, NewWriter, Import
<1>4. CASE ShutdownBegins \/ DrainBegins \/ JoinReturns \/ JoinTimesOut \/ ClosePool \/ ShutdownEnds
  BY <1>4 DEF ShutdownBegins, DrainBegins, JoinReturns, JoinTimesOut, ClosePool, ShutdownEnds
<1> QED
  BY <1>1, <1>2, <1>3, <1>4 DEF Lifecycle

(* What a call holds stays live until it can tell that it has overlapped.  *)
LEMMA CallsStep ==
  ASSUME TypeOK, Stage, Calls, [Next]_vars
  PROVE  Calls'
<1> USE DEF TypeOK, Calls, CallTorn, None, attributes, machinery, lifecycle, threads, host, history
<1>1. CASE Lifecycle
  <2>0. Import \/ ops' = ops
    BY <1>1
       DEF Lifecycle, InitializeBegins, AssignRaw, AssignCanonical, AssignGate, OpenStore, Probe,
           NewWriter, ShutdownBegins, DrainBegins, JoinReturns, JoinTimesOut, ClosePool,
           ShutdownEnds
  <2>1. ops' \in Nat /\ (ops' = ops \/ ops' <= MaxOps)
    BY <2>0, LifecycleAssumption DEF Import
  <2>2. CASE inits' = inits + 1
    BY <1>1, <2>1, <2>2, AttributesMove
  <2>3. CASE inits' = inits
    <3>1. /\ UNCHANGED <<hpc, call>> /\ (Torn' => Torn)
          /\ ~Torn => UNCHANGED <<identity, writes>>
      BY <1>1, <2>3, AttributesMove
    <3>2. /\ UNCHANGED <<hpc, call>> /\ (CallTorn' <=> CallTorn) /\ (Torn' => Torn)
          /\ ~Torn => UNCHANGED <<identity, writes>>
      BY <2>3, <3>1
    <3>3. hpc \in {"session", "writer", "put", "switch", "filter"} /\ ~CallTorn =>
            UNCHANGED <<identity, writes>>
      BY <3>2
    <3> HIDE DEF CallTorn, Torn
    <3> QED
      BY <2>1, <2>3, <3>2, <3>3
  <2> QED
    BY <1>1, <2>2, <2>3, AttributesMove
<1>2. CASE UNCHANGED vars
  BY <1>2 DEF vars, Torn
<1>3. ASSUME NEW n \in Runs, Worker(n) PROVE Calls'
  <2>1. UNCHANGED <<hpc, call, inits, ops, lpc, identity, writes>>
    BY <1>3 DEF Worker, GetTimesOut, LooksAtFlag, Dies, Take, Load, Apply
  <2> QED
    BY <2>1 DEF Torn
<1>4. ASSUME NEW given \in {NoName} \cup Sessions, HookBegins(given) PROVE Calls'
  <2>1. /\ hpc' = "session" /\ call'.born = inits /\ call'.torn = Torn /\ Torn \in BOOLEAN
        /\ inits > 0 /\ writes /\ ops < MaxOps /\ UNCHANGED <<inits, ops, lpc, identity, writes>>
        /\ call'.given = given /\ (given # NoName => Torn \/ ThemeBy[given] = identity)
    BY <1>4 DEF HookBegins, HookGate, Known, Stage, Torn
  <2>2. (CallTorn' <=> Torn) /\ (Torn' <=> Torn)
    BY <2>1 DEF Torn
  <2> HIDE DEF CallTorn
  <2> QED
    BY <2>1, <2>2, LifecycleAssumption
<1>5. CASE HookReadsSession
  <2>1. /\ hpc = "session" /\ hpc' = "writer"
        /\ call'.session = IF call.given = NoName THEN session ELSE call.given
        /\ call'.born = call.born /\ call'.torn = call.torn
        /\ UNCHANGED <<inits, ops, lpc, identity, writes>>
    BY <1>5 DEF HookReadsSession
  <2>2. call'.astray \in BOOLEAN /\ (~call'.astray => call.given # NoName \/ ~astray)
    BY <1>5, Zenon DEF HookReadsSession
  <2>3. (CallTorn' <=> CallTorn) /\ (Torn' <=> Torn)
    BY <2>1 DEF Torn
  <2>4. ~CallTorn => ~Torn /\ inits > 0
    BY <2>1
  <2>5. call'.session \in {NoName} \cup Sessions
    BY <2>1
  <2>6. ~CallTorn /\ ~call'.astray => ThemeBy[call'.session] = identity
    BY <2>1, <2>2, <2>4 DEF Stage, Paired
  <2> HIDE DEF CallTorn
  <2> QED
    BY <2>1, <2>2, <2>3, <2>5, <2>6
<1>6. CASE HookReadsWriter
  <2>1. CASE hpc' = "idle"
    BY <1>6, <2>1 DEF HookReadsWriter
  <2>2. CASE hpc' # "idle"
    <3>1. /\ hpc = "writer" /\ hpc' = "put" /\ call'.session = call.session
          /\ call'.astray = call.astray /\ call'.writer = writer /\ writer # None
          /\ call'.identity = identity /\ call'.born = call.born /\ call'.torn = call.torn
          /\ UNCHANGED <<inits, ops, lpc, identity, writes>>
      BY <1>6, <2>2 DEF HookReadsWriter
    <3>2. (CallTorn' <=> CallTorn) /\ (Torn' <=> Torn)
      BY <3>1 DEF Torn
    <3> HIDE DEF CallTorn
    <3> QED
      BY <3>1, <3>2
  <2> QED
    BY <2>1, <2>2
<1>7. CASE HookPuts \/ HookRefused \/ SwitchWrites
  BY <1>7 DEF HookPuts, HookRefused, SwitchWrites
<1>10. ASSUME NEW s \in Sessions, SwitchBegins(s) PROVE Calls'
  <2>1. /\ hpc' = "switch" /\ call'.born = inits /\ call'.torn = Torn /\ Torn \in BOOLEAN
        /\ inits > 0 /\ UNCHANGED <<inits, lpc, identity>>
        /\ call'.session = s /\ (Torn \/ ThemeBy[s] = identity)
    BY <1>10 DEF SwitchBegins, Known, Torn
  <2>2. (CallTorn' <=> Torn) /\ (Torn' <=> Torn)
    BY <2>1 DEF Torn
  <2> HIDE DEF CallTorn
  <2> QED
    BY <2>1, <2>2
<1>8. ASSUME NEW tool \in {"memory", "conversation"}, NEW scope \in Scopes,
             RecallBegins(tool, scope)
      PROVE  Calls'
  <2>1. /\ hpc' = "filter" /\ call'.born = inits /\ call'.torn = Torn /\ Torn \in BOOLEAN
        /\ inits > 0 /\ UNCHANGED <<inits, lpc>>
    BY <1>8 DEF RecallBegins, Stage, Torn
  <2>2. (CallTorn' <=> Torn) /\ (Torn' <=> Torn)
    BY <2>1 DEF Torn
  <2> HIDE DEF CallTorn
  <2> QED
    BY <2>1, <2>2
<1>9. CASE RecallFilters \/ RecallLoads \/ RecallFails \/ RecallAnswers \/ RecallReturns
  BY <1>9 DEF RecallFilters, RecallLoads, RecallFails, RecallAnswers, RecallReturns
<1>11. CASE Hook \/ Switch
  BY <1>4, <1>5, <1>6, <1>7, <1>10, <1>11 DEF Hook, Switch
<1>12. CASE Recall
  BY <1>8, <1>9, <1>12 DEF Recall
<1> QED
  BY <1>1, <1>2, <1>3, <1>11, <1>12 DEF Next

-----------------------------------------------------------------------------
(* The write that a hook puts is attributed: if the call can not tell that *)
(* it has overlapped an initialize(), all it holds is live.                *)
LEMMA PutIsAttributed ==
  ASSUME TypeOK, Stage, Calls, hpc = "put",
         NEW w, w.torn = CallTorn, w.identity = call.identity, w.session = call.session,
         w.astray = call.astray
  PROVE  Attributed(w)
<1> SUFFICES ASSUME ~CallTorn
             PROVE  /\ \E r \in Requests : r.writes /\ w.identity = ThemeOf(r)
                    /\ w.astray \/ w.session = NoName \/ ThemeBy[w.session] = w.identity
  BY DEF Attributed
<1>1. ~Torn /\ inits > 0 /\ writes /\ call.identity = identity
  BY DEF Calls
<1>2. PICK r \in Requests : Of(r)
  BY <1>1 DEF Stage
<1>3. w.astray \/ ThemeBy[w.session] = w.identity
  BY <1>1 DEF Calls
<1> QED
  BY <1>1, <1>2, <1>3 DEF Of

LEMMA WritesStep ==
  ASSUME TypeOK, Stage, Calls, Writes, [Next]_vars
  PROVE  Writes'
<1> USE DEF Writes, attributes, machinery, lifecycle, threads, host, history
<1>1. CASE \/ UNCHANGED vars \/ (\E given \in {NoName} \cup Sessions : HookBegins(given))
           \/ HookReadsSession \/ HookReadsWriter \/ Switch \/ Recall
  <2>1. UNCHANGED <<rows, queue, hand>>
    BY <1>1 DEF vars, HookBegins, HookReadsSession, HookReadsWriter, Switch, SwitchBegins,
         SwitchWrites, Recall, RecallBegins, RecallFilters, RecallLoads, RecallFails, RecallAnswers,
         RecallReturns
  <2> QED
    BY <2>1 DEF Attributed
<1>2. CASE Lifecycle /\ ~Import
  <2>1. UNCHANGED <<rows, queue, hand>>
    BY <1>2 DEF Lifecycle, InitializeBegins, AssignRaw, AssignCanonical, AssignGate, OpenStore,
         Probe, NewWriter, ShutdownBegins, DrainBegins, JoinReturns, JoinTimesOut, ClosePool,
         ShutdownEnds
  <2> QED
    BY <2>1 DEF Attributed
<1>3. CASE Import
  <2> DEFINE row == [id |-> 0, identity |-> identity, session |-> NoName,
                     torn |-> FALSE, astray |-> FALSE, late |-> FALSE,
                       writer |-> inits]
  <2>1. writes /\ \E r \in Requests : Of(r)
    BY <1>3 DEF Import, Stage, Torn
  <2>2. Attributed(row)
    BY <2>1 DEF Attributed, Of
  <2>3. rows' = rows \/ rows' = Append(rows, row)
    BY <1>3 DEF Import
  <2> HIDE DEF row
  <2>4. \A k \in DOMAIN rows' : Attributed(rows'[k])
    <3>1. rows \in Seq(Write)
      BY DEF TypeOK
    <3> QED
      BY <2>2, <2>3, <3>1
  <2>5. UNCHANGED <<queue, hand>>
    BY <1>3 DEF Import
  <2> QED
    BY <2>4, <2>5 DEF Attributed
<1>4. CASE HookPuts
  <2> DEFINE write == [id |-> ops + 1, identity |-> call.identity, session |-> call.session,
                       torn |-> CallTorn, astray |-> call.astray,
                       late |-> call.writer \in drains, writer |-> call.writer]
  <2>1. Attributed(write)
    BY <1>4, PutIsAttributed DEF HookPuts
  <2>2. /\ queue' = [queue EXCEPT ![call.writer] = Append(@, write)]
        /\ call.writer \in Runs /\ UNCHANGED rows /\ EnsureThread(call.writer)
    BY <1>4 DEF HookPuts, Calls
  <2> HIDE DEF write
  <2>3. ASSUME NEW n \in Runs PROVE \A k \in DOMAIN queue'[n] : Attributed(queue'[n][k])
    <3>1. queue[n] \in Seq(Write)
      BY DEF TypeOK
    <3>2. queue'[n] = queue[n] \/ queue'[n] = Append(queue[n], write)
      BY <2>2 DEF TypeOK
    <3> QED
      BY <2>1, <3>1, <3>2
  <2>4. \A n \in Runs : hand'[n] = hand[n] \/ hand'[n] = Waiting
    BY <2>2, Started
  <2> QED
    BY <2>2, <2>3, <2>4 DEF Attributed, Waiting
<1>5. CASE HookRefused
  <2>1. UNCHANGED <<rows, queue>> /\ \A n \in Runs : hand'[n] = hand[n] \/ hand'[n] = Waiting
    BY <1>5, Started DEF HookRefused, Calls
  <2> QED
    BY <2>1 DEF Attributed, Waiting
<1>6. ASSUME NEW n \in Runs, Worker(n) PROVE Writes'
  <2>1. queue[n] # <<>> => Attributed(Head(queue[n]))
    BY TakeFacts
  <2>2. ASSUME NEW m \in Runs PROVE \A k \in DOMAIN queue'[m] : Attributed(queue'[m][k])
    <3>1. CASE queue'[m] = queue[m]
      BY <3>1
    <3>2. CASE m = n /\ queue[n] # <<>> /\ queue'[n] = Tail(queue[n])
      BY <3>2, TakeFacts
    <3> QED
      BY <1>6, <3>1, <3>2, WorkHands DEF TypeOK
  <2>3. ASSUME NEW m \in Runs, hand'[m].stage \in {"embed", "apply"} PROVE Attributed(hand'[m].write)
    <3>1. \/ hand'[m] = hand[m]
          \/ m = n /\ queue[n] # <<>> /\ hand'[m].write = Head(queue[n])
          \/ m = n /\ hand[m].stage = "embed" /\ hand'[m].write = hand[m].write
      BY <1>6, <2>3, WorkHands DEF Off, Waiting, SawEmpty
    <3> QED
      BY <2>1, <2>3, <3>1
  <2>4. \A k \in DOMAIN rows' : Attributed(rows'[k])
    <3>1. rows \in Seq(Write)
      BY DEF TypeOK
    <3>2. rows' = rows \/ (hand[n].stage = "apply" /\ rows' = Append(rows, hand[n].write))
      BY <1>6 DEF Worker, GetTimesOut, LooksAtFlag, Dies, Take, Load, Apply
    <3> QED
      BY <3>1, <3>2
  <2> QED
    BY <2>2, <2>3, <2>4 DEF Attributed
<1>7. CASE Hook
  BY <1>1, <1>4, <1>5, <1>7 DEF Hook
<1> QED
  BY <1>1, <1>2, <1>3, <1>6, <1>7 DEF Next, Lifecycle

-----------------------------------------------------------------------------
(* The filter of a recall that has overlapped no initialize(), and reads   *)
(* no session that has, keeps out what its theme may not read.             *)
LEMMA FilterKeeps ==
  ASSUME Stage, Calls, Gate, hpc = "filter", ~CallTorn, ~(Filter.by = "session" /\ astray)
  PROVE  Keeps(Filter, call.theme)
<1>1. ~Torn /\ inits > 0 /\ call.theme = identity
  BY DEF Calls, Gate
<1>2. call.scope \in Scopes /\ call.restricted = Restricted(identity)
  BY <1>1 DEF Gate
<1>3. CASE call.scope = "current"
  BY <1>1, <1>3 DEF Filter, Keeps, Restricted
<1>4. CASE call.scope = "session" /\ session # NoName
  <2>1. Filter = [by |-> "session", value |-> session]
    BY <1>4 DEF Filter
  <2>2. session \in Sessions /\ ThemeBy[session] = identity
    BY <1>1, <2>1 DEF Stage, Paired
  <2> QED
    BY <1>1, <2>1, <2>2 DEF Keeps
<1>5. CASE call.scope \in {"all", "session"} /\ ~(call.scope = "session" /\ session # NoName)
  BY <1>1, <1>2, <1>5 DEF Filter, Keeps
<1>6. CASE call.scope \notin {"current", "all", "session"}
  BY <1>1, <1>2, <1>6 DEF Filter, Keeps, Gate, Scopes
<1> QED
  BY <1>3, <1>4, <1>5, <1>6

LEMMA GateStep ==
  ASSUME TypeOK, Stage, Calls, Gate, [Next]_vars
  PROVE  Gate'
<1> USE DEF attributes, machinery, lifecycle, threads, host, history
<1>1. CASE Lifecycle
  <2>1. UNCHANGED <<hpc, call>>
    BY <1>1, AttributesMove
  <2>2. ASSUME hpc = "filter", ~CallTorn' PROVE call'.theme = identity'
    <3>1. inits' = inits /\ ~CallTorn
      BY <1>1, <2>1, <2>2, AttributesMove DEF Calls, CallTorn, TypeOK
    <3>2. ~Torn
      BY <2>2, <3>1 DEF Calls
    <3>3. identity' = identity
      BY <1>1, <3>1, <3>2, AttributesMove
    <3> QED
      BY <2>1, <2>2, <3>1, <3>3 DEF Gate
  <2> QED
    BY <2>1, <2>2 DEF Gate, Keeps
<1>2. CASE UNCHANGED vars
  BY <1>2 DEF vars, Gate, CallTorn, Keeps
<1>3. ASSUME NEW n \in Runs, Worker(n) PROVE Gate'
  <2>1. UNCHANGED <<hpc, call, inits, identity>>
    BY <1>3 DEF Worker, GetTimesOut, LooksAtFlag, Dies, Take, Load, Apply
  <2> QED
    BY <2>1 DEF Gate, CallTorn, Keeps
<1>4. CASE Hook \/ Switch
  BY <1>4 DEF Hook, HookBegins, HookReadsSession, HookReadsWriter, HookPuts, HookRefused, Switch,
     SwitchBegins, SwitchWrites, Gate
<1>5. ASSUME NEW tool \in {"memory", "conversation"}, NEW scope \in Scopes,
             RecallBegins(tool, scope)
      PROVE  Gate'
  BY <1>5 DEF RecallBegins, Gate
<1>6. CASE RecallFilters
  <2>1. /\ hpc = "filter" /\ hpc' = "load" /\ call'.theme = call.theme
        /\ call'.filter = Filter
        /\ (~call'.straddled => ~CallTorn /\ ~(Filter.by = "session" /\ astray))
        /\ {"theme", "straddled", "filter", "store"} \subseteq DOMAIN call'
    BY <1>6 DEF RecallFilters
  <2> QED
    BY <2>1, FilterKeeps DEF Gate, Keeps
<1>7. CASE RecallLoads \/ RecallFails
  <2>1. hpc \in {"load", "search"} /\ hpc' \in {"idle", "load", "search"}
    BY <1>7 DEF RecallLoads, RecallFails
  <2>2. hpc' # "idle" =>
          /\ DOMAIN call' = DOMAIN call
          /\ \A f \in {"theme", "straddled", "filter"} : f \in DOMAIN call => call'[f] = call[f]
    BY <1>7 DEF RecallLoads, RecallFails
  <2>3. hpc' # "idle" => /\ call'.theme = call.theme /\ call'.straddled = call.straddled
                         /\ call'.filter = call.filter
    BY <2>1, <2>2 DEF Gate
  <2> QED
    BY <2>1, <2>2, <2>3 DEF Gate, Keeps
<1>8. CASE RecallAnswers \/ RecallReturns
  BY <1>8 DEF RecallAnswers, RecallReturns, Gate
<1> QED
  BY <1>1, <1>2, <1>3, <1>4, <1>5, <1>6, <1>7, <1>8 DEF Next, Recall

(* Among attributed rows, what passes such a filter is of no other sink.   *)
LEMMA KeptRows ==
  ASSUME Writes, \A k \in DOMAIN rows : ~rows[k].torn /\ ~rows[k].astray,
         NEW filter, NEW theme, Keeps(filter, theme),
         NEW row \in Range(rows) \cup OldRows, Passes(row, filter), row.identity \in Sinks
  PROVE  row.identity = theme
<1>1. CASE filter.by = "theme" /\ filter.value \notin Restricted(theme)
  BY <1>1 DEF Passes, Restricted
<1>2. CASE filter.by = "others" /\ filter.value = Restricted(theme)
  BY <1>2 DEF Passes, Restricted
<1>3. CASE filter.by = "session" /\ filter.value \in Sessions /\ ThemeBy[filter.value] = theme
  <2>1. row.session = filter.value /\ row.session # NoName
    BY <1>3, LifecycleAssumption DEF Passes
  <2>2. CASE row \in OldRows
    BY <1>3, <2>1, <2>2, LifecycleAssumption
  <2>3. CASE row \in Range(rows)
    <3>1. PICK k \in DOMAIN rows : row = rows[k]
      BY <2>3 DEF Range
    <3> QED
      BY <1>3, <2>1, <3>1 DEF Writes, Attributed
  <2> QED
    BY <2>2, <2>3
<1> QED
  BY <1>1, <1>2, <1>3 DEF Keeps

LEMMA RecallGateStep ==
  ASSUME TypeOK, Writes, Gate, RecallGate, [Next]_vars
  PROVE  RecallGate'
<1> USE DEF attributes, machinery, lifecycle, threads, host, history
<1>1. CASE RecallAnswers
  <2> SUFFICES ASSUME ~call'.straddled,
                      \A k \in DOMAIN rows' : ~rows'[k].torn /\ ~rows'[k].astray,
                      NEW theme \in call'.answer \cap Sinks
               PROVE  theme = call'.theme
    BY DEF RecallGate
  <2>1. /\ hpc = "search" /\ UNCHANGED rows /\ call'.theme = call.theme
        /\ call'.straddled = call.straddled
        /\ call'.answer = {row.identity : row \in {x \in Range(rows) \cup OldRows : Passes(x, call.filter)}}
    BY <1>1 DEF RecallAnswers
  <2>2. PICK row \in Range(rows) \cup OldRows : Passes(row, call.filter) /\ theme = row.identity
    BY <2>1
  <2>3. Keeps(call.filter, call.theme)
    BY <2>1 DEF Gate
  <2> QED
    BY <2>1, <2>2, <2>3, KeptRows
<1>2. CASE \/ Hook \/ Switch
           \/ \E tool \in {"memory", "conversation"}, scope \in Scopes : RecallBegins(tool, scope)
  BY <1>2 DEF Hook, HookBegins, HookReadsSession, HookReadsWriter, HookPuts, HookRefused, Switch,
     SwitchBegins, SwitchWrites, RecallBegins, RecallGate
<1>3. CASE RecallFilters \/ RecallLoads \/ RecallFails \/ RecallReturns
  BY <1>3 DEF RecallFilters, RecallLoads, RecallFails, RecallReturns, RecallGate
<1>4. CASE UNCHANGED vars \/ Lifecycle \/ \E n \in Runs : Worker(n)
  <2>1. UNCHANGED <<hpc, call>>
    BY <1>4 DEF vars, Lifecycle, InitializeBegins, AssignRaw, AssignCanonical, AssignGate, OpenStore,
         Probe, NewWriter, Import, ShutdownBegins, DrainBegins, JoinReturns, JoinTimesOut, ClosePool,
         ShutdownEnds, Worker, GetTimesOut, LooksAtFlag, Dies, Take, Load, Apply
  <2>2. rows' = rows \/ \E row : rows' = Append(rows, row)
    BY <1>4 DEF vars, Lifecycle, InitializeBegins, AssignRaw, AssignCanonical, AssignGate, OpenStore,
         Probe, NewWriter, Import, ShutdownBegins, DrainBegins, JoinReturns, JoinTimesOut, ClosePool,
         ShutdownEnds, Worker, GetTimesOut, LooksAtFlag, Dies, Take, Load, Apply
  <2>3. \A k \in DOMAIN rows : k \in DOMAIN rows' /\ rows'[k] = rows[k]
    <3>1. rows \in Seq(Write)
      BY DEF TypeOK
    <3> QED
      BY <2>2, <3>1
  <2> QED
    BY <2>1, <2>3 DEF RecallGate
<1> QED
  BY <1>1, <1>2, <1>3, <1>4 DEF Next, Recall

-----------------------------------------------------------------------------
(* The inductive invariant holds in every reachable state. *)
THEOREM Invariance == Spec => []IInv
<1>1. IInv /\ [Next]_vars => IInv'
  BY TypeStep, StageStep, CallsStep, WritesStep, GateStep, RecallGateStep DEF IInv
<1> QED
  BY InitIInv, <1>1, PTL DEF Spec

(* The provider, its writers and the host's calls keep their types, and    *)
(* the provider always has a theme.                                        *)
THEOREM TypeCorrect == Spec => []TypeOK
<1>1. IInv => TypeOK
  BY DEF IInv
<1> QED
  BY Invariance, <1>1, PTL

(* Whatever hooks, switches, drain threads and initialize() do to one      *)
(* another, a row carries the theme of an initialize() that may write and  *)
(* a session of that theme, but for the calls that RowsAttributed exempts. *)
THEOREM AttributionHolds == Spec => []RowsAttributed
<1>1. IInv => RowsAttributed
  BY DEF IInv, Writes, Attributed, RowsAttributed, WritingThemes
<1> QED
  BY Invariance, <1>1, PTL

(* No private key, benchmark's name or theme off the allow-list is stored  *)
(* (outside the first half of initialize()), for any governance settings.  *)
THEOREM StoredNamesGoverned == Spec => []IdentityGoverned
<1>1. IInv => IdentityGoverned
  BY ThemeIsGoverned DEF IInv, Writes, Attributed, IdentityGoverned
<1> QED
  BY Invariance, <1>1, PTL

(* What a recall tool answers is of no sink but its own theme's, but for   *)
(* calls that an initialize() overlaps and what a switch overtaken by one  *)
(* has left.                                                               *)
THEOREM ReadGateHolds == Spec => []RecallGate
<1>1. IInv => RecallGate
  BY DEF IInv
<1> QED
  BY Invariance, <1>1, PTL

-----------------------------------------------------------------------------
(* How one session's writer and store give way to the next one's: accepted *)
(* writes are stored, in order, and replaced pools stay closed, with       *)
(* drains that may time out.                                               *)

(* A number that initialize() has given away: the running one gives its    *)
(* own to its store and writer at the end.                                 *)
Starting == request # NoRequest /\ lpc # "import"
Given(n) == n \in Runs /\ n <= inits /\ (Starting => n < inits)

Numbers ==
  /\ lpc \in {"open", "probe", "writer"} => Starting
  /\ writer # None => Given(writer)
  /\ store # None => store <= inits /\ (lpc \notin {"probe", "writer"} => Given(store))
  /\ hpc = "put" => Given(call.writer)
  /\ \A n \in drains : Given(n)
  /\ \A n \in Runs : Pending(n) # {} => Given(n)

(* shutdown() takes the writer away before the store, and initialize()     *)
(* gives the store before the writer; whoever still holds a writer that    *)
(* was taken away puts late writes.                                        *)
Handover ==
  /\ writer # None => store # None
  /\ lpc \in {"close", "forget", "open", "probe", "writer"} => writer = None
  /\ lpc \in {"probe", "writer"} => store = inits
  /\ lpc = "open" => store = None
  /\ hpc = "put" => call.writer = writer \/ call.writer \in drains

(* A drain whose join can return, or has, leaves late writes only: a thread *)
(* that ends with others on the queue has left them behind.                *)
Emptied ==
  /\ \A n \in Runs : \A w \in Pending(n) : w.writer = n
  /\ \A n \in Runs \ abandoned : n # writer => \A w \in Pending(n) : w.late
  /\ \A n \in drains \ abandoned : Joined(n) => \A w \in Pending(n) : w.late

(* Writes are numbered as they are put; a regular write of the current     *)
(* writer is younger than all that is stored or pending elsewhere.         *)
Sorted ==
  /\ \A k \in DOMAIN rows : rows[k].id \in 0..ops
  /\ \A n \in Runs : \A w \in Pending(n) : w.id \in 1..ops
  /\ \A n \in Runs : \A i, j \in DOMAIN queue[n] : i < j => queue[n][i].id < queue[n][j].id
  /\ \A n \in Runs : hand[n].stage \in {"embed", "apply"} =>
       \A k \in DOMAIN queue[n] : hand[n].write.id < queue[n][k].id
Younger ==
  writer # None =>
    /\ \A w \in Pending(writer) : ~w.late => \A k \in DOMAIN rows : rows[k].id < w.id
    /\ \A n \in Runs \ {writer} : \A v \in Pending(n), w \in Pending(writer) :
         ~w.late => v.id < w.id
    /\ hpc = "put" /\ call.writer # writer => Pending(writer) = {}

(* The pool of the current store is open until shutdown() closes it; one   *)
(* that is used by a thread or a call is closed if it is not the current.  *)
Shut(n) == pool[n] \in {"closed", "reopened"}
Pools ==
  /\ \A n \in Runs : pool[n] = "open" => n = store
  /\ \A n \in Runs : Shut(n) => Given(n)
  /\ store # None => (pool[store] = "closed" => lpc = "forget") /\ (lpc = "forget" => Shut(store))
  /\ hpc = "search" => call.store \in Runs /\ (call.store = store \/ Shut(call.store))
  /\ \A n \in Runs : hand[n].stage = "apply" =>
       /\ hand[n].store = store \/ Shut(hand[n].store)
       /\ hand[n].write.late \/ n \in abandoned \/ hand[n].store = store

HInv == Numbers /\ Handover /\ Emptied /\ Sorted /\ Younger /\ Pools
        /\ AcceptedWritesStored /\ AppliedInOrder

-----------------------------------------------------------------------------
(* What the steps do to the pending writes *)

(* A put, refused or not, starts a thread with empty hands. *)
LEMMA StartPends ==
  ASSUME TypeOK, NEW c \in Runs, EnsureThread(c), NEW n \in Runs
  PROVE  /\ hand'[n].stage \in {"embed", "apply"} <=> hand[n].stage \in {"embed", "apply"}
         /\ hand'[n].stage \in {"embed", "apply"} => hand'[n] = hand[n]
         /\ queue'[n] = queue[n] => Pending(n)' = Pending(n)
<1>1. hand'[n] = hand[n] \/ (hand[n] = Off /\ hand'[n] = Waiting)
  BY Started
<1>2. Off.stage \notin {"embed", "apply"} /\ Waiting.stage \notin {"embed", "apply"}
  BY DEF Off, Waiting
<1> QED
  BY <1>1, <1>2 DEF Pending

(* A put adds the youngest of all writes to one writer. *)
LEMMA PutPends ==
  ASSUME TypeOK, Calls, HookPuts
  PROVE  \E c \in Runs, w \in Write :
           /\ c = call.writer /\ w.id = ops + 1 /\ w.writer = c /\ (w.late <=> c \in drains)
           /\ queue' = [queue EXCEPT ![c] = Append(@, w)]
           /\ Pending(c)' = Pending(c) \cup {w}
           /\ \A n \in Runs \ {c} : Pending(n)' = Pending(n)
<1>1. PICK c \in Runs : c = call.writer
  BY DEF HookPuts, Calls
<1> DEFINE write == [id |-> ops + 1, identity |-> call.identity, session |-> call.session,
                     torn |-> CallTorn, astray |-> call.astray, late |-> c \in drains, writer |-> c]
<1>2. queue' = [queue EXCEPT ![c] = Append(@, write)] /\ EnsureThread(c)
  BY <1>1 DEF HookPuts
<1>3. write \in Write
  BY <1>1 DEF HookPuts, Calls, Write, CallTorn, TypeOK
<1>4. write.id = ops + 1 /\ write.writer = c /\ (write.late <=> c \in drains)
  OBVIOUS
<1>5. PICK w \in Write : w = write
  BY <1>3
<1>6. queue \in [Runs -> Seq(Write)] /\ queue' = [queue EXCEPT ![c] = Append(@, w)]
  BY <1>2, <1>5 DEF TypeOK
<1> HIDE DEF write
<1>7. Pending(c)' = Pending(c) \cup {w}
  <2>1. queue[c] \in Seq(Write) /\ queue'[c] = Append(queue[c], w)
    BY <1>6
  <2>2. Range(queue'[c]) = Range(queue[c]) \cup {w}
    BY <2>1 DEF Range
  <2>3. /\ hand'[c].stage \in {"embed", "apply"} <=> hand[c].stage \in {"embed", "apply"}
        /\ hand'[c].stage \in {"embed", "apply"} => hand'[c] = hand[c]
    BY <1>2, StartPends
  <2> QED
    BY <2>2, <2>3 DEF Pending
<1>8. ASSUME NEW n \in Runs \ {c} PROVE Pending(n)' = Pending(n)
  BY <1>2, <1>6, StartPends
<1> QED
  BY <1>1, <1>4, <1>5, <1>6, <1>7, <1>8

(* A drain thread takes from its own writer alone. *)
LEMMA WorkPends ==
  ASSUME TypeOK, NEW n \in Runs, Worker(n)
  PROVE  /\ Pending(n)' \subseteq Pending(n)
         /\ \A m \in Runs \ {n} :
              Pending(m)' = Pending(m) /\ queue'[m] = queue[m] /\ hand'[m] = hand[m]
<1>1. hand \in [Runs -> Hands] /\ queue \in [Runs -> Seq(Write)]
  BY DEF TypeOK, Hands
<1>2. \A m \in Runs \ {n} : queue'[m] = queue[m] /\ hand'[m] = hand[m]
  BY WorkHands
<1>3. Pending(n)' \subseteq Pending(n)
  <2>1. CASE queue' = queue /\ hand'[n] \in {Off, Waiting, SawEmpty}
    BY <2>1 DEF Pending, Off, Waiting, SawEmpty
  <2>2. CASE queue' = queue /\ hand[n].stage = "embed" /\ hand'[n].write = hand[n].write
    BY <2>2 DEF Pending
  <2>3. ASSUME queue[n] # <<>>, queue'[n] = Tail(queue[n]),
               hand'[n] = Waiting \/ hand'[n].write = Head(queue[n])
        PROVE  Pending(n)' \subseteq Pending(n)
    <3>1. Head(queue[n]) \in Range(queue[n]) /\ Range(Tail(queue[n])) \subseteq Range(queue[n])
      BY <2>3, TakeFacts DEF Range
    <3> QED
      BY <2>3, <3>1 DEF Pending, Waiting
  <2> QED
    BY <1>1, <2>1, <2>2, <2>3, WorkHands
<1>4. \A m \in Runs \ {n} : Pending(m)' = Pending(m)
  BY <1>2 DEF Pending
<1> QED
  BY <1>2, <1>3, <1>4

(* All other steps leave the pending writes alone. *)
LEMMA OthersKeepPending ==
  ASSUME TypeOK, Calls,
         \/ UNCHANGED vars \/ Lifecycle \/ Recall \/ Switch \/ HookReadsSession \/ HookReadsWriter
         \/ (\E given \in {NoName} \cup Sessions : HookBegins(given)) \/ HookRefused
  PROVE  /\ UNCHANGED queue /\ \A n \in Runs : Pending(n)' = Pending(n)
         /\ \A n \in Runs : hand'[n].stage \in {"embed", "apply"} => hand'[n] = hand[n]
         /\ HookRefused \/ UNCHANGED hand
<1>1. CASE ~HookRefused
  <2>1. UNCHANGED <<queue, hand>>
    <3> USE DEF vars, attributes, machinery, lifecycle, threads, host, history
    <3>1. CASE Lifecycle
      BY <3>1 DEF Lifecycle, InitializeBegins, AssignRaw, AssignCanonical, AssignGate, OpenStore,
           Probe, NewWriter, Import, ShutdownBegins, DrainBegins, JoinReturns, JoinTimesOut,
           ClosePool, ShutdownEnds
    <3>2. CASE Recall
      BY <3>2 DEF Recall, RecallBegins, RecallFilters, RecallLoads, RecallFails, RecallAnswers,
           RecallReturns
    <3>3. CASE \/ UNCHANGED vars \/ Switch \/ HookReadsSession \/ HookReadsWriter
               \/ \E given \in {NoName} \cup Sessions : HookBegins(given)
      BY <3>3 DEF Switch, SwitchBegins, SwitchWrites, HookBegins, HookReadsSession, HookReadsWriter
    <3> QED
      BY <1>1, <3>1, <3>2, <3>3
  <2> QED
    BY <2>1 DEF Pending
<1>2. CASE HookRefused
  <2>1. UNCHANGED queue /\ call.writer \in Runs /\ EnsureThread(call.writer)
    BY <1>2 DEF HookRefused, Calls
  <2>2. ASSUME NEW n \in Runs
        PROVE  /\ Pending(n)' = Pending(n)
               /\ hand'[n].stage \in {"embed", "apply"} => hand'[n] = hand[n]
    BY <2>1, StartPends
  <2> QED
    BY <1>2, <2>1, <2>2
<1> QED
  BY <1>1, <1>2

(* The next-state relation by what it does to the pending writes. *)
LEMMA Steps ==
  ASSUME [Next]_vars
  PROVE  \/ Lifecycle \/ HookReadsWriter \/ HookPuts \/ (\E n \in Runs : Worker(n)) \/ Recall
         \/ UNCHANGED vars \/ HookReadsSession \/ Switch \/ HookRefused
         \/ (\E given \in {NoName} \cup Sessions : HookBegins(given))
BY DEF Next, Hook

-----------------------------------------------------------------------------
LEMMA InitHInv == Init => HInv
<1> SUFFICES ASSUME Init PROVE HInv
  OBVIOUS
<1>1. \A n \in Runs : /\ Pending(n) = {} /\ queue[n] = <<>> /\ pool[n] = "none"
                     /\ hand[n].stage \notin {"embed", "apply"}
  BY DEF Init, Pending, Off, Range
<1>2. Numbers /\ Handover /\ Emptied /\ Younger /\ Pools
  BY <1>1 DEF Init, Numbers, Handover, Emptied, Younger, Pools, Shut, None
<1>3. Sorted /\ AcceptedWritesStored /\ AppliedInOrder
  BY <1>1 DEF Init, Sorted, AcceptedWritesStored, AppliedInOrder
<1> QED
  BY <1>2, <1>3 DEF HInv

LEMMA NumbersStep ==
  ASSUME TypeOK, Stage, Calls, Numbers, Handover, [Next]_vars
  PROVE  Numbers'
<1> USE LifecycleAssumption DEF Numbers, Handover, Starting, Given, None, Runs, NoRequest,
          attributes, machinery, lifecycle, threads, host, history
<1>1. inits \in 0..MaxInits /\ drains \subseteq Runs /\ writer \in {None} \cup Runs
      /\ store \in {None} \cup Runs
  BY DEF TypeOK
<1>2. CASE Lifecycle
  <2>1. UNCHANGED <<hpc, call>> /\ \A n \in Runs : Pending(n)' = Pending(n)
    BY <1>2, AttributesMove, OthersKeepPending
  <2>2. ASSUME NEW r \in Requests, InitializeBegins(r) PROVE Numbers'
    BY <1>1, <2>1, <2>2 DEF InitializeBegins
  <2>3. CASE AssignRaw \/ AssignCanonical
    BY <1>1, <2>1, <2>3 DEF AssignRaw, AssignCanonical
  <2>4. CASE AssignGate
    BY <1>1, <2>1, <2>4 DEF AssignGate, Stage, Torn
  <2>5. CASE OpenStore
    BY <1>1, <2>1, <2>5 DEF OpenStore, Stage
  <2>6. CASE Probe
    BY <1>1, <2>1, <2>6 DEF Probe
  <2>7. CASE NewWriter
    BY <1>1, <2>1, <2>7 DEF NewWriter, Stage
  <2>8. CASE Import
    BY <1>1, <2>1, <2>8 DEF Import
  <2>9. CASE ShutdownBegins \/ ClosePool
    BY <1>1, <2>1, <2>9 DEF ShutdownBegins, ClosePool
  <2>10. CASE ShutdownEnds
    BY <1>1, <2>1, <2>10 DEF ShutdownEnds
  <2>11. CASE DrainBegins
    BY <1>1, <2>1, <2>11 DEF DrainBegins
  <2>12. CASE JoinReturns \/ JoinTimesOut
    BY <1>1, <2>1, <2>12 DEF JoinReturns, JoinTimesOut
  <2> QED
    BY <1>2, <2>2, <2>3, <2>4, <2>5, <2>6, <2>7, <2>8, <2>9, <2>10, <2>11, <2>12 DEF Lifecycle
<1>3. CASE HookReadsWriter
  BY <1>1, <1>3, OthersKeepPending DEF HookReadsWriter
<1>4. CASE HookPuts
  <2>1. UNCHANGED <<inits, request, lpc, writer, store, drains>> /\ hpc' = "idle" /\ hpc = "put"
    BY <1>4 DEF HookPuts
  <2> QED
    BY <1>1, <1>4, <2>1, PutPends
<1>5. ASSUME NEW n \in Runs, Worker(n) PROVE Numbers'
  <2>1. UNCHANGED <<inits, request, lpc, writer, store, drains, hpc, call>>
    BY <1>5 DEF Worker, GetTimesOut, LooksAtFlag, Dies, Take, Load, Apply
  <2>2. \A m \in Runs : Pending(m)' \subseteq Pending(m)
    BY <1>5, WorkPends
  <2> QED
    BY <1>1, <2>1, <2>2
<1>6. CASE \/ Recall \/ UNCHANGED vars \/ HookReadsSession \/ Switch \/ HookRefused
           \/ \E given \in {NoName} \cup Sessions : HookBegins(given)
  <2>1. UNCHANGED <<inits, request, lpc, writer, store, drains>>
        /\ (hpc' # "put" \/ UNCHANGED <<hpc, call>>)
    BY <1>6 DEF vars, Recall, RecallBegins, RecallFilters, RecallLoads, RecallFails, RecallAnswers,
         RecallReturns, HookBegins, HookReadsSession, HookRefused, Switch, SwitchBegins, SwitchWrites
  <2>2. \A n \in Runs : Pending(n)' = Pending(n)
    BY <1>6, OthersKeepPending
  <2> QED
    BY <1>1, <2>1, <2>2
<1> QED
  BY <1>2, <1>3, <1>4, <1>5, <1>6, Steps

LEMMA HandoverStep ==
  ASSUME TypeOK, Stage, Calls, Handover, [Next]_vars
  PROVE  Handover'
<1> USE DEF Handover, None, Runs, attributes, machinery, lifecycle, threads, host, history
<1>1. inits \in 0..MaxInits /\ drains \subseteq Runs
  BY DEF TypeOK
<1>2. CASE Lifecycle
  <2>1. UNCHANGED <<hpc, call>>
    BY <1>2, AttributesMove
  <2>2. ASSUME NEW r \in Requests, InitializeBegins(r) PROVE Handover'
    BY <2>1, <2>2 DEF InitializeBegins
  <2>3. CASE AssignRaw \/ AssignCanonical \/ AssignGate
    BY <2>1, <2>3 DEF AssignRaw, AssignCanonical, AssignGate, Teardown
  <2>4. CASE OpenStore \/ Probe
    BY <2>1, <2>4 DEF OpenStore, Probe
  <2>5. CASE NewWriter
    BY <1>1, <2>1, <2>5 DEF NewWriter, Stage, Calls
  <2>6. CASE Import \/ ShutdownBegins \/ ClosePool \/ ShutdownEnds
    BY <2>1, <2>6 DEF Import, ShutdownBegins, ClosePool, ShutdownEnds
  <2>7. CASE DrainBegins
    BY <2>1, <2>7 DEF DrainBegins
  <2>8. CASE JoinReturns \/ JoinTimesOut
    BY <2>1, <2>8 DEF JoinReturns, JoinTimesOut, Stage
  <2> QED
    BY <1>2, <2>2, <2>3, <2>4, <2>5, <2>6, <2>7, <2>8 DEF Lifecycle
<1>3. CASE HookReadsWriter
  BY <1>3 DEF HookReadsWriter
<1>4. CASE \/ HookPuts \/ Recall \/ UNCHANGED vars \/ HookReadsSession \/ Switch \/ HookRefused
           \/ \E given \in {NoName} \cup Sessions : HookBegins(given)
  BY <1>4 DEF vars, HookPuts, Recall, RecallBegins, RecallFilters, RecallLoads, RecallFails,
       RecallAnswers, RecallReturns, HookBegins, HookReadsSession, HookRefused, Switch, SwitchBegins,
       SwitchWrites
<1>5. ASSUME NEW n \in Runs, Worker(n) PROVE Handover'
  BY <1>5 DEF Worker, GetTimesOut, LooksAtFlag, Dies, Take, Load, Apply
<1> QED
  BY <1>2, <1>3, <1>4, <1>5, Steps

(* A step that changes neither what Joined reads of the writers under       *)
(* drain, nor the writer that is current, keeps Emptied.                   *)
LEMMA EmptiedKept ==
  ASSUME Emptied, writer' = writer, drains' = drains, abandoned \subseteq abandoned',
         \A n \in Runs : Pending(n)' \subseteq Pending(n),
         \A n \in (drains \cap Runs) \ abandoned' : Joined(n)' =>
            Joined(n) \/ \A w \in Pending(n)' : w.late,
         drains \subseteq Runs
  PROVE  Emptied'
BY DEF Emptied

LEMMA EmptiedStep ==
  ASSUME TypeOK, Stage, Calls, Handover, Emptied, [Next]_vars
  PROVE  Emptied'
<1> USE DEF attributes, machinery, lifecycle, threads, host, history
<1>0. drains \subseteq Runs /\ abandoned \subseteq Runs /\ hand \in [Runs -> Hands]
      /\ queue \in [Runs -> Seq(Write)] /\ flag \in [Runs -> BOOLEAN] /\ writer \in {None} \cup Runs
  BY DEF TypeOK, Hands
<1>1. CASE Lifecycle
  <2>1. UNCHANGED <<queue, hand>> /\ \A n \in Runs : Pending(n)' = Pending(n)
    BY <1>1, OthersKeepPending DEF Lifecycle, InitializeBegins, AssignRaw, AssignCanonical,
       AssignGate, OpenStore, Probe, NewWriter, Import, ShutdownBegins, DrainBegins, JoinReturns,
       JoinTimesOut, ClosePool, ShutdownEnds
  <2>2. CASE UNCHANGED <<writer, abandoned, drains, flag>>
    BY <1>0, <2>1, <2>2 DEF Emptied, Joined
  <2>3. CASE NewWriter
    <3>1. UNCHANGED <<abandoned, drains, flag>> /\ \A n \in Runs : n # writer
      BY <2>3 DEF NewWriter, Handover, None, Runs
    <3> QED
      BY <1>0, <2>1, <3>1 DEF Emptied, Joined
  <2>4. CASE JoinReturns
    <3>1. UNCHANGED <<abandoned, drains, flag>> /\ Joined(writer) /\ writer \in drains
      BY <2>4 DEF JoinReturns, Stage
    <3>2. writer \notin abandoned => \A w \in Pending(writer) : w.late
      BY <3>1 DEF Emptied
    <3> QED
      BY <1>0, <2>1, <3>1, <3>2 DEF Emptied, Joined
  <2>5. CASE JoinTimesOut
    <3>1. abandoned' = abandoned \cup {writer} /\ UNCHANGED <<drains, flag>>
      BY <2>5 DEF JoinTimesOut
    <3> QED
      BY <1>0, <2>1, <3>1 DEF Emptied, Joined
  <2>6. CASE DrainBegins
    <3>1. /\ UNCHANGED writer /\ drains' = drains \cup ({writer} \ {None})
          /\ abandoned' = abandoned \cup {n \in {writer} \ {None} : hand[n] = Off /\ Left(n)}
      BY <2>6 DEF DrainBegins
    <3>2. \A n \in Runs : flag'[n] = IF n = writer /\ hand[n] # Off THEN TRUE ELSE flag[n]
      BY <2>6, Zenon DEF DrainBegins
    <3>3. ASSUME NEW n \in Runs, n = writer, n \notin abandoned', Joined(n)', NEW w \in Pending(n)'
          PROVE  w.late
      <4>1. hand[n] = Off
        BY <2>1, <3>2, <3>3 DEF Joined
      <4>2. ~Left(n)
        BY <3>1, <3>3, <4>1 DEF None, Runs
      <4>3. w \in Range(queue[n])
        BY <2>1, <3>3, <4>1 DEF Pending, Off
      <4> QED
        BY <4>2, <4>3 DEF Left, Range
    <3>4. ASSUME NEW n \in Runs, n # writer PROVE Joined(n)' <=> Joined(n)
      BY <2>1, <3>2, <3>4 DEF Joined
    <3>5. ASSUME NEW n \in drains', n \notin abandoned', Joined(n)', NEW w \in Pending(n)'
          PROVE  w.late
      <4>1. n \in Runs /\ (n = writer \/ n \in drains)
        BY <1>0, <3>1, <3>5
      <4>2. CASE n = writer
        BY <3>3, <3>5, <4>1, <4>2
      <4>3. CASE n # writer
        BY <2>1, <3>1, <3>4, <3>5, <4>1, <4>3 DEF Emptied
      <4> QED
        BY <4>2, <4>3
    <3>6. \A n \in Runs \ abandoned' : n # writer' => \A w \in Pending(n)' : w.late
      BY <2>1, <3>1 DEF Emptied
    <3>7. \A n \in Runs : \A w \in Pending(n)' : w.writer = n
      BY <2>1 DEF Emptied
    <3> QED
      BY <3>5, <3>6, <3>7 DEF Emptied
  <2>7. CASE ~NewWriter /\ ~JoinReturns /\ ~JoinTimesOut /\ ~DrainBegins
    <3>1. UNCHANGED <<writer, abandoned, drains, flag>>
      BY <1>1, <2>7 DEF Lifecycle, InitializeBegins, AssignRaw, AssignCanonical, AssignGate,
           OpenStore, Probe, Import, ShutdownBegins, ClosePool, ShutdownEnds
    <3> QED
      BY <2>2, <3>1
  <2> QED
    BY <2>3, <2>4, <2>5, <2>6, <2>7
<1>2. CASE HookPuts
  <2>1. UNCHANGED <<writer, abandoned, drains>> /\ hpc = "put"
    BY <1>2 DEF HookPuts
  <2>2. PICK c \in Runs, w \in Write :
          /\ c = call.writer /\ w.writer = c /\ (w.late <=> c \in drains)
          /\ Pending(c)' = Pending(c) \cup {w}
          /\ \A n \in Runs \ {c} : Pending(n)' = Pending(n)
    BY <1>2, PutPends
  <2>3. c # writer => w.late
    BY <2>1, <2>2 DEF Handover
  <2>4. EnsureThread(c)
    BY <1>2, <2>2 DEF HookPuts
  <2>5. \A n \in Runs : Joined(n)' => Joined(n)
    BY <2>4, Started DEF Joined, Off, Waiting
  <2>6. \A n \in Runs : \A v \in Pending(n)' : v.writer = n
    BY <2>2 DEF Emptied
  <2>7. \A n \in Runs \ abandoned' : n # writer' => \A v \in Pending(n)' : v.late
    BY <2>1, <2>2, <2>3 DEF Emptied
  <2>8. \A n \in drains' \ abandoned' : Joined(n)' => \A v \in Pending(n)' : v.late
    BY <1>0, <2>1, <2>2, <2>5 DEF Emptied
  <2> QED
    BY <2>6, <2>7, <2>8 DEF Emptied
<1>3. CASE HookRefused
  <2>1. UNCHANGED <<writer, abandoned, drains>> /\ call.writer \in Runs /\ EnsureThread(call.writer)
    BY <1>3 DEF HookRefused, Calls
  <2>2. \A n \in Runs : Joined(n)' => Joined(n)
    BY <2>1, Started DEF Joined, Off, Waiting
  <2>3. \A n \in Runs : Pending(n)' = Pending(n)
    BY <1>3, OthersKeepPending
  <2> QED
    BY <1>0, <2>1, <2>2, <2>3, EmptiedKept
<1>4. ASSUME NEW n \in Runs, Worker(n) PROVE Emptied'
  <2>1. UNCHANGED <<writer, drains, flag>>
    BY <1>4 DEF Worker, GetTimesOut, LooksAtFlag, Dies, Take, Load, Apply
  <2>2. \A m \in Runs : Pending(m)' \subseteq Pending(m)
    BY <1>4, WorkPends
  <2>3. abandoned \subseteq abandoned'
    BY <1>4 DEF Worker, GetTimesOut, LooksAtFlag, Dies, Take, Load, Apply
  <2>4. \A m \in Runs \ {n} : Joined(m)' <=> Joined(m)
    BY <1>4, <2>1, WorkHands DEF Joined
  <2>5. ASSUME n \in drains, n \notin abandoned', Joined(n)', NEW w \in Pending(n)'
        PROVE  Joined(n) \/ w.late
    <3>1. CASE LooksAtFlag(n) \/ Dies(n)
      <4>1. CASE hand'[n] = Off
        <5>1. ~Left(n) \/ ~flag[n]
          BY <2>5, <3>1 DEF LooksAtFlag, Dies
        <5>2. UNCHANGED queue
          BY <3>1 DEF LooksAtFlag, Dies
        <5>3. w \in Range(queue[n])
          BY <2>5, <4>1, <5>2 DEF Pending, Off
        <5> QED
          BY <5>1, <5>3 DEF Left, Range, Joined
      <4>2. CASE hand'[n] # Off
        BY <2>1, <2>5, <4>2 DEF Joined
      <4> QED
        BY <4>1, <4>2
    <3>2. CASE GetTimesOut(n) \/ Take(n) \/ Load(n) \/ Apply(n)
      <4>1. hand'[n] # Off
        BY <1>0, <3>2 DEF GetTimesOut, Take, Load, Apply, Drop, Off, Waiting, SawEmpty
      <4> QED
        BY <2>1, <2>5, <4>1 DEF Joined
    <3> QED
      BY <1>4, <3>1, <3>2 DEF Worker
  <2>6. \A m \in (drains \cap Runs) \ abandoned' : Joined(m)' =>
           Joined(m) \/ \A w \in Pending(m)' : w.late
    BY <2>4, <2>5
  <2> QED
    BY <1>0, <2>1, <2>2, <2>3, <2>6, EmptiedKept
<1>5. CASE \/ Recall \/ UNCHANGED vars \/ HookReadsSession \/ HookReadsWriter \/ Switch
           \/ \E given \in {NoName} \cup Sessions : HookBegins(given)
  <2>1. UNCHANGED <<writer, abandoned, drains, flag, queue, hand>>
    BY <1>5 DEF vars, Recall, RecallBegins, RecallFilters, RecallLoads, RecallFails, RecallAnswers,
         RecallReturns, HookBegins, HookReadsSession, HookReadsWriter, Switch, SwitchBegins,
         SwitchWrites
  <2> QED
    BY <2>1 DEF Emptied, Joined, Pending
<1> QED
  BY <1>1, <1>2, <1>3, <1>4, <1>5, Steps

-----------------------------------------------------------------------------
(* How the rows grow *)

LEMMA Appended ==
  ASSUME NEW S, NEW s \in Seq(S), NEW e \in S, NEW k \in DOMAIN Append(s, e)
  PROVE  /\ k \in Nat
         /\ \/ k \in DOMAIN s /\ Append(s, e)[k] = s[k] /\ k <= Len(s)
            \/ k = Len(s) + 1 /\ Append(s, e)[k] = e
OBVIOUS

LEMMA ImportRows ==
  ASSUME TypeOK, Stage, Lifecycle
  PROVE  /\ ops \in Nat /\ ops' \in Nat /\ ops <= ops'
         /\ \/ rows' = rows
            \/ \E w \in Write : w.id = 0 /\ rows' = Append(rows, w)
<1> USE LifecycleAssumption DEF attributes, machinery, lifecycle, threads, host, history
<1>1. ops \in Nat
  BY DEF TypeOK
<1>2. CASE Import
  <2> DEFINE row == [id |-> 0, identity |-> identity, session |-> NoName,
                     torn |-> FALSE, astray |-> FALSE, late |-> FALSE,
                       writer |-> inits]
  <2>1. \/ ops < MaxOps /\ ops' = ops + 1 /\ rows' = Append(rows, row)
        \/ UNCHANGED <<rows, ops>>
    BY <1>2 DEF Import
  <2>2. CASE UNCHANGED <<rows, ops>>
    BY <1>1, <2>2
  <2>3. CASE ops < MaxOps /\ ops' = ops + 1 /\ rows' = Append(rows, row)
    <3>1. inits \in Runs
      BY <1>2 DEF Import, Stage, TypeOK, Runs
    <3>2. row \in Write /\ row.id = 0
      BY <3>1 DEF Write, TypeOK
    <3> QED
      BY <1>1, <2>3, <3>2
  <2> QED
    BY <2>1, <2>2, <2>3
<1>3. CASE ~Import
  <2>1. UNCHANGED <<rows, ops>>
    BY <1>3 DEF Lifecycle, InitializeBegins, AssignRaw, AssignCanonical, AssignGate,
         OpenStore, Probe, NewWriter, ShutdownBegins, DrainBegins, JoinReturns, JoinTimesOut,
         ClosePool, ShutdownEnds
  <2> QED
    BY <1>1, <2>1
<1> QED
  BY <1>2, <1>3

LEMMA WorkRows ==
  ASSUME TypeOK, NEW n \in Runs, Worker(n)
  PROVE  \/ rows' = rows
         \/ /\ hand[n].stage = "apply" /\ hand[n].write \in Pending(n) /\ hand[n].write \in Write
            /\ rows' = Append(rows, hand[n].write)
            /\ queue' = queue /\ Pending(n)' = Range(queue[n])
<1>1. CASE GetTimesOut(n) \/ LooksAtFlag(n) \/ Dies(n) \/ Take(n) \/ Load(n)
  BY <1>1 DEF GetTimesOut, LooksAtFlag, Dies, Take, Load, host
<1>2. CASE Apply(n)
  <2>1. hand[n].stage = "apply" /\ rows' \in {rows, Append(rows, hand[n].write)} /\ queue' = queue
    BY <1>2 DEF Apply
  <2>2. hand'[n] = Waiting
    BY <1>2 DEF Apply, TypeOK
  <2>3. hand[n] \in Hands
    BY DEF TypeOK, Hands
  <2>4. hand[n].write \in Write
    BY <2>1, <2>3 DEF Hands, Off, Waiting, SawEmpty
  <2> QED
    BY <2>1, <2>2, <2>4 DEF Pending, Waiting
<1> QED
  BY <1>1, <1>2 DEF Worker

LEMMA RowsElsewhere ==
  ASSUME UNCHANGED vars \/ Hook \/ Switch \/ Recall, TypeOK
  PROVE  UNCHANGED rows /\ ops \in Nat /\ ops' \in Nat /\ ops <= ops'
<1> USE DEF vars, attributes, machinery, lifecycle, threads, host, history
<1>1. ops \in Nat
  BY LifecycleAssumption DEF TypeOK
<1>2. UNCHANGED rows /\ ops' \in {ops, ops + 1}
  <2>1. CASE UNCHANGED vars \/ Hook \/ Switch
    BY <2>1 DEF Hook, HookBegins, HookReadsSession, HookReadsWriter, HookPuts, HookRefused, Switch,
       SwitchBegins, SwitchWrites
  <2>2. CASE Recall
    BY <2>2 DEF Recall, RecallBegins, RecallFilters, RecallLoads, RecallFails, RecallAnswers,
       RecallReturns
  <2> QED
    BY <2>1, <2>2
<1> QED
  BY <1>1, <1>2

LEMMA SortedStep ==
  ASSUME TypeOK, Stage, Calls, Sorted, [Next]_vars
  PROVE  Sorted'
<1>1. /\ rows \in Seq(Write) /\ queue \in [Runs -> Seq(Write)] /\ hand \in [Runs -> Hands]
      /\ ops \in Nat
  BY LifecycleAssumption DEF TypeOK, Hands
<1>2. CASE Lifecycle
  <2>1. /\ UNCHANGED queue /\ \A n \in Runs : Pending(n)' = Pending(n)
        /\ \A n \in Runs : hand'[n].stage \in {"embed", "apply"} => hand'[n] = hand[n]
    BY <1>2, OthersKeepPending
  <2>2. ops' \in Nat /\ ops <= ops'
    BY <1>2, ImportRows
  <2>3. \A k \in DOMAIN rows' : rows'[k].id \in 0..ops'
    <3>1. CASE rows' = rows
      BY <1>1, <2>2, <3>1 DEF Sorted
    <3>2. ASSUME NEW w \in Write, w.id = 0, rows' = Append(rows, w)
          PROVE  \A k \in DOMAIN rows' : rows'[k].id \in 0..ops'
      BY <1>1, <2>2, <3>2, Appended DEF Sorted
    <3> QED
      BY <1>2, <3>1, <3>2, ImportRows
  <2>4. \A n \in Runs : \A w \in Pending(n)' : w.id \in 1..ops'
    BY <1>1, <2>1, <2>2 DEF Sorted
  <2> QED
    BY <2>1, <2>3, <2>4 DEF Sorted
<1>3. CASE HookPuts
  <2>1. UNCHANGED rows /\ ops' = ops + 1
    BY <1>3 DEF HookPuts
  <2>2. PICK c \in Runs, w \in Write :
          /\ w.id = ops + 1 /\ queue' = [queue EXCEPT ![c] = Append(@, w)]
          /\ Pending(c)' = Pending(c) \cup {w}
          /\ \A n \in Runs \ {c} : Pending(n)' = Pending(n)
    BY <1>3, PutPends
  <2>3. ASSUME NEW n \in Runs, NEW v \in Pending(n)' PROVE v.id \in 1..ops'
    <3>1. v \in Pending(n) \/ v = w
      BY <2>2
    <3> QED
      BY <1>1, <2>1, <2>2, <3>1 DEF Sorted
  <2>4. \A n \in Runs : /\ n = c => queue'[n] = Append(queue[n], w)
                       /\ n # c => queue'[n] = queue[n]
    BY <1>1, <2>2
  <2>5. \A n \in Runs : \A k \in DOMAIN queue[n] : queue[n][k].id <= ops
    BY <1>1 DEF Sorted, Pending, Range
  <2>6. \A n \in Runs : hand[n].stage \in {"embed", "apply"} => hand[n].write.id <= ops
    BY <1>1 DEF Sorted, Pending
  <2>9. \A n \in Runs : hand'[n].stage \in {"embed", "apply"} =>
           hand[n].stage \in {"embed", "apply"} /\ hand'[n] = hand[n]
    BY <1>3, StartPends DEF HookPuts, Calls
  <2>7. ASSUME NEW n \in Runs, NEW i \in DOMAIN queue'[n], NEW j \in DOMAIN queue'[n], i < j
        PROVE  queue'[n][i].id < queue'[n][j].id
    <3>1. queue[n] \in Seq(Write)
      BY <1>1
    <3>2. CASE n = c
      <4>1. \A k \in DOMAIN queue'[n] :
              /\ k \in Nat
              /\ \/ k \in DOMAIN queue[n] /\ queue'[n][k] = queue[n][k] /\ k <= Len(queue[n])
                 \/ k = Len(queue[n]) + 1 /\ queue'[n][k] = w
        BY <2>2, <2>4, <3>1, <3>2, Appended
      <4>2. i \in DOMAIN queue[n] /\ queue'[n][i] = queue[n][i]
        BY <2>7, <3>1, <4>1
      <4>3. CASE j \in DOMAIN queue[n] /\ queue'[n][j] = queue[n][j]
        BY <2>7, <4>2, <4>3 DEF Sorted
      <4>4. CASE queue'[n][j] = w
        <5>1. queue[n][i] \in Write
          BY <3>1, <4>2
        <5>2. queue[n][i].id \in Nat /\ queue[n][i].id <= ops
          BY <2>5, <4>2, <5>1 DEF Write
        <5> QED
          BY <1>1, <2>2, <4>2, <4>4, <5>2
      <4> QED
        BY <4>1, <4>3, <4>4
    <3>3. CASE n # c
      BY <2>4, <2>7, <3>3 DEF Sorted
    <3> QED
      BY <3>2, <3>3
  <2>8. ASSUME NEW n \in Runs, hand[n].stage \in {"embed", "apply"}, NEW k \in DOMAIN queue'[n]
        PROVE  hand[n].write.id < queue'[n][k].id
    <3>1. queue[n] \in Seq(Write)
      BY <1>1
    <3>2. CASE n = c
      <4>1. \/ k \in DOMAIN queue[n] /\ queue'[n][k] = queue[n][k]
            \/ queue'[n][k] = w
        BY <2>2, <2>4, <2>8, <3>1, <3>2, Appended
      <4>2. hand[n].write.id \in Nat
        <5>1. hand[n] \in Hands
          BY <1>1
        <5> QED
          BY <2>8, <5>1 DEF Hands, Off, Waiting, SawEmpty, Write
      <4> QED
        BY <1>1, <2>2, <2>6, <2>8, <4>1, <4>2 DEF Sorted
    <3>3. CASE n # c
      BY <2>4, <2>8, <3>3 DEF Sorted
    <3> QED
      BY <3>2, <3>3
  <2> QED
    BY <1>1, <2>1, <2>3, <2>7, <2>8, <2>9 DEF Sorted
<1>4. ASSUME NEW n \in Runs, Worker(n) PROVE Sorted'
  <2>1. ops' = ops
    BY <1>4 DEF Worker, GetTimesOut, LooksAtFlag, Dies, Take, Load, Apply, host
  <2>2. \A m \in Runs : \A v \in Pending(m)' : v.id \in 1..ops'
    BY <1>4, <2>1, WorkPends DEF Sorted
  <2>3. \A k \in DOMAIN rows' : rows'[k].id \in 0..ops'
    <3>1. CASE rows' = rows
      BY <2>1, <3>1 DEF Sorted
    <3>2. CASE hand[n].write \in Pending(n) \cap Write /\ rows' = Append(rows, hand[n].write)
      BY <1>1, <2>1, <3>2, Appended DEF Sorted
    <3> QED
      BY <1>4, <3>1, <3>2, WorkRows
  <2>4. queue[n] # <<>> =>
          /\ \A k \in DOMAIN Tail(queue[n]) :
               /\ k \in 1..Len(queue[n]) /\ k + 1 \in DOMAIN queue[n]
               /\ Tail(queue[n])[k] = queue[n][k + 1]
          /\ Head(queue[n]) = queue[n][1] /\ 1 \in DOMAIN queue[n]
    BY <1>1
  <2>5. /\ \A i, j \in DOMAIN queue'[n] : i < j => queue'[n][i].id < queue'[n][j].id
        /\ hand'[n].stage \in {"embed", "apply"} =>
             \A k \in DOMAIN queue'[n] : hand'[n].write.id < queue'[n][k].id
    <3>1. CASE queue' = queue /\ hand'[n] \in {Off, Waiting, SawEmpty}
      BY <3>1 DEF Sorted, Off, Waiting, SawEmpty
    <3>2. CASE queue' = queue /\ hand[n].stage = "embed" /\ hand'[n].write = hand[n].write
      BY <3>2 DEF Sorted
    <3>3. ASSUME queue[n] # <<>>, queue'[n] = Tail(queue[n]),
                 hand'[n] = Waiting \/ hand'[n].write = Head(queue[n])
          PROVE  /\ \A i, j \in DOMAIN queue'[n] : i < j => queue'[n][i].id < queue'[n][j].id
                 /\ hand'[n].stage \in {"embed", "apply"} =>
                      \A k \in DOMAIN queue'[n] : hand'[n].write.id < queue'[n][k].id
      <4>1. \A i, j \in DOMAIN queue'[n] : i < j => i + 1 < j + 1
        BY <2>4, <3>3
      <4>2. \A k \in DOMAIN queue'[n] : 1 < k + 1
        BY <2>4, <3>3
      <4> QED
        BY <2>4, <3>3, <4>1, <4>2 DEF Sorted, Waiting
    <3> QED
      BY <1>1, <1>4, <3>1, <3>2, <3>3, WorkHands
  <2> QED
    BY <1>4, <2>2, <2>3, <2>5, WorkPends DEF Sorted
<1>5. CASE \/ Recall \/ UNCHANGED vars \/ HookReadsSession \/ HookReadsWriter \/ Switch
           \/ HookRefused \/ \E given \in {NoName} \cup Sessions : HookBegins(given)
  <2>1. /\ UNCHANGED queue /\ \A n \in Runs : Pending(n)' = Pending(n)
        /\ \A n \in Runs : hand'[n].stage \in {"embed", "apply"} => hand'[n] = hand[n]
    BY <1>5, OthersKeepPending
  <2>2. UNCHANGED rows /\ ops' \in Nat /\ ops <= ops'
    BY <1>5, RowsElsewhere DEF Hook
  <2> QED
    BY <1>1, <2>1, <2>2 DEF Sorted
<1> QED
  BY <1>2, <1>3, <1>4, <1>5, Steps

-----------------------------------------------------------------------------
(* A regular write of the current writer stays the youngest but for those  *)
(* behind it: others are put only into an empty current writer's past.     *)
LEMMA YoungerStep ==
  ASSUME TypeOK, Stage, Calls, Numbers, Handover, Sorted, Younger, [Next]_vars
  PROVE  Younger'
<1>1. /\ rows \in Seq(Write) /\ queue \in [Runs -> Seq(Write)] /\ hand \in [Runs -> Hands]
      /\ ops \in Nat /\ writer \in {None} \cup Runs
  BY LifecycleAssumption DEF TypeOK, Hands
<1>2. CASE Lifecycle
  <2>1. UNCHANGED <<hpc, call>> /\ \A n \in Runs : Pending(n)' = Pending(n)
    BY <1>2, AttributesMove, OthersKeepPending
  <2>2. CASE NewWriter
    <3>1. writer' = inits /\ inits \in Runs /\ ~Given(inits)
      BY <2>2 DEF NewWriter, Numbers, Given, Stage, TypeOK, Runs
    <3>2. Pending(inits) = {}
      BY <3>1 DEF Numbers
    <3>3. \A n \in Runs : n = writer' => Pending(n)' = {}
      BY <2>1, <3>1, <3>2
    <3>4. writer' \in Runs
      BY <3>1
    <3> QED
      BY <3>3, <3>4 DEF Younger
  <2>3. CASE JoinReturns \/ JoinTimesOut
    BY <2>3 DEF JoinReturns, JoinTimesOut, Younger
  <2>4. CASE ~NewWriter /\ ~JoinReturns /\ ~JoinTimesOut
    <3>1. UNCHANGED writer
      BY <1>2, <2>4 DEF Lifecycle, InitializeBegins, AssignRaw, AssignCanonical, AssignGate,
           OpenStore, Probe, Import, ShutdownBegins, DrainBegins, ClosePool, ShutdownEnds,
           attributes, machinery
    <3> SUFFICES ASSUME writer # None PROVE Younger'
      BY <3>1 DEF Younger
    <3>2. \A w \in Pending(writer) : ~w.late => \A k \in DOMAIN rows' : rows'[k].id < w.id
      <4>1. CASE rows' = rows
        BY <4>1 DEF Younger
      <4>2. ASSUME NEW v \in Write, v.id = 0, rows' = Append(rows, v)
            PROVE  \A w \in Pending(writer) : ~w.late => \A k \in DOMAIN rows' : rows'[k].id < w.id
        BY <1>1, <4>2, Appended DEF Younger, Sorted
      <4> QED
        BY <1>2, <4>1, <4>2, ImportRows
    <3> QED
      BY <1>1, <2>1, <3>1, <3>2 DEF Younger
  <2> QED
    BY <2>2, <2>3, <2>4
<1>3. CASE HookPuts
  <2>1. UNCHANGED <<rows, writer>> /\ hpc = "put" /\ hpc' = "idle"
    BY <1>3 DEF HookPuts, machinery
  <2>2. PICK c \in Runs, w \in Write :
          /\ c = call.writer /\ w.id = ops + 1
          /\ Pending(c)' = Pending(c) \cup {w}
          /\ \A n \in Runs \ {c} : Pending(n)' = Pending(n)
    BY <1>3, PutPends
  <2> SUFFICES ASSUME writer \in Runs PROVE Younger'
    BY <1>1, <2>1 DEF Younger
  <2>3. CASE c = writer
    <3>1. ASSUME NEW v \in Pending(c)', ~v.late
          PROVE  /\ \A k \in DOMAIN rows : rows[k].id < v.id
                 /\ \A n \in Runs \ {c} : \A u \in Pending(n) : u.id < v.id
      <4>1. CASE v = w
        BY <1>1, <2>2, <4>1 DEF Sorted
      <4>2. CASE v \in Pending(writer)
        BY <2>3, <3>1, <4>2 DEF Younger, None, Runs
      <4> QED
        BY <2>2, <2>3, <3>1, <4>1, <4>2
    <3> QED
      BY <2>1, <2>2, <2>3, <3>1 DEF Younger
  <2>4. CASE c # writer
    <3>1. Pending(writer)' = {}
      BY <2>1, <2>2, <2>4 DEF Younger, None, Runs
    <3> QED
      BY <2>1, <3>1 DEF Younger
  <2> QED
    BY <2>3, <2>4
<1>4. ASSUME NEW n \in Runs, Worker(n) PROVE Younger'
  <2>1. UNCHANGED <<writer, hpc, call>>
    BY <1>4 DEF Worker, GetTimesOut, LooksAtFlag, Dies, Take, Load, Apply, machinery, host
  <2> SUFFICES ASSUME writer \in Runs, writer # None PROVE Younger'
    BY <1>1, <2>1 DEF Younger
  <2>2. \A m \in Runs : Pending(m)' \subseteq Pending(m)
    BY <1>4, WorkPends
  <2>3. ASSUME NEW w \in Pending(writer)', ~w.late, NEW k \in DOMAIN rows'
        PROVE  rows'[k].id < w.id
    <3>1. w \in Pending(writer)
      BY <2>1, <2>2, <2>3
    <3>2. CASE rows' = rows
      BY <2>3, <3>1, <3>2 DEF Younger
    <3>3. CASE /\ hand[n].stage = "apply" /\ hand[n].write \in Pending(n) /\ hand[n].write \in Write
               /\ rows' = Append(rows, hand[n].write)
               /\ queue' = queue /\ Pending(n)' = Range(queue[n])
      <4>1. hand[n].write.id < w.id
        <5>1. CASE n = writer
          <6>1. PICK i \in DOMAIN queue[n] : w = queue[n][i]
            BY <2>1, <2>3, <3>3, <5>1 DEF Range
          <6> QED
            BY <3>3, <6>1 DEF Sorted
        <5>2. CASE n # writer
          BY <2>3, <3>1, <3>3, <5>2 DEF Younger
        <5> QED
          BY <5>1, <5>2
      <4>2. rows'[k] = hand[n].write \/ (k \in DOMAIN rows /\ rows'[k] = rows[k])
        <5>1. k \in DOMAIN Append(rows, hand[n].write)
          BY <2>3, <3>3
        <5> QED
          BY <1>1, <3>3, <5>1, Appended
      <4> QED
        BY <2>3, <3>1, <4>1, <4>2 DEF Younger
    <3> QED
      BY <1>4, <3>2, <3>3, WorkRows
  <2> QED
    BY <2>1, <2>2, <2>3 DEF Younger
<1>5. CASE HookReadsWriter
  <2>1. /\ UNCHANGED <<rows, writer>> /\ (hpc' # "put" \/ call'.writer = writer')
    BY <1>5 DEF HookReadsWriter, machinery
  <2>2. \A n \in Runs : Pending(n)' = Pending(n)
    BY <1>5, OthersKeepPending
  <2> QED
    BY <1>1, <2>1, <2>2 DEF Younger
<1>6. CASE \/ Recall \/ UNCHANGED vars \/ HookReadsSession \/ Switch \/ HookRefused
           \/ \E given \in {NoName} \cup Sessions : HookBegins(given)
  <2>1. UNCHANGED <<rows, writer>> /\ (hpc' # "put" \/ UNCHANGED <<hpc, call>>)
    BY <1>6 DEF vars, Recall, RecallBegins, RecallFilters, RecallLoads, RecallFails, RecallAnswers,
         RecallReturns, HookBegins, HookReadsSession, HookRefused, Switch, SwitchBegins, SwitchWrites,
         machinery, host
  <2>2. \A n \in Runs : Pending(n)' = Pending(n)
    BY <1>6, OthersKeepPending
  <2> QED
    BY <1>1, <2>1, <2>2 DEF Younger
<1> QED
  BY <1>2, <1>3, <1>4, <1>5, <1>6, Steps

-----------------------------------------------------------------------------
(* What has been left behind stays so. *)
LEMMA AbandonedGrows ==
  ASSUME [Next]_vars
  PROVE  abandoned \subseteq abandoned'
<1> USE DEF vars, history
<1>1. CASE UNCHANGED vars \/ Hook \/ Switch \/ Recall
  BY <1>1 DEF Hook, HookBegins, HookReadsSession, HookReadsWriter, HookPuts, HookRefused, Switch,
     SwitchBegins, SwitchWrites, Recall, RecallBegins, RecallFilters, RecallLoads, RecallFails,
     RecallAnswers, RecallReturns
<1>2. CASE Lifecycle
  BY <1>2 DEF Lifecycle, InitializeBegins, AssignRaw, AssignCanonical, AssignGate, OpenStore,
     Probe, NewWriter, Import, ShutdownBegins, DrainBegins, JoinReturns, JoinTimesOut, ClosePool,
     ShutdownEnds
<1>3. ASSUME NEW n \in Runs, Worker(n) PROVE abandoned \subseteq abandoned'
  BY <1>3 DEF Worker, GetTimesOut, LooksAtFlag, Dies, Take, Load, Apply
<1> QED
  BY <1>1, <1>2, <1>3 DEF Next

(* A write is dropped for want of a store only when its writer was taken   *)
(* away, and then it is late or was left behind.                           *)
LEMMA StoredStep ==
  ASSUME TypeOK, Handover, Emptied, AcceptedWritesStored, [Next]_vars
  PROVE  AcceptedWritesStored'
<1>1. CASE unstored' = unstored
  BY <1>1, AbandonedGrows DEF AcceptedWritesStored
<1>2. ASSUME NEW n \in Runs, Take(n) \/ Load(n), unstored' # unstored PROVE AcceptedWritesStored'
  <2>1. /\ store = None /\ UNCHANGED abandoned
        /\ \/ queue[n] # <<>> /\ unstored' = unstored \cup {Head(queue[n])}
           \/ hand[n].stage = "embed" /\ unstored' = unstored \cup {hand[n].write}
    BY <1>2 DEF Take, Load, Drop
  <2>2. queue[n] # <<>> => Head(queue[n]) \in Pending(n)
    BY TakeFacts DEF Pending, Range
  <2>3. hand[n].stage = "embed" => hand[n].write \in Pending(n)
    BY DEF Pending
  <2>4. \A w \in Pending(n) : w.late \/ w.writer \in abandoned
    BY <2>1 DEF Handover, Emptied, None, Runs
  <2> QED
    BY <2>1, <2>2, <2>3, <2>4 DEF AcceptedWritesStored
<1>3. CASE ~(\E n \in Runs : Take(n) \/ Load(n))
  <2> USE DEF vars, history
  <2>1. ASSUME UNCHANGED vars \/ Hook \/ Switch \/ Recall PROVE unstored' = unstored
    BY <2>1 DEF Hook, HookBegins, HookReadsSession, HookReadsWriter, HookPuts, HookRefused, Switch,
       SwitchBegins, SwitchWrites, Recall, RecallBegins, RecallFilters, RecallLoads, RecallFails,
       RecallAnswers, RecallReturns
  <2>2. ASSUME Lifecycle PROVE unstored' = unstored
    BY <2>2 DEF Lifecycle, InitializeBegins, AssignRaw, AssignCanonical, AssignGate, OpenStore,
       Probe, NewWriter, Import, ShutdownBegins, DrainBegins, JoinReturns, JoinTimesOut, ClosePool,
       ShutdownEnds
  <2>3. ASSUME NEW n \in Runs, Worker(n) PROVE unstored' = unstored
    BY <1>3, <2>3 DEF Worker, GetTimesOut, LooksAtFlag, Dies, Apply
  <2>4. unstored' = unstored
    BY <2>1, <2>2, <2>3 DEF Next
  <2> QED
    BY <1>1, <2>4
<1> QED
  BY <1>1, <1>2, <1>3

(* A regular write comes after all rows that its predecessors left.        *)
LEMMA OrderStep ==
  ASSUME TypeOK, Stage, Emptied, Younger, AppliedInOrder, [Next]_vars
  PROVE  AppliedInOrder'
<1>1. rows \in Seq(Write)
  BY DEF TypeOK
<1>2. abandoned \subseteq abandoned'
  BY AbandonedGrows
<1>3. CASE rows' = rows
  BY <1>2, <1>3 DEF AppliedInOrder
<1>4. ASSUME NEW w \in Write, rows' = Append(rows, w),
             \/ w.id = 0 \/ w.late \/ w.writer \in abandoned
             \/ \A k \in DOMAIN rows : rows[k].id < w.id
      PROVE  AppliedInOrder'
  <2> SUFFICES ASSUME NEW j \in DOMAIN rows', NEW k \in DOMAIN rows',
                      j < k, 0 < rows'[k].id, rows'[k].id < rows'[j].id
               PROVE  rows'[k].late \/ rows'[k].writer \in abandoned'
    BY DEF AppliedInOrder
  <2>1. /\ j \in Nat /\ k \in Nat
        /\ \A i \in DOMAIN rows' :
             \/ i \in DOMAIN rows /\ rows'[i] = rows[i] /\ i <= Len(rows)
             \/ i = Len(rows) + 1 /\ rows'[i] = w
    BY <1>1, <1>4, Appended
  <2>2. j \in DOMAIN rows /\ rows'[j] = rows[j] /\ rows[j] \in Write
    BY <1>1, <2>1
  <2>3. CASE k \in DOMAIN rows /\ rows'[k] = rows[k]
    BY <1>2, <2>2, <2>3 DEF AppliedInOrder
  <2>4. CASE rows'[k] = w
    <3>1. ~(rows[j].id < w.id) /\ w.id # 0
      BY <2>2, <2>4 DEF Write
    <3> QED
      BY <1>2, <1>4, <2>2, <2>4, <3>1
  <2> QED
    BY <2>1, <2>3, <2>4
<1>5. CASE Lifecycle
  BY <1>3, <1>4, <1>5, ImportRows
<1>6. ASSUME NEW n \in Runs, Worker(n) PROVE AppliedInOrder'
  <2>1. CASE rows' = rows
    BY <1>3, <2>1
  <2>2. CASE /\ hand[n].write \in Pending(n) /\ hand[n].write \in Write
             /\ rows' = Append(rows, hand[n].write)
    <3>1. CASE n = writer
      <4>1. hand[n].write.late \/ \A k \in DOMAIN rows : rows[k].id < hand[n].write.id
        BY <2>2, <3>1 DEF Younger, None, Runs
      <4> QED
        BY <1>4, <2>2, <4>1
    <3>2. CASE n # writer
      <4>1. hand[n].write.late \/ hand[n].write.writer \in abandoned
        BY <2>2, <3>2 DEF Emptied
      <4> QED
        BY <1>4, <2>2, <4>1
    <3> QED
      BY <3>1, <3>2
  <2> QED
    BY <1>6, <2>1, <2>2, WorkRows
<1>7. CASE UNCHANGED vars \/ Hook \/ Switch \/ Recall
  BY <1>3, <1>7, RowsElsewhere
<1> QED
  BY <1>5, <1>6, <1>7 DEF Next

-----------------------------------------------------------------------------
(* Using a store opens no pool but the current one, and a closed one again. *)
LEMMA UseKeeps ==
  ASSUME TypeOK, NEW s \in Runs, s = store \/ Shut(s), pool' = Used(s), NEW n \in Runs
  PROVE  /\ (Shut(n)' <=> Shut(n))
         /\ (pool'[n] = "open" => (pool[n] = "open" \/ n = store))
         /\ (pool'[n] = "closed" => pool[n] = "closed")
         /\ (pool'[n] # pool[n] => n = s)
BY DEF TypeOK, Used, Shut

LEMMA PoolsStep ==
  ASSUME TypeOK, Stage, Calls, Gate, Numbers, Handover, Emptied, Pools, [Next]_vars
  PROVE  Pools'
<1> USE DEF attributes, machinery, lifecycle, threads, host, history
<1>1. /\ hand \in [Runs -> Hands] /\ pool \in [Runs -> {"none", "open", "closed", "reopened"}]
      /\ inits \in Nat /\ store \in {None} \cup Runs /\ None \notin Runs
      /\ \A n \in Runs : n \in Nat
  BY LifecycleAssumption DEF TypeOK, Hands, None, Runs
<1>2. \A n \in Runs : hand[n].stage = "apply" => hand[n].store \in Runs /\ hand[n].write \in Pending(n)
  BY <1>1 DEF Hands, Off, Waiting, SawEmpty, Pending
<1>3. CASE Lifecycle
  <2>1. UNCHANGED <<hpc, call, queue, hand>>
    BY <1>3 DEF Lifecycle, InitializeBegins, AssignRaw, AssignCanonical, AssignGate, OpenStore,
       Probe, NewWriter, Import, ShutdownBegins, DrainBegins, JoinReturns, JoinTimesOut, ClosePool,
       ShutdownEnds
  <2>2. ASSUME NEW r \in Requests, InitializeBegins(r) PROVE Pools'
    BY <1>1, <2>1, <2>2 DEF InitializeBegins, Pools, Shut, Given, Starting
  <2>3. CASE AssignRaw \/ AssignCanonical \/ AssignGate
    BY <1>1, <2>1, <2>3 DEF AssignRaw, AssignCanonical, AssignGate, Pools, Shut, Given, Starting
  <2>4. CASE OpenStore
    <3>1. store = None /\ store' = inits /\ ~Given(inits) /\ UNCHANGED <<pool, request, inits, abandoned>>
      BY <1>1, <2>4 DEF OpenStore, Handover, Numbers, Given
    <3>2. lpc = "open" /\ lpc' = "probe"
      BY <2>4 DEF OpenStore
    <3>3. \A n \in Runs : Shut(n)' = Shut(n) /\ Given(n)' = Given(n)
      BY <3>1, <3>2 DEF Shut, Given, Starting
    <3>4. store' # None => pool[store'] # "closed"
      <4>1. inits \in Runs
        BY <1>1, <3>2 DEF Stage, TypeOK, Runs
      <4> QED
        BY <1>1, <3>1, <4>1 DEF Pools, Shut
    <3> QED
      BY <1>1, <1>2, <2>1, <3>1, <3>2, <3>3, <3>4 DEF Pools
  <2>5. CASE Probe
    <3>1. /\ pool' = [pool EXCEPT ![store] = "open"] /\ UNCHANGED <<store, request, inits, abandoned>>
          /\ lpc = "probe" /\ lpc' = "writer"
      BY <2>5 DEF Probe
    <3>2. \A n \in Runs : n # store => (Shut(n)' <=> Shut(n))
      BY <1>1, <3>1 DEF Shut
    <3>3. \A n \in Runs : Given(n)' = Given(n)
      BY <3>1 DEF Given, Starting
    <3>4. \A n \in Runs : pool'[n] = IF n = store THEN "open" ELSE pool[n]
      BY <1>1, <3>1
    <3> QED
      BY <1>1, <1>2, <2>1, <3>1, <3>2, <3>3, <3>4 DEF Pools, Shut
  <2>6. CASE NewWriter \/ Import \/ ShutdownBegins \/ DrainBegins
    BY <1>1, <2>1, <2>6 DEF NewWriter, Import, ShutdownBegins, DrainBegins, Pools, Shut, Given, Starting
  <2>7. CASE JoinReturns \/ JoinTimesOut
    BY <1>1, <2>1, <2>7 DEF JoinReturns, JoinTimesOut, Pools, Shut, Given, Starting
  <2>8. CASE ClosePool
    <3>1. /\ pool' = IF store = None THEN pool ELSE [pool EXCEPT ![store] = "closed"]
          /\ UNCHANGED <<store, request, inits, abandoned>> /\ lpc = "close" /\ lpc' = "forget"
      BY <2>8 DEF ClosePool
    <3>2. \A n \in Runs : pool'[n] = IF n = store THEN "closed" ELSE pool[n]
      BY <1>1, <3>1
    <3>3. \A n \in Runs : Given(n)' = Given(n)
      BY <3>1 DEF Given, Starting
    <3>4. store # None => Given(store)
      BY <3>1 DEF Numbers
    <3> QED
      BY <1>1, <1>2, <2>1, <3>1, <3>2, <3>3, <3>4 DEF Pools, Shut
  <2>9. CASE ShutdownEnds
    <3>1. /\ store' = None /\ UNCHANGED <<pool, request, inits, abandoned>>
          /\ lpc = "forget" /\ lpc' \in {"idle", "open"}
      BY <2>9 DEF ShutdownEnds
    <3>2. \A n \in Runs : n # writer
      BY <1>1, <3>1 DEF Handover
    <3>3. \A n \in Runs : hand[n].stage = "apply" => hand[n].write.late \/ n \in abandoned
      BY <1>2, <3>2 DEF Emptied
    <3>4. \A n \in Runs : (Given(n)' <=> Given(n)) /\ (Shut(n)' <=> Shut(n))
      BY <3>1 DEF Given, Starting, Shut
    <3>5. store # None => Shut(store)
      BY <3>1 DEF Pools
    <3> QED
      BY <1>1, <1>2, <2>1, <3>1, <3>3, <3>4, <3>5 DEF Pools, Shut
  <2> QED
    BY <1>3, <2>2, <2>3, <2>4, <2>5, <2>6, <2>7, <2>8, <2>9 DEF Lifecycle
<1>4. CASE Hook \/ Switch \/ UNCHANGED vars
  <2>1. UNCHANGED <<pool, store, request, inits, abandoned, lpc>>
        /\ (hpc' # "search" \/ UNCHANGED <<hpc, call>>)
    BY <1>4 DEF vars, Hook, HookBegins, HookReadsSession, HookReadsWriter, HookPuts, HookRefused,
         Switch, SwitchBegins, SwitchWrites
  <2>2. \A n \in Runs : hand'[n].stage = "apply" => hand'[n] = hand[n]
    <3>1. CASE HookPuts
      BY <3>1, StartPends DEF HookPuts, Calls
    <3>2. CASE ~HookPuts
      BY <1>4, <3>2, OthersKeepPending DEF Hook
    <3> QED
      BY <3>1, <3>2
  <2> QED
    BY <2>1, <2>2 DEF Pools, Shut, Given, Starting
<1>5. CASE Recall
  <2>1. UNCHANGED <<store, request, inits, abandoned, lpc, hand>>
    BY <1>5 DEF Recall, RecallBegins, RecallFilters, RecallLoads, RecallFails, RecallAnswers, RecallReturns
  <2>2. CASE UNCHANGED pool /\ hpc' # "search"
    BY <2>1, <2>2 DEF Pools, Shut, Given, Starting
  <2>3. CASE RecallLoads /\ hpc' = "search"
    <3>1. UNCHANGED pool /\ store # None /\ call' = [call EXCEPT !.store = store] /\ hpc = "load"
      BY <2>3 DEF RecallLoads
    <3>2. call'.store = store
      BY <3>1 DEF Gate
    <3> QED
      BY <1>1, <2>1, <3>1, <3>2 DEF Pools, Shut, Given, Starting
  <2>4. CASE RecallFails \/ RecallAnswers
    <3>1. hpc = "search" /\ hpc' # "search" /\ pool' = Used(call.store)
      BY <2>4 DEF RecallFails, RecallAnswers
    <3>2. \A n \in Runs :
            /\ (Shut(n)' <=> Shut(n))
            /\ (pool'[n] = "open" => (pool[n] = "open" \/ n = store))
            /\ (pool'[n] = "closed" => pool[n] = "closed")
      BY <3>1, UseKeeps DEF Pools
    <3>3. \A n \in Runs : Given(n)' <=> Given(n)
      BY <2>1 DEF Given, Starting
    <3> QED
      BY <1>1, <1>2, <2>1, <3>1, <3>2, <3>3 DEF Pools
  <2> QED
    BY <1>5, <2>2, <2>3, <2>4 DEF Recall, RecallBegins, RecallFilters, RecallLoads, RecallReturns
<1>6. ASSUME NEW n \in Runs, Worker(n) PROVE Pools'
  <2>1. UNCHANGED <<store, request, inits, lpc, hpc, call>> /\ abandoned \subseteq abandoned'
    BY <1>6, AbandonedGrows DEF Worker, GetTimesOut, LooksAtFlag, Dies, Take, Load, Apply
  <2>2. \A m \in Runs \ {n} : hand'[m] = hand[m]
    BY <1>6, WorkPends
  <2>3. CASE GetTimesOut(n) \/ LooksAtFlag(n) \/ Dies(n) \/ Take(n) \/ Load(n)
    <3>1. UNCHANGED pool
      BY <2>3 DEF GetTimesOut, LooksAtFlag, Dies, Take, Load
    <3>2. hand'[n].stage = "apply" => hand'[n].store = store
      BY <1>6, WorkHands DEF Off, Waiting, SawEmpty
    <3> QED
      BY <2>1, <2>2, <3>1, <3>2 DEF Pools, Shut, Given, Starting
  <2>4. CASE Apply(n)
    <3>1. pool' = Used(hand[n].store) /\ hand[n].stage = "apply" /\ hand'[n].stage # "apply"
      BY <1>1, <2>4 DEF Apply, Waiting
    <3>2. \A m \in Runs :
            /\ (Shut(m)' <=> Shut(m))
            /\ (pool'[m] = "open" => (pool[m] = "open" \/ m = store))
            /\ (pool'[m] = "closed" => pool[m] = "closed")
      BY <1>2, <3>1, UseKeeps DEF Pools
    <3>3. \A m \in Runs : Given(m)' <=> Given(m)
      BY <2>1 DEF Given, Starting
    <3>4. \A m \in Runs : hand'[m].stage = "apply" => hand'[m] = hand[m]
      BY <2>2, <3>1
    <3>5. ASSUME hpc = "search" PROVE call.store = store \/ Shut(call.store)'
      <4>1. PICK s \in Runs : s = call.store
        BY <3>5 DEF Pools
      <4> QED
        BY <2>1, <3>2, <3>5, <4>1 DEF Pools, Shut
    <3> QED
      BY <1>1, <1>2, <2>1, <3>2, <3>3, <3>4, <3>5 DEF Pools
  <2> QED
    BY <1>6, <2>3, <2>4 DEF Worker
<1> QED
  BY <1>3, <1>4, <1>5, <1>6 DEF Next

-----------------------------------------------------------------------------
(* The properties of the handover                                          *)

(* A step keeps all that IInv and HInv say. *)
THEOREM HandoverInvariance == Spec => [](IInv /\ HInv)
<1>1. IInv /\ HInv /\ [Next]_vars => IInv'
  BY TypeStep, StageStep, CallsStep, WritesStep, GateStep, RecallGateStep DEF IInv
<1>2. IInv /\ HInv /\ [Next]_vars => HInv'
  BY NumbersStep, HandoverStep, EmptiedStep, SortedStep, YoungerStep, PoolsStep, StoredStep,
     OrderStep DEF IInv, HInv
<1> QED
  BY InitIInv, InitHInv, <1>1, <1>2, PTL DEF Spec

(* An accepted write is dropped for want of a store only if it came after  *)
(* the drain of its writer had begun, or that drain timed out or its       *)
(* thread left the write behind.                                           *)
THEOREM WritesStored == Spec => []AcceptedWritesStored
<1>1. HInv => AcceptedWritesStored
  BY DEF HInv
<1> QED
  BY HandoverInvariance, <1>1, PTL

(* Over any number of sessions, rows are committed in the order in which   *)
(* the host made the writes, but for late and abandoned ones.              *)
THEOREM WritesInOrder == Spec => []AppliedInOrder
<1>1. HInv => AppliedInOrder
  BY DEF HInv
<1> QED
  BY HandoverInvariance, <1>1, PTL

(* A pool is opened again only by a write or a recall that still holds it. *)
LEMMA ReopenedByHolder ==
  ASSUME TypeOK, Handover, Emptied, Pools, [Next]_vars,
         NEW n \in Runs, pool[n] = "closed", pool'[n] = "reopened"
  PROVE  \/ hpc = "search" /\ call.store = n
         \/ \E w \in Runs : /\ hand[w].stage = "apply" /\ hand[w].store = n /\ hand'[w] # hand[w]
                            /\ hand[w].write.late \/ w \in abandoned
<1>1. /\ hand \in [Runs -> Hands] /\ pool \in [Runs -> {"none", "open", "closed", "reopened"}]
      /\ None \notin Runs
  BY DEF TypeOK, Hands, None, Runs
<1>2. pool'[n] # pool[n]
  OBVIOUS
<1>3. CASE Recall
  <2>1. hpc = "search" /\ pool' = Used(call.store)
    BY <1>2, <1>3 DEF Recall, RecallBegins, RecallFilters, RecallLoads, RecallFails, RecallAnswers,
       RecallReturns, machinery
  <2> QED
    BY <1>1, <1>2, <2>1 DEF Used
<1>4. ASSUME NEW w \in Runs, Worker(w)
      PROVE  \E v \in Runs : /\ hand[v].stage = "apply" /\ hand[v].store = n /\ hand'[v] # hand[v]
                             /\ hand[v].write.late \/ v \in abandoned
  <2>1. /\ hand[w].stage = "apply" /\ pool' = Used(hand[w].store)
        /\ hand' = [hand EXCEPT ![w] = Waiting]
    BY <1>2, <1>4 DEF Worker, GetTimesOut, LooksAtFlag, Dies, Take, Load, Apply, machinery
  <2>2. hand[w].store = n /\ hand'[w] # hand[w]
    BY <1>1, <1>2, <2>1 DEF Used, Waiting
  <2>3. CASE n = store
    <3>1. writer = None
      BY <1>1, <2>3 DEF Pools, Handover
    <3>2. hand[w].write \in Pending(w)
      BY <2>1 DEF Pending
    <3> QED
      BY <1>1, <2>1, <2>2, <3>1, <3>2 DEF Emptied
  <2>4. CASE n # store
    BY <2>1, <2>2, <2>4 DEF Pools
  <2> QED
    BY <2>3, <2>4
<1>5. CASE UNCHANGED vars \/ Hook \/ Switch
  BY <1>2, <1>5 DEF vars, Hook, HookBegins, HookReadsSession, HookReadsWriter, HookPuts, HookRefused,
     Switch, SwitchBegins, SwitchWrites, machinery
<1>6. CASE Lifecycle
  BY <1>1, <1>6 DEF Lifecycle, InitializeBegins, AssignRaw, AssignCanonical, AssignGate, OpenStore,
     Probe, NewWriter, Import, ShutdownBegins, DrainBegins, JoinReturns, JoinTimesOut, ClosePool,
     ShutdownEnds, machinery
<1> QED
  BY <1>3, <1>4, <1>5, <1>6 DEF Next

(* No initialize() or shutdown() leaves the pool of a replaced store open, *)
(* and a closed pool is opened again only by a write or recall in flight.  *)
THEOREM PoolsClosed == Spec => PoolsStayClosed
<1>1. IInv /\ HInv /\ (IInv /\ HInv)' /\ [Next]_vars =>
        [\A n \in Runs :
           /\ pool'[n] = "open" => n = store'
           /\ pool[n] = "closed" /\ pool'[n] = "reopened" =>
                \/ hpc = "search" /\ call.store = n
                \/ \E w \in Runs : /\ hand[w].stage = "apply" /\ hand[w].store = n /\ hand'[w] # hand[w]
                                   /\ hand[w].write.late \/ w \in abandoned]_vars
  BY ReopenedByHolder DEF IInv, HInv, Pools
<1> QED
  BY HandoverInvariance, <1>1, PTL DEF Spec, PoolsStayClosed
=============================================================================
