-------------------------- MODULE ProviderLifecycle --------------------------
(***************************************************************************)
(* One PgvectorMemoryProvider over several sessions: initialize() and      *)
(* shutdown() (src/hermes_pgvector/__init__.py) in one thread of the host, *)
(* write hooks, on_session_switch() and recall tools in another, and the   *)
(* drain threads of the successive AsyncWriters, which may outlive their   *)
(* sessions.  None of them takes a lock on the provider's attributes: a    *)
(* step is one read or write of them, or one database call.                *)
(*                                                                         *)
(* Of AsyncWriter's sentinel and the bound of its queue only the effect is *)
(* here: a thread need not go on, and a put may be refused.  Both tables   *)
(* are filtered alike by the recall tools; rows stands for either.         *)
(***************************************************************************)
EXTENDS Identity, SequencesExt

CONSTANTS Requests,  (* what the host may pass to initialize()              *)
          Sessions,  (* the session ids of the host                         *)
          ThemeBy,   (* the theme that each of them belongs to              *)
          OldRows,   (* rows of earlier processes                           *)
          Asked,     (* themes that a recall tool is asked for by name      *)
          MaxInits,  (* bound on initialize() calls                         *)
          MaxOps     (* bound on hooks, switches, recalls, imported rows    *)

ThemeOf(r) == NormalizeIdentity(Resolve(r))

(* A session is of one theme, in the rows that this process finds as well. *)
ASSUME LifecycleAssumption ==
  /\ MaxInits \in Nat /\ MaxOps \in Nat /\ Asked \subseteq Names
  /\ ThemeBy \in [Sessions -> Names] /\ NoName \notin Sessions
  /\ \A r \in Requests :
       /\ {r.gateway_session_key, r.agent_identity, r.agent_workspace} \subseteq Names
       /\ r.writes \in BOOLEAN /\ r.session \in Sessions /\ ThemeBy[r.session] = ThemeOf(r)
  /\ \A row \in OldRows :
       row.identity \in Names /\ (row.session \in Sessions => row.identity = ThemeBy[row.session])

VARIABLES
  session,   (* self._session_id                                            *)
  identity,  (* self._agent_identity                                        *)
  writes,    (* self._writes_enabled                                        *)
  healthy,   (* self._healthy                                               *)
  store,     (* self._store: the number of its initialize(), or None        *)
  writer,    (* self._writer, likewise                                      *)
  lpc,       (* the next step of initialize() or shutdown()                 *)
  request,   (* the arguments of the running initialize(), if it is one     *)
  inits,     (* initialize() calls so far                                   *)
  pool,      (* the connection pool of each store                           *)
  queue,     (* the accepted writes of each writer                          *)
  hand,      (* each writer's drain thread, and the write in its hands      *)
  flag,      (* each writer's _draining                                     *)
  hpc,       (* the next step of the host's hook or tool call               *)
  call,      (* the locals of that call                                     *)
  rows,      (* the rows, in order of commit                                *)
  ops,       (* history: writes, switches, recalls and rows imported        *)
  astray,    (* history: a switch that initialize() overtook wrote session  *)
  drains,    (* history: the writers whose drain has begun                  *)
  abandoned, (* history: the writers whose drain left accepted writes       *)
  unstored   (* history: writes dropped for want of a store                 *)

attributes == <<session, identity, writes, astray>>
machinery  == <<healthy, store, writer, pool>>
lifecycle  == <<lpc, request, inits>>
threads    == <<queue, hand, flag>>
host       == <<hpc, call, ops>>
history    == <<drains, abandoned, unstored>>
vars == <<attributes, machinery, lifecycle, threads, host, rows, history>>

None == 0
Runs == 1..MaxInits
Write == [id : Nat, identity : Names, session : {NoName} \cup Sessions, torn : BOOLEAN,
          astray : BOOLEAN, late : BOOLEAN, writer : Runs]
NoRequest == [session |-> NoName]
NoWrite == [id |-> 0]
NoCall == [op |-> "none"]

(* A drain thread that is not alive, waits in get(), or has seen it empty. *)
Off == [stage |-> "off", write |-> NoWrite, store |-> None]
Waiting == [stage |-> "get", write |-> NoWrite, store |-> None]
SawEmpty == [stage |-> "empty", write |-> NoWrite, store |-> None]

(* The accepted writes of writer n that are neither stored nor dropped. *)
Pending(n) ==
  Range(queue[n]) \cup (IF hand[n].stage \in {"embed", "apply"} THEN {hand[n].write} ELSE {})

(* While some of session, identity and writes are of the new session and   *)
(* others of the old one.                                                  *)
Torn == lpc \in {"raw", "canonical", "gate"}

(* A session of the provider's theme; who calls while the theme moves may  *)
(* mean any.                                                               *)
Known(s) == Torn \/ ThemeBy[s] = identity

Init ==
  /\ session = NoName /\ identity = Default /\ writes = TRUE /\ astray = FALSE
  /\ healthy = FALSE /\ store = None /\ writer = None /\ pool = [n \in Runs |-> "none"]
  /\ lpc = "idle" /\ request = NoRequest /\ inits = 0
  /\ queue = [n \in Runs |-> <<>>] /\ hand = [n \in Runs |-> Off] /\ flag = [n \in Runs |-> FALSE]
  /\ hpc = "idle" /\ call = NoCall /\ ops = 0
  /\ rows = <<>> /\ drains = {} /\ abandoned = {} /\ unstored = {}

-----------------------------------------------------------------------------
(* initialize() *)

InitializeBegins(r) ==
  /\ lpc = "idle" /\ inits < MaxInits
  /\ session' = r.session /\ astray' = FALSE /\ request' = r /\ inits' = inits + 1
  /\ lpc' = "raw"
  /\ UNCHANGED <<identity, writes, machinery, threads, host, rows, history>>

AssignRaw ==
  /\ lpc = "raw"
  /\ identity' = Resolve(request) /\ lpc' = "canonical"
  /\ UNCHANGED <<session, astray, writes, request, inits, machinery, threads, host, rows, history>>

(* A variant that folds the name and applies no policy to it. *)
AssignCanonical_FoldOnly ==
  /\ lpc = "canonical"
  /\ identity' = Fold[identity] /\ lpc' = "gate"
  /\ UNCHANGED <<session, astray, writes, request, inits, machinery, threads, host, rows, history>>

AssignCanonical ==
  /\ lpc = "canonical"
  /\ identity' = NormalizeIdentity(identity) /\ lpc' = "gate"
  /\ UNCHANGED <<session, astray, writes, request, inits, machinery, threads, host, rows, history>>

(* A variant without the guard against a second initialize(). *)
Teardown_Never == FALSE

(* A used instance is shut down first. *)
Teardown == store # None \/ writer # None

AssignGate ==
  /\ lpc = "gate"
  /\ writes' = request.writes
  /\ lpc' = IF Teardown THEN "drain" ELSE "open"
  /\ UNCHANGED <<session, astray, identity, request, inits, machinery, threads, host, rows, history>>

OpenStore ==
  /\ lpc = "open"
  /\ store' = inits /\ lpc' = "probe"
  /\ UNCHANGED <<attributes, healthy, writer, pool, request, inits, threads, host, rows, history>>

(* ensure_schema() and health() open the pool; the store is kept whatever  *)
(* they say.                                                               *)
Probe ==
  /\ lpc = "probe"
  /\ pool' = [pool EXCEPT ![store] = "open"]
  /\ healthy' \in BOOLEAN /\ lpc' = "writer"
  /\ UNCHANGED <<attributes, store, writer, request, inits, threads, host, rows, history>>

NewWriter ==
  /\ lpc = "writer"
  /\ writer' = inits
  /\ lpc' = IF healthy /\ writes THEN "import" ELSE "idle"
  /\ request' = IF lpc' = "idle" THEN NoRequest ELSE request
  /\ UNCHANGED <<attributes, healthy, store, pool, inits, threads, host, rows, history>>

(* The files may hold an entry that the table lacks. *)
Import ==
  /\ lpc = "import"
  /\ \/ rows' = rows /\ ops' = ops
     \/ /\ ops < MaxOps /\ ops' = ops + 1
        /\ rows' = Append(rows, [id |-> 0, identity |-> identity, session |-> NoName,
                                 torn |-> FALSE, astray |-> FALSE, late |-> FALSE,
                                 writer |-> inits])
  /\ lpc' = "idle" /\ request' = NoRequest
  /\ UNCHANGED <<attributes, machinery, inits, threads, hpc, call, history>>

-----------------------------------------------------------------------------
(* shutdown(), called by the host or by initialize() *)

ShutdownBegins ==
  /\ lpc = "idle" /\ Teardown
  /\ lpc' = "drain"
  /\ UNCHANGED <<attributes, machinery, request, inits, threads, host, rows, history>>

(* Writes accepted before the drain are on the queue. *)
Left(n) == \E k \in DOMAIN queue[n] : ~queue[n][k].late

(* A variant that closes the pool beside the drain. *)
DrainBegins_CloseFirst ==
  /\ lpc = "drain"
  /\ drains' = drains \cup ({writer} \ {None})
  /\ flag' = [n \in Runs |-> IF n = writer /\ hand[n] # Off THEN TRUE ELSE flag[n]]
  /\ lpc' = IF writer = None THEN "close" ELSE "join"
  /\ store' = None
  /\ pool' = IF store = None THEN pool ELSE [pool EXCEPT ![store] = "closed"]
  /\ UNCHANGED <<attributes, healthy, writer, request, inits, queue, hand, host, rows,
                 abandoned, unstored>>

(* AsyncWriter.shutdown() sets its flag for a thread that is alive; it     *)
(* leaves what it finds behind one that is not.                            *)
DrainBegins ==
  /\ lpc = "drain"
  /\ drains' = drains \cup ({writer} \ {None})
  /\ abandoned' = abandoned \cup {n \in {writer} \ {None} : hand[n] = Off /\ Left(n)}
  /\ flag' = [n \in Runs |-> IF n = writer /\ hand[n] # Off THEN TRUE ELSE flag[n]]
  /\ lpc' = IF writer = None THEN "close" ELSE "join"
  /\ UNCHANGED <<attributes, machinery, request, inits, queue, hand, host, rows, unstored>>

(* A variant that waits for an empty queue and forgets the write in hand. *)
Joined_QueueEmpty(n) == queue[n] = <<>>

(* The thread that the join waits for has ended, or there was none; one    *)
(* that a late put has started since runs with the flag cleared.           *)
Joined(n) == hand[n] = Off \/ ~flag[n]

JoinReturns ==
  /\ lpc = "join" /\ Joined(writer)
  /\ writer' = None /\ lpc' = "close"
  /\ UNCHANGED <<attributes, healthy, store, pool, request, inits, threads, host, rows, history>>

JoinTimesOut ==
  /\ lpc = "join" /\ ~Joined(writer)
  /\ abandoned' = abandoned \cup {writer} /\ writer' = None /\ lpc' = "close"
  /\ UNCHANGED <<attributes, healthy, store, pool, request, inits, threads, host, rows,
                 drains, unstored>>

ClosePool ==
  /\ lpc = "close"
  /\ pool' = IF store = None THEN pool ELSE [pool EXCEPT ![store] = "closed"]
  /\ lpc' = "forget"
  /\ UNCHANGED <<attributes, healthy, store, writer, request, inits, threads, host, rows, history>>

(* Whoever reads the health flag reads the store or the writer with it. *)
ShutdownEnds ==
  /\ lpc = "forget"
  /\ store' = None /\ healthy' = FALSE
  /\ lpc' = IF request = NoRequest THEN "idle" ELSE "open"
  /\ UNCHANGED <<attributes, writer, pool, request, inits, threads, host, rows, history>>

Lifecycle ==
  \/ \E r \in Requests : InitializeBegins(r)
  \/ AssignRaw \/ AssignCanonical \/ AssignGate \/ OpenStore \/ Probe \/ NewWriter \/ Import
  \/ ShutdownBegins \/ DrainBegins \/ JoinReturns \/ JoinTimesOut
  \/ ClosePool \/ ShutdownEnds

-----------------------------------------------------------------------------
(* A write hook, in the host's thread *)

(* What a call may have seen half of: an initialize() began during it, or  *)
(* was under way when it began.                                            *)
CallTorn == call.torn \/ call.born # inits

(* A variant without the gate of agent_context. *)
HookGate_NoContext == healthy /\ writer # None

HookGate == healthy /\ writer # None /\ writes

(* The host may name the session that the call is about.                   *)
HookBegins(given) ==
  /\ hpc = "idle" /\ ops < MaxOps /\ HookGate
  /\ given # NoName => Known(given)
  /\ call' = [op |-> "hook", born |-> inits, torn |-> Torn, given |-> given]
  /\ hpc' = "session"
  /\ UNCHANGED <<attributes, machinery, lifecycle, threads, ops, rows, history>>

(* Some hooks read the session last; only a torn call could tell.          *)
HookReadsSession ==
  /\ hpc = "session"
  /\ call' = [op |-> "hook", born |-> call.born, torn |-> call.torn,
              session |-> IF call.given = NoName THEN session ELSE call.given,
              astray |-> call.given = NoName /\ astray]
  /\ hpc' = "writer"
  /\ UNCHANGED <<attributes, machinery, lifecycle, threads, ops, rows, history>>

(* Without a writer the hook has nothing to call and drops the write.      *)
HookReadsWriter ==
  /\ hpc = "writer"
  /\ IF writer = None
     THEN hpc' = "idle" /\ call' = NoCall
     ELSE /\ hpc' = "put"
          /\ call' = [op |-> "hook", born |-> call.born, torn |-> call.torn, session |-> call.session,
                      astray |-> call.astray, writer |-> writer, identity |-> identity]
  /\ UNCHANGED <<attributes, machinery, lifecycle, threads, ops, rows, history>>

(* _ensure_thread(): a thread that is not alive is started, flag cleared.  *)
EnsureThread(n) ==
  /\ hand' = [hand EXCEPT ![n] = IF @ = Off THEN Waiting ELSE @]
  /\ flag' = [flag EXCEPT ![n] = IF hand[n] = Off THEN FALSE ELSE @]

HookPuts ==
  /\ hpc = "put" /\ EnsureThread(call.writer)
  /\ LET write == [id |-> ops + 1, identity |-> call.identity, session |-> call.session,
                   torn |-> CallTorn, astray |-> call.astray, late |-> call.writer \in drains,
                   writer |-> call.writer]
     IN  queue' = [queue EXCEPT ![call.writer] = Append(@, write)]
  /\ ops' = ops + 1 /\ hpc' = "idle" /\ call' = NoCall
  /\ UNCHANGED <<attributes, machinery, lifecycle, rows, history>>

(* The queue is full. *)
HookRefused ==
  /\ hpc = "put" /\ EnsureThread(call.writer)
  /\ ops' = ops + 1 /\ hpc' = "idle" /\ call' = NoCall
  /\ UNCHANGED <<attributes, machinery, lifecycle, queue, rows, history>>

Hook ==
  \/ \E given \in {NoName} \cup Sessions : HookBegins(given)
  \/ HookReadsSession \/ HookReadsWriter \/ HookPuts \/ HookRefused

-----------------------------------------------------------------------------
(* on_session_switch(), in the host's thread *)

(* The host rotates within the theme that the provider has at this moment. *)
SwitchBegins(s) ==
  /\ hpc = "idle" /\ ops < MaxOps /\ inits > 0 /\ Known(s)
  /\ call' = [op |-> "switch", born |-> inits, torn |-> Torn, session |-> s]
  /\ ops' = ops + 1 /\ hpc' = "switch"
  /\ UNCHANGED <<attributes, machinery, lifecycle, threads, rows, history>>

(* If an initialize() has come in between, the session is not its own.     *)
SwitchWrites ==
  /\ hpc = "switch"
  /\ session' = call.session /\ astray' = CallTorn
  /\ hpc' = "idle" /\ call' = NoCall
  /\ UNCHANGED <<identity, writes, machinery, lifecycle, threads, ops, rows, history>>

Switch == SwitchWrites \/ \E s \in Sessions : SwitchBegins(s)

-----------------------------------------------------------------------------
(* The drain thread of writer n *)

(* get() times out; only then the flag is looked at, and a write may have  *)
(* come in between.                                                        *)
GetTimesOut(n) ==
  /\ hand[n] = Waiting /\ queue[n] = <<>>
  /\ hand' = [hand EXCEPT ![n] = SawEmpty]
  /\ UNCHANGED <<attributes, machinery, lifecycle, queue, flag, host, rows, history>>

(* The thread goes on, or ends, with what has come in left on the queue.   *)
LooksAtFlag(n) ==
  /\ hand[n] = SawEmpty
  /\ hand' = [hand EXCEPT ![n] = IF flag[n] THEN Off ELSE Waiting]
  /\ abandoned' = IF flag[n] /\ Left(n) THEN abandoned \cup {n} ELSE abandoned
  /\ UNCHANGED <<attributes, machinery, lifecycle, queue, flag, host, rows, drains, unstored>>

(* What _run() does not catch in _worker() ends the thread.                *)
Dies(n) ==
  /\ hand[n].stage \in {"embed", "apply"}
  /\ hand' = [hand EXCEPT ![n] = Off]
  /\ abandoned' = IF n \in drains /\ Left(n) THEN abandoned \cup {n} ELSE abandoned
  /\ UNCHANGED <<attributes, machinery, lifecycle, queue, flag, host, rows, drains, unstored>>

Drop(n) ==
  /\ unstored' = unstored \cup {hand[n].write}
  /\ hand' = [hand EXCEPT ![n] = Waiting]

(* Without a store the worker returns at once. *)
Take(n) ==
  /\ hand[n] = Waiting /\ queue[n] # <<>>
  /\ queue' = [queue EXCEPT ![n] = Tail(@)]
  /\ IF store = None
     THEN unstored' = unstored \cup {Head(queue[n])} /\ hand' = hand
     ELSE unstored' = unstored
          /\ hand' = [hand EXCEPT ![n] = [stage |-> "embed", write |-> Head(queue[n]), store |-> None]]
  /\ UNCHANGED <<attributes, machinery, lifecycle, flag, host, rows, drains, abandoned>>

(* After the embedding self._store is read anew. *)
Load(n) ==
  /\ hand[n].stage = "embed"
  /\ IF store = None
     THEN Drop(n)
     ELSE /\ hand' = [hand EXCEPT ![n] = [stage |-> "apply", write |-> @.write, store |-> store]]
          /\ unstored' = unstored
  /\ UNCHANGED <<attributes, machinery, lifecycle, queue, flag, host, rows, drains, abandoned>>

(* _get_pool() of a store: a closed one opens again. *)
Used(s) == [pool EXCEPT ![s] = IF @ = "closed" THEN "reopened" ELSE IF @ = "none" THEN "open" ELSE @]

Apply(n) ==
  /\ hand[n].stage = "apply"
  /\ pool' = Used(hand[n].store)
  /\ rows' \in {rows, Append(rows, hand[n].write)}
  /\ hand' = [hand EXCEPT ![n] = Waiting]
  /\ UNCHANGED <<attributes, healthy, store, writer, lifecycle, queue, flag, host, history>>

Worker(n) == GetTimesOut(n) \/ LooksAtFlag(n) \/ Take(n) \/ Load(n) \/ Apply(n) \/ Dies(n)

-----------------------------------------------------------------------------
(* A recall tool, in the host's thread *)

(* A variant that lets a theme of groups or direct messages read the other. *)
Restricted_NotForSinks(theme) == IF theme \in Sinks THEN {} ELSE Sinks

Restricted(theme) == Sinks \ {theme}

Scopes == {"current", "all", "session"} \cup Asked

(* A named scope is folded, and refused when it is a sink of others.       *)
RecallBegins(tool, scope) ==
  /\ hpc = "idle" /\ ops < MaxOps /\ healthy /\ store # None
  /\ scope = "session" => tool = "conversation"
  /\ scope \in Asked => Fold[scope] \notin Restricted(identity)
  /\ call' = [op |-> "recall", born |-> inits, torn |-> Torn, scope |-> scope,
              theme |-> identity, restricted |-> Restricted(identity)]
  /\ ops' = ops + 1 /\ hpc' = "filter"
  /\ UNCHANGED <<attributes, machinery, lifecycle, threads, rows, history>>

(* The WHERE clause that the scope stands for. *)
Filter ==
  IF call.scope = "current" THEN [by |-> "theme", value |-> identity]
  ELSE IF call.scope = "session" /\ session # NoName THEN [by |-> "session", value |-> session]
  ELSE IF call.scope \in {"all", "session"} THEN [by |-> "others", value |-> call.restricted]
  ELSE [by |-> "theme", value |-> Fold[call.scope]]

RecallFilters ==
  /\ hpc = "filter"
  /\ call' = [op |-> "recall", theme |-> call.theme, filter |-> Filter,
              straddled |-> CallTorn \/ (Filter.by = "session" /\ astray),
              store |-> None, fallback |-> FALSE]
  /\ hpc' = "load"
  /\ UNCHANGED <<attributes, machinery, lifecycle, threads, ops, rows, history>>

(* After the embedding self._store is read anew; the call may also fail.   *)
RecallLoads ==
  /\ hpc = "load"
  /\ \/ hpc' = "idle" /\ call' = NoCall
     \/ store # None /\ hpc' = "search" /\ call' = [call EXCEPT !.store = store]
  /\ UNCHANGED <<attributes, machinery, lifecycle, threads, ops, rows, history>>

Passes(row, filter) ==
  CASE filter.by = "theme"   -> row.identity = filter.value
    [] filter.by = "session" -> row.session = filter.value
    [] filter.by = "others"  -> row.identity \notin filter.value

(* A hybrid query that fails is followed by a plain one, which reads       *)
(* self._store once more.                                                  *)
RecallFails ==
  /\ hpc = "search"
  /\ pool' = Used(call.store)
  /\ \/ hpc' = "idle" /\ call' = NoCall
     \/ ~call.fallback /\ hpc' = "load" /\ call' = [call EXCEPT !.store = None, !.fallback = TRUE]
  /\ UNCHANGED <<attributes, healthy, store, writer, lifecycle, threads, ops, rows, history>>

(* A query may return fewer rows, never others. *)
RecallAnswers ==
  /\ hpc = "search"
  /\ pool' = Used(call.store)
  /\ LET hits == {row \in Range(rows) \cup OldRows : Passes(row, call.filter)}
     IN  call' = [op |-> "recall", theme |-> call.theme, straddled |-> call.straddled,
                   answer |-> {row.identity : row \in hits}]
  /\ hpc' = "answered"
  /\ UNCHANGED <<attributes, healthy, store, writer, lifecycle, threads, ops, rows, history>>

RecallReturns ==
  /\ hpc = "answered" /\ hpc' = "idle" /\ call' = NoCall
  /\ UNCHANGED <<attributes, machinery, lifecycle, threads, ops, rows, history>>

Recall ==
  \/ \E tool \in {"memory", "conversation"}, scope \in Scopes : RecallBegins(tool, scope)
  \/ RecallFilters \/ RecallLoads \/ RecallFails \/ RecallAnswers \/ RecallReturns

Next == Lifecycle \/ Hook \/ Switch \/ Recall \/ \E n \in Runs : Worker(n)

Spec == Init /\ [][Next]_vars

-----------------------------------------------------------------------------
(* The variables keep their types; an initialized provider has a theme.    *)
TypeOK ==
  /\ session \in {NoName} \cup Sessions /\ astray \in BOOLEAN
  /\ identity \in Names \ {NoName} /\ writes \in BOOLEAN /\ healthy \in BOOLEAN
  /\ store \in {None} \cup Runs /\ writer \in {None} \cup Runs
  /\ lpc \in {"idle", "raw", "canonical", "gate", "drain", "join", "close", "forget", "open",
              "probe", "writer", "import"}
  /\ request \in {NoRequest} \cup Requests /\ inits \in 0..MaxInits
  /\ pool \in [Runs -> {"none", "open", "closed", "reopened"}]
  /\ queue \in [Runs -> Seq(Write)] /\ flag \in [Runs -> BOOLEAN]
  /\ hand \in [Runs -> {Off, Waiting, SawEmpty} \cup [stage : {"embed"}, write : Write, store : {None}]
                            \cup [stage : {"apply"}, write : Write, store : Runs]]
  /\ hpc \in {"idle", "session", "writer", "put", "switch", "filter", "load", "search", "answered"}
  /\ rows \in Seq(Write) /\ unstored \subseteq Write
  /\ drains \subseteq Runs /\ abandoned \subseteq Runs
  /\ ops \in 0..MaxOps + 1

(* No row is stored under a name that governance withholds (a private key, *)
(* a benchmark, a theme off the allow-list), whatever sources the host     *)
(* filled in and whatever the aliases say; a hook that overlaps the first  *)
(* half of initialize() is exempt, since self._agent_identity holds the    *)
(* raw name there (lines 653 to 678).                                      *)
IdentityGoverned == \A k \in DOMAIN rows : rows[k].torn \/ rows[k].identity \in Governed

(* The read gate: what a recall tool answers to a theme comes from no sink *)
(* but its own (lines 1711 to 1727), also when it filters by session alone *)
(* and the rows come from writers of earlier sessions or from before a     *)
(* rotation.  Calls that overlap the first half of initialize() are        *)
(* exempt, those that read a session which a switch wrote across an        *)
(* initialize(), and the rows of both: they may pair one theme with the    *)
(* session of another.                                                     *)
RecallGate ==
  hpc = "answered" /\ ~call.straddled /\ (\A k \in DOMAIN rows : ~rows[k].torn /\ ~rows[k].astray) =>
    call.answer \cap Sinks \subseteq {call.theme}

WritingThemes == {ThemeOf(r) : r \in {q \in Requests : q.writes}}

(* A row carries the theme of an initialize() whose agent_context may      *)
(* write, and a session of that very theme, be it the session of that      *)
(* call, one that the host has rotated to since, or one that it names.     *)
RowsAttributed ==
  \A k \in DOMAIN rows : ~rows[k].torn =>
    /\ rows[k].identity \in WritingThemes
    /\ \/ rows[k].astray \/ rows[k].session = NoName
       \/ ThemeBy[rows[k].session] = rows[k].identity

(* Writes are committed in the order in which the host made them, over the *)
(* change of writers in a second initialize() too; out of order comes only *)
(* a write put into a writer under drain, or one of a writer whose drain   *)
(* timed out (lines 797 to 811) or left it behind, the thread having died  *)
(* or seen the queue empty before it came (writer.py 114 and 178 to 183).  *)
AppliedInOrder ==
  \A j, k \in DOMAIN rows :
    j < k /\ 0 < rows[k].id /\ rows[k].id < rows[j].id =>
      rows[k].late \/ rows[k].writer \in abandoned

(* shutdown() drains before it closes: an accepted write finds a store,    *)
(* unless it came after the drain had begun or was left behind, as above.  *)
AcceptedWritesStored ==
  \A w \in unstored : w.late \/ w.writer \in abandoned

(* No initialize() or shutdown() leaves the pool of a replaced store open  *)
(* (the leak of lines 697 to 705); a closed pool is opened again only by a *)
(* late or abandoned write or by a recall that was under way at the close. *)
PoolsStayClosed ==
  [][\A n \in Runs :
       /\ pool'[n] = "open" => n = store'
       /\ pool[n] = "closed" /\ pool'[n] = "reopened" =>
            \/ hpc = "search" /\ call.store = n
            \/ \E w \in Runs : /\ hand[w].stage = "apply" /\ hand[w].store = n /\ hand'[w] # hand[w]
                               /\ hand[w].write.late \/ w \in abandoned]_vars
=============================================================================
