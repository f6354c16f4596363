------------------------------- MODULE Prefetch -------------------------------
(***************************************************************************)
(* Background recall of the provider (src/hermes_pgvector/__init__.py):    *)
(* queue_prefetch() hands a request to one background worker, which caches *)
(* a block of recalled rows for the session's next prefetch().  Host       *)
(* threads call both while another moves the provider to a new theme with  *)
(* initialize() and shutdown().                                            *)
(*                                                                         *)
(* A step is a critical section of _prefetch_lock, or one unlocked read or *)
(* write of _agent_identity, _store and _healthy, which nothing protects.  *)
(***************************************************************************)
EXTENDS Integers, Sequences, SequencesExt

CONSTANTS Themes,       (* the agent identities a session may have          *)
          Sessions,     (* the session ids that key the cache               *)
          Hosts,        (* threads that call prefetch() and queue_prefetch() *)
          Workers,      (* the worker thread objects that may be created    *)
          NoTheme,      (* an empty block has no rows and no header         *)
          NoThread,     (* self._prefetch_thread before the first one       *)
          CacheCap,     (* _PREFETCH_CACHE_CAP                              *)
          StartMayFail, (* whether Thread.start() may raise                 *)
          MaxRequests,  (* bound on queue_prefetch() calls                  *)
          MaxInits,     (* bound on initialize() calls                      *)
          MaxShutdowns  (* bound on generations that shutdown() starts      *)

ASSUME PrefetchAssumption ==
  /\ NoTheme \notin Themes /\ NoThread \notin Workers
  /\ Hosts \cap Workers = {}
  /\ CacheCap \in Nat \ {0} /\ StartMayFail \in BOOLEAN
  /\ MaxRequests \in Nat /\ MaxInits \in Nat /\ MaxShutdowns \in Nat

Procs == Hosts \cup Workers

VARIABLES
  identity,   (* self._agent_identity                                       *)
  store,      (* that self._store is not None                               *)
  writer,     (* that self._writer is not None                              *)
  healthy,    (* self._healthy                                              *)
  gen,        (* self._prefetch_generation                                  *)
  pending,    (* self._prefetch_pending                                     *)
  thread,     (* self._prefetch_thread                                      *)
  cache,      (* self._prefetch_cache, least recently written entry first   *)
  pc,         (* where each host call and each worker is                    *)
  task,       (* the request it works on                                    *)
  block,      (* the block it has computed                                  *)
  lpc,        (* where the initialize() or shutdown() call is               *)
  reinit,     (* that shutdown() was called by initialize()                 *)
  requests,   (* history: queue_prefetch() calls made                       *)
  inits,      (* history: initialize() calls made                           *)
  served,     (* history: the last request prefetch() answered, by session  *)
  overlap,    (* history: host calls during which the theme was moving      *)
  raced,      (* history: a request was made inside shutdown()'s drain      *)
  stranded    (* history: the pending request was left to no worker         *)

provider  == <<identity, store, writer, healthy, lpc, reinit, inits>>
queued    == <<gen, pending, thread, cache>>
computing == <<task, block>>
history   == <<requests, served, overlap, raced, stranded>>
vars == <<provider, queued, pc, computing, history>>

(* Requests are numbered in the order in which they are made; 0 is no      *)
(* request, and the number of prefetch()'s own synchronous recall.         *)
NoRequest == [req |-> 0, session |-> "none", gen |-> 0]
EmptyBlock == [rows |-> NoTheme, header |-> NoTheme]

Alive(w) == w \in Workers /\ pc[w] \notin {"unborn", "dead"}

CacheHas(s) == \E i \in DOMAIN cache : cache[i].session = s
PlaceOf(s) == CHOOSE i \in DOMAIN cache : cache[i].session = s
CacheAt(s) == cache[PlaceOf(s)]
Without(s) == IF CacheHas(s) THEN RemoveAt(cache, PlaceOf(s)) ELSE cache

Init ==
  /\ identity \in Themes /\ store = FALSE /\ writer = FALSE /\ healthy = FALSE
  /\ gen = 0 /\ pending = NoRequest /\ thread = NoThread /\ cache = <<>>
  /\ pc = [p \in Procs |-> IF p \in Hosts THEN "idle" ELSE "unborn"]
  /\ task = [p \in Procs |-> NoRequest]
  /\ block = [p \in Procs |-> EmptyBlock]
  /\ lpc = "idle" /\ reinit = FALSE
  /\ requests = 0 /\ inits = 0 /\ served = [s \in Sessions |-> 0]
  /\ overlap = [h \in Hosts |-> FALSE] /\ raced = FALSE /\ stranded = FALSE

Goto(p, label) == pc' = [pc EXCEPT ![p] = label]

-----------------------------------------------------------------------------
(* queue_prefetch() *)

(* The gate is read without the lock: what it saw may be gone by the time  *)
(* the request is queued.                                                  *)
QueueGate(h) ==
  /\ pc[h] = "idle" /\ requests < MaxRequests
  /\ healthy /\ store
  /\ Goto(h, "queue")
  /\ UNCHANGED <<provider, queued, computing, history>>

(* The request as it is left for a worker, in the current generation.      *)
PutPending(h, s) ==
  /\ pc[h] = "queue"
  /\ requests' = requests + 1
  /\ pending' = [req |-> requests + 1, session |-> s, gen |-> gen]
  /\ raced' = (raced \/ lpc = "drain")
  /\ UNCHANGED <<provider, gen, cache, computing, served, overlap>>

(* A new worker thread object takes over; its start() may fail.            *)
SpawnWorker(h) ==
  LET unborn == {w \in Workers : pc[w] = "unborn"}
  IN  /\ unborn # {}
      /\ thread' = CHOOSE w \in unborn : TRUE
      /\ stranded' \in {FALSE, StartMayFail}
      /\ pc' = [pc EXCEPT ![h] = "idle",
                          ![thread'] = IF stranded' THEN "dead" ELSE "take"]

(* A variant that starts a worker for every request. *)
QueueRequest_NoAliveTest(h, s) == PutPending(h, s) /\ SpawnWorker(h)

QueueRequest(h, s) ==
  /\ PutPending(h, s)
  /\ \/ /\ Alive(thread)
        /\ stranded' = (pc[thread] = "stopping")
        /\ Goto(h, "idle")
        /\ UNCHANGED thread
     \/ ~Alive(thread) /\ SpawnWorker(h)

-----------------------------------------------------------------------------
(* _prefetch_worker_loop() *)

(* Take the newest request, or leave the loop: the thread is alive until   *)
(* the interpreter has torn it down.                                       *)
TakePending(w) ==
  /\ pc[w] = "take"
  /\ pending' = NoRequest
  /\ task' = [task EXCEPT ![w] = pending]
  /\ Goto(w, IF pending = NoRequest THEN "stopping" ELSE "store")
  /\ UNCHANGED <<provider, gen, thread, cache, block, history>>

WorkerEnds(w) ==
  /\ pc[w] = "stopping"
  /\ Goto(w, "dead")
  /\ UNCHANGED <<provider, queued, computing, history>>

(* The cache with the block of worker w as its most recent entry, trimmed. *)
Cached(w) ==
  LET s == task[w].session
      all == Append(Without(s), [session |-> s, req |-> task[w].req, gen |-> task[w].gen,
                                 rows |-> block[w].rows, header |-> block[w].header])
  IN  IF Len(all) > CacheCap THEN Tail(all) ELSE all

(* The end of one turn of the loop. *)
DropLocals(w, label) ==
  /\ task' = [task EXCEPT ![w] = NoRequest]
  /\ block' = [block EXCEPT ![w] = EmptyBlock]
  /\ Goto(w, label)

(* A variant that trims nothing. *)
CachePrefetch_NoTrim(w) ==
  /\ pc[w] = "cache"
  /\ cache' = IF task[w].gen # gen THEN cache
              ELSE Append(Without(task[w].session),
                          [session |-> task[w].session, req |-> task[w].req, gen |-> gen,
                           rows |-> block[w].rows, header |-> block[w].header])
  /\ DropLocals(w, "take")
  /\ UNCHANGED <<provider, gen, pending, thread, history>>

(* A variant without the generation test. *)
CachePrefetch_NoGeneration(w) ==
  /\ pc[w] = "cache"
  /\ cache' = Cached(w)
  /\ DropLocals(w, "take")
  /\ UNCHANGED <<provider, gen, pending, thread, history>>

(* A variant of the loop that serves one request per thread. *)
CachePrefetch_OneShot(w) ==
  /\ pc[w] = "cache"
  /\ cache' = IF task[w].gen = gen THEN Cached(w) ELSE cache
  /\ DropLocals(w, "stopping")
  /\ UNCHANGED <<provider, gen, pending, thread, history>>

(* _cache_prefetch(): an empty block, of a failed recall, is cached too.   *)
CachePrefetch(w) ==
  /\ pc[w] = "cache"
  /\ cache' = IF task[w].gen = gen THEN Cached(w) ELSE cache
  /\ DropLocals(w, "take")
  /\ UNCHANGED <<provider, gen, pending, thread, history>>

-----------------------------------------------------------------------------
(* _compute_prefetch_block(), by a worker or by prefetch() itself *)

ReturnTo(p) == IF p \in Hosts THEN "answered" ELSE "cache"

CaptureStore(p) ==
  /\ pc[p] = "store"
  /\ Goto(p, IF store THEN "search" ELSE ReturnTo(p))
  /\ UNCHANGED <<provider, queued, computing, history>>

(* After the embed call, the live identity scopes the search.  The store   *)
(* captured before it may have been closed meanwhile: _get_pool() opens    *)
(* its pool again, so it still finds rows.                                 *)
Search(p) ==
  /\ pc[p] = "search"
  /\ block' = [block EXCEPT ![p].rows = identity]
  /\ Goto(p, "header")
  /\ UNCHANGED <<provider, queued, task, history>>

(* The embed fails or eats the budget, the search fails, or finds nothing. *)
FindNothing(p) ==
  /\ pc[p] = "search"
  /\ Goto(p, ReturnTo(p))
  /\ UNCHANGED <<provider, queued, computing, history>>

(* The header reads the live identity a second time. *)
WriteHeader(p) ==
  /\ pc[p] = "header"
  /\ block' = [block EXCEPT ![p].header = identity]
  /\ Goto(p, ReturnTo(p))
  /\ UNCHANGED <<provider, queued, task, history>>

Compute(p) == CaptureStore(p) \/ Search(p) \/ FindNothing(p) \/ WriteHeader(p)

-----------------------------------------------------------------------------
(* prefetch() *)

PrefetchGate(h) ==
  /\ pc[h] = "idle"
  /\ healthy /\ store
  /\ overlap' = [overlap EXCEPT ![h] = lpc # "idle"]
  /\ Goto(h, "pop")
  /\ UNCHANGED <<provider, queued, computing, requests, served, raced, stranded>>

(* A variant that leaves the block in the cache. *)
PopCached_Keep(h, s) ==
  /\ pc[h] = "pop" /\ CacheHas(s)
  /\ block' = [block EXCEPT ![h] = [rows |-> CacheAt(s).rows, header |-> CacheAt(s).header]]
  /\ served' = [served EXCEPT ![s] = CacheAt(s).req]
  /\ Goto(h, "answered")
  /\ UNCHANGED <<provider, queued, task, requests, overlap, raced, stranded>>

PopCached(h, s) ==
  /\ pc[h] = "pop" /\ CacheHas(s)
  /\ cache' = Without(s)
  /\ block' = [block EXCEPT ![h] = [rows |-> CacheAt(s).rows, header |-> CacheAt(s).header]]
  /\ served' = [served EXCEPT ![s] = CacheAt(s).req]
  /\ Goto(h, "answered")
  /\ UNCHANGED <<provider, gen, pending, thread, task, requests, overlap, raced, stranded>>

(* Nothing cached: recall synchronously, unless the query is blank. *)
PopMissed(h, s) ==
  /\ pc[h] = "pop" /\ ~CacheHas(s)
  /\ \E label \in {"store", "answered"} : Goto(h, label)
  /\ UNCHANGED <<provider, queued, computing, history>>

Answered(h) ==
  /\ pc[h] = "answered"
  /\ block' = [block EXCEPT ![h] = EmptyBlock]
  /\ overlap' = [overlap EXCEPT ![h] = FALSE]
  /\ Goto(h, "idle")
  /\ UNCHANGED <<provider, queued, task, requests, served, raced, stranded>>

-----------------------------------------------------------------------------
(* shutdown() and initialize(), called one at a time *)

(* Drop the cache and start a new generation, first thing in shutdown().   *)
DropCache ==
  /\ cache' = <<>> /\ pending' = NoRequest
  /\ gen' = gen + 1 /\ lpc' = "drain"
  /\ stranded' = FALSE
  /\ UNCHANGED <<identity, store, writer, healthy, inits, thread, pc, computing,
                 requests, served, overlap, raced>>

Shutdown == lpc = "idle" /\ gen < MaxShutdowns /\ reinit' = FALSE /\ DropCache

(* The writer drained, the pool is closed; only then is healthy cleared.   *)
CloseStore ==
  /\ lpc = "drain"
  /\ writer' = FALSE /\ store' = FALSE /\ lpc' = "closed"
  /\ UNCHANGED <<identity, healthy, reinit, inits, queued, pc, computing, history>>

SetUnhealthy ==
  /\ lpc = "closed"
  /\ healthy' = FALSE /\ lpc' = IF reinit THEN "open" ELSE "idle"
  /\ UNCHANGED <<identity, store, writer, reinit, inits, queued, pc, computing, history>>

(* initialize() assigns the identity twice before anything else: the name  *)
(* that the host gave, then its canonical form.                            *)
SetRaw(theme) ==
  /\ lpc = "idle" /\ inits < MaxInits
  /\ identity' = theme /\ inits' = inits + 1 /\ lpc' = "canonical"
  /\ overlap' = [h \in Hosts |-> pc[h] # "idle"]
  /\ UNCHANGED <<store, writer, healthy, reinit, queued, pc, computing, requests, served, raced, stranded>>

SetCanonical(theme) ==
  /\ lpc = "canonical"
  /\ identity' = theme
  /\ lpc' = IF store \/ writer THEN "reinit" ELSE "open"
  /\ UNCHANGED <<store, writer, healthy, reinit, inits, queued, pc, computing, history>>

Reinit == lpc = "reinit" /\ reinit' = TRUE /\ DropCache

(* A new pool, or none if the constructor raised; a new writer either way. *)
OpenStore ==
  /\ lpc = "open"
  /\ store' \in BOOLEAN
  /\ writer' = ~store'
  /\ lpc' = IF store' THEN "check" ELSE "idle"
  /\ UNCHANGED <<identity, healthy, reinit, inits, queued, pc, computing, history>>

SetHealthy ==
  /\ lpc = "check"
  /\ healthy' \in BOOLEAN /\ writer' = TRUE /\ lpc' = "idle"
  /\ UNCHANGED <<identity, store, reinit, inits, queued, pc, computing, history>>

Lifecycle ==
  \/ Shutdown \/ CloseStore \/ SetUnhealthy
  \/ \E theme \in Themes : SetRaw(theme) \/ SetCanonical(theme)
  \/ Reinit \/ OpenStore \/ SetHealthy

-----------------------------------------------------------------------------
Worker(w) == TakePending(w) \/ Compute(w) \/ CachePrefetch(w) \/ WorkerEnds(w)

Host(h) ==
  \/ QueueGate(h) \/ PrefetchGate(h) \/ Compute(h) \/ Answered(h)
  \/ \E s \in Sessions : QueueRequest(h, s) \/ PopCached(h, s) \/ PopMissed(h, s)

Next ==
  \/ \E w \in Workers : Worker(w)
  \/ \E h \in Hosts : Host(h)
  \/ Lifecycle

Spec == Init /\ [][Next]_vars

(* The operating system schedules a live worker, whose embed and search    *)
(* calls have timeouts.  Nothing obliges the host to call anything.        *)
FairSpec == Spec /\ \A w \in Workers : WF_vars(Worker(w))

-----------------------------------------------------------------------------
Request == [req : Nat, session : Sessions \cup {"none"}, gen : Nat]
Entry == [session : Sessions, req : Nat, gen : Nat,
          rows : Themes \cup {NoTheme}, header : Themes \cup {NoTheme}]

(* Every variable has its type; the cache never outgrows its cap.          *)
TypeOK ==
  /\ identity \in Themes /\ store \in BOOLEAN /\ writer \in BOOLEAN /\ healthy \in BOOLEAN
  /\ gen \in Nat /\ pending \in Request /\ thread \in Workers \cup {NoThread}
  /\ cache \in Seq(Entry) /\ Len(cache) <= CacheCap
  /\ pc \in [Procs -> {"idle", "queue", "pop", "answered", "unborn", "take", "store",
                       "search", "header", "cache", "stopping", "dead"}]
  /\ task \in [Procs -> Request]
  /\ block \in [Procs -> [rows : Themes \cup {NoTheme}, header : Themes \cup {NoTheme}]]
  /\ lpc \in {"idle", "drain", "closed", "canonical", "reinit", "open", "check"} /\ reinit \in BOOLEAN
  /\ requests \in Nat /\ inits \in Nat /\ served \in [Sessions -> Nat]
  /\ overlap \in [Hosts -> BOOLEAN] /\ raced \in BOOLEAN /\ stranded \in BOOLEAN

(* queue_prefetch()'s docstring: at most one worker thread runs at a time. *)
OneWorker == \A v, w \in Workers : Alive(v) /\ Alive(w) => v = w

(* Each queued result is used at most once, and results are used in the    *)
(* order of their requests: what is cached for a session is newer than     *)
(* anything prefetch() already answered that session with from the cache   *)
(* (its own synchronous recalls are not numbered), so neither a second pop *)
(* nor a worker overtaken by a newer request brings old recall back.       *)
NoRecallReplayed == \A s \in Sessions : CacheHas(s) => CacheAt(s).req > served[s]

(* The comment in _prefetch_worker_loop(): never a cross-session or        *)
(* cross-theme leak.  What prefetch() answers, from the cache or by its    *)
(* own search, are rows of the provider's theme under a header that names  *)
(* it, if the theme did not move during that very call.                    *)
RecallIsOwn ==
  \A h \in Hosts :
    pc[h] = "answered" /\ ~overlap[h] => block[h] \in {EmptyBlock, [rows |-> identity, header |-> identity]}

(* What the code does guarantee of that: it holds unless a request was     *)
(* queued while shutdown() drained the writer, after the generation was    *)
(* bumped and before the store was closed.                                 *)
RecallIsOwnOutsideDrain == ~raced => RecallIsOwn

(* queue_prefetch()'s docstring: a request queued behind a worker in       *)
(* flight is picked up once it finishes (or is replaced, or dropped by     *)
(* shutdown()).                                                            *)
RequestServed == (pending # NoRequest) ~> (pending = NoRequest)

(* What the code does guarantee of that: a request is served unless it met *)
(* a worker that had already seen an empty slot, or a failing start().     *)
RequestServedOutsideExit == (pending # NoRequest /\ ~stranded) ~> (pending = NoRequest \/ stranded)
=============================================================================
