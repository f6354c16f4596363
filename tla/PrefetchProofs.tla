---------------------------- MODULE PrefetchProofs ----------------------------
(***************************************************************************)
(* Theorems about Prefetch, for any number of sessions, host threads,      *)
(* workers, requests and lifecycle calls: one worker, recall never         *)
(* replayed, and recall of the provider's own theme outside the drain.     *)
(***************************************************************************)
EXTENDS Prefetch, SequenceTheorems, TLAPS

(* A live worker is self._prefetch_thread. *)
Tracked == \A w \in Workers : Alive(w) => thread = w

(* A worker is busy with a request of a session until it has dropped it.   *)
Busy(w) == pc[w] \in {"store", "search", "header", "cache"}
Tasks ==
  /\ \A w \in Workers :
       IF Busy(w) THEN task[w].session \in Sessions /\ task[w].gen <= gen
                  ELSE pc[w] \in {"unborn", "take", "stopping", "dead"} /\ block[w] = EmptyBlock
  /\ pending # NoRequest => pending.session \in Sessions /\ pending.gen <= gen
  /\ \A h \in Hosts : pc[h] \notin {"unborn", "take", "cache", "stopping", "dead"}

(* The cache keeps one entry to a session. *)
OneEntry == \A i, j \in DOMAIN cache : cache[i].session = cache[j].session => i = j

(* Requests are numbered as they are made, and overtake none: answered,    *)
(* cached, in hand, pending.                                               *)
Numbered ==
  /\ pending # NoRequest => pending.req \in 1..requests
  /\ \A w \in Workers : Busy(w) =>
       /\ task[w].req \in 1..requests
       /\ pending # NoRequest => task[w].req < pending.req
       /\ \A i \in DOMAIN cache : cache[i].req < task[w].req
       /\ \A s \in Sessions : served[s] < task[w].req
  /\ \A i \in DOMAIN cache :
       /\ cache[i].req \in 1..requests
       /\ pending # NoRequest => cache[i].req < pending.req
       /\ served[cache[i].session] < cache[i].req
  /\ \A s \in Sessions :
       /\ served[s] \in 0..requests
       /\ pending # NoRequest => served[s] < pending.req

(* What a block may hold at a place of the computation. *)
Own == {EmptyBlock, [rows |-> identity, header |-> identity]}
SoFar(label) ==
  CASE label \in {"pop", "store", "search"} -> {EmptyBlock}
    [] label = "header" -> {[rows |-> identity, header |-> NoTheme]}
    [] OTHER -> Own
BlockAt(i) == [rows |-> cache[i].rows, header |-> cache[i].header]

(* A task of the current generation. *)
Current(w) == Busy(w) /\ task[w].gen = gen

(* Between the change of theme and the new generation the cache may be of  *)
(* the old theme, but then every answer under way has overlapped it.       *)
Fresh ==
  ~raced /\ lpc \notin {"canonical", "reinit"} =>
    /\ \A i \in DOMAIN cache : BlockAt(i) \in Own
    /\ \A w \in Workers : Current(w) => block[w] \in SoFar(pc[w])
Answers ==
  /\ \A h \in Hosts : pc[h] \notin {"idle", "queue"} /\ ~overlap[h] =>
       lpc \notin {"canonical", "reinit"} /\ (~raced => block[h] \in SoFar(pc[h]))
  /\ \A h \in Hosts : pc[h] \in {"idle", "queue"} => block[h] = EmptyBlock

(* In shutdown()'s drain nothing is of the current generation, and without *)
(* a store nothing of it has found any row.                                *)
Cleared ==
  ~raced /\ lpc = "drain" =>
    /\ pending = NoRequest /\ cache = <<>>
    /\ \A w \in Workers : ~Current(w)
Storeless ==
  /\ lpc \in {"closed", "open"} => store = FALSE
  /\ ~raced /\ store = FALSE =>
       /\ \A i \in DOMAIN cache : BlockAt(i) = EmptyBlock
       /\ \A w \in Workers : Current(w) => pc[w] \in {"store", "cache"} /\ block[w] = EmptyBlock
Owned == Fresh /\ Answers /\ Cleared /\ Storeless

(* A request that waits has a worker that will look at the slot again.     *)
Attended == pending # NoRequest /\ ~stranded => Alive(thread) /\ pc[thread] # "stopping"

IInv == TypeOK /\ Tracked /\ Tasks /\ OneEntry /\ Numbered /\ Owned /\ Attended

-----------------------------------------------------------------------------
(* What the operators on the cache return *)

(* Taking out the entry of a session leaves the others, in their order.    *)
LEMMA WithoutFacts ==
  ASSUME NEW s \in Sessions, cache \in Seq(Entry), OneEntry
  PROVE  /\ Without(s) \in Seq(Entry) /\ Len(Without(s)) <= Len(cache)
         /\ \A i \in DOMAIN Without(s) : \E k \in DOMAIN cache :
              Without(s)[i] = cache[k] /\ cache[k].session # s
         /\ \A i, j \in DOMAIN Without(s) :
              Without(s)[i].session = Without(s)[j].session => i = j
<1>1. CASE ~CacheHas(s)
  BY <1>1 DEF Without, CacheHas, OneEntry
<1>2. CASE CacheHas(s)
  <2> DEFINE p == PlaceOf(s)
             n == Len(cache)
             a == SubSeq(cache, 1, p - 1)
             b == SubSeq(cache, p + 1, n)
  <2>1. p \in DOMAIN cache /\ cache[p].session = s
    BY <1>2 DEF CacheHas, PlaceOf
  <2>2. DOMAIN cache = 1..n /\ n \in Nat /\ p \in 1..n
    BY <2>1
  <2> HIDE DEF p, n
  <2>3. /\ a \in Seq(Entry) /\ Len(a) = p - 1
        /\ \A i \in 1..(p - 1) : a[i] = cache[i]
    <3>1. \A i \in 1..(p - 1) : cache[i] \in Entry
      BY <2>2
    <3> QED
      BY <2>2, <3>1, SubSeqProperties
  <2>4. /\ b \in Seq(Entry) /\ Len(b) = n - p
        /\ \A i \in 1..(n - p) : b[i] = cache[p + i]
    <3>1. \A i \in (p + 1)..n : cache[i] \in Entry
      BY <2>2
    <3>2. /\ b \in Seq(Entry) /\ Len(b) = IF p + 1 <= n THEN n - (p + 1) + 1 ELSE 0
          /\ \A i \in 1..(n - (p + 1) + 1) : b[i] = cache[(p + 1) + i - 1]
      BY <2>2, <3>1, SubSeqProperties
    <3> HIDE DEF b
    <3>3. n - (p + 1) + 1 = n - p /\ \A i \in 1..(n - p) : (p + 1) + i - 1 = p + i
      BY <2>2
    <3> QED
      BY <2>2, <3>2, <3>3
  <2>5. Without(s) = a \o b
    BY <1>2 DEF Without, RemoveAt, p, n
  <2> HIDE DEF a, b
  <2>6. /\ Without(s) \in Seq(Entry) /\ Len(Without(s)) = n - 1
        /\ \A i \in 1..(n - 1) : Without(s)[i] = IF i < p THEN cache[i] ELSE cache[i + 1]
    <3>1. /\ a \o b \in Seq(Entry) /\ Len(a \o b) = Len(a) + Len(b)
          /\ \A i \in 1..(Len(a) + Len(b)) :
               (a \o b)[i] = IF i <= Len(a) THEN a[i] ELSE b[i - Len(a)]
      BY <2>3, <2>4, ConcatProperties
    <3>2. Len(a) + Len(b) = n - 1
      BY <2>2, <2>3, <2>4
    <3>3. ASSUME NEW i \in 1..(n - 1)
          PROVE  (a \o b)[i] = IF i < p THEN cache[i] ELSE cache[i + 1]
      <4>1. CASE i < p
        BY <2>2, <2>3, <3>1, <3>2, <4>1
      <4>2. CASE ~(i < p)
        <5>1. i - Len(a) \in 1..(n - p) /\ p + (i - Len(a)) = i + 1 /\ ~(i <= Len(a))
          BY <2>2, <2>3, <4>2
        <5> QED
          BY <2>4, <3>1, <3>2, <4>2, <5>1
      <4> QED
        BY <4>1, <4>2
    <3> QED
      BY <2>5, <3>1, <3>2, <3>3
  <2>7. DOMAIN Without(s) = 1..(n - 1)
    BY <2>6
  <2>8. ASSUME NEW i \in 1..(n - 1)
        PROVE  LET k == IF i < p THEN i ELSE i + 1
               IN  k \in DOMAIN cache /\ k # p /\ Without(s)[i] = cache[k]
    BY <2>2, <2>6
  <2>9. ASSUME NEW i \in 1..(n - 1) PROVE Without(s)[i].session # s
    BY <2>1, <2>8 DEF OneEntry
  <2>10. ASSUME NEW i \in 1..(n - 1), NEW j \in 1..(n - 1),
                Without(s)[i].session = Without(s)[j].session
         PROVE  i = j
    <3>1. (IF i < p THEN i ELSE i + 1) = (IF j < p THEN j ELSE j + 1)
      BY <2>8, <2>10 DEF OneEntry
    <3> QED
      BY <2>2, <3>1
  <2>11. Len(Without(s)) <= Len(cache)
    BY <2>2, <2>6 DEF n
  <2>12. ASSUME NEW i \in DOMAIN Without(s)
         PROVE  \E k \in DOMAIN cache : Without(s)[i] = cache[k] /\ cache[k].session # s
    BY <2>7, <2>8, <2>9
  <2> QED
    BY <2>6, <2>7, <2>10, <2>11, <2>12
<1> QED
  BY <1>1, <1>2

(* The entry that a worker caches replaces that of its session and may     *)
(* push out the oldest one.                                                *)
LEMMA CachedFacts ==
  ASSUME TypeOK, Tasks, OneEntry, NEW w \in Workers, Busy(w)
  PROVE  LET new == [session |-> task[w].session, req |-> task[w].req, gen |-> task[w].gen,
                     rows |-> block[w].rows, header |-> block[w].header]
         IN  /\ Cached(w) \in Seq(Entry) /\ Len(Cached(w)) <= CacheCap
             /\ \A i \in DOMAIN Cached(w) : Cached(w)[i] = new \/ \E k \in DOMAIN cache :
                  Cached(w)[i] = cache[k] /\ cache[k].session # task[w].session
             /\ \A i, j \in DOMAIN Cached(w) :
                  Cached(w)[i].session = Cached(w)[j].session => i = j
<1> DEFINE s == task[w].session
           new == [session |-> s, req |-> task[w].req, gen |-> task[w].gen,
                   rows |-> block[w].rows, header |-> block[w].header]
           old == Without(s)
           all == Append(old, new)
<1>1. s \in Sessions /\ new \in Entry
  BY DEF TypeOK, Tasks, Procs, Request, Entry
<1>2. /\ old \in Seq(Entry) /\ Len(old) <= CacheCap
      /\ \A i \in DOMAIN old : \E k \in DOMAIN cache : old[i] = cache[k] /\ cache[k].session # s
      /\ \A i, j \in DOMAIN old : old[i].session = old[j].session => i = j
  <2> HIDE DEF s
  <2>1. cache \in Seq(Entry) /\ Len(cache) <= CacheCap /\ CacheCap \in Nat
    BY PrefetchAssumption DEF TypeOK
  <2>2. /\ old \in Seq(Entry) /\ Len(old) <= Len(cache)
        /\ \A i \in DOMAIN old : \E k \in DOMAIN cache : old[i] = cache[k] /\ cache[k].session # s
        /\ \A i, j \in DOMAIN old : old[i].session = old[j].session => i = j
    BY <1>1, <2>1, WithoutFacts
  <2> HIDE DEF old
  <2> QED
    BY <2>1, <2>2
<1>3. new.session = s
  OBVIOUS
<1>4. Cached(w) = IF Len(all) > CacheCap THEN Tail(all) ELSE all
  BY DEF Cached
<1> HIDE DEF s, new, old
<1>5. /\ all \in Seq(Entry) /\ all # <<>> /\ Len(all) = Len(old) + 1 /\ DOMAIN all = 1..(Len(old) + 1)
      /\ \A i \in 1..Len(old) : i \in DOMAIN old /\ all[i] = old[i]
      /\ all[Len(old) + 1] = new
      /\ Len(old) \in Nat
  BY <1>1, <1>2
<1> HIDE DEF all
<1>6. \A i \in DOMAIN all :
        all[i] = new \/ \E k \in DOMAIN cache : all[i] = cache[k] /\ cache[k].session # s
  BY <1>2, <1>5
<1>7. ASSUME NEW i \in DOMAIN all, NEW j \in DOMAIN all, all[i].session = all[j].session PROVE i = j
  <2>1. \A k \in 1..Len(old) : all[k].session # s
    BY <1>2, <1>5
  <2> QED
    BY <1>2, <1>3, <1>5, <1>7, <2>1
<1>8. CASE Len(all) > CacheCap
  <2>1. /\ Cached(w) \in Seq(Entry) /\ Len(Cached(w)) = Len(old) /\ DOMAIN Cached(w) = 1..Len(old)
        /\ \A i \in 1..Len(old) : i + 1 \in DOMAIN all /\ Cached(w)[i] = all[i + 1]
    BY <1>4, <1>5, <1>8, HeadTailProperties
  <2>2. ASSUME NEW i \in DOMAIN Cached(w), NEW j \in DOMAIN Cached(w),
               Cached(w)[i].session = Cached(w)[j].session
        PROVE  i = j
    <3>1. i + 1 = j + 1
      BY <1>7, <2>1, <2>2
    <3> QED
      BY <2>1, <3>1
  <2> QED
    BY <1>2, <1>6, <2>1, <2>2 DEF new, s
<1>9. CASE ~(Len(all) > CacheCap)
  BY <1>4, <1>5, <1>6, <1>7, <1>9, PrefetchAssumption DEF new, s
<1> QED
  BY <1>8, <1>9

-----------------------------------------------------------------------------
LEMMA InitIInv == Init => IInv
<1> SUFFICES ASSUME Init PROVE IInv
  OBVIOUS
<1>1. \A w \in Workers : pc[w] = "unborn" /\ ~Alive(w) /\ ~Busy(w)
  BY PrefetchAssumption DEF Init, Procs, Alive, Busy
<1>2. \A h \in Hosts : pc[h] = "idle"
  BY DEF Init, Procs
<1>3. TypeOK
  <2>1. <<>> \in Seq(Entry) /\ Len(<<>>) = 0
    OBVIOUS
  <2>2. /\ NoRequest \in Request
        /\ EmptyBlock \in [rows : Themes \cup {NoTheme}, header : Themes \cup {NoTheme}]
    BY DEF NoRequest, EmptyBlock, Request
  <2>3. cache \in Seq(Entry) /\ Len(cache) <= CacheCap
    BY <2>1, PrefetchAssumption DEF Init
  <2> QED
    BY <2>2, <2>3 DEF Init, TypeOK
<1>4. Tracked /\ Tasks /\ OneEntry
  BY <1>1, <1>2 DEF Init, Tracked, Tasks, OneEntry, Procs
<1>5. Numbered
  <2>1. cache = <<>> /\ pending = NoRequest /\ requests = 0 /\ \A s \in Sessions : served[s] = 0
    BY DEF Init
  <2> QED
    BY <1>1, <2>1 DEF Numbered
<1>6. Owned
  <2>1. cache = <<>> /\ lpc = "idle" /\ \A p \in Procs : block[p] = EmptyBlock
    BY DEF Init
  <2>2. \A w \in Workers : ~Current(w)
    BY <1>1 DEF Current
  <2> QED
    BY <1>2, <2>1, <2>2 DEF Owned, Fresh, Answers, Cleared, Storeless, Procs
<1>7. Attended
  BY DEF Init, Attended
<1> QED
  BY <1>3, <1>4, <1>5, <1>6, <1>7 DEF IInv

(* The steps keep the types. *)
LEMMA TypeStep ==
  ASSUME TypeOK, Tasks, OneEntry, [Next]_vars
  PROVE  TypeOK'
<1> USE PrefetchAssumption DEF TypeOK, provider, queued, computing, history, Goto
<1>1. NoRequest \in Request /\ EmptyBlock \in [rows : Themes \cup {NoTheme}, header : Themes \cup {NoTheme}]
  BY DEF NoRequest, EmptyBlock, Request
<1>2. CASE Lifecycle
  <2>1. CASE Shutdown \/ Reinit
    <3>1. cache' = <<>> /\ pending' = NoRequest /\ gen' = gen + 1 /\ lpc' = "drain"
      BY <2>1 DEF Shutdown, Reinit, DropCache
    <3>2. /\ UNCHANGED <<identity, store, writer, healthy, inits, thread, pc, task, block,
                         requests, served, overlap, raced>>
          /\ stranded' \in BOOLEAN /\ reinit' \in BOOLEAN
      BY <2>1, Zenon DEF Shutdown, Reinit, DropCache
    <3>3. <<>> \in Seq(Entry) /\ Len(<<>>) = 0
      OBVIOUS
    <3> QED
      BY <1>1, <3>1, <3>2, <3>3
  <2>2. CASE CloseStore
    BY <2>2 DEF CloseStore
  <2>5. CASE OpenStore
    <3>1. writer' \in BOOLEAN
      BY <2>5, Zenon DEF OpenStore
    <3> QED
      BY <2>5, <3>1 DEF OpenStore
  <2>4. CASE SetUnhealthy \/ SetHealthy
    BY <2>4 DEF SetUnhealthy, SetHealthy
  <2>3. ASSUME NEW theme \in Themes, SetRaw(theme) PROVE TypeOK'
    <3>1. overlap' \in [Hosts -> BOOLEAN]
      <4>1. \A h \in Hosts : (pc[h] # "idle") \in BOOLEAN
        OBVIOUS
      <4> QED
        BY <2>3, <4>1, Zenon DEF SetRaw
    <3> QED
      BY <2>3, <3>1 DEF SetRaw
  <2>6. ASSUME NEW theme \in Themes, SetCanonical(theme) PROVE TypeOK'
    <3>1. lpc' \in {"reinit", "open"}
      BY <2>6, Zenon DEF SetCanonical
    <3> QED
      BY <2>6, <3>1 DEF SetCanonical
  <2> QED
    BY <1>2, <2>1, <2>2, <2>3, <2>4, <2>5, <2>6 DEF Lifecycle
<1>3. ASSUME NEW p \in Procs, Compute(p) PROVE TypeOK'
  <2>1. CASE CaptureStore(p)
    BY <2>1 DEF CaptureStore, ReturnTo
  <2>2. CASE Search(p)
    BY <2>2 DEF Search
  <2>3. CASE FindNothing(p)
    BY <2>3 DEF FindNothing, ReturnTo
  <2>4. CASE WriteHeader(p)
    BY <2>4 DEF WriteHeader, ReturnTo
  <2> QED
    BY <1>3, <2>1, <2>2, <2>3, <2>4 DEF Compute
<1>4. ASSUME NEW w \in Workers, Worker(w) PROVE TypeOK'
  <2> w \in Procs
    BY DEF Procs
  <2>1. CASE TakePending(w)
    BY <1>1, <2>1 DEF TakePending
  <2>2. CASE CachePrefetch(w)
    <3>1. /\ pc' \in [Procs -> {"idle", "queue", "pop", "answered", "unborn", "take", "store",
                                "search", "header", "cache", "stopping", "dead"}]
          /\ task' \in [Procs -> Request]
          /\ block' \in [Procs -> [rows : Themes \cup {NoTheme}, header : Themes \cup {NoTheme}]]
      BY <1>1, <2>2 DEF CachePrefetch, DropLocals
    <3>2. cache' \in Seq(Entry) /\ Len(cache') <= CacheCap
      BY <2>2, CachedFacts DEF CachePrefetch, Busy
    <3> QED
      BY <2>2, <3>1, <3>2 DEF CachePrefetch
  <2>3. CASE WorkerEnds(w)
    BY <2>3 DEF WorkerEnds
  <2> QED
    BY <1>3, <1>4, <2>1, <2>2, <2>3 DEF Worker
<1>5. ASSUME NEW h \in Hosts, Host(h) PROVE TypeOK'
  <2> h \in Procs
    BY DEF Procs
  <2>1. CASE QueueGate(h) \/ PrefetchGate(h)
    BY <2>1 DEF QueueGate, PrefetchGate
  <2>2. ASSUME NEW s \in Sessions, QueueRequest(h, s) PROVE TypeOK'
    <3>1. /\ pending' \in Request /\ requests' \in Nat /\ raced' \in BOOLEAN
          /\ UNCHANGED <<provider, gen, cache, computing, served, overlap>>
      BY <2>2 DEF QueueRequest, PutPending, Request
    <3>2. /\ thread' \in Workers \cup {NoThread} /\ stranded' \in BOOLEAN
          /\ pc' \in [Procs -> {"idle", "queue", "pop", "answered", "unborn", "take", "store",
                                "search", "header", "cache", "stopping", "dead"}]
      BY <2>2 DEF QueueRequest, SpawnWorker
    <3> QED
      BY <3>1, <3>2
  <2>3. ASSUME NEW s \in Sessions, PopCached(h, s) PROVE TypeOK'
    <3>1. PlaceOf(s) \in DOMAIN cache
      BY <2>3 DEF PopCached, CacheHas, PlaceOf
    <3>2. CacheAt(s) \in Entry
      BY <3>1 DEF CacheAt
    <3>3. cache' \in Seq(Entry) /\ Len(cache') <= CacheCap
      <4>1. cache' = Without(s)
        BY <2>3 DEF PopCached
      <4>2. Without(s) \in Seq(Entry) /\ Len(Without(s)) <= Len(cache)
        BY WithoutFacts
      <4> QED
        BY <4>1, <4>2
    <3> QED
      BY <2>3, <3>2, <3>3 DEF PopCached, Entry
  <2>4. ASSUME NEW s \in Sessions, PopMissed(h, s) PROVE TypeOK'
    BY <2>4 DEF PopMissed
  <2>5. CASE Answered(h)
    BY <1>1, <2>5 DEF Answered
  <2> QED
    BY <1>3, <1>5, <2>1, <2>2, <2>3, <2>4, <2>5 DEF Host
<1>6. CASE UNCHANGED vars
  BY <1>6 DEF vars
<1> QED
  BY <1>2, <1>4, <1>5, <1>6 DEF Next

(* A worker is started only when self._prefetch_thread is not alive. *)
LEMMA TrackedStep ==
  ASSUME TypeOK, Tracked, [Next]_vars
  PROVE  Tracked'
<1> USE PrefetchAssumption DEF Goto
<1> SUFFICES ASSUME NEW w \in Workers, Alive(w)' PROVE thread' = w
  BY DEF Tracked
<1>1. pc \in [Procs -> {"idle", "queue", "pop", "answered", "unborn", "take", "store",
                        "search", "header", "cache", "stopping", "dead"}]
      /\ w \in Procs /\ Hosts \subseteq Procs
  BY DEF TypeOK, Procs
<1>2. pc'[w] \notin {"unborn", "dead"}
  BY DEF Alive
<1>3. ASSUME NEW h \in Hosts, NEW s \in Sessions, QueueRequest(h, s) PROVE thread' = w
  <2>1. CASE Alive(thread) /\ UNCHANGED thread /\ Goto(h, "idle")
    BY <1>1, <1>2, <2>1 DEF Tracked, Alive
  <2>2. CASE ~Alive(thread) /\ SpawnWorker(h)
    BY <1>1, <1>2, <2>2 DEF Tracked, Alive, SpawnWorker
  <2> QED
    BY <1>3, <2>1, <2>2 DEF QueueRequest
<1>4. CASE thread' = thread /\ pc'[w] = pc[w]
  BY <1>2, <1>4 DEF Tracked, Alive
<1>5. ASSUME NEW v \in Workers, Worker(v) PROVE thread' = w
  <2>1. thread' = thread /\ (v # w => pc'[w] = pc[w]) /\ pc[v] \notin {"unborn", "dead"}
    BY <1>1, <1>5 DEF Worker, TakePending, Compute, CaptureStore, Search, FindNothing, WriteHeader,
       CachePrefetch, DropLocals, WorkerEnds, queued
  <2> QED
    BY <1>4, <2>1 DEF Tracked, Alive
<1>6. ASSUME NEW h \in Hosts, Host(h), \A s \in Sessions : ~QueueRequest(h, s)
      PROVE  thread' = thread /\ pc'[w] = pc[w]
  BY <1>1, <1>6 DEF Host, QueueGate, PrefetchGate, Compute, CaptureStore, Search, FindNothing,
     WriteHeader, Answered, PopCached, PopMissed, queued
<1>7. CASE Lifecycle \/ UNCHANGED vars
  BY <1>4, <1>7 DEF Lifecycle, Shutdown, Reinit, DropCache, CloseStore, SetUnhealthy, SetRaw, SetCanonical,
     OpenStore, SetHealthy, vars, queued
<1> QED
  BY <1>3, <1>4, <1>5, <1>6, <1>7 DEF Next

(* What the lifecycle calls and the gates leave alone. *)
LEMMA Bystanders ==
  ASSUME TypeOK, Lifecycle \/ UNCHANGED vars \/ \E h \in Hosts : QueueGate(h) \/ PrefetchGate(h)
  PROVE  /\ UNCHANGED <<task, block, requests, served, raced>>
         /\ \A w \in Workers : pc'[w] = pc[w]
         /\ \/ pending' = pending /\ cache' = cache /\ gen' = gen
            \/ pending' = NoRequest /\ cache' = <<>> /\ gen' = gen + 1
<1> USE DEF provider, queued, computing, history
<1>1. CASE Lifecycle
  <2>1. CASE Shutdown \/ Reinit
    BY <2>1 DEF Shutdown, Reinit, DropCache
  <2>2. CASE CloseStore \/ SetUnhealthy
    BY <2>2 DEF CloseStore, SetUnhealthy
  <2>3. CASE OpenStore \/ SetHealthy \/ \E theme \in Themes : SetRaw(theme) \/ SetCanonical(theme)
    BY <2>3 DEF OpenStore, SetHealthy, SetRaw, SetCanonical
  <2> QED
    BY <1>1, <2>1, <2>2, <2>3 DEF Lifecycle
<1>2. ASSUME NEW h \in Hosts, QueueGate(h) \/ PrefetchGate(h)
      PROVE  /\ UNCHANGED <<task, block, requests, served, raced, pending, cache, gen>>
             /\ \A w \in Workers : pc'[w] = pc[w]
  <2>1. \A w \in Workers : w \in Procs /\ w # h
    BY PrefetchAssumption DEF Procs
  <2> QED
    BY <1>2, <2>1 DEF QueueGate, PrefetchGate, Goto, TypeOK
<1>3. CASE UNCHANGED vars
  BY <1>3 DEF vars
<1> QED
  BY <1>1, <1>2, <1>3

(* A computation stays with its process and changes its block alone. *)
LEMMA ComputeFrame ==
  ASSUME TypeOK, NEW p \in Procs, Compute(p)
  PROVE  /\ UNCHANGED <<provider, queued, task, history>>
         /\ pc[p] \in {"store", "search", "header"}
         /\ pc'[p] \in {"search", "header", ReturnTo(p)}
         /\ \A q \in Procs \ {p} : pc'[q] = pc[q] /\ block'[q] = block[q]
BY DEF TypeOK, Compute, CaptureStore, Search, FindNothing, WriteHeader, Goto, queued, computing

(* A request is put by one host, which may start the next worker. *)
LEMMA QueueFrame ==
  ASSUME TypeOK, NEW h \in Hosts, NEW s \in Sessions, QueueRequest(h, s)
  PROVE  /\ UNCHANGED <<provider, gen, cache, computing, served, overlap>>
         /\ requests' = requests + 1
         /\ pending' = [req |-> requests + 1, session |-> s, gen |-> gen]
         /\ pc[h] = "queue" /\ pc'[h] = "idle" /\ \A g \in Hosts \ {h} : pc'[g] = pc[g]
         /\ \A w \in Workers :
              pc'[w] = pc[w] \/ (pc[w] = "unborn" /\ pc'[w] \in {"take", "dead"})
<1>1. pc \in [Procs -> {"idle", "queue", "pop", "answered", "unborn", "take", "store",
                        "search", "header", "cache", "stopping", "dead"}]
      /\ Hosts \subseteq Procs /\ Workers \subseteq Procs /\ Hosts \cap Workers = {}
  BY PrefetchAssumption DEF TypeOK, Procs
<1>2. PutPending(h, s)
  BY DEF QueueRequest
<1>3. CASE Goto(h, "idle")
  BY <1>1, <1>2, <1>3 DEF PutPending, Goto
<1>4. CASE SpawnWorker(h)
  <2>1. thread' \in Workers /\ pc[thread'] = "unborn"
    BY <1>4 DEF SpawnWorker
  <2>2. pc' = [pc EXCEPT ![h] = "idle", ![thread'] = IF stranded' THEN "dead" ELSE "take"]
    BY <1>4 DEF SpawnWorker
  <2> QED
    BY <1>1, <1>2, <2>1, <2>2 DEF PutPending
<1> QED
  BY <1>3, <1>4 DEF QueueRequest

LEMMA TasksStep ==
  ASSUME TypeOK, Tasks, [Next]_vars
  PROVE  Tasks'
<1>1. /\ pc \in [Procs -> {"idle", "queue", "pop", "answered", "unborn", "take", "store",
                           "search", "header", "cache", "stopping", "dead"}]
      /\ task \in [Procs -> Request] /\ gen \in Nat
      /\ block \in [Procs -> [rows : Themes \cup {NoTheme}, header : Themes \cup {NoTheme}]]
      /\ Hosts \subseteq Procs /\ Workers \subseteq Procs /\ Hosts \cap Workers = {}
  BY PrefetchAssumption DEF TypeOK, Procs
<1>2. CASE Lifecycle \/ UNCHANGED vars
  <2>1. UNCHANGED pc
    BY <1>2 DEF Lifecycle, Shutdown, Reinit, DropCache, CloseStore, SetUnhealthy,
       SetRaw, SetCanonical, OpenStore, SetHealthy, vars
  <2> QED
    BY <1>1, <1>2, <2>1, Bystanders DEF Tasks, Busy, Request
<1>3. ASSUME NEW p \in Procs, Compute(p) PROVE Tasks'
  <2>1. CASE p \in Hosts
    <3>1. pc'[p] \in {"search", "header", "answered"}
      BY <1>3, <2>1, ComputeFrame DEF ReturnTo
    <3> QED
      BY <1>1, <1>3, <2>1, <3>1, ComputeFrame DEF Tasks, Busy, queued
  <2>2. CASE p \in Workers
    <3>1. pc'[p] \in {"search", "header", "cache"}
      BY <1>1, <1>3, <2>2, ComputeFrame DEF ReturnTo
    <3> QED
      BY <1>1, <1>3, <2>2, <3>1, ComputeFrame DEF Tasks, Busy, queued
  <2> QED
    BY <2>1, <2>2 DEF Procs
<1>4. ASSUME NEW w \in Workers, Worker(w) PROVE Tasks'
  <2>1. CASE TakePending(w)
    BY <1>1, <2>1 DEF TakePending, Tasks, Busy, Goto
  <2>2. CASE CachePrefetch(w)
    BY <1>1, <2>2 DEF CachePrefetch, DropLocals, Tasks, Busy, Goto
  <2>3. CASE WorkerEnds(w)
    BY <1>1, <2>3 DEF WorkerEnds, Tasks, Busy, Goto, queued, computing
  <2> QED
    BY <1>1, <1>3, <1>4, <2>1, <2>2, <2>3 DEF Worker
<1>5. ASSUME NEW h \in Hosts, Host(h) PROVE Tasks'
  <2>1. CASE QueueGate(h) \/ PrefetchGate(h)
    <3>1. pc'[h] \in {"queue", "pop"} /\ \A g \in Hosts \ {h} : pc'[g] = pc[g]
      BY <1>1, <2>1 DEF QueueGate, PrefetchGate, Goto
    <3>2. UNCHANGED <<task, block, pending, gen>> /\ \A w \in Workers : pc'[w] = pc[w]
      BY <1>1, <2>1 DEF QueueGate, PrefetchGate, Goto, queued, computing
    <3> QED
      BY <1>1, <3>1, <3>2 DEF Tasks, Busy
  <2>2. ASSUME NEW s \in Sessions, QueueRequest(h, s) PROVE Tasks'
    BY <1>1, <2>2, QueueFrame DEF Tasks, Busy, computing
  <2>3. ASSUME NEW s \in Sessions, PopCached(h, s) \/ PopMissed(h, s) PROVE Tasks'
    BY <1>1, <2>3 DEF PopCached, PopMissed, Tasks, Busy, Goto, queued, computing
  <2>4. CASE Answered(h)
    BY <1>1, <2>4 DEF Answered, Tasks, Busy, Goto, queued
  <2> QED
    BY <1>1, <1>3, <1>5, <2>1, <2>2, <2>3, <2>4 DEF Host
<1> QED
  BY <1>2, <1>4, <1>5 DEF Next

LEMMA OneEntryStep ==
  ASSUME TypeOK, Tasks, OneEntry, [Next]_vars
  PROVE  OneEntry'
<1>1. CASE cache' = cache \/ cache' = <<>>
  BY <1>1 DEF OneEntry
<1>2. ASSUME NEW w \in Workers, CachePrefetch(w) PROVE OneEntry'
  <2>1. CASE cache' = Cached(w)
    BY <1>2, <2>1, CachedFacts DEF CachePrefetch, Busy, OneEntry
  <2> QED
    BY <1>1, <1>2, <2>1 DEF CachePrefetch
<1>3. ASSUME NEW h \in Hosts, NEW s \in Sessions, PopCached(h, s) PROVE OneEntry'
  <2>1. cache' = Without(s) /\ cache \in Seq(Entry)
    BY <1>3 DEF PopCached, TypeOK
  <2> QED
    BY <2>1, WithoutFacts DEF OneEntry
<1>4. CASE Lifecycle \/ UNCHANGED vars
  BY <1>1, <1>4, Bystanders
<1>5. ASSUME NEW p \in Procs, Compute(p) PROVE OneEntry'
  BY <1>1, <1>5, ComputeFrame DEF queued
<1>6. ASSUME NEW w \in Workers, Worker(w), ~CachePrefetch(w) PROVE OneEntry'
  BY <1>1, <1>5, <1>6 DEF Worker, TakePending, WorkerEnds, queued, Procs
<1>7. ASSUME NEW h \in Hosts, Host(h), \A s \in Sessions : ~PopCached(h, s) PROVE OneEntry'
  BY <1>1, <1>5, <1>7 DEF Host, QueueGate, PrefetchGate, QueueRequest, PutPending, PopMissed,
     Answered, queued, Procs
<1> QED
  BY <1>2, <1>3, <1>4, <1>6, <1>7 DEF Next

(* A request is answered, cached, in hand or pending in the order of its   *)
(* number, because only one worker is at work.                             *)
LEMMA NumberedStep ==
  ASSUME TypeOK, Tracked, Tasks, OneEntry, Numbered, [Next]_vars
  PROVE  Numbered'
<1>1. /\ pc \in [Procs -> {"idle", "queue", "pop", "answered", "unborn", "take", "store",
                           "search", "header", "cache", "stopping", "dead"}]
      /\ task \in [Procs -> Request] /\ requests \in Nat /\ served \in [Sessions -> Nat]
      /\ cache \in Seq(Entry) /\ pending.req \in Nat
      /\ \A p \in Procs : task[p].req \in Nat
      /\ \A i \in DOMAIN cache : cache[i] \in Entry /\ cache[i].req \in Nat /\ cache[i].session \in Sessions
      /\ Hosts \subseteq Procs /\ Workers \subseteq Procs /\ Hosts \cap Workers = {}
  <2>1. \A i \in DOMAIN cache : cache[i] \in Entry
    BY DEF TypeOK
  <2> QED
    BY <2>1, PrefetchAssumption DEF TypeOK, Procs, Request, Entry
(* What leaves the tasks, the requests and the answers alone. *)
<1>2. ASSUME /\ UNCHANGED <<task, requests, served>>
             /\ pending' \in {pending, NoRequest} /\ cache' \in {cache, <<>>}
             /\ \A w \in Workers : Busy(w)' => Busy(w)
      PROVE  Numbered'
  BY <1>1, <1>2 DEF Numbered
<1>3. CASE Lifecycle \/ UNCHANGED vars
  BY <1>2, <1>3, Bystanders DEF Busy
<1>4. ASSUME NEW p \in Procs, Compute(p) PROVE Numbered'
  <2>1. \A w \in Workers : Busy(w)' => Busy(w)
    BY <1>1, <1>4, ComputeFrame DEF Busy
  <2> QED
    BY <1>2, <1>4, <2>1, ComputeFrame DEF queued, history
<1>5. ASSUME NEW w \in Workers, Worker(w) PROVE Numbered'
  <2>1. CASE TakePending(w)
    <3>1. /\ pending' = NoRequest /\ task'[w] = pending /\ pc[w] = "take"
          /\ UNCHANGED <<cache, requests, served>>
          /\ (pending = NoRequest => pc'[w] = "stopping")
          /\ \A v \in Workers \ {w} : task'[v] = task[v] /\ pc'[v] = pc[v]
      BY <1>1, <2>1 DEF TakePending, Goto, history
    <3>2. \A v \in Workers \ {w} : ~Busy(v)
      BY <3>1 DEF Tracked, Alive, Busy
    <3>3. \A v \in Workers : Busy(v)' => v = w /\ pending # NoRequest
      BY <3>1, <3>2 DEF Busy
    <3> QED
      BY <1>1, <3>1, <3>3 DEF Numbered
  <2>2. CASE CachePrefetch(w)
    <3>1. /\ UNCHANGED <<pending, requests, served>>
          /\ pc[w] = "cache" /\ pc'[w] = "take" /\ cache' \in {cache, Cached(w)}
          /\ \A v \in Workers \ {w} : task'[v] = task[v] /\ pc'[v] = pc[v]
      BY <1>1, <2>2 DEF CachePrefetch, DropLocals, Goto, history
    <3>2. \A v \in Workers : ~Busy(v)'
      BY <3>1 DEF Tracked, Alive, Busy
    <3>3. Busy(w) /\ task[w].session \in Sessions
      BY <3>1 DEF Busy, Tasks
    <3>4. ASSUME NEW i \in DOMAIN cache'
          PROVE  /\ cache'[i].req \in 1..requests
                 /\ pending # NoRequest => cache'[i].req < pending.req
                 /\ served[cache'[i].session] < cache'[i].req
      <4>1. CASE \E k \in DOMAIN cache : cache'[i] = cache[k]
        BY <4>1 DEF Numbered
      <4>2. CASE cache'[i].req = task[w].req /\ cache'[i].session = task[w].session
        BY <3>3, <4>2 DEF Numbered
      <4> QED
        BY <3>1, <3>3, <4>1, <4>2, CachedFacts
    <3> QED
      BY <3>1, <3>2, <3>4 DEF Numbered
  <2>3. CASE WorkerEnds(w)
    BY <1>1, <1>2, <2>3 DEF WorkerEnds, Goto, Busy, queued, computing, history
  <2> QED
    BY <1>1, <1>4, <1>5, <2>1, <2>2, <2>3 DEF Worker
<1>6. ASSUME NEW h \in Hosts, NEW s \in Sessions, QueueRequest(h, s) PROVE Numbered'
  <2>1. /\ UNCHANGED <<task, cache, served>> /\ requests' = requests + 1
        /\ pending'.req = requests + 1
        /\ \A w \in Workers : Busy(w)' => Busy(w)
    BY <1>6, QueueFrame DEF computing, Busy
  <2> QED
    BY <1>1, <2>1 DEF Numbered
<1>7. ASSUME NEW h \in Hosts, NEW s \in Sessions, PopCached(h, s) PROVE Numbered'
  <2>1. /\ UNCHANGED <<task, requests, pending>> /\ cache' = Without(s)
        /\ \A w \in Workers : pc'[w] = pc[w]
        /\ served' = [served EXCEPT ![s] = CacheAt(s).req]
    BY <1>1, <1>7 DEF PopCached, Goto
  <2>2. PICK k \in DOMAIN cache : CacheAt(s) = cache[k] /\ cache[k].session = s
    BY <1>7 DEF PopCached, CacheHas, CacheAt, PlaceOf
  <2>3. \A t \in Sessions : served'[t] = IF t = s THEN cache[k].req ELSE served[t]
    BY <1>1, <2>1, <2>2
  <2>4. \A i \in DOMAIN cache' : \E j \in DOMAIN cache : cache'[i] = cache[j] /\ cache[j].session # s
    BY <1>1, <2>1, WithoutFacts
  <2>5. \A w \in Workers : Busy(w)' <=> Busy(w)
    BY <2>1 DEF Busy
  <2>6. \A i \in DOMAIN cache' : /\ cache'[i].req \in 1..requests
                                 /\ pending # NoRequest => cache'[i].req < pending.req
                                 /\ served'[cache'[i].session] < cache'[i].req
    BY <1>1, <2>3, <2>4 DEF Numbered
  <2>7. ASSUME NEW w \in Workers, Busy(w)
        PROVE  /\ \A i \in DOMAIN cache' : cache'[i].req < task[w].req
               /\ \A t \in Sessions : served'[t] < task[w].req
    BY <2>2, <2>3, <2>4, <2>7 DEF Numbered
  <2>8. \A t \in Sessions : served'[t] \in 0..requests /\ (pending # NoRequest => served'[t] < pending.req)
    BY <1>1, <2>2, <2>3 DEF Numbered
  <2> QED
    BY <2>1, <2>5, <2>6, <2>7, <2>8 DEF Numbered
<1>8. ASSUME NEW h \in Hosts, Host(h),
             \A s \in Sessions : ~QueueRequest(h, s) /\ ~PopCached(h, s), ~Compute(h)
      PROVE  Numbered'
  <2>1. UNCHANGED <<task, requests, served, pending, cache>> /\ \A w \in Workers : pc'[w] = pc[w]
    BY <1>1, <1>8 DEF Host, QueueGate, PrefetchGate, PopMissed, Answered, Goto, queued, computing, history
  <2> QED
    BY <1>2, <2>1 DEF Busy
<1> QED
  BY <1>1, <1>3, <1>4, <1>5, <1>6, <1>7, <1>8 DEF Next

-----------------------------------------------------------------------------
(* Whose rows a block holds *)

(* The theme moves while the cache and all that is of the current          *)
(* generation are empty, or just before the generation changes.            *)
LEMMA OwnedLifecycle ==
  ASSUME TypeOK, Tasks, Owned, Lifecycle
  PROVE  Owned'
<1> USE DEF provider, queued, computing, history
<1>1. CASE Shutdown \/ Reinit
  <2>1. /\ cache' = <<>> /\ pending' = NoRequest /\ gen' = gen + 1 /\ lpc' = "drain"
        /\ UNCHANGED <<identity, store, pc, task, block, overlap, raced>>
    BY <1>1 DEF Shutdown, Reinit, DropCache
  <2>2. \A w \in Workers : ~Current(w)'
    BY <2>1 DEF TypeOK, Tasks, Current, Busy, Procs, Request
  <2>3. Answers'
    BY <2>1 DEF Owned, Answers, SoFar, Own
  <2> QED
    BY <2>1, <2>2, <2>3 DEF Owned, Fresh, Cleared, Storeless
<1>2. CASE CloseStore
  <2>1. /\ lpc = "drain" /\ lpc' = "closed" /\ store' = FALSE
        /\ UNCHANGED <<identity, cache, gen, pc, task, block, overlap, raced>>
    BY <1>2 DEF CloseStore
  <2> QED
    BY <2>1 DEF Owned, Fresh, Answers, Cleared, Storeless, SoFar, Own, BlockAt, Current, Busy
<1>3. CASE SetUnhealthy \/ OpenStore \/ SetHealthy
  <2>1. /\ lpc \notin {"canonical", "reinit"} /\ lpc' \notin {"canonical", "reinit", "drain", "closed"}
        /\ (lpc' = "open" => lpc = "closed" /\ store' = store) /\ (store' = FALSE => store = FALSE)
        /\ UNCHANGED <<identity, cache, gen, pc, task, block, overlap, raced>>
    BY <1>3 DEF SetUnhealthy, OpenStore, SetHealthy, Owned, Storeless
  <2> QED
    BY <2>1 DEF Owned, Fresh, Answers, Cleared, Storeless, SoFar, Own, BlockAt, Current, Busy
<1>4. ASSUME NEW theme \in Themes, SetRaw(theme) PROVE Owned'
  <2>1. /\ lpc = "idle" /\ lpc' = "canonical"
        /\ UNCHANGED <<store, cache, gen, pc, task, block, raced>>
        /\ \A h \in Hosts : pc[h] # "idle" => overlap'[h]
    BY <1>4 DEF SetRaw
  <2>2. Answers'
    BY <2>1 DEF Owned, Answers
  <2> QED
    BY <2>1, <2>2 DEF Owned, Fresh, Storeless, Cleared, BlockAt, Current, Busy
<1>5. ASSUME NEW theme \in Themes, SetCanonical(theme) PROVE Owned'
  <2>1. /\ lpc = "canonical" /\ lpc' \in {"reinit", "open"}
        /\ UNCHANGED <<store, cache, gen, pc, task, block, raced, overlap>>
    BY <1>5 DEF SetCanonical
  <2>2. lpc' = "open" => store = FALSE
    BY <1>5 DEF SetCanonical, TypeOK
  <2>3. Answers'
    BY <2>1 DEF Owned, Answers
  <2>4. Storeless' /\ Cleared'
    BY <2>1, <2>2 DEF Owned, Storeless, Cleared, BlockAt, Current, Busy
  <2>5. Fresh'
    <3>1. CASE lpc' = "reinit"
      BY <3>1 DEF Fresh
    <3>2. CASE lpc' = "open" /\ ~raced'
      <4>1. /\ \A i \in DOMAIN cache' : BlockAt(i)' = EmptyBlock
            /\ \A w \in Workers : Current(w)' => pc'[w] \in {"store", "cache"} /\ block'[w] = EmptyBlock
        BY <2>1, <2>2, <2>4, <3>2 DEF Storeless
      <4> QED
        BY <4>1 DEF Fresh, SoFar, Own
    <3> QED
      BY <2>1, <3>1, <3>2 DEF Fresh
  <2> QED
    BY <2>3, <2>4, <2>5 DEF Owned
<1> QED
  BY <1>1, <1>2, <1>3, <1>4, <1>5 DEF Lifecycle

(* A block grows from the live theme, step by step. *)
LEMMA OwnedCompute ==
  ASSUME TypeOK, Tasks, Owned, NEW p \in Procs, Compute(p)
  PROVE  Owned'
<1>1. /\ UNCHANGED <<identity, store, lpc, cache, gen, pending, task, overlap, raced>>
      /\ \A q \in Procs \ {p} : pc'[q] = pc[q] /\ block'[q] = block[q]
      /\ Hosts \subseteq Procs /\ Workers \subseteq Procs /\ Hosts \cap Workers = {}
  BY PrefetchAssumption, ComputeFrame DEF provider, queued, history, Procs
<1>2. block[p] \in SoFar(pc[p]) => block'[p] \in SoFar(pc'[p])
  <2>1. /\ block \in [Procs -> [rows : Themes \cup {NoTheme}, header : Themes \cup {NoTheme}]]
        /\ pc' = [pc EXCEPT ![p] = pc'[p]] /\ ReturnTo(p) \in {"answered", "cache"}
    BY DEF TypeOK, Compute, CaptureStore, Search, FindNothing, WriteHeader, Goto, ReturnTo
  <2>2. CASE CaptureStore(p) \/ FindNothing(p)
    <3>1. pc[p] \in {"store", "search"} /\ pc'[p] \in {"search", "answered", "cache"} /\ block' = block
      BY <2>1, <2>2 DEF CaptureStore, FindNothing, Goto, TypeOK, computing
    <3> QED
      BY <3>1 DEF SoFar, Own
  <2>3. CASE Search(p)
    <3>1. pc[p] = "search" /\ pc'[p] = "header" /\ block'[p] = [block[p] EXCEPT !.rows = identity]
      BY <2>1, <2>3 DEF Search, Goto, TypeOK
    <3> QED
      BY <1>1, <3>1 DEF SoFar, EmptyBlock
  <2>4. CASE WriteHeader(p)
    <3>1. /\ pc[p] = "header" /\ pc'[p] \in {"answered", "cache"}
          /\ block'[p] = [block[p] EXCEPT !.header = identity]
      BY <2>1, <2>4 DEF WriteHeader, Goto, TypeOK
    <3> QED
      BY <1>1, <3>1 DEF SoFar, Own
  <2> QED
    BY <2>2, <2>3, <2>4 DEF Compute
<1>3. CASE p \in Hosts
  <2>1. \A w \in Workers : (Current(w)' <=> Current(w)) /\ pc'[w] = pc[w] /\ block'[w] = block[w]
    BY <1>1, <1>3 DEF Current, Busy
  <2>2. pc[p] \notin {"idle", "queue"} /\ pc'[p] \notin {"idle", "queue"}
    BY <1>3, ComputeFrame DEF ReturnTo
  <2>3. Answers'
    BY <1>1, <1>2, <1>3, <2>2 DEF Owned, Answers, SoFar, Own
  <2>4. Fresh'
    BY <1>1, <2>1 DEF Owned, Fresh, SoFar, Own, BlockAt
  <2>5. Cleared' /\ Storeless'
    BY <1>1, <2>1 DEF Owned, Cleared, Storeless, BlockAt
  <2> QED
    BY <2>3, <2>4, <2>5 DEF Owned
<1>4. CASE p \in Workers
  <2>1. Busy(p) /\ Busy(p)' /\ pc'[p] \in {"search", "header", "cache"}
    BY <1>1, <1>4, ComputeFrame DEF Busy, ReturnTo
  <2>2. \A w \in Workers : Current(w)' <=> Current(w)
    BY <1>1, <2>1 DEF Current, Busy
  <2>3. \A h \in Hosts : pc'[h] = pc[h] /\ block'[h] = block[h]
    BY <1>1, <1>4
  <2>4. Answers'
    BY <1>1, <2>3 DEF Owned, Answers, SoFar, Own
  <2>5. Fresh'
    <3> SUFFICES ASSUME ~raced, lpc \notin {"canonical", "reinit"}
                 PROVE  /\ \A i \in DOMAIN cache' : BlockAt(i)' \in Own'
                        /\ \A w \in Workers : Current(w)' => block'[w] \in SoFar(pc[w])'
      BY <1>1 DEF Fresh
    <3>1. \A w \in Workers : Current(w) => block[w] \in SoFar(pc[w])
      BY DEF Owned, Fresh
    <3>2. Current(p) => block'[p] \in SoFar(pc[p])'
      BY <1>1, <1>2, <1>4, <3>1 DEF SoFar, Own
    <3> QED
      BY <1>1, <2>2, <3>1, <3>2 DEF Owned, Fresh, BlockAt, Own, SoFar
  <2>6. Cleared'
    BY <1>1, <2>2 DEF Owned, Cleared
  <2>7. Storeless'
    <3>1. ASSUME ~raced, store = FALSE, Current(p) PROVE pc'[p] = "cache" /\ block'[p] = EmptyBlock
      <4>1. pc[p] = "store" /\ block[p] = EmptyBlock
        BY <1>4, <3>1, ComputeFrame DEF Owned, Storeless
      <4>2. CaptureStore(p)
        BY <4>1 DEF Compute, Search, FindNothing, WriteHeader
      <4>3. Goto(p, ReturnTo(p)) /\ block' = block
        BY <3>1, <4>2, Zenon DEF CaptureStore, computing
      <4> QED
        BY <1>1, <1>4, <4>1, <4>3 DEF Goto, ReturnTo, TypeOK
    <3> QED
      BY <1>1, <2>2, <3>1 DEF Owned, Storeless, BlockAt
  <2> QED
    BY <2>4, <2>5, <2>6, <2>7 DEF Owned
<1> QED
  BY <1>3, <1>4 DEF Procs

(* What a step that moves no lifecycle call leaves alone: the theme's      *)
(* invariant then concerns the cache, the workers and the answers.         *)
LEMMA OwnedStill ==
  ASSUME Owned, UNCHANGED <<identity, store, lpc, gen, raced>>,
         pending' \in {pending, NoRequest},
         \A i \in DOMAIN cache' : \/ \E k \in DOMAIN cache : BlockAt(i)' = BlockAt(k)
                                  \/ \E w \in Workers : /\ Current(w) /\ pc[w] = "cache"
                                                        /\ BlockAt(i)' = block[w],
         (\A w \in Workers : ~Current(w)) /\ cache = <<>> => cache' = <<>>,
         \A w \in Workers : Current(w)' => \/ Current(w) /\ pc'[w] = pc[w] /\ block'[w] = block[w]
                                           \/ /\ pending # NoRequest
                                              /\ pc'[w] = "store" /\ block'[w] = EmptyBlock,
         Answers'
  PROVE  Owned'
<1>1. Fresh'
  <2> SUFFICES ASSUME ~raced, lpc \notin {"canonical", "reinit"}
               PROVE  /\ \A i \in DOMAIN cache' : BlockAt(i)' \in Own
                      /\ \A w \in Workers : Current(w)' => block'[w] \in SoFar(pc'[w])
    BY DEF Fresh, Own, SoFar
  <2>1. /\ \A k \in DOMAIN cache : BlockAt(k) \in Own
        /\ \A w \in Workers : Current(w) => block[w] \in SoFar(pc[w])
    BY DEF Owned, Fresh
  <2>2. SoFar("cache") = Own /\ EmptyBlock \in SoFar("store")
    BY DEF SoFar
  <2> QED
    BY <2>1, <2>2
<1>2. Cleared'
  BY DEF Owned, Cleared
<1>3. Storeless'
  BY DEF Owned, Storeless
<1> QED
  BY <1>1, <1>2, <1>3 DEF Owned

(* The worker takes a request with an empty block and caches what it has   *)
(* found for one of the current generation.                                *)
LEMMA OwnedWorker ==
  ASSUME TypeOK, Tasks, OneEntry, Owned, NEW w \in Workers,
         TakePending(w) \/ CachePrefetch(w) \/ WorkerEnds(w)
  PROVE  Owned'
<1>1. /\ Hosts \subseteq Procs /\ Workers \subseteq Procs /\ Hosts \cap Workers = {}
      /\ UNCHANGED <<identity, store, lpc, gen, raced, overlap>>
      /\ \A q \in Procs \ {w} : pc'[q] = pc[q] /\ block'[q] = block[q] /\ task'[q] = task[q]
  BY PrefetchAssumption DEF TypeOK, Procs, TakePending, CachePrefetch, WorkerEnds, DropLocals, Goto,
     provider, queued, computing, history
<1>2. Answers'
  <2>1. \A h \in Hosts : pc'[h] = pc[h] /\ block'[h] = block[h] /\ overlap'[h] = overlap[h]
    BY <1>1
  <2> QED
    BY <1>1, <2>1 DEF Owned, Answers, SoFar, Own
<1>3. \A v \in Workers \ {w} : Current(v)' => Current(v) /\ pc'[v] = pc[v] /\ block'[v] = block[v]
  BY <1>1 DEF Current, Busy
<1>4. CASE TakePending(w)
  <2>1. /\ pending' = NoRequest /\ cache' = cache /\ block'[w] = EmptyBlock
        /\ (pending = NoRequest => pc'[w] = "stopping") /\ pc'[w] \in {"store", "stopping"}
    BY <1>1, <1>4 DEF TakePending, Goto, TypeOK, Tasks, Busy
  <2>2. Current(w)' => pending # NoRequest /\ pc'[w] = "store"
    BY <2>1 DEF Current, Busy
  <2> QED
    BY <1>1, <1>2, <1>3, <2>1, <2>2, OwnedStill DEF BlockAt
<1>5. CASE CachePrefetch(w)
  <2>1. /\ pending' = pending /\ ~Current(w)' /\ pc[w] = "cache" /\ Busy(w)
        /\ cache' = IF task[w].gen = gen THEN Cached(w) ELSE cache
    BY <1>1, <1>5 DEF CachePrefetch, DropLocals, Goto, TypeOK, Current, Busy
  <2>2. ASSUME task[w].gen = gen, NEW i \in DOMAIN cache'
        PROVE  BlockAt(i)' = block[w] \/ \E k \in DOMAIN cache : BlockAt(i)' = BlockAt(k)
    <3>1. block[w] = [rows |-> block[w].rows, header |-> block[w].header]
      BY <1>1 DEF TypeOK
    <3> QED
      BY <2>1, <2>2, <3>1, CachedFacts DEF BlockAt
  <2>3. task[w].gen = gen => Current(w)
    BY <2>1 DEF Current
  <2>4. ~Current(w) => cache' = cache
    BY <2>1, <2>3
  <2>5. \A i \in DOMAIN cache' : \/ \E k \in DOMAIN cache : BlockAt(i)' = BlockAt(k)
                                 \/ Current(w) /\ BlockAt(i)' = block[w]
    <3>1. CASE task[w].gen = gen
      BY <2>2, <2>3, <3>1
    <3>2. CASE task[w].gen # gen
      <4>1. cache' = cache
        BY <2>1, <3>2
      <4> QED
        BY <4>1 DEF BlockAt
    <3> QED
      BY <3>1, <3>2
  <2> QED
    BY <1>1, <1>2, <1>3, <2>1, <2>4, <2>5, OwnedStill
<1>6. CASE WorkerEnds(w)
  <2>1. UNCHANGED <<pending, cache>> /\ ~Current(w)'
    BY <1>1, <1>6 DEF WorkerEnds, Goto, TypeOK, queued, Current, Busy
  <2> QED
    BY <1>1, <1>2, <1>3, <2>1, OwnedStill DEF BlockAt
<1> QED
  BY <1>4, <1>5, <1>6

(* A host starts with an empty block and answers with what is cached; a    *)
(* request it makes in the drain is marked.                                *)
LEMMA OwnedHost ==
  ASSUME TypeOK, Tasks, OneEntry, Owned, NEW h \in Hosts, Host(h), ~Compute(h)
  PROVE  Owned'
<1>1. /\ Hosts \subseteq Procs /\ Workers \subseteq Procs /\ Hosts \cap Workers = {}
      /\ pc \in [Procs -> {"idle", "queue", "pop", "answered", "unborn", "take", "store",
                           "search", "header", "cache", "stopping", "dead"}]
      /\ block \in [Procs -> [rows : Themes \cup {NoTheme}, header : Themes \cup {NoTheme}]]
      /\ overlap \in [Hosts -> BOOLEAN]
  BY PrefetchAssumption DEF TypeOK, Procs
<1>2. ASSUME NEW s \in Sessions, QueueRequest(h, s) PROVE Owned'
  <2>1. /\ UNCHANGED <<identity, store, lpc, gen, cache, task, block, overlap>>
        /\ pc[h] = "queue" /\ pc'[h] = "idle" /\ \A g \in Hosts \ {h} : pc'[g] = pc[g]
        /\ \A w \in Workers : Busy(w)' <=> Busy(w)
    BY <1>2, QueueFrame DEF provider, computing, Busy
  <2>2. raced' = (raced \/ lpc = "drain")
    BY <1>2 DEF QueueRequest, PutPending
  <2>3. (~raced' => ~raced /\ lpc # "drain")
    BY <2>2, Zenon
  <2>4. \A w \in Workers : Current(w)' => Current(w) /\ pc'[w] = pc[w]
    BY <1>2, <2>1, QueueFrame DEF Current, Busy
  <2>5. Answers'
    <3>1. block'[h] = EmptyBlock
      BY <2>1 DEF Owned, Answers
    <3> QED
      BY <2>1, <2>3, <3>1 DEF Owned, Answers, SoFar, Own
  <2>6. Fresh'
    BY <2>1, <2>3, <2>4 DEF Owned, Fresh, SoFar, Own, BlockAt
  <2>7. Cleared' /\ Storeless'
    BY <2>1, <2>3, <2>4 DEF Owned, Cleared, Storeless, BlockAt
  <2> QED
    BY <2>5, <2>6, <2>7 DEF Owned
<1>3. CASE ~\E s \in Sessions : QueueRequest(h, s)
  <2>1. /\ UNCHANGED <<identity, store, lpc, gen, raced, pending, task>>
        /\ \A q \in Procs \ {h} : pc'[q] = pc[q] /\ block'[q] = block[q]
        /\ \A g \in Hosts \ {h} : overlap'[g] = overlap[g]
    BY <1>1, <1>3 DEF Host, QueueGate, PrefetchGate, PopCached, PopMissed, Answered, Goto,
       provider, queued, computing, history
  <2>2. \A w \in Workers : Current(w)' => Current(w) /\ pc'[w] = pc[w] /\ block'[w] = block[w]
    BY <1>1, <2>1 DEF Current, Busy
  <2>3. \A i \in DOMAIN cache' : \E k \in DOMAIN cache : BlockAt(i)' = BlockAt(k)
    <3>1. CASE cache' = cache
      BY <3>1 DEF BlockAt
    <3>2. ASSUME NEW s \in Sessions, PopCached(h, s)
          PROVE  \A i \in DOMAIN cache' : \E k \in DOMAIN cache : cache'[i] = cache[k]
      <4>1. cache' = Without(s) /\ cache \in Seq(Entry)
        BY <3>2 DEF PopCached, TypeOK
      <4> QED
        BY <4>1, WithoutFacts
    <3>3. CASE \A s \in Sessions : ~PopCached(h, s)
      BY <1>3, <3>1, <3>3 DEF Host, QueueGate, PrefetchGate, PopMissed, Answered, queued
    <3> QED
      BY <3>2, <3>3 DEF BlockAt
  <2>4. cache = <<>> => cache' = <<>>
    <3>1. CASE cache = <<>>
      <4>1. \A s \in Sessions : ~PopCached(h, s)
        BY <3>1 DEF PopCached, CacheHas
      <4> QED
        BY <1>3, <3>1, <4>1 DEF Host, QueueGate, PrefetchGate, PopMissed, Answered, queued
    <3> QED
      BY <3>1
  <2>5. /\ pc'[h] \in {"idle", "queue"} => block'[h] = EmptyBlock
        /\ pc'[h] \notin {"idle", "queue"} /\ ~overlap'[h] =>
             lpc \notin {"canonical", "reinit"} /\ (~raced => block'[h] \in SoFar(pc'[h]))
    <3>1. CASE QueueGate(h)
      BY <1>1, <3>1 DEF QueueGate, Goto, computing, Owned, Answers
    <3>2. CASE PrefetchGate(h)
      <4>1. overlap'[h] = (lpc # "idle")
        BY <1>1, <3>2 DEF PrefetchGate
      <4>2. ~overlap'[h] => lpc = "idle"
        BY <4>1, Zenon
      <4>3. pc'[h] = "pop" /\ block'[h] = EmptyBlock
        BY <1>1, <3>2 DEF PrefetchGate, Goto, computing, Owned, Answers
      <4> QED
        BY <4>2, <4>3 DEF SoFar
    <3>3. CASE Answered(h)
      BY <1>1, <3>3 DEF Answered, Goto
    <3>4. ASSUME NEW s \in Sessions, PopCached(h, s)
          PROVE  /\ pc'[h] = "answered"
                 /\ ~overlap'[h] => lpc \notin {"canonical", "reinit"} /\ (~raced => block'[h] \in SoFar(pc'[h]))
      <4>1. /\ pc[h] = "pop" /\ pc'[h] = "answered" /\ overlap' = overlap
            /\ block'[h] = [rows |-> CacheAt(s).rows, header |-> CacheAt(s).header]
            /\ PlaceOf(s) \in DOMAIN cache
        BY <1>1, <3>4 DEF PopCached, Goto, CacheHas, PlaceOf
      <4>2. block'[h] = BlockAt(PlaceOf(s))
        BY <4>1 DEF CacheAt, BlockAt
      <4>3. SoFar("answered") = Own
        BY DEF SoFar
      <4> QED
        BY <4>1, <4>2, <4>3 DEF Owned, Answers, Fresh
    <3>5. ASSUME NEW s \in Sessions, PopMissed(h, s)
          PROVE  /\ pc'[h] \in {"store", "answered"}
                 /\ ~overlap'[h] => lpc \notin {"canonical", "reinit"} /\ (~raced => block'[h] \in SoFar(pc'[h]))
      <4>1. /\ pc[h] = "pop" /\ pc'[h] \in {"store", "answered"}
            /\ UNCHANGED <<block, overlap>>
        BY <1>1, <3>5 DEF PopMissed, Goto, computing, history
      <4> QED
        BY <4>1 DEF Owned, Answers, SoFar, Own
    <3> QED
      BY <1>3, <3>1, <3>2, <3>3, <3>4, <3>5 DEF Host
  <2>6. Answers'
    BY <1>1, <2>1, <2>5 DEF Owned, Answers, SoFar, Own
  <2> QED
    BY <2>1, <2>2, <2>3, <2>4, <2>6, OwnedStill
<1> QED
  BY <1>2, <1>3

-----------------------------------------------------------------------------
(* What the provider's comments promise of background recall *)

(* Only the worker itself takes a waiting request or passes it by. *)
LEMMA AttendedStep ==
  ASSUME TypeOK, Tracked, Attended, [Next]_vars
  PROVE  Attended'
<1> USE PrefetchAssumption DEF Goto
<1>1. /\ pc \in [Procs -> {"idle", "queue", "pop", "answered", "unborn", "take", "store",
                           "search", "header", "cache", "stopping", "dead"}]
      /\ Workers \subseteq Procs /\ Hosts \subseteq Procs /\ Workers \cap Hosts = {}
  BY DEF TypeOK, Procs
<1>2. ASSUME NEW h \in Hosts, NEW s \in Sessions, QueueRequest(h, s) PROVE Attended'
  <2>1. CASE Alive(thread) /\ stranded' = (pc[thread] = "stopping") /\ Goto(h, "idle") /\ UNCHANGED thread
    BY <1>1, <2>1 DEF Attended, Alive
  <2>2. CASE ~Alive(thread) /\ SpawnWorker(h)
    <3>1. thread' \in Workers /\ (~stranded' => pc'[thread'] = "take")
      BY <1>1, <2>2 DEF SpawnWorker
    <3> QED
      BY <3>1 DEF Attended, Alive
  <2> QED
    BY <1>2, <2>1, <2>2 DEF QueueRequest
<1>3. ASSUME thread' = thread, stranded' = stranded, pending' = pending,
             Alive(thread) /\ pc[thread] # "stopping" =>
               pc'[thread] \notin {"unborn", "dead", "stopping"}
      PROVE  Attended'
  BY <1>3 DEF Attended, Alive
<1>4. ASSUME pending' = NoRequest PROVE Attended'
  BY <1>4 DEF Attended
<1>5. ASSUME NEW v \in Workers, Worker(v) PROVE Attended'
  <2>1. CASE TakePending(v)
    BY <1>4, <2>1 DEF TakePending
  <2>2. CASE ~TakePending(v)
    <3>1. /\ thread' = thread /\ stranded' = stranded /\ pending' = pending
          /\ \A w \in Workers : w # v => pc'[w] = pc[w]
          /\ pc'[v] \in {"take", "search", "header", "cache"} \/ pc[v] = "stopping"
      BY <1>1, <1>5, <2>2 DEF Worker, Compute, CaptureStore, Search, FindNothing, WriteHeader,
         ReturnTo, CachePrefetch, DropLocals, WorkerEnds, queued, history
    <3> QED
      BY <1>3, <3>1 DEF Alive
  <2> QED
    BY <2>1, <2>2
<1>6. ASSUME NEW h \in Hosts, Host(h), \A s \in Sessions : ~QueueRequest(h, s) PROVE Attended'
  <2>1. /\ thread' = thread /\ stranded' = stranded /\ pending' = pending
        /\ \A w \in Workers : pc'[w] = pc[w]
    BY <1>1, <1>6 DEF Host, QueueGate, PrefetchGate, Compute, CaptureStore, Search, FindNothing,
       WriteHeader, Answered, PopCached, PopMissed, queued, history
  <2> QED
    BY <1>3, <2>1 DEF Alive
<1>7. CASE Shutdown \/ Reinit
  BY <1>4, <1>7 DEF Shutdown, Reinit, DropCache
<1>8. CASE (Lifecycle /\ ~Shutdown /\ ~Reinit) \/ UNCHANGED vars
  <2>1. /\ thread' = thread /\ stranded' = stranded /\ pending' = pending /\ pc' = pc
    BY <1>8 DEF Lifecycle, CloseStore, SetUnhealthy, SetRaw, SetCanonical, OpenStore, SetHealthy, vars, queued,
       history
  <2> QED
    BY <1>3, <2>1 DEF Alive
<1> QED
  BY <1>2, <1>5, <1>6, <1>7, <1>8 DEF Next

LEMMA IInvStep == IInv /\ [Next]_vars => IInv'
<1> SUFFICES ASSUME IInv, [Next]_vars PROVE IInv'
  OBVIOUS
<1> USE DEF IInv
<1>1. TypeOK' /\ Tracked' /\ Tasks' /\ OneEntry' /\ Numbered'
  BY TypeStep, TrackedStep, TasksStep, OneEntryStep, NumberedStep
<1>2. Owned'
  <2>1. CASE Lifecycle
    BY <2>1, OwnedLifecycle
  <2>2. ASSUME NEW w \in Workers, Worker(w) PROVE Owned'
    BY <2>2, OwnedCompute, OwnedWorker DEF Worker, Procs
  <2>3. ASSUME NEW h \in Hosts, Host(h) PROVE Owned'
    BY <2>3, OwnedCompute, OwnedHost DEF Procs
  <2>4. CASE UNCHANGED vars
    <3>1. UNCHANGED <<identity, store, lpc, cache, gen, pending, pc, task, block, overlap, raced>>
      BY <2>4 DEF vars, provider, queued, computing, history
    <3> QED
      BY <3>1 DEF Owned, Fresh, Answers, Cleared, Storeless, SoFar, Own, BlockAt, Current, Busy
  <2> QED
    BY <2>1, <2>2, <2>3, <2>4 DEF Next
<1>3. Attended'
  BY AttendedStep
<1> QED
  BY <1>1, <1>2, <1>3

(* Every behaviour of the provider's background recall keeps the inductive *)
(* invariant.                                                              *)
THEOREM Invariance == Spec => []IInv
BY InitIInv, IInvStep, PTL DEF Spec

(* Every variable keeps its type, and _prefetch_cache never outgrows       *)
(* _PREFETCH_CACHE_CAP, however many sessions and requests there are.      *)
THEOREM TypeCorrect == Spec => []TypeOK
BY Invariance, PTL DEF IInv

(* queue_prefetch() starts a worker only when _prefetch_thread is not      *)
(* alive, so that two workers never run at once.                           *)
THEOREM SingleWorker == Spec => []OneWorker
<1>1. IInv => OneWorker
  BY DEF IInv, Tracked, OneWorker
<1> QED
  BY <1>1, Invariance, PTL

(* What _cache_prefetch() has kept for a session is newer than anything    *)
(* prefetch() has answered that session with from the cache: no result of  *)
(* background recall is replayed.                                          *)
THEOREM RecallNotReplayed == Spec => []NoRecallReplayed
<1>1. IInv => NoRecallReplayed
  <2> SUFFICES ASSUME IInv, NEW s \in Sessions, CacheHas(s) PROVE CacheAt(s).req > served[s]
    BY DEF NoRecallReplayed
  <2>1. PlaceOf(s) \in DOMAIN cache /\ cache[PlaceOf(s)].session = s
    BY DEF CacheHas, PlaceOf
  <2>2. served[s] < cache[PlaceOf(s)].req
    BY <2>1 DEF IInv, Numbered
  <2>3. cache \in Seq(Entry) /\ served[s] \in Nat
    BY DEF IInv, TypeOK
  <2>4. cache[PlaceOf(s)] \in Entry
    BY <2>1, <2>3
  <2>5. cache[PlaceOf(s)].req \in Nat
    BY <2>4 DEF Entry
  <2> QED
    BY <2>2, <2>3, <2>5 DEF CacheAt
<1> QED
  BY <1>1, Invariance, PTL

(* What prefetch() answers is of the provider's theme, unless the theme    *)
(* moved during that very call or a request was queued while shutdown()    *)
(* drained the writer.                                                     *)
THEOREM RecallOwnOutsideDrain == Spec => []RecallIsOwnOutsideDrain
<1>1. IInv => RecallIsOwnOutsideDrain
  <2>1. SoFar("answered") = Own
    BY DEF SoFar
  <2> QED
    BY <2>1 DEF IInv, Owned, Answers, Own, RecallIsOwnOutsideDrain, RecallIsOwn
<1> QED
  BY <1>1, Invariance, PTL

(* The safety half of RequestServedOutsideExit, which needs fairness       *)
(* besides: a request that waits in the slot is left to nobody but a live  *)
(* worker on its way back to it, unless it met one that had already seen   *)
(* the slot empty, or a start() that failed.                               *)
THEOREM RequestsAttended == Spec => []Attended
BY Invariance, PTL DEF IInv
=============================================================================
