-------------------------- MODULE AsyncWriterProofs --------------------------
(***************************************************************************)
(* What holds of the asynchronous writer for every number of callers and   *)
(* drain threads, every queue size and every number of writes, crashes and *)
(* shutdowns: types, a single drain thread, no write lost, and that the    *)
(* writer implements the log of WriteLog.                                  *)
(***************************************************************************)
EXTENDS AsyncWriter, TLAPS

(* Who holds what: a thread that can still run is the current one, the     *)
(* holder of _lock is starting it, and a write is in hand while it is      *)
(* being worked on.                                                        *)
Refs ==
  /\ \A t \in Threads : tpc[t] \notin {"unborn", "dead"} => t = thread
  /\ \A c \in Callers : cpc[c] = "start" => thread \in Threads /\ tpc[thread] = "created"
  /\ \A c, d \in Callers : cpc[c] = "start" /\ cpc[d] = "start" => c = d
  /\ \A t \in Threads : tpc[t] = "created" => \E c \in Callers : cpc[c] = "start"
  /\ \A t \in Threads : inhand[t] # None <=> tpc[t] = "work"

(* How many of the accepted writes have left the queue. *)
Taken == IF thread \in Threads /\ inhand[thread] # None
         THEN Len(handled) + 1 ELSE Len(handled)

(* The writes handled, in hand and queued are 1..accepted in this order;   *)
(* the queue may hold sentinels between its writes, but no write is        *)
(* missing between two of them.                                            *)
HandledOrder ==
  /\ \A i \in DOMAIN handled : handled[i] = i
  /\ \A t \in Threads : inhand[t] # None => inhand[t] = Len(handled) + 1
  /\ Taken <= accepted
QueuedOnly == \A i \in DOMAIN queue : queue[i] # None => Taken < queue[i] /\ queue[i] <= accepted
QueuedAll  == \A w \in 1..accepted : Taken < w => \E i \in DOMAIN queue : queue[i] = w
QueueOrder ==
  \A i, j \in DOMAIN queue :
    i < j /\ queue[i] # None /\ queue[j] # None =>
      queue[i] < queue[j] /\ queue[j] - queue[i] <= j - i
Order == HandledOrder /\ QueuedOnly /\ QueuedAll /\ QueueOrder

IInv == TypeOK /\ Refs /\ Order

(* _ensure_thread() makes an unused thread object the current one. *)
LEMMA NewThreadFresh ==
  ASSUME TypeOK, NewThread
  PROVE  /\ thread' \in Threads
         /\ tpc[thread'] = "unborn"
         /\ tpc' = [tpc EXCEPT ![thread'] = "created"]
<1> DEFINE unborn == {t \in Threads : tpc[t] = "unborn"}
<1>1. unborn # {} /\ thread' = (CHOOSE t \in unborn : TRUE)
  BY DEF NewThread
<1>2. thread' \in unborn
  BY <1>1, Zenon
<1> QED
  BY <1>2 DEF NewThread

(* The sequence facts the two queue operations rest on. *)
LEMMA AppendFacts ==
  ASSUME NEW S, NEW s \in Seq(S), NEW e \in S
  PROVE  /\ Append(s, e) \in Seq(S)
         /\ Len(Append(s, e)) = Len(s) + 1
         /\ DOMAIN Append(s, e) = 1..(Len(s) + 1)
         /\ Append(s, e)[Len(s) + 1] = e
         /\ \A i \in DOMAIN s : Append(s, e)[i] = s[i]
OBVIOUS

LEMMA TailFacts ==
  ASSUME NEW S, NEW s \in Seq(S), s # <<>>
  PROVE  /\ Tail(s) \in Seq(S) /\ Head(s) = s[1] /\ Len(s) >= 1
         /\ Len(Tail(s)) = Len(s) - 1
         /\ DOMAIN Tail(s) = 1..(Len(s) - 1)
         /\ \A i \in DOMAIN Tail(s) : Tail(s)[i] = s[i + 1]
OBVIOUS

(* The initial state satisfies the inductive invariant. *)
LEMMA InitIInv == Init => IInv
<1> SUFFICES ASSUME Init PROVE IInv
  OBVIOUS
<1> USE WriterAssumption DEF Init, None
<1>1. <<>> \in Seq(Nat) /\ <<>> \in Seq(Write) /\ Len(<<>>) = 0
  BY DEF Write
<1>2. TypeOK
  <2>1. tpc \in [Threads -> {"unborn", "created", "get", "empty", "woke", "work", "stopping", "dead"}]
    OBVIOUS
  <2>2. inhand \in [Threads -> Nat] /\ cpc \in [Callers -> {"idle", "start", "put", "full"}]
    OBVIOUS
  <2>3. queue \in Seq(Nat) /\ handled \in Seq(Write) /\ (MaxSize > 0 => Len(queue) <= MaxSize)
    BY <1>1
  <2> QED
    BY <2>1, <2>2, <2>3 DEF TypeOK
<1>3. Refs
  BY DEF Refs
<1>4. Order
  BY <1>1 DEF Order, HandledOrder, QueuedOnly, QueuedAll, QueueOrder, Taken
<1> QED
  BY <1>2, <1>3, <1>4 DEF IInv

(* Types and references survive every step. *)
LEMMA RefsStep ==
  ASSUME TypeOK, Refs, [Next]_vars
  PROVE  TypeOK' /\ Refs'
<1> USE WriterAssumption DEF TypeOK, Refs, None, Write, queueVars, threadVars, shutdownVars
<1>1. ASSUME NEW c \in Callers, EnsureThread(c)
      PROVE  TypeOK' /\ Refs'
  <2>1. CASE IsAlive(thread)
    BY <1>1, <2>1 DEF EnsureThread, IsAlive
  <2>2. CASE ~IsAlive(thread)
    <3>1. NewThread /\ LockFree /\ cpc' = [cpc EXCEPT ![c] = "start"]
      BY <1>1, <2>2 DEF EnsureThread
    <3>2. /\ thread' \in Threads /\ tpc[thread'] = "unborn"
          /\ tpc' = [tpc EXCEPT ![thread'] = "created"]
      BY <3>1, NewThreadFresh
    <3>3. \A t \in Threads : tpc[t] \in {"unborn", "created", "dead"}
      BY <2>2 DEF IsAlive
    <3>4. \A t \in Threads : tpc[t] \in {"unborn", "dead"}
      BY <1>1, <3>1, <3>3 DEF EnsureThread, LockFree
    <3> QED
      BY <1>1, <2>2, <3>1, <3>2, <3>3, <3>4 DEF EnsureThread, LockFree
  <2> QED
    BY <2>1, <2>2
<1>2. ASSUME NEW c \in Callers, StartThread(c)
      PROVE  TypeOK' /\ Refs'
  BY <1>2 DEF StartThread
<1>3. ASSUME NEW c \in Callers, PutNowait(c)
      PROVE  TypeOK' /\ Refs'
  <2>1. CASE Full
    BY <1>3, <2>1 DEF PutNowait
  <2>2. CASE ~Full
    <3>1. /\ cpc[c] = "put" /\ queue' = Append(queue, accepted + 1)
          /\ accepted' = accepted + 1 /\ cpc' = [cpc EXCEPT ![c] = "idle"]
          /\ UNCHANGED <<thread, draining, dropped, threadVars, shutdownVars>>
      BY <1>3, <2>2 DEF PutNowait
    <3>2. queue \in Seq(Nat) /\ accepted + 1 \in Nat
      OBVIOUS
    <3>3. queue' \in Seq(Nat) /\ Len(queue') = Len(queue) + 1
      BY <3>1, <3>2, AppendFacts
    <3>4. MaxSize > 0 => Len(queue') <= MaxSize
      BY <2>2, <3>2, <3>3 DEF Full
    <3> QED
      BY <3>1, <3>3, <3>4
  <2> QED
    BY <2>1, <2>2
<1>4. ASSUME NEW c \in Callers, CountDrop(c)
      PROVE  TypeOK' /\ Refs'
  BY <1>4 DEF CountDrop
<1>5. ASSUME NEW t \in Threads, Get(t)
      PROVE  TypeOK' /\ Refs'
  BY <1>5 DEF Get
<1>6. ASSUME NEW t \in Threads, GetTimeout(t)
      PROVE  TypeOK' /\ Refs'
  BY <1>6 DEF GetTimeout
<1>7. ASSUME NEW t \in Threads, OnEmpty(t)
      PROVE  TypeOK' /\ Refs'
  BY <1>7 DEF OnEmpty
<1>8. ASSUME NEW t \in Threads, OnSentinel(t)
      PROVE  TypeOK' /\ Refs'
  BY <1>8 DEF OnSentinel
<1>9. ASSUME NEW t \in Threads, Worked(t) \/ WorkerCrash(t)
      PROVE  TypeOK' /\ Refs'
  <2>1. inhand[t] \in Write /\ tpc[t] = "work"
    BY <1>9 DEF Worked, WorkerCrash
  <2>2. handled' = Append(handled, inhand[t]) /\ handled \in Seq(Write)
    BY <1>9 DEF Worked, WorkerCrash
  <2>3. handled' \in Seq(Write)
    BY <2>1, <2>2, AppendFacts, Zenon
  <2>4. CASE Worked(t)
    BY <2>1, <2>3, <2>4 DEF Worked
  <2>5. CASE WorkerCrash(t)
    BY <2>1, <2>3, <2>5 DEF WorkerCrash
  <2> QED
    BY <1>9, <2>4, <2>5
<1>10. ASSUME NEW t \in Threads, ThreadEnds(t)
       PROVE  TypeOK' /\ Refs'
  BY <1>10 DEF ThreadEnds
<1>11. ASSUME Shutdown
       PROVE  TypeOK' /\ Refs'
  <2>1. ASSUME PutSentinel PROVE TypeOK' /\ Refs'
    <3>1. queue' \in Seq(Nat) /\ (MaxSize > 0 => Len(queue') <= MaxSize)
      BY <2>1 DEF PutSentinel, Full
    <3> QED
      BY <2>1, <3>1 DEF PutSentinel
  <2>2. ASSUME NEW r, JoinReturns(r) PROVE TypeOK' /\ Refs'
    BY <2>2 DEF JoinReturns
  <2>3. CASE ShutdownTest
    BY <2>3 DEF ShutdownTest
  <2>4. CASE SetDraining
    BY <2>4 DEF SetDraining
  <2>5. CASE Join
    BY <2>5 DEF Join
  <2> QED
    BY <1>11, <2>1, <2>2, <2>3, <2>4, <2>5 DEF Shutdown
<1>12. CASE UNCHANGED vars
  BY <1>12 DEF vars
<1> QED
  BY <1>1, <1>2, <1>3, <1>4, <1>5, <1>6, <1>7, <1>8, <1>9, <1>10, <1>11, <1>12
  DEF Next, Enqueue, DrainLoop

(* A step that touches neither the queue nor what has been taken from it   *)
(* preserves the order.                                                    *)
LEMMA OrderFrame ==
  ASSUME Order, UNCHANGED <<queue, accepted, handled, inhand>>, Taken' = Taken
  PROVE  Order'
BY DEF Order, HandledOrder, QueuedOnly, QueuedAll, QueueOrder

(* put_nowait() of an accepted write extends the order by one. *)
LEMMA OrderAppend ==
  ASSUME TypeOK, Order,
         queue' = Append(queue, accepted + 1), accepted' = accepted + 1,
         UNCHANGED <<handled, inhand>>, Taken' = Taken
  PROVE  Order'
<1>1. /\ queue \in Seq(Nat) /\ accepted \in Nat /\ Taken \in Nat
      /\ DOMAIN queue = 1..Len(queue) /\ Len(queue) \in Nat
      /\ \A i \in DOMAIN queue : queue[i] \in Nat
  BY DEF TypeOK, Taken
<1>2. /\ DOMAIN queue' = 1..(Len(queue) + 1)
      /\ queue'[Len(queue) + 1] = accepted + 1
      /\ \A i \in DOMAIN queue : queue'[i] = queue[i]
  BY <1>1, AppendFacts
<1>3. Taken <= accepted
  BY DEF Order, HandledOrder
<1>4. QueuedOnly'
  BY <1>1, <1>2, <1>3 DEF Order, QueuedOnly
<1>5. QueuedAll'
  BY <1>1, <1>2 DEF Order, QueuedAll
<1>6. ASSUME NEW i \in DOMAIN queue, queue[i] # None
      PROVE  queue[i] < accepted + 1 /\ accepted + 1 - queue[i] <= Len(queue) + 1 - i
  <2>1. queue[i] \in Nat /\ Taken < queue[i] /\ queue[i] <= accepted
    BY <1>1, <1>6 DEF Order, QueuedOnly
  <2>2. PICK j \in DOMAIN queue : queue[j] = accepted
    BY <1>1, <2>1 DEF Order, QueuedAll
  <2>3. queue[j] # None
    BY <1>1, <2>1, <2>2 DEF None
  <2>4. i < j => queue[i] < queue[j] /\ queue[j] - queue[i] <= j - i
    BY <1>6, <2>2, <2>3 DEF Order, QueueOrder
  <2>5. j < i => queue[j] < queue[i]
    BY <1>6, <2>2, <2>3 DEF Order, QueueOrder
  <2>6. i \in 1..Len(queue) /\ j \in 1..Len(queue)
    BY <1>1
  <2>7. i <= j
    BY <1>1, <2>1, <2>2, <2>5, <2>6
  <2>8. accepted - queue[i] <= j - i
    <3>1. CASE i < j
      BY <2>2, <2>4, <3>1
    <3>2. CASE i = j
      BY <1>1, <2>2, <2>6, <3>2
    <3> QED
      BY <2>6, <2>7, <3>1, <3>2
  <2>9. Len(queue) \in Nat /\ j <= Len(queue) /\ accepted \in Nat
    BY <1>1, <2>6
  <2> QED
    BY <2>1, <2>6, <2>8, <2>9
<1>7. QueueOrder'
  <2> SUFFICES ASSUME NEW i \in DOMAIN queue', NEW j \in DOMAIN queue',
                      i < j, queue'[i] # None, queue'[j] # None
               PROVE  queue'[i] < queue'[j] /\ queue'[j] - queue'[i] <= j - i
    BY DEF QueueOrder
  <2>1. i \in DOMAIN queue /\ queue'[i] = queue[i]
    BY <1>1, <1>2
  <2>2. CASE j \in DOMAIN queue
    BY <1>2, <2>1, <2>2 DEF Order, QueueOrder
  <2>3. CASE j = Len(queue) + 1
    BY <1>1, <1>2, <1>6, <2>1, <2>3
  <2> QED
    BY <1>1, <1>2, <2>2, <2>3
<1>8. HandledOrder'
  BY <1>1, <1>3 DEF Order, HandledOrder
<1> QED
  BY <1>4, <1>5, <1>7, <1>8 DEF Order

(* get() takes the next write of the order, or an entry that is no part of *)
(* it; what is left stays in order.                                        *)
LEMMA OrderTail ==
  ASSUME TypeOK, Order, queue # <<>>, queue' = Tail(queue),
         UNCHANGED <<accepted, handled>>,
         \/ Head(queue) = None /\ Taken' = Taken
         \/ Head(queue) # None /\ Taken' = Taken + 1
  PROVE  /\ QueuedOnly' /\ QueuedAll' /\ QueueOrder' /\ Taken' <= accepted'
         /\ Head(queue) # None => Head(queue) = Taken + 1
<1>1. /\ queue \in Seq(Nat) /\ accepted \in Nat /\ Taken \in Nat
      /\ DOMAIN queue = 1..Len(queue) /\ Len(queue) \in Nat
      /\ \A i \in DOMAIN queue : queue[i] \in Nat
  BY DEF TypeOK, Taken
<1>2. /\ Head(queue) = queue[1] /\ Len(queue) >= 1
      /\ DOMAIN queue' = 1..(Len(queue) - 1)
      /\ \A i \in DOMAIN queue' : queue'[i] = queue[i + 1]
  <2>1. queue \in Seq(Nat) /\ queue # <<>> /\ queue' = Tail(queue)
    BY <1>1
  <2> QED
    BY <2>1, TailFacts
<1>3. ASSUME Head(queue) # None
      PROVE  Head(queue) = Taken + 1 /\ Taken + 1 <= accepted
  <2>1. 1 \in DOMAIN queue /\ queue[1] # None
    BY <1>1, <1>2, <1>3
  <2>2. Taken < queue[1] /\ queue[1] <= accepted /\ queue[1] \in Nat
    BY <1>1, <2>1 DEF Order, QueuedOnly
  <2>3. PICK j \in DOMAIN queue : queue[j] = Taken + 1
    BY <1>1, <2>2 DEF Order, QueuedAll
  <2>4. queue[j] # None /\ j \in 1..Len(queue)
    BY <1>1, <2>3 DEF None
  <2>5. 1 < j => queue[1] < queue[j]
    BY <2>1, <2>3, <2>4 DEF Order, QueueOrder
  <2> QED
    BY <1>1, <1>2, <2>2, <2>3, <2>4, <2>5
<1>4. Taken' \in Nat /\ Taken <= Taken' /\ Taken' <= accepted
  BY <1>1, <1>2, <1>3 DEF Order, HandledOrder
<1>5. QueuedOnly'
  <2> SUFFICES ASSUME NEW i \in DOMAIN queue', queue'[i] # None
               PROVE  Taken' < queue'[i] /\ queue'[i] <= accepted
    BY DEF QueuedOnly
  <2>1. i + 1 \in DOMAIN queue /\ queue'[i] = queue[i + 1] /\ 1 \in DOMAIN queue /\ 1 < i + 1
    BY <1>1, <1>2
  <2>2. Taken < queue[i + 1] /\ queue[i + 1] <= accepted /\ queue[i + 1] \in Nat
    BY <1>1, <2>1 DEF Order, QueuedOnly
  <2>3. queue[1] # None => queue[1] < queue[i + 1]
    BY <2>1 DEF Order, QueueOrder
  <2> QED
    BY <1>1, <1>2, <1>3, <2>1, <2>2, <2>3
<1>6. QueuedAll'
  <2> SUFFICES ASSUME NEW w \in 1..accepted, Taken' < w
               PROVE  \E i \in DOMAIN queue' : queue'[i] = w
    BY DEF QueuedAll
  <2>1. PICK j \in DOMAIN queue : queue[j] = w
    BY <1>1, <1>4 DEF Order, QueuedAll
  <2>2. j # 1
    BY <1>1, <1>2, <1>3, <1>4, <2>1 DEF None
  <2>3. j - 1 \in DOMAIN queue' /\ queue'[j - 1] = w
    BY <1>1, <1>2, <2>1, <2>2
  <2> QED
    BY <2>3
<1>7. QueueOrder'
  <2> SUFFICES ASSUME NEW i \in DOMAIN queue', NEW j \in DOMAIN queue',
                      i < j, queue'[i] # None, queue'[j] # None
               PROVE  queue'[i] < queue'[j] /\ queue'[j] - queue'[i] <= j - i
    BY DEF QueueOrder
  <2>1. /\ i + 1 \in DOMAIN queue /\ j + 1 \in DOMAIN queue /\ i + 1 < j + 1
        /\ queue'[i] = queue[i + 1] /\ queue'[j] = queue[j + 1]
    BY <1>1, <1>2
  <2>2. queue[i + 1] < queue[j + 1] /\ queue[j + 1] - queue[i + 1] <= (j + 1) - (i + 1)
    BY <2>1 DEF Order, QueueOrder
  <2> QED
    BY <1>1, <1>2, <2>1, <2>2
<1> QED
  BY <1>3, <1>4, <1>5, <1>6, <1>7
(* A step of shutdown() may queue a sentinel, which is no part of the order. *)
LEMMA OrderSentinel ==
  ASSUME TypeOK, Order, queue' = Append(queue, None),
         UNCHANGED <<accepted, handled, inhand>>, Taken' = Taken
  PROVE  Order'
<1>1. /\ queue \in Seq(Nat) /\ None \in Nat
      /\ DOMAIN queue = 1..Len(queue) /\ Len(queue) \in Nat
  BY DEF TypeOK, None
<1>2. /\ DOMAIN queue' = 1..(Len(queue) + 1)
      /\ queue'[Len(queue) + 1] = None
      /\ \A i \in DOMAIN queue : queue'[i] = queue[i]
  BY <1>1, AppendFacts
<1>3. \A i \in DOMAIN queue' : queue'[i] # None => i \in DOMAIN queue
  BY <1>1, <1>2
<1>4. DOMAIN queue \subseteq DOMAIN queue'
  BY <1>1, <1>2
<1> QED
  BY <1>2, <1>3, <1>4 DEF Order, HandledOrder, QueuedOnly, QueuedAll, QueueOrder

(* The order survives every step. *)
LEMMA OrderStep ==
  ASSUME IInv, [Next]_vars
  PROVE  Order'
<1> USE WriterAssumption DEF queueVars, threadVars, shutdownVars
<1>0. TypeOK /\ Refs /\ Order /\ TypeOK' /\ Refs'
  BY RefsStep DEF IInv
<1>1. ASSUME NEW c \in Callers, EnsureThread(c)
      PROVE  Order'
  <2>1. UNCHANGED <<queue, accepted, handled, inhand>>
    BY <1>1 DEF EnsureThread
  <2>2. Taken' = Taken
    <3>1. CASE IsAlive(thread)
      BY <1>1, <2>1, <3>1 DEF EnsureThread, Taken
    <3>2. CASE ~IsAlive(thread)
      <4>1. thread' \in Threads /\ tpc[thread'] = "unborn"
        BY <1>0, <1>1, <3>2, NewThreadFresh DEF EnsureThread
      <4>2. inhand[thread'] = None
        BY <1>0, <4>1 DEF Refs
      <4>3. thread \in Threads => inhand[thread] = None
        BY <1>0, <3>2 DEF Refs, IsAlive
      <4> QED
        BY <2>1, <4>1, <4>2, <4>3 DEF Taken
    <3> QED
      BY <3>1, <3>2
  <2> QED
    BY <1>0, <2>1, <2>2, OrderFrame
<1>2. ASSUME NEW c \in Callers, StartThread(c) \/ CountDrop(c)
      PROVE  Order'
  BY <1>0, <1>2, OrderFrame DEF StartThread, CountDrop, Taken
<1>3. ASSUME NEW c \in Callers, PutNowait(c)
      PROVE  Order'
  <2>1. CASE Full
    BY <1>0, <1>3, <2>1, OrderFrame DEF PutNowait, Taken
  <2>2. CASE ~Full
    BY <1>0, <1>3, <2>2, OrderAppend DEF PutNowait, Taken
  <2> QED
    BY <2>1, <2>2
<1>4. ASSUME NEW t \in Threads, Get(t)
      PROVE  Order'
  <2>1. /\ t = thread /\ inhand[t] = None /\ queue # <<>> /\ queue' = Tail(queue)
        /\ inhand' = [inhand EXCEPT ![t] = Head(queue)]
        /\ UNCHANGED <<accepted, handled, thread>>
    BY <1>0, <1>4 DEF Get, Refs
  <2>2. inhand'[t] = Head(queue) /\ \A u \in Threads : u # t => inhand'[u] = inhand[u]
    BY <1>0, <2>1 DEF TypeOK
  <2>3. \A u \in Threads : u # t => inhand[u] = None
    BY <1>0, <2>1 DEF Refs
  <2>4. Taken = Len(handled) /\ Taken' = IF Head(queue) # None THEN Taken + 1 ELSE Taken
    BY <2>1, <2>2 DEF Taken
  <2>5. /\ QueuedOnly' /\ QueuedAll' /\ QueueOrder' /\ Taken' <= accepted'
        /\ Head(queue) # None => Head(queue) = Taken + 1
    BY <1>0, <2>1, <2>4, OrderTail
  <2>6. HandledOrder'
    BY <1>0, <2>1, <2>2, <2>3, <2>4, <2>5 DEF HandledOrder, Order
  <2> QED
    BY <2>5, <2>6 DEF Order
<1>5. ASSUME NEW t \in Threads, GetTimeout(t) \/ OnEmpty(t) \/ ThreadEnds(t)
      PROVE  Order'
  BY <1>0, <1>5, OrderFrame DEF GetTimeout, OnEmpty, ThreadEnds, Taken
<1>6. ASSUME NEW t \in Threads, OnSentinel(t)
      PROVE  Order'
  <2>1. inhand[t] = None /\ inhand' = [inhand EXCEPT ![t] = None]
    BY <1>0, <1>6 DEF OnSentinel, Refs
  <2>2. inhand' = inhand
    BY <1>0, <2>1 DEF TypeOK
  <2> QED
    BY <1>0, <1>6, <2>2, OrderFrame DEF OnSentinel, Taken
<1>7. ASSUME NEW t \in Threads, Worked(t) \/ WorkerCrash(t)
      PROVE  Order'
  <2>1. /\ t = thread /\ inhand[t] # None
        /\ handled' = Append(handled, inhand[t])
        /\ inhand' = [inhand EXCEPT ![t] = None]
        /\ UNCHANGED <<queue, accepted, thread>>
    BY <1>0, <1>7 DEF Worked, WorkerCrash, Refs
  <2>2. inhand[t] \in Write /\ handled \in Seq(Write) /\ inhand[t] = Len(handled) + 1
    BY <1>0, <2>1 DEF TypeOK, Order, HandledOrder, Write, None
  <2>3. /\ DOMAIN handled' = 1..(Len(handled) + 1)
        /\ Len(handled') = Len(handled) + 1
        /\ handled'[Len(handled) + 1] = Len(handled) + 1
        /\ \A i \in DOMAIN handled : handled'[i] = handled[i]
    BY <2>1, <2>2, AppendFacts
  <2>4. inhand'[t] = None /\ \A u \in Threads : u # t => inhand'[u] = inhand[u] /\ inhand[u] = None
    BY <1>0, <2>1 DEF TypeOK, Refs
  <2>5. Taken' = Taken
    BY <2>1, <2>3, <2>4 DEF Taken
  <2>6. HandledOrder'
    BY <1>0, <2>1, <2>2, <2>3, <2>4, <2>5 DEF Order, HandledOrder
  <2> QED
    BY <1>0, <2>1, <2>5, <2>6 DEF Order, QueuedOnly, QueuedAll, QueueOrder
<1>8. ASSUME Shutdown
      PROVE  Order'
  <2>1. CASE PutSentinel
    BY <1>0, <2>1, OrderFrame, OrderSentinel DEF PutSentinel, Taken
  <2>2. CASE ~PutSentinel
    BY <1>0, <1>8, <2>2, OrderFrame
    DEF Shutdown, ShutdownTest, SetDraining, Join, JoinReturns, Taken
  <2> QED
    BY <2>1, <2>2
<1>9. CASE UNCHANGED vars
  BY <1>0, <1>9, OrderFrame DEF vars, Taken
<1> QED
  BY <1>1, <1>2, <1>3, <1>4, <1>5, <1>6, <1>7, <1>8, <1>9 DEF Next, Enqueue, DrainLoop

(* The inductive invariant holds in every reachable state. *)
THEOREM Invariance == Spec => []IInv
<1>1. IInv /\ [Next]_vars => IInv'
  BY RefsStep, OrderStep DEF IInv
<1> QED
  BY InitIInv, <1>1, PTL DEF Spec

(* Every variable of the writer keeps its type, and a bounded queue never  *)
(* exceeds maxsize.                                                        *)
THEOREM TypeCorrect == Spec => []TypeOK
BY Invariance, PTL DEF IInv

(* However enqueue(), shutdown() and crashes interleave, at most one drain *)
(* thread of a writer is alive.                                            *)
THEOREM SingleDrainThread == Spec => []OneDrainThread
<1>1. IInv => OneDrainThread
  BY DEF IInv, Refs, OneDrainThread, IsAlive
<1> QED
  BY <1>1, Invariance, PTL

(* No race of enqueue(), shutdown(), crashes and restarts loses an         *)
(* accepted write: it is queued, in hand or handled.                       *)
THEOREM AcceptedWritesKept == Spec => []NoWriteLost
<1>1. ASSUME IInv, NEW w \in 1..accepted
      PROVE  \/ \E i \in DOMAIN handled : handled[i] = w
             \/ \E t \in Threads : inhand[t] = w
             \/ \E i \in DOMAIN queue : queue[i] = w
  <2>1. Len(handled) \in Nat /\ DOMAIN handled = 1..Len(handled) /\ accepted \in Nat
    BY <1>1 DEF IInv, TypeOK
  <2>2. CASE w <= Len(handled)
    BY <1>1, <2>1, <2>2 DEF IInv, Order, HandledOrder
  <2>3. CASE w > Len(handled) /\ w <= Taken
    BY <1>1, <2>1, <2>3 DEF IInv, Order, HandledOrder, Taken
  <2>4. CASE w > Taken
    BY <1>1, <2>1, <2>4 DEF IInv, Order, QueuedAll, Taken
  <2> QED
    BY <2>1, <2>2, <2>3, <2>4 DEF Taken
<1>2. IInv => NoWriteLost
  BY <1>1 DEF NoWriteLost
<1> QED
  BY <1>2, Invariance, PTL
-----------------------------------------------------------------------------
(* Where a shutdown stands: before the flag is set nothing can stop a      *)
(* drain thread; afterwards either all that was owed has been handled, or  *)
(* the same thread is still draining, and has not yet found the queue      *)
(* empty since.                                                            *)
Flagless ==
  /\ ~draining
  /\ \A i \in DOMAIN queue : queue[i] # None
  /\ \A t \in Threads : tpc[t] \notin {"woke", "stopping", "dead"}
  /\ joinOn = NoThread
  /\ spc = "set" => IsAlive(thread)

StillDraining ==
  /\ draining
  /\ thread \in Threads /\ tpc[thread] \in {"get", "woke", "work"}
  /\ joinOn \in {NoThread, thread}

ShutdownInv ==
  /\ owed <= accepted
  /\ spc = "idle" => shutdowns = 0
  /\ spc # "idle" => shutdowns >= 1
  /\ (crashes = 0 /\ spc = "idle") => Flagless
  /\ (crashes = 0 /\ spc = "set" /\ shutdowns = 1) => Flagless
  /\ (crashes = 0 /\ spc \notin {"idle", "set"} /\ shutdowns = 1 /\ ~window) =>
        owed <= Len(handled) \/ StillDraining

(* An empty queue with nothing in hand means that everything was handled. *)
LEMMA EmptyMeansHandled ==
  ASSUME IInv, queue = <<>>, NEW t \in Threads, tpc[t] = "get"
  PROVE  accepted <= Len(handled)
<1>1. accepted \in Nat /\ Len(handled) \in Nat
  BY DEF IInv, TypeOK
<1>2. Taken = Len(handled)
  BY DEF IInv, Refs, Taken
<1>3. DOMAIN queue = {}
  OBVIOUS
<1>4. ~(Taken < accepted)
  BY <1>1, <1>2, <1>3 DEF IInv, Order, QueuedAll
<1> QED
  BY <1>1, <1>2, <1>4

(* The invariant of a shutdown survives every step. *)
LEMMA ShutdownStep ==
  ASSUME IInv, ShutdownInv, [Next]_vars
  PROVE  ShutdownInv'
<1> USE WriterAssumption DEF queueVars, threadVars, shutdownVars, ShutdownInv, Flagless, StillDraining, IsAlive
<1>0. TypeOK /\ Refs /\ Order /\ TypeOK' /\ Refs'
  BY RefsStep DEF IInv
<1>1. ASSUME NEW c \in Callers, EnsureThread(c)
      PROVE  ShutdownInv'
  <2>1. CASE IsAlive(thread)
    BY <1>0, <1>1, <2>1 DEF EnsureThread, TypeOK
  <2>2. CASE ~IsAlive(thread)
    <3>1. /\ thread' \in Threads /\ tpc[thread'] = "unborn"
          /\ tpc' = [tpc EXCEPT ![thread'] = "created"] /\ draining' = FALSE
      BY <1>0, <1>1, <2>2, NewThreadFresh DEF EnsureThread
    <3> QED
      BY <1>0, <1>1, <2>2, <3>1 DEF EnsureThread, TypeOK
  <2> QED
    BY <2>1, <2>2
<1>2. ASSUME NEW c \in Callers, StartThread(c)
      PROVE  ShutdownInv'
  BY <1>0, <1>2 DEF StartThread, TypeOK, Refs
<1>3. ASSUME NEW c \in Callers, PutNowait(c)
      PROVE  ShutdownInv'
  <2>1. CASE Full
    BY <1>0, <1>3, <2>1 DEF PutNowait, TypeOK
  <2>2. CASE ~Full
    <3>1. /\ queue' = Append(queue, accepted + 1) /\ accepted' = accepted + 1
          /\ queue \in Seq(Nat) /\ accepted \in Nat /\ accepted + 1 \in Nat /\ owed \in Nat
          /\ DOMAIN queue = 1..Len(queue) /\ Len(queue) \in Nat
      BY <1>0, <1>3, <2>2 DEF PutNowait, TypeOK
    <3>2. /\ DOMAIN queue' = 1..(Len(queue) + 1)
          /\ queue'[Len(queue) + 1] = accepted + 1
          /\ \A i \in DOMAIN queue : queue'[i] = queue[i]
      BY <3>1, AppendFacts
    <3>3. (\A i \in DOMAIN queue : queue[i] # None) => (\A i \in DOMAIN queue' : queue'[i] # None)
      BY <3>1, <3>2 DEF None
    <3>4. owed <= accepted => owed <= accepted + 1
      BY <3>1
    <3> QED
      BY <1>3, <2>2, <3>1, <3>3, <3>4 DEF PutNowait
  <2> QED
    BY <2>1, <2>2
<1>4. ASSUME NEW c \in Callers, CountDrop(c)
      PROVE  ShutdownInv'
  BY <1>4 DEF CountDrop
<1>5. ASSUME NEW t \in Threads, Get(t)
      PROVE  ShutdownInv'
  <2>1. /\ queue \in Seq(Nat) /\ queue # <<>> /\ queue' = Tail(queue)
        /\ DOMAIN queue = 1..Len(queue) /\ Len(queue) \in Nat
    BY <1>0, <1>5 DEF Get, TypeOK
  <2>2. /\ Head(queue) = queue[1] /\ Len(queue) >= 1
        /\ DOMAIN queue' = 1..(Len(queue) - 1)
        /\ \A i \in DOMAIN queue' : queue'[i] = queue[i + 1]
    BY <2>1, TailFacts
  <2>3. (\A i \in DOMAIN queue : queue[i] # None)
          => Head(queue) # None /\ (\A i \in DOMAIN queue' : queue'[i] # None)
    BY <2>1, <2>2
  <2>4. tpc' = [tpc EXCEPT ![t] = IF Head(queue) = None THEN "woke" ELSE "work"] /\ tpc[t] = "get"
    BY <1>5 DEF Get
  <2>5. UNCHANGED <<accepted, thread, draining, dropped, handled, crashes, cpc, shutdownVars>>
    BY <1>5 DEF Get
  <2>6. \A u \in Threads : tpc'[u] = IF u = t THEN (IF Head(queue) = None THEN "woke" ELSE "work") ELSE tpc[u]
    BY <1>0, <2>4 DEF TypeOK
  <2> QED
    BY <2>3, <2>4, <2>5, <2>6
<1>6. ASSUME NEW t \in Threads, GetTimeout(t)
      PROVE  ShutdownInv'
  <2>1. accepted <= Len(handled) /\ owed \in Nat /\ accepted \in Nat /\ Len(handled) \in Nat
    BY <1>0, <1>6, EmptyMeansHandled DEF GetTimeout, TypeOK
  <2>2. owed <= Len(handled)
    BY <2>1
  <2> QED
    BY <1>0, <1>6, <2>2 DEF GetTimeout, TypeOK
<1>7. ASSUME NEW t \in Threads, OnEmpty(t) \/ OnSentinel(t) \/ ThreadEnds(t)
      PROVE  ShutdownInv'
  BY <1>0, <1>7 DEF OnEmpty, OnSentinel, ThreadEnds, TypeOK, Refs
<1>8. ASSUME NEW t \in Threads, Worked(t)
      PROVE  ShutdownInv'
  <2>1. Len(handled') = Len(handled) + 1 /\ Len(handled) \in Nat /\ owed \in Nat
    BY <1>0, <1>8 DEF Worked, TypeOK, Refs, Write, None
  <2> QED
    BY <1>0, <1>8, <2>1 DEF Worked, TypeOK
<1>9. ASSUME NEW t \in Threads, WorkerCrash(t)
      PROVE  ShutdownInv'
  BY <1>0, <1>9 DEF WorkerCrash, TypeOK
<1>10. ASSUME Shutdown
       PROVE  ShutdownInv'
  <2>1. CASE ShutdownTest
    BY <1>0, <2>1 DEF ShutdownTest, TypeOK
  <2>2. CASE SetDraining
    BY <1>0, <2>2 DEF SetDraining, TypeOK, Refs
  <2>3. CASE PutSentinel
    BY <2>3 DEF PutSentinel
  <2>4. CASE Join
    BY <2>4 DEF Join
  <2>5. ASSUME NEW r, JoinReturns(r)
        PROVE  ShutdownInv'
    BY <2>5 DEF JoinReturns
  <2> QED
    BY <1>10, <2>1, <2>2, <2>3, <2>4, <2>5 DEF Shutdown
<1>11. CASE UNCHANGED vars
  BY <1>11 DEF vars
<1> QED
  BY <1>1, <1>2, <1>3, <1>4, <1>5, <1>6, <1>7, <1>8, <1>9, <1>10, <1>11 DEF Next, Enqueue, DrainLoop

(* The first shutdown() of a writer whose worker does not crash drains     *)
(* every write accepted before its flag was set, unless the flag was set   *)
(* behind a drain thread's timed-out get().                                *)
THEOREM ShutdownDrainsAll == Spec => []ShutdownDrainsOutsideWindow
<1>1. Init => ShutdownInv
  BY WriterAssumption DEF Init, ShutdownInv, Flagless
<1>2. IInv /\ ShutdownInv /\ [Next]_vars => ShutdownInv'
  BY ShutdownStep
<1>3. IInv /\ ShutdownInv => ShutdownDrainsOutsideWindow
  BY WriterAssumption DEF IInv, TypeOK, ShutdownInv, Flagless, StillDraining,
     ShutdownDrainsOutsideWindow, ShutdownDrains
<1> QED
  BY <1>1, <1>2, <1>3, Invariance, PTL DEF Spec

-----------------------------------------------------------------------------
(* The history of accepted writes, as the log it stands for. *)
LogOf(n) == [i \in 1..n |-> i]

(* A write put on a queue that is not full joins the log within its        *)
(* backlog: what is queued is at least what is accepted and not taken.     *)
LEMMA BacklogBound ==
  ASSUME IInv
  PROVE  accepted - Taken <= Len(queue)
<1>1. /\ DOMAIN queue = 1..Len(queue) /\ Len(queue) \in Nat
      /\ accepted \in Nat /\ Taken \in Nat /\ Taken <= accepted
      /\ \A i \in DOMAIN queue : queue[i] \in Nat
  BY DEF IInv, TypeOK, Taken, Order, HandledOrder
<1>2. CASE Taken = accepted
  BY <1>1, <1>2
<1>3. CASE Taken < accepted
  <2>1. PICK i \in DOMAIN queue : queue[i] = Taken + 1
    BY <1>1, <1>3 DEF IInv, Order, QueuedAll
  <2>2. PICK j \in DOMAIN queue : queue[j] = accepted
    BY <1>1, <1>3 DEF IInv, Order, QueuedAll
  <2>3. queue[i] # None /\ queue[j] # None /\ i \in 1..Len(queue) /\ j \in 1..Len(queue)
    BY <1>1, <1>3, <2>1, <2>2 DEF None
  <2>4. i < j => queue[j] - queue[i] <= j - i
    BY <2>3 DEF IInv, Order, QueueOrder
  <2>5. j < i => queue[j] < queue[i]
    BY <2>3 DEF IInv, Order, QueueOrder
  <2> QED
    BY <1>1, <1>3, <2>1, <2>2, <2>3, <2>4, <2>5
<1> QED
  BY <1>1, <1>2, <1>3

(* Every step of the writer is a step of the log or leaves it alone. *)
LEMMA LogStep ==
  ASSUME IInv, [Next]_vars
  PROVE  [Log!Next]_<<accepted, handled>>
<1> USE WriterAssumption DEF queueVars, threadVars, shutdownVars
<1>0. /\ TypeOK /\ Refs /\ Order
      /\ accepted \in Nat /\ handled \in Seq(Write) /\ Len(handled) \in Nat
      /\ Len(queue) \in Nat
  BY DEF IInv, TypeOK
<1>1. ASSUME NEW c \in Callers, PutNowait(c), ~Full
      PROVE  Log!Accept
  <2>1. accepted' = accepted + 1 /\ handled' = handled
    BY <1>1 DEF PutNowait
  <2>2. LogOf(accepted') = Append(LogOf(accepted), accepted + 1)
    BY <1>0, <2>1 DEF LogOf
  <2>3. /\ Len(LogOf(accepted)) = accepted /\ Len(LogOf(accepted')) = accepted + 1
        /\ LogOf(accepted')[accepted + 1] = accepted + 1
    BY <1>0, <2>1 DEF LogOf
  <2>4. MaxSize > 0 => accepted - Len(handled) < MaxSize + 1
    BY <1>0, <1>1, BacklogBound DEF Full, Taken
  <2> QED
    BY <1>0, <2>1, <2>2, <2>3, <2>4 DEF Log!Accept, LogOf, Write
<1>2. ASSUME NEW t \in Threads, Worked(t) \/ WorkerCrash(t)
      PROVE  Log!Handle
  <2>1. /\ tpc[t] = "work" /\ inhand[t] # None /\ thread = t
        /\ handled' = Append(handled, inhand[t]) /\ accepted' = accepted
    BY <1>0, <1>2 DEF Worked, WorkerCrash, Refs
  <2>2. inhand[t] = Len(handled) + 1 /\ Len(handled) + 1 <= accepted
    BY <1>0, <2>1 DEF Order, HandledOrder, Taken
  <2>3. Len(LogOf(accepted)) = accepted /\ LogOf(accepted)[Len(handled) + 1] = Len(handled) + 1
    BY <1>0, <2>2 DEF LogOf
  <2> QED
    BY <1>0, <2>1, <2>2, <2>3 DEF Log!Handle, LogOf
<1>3. ASSUME NEW c \in Callers, Enqueue(c), ~(PutNowait(c) /\ ~Full)
      PROVE  UNCHANGED <<accepted, handled>>
  BY <1>3 DEF Enqueue, EnsureThread, StartThread, PutNowait, CountDrop
<1>4. ASSUME NEW t \in Threads, DrainLoop(t), ~Worked(t)
      PROVE  UNCHANGED <<accepted, handled>>
  BY <1>4 DEF DrainLoop, Get, GetTimeout, OnEmpty, OnSentinel, ThreadEnds
<1>5. ASSUME Shutdown
      PROVE  UNCHANGED <<accepted, handled>>
  BY <1>5 DEF Shutdown, ShutdownTest, SetDraining, PutSentinel, Join, JoinReturns
<1>6. CASE UNCHANGED vars
  BY <1>6 DEF vars
<1> QED
  BY <1>1, <1>2, <1>3, <1>4, <1>5, <1>6 DEF Next, Log!Next

(* The writer implements the bounded log: the worker is given the accepted *)
(* writes in acceptance order, each once, with at most MaxSize waiting.    *)
THEOREM WriterImplementsLog == Spec => ImplementsWriteLog
<1>1. Init => Log!Init
  BY DEF Init, Log!Init
<1>2. IInv /\ [Next]_vars => [Log!Next]_<<accepted, handled>>
  BY LogStep
<1> QED
  BY <1>1, <1>2, Invariance, PTL DEF Spec, ImplementsWriteLog
=============================================================================
