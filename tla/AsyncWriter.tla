----------------------------- MODULE AsyncWriter -----------------------------
(***************************************************************************)
(* The bounded write queue with a background drain thread                  *)
(* (src/hermes_pgvector/writer.py).                                        *)
(*                                                                         *)
(* Three kinds of thread interleave here: callers of enqueue(), one caller *)
(* of shutdown(), and the drain threads that _ensure_thread() starts.  A   *)
(* step of the model is what each of them does between two points at which *)
(* another may run: a queue operation, a read or write of the draining     *)
(* flag, a critical section of _lock, a read of the thread's liveness.     *)
(***************************************************************************)
EXTENDS Integers, Sequences

CONSTANTS Callers,      (* the threads that call enqueue()                  *)
          Threads,      (* the thread objects _ensure_thread() may create   *)
          NoThread,     (* self._thread before the first one                *)
          MaxSize,      (* maxsize of the queue; unbounded if not positive  *)
          MaxWrites,    (* bound on enqueue() calls that completed          *)
          MaxCrashes,   (* bound on drain threads killed by the worker      *)
          MaxShutdowns  (* bound on shutdown() calls                        *)

ASSUME WriterAssumption ==
  /\ NoThread \notin Threads
  /\ MaxSize \in Int
  /\ MaxWrites \in Nat /\ MaxCrashes \in Nat /\ MaxShutdowns \in Nat

(***************************************************************************)
(* A write is named by its place in the order of acceptance, so that the   *)
(* names themselves say what order the worker should see them in.  None is *)
(* the wake-up sentinel that shutdown() puts on the same queue.            *)
(***************************************************************************)
Write == Nat \ {0}
None == 0

VARIABLES
  queue,      (* self._queue: a FIFO of writes and sentinels                *)
  thread,     (* self._thread                                               *)
  draining,   (* self._draining                                             *)
  dropped,    (* self._dropped                                              *)
  tpc,        (* where each drain thread is                                 *)
  inhand,     (* the write a drain thread has taken off the queue           *)
  cpc,        (* where each caller is inside enqueue()                      *)
  spc,        (* where the caller of shutdown() is                          *)
  joinOn,     (* the thread object shutdown() joins                         *)
  leftover,   (* what shutdown() last reported as abandoned                 *)
  accepted,   (* history: how many enqueue() calls returned True            *)
  handled,    (* history: the writes worker_fn was called with              *)
  crashes,    (* history: drain threads killed inside worker_fn             *)
  shutdowns,  (* history: shutdown() calls past the liveness test           *)
  owed,       (* history: accepted when shutdown() set the flag             *)
  window      (* history: the flag was set behind a timed-out get()         *)

queueVars    == <<queue, accepted>>
threadVars   == <<tpc, inhand, handled, crashes>>
shutdownVars == <<spc, joinOn, leftover, shutdowns, owed, window>>
vars == <<queueVars, thread, draining, dropped, threadVars, cpc, shutdownVars>>

(* self._thread and self._thread.is_alive(): a thread that has left its    *)
(* loop is alive until the interpreter has torn it down, and one that was  *)
(* created but not started is not.                                         *)
IsAlive(t) == t \in Threads /\ tpc[t] \in {"get", "empty", "woke", "work", "stopping"}

(* self._lock is held from _ensure_thread's test to its start() call. *)
LockFree == \A c \in Callers : cpc[c] # "start"

Full == MaxSize > 0 /\ Len(queue) >= MaxSize

Init ==
  /\ queue = <<>> /\ thread = NoThread /\ draining = FALSE /\ dropped = 0
  /\ tpc = [t \in Threads |-> "unborn"] /\ inhand = [t \in Threads |-> None]
  /\ cpc = [c \in Callers |-> "idle"]
  /\ spc = "idle" /\ joinOn = NoThread /\ leftover = 0
  /\ accepted = 0 /\ handled = <<>> /\ crashes = 0
  /\ shutdowns = 0 /\ owed = 0 /\ window = FALSE

-----------------------------------------------------------------------------
(* enqueue(): _ensure_thread() under _lock, then put_nowait(). *)

(* self._thread = threading.Thread(...): which of the unused names the new *)
(* thread object gets does not matter.                                     *)
NewThread ==
  LET unborn == {t \in Threads : tpc[t] = "unborn"}
  IN  /\ unborn # {}
      /\ thread' = CHOOSE t \in unborn : TRUE
      /\ tpc' = [tpc EXCEPT ![thread'] = "created"]

(* A variant of _ensure_thread() that starts a thread without testing      *)
(* whether one is alive.                                                   *)
EnsureThread_NoAliveTest(c) ==
  /\ cpc[c] = "idle" /\ LockFree
  /\ accepted + dropped < MaxWrites
  /\ draining' = FALSE
  /\ NewThread
  /\ cpc' = [cpc EXCEPT ![c] = "start"]
  /\ UNCHANGED <<queueVars, dropped, inhand, handled, crashes, shutdownVars>>

EnsureThread(c) ==
  /\ cpc[c] = "idle" /\ LockFree
  /\ accepted + dropped < MaxWrites
  /\ \/ /\ IsAlive(thread)
        /\ cpc' = [cpc EXCEPT ![c] = "put"]
        /\ UNCHANGED <<draining, thread, tpc>>
     \/ /\ ~IsAlive(thread)
        /\ draining' = FALSE
        /\ NewThread
        /\ cpc' = [cpc EXCEPT ![c] = "start"]
  /\ UNCHANGED <<queueVars, dropped, inhand, handled, crashes, shutdownVars>>

(* self._thread.start(), still under _lock. *)
StartThread(c) ==
  /\ cpc[c] = "start"
  /\ cpc' = [cpc EXCEPT ![c] = "put"]
  /\ tpc' = [tpc EXCEPT ![thread] = "get"]
  /\ UNCHANGED <<queueVars, thread, draining, dropped, inhand, handled, crashes, shutdownVars>>

(* A variant of put_nowait() that ignores maxsize. *)
PutNowait_NoBound(c) ==
  /\ cpc[c] = "put"
  /\ queue' = Append(queue, accepted + 1)
  /\ accepted' = accepted + 1
  /\ cpc' = [cpc EXCEPT ![c] = "idle"]
  /\ UNCHANGED <<thread, draining, dropped, threadVars, shutdownVars>>

PutNowait(c) ==
  /\ cpc[c] = "put"
  /\ \/ /\ ~Full
        /\ queue' = Append(queue, accepted + 1)
        /\ accepted' = accepted + 1
        /\ cpc' = [cpc EXCEPT ![c] = "idle"]
     \/ /\ Full
        /\ cpc' = [cpc EXCEPT ![c] = "full"]
        /\ UNCHANGED queueVars
  /\ UNCHANGED <<thread, draining, dropped, threadVars, shutdownVars>>

(* queue.Full: count the drop under _lock and return False. *)
CountDrop(c) ==
  /\ cpc[c] = "full" /\ LockFree
  /\ dropped' = dropped + 1
  /\ cpc' = [cpc EXCEPT ![c] = "idle"]
  /\ UNCHANGED <<queueVars, thread, draining, threadVars, shutdownVars>>

Enqueue(c) == EnsureThread(c) \/ StartThread(c) \/ PutNowait(c) \/ CountDrop(c)

-----------------------------------------------------------------------------
(* _run(): the drain loop. *)

(* queue.get(timeout=0.5) returns an item; None is acknowledged at once.   *)
Get(t) ==
  /\ tpc[t] = "get" /\ queue # <<>>
  /\ queue' = Tail(queue)
  /\ inhand' = [inhand EXCEPT ![t] = Head(queue)]
  /\ tpc' = [tpc EXCEPT ![t] = IF Head(queue) = None THEN "woke" ELSE "work"]
  /\ UNCHANGED <<accepted, thread, draining, dropped, handled, crashes, cpc, shutdownVars>>

(* queue.get(timeout=0.5) times out: get() raises Empty only while the     *)
(* queue is empty, but the flag is read in a later step.                   *)
GetTimeout(t) ==
  /\ tpc[t] = "get" /\ queue = <<>>
  /\ tpc' = [tpc EXCEPT ![t] = "empty"]
  /\ UNCHANGED <<queueVars, thread, draining, dropped, inhand, handled, crashes, cpc, shutdownVars>>

(* A variant of the Empty branch that never leaves the loop. *)
OnEmpty_NeverBreak(t) ==
  /\ tpc[t] = "empty"
  /\ tpc' = [tpc EXCEPT ![t] = "get"]
  /\ UNCHANGED <<queueVars, thread, draining, dropped, inhand, handled, crashes, cpc, shutdownVars>>

(* A variant in which an idle thread stops after one timeout. *)
OnEmpty_AlwaysBreak(t) ==
  /\ tpc[t] = "empty"
  /\ tpc' = [tpc EXCEPT ![t] = "stopping"]
  /\ UNCHANGED <<queueVars, thread, draining, dropped, inhand, handled, crashes, cpc, shutdownVars>>

OnEmpty(t) ==
  /\ tpc[t] = "empty"
  /\ tpc' = [tpc EXCEPT ![t] = IF draining THEN "stopping" ELSE "get"]
  /\ UNCHANGED <<queueVars, thread, draining, dropped, inhand, handled, crashes, cpc, shutdownVars>>

(* A variant of the sentinel branch that takes the sentinel for an order   *)
(* to stop even while draining.                                            *)
OnSentinel_AlwaysBreak(t) ==
  /\ tpc[t] = "woke"
  /\ inhand' = [inhand EXCEPT ![t] = None]
  /\ tpc' = [tpc EXCEPT ![t] = "stopping"]
  /\ UNCHANGED <<queueVars, thread, draining, dropped, handled, crashes, cpc, shutdownVars>>

OnSentinel(t) ==
  /\ tpc[t] = "woke"
  /\ inhand' = [inhand EXCEPT ![t] = None]
  /\ tpc' = [tpc EXCEPT ![t] = IF draining THEN "get" ELSE "stopping"]
  /\ UNCHANGED <<queueVars, thread, draining, dropped, handled, crashes, cpc, shutdownVars>>

(* A variant that treats the flag as a hard stop after the current write. *)
Worked_HardStop(t) ==
  /\ tpc[t] = "work"
  /\ handled' = Append(handled, inhand[t])
  /\ inhand' = [inhand EXCEPT ![t] = None]
  /\ tpc' = [tpc EXCEPT ![t] = IF draining THEN "stopping" ELSE "get"]
  /\ UNCHANGED <<queueVars, thread, draining, dropped, crashes, cpc, shutdownVars>>

(* A variant that puts a write whose worker_fn failed back on the queue. *)
Worked_Requeue(t) ==
  /\ tpc[t] = "work"
  /\ \/ handled' = Append(handled, inhand[t]) /\ queue' = queue
     \/ ~Full /\ queue' = Append(queue, inhand[t]) /\ handled' = handled
  /\ inhand' = [inhand EXCEPT ![t] = None]
  /\ tpc' = [tpc EXCEPT ![t] = "get"]
  /\ UNCHANGED <<accepted, thread, draining, dropped, crashes, cpc, shutdownVars>>

(* worker_fn returns, or raises an Exception that is logged. *)
Worked(t) ==
  /\ tpc[t] = "work"
  /\ handled' = Append(handled, inhand[t])
  /\ inhand' = [inhand EXCEPT ![t] = None]
  /\ tpc' = [tpc EXCEPT ![t] = "get"]
  /\ UNCHANGED <<queueVars, thread, draining, dropped, crashes, cpc, shutdownVars>>

(* worker_fn raises what "except Exception" does not catch: the thread dies. *)
WorkerCrash(t) ==
  /\ tpc[t] = "work" /\ crashes < MaxCrashes
  /\ handled' = Append(handled, inhand[t])
  /\ inhand' = [inhand EXCEPT ![t] = None]
  /\ tpc' = [tpc EXCEPT ![t] = "dead"]
  /\ crashes' = crashes + 1
  /\ UNCHANGED <<queueVars, thread, draining, dropped, cpc, shutdownVars>>

(* A thread past its loop stops being alive. *)
ThreadEnds(t) ==
  /\ tpc[t] = "stopping"
  /\ tpc' = [tpc EXCEPT ![t] = "dead"]
  /\ UNCHANGED <<queueVars, thread, draining, dropped, inhand, handled, crashes, cpc, shutdownVars>>

DrainLoop(t) ==
  Get(t) \/ GetTimeout(t) \/ OnEmpty(t) \/ OnSentinel(t) \/ Worked(t) \/ ThreadEnds(t)

-----------------------------------------------------------------------------
(* shutdown(timeout): every read of self._thread is a step of its own. *)

(* "if not self._thread or not self._thread.is_alive(): return" *)
ShutdownTest ==
  /\ spc \in {"idle", "returned"} /\ shutdowns < MaxShutdowns
  /\ IsAlive(thread)
  /\ spc' = "set"
  /\ shutdowns' = shutdowns + 1
  /\ UNCHANGED <<queueVars, thread, draining, dropped, threadVars, cpc, joinOn, leftover, owed, window>>

SetDraining ==
  /\ spc = "set"
  /\ draining' = TRUE
  /\ owed' = accepted
  /\ window' = \E t \in Threads : tpc[t] = "empty"
  /\ spc' = "sentinel"
  /\ UNCHANGED <<queueVars, thread, dropped, threadVars, cpc, joinOn, leftover, shutdowns>>

(* A variant that makes room for the sentinel by discarding the oldest entry. *)
PutSentinel_Evict ==
  /\ spc = "sentinel"
  /\ queue' = Append(IF Full THEN Tail(queue) ELSE queue, None)
  /\ spc' = "join"
  /\ UNCHANGED <<accepted, thread, draining, dropped, threadVars, cpc, joinOn, leftover, shutdowns, owed, window>>

PutSentinel ==
  /\ spc = "sentinel"
  /\ queue' = IF Full THEN queue ELSE Append(queue, None)
  /\ spc' = "join"
  /\ UNCHANGED <<accepted, thread, draining, dropped, threadVars, cpc, joinOn, leftover, shutdowns, owed, window>>

(* self._thread.join(timeout) on the thread object of this moment: it      *)
(* raises RuntimeError if that object was created but not started.         *)
Join ==
  /\ spc = "join"
  /\ joinOn' = thread
  /\ spc' = IF tpc[thread] = "created" THEN "raised" ELSE "joining"
  /\ UNCHANGED <<queueVars, thread, draining, dropped, threadVars, cpc, leftover, shutdowns, owed, window>>

(* The join returns because the thread ended, or because the timeout ran   *)
(* out; then qsize() is reported as abandoned writes.                      *)
JoinReturns(reason) ==
  /\ spc = "joining"
  /\ reason = "ended" => tpc[joinOn] = "dead"
  /\ spc' = "returned"
  /\ leftover' = Len(queue)
  /\ UNCHANGED <<queueVars, thread, draining, dropped, threadVars, cpc, joinOn, shutdowns, owed, window>>

Shutdown ==
  ShutdownTest \/ SetDraining \/ PutSentinel \/ Join
  \/ JoinReturns("ended") \/ JoinReturns("timeout")

Next ==
  \/ \E c \in Callers : Enqueue(c)
  \/ \E t \in Threads : DrainLoop(t) \/ WorkerCrash(t)
  \/ Shutdown

Spec == Init /\ [][Next]_vars

(***************************************************************************)
(* The operating system schedules every live thread, worker_fn returns     *)
(* (its embed and its database calls have timeouts), a caller finishes an  *)
(* enqueue() it began, and a join() returns.  Nothing obliges anyone to    *)
(* call enqueue() or shutdown().                                           *)
(***************************************************************************)
FairSpec ==
  /\ Spec
  /\ \A t \in Threads : WF_vars(DrainLoop(t))
  /\ \A c \in Callers : WF_vars(StartThread(c) \/ PutNowait(c) \/ CountDrop(c))
  /\ WF_vars(SetDraining \/ PutSentinel \/ Join \/ JoinReturns("timeout"))
-----------------------------------------------------------------------------
(* Every variable has its type, and a bounded queue respects maxsize: even *)
(* the sentinel of shutdown() is refused by a full queue.                  *)
TypeOK ==
  /\ queue \in Seq(Nat)
  /\ MaxSize > 0 => Len(queue) <= MaxSize
  /\ thread \in Threads \cup {NoThread} /\ joinOn \in Threads \cup {NoThread}
  /\ draining \in BOOLEAN /\ window \in BOOLEAN
  /\ dropped \in Nat /\ leftover \in Nat /\ accepted \in Nat /\ owed \in Nat
  /\ crashes \in Nat /\ shutdowns \in Nat
  /\ tpc \in [Threads -> {"unborn", "created", "get", "empty", "woke", "work", "stopping", "dead"}]
  /\ inhand \in [Threads -> Nat]
  /\ cpc \in [Callers -> {"idle", "start", "put", "full"}]
  /\ spc \in {"idle", "set", "sentinel", "join", "joining", "returned", "raised"}
  /\ handled \in Seq(Write)

(* However enqueue(), shutdown() and crashes interleave, at most one drain *)
(* thread of a writer runs: what _ensure_thread()'s test under _lock buys, *)
(* and what keeps the writes of one agent in order.                        *)
OneDrainThread == \A t, u \in Threads : IsAlive(t) /\ IsAlive(u) => t = u

(* A write that enqueue() accepted is always on the queue, in the hands of *)
(* a drain thread, or already given to worker_fn: no race of a shutdown,   *)
(* a crash or a restart makes it disappear (it may be left on the queue).  *)
NoWriteLost ==
  \A w \in 1..accepted :
    \/ \E i \in DOMAIN handled : handled[i] = w
    \/ \E t \in Threads : inhand[t] = w
    \/ \E i \in DOMAIN queue : queue[i] = w

(* The writer implements the bounded log of WriteLog: the worker is given  *)
(* the accepted writes in acceptance order, each once, and at most MaxSize *)
(* of them wait behind the one it has.                                     *)
Log == INSTANCE WriteLog
         WITH log  <- [i \in 1..accepted |-> i],
              done <- handled,
              Backlog <- IF MaxSize > 0 THEN MaxSize + 1 ELSE 0
ImplementsWriteLog == Log!Init /\ [][Log!Next]_<<accepted, handled>>

(* The docstring of shutdown(): the thread exits only once the queue is    *)
(* empty.  So when the thread joined by the first shutdown() of a writer   *)
(* has ended, and no worker crashed, every write accepted before the flag  *)
(* was set has been handled.                                               *)
ShutdownDrains ==
  (/\ shutdowns = 1 /\ crashes = 0
   /\ joinOn \in Threads /\ tpc[joinOn] = "dead") => owed <= Len(handled)

(* What the code does guarantee of that: it holds unless the flag was set  *)
(* between a drain thread's timed-out get() and its reading of the flag.   *)
ShutdownDrainsOutsideWindow == ~window => ShutdownDrains

(* Without a shutdown, a live drain thread that will not crash handles     *)
(* every accepted write, those stranded by an earlier crash too.           *)
LiveThreadHandlesAll ==
  [](spc = "idle") =>
    ((IsAlive(thread) /\ crashes = MaxCrashes) ~> (Len(handled) = accepted))

(* The comment in _run(): a draining thread that takes the sentinel still  *)
(* handles every write already queued behind it.                           *)
SentinelDoesNotCutOff ==
  \A w \in 1..MaxWrites :
    (thread \in Threads /\ tpc[thread] = "woke" /\ draining /\ w <= accepted)
      ~> (w <= Len(handled) \/ crashes > 0)

(* A drain ends: once the flag is set, the thread stops (or another caller *)
(* restarts the writer) even if a full queue refused the wake-up sentinel. *)
DrainTerminates == draining ~> (~IsAlive(thread) \/ ~draining)
=============================================================================
