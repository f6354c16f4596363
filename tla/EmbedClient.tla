------------------------------ MODULE EmbedClient ------------------------------
(***************************************************************************)
(* The embedding client (src/hermes_pgvector/embed.py) under the timing    *)
(* policies of its callers (__init__.py, __main__.py): attempts, the two   *)
(* protocols that share one deadline, back-off, and the drain flag that    *)
(* lets the queued writes of a shutdown skip the endpoint.                 *)
(*                                                                         *)
(* Calls share nothing but the flag and the endpoint, so the model follows *)
(* one call after another.  Time is counted in ticks and passes only while *)
(* a request is out or the client sleeps.  A timeout given to urlopen()    *)
(* bounds each operation on the socket, not the request: every piece that  *)
(* arrives (a connection, a header, part of the body) starts it afresh.    *)
(***************************************************************************)
EXTENDS Integers

CONSTANTS Configured,      (* the values embed_protocol may have             *)
          EmbedTimeout,    (* embed_timeout                                  *)
          WriteTimeout,    (* embed_write_timeout                            *)
          WriteRetries,    (* embed_write_retries                            *)
          WriteBackoff,    (* embed_write_backoff                            *)
          SweepBackoff,    (* the default of embed()'s parameter backoff     *)
          PrefetchBudget,  (* prefetch_budget                                *)
          BudgetMin,       (* _PREFETCH_BUDGET_MIN                           *)
          BudgetMax,       (* _PREFETCH_BUDGET_MAX                           *)
          HostLimit,       (* the host's limit for a prefetch                *)
          MaxPieces        (* bound on the pieces that restart a timeout     *)

ASSUME ClientAssumption ==
  /\ EmbedTimeout \in Nat \ {0} /\ WriteTimeout \in Nat \ {0}
  /\ WriteRetries \in Int /\ WriteBackoff \in Nat /\ SweepBackoff \in Nat
  /\ PrefetchBudget \in Int /\ BudgetMin \in Nat \ {0}
  /\ BudgetMax \in Nat /\ BudgetMin <= BudgetMax /\ BudgetMax < HostLimit
  /\ HostLimit \in Nat /\ MaxPieces \in Nat

(* "recall" stands for the recall tools, the import of initialize() and    *)
(* the worker of queue_prefetch(), which all take embed_timeout.           *)
Callers == {"prefetch", "recall", "worker", "sweep"}

AtLeast(a, b) == IF a < b THEN b ELSE a
AtMost(a, b) == IF a > b THEN b ELSE a

(* A variant: the budget is taken as configured, however large.            *)
ClampedBudget_NoMax == AtLeast(PrefetchBudget, BudgetMin)

ClampedBudget == AtMost(AtLeast(PrefetchBudget, BudgetMin), BudgetMax)
Unlimited == 0 - 1

Timeout(c) == CASE c = "prefetch" -> ClampedBudget
                [] c = "recall"   -> EmbedTimeout
                [] OTHER          -> WriteTimeout
Retries(c) == CASE c = "worker" -> WriteRetries
                [] c = "sweep"  -> 1
                [] OTHER        -> 0
Backoff(c) == IF c = "worker" THEN WriteBackoff ELSE SweepBackoff
MaxTotal(c) == IF c = "worker" THEN 2 * WriteTimeout ELSE Unlimited
Attempts(c) == AtLeast(Retries(c), 0) + 1

Protocols == {"auto", "openai", "ollama"}
Normalized(p) == IF p \in Protocols THEN p ELSE "auto"

Paths == {"openai", "ollama"}
PathsOf(p) == IF p = "auto" THEN Paths ELSE {p}

VARIABLES
  protocol,   (* embed_protocol as configured                               *)
  endpoint,   (* the paths it serves, whether the model's dimension is the  *)
              (* configured one, and whether the key's variable is sound    *)
  draining,   (* provider._draining                                         *)
  caller,     (* who made the call                                          *)
  pc,         (* where the call is; the name of a path: its request is out  *)
  i,          (* the attempt                                                *)
  now,        (* ticks since the call began                                 *)
  started,    (* when the attempt began                                     *)
  timeout,    (* what the request was given                                 *)
  sock,       (* ticks that the operation on the socket may still take      *)
  nap,        (* ticks left to sleep                                        *)
  error,      (* last_exc                                                   *)
  pieces,     (* history: pieces that arrived in this call                  *)
  faults,     (* history: attempts of this call that a fault ended promptly *)
  unfair,     (* history: time was lost or the endpoint changed             *)
  drainSpent  (* history: ticks the drain thread embedded while draining    *)

config   == <<protocol, endpoint, draining>>
progress == <<caller, i, now, started>>
request  == <<timeout, sock, nap>>
history  == <<pieces, faults, unfair, drainSpent>>
vars == <<config, progress, request, pc, error, history>>

Errors == {"none", "input", "key", "broken", "timeout", "status", "dimension"}

Init ==
  /\ protocol \in Configured
  /\ endpoint = [serves |-> Paths, dims |-> TRUE, key |-> TRUE]
  /\ draining = FALSE /\ caller = "recall" /\ pc = "idle" /\ i = 0
  /\ now = 0 /\ started = 0 /\ timeout = 0 /\ sock = 0 /\ nap = 0
  /\ error = "none" /\ pieces = 0 /\ faults = 0 /\ unfair = FALSE
  /\ drainSpent = 0

(* A variant: the drain thread embeds during a shutdown as ever.           *)
Begin_IgnoresDraining(c) ==
  /\ pc = "idle"
  /\ caller' = c /\ pc' = "attempt" /\ error' = "none"
  /\ i' = 0 /\ now' = 0 /\ started' = 0 /\ pieces' = 0 /\ faults' = 0
  /\ unfair' = FALSE
  /\ UNCHANGED <<config, request, drainSpent>>

(* embed() is called.  _maybe_embed() skips it while the queue is drained, *)
(* and an empty text is refused without a request.                         *)
Begin(c) ==
  /\ pc = "idle"
  /\ c = "worker" => ~draining
  /\ caller' = c
  /\ \/ pc' = "attempt" /\ error' = "none"
     \/ pc' = "raised" /\ error' = "input"
  /\ i' = 0 /\ now' = 0 /\ started' = 0 /\ pieces' = 0 /\ faults' = 0
  /\ unfair' = FALSE
  /\ UNCHANGED <<config, request, drainSpent>>

(* _post() sends the request with t ticks, or refuses a malformed key.     *)
Send(path, t, failed) ==
  \/ /\ endpoint.key /\ pc' = path /\ timeout' = t /\ sock' = t
     /\ UNCHANGED <<error, unfair>>
  \/ /\ ~endpoint.key /\ pc' = failed /\ error' = "key" /\ unfair' = TRUE
     /\ UNCHANGED <<timeout, sock>>

(* Where a failed request on a path leads.                                 *)
Failed(path) == IF path = "openai" THEN "failedA" ELSE "failed"

(* The request is over.                                                    *)
Closed == timeout' = 0 /\ sock' = 0 /\ UNCHANGED nap

Attempt ==
  /\ pc = "attempt"
  /\ started' = now
  /\ IF Normalized(protocol) = "ollama"
       THEN Send("ollama", Timeout(caller), "failed")
       ELSE Send("openai", Timeout(caller), "failedA")
  /\ UNCHANGED <<config, caller, i, now, nap, pieces, faults, drainSpent>>

(* The OpenAI path failed: a wrong dimension, or a protocol without a      *)
(* second path, ends the attempt, and so does a deadline that has passed.  *)
Remaining == Timeout(caller) - (now - started)

RaiseA ==
  /\ pc = "failedA"
  /\ \/ error = "dimension"
     \/ Normalized(protocol) = "openai"
     \/ Remaining <= 0
  /\ pc' = "failed"
  /\ unfair' = (unfair \/ Remaining <= 0)
  /\ UNCHANGED <<config, progress, request, error, pieces, faults, drainSpent>>

(* Variants: the second path gets a fresh timeout; it is tried after a     *)
(* wrong dimension; it is tried with what is left, even if nothing is.     *)
TryB_FreshTimeout ==
  /\ pc = "failedA"
  /\ error # "dimension" /\ Normalized(protocol) # "openai"
  /\ Send("ollama", Timeout(caller), "failed")
  /\ UNCHANGED <<config, progress, nap, pieces, faults, drainSpent>>

TryB_AnyError ==
  /\ pc = "failedA"
  /\ Normalized(protocol) # "openai" /\ Remaining > 0
  /\ Send("ollama", Remaining, "failed")
  /\ UNCHANGED <<config, progress, nap, pieces, faults, drainSpent>>

TryB_NothingLeft ==
  /\ pc = "failedA"
  /\ error # "dimension" /\ Normalized(protocol) # "openai"
  /\ Send("ollama", Remaining, "failed")
  /\ UNCHANGED <<config, progress, nap, pieces, faults, drainSpent>>

TryB ==
  /\ pc = "failedA"
  /\ error # "dimension" /\ Normalized(protocol) # "openai" /\ Remaining > 0
  /\ Send("ollama", Remaining, "failed")
  /\ UNCHANGED <<config, progress, nap, pieces, faults, drainSpent>>

(* The attempt failed: raise, or sleep and try again.                      *)
OverBudget == MaxTotal(caller) # Unlimited /\ now >= MaxTotal(caller)

(* A variant: as many attempts as retries.                                 *)
GiveUp_OffByOne ==
  /\ pc = "failed"
  /\ i + 2 >= Attempts(caller) \/ OverBudget
  /\ pc' = "raised"
  /\ unfair' = (unfair \/ i + 2 < Attempts(caller))
  /\ UNCHANGED <<config, progress, request, error, pieces, faults, drainSpent>>

GiveUp ==
  /\ pc = "failed"
  /\ i + 1 >= Attempts(caller) \/ OverBudget
  /\ pc' = "raised"
  /\ unfair' = (unfair \/ i + 1 < Attempts(caller))
  /\ UNCHANGED <<config, progress, request, error, pieces, faults, drainSpent>>

Sleep ==
  /\ pc = "failed"
  /\ i + 1 < Attempts(caller) /\ ~OverBudget
  /\ pc' = "nap" /\ nap' = Backoff(caller) * 2^i
  /\ UNCHANGED <<config, progress, timeout, sock, error, history>>

Wake ==
  /\ pc = "nap" /\ nap = 0
  /\ pc' = "attempt" /\ i' = i + 1
  /\ UNCHANGED <<config, caller, now, started, request, error, history>>

(* The caller takes the vector, or goes on without one.                    *)
Return ==
  /\ pc \in {"returned", "raised"}
  /\ pc' = "idle" /\ error' = "none"
  /\ i' = 0 /\ now' = 0 /\ started' = 0
  /\ pieces' = 0 /\ faults' = 0 /\ unfair' = FALSE
  /\ UNCHANGED <<config, caller, request, drainSpent>>

Client == \/ \E c \in Callers : Begin(c)
          \/ Attempt \/ RaiseA \/ TryB \/ GiveUp \/ Sleep \/ Wake \/ Return

(* ---- The clock and the endpoint --------------------------------------- *)

Tick ==
  /\ \/ pc \in Paths /\ sock > 0 /\ sock' = sock - 1 /\ UNCHANGED nap
     \/ pc = "nap" /\ nap > 0 /\ nap' = nap - 1 /\ UNCHANGED sock
  /\ now' = now + 1
  /\ drainSpent' = IF draining /\ caller = "worker" THEN drainSpent + 1
                                                    ELSE drainSpent
  /\ UNCHANGED <<config, caller, i, started, timeout, pc, error, pieces,
                 faults, unfair>>

Piece ==
  /\ pc \in Paths /\ pieces < MaxPieces
  /\ sock' = timeout /\ pieces' = pieces + 1
  /\ UNCHANGED <<config, progress, timeout, nap, pc, error, faults, unfair,
                 drainSpent>>

SocketTimeout ==
  /\ pc \in Paths /\ sock = 0
  /\ pc' = Failed(pc) /\ error' = "timeout" /\ unfair' = TRUE /\ Closed
  /\ UNCHANGED <<config, progress, pieces, faults, drainSpent>>

(* The request ends without a usable answer: no connection, a server       *)
(* error, a body that is not JSON or of another shape, a vector that is    *)
(* not finite.                                                             *)
Breaks ==
  /\ pc \in Paths
  /\ pc' = Failed(pc) /\ error' = "broken" /\ faults' = faults + 1 /\ Closed
  /\ UNCHANGED <<config, progress, pieces, unfair, drainSpent>>

Answers ==
  /\ pc \in Paths
  /\ \/ pc \notin endpoint.serves /\ pc' = Failed(pc) /\ error' = "status"
     \/ /\ pc \in endpoint.serves /\ ~endpoint.dims
        /\ pc' = Failed(pc) /\ error' = "dimension"
     \/ /\ pc \in endpoint.serves /\ endpoint.dims
        /\ pc' = "returned" /\ error' = "none"
  /\ Closed
  /\ UNCHANGED <<config, progress, history>>

(* An operator restarts the endpoint, or rotates the key's variable, which *)
(* each request reads anew.                                                *)
EndpointChanges ==
  /\ endpoint' \in [serves : SUBSET Paths, dims : BOOLEAN, key : BOOLEAN]
  /\ unfair' = (pc # "idle")
  /\ UNCHANGED <<protocol, draining, progress, request, pc, error, pieces,
                 faults, drainSpent>>

(* shutdown() sets the flag, whatever the drain thread is doing, and the   *)
(* next initialize() clears it.                                            *)
SetDraining ==
  /\ ~draining /\ draining' = TRUE /\ drainSpent' = 0
  /\ UNCHANGED <<protocol, endpoint, progress, request, pc, error, pieces,
                 faults, unfair>>

Initialize ==
  /\ draining /\ draining' = FALSE /\ drainSpent' = 0
  /\ UNCHANGED <<protocol, endpoint, progress, request, pc, error, pieces,
                 faults, unfair>>

Next == \/ Client
        \/ Tick \/ Piece \/ SocketTimeout \/ Breaks \/ Answers
        \/ EndpointChanges \/ SetDraining \/ Initialize

Spec == Init /\ [][Next]_vars

(* ---- Properties -------------------------------------------------------- *)

(* The shape of the call's local state and of its environment.             *)
TypeOK ==
  /\ protocol \in Configured
  /\ endpoint \in [serves : SUBSET Paths, dims : BOOLEAN, key : BOOLEAN]
  /\ draining \in BOOLEAN /\ caller \in Callers /\ error \in Errors
  /\ pc \in {"idle", "attempt", "failedA", "failed", "nap", "returned",
             "raised"} \cup Paths
  /\ i \in 0..(Attempts(caller) - 1)
  /\ now \in Nat /\ started \in 0..now /\ nap \in Nat
  /\ timeout \in Nat /\ sock \in 0..timeout
  /\ pieces \in 0..MaxPieces /\ faults \in Nat
  /\ unfair \in BOOLEAN /\ drainSpent \in Nat

(* What the timing policy of a caller promises: every attempt within its   *)
(* timeout, and for the drain thread no attempt after max_total, although  *)
(* the last one may start a back-off later and run for a whole timeout.    *)
EveryAttempt(c) ==
  Attempts(c) * Timeout(c) + Backoff(c) * (2^(Attempts(c) - 1) - 1)
LastAttempt(c) ==
  MaxTotal(c) - 1 + Backoff(c) * 2^(Attempts(c) - 2) + Timeout(c)
CallBound(c) ==
  IF Attempts(c) = 1 \/ MaxTotal(c) = Unlimited
    THEN EveryAttempt(c)
    ELSE AtMost(EveryAttempt(c), LastAttempt(c))

(* A call lasts no longer than its caller's policy, whichever protocols it *)
(* tries, plus one timeout for every piece of an answer that restarts the  *)
(* timeout of the socket: a single attempt of auto has one deadline for    *)
(* both paths, and retries end with the budget (embed.py 157-192, 220-258). *)
CallBounded == now <= CallBound(caller) + pieces * Timeout(caller)

(* A prefetch whose endpoint answers in one piece returns before the host  *)
(* gives it up, whatever prefetch_budget says (__init__.py 938-946).       *)
PrefetchWithinHost == caller = "prefetch" /\ pieces = 0 => now < HostLimit

(* However many writes are queued, the drain of a shutdown waits for no    *)
(* more than the one embedding that was under way (__init__.py 799-811,    *)
(* 2221-2228).                                                             *)
DrainDelayBounded ==
  drainSpent <= CallBound("worker") + MaxPieces * WriteTimeout

(* An endpoint that serves a path of the configured protocol, with the     *)
(* right model, and loses no time, yields a vector unless more attempts    *)
(* were broken than the caller retries: auto finds the path that is        *)
(* served, and an attempt lost on one path costs one retry                 *)
(* (embed.py 157-192, 220-258).                                            *)
Reachable == endpoint.serves \cap PathsOf(Normalized(protocol)) # {}

FaultsAbsorbed ==
  /\ pc = "raised" /\ error # "input" /\ ~unfair
  /\ Reachable /\ endpoint.dims
  => faults >= Attempts(caller)

(* A model of the wrong dimension is reported as such, on either path and  *)
(* after any number of attempts, never as the other path's status          *)
(* (embed.py 99-106, 233-237).                                             *)
MisconfigurationNamed ==
  /\ pc = "raised" /\ error # "input" /\ ~unfair /\ faults = 0
  /\ Reachable /\ ~endpoint.dims
  => error = "dimension"
=============================================================================
