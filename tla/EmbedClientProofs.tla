--------------------------- MODULE EmbedClientProofs ---------------------------
(***************************************************************************)
(* How long a call may take and how it ends, for any timeouts, retries and *)
(* budgets, any configured protocol and whatever the endpoint does.        *)
(***************************************************************************)
EXTENDS EmbedClient, FiniteSetTheorems, TLAPS

(* When the attempt k begins at the latest, and when the last one does     *)
(* under a total budget, if no piece of an answer restarts a timeout.      *)
Begins(c, k) == k * Timeout(c) + Backoff(c) * (2^k - 1)
LastBegins(c) == MaxTotal(c) - 1 + Backoff(c) * 2^(Attempts(c) - 2)
Limited == Attempts(caller) > 1 /\ MaxTotal(caller) # Unlimited

Slack == pieces * Timeout(caller)
Started == pc \in Paths \cup {"failedA"}
Ended == pc \in {"failedA", "failed", "returned", "raised"}

(* The attempt begins by start, and the next one, if the client sleeps     *)
(* before it, by next.                                                     *)
InTime(start, next) ==
  /\ pc = "attempt" => now <= start + Slack
  /\ Started => started <= start + Slack
  /\ pc \in Paths => now + sock <= start + Timeout(caller) + Slack
  /\ Ended => now <= start + Timeout(caller) + Slack
  /\ pc = "nap" => now + nap <= next + Slack

(* Where the call stands. *)
Stage ==
  /\ pc = "idle" => now = 0
  /\ pc = "nap" => i + 1 < Attempts(caller)
  /\ pc \in Paths => timeout <= Timeout(caller)
  /\ pc \in {"openai", "failedA"} => Normalized(protocol) # "ollama"
  /\ pc = "ollama" => Normalized(protocol) # "openai"

Timely ==
  /\ InTime(Begins(caller, i), Begins(caller, i + 1))
  /\ Limited => InTime(LastBegins(caller), LastBegins(caller))

(* The drain thread embeds during a shutdown only in the call that was     *)
(* under way when it began.                                                *)
OneCall == draining /\ caller = "worker" /\ pc # "idle" => drainSpent <= now

(* While the endpoint serves the right model and no time was lost, every   *)
(* attempt that failed was broken.                                         *)
Broken ==
  ~unfair /\ Reachable /\ endpoint.dims =>
    /\ pc \in Paths \cup {"attempt", "failedA"} => faults >= i
    /\ pc = "failedA" =>
         (error = "status" /\ "openai" \notin endpoint.serves) \/ faults > i
    /\ pc = "failedA" => error # "dimension"
    /\ pc = "ollama" => "ollama" \in endpoint.serves \/ faults > i
    /\ pc \in {"failed", "nap"} => faults > i
    /\ pc = "raised" /\ error # "input" => faults >= Attempts(caller)

(* While it serves the wrong one and nothing breaks, each attempt ends     *)
(* with the path that is served and its wrong dimension.                   *)
Named ==
  ~unfair /\ faults = 0 /\ Reachable /\ ~endpoint.dims =>
    /\ pc = "failedA" =>
         error = "dimension" \/ (error = "status" /\ "openai" \notin endpoint.serves)
    /\ pc = "ollama" => "ollama" \in endpoint.serves
    /\ pc \in {"failed", "nap"} => error = "dimension"
    /\ pc = "raised" => error \in {"dimension", "input"}

IInv ==
  TypeOK /\ Stage /\ Timely /\ OneCall /\ DrainDelayBounded /\ Broken /\ Named

-----------------------------------------------------------------------------
(* Powers of two, which no prover knows: the subsets of 1..n are 2^n. *)

LEMMA Powers ==
  ASSUME NEW n \in Nat
  PROVE  2^n \in Nat \ {0} /\ 2^(n + 1) = 2^n + 2^n
<1> DEFINE S == 1..n
           more == {X \cup {n + 1} : X \in SUBSET S}
           f == [X \in SUBSET S |-> X \cup {n + 1}]
<1>1. n + 1 \notin S /\ S \cup {n + 1} = 1..(n + 1) /\ n + 1 \in Nat
  OBVIOUS
<1>2. IsFiniteSet(S) /\ Cardinality(S) = n
  BY FS_Interval
<1>3. IsFiniteSet(1..(n + 1)) /\ Cardinality(1..(n + 1)) = n + 1
  BY FS_Interval
<1> HIDE DEF S
<1>4. IsFiniteSet(SUBSET S) /\ Cardinality(SUBSET S) = 2^n
  BY <1>2, FS_SUBSET
<1>5. IsFiniteSet(SUBSET (S \cup {n + 1})) /\ Cardinality(SUBSET (S \cup {n + 1})) = 2^(n + 1)
  BY <1>1, <1>3, FS_SUBSET
<1>6. SUBSET (S \cup {n + 1}) = (SUBSET S) \cup more
  <2>1. ASSUME NEW X \in SUBSET (S \cup {n + 1}), X \notin SUBSET S PROVE X \in more
    <3>1. X \ {n + 1} \in SUBSET S /\ X = (X \ {n + 1}) \cup {n + 1}
      BY <2>1
    <3> QED
      BY <3>1
  <2> QED
    BY <2>1
<1>7. (SUBSET S) \cap more = {}
  BY <1>1
<1>8. IsFiniteSet(more) /\ Cardinality(more) = Cardinality(SUBSET S)
  <2>1. f \in Surjection(SUBSET S, more)
    BY DEF Surjection
  <2>2. f \in Injection(SUBSET S, more)
    <3>1. f \in [SUBSET S -> more]
      OBVIOUS
    <3>2. ASSUME NEW a \in SUBSET S, NEW b \in SUBSET S, f[a] = f[b] PROVE a = b
      <4>1. a \cup {n + 1} = b \cup {n + 1}
        BY <3>2
      <4> QED
        BY <1>1, <4>1
    <3> QED
      BY <3>1, <3>2 DEF Injection, IsInjective
  <2> HIDE DEF f, more
  <2> QED
    BY <1>4, <2>1, <2>2, FS_Surjection
<1> HIDE DEF more
<1>9. Cardinality((SUBSET S) \cup more) = Cardinality(SUBSET S) + Cardinality(more)
  <2>1. Cardinality((SUBSET S) \cup more)
          = Cardinality(SUBSET S) + Cardinality(more) - Cardinality((SUBSET S) \cap more)
    BY <1>4, <1>8, FS_Union
  <2>2. Cardinality((SUBSET S) \cap more) = 0
    BY <1>7, FS_EmptySet
  <2>3. Cardinality(SUBSET S) \in Nat /\ Cardinality(more) \in Nat
    BY <1>4, <1>8, FS_CardinalityType
  <2> QED
    BY <2>1, <2>2, <2>3
<1>10. 2^n \in Nat \ {0}
  <2>1. Cardinality(SUBSET S) \in Nat /\ (Cardinality(SUBSET S) = 0 <=> SUBSET S = {})
    BY <1>4, FS_CardinalityType, FS_EmptySet
  <2>2. {} \in SUBSET S
    OBVIOUS
  <2> QED
    BY <1>4, <2>1, <2>2
<1> QED
  BY <1>4, <1>5, <1>6, <1>8, <1>9, <1>10

LEMMA PowerOfZero == 2^0 = 1
<1>1. IsFiniteSet({}) /\ Cardinality({}) = 0
  BY FS_EmptySet
<1>2. Cardinality(SUBSET {}) = 2^0
  BY <1>1, FS_SUBSET
<1>3. SUBSET {} = {{}}
  OBVIOUS
<1>4. Cardinality({{}}) = 1
  BY FS_Singleton
<1> QED
  BY <1>2, <1>3, <1>4

LEMMA PowersGrow ==
  ASSUME NEW m \in Nat, NEW n \in Nat, m <= n
  PROVE  2^m <= 2^n
<1>1. IsFiniteSet(1..m) /\ Cardinality(1..m) = m /\ IsFiniteSet(1..n) /\ Cardinality(1..n) = n
  BY FS_Interval
<1>2. /\ Cardinality(SUBSET (1..m)) = 2^m
      /\ IsFiniteSet(SUBSET (1..n)) /\ Cardinality(SUBSET (1..n)) = 2^n
  BY <1>1, FS_SUBSET
<1>3. SUBSET (1..m) \subseteq SUBSET (1..n)
  OBVIOUS
<1> QED
  BY <1>2, <1>3, FS_Subset

LEMMA Times ==
  ASSUME NEW a \in Int, NEW b \in Int, NEW k \in Nat, a <= b
  PROVE  /\ k * a \in Int /\ k * b \in Int /\ k * a <= k * b
         /\ a * k \in Int /\ b * k \in Int /\ a * k <= b * k
<1>1. PICK d \in Nat : b = a + d
  <2>1. b - a \in Nat /\ b = a + (b - a)
    OBVIOUS
  <2> QED
    BY <2>1
<1>2. k * d \in Nat
  OBVIOUS
<1>3. k * b = k * a + k * d /\ k * a \in Int
  BY <1>1
<1>4. b * k = k * b /\ a * k = k * a
  OBVIOUS
<1> QED
  BY <1>2, <1>3, <1>4

-----------------------------------------------------------------------------
(* The callers' policies *)

LEMMA Policy ==
  ASSUME NEW c \in Callers
  PROVE  /\ Timeout(c) \in Nat \ {0} /\ Attempts(c) \in Nat \ {0} /\ Backoff(c) \in Nat
         /\ MaxTotal(c) \in Int /\ (MaxTotal(c) # Unlimited => MaxTotal(c) \in Nat \ {0})
         /\ c = "prefetch" => /\ Timeout(c) = ClampedBudget /\ Timeout(c) < HostLimit
                              /\ Attempts(c) = 1
  BY ClientAssumption DEF Callers, Timeout, Attempts, Retries, Backoff, MaxTotal, Unlimited,
     ClampedBudget, AtLeast, AtMost

LEMMA BeginsNext ==
  ASSUME NEW c \in Callers, NEW k \in Nat
  PROVE  /\ Begins(c, k) \in Nat /\ Begins(c, 0) = 0
         /\ Begins(c, k + 1) = Begins(c, k) + Timeout(c) + Backoff(c) * 2^k
         /\ Backoff(c) * 2^k \in Nat
<1> DEFINE T == Timeout(c)
           B == Backoff(c)
           p == 2^k
           q == 2^(k + 1)
<1>1. T \in Nat /\ B \in Nat
  BY Policy
<1>2. p \in Nat \ {0} /\ q = p + p /\ 2^0 = 1
  BY Powers, PowerOfZero
<1>3. p >= 1
  BY <1>2
<1>4. /\ Begins(c, k) = k * T + B * (p - 1)
      /\ Begins(c, k + 1) = (k + 1) * T + B * (q - 1)
      /\ Begins(c, 0) = 0 * T + B * (1 - 1)
  BY <1>2 DEF Begins
<1> HIDE DEF T, B, p, q
<1>5. k * T \in Nat /\ B * (p - 1) \in Nat /\ B * p \in Nat
  BY <1>1, <1>2, <1>3
<1>6. (k + 1) * T = k * T + T
  BY <1>1
<1>7. B * (q - 1) = B * (p - 1) + B * p
  <2>1. q - 1 = (p - 1) + p
    BY <1>2
  <2> QED
    BY <1>1, <1>2, <2>1
<1>8. 0 * T + B * (1 - 1) = 0
  BY <1>1
<1> QED
  BY <1>1, <1>4, <1>5, <1>6, <1>7, <1>8 DEF T, B, p

LEMMA BeginsGrow ==
  ASSUME NEW c \in Callers, NEW k \in Nat, NEW m \in Nat, k <= m
  PROVE  Begins(c, k) <= Begins(c, m)
<1> DEFINE T == Timeout(c)
           B == Backoff(c)
           p == 2^k
           q == 2^m
<1>1. T \in Nat /\ B \in Nat
  BY Policy
<1>2. p \in Nat /\ q \in Nat /\ p <= q
  BY Powers, PowersGrow
<1>3. Begins(c, k) = k * T + B * (p - 1) /\ Begins(c, m) = m * T + B * (q - 1)
  BY DEF Begins
<1> HIDE DEF T, B, p, q
<1>4. k * T <= m * T /\ k * T \in Int /\ m * T \in Int
  BY <1>1, Times
<1>5. p - 1 <= q - 1 /\ p - 1 \in Int /\ q - 1 \in Int
  BY <1>2
<1>6. B * (p - 1) <= B * (q - 1) /\ B * (p - 1) \in Int /\ B * (q - 1) \in Int
  BY <1>1, <1>5, Times
<1> QED
  BY <1>3, <1>4, <1>6

(* A back-off that the budget still allowed ends by LastBegins. *)
LEMMA LastBeginsLast ==
  ASSUME NEW c \in Callers, Attempts(c) > 1, MaxTotal(c) # Unlimited
  PROVE  /\ LastBegins(c) \in Nat
         /\ \A k \in Nat : k + 1 < Attempts(c) =>
              MaxTotal(c) - 1 + Backoff(c) * 2^k <= LastBegins(c)
<1> DEFINE n == Attempts(c) - 2
           B == Backoff(c)
           M == MaxTotal(c)
<1>1. n \in Nat /\ B \in Nat /\ M \in Nat \ {0}
  BY Policy
<1>2. LastBegins(c) = M - 1 + B * 2^n
  BY DEF LastBegins
<1>3. 2^n \in Nat
  BY <1>1, Powers
<1>4. ASSUME NEW k \in Nat, k + 1 < Attempts(c)
      PROVE  M - 1 + B * 2^k <= M - 1 + B * 2^n
  <2>1. k <= n
    BY <1>4, Policy
  <2>2. 2^k <= 2^n /\ 2^k \in Nat
    BY <1>1, <2>1, PowersGrow, Powers
  <2>3. B * 2^k <= B * 2^n /\ B * 2^k \in Int /\ B * 2^n \in Int
    BY <1>1, <1>3, <2>2, Times
  <2> HIDE DEF B, M, n
  <2> QED
    BY <1>1, <2>3
<1>5. B * 2^n \in Nat
  BY <1>1, <1>3
<1>6. M - 1 + B * 2^n \in Nat
  BY <1>1, <1>5
<1> QED
  BY <1>2, <1>4, <1>6

-----------------------------------------------------------------------------
(* Types and stages *)

(* What the call and its environment may be. *)
LEMMA Facts ==
  ASSUME TypeOK
  PROVE  /\ caller \in Callers /\ i \in Nat /\ i + 1 <= Attempts(caller) /\ now \in Nat
         /\ started \in Nat /\ started <= now /\ nap \in Nat /\ timeout \in Nat
         /\ sock \in Nat /\ sock <= timeout /\ pieces \in Nat /\ pieces <= MaxPieces
         /\ faults \in Nat /\ drainSpent \in Nat /\ draining \in BOOLEAN /\ unfair \in BOOLEAN
         /\ endpoint \in [serves : SUBSET Paths, dims : BOOLEAN, key : BOOLEAN]
<1>1. caller \in Callers /\ i \in 0..(Attempts(caller) - 1) /\ pieces \in 0..MaxPieces
  BY DEF TypeOK
<1>2. Attempts(caller) \in Nat /\ MaxPieces \in Nat
  BY <1>1, Policy, ClientAssumption
<1> QED
  BY <1>1, <1>2 DEF TypeOK

(* Where a sent request leads. *)
LEMMA Sent ==
  ASSUME TypeOK, NEW path \in Paths, NEW t \in Nat, NEW failed \in {"failedA", "failed"},
         Send(path, t, failed)
  PROVE  /\ pc' \in {path, failed} /\ timeout' \in Nat /\ sock' \in 0..timeout'
         /\ error' \in Errors /\ unfair' \in BOOLEAN
         /\ pc' = path => timeout' = t /\ sock' = t /\ unfair' = unfair
         /\ pc' = failed => unfair' = TRUE
<1>1. CASE endpoint.key
  BY <1>1 DEF Send, TypeOK, Paths
<1>2. CASE ~endpoint.key
  BY <1>2 DEF Send, TypeOK, Paths, Errors
<1> QED
  BY <1>1, <1>2

LEMMA TypeStep ==
  ASSUME TypeOK, Stage, [Next]_vars
  PROVE  TypeOK'
<1>1. ASSUME NEW c \in Callers, Begin(c) PROVE TypeOK'
  <2>1. Attempts(c) \in Nat \ {0}
    BY Policy
  <2>2. 0 \in 0..(Attempts(c) - 1) /\ 0 \in 0..0 /\ 0 \in Nat /\ 0 \in 0..MaxPieces
    BY <2>1, ClientAssumption
  <2>3. error' \in Errors /\ pc' \in {"attempt", "raised"}
    BY <1>1 DEF Begin, Errors
  <2>4. /\ caller' = c /\ i' = 0 /\ now' = 0 /\ started' = 0 /\ pieces' = 0 /\ faults' = 0
        /\ unfair' = FALSE /\ UNCHANGED <<protocol, endpoint, draining, nap, timeout, sock, drainSpent>>
    BY <1>1 DEF Begin, config, request
  <2> QED
    BY <2>2, <2>3, <2>4 DEF TypeOK
<1>2. ASSUME Attempt PROVE TypeOK'
  <2>1. Timeout(caller) \in Nat
    BY Facts, Policy
  <2>2. /\ pc' \in {"openai", "ollama", "failedA", "failed"} /\ timeout' \in Nat
        /\ sock' \in 0..timeout' /\ error' \in Errors /\ unfair' \in BOOLEAN
    BY <1>2, <2>1, Sent DEF Attempt, Paths
  <2> QED
    BY <1>2, <2>2 DEF Attempt, TypeOK, Paths, config
<1>3. ASSUME RaiseA PROVE TypeOK'
  <2>1. unfair' \in BOOLEAN
    <3>1. unfair' = (unfair \/ Remaining <= 0)
      BY <1>3 DEF RaiseA
    <3> QED
      BY <3>1, Zenon
  <2> QED
    BY <1>3, <2>1 DEF RaiseA, TypeOK, config, progress, request
<1>4. ASSUME TryB PROVE TypeOK'
  <2>1. Remaining \in Nat
    BY <1>4, Facts, Policy DEF TryB, Remaining
  <2>2. /\ pc' \in {"ollama", "failed"} /\ timeout' \in Nat
        /\ sock' \in 0..timeout' /\ error' \in Errors /\ unfair' \in BOOLEAN
    BY <1>4, <2>1, Sent DEF TryB, Paths
  <2> QED
    BY <1>4, <2>2 DEF TryB, TypeOK, Paths, config, progress
<1>5. ASSUME GiveUp PROVE TypeOK'
  <2>1. unfair' \in BOOLEAN
    <3>1. unfair' = (unfair \/ i + 1 < Attempts(caller))
      BY <1>5 DEF GiveUp
    <3> QED
      BY <3>1, Zenon
  <2> QED
    BY <1>5, <2>1 DEF GiveUp, TypeOK, config, progress, request
<1>6. ASSUME Sleep PROVE TypeOK'
  <2>1. nap' \in Nat
    BY <1>6, Facts, BeginsNext DEF Sleep
  <2> QED
    BY <1>6, <2>1 DEF Sleep, TypeOK, config, progress, history
<1>7. ASSUME Wake PROVE TypeOK'
  <2>1. i' \in 0..(Attempts(caller) - 1)
    BY <1>7, Facts, Policy DEF Wake, Stage
  <2> QED
    BY <1>7, <2>1 DEF Wake, TypeOK, config, request, history
<1>8. ASSUME Return PROVE TypeOK'
  <2>1. 0 \in 0..(Attempts(caller) - 1)
    BY Facts, Policy
  <2>2. 0 \in 0..0 /\ 0 \in Nat /\ 0 \in 0..MaxPieces /\ "none" \in Errors
    BY ClientAssumption DEF Errors
  <2>3. /\ pc' = "idle" /\ error' = "none" /\ i' = 0 /\ now' = 0 /\ started' = 0 /\ pieces' = 0
        /\ faults' = 0 /\ unfair' = FALSE
        /\ UNCHANGED <<protocol, endpoint, draining, caller, nap, timeout, sock, drainSpent>>
    BY <1>8 DEF Return, config, request
  <2> QED
    BY <2>1, <2>2, <2>3 DEF TypeOK
<1>9. ASSUME Tick PROVE TypeOK'
  <2>1. sock' \in 0..timeout /\ nap' \in Nat /\ drainSpent' \in Nat /\ now' \in Nat /\ started \in 0..now'
    BY <1>9, Facts DEF Tick
  <2> QED
    BY <1>9, <2>1 DEF Tick, TypeOK, config
<1>10. ASSUME Piece PROVE TypeOK'
  <2>1. sock' \in 0..timeout /\ pieces' \in 0..MaxPieces
    BY <1>10, Facts, ClientAssumption DEF Piece
  <2> QED
    BY <1>10, <2>1 DEF Piece, TypeOK, config, progress
<1>11. ASSUME SocketTimeout \/ Breaks \/ Answers PROVE TypeOK'
  <2>1. pc' \in {"failedA", "failed", "returned"} /\ error' \in Errors /\ faults' \in Nat
    BY <1>11, Facts DEF SocketTimeout, Breaks, Answers, Failed, Errors, Paths, history
  <2>2. unfair' \in BOOLEAN /\ sock' \in 0..timeout' /\ timeout' \in Nat
    <3>1. unfair' \in {TRUE, unfair} /\ timeout' = 0 /\ sock' = 0
      BY <1>11 DEF SocketTimeout, Breaks, Answers, Closed, history
    <3>2. unfair \in BOOLEAN
      BY Facts
    <3>3. unfair' \in BOOLEAN
      BY <3>1, <3>2, Zenon
    <3> QED
      BY <3>1, <3>3
  <2>3. UNCHANGED <<protocol, endpoint, draining, caller, i, now, started, nap, pieces, drainSpent>>
    BY <1>11 DEF SocketTimeout, Breaks, Answers, Closed, config, progress, history
  <2> QED
    BY <2>1, <2>2, <2>3 DEF TypeOK
<1>12. ASSUME EndpointChanges PROVE TypeOK'
  <2>1. unfair' \in BOOLEAN
    <3>1. unfair' = (pc # "idle")
      BY <1>12 DEF EndpointChanges
    <3> QED
      BY <3>1, Zenon
  <2> QED
    BY <1>12, <2>1 DEF EndpointChanges, TypeOK, progress, request
<1>13. ASSUME SetDraining \/ Initialize PROVE TypeOK'
  <2>1. draining' \in BOOLEAN /\ drainSpent' \in Nat
    <3>1. draining' \in {TRUE, FALSE} /\ drainSpent' = 0
      BY <1>13, Zenon DEF SetDraining, Initialize
    <3> QED
      BY <3>1
  <2>2. UNCHANGED <<protocol, endpoint, caller, i, now, started, nap, timeout, sock, pc, error,
                    pieces, faults, unfair>>
    BY <1>13 DEF SetDraining, Initialize, progress, request
  <2> QED
    BY <2>1, <2>2 DEF TypeOK
<1>14. ASSUME UNCHANGED vars PROVE TypeOK'
  BY <1>14 DEF TypeOK, vars, config, progress, request, history
<1> QED
  BY <1>1, <1>2, <1>3, <1>4, <1>5, <1>6, <1>7, <1>8, <1>9, <1>10, <1>11, <1>12, <1>13, <1>14
     DEF Next, Client

LEMMA StageStep ==
  ASSUME TypeOK, Stage, [Next]_vars
  PROVE  Stage'
<1>1. ASSUME NEW c \in Callers, Begin(c) PROVE Stage'
  BY <1>1 DEF Begin, Stage, Paths
<1>2. ASSUME Attempt PROVE Stage'
  <2>1. Timeout(caller) \in Nat
    BY Facts, Policy
  <2>2. CASE Normalized(protocol) = "ollama"
    <3>1. Send("ollama", Timeout(caller), "failed")
      BY <1>2, <2>2 DEF Attempt
    <3>2. pc' \in {"ollama", "failed"} /\ (pc' = "ollama" => timeout' = Timeout(caller))
      BY <2>1, <3>1, Sent DEF Paths
    <3> QED
      BY <1>2, <2>1, <2>2, <3>2 DEF Attempt, Stage, Paths, config
  <2>3. CASE Normalized(protocol) # "ollama"
    <3>1. Send("openai", Timeout(caller), "failedA")
      BY <1>2, <2>3 DEF Attempt
    <3>2. pc' \in {"openai", "failedA"} /\ (pc' = "openai" => timeout' = Timeout(caller))
      BY <2>1, <3>1, Sent DEF Paths
    <3> QED
      BY <1>2, <2>1, <2>3, <3>2 DEF Attempt, Stage, Paths, config
  <2> QED
    BY <2>2, <2>3
<1>3. ASSUME RaiseA PROVE Stage'
  BY <1>3 DEF RaiseA, Stage, Paths
<1>4. ASSUME TryB PROVE Stage'
  <2>1. Remaining \in Nat /\ Remaining <= Timeout(caller)
    BY <1>4, Facts, Policy DEF TryB, Remaining
  <2>2. pc' \in {"ollama", "failed"} /\ (pc' = "ollama" => timeout' = Remaining)
    BY <1>4, <2>1, Sent DEF TryB, Paths
  <2> QED
    BY <1>4, <2>1, <2>2 DEF TryB, Stage, Paths, config, progress
<1>5. ASSUME GiveUp PROVE Stage'
  BY <1>5 DEF GiveUp, Stage, Paths
<1>6. ASSUME Sleep PROVE Stage'
  BY <1>6 DEF Sleep, Stage, Paths, progress
<1>7. ASSUME Wake PROVE Stage'
  BY <1>7 DEF Wake, Stage, Paths
<1>8. ASSUME Return PROVE Stage'
  BY <1>8 DEF Return, Stage, Paths
<1>9. ASSUME Tick PROVE Stage'
  BY <1>9 DEF Tick, Stage, Paths, config
<1>10. ASSUME Piece PROVE Stage'
  BY <1>10 DEF Piece, Stage, Paths, config, progress
<1>11. ASSUME SocketTimeout \/ Breaks \/ Answers PROVE Stage'
  BY <1>11 DEF SocketTimeout, Breaks, Answers, Stage, Failed, Paths, config, progress
<1>12. ASSUME EndpointChanges \/ SetDraining \/ Initialize PROVE Stage'
  BY <1>12 DEF EndpointChanges, SetDraining, Initialize, Stage, Paths, progress, request
<1>13. ASSUME UNCHANGED vars PROVE Stage'
  BY <1>13 DEF Stage, vars, config, progress, request
<1> QED
  BY <1>1, <1>2, <1>3, <1>4, <1>5, <1>6, <1>7, <1>8, <1>9, <1>10, <1>11, <1>12, <1>13
     DEF Next, Client

-----------------------------------------------------------------------------
(* Time *)

(* The clock, the socket and the sleep, for bounds that no step moves. *)
LEMMA StepInTime ==
  ASSUME TypeOK, Stage, NEW start \in Nat, NEW next \in Nat, InTime(start, next), start <= next,
         \/ Attempt \/ RaiseA \/ TryB \/ GiveUp \/ Tick \/ Piece \/ SocketTimeout \/ Breaks
         \/ Answers \/ EndpointChanges \/ SetDraining \/ Initialize \/ UNCHANGED vars
  PROVE  InTime(start, next)'
<1> DEFINE T == Timeout(caller)
           D == pieces * Timeout(caller)
<1>1. /\ T \in Nat /\ pieces \in Nat /\ now \in Nat /\ started \in Nat /\ nap \in Nat
      /\ timeout \in Nat /\ sock \in Nat /\ sock <= timeout
  BY Facts, Policy
<1>2. D \in Nat
  BY <1>1
<1>3. /\ pc = "attempt" => now <= start + D
      /\ Started => started <= start + D
      /\ pc \in Paths => now + sock <= start + T + D
      /\ Ended => now <= start + T + D
      /\ pc = "nap" => now + nap <= next + D
  BY DEF InTime, Slack
<1>4. caller' = caller
  BY DEF Attempt, RaiseA, TryB, GiveUp, Tick, Piece, SocketTimeout, Breaks, Answers,
     EndpointChanges, SetDraining, Initialize, vars, config, progress, request
<1>5. Timeout(caller)' = T /\ (pieces' = pieces => Slack' = D)
  BY <1>4 DEF Slack, Timeout
<1>6. pc \in Paths => timeout <= T
  BY DEF Stage
<1> SUFFICES /\ pc' = "attempt" => now' <= start + Slack'
             /\ Started' => started' <= start + Slack'
             /\ pc' \in Paths => now' + sock' <= start + T + Slack'
             /\ Ended' => now' <= start + T + Slack'
             /\ pc' = "nap" => now' + nap' <= next + Slack'
  BY <1>5 DEF InTime
<1> HIDE DEF T, D
<1>7. CASE Attempt
  <2>1. pc = "attempt" /\ started' = now /\ now' = now /\ pieces' = pieces
    BY <1>7 DEF Attempt
  <2>2. /\ pc' \in {"openai", "ollama", "failedA", "failed"}
        /\ pc' \in Paths => sock' = T
    BY <1>1, <1>7, Sent DEF Attempt, Paths, T
  <2> QED
    BY <1>1, <1>2, <1>3, <1>5, <2>1, <2>2 DEF Started, Ended, Paths
<1>8. CASE RaiseA
  BY <1>3, <1>5, <1>8 DEF RaiseA, Started, Ended, Paths, progress, request
<1>9. CASE TryB
  <2>1. Remaining \in Nat /\ now + Remaining = started + T
    BY <1>1, <1>9 DEF TryB, Remaining, T
  <2>2. pc' \in {"ollama", "failed"} /\ (pc' = "ollama" => sock' = Remaining)
    BY <1>9, <2>1, Sent DEF TryB, Paths
  <2>3. pc = "failedA" /\ now' = now /\ started' = started /\ pieces' = pieces
    BY <1>9 DEF TryB, progress
  <2> QED
    BY <1>1, <1>2, <1>3, <1>5, <2>1, <2>2, <2>3 DEF Started, Ended, Paths
<1>10. CASE GiveUp
  BY <1>3, <1>5, <1>10 DEF GiveUp, Started, Ended, Paths, progress, request
<1>11. CASE Tick
  BY <1>1, <1>2, <1>3, <1>5, <1>11 DEF Tick, Started, Ended, Paths
<1>12. CASE Piece
  <2>1. Slack' = D + T
    <3>1. pieces' = pieces + 1
      BY <1>12 DEF Piece
    <3>2. (pieces + 1) * T = pieces * T + T
      BY <1>1
    <3> QED
      BY <1>5, <3>1, <3>2 DEF Slack, D, T
  <2> QED
    BY <1>1, <1>2, <1>3, <1>6, <1>12, <2>1 DEF Piece, Started, Ended, Paths, progress
<1>13. CASE SocketTimeout \/ Breaks \/ Answers
  <2>1. /\ pc \in Paths /\ pc' \in {"failedA", "failed", "returned"} /\ now' = now
        /\ started' = started /\ pieces' = pieces
    BY <1>13 DEF SocketTimeout, Breaks, Answers, Failed, progress, history
  <2> QED
    BY <1>1, <1>2, <1>3, <1>5, <2>1 DEF Started, Ended, Paths
<1>14. CASE EndpointChanges \/ SetDraining \/ Initialize \/ UNCHANGED vars
  <2>1. UNCHANGED <<pc, now, started, sock, nap, pieces>>
    BY <1>14 DEF EndpointChanges, SetDraining, Initialize, vars, progress, request, history
  <2> QED
    BY <1>3, <1>5, <2>1 DEF Started, Ended
<1> QED
  BY <1>7, <1>8, <1>9, <1>10, <1>11, <1>12, <1>13, <1>14

LEMMA TimelyStep ==
  ASSUME TypeOK, Stage, Timely, [Next]_vars
  PROVE  Timely'
<1>1. /\ caller \in Callers /\ i \in Nat /\ i + 1 <= Attempts(caller) /\ now \in Nat /\ nap \in Nat
      /\ pieces \in Nat
  BY Facts
<1>2. ASSUME NEW c \in Callers, Begin(c) PROVE Timely'
  <2>1. caller' = c /\ i' = 0 /\ now' = 0 /\ started' = 0 /\ pieces' = 0 /\ pc' \in {"attempt", "raised"}
    BY <1>2 DEF Begin
  <2>2. Timeout(c) \in Nat /\ Begins(c, 0) = 0
    BY Policy, BeginsNext
  <2>3. Slack' = 0
    BY <2>1, <2>2 DEF Slack
  <2>4. ASSUME NEW a \in Nat, NEW b PROVE (pc' = "attempt" => now' <= a + Slack')
             /\ (Started' => started' <= a + Slack')
             /\ (pc' \in Paths => now' + sock' <= a + Timeout(c) + Slack')
             /\ (Ended' => now' <= a + Timeout(c) + Slack')
             /\ (pc' = "nap" => now' + nap' <= b + Slack')
    BY <2>1, <2>2, <2>3 DEF Started, Ended, Paths
  <2>5. InTime(Begins(caller, i), Begins(caller, i + 1))'
    BY <2>1, <2>2, <2>4 DEF InTime
  <2>6. Limited' => InTime(LastBegins(caller), LastBegins(caller))'
    <3>1. Limited' => LastBegins(c) \in Nat
      BY <2>1, LastBeginsLast DEF Limited
    <3> QED
      BY <2>1, <2>4, <3>1 DEF InTime
  <2> QED
    BY <2>5, <2>6 DEF Timely
<1>3. ASSUME Sleep PROVE Timely'
  <2>1. /\ pc = "failed" /\ pc' = "nap" /\ nap' = Backoff(caller) * 2^i /\ ~OverBudget
        /\ i + 1 < Attempts(caller) /\ UNCHANGED <<caller, i, now, started, pieces>>
    BY <1>3 DEF Sleep, progress, history
  <2>2. Slack' = Slack /\ Slack \in Nat
    BY <1>1, <2>1, Policy DEF Slack
  <2>3. nap' \in Nat /\ Begins(caller, i) \in Nat
        /\ Begins(caller, i + 1) = Begins(caller, i) + Timeout(caller) + nap'
    BY <1>1, <2>1, BeginsNext
  <2>4. now <= Begins(caller, i) + Timeout(caller) + Slack
    BY <2>1 DEF Timely, InTime, Ended
  <2>5. now + nap' <= Begins(caller, i + 1) + Slack
    BY <1>1, <2>2, <2>3, <2>4, Policy
  <2>6. Limited => now + nap' <= LastBegins(caller) + Slack
    <3> SUFFICES ASSUME Limited PROVE now + nap' <= LastBegins(caller) + Slack
      OBVIOUS
    <3>1. LastBegins(caller) \in Nat /\ MaxTotal(caller) - 1 + nap' <= LastBegins(caller)
      BY <1>1, <2>1, LastBeginsLast DEF Limited
    <3>2. now < MaxTotal(caller) /\ MaxTotal(caller) \in Nat
      BY <1>1, <2>1, Policy DEF OverBudget, Limited
    <3> QED
      BY <1>1, <2>2, <2>3, <3>1, <3>2
  <2>7. /\ InTime(Begins(caller, i), Begins(caller, i + 1))'
        /\ Limited' => InTime(LastBegins(caller), LastBegins(caller))'
    BY <2>1, <2>2, <2>5, <2>6 DEF InTime, Started, Ended, Paths, Limited
  <2> QED
    BY <2>7 DEF Timely
<1>4. ASSUME Wake PROVE Timely'
  <2>1. /\ pc = "nap" /\ nap = 0 /\ pc' = "attempt" /\ i' = i + 1
        /\ UNCHANGED <<caller, now, started, pieces>>
    BY <1>4 DEF Wake, history
  <2>2. Slack' = Slack
    BY <2>1 DEF Slack
  <2>3. /\ now <= Begins(caller, i + 1) + Slack
        /\ Limited => now <= LastBegins(caller) + Slack
    BY <1>1, <2>1 DEF Timely, InTime
  <2>4. /\ InTime(Begins(caller, i), Begins(caller, i + 1))'
        /\ Limited' => InTime(LastBegins(caller), LastBegins(caller))'
    BY <2>1, <2>2, <2>3 DEF InTime, Started, Ended, Paths, Limited
  <2> QED
    BY <2>4 DEF Timely
<1>5. ASSUME Return PROVE Timely'
  BY <1>5 DEF Return, Timely, InTime, Started, Ended, Paths
<1>6. ASSUME \/ Attempt \/ RaiseA \/ TryB \/ GiveUp \/ Tick \/ Piece \/ SocketTimeout \/ Breaks
             \/ Answers \/ EndpointChanges \/ SetDraining \/ Initialize \/ UNCHANGED vars
      PROVE  Timely'
  <2>1. caller' = caller /\ i' = i
    BY <1>6 DEF Attempt, RaiseA, TryB, GiveUp, Tick, Piece, SocketTimeout, Breaks, Answers,
       EndpointChanges, SetDraining, Initialize, vars, config, progress, request
  <2>2. PICK a \in Nat : a = Begins(caller, i)
    BY <1>1, BeginsNext
  <2>3. PICK b \in Nat : b = Begins(caller, i + 1)
    BY <1>1, BeginsNext
  <2>4. InTime(a, b)'
    <3>1. InTime(a, b)
      BY <2>2, <2>3 DEF Timely
    <3>2. a <= b
      BY <1>1, <2>2, <2>3, BeginsGrow
    <3> QED
      BY <1>6, <3>1, <3>2, StepInTime
  <2>5. Begins(caller, i)' = a /\ Begins(caller, i + 1)' = b
    BY <2>1, <2>2, <2>3
  <2>6. Limited' => InTime(LastBegins(caller), LastBegins(caller))'
    <3> SUFFICES ASSUME Limited PROVE InTime(LastBegins(caller), LastBegins(caller))'
      BY <2>1 DEF Limited
    <3>1. PICK l \in Nat : l = LastBegins(caller)
      BY <1>1, LastBeginsLast DEF Limited
    <3>2. InTime(l, l)'
      <4>1. InTime(l, l)
        BY <3>1 DEF Timely
      <4> QED
        BY <1>6, <4>1, StepInTime
    <3>3. LastBegins(caller)' = l
      BY <2>1, <3>1
    <3> QED
      BY <3>2, <3>3 DEF InTime
  <2>7. InTime(Begins(caller, i), Begins(caller, i + 1))'
    BY <2>4, <2>5 DEF InTime
  <2> QED
    BY <2>6, <2>7 DEF Timely
<1> QED
  BY <1>2, <1>3, <1>4, <1>5, <1>6 DEF Next, Client

LEMMA EveryAttemptEnds ==
  ASSUME NEW c \in Callers
  PROVE  /\ EveryAttempt(c) = Begins(c, Attempts(c) - 1) + Timeout(c)
         /\ EveryAttempt(c) \in Nat
<1> DEFINE n == Attempts(c)
           T == Timeout(c)
           p == Backoff(c) * (2^(n - 1) - 1)
<1>1. n \in Nat \ {0} /\ n - 1 \in Nat /\ T \in Nat /\ Backoff(c) \in Nat
  BY Policy
<1>2. p \in Nat
  <2>1. 2^(n - 1) \in Nat \ {0}
    BY <1>1, Powers
  <2> QED
    BY <1>1, <2>1
<1>3. EveryAttempt(c) = n * T + p /\ Begins(c, n - 1) = (n - 1) * T + p
  BY DEF EveryAttempt, Begins
<1> HIDE DEF n, T, p
<1>4. n * T = (n - 1) * T + T /\ (n - 1) * T \in Nat
  BY <1>1
<1>5. EveryAttempt(c) = Begins(c, n - 1) + T /\ EveryAttempt(c) \in Nat
  BY <1>1, <1>2, <1>3, <1>4
<1> QED
  BY <1>5 DEF n, T

LEMMA Bounded == TypeOK /\ Stage /\ Timely => CallBounded
<1> SUFFICES ASSUME TypeOK, Stage, Timely PROVE CallBounded
  OBVIOUS
<1> DEFINE n == Attempts(caller)
<1>1. /\ caller \in Callers /\ i \in Nat /\ i + 1 <= n /\ n \in Nat \ {0} /\ n - 1 \in Nat /\ now \in Nat
      /\ nap \in Nat /\ sock \in Nat /\ pieces \in Nat /\ Timeout(caller) \in Nat
      /\ pc \in {"idle", "attempt", "failedA", "failed", "nap", "returned", "raised"} \cup Paths
  BY Facts, Policy DEF TypeOK
<1>2. Slack \in Nat
  BY <1>1 DEF Slack
<1>3. now <= EveryAttempt(caller) + Slack
  <2>1. /\ Begins(caller, i) \in Nat /\ Begins(caller, i) <= Begins(caller, n - 1)
        /\ Begins(caller, i + 1) \in Nat /\ Begins(caller, n - 1) \in Nat
    <3>1. i <= n - 1 /\ i + 1 \in Nat
      BY <1>1
    <3>2. Begins(caller, i) \in Nat /\ Begins(caller, i + 1) \in Nat /\ Begins(caller, n - 1) \in Nat
      BY <1>1, <3>1, BeginsNext
    <3>3. Begins(caller, i) <= Begins(caller, n - 1)
      BY <1>1, <3>1, BeginsGrow
    <3> QED
      BY <3>2, <3>3
  <2>2. EveryAttempt(caller) = Begins(caller, n - 1) + Timeout(caller)
    BY <1>1, EveryAttemptEnds
  <2>3. pc = "nap" => Begins(caller, i + 1) <= Begins(caller, n - 1)
    <3>1. pc = "nap" => i + 1 <= n - 1 /\ i + 1 \in Nat
      BY <1>1 DEF Stage
    <3> QED
      BY <1>1, <3>1, BeginsGrow
  <2>4. InTime(Begins(caller, i), Begins(caller, i + 1))
    BY DEF Timely
  <2> HIDE DEF n
  <2> QED
    BY <1>1, <1>2, <2>1, <2>2, <2>3, <2>4 DEF InTime, Started, Ended, Paths, Stage
<1>4. ASSUME Limited PROVE now <= LastAttempt(caller) + Slack
  <2>1. LastBegins(caller) \in Nat
    BY <1>1, <1>4, LastBeginsLast DEF Limited
  <2>2. LastAttempt(caller) = LastBegins(caller) + Timeout(caller)
    BY DEF LastAttempt, LastBegins
  <2>3. InTime(LastBegins(caller), LastBegins(caller))
    BY <1>4 DEF Timely
  <2> HIDE DEF n
  <2> QED
    BY <1>1, <1>2, <2>1, <2>2, <2>3 DEF InTime, Started, Ended, Paths, Stage
<1> QED
  BY <1>1, <1>3, <1>4 DEF CallBounded, CallBound, AtMost, Limited, Slack

LEMMA DrainBound ==
  /\ CallBound("worker") \in Int /\ MaxPieces * WriteTimeout \in Nat
  /\ CallBound("worker") + MaxPieces * WriteTimeout >= 0
<1>1. CallBound("worker") \in Nat
  <2> DEFINE c == "worker"
  <2>1. c \in Callers
    BY DEF Callers
  <2>2. Attempts(c) \in Nat \ {0} /\ Timeout(c) \in Nat /\ Backoff(c) \in Nat
        /\ Attempts(c) - 1 \in Nat
    BY <2>1, Policy
  <2>3. EveryAttempt(c) \in Nat
    BY <2>1, EveryAttemptEnds
  <2>4. Attempts(c) > 1 /\ MaxTotal(c) # Unlimited => LastAttempt(c) \in Nat
    <3>1. Attempts(c) > 1 /\ MaxTotal(c) # Unlimited => LastBegins(c) \in Nat
      BY <2>1, LastBeginsLast
    <3>2. LastAttempt(c) = LastBegins(c) + Timeout(c)
      BY DEF LastAttempt, LastBegins
    <3> QED
      BY <2>2, <3>1, <3>2
  <2> HIDE DEF c
  <2>5. CallBound(c) \in Nat
    BY <2>2, <2>3, <2>4 DEF CallBound, AtMost
  <2> QED
    BY <2>5 DEF c
<1>2. MaxPieces * WriteTimeout \in Nat
  BY ClientAssumption
<1> QED
  BY <1>1, <1>2

LEMMA DrainStep ==
  ASSUME TypeOK, OneCall, DrainDelayBounded, CallBounded', TypeOK', [Next]_vars
  PROVE  OneCall' /\ DrainDelayBounded'
<1>1. now \in Nat /\ drainSpent \in Nat /\ now' \in Nat /\ drainSpent' \in Nat
  BY DEF TypeOK
<1>2. /\ CallBound("worker") \in Int /\ MaxPieces * WriteTimeout \in Nat
      /\ CallBound("worker") + MaxPieces * WriteTimeout >= 0
  BY DrainBound
<1>3. OneCall'
  <2>1. CASE Tick
    BY <1>1, <2>1 DEF Tick, OneCall, config
  <2>2. CASE \E c \in Callers : Begin(c)
    BY <2>2 DEF Begin, OneCall, config
  <2>3. CASE SetDraining \/ Initialize
    BY <1>1, <2>3 DEF SetDraining, Initialize, OneCall, progress
  <2>4. CASE Return
    BY <2>4 DEF Return, OneCall
  <2>5. CASE \/ Attempt \/ RaiseA \/ TryB \/ GiveUp \/ Sleep \/ Wake \/ Piece \/ SocketTimeout \/ Breaks
             \/ Answers \/ EndpointChanges \/ UNCHANGED vars
    <3>1. UNCHANGED <<draining, caller, now, drainSpent>> /\ (pc' # "idle" => pc # "idle")
      BY <2>5 DEF Attempt, RaiseA, TryB, GiveUp, Sleep, Wake, Piece, SocketTimeout, Breaks, Answers,
         EndpointChanges, vars, config, progress, request, history, Paths
    <3> QED
      BY <3>1 DEF OneCall
  <2> QED
    BY <2>1, <2>2, <2>3, <2>4, <2>5 DEF Next, Client
<1>4. DrainDelayBounded'
  <2>1. CASE drainSpent' = drainSpent
    BY <2>1 DEF DrainDelayBounded
  <2>2. CASE drainSpent' = 0
    BY <1>2, <2>2 DEF DrainDelayBounded
  <2>3. CASE Tick /\ drainSpent' # drainSpent
    <3>1. draining' /\ caller' = "worker" /\ pc' # "idle"
      BY <2>3 DEF Tick, Paths, config
    <3>2. drainSpent' <= now'
      BY <1>3, <3>1 DEF OneCall
    <3>3. now' <= CallBound("worker") + pieces' * WriteTimeout
      BY <3>1 DEF CallBounded, Timeout
    <3>4. pieces' * WriteTimeout <= MaxPieces * WriteTimeout /\ pieces' * WriteTimeout \in Int
      <4>1. pieces' \in Int /\ pieces' <= MaxPieces /\ MaxPieces \in Int /\ WriteTimeout \in Nat
        BY ClientAssumption DEF TypeOK
      <4> QED
        BY <4>1, Times
    <3> QED
      BY <1>1, <1>2, <3>2, <3>3, <3>4 DEF DrainDelayBounded
  <2>4. Tick \/ drainSpent' = drainSpent \/ drainSpent' = 0
    BY DEF Next, Client, Begin, Attempt, RaiseA, TryB, GiveUp, Sleep, Wake, Return, Piece, SocketTimeout,
       Breaks, Answers, EndpointChanges, SetDraining, Initialize, vars, history
  <2> QED
    BY <2>1, <2>2, <2>3, <2>4
<1> QED
  BY <1>3, <1>4

-----------------------------------------------------------------------------
(* How a call ends *)

LEMMA BrokenStep ==
  ASSUME TypeOK, Stage, Broken, [Next]_vars
  PROVE  Broken'
<1>1. /\ faults \in Nat /\ i \in Nat /\ i + 1 <= Attempts(caller) /\ Attempts(caller) \in Nat
      /\ unfair \in BOOLEAN /\ Normalized(protocol) \in Protocols
  BY Facts, Policy DEF Normalized, Protocols
<1>2. ASSUME NEW c \in Callers, Begin(c) PROVE Broken'
  BY <1>2 DEF Begin, Broken, Paths
<1>3. ASSUME Attempt PROVE Broken'
  <2>1. Timeout(caller) \in Nat
    BY Facts, Policy
  <2>2. pc = "attempt" /\ UNCHANGED <<endpoint, protocol, caller, i, faults>>
    BY <1>3 DEF Attempt, config
  <2>3. \/ /\ Normalized(protocol) = "ollama" /\ pc' \in {"ollama", "failed"}
           /\ pc' = "failed" => unfair' = TRUE
           /\ pc' = "ollama" => unfair' = unfair
        \/ /\ Normalized(protocol) # "ollama" /\ pc' \in {"openai", "failedA"}
           /\ pc' = "failedA" => unfair' = TRUE
           /\ pc' = "openai" => unfair' = unfair
    BY <1>3, <2>1, Sent DEF Attempt, Paths
  <2>4. Normalized(protocol) = "ollama" /\ Reachable => "ollama" \in endpoint.serves
    BY DEF Reachable, PathsOf
  <2> QED
    BY <2>2, <2>3, <2>4 DEF Broken, Reachable, PathsOf, Paths
<1>4. ASSUME RaiseA PROVE Broken'
  <2>1. pc = "failedA" /\ pc' = "failed" /\ UNCHANGED <<endpoint, protocol, caller, i, faults, error>>
    BY <1>4 DEF RaiseA, config, progress
  <2>2. unfair' \/ error = "dimension" \/ Normalized(protocol) = "openai"
    BY <1>4 DEF RaiseA
  <2>3. ~unfair' => ~unfair
    BY <1>4 DEF RaiseA
  <2>4. Normalized(protocol) = "openai" /\ Reachable => "openai" \in endpoint.serves
    BY DEF Reachable, PathsOf
  <2> QED
    BY <2>1, <2>2, <2>3, <2>4 DEF Broken, Reachable, PathsOf, Paths
<1>5. ASSUME TryB PROVE Broken'
  <2>1. Remaining \in Nat
    BY <1>5, Facts, Policy DEF TryB, Remaining
  <2>2. /\ pc = "failedA" /\ Normalized(protocol) # "openai"
        /\ UNCHANGED <<endpoint, protocol, caller, i, faults>>
    BY <1>5 DEF TryB, config, progress
  <2>3. /\ pc' \in {"ollama", "failed"} /\ (pc' = "failed" => unfair' = TRUE)
        /\ pc' = "ollama" => unfair' = unfair
    BY <1>5, <2>1, Sent DEF TryB, Paths
  <2>4. Normalized(protocol) = "auto"
    BY <1>1, <2>2 DEF Stage, Protocols
  <2>5. Reachable /\ "openai" \notin endpoint.serves => "ollama" \in endpoint.serves
    BY <2>4 DEF Reachable, PathsOf, Paths
  <2>6. Reachable' = Reachable
    BY <2>2 DEF Reachable
  <2> QED
    BY <1>1, <2>2, <2>3, <2>5, <2>6 DEF Broken, Paths
<1>6. ASSUME GiveUp PROVE Broken'
  <2>1. /\ pc = "failed" /\ pc' = "raised" /\ (~unfair' => ~unfair /\ ~(i + 1 < Attempts(caller)))
        /\ UNCHANGED <<endpoint, protocol, caller, i, faults>>
    BY <1>6 DEF GiveUp, config, progress
  <2>2. Reachable' = Reachable /\ Attempts(caller)' = Attempts(caller)
    BY <2>1 DEF Reachable
  <2>3. ~unfair' /\ Reachable /\ endpoint.dims => faults >= Attempts(caller)
    BY <1>1, <2>1 DEF Broken
  <2> QED
    BY <2>1, <2>2, <2>3 DEF Broken, Paths
<1>7. ASSUME Sleep PROVE Broken'
  BY <1>7 DEF Sleep, Broken, Reachable, PathsOf, Paths, config, progress, history
<1>8. ASSUME Wake PROVE Broken'
  BY <1>1, <1>8 DEF Wake, Broken, Reachable, PathsOf, Paths, config, history
<1>9. ASSUME Return PROVE Broken'
  BY <1>9 DEF Return, Broken, Paths
<1>10. ASSUME Tick \/ Piece PROVE Broken'
  <2>1. UNCHANGED <<endpoint, protocol, caller, i, pc, error, faults, unfair>>
    BY <1>10 DEF Tick, Piece, config, progress
  <2>2. Reachable' = Reachable /\ Attempts(caller)' = Attempts(caller)
    BY <2>1 DEF Reachable
  <2> QED
    BY <2>1, <2>2 DEF Broken
<1>11. ASSUME SocketTimeout PROVE Broken'
  BY <1>11 DEF SocketTimeout, Broken
<1>12. ASSUME Breaks PROVE Broken'
  <2>1. /\ pc \in Paths /\ pc' \in {"failedA", "failed"} /\ error' = "broken" /\ faults' = faults + 1
        /\ UNCHANGED <<endpoint, protocol, caller, i, unfair>>
    BY <1>12 DEF Breaks, Failed, Paths, config, progress
  <2>2. Reachable' = Reachable
    BY <2>1 DEF Reachable
  <2> QED
    BY <1>1, <2>1, <2>2 DEF Broken, Paths
<1>13. ASSUME Answers PROVE Broken'
  <2>1. /\ pc \in Paths /\ UNCHANGED <<endpoint, protocol, caller, i, faults, unfair>>
        /\ \/ pc \notin endpoint.serves /\ error' = "status"
              /\ pc' = (IF pc = "openai" THEN "failedA" ELSE "failed")
           \/ ~endpoint.dims
           \/ pc' = "returned"
    BY <1>13 DEF Answers, Failed, config, progress, history
  <2>2. Reachable' = Reachable
    BY <2>1 DEF Reachable
  <2> QED
    BY <1>1, <2>1, <2>2 DEF Broken, Paths
<1>14. ASSUME EndpointChanges PROVE Broken'
  BY <1>14 DEF EndpointChanges, Broken, Paths
<1>15. ASSUME SetDraining \/ Initialize \/ UNCHANGED vars PROVE Broken'
  <2>1. UNCHANGED <<endpoint, protocol, caller, i, pc, error, faults, unfair>>
    BY <1>15 DEF SetDraining, Initialize, vars, config, progress, history
  <2>2. Reachable' = Reachable /\ Attempts(caller)' = Attempts(caller)
    BY <2>1 DEF Reachable
  <2> QED
    BY <2>1, <2>2 DEF Broken
<1> QED
  BY <1>2, <1>3, <1>4, <1>5, <1>6, <1>7, <1>8, <1>9, <1>10, <1>11, <1>12, <1>13, <1>14, <1>15
     DEF Next, Client

LEMMA NamedStep ==
  ASSUME TypeOK, Stage, Named, [Next]_vars
  PROVE  Named'
<1>1. faults \in Nat /\ unfair \in BOOLEAN /\ Normalized(protocol) \in Protocols
  BY Facts DEF Normalized, Protocols
<1>2. ASSUME NEW c \in Callers, Begin(c) PROVE Named'
  BY <1>2 DEF Begin, Named
<1>3. ASSUME Attempt PROVE Named'
  <2>1. Timeout(caller) \in Nat
    BY Facts, Policy
  <2>2. pc = "attempt" /\ UNCHANGED <<endpoint, protocol, faults>>
    BY <1>3 DEF Attempt, config
  <2>3. \/ /\ Normalized(protocol) = "ollama" /\ pc' \in {"ollama", "failed"}
           /\ pc' = "failed" => unfair' = TRUE
        \/ /\ Normalized(protocol) # "ollama" /\ pc' \in {"openai", "failedA"}
           /\ pc' = "failedA" => unfair' = TRUE
    BY <1>3, <2>1, Sent DEF Attempt, Paths
  <2>4. Normalized(protocol) = "ollama" /\ Reachable => "ollama" \in endpoint.serves
    BY DEF Reachable, PathsOf
  <2> QED
    BY <2>2, <2>3, <2>4 DEF Named, Reachable, PathsOf
<1>4. ASSUME RaiseA PROVE Named'
  <2>1. pc = "failedA" /\ pc' = "failed" /\ UNCHANGED <<endpoint, protocol, faults, error>>
    BY <1>4 DEF RaiseA, config
  <2>2. unfair' \/ error = "dimension" \/ Normalized(protocol) = "openai"
    BY <1>4 DEF RaiseA
  <2>3. ~unfair' => ~unfair
    BY <1>4 DEF RaiseA
  <2>4. Normalized(protocol) = "openai" /\ Reachable => "openai" \in endpoint.serves
    BY DEF Reachable, PathsOf
  <2> QED
    BY <2>1, <2>2, <2>3, <2>4 DEF Named, Reachable, PathsOf
<1>5. ASSUME TryB PROVE Named'
  <2>1. Remaining \in Nat
    BY <1>5, Facts, Policy DEF TryB, Remaining
  <2>2. /\ pc = "failedA" /\ Normalized(protocol) # "openai" /\ error # "dimension"
        /\ UNCHANGED <<endpoint, protocol, faults>>
    BY <1>5 DEF TryB, config
  <2>3. /\ pc' \in {"ollama", "failed"} /\ (pc' = "failed" => unfair' = TRUE)
        /\ pc' = "ollama" => unfair' = unfair
    BY <1>5, <2>1, Sent DEF TryB, Paths
  <2>4. Normalized(protocol) = "auto"
    BY <1>1, <2>2 DEF Stage, Protocols
  <2>5. Reachable /\ "openai" \notin endpoint.serves => "ollama" \in endpoint.serves
    BY <2>4 DEF Reachable, PathsOf, Paths
  <2>6. Reachable' = Reachable
    BY <2>2 DEF Reachable
  <2> QED
    BY <2>2, <2>3, <2>5, <2>6 DEF Named
<1>6. ASSUME GiveUp PROVE Named'
  <2>1. /\ pc = "failed" /\ pc' = "raised" /\ (~unfair' => ~unfair)
        /\ UNCHANGED <<endpoint, protocol, faults, error>>
    BY <1>6 DEF GiveUp, config
  <2>2. Reachable' = Reachable
    BY <2>1 DEF Reachable
  <2> QED
    BY <2>1, <2>2 DEF Named
<1>7. ASSUME Sleep \/ Wake PROVE Named'
  <2>1. UNCHANGED <<endpoint, protocol, faults, error, unfair>>
    BY <1>7 DEF Sleep, Wake, config, history
  <2>2. Reachable' = Reachable
    BY <2>1 DEF Reachable
  <2>3. (pc = "failed" /\ pc' = "nap") \/ pc' = "attempt"
    BY <1>7 DEF Sleep, Wake
  <2> QED
    BY <2>1, <2>2, <2>3 DEF Named
<1>8. ASSUME Return PROVE Named'
  BY <1>8 DEF Return, Named
<1>9. ASSUME Tick \/ Piece \/ SetDraining \/ Initialize \/ UNCHANGED vars PROVE Named'
  <2>1. UNCHANGED <<endpoint, protocol, pc, error, faults, unfair>>
    BY <1>9 DEF Tick, Piece, SetDraining, Initialize, vars, config, history
  <2>2. Reachable' = Reachable
    BY <2>1 DEF Reachable
  <2> QED
    BY <2>1, <2>2 DEF Named
<1>10. ASSUME SocketTimeout \/ EndpointChanges PROVE Named'
  BY <1>10 DEF SocketTimeout, EndpointChanges, Named
<1>11. ASSUME Breaks PROVE Named'
  <2>1. faults' # 0
    BY <1>1, <1>11 DEF Breaks
  <2> QED
    BY <2>1 DEF Named
<1>12. ASSUME Answers PROVE Named'
  <2>1. /\ pc \in Paths /\ UNCHANGED <<endpoint, protocol, faults, unfair>>
        /\ \/ pc \notin endpoint.serves /\ error' = "status"
              /\ pc' = (IF pc = "openai" THEN "failedA" ELSE "failed")
           \/ pc' \in {"failedA", "failed"} /\ error' = "dimension"
           \/ endpoint.dims
    BY <1>12 DEF Answers, Failed, config, history
  <2>2. Reachable' = Reachable
    BY <2>1 DEF Reachable
  <2> QED
    BY <2>1, <2>2 DEF Named, Paths
<1> QED
  BY <1>2, <1>3, <1>4, <1>5, <1>6, <1>7, <1>8, <1>9, <1>10, <1>11, <1>12 DEF Next, Client

-----------------------------------------------------------------------------
(* The theorems *)

LEMMA InitIInv == Init => IInv
<1> SUFFICES ASSUME Init PROVE IInv
  OBVIOUS
<1>1. /\ protocol \in Configured /\ endpoint = [serves |-> Paths, dims |-> TRUE, key |-> TRUE]
      /\ draining = FALSE /\ caller = "recall" /\ pc = "idle" /\ i = 0
      /\ now = 0 /\ started = 0 /\ timeout = 0 /\ sock = 0 /\ nap = 0
      /\ error = "none" /\ pieces = 0 /\ faults = 0 /\ unfair = FALSE /\ drainSpent = 0
  BY DEF Init
<1>2. caller \in Callers /\ Attempts(caller) \in Nat \ {0} /\ 0 \in 0..(Attempts(caller) - 1)
  <2>1. caller \in Callers
    BY <1>1 DEF Callers
  <2>2. Attempts(caller) \in Nat \ {0}
    BY <2>1, Policy
  <2> QED
    BY <2>1, <2>2
<1>3. /\ endpoint \in [serves : SUBSET Paths, dims : BOOLEAN, key : BOOLEAN] /\ error \in Errors
      /\ 0 \in 0..0 /\ 0 \in Nat /\ 0 \in 0..MaxPieces
  BY <1>1, ClientAssumption DEF Errors
<1>4. TypeOK
  BY <1>1, <1>2, <1>3 DEF TypeOK
<1>5. Stage /\ Timely /\ OneCall /\ Broken /\ Named
  BY <1>1 DEF Stage, Timely, InTime, Started, Ended, OneCall, Broken, Named, Paths
<1>6. DrainDelayBounded
  BY <1>1, DrainBound DEF DrainDelayBounded
<1> QED
  BY <1>4, <1>5, <1>6 DEF IInv

LEMMA StepIInv == IInv /\ [Next]_vars => IInv'
<1> SUFFICES ASSUME IInv, [Next]_vars PROVE IInv'
  OBVIOUS
<1>1. TypeOK /\ Stage /\ Timely /\ OneCall /\ DrainDelayBounded /\ Broken /\ Named
  BY DEF IInv
<1>2. TypeOK' /\ Stage' /\ Timely' /\ Broken' /\ Named'
  BY <1>1, TypeStep, StageStep, TimelyStep, BrokenStep, NamedStep
<1>3. CallBounded'
  <2>1. (TypeOK /\ Stage /\ Timely => CallBounded)'
    BY Bounded, PTL
  <2> QED
    BY <1>2, <2>1
<1>4. OneCall' /\ DrainDelayBounded'
  BY <1>1, <1>2, <1>3, DrainStep
<1> QED
  BY <1>2, <1>4 DEF IInv

(* The invariant holds whatever the endpoint does. *)
THEOREM Invariance == Spec => []IInv
  BY InitIInv, StepIInv, PTL DEF Spec

(* Types: above all, no caller makes more attempts than its policy allows. *)
THEOREM TypeCorrect == Spec => []TypeOK
<1>1. IInv => TypeOK
  BY DEF IInv
<1> QED
  BY <1>1, Invariance, PTL

(* embed() keeps to its caller's budget: the two paths of auto share one   *)
(* timeout, and the back-offs and retries of the drain thread end with     *)
(* max_total, except for a timeout per piece that restarts the socket's.   *)
THEOREM CallsAreBounded == Spec => []CallBounded
<1>1. IInv => CallBounded
  BY Bounded DEF IInv
<1> QED
  BY <1>1, Invariance, PTL

(* The clamp of prefetch_budget keeps prefetch() under the host's limit,   *)
(* whatever the configuration says.                                        *)
THEOREM PrefetchReturns == Spec => []PrefetchWithinHost
<1>1. IInv => PrefetchWithinHost
  <2> SUFFICES ASSUME IInv, caller = "prefetch", pieces = 0 PROVE now < HostLimit
    BY DEF PrefetchWithinHost
  <2>1. now <= CallBound(caller) + 0 * Timeout(caller)
    BY Bounded DEF IInv, CallBounded
  <2>2. /\ Timeout(caller) \in Nat /\ Timeout(caller) < HostLimit /\ Attempts(caller) = 1
        /\ Backoff(caller) \in Nat
    <3>1. caller \in Callers
      BY DEF Callers
    <3> QED
      BY <3>1, Policy
  <2>3. CallBound(caller) = Begins(caller, Attempts(caller) - 1) + Timeout(caller)
    <3>1. caller \in Callers
      BY DEF Callers
    <3> QED
      BY <2>2, <3>1, EveryAttemptEnds DEF CallBound
  <2>4. CallBound(caller) = Timeout(caller)
    <3>1. Attempts(caller) - 1 = 0
      BY <2>2
    <3>2. Begins(caller, 0) = 0
      BY BeginsNext DEF Callers
    <3>3. CallBound(caller) = 0 + Timeout(caller)
      BY <2>3, <3>1, <3>2
    <3> QED
      BY <2>2, <3>3
  <2>5. now \in Nat /\ HostLimit \in Nat
    BY ClientAssumption DEF IInv, TypeOK
  <2> QED
    BY <2>1, <2>2, <2>4, <2>5
<1> QED
  BY <1>1, Invariance, PTL

(* shutdown() waits for one embedding at most: the flag _draining keeps    *)
(* the drain thread from starting another, however many writes are queued. *)
THEOREM DrainWaitsForOne == Spec => []DrainDelayBounded
<1>1. IInv => DrainDelayBounded
  BY DEF IInv
<1> QED
  BY <1>1, Invariance, PTL

(* An endpoint that serves a path of the protocol gives a vector, unless   *)
(* each of the attempts was broken or time was lost.                       *)
THEOREM FaultsAreAbsorbed == Spec => []FaultsAbsorbed
<1>1. IInv => FaultsAbsorbed
  BY DEF IInv, Broken, FaultsAbsorbed
<1> QED
  BY <1>1, Invariance, PTL

(* A model of the wrong dimension is the error that embed() raises, on     *)
(* either path and after any number of attempts.                           *)
THEOREM DimensionIsNamed == Spec => []MisconfigurationNamed
<1>1. IInv => MisconfigurationNamed
  BY DEF IInv, Named, MisconfigurationNamed
<1> QED
  BY <1>1, Invariance, PTL
=============================================================================
