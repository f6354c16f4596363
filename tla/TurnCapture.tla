----------------------------- MODULE TurnCapture -----------------------------
(***************************************************************************)
(* Capture of conversation turns (src/hermes_pgvector/__init__.py):        *)
(* sync_turn() enqueues each turn as it is said, on_session_end() replays  *)
(* the whole transcript as a backstop, and a set of fingerprints keeps the *)
(* second from writing again what the first had accepted.                  *)
(*                                                                         *)
(* The host is external: one thread calls the hooks, in any order that     *)
(* tests/test_session_switch_contract.py describes.  The queue is the log  *)
(* that AsyncWriter implements.                                            *)
(***************************************************************************)
EXTENDS Integers, Sequences, SequencesExt, FiniteSets

CONSTANTS Sessions,       (* session ids                                    *)
          Texts,          (* role and content of a turn: what is hashed     *)
          Noise,          (* those that _is_noise() filters out             *)
          FingerprintCap, (* _FINGERPRINT_CAP                               *)
          DelegationEnabled, (* that migration 002 is applied                *)
          MaxQueue,       (* write_queue_maxsize                            *)
          MaxTurns,       (* bound on turns said                            *)
          MaxEvents       (* bound on session ends and switches             *)

ASSUME CaptureAssumption ==
  /\ Noise \subseteq Texts /\ "none" \notin Texts /\ DelegationEnabled \in BOOLEAN
  /\ FingerprintCap \in Nat \ {0} /\ MaxQueue \in Nat \ {0}
  /\ MaxTurns \in Nat /\ MaxEvents \in Nat

VARIABLES
  session,      (* self._session_id                                         *)
  fingerprints, (* self._turn_fingerprints                                  *)
  queue,        (* the writer's queue: turns, and other writes              *)
  stored,       (* conversations: the rows, in order of id                  *)
  messages,     (* the host's transcript of the running session             *)
  replay,       (* what an on_session_end() call has still to visit         *)
  replaying,    (* that such a call is running                              *)
  complete,     (* history: the last replay ended with nothing refused, and *)
                (* no turn was said since                                   *)
  said,         (* history: every turn said, with its session               *)
  lost,         (* history: an accepted turn was not stored                 *)
  reset,        (* history: the fingerprints were reset at their cap        *)
  events        (* history: session ends and switches                       *)

hooks   == <<session, messages, replay, replaying>>
history == <<complete, said, lost, reset, events>>
vars == <<hooks, fingerprints, queue, stored, history>>

Turn(s, text) == [session |-> s, text |-> text]

(* A queued write that is no said turn: a registration, a delegation edge  *)
(* or the turn that on_delegation() makes up; it takes a slot.             *)
Aside == [session |-> "none", text |-> "none"]

Init ==
  /\ session \in Sessions /\ fingerprints = {} /\ queue = <<>> /\ stored = <<>>
  /\ messages = <<>> /\ replay = <<>> /\ replaying = FALSE
  /\ complete = FALSE /\ said = <<>> /\ lost = FALSE /\ reset = FALSE /\ events = 0

-----------------------------------------------------------------------------
Accepted == Len(queue) < MaxQueue

(* A variant of _remember_turn() that lets the set grow past its cap. *)
RememberTurn_Late(text) ==
  IF Cardinality(fingerprints) > FingerprintCap
  THEN fingerprints' = {text} /\ reset' = TRUE
  ELSE fingerprints' = fingerprints \cup {text} /\ reset' = reset

(* _remember_turn(): at the cap the set starts afresh. *)
RememberTurn(text) ==
  IF Cardinality(fingerprints) >= FingerprintCap
  THEN fingerprints' = {text} /\ reset' = TRUE
  ELSE fingerprints' = fingerprints \cup {text} /\ reset' = reset

(* A variant that fingerprints a turn whether or not it was accepted. *)
Enqueue_RememberAlways(text) ==
  /\ queue' = IF Accepted THEN Append(queue, Turn(session, text)) ELSE queue
  /\ RememberTurn(text)

(* Both hooks enqueue a turn, and fingerprint it only if it was accepted.  *)
Enqueue(text) ==
  \/ /\ Accepted
     /\ queue' = Append(queue, Turn(session, text))
     /\ RememberTurn(text)
  \/ /\ ~Accepted
     /\ UNCHANGED <<queue, fingerprints, reset>>

(* A turn is said and the host calls sync_turn(), which looks at no        *)
(* fingerprint: said again, it is a turn again.                            *)
SyncTurn(text) ==
  /\ ~replaying /\ Len(said) < MaxTurns
  /\ said' = Append(said, Turn(session, text))
  /\ messages' = Append(messages, text)
  /\ complete' = FALSE
  /\ IF text \in Noise THEN UNCHANGED <<queue, fingerprints, reset>> ELSE Enqueue(text)
  /\ UNCHANGED <<session, replay, replaying, stored, lost, events>>

-----------------------------------------------------------------------------
(* Up to n other writes, as far as the queue has room. *)
PutAside(n) ==
  queue' = queue \o [k \in 1..(IF Len(queue) + n > MaxQueue THEN MaxQueue - Len(queue) ELSE n)
                       |-> Aside]

(* on_delegation() queues an edge and a turn of its own and fingerprints   *)
(* neither.                                                                *)
OnDelegation ==
  /\ ~replaying /\ DelegationEnabled /\ events < MaxEvents
  /\ events' = events + 1
  /\ PutAside(2)
  /\ UNCHANGED <<hooks, fingerprints, stored, complete, said, lost, reset>>

-----------------------------------------------------------------------------
(* on_session_end(messages), one message per step; first it registers the  *)
(* agent, and so takes a slot that a turn may need.                        *)

SessionEnd ==
  /\ ~replaying /\ events < MaxEvents /\ messages # <<>>
  /\ events' = events + 1
  /\ replaying' = TRUE /\ replay' = messages /\ complete' = TRUE
  /\ IF DelegationEnabled THEN PutAside(1) ELSE UNCHANGED queue
  /\ UNCHANGED <<session, messages, fingerprints, stored, said, lost, reset>>

Skipped(text) == text \in Noise \/ text \in fingerprints

ReplaySkips ==
  /\ replaying /\ replay # <<>> /\ Skipped(Head(replay))
  /\ replay' = Tail(replay)
  /\ UNCHANGED <<session, messages, replaying, fingerprints, queue, stored, history>>

ReplayEnqueues ==
  /\ replaying /\ replay # <<>> /\ ~Skipped(Head(replay))
  /\ Enqueue(Head(replay))
  /\ complete' = (complete /\ Accepted)
  /\ replay' = Tail(replay)
  /\ UNCHANGED <<session, messages, replaying, stored, said, lost, events>>

ReplayEnds ==
  /\ replaying /\ replay = <<>>
  /\ replaying' = FALSE
  /\ UNCHANGED <<session, messages, replay, fingerprints, queue, stored, history>>

-----------------------------------------------------------------------------
(* Changes of session *)

(* A variant that forgets the fingerprints of the old session. *)
SessionSwitch_Clear(s, next) ==
  /\ ~replaying /\ events < MaxEvents
  /\ session' = s /\ messages' = next /\ events' = events + 1
  /\ complete' = (complete /\ next = messages)
  /\ fingerprints' = {}
  /\ UNCHANGED <<replay, replaying, queue, stored, said, lost, reset>>

(* on_session_switch() keeps the fingerprints: context compression calls   *)
(* it with no on_session_end() before it, and goes on with the transcript. *)
SessionSwitch(s, next) ==
  /\ ~replaying /\ events < MaxEvents
  /\ session' = s /\ messages' = next /\ events' = events + 1
  /\ complete' = (complete /\ next = messages)
  /\ IF Cardinality(fingerprints) > FingerprintCap
     THEN fingerprints' = {} /\ reset' = TRUE
     ELSE UNCHANGED <<fingerprints, reset>>
  /\ UNCHANGED <<replay, replaying, queue, stored, said, lost>>

(* initialize() of a later session keeps them too.  Its shutdown() drains  *)
(* the queue; what StoreTurn has not taken by then is given up, when the   *)
(* drain times out.                                                        *)
Initialize(s) ==
  /\ ~replaying /\ events < MaxEvents
  /\ session' = s /\ messages' = <<>> /\ events' = events + 1
  /\ complete' = FALSE
  /\ queue' = <<>> /\ lost' = (lost \/ \E k \in DOMAIN queue : queue[k] # Aside)
  /\ UNCHANGED <<replay, replaying, fingerprints, stored, said, reset>>

-----------------------------------------------------------------------------
(* append_turn(): one INSERT. *)
AppendTurn(turn) == stored' = Append(stored, turn)

(* The worker inserts the turn, or the statement fails and it is dropped.  *)
StoreTurn ==
  /\ queue # <<>> /\ queue' = Tail(queue)
  /\ \/ Head(queue) = Aside /\ UNCHANGED <<stored, lost>>
     \/ Head(queue) # Aside /\ AppendTurn(Head(queue)) /\ UNCHANGED lost
     \/ Head(queue) # Aside /\ UNCHANGED stored /\ lost' = TRUE
  /\ UNCHANGED <<hooks, fingerprints, complete, said, reset, events>>

Next ==
  \/ \E text \in Texts : SyncTurn(text)
  \/ OnDelegation \/ SessionEnd \/ ReplaySkips \/ ReplayEnqueues \/ ReplayEnds
  \/ \E s \in Sessions : SessionSwitch(s, messages) \/ SessionSwitch(s, <<>>) \/ Initialize(s)
  \/ StoreTurn

Spec == Init /\ [][Next]_vars

-----------------------------------------------------------------------------
TypeOK ==
  /\ session \in Sessions
  /\ fingerprints \subseteq Texts /\ Cardinality(fingerprints) <= FingerprintCap
  /\ queue \in Seq([session : Sessions, text : Texts] \cup {Aside}) /\ Len(queue) <= MaxQueue
  /\ stored \in Seq([session : Sessions, text : Texts])
  /\ said \in Seq([session : Sessions, text : Texts])
  /\ messages \in Seq(Texts) /\ replay \in Seq(Texts) /\ replaying \in BOOLEAN
  /\ complete \in BOOLEAN /\ lost \in BOOLEAN /\ reset \in BOOLEAN /\ events \in Nat

CountOf(turns, text) == Cardinality({i \in DOMAIN turns : turns[i].text = text})

(* The comment in _turn_fingerprint(): without it the same turn lands      *)
(* twice.  A text has no more rows, stored or on their way, than times it  *)
(* was said, whatever sequence of hooks the host calls, unless the         *)
(* fingerprints were reset at their cap.                                   *)
NoDoubleWrite ==
  ~reset => \A text \in Texts : CountOf(stored, text) + CountOf(queue, text) <= CountOf(said, text)

Captured == ToSet(stored) \cup ToSet(queue)

(* The contract of on_session_end(): a turn that a full queue refused is   *)
(* not lost.  Once a replay has ended with nothing refused, every text of  *)
(* the transcript is captured, if the worker lost none: under some session *)
(* only, since fingerprints ignore the session and outlive it, so that a   *)
(* refused turn is skipped if an earlier session has said the same.        *)
BackstopCapturesTexts ==
  complete /\ ~replaying /\ ~lost =>
    \A text \in ToSet(messages) \ Noise : \E turn \in Captured : turn.text = text
=============================================================================
