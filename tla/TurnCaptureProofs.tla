-------------------------- MODULE TurnCaptureProofs --------------------------
(***************************************************************************)
(* No turn is written twice and the replay saves what a full queue         *)
(* refused, for any texts, sessions and limits, in whatever order the host *)
(* calls the hooks.                                                        *)
(***************************************************************************)
EXTENDS TurnCapture, FiniteSetTheorems, TLAPS

Item == [session : Sessions, text : Texts] \cup {Aside}

Holds(items, text) == \E k \in DOMAIN items : items[k].text = text
CapturedText(text) == Holds(stored, text) \/ Holds(queue, text)

(* As long as the fingerprints were never reset they know all that was     *)
(* written; what they know was written, if nothing was lost.               *)
Fingerprinted == ~reset => \A text \in Texts : CapturedText(text) => text \in fingerprints
Kept == ~lost => \A text \in fingerprints : CapturedText(text)

(* A transcript, and what is left of one, was said. *)
Spoken ==
  /\ \A k \in DOMAIN messages : Holds(said, messages[k])
  /\ \A k \in DOMAIN replay : Holds(said, replay[k])

(* Between the replays nothing is left to visit; while nothing was refused *)
(* each text of the transcript is captured or will be visited.             *)
Visited ==
  /\ ~replaying => replay = <<>>
  /\ complete /\ ~lost =>
       \A k \in DOMAIN messages :
         \/ messages[k] \in Noise \/ CapturedText(messages[k])
         \/ \E j \in DOMAIN replay : replay[j] = messages[k]

IInv ==
  /\ TypeOK /\ IsFiniteSet(fingerprints) /\ NoDoubleWrite
  /\ Fingerprinted /\ Kept /\ Spoken /\ Visited

-----------------------------------------------------------------------------
(* Counting the rows of a text *)

Places(items, text) == {k \in DOMAIN items : items[k].text = text}

LEMMA PlacesFinite ==
  ASSUME NEW S, NEW items \in Seq(S), NEW text
  PROVE  /\ IsFiniteSet(Places(items, text)) /\ CountOf(items, text) \in Nat
         /\ CountOf(items, text) = Cardinality(Places(items, text))
         /\ Holds(items, text) <=> CountOf(items, text) > 0
<1>1. Places(items, text) \subseteq 1..Len(items) /\ Len(items) \in Nat
  BY DEF Places
<1>2. IsFiniteSet(Places(items, text)) /\ Cardinality(Places(items, text)) \in Nat
  <2>1. IsFiniteSet(1..Len(items))
    BY <1>1, FS_Interval
  <2>2. IsFiniteSet(Places(items, text))
    BY <1>1, <2>1, FS_Subset
  <2> QED
    BY <2>2, FS_CardinalityType
<1>3. CountOf(items, text) = Cardinality(Places(items, text))
  BY DEF CountOf, Places
<1>4. Holds(items, text) <=> Places(items, text) # {}
  BY DEF Holds, Places
<1>5. Cardinality(Places(items, text)) = 0 <=> Places(items, text) = {}
  BY <1>2, FS_EmptySet
<1> QED
  BY <1>2, <1>3, <1>4, <1>5

LEMMA CountAppend ==
  ASSUME NEW S, NEW items \in Seq(S), NEW item \in S, NEW text
  PROVE  /\ CountOf(Append(items, item), text)
              = CountOf(items, text) + (IF item.text = text THEN 1 ELSE 0)
         /\ Holds(Append(items, item), text) <=> Holds(items, text) \/ item.text = text
<1> DEFINE n == Len(items)
           new == Append(items, item)
<1>1. /\ n \in Nat /\ new \in Seq(S) /\ DOMAIN items = 1..n /\ DOMAIN new = 1..(n + 1)
      /\ \A k \in 1..n : new[k] = items[k]
      /\ new[n + 1] = item /\ n + 1 \notin 1..n
  OBVIOUS
<1>2. CASE item.text = text
  <2>1. Places(new, text) = Places(items, text) \cup {n + 1} /\ n + 1 \notin Places(items, text)
    BY <1>1, <1>2 DEF Places
  <2>2. Cardinality(Places(new, text)) = Cardinality(Places(items, text)) + 1
    BY <2>1, PlacesFinite, FS_AddElement
  <2>3. Holds(new, text)
    BY <1>1, <1>2 DEF Holds
  <2> HIDE DEF new
  <2> QED
    BY <1>1, <1>2, <2>2, <2>3, PlacesFinite DEF new
<1>3. CASE item.text # text
  <2>1. Places(new, text) = Places(items, text)
    BY <1>1, <1>3 DEF Places
  <2>2. Holds(new, text) <=> Holds(items, text)
    BY <1>1, <1>3 DEF Holds
  <2> HIDE DEF new
  <2>3. CountOf(new, text) = CountOf(items, text) /\ CountOf(items, text) \in Nat
    BY <1>1, <2>1, PlacesFinite
  <2> QED
    BY <1>3, <2>2, <2>3 DEF new
<1> QED
  BY <1>2, <1>3

LEMMA CountTail ==
  ASSUME NEW S, NEW items \in Seq(S), items # <<>>, NEW text
  PROVE  /\ CountOf(items, text)
              = CountOf(Tail(items), text) + (IF Head(items).text = text THEN 1 ELSE 0)
         /\ Holds(items, text) <=> Holds(Tail(items), text) \/ Head(items).text = text
<1> DEFINE n == Len(items)
           rest == Tail(items)
           later == {k + 1 : k \in Places(rest, text)}
           f == [k \in Places(rest, text) |-> k + 1]
<1>1. /\ n \in Nat \ {0} /\ rest \in Seq(S) /\ DOMAIN items = 1..n /\ DOMAIN rest = 1..(n - 1)
      /\ \A k \in 1..(n - 1) : rest[k] = items[k + 1]
      /\ Head(items) = items[1] /\ Head(items) \in S
  OBVIOUS
<1>2. \A k \in Places(rest, text) : k \in Nat /\ k >= 1 /\ k <= n - 1
  BY <1>1 DEF Places
<1>3. Cardinality(later) = Cardinality(Places(rest, text)) /\ IsFiniteSet(later)
  <2>1. f \in Surjection(Places(rest, text), later)
    BY DEF Surjection
  <2>2. f \in Injection(Places(rest, text), later)
    <3>1. f \in [Places(rest, text) -> later]
      OBVIOUS
    <3>2. ASSUME NEW a \in Places(rest, text), NEW b \in Places(rest, text), f[a] = f[b]
          PROVE  a = b
      BY <1>2, <3>2
    <3> QED
      BY <3>1, <3>2 DEF Injection, IsInjective
  <2> HIDE DEF f, later, rest
  <2>3. IsFiniteSet(Places(rest, text))
    BY <1>1, PlacesFinite
  <2> QED
    BY <2>1, <2>2, <2>3, FS_Surjection
<1>4. \A k \in 2..n : k - 1 \in 1..(n - 1) /\ k = (k - 1) + 1
  BY <1>1
<1>5. later = {k \in 2..n : items[k].text = text}
  <2>1. ASSUME NEW k \in later PROVE k \in 2..n /\ items[k].text = text
    BY <1>1, <1>2, <2>1 DEF Places
  <2>2. ASSUME NEW k \in 2..n, items[k].text = text PROVE k \in later
    BY <1>1, <1>4, <2>2 DEF Places
  <2> HIDE DEF later
  <2> QED
    BY <2>1, <2>2
<1>6. 1..n = {1} \cup 2..n /\ 1 \notin 2..n
  BY <1>1
<1> HIDE DEF n, rest, later, f
<1>7. CASE Head(items).text = text
  <2>1. Places(items, text) = later \cup {1} /\ 1 \notin later
    BY <1>1, <1>5, <1>6, <1>7 DEF Places
  <2>2. Cardinality(Places(items, text)) = Cardinality(Places(rest, text)) + 1
    BY <1>3, <2>1, FS_AddElement
  <2>3. CountOf(items, text) = CountOf(rest, text) + 1
    BY <1>1, <2>2, PlacesFinite
  <2>4. Holds(items, text)
    BY <1>1, <1>6, <1>7 DEF Holds
  <2> QED
    BY <1>7, <2>3, <2>4 DEF rest
<1>8. CASE Head(items).text # text
  <2>1. Places(items, text) = later
    BY <1>1, <1>5, <1>6, <1>8 DEF Places
  <2>2. CountOf(items, text) = CountOf(rest, text) /\ CountOf(rest, text) \in Nat
    BY <1>1, <1>3, <2>1, PlacesFinite
  <2>3. Holds(items, text) <=> Holds(rest, text)
    BY <1>1, <2>2, PlacesFinite
  <2> QED
    BY <1>8, <2>2, <2>3 DEF rest
<1> QED
  BY <1>7, <1>8

(* Other writes hold no said text. *)
LEMMA CountAsides ==
  ASSUME NEW S, NEW items \in Seq(S), Aside \in S, NEW n \in Nat, NEW text \in Texts
  PROVE  LET new == items \o [k \in 1..n |-> Aside]
         IN  /\ new \in Seq(S) /\ Len(new) = Len(items) + n
             /\ CountOf(new, text) = CountOf(items, text)
             /\ Holds(new, text) <=> Holds(items, text)
<1> DEFINE asides == [k \in 1..n |-> Aside]
           new == items \o asides
<1>1. asides \in Seq(S) /\ Len(asides) = n
  OBVIOUS
<1>2. Aside.text # text
  BY CaptureAssumption DEF Aside
<1>3. /\ new \in Seq(S) /\ Len(new) = Len(items) + n
      /\ DOMAIN new = 1..(Len(items) + n) /\ DOMAIN items = 1..Len(items) /\ Len(items) \in Nat
      /\ \A k \in 1..(Len(items) + n) :
           new[k] = IF k <= Len(items) THEN items[k] ELSE asides[k - Len(items)]
  BY <1>1
<1>4. \A k \in 1..(Len(items) + n) : k > Len(items) => new[k] = Aside
  BY <1>3
<1> HIDE DEF asides, new
<1>5. Places(new, text) = Places(items, text)
  BY <1>2, <1>3, <1>4 DEF Places
<1>6. CountOf(new, text) = CountOf(items, text)
  BY <1>3, <1>5, PlacesFinite
<1>7. Holds(new, text) <=> Holds(items, text)
  BY <1>3, <1>6, PlacesFinite
<1> QED
  BY <1>3, <1>6, <1>7 DEF new, asides

-----------------------------------------------------------------------------
(* The queue, the rows and the fingerprints *)

Said == [session : Sessions, text : Texts]

Data ==
  /\ fingerprints \subseteq Texts /\ IsFiniteSet(fingerprints)
  /\ Cardinality(fingerprints) <= FingerprintCap
  /\ queue \in Seq(Item) /\ Len(queue) <= MaxQueue
  /\ stored \in Seq(Said) /\ said \in Seq(Said) /\ lost \in BOOLEAN /\ reset \in BOOLEAN
  /\ NoDoubleWrite /\ Fingerprinted /\ Kept

Hooks ==
  /\ session \in Sessions /\ messages \in Seq(Texts) /\ replay \in Seq(Texts)
  /\ replaying \in BOOLEAN /\ complete \in BOOLEAN /\ events \in Nat
  /\ Spoken /\ Visited

LEMMA Parts == (IInv <=> Data /\ Hooks) /\ (IInv' <=> Data' /\ Hooks')
  BY DEF IInv, Data, Hooks, TypeOK, Item, Said

LEMMA Numbers ==
  ASSUME Data, NEW text
  PROVE  /\ CountOf(stored, text) \in Nat /\ CountOf(queue, text) \in Nat /\ CountOf(said, text) \in Nat
         /\ Holds(stored, text) <=> CountOf(stored, text) > 0
         /\ Holds(queue, text) <=> CountOf(queue, text) > 0
         /\ Holds(said, text) <=> CountOf(said, text) > 0
  BY PlacesFinite DEF Data

LEMMA Remembered ==
  ASSUME Data, NEW text \in Texts, RememberTurn(text)
  PROVE  /\ fingerprints' \subseteq Texts /\ IsFiniteSet(fingerprints')
         /\ Cardinality(fingerprints') <= FingerprintCap
         /\ text \in fingerprints' /\ fingerprints' \subseteq fingerprints \cup {text}
         /\ reset' \in BOOLEAN /\ (~reset' => ~reset /\ fingerprints \subseteq fingerprints')
<1>1. Cardinality(fingerprints) \in Nat /\ IsFiniteSet(fingerprints) /\ fingerprints \subseteq Texts
  BY FS_CardinalityType DEF Data
<1>2. CASE Cardinality(fingerprints) >= FingerprintCap
  <2>1. fingerprints' = {text} /\ reset' = TRUE
    BY <1>2 DEF RememberTurn
  <2>2. IsFiniteSet({text}) /\ Cardinality({text}) = 1
    BY FS_Singleton
  <2> QED
    BY <2>1, <2>2, CaptureAssumption
<1>3. CASE ~(Cardinality(fingerprints) >= FingerprintCap)
  <2>1. fingerprints' = fingerprints \cup {text} /\ reset' = reset
    BY <1>3 DEF RememberTurn
  <2>2. IsFiniteSet(fingerprints') /\ Cardinality(fingerprints') <= Cardinality(fingerprints) + 1
    BY <1>1, <2>1, FS_AddElement
  <2>3. Cardinality(fingerprints') \in Nat
    BY <2>2, FS_CardinalityType
  <2>4. reset' \in BOOLEAN
    BY <2>1 DEF Data
  <2> QED
    BY <1>1, <1>3, <2>1, <2>2, <2>3, <2>4, CaptureAssumption
<1> QED
  BY <1>2, <1>3

(* A turn is enqueued when it is said, or when it was said before and is   *)
(* in no row: in both cases it has been said more often than written.      *)
LEMMA EnqueueKeeps ==
  ASSUME Data, session \in Sessions, NEW text \in Texts, Enqueue(text), stored' = stored, lost' = lost,
         \/ said' = Append(said, Turn(session, text))
         \/ said' = said /\ Holds(said, text) /\ text \notin fingerprints
  PROVE  /\ Data'
         /\ \A t \in Texts : CapturedText(t) => CapturedText(t)'
         /\ Accepted => CapturedText(text)'
<1> DEFINE turn == Turn(session, text)
<1>1. turn \in Said /\ turn \in Item /\ turn.text = text
  BY DEF Turn, Said, Item
<1> HIDE DEF turn
<1>2. said' \in Seq(Said)
  <2>1. said \in Seq(Said) /\ Append(said, turn) \in Seq(Said)
    BY <1>1 DEF Data
  <2> QED
    BY <2>1 DEF turn
<1>3. ASSUME NEW t \in Texts
      PROVE  /\ CountOf(said', t) \in Nat /\ CountOf(said', t) >= CountOf(said, t)
             /\ ~reset => CountOf(stored, t) + CountOf(queue, t)
                            + (IF t = text THEN 1 ELSE 0) <= CountOf(said', t)
  <2>1. /\ CountOf(stored, t) \in Nat /\ CountOf(queue, t) \in Nat /\ CountOf(said, t) \in Nat
        /\ ~reset => CountOf(stored, t) + CountOf(queue, t) <= CountOf(said, t)
    BY Numbers DEF Data, NoDoubleWrite
  <2>2. CASE said' = Append(said, turn)
    <3>1. CountOf(said', t) = CountOf(said, t) + (IF turn.text = t THEN 1 ELSE 0)
      BY <1>1, <2>2, CountAppend DEF Data
    <3> QED
      BY <1>1, <2>1, <3>1
  <2>3. CASE said' = said /\ Holds(said, text) /\ text \notin fingerprints
    <3>1. ~reset /\ t = text => CountOf(stored, t) = 0 /\ CountOf(queue, t) = 0
      BY <2>1, <2>3, Numbers DEF Data, Fingerprinted, CapturedText
    <3>2. t = text => CountOf(said, t) > 0
      BY <2>3, Numbers
    <3>3. CountOf(said', t) = CountOf(said, t)
      BY <2>3
    <3>4. CASE t = text
      BY <2>1, <3>1, <3>2, <3>3, <3>4
    <3>5. CASE t # text
      BY <2>1, <3>3, <3>5
    <3> QED
      BY <3>4, <3>5
  <2> QED
    BY <2>2, <2>3 DEF turn
<1>4. CASE ~Accepted
  <2>1. queue' = queue /\ fingerprints' = fingerprints /\ reset' = reset
    BY <1>4 DEF Enqueue
  <2>2. NoDoubleWrite'
    <3>1. ASSUME ~reset, NEW t \in Texts
          PROVE  CountOf(stored, t) + CountOf(queue, t) <= CountOf(said', t)
      BY <1>3, <3>1, Numbers
    <3> QED
      BY <2>1, <3>1 DEF NoDoubleWrite
  <2> QED
    BY <1>2, <1>4, <2>1, <2>2 DEF Data, Fingerprinted, Kept, CapturedText
<1>5. CASE Accepted
  <2>1. queue' = Append(queue, turn) /\ RememberTurn(text)
    BY <1>5 DEF Enqueue, turn
  <2>2. queue' \in Seq(Item) /\ Len(queue') <= MaxQueue
    BY <1>1, <1>5, <2>1, CaptureAssumption DEF Data, Accepted
  <2>3. ASSUME NEW t \in Texts
        PROVE  /\ CountOf(queue', t) = CountOf(queue, t) + (IF t = text THEN 1 ELSE 0)
               /\ Holds(queue', t) <=> Holds(queue, t) \/ t = text
    BY <1>1, <2>1, CountAppend DEF Data
  <2>4. \A t \in Texts : CapturedText(t)' <=> CapturedText(t) \/ t = text
    BY <2>3 DEF CapturedText
  <2>5. ~reset' => ~reset
    BY <2>1, Remembered
  <2>6. NoDoubleWrite'
    <3>1. ASSUME ~reset', NEW t \in Texts
          PROVE  CountOf(stored, t) + CountOf(queue', t) <= CountOf(said', t)
      BY <1>3, <2>3, <2>5, <3>1, Numbers
    <3> QED
      BY <3>1 DEF NoDoubleWrite
  <2>7. Fingerprinted'
    BY <2>1, <2>4, Remembered DEF Data, Fingerprinted
  <2>8. Kept'
    BY <2>1, <2>4, Remembered DEF Data, Kept
  <2>9. /\ fingerprints' \subseteq Texts /\ IsFiniteSet(fingerprints')
        /\ Cardinality(fingerprints') <= FingerprintCap /\ reset' \in BOOLEAN
    BY <2>1, Remembered
  <2>10. Data'
    BY <1>2, <2>2, <2>6, <2>7, <2>8, <2>9 DEF Data
  <2> QED
    BY <2>4, <2>10
<1> QED
  BY <1>4, <1>5

(* Other writes change nothing of that. *)
LEMMA AsideKeeps ==
  ASSUME Data, NEW n \in Nat, PutAside(n), UNCHANGED <<fingerprints, stored, said, lost, reset>>
  PROVE  Data' /\ \A t \in Texts : CapturedText(t)' <=> CapturedText(t)
<1> DEFINE room == IF Len(queue) + n > MaxQueue THEN MaxQueue - Len(queue) ELSE n
<1>1. /\ queue \in Seq(Item) /\ Len(queue) \in Nat /\ Len(queue) <= MaxQueue /\ MaxQueue \in Nat
      /\ Aside \in Item
  BY CaptureAssumption DEF Data, Item
<1>2. room \in Nat /\ Len(queue) + room <= MaxQueue
  BY <1>1
<1>3. queue' = queue \o [k \in 1..room |-> Aside]
  BY DEF PutAside
<1> HIDE DEF room
<1>4. queue' \in Seq(Item) /\ Len(queue') <= MaxQueue
  <2>1. [k \in 1..room |-> Aside] \in Seq(Item) /\ Len([k \in 1..room |-> Aside]) = room
    BY <1>1, <1>2
  <2> QED
    BY <1>1, <1>2, <1>3, <2>1
<1>5. \A t \in Texts : CountOf(queue', t) = CountOf(queue, t) /\ (Holds(queue', t) <=> Holds(queue, t))
  BY <1>1, <1>2, <1>3, CountAsides
<1>6. \A t \in Texts : CapturedText(t)' <=> CapturedText(t)
  BY <1>5 DEF CapturedText
<1>7. NoDoubleWrite'
  BY <1>5 DEF Data, NoDoubleWrite
<1>8. Fingerprinted' /\ Kept'
  BY <1>6 DEF Data, Fingerprinted, Kept
<1> QED
  BY <1>4, <1>6, <1>7, <1>8 DEF Data

(* The worker moves a turn from the queue to the table, or loses it. *)
LEMMA StoreKeeps ==
  ASSUME Data, StoreTurn
  PROVE  Data' /\ (~lost' => ~lost /\ \A t \in Texts : CapturedText(t)' <=> CapturedText(t))
<1> DEFINE item == Head(queue)
<1>1. /\ queue \in Seq(Item) /\ queue # <<>> /\ item \in Item /\ queue' = Tail(queue)
      /\ queue' \in Seq(Item) /\ Len(queue') <= MaxQueue
      /\ UNCHANGED <<fingerprints, said, reset>>
  BY CaptureAssumption DEF Data, StoreTurn
<1> HIDE DEF item
<1>2. ASSUME NEW t \in Texts
      PROVE  /\ CountOf(queue, t) = CountOf(queue', t) + (IF item.text = t THEN 1 ELSE 0)
             /\ Holds(queue, t) <=> Holds(queue', t) \/ item.text = t
             /\ CountOf(queue', t) \in Nat /\ CountOf(queue, t) \in Nat
             /\ CountOf(stored, t) \in Nat /\ CountOf(said, t) \in Nat
  BY <1>1, CountTail, PlacesFinite, Numbers DEF item
<1>3. CASE item = Aside /\ stored' = stored /\ lost' = lost
  <2>1. \A t \in Texts : item.text # t
    BY <1>3, CaptureAssumption DEF Aside
  <2>2. \A t \in Texts : CountOf(queue', t) = CountOf(queue, t) /\ (CapturedText(t)' <=> CapturedText(t))
    BY <1>2, <1>3, <2>1 DEF CapturedText
  <2>3. NoDoubleWrite'
    BY <1>1, <1>3, <2>2 DEF Data, NoDoubleWrite
  <2>4. Fingerprinted' /\ Kept'
    BY <1>1, <1>3, <2>2 DEF Data, Fingerprinted, Kept
  <2> QED
    BY <1>1, <1>3, <2>2, <2>3, <2>4 DEF Data
<1>4. CASE item # Aside /\ stored' = Append(stored, item) /\ lost' = lost
  <2>1. item \in Said
    BY <1>1, <1>4 DEF Item, Said
  <2>2. stored' \in Seq(Said)
    BY <1>4, <2>1 DEF Data
  <2>3. ASSUME NEW t \in Texts
        PROVE  /\ CountOf(stored', t) = CountOf(stored, t) + (IF item.text = t THEN 1 ELSE 0)
               /\ Holds(stored', t) <=> Holds(stored, t) \/ item.text = t
    BY <1>4, <2>1, CountAppend DEF Data
  <2>4. \A t \in Texts : CapturedText(t)' <=> CapturedText(t)
    BY <1>2, <2>3 DEF CapturedText
  <2>5. \A t \in Texts : CountOf(stored', t) + CountOf(queue', t) = CountOf(stored, t) + CountOf(queue, t)
    BY <1>2, <2>3
  <2>6. NoDoubleWrite'
    BY <1>1, <2>5 DEF Data, NoDoubleWrite
  <2>7. Fingerprinted' /\ Kept'
    BY <1>1, <1>4, <2>4 DEF Data, Fingerprinted, Kept
  <2> QED
    BY <1>1, <1>4, <2>2, <2>4, <2>6, <2>7 DEF Data
<1>5. CASE item # Aside /\ stored' = stored /\ lost' = TRUE
  <2>1. \A t \in Texts : CapturedText(t)' => CapturedText(t)
    BY <1>2, <1>5 DEF CapturedText
  <2>2. NoDoubleWrite'
    <3>1. ASSUME ~reset, NEW t \in Texts
          PROVE  CountOf(stored, t) + CountOf(queue', t) <= CountOf(said, t)
      BY <1>2, <3>1 DEF Data, NoDoubleWrite
    <3> QED
      BY <1>1, <1>5, <3>1 DEF NoDoubleWrite
  <2>3. Fingerprinted' /\ Kept'
    BY <1>1, <1>5, <2>1 DEF Data, Fingerprinted, Kept
  <2> QED
    BY <1>1, <1>5, <2>2, <2>3 DEF Data
<1> QED
  BY <1>3, <1>4, <1>5 DEF StoreTurn, AppendTurn, item

-----------------------------------------------------------------------------
(* The hooks, one at a time *)

LEMMA SyncKeeps ==
  ASSUME IInv, NEW text \in Texts, SyncTurn(text)
  PROVE  IInv'
<1>1. Data /\ Hooks
  BY Parts
<1>2. /\ said' = Append(said, Turn(session, text)) /\ messages' = Append(messages, text)
      /\ complete' = FALSE /\ ~replaying /\ UNCHANGED <<session, replay, replaying, stored, lost, events>>
  BY DEF SyncTurn
<1>3. Turn(session, text) \in Said /\ Turn(session, text).text = text
  BY <1>1 DEF Hooks, Turn, Said
<1>4. /\ \A t : CountOf(said', t) = CountOf(said, t) + (IF text = t THEN 1 ELSE 0)
      /\ \A t : Holds(said', t) <=> Holds(said, t) \/ text = t
  BY <1>1, <1>2, <1>3, CountAppend DEF Data
<1>5. Data'
  <2>1. CASE text \in Noise
    <3>1. UNCHANGED <<queue, fingerprints, reset>>
      BY <2>1 DEF SyncTurn
    <3>2. said' \in Seq(Said)
      BY <1>1, <1>2, <1>3 DEF Data
    <3>3. NoDoubleWrite'
      <4>1. ASSUME ~reset, NEW t \in Texts
            PROVE  CountOf(stored, t) + CountOf(queue, t) <= CountOf(said', t)
        <5>1. CountOf(said', t) >= CountOf(said, t)
          BY <1>1, <1>4, Numbers
        <5>2. CountOf(said', t) \in Nat
          BY <1>1, <1>4, Numbers
        <5>3. CountOf(stored, t) + CountOf(queue, t) <= CountOf(said, t)
          BY <1>1, <4>1 DEF Data, NoDoubleWrite
        <5> QED
          BY <1>1, <5>1, <5>2, <5>3, Numbers
      <4> QED
        BY <1>2, <3>1, <4>1 DEF NoDoubleWrite
    <3> QED
      BY <1>1, <1>2, <3>1, <3>2, <3>3 DEF Data, Fingerprinted, Kept, CapturedText
  <2>2. CASE text \notin Noise
    <3>1. Enqueue(text)
      BY <2>2 DEF SyncTurn
    <3> QED
      BY <1>1, <1>2, <3>1, EnqueueKeeps DEF Hooks
  <2> QED
    BY <2>1, <2>2
<1>6. Hooks'
  <2>1. messages' \in Seq(Texts) /\ \A k \in DOMAIN messages' : messages'[k] = text \/
          (k \in DOMAIN messages /\ messages'[k] = messages[k])
    BY <1>1, <1>2 DEF Hooks
  <2>2. Spoken'
    BY <1>1, <1>2, <1>4, <2>1 DEF Hooks, Spoken
  <2>3. Visited'
    BY <1>1, <1>2 DEF Hooks, Visited
  <2> QED
    BY <1>1, <1>2, <2>1, <2>2, <2>3 DEF Hooks
<1> QED
  BY <1>5, <1>6, Parts

LEMMA DelegationKeeps ==
  ASSUME IInv, OnDelegation
  PROVE  IInv'
<1>1. Data /\ Hooks
  BY Parts
<1>2. Data' /\ \A t \in Texts : CapturedText(t)' <=> CapturedText(t)
  BY <1>1, AsideKeeps DEF OnDelegation
<1>3. /\ UNCHANGED <<session, messages, replay, replaying, complete, said, lost>>
      /\ events' = events + 1
  BY DEF OnDelegation, hooks
<1>4. \A k \in DOMAIN messages : messages[k] \in Texts
  BY <1>1 DEF Hooks
<1>5. Visited'
  BY <1>1, <1>2, <1>3, <1>4 DEF Hooks, Visited
<1>6. Hooks'
  BY <1>1, <1>3, <1>5 DEF Hooks, Spoken
<1> QED
  BY <1>2, <1>6, Parts

LEMMA EndKeeps ==
  ASSUME IInv, SessionEnd
  PROVE  IInv'
<1>1. Data /\ Hooks
  BY Parts
<1>2. /\ UNCHANGED <<session, messages, fingerprints, stored, said, lost, reset>>
      /\ events' = events + 1 /\ replaying' = TRUE /\ replay' = messages /\ complete' = TRUE
  BY DEF SessionEnd
<1>3. Data'
  <2>1. CASE DelegationEnabled
    <3>1. PutAside(1)
      BY <2>1 DEF SessionEnd
    <3> QED
      BY <1>1, <1>2, <3>1, AsideKeeps
  <2>2. CASE ~DelegationEnabled
    BY <1>1, <1>2, <2>2 DEF SessionEnd, Data, NoDoubleWrite, Fingerprinted, Kept, CapturedText
  <2> QED
    BY <2>1, <2>2
<1>4. Visited'
  BY <1>2 DEF Visited
<1>5. Hooks'
  BY <1>1, <1>2, <1>4 DEF Hooks, Spoken
<1> QED
  BY <1>3, <1>5, Parts

(* What is left to visit after the first message. *)
LEMMA ReplayTail ==
  ASSUME Hooks, replay # <<>>
  PROVE  /\ Head(replay) \in Texts /\ Tail(replay) \in Seq(Texts) /\ Holds(said, Head(replay))
         /\ \A k \in DOMAIN Tail(replay) : Holds(said, Tail(replay)[k])
         /\ \A text : (\E j \in DOMAIN replay : replay[j] = text) =>
              text = Head(replay) \/ \E j \in DOMAIN Tail(replay) : Tail(replay)[j] = text
<1> DEFINE n == Len(replay)
<1>1. /\ replay \in Seq(Texts) /\ n \in Nat \ {0} /\ DOMAIN replay = 1..n
      /\ DOMAIN Tail(replay) = 1..(n - 1) /\ Head(replay) = replay[1] /\ 1 \in 1..n
      /\ \A k \in 1..(n - 1) : Tail(replay)[k] = replay[k + 1] /\ k + 1 \in 1..n
  BY DEF Hooks
<1>2. Head(replay) \in Texts /\ Tail(replay) \in Seq(Texts)
  BY <1>1
<1>3. \A k \in DOMAIN replay : Holds(said, replay[k])
  BY DEF Hooks, Spoken
<1>4. ASSUME NEW j \in DOMAIN replay, replay[j] # Head(replay)
      PROVE  \E k \in DOMAIN Tail(replay) : Tail(replay)[k] = replay[j]
  <2>1. j - 1 \in 1..(n - 1) /\ j = (j - 1) + 1
    BY <1>1, <1>4
  <2> QED
    BY <1>1, <2>1
<1> QED
  BY <1>1, <1>2, <1>3, <1>4

LEMMA ReplayKeeps ==
  ASSUME IInv, ReplaySkips \/ ReplayEnqueues
  PROVE  IInv'
<1>1. Data /\ Hooks
  BY Parts
<1>2. /\ replaying /\ replay # <<>> /\ replay' = Tail(replay)
      /\ UNCHANGED <<session, messages, replaying, stored, said, lost, events>>
  BY DEF ReplaySkips, ReplayEnqueues, history
<1>a. PICK text \in Texts : text = Head(replay)
  BY <1>1, <1>2, ReplayTail
<1>3. /\ replay' \in Seq(Texts) /\ Holds(said, text)
      /\ \A k \in DOMAIN replay' : Holds(said, replay'[k])
      /\ \A t : (\E j \in DOMAIN replay : replay[j] = t) =>
           t = text \/ \E j \in DOMAIN replay' : replay'[j] = t
  BY <1>1, <1>2, <1>a, ReplayTail
<1>4. \A k \in DOMAIN messages : messages[k] \in Texts
  BY <1>1 DEF Hooks
<1>5. Data' /\ (\A t \in Texts : CapturedText(t) => CapturedText(t)')
      /\ complete' \in BOOLEAN
      /\ (complete' => complete /\ (lost \/ text \in Noise \/ CapturedText(text)'))
  <2>1. CASE ReplaySkips
    <3>1. UNCHANGED <<fingerprints, queue, stored, said, lost, reset, complete>>
      BY <2>1 DEF ReplaySkips, history
    <3>2. Data' /\ \A t \in Texts : CapturedText(t)' <=> CapturedText(t)
      BY <1>1, <3>1 DEF Data, NoDoubleWrite, Fingerprinted, Kept, CapturedText
    <3>3. lost \/ text \in Noise \/ CapturedText(text)
      BY <1>1, <1>a, <2>1 DEF ReplaySkips, Skipped, Data, Kept
    <3>4. complete \in BOOLEAN
      BY <1>1 DEF Hooks
    <3> QED
      BY <1>3, <3>1, <3>2, <3>3, <3>4
  <2>2. CASE ReplayEnqueues
    <3>1. Enqueue(text) /\ text \notin fingerprints /\ complete' = (complete /\ Accepted)
      BY <1>a, <2>2 DEF ReplayEnqueues, Skipped
    <3>2. /\ Data' /\ \A t \in Texts : CapturedText(t) => CapturedText(t)'
          /\ Accepted => CapturedText(text)'
      BY <1>1, <1>2, <1>3, <3>1, EnqueueKeeps DEF Hooks
    <3>3. complete' \in BOOLEAN
      BY <3>1, Zenon
    <3> QED
      BY <3>1, <3>2, <3>3
  <2> QED
    BY <2>1, <2>2
<1>6. Visited'
  <2>1. ASSUME complete', ~lost, NEW k \in DOMAIN messages
        PROVE  \/ messages[k] \in Noise \/ CapturedText(messages[k])'
               \/ \E j \in DOMAIN replay' : replay'[j] = messages[k]
    <3>1. \/ messages[k] \in Noise \/ CapturedText(messages[k])
          \/ \E j \in DOMAIN replay : replay[j] = messages[k]
      BY <1>1, <1>5, <2>1 DEF Hooks, Visited
    <3>2. PICK t \in Texts : t = messages[k]
      BY <1>4, <2>1
    <3>3. CASE t \in Noise
      BY <3>2, <3>3
    <3>4. CASE CapturedText(t)
      <4>1. CapturedText(t)'
        BY <1>5, <3>4
      <4> QED
        BY <1>2, <3>2, <4>1 DEF CapturedText
    <3>5. CASE \E j \in DOMAIN replay : replay[j] = t
      <4>1. t = text \/ \E j \in DOMAIN replay' : replay'[j] = t
        BY <1>3, <3>5
      <4>2. t = text => t \in Noise \/ CapturedText(t)'
        BY <1>5, <2>1 DEF CapturedText
      <4> QED
        BY <1>2, <3>2, <4>1, <4>2 DEF CapturedText
    <3>6. t \in Noise \/ CapturedText(t) \/ \E j \in DOMAIN replay : replay[j] = t
      BY <3>1, <3>2 DEF CapturedText
    <3> QED
      BY <3>3, <3>4, <3>5, <3>6
  <2> QED
    BY <1>2, <2>1 DEF Visited
<1>7. Hooks'
  BY <1>1, <1>2, <1>3, <1>5, <1>6 DEF Hooks, Spoken
<1> QED
  BY <1>5, <1>7, Parts

LEMMA ReplayEndKeeps ==
  ASSUME IInv, ReplayEnds
  PROVE  IInv'
<1>1. Data /\ Hooks
  BY Parts
<1>2. /\ replaying /\ replay = <<>> /\ replaying' = FALSE
      /\ UNCHANGED <<session, messages, replay, fingerprints, queue, stored, complete, said, lost,
                     reset, events>>
  BY DEF ReplayEnds, history
<1>3. Data'
  BY <1>1, <1>2 DEF Data, NoDoubleWrite, Fingerprinted, Kept, CapturedText
<1>4. Hooks'
  BY <1>1, <1>2 DEF Hooks, Spoken, Visited, CapturedText
<1> QED
  BY <1>3, <1>4, Parts

LEMMA SwitchKeeps ==
  ASSUME IInv, NEW s \in Sessions, NEW next \in {messages, <<>>}, SessionSwitch(s, next)
  PROVE  IInv'
<1>1. Data /\ Hooks
  BY Parts
<1>2. Cardinality(fingerprints) \in Nat /\ FingerprintCap \in Nat
      /\ Cardinality(fingerprints) <= FingerprintCap
  BY <1>1, FS_CardinalityType, CaptureAssumption DEF Data
<1>3. UNCHANGED <<fingerprints, reset, replay, replaying, queue, stored, said, lost>>
  BY <1>2 DEF SessionSwitch
<1>4. /\ session' = s /\ messages' = next /\ events' = events + 1 /\ ~replaying
      /\ complete' = (complete /\ next = messages)
  BY DEF SessionSwitch
<1>5. complete' \in BOOLEAN
  BY <1>4, Zenon
<1>6. Data'
  BY <1>1, <1>3 DEF Data, NoDoubleWrite, Fingerprinted, Kept, CapturedText
<1>7. messages' \in Seq(Texts) /\ (messages' = messages \/ DOMAIN messages' = {})
  <2>1. CASE next = messages
    BY <1>1, <1>4, <2>1 DEF Hooks
  <2>2. CASE next = <<>>
    <3>1. <<>> \in Seq(Texts)
      OBVIOUS
    <3>2. DOMAIN <<>> = {}
      OBVIOUS
    <3>3. messages' = <<>>
      BY <1>4, <2>2
    <3> QED
      BY <3>1, <3>2, <3>3
  <2> QED
    BY <2>1, <2>2
<1>8. Spoken' /\ Visited'
  BY <1>1, <1>3, <1>4, <1>7 DEF Hooks, Spoken, Visited, CapturedText
<1>9. Hooks'
  BY <1>1, <1>3, <1>4, <1>5, <1>7, <1>8 DEF Hooks
<1> QED
  BY <1>6, <1>9, Parts

LEMMA InitializeKeeps ==
  ASSUME IInv, NEW s \in Sessions, Initialize(s)
  PROVE  IInv'
<1>1. Data /\ Hooks
  BY Parts
<1>2. /\ session' = s /\ messages' = <<>> /\ events' = events + 1 /\ complete' = FALSE
      /\ queue' = <<>> /\ lost' = (lost \/ \E k \in DOMAIN queue : queue[k] # Aside)
      /\ UNCHANGED <<replay, replaying, fingerprints, stored, said, reset>>
  BY DEF Initialize
<1>3. lost' \in BOOLEAN
  BY <1>2, Zenon
<1>4. queue' \in Seq(Item) /\ Len(queue') = 0 /\ DOMAIN queue' = {} /\ 0 <= MaxQueue
  BY <1>2, CaptureAssumption
<1>5. ASSUME NEW t \in Texts
      PROVE  /\ ~Holds(queue', t) /\ CountOf(queue', t) = 0
             /\ CapturedText(t)' => CapturedText(t)
             /\ ~lost' => ~lost /\ (CapturedText(t) => CapturedText(t)')
  <2>1. ~Holds(queue', t)
    BY <1>4 DEF Holds
  <2>2. CountOf(queue', t) = 0
    <3>1. CountOf(queue', t) \in Nat /\ (Holds(queue', t) <=> CountOf(queue', t) > 0)
      BY <1>4, PlacesFinite
    <3> QED
      BY <2>1, <3>1
  <2>3. ~lost' => ~Holds(queue, t)
    <3>1. Aside.text # t
      BY CaptureAssumption DEF Aside
    <3>2. ~lost' => \A k \in DOMAIN queue : queue[k] = Aside
      BY <1>2
    <3> QED
      BY <3>1, <3>2 DEF Holds
  <2> QED
    BY <1>2, <2>1, <2>2, <2>3 DEF CapturedText
<1>6. NoDoubleWrite'
  <2>1. ASSUME ~reset, NEW t \in Texts
        PROVE  CountOf(stored, t) + CountOf(queue', t) <= CountOf(said, t)
    BY <1>1, <1>5, <2>1, Numbers DEF Data, NoDoubleWrite
  <2> QED
    BY <1>2, <2>1 DEF NoDoubleWrite
<1>7. Fingerprinted' /\ Kept'
  BY <1>1, <1>2, <1>5 DEF Data, Fingerprinted, Kept
<1>8. Data'
  BY <1>1, <1>2, <1>3, <1>4, <1>6, <1>7 DEF Data
<1>9. Hooks'
  <2>1. <<>> \in Seq(Texts)
    OBVIOUS
  <2>2. DOMAIN <<>> = {}
    OBVIOUS
  <2>3. messages' \in Seq(Texts) /\ DOMAIN messages' = {}
    BY <1>2, <2>1, <2>2
  <2>4. Spoken'
    BY <1>1, <1>2, <2>3 DEF Hooks, Spoken
  <2>5. (~replaying => replay = <<>>)'
    BY <1>1, <1>2 DEF Hooks, Visited
  <2>6. Visited'
    BY <1>2, <2>5 DEF Visited
  <2>7. session' \in Sessions /\ replay' \in Seq(Texts) /\ events' \in Nat
    BY <1>1, <1>2 DEF Hooks
  <2>8. replaying' \in BOOLEAN /\ complete' \in BOOLEAN
    BY <1>1, <1>2 DEF Hooks
  <2> QED
    BY <2>3, <2>4, <2>6, <2>7, <2>8 DEF Hooks
<1> QED
  BY <1>8, <1>9, Parts

LEMMA StoreTurnKeeps ==
  ASSUME IInv, StoreTurn
  PROVE  IInv'
<1>1. Data /\ Hooks
  BY Parts
<1>2. Data' /\ (~lost' => ~lost /\ \A t \in Texts : CapturedText(t)' <=> CapturedText(t))
  BY <1>1, StoreKeeps
<1>3. UNCHANGED <<session, messages, replay, replaying, complete, said, events>>
  BY DEF StoreTurn, hooks
<1>4. \A k \in DOMAIN messages : messages[k] \in Texts
  BY <1>1 DEF Hooks
<1>5. Visited'
  BY <1>1, <1>2, <1>3, <1>4 DEF Hooks, Visited
<1>6. Hooks'
  BY <1>1, <1>3, <1>5 DEF Hooks, Spoken
<1> QED
  BY <1>2, <1>6, Parts

-----------------------------------------------------------------------------
(* The theorems *)

LEMMA InitIInv == Init => IInv
<1> SUFFICES ASSUME Init PROVE IInv
  OBVIOUS
<1>1. /\ session \in Sessions /\ fingerprints = {} /\ queue = <<>> /\ stored = <<>>
      /\ messages = <<>> /\ replay = <<>> /\ replaying = FALSE
      /\ complete = FALSE /\ said = <<>> /\ lost = FALSE /\ reset = FALSE /\ events = 0
  BY DEF Init
<1>2. /\ stored \in Seq(Said) /\ said \in Seq(Said) /\ messages \in Seq(Texts) /\ replay \in Seq(Texts)
      /\ queue \in Seq(Item) /\ Len(queue) <= MaxQueue
      /\ DOMAIN stored = {} /\ DOMAIN queue = {} /\ DOMAIN messages = {} /\ DOMAIN replay = {}
  BY <1>1, CaptureAssumption
<1>3. IsFiniteSet(fingerprints) /\ Cardinality(fingerprints) <= FingerprintCap
  BY <1>1, FS_EmptySet, CaptureAssumption
<1>4. \A t : ~Holds(stored, t) /\ ~Holds(queue, t)
  BY <1>2 DEF Holds
<1>5. NoDoubleWrite
  <2>1. ASSUME NEW t \in Texts PROVE CountOf(stored, t) + CountOf(queue, t) <= CountOf(said, t)
    <3>1. /\ CountOf(stored, t) = 0 /\ CountOf(queue, t) = 0
          /\ CountOf(said, t) \in Nat
      <4>1. CountOf(stored, t) \in Nat /\ (Holds(stored, t) <=> CountOf(stored, t) > 0)
        BY <1>2, PlacesFinite
      <4>2. CountOf(queue, t) \in Nat /\ (Holds(queue, t) <=> CountOf(queue, t) > 0)
        BY <1>2, PlacesFinite
      <4>3. CountOf(said, t) \in Nat
        BY <1>2, PlacesFinite
      <4> QED
        BY <1>4, <4>1, <4>2, <4>3
    <3> QED
      BY <3>1
  <2> QED
    BY <2>1 DEF NoDoubleWrite
<1>6. Data
  BY <1>1, <1>2, <1>3, <1>4, <1>5 DEF Data, Fingerprinted, Kept, CapturedText
<1>7. Hooks
  BY <1>1, <1>2 DEF Hooks, Spoken, Visited
<1> QED
  BY <1>6, <1>7, Parts

LEMMA StepIInv == IInv /\ [Next]_vars => IInv'
<1> SUFFICES ASSUME IInv, [Next]_vars PROVE IInv'
  OBVIOUS
<1>1. CASE Next
  <2>1. ASSUME NEW s \in Sessions, SessionSwitch(s, messages) \/ SessionSwitch(s, <<>>)
        PROVE  IInv'
    BY <2>1, SwitchKeeps
  <2> QED
    BY <1>1, <2>1, SyncKeeps, DelegationKeeps, EndKeeps, ReplayKeeps, ReplayEndKeeps,
       InitializeKeeps, StoreTurnKeeps DEF Next
<1>2. CASE UNCHANGED vars
  <2>1. Data /\ Hooks
    BY Parts
  <2>2. UNCHANGED <<session, messages, replay, replaying, fingerprints, queue, stored, complete,
                    said, lost, reset, events>>
    BY <1>2 DEF vars, hooks, history
  <2>3. Data'
    BY <2>1, <2>2 DEF Data, NoDoubleWrite, Fingerprinted, Kept, CapturedText
  <2>4. Hooks'
    BY <2>1, <2>2 DEF Hooks, Spoken, Visited, CapturedText
  <2> QED
    BY <2>3, <2>4, Parts
<1> QED
  BY <1>1, <1>2

(* The invariant holds whatever the host calls. *)
THEOREM Invariance == Spec => []IInv
  BY InitIInv, StepIInv, PTL DEF Spec

(* Types: above all, the fingerprints never outgrow their cap and the      *)
(* queue never outgrows its bound, however many writes meet in it.         *)
THEOREM TypeCorrect == Spec => []TypeOK
<1>1. IInv => TypeOK
  BY DEF IInv
<1> QED
  BY <1>1, Invariance, PTL

(* sync_turn() and the replays of on_session_end() never write a text more *)
(* often than it was said, over any number of sessions that share texts,   *)
(* unless the fingerprints were reset at their cap.                        *)
THEOREM TurnsOnce == Spec => []NoDoubleWrite
<1>1. IInv => NoDoubleWrite
  BY DEF IInv
<1> QED
  BY <1>1, Invariance, PTL

(* on_session_end() is a backstop: once its replay ended with nothing      *)
(* refused, every text of the transcript that is no noise is in the table  *)
(* or on its way there, if the worker lost nothing.                        *)
THEOREM BackstopHolds == Spec => []BackstopCapturesTexts
<1>1. IInv => BackstopCapturesTexts
  <2> SUFFICES ASSUME IInv, complete, ~replaying, ~lost, NEW text \in ToSet(messages) \ Noise
               PROVE  \E turn \in Captured : turn.text = text
    BY DEF BackstopCapturesTexts
  <2>1. PICK k \in DOMAIN messages : messages[k] = text
    BY DEF ToSet
  <2>2. DOMAIN replay = {}
    BY DEF IInv, Visited
  <2>3. CapturedText(text)
    BY <2>1, <2>2 DEF IInv, Visited
  <2>4. CASE Holds(stored, text)
    BY <2>4 DEF Holds, Captured, ToSet
  <2>5. CASE Holds(queue, text)
    BY <2>5 DEF Holds, Captured, ToSet
  <2> QED
    BY <2>3, <2>4, <2>5 DEF CapturedText
<1> QED
  BY <1>1, Invariance, PTL

=============================================================================
