-------------------------- MODULE MemoryMirrorProofs --------------------------
(***************************************************************************)
(* Theorems about MemoryMirror, for any texts, any LIKE relation between   *)
(* them, any queue and any number of writes and sessions: once nothing is  *)
(* on its way the table holds what the disk holds, up to what was lost.    *)
(***************************************************************************)
EXTENDS MemoryMirror, FiniteSetTheorems, WellFoundedInduction, SequenceTheorems, TLAPS

(* What a write takes away, by its exact previous entry or by its hint,    *)
(* and what it brings.                                                     *)
Hits(write) ==
  IF write.previous # NoText THEN {write.previous}
  ELSE {c \in Contents : write.hint # NoText /\ <<c, write.hint>> \in LikePairs}
New(write) == IF write.action \in {"add", "replace"} THEN {write.new} ELSE {}

(* A write as on_memory_write() queues it. *)
Write(write) ==
  /\ write.action \in {"add", "replace", "remove"}
  /\ write.action = "add" => Unaimed(write)
  /\ write.action # "remove" => write.new \in Contents \ Blank
  /\ write.previous # NoText => write.previous \in Contents \ Blank
  /\ write.hint # NoText => write.hint \in Contents \ Blank

(* The stages of a writer's thread. *)
Staged(n) ==
  /\ \A k \in DOMAIN queue[n] : Write(queue[n][k])
  /\ stage[n] = "get" => item[n] = NoItem
  /\ stage[n] # "get" => Write(item[n])
  /\ stage[n] = "add" => item[n].action # "remove"
  /\ stage[n] \in {"update", "duplicate"} => item[n].action = "replace" /\ ~Unaimed(item[n])
  /\ stage[n] = "delete" => item[n].action = "remove" /\ ~Unaimed(item[n])
  /\ stage[n] = "refuse" => item[n].action = "remove" /\ Unaimed(item[n])

(* The hook, the disk and the import around them. *)
Around ==
  /\ \A k \in DOMAIN call : Write(call[k])
  /\ via # 0 => call # <<>>
  /\ disk \cap Blank = {}
  /\ session \notin {"read", "import"} => gap /\ todo = {}
  /\ session # "import" => existing = {}

(* The scope holds a text once. *)
Unique ==
  \A i, j \in Scope(rows, Agent) : rows[i].content = rows[j].content => i = j

Shape == TypeOK /\ (\A n \in Writers : Staged(n)) /\ Around /\ Unique

(* Whatever is left to a writer given up, nothing is promised until it is  *)
(* done and an import has made good what it lost.                          *)
Behind ==
  /\ \A n \in Writers : ~Idle(n) /\ (n # sessions \/ session = "down") => missing /\ stale /\ gap
  /\ via # 0 /\ (via # sessions \/ session = "down") => missing /\ stale /\ gap

(* The present writer: its thread, and what it has yet to take, the write  *)
(* that is still with the hook included.                                   *)
W  == item[sessions]
St == stage[sessions]
P  == IF call = <<>> THEN queue[sessions] ELSE Append(queue[sessions], call[1])

(* Nothing is missing, or the import that is running will make it good:    *)
(* what it owes the table counts as shown by it.                           *)
Full  == ~missing \/ ~gap
Owed  == IF missing THEN Coming ELSE {}
Shown == Texts \cup Owed

(* A write does not touch what the import has yet to insert.               *)
Spared(write, b) == Coming \cap Hits(write) = {} /\ Coming \subseteq b

(* A write takes what mirrors disk a to what mirrors disk b, as far as     *)
(* nothing was lost; without a lost removal it hits one entry at most.     *)
Covers(write, a, b) == b \subseteq (a \ Hits(write)) \cup New(write)
Clears(write, a, b) == /\ \A c, d \in Hits(write) \cap a : c = d
                       /\ (a \ Hits(write)) \cup New(write) \subseteq b
Leads(write, a, b) ==
  /\ Full => Covers(write, a, b)
  /\ ~stale => Clears(write, a, b) /\ Spared(write, b)

(* The write in hand leads from the table as it is to disk d. *)
InHand(d) ==
  /\ St # "add" => (Full => Covers(W, Shown, d)) /\ (~stale => Clears(W, Texts, d))
  /\ St = "add" => /\ Full => d \subseteq Shown \cup {W.new}
                   /\ ~stale => Texts \cup {W.new} \subseteq d
  /\ St = "duplicate" => Matches(W) # {} /\ Violates(rows, Min(Matches(W)), W.new)
  /\ ~stale => Spared(W, d)

(* D[k] is the disk that the table mirrors once the write in hand and the  *)
(* first k of those behind it are applied.  Writes that are all removals   *)
(* shrink it, and writes that are all additions let it grow.               *)
Only(action, j, k) == \A i \in (j + 1)..k : P[i].action = action
Chain(D) ==
  /\ D[Len(P)] = disk
  /\ InHand(D[0])
  /\ \A k \in 1..Len(P) : Leads(P[k], D[k - 1], D[k])
  /\ \A j, k \in 0..Len(P) : j <= k =>
       /\ Full /\ Only("remove", j, k) => D[k] \subseteq D[j]
       /\ ~stale /\ Only("add", j, k) => D[j] \subseteq D[k]
Mirrored == Full \/ ~stale => \E D \in [0..Len(P) -> SUBSET Contents] : Chain(D)

IInv == Shape /\ Behind /\ Mirrored

-----------------------------------------------------------------------------
(* What the statements do to the texts of the scope *)

(* A non-empty set of numbers has a least one: the lowest id.              *)
LEMMA MinNat ==
  ASSUME NEW S, S \subseteq Nat, S # {}
  PROVE  Min(S) \in S /\ \A i \in S : Min(S) <= i
<1> DEFINE LT == OpToRel(<, Nat)
<1>1. LT = {ss \in Nat \X Nat : ss[1] < ss[2]}
  BY DEF OpToRel
<1>2. IsWellFoundedOn(LT, Nat)
  BY NatLessThanWellFounded
<1> HIDE DEF LT
<1>3. ASSUME NEW x \in Nat, NEW y \in Nat, ~(<<y, x>> \in LT) PROVE x <= y
  <2>1. <<y, x>> \in Nat \X Nat /\ <<y, x>>[1] = y /\ <<y, x>>[2] = x
    OBVIOUS
  <2> QED
    BY <1>1, <1>3, <2>1, Z3
<1>4. \E x \in S : \A y \in S : ~(<<y, x>> \in LT)
  BY <1>2, WFMin
<1>5. \E x \in S : \A y \in S : x <= y
  BY <1>3, <1>4
<1> QED
  BY <1>5 DEF Min

(* INSERT adds its text, once. *)
LEMMA InsertFacts ==
  ASSUME TypeOK, Unique, NEW text \in Contents, NEW v \in Contents \cup {Null},
         rows' = Insert(rows, seq, Agent, text, v), seq' = (IF rows' = rows THEN seq ELSE seq + 1)
  PROVE  /\ Texts' = Texts \cup {text} /\ Unique'
         /\ DOMAIN rows' \subseteq 1..(seq' - 1) /\ \A i \in DOMAIN rows' : rows'[i] \in Row
         /\ seq' \in Nat \ {0}
<1>1. /\ seq \in Nat \ {0} /\ seq \notin DOMAIN rows /\ DOMAIN rows \subseteq 1..(seq - 1)
      /\ \A i \in DOMAIN rows : rows[i] \in Row
  BY DEF TypeOK
<1>2. CASE text \in TextsOf(rows, Agent)
  BY <1>1, <1>2 DEF Insert, Texts, TextsOf, Unique, Scope
<1>3. CASE text \notin TextsOf(rows, Agent)
  <2> DEFINE row == [agent |-> Agent, content |-> text, embedding |-> v, edits |-> 0]
  <2>1. /\ rows' = [i \in DOMAIN rows \cup {seq} |-> IF i = seq THEN row ELSE rows[i]]
        /\ row \in Row /\ row.agent = Agent /\ row.content = text
    BY <1>3, MirrorAssumption DEF Insert, Row
  <2> HIDE DEF row
  <2>2. /\ DOMAIN rows' = DOMAIN rows \cup {seq} /\ rows'[seq] = row
        /\ \A i \in DOMAIN rows : rows'[i] = rows[i]
    BY <1>1, <2>1
  <2>3. seq' = seq + 1
    BY <1>1, <2>2
  <2>4. Scope(rows, Agent)' = Scope(rows, Agent) \cup {seq}
    BY <1>1, <2>1, <2>2 DEF Scope
  <2>5. Texts' = Texts \cup {text}
    BY <1>1, <2>1, <2>2, <2>4 DEF Texts, TextsOf, Scope
  <2>6. Unique'
    BY <1>1, <1>3, <2>1, <2>2, <2>4 DEF Unique, TextsOf, Scope
  <2> QED
    BY <1>1, <2>1, <2>2, <2>3, <2>5, <2>6
<1> QED
  BY <1>2, <1>3

(* UPDATE exchanges the text of one row for another that is new.           *)
LEMMA UpdateFacts ==
  ASSUME TypeOK, Unique, NEW id \in Scope(rows, Agent), NEW text \in Contents,
         NEW v \in Contents \cup {Null}, ~Violates(rows, id, text),
         rows' = Update(rows, id, text, v)
  PROVE  /\ Texts' = (Texts \ {rows[id].content}) \cup {text} /\ Unique'
         /\ DOMAIN rows' = DOMAIN rows /\ \A i \in DOMAIN rows' : rows'[i] \in Row
<1>1. id \in DOMAIN rows /\ rows[id].agent = Agent /\ \A i \in DOMAIN rows : rows[i] \in Row
  BY DEF TypeOK, Scope
<1>2. /\ DOMAIN rows' = DOMAIN rows /\ \A i \in DOMAIN rows \ {id} : rows'[i] = rows[i]
      /\ rows'[id] = [[[rows[id] EXCEPT !.content = text] EXCEPT !.embedding = v] EXCEPT !.edits = @ + 1]
  BY <1>1 DEF Update
<1>3. rows'[id] \in Row /\ rows'[id].agent = Agent /\ rows'[id].content = text
  <2>1. rows[id] \in [agent : STRING, content : Contents, embedding : Contents \cup {Null}, edits : Nat]
    BY <1>1 DEF Row
  <2>2. rows'[id] = [agent |-> rows[id].agent, content |-> text, embedding |-> v,
                     edits |-> rows[id].edits + 1]
    BY <1>2, <2>1
  <2> QED
    BY <1>1, <2>1, <2>2 DEF Row
<1>4. Scope(rows, Agent)' = Scope(rows, Agent)
  BY <1>1, <1>2, <1>3 DEF Scope
<1>5. \A j \in Scope(rows, Agent) : j # id => rows[j].content # text /\ rows[j].content # rows[id].content
  BY <1>1 DEF Violates, Scope, Unique
<1> DEFINE S == Scope(rows, Agent)
<1>6. /\ id \in S /\ \A i \in S \ {id} : rows'[i] = rows[i]
      /\ Texts = {rows[i].content : i \in S} /\ Texts' = {rows'[i].content : i \in S}
      /\ Unique' <=> \A i, j \in S : rows'[i].content = rows'[j].content => i = j
  BY <1>1, <1>2, <1>4 DEF Texts, TextsOf, Scope, Unique
<1>9. Unique => \A i, j \in S : rows[i].content = rows[j].content => i = j
  BY DEF Unique
<1> HIDE DEF S
<1>7. Texts' = (Texts \ {rows[id].content}) \cup {text}
  BY <1>3, <1>5, <1>6 DEF S
<1>8. Unique'
  BY <1>3, <1>5, <1>6, <1>9 DEF S
<1> QED
  BY <1>1, <1>2, <1>3, <1>7, <1>8

(* DELETE of one row takes its text out of the scope. *)
LEMMA DeleteFacts ==
  ASSUME TypeOK, Unique, NEW id \in Scope(rows, Agent), rows' = Delete(rows, {id})
  PROVE  /\ Texts' = Texts \ {rows[id].content} /\ Unique'
         /\ DOMAIN rows' \subseteq DOMAIN rows /\ \A i \in DOMAIN rows' : rows'[i] \in Row
<1>1. /\ DOMAIN rows' = DOMAIN rows \ {id} /\ \A i \in DOMAIN rows' : rows'[i] = rows[i]
      /\ \A i \in DOMAIN rows : rows[i] \in Row
  BY DEF Delete, TypeOK
<1>2. Scope(rows, Agent)' = Scope(rows, Agent) \ {id}
  BY <1>1 DEF Scope
<1> DEFINE S == Scope(rows, Agent)
<1>3. /\ id \in S /\ S \subseteq DOMAIN rows /\ \A i \in S \ {id} : rows'[i] = rows[i]
      /\ Texts = {rows[i].content : i \in S} /\ Texts' = {rows'[i].content : i \in S \ {id}}
      /\ \A i, j \in S : rows[i].content = rows[j].content => i = j
      /\ Unique' <=> \A i, j \in S \ {id} : rows'[i].content = rows'[j].content => i = j
  BY <1>1, <1>2 DEF Texts, TextsOf, Scope, Unique
<1> HIDE DEF S
<1>4. Texts' = Texts \ {rows[id].content}
  <2>1. \A i \in S \ {id} : rows'[i].content = rows[i].content /\ rows[i].content # rows[id].content
    BY <1>3
  <2>2. \A t : t \in Texts' <=> \E i \in S \ {id} : rows'[i].content = t
    BY <1>3
  <2>3. \A t : t \in Texts <=> \E i \in S : rows[i].content = t
    BY <1>3
  <2>4. ASSUME NEW t \in Texts' PROVE t \in Texts /\ t # rows[id].content
    <3>1. PICK i \in S \ {id} : rows'[i].content = t
      BY <2>2
    <3> QED
      BY <2>1, <2>3, <3>1
  <2>5. ASSUME NEW t \in Texts, t # rows[id].content PROVE t \in Texts'
    <3>1. PICK i \in S : rows[i].content = t
      BY <2>3
    <3> QED
      BY <2>1, <2>2, <2>5, <3>1
  <2> QED
    BY <2>4, <2>5
<1>5. Unique'
  BY <1>3
<1> QED
  BY <1>1, <1>4, <1>5

(* An aimed write's statement works on a row whose text the write hits.    *)
LEMMA MatchesFacts ==
  ASSUME TypeOK, NEW w, Write(w), ~Unaimed(w)
  PROVE  /\ Matches(w) = {i \in Scope(rows, Agent) : rows[i].content \in Hits(w)}
         /\ Matches(w) # {} => Min(Matches(w)) \in Matches(w)
<1>1. \A i \in Scope(rows, Agent) : rows[i].content \in Contents
  BY DEF TypeOK, Scope, Row
<1>2. Matches(w) = {i \in Scope(rows, Agent) : rows[i].content \in Hits(w)}
  <2>1. CASE w.previous # NoText
    <3>1. Matches(w) = Exactly(rows, Agent, w.previous) /\ w.previous \notin Blank
      BY <2>1 DEF Matches, Write
    <3>2. Hits(w) = {w.previous}
      BY <2>1 DEF Hits
    <3> QED
      BY <3>1, <3>2 DEF Exactly
  <2>2. CASE w.previous = NoText
    <3>1. Matches(w) = Like(rows, Agent, w.hint) /\ w.hint \notin Blank /\ w.hint # NoText
      BY <2>2 DEF Matches, Write, Unaimed
    <3>2. Hits(w) = {c \in Contents : <<c, w.hint>> \in LikePairs}
      BY <2>2, <3>1 DEF Hits
    <3> QED
      BY <1>1, <3>1, <3>2 DEF Like
  <2> QED
    BY <2>1, <2>2
<1>3. Matches(w) \subseteq Nat
  BY <1>2 DEF TypeOK, Scope
<1> QED
  BY <1>2, <1>3, MinNat

(* An aimed write finds a row whose text it hits, or none. *)
LEMMA Found ==
  ASSUME Shape, NEW w, Write(w), ~Unaimed(w)
  PROVE  /\ Matches(w) = {} => Hits(w) \cap Texts = {}
         /\ Matches(w) # {} => /\ Min(Matches(w)) \in Scope(rows, Agent)
                               /\ rows[Min(Matches(w))].content \in Hits(w) \cap Texts
<1>1. Texts = {rows[i].content : i \in Scope(rows, Agent)}
  BY DEF Texts, TextsOf
<1> QED
  BY <1>1, MatchesFacts DEF Shape

-----------------------------------------------------------------------------
(* The table *)

(* All that a step of the mirror ever does to the table.                   *)
LEMMA RowSteps ==
  ASSUME Shape, Next
  PROVE  \/ UNCHANGED <<rows, seq>>
         \/ \E text \in Contents : \E v \in {text, Null} :
              /\ rows' = Insert(rows, seq, Agent, text, v)
              /\ seq' = IF rows' = rows THEN seq ELSE seq + 1
         \/ /\ seq' = seq
            /\ \/ \E id \in Scope(rows, Agent), text \in Contents : \E v \in {text, Null} :
                     ~Violates(rows, id, text) /\ rows' = Update(rows, id, text, v)
               \/ \E id \in Scope(rows, Agent) : rows' = Delete(rows, {id})
<1> USE DEF table
<1>1. CASE \/ \E c \in Contents \ Blank : ToolAdd(c) \/ ToolRemove(c)
           \/ \E c, d \in Contents \ Blank : ToolReplace(c, d)
           \/ HookReads \/ HookPuts
  BY <1>1 DEF ToolAdd, ToolRemove, ToolReplace, Tool, HookReads, HookPuts
<1>2. CASE \E n \in Writers : Take(n) \/ Refuse(n) \/ ReplaceNothing(n) \/ WorkerFails(n)
  BY <1>2 DEF Take, Refuse, ReplaceNothing, WorkerFails
<1>3. CASE \/ InitializeBegins \/ NoImport \/ ReadFile \/ ReadExisting \/ ImportEnds
           \/ Shutdown \/ Kill \/ \E c \in Contents : ImportSkips(c) \/ ImportRejects(c)
  BY <1>3 DEF InitializeBegins, NoImport, ReadFile, ReadExisting, ImportEnds, Shutdown, Kill,
              ImportSkips, ImportRejects
<1>4. CASE \E c \in Contents : ImportInserts(c)
  BY <1>4 DEF ImportInserts, InsertNew
<1>5. ASSUME NEW n \in Writers, Add(n)
      PROVE  \E text \in Contents : \E v \in {text, Null} :
              /\ rows' = Insert(rows, seq, Agent, text, v)
              /\ seq' = IF rows' = rows THEN seq ELSE seq + 1
  <2>1. item[n].new \in Contents
    BY <1>5 DEF Add, Shape, Staged, Write
  <2> QED
    BY <1>5, <2>1 DEF Add, InsertNew, Vectors
<1>6. ASSUME NEW n \in Writers, stage[n] \in {"update", "duplicate", "delete"},
             Matches(item[n]) # {}
      PROVE  Min(Matches(item[n])) \in Scope(rows, Agent)
  <2>1. Write(item[n]) /\ ~Unaimed(item[n])
    BY <1>6 DEF Shape, Staged
  <2> QED
    BY <1>6, <2>1, Found
<1>7. ASSUME NEW n \in Writers, ReplaceRow(n)
      PROVE  /\ seq' = seq
             /\ \/ rows' = rows
                \/ \E id \in Scope(rows, Agent), text \in Contents : \E v \in {text, Null} :
                     ~Violates(rows, id, text) /\ rows' = Update(rows, id, text, v)
  <2>1. item[n].new \in Contents /\ Min(Matches(item[n])) \in Scope(rows, Agent) /\ seq' = seq
    BY <1>6, <1>7 DEF ReplaceRow, Shape, Staged, Write
  <2> QED
    BY <1>7, <2>1 DEF ReplaceRow, Vectors
<1>8. ASSUME NEW n \in Writers, DeleteRow(n)
      PROVE  /\ seq' = seq
             /\ rows' = rows \/ \E id \in Scope(rows, Agent) : rows' = Delete(rows, {id})
  BY <1>6, <1>8 DEF DeleteRow
<1>9. CASE \E n \in Writers : Add(n) \/ ReplaceRow(n) \/ DeleteRow(n)
  <2>1. PICK n \in Writers : Add(n) \/ ReplaceRow(n) \/ DeleteRow(n)
    BY <1>9
  <2>2. CASE Add(n)
    BY <1>5, <2>2
  <2>3. CASE ReplaceRow(n)
    BY <1>7, <2>3
  <2>4. CASE DeleteRow(n)
    BY <1>8, <2>4
  <2> QED
    BY <2>1, <2>2, <2>3, <2>4
<1> QED
  BY <1>1, <1>2, <1>3, <1>4, <1>9 DEF Next, Worker

LEMMA TableStep ==
  ASSUME Shape, Next
  PROVE  /\ DOMAIN rows' \subseteq 1..(seq' - 1) /\ \A i \in DOMAIN rows' : rows'[i] \in Row
         /\ seq' \in Nat \ {0} /\ Unique'
<1>1. /\ DOMAIN rows \subseteq 1..(seq - 1) /\ \A i \in DOMAIN rows : rows[i] \in Row
      /\ seq \in Nat \ {0} /\ Unique /\ TypeOK
  BY DEF Shape, TypeOK
<1>2. CASE UNCHANGED <<rows, seq>>
  BY <1>1, <1>2 DEF Unique
<1>3. ASSUME NEW text \in Contents, NEW v \in {text, Null},
             rows' = Insert(rows, seq, Agent, text, v), seq' = IF rows' = rows THEN seq ELSE seq + 1
      PROVE  /\ DOMAIN rows' \subseteq 1..(seq' - 1) /\ \A i \in DOMAIN rows' : rows'[i] \in Row
             /\ seq' \in Nat \ {0} /\ Unique'
  BY <1>1, <1>3, InsertFacts
<1>4. ASSUME NEW id \in Scope(rows, Agent), NEW text \in Contents, NEW v \in {text, Null},
             ~Violates(rows, id, text), rows' = Update(rows, id, text, v), seq' = seq
      PROVE  /\ DOMAIN rows' \subseteq 1..(seq' - 1) /\ \A i \in DOMAIN rows' : rows'[i] \in Row
             /\ seq' \in Nat \ {0} /\ Unique'
  BY <1>1, <1>4, UpdateFacts
<1>5. ASSUME NEW id \in Scope(rows, Agent), rows' = Delete(rows, {id}), seq' = seq
      PROVE  /\ DOMAIN rows' \subseteq 1..(seq' - 1) /\ \A i \in DOMAIN rows' : rows'[i] \in Row
             /\ seq' \in Nat \ {0} /\ Unique'
  BY <1>1, <1>5, DeleteFacts
<1> QED
  BY <1>2, <1>3, <1>4, <1>5, RowSteps

-----------------------------------------------------------------------------
(* Shape: the types, and what each thread may hold at each stage *)

LEMMA NothingInHand == NoItem \in Items /\ ~Write(NoItem)
BY DEF NoItem, Item, Items, Write

(* A step that leaves the threads and their queues alone. *)
LEMMA ThreadsKept ==
  ASSUME \A n \in Writers : Staged(n), UNCHANGED worker
  PROVE  (\A n \in Writers : Staged(n))'
BY DEF worker, Staged, Write, Unaimed

LEMMA ToolShape ==
  ASSUME Shape, NEW newDisk \in SUBSET (Contents \ Blank), NEW write \in Items, Write(write),
         Tool(newDisk, write)
  PROVE  Shape'
<1>1. /\ call = <<>> /\ call' = <<write>> /\ disk' = newDisk /\ writes' = writes + 1
      /\ UNCHANGED <<rows, seq, via, queue, item, stage, session, todo, existing, breaker, sessions>>
      /\ UNCHANGED worker /\ gap' = (gap \/ FALSE) /\ missing' = (missing \/ FALSE)
  BY DEF Tool, Lose, table, worker, import
<1>2. stale' \in BOOLEAN /\ missing' \in BOOLEAN /\ gap' \in BOOLEAN
  BY Zenon DEF Tool, Lose
<1>3. call' \in Seq(Items) /\ Len(call') <= 1 /\ DOMAIN call' = {1} /\ call'[1] = write
  BY <1>1
<1>4. (\A n \in Writers : Staged(n))'
  BY <1>1, ThreadsKept DEF Shape
<1>5. TypeOK'
  BY <1>1, <1>2, <1>3 DEF Shape, TypeOK
<1>6. Around'
  <2>1. gap => gap'
    BY <1>1
  <2> QED
    BY <1>1, <1>3, <2>1 DEF Shape, Around, Write, Unaimed
<1> QED
  BY <1>1, <1>4, <1>5, <1>6 DEF Shape, Unique

LEMMA HookShape ==
  ASSUME Shape, HookReads \/ HookPuts
  PROVE  Shape'
<1>1. /\ UNCHANGED <<rows, seq, disk, item, stage, session, todo, existing, breaker, writes, sessions>>
      /\ call # <<>>
  BY DEF HookReads, HookPuts, table, worker, import, counts, Shape, Around
<1>2. /\ gap' \in BOOLEAN /\ missing' \in BOOLEAN /\ stale' \in BOOLEAN /\ (gap => gap')
  <2>1. CASE UNCHANGED <<gap, missing, stale>>
    BY <2>1 DEF Shape, TypeOK
  <2>2. CASE Dropped(call[1])
    BY <2>2, Zenon DEF Dropped, Lose
  <2> QED
    BY <2>1, <2>2 DEF HookReads, HookPuts, flags
<1>3. /\ call \in Seq(Items) /\ Len(call) <= 1 /\ call[1] \in Items /\ Write(call[1])
      /\ call' \in Seq(Items) /\ Len(call') <= 1 /\ call' \in {call, <<>>}
  <2>1. /\ call \in Seq(Items) /\ Len(call) <= 1 /\ call # <<>>
        /\ \A k \in DOMAIN call : Write(call[k])
    BY <1>1 DEF Shape, TypeOK, Around
  <2>2. 1 \in DOMAIN call /\ call[1] \in Items
    BY <2>1
  <2>3. <<>> \in Seq(Items) /\ Len(<<>>) <= 1
    OBVIOUS
  <2>4. call' \in {call, <<>>}
    BY DEF HookReads, HookPuts, HookReturns
  <2> QED
    BY <2>1, <2>2, <2>3, <2>4
<1>4. CASE HookReads
  <2>1. UNCHANGED worker /\ via' \in Writers /\ (via' # 0 => call' = call)
    BY <1>4, MirrorAssumption DEF HookReads, Shape, TypeOK, HookReturns, Writers
  <2>2. (\A n \in Writers : Staged(n))'
    BY <2>1, ThreadsKept DEF Shape
  <2>3. TypeOK'
    BY <1>1, <1>2, <1>3, <2>1 DEF Shape, TypeOK, worker
  <2>4. Around'
    BY <1>1, <1>2, <1>3, <2>1 DEF Shape, Around, Write, Unaimed
  <2> QED
    BY <1>1, <2>2, <2>3, <2>4 DEF Shape, Unique
<1>5. CASE HookPuts
  <2>1. /\ via \in Writers /\ via' = 0 /\ call' = <<>> /\ 0 \in Writers
        /\ queue' \in {queue, [queue EXCEPT ![via] = Append(@, call[1])]}
        /\ queue' # queue => Len(queue[via]) < MaxQueue
    BY <1>5, MirrorAssumption DEF HookPuts, HookReturns, Shape, TypeOK, Writers
  <2>2. /\ queue \in [Writers -> Seq(Items)] /\ MaxQueue \in Nat
        /\ \A n \in Writers : Len(queue[n]) <= MaxQueue /\ \A k \in DOMAIN queue[n] : Write(queue[n][k])
    BY MirrorAssumption DEF Shape, TypeOK, Staged
  <2>3. /\ Append(queue[via], call[1]) \in Seq(Items)
        /\ Len(Append(queue[via], call[1])) = Len(queue[via]) + 1
        /\ \A k \in DOMAIN Append(queue[via], call[1]) : Write(Append(queue[via], call[1])[k])
    BY <1>3, <2>1, <2>2
  <2>4. /\ queue' \in [Writers -> Seq(Items)]
        /\ \A n \in Writers : Len(queue'[n]) <= MaxQueue /\ \A k \in DOMAIN queue'[n] : Write(queue'[n][k])
    <3>1. CASE queue' = queue
      BY <2>2, <3>1
    <3>2. CASE queue' = [queue EXCEPT ![via] = Append(@, call[1])] /\ Len(queue[via]) < MaxQueue
      <4>1. Len(queue[via]) \in Nat /\ Len(queue[via]) + 1 <= MaxQueue
        BY <2>1, <2>2, <3>2
      <4>2. /\ queue' \in [Writers -> Seq(Items)] /\ queue'[via] = Append(queue[via], call[1])
            /\ \A n \in Writers \ {via} : queue'[n] = queue[n]
        BY <2>1, <2>2, <2>3, <3>2
      <4> QED
        BY <2>2, <2>3, <4>1, <4>2
    <3> QED
      BY <2>1, <3>1, <3>2
  <2>5. (\A n \in Writers : Staged(n))'
    BY <1>1, <2>4 DEF Shape, Staged, Write, Unaimed
  <2>6. TypeOK'
    BY <1>1, <1>2, <1>3, <2>1, <2>4 DEF Shape, TypeOK
  <2>7. Around'
    BY <1>1, <1>2, <2>1 DEF Shape, Around
  <2> QED
    BY <1>1, <2>5, <2>6, <2>7 DEF Shape, Unique
<1> QED
  BY <1>4, <1>5

(* A step of a writer's thread: only that writer's write and queue move.   *)
LEMMA WorkerShape ==
  ASSUME Shape, Next, NEW n \in Writers, Worker(n) \/ WorkerFails(n)
  PROVE  Shape'
<1>1. /\ UNCHANGED <<disk, call, via, session, todo, existing, breaker, writes, sessions>>
      /\ DOMAIN rows' \subseteq 1..(seq' - 1) /\ (\A i \in DOMAIN rows' : rows'[i] \in Row)
      /\ seq' \in Nat \ {0} /\ Unique'
  BY TableStep DEF Worker, Take, Refuse, Add, ReplaceRow, ReplaceNothing, DeleteRow, WorkerFails,
                   rest, hook, import, counts
<1>2. gap' \in BOOLEAN /\ missing' \in BOOLEAN /\ stale' \in BOOLEAN /\ (gap => gap')
  <2>1. CASE WorkerFails(n)
    BY <2>1, Zenon DEF WorkerFails, Dropped, Lose
  <2>2. CASE Worker(n)
    BY <2>2 DEF Worker, Take, Refuse, Add, ReplaceRow, ReplaceNothing, DeleteRow, flags, Shape, TypeOK
  <2> QED
    BY <2>1, <2>2
<1>3. /\ queue \in [Writers -> Seq(Items)] /\ item \in [Writers -> Items]
      /\ stage \in [Writers -> {"get", "add", "update", "duplicate", "delete", "refuse"}]
      /\ (\A m \in Writers : Len(queue[m]) <= MaxQueue /\ Staged(m)) /\ MaxQueue \in Nat
  BY MirrorAssumption DEF Shape, TypeOK
<1> DEFINE Stages == {"get", "add", "update", "duplicate", "delete", "refuse"}
<1>4. PICK q \in Seq(Items), w \in Items, s \in Stages :
        /\ queue' = [queue EXCEPT ![n] = q] /\ item' = [item EXCEPT ![n] = w]
        /\ stage' = [stage EXCEPT ![n] = s] /\ Len(q) <= MaxQueue
        /\ \A k \in DOMAIN q : Write(q[k])
        /\ s = "get" => w = NoItem
        /\ s # "get" => Write(w)
        /\ s = "add" => w.action # "remove"
        /\ s \in {"update", "duplicate"} => w.action = "replace" /\ ~Unaimed(w)
        /\ s = "delete" => w.action = "remove" /\ ~Unaimed(w)
        /\ s = "refuse" => w.action = "remove" /\ Unaimed(w)
  <2>1. /\ queue[n] \in Seq(Items) /\ item[n] \in Items /\ stage[n] \in Stages
        /\ Len(queue[n]) <= MaxQueue /\ (\A k \in DOMAIN queue[n] : Write(queue[n][k]))
        /\ queue = [queue EXCEPT ![n] = queue[n]] /\ item = [item EXCEPT ![n] = item[n]]
        /\ NoItem \in Items /\ "get" \in Stages
    BY <1>3, NothingInHand DEF Staged
  <2>2. CASE Take(n)
    <3> DEFINE Q == queue[n]
    <3>1. /\ Q \in Seq(Items) /\ Q # <<>> /\ Len(Q) <= MaxQueue
          /\ \A k \in DOMAIN Q : Write(Q[k])
      BY <2>1, <2>2 DEF Take
    <3>2. /\ queue' = [queue EXCEPT ![n] = Tail(Q)] /\ item' = [item EXCEPT ![n] = Head(Q)]
          /\ stage' = [stage EXCEPT ![n] = FirstStage(Head(Q))]
      BY <2>2 DEF Take
    <3> HIDE DEF Q
    <3>3. /\ Tail(Q) \in Seq(Items) /\ Len(Tail(Q)) = Len(Q) - 1
          /\ \A k \in 1..Len(Tail(Q)) : Tail(Q)[k] = Q[k + 1]
          /\ Len(Q) \in Nat \ {0} /\ DOMAIN Q = 1..Len(Q) /\ Q[1] \in Items
          /\ DOMAIN Tail(Q) = 1..(Len(Q) - 1) /\ Head(Q) = Q[1]
      BY <3>1, HeadTailProperties
    <3>4. /\ Len(Tail(Q)) <= MaxQueue /\ Write(Head(Q)) /\ Head(Q) \in Items
          /\ \A k \in DOMAIN Tail(Q) : Write(Tail(Q)[k])
      BY <1>3, <3>1, <3>3
    <3>5. /\ FirstStage(Head(Q)) \in {"add", "update", "delete", "refuse"}
          /\ FirstStage(Head(Q)) = "add" => Head(Q).action # "remove"
          /\ FirstStage(Head(Q)) = "update" => Head(Q).action = "replace" /\ ~Unaimed(Head(Q))
          /\ FirstStage(Head(Q)) = "delete" => Head(Q).action = "remove" /\ ~Unaimed(Head(Q))
          /\ FirstStage(Head(Q)) = "refuse" => Head(Q).action = "remove" /\ Unaimed(Head(Q))
      BY <3>4 DEF FirstStage, Write
    <3> QED
      BY <3>2, <3>3, <3>4, <3>5
  <2>3. CASE Done(n) /\ queue' = queue
    BY <2>1, <2>3 DEF Done
  <2>4. CASE ReplaceNothing(n)
    <3>1. /\ queue' = queue /\ item' = item /\ stage' = [stage EXCEPT ![n] = "add"]
          /\ Write(item[n]) /\ item[n].action = "replace"
      BY <1>3, <2>4 DEF ReplaceNothing, Staged
    <3> QED
      BY <2>1, <3>1
  <2>5. CASE /\ stage[n] = "update" /\ queue' = queue /\ item' = item
             /\ stage' = [stage EXCEPT ![n] = "duplicate"]
    BY <1>3, <2>1, <2>5 DEF Staged
  <2> QED
    BY <2>2, <2>3, <2>4, <2>5 DEF Worker, Refuse, Add, ReplaceRow, DeleteRow, WorkerFails
<1> HIDE DEF Stages
<1>5. /\ queue' \in [Writers -> Seq(Items)] /\ item' \in [Writers -> Items]
      /\ stage' \in [Writers -> Stages]
      /\ queue'[n] = q /\ item'[n] = w /\ stage'[n] = s
      /\ \A m \in Writers \ {n} : queue'[m] = queue[m] /\ item'[m] = item[m] /\ stage'[m] = stage[m]
  BY <1>3, <1>4 DEF Stages
<1>6. Staged(n)'
  BY <1>4, <1>5 DEF Staged, Write, Unaimed
<1>7. ASSUME NEW m \in Writers \ {n} PROVE Staged(m)'
  BY <1>3, <1>5 DEF Staged, Write, Unaimed
<1>8. TypeOK'
  <2>1. \A m \in Writers : Len(queue'[m]) <= MaxQueue
    BY <1>3, <1>4, <1>5
  <2> QED
    BY <1>1, <1>2, <1>5, <2>1 DEF Shape, TypeOK, Stages
<1>9. Around'
  BY <1>1, <1>2 DEF Shape, Around, Write, Unaimed
<1> QED
  BY <1>1, <1>6, <1>7, <1>8, <1>9 DEF Shape

(* initialize() with its import, shutdown() and the end of the process.    *)
LEMMA SessionShape ==
  ASSUME Shape, Next,
         \/ InitializeBegins \/ NoImport \/ ReadFile \/ ReadExisting \/ ImportEnds \/ Shutdown
         \/ \E c \in Contents : ImportSkips(c) \/ ImportInserts(c) \/ ImportRejects(c)
  PROVE  Shape'
<1>1. /\ UNCHANGED <<disk, call, via, queue, item, stage, writes>> /\ UNCHANGED worker
      /\ DOMAIN rows' \subseteq 1..(seq' - 1) /\ (\A i \in DOMAIN rows' : rows'[i] \in Row)
      /\ seq' \in Nat \ {0} /\ Unique'
  BY TableStep DEF InitializeBegins, NoImport, ReadFile, ReadExisting, ImportEnds, Shutdown,
                   ImportSkips, ImportInserts, ImportRejects, hook, worker, counts
<1>2. (\A n \in Writers : Staged(n))'
  BY <1>1, ThreadsKept DEF Shape
<1>3. Texts \subseteq Contents
  BY DEF Shape, TypeOK, Texts, TextsOf, Scope, Row
<1>4. sessions' \in Writers
  <2>1. sessions \in 0..MaxSessions /\ MaxSessions \in Nat
    BY MirrorAssumption DEF Shape, TypeOK, Writers
  <2>2. sessions' = sessions \/ (sessions' = sessions + 1 /\ sessions < MaxSessions)
    BY DEF InitializeBegins, NoImport, ReadFile, ReadExisting, ImportEnds, Shutdown,
           ImportSkips, ImportInserts, ImportRejects, counts
  <2> QED
    BY <2>1, <2>2 DEF Writers
<1>5. gap' \in BOOLEAN /\ missing' \in BOOLEAN /\ stale' \in BOOLEAN
  <2>1. gap \in BOOLEAN /\ missing \in BOOLEAN /\ stale \in BOOLEAN
    BY DEF Shape, TypeOK
  <2>2. CASE UNCHANGED <<gap, missing, stale>> \/ (gap' = TRUE /\ UNCHANGED <<missing, stale>>)
    BY <2>1, <2>2
  <2>3. CASE ReadFile
    <3>1. missing' = missing /\ gap' = Pending /\ stale' = (stale \/ Pending)
      BY <2>3 DEF ReadFile
    <3>2. Pending \in BOOLEAN
      BY Zenon DEF Pending
    <3> QED
      BY <2>1, <3>1, <3>2, Zenon
  <2>4. CASE ImportEnds
    BY <2>1, <2>4, Zenon DEF ImportEnds
  <2>5. CASE Shutdown
    BY <2>5, Zenon DEF Shutdown, Lose
  <2> QED
    BY <2>2, <2>3, <2>4, <2>5 DEF InitializeBegins, NoImport, ReadExisting, ImportSkips, ImportInserts,
                                  ImportRejects, flags
<1>6. /\ todo' \subseteq Contents /\ existing' \subseteq Contents
      /\ session' \in {"down", "start", "read", "import", "up"}
      /\ session' \notin {"read", "import"} => gap' /\ todo' = {}
      /\ session' # "import" => existing' = {}
  <2>0. /\ todo \subseteq Contents /\ existing \subseteq Contents /\ disk \subseteq Contents
        /\ session \notin {"read", "import"} => gap /\ todo = {}
        /\ session # "import" => existing = {}
    BY DEF Shape, TypeOK, Around
  <2>1. CASE InitializeBegins \/ NoImport \/ ReadFile \/ ReadExisting \/ ImportEnds
    BY <1>1, <1>3, <2>0, <2>1 DEF InitializeBegins, NoImport, ReadFile, ReadExisting, ImportEnds, import, flags
  <2>2. CASE Shutdown
    <3>1. session = "up" /\ session' = "down" /\ UNCHANGED <<todo, existing>> /\ (gap => gap')
      BY <2>2 DEF Shutdown, import, Lose
    <3> QED
      BY <2>0, <3>1
  <2>3. CASE \E c \in Contents : ImportSkips(c) \/ ImportInserts(c) \/ ImportRejects(c)
    <3>1. session = "import" /\ session' = session /\ existing' = existing /\ todo' \subseteq todo
      BY <2>3 DEF ImportSkips, ImportInserts, ImportRejects
    <3> QED
      BY <2>0, <3>1
  <2> QED
    BY <2>1, <2>2, <2>3
<1>7. breaker' \in 0..EmbedBreaker
  <2>1. breaker \in 0..EmbedBreaker /\ EmbedBreaker \in Nat
    BY MirrorAssumption DEF Shape, TypeOK
  <2>2. \/ breaker' \in {0, breaker}
        \/ breaker' = breaker + 1 /\ breaker < EmbedBreaker
    BY DEF InitializeBegins, NoImport, ReadFile, ReadExisting, ImportEnds, Shutdown,
           ImportSkips, ImportInserts, ImportRejects, import
  <2> QED
    BY <2>1, <2>2
<1>8. TypeOK'
  BY <1>1, <1>4, <1>5, <1>6, <1>7 DEF Shape, TypeOK
<1>9. Around'
  BY <1>1, <1>6 DEF Shape, Around, Write, Unaimed
<1> QED
  BY <1>1, <1>2, <1>8, <1>9 DEF Shape

LEMMA KillShape ==
  ASSUME Shape, Kill
  PROVE  Shape'
<1>1. /\ UNCHANGED <<rows, seq, disk, writes, sessions>> /\ session' = "down"
      /\ call' = <<>> /\ via' = 0 /\ todo' = {} /\ existing' = {} /\ breaker' = 0 /\ gap' = TRUE
      /\ queue' = [n \in Writers |-> <<>>] /\ item' = [n \in Writers |-> NoItem]
      /\ stage' = [n \in Writers |-> "get"]
  BY DEF Kill, HookReturns, table, counts
<1>2. missing' \in BOOLEAN /\ stale' \in BOOLEAN
  BY Zenon DEF Kill
<1>3. /\ <<>> \in Seq(Items) /\ Len(<<>>) = 0 /\ DOMAIN <<>> = {}
  OBVIOUS
<1>4. /\ 0 \in Writers /\ 0 \in 0..EmbedBreaker /\ 0 <= MaxQueue
  BY MirrorAssumption DEF Writers
<1>5. \A n \in Writers : queue'[n] = <<>> /\ item'[n] = NoItem /\ stage'[n] = "get"
  BY <1>1
<1>6. /\ queue' \in [Writers -> Seq(Items)] /\ item' \in [Writers -> Items]
      /\ stage' \in [Writers -> {"get", "add", "update", "duplicate", "delete", "refuse"}]
  BY <1>1, <1>3, NothingInHand
<1>7. TypeOK'
  BY <1>1, <1>2, <1>3, <1>4, <1>5, <1>6 DEF Shape, TypeOK
<1>8. (\A n \in Writers : Staged(n))'
  BY <1>3, <1>5 DEF Staged
<1>9. Around'
  BY <1>1, <1>3 DEF Shape, Around
<1> QED
  BY <1>1, <1>7, <1>8, <1>9 DEF Shape, Unique

-----------------------------------------------------------------------------
(* Behind: what was left to an old writer *)

LEMMA BehindStep ==
  ASSUME Shape, Behind, Next
  PROVE  Behind'
<1> DEFINE Old(n) == ~Idle(n) /\ (n # sessions \/ session = "down")
           Bad == missing /\ stale /\ gap
<1>1. /\ \A n \in Writers : Old(n) => Bad
      /\ via # 0 /\ (via # sessions \/ session = "down") => Bad
  BY DEF Behind
<1>2. SUFFICES /\ \A n \in Writers : Old(n)' => Bad'
               /\ via' # 0 /\ (via' # sessions' \/ session' = "down") => Bad'
  BY DEF Behind
<1>3. CASE \/ \E c \in Contents \ Blank : ToolAdd(c) \/ ToolRemove(c)
           \/ \E c, d \in Contents \ Blank : ToolReplace(c, d)
  <2>1. /\ UNCHANGED <<queue, item, session, sessions, via>>
        /\ missing' = (missing \/ FALSE) /\ gap' = (gap \/ FALSE) /\ (stale => stale')
    BY <1>3 DEF ToolAdd, ToolRemove, ToolReplace, Tool, Lose, worker
  <2> QED
    BY <1>1, <2>1 DEF Idle
<1>4. CASE HookReads
  <2>1. /\ UNCHANGED <<queue, item, session, sessions>> /\ (Bad => Bad')
        /\ via' # 0 => via' = sessions /\ session # "down"
    BY <1>4 DEF HookReads, worker, counts, flags, HookReturns, Dropped, Lose, Shape, TypeOK
  <2> QED
    BY <1>1, <2>1 DEF Idle
<1>5. CASE HookPuts
  <2>1. /\ UNCHANGED <<item, session, sessions>> /\ (Bad => Bad') /\ via # 0 /\ via' = 0
        /\ queue \in [Writers -> Seq(Items)] /\ queue' \in {queue, [queue EXCEPT ![via] = Append(@, call[1])]}
    BY <1>5 DEF HookPuts, counts, flags, HookReturns, Dropped, Lose, Shape, TypeOK
  <2>2. \A n \in Writers : Old(n)' => Old(n) \/ (n = via /\ (via # sessions \/ session = "down"))
    BY <2>1 DEF Idle
  <2> QED
    BY <1>1, <2>1, <2>2
<1>6. ASSUME NEW n \in Writers, Worker(n) \/ WorkerFails(n)
      PROVE  /\ \A m \in Writers : Old(m)' => Bad'
             /\ via' # 0 /\ (via' # sessions' \/ session' = "down") => Bad'
  <2>1. /\ UNCHANGED <<session, sessions, via>> /\ (Bad => Bad')
        /\ \A m \in Writers \ {n} : queue'[m] = queue[m] /\ item'[m] = item[m]
    BY <1>6 DEF Worker, Take, Refuse, Add, ReplaceRow, ReplaceNothing, DeleteRow, WorkerFails, Done,
                rest, hook, counts, flags, Dropped, Lose, Shape, TypeOK
  <2>2. ~Idle(n)
    <3>1. Take(n) \/ stage[n] # "get"
      BY <1>6 DEF Worker, Refuse, Add, ReplaceRow, ReplaceNothing, DeleteRow, WorkerFails
    <3> QED
      BY <3>1, NothingInHand DEF Take, Idle, Shape, Staged
  <2> QED
    BY <1>1, <2>1, <2>2 DEF Idle
<1>7. CASE InitializeBegins
  BY <1>1, <1>7 DEF InitializeBegins, worker, hook, flags, Idle
<1>8. CASE NoImport \/ ReadExisting \/ \E c \in Contents : ImportSkips(c) \/ ImportInserts(c) \/ ImportRejects(c)
  <2>1. /\ UNCHANGED <<queue, item, via, sessions>> /\ session # "down" /\ session' # "down" /\ (Bad => Bad')
    <3>1. CASE NoImport \/ ReadExisting
      BY <3>1 DEF NoImport, ReadExisting, worker, hook, flags, counts
    <3>2. CASE \E c \in Contents : ImportSkips(c) \/ ImportInserts(c) \/ ImportRejects(c)
      BY <3>2 DEF ImportSkips, ImportInserts, ImportRejects, worker, hook, flags, counts
    <3> QED
      BY <1>8, <3>1, <3>2
  <2> QED
    BY <1>1, <2>1 DEF Idle
<1>9. CASE ReadFile
  <2>1. /\ UNCHANGED <<queue, item, via, sessions, missing>> /\ session # "down" /\ session' # "down"
        /\ gap' = Pending /\ stale' = (stale \/ Pending)
    BY <1>9 DEF ReadFile, worker, hook, counts
  <2>2. (\A n \in Writers : ~Idle(n) => Pending) /\ (via # 0 => Pending)
    BY DEF Pending, Shape, Around
  <2> QED
    BY <1>1, <2>1, <2>2 DEF Idle
<1>10. CASE ImportEnds
  <2>1. /\ UNCHANGED <<queue, item, via, sessions, stale>> /\ session # "down" /\ session' # "down"
        /\ missing' = (missing /\ gap) /\ gap' = TRUE
    BY <1>10 DEF ImportEnds, worker, hook, counts
  <2> QED
    BY <1>1, <2>1 DEF Idle
<1>11. CASE Shutdown
  <2>1. /\ UNCHANGED <<queue, item, via, sessions>> /\ session # "down" /\ (Bad => Bad')
        /\ ~Idle(sessions) \/ via # 0 => Bad'
    BY <1>11 DEF Shutdown, worker, hook, counts, Lose
  <2> QED
    BY <1>1, <2>1 DEF Idle
<1>12. CASE Kill
  BY <1>12 DEF Kill, HookReturns, Idle
<1> HIDE DEF Old, Bad
<1> QED
  BY <1>3, <1>4, <1>5, <1>6, <1>7, <1>8, <1>9, <1>10, <1>11, <1>12 DEF Next

-----------------------------------------------------------------------------
(* Mirrored: the chain of disks from the table to the disk *)

(* Nothing is owed once every flag is up. *)
LEMMA NothingPromised ==
  ASSUME missing', gap', stale'
  PROVE  Mirrored'
BY DEF Mirrored, Full

(* What is true of the present writer. *)
LEMMA PresentFacts ==
  ASSUME Shape
  PROVE  /\ sessions \in Writers /\ queue[sessions] \in Seq(Items) /\ P \in Seq(Items)
         /\ Len(P) \in Nat /\ DOMAIN P = 1..Len(P) /\ \A k \in 1..Len(P) : Write(P[k])
         /\ St = "get" => W = NoItem
         /\ St # "get" => Write(W)
<1>1. /\ sessions \in Writers /\ queue[sessions] \in Seq(Items) /\ Staged(sessions)
      /\ call \in Seq(Items) /\ Len(call) <= 1 /\ \A k \in DOMAIN call : Write(call[k])
  BY DEF Shape, TypeOK, Around
<1>2. CASE call = <<>>
  BY <1>1, <1>2 DEF P, Staged, W, St
<1>3. CASE call # <<>>
  <2>1. call[1] \in Items /\ Write(call[1])
    BY <1>1, <1>3
  <2>2. /\ P = Append(queue[sessions], call[1])
        /\ \A k \in DOMAIN queue[sessions] : Write(queue[sessions][k])
    BY <1>1, <1>3 DEF P, Staged
  <2>3. /\ P \in Seq(Items) /\ DOMAIN P = 1..Len(P) /\ Len(P) \in Nat
        /\ \A k \in 1..Len(P) : Write(P[k])
    BY <1>1, <2>1, <2>2
  <2> QED
    BY <1>1, <2>3 DEF Staged, W, St
<1> QED
  BY <1>2, <1>3

(* What the import has yet to insert is on the disk, as long as no entry   *)
(* was taken from the disk after it read the file.                         *)
LEMMA ComingOnDisk ==
  ASSUME Shape, NEW D \in [0..Len(P) -> SUBSET Contents], Chain(D), ~stale
  PROVE  Coming \subseteq disk
<1>1. Len(P) \in Nat
  BY PresentFacts
<1>2. CASE Len(P) = 0
  BY <1>2 DEF Chain, InHand, Spared
<1>3. CASE Len(P) # 0
  <2>1. Len(P) \in 1..Len(P)
    BY <1>1, <1>3
  <2> QED
    BY <2>1 DEF Chain, Leads, Spared
<1> QED
  BY <1>2, <1>3

(* A step that leaves the writes and the disk alone keeps the chain if the *)
(* write in hand still leads to its first disk.                            *)
LEMMA KeepChain ==
  ASSUME Mirrored, P' = P, disk' = disk,
         Full' => Full, ~stale' => ~stale /\ Coming' \subseteq Coming,
         \A d \in SUBSET Contents : InHand(d) => InHand(d)',
         Shape
  PROVE  Mirrored'
<1>1. SUFFICES ASSUME Full' \/ ~stale' PROVE Mirrored'
  BY DEF Mirrored
<1>2. PICK D \in [0..Len(P) -> SUBSET Contents] : Chain(D)
  BY <1>1 DEF Mirrored
<1>3. Len(P) \in Nat
  BY PresentFacts
<1>4. InHand(D[0])'
  <2>1. InHand(D[0]) /\ D[0] \in SUBSET Contents
    BY <1>2, <1>3 DEF Chain
  <2> QED
    BY <2>1
<1>5. \A k \in 1..Len(P) : Leads(P[k], D[k - 1], D[k])'
  BY <1>2 DEF Chain, Leads, Covers, Clears, Spared, Hits, New
<1>6. Chain(D)'
  BY <1>2, <1>4, <1>5 DEF Chain, Only
<1> QED
  BY <1>6 DEF Mirrored

(* A step that also leaves the table's texts and the hand alone.           *)
LEMMA QuietStep ==
  ASSUME Shape, Mirrored, P' = P, W' = W, St' = St, UNCHANGED <<rows, disk>>,
         Full' => Full /\ Owed \subseteq Owed',
         ~stale' => ~stale /\ Coming' \subseteq Coming
  PROVE  Mirrored'
<1>1. Texts' = Texts /\ (Full' => Full /\ Shown \subseteq Shown')
  BY DEF Texts, Shown
<1>2. Matches(W)' = Matches(W)
  BY DEF Matches
<1>3. Hits(W)' = Hits(W) /\ New(W)' = New(W)
  BY DEF Hits, New
<1>4. \A d \in SUBSET Contents : InHand(d) => InHand(d)'
  BY <1>1, <1>2, <1>3 DEF InHand, Covers, Clears, Spared
<1> QED
  BY <1>1, <1>4, KeepChain

(* With nothing on its way, what is not missing or stale is all that       *)
(* matters.                                                                *)
LEMMA EmptyChain ==
  ASSUME P' = <<>>, W' = NoItem, St' = "get", disk' \subseteq Contents,
         Full' => disk' \subseteq Shown',
         ~stale' => Texts' \subseteq disk' /\ Coming' \subseteq disk'
  PROVE  Mirrored'
<1>1. Len(P') = 0 /\ 0..0 = {0} /\ 1..0 = {}
  BY Len(<<>>) = 0
<1>2. PICK D \in [0..Len(P') -> SUBSET Contents] : D[0] = disk'
  <2>1. [k \in 0..0 |-> disk'] \in [0..Len(P') -> SUBSET Contents]
    BY <1>1
  <2>2. [k \in 0..0 |-> disk'][0] = disk'
    OBVIOUS
  <2> QED
    BY <2>1, <2>2
<1>3. InHand(D[0])'
  BY <1>2 DEF InHand, Covers, Clears, Spared, Hits, New, NoItem, Item
<1>4. Chain(D)'
  BY <1>1, <1>2, <1>3 DEF Chain
<1> QED
  BY <1>2, <1>4 DEF Mirrored

(* A write of the built-in tool adds a disk to the end of the chain.       *)
LEMMA ToolChain ==
  ASSUME Shape, Mirrored, NEW write \in Items, Write(write), P' = Append(P, write), W' = W, St' = St,
         UNCHANGED <<rows, todo, existing, gap, missing>>, disk' \subseteq Contents,
         disk' \subseteq (disk \ Hits(write)) \cup New(write),
         ~stale' =>
           /\ ~stale /\ \A c, d \in Hits(write) \cap disk : c = d
           /\ (disk \ Hits(write)) \cup New(write) \subseteq disk'
           /\ Coming \subseteq disk => Coming \cap Hits(write) = {} /\ Coming \subseteq disk'
  PROVE  Mirrored'
<1> DEFINE n == Len(P)
<1>0. SUFFICES ASSUME Full' \/ ~stale' PROVE Mirrored'
  BY DEF Mirrored
<1>1. /\ Full' = Full /\ Shown' = Shown /\ Coming' = Coming /\ Texts' = Texts
      /\ Matches(W)' = Matches(W) /\ Hits(W)' = Hits(W) /\ New(W)' = New(W)
  BY DEF Full, Shown, Owed, Coming, Texts, Matches, Hits, New
<1>2. PICK D \in [0..n -> SUBSET Contents] : Chain(D)
  BY <1>0, <1>1 DEF Mirrored
<1>3. /\ n \in Nat /\ P \in Seq(Items) /\ write.action \in {"add", "replace", "remove"}
      /\ Len(P') = n + 1 /\ P'[n + 1] = write /\ \A k \in 1..n : P'[k] = P[k]
  BY PresentFacts DEF Write
<1>4. /\ write.action = "remove" => disk' \subseteq disk
      /\ ~stale' /\ write.action = "add" => disk \subseteq disk'
  BY <1>3 DEF Write, New, Hits, Unaimed
<1>5. PICK E \in [0..(n + 1) -> SUBSET Contents] :
        E[n + 1] = disk' /\ \A k \in 0..n : E[k] = D[k]
  <2> DEFINE F == [k \in 0..(n + 1) |-> IF k <= n THEN D[k] ELSE disk']
  <2>1. /\ F \in [0..(n + 1) -> SUBSET Contents]
        /\ F[n + 1] = disk' /\ \A k \in 0..n : F[k] = D[k]
    BY <1>2, <1>3
  <2> HIDE DEF F
  <2> QED
    BY <2>1
<1> HIDE DEF n
<1>6. D[n] = disk /\ InHand(D[0])
  BY <1>2 DEF Chain, n
<1>7. InHand(E[0])'
  <2>1. E[0] = D[0]
    BY <1>3, <1>5
  <2> QED
    BY <1>1, <1>6, <2>1 DEF InHand, Covers, Clears, Spared
<1>8. ASSUME NEW k \in 1..(n + 1) PROVE Leads(P[k], E[k - 1], E[k])'
  <2>1. CASE k = n + 1
    <3>1. E[k - 1] = disk /\ E[k] = disk' /\ P'[k] = write
      BY <1>3, <1>5, <1>6, <2>1
    <3>2. ~stale' => Coming \subseteq disk
      BY <1>2, ComingOnDisk DEF n
    <3> QED
      BY <1>1, <3>1, <3>2 DEF Leads, Covers, Clears, Spared, Hits, New
  <2>2. CASE k # n + 1
    <3>1. k \in 1..n /\ k - 1 \in 0..n /\ k \in 0..n
      BY <1>3, <2>2
    <3>2. Leads(P[k], D[k - 1], D[k])
      BY <1>2, <3>1 DEF Chain, n
    <3>3. E[k - 1] = D[k - 1] /\ E[k] = D[k] /\ P'[k] = P[k]
      BY <1>3, <1>5, <3>1
    <3> QED
      BY <1>1, <3>2, <3>3 DEF Leads, Covers, Clears, Spared, Hits, New
  <2> QED
    BY <2>1, <2>2
<1>9. ASSUME NEW j \in 0..(n + 1), NEW k \in 0..(n + 1), j <= k
      PROVE  /\ Full' /\ Only("remove", j, k)' => E[k] \subseteq E[j]
             /\ ~stale' /\ Only("add", j, k)' => E[j] \subseteq E[k]
  <2>1. CASE j = n + 1
    BY <1>3, <1>9, <2>1
  <2>2. CASE k \in 0..n
    <3>1. j \in 0..n /\ \A i \in (j + 1)..k : P'[i] = P[i]
      BY <1>3, <1>9, <2>2
    <3>2. (Only("remove", j, k)' => Only("remove", j, k)) /\ (Only("add", j, k)' => Only("add", j, k))
      BY <3>1 DEF Only
    <3> QED
      BY <1>1, <1>2, <1>5, <1>9, <2>2, <3>1, <3>2 DEF Chain, n
  <2>3. CASE k = n + 1 /\ j \in 0..n
    <3>1. /\ n + 1 \in (j + 1)..k /\ j <= n /\ n \in 0..n
          /\ \A i \in (j + 1)..n : i \in (j + 1)..k /\ P'[i] = P[i]
      BY <1>3, <2>3
    <3>2. /\ Only("remove", j, k)' => Only("remove", j, n) /\ write.action = "remove"
          /\ Only("add", j, k)' => Only("add", j, n) /\ write.action = "add"
      BY <1>3, <3>1 DEF Only
    <3>3. /\ Full /\ Only("remove", j, n) => D[n] \subseteq D[j]
          /\ ~stale /\ Only("add", j, n) => D[j] \subseteq D[n]
      BY <1>2, <2>3, <3>1 DEF Chain, n
    <3> QED
      BY <1>1, <1>4, <1>5, <1>6, <2>3, <3>2, <3>3
  <2> QED
    BY <1>3, <2>1, <2>2, <2>3
<1>10. Chain(E)'
  BY <1>3, <1>5, <1>7, <1>8, <1>9 DEF Chain
<1> QED
  BY <1>3, <1>5, <1>10 DEF Mirrored

(* The last write is dropped: its disk takes the place of the one before.  *)
LEMMA DropChain ==
  ASSUME Shape, Mirrored, NEW write \in Items, Write(write), P' \in Seq(Items), P = Append(P', write),
         W' = W, St' = St, UNCHANGED <<rows, disk, todo, existing>>, Dropped(write)
  PROVE  Mirrored'
<1> DEFINE n == Len(P')
<1>0. SUFFICES ASSUME Full' \/ ~stale' PROVE Mirrored'
  BY DEF Mirrored
<1>1. /\ missing' = (missing \/ write.action # "remove") /\ gap' = (gap \/ write.action # "remove")
      /\ stale' = (stale \/ write.action # "add")
  BY DEF Dropped, Lose
<1>2. /\ Full' => Full /\ write.action = "remove" /\ Shown' = Shown
      /\ ~stale' => ~stale /\ write.action = "add"
      /\ Coming' = Coming /\ Texts' = Texts
      /\ Matches(W)' = Matches(W) /\ Hits(W)' = Hits(W) /\ New(W)' = New(W)
  BY <1>1 DEF Full, Shown, Owed, Coming, Texts, Matches, Hits, New
<1>3. /\ n \in Nat /\ Len(P) = n + 1 /\ P[n + 1] = write /\ \A k \in 1..n : P[k] = P'[k]
  OBVIOUS
<1> HIDE DEF n
<1>4. PICK D \in [0..(n + 1) -> SUBSET Contents] : Chain(D)
  BY <1>0, <1>2, <1>3 DEF Mirrored
<1>5. /\ D[n + 1] = disk /\ InHand(D[0]) /\ Leads(write, D[n], disk)
  <2>1. n + 1 \in 1..(n + 1) /\ (n + 1) - 1 = n
    BY <1>3
  <2> QED
    BY <1>3, <1>4, <2>1 DEF Chain
<1>6. /\ Full' => disk \subseteq D[n]
      /\ ~stale' => D[n] \subseteq disk
  BY <1>2, <1>5 DEF Leads, Covers, Clears, New, Hits, Write, Unaimed
<1>7. PICK E \in [0..n -> SUBSET Contents] :
        E[n] = disk /\ \A k \in 0..(n - 1) : E[k] = D[k]
  <2> DEFINE F == [k \in 0..n |-> IF k = n THEN disk ELSE D[k]]
  <2>1. disk \subseteq Contents
    BY DEF Shape, TypeOK
  <2>2. /\ F \in [0..n -> SUBSET Contents]
        /\ F[n] = disk /\ \A k \in 0..(n - 1) : F[k] = D[k]
    BY <1>3, <1>4, <2>1
  <2> HIDE DEF F
  <2> QED
    BY <2>2
<1>8. \A k \in 0..n : (Full' => E[k] \subseteq D[k]) /\ (~stale' => D[k] \subseteq E[k])
  BY <1>3, <1>6, <1>7
<1>9. InHand(E[0])'
  <2>1. 0 \in 0..n
    BY <1>3
  <2>2. /\ Full' => E[0] \subseteq D[0]
        /\ ~stale' => D[0] \subseteq E[0]
    BY <1>8, <2>1
  <2> QED
    BY <1>2, <1>5, <2>2 DEF InHand, Covers, Clears, Spared
<1>10. ASSUME NEW k \in 1..n PROVE Leads(P[k], E[k - 1], E[k])'
  <2>1. k \in 0..n /\ k - 1 \in 0..(n - 1) /\ k \in 1..(n + 1)
    BY <1>3
  <2>2. Leads(P[k], D[k - 1], D[k]) /\ E[k - 1] = D[k - 1]
    BY <1>3, <1>4, <1>7, <2>1 DEF Chain
  <2>3. (Full' => E[k] \subseteq D[k]) /\ (~stale' => D[k] \subseteq E[k])
    BY <1>8, <2>1
  <2>4. P'[k] = P[k]
    BY <1>3
  <2> QED
    BY <1>2, <2>2, <2>3, <2>4 DEF Leads, Covers, Clears, Spared, Hits, New
<1>11. ASSUME NEW j \in 0..n, NEW k \in 0..n, j <= k
      PROVE  /\ Full' /\ Only("remove", j, k)' => E[k] \subseteq E[j]
             /\ ~stale' /\ Only("add", j, k)' => E[j] \subseteq E[k]
  <2>1. CASE j = k
    BY <2>1
  <2>2. CASE j # k
    <3>1. j \in 0..(n - 1) /\ E[j] = D[j] /\ j \in 0..(n + 1) /\ k \in 0..(n + 1)
          /\ \A i \in (j + 1)..k : P'[i] = P[i]
      BY <1>3, <1>7, <1>11, <2>2
    <3>2. /\ Full /\ Only("remove", j, k) => D[k] \subseteq D[j]
          /\ ~stale /\ Only("add", j, k) => D[j] \subseteq D[k]
      BY <1>3, <1>4, <1>11, <3>1 DEF Chain
    <3>3. (Only("remove", j, k)' => Only("remove", j, k)) /\ (Only("add", j, k)' => Only("add", j, k))
      BY <3>1 DEF Only
    <3>4. (Full' => E[k] \subseteq D[k]) /\ (~stale' => D[k] \subseteq E[k])
      BY <1>8
    <3> QED
      BY <1>2, <3>1, <3>2, <3>3, <3>4
  <2> QED
    BY <2>1, <2>2
<1>12. Chain(E)'
  BY <1>7, <1>9, <1>10, <1>11 DEF Chain, n
<1> QED
  BY <1>7, <1>12 DEF Mirrored, n

(* The worker takes the first write, and the chain loses its first disk.   *)
LEMMA TakeChain ==
  ASSUME Shape, Mirrored, P # <<>>, P' = Tail(P), W = NoItem, St = "get",
         W' = P[1], St' = FirstStage(P[1]), UNCHANGED <<rows, disk, todo, existing, gap, missing, stale>>
  PROVE  Mirrored'
<1> DEFINE n == Len(P)
<1>0. SUFFICES ASSUME Full' \/ ~stale' PROVE Mirrored'
  BY DEF Mirrored
<1>1. Full' = Full /\ Shown' = Shown /\ Coming' = Coming /\ Texts' = Texts
  BY DEF Full, Shown, Owed, Coming, Texts
<1>2. /\ n \in Nat \ {0} /\ P \in Seq(Items) /\ Write(P[1])
  <2>1. n \in Nat \ {0} /\ P \in Seq(Items)
    BY PresentFacts
  <2>2. 1 \in 1..n
    BY <2>1
  <2> QED
    BY <2>1, <2>2, PresentFacts
<1>3. PICK D \in [0..n -> SUBSET Contents] : Chain(D)
  BY <1>0, <1>1 DEF Mirrored
<1>4. Len(P') = n - 1 /\ \A k \in 1..(n - 1) : P'[k] = P[k + 1]
  <2>1. /\ Len(Tail(P)) = n - 1 /\ \A k \in 1..Len(Tail(P)) : Tail(P)[k] = P[k + 1]
    BY <1>2, HeadTailProperties
  <2> QED
    BY <2>1
<1>5. PICK E \in [0..(n - 1) -> SUBSET Contents] : \A k \in 0..(n - 1) : E[k] = D[k + 1]
  <2> DEFINE F == [k \in 0..(n - 1) |-> D[k + 1]]
  <2>1. F \in [0..(n - 1) -> SUBSET Contents] /\ \A k \in 0..(n - 1) : F[k] = D[k + 1]
    BY <1>2, <1>3
  <2> HIDE DEF F
  <2> QED
    BY <2>1
<1> HIDE DEF n
<1>6. InHand(E[0])'
  <2>1. E[0] = D[1] /\ InHand(D[0]) /\ Leads(P[1], D[0], D[1])
    <3>1. 1 \in 1..n /\ 1 - 1 = 0 /\ 0 \in 0..(n - 1) /\ 0 + 1 = 1
      BY <1>2
    <3> QED
      BY <1>3, <1>5, <3>1 DEF Chain, n
  <2>2. (Full => D[0] \subseteq Shown) /\ (~stale => Texts \subseteq D[0])
    BY <2>1 DEF InHand, Covers, Clears, Hits, New, NoItem, Item
  <2>3. /\ Full => Covers(P[1], Shown, D[1])
        /\ ~stale => Clears(P[1], Texts, D[1]) /\ Spared(P[1], D[1])
    BY <2>1, <2>2 DEF Leads, Covers, Clears
  <2>4. Hits(W)' = Hits(P[1]) /\ New(W)' = New(P[1])
    BY DEF Hits, New
  <2>5. CASE St' = "add"
    <3>1. Unaimed(P[1]) /\ P[1].action \in {"add", "replace"}
      BY <1>2, <2>5 DEF FirstStage, Write
    <3>2. Hits(P[1]) = {} /\ New(P[1]) = {P[1].new}
      BY <3>1 DEF Unaimed, Hits, New
    <3> QED
      BY <1>1, <2>1, <2>3, <2>4, <2>5, <3>2 DEF InHand, Covers, Clears, Spared
  <2>6. CASE St' # "add"
    <3>1. St' # "duplicate"
      BY <1>2 DEF FirstStage, Write
    <3> QED
      BY <1>1, <2>1, <2>3, <2>4, <2>6, <3>1 DEF InHand, Covers, Clears, Spared
  <2> QED
    BY <2>5, <2>6
<1>7. ASSUME NEW k \in 1..(n - 1) PROVE Leads(P[k], E[k - 1], E[k])'
  <2>1. k + 1 \in 1..n /\ k - 1 \in 0..(n - 1) /\ k \in 0..(n - 1) /\ (k + 1) - 1 = k /\ (k - 1) + 1 = k
    BY <1>2
  <2>2. Leads(P[k + 1], D[k], D[k + 1])
    BY <1>3, <2>1 DEF Chain, n
  <2>3. E[k - 1] = D[k] /\ E[k] = D[k + 1] /\ P'[k] = P[k + 1]
    BY <1>4, <1>5, <2>1
  <2> QED
    BY <1>1, <2>2, <2>3 DEF Leads, Covers, Clears, Spared, Hits, New
<1>8. ASSUME NEW j \in 0..(n - 1), NEW k \in 0..(n - 1), j <= k
      PROVE  /\ Full' /\ Only("remove", j, k)' => E[k] \subseteq E[j]
             /\ ~stale' /\ Only("add", j, k)' => E[j] \subseteq E[k]
  <2>1. ASSUME NEW a \in {"add", "remove"}, Only(a, j, k)' PROVE Only(a, j + 1, k + 1)
    <3> SUFFICES ASSUME NEW i \in ((j + 1) + 1)..(k + 1) PROVE P[i].action = a
      BY DEF Only
    <3>1. i - 1 \in (j + 1)..k /\ i - 1 \in 1..(n - 1) /\ (i - 1) + 1 = i
      BY <1>2
    <3>2. P'[i - 1].action = a
      BY <2>1, <3>1 DEF Only
    <3> QED
      BY <1>4, <3>1, <3>2
  <2>2. /\ Full /\ Only("remove", j + 1, k + 1) => D[k + 1] \subseteq D[j + 1]
        /\ ~stale /\ Only("add", j + 1, k + 1) => D[j + 1] \subseteq D[k + 1]
    <3>1. j + 1 \in 0..n /\ k + 1 \in 0..n /\ j + 1 <= k + 1
      BY <1>2, <1>8
    <3> QED
      BY <1>3, <3>1 DEF Chain, n
  <2> QED
    BY <1>1, <1>5, <2>1, <2>2
<1>9. E[n - 1] = disk'
  BY <1>2, <1>3, <1>5 DEF Chain, n
<1>10. Chain(E)'
  BY <1>4, <1>6, <1>7, <1>8, <1>9 DEF Chain
<1> QED
  BY <1>4, <1>5, <1>10 DEF Mirrored

-----------------------------------------------------------------------------
(* The built-in tool and its hook *)

(* What the evidence of an edited entry hits of the disk is that entry. *)
LEMMA EvidenceFacts ==
  ASSUME disk \subseteq Contents \ Blank, NEW c \in disk, NEW e \in Evidence(c), NEW w,
         w.action \in {"replace", "remove"}, w.action = "replace" => w.new \in Contents \ Blank,
         w.previous = e.previous, w.hint = e.hint
  PROVE  /\ Write(w)
         /\ e.previous \in Contents \cup {NoText} /\ e.hint \in Contents \cup {NoText}
         /\ Hits(w) \cap disk \subseteq {c}
         /\ ~Unaimed(w) => c \in Hits(w)
<1>1. /\ e.previous \in {c, NoText}
      /\ e.previous = c => e.hint = NoText
      /\ e.previous = NoText /\ e.hint # NoText =>
           e.hint \in Contents \ Blank /\ {x \in disk : <<x, e.hint>> \in LikePairs} = {c}
  BY MirrorAssumption DEF Evidence
<1>2. c \in Contents \ Blank /\ c # NoText
  BY MirrorAssumption
<1>3. e.hint # NoText => e.hint \in Contents \ Blank
  BY <1>1, <1>2
<1>4. Write(w)
  BY <1>1, <1>2, <1>3 DEF Write, Unaimed
<1>5. Hits(w) \cap disk \subseteq {c} /\ (~Unaimed(w) => c \in Hits(w))
  BY <1>1, <1>2 DEF Hits, Unaimed
<1> QED
  BY <1>1, <1>2, <1>3, <1>4, <1>5

(* What an operation of the tool must show: c is the entry that it takes.  *)
LEMMA ToolStep ==
  ASSUME IInv, NEW newDisk \in SUBSET (Contents \ Blank), NEW write \in Items, Write(write),
         Tool(newDisk, write), NEW c,
         newDisk \subseteq (disk \ Hits(write)) \cup New(write),
         write.action = "add" => newDisk = disk \cup New(write),
         write.action # "add" => /\ newDisk = (disk \ {c}) \cup New(write) /\ c \notin New(write)
                                 /\ Hits(write) \cap disk \subseteq {c} /\ c \in disk
                                 /\ ~Unaimed(write) => c \in Hits(write)
  PROVE  Mirrored'
<1>1. /\ call = <<>> /\ call' = <<write>> /\ disk' = newDisk
      /\ UNCHANGED <<rows, todo, existing, queue, item, stage, sessions>>
      /\ gap' = (gap \/ FALSE) /\ missing' = (missing \/ FALSE)
      /\ stale' = (stale \/ (write.action # "add" /\ (Unaimed(write) \/ (disk \ newDisk) \cap Coming # {})))
  BY DEF Tool, Lose, table, worker, import
<1>2. gap' = gap /\ missing' = missing
  BY <1>1 DEF IInv, Shape, TypeOK
<1>3. call' # <<>> /\ call'[1] = write
  BY <1>1
<1>4. P' = Append(P, write) /\ W' = W /\ St' = St
  BY <1>1, <1>3 DEF P, W, St
<1>5. ~stale' => ~stale /\ (write.action = "add" \/ (~Unaimed(write) /\ (disk \ newDisk) \cap Coming = {}))
  BY <1>1
<1>6. write.action = "add" => Hits(write) = {}
  BY DEF Write, Unaimed, Hits
<1>7. ~stale' => /\ \A x, y \in Hits(write) \cap disk : x = y
                 /\ (disk \ Hits(write)) \cup New(write) \subseteq disk'
                 /\ Coming \subseteq disk => Coming \cap Hits(write) = {} /\ Coming \subseteq disk'
  BY <1>1, <1>5, <1>6
<1> QED
  BY <1>1, <1>2, <1>4, <1>5, <1>7, ToolChain DEF IInv

LEMMA ToolSteps ==
  ASSUME IInv, NEW c \in Contents \ Blank, NEW d \in Contents \ Blank,
         ToolAdd(c) \/ ToolRemove(c) \/ ToolReplace(c, d)
  PROVE  Shape' /\ Mirrored'
<1>1. disk \subseteq Contents \ Blank
  BY DEF IInv, Shape, TypeOK, Around
<1>2. CASE ToolAdd(c)
  <2>1. PICK w : w = Item("add", c, NoText, NoText)
    OBVIOUS
  <2>2. /\ Write(w) /\ Hits(w) = {} /\ New(w) = {c} /\ Tool(disk \cup {c}, w) /\ w \in Items
        /\ w.action = "add"
    BY <1>2, <2>1 DEF ToolAdd, Item, Items, Write, Hits, New, Unaimed
  <2>3. disk \cup {c} \in SUBSET (Contents \ Blank)
    BY <1>1
  <2>4. Shape'
    BY <2>2, <2>3, ToolShape DEF IInv
  <2>5. Mirrored'
    BY <2>2, <2>3, ToolStep
  <2> QED
    BY <2>4, <2>5
<1>3. CASE ToolRemove(c)
  <2>1. PICK e \in Evidence(c) : Tool(disk \ {c}, Item("remove", NoText, e.previous, e.hint))
    BY <1>3 DEF ToolRemove
  <2>2. PICK w : w = Item("remove", NoText, e.previous, e.hint)
    OBVIOUS
  <2>3. c \in disk
    BY <1>3 DEF ToolRemove
  <2>4. w.action = "remove" /\ w.previous = e.previous /\ w.hint = e.hint /\ New(w) = {}
    BY <2>2 DEF Item, New
  <2>5. /\ Write(w) /\ Hits(w) \cap disk \subseteq {c} /\ (~Unaimed(w) => c \in Hits(w))
        /\ e.previous \in Contents \cup {NoText} /\ e.hint \in Contents \cup {NoText}
    BY <1>1, <2>3, <2>4, EvidenceFacts
  <2>6. w \in Items
    BY <2>2, <2>5 DEF Item, Items
  <2>7. Tool(disk \ {c}, w) /\ disk \ {c} \in SUBSET (Contents \ Blank)
    BY <1>1, <2>1, <2>2
  <2>8. Shape'
    BY <2>5, <2>6, <2>7, ToolShape DEF IInv
  <2>9. Mirrored'
    BY <2>3, <2>4, <2>5, <2>6, <2>7, ToolStep
  <2> QED
    BY <2>8, <2>9
<1>4. CASE ToolReplace(c, d)
  <2>1. PICK e \in Evidence(c) :
          Tool((disk \ {c}) \cup {d}, Item("replace", d, e.previous, e.hint))
    BY <1>4 DEF ToolReplace
  <2>2. PICK w : w = Item("replace", d, e.previous, e.hint)
    OBVIOUS
  <2>3. c \in disk /\ d # c
    BY <1>4 DEF ToolReplace
  <2>4. w.action = "replace" /\ w.new = d /\ w.previous = e.previous /\ w.hint = e.hint /\ New(w) = {d}
    BY <2>2 DEF Item, New
  <2>5. /\ Write(w) /\ Hits(w) \cap disk \subseteq {c} /\ (~Unaimed(w) => c \in Hits(w))
        /\ e.previous \in Contents \cup {NoText} /\ e.hint \in Contents \cup {NoText}
    BY <1>1, <2>3, <2>4, EvidenceFacts
  <2>6. w \in Items
    BY <2>2, <2>5 DEF Item, Items
  <2>7. Tool((disk \ {c}) \cup {d}, w) /\ (disk \ {c}) \cup {d} \in SUBSET (Contents \ Blank)
    BY <1>1, <2>1, <2>2
  <2>8. Shape'
    BY <2>5, <2>6, <2>7, ToolShape DEF IInv
  <2>9. Mirrored'
    BY <2>3, <2>4, <2>5, <2>6, <2>7, ToolStep
  <2> QED
    BY <2>8, <2>9
<1> QED
  BY <1>2, <1>3, <1>4

LEMMA HookStep ==
  ASSUME IInv, HookReads \/ HookPuts
  PROVE  Mirrored'
<1>1. /\ call # <<>> /\ UNCHANGED <<rows, disk, item, stage, sessions, todo, existing>>
      /\ W' = W /\ St' = St
  BY DEF HookReads, HookPuts, table, worker, import, counts, W, St, IInv, Shape, Around
<1>2. /\ call[1] \in Items /\ Write(call[1]) /\ queue[sessions] \in Seq(Items)
      /\ P = Append(queue[sessions], call[1])
  <2>1. /\ call \in Seq(Items) /\ (\A k \in DOMAIN call : Write(call[k])) /\ sessions \in Writers
        /\ queue \in [Writers -> Seq(Items)]
    BY DEF IInv, Shape, TypeOK, Around
  <2>2. 1 \in DOMAIN call
    BY <1>1, <2>1
  <2> QED
    BY <1>1, <2>1, <2>2 DEF P
<1>3. ASSUME P' = P, UNCHANGED flags PROVE Mirrored'
  BY <1>1, <1>3, QuietStep DEF flags, IInv, Full, Owed, Coming
<1>4. ASSUME P' = queue[sessions], Dropped(call[1]) PROVE Mirrored'
  BY <1>1, <1>2, <1>4, DropChain DEF IInv
<1>5. CASE HookReads
  <2>1. CASE call' = call /\ queue' = queue /\ UNCHANGED flags
    BY <1>1, <1>3, <2>1 DEF P
  <2>2. CASE call' = <<>> /\ queue' = queue /\ Dropped(call[1])
    BY <1>1, <1>4, <2>2 DEF P
  <2> QED
    BY <1>5, <2>1, <2>2 DEF HookReads, HookReturns, worker
<1>6. CASE HookPuts
  <2>1. CASE via # sessions
    <3>1. missing /\ gap /\ stale
      BY <1>6, <2>1 DEF HookPuts, IInv, Behind
    <3>2. missing' /\ gap' /\ stale'
      BY <1>6, <3>1 DEF HookPuts, flags, Dropped, Lose
    <3> QED
      BY <3>2, NothingPromised
  <2>2. CASE via = sessions
    <3>1. CASE queue' = [queue EXCEPT ![via] = Append(@, call[1])] /\ UNCHANGED flags
      <4>1. call' = <<>> /\ queue'[sessions] = Append(queue[sessions], call[1])
        BY <1>6, <2>2, <3>1 DEF HookPuts, HookReturns, IInv, Shape, TypeOK
      <4> QED
        BY <1>1, <1>2, <1>3, <3>1, <4>1 DEF P
    <3>2. CASE queue' = queue /\ Dropped(call[1])
      <4>1. call' = <<>>
        BY <1>6 DEF HookPuts, HookReturns
      <4> QED
        BY <1>1, <1>4, <3>2, <4>1 DEF P
    <3> QED
      BY <1>6, <3>1, <3>2 DEF HookPuts
  <2> QED
    BY <2>1, <2>2
<1> QED
  BY <1>5, <1>6

-----------------------------------------------------------------------------
(* The workers *)

(* A step of an old writer's thread: by then nothing is promised.          *)
LEMMA OldWriterStep ==
  ASSUME IInv, NEW n \in Writers, Worker(n) \/ WorkerFails(n), n # sessions
  PROVE  Mirrored'
<1>1. ~Idle(n)
  <2>1. Take(n) \/ stage[n] # "get"
    BY DEF Worker, Refuse, Add, ReplaceRow, ReplaceNothing, DeleteRow, WorkerFails
  <2> QED
    BY <2>1, NothingInHand DEF Take, Idle, IInv, Shape, Staged
<1>2. missing /\ stale /\ gap
  BY <1>1 DEF IInv, Behind
<1>3. missing' /\ gap' /\ stale'
  BY <1>2 DEF Worker, Take, Refuse, Add, ReplaceRow, ReplaceNothing, DeleteRow, WorkerFails,
              flags, Dropped, Lose
<1> QED
  BY <1>3, NothingPromised

LEMMA HandEmpty ==
  ASSUME W' = NoItem, St' = "get", NEW d,
         Full' => d \subseteq Shown', ~stale' => Texts' \subseteq d /\ Coming' \subseteq d
  PROVE  InHand(d)'
BY DEF InHand, Covers, Clears, Spared, Hits, New, NoItem, Item

(* The present writer's statements leave its queue and the import alone.   *)
LEMMA StatementFacts ==
  ASSUME IInv, \/ Refuse(sessions) \/ Add(sessions) \/ ReplaceRow(sessions)
               \/ ReplaceNothing(sessions) \/ DeleteRow(sessions) \/ WorkerFails(sessions)
  PROVE  /\ P' = P /\ disk' = disk /\ UNCHANGED <<todo, existing>> /\ Coming' = Coming
         /\ W = item[sessions] /\ St = stage[sessions] /\ Staged(sessions) /\ Write(W)
         /\ Done(sessions) => W' = NoItem /\ St' = "get"
         /\ UNCHANGED item => W' = W
         /\ \A s : stage' = [stage EXCEPT ![sessions] = s] => St' = s
<1>1. /\ UNCHANGED <<disk, call, queue, sessions, todo, existing>>
  BY DEF Refuse, Add, ReplaceRow, ReplaceNothing, DeleteRow, WorkerFails, rest, hook, import, counts
<1>2. /\ sessions \in Writers /\ Staged(sessions) /\ stage[sessions] # "get"
      /\ item \in [Writers -> Items]
      /\ stage \in [Writers -> {"get", "add", "update", "duplicate", "delete", "refuse"}]
  BY DEF IInv, Shape, TypeOK, Refuse, Add, ReplaceRow, ReplaceNothing, DeleteRow, WorkerFails
<1>3. Write(W) /\ W = item[sessions] /\ St = stage[sessions]
  BY <1>2 DEF Staged, W, St
<1>4. P' = P /\ Coming' = Coming
  BY <1>1 DEF P, Coming
<1>5. Done(sessions) => W' = NoItem /\ St' = "get"
  BY <1>1, <1>2 DEF Done, W, St
<1>6. UNCHANGED item => W' = W
  BY <1>1 DEF W
<1>7. \A s : stage' = [stage EXCEPT ![sessions] = s] => St' = s
  BY <1>1, <1>2 DEF St
<1> QED
  BY <1>1, <1>2, <1>3, <1>4, <1>5, <1>6, <1>7

LEMMA WorkerStep ==
  ASSUME IInv, \/ Refuse(sessions) \/ Add(sessions) \/ ReplaceRow(sessions)
               \/ ReplaceNothing(sessions) \/ DeleteRow(sessions) \/ WorkerFails(sessions)
  PROVE  Mirrored'
<1>1. /\ P' = P /\ disk' = disk /\ UNCHANGED <<todo, existing>> /\ Coming' = Coming
      /\ W = item[sessions] /\ St = stage[sessions] /\ Staged(sessions) /\ Write(W)
      /\ Done(sessions) => W' = NoItem /\ St' = "get"
      /\ UNCHANGED item => W' = W
      /\ \A s : stage' = [stage EXCEPT ![sessions] = s] => St' = s
  BY StatementFacts
<1>2. TypeOK /\ Unique /\ Shape /\ Mirrored
  BY DEF IInv, Shape
<1>3. ASSUME UNCHANGED flags PROVE Full' = Full /\ Owed' = Owed /\ stale' = stale
  BY <1>1, <1>3 DEF flags, Full, Owed
(* It is enough that the write in hand leads to the same disk as before.   *)
<1>4. ASSUME UNCHANGED flags, \A d \in SUBSET Contents : InHand(d) => InHand(d)'
      PROVE  Mirrored'
  BY <1>1, <1>2, <1>3, <1>4, KeepChain
<1>5. CASE Refuse(sessions)
  <2>1. St = "refuse" /\ W' = NoItem /\ St' = "get" /\ UNCHANGED <<rows, flags>>
    BY <1>1, <1>5 DEF Refuse, table
  <2>2. Hits(W) = {} /\ New(W) = {}
    BY <1>1, <2>1 DEF Staged, Unaimed, Hits, New
  <2>3. ASSUME NEW d \in SUBSET Contents, InHand(d) PROVE InHand(d)'
    <3>1. (Full' => d \subseteq Shown') /\ (~stale' => Texts' \subseteq d /\ Coming' \subseteq d)
      BY <1>1, <1>3, <2>1, <2>2, <2>3 DEF InHand, Covers, Clears, Spared, Texts, Shown
    <3> QED
      BY <2>1, <3>1, HandEmpty
  <2> QED
    BY <1>4, <2>1, <2>3
<1>6. CASE Add(sessions)
  <2>1. St = "add" /\ W' = NoItem /\ St' = "get" /\ UNCHANGED flags /\ InsertNew(W.new, Vectors(W))
    BY <1>1, <1>6 DEF Add
  <2>2. W.new \in Contents /\ Vectors(W) \subseteq Contents \cup {Null}
    BY <1>1, <2>1 DEF Write, Vectors, Staged
  <2>3. Texts' = Texts \cup {W.new}
    BY <1>2, <2>1, <2>2, InsertFacts DEF InsertNew
  <2>4. ASSUME NEW d \in SUBSET Contents, InHand(d) PROVE InHand(d)'
    <3>1. (Full' => d \subseteq Shown') /\ (~stale' => Texts' \subseteq d /\ Coming' \subseteq d)
      BY <1>1, <1>3, <2>1, <2>3, <2>4 DEF InHand, Spared, Shown
    <3> QED
      BY <2>1, <3>1, HandEmpty
  <2> QED
    BY <1>4, <2>1, <2>4
<1>7. ASSUME St \in {"update", "duplicate", "delete"}
      PROVE  /\ ~Unaimed(W)
             /\ Matches(W) = {} => Hits(W) \cap Texts = {}
             /\ Matches(W) # {} => /\ Min(Matches(W)) \in Scope(rows, Agent)
                                   /\ rows[Min(Matches(W))].content \in Hits(W) \cap Texts
  <2>1. ~Unaimed(W)
    BY <1>1, <1>7 DEF Staged
  <2> QED
    BY <1>1, <1>2, <2>1, Found
<1>8. CASE ReplaceRow(sessions)
  <2> DEFINE id == Min(Matches(W))
             x == rows[id].content
  <2>1. /\ St = "update" /\ Matches(W) # {} /\ UNCHANGED flags
        /\ New(W) = {W.new} /\ W.new \in Contents
    BY <1>1, <1>8 DEF ReplaceRow, Staged, New, Write
  <2>2. id \in Scope(rows, Agent) /\ x \in Hits(W) \cap Texts
    BY <1>7, <2>1
  <2>3. CASE ~Violates(rows, id, W.new) /\ Done(sessions) /\ \E v \in Vectors(W) : rows' = Update(rows, id, W.new, v)
    <3>1. PICK v \in Contents \cup {Null} : rows' = Update(rows, id, W.new, v)
      BY <2>1, <2>3 DEF Vectors
    <3>2. Texts' = (Texts \ {x}) \cup {W.new}
      BY <1>2, <2>1, <2>2, <2>3, <3>1, UpdateFacts
    <3>3. W' = NoItem /\ St' = "get"
      BY <1>1, <2>3
    <3> HIDE DEF x, id
    <3>4. ASSUME NEW d \in SUBSET Contents, InHand(d) PROVE InHand(d)'
      <4>1. /\ Full => Covers(W, Shown, d)
            /\ ~stale => Clears(W, Texts, d) /\ Spared(W, d)
        BY <2>1, <3>4 DEF InHand
      <4>2. (Full' => d \subseteq Shown') /\ (~stale' => Texts' \subseteq d /\ Coming' \subseteq d)
        BY <1>1, <1>3, <2>1, <2>2, <3>2, <4>1 DEF Covers, Clears, Spared, Shown
      <4> QED
        BY <3>3, <4>2, HandEmpty
    <3> QED
      BY <1>4, <2>1, <3>4
  <2>4. CASE Violates(rows, id, W.new) /\ stage' = [stage EXCEPT ![sessions] = "duplicate"] /\ UNCHANGED <<rows, item>>
    <3>1. St' = "duplicate" /\ W' = W /\ Matches(W)' = Matches(W) /\ Texts' = Texts
      BY <1>1, <2>4 DEF Matches, Texts
    <3>2. ASSUME NEW d \in SUBSET Contents, InHand(d) PROVE InHand(d)'
      <4>1. /\ Full => Covers(W, Shown, d)
            /\ ~stale => Clears(W, Texts, d) /\ Spared(W, d)
        BY <2>1, <3>2 DEF InHand
      <4>2. Hits(W)' = Hits(W) /\ New(W)' = New(W) /\ Shown' = Shown
        BY <1>3, <2>1, <3>1 DEF Hits, New, Shown
      <4> QED
        BY <1>1, <1>3, <2>1, <2>4, <3>1, <4>1, <4>2 DEF InHand, Covers, Clears, Spared
    <3> HIDE DEF id
    <3> QED
      BY <1>4, <2>1, <3>2
  <2> QED
    BY <1>1, <1>8, <2>3, <2>4 DEF ReplaceRow
<1>9. CASE ReplaceNothing(sessions)
  <2>1. /\ St = "update" /\ Matches(W) = {} /\ St' = "add" /\ W' = W
        /\ UNCHANGED <<rows, flags>> /\ New(W) = {W.new}
    BY <1>1, <1>9 DEF ReplaceNothing, table, Staged, New
  <2>2. Hits(W) \cap Texts = {} /\ Texts' = Texts /\ Hits(W)' = Hits(W)
    BY <1>7, <2>1 DEF Texts, Hits
  <2>3. ASSUME NEW d \in SUBSET Contents, InHand(d) PROVE InHand(d)'
    <3>1. /\ Full => Covers(W, Shown, d)
          /\ ~stale => Clears(W, Texts, d) /\ Spared(W, d)
      BY <2>1, <2>3 DEF InHand
    <3>2. /\ Full' => d \subseteq Shown' \cup {W.new}
          /\ ~stale' => Texts' \cup {W.new} \subseteq d
      BY <1>3, <2>1, <2>2, <3>1 DEF Covers, Clears, Shown
    <3>3. ~stale' => Coming' \cap Hits(W)' = {} /\ Coming' \subseteq d
      BY <1>1, <1>3, <2>1, <2>2, <3>1 DEF Spared
    <3> QED
      BY <2>1, <3>2, <3>3 DEF InHand, Spared
  <2> QED
    BY <1>4, <2>1, <2>3
<1>10. CASE DeleteRow(sessions)
  <2>1. /\ St \in {"duplicate", "delete"} /\ W' = NoItem /\ St' = "get" /\ UNCHANGED flags
    BY <1>1, <1>10 DEF DeleteRow
  <2>2. New(W) = IF St = "delete" THEN {} ELSE {W.new}
    BY <1>1, <2>1 DEF Staged, New
  <2>3. CASE Matches(W) = {}
    <3>1. rows' = rows /\ Hits(W) \cap Texts = {} /\ Texts' = Texts
      BY <1>1, <1>7, <1>10, <2>1, <2>3 DEF DeleteRow, Texts
    <3>2. ASSUME NEW d \in SUBSET Contents, InHand(d) PROVE InHand(d)'
      <4>1. /\ Full => Covers(W, Shown, d)
            /\ ~stale => Clears(W, Texts, d) /\ Spared(W, d)
        BY <2>1, <2>3, <3>2 DEF InHand
      <4>2. (Full' => d \subseteq Shown') /\ (~stale' => Texts' \subseteq d /\ Coming' \subseteq d)
        <5>1. St = "delete"
          BY <2>1, <2>3, <3>2 DEF InHand
        <5> QED
          BY <1>1, <1>3, <2>1, <2>2, <3>1, <4>1, <5>1 DEF Covers, Clears, Spared, Shown
      <4> QED
        BY <2>1, <4>2, HandEmpty
    <3> QED
      BY <1>4, <2>1, <3>2
  <2>4. CASE Matches(W) # {}
    <3> DEFINE id == Min(Matches(W))
               x == rows[id].content
    <3>1. id \in Scope(rows, Agent) /\ x \in Hits(W) \cap Texts /\ rows' = Delete(rows, {id})
      BY <1>1, <1>7, <1>10, <2>1, <2>4 DEF DeleteRow
    <3>2. Texts' = Texts \ {x}
      BY <1>2, <3>1, DeleteFacts
    <3>3. Violates(rows, id, W.new) => W.new \in Texts /\ W.new # x
      <4>1. ASSUME NEW j \in DOMAIN rows \ {id}, rows[j].agent = rows[id].agent,
                   rows[j].content = W.new
            PROVE  W.new \in Texts /\ W.new # x
        <5>1. j \in Scope(rows, Agent) /\ j # id
          BY <3>1, <4>1 DEF Scope
        <5> QED
          BY <1>2, <3>1, <4>1, <5>1 DEF Unique, Texts, TextsOf
      <4> QED
        BY <4>1 DEF Violates
    <3>4. ASSUME NEW d \in SUBSET Contents, InHand(d) PROVE InHand(d)'
      <4>1. /\ Full => Covers(W, Shown, d)
            /\ ~stale => Clears(W, Texts, d) /\ Spared(W, d)
            /\ St = "duplicate" => Violates(rows, id, W.new)
        BY <2>1, <3>4 DEF InHand
      <4> HIDE DEF id, x
      <4>2. (Full' => d \subseteq Shown') /\ (~stale' => Texts' \subseteq d /\ Coming' \subseteq d)
        BY <1>1, <1>3, <2>1, <2>2, <3>1, <3>2, <3>3, <4>1 DEF Covers, Clears, Spared, Shown
      <4> QED
        BY <2>1, <4>2, HandEmpty
    <3> HIDE DEF id, x
    <3> QED
      BY <1>4, <2>1, <3>4
  <2> QED
    BY <2>3, <2>4
<1>11. CASE WorkerFails(sessions)
  <2>1. /\ W' = NoItem /\ St' = "get" /\ UNCHANGED <<rows, seq>> /\ Texts' = Texts
        /\ St \in {"add", "update", "duplicate", "delete"} /\ Dropped(W)
    BY <1>1, <1>11 DEF WorkerFails, table, Texts
  <2>2. /\ Full' => Full /\ W.action = "remove" /\ Owed' = Owed
        /\ ~stale' => ~stale /\ W.action = "add"
    BY <1>1, <2>1 DEF Dropped, Lose, Full, Owed
  <2>3. /\ W.action = "add" => St = "add"
        /\ W.action = "remove" => St # "add" /\ New(W) = {}
    BY <1>1, <2>1 DEF Staged, New
  <2>4. ASSUME NEW d \in SUBSET Contents, InHand(d) PROVE InHand(d)'
    <3>1. Full' => d \subseteq Shown'
      BY <2>1, <2>2, <2>3, <2>4 DEF InHand, Covers, Shown
    <3>2. ~stale' => Texts' \subseteq d /\ Coming' \subseteq d
      BY <1>1, <2>1, <2>2, <2>3, <2>4 DEF InHand, Spared
    <3> QED
      BY <2>1, <3>1, <3>2, HandEmpty
  <2> QED
    BY <1>1, <1>2, <2>2, <2>4, KeepChain
<1> QED
  BY <1>5, <1>6, <1>8, <1>9, <1>10, <1>11

LEMMA TakeStep ==
  ASSUME IInv, Take(sessions)
  PROVE  Mirrored'
<1>1. /\ sessions \in Writers /\ queue[sessions] \in Seq(Items) /\ queue[sessions] # <<>>
      /\ queue \in [Writers -> Seq(Items)] /\ item \in [Writers -> Items] /\ stage[sessions] = "get"
      /\ DOMAIN stage = Writers /\ Staged(sessions)
  BY DEF Take, IInv, Shape, TypeOK
<1>2. /\ UNCHANGED <<rows, disk, todo, existing, gap, missing, stale, call, sessions>>
      /\ queue'[sessions] = Tail(queue[sessions]) /\ item'[sessions] = Head(queue[sessions])
      /\ stage'[sessions] = FirstStage(Head(queue[sessions]))
  BY <1>1 DEF Take, table, rest, hook, import, counts, flags
<1>3. W = NoItem /\ St = "get" /\ W' = Head(queue[sessions]) /\ St' = FirstStage(Head(queue[sessions]))
  BY <1>1, <1>2 DEF W, St, Staged
<1>4. P # <<>> /\ P' = Tail(P) /\ Head(queue[sessions]) = P[1]
  <2> DEFINE q == queue[sessions]
  <2>1. q \in Seq(Items) /\ q # <<>> /\ queue'[sessions] = Tail(q)
    BY <1>1, <1>2
  <2>2. CASE call = <<>>
    BY <1>2, <2>1, <2>2 DEF P
  <2>3. CASE call # <<>>
    <3>1. call[1] \in Items
      BY <2>3 DEF IInv, Shape, TypeOK
    <3>2. P = Append(q, call[1]) /\ P' = Append(Tail(q), call[1])
      BY <1>2, <2>1, <2>3 DEF P
    <3> HIDE DEF q
    <3>3. Tail(Append(q, call[1])) = Append(Tail(q), call[1]) /\ Append(q, call[1]) # <<>>
          /\ Head(q) = Append(q, call[1])[1]
      BY <2>1, <3>1
    <3> QED
      BY <3>2, <3>3 DEF q
  <2> QED
    BY <2>2, <2>3
<1> QED
  BY <1>2, <1>3, <1>4, TakeChain DEF IInv

-----------------------------------------------------------------------------
(* initialize(), the import, shutdown() and the end of the process *)

(* Rows come with higher ids than those there are: the row that a write's  *)
(* statement works on stays the same.                                      *)
LEMMA LowestStays ==
  ASSUME Shape, NEW w, Matches(w) # {}, NEW text, NEW v,
         rows' = Insert(rows, seq, Agent, text, v), Violates(rows, Min(Matches(w)), w.new)
  PROVE  Matches(w)' # {} /\ Violates(rows, Min(Matches(w)), w.new)'
<1>1. /\ DOMAIN rows \subseteq 1..(seq - 1) /\ seq \in Nat \ {0}
  BY DEF Shape, TypeOK
<1>2. /\ DOMAIN rows \subseteq DOMAIN rows' /\ DOMAIN rows' \subseteq DOMAIN rows \cup {seq}
      /\ \A i \in DOMAIN rows : rows'[i] = rows[i]
  BY <1>1 DEF Insert
<1>3. /\ Matches(w) \subseteq DOMAIN rows /\ Matches(w) \subseteq Matches(w)'
      /\ Matches(w)' \subseteq Matches(w) \cup {seq}
  BY <1>2 DEF Matches, Exactly, Like, Scope
<1>4. Matches(w) \subseteq Nat /\ \A i \in Matches(w) : i < seq
  BY <1>1, <1>3
<1>5. Min(Matches(w)) \in Matches(w) /\ \A i \in Matches(w) : Min(Matches(w)) <= i
  BY <1>4, MinNat
<1>6. Min(Matches(w)') = Min(Matches(w))
  <2>1. Matches(w)' \subseteq Nat /\ Matches(w)' # {}
    BY <1>1, <1>3, <1>4
  <2>2. Min(Matches(w)') \in Matches(w)' /\ \A i \in Matches(w)' : Min(Matches(w)') <= i
    BY <2>1, MinNat
  <2>3. Min(Matches(w)') <= Min(Matches(w)) /\ Min(Matches(w)) <= Min(Matches(w)')
    BY <1>1, <1>3, <1>4, <1>5, <2>2
  <2> QED
    BY <1>1, <1>3, <1>4, <1>5, <2>1, <2>2, <2>3
<1>7. Min(Matches(w)) \in DOMAIN rows
  BY <1>3, <1>5
<1> QED
  BY <1>2, <1>3, <1>6, <1>7 DEF Violates

LEMMA InsertStep ==
  ASSUME IInv, NEW c \in Contents, ImportInserts(c)
  PROVE  Mirrored'
<1>1. /\ session = "import" /\ c \in todo /\ c \notin existing /\ todo' = todo \ {c}
      /\ UNCHANGED <<disk, call, queue, item, stage, sessions, existing, gap, missing, stale>>
      /\ \E v \in Contents \cup {Null} : InsertNew(c, {v})
  BY DEF ImportInserts, hook, worker, counts, flags
<1>2. PICK v \in Contents \cup {Null} :
        rows' = Insert(rows, seq, Agent, c, v) /\ seq' = IF rows' = rows THEN seq ELSE seq + 1
  BY <1>1 DEF InsertNew
<1>3. Texts' = Texts \cup {c}
  BY <1>2, InsertFacts DEF IInv, Shape
<1>4. /\ P' = P /\ W' = W /\ St' = St /\ Full' = Full /\ stale' = stale
      /\ c \in Coming /\ Coming' = Coming \ {c}
  BY <1>1 DEF P, W, St, Full, Coming
<1>5. Shown \subseteq Shown'
  BY <1>1, <1>3, <1>4 DEF Shown, Owed
<1>6. ASSUME NEW d \in SUBSET Contents, InHand(d) PROVE InHand(d)'
  <2>1. Hits(W)' = Hits(W) /\ New(W)' = New(W)
    BY <1>4 DEF Hits, New
  <2>2. St = "duplicate" => Matches(W)' # {} /\ Violates(rows, Min(Matches(W)), W.new)'
    <3>1. PICK w : w = W
      OBVIOUS
    <3>2. St = "duplicate" => Matches(w) # {} /\ Violates(rows, Min(Matches(w)), w.new)
      BY <1>6, <3>1 DEF InHand
    <3>3. St = "duplicate" => Matches(w)' # {} /\ Violates(rows, Min(Matches(w)), w.new)'
      BY <1>2, <3>2, LowestStays DEF IInv
    <3>4. w = W'
      BY <1>4, <3>1
    <3> QED
      BY <3>3, <3>4
  <2>3. ~stale => Spared(W, d) /\ c \in d /\ c \notin Hits(W)
    BY <1>4, <1>6 DEF InHand, Spared
  <2>4. Full' /\ St # "add" => Covers(W, Shown, d)'
    BY <1>4, <1>5, <1>6, <2>1 DEF InHand, Covers
  <2>5. ~stale' /\ St # "add" => Clears(W, Texts, d)'
    BY <1>3, <1>4, <1>6, <2>1, <2>3 DEF InHand, Clears
  <2>6. St = "add" => /\ Full' => d \subseteq Shown' \cup {W.new}
                      /\ ~stale' => Texts' \cup {W.new} \subseteq d
    BY <1>3, <1>4, <1>5, <1>6, <2>3 DEF InHand
  <2>7. ~stale' => Spared(W, d)'
    BY <1>4, <2>1, <2>3 DEF Spared
  <2> QED
    BY <1>4, <2>2, <2>4, <2>5, <2>6, <2>7 DEF InHand
<1> QED
  BY <1>1, <1>4, <1>6, KeepChain DEF IInv

(* The rest of the import, and the sessions' ends without a kill.          *)
LEMMA SessionStep ==
  ASSUME IInv, \/ InitializeBegins \/ NoImport \/ ReadExisting \/ ImportEnds \/ Shutdown
               \/ ReadFile /\ Pending
               \/ \E c \in Contents : ImportSkips(c) \/ ImportRejects(c)
  PROVE  Mirrored'
<1>1. /\ UNCHANGED <<rows, disk, call, queue, item, stage>> /\ Shape /\ Mirrored
      /\ missing \in BOOLEAN /\ gap \in BOOLEAN /\ stale \in BOOLEAN
  BY DEF InitializeBegins, NoImport, ReadFile, ReadExisting, ImportEnds, Shutdown,
         ImportSkips, ImportRejects, hook, worker, table, IInv, Shape, TypeOK
<1>2. ASSUME sessions' = sessions PROVE P' = P /\ W' = W /\ St' = St
  BY <1>1, <1>2 DEF P, W, St
<1>3. CASE InitializeBegins
  <2>1. /\ session = "down" /\ sessions' = sessions + 1 /\ UNCHANGED <<todo, existing, gap, missing, stale>>
        /\ sessions \in Writers /\ sessions + 1 \in Writers
    BY <1>3, MirrorAssumption DEF InitializeBegins, import, flags, IInv, Shape, TypeOK, Writers
  <2>2. CASE missing /\ gap /\ stale
    BY <2>1, <2>2, NothingPromised
  <2>3. CASE ~(missing /\ gap /\ stale)
    <3>1. Idle(sessions) /\ Idle(sessions + 1)
      BY <2>1, <2>3 DEF IInv, Behind
    <3>2. stage[sessions] = "get" /\ stage[sessions + 1] = "get"
      BY <2>1, <3>1, NothingInHand DEF IInv, Shape, Staged, Idle
    <3>3. P' = P /\ W' = W /\ St' = St
      BY <1>1, <2>1, <3>1, <3>2 DEF P, W, St, Idle
    <3> QED
      BY <1>1, <2>1, <3>3, QuietStep DEF Full, Owed, Coming
  <2> QED
    BY <2>2, <2>3
<1>4. CASE NoImport
  <2>1. session \in {"start", "read"} /\ todo' = {} /\ gap' = TRUE /\ UNCHANGED <<existing, missing, stale, sessions>>
    BY <1>4 DEF NoImport, counts
  <2>2. /\ Full' => Full /\ Owed \subseteq Owed'
        /\ Coming' \subseteq Coming
    BY <2>1 DEF Full, Owed, Coming
  <2> QED
    BY <1>1, <1>2, <2>1, <2>2, QuietStep
<1>5. CASE ReadFile /\ Pending
  <2>1. /\ session = "start" /\ sessions' = sessions /\ missing' = missing
        /\ gap' = Pending /\ stale' = (stale \/ Pending)
    BY <1>5 DEF ReadFile, counts
  <2>2. gap' /\ stale'
    BY <1>5, <2>1
  <2>3. Full' => Full /\ Owed \subseteq Owed'
    BY <2>1, <2>2 DEF Full, Owed
  <2> QED
    BY <1>1, <1>2, <2>1, <2>2, <2>3, QuietStep
<1>6. CASE ReadExisting
  <2>1. session = "read" /\ existing' = Texts /\ UNCHANGED <<todo, gap, missing, stale, sessions>>
    BY <1>6 DEF ReadExisting, counts, flags
  <2>2. existing = {} /\ Coming' = Coming \ Texts
    BY <2>1 DEF IInv, Shape, Around, Coming
  <2>3. \A d \in SUBSET Contents : InHand(d) => InHand(d)'
    <3>1. Texts' = Texts /\ Full' = Full /\ Shown \subseteq Shown' /\ stale' = stale
      BY <1>1, <2>1, <2>2 DEF Texts, Full, Shown, Owed
    <3>2. Matches(W)' = Matches(W) /\ Hits(W)' = Hits(W) /\ New(W)' = New(W) /\ W' = W /\ St' = St
      BY <1>1, <1>2, <2>1 DEF Matches, Hits, New
    <3> QED
      BY <1>1, <2>2, <3>1, <3>2 DEF InHand, Covers, Clears, Spared
  <2> QED
    BY <1>1, <1>2, <2>1, <2>2, <2>3, KeepChain DEF Full
<1>7. CASE ImportEnds
  <2>1. todo = {} /\ todo' = {} /\ missing' = (missing /\ gap) /\ gap' = TRUE /\ UNCHANGED <<stale, sessions>>
    BY <1>7 DEF ImportEnds, counts
  <2>2. /\ Full' => Full /\ Owed \subseteq Owed'
        /\ Coming' \subseteq Coming
    BY <1>1, <2>1 DEF Full, Owed, Coming
  <2> QED
    BY <1>1, <1>2, <2>1, <2>2, QuietStep
<1>8. CASE Shutdown
  <2>1. session = "up" /\ UNCHANGED <<todo, existing, sessions>>
    BY <1>8 DEF Shutdown, import, counts
  <2>2. Coming = {} /\ Coming' = {}
    BY <2>1 DEF IInv, Shape, Around, Coming
  <2>3. (Full' => Full) /\ (~stale' => ~stale)
    BY <1>1, <1>8 DEF Shutdown, Lose, Full
  <2> QED
    BY <1>1, <1>2, <2>1, <2>2, <2>3, QuietStep DEF Owed
<1>9. CASE \E c \in Contents : ImportSkips(c) \/ ImportRejects(c)
  <2>1. PICK c \in Contents : ImportSkips(c) \/ ImportRejects(c)
    BY <1>9
  <2>2. /\ todo' = todo \ {c} /\ UNCHANGED <<existing, missing, stale, sessions>>
        /\ (c \in existing /\ gap' = gap) \/ gap' = TRUE
    BY <2>1 DEF ImportSkips, ImportRejects, counts, flags
  <2>3. /\ Full' => Full /\ Owed \subseteq Owed'
        /\ Coming' \subseteq Coming
    BY <1>1, <2>2 DEF Full, Owed, Coming
  <2> QED
    BY <1>1, <1>2, <2>2, <2>3, QuietStep
<1> QED
  BY <1>3, <1>4, <1>5, <1>6, <1>7, <1>8, <1>9

(* With nothing on its way, the table mirrors the disk as far as nothing   *)
(* was lost.                                                               *)
LEMMA QuietFacts ==
  ASSUME Shape, Mirrored, ~Pending
  PROVE  /\ P = <<>> /\ W = NoItem /\ St = "get"
         /\ Full => disk \subseteq Shown
         /\ ~stale => Texts \subseteq disk
<1>1. P = <<>> /\ W = NoItem /\ St = "get"
  <2>1. sessions \in Writers /\ Staged(sessions)
    BY DEF Shape, TypeOK
  <2> QED
    BY <2>1, NothingInHand DEF Pending, Idle, P, W, St, Staged
<1>2. ASSUME Full \/ ~stale
      PROVE  /\ Full => disk \subseteq Shown
             /\ ~stale => Texts \subseteq disk
  <2>1. PICK D \in [0..Len(P) -> SUBSET Contents] : Chain(D)
    BY <1>2 DEF Mirrored
  <2>2. D[0] = disk /\ InHand(disk)
    BY <1>1, <2>1, Len(<<>>) = 0 DEF Chain
  <2> QED
    BY <1>1, <2>2 DEF InHand, Covers, Clears, Hits, New, NoItem, Item
<1> QED
  BY <1>1, <1>2

(* An import that reads the file with nothing on its way makes good what   *)
(* is missing from now on.                                                 *)
LEMMA ReadStep ==
  ASSUME IInv, ReadFile, ~Pending
  PROVE  Mirrored'
<1>1. /\ todo' = disk /\ missing' = missing /\ gap' = Pending /\ stale' = (stale \/ Pending)
      /\ UNCHANGED <<rows, disk, call, queue, item, stage, sessions, existing>> /\ session = "start"
  BY DEF ReadFile, table, hook, worker, counts
<1>2. existing' = {} /\ disk' \subseteq Contents /\ missing \in BOOLEAN
  BY <1>1 DEF IInv, Shape, Around, TypeOK
<1>3. P' = <<>> /\ W' = NoItem /\ St' = "get" /\ Texts' = Texts /\ Coming' = disk
  BY <1>1, <1>2, QuietFacts DEF IInv, P, W, St, Texts, Coming
<1>4. disk' \subseteq Shown'
  <2>1. CASE missing
    BY <1>1, <1>3, <2>1 DEF Shown, Owed
  <2>2. CASE ~missing
    <3>1. disk \subseteq Texts
      BY <2>2, QuietFacts DEF IInv, Full, Shown, Owed
    <3> QED
      BY <1>1, <1>3, <3>1 DEF Shown
  <2> QED
    BY <2>1, <2>2
<1>5. ~stale' => Texts' \subseteq disk'
  BY <1>1, <1>3, QuietFacts DEF IInv
<1> QED
  BY <1>1, <1>2, <1>3, <1>4, <1>5, EmptyChain

(* What is gone with the process: removals alone leave the table with more *)
(* than the disk, additions alone with less.                               *)
LEMMA KillStep ==
  ASSUME IInv, Kill
  PROVE  Mirrored'
<1> DEFINE gone == {call[i].action : i \in DOMAIN call} \cup {item[n].action : n \in Writers}
                   \cup UNION {{queue[n][i].action : i \in DOMAIN queue[n]} : n \in Writers}
<1>1. /\ UNCHANGED <<rows, disk, sessions>> /\ call' = <<>> /\ todo' = {} /\ existing' = {}
      /\ queue' = [n \in Writers |-> <<>>] /\ item' = [n \in Writers |-> NoItem]
      /\ stage' = [n \in Writers |-> "get"] /\ gap' = TRUE
      /\ missing' = (missing \/ gone \cap {"add", "replace"} # {})
      /\ stale' = (stale \/ gone \cap {"remove", "replace"} # {})
  BY DEF Kill, HookReturns, table, counts
<1>2. /\ Full' => Full /\ ~missing /\ gone \cap {"add", "replace"} = {}
      /\ ~stale' => ~stale /\ gone \cap {"remove", "replace"} = {}
  BY <1>1 DEF Full
<1>3. sessions \in Writers /\ Staged(sessions) /\ queue[sessions] \in Seq(Items)
  BY DEF IInv, Shape, TypeOK
<1>4. \A i \in 1..Len(P) : P[i].action \in {"add", "replace", "remove"} \cap gone
  <2>1. \A i \in 1..Len(P) : P[i].action \in {"add", "replace", "remove"}
    BY PresentFacts DEF IInv, Write
  <2>2. DOMAIN queue[sessions] = 1..Len(queue[sessions]) /\ Len(queue[sessions]) \in Nat
    BY <1>3
  <2>3. \A i \in DOMAIN queue[sessions] : queue[sessions][i].action \in gone
    BY <1>3
  <2>4. CASE call = <<>>
    BY <2>1, <2>2, <2>3, <2>4 DEF P
  <2>5. CASE call # <<>>
    <3>1. 1 \in DOMAIN call
      <4>1. call \in Seq(Items)
        BY DEF IInv, Shape, TypeOK
      <4> QED
        BY <2>5, <4>1
    <3>2. call[1].action \in gone
      BY <3>1
    <3> HIDE DEF gone
    <3>3. /\ P = Append(queue[sessions], call[1]) /\ Len(P) = Len(queue[sessions]) + 1
          /\ P[Len(P)] = call[1] /\ \A i \in 1..Len(queue[sessions]) : P[i] = queue[sessions][i]
      BY <1>3, <2>5 DEF P
    <3> QED
      BY <2>1, <2>2, <2>3, <3>2, <3>3
  <2> QED
    BY <2>4, <2>5
<1>5. W.action \in gone /\ (St = "get" => W = NoItem) /\ (St # "get" => Write(W))
  BY <1>3 DEF Staged, W, St
<1> HIDE DEF gone
<1>6. P' = <<>> /\ W' = NoItem /\ St' = "get" /\ Texts' = Texts /\ Coming' = {}
  BY <1>1, <1>3 DEF P, W, St, Texts, Coming
<1>7. ASSUME NEW D \in [0..Len(P) -> SUBSET Contents], Chain(D)
      PROVE  /\ InHand(D[0])
             /\ Full /\ Only("remove", 0, Len(P)) => disk \subseteq D[0]
             /\ ~stale /\ Only("add", 0, Len(P)) => D[0] \subseteq disk
  <2>1. Len(P) \in Nat
    BY PresentFacts DEF IInv
  <2>2. 0 \in 0..Len(P) /\ Len(P) \in 0..Len(P) /\ 0 <= Len(P)
    BY <2>1
  <2> QED
    BY <1>7, <2>2 DEF Chain
<1>8. Full' => disk \subseteq Texts
  <2> SUFFICES ASSUME Full' PROVE disk \subseteq Texts
    OBVIOUS
  <2>1. PICK D \in [0..Len(P) -> SUBSET Contents] : Chain(D)
    BY <1>2 DEF IInv, Mirrored
  <2>2. Only("remove", 0, Len(P))
    BY <1>2, <1>4 DEF Only
  <2>3. W.action \notin {"add", "replace"}
    BY <1>2, <1>5
  <2>4. St # "add" /\ New(W) = {}
    BY <1>3, <1>5, <2>3 DEF New, Staged, W, St, Write
  <2>5. D[0] \subseteq Shown /\ Shown = Texts
    BY <1>2, <1>7, <2>1, <2>4 DEF InHand, Covers, Shown, Owed
  <2> QED
    BY <1>2, <1>7, <2>1, <2>2, <2>5
<1>9. ~stale' => Texts \subseteq disk
  <2> SUFFICES ASSUME ~stale' PROVE Texts \subseteq disk
    OBVIOUS
  <2>1. PICK D \in [0..Len(P) -> SUBSET Contents] : Chain(D)
    BY <1>2 DEF IInv, Mirrored
  <2>2. Only("add", 0, Len(P))
    BY <1>2, <1>4 DEF Only
  <2>3. W.action \notin {"remove", "replace"}
    BY <1>2, <1>5
  <2>4. Texts \subseteq D[0]
    <3>1. CASE St = "get"
      <4>1. Clears(W, Texts, D[0])
        BY <1>2, <1>7, <2>1, <3>1 DEF InHand
      <4>2. Hits(W) = {}
        BY <1>5, <3>1 DEF Hits, NoItem, Item
      <4> QED
        BY <4>1, <4>2 DEF Clears
    <3>2. CASE St # "get"
      <4>1. St = "add"
        BY <1>3, <1>5, <2>3, <3>2 DEF IInv, Shape, Staged, TypeOK, Write, W, St
      <4> QED
        BY <1>2, <1>7, <2>1, <4>1 DEF InHand
    <3> QED
      BY <3>1, <3>2
  <2> QED
    BY <1>2, <1>7, <2>1, <2>2, <2>4
<1>10. disk' \subseteq Contents /\ disk' = disk
  BY <1>1 DEF IInv, Shape, TypeOK
<1> QED
  BY <1>6, <1>8, <1>9, <1>10, EmptyChain DEF Shown

-----------------------------------------------------------------------------
(* The inductive invariant *)

LEMMA InitIInv == Init => IInv
<1> SUFFICES ASSUME Init PROVE IInv
  OBVIOUS
<1>1. ASSUME NEW b \in Blank, rows = <<LegacyRow(b)>>
      PROVE  /\ DOMAIN rows = {1} /\ seq = 2 /\ rows[1] \in Row /\ Unique
  <2>1. DOMAIN rows = {1} /\ rows[1] = LegacyRow(b)
    BY <1>1
  <2>2. Cardinality(DOMAIN rows) = 1
    BY <2>1, FS_Singleton
  <2> QED
    BY <2>1, <2>2, RowsAssumption, MirrorAssumption DEF Init, LegacyRow, Row, Unique, Scope
<1>2. /\ DOMAIN rows \subseteq 1..(seq - 1) /\ \A i \in DOMAIN rows : rows[i] \in Row
      /\ seq \in Nat \ {0} /\ Unique /\ (~stale => Texts = {})
  <2>1. CASE rows = <<>>
    <3>1. DOMAIN rows = {} /\ seq = 1
      BY <2>1, FS_EmptySet DEF Init
    <3> QED
      BY <3>1 DEF Texts, TextsOf, Scope, Unique
  <2>2. CASE rows # <<>>
    <3>1. stale
      BY <2>2 DEF Init
    <3>2. PICK b \in Blank : rows = <<LegacyRow(b)>>
      BY <2>2 DEF Init
    <3> QED
      BY <1>1, <3>1, <3>2
  <2> QED
    BY <2>1, <2>2
<1>3. /\ call = <<>> /\ via = 0 /\ sessions = 0 /\ writes = 0 /\ session = "down"
      /\ todo = {} /\ existing = {} /\ breaker = 0 /\ gap = TRUE /\ disk \subseteq Contents \ Blank
      /\ queue = [n \in Writers |-> <<>>] /\ item = [n \in Writers |-> NoItem]
      /\ stage = [n \in Writers |-> "get"] /\ (~missing => disk = {})
  BY DEF Init
<1>4. 0 \in Writers /\ 0 \in 0..EmbedBreaker /\ 0 <= MaxQueue
  BY MirrorAssumption DEF Writers
<1>5. <<>> \in Seq(Items) /\ Len(<<>>) = 0 /\ DOMAIN <<>> = {}
  OBVIOUS
<1>6. \A n \in Writers : queue[n] = <<>> /\ item[n] = NoItem /\ stage[n] = "get"
  BY <1>3
<1>7. /\ queue \in [Writers -> Seq(Items)] /\ item \in [Writers -> Items]
      /\ stage \in [Writers -> {"get", "add", "update", "duplicate", "delete", "refuse"}]
  BY <1>3, <1>5, NothingInHand
<1>8. missing \in BOOLEAN /\ stale \in BOOLEAN
  BY Zenon DEF Init
<1>9. Shape
  <2>1. TypeOK
    BY <1>2, <1>3, <1>4, <1>5, <1>6, <1>7, <1>8 DEF TypeOK
  <2>2. \A n \in Writers : Staged(n)
    BY <1>5, <1>6 DEF Staged
  <2>3. Around
    BY <1>3, <1>5 DEF Around
  <2> QED
    BY <1>2, <2>1, <2>2, <2>3 DEF Shape
<1>10. Behind
  BY <1>3, <1>6 DEF Behind, Idle
<1>11. Mirrored
  <2>1. /\ P = <<>> /\ W = NoItem /\ St = "get" /\ Coming = {}
    BY <1>3, <1>4, <1>6 DEF P, W, St, Coming
  <2>2. Len(P) = 0 /\ 0..0 = {0} /\ 1..0 = {}
    BY <1>5, <2>1
  <2>3. PICK D \in [0..Len(P) -> SUBSET Contents] : D[0] = disk
    <3>1. [k \in 0..0 |-> disk] \in [0..Len(P) -> SUBSET Contents]
      BY <1>3, <2>2
    <3>2. [k \in 0..0 |-> disk][0] = disk
      OBVIOUS
    <3> QED
      BY <3>1, <3>2
  <2>4. InHand(D[0])
    BY <1>2, <1>3, <2>1, <2>3 DEF InHand, Covers, Clears, Spared, Hits, New, NoItem, Item, Full
  <2>5. Chain(D)
    BY <2>2, <2>3, <2>4 DEF Chain
  <2> QED
    BY <2>5 DEF Mirrored
<1> QED
  BY <1>9, <1>10, <1>11 DEF IInv

LEMMA IInvNext ==
  ASSUME IInv, Next
  PROVE  IInv'
<1>1. CASE \/ \E c \in Contents \ Blank : ToolAdd(c) \/ ToolRemove(c)
           \/ \E c, d \in Contents \ Blank : ToolReplace(c, d)
  <2>1. PICK c \in Contents \ Blank, d \in Contents \ Blank : ToolAdd(c) \/ ToolRemove(c) \/ ToolReplace(c, d)
    BY <1>1
  <2>2. Shape' /\ Mirrored'
    BY <2>1, ToolSteps
  <2> QED
    BY <2>2, BehindStep DEF IInv
<1>2. CASE HookReads \/ HookPuts
  BY <1>2, HookShape, HookStep, BehindStep DEF IInv
<1>3. CASE \E n \in Writers : Worker(n) \/ WorkerFails(n)
  <2>1. PICK n \in Writers : Worker(n) \/ WorkerFails(n)
    BY <1>3
  <2>2. Shape' /\ Behind'
    BY <2>1, WorkerShape, BehindStep DEF IInv
  <2>3. Mirrored'
    BY <2>1, OldWriterStep, WorkerStep, TakeStep DEF Worker
  <2> QED
    BY <2>2, <2>3 DEF IInv
<1>4. CASE \/ InitializeBegins \/ NoImport \/ ReadFile \/ ReadExisting \/ ImportEnds \/ Shutdown
           \/ \E c \in Contents : ImportSkips(c) \/ ImportInserts(c) \/ ImportRejects(c)
  <2>1. Shape' /\ Behind'
    BY <1>4, SessionShape, BehindStep DEF IInv
  <2>2. ReadFile => Mirrored'
    BY ReadStep, SessionStep
  <2>3. (\E c \in Contents : ImportInserts(c)) => Mirrored'
    BY InsertStep
  <2>4. \/ InitializeBegins \/ NoImport \/ ReadExisting \/ ImportEnds \/ Shutdown
        \/ \E c \in Contents : ImportSkips(c) \/ ImportRejects(c)
        => Mirrored'
    BY SessionStep
  <2>5. Mirrored'
    BY <1>4, <2>2, <2>3, <2>4
  <2> QED
    BY <2>1, <2>5 DEF IInv
<1>5. CASE Kill
  BY <1>5, KillShape, KillStep, BehindStep DEF IInv
<1> QED
  BY <1>1, <1>2, <1>3, <1>4, <1>5 DEF Next

LEMMA IInvStep == IInv /\ [Next]_vars => IInv'
<1> SUFFICES ASSUME IInv, [Next]_vars PROVE IInv'
  OBVIOUS
<1>1. CASE UNCHANGED vars
  <2>1. /\ UNCHANGED <<rows, seq, disk, call, via, queue, item, stage, session, todo, existing, breaker>>
        /\ UNCHANGED <<gap, missing, stale, writes, sessions>> /\ UNCHANGED worker
    BY <1>1 DEF vars, table, hook, worker, import, flags, counts
  <2>2. Shape'
    <3>1. (\A n \in Writers : Staged(n))'
      BY <2>1, ThreadsKept DEF IInv, Shape
    <3> QED
      BY <2>1, <3>1 DEF IInv, Shape, TypeOK, Around, Write, Unaimed, Unique
  <2>3. Behind'
    BY <2>1 DEF IInv, Behind, Idle
  <2>4. Mirrored'
    BY <2>1, QuietStep DEF IInv, P, W, St, Full, Owed, Coming
  <2> QED
    BY <2>2, <2>3, <2>4 DEF IInv
<1> QED
  BY <1>1, IInvNext

-----------------------------------------------------------------------------
(* What the mirror promises *)

(* Every behaviour of the mirror keeps the inductive invariant. *)
THEOREM Invariance == Spec => []IInv
BY InitIInv, IInvStep, PTL DEF Spec

(* Every variable keeps its type; ids are handed out once, and no queue    *)
(* ever outgrows write_queue_maxsize.                                      *)
THEOREM TypeCorrect == Spec => []TypeOK
BY Invariance, PTL DEF IInv, Shape

LEMMA Promises == IInv => NothingMissing /\ NothingStale
<1> SUFFICES ASSUME IInv, Quiet PROVE (~missing => disk \subseteq Texts) /\ (~stale => Texts \subseteq disk)
  BY DEF NothingMissing, NothingStale
<1>1. ~missing => Full /\ Shown = Texts
  BY DEF Full, Shown, Owed
<1> QED
  BY <1>1, QuietFacts DEF Quiet, IInv

(* Whatever sequence of adds, replaces and removes the built-in tool made, *)
(* and however they were aimed, before, beside and after imports, once     *)
(* nothing is on its way every entry of the disk is in the table, if no    *)
(* write was lost or left to a writer given up since the last whole        *)
(* import.                                                                 *)
THEOREM MirrorMissesNothing == Spec => []NothingMissing
BY Invariance, Promises, PTL

(* Once nothing is on its way the table holds nothing that the disk        *)
(* dropped, if no removal was lost, left behind or overtaken by an import: *)
(* a hint takes away the entry it was found in and no other, although rows *)
(* and disk have moved on since.                                           *)
THEOREM MirrorKeepsNothingStale == Spec => []NothingStale
BY Invariance, Promises, PTL

-----------------------------------------------------------------------------
(* For whoever shares the table with the mirror *)

(* Embedding a row in place tells the mirror nothing. *)
LEMMA EmbeddingStep ==
  ASSUME IInv, NEW id \in DOMAIN rows, NEW v \in Contents,
         rows' = [rows EXCEPT ![id].embedding = v],
         UNCHANGED <<seq, disk, hook, worker, session, import, flags, counts>>
  PROVE  IInv'
<1>1. /\ UNCHANGED <<seq, disk, call, via, queue, item, stage, session, todo, existing, breaker>>
      /\ UNCHANGED <<gap, missing, stale, writes, sessions>> /\ UNCHANGED worker
      /\ \A i \in DOMAIN rows : rows[i] \in Row
  BY DEF hook, worker, import, flags, counts, IInv, Shape, TypeOK
<1>2. /\ DOMAIN rows' = DOMAIN rows
      /\ \A i \in DOMAIN rows : /\ rows'[i] \in Row /\ rows'[i].agent = rows[i].agent
                               /\ rows'[i].content = rows[i].content
  <2>1. /\ DOMAIN rows' = DOMAIN rows /\ \A i \in DOMAIN rows \ {id} : rows'[i] = rows[i]
        /\ rows'[id] = [rows[id] EXCEPT !.embedding = v]
    OBVIOUS
  <2>2. rows[id] \in [agent : STRING, content : Contents, embedding : Contents \cup {Null}, edits : Nat]
    BY <1>1 DEF Row
  <2>3. rows'[id] = [agent |-> rows[id].agent, content |-> rows[id].content, embedding |-> v,
                     edits |-> rows[id].edits]
    BY <2>1, <2>2
  <2> QED
    BY <1>1, <2>1, <2>2, <2>3 DEF Row
<1>3. Scope(rows, Agent)' = Scope(rows, Agent)
  BY <1>2 DEF Scope
<1>4. \A i \in Scope(rows, Agent) : rows'[i].content = rows[i].content
  BY <1>2 DEF Scope
<1>5. Texts' = Texts
  BY <1>3, <1>4 DEF Texts, TextsOf
<1>6. /\ P' = P /\ W' = W /\ St' = St /\ Full' = Full /\ Shown' = Shown /\ Coming' = Coming
      /\ Hits(W)' = Hits(W) /\ New(W)' = New(W)
  BY <1>1, <1>5 DEF P, W, St, Full, Shown, Owed, Coming, Hits, New
<1>7. Matches(W)' = Matches(W)
  BY <1>3, <1>4, <1>6 DEF Matches, Exactly, Like
<1>8. Violates(rows, Min(Matches(W)), W.new) /\ Matches(W) # {} => Violates(rows, Min(Matches(W)), W.new)'
  <2> SUFFICES ASSUME Violates(rows, Min(Matches(W)), W.new), Matches(W) # {}
               PROVE  Violates(rows, Min(Matches(W)), W.new)'
    OBVIOUS
  <2>1. Matches(W) \subseteq Scope(rows, Agent)
    BY DEF Matches, Exactly, Like
  <2>2. Matches(W) \subseteq Nat /\ Matches(W) \subseteq DOMAIN rows
    BY <2>1 DEF Scope, IInv, Shape, TypeOK
  <2>3. Min(Matches(W)) \in DOMAIN rows
    BY <2>2, MinNat
  <2> QED
    BY <1>2, <1>6, <1>7, <2>3 DEF Violates
<1>9. \A d \in SUBSET Contents : InHand(d) => InHand(d)'
  BY <1>1, <1>5, <1>6, <1>7, <1>8 DEF InHand, Covers, Clears, Spared
<1>10. Mirrored'
  BY <1>1, <1>6, <1>9, KeepChain DEF IInv
<1>11. Shape'
  <2>1. TypeOK'
    BY <1>1, <1>2 DEF IInv, Shape, TypeOK
  <2>2. (\A n \in Writers : Staged(n))'
    BY <1>1, ThreadsKept DEF IInv, Shape
  <2>3. Around'
    BY <1>1 DEF IInv, Shape, Around, Write, Unaimed
  <2>4. Unique'
    BY <1>3, <1>4 DEF IInv, Shape, Unique
  <2> QED
    BY <2>1, <2>2, <2>3, <2>4 DEF Shape
<1>12. Behind'
  BY <1>1 DEF IInv, Behind, Idle
<1> QED
  BY <1>10, <1>11, <1>12 DEF IInv

=============================================================================
