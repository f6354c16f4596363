-------------------------- MODULE MemoryTableProofs --------------------------
(***************************************************************************)
(* Theorems about MemoryTable, for any rows, texts and page size: a sweep  *)
(* that ends by itself has healed what it found, embeddings belong to      *)
(* their texts, and the mirror keeps its promises while sweeps run.        *)
(***************************************************************************)
EXTENDS MemoryTable, TLAPS

(* The mirror with its theorems.  TableAssumption is what they assume.     *)
MP == INSTANCE MemoryMirrorProofs

(* A row that is as the sweep found it. *)
Untouched(i) == i \in DOMAIN rows /\ rows[i] = owed[i]

(* Where the sweep is.  No step but the last counts the failure that       *)
(* opens the breaker.                                                      *)
Cursor ==
  /\ bpc \in {"idle", "count"} => last_id = 0 /\ consecutive = 0
  /\ bpc # "final" => consecutive < MaxFailures
  /\ bpc \in {"row", "update"} <=> page # <<>>
  /\ bpc = "update" => last_id = page[1].id /\ vec = page[1].content
  /\ bpc = "count" => owed = <<>>

(* What the sweep found had text and no embedding.  Ids are not reused and *)
(* edits only count up, so that a row once touched stays touched.          *)
Found ==
  \A i \in DOMAIN owed :
    /\ owed[i] \in MP!Row /\ owed[i].embedding = Null /\ owed[i].content \notin Blank
    /\ i \in 1..(seq - 1)
    /\ i \in DOMAIN rows => owed[i].edits <= rows[i].edits

(* While no row failed, an untouched one is still to come.                 *)
Ahead(i) ==
  /\ bpc = "page" => last_id < i
  /\ bpc \in {"row", "update"} =>
       /\ (\E k \in DOMAIN page : page[k].id = i) \/ \A k \in DOMAIN page : page[k].id < i
       /\ \A k \in DOMAIN page : page[k].id = i => page[k].content = owed[i].content
  /\ bpc # "final"
  /\ ~(bpc = "idle" /\ exit \in {0, 3})
Pending == ~failed => \A i \in DOMAIN owed : Untouched(i) => Ahead(i)

SweepInv == Sweep!TypeOK /\ Cursor /\ Found /\ Pending

IInv == MP!IInv /\ EmbeddingMatchesContent /\ SweepInv

-----------------------------------------------------------------------------
(* MemoryTable's instance of the mirror and the one with theorems agree.   *)
LEMMA SameMirror == (Mirror!Init => MP!Init) /\ (Mirror!Next => MP!Next)
<1> USE DEF Mirror!NoText, Mirror!Item, Mirror!NoItem, Mirror!Writers, Mirror!Done, Mirror!Idle,
            Mirror!Lose, Mirror!Dropped, Mirror!HookReturns, Mirror!Unaimed, Mirror!Scope,
            Mirror!TextsOf, Mirror!Texts, Mirror!Coming, Mirror!Pending, Mirror!table,
            Mirror!hook, Mirror!worker, Mirror!import, Mirror!flags, Mirror!counts, Mirror!rest,
            MP!NoText, MP!Item, MP!NoItem, MP!Writers, MP!Done, MP!Idle, MP!Lose, MP!Dropped,
            MP!HookReturns, MP!Unaimed, MP!Scope, MP!TextsOf, MP!Texts, MP!Coming, MP!Pending,
            MP!table, MP!hook, MP!worker, MP!import, MP!flags, MP!counts, MP!rest
<1>1. ASSUME NEW S PROVE Mirror!Cardinality(S) = MP!Cardinality(S)
  BY DEF Mirror!Cardinality, MP!Cardinality
<1>2. Mirror!Init => MP!Init
  BY <1>1 DEF Mirror!Init, Mirror!LegacyRow, MP!Init, MP!LegacyRow
<1>3. ASSUME NEW w PROVE Mirror!FirstStage(w) = MP!FirstStage(w)
  BY DEF Mirror!FirstStage, MP!FirstStage
<1>4. ASSUME NEW w PROVE Mirror!Matches(w) = MP!Matches(w)
  BY DEF Mirror!Matches, Mirror!Exactly, Mirror!Like, MP!Matches, MP!Exactly, MP!Like
<1>5. ASSUME NEW c \in Contents
      PROVE  (Mirror!ToolAdd(c) => MP!ToolAdd(c)) /\ (Mirror!ToolRemove(c) => MP!ToolRemove(c))
  BY DEF Mirror!ToolAdd, Mirror!ToolRemove, Mirror!Tool, Mirror!Evidence, MP!ToolAdd,
         MP!ToolRemove, MP!Tool, MP!Evidence
<1>6. ASSUME NEW c \in Contents, NEW d \in Contents
      PROVE  Mirror!ToolReplace(c, d) => MP!ToolReplace(c, d)
  BY DEF Mirror!ToolReplace, Mirror!Tool, Mirror!Evidence, MP!ToolReplace, MP!Tool,
         MP!Evidence
<1>7. (Mirror!HookReads => MP!HookReads) /\ (Mirror!HookPuts => MP!HookPuts)
  BY DEF Mirror!HookReads, Mirror!HookPuts, MP!HookReads, MP!HookPuts
<1>8. ASSUME NEW n \in MP!Writers
      PROVE  (Mirror!Take(n) => MP!Take(n)) /\ (Mirror!Refuse(n) => MP!Refuse(n))
  BY <1>3 DEF Mirror!Take, Mirror!Refuse, MP!Take, MP!Refuse
<1>9. ASSUME NEW n \in MP!Writers PROVE Mirror!Add(n) => MP!Add(n)
  BY DEF Mirror!Add, Mirror!InsertNew, Mirror!Vectors, Mirror!Insert, MP!Add, MP!InsertNew,
         MP!Vectors, MP!Insert
<1>10. ASSUME NEW n \in MP!Writers
       PROVE  /\ Mirror!ReplaceRow(n) => MP!ReplaceRow(n)
              /\ Mirror!ReplaceNothing(n) => MP!ReplaceNothing(n)
              /\ Mirror!DeleteRow(n) => MP!DeleteRow(n)
              /\ Mirror!WorkerFails(n) => MP!WorkerFails(n)
  BY <1>4 DEF Mirror!ReplaceRow, Mirror!ReplaceNothing, Mirror!DeleteRow, Mirror!WorkerFails,
              Mirror!Violates, Mirror!Update, Mirror!Delete, Mirror!Vectors, Mirror!Min,
              MP!ReplaceRow, MP!ReplaceNothing, MP!DeleteRow, MP!WorkerFails, MP!Violates,
              MP!Update, MP!Delete, MP!Vectors, MP!Min
<1>11. ASSUME NEW c \in Contents
       PROVE  /\ Mirror!ImportSkips(c) => MP!ImportSkips(c)
              /\ Mirror!ImportInserts(c) => MP!ImportInserts(c)
              /\ Mirror!ImportRejects(c) => MP!ImportRejects(c)
  BY DEF Mirror!ImportSkips, Mirror!ImportInserts, Mirror!ImportRejects, Mirror!InsertNew,
         Mirror!Insert, MP!ImportSkips, MP!ImportInserts, MP!ImportRejects, MP!InsertNew,
         MP!Insert
<1>12. /\ Mirror!InitializeBegins => MP!InitializeBegins
       /\ Mirror!NoImport => MP!NoImport
       /\ Mirror!ReadFile => MP!ReadFile
       /\ Mirror!ReadExisting => MP!ReadExisting
       /\ Mirror!ImportEnds => MP!ImportEnds
       /\ Mirror!Shutdown => MP!Shutdown
       /\ Mirror!Kill => MP!Kill
  BY DEF Mirror!InitializeBegins, Mirror!NoImport, Mirror!ReadFile, Mirror!ReadExisting,
         Mirror!ImportEnds, Mirror!Shutdown, Mirror!Kill, MP!InitializeBegins, MP!NoImport,
         MP!ReadFile, MP!ReadExisting, MP!ImportEnds, MP!Shutdown, MP!Kill
<1>13. ASSUME NEW n \in MP!Writers PROVE Mirror!Worker(n) => MP!Worker(n)
  BY <1>8, <1>9, <1>10 DEF Mirror!Worker, MP!Worker
<1> QED
  BY <1>2, <1>5, <1>6, <1>7, <1>10, <1>11, <1>12, <1>13 DEF Mirror!Next, MP!Next

LEMMA Assumed == MP!RowsAssumption /\ MP!MirrorAssumption
BY TableAssumption DEF Mirror!RowsAssumption, MP!RowsAssumption, Mirror!MirrorAssumption,
                       MP!MirrorAssumption, Mirror!NoText, MP!NoText

(* A step of the mirror, or none, keeps what the mirror keeps. *)
LEMMA MirrorKeeps ==
  /\ Mirror!Init => MP!IInv
  /\ MP!IInv /\ Mirror!Next => MP!IInv'
  /\ MP!IInv /\ UNCHANGED <<rows, mirrorOnly>> => MP!IInv'
<1>1. UNCHANGED <<rows, mirrorOnly>> => UNCHANGED MP!vars
  BY DEF mirrorOnly, MP!vars, MP!table, MP!hook, MP!worker, MP!import, MP!flags, MP!counts
<1> QED
  BY <1>1, Assumed, SameMirror, MP!InitIInv, MP!IInvStep

-----------------------------------------------------------------------------
(* What other steps leave of the sweep's findings *)

(* Rows that appear are new, rows that change count an edit: an untouched  *)
(* row was untouched before.                                               *)
LEMMA MirrorTouches ==
  ASSUME MP!IInv, EmbeddingMatchesContent, Found, MP!Next, UNCHANGED owed
  PROVE  EmbeddingMatchesContent' /\ Found' /\ \A i \in DOMAIN owed : Untouched(i)' => Untouched(i)
<1>1. /\ \A i \in DOMAIN rows : rows[i] \in MP!Row
      /\ DOMAIN rows \subseteq 1..(seq - 1) /\ seq \in Nat \ {0}
  BY DEF MP!IInv, MP!Shape, MP!TypeOK
<1>2. \A i \in DOMAIN rows : rows[i].edits \in Nat
  BY <1>1 DEF MP!Row
<1>3. \A i \in DOMAIN owed : owed[i].edits \in Nat
  BY DEF Found, MP!Row
<1>4. CASE UNCHANGED <<rows, seq>>
  BY <1>4 DEF EmbeddingMatchesContent, Found, Untouched
<1>5. ASSUME NEW text \in Contents, NEW v \in {text, Null},
             rows' = MP!Insert(rows, seq, Agent, text, v),
             seq' = IF rows' = rows THEN seq ELSE seq + 1, rows' # rows
      PROVE  /\ EmbeddingMatchesContent' /\ Found'
             /\ \A i \in DOMAIN owed : Untouched(i)' => Untouched(i)
  <2>1. /\ DOMAIN rows' = DOMAIN rows \cup {seq} /\ seq' = seq + 1
        /\ rows'[seq].embedding = v /\ rows'[seq].content = text
        /\ \A i \in DOMAIN rows : rows'[i] = rows[i]
    <3>1. seq \notin DOMAIN rows
      BY <1>1
    <3> QED
      BY <1>5, <3>1 DEF MP!Insert
  <2>2. \A i \in DOMAIN owed : i # seq /\ i \in 1..(seq' - 1)
    BY <1>1, <2>1 DEF Found
  <2>3. EmbeddingMatchesContent'
    BY <2>1 DEF EmbeddingMatchesContent
  <2> QED
    BY <2>1, <2>2, <2>3 DEF Found, Untouched
<1>6. ASSUME NEW id \in MP!Scope(rows, Agent), NEW text \in Contents, NEW v \in {text, Null},
             rows' = MP!Update(rows, id, text, v), seq' = seq
      PROVE  /\ EmbeddingMatchesContent' /\ Found'
             /\ \A i \in DOMAIN owed : Untouched(i)' => Untouched(i)
  <2>0. id \in DOMAIN rows
    BY DEF MP!Scope
  <2>1. /\ DOMAIN rows' = DOMAIN rows /\ \A i \in DOMAIN rows \ {id} : rows'[i] = rows[i]
        /\ rows'[id] = [[[rows[id] EXCEPT !.content = text] EXCEPT !.embedding = v]
                          EXCEPT !.edits = @ + 1]
    BY <1>6, <2>0 DEF MP!Update
  <2>2. rows[id] \in [agent : STRING, content : Contents, embedding : Contents \cup {Null}, edits : Nat]
    BY <1>1, <2>0 DEF MP!Row
  <2>3. rows'[id] = [agent |-> rows[id].agent, content |-> text, embedding |-> v,
                     edits |-> rows[id].edits + 1]
    BY <2>1, <2>2
  <2>4. EmbeddingMatchesContent'
    <3>1. rows'[id].embedding = v /\ rows'[id].content = text /\ v \in {text, Null}
      BY <2>3
    <3>2. \A i \in DOMAIN rows \ {id} : rows'[i].embedding \in {Null, rows'[i].content}
      BY <2>1 DEF EmbeddingMatchesContent
    <3> QED
      BY <2>1, <3>1, <3>2 DEF EmbeddingMatchesContent
  <2>5. ASSUME NEW i \in DOMAIN owed
        PROVE  /\ i \in DOMAIN rows' => owed[i].edits <= rows'[i].edits
               /\ Untouched(i)' => Untouched(i)
    <3>1. CASE i = id
      <4>1. owed[i].edits < rows'[i].edits
        BY <1>2, <1>3, <2>0, <2>3, <3>1 DEF Found
      <4> QED
        BY <1>2, <1>3, <2>0, <2>3, <3>1, <4>1 DEF Untouched
    <3>2. CASE i # id
      BY <2>1, <3>2 DEF Found, Untouched
    <3> QED
      BY <3>1, <3>2
  <2> QED
    BY <1>6, <2>4, <2>5 DEF Found
<1>7. ASSUME NEW id \in MP!Scope(rows, Agent), rows' = MP!Delete(rows, {id}), seq' = seq
      PROVE  /\ EmbeddingMatchesContent' /\ Found'
             /\ \A i \in DOMAIN owed : Untouched(i)' => Untouched(i)
  BY <1>7 DEF MP!Delete, EmbeddingMatchesContent, Found, Untouched
<1>8. CASE rows' = rows /\ seq' = seq
  BY <1>4, <1>8
<1> QED
  BY <1>4, <1>5, <1>6, <1>7, <1>8, MP!RowSteps, Assumed DEF MP!IInv

LEMMA MirrorStep ==
  ASSUME IInv, Mirror!Next, UNCHANGED sweepOnly
  PROVE  IInv'
<1>1. MP!Next
  BY SameMirror
<1>2. UNCHANGED <<bpc, last_id, page, vec, failed, consecutive, exit, owed, sweeps>>
  BY DEF sweepOnly
<1>3. EmbeddingMatchesContent' /\ Found' /\ \A i \in DOMAIN owed : Untouched(i)' => Untouched(i)
  BY <1>1, <1>2, MirrorTouches DEF IInv, SweepInv
<1>4. Pending'
  BY <1>2, <1>3 DEF IInv, SweepInv, Pending, Ahead
<1>5. Sweep!TypeOK' /\ Cursor'
  BY <1>2 DEF IInv, SweepInv, Sweep!TypeOK, Cursor
<1> QED
  BY <1>3, <1>4, <1>5, MirrorKeeps DEF IInv, SweepInv

-----------------------------------------------------------------------------
(* The statements of the sweep *)

(* A page holds rows that were found, as they are, and leaves out only     *)
(* what comes after it; it is empty if nothing was found.                  *)
LEMMA FetchFacts ==
  ASSUME NEW found, found \subseteq DOMAIN rows, found \subseteq Nat \ {0},
         \A i \in DOMAIN rows : rows[i] \in MP!Row, NEW p \in Sweep!Fetch(found)
  PROVE  /\ p \in Seq([id : Nat \ {0}, content : Contents]) /\ Len(p) <= BatchSize
         /\ \A k \in DOMAIN p : p[k].id \in found /\ p[k].content = rows[p[k].id].content
         /\ \A i \in found : (\E k \in DOMAIN p : p[k].id = i) \/ \A k \in DOMAIN p : p[k].id < i
         /\ \A j, k \in DOMAIN p : j < k => p[j].id < p[k].id
         /\ p = <<>> => found = {}
<1>1. BatchSize \in Nat \ {0}
  BY TableAssumption DEF Sweep!BackfillAssumption
<1>2. PICK n \in 0..BatchSize : \E s \in [1..n -> found] :
        /\ p = Sweep!Page(s) /\ Sweep!Ascending(s)
        /\ \A i \in found : \/ \E k \in DOMAIN s : s[k] = i
                            \/ Len(s) = BatchSize /\ \A k \in DOMAIN s : s[k] < i
  BY DEF Sweep!Fetch
<1>3. PICK s \in [1..n -> found] :
        /\ p = Sweep!Page(s) /\ Sweep!Ascending(s)
        /\ \A i \in found : \/ \E k \in DOMAIN s : s[k] = i
                            \/ Len(s) = BatchSize /\ \A k \in DOMAIN s : s[k] < i
  BY <1>2
<1>4. n \in Nat /\ s \in Seq(found) /\ Len(s) = n /\ DOMAIN s = 1..n
  BY <1>1, <1>3
<1>5. p = [k \in 1..n |-> [id |-> s[k], content |-> rows[s[k]].content]]
  BY <1>3, <1>4 DEF Sweep!Page
<1>6. \A k \in 1..n : s[k] \in found /\ rows[s[k]].content \in Contents
  BY <1>3 DEF MP!Row
<1>7. \A k \in 1..n : [id |-> s[k], content |-> rows[s[k]].content] \in [id : Nat \ {0}, content : Contents]
  BY <1>6
<1>8. p \in Seq([id : Nat \ {0}, content : Contents]) /\ Len(p) = n /\ DOMAIN p = 1..n
  BY <1>4, <1>5, <1>7
<1>9. \A k \in 1..n : p[k].id = s[k] /\ p[k].content = rows[s[k]].content
  BY <1>5
<1>10. p = <<>> => found = {}
  <2> SUFFICES ASSUME p = <<>>, NEW i \in found PROVE FALSE
    OBVIOUS
  <2>1. n = 0
    BY <1>4, <1>8
  <2> QED
    BY <1>1, <1>3, <1>4, <2>1
<1>11. \A k \in DOMAIN p : p[k].id \in found /\ p[k].content = rows[p[k].id].content
  BY <1>6, <1>8, <1>9
<1>12. \A i \in found : (\E k \in DOMAIN p : p[k].id = i) \/ \A k \in DOMAIN p : p[k].id < i
  BY <1>3, <1>4, <1>8, <1>9
<1>13. \A j, k \in DOMAIN p : j < k => p[j].id < p[k].id
  BY <1>3, <1>4, <1>8, <1>9 DEF Sweep!Ascending
<1> QED
  BY <1>1, <1>8, <1>10, <1>11, <1>12, <1>13

(* Head and rest of a page that is being worked through. *)
LEMMA PageFacts ==
  ASSUME Sweep!TypeOK, page # <<>>
  PROVE  /\ Head(page) = page[1] /\ page[1].id \in Nat \ {0} /\ page[1].content \in Contents
         /\ Tail(page) \in Seq([id : Nat \ {0}, content : Contents]) /\ Len(Tail(page)) <= BatchSize
         /\ DOMAIN page = 1..Len(page) /\ 1 \in DOMAIN page
         /\ \A k \in DOMAIN Tail(page) : k + 1 \in DOMAIN page /\ Tail(page)[k] = page[k + 1]
         /\ \A k \in DOMAIN page \ {1} : k - 1 \in DOMAIN Tail(page) /\ Tail(page)[k - 1] = page[k]
<1> DEFINE T == [id : Nat \ {0}, content : Contents]
<1>1. page \in Seq(T) /\ Len(page) <= BatchSize /\ BatchSize \in Nat
  BY TableAssumption DEF Sweep!TypeOK, Sweep!BackfillAssumption
<1>2. \A t \in T : t.id \in Nat \ {0} /\ t.content \in Contents
  OBVIOUS
<1> HIDE DEF T
<1>3. /\ Len(page) \in Nat \ {0} /\ DOMAIN page = 1..Len(page) /\ Head(page) = page[1]
      /\ Tail(page) \in Seq(T) /\ Len(Tail(page)) = Len(page) - 1
      /\ \A k \in 1..(Len(page) - 1) : Tail(page)[k] = page[k + 1]
  BY <1>1
<1>4. DOMAIN Tail(page) = 1..(Len(page) - 1) /\ page[1] \in T
  BY <1>1, <1>3
<1> QED
  BY <1>1, <1>2, <1>3, <1>4 DEF T

(* A row is done with: the next one, or the next page, or the end.  An     *)
(* untouched row was not this one.                                         *)
LEMMA AdvanceFacts ==
  ASSUME SweepInv, bpc \in {"row", "update"}, NEW stop \in BOOLEAN, Sweep!Advance(stop),
         last_id' = page[1].id, UNCHANGED <<owed, exit, sweeps>>,
         consecutive' \in 0..MaxFailures, stop \/ consecutive' < MaxFailures, failed' \in BOOLEAN
  PROVE  /\ Sweep!TypeOK' /\ Cursor'
         /\ ~stop /\ ~failed =>
              \A i \in DOMAIN owed : Untouched(i) /\ i # page[1].id => Ahead(i)'
<1>1. page # <<>>
  BY DEF SweepInv, Cursor
<1>2. /\ vec' = Null
      /\ stop => page' = <<>> /\ bpc' = "final"
      /\ ~stop => page' = Tail(page) /\ bpc' = (IF page' = <<>> THEN "page" ELSE "row")
  BY DEF Sweep!Advance
<1>3. page' \in Seq([id : Nat \ {0}, content : Contents]) /\ Len(page') <= BatchSize
  <2>1. <<>> \in Seq([id : Nat \ {0}, content : Contents]) /\ Len(<<>>) <= BatchSize
    BY TableAssumption DEF Sweep!BackfillAssumption
  <2>2. Tail(page) \in Seq([id : Nat \ {0}, content : Contents]) /\ Len(Tail(page)) <= BatchSize
    BY <1>1, PageFacts DEF SweepInv
  <2>3. page' = <<>> \/ page' = Tail(page)
    BY <1>2
  <2> QED
    BY <2>1, <2>2, <2>3, Zenon
<1>4. Sweep!TypeOK'
  <2>1. /\ bpc' \in {"idle", "count", "page", "row", "update", "final"} /\ vec' \in Contents \cup {Null}
        /\ last_id' \in Nat /\ sweeps' \in Nat /\ exit' \in {Sweep!NoExit, 0, 1, 2, 3}
        /\ DOMAIN owed' \subseteq Nat \ {0}
    BY <1>1, <1>2, PageFacts DEF SweepInv, Sweep!TypeOK
  <2> QED
    BY <1>3, <2>1 DEF Sweep!TypeOK
<1>5. Cursor'
  BY <1>2 DEF Cursor
<1>6. ASSUME ~stop, ~failed, NEW i \in DOMAIN owed, Untouched(i), i # page[1].id
      PROVE  Ahead(i)'
  <2>1. /\ (\E k \in DOMAIN page : page[k].id = i) \/ \A k \in DOMAIN page : page[k].id < i
        /\ \A k \in DOMAIN page : page[k].id = i => page[k].content = owed[i].content
    BY <1>6 DEF SweepInv, Pending, Ahead
  <2>2. \A k \in DOMAIN page' : k + 1 \in DOMAIN page /\ page'[k] = page[k + 1]
    BY <1>1, <1>2, <1>6, PageFacts DEF SweepInv
  <2>3. CASE \E k \in DOMAIN page : page[k].id = i
    <3>1. PICK k \in DOMAIN page \ {1} : page[k].id = i
      BY <1>6, <2>3
    <3>2. page'[k - 1] = page[k] /\ k - 1 \in DOMAIN page'
      BY <1>1, <1>2, <1>6, <3>1, PageFacts DEF SweepInv
    <3>3. bpc' = "row"
      BY <1>2, <1>6, <3>2
    <3> QED
      BY <2>1, <2>2, <3>1, <3>2, <3>3 DEF Ahead
  <2>4. CASE \A k \in DOMAIN page : page[k].id < i
    <3>1. page[1].id < i
      BY <1>1, <2>4, PageFacts DEF SweepInv
    <3> QED
      BY <1>2, <1>6, <2>1, <2>2, <2>4, <3>1 DEF Ahead
  <2> QED
    BY <2>1, <2>3, <2>4
<1> QED
  BY <1>4, <1>5, <1>6

(* The sweep's UPDATE touches a row that is still what the page said, and  *)
(* nobody else.                                                            *)
LEMMA UpdateStep ==
  ASSUME IInv, Sweep!UpdateRow, UNCHANGED mirrorOnly
  PROVE  IInv'
<1>1. /\ bpc = "update" /\ page # <<>> /\ last_id = page[1].id /\ vec = page[1].content
      /\ Sweep!TypeOK /\ Head(page) = page[1] /\ vec \in Contents
  BY PageFacts DEF Sweep!UpdateRow, IInv, SweepInv, Cursor
<1>2. /\ rows' = IF /\ page[1].id \in DOMAIN rows /\ rows[page[1].id].embedding = Null
                    /\ rows[page[1].id].content = page[1].content
                 THEN [rows EXCEPT ![page[1].id].embedding = vec] ELSE rows
      /\ consecutive' = 0 /\ Sweep!Advance(FALSE)
      /\ UNCHANGED <<last_id, failed, exit, owed, sweeps>>
  BY <1>1 DEF Sweep!UpdateRow
<1>3. MaxFailures \in Nat \ {0} /\ Null \notin Contents
  BY TableAssumption DEF Sweep!BackfillAssumption, Mirror!RowsAssumption
<1>4. Sweep!TypeOK' /\ Cursor'
      /\ (~failed => \A i \in DOMAIN owed : Untouched(i) /\ i # page[1].id => Ahead(i)')
  <2>1. /\ consecutive' \in 0..MaxFailures /\ consecutive' < MaxFailures /\ failed' \in BOOLEAN
        /\ last_id' = page[1].id
    BY <1>1, <1>2, <1>3 DEF Sweep!TypeOK
  <2> QED
    BY <1>1, <1>2, <2>1, AdvanceFacts DEF IInv, SweepInv
<1>5. CASE rows' = rows
  <2>1. MP!IInv' /\ EmbeddingMatchesContent' /\ Found'
    <3>1. seq' = seq
      BY DEF mirrorOnly
    <3> QED
      BY <1>2, <1>5, <3>1, MirrorKeeps DEF IInv, SweepInv, EmbeddingMatchesContent, Found
  <2>2. ASSUME ~failed, NEW i \in DOMAIN owed, Untouched(i) PROVE Ahead(i)'
    <3>1. i # page[1].id
      <4> SUFFICES ASSUME i = page[1].id PROVE FALSE
        OBVIOUS
      <4>1. i \in DOMAIN rows /\ rows[i].embedding = Null /\ rows[i].content = owed[i].content
        BY <2>2 DEF Untouched, IInv, SweepInv, Found
      <4>2. page[1].content = owed[i].content
        BY <1>1, <2>2, PageFacts DEF IInv, SweepInv, Pending, Ahead
      <4>3. rows' = [rows EXCEPT ![i].embedding = vec]
        BY <1>2, <4>1, <4>2
      <4>4. rows'[i].embedding = vec
        <5>1. rows[i] \in [agent : STRING, content : Contents, embedding : Contents \cup {Null}, edits : Nat]
          BY <4>1 DEF IInv, MP!IInv, MP!Shape, MP!TypeOK, MP!Row
        <5> QED
          BY <4>1, <4>3, <5>1
      <4> QED
        BY <1>1, <1>3, <1>5, <4>1, <4>4
    <3> QED
      BY <1>4, <2>2, <3>1
  <2> QED
    BY <1>2, <1>4, <1>5, <2>1, <2>2 DEF IInv, SweepInv, Pending, Untouched
<1>6. CASE rows' # rows
  <2>1. /\ page[1].id \in DOMAIN rows /\ rows[page[1].id].content = vec
        /\ rows' = [rows EXCEPT ![page[1].id].embedding = vec]
    BY <1>1, <1>2, <1>6
  <2>2. MP!IInv'
    BY <1>1, <2>1, MP!EmbeddingStep, Assumed DEF IInv, mirrorOnly, MP!hook, MP!worker, MP!import, MP!flags, MP!counts
  <2>3. /\ DOMAIN rows' = DOMAIN rows /\ rows'[page[1].id].embedding = vec
        /\ rows'[page[1].id].content = vec /\ rows'[page[1].id].edits = rows[page[1].id].edits
        /\ \A i \in DOMAIN rows \ {page[1].id} : rows'[i] = rows[i]
    <3>1. rows[page[1].id] \in [agent : STRING, content : Contents, embedding : Contents \cup {Null}, edits : Nat]
      BY <2>1 DEF IInv, MP!IInv, MP!Shape, MP!TypeOK, MP!Row
    <3> QED
      BY <2>1, <3>1
  <2>4. EmbeddingMatchesContent'
    BY <2>3 DEF IInv, EmbeddingMatchesContent
  <2>5. Found'
    BY <1>2, <2>3 DEF IInv, SweepInv, Found, mirrorOnly
  <2>6. ASSUME NEW i \in DOMAIN owed, Untouched(i)' PROVE Untouched(i) /\ i # page[1].id
    <3>1. i \in DOMAIN rows /\ rows'[i] = owed[i] /\ owed[i].embedding = Null
      BY <1>2, <2>3, <2>6 DEF Untouched, IInv, SweepInv, Found
    <3>2. i # page[1].id
      BY <1>1, <1>3, <2>3, <3>1
    <3> QED
      BY <2>3, <3>1, <3>2 DEF Untouched
  <2> QED
    BY <1>2, <1>4, <2>2, <2>4, <2>5, <2>6 DEF IInv, SweepInv, Pending
<1> QED
  BY <1>5, <1>6

(* A row that cannot be embedded is reported and left behind. *)
LEMMA FailStep ==
  ASSUME SweepInv, Sweep!SkipUndecodable \/ Sweep!RowFails, UNCHANGED seq
  PROVE  SweepInv'
<1>1. page # <<>> /\ Head(page) = page[1] /\ bpc \in {"row", "update"} /\ Sweep!TypeOK
  BY PageFacts DEF SweepInv, Cursor, Sweep!SkipUndecodable, Sweep!RowFails
<1>2. PICK stop \in BOOLEAN :
        /\ Sweep!Advance(stop) /\ last_id' = page[1].id /\ failed' = TRUE
        /\ UNCHANGED <<rows, owed, exit, sweeps>>
        /\ consecutive' \in 0..MaxFailures /\ (stop \/ consecutive' < MaxFailures)
  <2>1. consecutive \in Nat /\ consecutive < MaxFailures /\ MaxFailures \in Nat
    BY <1>1, TableAssumption DEF SweepInv, Sweep!TypeOK, Cursor, Sweep!BackfillAssumption
  <2>2. CASE Sweep!SkipUndecodable
    <3>1. /\ Sweep!Advance(FALSE) /\ last_id' = page[1].id /\ failed' = TRUE
          /\ UNCHANGED <<rows, owed, exit, sweeps, consecutive>>
      BY <1>1, <2>2 DEF Sweep!SkipUndecodable
    <3>2. consecutive' \in 0..MaxFailures /\ consecutive' < MaxFailures
      BY <2>1, <3>1
    <3> QED
      BY <3>1, <3>2
  <2>3. CASE Sweep!RowFails
    <3>1. /\ last_id' = page[1].id /\ failed' = TRUE /\ consecutive' = consecutive + 1
          /\ UNCHANGED <<rows, owed, exit, sweeps>>
      BY <1>1, <2>3 DEF Sweep!RowFails
    <3>2. consecutive' \in 0..MaxFailures
      BY <2>1, <3>1
    <3>3. CASE consecutive' >= MaxFailures
      <4>1. Sweep!Advance(TRUE)
        BY <2>3, <3>3 DEF Sweep!RowFails, Sweep!Advance
      <4> QED
        BY <3>1, <3>2, <4>1
    <3>4. CASE ~(consecutive' >= MaxFailures)
      <4>1. Sweep!Advance(FALSE)
        BY <2>3, <3>4 DEF Sweep!RowFails, Sweep!Advance
      <4>2. consecutive' < MaxFailures
        BY <2>1, <3>1, <3>4
      <4> QED
        BY <3>1, <3>2, <4>1, <4>2
    <3> QED
      BY <3>3, <3>4
  <2> QED
    BY <2>2, <2>3
<1>3. Sweep!TypeOK' /\ Cursor'
  BY <1>1, <1>2, AdvanceFacts
<1>4. Found' /\ Pending'
  BY <1>2 DEF SweepInv, Found, Pending
<1> QED
  BY <1>3, <1>4 DEF SweepInv

(* The steps that leave the table alone. *)
LEMMA ReadStep ==
  ASSUME IInv, UNCHANGED seq,
         \/ Sweep!Probe \/ Sweep!CountTextOnly \/ Sweep!SelectPage \/ Sweep!Embed
         \/ Sweep!Finish \/ Sweep!Dies
  PROVE  SweepInv'
<1>1. /\ Sweep!TypeOK /\ Cursor /\ Found /\ Pending /\ \A i \in DOMAIN rows : rows[i] \in MP!Row
      /\ DOMAIN rows \subseteq 1..(seq - 1) /\ seq \in Nat
  BY DEF IInv, SweepInv, MP!IInv, MP!Shape, MP!TypeOK
<1>2. MaxFailures \in Nat \ {0} /\ BatchSize \in Nat \ {0}
  BY TableAssumption DEF Sweep!BackfillAssumption
<1>3. <<>> \in Seq([id : Nat \ {0}, content : Contents]) /\ Len(<<>>) <= BatchSize /\ DOMAIN <<>> = {}
  BY <1>2
<1>4. ASSUME NEW code \in {0, 1, 2, 3}, Sweep!Ends(code), UNCHANGED rows, failed' \in BOOLEAN,
             sweeps' \in Nat, UNCHANGED owed \/ owed' = <<>>,
             code \in {0, 3} => bpc = "final" /\ UNCHANGED <<failed, owed>>
      PROVE  SweepInv'
  <2>1. /\ bpc' = "idle" /\ exit' = code /\ last_id' = 0 /\ page' = <<>> /\ vec' = Null
        /\ consecutive' = 0
    BY <1>4 DEF Sweep!Ends
  <2>2. DOMAIN owed' \subseteq DOMAIN owed /\ \A i \in DOMAIN owed' : owed'[i] = owed[i]
    BY <1>3, <1>4
  <2>3. Sweep!TypeOK'
    BY <1>1, <1>2, <1>3, <1>4, <2>1, <2>2 DEF Sweep!TypeOK
  <2>4. Cursor'
    BY <1>2, <2>1 DEF Cursor
  <2>5. Found'
    BY <1>1, <1>4, <2>2 DEF Found
  <2>6. Pending'
    BY <1>1, <1>4, <2>1, <2>2 DEF Pending, Ahead, Untouched
  <2> QED
    BY <2>3, <2>4, <2>5, <2>6 DEF SweepInv
<1>5. CASE Sweep!Probe
  <2>1. sweeps' \in Nat /\ failed' \in BOOLEAN
    <3>1. sweeps \in Nat /\ sweeps' = sweeps + 1
      BY <1>1, <1>5 DEF Sweep!TypeOK, Sweep!Probe
    <3>2. failed' \in BOOLEAN
      BY <1>5, Zenon DEF Sweep!Probe
    <3> QED
      BY <3>1, <3>2
  <2>2. ASSUME NEW code \in {1, 2}, Sweep!Ends(code) PROVE SweepInv'
    <3>1. owed' = <<>> /\ UNCHANGED rows
      BY <1>5 DEF Sweep!Probe
    <3> QED
      BY <1>4, <2>1, <2>2, <3>1
  <2>3. CASE bpc' = "count" /\ exit' = Sweep!NoExit /\ UNCHANGED <<last_id, page, vec, consecutive>>
    <3>1. /\ bpc = "idle" /\ failed' = FALSE /\ owed' = <<>> /\ sweeps' = sweeps + 1
          /\ DOMAIN owed' = {} /\ UNCHANGED rows
      BY <1>3, <1>5 DEF Sweep!Probe
    <3>2. Sweep!TypeOK'
      <4>1. /\ bpc' \in {"idle", "count", "page", "row", "update", "final"} /\ failed' \in BOOLEAN
            /\ sweeps' \in Nat /\ exit' \in {Sweep!NoExit, 0, 1, 2, 3} /\ DOMAIN owed' \subseteq Nat \ {0}
        BY <2>1, <2>3, <3>1
      <4> QED
        BY <1>1, <2>3, <4>1 DEF Sweep!TypeOK
    <3>3. Cursor'
      BY <1>1, <2>3, <3>1 DEF Cursor
    <3> QED
      BY <3>1, <3>2, <3>3 DEF SweepInv, Found, Pending
  <2> QED
    BY <1>5, <2>2, <2>3 DEF Sweep!Probe
<1>6. CASE Sweep!CountTextOnly
  <2>1. /\ bpc = "count" /\ bpc' = "page" /\ owed' = [i \in Sweep!TextOnly(rows, 0) |-> rows[i]]
        /\ UNCHANGED <<rows, last_id, page, vec, failed, consecutive, exit, sweeps>>
        /\ last_id = 0 /\ page = <<>>
    BY <1>1, <1>6 DEF Sweep!CountTextOnly, Cursor
  <2>2. /\ DOMAIN owed' = Sweep!TextOnly(rows, 0)
        /\ \A i \in DOMAIN owed' : /\ owed'[i] = rows[i] /\ i \in DOMAIN rows /\ i \in Nat \ {0}
                                   /\ rows[i].embedding = Null /\ rows[i].content \notin Blank
    BY <1>1, <2>1 DEF Sweep!TextOnly
  <2>3. Sweep!TypeOK'
    BY <1>1, <2>1, <2>2 DEF Sweep!TypeOK
  <2>4. Cursor'
    BY <1>1, <2>1 DEF Cursor
  <2>5. Found'
    BY <1>1, <2>1, <2>2 DEF Found, MP!Row
  <2>6. Pending'
    BY <2>1, <2>2 DEF Pending, Ahead
  <2> QED
    BY <2>3, <2>4, <2>5, <2>6 DEF SweepInv
<1>7. CASE Sweep!SelectPage
  <2> DEFINE found == Sweep!TextOnly(rows, last_id)
  <2>1. /\ bpc = "page" /\ page' \in Sweep!Fetch(found)
        /\ bpc' = (IF page' = <<>> THEN "final" ELSE "row")
        /\ UNCHANGED <<rows, last_id, vec, failed, consecutive, exit, owed, sweeps>>
    BY <1>7 DEF Sweep!SelectPage
  <2>2. found \subseteq DOMAIN rows /\ found \subseteq Nat \ {0}
    BY <1>1 DEF Sweep!TextOnly
  <2>3. ASSUME NEW i \in DOMAIN owed, Untouched(i), last_id < i PROVE i \in found
    BY <1>1, <2>3 DEF Sweep!TextOnly, Untouched, Found
  <2> HIDE DEF found
  <2>4. /\ page' \in Seq([id : Nat \ {0}, content : Contents]) /\ Len(page') <= BatchSize
        /\ \A k \in DOMAIN page' : page'[k].id \in found /\ page'[k].content = rows[page'[k].id].content
        /\ \A i \in found : (\E k \in DOMAIN page' : page'[k].id = i) \/ \A k \in DOMAIN page' : page'[k].id < i
        /\ page' = <<>> => found = {}
    BY <1>1, <2>1, <2>2, FetchFacts
  <2>5. Sweep!TypeOK'
    BY <1>1, <2>1, <2>4 DEF Sweep!TypeOK
  <2>6. Cursor'
    BY <1>1, <2>1 DEF Cursor
  <2>7. ASSUME ~failed, NEW i \in DOMAIN owed, Untouched(i) PROVE Ahead(i)'
    <3>1. i \in found
      BY <1>1, <2>1, <2>3, <2>7 DEF Pending, Ahead
    <3>2. page' # <<>> /\ bpc' = "row"
      BY <2>1, <2>4, <3>1
    <3>3. rows[i] = owed[i]
      BY <2>7 DEF Untouched
    <3> QED
      BY <2>1, <2>4, <3>1, <3>2, <3>3 DEF Ahead
  <2> QED
    BY <1>1, <2>1, <2>5, <2>6, <2>7 DEF SweepInv, Found, Pending, Untouched
<1>8. CASE Sweep!Embed
  <2>1. page # <<>> /\ Head(page) = page[1] /\ page[1].id \in Nat /\ page[1].content \in Contents
    BY <1>1, <1>8, PageFacts DEF Sweep!Embed, Cursor
  <2>2. /\ bpc = "row" /\ bpc' = "update" /\ last_id' = page[1].id /\ vec' = page[1].content
        /\ UNCHANGED <<rows, page, failed, consecutive, exit, owed, sweeps>>
    BY <1>8, <2>1 DEF Sweep!Embed
  <2>3. Sweep!TypeOK' /\ Cursor'
    BY <1>1, <2>1, <2>2 DEF Sweep!TypeOK, Cursor
  <2> QED
    BY <1>1, <2>2, <2>3 DEF SweepInv, Found, Pending, Ahead, Untouched
<1>9. CASE Sweep!Finish
  <2>1. PICK code \in {0, 2, 3} : Sweep!Ends(code)
    BY <1>9 DEF Sweep!Finish
  <2> QED
    BY <1>1, <1>4, <1>9, <2>1 DEF Sweep!Finish, Sweep!TypeOK
<1>10. CASE Sweep!Dies
  BY <1>1, <1>4, <1>10 DEF Sweep!Dies, Sweep!TypeOK
<1> QED
  BY <1>5, <1>6, <1>7, <1>8, <1>9, <1>10

-----------------------------------------------------------------------------
(* What the table promises *)

LEMMA InitIInv == Init => IInv
<1> SUFFICES ASSUME Init PROVE IInv
  OBVIOUS
<1>1. MP!IInv /\ Mirror!Init
  BY MirrorKeeps DEF Init
<1>2. EmbeddingMatchesContent
  <2>1. CASE rows = <<>>
    BY <2>1 DEF EmbeddingMatchesContent
  <2>2. ASSUME NEW b \in Blank, rows = <<Mirror!LegacyRow(b)>> PROVE EmbeddingMatchesContent
    BY <2>2 DEF EmbeddingMatchesContent, Mirror!LegacyRow
  <2> QED
    BY <1>1, <2>1, <2>2 DEF Mirror!Init
<1>3. /\ bpc = "idle" /\ last_id = 0 /\ page = <<>> /\ vec = Null /\ failed = FALSE
      /\ consecutive = 0 /\ exit = Sweep!NoExit /\ owed = <<>> /\ sweeps = 0 /\ DOMAIN owed = {}
  BY DEF Init, Sweep!Init
<1>4. MaxFailures \in Nat \ {0} /\ BatchSize \in Nat \ {0}
  BY TableAssumption DEF Sweep!BackfillAssumption
<1>5. <<>> \in Seq([id : Nat \ {0}, content : Contents]) /\ Len(<<>>) <= BatchSize
  BY <1>4
<1>6. Sweep!TypeOK
  <2>1. /\ bpc \in {"idle", "count", "page", "row", "update", "final"} /\ failed \in BOOLEAN
        /\ sweeps \in Nat /\ exit \in {Sweep!NoExit, 0, 1, 2, 3} /\ DOMAIN owed \subseteq Nat \ {0}
        /\ last_id \in Nat /\ vec \in Contents \cup {Null}
    BY <1>3
  <2>2. consecutive \in 0..MaxFailures
    BY <1>3, <1>4
  <2> QED
    BY <1>3, <1>5, <2>1, <2>2 DEF Sweep!TypeOK
<1>7. Cursor
  BY <1>3, <1>4 DEF Cursor
<1> QED
  BY <1>1, <1>2, <1>3, <1>6, <1>7 DEF IInv, SweepInv, Found, Pending

LEMMA IInvStep == IInv /\ [Next]_vars => IInv'
<1> SUFFICES ASSUME IInv, [Next]_vars PROVE IInv'
  OBVIOUS
<1>1. CASE UNCHANGED vars
  <2>1. UNCHANGED <<rows, mirrorOnly>> /\ UNCHANGED sweepOnly
    BY <1>1 DEF vars
  <2>2. MP!IInv'
    BY <2>1, MirrorKeeps DEF IInv
  <2>3. EmbeddingMatchesContent'
    BY <2>1 DEF IInv, EmbeddingMatchesContent
  <2>4. SweepInv'
    BY <2>1 DEF IInv, SweepInv, Sweep!TypeOK, Cursor, Found, Pending, Ahead, Untouched, mirrorOnly,
                sweepOnly
  <2> QED
    BY <2>2, <2>3, <2>4 DEF IInv
<1>2. CASE Mirror!Next /\ UNCHANGED sweepOnly
  BY <1>2, MirrorStep
<1>3. CASE Sweep!Next /\ UNCHANGED mirrorOnly
  <2>1. UNCHANGED seq
    BY <1>3 DEF mirrorOnly
  <2>2. CASE Sweep!UpdateRow
    BY <1>3, <2>2, UpdateStep
  <2>3. CASE ~Sweep!UpdateRow
    <3>1. UNCHANGED rows
      BY <1>3, <2>3 DEF Sweep!Next, Sweep!Step, Sweep!Probe, Sweep!Dies, Sweep!CountTextOnly,
                        Sweep!SelectPage, Sweep!SkipUndecodable, Sweep!Embed, Sweep!RowFails,
                        Sweep!Finish
    <3>2. SweepInv'
      BY <1>3, <2>1, <2>3, ReadStep, FailStep DEF Sweep!Next, Sweep!Step, IInv
    <3> QED
      BY <1>3, <3>1, <3>2, MirrorKeeps DEF IInv, EmbeddingMatchesContent
  <2> QED
    BY <2>2, <2>3
<1> QED
  BY <1>1, <1>2, <1>3 DEF Next

(* Every behaviour of the two processes keeps the inductive invariant. *)
THEOREM Invariance == Spec => []IInv
BY InitIInv, IInvStep, PTL DEF Spec

(* Every variable keeps its type: a page holds batch_size rows at most and *)
(* the breaker never counts past max_consecutive_failures.                 *)
THEOREM TypeCorrect == Spec => []TypeOK
<1>1. MP!TypeOK => Mirror!TypeOK
  BY DEF MP!TypeOK, Mirror!TypeOK, MP!Row, Mirror!Row, MP!NoText, Mirror!NoText,
         MP!Items, Mirror!Items, MP!Writers, Mirror!Writers
<1>2. IInv => TypeOK
  BY <1>1 DEF IInv, MP!IInv, MP!Shape, SweepInv, TypeOK
<1> QED
  BY <1>2, Invariance, PTL

(* An embedding is that of the row's text, whatever a replace() does       *)
(* between the sweep's SELECT and its UPDATE.                              *)
THEOREM EmbeddingsMatch == Spec => []EmbeddingMatchesContent
BY Invariance, PTL DEF IInv

(* A sweep that ends by itself with no failed row has embedded every row   *)
(* it found text-only, or somebody else touched it: no LIMIT, no write     *)
(* between two pages and no order of ids hides a row.                      *)
THEOREM SweepHeals == Spec => []SweepHealsWhatItFound
<1>1. IInv => SweepHealsWhatItFound
  BY DEF IInv, SweepInv, Pending, Ahead, Untouched, SweepHealsWhatItFound
<1> QED
  BY <1>1, Invariance, PTL

(* The mirror's promises hold in the table that sweeps embed, too.         *)
THEOREM MirrorUndisturbed == Spec => [](MP!NothingMissing /\ MP!NothingStale)
<1>1. IInv => MP!NothingMissing /\ MP!NothingStale
  BY MP!Promises, Assumed DEF IInv
<1> QED
  BY <1>1, Invariance, PTL

-----------------------------------------------------------------------------
(* How a sweep gets on *)

(* A page ascends, and what is left of it is beyond the cursor, but for    *)
(* the row in hand.                                                        *)
Onward ==
  /\ \A j, k \in DOMAIN page : j < k => page[j].id < page[k].id
  /\ \A k \in DOMAIN page : last_id < page[k].id \/ (bpc = "update" /\ k = 1)

(* While the sweep runs its cursor never goes back, and a row that is      *)
(* dealt with takes it further.                                            *)
Rises ==
  bpc \in {"page", "row", "update"} /\ bpc' # "idle" =>
    /\ last_id <= last_id'
    /\ bpc = "row" => last_id < last_id' \/ UNCHANGED <<bpc, page>>

(* The rest of a page, once its first row is dealt with.                   *)
LEMMA AdvanceOnward ==
  ASSUME Sweep!TypeOK, Onward, page # <<>>, NEW stop, Sweep!Advance(stop), last_id' = page[1].id
  PROVE  Onward'
<1>1. CASE page' = <<>>
  <2>1. DOMAIN page' = {}
    BY <1>1
  <2> QED
    BY <2>1 DEF Onward
<1>2. CASE page' = Tail(page)
  <2>1. /\ 1 \in DOMAIN page /\ DOMAIN page = 1..Len(page) /\ Len(page) \in Nat
        /\ \A k \in DOMAIN page' : k + 1 \in DOMAIN page /\ page'[k] = page[k + 1]
        /\ DOMAIN page' \subseteq Nat \ {0}
    <3>1. Tail(page) \in Seq([id : Nat \ {0}, content : Contents]) /\ page \in Seq([id : Nat \ {0}, content : Contents])
      BY PageFacts DEF Sweep!TypeOK
    <3> QED
      BY <1>2, <3>1, PageFacts
  <2>2. \A j, k \in DOMAIN page' : j < k => j + 1 < k + 1
    BY <2>1
  <2>3. \A k \in DOMAIN page' : 1 < k + 1
    BY <2>1
  <2> QED
    BY <2>1, <2>2, <2>3 DEF Onward
<1> QED
  BY <1>1, <1>2 DEF Sweep!Advance

LEMMA OnwardStep == IInv /\ Onward /\ [Next]_vars => Onward' /\ Rises
<1> SUFFICES ASSUME IInv, Onward, [Next]_vars PROVE Onward' /\ Rises
  OBVIOUS
<1>1. /\ Sweep!TypeOK /\ Cursor /\ last_id \in Nat /\ \A i \in DOMAIN rows : rows[i] \in MP!Row
      /\ DOMAIN rows \subseteq 1..(seq - 1) /\ seq \in Nat
  BY DEF IInv, SweepInv, Sweep!TypeOK, MP!IInv, MP!Shape, MP!TypeOK
<1>2. CASE UNCHANGED sweepOnly
  BY <1>1, <1>2 DEF Onward, Rises, sweepOnly
<1>3. CASE Sweep!Probe \/ Sweep!CountTextOnly \/ Sweep!Finish \/ Sweep!Dies
  <2>1. DOMAIN <<>> = {}
    OBVIOUS
  <2>2. page = <<>> \/ page' = <<>>
    BY <1>1, <1>3 DEF Sweep!Probe, Sweep!CountTextOnly, Sweep!Finish, Sweep!Dies, Sweep!Ends, Cursor
  <2>3. page' = <<>>
    BY <1>3, <2>2 DEF Sweep!Probe, Sweep!CountTextOnly, Sweep!Finish, Sweep!Dies, Sweep!Ends
  <2>4. Rises
    BY <1>3 DEF Rises, Sweep!Probe, Sweep!CountTextOnly, Sweep!Finish, Sweep!Dies, Sweep!Ends
  <2> QED
    BY <2>1, <2>3, <2>4 DEF Onward
<1>4. CASE Sweep!SelectPage
  <2> DEFINE found == Sweep!TextOnly(rows, last_id)
  <2>1. /\ bpc = "page" /\ page' \in Sweep!Fetch(found) /\ last_id' = last_id
    BY <1>4 DEF Sweep!SelectPage
  <2>2. found \subseteq DOMAIN rows /\ found \subseteq Nat \ {0} /\ \A i \in found : last_id < i
    BY <1>1 DEF Sweep!TextOnly
  <2> HIDE DEF found
  <2>3. /\ \A k \in DOMAIN page' : page'[k].id \in found
        /\ \A j, k \in DOMAIN page' : j < k => page'[j].id < page'[k].id
    BY <1>1, <2>1, <2>2, FetchFacts
  <2> QED
    BY <1>1, <2>1, <2>2, <2>3 DEF Onward, Rises
<1>5. CASE bpc = "row" /\ (Sweep!SkipUndecodable \/ Sweep!Embed \/ Sweep!RowFails)
  <2>1. page # <<>> /\ Head(page) = page[1] /\ 1 \in DOMAIN page
    BY <1>1, <1>5, PageFacts DEF Cursor
  <2>2. last_id' = page[1].id /\ last_id < page[1].id /\ page[1].id \in Nat
    BY <1>1, <1>5, <2>1, PageFacts DEF Onward, Sweep!SkipUndecodable, Sweep!Embed, Sweep!RowFails
  <2>3. Rises
    BY <1>1, <1>5, <2>2 DEF Rises
  <2>4. CASE Sweep!Embed
    <3>1. bpc' = "update" /\ page' = page
      BY <2>4 DEF Sweep!Embed
    <3>2. \A k \in DOMAIN page : k = 1 \/ 1 < k
      <4>1. page \in Seq([id : Nat \ {0}, content : Contents])
        BY <1>1 DEF Sweep!TypeOK
      <4> QED
        BY <4>1
    <3> QED
      BY <2>1, <2>2, <2>3, <3>1, <3>2 DEF Onward
  <2>5. CASE Sweep!SkipUndecodable \/ Sweep!RowFails
    <3>1. PICK stop : Sweep!Advance(stop)
      BY <2>5 DEF Sweep!SkipUndecodable, Sweep!RowFails
    <3> QED
      BY <1>1, <2>1, <2>2, <2>3, <3>1, AdvanceOnward
  <2> QED
    BY <1>5, <2>4, <2>5
<1>6. CASE bpc = "update" /\ (Sweep!RowFails \/ Sweep!UpdateRow)
  <2>1. page # <<>> /\ Head(page) = page[1] /\ last_id = page[1].id
    BY <1>1, <1>6, PageFacts DEF Cursor
  <2>2. last_id' = page[1].id /\ last_id' = last_id
    BY <1>6, <2>1 DEF Sweep!RowFails, Sweep!UpdateRow
  <2>3. Rises
    BY <1>1, <1>6, <2>2 DEF Rises
  <2>4. PICK stop : Sweep!Advance(stop)
    BY <1>6 DEF Sweep!RowFails, Sweep!UpdateRow
  <2> QED
    BY <1>1, <2>1, <2>2, <2>3, <2>4, AdvanceOnward
<1>7. \/ UNCHANGED sweepOnly
      \/ Sweep!Probe \/ Sweep!CountTextOnly \/ Sweep!Finish \/ Sweep!Dies
      \/ Sweep!SelectPage
      \/ bpc = "row" /\ (Sweep!SkipUndecodable \/ Sweep!Embed \/ Sweep!RowFails)
      \/ bpc = "update" /\ (Sweep!RowFails \/ Sweep!UpdateRow)
  <2>1. Sweep!RowFails => bpc \in {"row", "update"}
    BY DEF Sweep!RowFails
  <2>2. (Sweep!SkipUndecodable \/ Sweep!Embed => bpc = "row") /\ (Sweep!UpdateRow => bpc = "update")
    BY DEF Sweep!SkipUndecodable, Sweep!Embed, Sweep!UpdateRow
  <2>3. UNCHANGED vars => UNCHANGED sweepOnly
    BY DEF vars
  <2> QED
    BY <2>1, <2>2, <2>3 DEF Next, Sweep!Next, Sweep!Step
<1> QED
  BY <1>2, <1>3, <1>4, <1>5, <1>6, <1>7

(* A sweep visits no row twice and always moves on, whatever rows fail,    *)
(* appear or change ahead of it and behind it: the safety half of          *)
(* SweepEnds.                                                              *)
THEOREM CursorRises == Spec => [][Rises]_vars
<1>1. Init => Onward
  <2>1. DOMAIN <<>> = {}
    OBVIOUS
  <2> QED
    BY <2>1 DEF Init, Sweep!Init, Onward
<1>2. IInv /\ Onward /\ [Next]_vars => Onward' /\ [Rises]_vars
  BY OnwardStep
<1> QED
  BY <1>1, <1>2, Invariance, PTL DEF Spec
=============================================================================
