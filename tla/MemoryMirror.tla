----------------------------- MODULE MemoryMirror -----------------------------
(***************************************************************************)
(* The mirror of the built-in memory in PostgreSQL: on_memory_write(), the *)
(* worker that applies queued writes, and the import of MEMORY.md at       *)
(* initialize() (src/hermes_pgvector/__init__.py, with the statements of   *)
(* store.py).  The built-in store is external: it commits an operation to  *)
(* disk and calls the hook in the same agent thread.  The queue is the     *)
(* log that AsyncWriter implements: accepted writes are applied in order.  *)
(***************************************************************************)
EXTENDS MemoryRows, Sequences

CONSTANTS Agent,       (* the agent identity whose scope is mirrored        *)
          MaxQueue,    (* write_queue_maxsize                               *)
          EmbedBreaker,(* embed failures after which an import stops embedding *)
          MaxWrites,   (* bound on operations of the built-in tool          *)
          MaxSessions  (* bound on initialize() calls                       *)

NoText == "none"

ASSUME MirrorAssumption ==
  /\ Agent \in STRING /\ NoText \notin Contents
  /\ MaxQueue \in Nat \ {0} /\ EmbedBreaker \in Nat /\ MaxWrites \in Nat /\ MaxSessions \in Nat

VARIABLES
  rows,     (* memory_entries: a partial function from ids to Row           *)
  seq,      (* the next id of its sequence                                  *)
  disk,     (* the entries of MEMORY.md                                     *)
  call,     (* the write whose hook is being called, in a sequence or none  *)
  via,      (* the writer that the hook has read, 0 for none yet            *)
  queue,    (* the writes on each writer's queue                            *)
  item,     (* the write in the hands of each writer's thread               *)
  stage,    (* the statement that thread runs next                          *)
  session,  (* "down", "start", "read", "import" or "up"                    *)
  todo,     (* file entries the import has still to visit                   *)
  existing, (* the import's snapshot of contents already in the table       *)
  breaker,  (* consecutive_embed_failures of the import                     *)
  gap,      (* history: no import is running that makes good what is missing *)
  missing,  (* history: the mirror may lack entries of the disk             *)
  stale,    (* history: the mirror may hold entries the disk dropped        *)
  writes,   (* history: operations of the built-in tool                     *)
  sessions  (* initialize() calls, and self._writer is the last one's       *)

table   == <<rows, seq>>
hook    == <<call, via>>
worker  == <<queue, item, stage>>
import  == <<todo, existing, breaker>>
flags   == <<gap, missing, stale>>
counts  == <<writes, sessions>>
vars == <<table, disk, hook, worker, session, import, flags, counts>>

(* A writer is known by the initialize() call that made it; 0 is none.     *)
(* One that shutdown() gave up may live on beside its successor.           *)
Writers == 0..MaxSessions

(* A queued write: its new text, the exact previous entry and the hint     *)
(* (old_text) that its metadata carried.                                   *)
Item(action, new, previous, hint) ==
  [action |-> action, new |-> new, previous |-> previous, hint |-> hint]
NoItem == Item("none", NoText, NoText, NoText)
Unaimed(write) == write.previous = NoText /\ write.hint = NoText

Texts == TextsOf(rows, Agent)

(* The file entries that the import may still insert. *)
Coming == todo \ existing

Idle(n) == queue[n] = <<>> /\ item[n] = NoItem
Pending == call # <<>> \/ \E n \in Writers : ~Idle(n)

(* A row without text, from before the hook refused such writes. *)
LegacyRow(b) == [agent |-> Agent, content |-> b, embedding |-> Null, edits |-> 0]

Init ==
  /\ rows \in {<<>>} \cup {<<LegacyRow(b)>> : b \in Blank}
  /\ seq = Cardinality(DOMAIN rows) + 1 /\ disk \in SUBSET (Contents \ Blank)
  /\ call = <<>> /\ via = 0
  /\ queue = [n \in Writers |-> <<>>] /\ item = [n \in Writers |-> NoItem]
  /\ stage = [n \in Writers |-> "get"]
  /\ session = "down" /\ todo = {} /\ existing = {} /\ breaker = 0
  /\ gap = TRUE /\ missing = (disk # {}) /\ stale = (rows # <<>>) /\ writes = 0 /\ sessions = 0

(* A write that brings an entry, or takes one away, will not do so; nor    *)
(* does the import make good an entry lost after it read the file.         *)
Lose(brings, takes) ==
  /\ missing' = (missing \/ brings) /\ gap' = (gap \/ brings)
  /\ stale' = (stale \/ takes)

-----------------------------------------------------------------------------
(* The built-in tool and on_memory_write() *)

(* What identifies the edited entry to the hook: the exact entry, a hint   *)
(* that the built-in found in that one entry, or nothing.                  *)
Evidence(old) ==
  {[previous |-> old, hint |-> NoText], [previous |-> NoText, hint |-> NoText]}
    \cup {[previous |-> NoText, hint |-> h] :
            h \in {p \in Contents \ Blank : {d \in disk : <<d, p>> \in LikePairs} = {old}}}

(* The operation is on disk before its hook is called.  One that takes an  *)
(* entry away is no use to the mirror without evidence, or if the import   *)
(* read the entry before and inserts it afterwards.                        *)
Tool(newDisk, write) ==
  /\ writes < MaxWrites /\ call = <<>>
  /\ writes' = writes + 1
  /\ disk' = newDisk /\ call' = <<write>>
  /\ Lose(FALSE, write.action # "add" /\ (Unaimed(write) \/ (disk \ newDisk) \cap Coming # {}))
  /\ UNCHANGED <<table, via, worker, session, import, sessions>>

ToolAdd(new) ==
  /\ new \notin disk
  /\ Tool(disk \cup {new}, Item("add", new, NoText, NoText))

ToolReplace(old, new) ==
  /\ old \in disk /\ new # old
  /\ \E e \in Evidence(old) :
       Tool((disk \ {old}) \cup {new}, Item("replace", new, e.previous, e.hint))

ToolRemove(old) ==
  /\ old \in disk
  /\ \E e \in Evidence(old) : Tool(disk \ {old}, Item("remove", NoText, e.previous, e.hint))

HookReturns == call' = <<>> /\ via' = 0

Dropped(write) == Lose(write.action # "remove", write.action # "add")

(* The hook reads self._writer: no writer, or an unhealthy provider, is    *)
(* the end of the write.                                                   *)
HookReads ==
  /\ call # <<>> /\ via = 0
  /\ \/ session # "down" /\ via' = sessions /\ UNCHANGED <<call, flags>>
     \/ session = "down" /\ HookReturns /\ Dropped(call[1])
  /\ UNCHANGED <<table, disk, worker, session, import, counts>>

(* A variant that queues a write whatever the length of the queue. *)
HookPuts_NoBound ==
  /\ via # 0 /\ HookReturns
  /\ queue' = [queue EXCEPT ![via] = Append(@, call[1])]
  /\ UNCHANGED <<table, disk, item, stage, session, import, flags, counts>>

(* It queues the write there, or drops it if the queue is full; shutdown() *)
(* may have given that writer up since.                                    *)
HookPuts ==
  /\ via # 0 /\ HookReturns
  /\ \/ /\ Len(queue[via]) < MaxQueue
        /\ queue' = [queue EXCEPT ![via] = Append(@, call[1])]
        /\ UNCHANGED flags
     \/ Len(queue[via]) >= MaxQueue /\ Dropped(call[1]) /\ UNCHANGED queue
  /\ UNCHANGED <<table, disk, item, stage, session, import, counts>>

-----------------------------------------------------------------------------
(* _worker(): one write at a time, one statement per step *)

rest == <<disk, hook, session, import, counts>>

Done(n) == item' = [item EXCEPT ![n] = NoItem] /\ stage' = [stage EXCEPT ![n] = "get"]

(* How the dispatch of _worker() begins: an unaimed replace is an add, an  *)
(* unaimed remove is refused.                                              *)
FirstStage(write) ==
  CASE write.action = "add"     -> "add"
    [] write.action = "replace" -> IF Unaimed(write) THEN "add" ELSE "update"
    [] write.action = "remove"  -> IF Unaimed(write) THEN "refuse" ELSE "delete"

Take(n) ==
  /\ stage[n] = "get" /\ queue[n] # <<>>
  /\ queue' = [queue EXCEPT ![n] = Tail(@)]
  /\ item' = [item EXCEPT ![n] = Head(queue[n])]
  /\ stage' = [stage EXCEPT ![n] = FirstStage(Head(queue[n]))]
  /\ UNCHANGED <<table, rest, flags>>

Refuse(n) ==
  /\ stage[n] = "refuse" /\ Done(n)
  /\ UNCHANGED <<table, queue, rest, flags>>

(* A variant that treats the exact previous entry as a substring, too. *)
Matches_AlwaysLike(write) ==
  Like(rows, Agent, IF write.previous # NoText THEN write.previous ELSE write.hint)

(* The rows that the write's exact text or hint matches; a statement works *)
(* on the one with the lowest id.                                          *)
Matches(write) ==
  IF write.previous # NoText THEN Exactly(rows, Agent, write.previous)
                             ELSE Like(rows, Agent, write.hint)

(* The write's text embedded, or text-only: the embed failed, is off, or   *)
(* the provider is draining.                                               *)
Vectors(write) == {write.new, Null}

InsertNew(text, vectors) ==
  \E v \in vectors :
    /\ rows' = Insert(rows, seq, Agent, text, v)
    /\ seq' = IF rows' = rows THEN seq ELSE seq + 1

Add(n) ==
  /\ stage[n] = "add" /\ Done(n)
  /\ InsertNew(item[n].new, Vectors(item[n]))
  /\ UNCHANGED <<queue, rest, flags>>

(* UPDATE of the lowest match; a duplicate of another row is deleted       *)
(* instead, by the next transaction.                                       *)
ReplaceRow(n) ==
  /\ stage[n] = "update" /\ Matches(item[n]) # {}
  /\ LET id == Min(Matches(item[n])) IN
       \/ /\ ~Violates(rows, id, item[n].new)
          /\ \E v \in Vectors(item[n]) : rows' = Update(rows, id, item[n].new, v)
          /\ Done(n)
       \/ /\ Violates(rows, id, item[n].new)
          /\ stage' = [stage EXCEPT ![n] = "duplicate"]
          /\ UNCHANGED <<rows, item>>
  /\ UNCHANGED <<seq, queue, rest, flags>>

(* Nothing matched: replace() returned 0 and the worker adds instead. *)
ReplaceNothing(n) ==
  /\ stage[n] = "update" /\ Matches(item[n]) = {}
  /\ stage' = [stage EXCEPT ![n] = "add"]
  /\ UNCHANGED <<table, queue, item, rest, flags>>

(* A DELETE of the lowest match: replace()'s after a UniqueViolation, and  *)
(* remove()'s.                                                             *)
DeleteRow(n) ==
  /\ stage[n] \in {"duplicate", "delete"} /\ Done(n)
  /\ rows' = IF Matches(item[n]) = {} THEN rows ELSE Delete(rows, {Min(Matches(item[n]))})
  /\ UNCHANGED <<seq, queue, rest, flags>>

(* A statement raises, or the provider has no store: the write is dropped  *)
(* and the worker goes on.                                                 *)
WorkerFails(n) ==
  /\ stage[n] \in {"add", "update", "duplicate", "delete"} /\ Done(n)
  /\ Dropped(item[n])
  /\ UNCHANGED <<table, queue, rest>>

-----------------------------------------------------------------------------
(* initialize(), shutdown() and the end of the process *)

(* The new writer is there before the import, and takes writes.            *)
InitializeBegins ==
  /\ session = "down" /\ sessions < MaxSessions
  /\ session' = "start" /\ sessions' = sessions + 1
  /\ UNCHANGED <<table, disk, hook, worker, import, flags, writes>>

(* The import is switched off, or its file or its snapshot cannot be read. *)
NoImport ==
  /\ session \in {"start", "read"}
  /\ session' = "up" /\ todo' = {} /\ gap' = TRUE
  /\ UNCHANGED <<table, disk, hook, worker, existing, breaker, missing, stale, counts>>

(* A write that is still on its way when the file is read will meet rows   *)
(* of a later disk than its own: the import makes nothing good, and a hint *)
(* may take the wrong row.                                                 *)
ReadFile ==
  /\ session = "start"
  /\ session' = "read" /\ todo' = disk
  /\ gap' = Pending /\ stale' = (stale \/ Pending)
  /\ UNCHANGED <<table, disk, hook, worker, existing, breaker, missing, counts>>

(* One snapshot of the scope, after the file was read. *)
ReadExisting ==
  /\ session = "read"
  /\ session' = "import" /\ existing' = Texts
  /\ UNCHANGED <<table, disk, hook, worker, todo, breaker, flags, counts>>

ImportSkips(entry) ==
  /\ session = "import" /\ entry \in todo /\ entry \in existing
  /\ todo' = todo \ {entry}
  /\ UNCHANGED <<table, disk, hook, worker, session, existing, breaker, flags, counts>>

(* A variant that gives up the file at the first entry that fails to embed. *)
ImportInserts_StopAtFailure(entry) ==
  /\ session = "import" /\ entry \in todo /\ entry \notin existing
  /\ breaker' = breaker
  /\ \/ todo' = todo \ {entry} /\ InsertNew(entry, {entry})
     \/ todo' = {} /\ UNCHANGED table
  /\ UNCHANGED <<disk, hook, worker, session, existing, flags, counts>>

(* A new entry is embedded unless the breaker is open, then inserted.      *)
ImportInserts(entry) ==
  /\ session = "import" /\ entry \in todo /\ entry \notin existing
  /\ todo' = todo \ {entry}
  /\ \/ breaker < EmbedBreaker /\ breaker' = 0 /\ InsertNew(entry, {entry})
     \/ breaker < EmbedBreaker /\ breaker' = breaker + 1 /\ InsertNew(entry, {Null})
     \/ breaker >= EmbedBreaker /\ breaker' = breaker /\ InsertNew(entry, {Null})
  /\ UNCHANGED <<disk, hook, worker, session, existing, flags, counts>>

(* Its INSERT raises, embedded or not: the import goes on with the next.   *)
ImportRejects(entry) ==
  /\ session = "import" /\ entry \in todo /\ entry \notin existing
  /\ todo' = todo \ {entry} /\ gap' = TRUE
  /\ breaker' \in IF breaker < EmbedBreaker THEN {0, breaker + 1} ELSE {breaker}
  /\ UNCHANGED <<table, disk, hook, worker, session, existing, missing, stale, counts>>

(* The file has been worked through: what it held is in the table, unless  *)
(* there was a gap.                                                        *)
ImportEnds ==
  /\ session = "import" /\ todo = {}
  /\ session' = "up" /\ missing' = (missing /\ gap) /\ gap' = TRUE
  /\ existing' = {} /\ breaker' = 0
  /\ UNCHANGED <<table, disk, hook, worker, todo, stale, counts>>

(* shutdown() gives the writer up.  What its drain left, or a hook still   *)
(* puts there, stays with the old thread: it is applied at some time, by   *)
(* the next session's store or its own reopened one, or dropped.           *)
Shutdown ==
  /\ session = "up"
  /\ session' = "down"
  /\ LET left == ~Idle(sessions) \/ via # 0 IN Lose(left, left)
  /\ UNCHANGED <<table, disk, hook, worker, import, counts>>

(* The process is killed: queued writes and those in hand, whose           *)
(* transactions roll back, are gone.                                       *)
Kill ==
  /\ sessions > 0
  /\ session' = "down" /\ HookReturns
  /\ queue' = [n \in Writers |-> <<>>] /\ item' = [n \in Writers |-> NoItem]
  /\ stage' = [n \in Writers |-> "get"]
  /\ todo' = {} /\ existing' = {} /\ breaker' = 0
  /\ LET gone == {call[i].action : i \in DOMAIN call} \cup {item[n].action : n \in Writers}
                 \cup UNION {{queue[n][i].action : i \in DOMAIN queue[n]} : n \in Writers}
     IN  /\ missing' = (missing \/ gone \cap {"add", "replace"} # {})
         /\ stale' = (stale \/ gone \cap {"remove", "replace"} # {})
         /\ gap' = TRUE
  /\ UNCHANGED <<table, disk, counts>>

Worker(n) == Take(n) \/ Refuse(n) \/ Add(n) \/ ReplaceRow(n) \/ ReplaceNothing(n) \/ DeleteRow(n)

Next ==
  \/ \E c \in Contents \ Blank : ToolAdd(c) \/ ToolRemove(c)
  \/ \E c, d \in Contents \ Blank : ToolReplace(c, d)
  \/ HookReads \/ HookPuts
  \/ \E n \in Writers : Worker(n) \/ WorkerFails(n)
  \/ InitializeBegins \/ NoImport \/ ReadFile \/ ReadExisting \/ ImportEnds
  \/ \E c \in Contents : ImportSkips(c) \/ ImportInserts(c) \/ ImportRejects(c)
  \/ Shutdown \/ Kill

Spec == Init /\ [][Next]_vars

-----------------------------------------------------------------------------
Items == [action : {"none", "add", "replace", "remove"}, new : Contents \cup {NoText},
          previous : Contents \cup {NoText}, hint : Contents \cup {NoText}]

TypeOK ==
  /\ DOMAIN rows \subseteq 1..(seq - 1) /\ \A i \in DOMAIN rows : rows[i] \in Row
  /\ seq \in Nat \ {0}
  /\ disk \subseteq Contents /\ todo \subseteq Contents /\ existing \subseteq Contents
  /\ call \in Seq(Items) /\ Len(call) <= 1 /\ via \in Writers
  /\ queue \in [Writers -> Seq(Items)] /\ item \in [Writers -> Items]
  /\ \A n \in Writers : Len(queue[n]) <= MaxQueue
  /\ stage \in [Writers -> {"get", "add", "update", "duplicate", "delete", "refuse"}]
  /\ session \in {"down", "start", "read", "import", "up"} /\ breaker \in 0..EmbedBreaker
  /\ gap \in BOOLEAN /\ missing \in BOOLEAN /\ stale \in BOOLEAN
  /\ writes \in Nat /\ sessions \in Writers

(* Nothing is on its way to the table. *)
Quiet == ~Pending /\ session = "up"

(* Once nothing is on its way, every entry of the disk has a row, however  *)
(* the writes were aimed and whatever edits ran beside the import, as long *)
(* as none was lost or left to a writer given up since the last complete   *)
(* import: the import makes good what earlier sessions lost.               *)
NothingMissing == Quiet /\ ~missing => disk \subseteq Texts

(* Once nothing is on its way, no row holds an entry the disk dropped, as  *)
(* long as no replace or remove was ever lost, left to a writer given up,  *)
(* made without evidence or overtaken by the import: nothing but cleanup   *)
(* removes such a row.                                                     *)
NothingStale == Quiet /\ ~stale => Texts \subseteq disk
=============================================================================
