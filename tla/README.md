# Verification of the hermes-memory-pgvector provider

TLA+ models of the concurrent and failure-prone parts of this repository, TLC
configurations that check them on small instances, and TLAPS proofs of every
safety property they check, for all values of the constants. Sources are named relative to the repository root
(`hermes_pgvector/...`); `PROJECT.json` maps every definition to the lines it
translates.

## 1. The system

The provider mirrors an agent's memory and conversations into PostgreSQL and
recalls them by vector similarity. An agent host calls hooks on one
`PgvectorMemoryProvider`; the provider must never raise into the host and never
block it on the database or the embedding endpoint. Operators run the CLI in
processes of their own against the same tables.

| Component | State | Operations | What is hard | Correct means |
|---|---|---|---|---|
| Write queue, `writer.py` | bounded queue, thread object, drain flag, lock | `enqueue`, drain loop, `shutdown` | callers, drain thread and shutdown interleave; the thread can die; the queue can be full; the join can time out | one drain thread; accepted writes are handled once, in order, none vanishes; a drain ends and leaves nothing |
| Background recall, `__init__.py` 913-1077 | cache, pending slot, thread, generation; the provider's theme and store | `queue_prefetch`, worker loop, `prefetch` | the theme moves while a worker computes; most reads are unlocked | one worker; a block is used once, in order, by its own theme; requests are served |
| Memory mirror, `__init__.py` 1403-1697, `store.py` 305-497, 729-832 | `memory_entries`, queued writes, the files on disk | `on_memory_write`, worker dispatch, `add`/`replace`/`remove`, import | lost writes, ambiguous hints, a unique index that turns an edit into a delete, an import from a snapshot beside edits, a writer given up that goes on beside the next | the mirror equals the disk when nothing was lost |
| Backfill, `store.py` 1148-1358 | keyset cursor, page, failure counter | probe, page, embed, guarded update | rows change under the sweep | an embedding is that of its row's text; no row is skipped; the sweep ends |
| Maintenance, `store.py` 1360-1544 | a transaction, advisory lock 9999 | remap, cleanup, prune | READ COMMITTED statements among committing agents | a remap merges without loss; reports are true |
| Turn capture, `__init__.py` 819-848, 1081-1399 | fingerprints, queue, `conversations` | `sync_turn`, `on_session_end`, `on_session_switch`, `on_delegation` | the same turn arrives by two hooks, in sessions that overlap | no turn twice, none lost that a replay could save |
| Provider lifecycle, `__init__.py` 618-820 | session, theme, write gate, store, writer, health, the pool of each store | `initialize`, `shutdown`, `on_session_switch` | no lock guards the attributes; a used instance is initialised again under hooks, session switches, recalls and drain threads, one of which may outlive a timed-out join or be started again by a late write | rows carry one theme and a session of it; accepted writes are stored, in order; pools do not leak |
| Identity, `identity.py` | none | source priority, `normalize_identity` | aliases lead to governed names | no private key, benchmark or unlisted theme is a row's identity |
| Read gate, `__init__.py` 1711-1980 | locals of a call | `recall_memory`, `recall_conversation` | gate, filter and search read live attributes at different times | a theme's answer holds no row of another's sink |
| Embedding client, `embed.py` | none kept | `embed` | two protocols and retries share a deadline | total time bounded |
| Migrations, `store.py` 184-301 | the schema | `ensure_schema`, `apply_migration_as_admin` | old and new binaries on one database | either index keeps entries unique |

Interaction: the hooks call `enqueue()`; the drain thread calls `_worker()`,
which calls the store; `prefetch()` and the recall worker call the store
directly; `initialize()` imports synchronously; the CLI's commands share only
the tables.

## 2. Modules

| Module | Models | Correspondence |
|---|---|---|
| `WriteLog` | the queue's promise to its callers | a log of accepted writes, a prefix of it handled |
| `AsyncWriter` | `writer.py` | a step is what a thread does between two queue operations, reads or writes of the drain flag, critical sections of `_lock`, or liveness reads; writes are numbered in order of acceptance; the sentinel is 0 |
| `Prefetch` | background recall, and the part of `initialize()`/`shutdown()` it races | a step is a critical section of `_prefetch_lock`, or one unlocked read or write of the theme, the store and the health flag; a block is known by the theme its rows and its header come from; a store that was captured before it was closed opens its pool again and still finds rows |
| `MemoryRows` | the table and the statements of `store.py` | `rows` is a partial function from ids; each operator gives the rows after one statement; a vector is known by the text it came from |
| `MemoryMirror` | the built-in tool (external), `on_memory_write()`, `_worker()`, the import, `shutdown()`, the end of the process | one statement, or one read or write of the provider's attributes, per step; each `initialize()` has a writer of its own, whose queue is the log that `AsyncWriter` implements and whose thread `shutdown()` may leave behind |
| `Backfill` | `backfill_null_embeddings()` and the exit codes of `cmd_backfill()` | one statement or embed call per step |
| `MemoryTable` | `MemoryMirror` and `Backfill` over the same `rows` | steps of one leave the other's variables alone |
| `Maintenance` | `remap_identity()`, `delete_by_identity()`, `prune_conversations()` and agents' statements | one statement per step; turns are counted by identity; uncommitted effects are kept in `tx` and become visible at commit; an agent's statement waits for a row or key a transaction holds |
| `Identity` | the sources of an identity and `normalize_identity()` | operators; a name is known by the classes the regular expressions sort it into, which are constants, and `strip().lower()` is a function |
| `ProviderLifecycle` | `initialize()`, `shutdown()`, a write hook, `on_session_switch()`, a recall tool, `_worker()` of each session's writer | a step is one read or write of the provider's attributes or one database call; each initialise has a number that names its store and its writer; of `AsyncWriter` it has the queue, the drain flag and the thread with its time-out, its test of the flag, its death and its restart; a sentinel only wakes or stops a thread, which here need not go on, and a full queue is a put that may be refused |
| `TurnCapture` | the turn hooks | one enqueue per step of the replay; the drain of a re-initialisation drops what the drain thread has not stored before it; a turn is its session and its role-and-content, which is what is hashed |
| `EmbedClient` | `embed()`, `_embed_once()`, `_post()` and the timing of their callers (`_maybe_embed()`, `_prefetch_impl()`, `_make_embed_fn()`) | one call at a time, since calls share nothing but the endpoint and the drain flag; time is a count of ticks that passes while a request is out or the client sleeps |
| `<Module>Proofs` | theorems of `AsyncWriter`, `Prefetch`, `MemoryMirror`, `MemoryTable`, `Maintenance`, `TurnCapture`, `EmbedClient` and `ProviderLifecycle` (with `Identity`) | section 5 |
| `MC*` | values for TLC | one configuration per question |

Variables marked *history* in a module are not in the code; properties use them
and nothing else reads them, except counters that bound the instance (`MaxWrites`,
`MaxRequests`, `MaxInits`, `MaxShutdowns`, `MaxCrashes`, `MaxSessions`,
`MaxSweeps`, `MaxOps`, `MaxTurns`, `MaxEvents`, `MaxPieces`). Operators whose comment says *a
variant* are plausible wrong versions of the definition that follows; no
specification uses them. Each property fails when its variant replaces the
original (`mutants` in `PROJECT.json`), which shows that the property depends on
the code.

## 3. Runs

All bounds are in the `.cfg` files; the reasons:

* **writer** (`MCAsyncWriter.cfg`). Two callers, a queue of two, three writes,
  three thread objects, a crash and a shutdown: the queue fills, the sentinel is
  refused, a crashed thread is replaced, a drained writer is restarted. Shows
  `OneDrainThread`, `NoWriteLost`, the refinement `ImplementsWriteLog`,
  `ShutdownDrainsOutsideWindow`, and under fairness `LiveThreadHandlesAll`,
  `SentinelDoesNotCutOff` and `DrainTerminates`.
* **drain** expects a violation of `ShutdownDrains`, finding 1 below.
* **prefetch** (`MCPrefetch.cfg`). One host thread, two requests for two
  sessions, two worker threads, two themes and a cache of one entry, with
  `initialize()`, `shutdown()` and a `start()` that may fail: a second request
  replaces, follows or misses the first, and the theme moves at each point of
  either, also between the capture of a store and its search, which finds rows
  of the live identity through a store closed meanwhile: what keeps such a block from the
  next theme is the generation alone. Shows `OneWorker`, `NoRecallReplayed`, `RecallIsOwnOutsideDrain`,
  `RequestServedOutsideExit`. **leak** and **wakeup** expect violations, findings 2 and 3.
* **mirror** (`MCMemoryMirror.cfg`). Two texts, one containing the other so that
  a hint can match the wrong row; three operations of the built-in tool at any
  point of two sessions, their starts and imports included; a queue of one that
  overflows; an import breaker of one; statements that fail, a process that is
  killed, a writer that a shutdown gave up and whose thread runs beside the next
  one. Shows when the mirror is complete (`NothingMissing`) and when it is free of
  dropped entries (`NothingStale`). What the code does not repair is exempt
  and does occur: a write lost or left to a writer given up, until an import whose
  file was read with nothing on its way makes good what is missing; and what took an entry away
  and was lost, left behind, made without evidence, or overtaken by an import that
  had read the entry before. States that differ in embeddings and counts
  of edits alone are identified (`VIEW MCView`): no guard and no property
  of the mirror reads them.
* **table** (`MCMemoryTable.cfg`). A decodable, an undecodable and a blank text,
  pages of one row, two sweeps, one edit and an import: the second sweep meets
  the rows that the first failed on. Shows `EmbeddingMatchesContent`,
  `SweepHealsWhatItFound`, `SweepEnds`.
* **maintenance** (`MCMaintenance.cfg`). Two operators with two commands between
  them, two identities, two texts, two statements of agents or prunes, no duplicate
  allowed without force; the tables are empty at first, or hold a text of both
  identities, a text of one and a turn of each, so that one command drops, moves
  and deletes. A cleanup names any set of identities. Operators are symmetric; all properties are safety. Shows
  `ReportsWhatItDid`, `ForceGuardWhenQuiet`, `RemapMergesWhenQuiet`. **guard**
  expects a violation, finding 4.
* **turns** (`MCTurnCapture.cfg`). Three texts and a noise text, a fingerprint
  cap of two, a queue of two, three turns, three session ends, switches,
  delegations or initialisations. Shows `NoDoubleWrite` and
  `BackstopCapturesTexts`; the second speaks of texts, since fingerprints ignore
  the session: a refused turn whose text an earlier session had stored is
  skipped by its replay.
* **lifecycle** (`MCProviderLifecycle.cfg`). Three requests (a private key with a
  workspace; a profile whose alias is a private key; the automatic identity in
  a context that may not write), four sessions, of which one is only rotated to,
  two `initialize()` calls with a shutdown between
  or inside them, and two operations out of write hooks, session switches,
  recalls and imports that insert. Two operations meet each step of a
  re-initialisation, a join times out or leaves a write behind, a thread dies and
  is started again by a late write, a closed pool is opened again, rows of
  earlier processes belong to every sink. Shows `IdentityGoverned`, `RecallGate`,
  `RowsAttributed`, `AppliedInOrder`, `AcceptedWritesStored`, `PoolsStayClosed`.
  Each states its exemption, and every exempted case does occur:
  * *torn* and *straddled*: between the first assignments of `initialize()` (lines 619
    to 690) a hook can store a raw private key or one theme with another's
    session, and a recall filter by such a pair;
  * *astray*: a switch that began before an `initialize()` and assigns
    `_session_id` (line 820) after it leaves the old theme's session beside the new
    theme for good. The code does not order the two, so what is
    labelled or filtered by such a session is exempt until the next
    switch or `initialize()`;
  * *late*: a write put into a writer under drain;
  * *abandoned*: the writers whose drain left a write that was accepted before it,
    because the join timed out, because the write came in the window of finding 1, or
    because the thread had died. The next late write starts a thread again that
    takes what was left. Writes of either kind can be lost, come out of
    order and open a closed pool again.

  States that differ in nothing but the names of torn writes and calls, a session
  that is astray, or what a dropped write said, are identified (`VIEW
  MCView`): no property but the type invariant depends on them.

  The model assumes of the host that it calls `initialize()` and `shutdown()` from
  one thread, hooks, switches and tools from another, that a session id belongs to
  one theme (`ThemeBy`), and that it rotates to, and names to a hook, sessions of
  the theme that the provider has at that moment; the filter by session
  of `recall_conversation` relies on the same.
* **embed** (`MCEmbedClient.cfg`). Timeouts of two ticks, two retries with
  back-offs of one and two, a prefetch budget beyond its clamp, all protocols and
  a misspelt one, an endpoint that changes at any moment and an answer that may
  arrive in two pieces. The budget of the drain thread is reached before its
  retries run out, and a first path may use up, overrun or leave time for the
  second. Shows `CallBounded`, `PrefetchWithinHost`, `DrainDelayBounded`,
  `FaultsAbsorbed`, `MisconfigurationNamed`. Two of them are weaker than the
  comments they are about, because the code is: the "ONE overall deadline" of
  `embed.py` 212-218 holds for an answer in one piece, since a timeout given to
  `urlopen()` bounds each socket operation, so `CallBounded` adds one timeout for
  every further piece; and the drain that is "DB-only and fast" (`__init__.py` 801)
  still waits for the embedding that was under way when the flag was set, with
  all its retries, so `DrainDelayBounded` bounds it by one call.

Small bounds suffice because every hazard of section 1 takes at most two
actors and two pieces of work: two writes of which one is first, two requests of
which one is newer, two commands of which one waits, two texts of which one
contains the other.

`CHECK_DEADLOCK FALSE` stands in every configuration but that of **embed**, where a
call can always be made, because each of the other systems may rest: the host may
make no more calls and the threads have nothing to do.

### Fairness

* `AsyncWriter!FairSpec`: a live drain thread is scheduled and its worker
  returns (embed and database calls have timeouts), a caller inside `enqueue()`
  leaves it, and `shutdown()` goes on, its join returning after its timeout at
  the latest. Nobody owes a call of `enqueue()` or `shutdown()`.
* `Prefetch!FairSpec`: a live worker is scheduled; its embed call has a timeout.
* `MemoryTable!FairSpec`: the sweep's process is scheduled. No success is
  owed: `RowFails` satisfies it.

`MemoryMirror`, `Maintenance`, `TurnCapture`, `EmbedClient` and `ProviderLifecycle`
are checked for safety alone.

## 4. Findings

1. *A drained writer may leave a write behind* (`writer.py` 181; run drain).
   `get()` times out, a caller enqueues, `shutdown()` sets the flag, the thread
   breaks. `ShutdownDrainsOutsideWindow` shows that this window is the only one.
2. *A block of the old theme can reach the new one* (`__init__.py` 964; run
   leak). A request queued inside `shutdown()`'s drain carries the new
   generation, and the cache is not dropped again. `RecallIsOwnOutsideDrain`
   shows that this window is the only one.
3. *A request can be left to a worker on its way out* (`__init__.py` 965; run wakeup).
   `RequestServedOutsideExit` shows that this and a failing `start()` are the
   only ways.
4. *The limit on dropped rows does not bind against agents that write* (`store.py`
   1533; run guard).

## 5. Proofs

Eight modules hold theorems. Each proves its properties as `Spec => []P`, or as
an action property, for every value of the constants that the module's
assumption allows, with no bound on threads, sessions, texts, writes or time
other than the constants that name one. Hardly any property is inductive; each
module defines an inductive invariant `IInv` of named parts, shows `Init =>
IInv` and `IInv /\ [Next]_vars => IInv'` with one lemma per action or part, and
reads the properties off it. TLC checked the invariants on the instances of
section 3 before they were proved.

### Write queue: `AsyncWriterProofs`, from `WriterAssumption`

* `TypeCorrect`, `SingleDrainThread` (`OneDrainThread`), `AcceptedWritesKept`
  (`NoWriteLost`), `ShutdownDrainsAll` (`ShutdownDrainsOutsideWindow`);
* `WriterImplementsLog`: `Spec => ImplementsWriteLog`, the refinement.

`IInv` says which references to threads are possible (every thread that lives is
`self._thread`; a created one belongs to the caller inside the lock), and that
the handled writes, then the one in hand, then those on the queue with sentinels
left out are exactly `1..accepted` in order. `NoWriteLost` and the refinement
follow from the order, `OneDrainThread` from the references. `ShutdownDrainsAll`
needs one more fact about the thread that is being joined: while the flag is set
and no window was open, it leaves its loop only after seeing an empty queue. The
refinement is proved as initial states to initial states, and each step to
`Accept`, `Handle` or a stutter (`LogStep`).

### Background recall: `PrefetchProofs`, from `PrefetchAssumption`

* `TypeCorrect`, `SingleWorker` (`OneWorker`), `RecallNotReplayed`
  (`NoRecallReplayed`), `RecallOwnOutsideDrain` (`RecallIsOwnOutsideDrain`);
* `RequestsAttended`: a waiting request has a live worker on its way back to the
  slot, unless it is one of the two exceptions of finding 3. It is the safety
  half of `RequestServedOutsideExit`.

`Tracked`: a live worker is `self._prefetch_thread`. `Numbered`: requests are
numbered as they are made, and what was answered is older than what is cached,
that older than what a worker has in hand, and that older than what is pending;
so an answer is never followed by an older one. `Owned` is about the theme,
which the code protects by the generation alone: `Fresh` (cache and current
workers hold the provider's own rows, except between the change of theme and the
bump of the generation, whatever stores were closed and opened again), `Answers`
(a `prefetch()` under way in that window knows that it was overlapped),
`Cleared` (in `shutdown()`'s drain nothing is of the current generation) and
`Storeless` (while the provider has no store, no computation of the current
generation has captured one). A request queued inside the drain breaks them,
which is finding 2 and the only exemption. `Attended` is the theorem's own
invariant.

### Memory mirror: `MemoryMirrorProofs`, from `RowsAssumption` and `MirrorAssumption`

* `TypeCorrect`, `MirrorMissesNothing` (`NothingMissing`), `MirrorKeepsNothingStale`
  (`NothingStale`).

Both properties speak of a moment when nothing is on its way; the invariant has
to say what a full queue will do. `Mirrored`: there is a chain of disks `D[0..n]`,
the last of which is the real one, such that the write in hand leads from the table
to `D[0]` and the k-th write behind it, the one that is still with the hook
included, from `D[k-1]` to `D[k]`. A write leads from one to the
other if it takes away what its previous entry or its hint matches and adds its
text, and matches one entry at most (`Leads`, one inclusion per property, since
a lost addition spoils one and a lost removal the other). A process that ends
takes its queue with it: if that held removals alone the table still has all
that is on disk, if additions alone nothing too much, and for that the chain
also says that removals only shrink the disks and additions only let them grow
(`Only`). While an import runs that will make good what is missing, what it has still
to insert counts as shown by the table (`Shown`), and the writes on their way must
not touch it (`Spared`): an edit of an entry that the import has
read but not inserted is the exemption of `NothingStale`. `Behind`: as long as a
writer that was given up holds a write, nothing is promised. After a loss half
of the chain is left; a complete import restores the
half about what is missing. `Unique` (the scope holds a text once) is what turns
an edit into a delete in the code, and what lets the lowest id of a match stand
for the match (`MinNat`, from the library's well-foundedness of `<`).

### The table under a sweep: `MemoryTableProofs`, from `TableAssumption`

* `TypeCorrect`, `EmbeddingsMatch` (`EmbeddingMatchesContent`), `SweepHeals`
  (`SweepHealsWhatItFound`);
* `CursorRises`: while a sweep runs its cursor never goes back and each row that is dealt with
  takes it further: no row is visited twice, the safety half of `SweepEnds`;
* `MirrorUndisturbed`: the two theorems of the mirror, in the shared table.

`Pending`: as long as no row failed, every row that was found text-only and is
still as it was found is beyond the cursor or on the page with its present text
(`Ahead`), so that none is left when the sweep comes to its end. It needs
`Found`: ids are never reused and edits only count up, so that a touched row
stays touched. `Onward`: a page ascends and lies beyond the cursor. The mirror's
theorems are taken over through an instance of `MemoryMirrorProofs`
(`SameMirror`, `MirrorKeeps`): the sweep's one write changes no text.

### Maintenance: `MaintenanceProofs`, from `MaintenanceAssumption`

* `TypeCorrect`, `Reports` (`ReportsWhatItDid`), `ForceGuardHolds`
  (`ForceGuardWhenQuiet`);
* `RemapMerges`: `Spec => RemapMergesWhenQuiet`.

`Command_OK`: only the operator that holds lock 9999 is past its first
statement. `Effects_OK`: the ids of an uncommitted transaction belong to it
alone, and the turns it will take away are there. `StillTrue` carries the
result: what a command has counted, copied and deleted under the lock is still
what its next statement will find, as long as no agent's commit raced it. The
rest is counting: duplicates and copied rows add up (`Finite`), and `INSERT ...
SELECT` hands out one new id per row (`NewIds`).

### Turn capture: `TurnCaptureProofs`, from `CaptureAssumption`

* `TypeCorrect`, `TurnsOnce` (`NoDoubleWrite`), `BackstopHolds`
  (`BackstopCapturesTexts`).

`Fingerprinted`: until the fingerprints are reset they know every text that was
stored or queued, hence no text is written a second time. `Kept`: what they know
is stored or queued, unless a drain dropped it. `Visited`: while a replay runs,
each text of its transcript is captured or among what it has still to visit, and
`Spoken`: all of that was said.

### Embedding client: `EmbedClientProofs`, from `ClientAssumption`

* `TypeCorrect`, `CallsAreBounded` (`CallBounded`), `PrefetchReturns`
  (`PrefetchWithinHost`), `DrainWaitsForOne` (`DrainDelayBounded`),
  `FaultsAreAbsorbed` (`FaultsAbsorbed`), `DimensionIsNamed`
  (`MisconfigurationNamed`).

`Timely`: the attempt `k` begins by `Begins(c, k)`, which adds up the timeouts
and back-offs before it; under a total budget the last one begins by
`LastBegins(c)`; each further piece of an answer adds one timeout to either. The
bound of a call is that of its last attempt. `OneCall`: what a drain has spent
on embedding is within the call that was under way when the flag was set.
`Broken` counts a fault for each failed attempt; `Named` says which error a call
carries at each of its stages. Back-offs double, and the provers know nothing of
`2^n` and cannot be given induction, so `Powers` obtains `2^(n+1) = 2^n + 2^n`
by counting subsets: the library has the cardinality of a power set.

### Lifecycle and identity: `ProviderLifecycleProofs`, from `IdentityAssumption` and `LifecycleAssumption`

First, of `Identity` alone (folding is idempotent and leaves the bucket names
alone, which no regular expression matches): `NormalizeIdentity` returns
governed names only (`NormalizedIsGoverned`), aliases or not, and a governed
name without an alias is a fixed point (`GovernedIsFixed`). With a chain of
aliases normalisation is not idempotent: one step is taken. Then:

* `TypeCorrect`, `AttributionHolds` (`RowsAttributed`), `StoredNamesGoverned`
  (`IdentityGoverned`), `ReadGateHolds` (`RecallGate`).

The invariant says what a call may rely on although no lock protects the
attributes: outside the first assignments theme and write gate are those of one
request, and the session is of that theme unless a switch was overtaken by an
`initialize()` (`Stage`, `Paired`); a call that has overlapped no `initialize()`
holds the live ones (`Calls`), because an `initialize()` that is among those
assignments has begun during the call or was seen when it began; so each write,
wherever it is, has the theme of a request that may write and a session of that
theme (`Writes`), and each filter keeps out what its
theme may not read (`Gate`). `AttributesMove` is the lemma that carries it: it
says when the attributes move. A governed name comes in by
`NormalizedIsGoverned`; the filter by session is safe because a row of a session
has the session's theme (`KeptRows`). Last, about the change of writers and
stores:

* `WritesStored` (`AcceptedWritesStored`), `WritesInOrder` (`AppliedInOrder`);
* `PoolsClosed`: `Spec => PoolsStayClosed`.

They share the invariant `HInv`, which is about one session's writer and store
giving way to the next one's. `Numbers`: a writer, a store, a drain or a pending
write has a number that an `initialize()` has given away, so that a new writer
starts empty. `Handover`: a writer comes after its store and goes before it, and
a call that still holds a writer that was taken away will put a late write.
`Emptied`: a writer that was taken away, or whose join may return
(`Joined`: its thread has ended, or a late write has started it again and
cleared its flag), has late writes only unless it is abandoned; a thread that ends under its
flag has looked at its queue or counts as abandoned. With `Handover`, this is why no
other write finds `self._store` `None`. `Sorted` and `Younger`: the numbers of the writes rise
along each queue, and a regular write of the current writer is younger than all
that is stored or pending elsewhere, from which the order of the commits
follows. `Pools`: an open pool is the current store's, and a store in use by a
thread or a call is the current one or closed.

### What is assumed, and what is left to TLC

The assumptions are about constants only: sizes and bounds are numbers (positive
where the code clamps them), a placeholder such as `NoThread`, `NoText`, `Null`
or the text of a write that is no turn is not a real value, every text matches
itself under LIKE. TLC evaluates them on every run.

Only model-checked are the five liveness properties, `LiveThreadHandlesAll`,
`SentinelDoesNotCutOff`, `DrainTerminates`, `RequestServedOutsideExit` and
`SweepEnds`: fairness and `ENABLED` are out of the prover's reach.
`RequestsAttended` and `CursorRises` prove what of the last two is safety. The
expected violations of section 4 are TLC's counterexamples.

## 6. Not modelled, and why

* Ranking and formatting of recall, SQL full-text search, the system prompt
  block, configuration coercion, packaging: data and layout.
* `register_agent`, `record_delegation`: single upserts of tables that nothing else
  here writes; `record_delegation` takes part in `TurnCapture` as a write that uses
  up a slot. `scan_pii` and the reports only read.
* Migrations, `ensure_schema`, `apply_migration_as_admin`: scripts of DDL that
  PostgreSQL runs in order, each in a transaction; what they guarantee
  while agents write is PostgreSQL's lock and `ON CONFLICT` semantics, which
  nothing in the code states.
* In `ProviderLifecycle`: the registration of the agent, the probe for
  migration 002, the cached prompt block, the other effects of `on_session_switch()` (log
  signals; the fingerprints are in `TurnCapture`). In `MemoryMirror`: an `initialize()`
  that ends unhealthy, which is to the mirror as none. In `Identity`: the regular
  expressions themselves and `classify_kind()`, a label of registry rows.
* In `Maintenance`: dry runs (they only read), a cleanup of one table alone, the
  best-effort audit row, the prompts of the command line.
* Clocks outside `EmbedClient`: budgets and timeouts appear as nondeterministic
  failures or returns.
* Malformed configuration of the embedding client: a base URL that urllib cannot
  parse, a negative back-off, a dimension that is not a number.
* The memory target (`memory`, `user`): scopes never meet, one is modelled.
* The Python-side second test for blank text in the sweep (1293): in the model
  SQL and `str.strip()` agree on what is blank.

## 7. Plan

Done: (1) `AsyncWriter` with `WriteLog`; (2) `Prefetch`; (3) `MemoryRows`
and `MemoryMirror`; (4) `Backfill`, composed in `MemoryTable`; (5)
`Maintenance`; (6) `TurnCapture`; (7) `EmbedClient`; (8) `Identity`;
(9) `ProviderLifecycle` with the read gate. All their safety properties are
proved.

Next, in this order:

1. The refinement of a session's writer in `ProviderLifecycle` to `WriteLog`, which
   needs the writes that its drain has handled as a variable of their own, so that
   the two models of the queue are tied by a theorem rather than by their comments.
2. The same for the queue of `MemoryMirror`.
