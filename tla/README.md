# A TLA+ model of toffee

toffee is a local memory daemon for coding agents. Clients append conversation
events; a background worker extracts candidate memories from them, stores and
embeds them, and files contradictions; agents search the result. This directory
models the parts of it where order, overlap, errors and kills matter, checks the
models with TLC on small instances and proves the central properties with TLAPS.

Line numbers are in `PROJECT.json` under `map`; paths are relative to the
repository.

- [Inventory](#inventory): what the system consists of
- [Modules](#modules): what models what
- [Runs](#runs): what TLC checks, and the bounds
- [Findings](#findings): where code and documentation disagree
- [Proofs](#proofs): what holds for every value of the constants
- [Left out](#left-out) and [Plan](#plan)

## Inventory

`toffeed` is one process: a SQLite store behind one mutex, an in-memory vector
index behind a read-write lock, one worker task, one task per connection, and
blocking tasks (`spawn_blocking`) in which the runtime's methods run. Each
`Store` method takes the mutex, runs one statement (or one short sequence) and
releases it, so **a method is atomic and a sequence of methods is not**. That is
the grain of every action below.

| component | state | operations | what makes it correct |
|---|---|---|---|
| event log (`toffee-store/events.rs`) | table `events`, ordered by `(created_at, id)` | `append_event`, `events_after`, `count_events_after` | what is appended is read, in order, by the worker |
| worker (`toffee-runtime/worker.rs`) | checkpoint and failure rows in the store; batch, permit, lag flag in memory | `run`, `drain_once_sync`, `process_event`, `record_conflict`, `check_lag_and_maybe_notify` | no event passed silently; a kill repeats little; one bad event does not stop the queue; subscribers learn that lag is over |
| memory rows, embeddings, index (`memories.rs`, `embeddings.rs`, `toffee-vector/index.rs`) | tables `memories`, `embeddings`; side table of the index | insert, `embed_and_index`, `forget_memory`, supersede, `rebuild_indexes`, `load_index_from_store` | a stored memory is found, a retired one is not; a `seq_id` names one memory |
| conflicts (`conflict_detector.rs`, `conflicts.rs`, `resolve_conflict`) | table `conflicts`, `superseded_by` and `deleted_at` of memories | detect, open, extend, resolve (pick, merge, reject all) | contradictions that are both active are listed in an open conflict; a resolution decides |
| promoter, scalars | none | `decide`, `adjust` | thresholds and clamping |
| feedback | confidence column | `record_feedback` | every feedback counts |
| entities (`entity_resolver.rs`, `entities.rs`, `entity_page.rs`) | tables `entities`, `memory_entities` | find or create, link, pages | one entity per name; a memory is on its entities' pages; a bad name fails one event only |
| extractor | none | `extract` | regular expressions |
| read path (`read_path.rs`, `search_memory`) | none; reads tables, index, weights | collect, score, allocate | reads see earlier writes; the best candidates within the budget |
| provenance, status | cache of 64 reports | `inspect_provenance`, `worker_status` | a recent package can be explained |
| tap (`toffee-tap`) | registry file of offsets and inodes | tail, rotate, map, deliver | every turn delivered |
| rpc (`toffee-rpc`) | one task per connection | dispatch, respond, notify, close | requests done in order; what a notification passes over is one request |
| client, MCP server (`toffee-client`, `toffee-mcp`) | pending calls, one shared client | call, reader loop, retry once | each call gets its own answer, and gets one |
| daemon (`toffeed`, `daemon.rs`) | pid file and lock, socket, shutdown channel | start, stop, spawn, poll | one daemon at work on the store; socket and pid file lead to it; a stop stops it |
| store plumbing | one connection | migrations, lock | atomic methods |
| embedders, command line, evaluation harness | none shared | | |

How they interact: clients call the runtime over RPC; `append_event` inserts and
leaves one permit in a `Notify`; the worker takes the permit (or its idle poll
fires), reads past its checkpoint, and calls extractor, promoter, entity
resolver, embedder and conflict detector in turn; retirement by people
(`forget_memory`, `resolve_conflict`) runs at the same time on other threads and
meets the worker only in the tables. A start reloads the vector index from the
table before the worker and the server begin.

An agent's tool call goes through `toffee-mcp`, which shares one client between
all calls, to a connection task, and through `spawn_blocking` into the runtime.
`toffee daemon start` and every auto-spawning client may start a `toffeed`; the
pid file's lock decides which of them lives.

What is hard here: calls on several threads that read, decide and write under
different locks; two copies of one fact (table and index) written one after the
other; keys taken before the lock that orders the inserts; a kill or an error
between any two writes; files that are rotated under a reader; reads cancelled in
the middle of a line; locks on an inode whose path is unlinked. `PROJECT.json`
lists these places under `hazards`, each with the properties that watch it.

## Modules

| module | models | state |
|---|---|---|
| `Worker` | `append_event` and the worker loop, from the stamp of an event to the checkpoint behind it | log, checkpoint, failure rows, memory rows; the loop's position; permit; lag flag |
| `EventLog` | abstract: a log and a position that moves over it | log, position, what was passed, what came late |
| `WorkerProofs` | proofs: the safety of `Worker`; `Worker` implements `EventLog` | |
| `MemoryIndex` | rows, embeddings and index under concurrent insert, retire, rebuild and restart | the two tables, the side table, one program counter per task |
| `Conflicts` | one subject and predicate: detection, filing and resolution of contradictions | memories with scope and object, conflicts, the worker's and each resolver's position |
| `Entities` | find-or-create of entities by the worker and by `add_memory` calls, linking, pages | entities, rows, links, embeddings; the position of each call; checkpoint; whether the worker task lives |
| `ReadPath` | `read_context`, `search_memory`, `inspect_provenance` next to `record_feedback`, `forget_memory` and `set_scoring_config` | rows with confidence and `updated_at`, points and side table, provenance ring, the weights; the position of each call |
| `Tap` | tailing of session files and delivery of their turns | the files; position per file in tailer, registry and registry file; the round's position, lines and turns in hand |
| `Rpc` | MCP tool calls over a shared client, the client's reader, the daemon's connection tasks, exits and restarts | per call, per connection at either end; the cached client; whether the daemon is up |
| `Daemon` | pid file, lock, socket, start-up, shutdown and exit of `toffeed`, and the start and stop commands | per process and per inode; the two paths; each command |
| `MemoryIndexProofs`, `ConflictsProofs`, `EntitiesProofs`, `ReadPathProofs`, `TapProofs`, `RpcProofs`, `DaemonProofs` | proofs: the safety of the module each is named after | |
| `MC*` | constants and symmetry for TLC | |

How they compose. `Worker`, `MemoryIndex`, `Conflicts` and `Entities` meet in
`process_event`: `Worker` has the order of its calls (insert, link, embed, file)
and what an error between them leaves behind, each call as one step; the other
three take one of these steps apart and run it against the other callers of the
same tables. `ReadPath` reads what these write; its `Unindex` is the end of
`forget_memory`, whose races with an insertion are in `MemoryIndex`. `Rpc` is the
way into all of them: what an action of another module calls a call of
`add_memory` may happen twice, as `RepeatedOnlyAfterLoss` bounds. `Daemon` says
why there is one worker at a time (`SoleDaemon`), which every other module takes
for granted; `Exit` and `Restart` of the others are its `Kill` and `Load`. The
others also take it that a restart ends the calls of the daemon before, which is
so unless it was stopped with a request at work: that request may go on next to
the new daemon until it is done (see [Findings](#findings)).

### Worker

Events are identified with their keys `(created_at, id)`, numbered in key order.
`Stamp` takes a key before the store lock, `InsertEvent` inserts under it and
leaves the permit; between the two another appender may overtake. `Fetch` is
`worker_checkpoint` with `events_after` (first `BATCH_SIZE` past the checkpoint).
`Discard`, `InsertMemory`, `LinkEntities`, `EmbedAndIndex`, `RecordConflict`,
`FinishEvent` are `process_event`; any of its calls may fail (`ProcessFails`),
which is recorded (`RecordFailure`, or only logged if that fails too) and then
passed like a success (`SetCheckpoint`). An error of the checkpoint calls
themselves leaves `run` through `?`: `pc = "dead"`, the daemon lives on.
`CheckLag` follows a non-empty batch. `WakeNotified`, `WakeIdlePoll`, `Shutdown`
are the `select!`; `Exit` is a kill at any point, and takes what is in memory.

What the extractor finds in an event and how the promoter decides on it is an
input: a sequence over `Discard`, `Episode`, `Promote`, `Unlinkable`, the last
for a candidate whose entity cannot be resolved on any attempt (see the hazards
about entities for how that happens). `overtaken` is a history variable: keys
inserted behind what the worker had read by then.

### MemoryIndex

A task is idle or inside one call. Inserting: `InsertMemory`, `EmbeddingExists`,
`InsertEmbedding`, `InsertWithSeq`. Retiring (forget, and each turn of the loops
of `resolve_conflict`): `Retire`, `DeleteEmbeddings`, `Forget`. Rebuilding:
`ClearEmbeddings`, `ClearIndex`, `ListMemories`, then `NextMemory` and the
embedding steps for each. `Fail` ends a call at a store or embedder error,
`Restart` ends all and sets the side table to the table. Vectors are left out: a
memory may be found exactly if the side table holds a point of it, because
`get_memory` returns deleted and superseded rows as well.

### Conflicts

Everything is about one `(subject, predicate)`: claims with others never meet.
A claim has a set of scopes and an object. `Detect` is
`conflict_detector::find`, `InsertClaim` `insert_memory`, `Lookup`
`find_unresolved_conflict_for_spo`, `ExtendFound`/`ExtendOwn` one
`extend_conflict` each, `OpenConflict` `insert_conflict`. `Resolve` is the
reading half of `resolve_conflict` with its checks, `InsertMerged`,
`RetireLoser` and `CloseConflict` its writes. `AddMemory` and `ForgetMemory` are
what people may do meanwhile.

### Entities

A call is an `add_memory` or the processing of one event. `Begin` is
`insert_memory`, which comes first; then for the subject and the object
`SkipName` (`clean_name`, the stoplist and the length rule), `NamePanics` or `Find`
(`find_entity_by_name`) and `Create` or `CreateFails` (`insert_entity` against
`idx_entities_name_unique_active`); then `Scan` of the text or `ScanPanics`, `Link`
per entity, and `Embed`. A name is a spelling with two lower-case forms, `Lower` by Rust's
Unicode rules and `SqlLower` by SQLite's ASCII ones; `Splits` are the names that
`strip_prefix_ci` cannot slice. `contains_whole_word` slices by bytes too: it leaves
an occurrence that is not a whole word by one byte, and so panics when that
occurrence begins with a longer character (entity "öl", text "ölpreis"). `Cut` are
the names that do this to a call's text; whether the scan panics then depends on
which entities exist, hence on the calls before. A panic in a handler is an error to its caller;
in the worker it goes past the error branch of `drain_once_sync`, `run` returns,
and `worker` becomes `"ended"` with the event in front of the checkpoint. A refused
insert, by contrast, is an error that is caught, recorded and passed
(`Checkpoint`); it is what `Worker` calls `Unlinkable`.

### ReadPath

One query. `Search` is the vector search (oversampled, then filtered by scope),
`Anchor` one `memories_for_entity`, `Recent` `list_memories` with its `LIMIT`
*before* the scope filter, `Fetch` one `get_memory`; the last of them goes on
through `Compiled` to scoring and allocation (`Package`), which touch no shared
state and use the weights copied by `Begin`. `Report` is
`ProvenanceCache::insert`. `FeedbackRead` and `FeedbackWrite` are the two halves
of `record_feedback`, `SoftDelete` and `Unindex` those of `forget_memory`.
Similarities and confidences are integers in hundredths; recency is the rank of
`updated_at`.

The hits of the index are a set, from which `Fetch` takes the nearest; `found`
keeps the order in which `search_memory` returns them. A source's rows are a
function from memories to the row as it was read, and `Merge` keeps the first row
of a memory found twice, as `or_insert_with` does. `Sorted` is *the* sequence
ordered by score and `updated_at`, and `Allocate` the longest beginning of it of
which every item fits, which is where the loop of `allocate_bucket` breaks. What
a call held and returned stays on record after it. `due` (the confidence a memory
has if each feedback is applied, when it returns, to what the one before left),
`gone`, `raced`, `reported` and the `asof` of a read are history.

### Tap

One file source. Agents create, extend (`BeginLine`, `FinishLine` for a line
written in two parts), remove and truncate files. A round is `BeginRound`
(`rediscover` with `open_with_registry`), then for each tailer `Stat` (metadata,
rotation and truncation checks), `Read` (open, seek, up to `BATCH` lines) and one
`Parse` per line, which moves and saves the registry; then `Deliver` per turn.
`ReadFails`, `DeliverFails` and `Stop` end the process: an error anywhere leaves
`run` through `?`, and a shutdown drops `drain_round` where it awaits, which
leaves the same state as a kill. A line that is not UTF-8 is such an error, and so
is an unfinished line that for now ends inside a character (`MayBeCut`). `Save` may
fail, and its callers ignore that; `Load` starts with an empty registry if the file
cannot be read. Both cost positions, which `lost` records: at once if it is the
load, when tap ends before the next save if it is that (`unsaved`). A line that is
too long is passed and not returned (`jsonl_tail.rs:5` calls that "split").

Offsets count lines, that is, all lines have one length: a file that is cut and
grows past the old offset unnoticed is then read from a line's beginning, where
the code may land inside a line and skip it as unparsable. `shadowed` collects the
lines written behind a remembered position of the same inode, which tap has no
means to notice, and those begun behind the position at which the next `Read` will
seek while the registry still names the file's inode: an inode number that comes
back after two replacements. The lines in hand are kept under the position after
each, which is what the registry is set to once it is parsed. Claude Code and Codex sources differ in one point: a Codex turn
needs a session, which the source remembers per path from the header it parsed last
there (`known`, `HasSession`). Each line carries the session of the file it was
written to (`OwnHeader`), so that a turn that goes out under another one is seen
(`misfiled`): the new file of a path is read past its header when a rotation comes
between metadata and open, or when a truncated file has grown again.

### Rpc

A tool call takes the cached client or connects (`TakeClient`, `Connect`),
registers (`Insert`), writes (`Write`) and waits; `Answered` and `Closed` are the
two ways the wait ends, and `Lose` with `Invalidate` is `call_with_retry`. A client
that nobody holds any more is dropped at once (`DropUnheld`), with what was on its
way to it. `ReadFrame` and `EndReader` are `reader_loop`. In the daemon a
connection task is at its `select!` (`Selecting`) or has a response to write.
`SendNotification` drops the read in progress, and with it the first bytes of the
next line if they had arrived (`torn`). The rest then does not parse and the
connection is closed (`ReadTorn`), or it is the newline only, which
`read_message` passes over as a blank line: the connection goes on and nobody
answers that request (`SkipBlank`). `Dispatch` runs the handler. Whether a call's
request, or its answer, is longer than a frame may be is fixed for the call (`size`):
a repeated call has the same lines. `RefuseLong` closes the connection on such a
request; such an answer (`big`) ends the reader of the client. A daemon that is
stopping listens until `serve` sees the message, so a call may still connect
(`hasty`), and nothing makes a task spawned after the broadcast end before the
process does: `CloseOnShutdown` may happen and is not owed. The lines of a connection
are numbered; `served` is a history of the places of those that were dispatched.

### Daemon

Main's steps in their order: `OpenPid`, `Flock`, `Truncate` (a second open, by
path), `WritePid`, `Bind`, `Load`, `Subscribe`, `Receive`, `Join`, `RemoveSocket`,
`UnlinkPid`, `Close`, `Exit`. Locks are on inodes and paths name inodes, which is the
whole difficulty: `UnlinkPid` comes before the lock is released by `Close`, and a
daemon may sit between `OpenPid` and `Flock` with an inode that no path names any
more. `Die` is what the kernel does for any process.

`Join` waits for the server, the worker and the watcher (`main.rs:195-200`), not for
the connection tasks `serve` spawns nor for the requests these have on blocking
threads. A request at work on the store is `handling`: `Handle` begins one while
somebody serves it (`Connected`; a connection accepted after the broadcast has
missed it), `HandleEnds` ends it, at any time. `Close` gives up the lock and drops
the runtime, `Exit` is the wait for the blocking requests in that drop
(`main.rs:90`). The commands are
`StartConnect`, `StartSpawn`, `Poll`, `Hello` and `StopConnect`, `Ask`, `ReadPid`,
`Sigterm`. `straggler` is a history variable: a pid file was unlinked while a
daemon stood between open and flock.

## Runs

| run | expect | checks |
|---|---|---|
| `worker` | pass | `TypeOK`, `AccountedFor`, `ReplayOnlyLast`, `LagClearedWhenIdle`, `QueueDrains`, `ImplementsEventLog` |
| `worker_order` | violation | `AtLeastOnce` |
| `memory_index` | pass | `TypeOK`, `SeqNamesOneMemory`, `RetiredNotFound`, `StoredIsFound`, `RebuildRepairs` |
| `conflicts` | pass | `TypeOK`, `ContradictionFiled`, `ClosedIsDecided`, `OpenConflictsDisjoint`, `SurvivorUnlessStale` |
| `entities` | pass | `TypeOK`, `OnItsPages`, `OneEntityPerName`, `AloneSucceeds`, `EventsPassed` |
| `entities_panic` | violation | `FailureIsolated` |
| `read_path` | pass | `SeesEarlierWrites`, `PackageRanked`, `ExplainedWhileRecent`, `FeedbackCounts` |
| `tap` | pass | `TypeOK`, `NothingSkipped`, `OnceUnlessReplaced`, `OwnSession`, `TurnArrives` |
| `tap_kill` | violation | `AtLeastOnceDelivery` |
| `rpc` | pass | `OwnAnswer`, `RequestsInOrder`, `RepeatedOnlyAfterLoss`, `OneFaultHidden`, `CallsReturn` |
| `rpc_deaf` | violation | `CallsAlwaysReturn` |
| `daemon` | pass | `SoleDaemon`, `SocketLeadsToServer`, `PidFileNamesServer`, `ShutdownObeyed`, `CommandsReturn` |

**`worker`.** An event the checkpoint has passed has all its candidates stored,
linked, embedded and filed, or its failure was reported, or it was overtaken
(`AccountedFor`). A later run stores an event again only if the run before had
reached nothing after it (`ReplayOnlyLast`). With no store error the lag flag is
down when the worker waits on an empty queue (`LagClearedWhenIdle`). Every
inserted event is passed as long as the worker lives, also behind one that
always fails (`QueueDrains`). And all of this is an `EventLog`: a position that
moves over the log in key order, one event at a time, and jumps only over events
that came late (`ImplementsEventLog`, where `Passed`, the events behind the
checkpoint that are accounted for, stands for what the abstract position has
passed).

*Bounds.* Two appenders are enough for one to overtake the other; three events
and a batch of two give a full batch, a rest, and an event between two others;
one kill and one error, alone and together; six memory ids are as many as three
events can use when one is replayed. Two extractions: one that always fails, one
with a candidate to drop and one to keep. 1.1 million states.

*Fairness.* Weak fairness of `Drain` (the worker task, once it can run, is
scheduled by tokio, and no store call blocks for ever) and of `WakeIdlePoll`
(the `select!` has a timer branch). Nothing is assumed of clients, of the
permit, or of whoever stops or starts the daemon: `QueueDrains` excuses a worker
that is dead (`DrainFails`: an error of the checkpoint calls ends it), stopped or
down.

**`memory_index`.** A `seq_id` never stands for two memories, although a rebuild
empties table and index and the index has a counter of its own
(`SeqNamesOneMemory`). A memory whose retirement returned is not found, across
restarts too, unless it was retired under a task that had yet to embed it
(`RetiredNotFound`). A memory whose insertion returned is found while it is
active, except during a rebuild, after one that was cut short, or if its row was
written between a rebuild's two clears (`StoredIsFound`). A rebuild that runs
alone repairs whatever came before (`RebuildRepairs`). The exceptions are real; see
[Findings](#findings).

*Bounds.* Two memories, two tasks: every race above is between two calls, and a
second memory is what a shared `seq_id` or a lost point would be confused with.
Four rows are enough to embed both, rebuild, and embed both again. One restart
and one error. 2.2 million states up to symmetry of memories and tasks. Three
tasks without errors and restarts (4.6 million states) gave nothing new.

**`conflicts`.** Two active contradicting memories that the worker has stored
are listed together in an open conflict, unless one came to its conflict after
the resolver had looked (`ContradictionFiled`). Of the memories a closed
conflict's resolver saw at most one is active, none after a merge or a rejection
(`ClosedIsDecided`), also if calls overlapped or were killed before. Open
conflicts share no scope (`OpenConflictsDisjoint`). Superseding never leaves
nothing, unless a winner had itself been superseded (`SurvivorUnlessStale`).

*Bounds.* Two claims that contradict where their scopes meet, one scope set
inside the other; two resolvers, since the races are between two calls or a call
and the worker; three memories (two sides and a merged or third one), two
conflicts (one closed, one open), one error or kill. 4.2 million states up to
symmetry of the resolvers.

**`tap`.** No position (tailer, registry, registry file) passes a turn of its file
that is not stored, in hand, dropped when tap ended, without a session, or
shadowed (`NothingSkipped`). A turn is stored twice only if its file was removed
or truncated, or its position was lost, by a failed save before tap ended or by a
registry that could not be read (`OnceUnlessReplaced`). A Codex turn is dropped for
want of a session only in a file that was taken up in the middle, and sent under
another one only in a file that was replaced (`OwnSession`). Every waiting turn is
sent as long as tap runs (`TurnArrives`).

*Bounds.* One Codex rollout, which has the richer parsing; four lines, so that a
header and a turn fit before and after a replacement; a batch of two; one removal
or truncation, one stop, one error; two inode numbers. 814 thousand states. Also
explored without the liveness property: two replacements (10.6 million states for a
Claude Code session, 2.7 million for a rollout), after which a path can come back
to an inode the registry still names. The theorems hold for every bound.
`tap_kill` has two Claude Code sessions.

*Fairness.* Weak fairness of `DrainRound`: the loop of `Runner::run` sleeps for
five seconds at most, and the daemon is assumed to answer. Agents, users and
whoever starts tap owe nothing.

**`entities`.** The memory of a call that returned is on the pages of its subject
and its object, whatever other calls did (`OnItsPages`). Concurrent
find-or-create makes one entity per name without regard to case
(`OneEntityPerName`). Both except names SQLite cannot lower: such an entity is
never found again, and the next insert of it is refused. A call that runs alone fails
only because of such a name, one that cannot be sliced, or an entity made earlier
that cuts its text (`AloneSucceeds`); one that overlapped another may also be the
slower of two callers, to which the unique index gives an error. Every event is
passed if no name of it or of an event before it panics, and no entity ever cuts
the text of one of them (`EventsPassed`).

*Bounds.* Two adds and two events; seven spellings, which are one of each kind
(a pair that differs in case, a pair that only Rust folds, a sliced one, a
skipped one, one that cuts the text of a later call) and shared between the calls
so that each pair of calls meets on some name; one restart. 40 thousand states. *Fairness.* Weak fairness of every
call's step and of the worker's. A client need not call, the daemon need not be
restarted: the worker that ended stays ended.

**`read_path`.** A read returns nothing whose `forget_memory` had returned before
it began, no row older than its last feedback, and, if nothing is written
meanwhile, considers every visible memory among the `RECENT_WINDOW` last updated
(`SeesEarlierWrites`). `read_path.rs:71` speaks of the "most-recently-updated
memories in scope", but the limit is taken over all scopes first, so other
projects' memories can crowd a caller's out; the property says what is left.
A package is, kind by kind, the best of its candidates above the floor, best
first, cut at the kind's number and budget, under the weights of the moment the
read began (`PackageRanked`). The first item of a kind is taken whatever its size,
so a package can be larger than the token budget, against `toffee_rfc_v1.md:108`
("fitted to the requested token budget"); the property says that only a single
item exceeds its kind's share. The latest `Capacity` packages are explained, item
by item (`ExplainedWhileRecent`). A memory's confidence is its first one moved by
each feedback in turn, unless two overlapped (`FeedbackCounts`).

*Bounds.* Five memories, of which one is too large to share a budget, one is of
another kind and oversized, and one belongs to another project and is newest; a
recent window of two, so that it crowds; two kinds; two reads, so that reports are
inserted in the other order of their beginnings; a cache of one, so that it
evicts; two feedbacks, one forget, one change of weights, one error. 1.6 million
states up to symmetry of the reads and of the feedbacks. The theorems hold for any
memories, queries, weights and numbers of calls.

**`rpc`.** What a call reports was computed for its own request, across shared
clients, reconnects and late answers (`OwnAnswer`). The daemon executes the
requests of a connection in the order they were written, none twice, and passes
over no more of them than it wrote notifications (`RequestsInOrder`). A method takes effect at most once more than its call lost
connections: never again after an answer (`RepeatedOnlyAfterLoss`). One fault
alone is never reported as a lost connection, if all lines fit and nobody connects
to a daemon that is stopping (`OneFaultHidden`). Every call returns unless its client
went deaf (`Unheard`) or its line was torn down to the newline (`PassedOver`;
`CallsReturn`).

*Bounds.* Two calls, one that writes and one that reads: enough to share a
client, to invalidate each other's, and to be torn. Three connections are as
many as two faults can use up before calls give up. Two faults, because the second one
is what meets the retry of the first; a call with a line that is too long, of which
there is one at most, counts as one of the two. 656 thousand states. *Fairness.* Weak
fairness of each call, reader and connection task: tokio polls what is ready.
The daemon need not come back, `ConnectFails` then ends the call. `Emit`,
`Shutdown`, `Exit` are faults and are not owed.

**`daemon`.** No two daemons run on the store, and while one runs another one that
still touches it is past its pid file, its tasks have ended, and all it does is to
finish requests (`SoleDaemon`); while a daemon answers, the socket leads to it (`SocketLeadsToServer`) and the pid file names it
(`PidFileNamesServer`); all three unless a pid file was unlinked under a daemon
about to lock it. A daemon whose main was told to stop exits (`ShutdownObeyed`).
Every command returns, although `hello` and `stop` have no timeout once connected
(`CommandsReturn`).

*Bounds.* Two start commands with the daemons they spawn, one stop command, one
failed start-up, kill or signal. With two daemons a straggler finds no file to
write its pid to and ends; it takes a third one, which makes a new file, for two
to run. The proofs, which are for any number, show that this is the only way. 341
thousand states. *Fairness.* Weak fairness of each main, task and command, and of
`HandleEnds`: a request that was begun ends, on a thread of its own. Signals, kills,
failures and requests are not owed.

All runs say `CHECK_DEADLOCK FALSE`: with the bounds used up, a shut-down daemon
with no client is a state in which nothing more happens.

## Findings

Each violation run is a disagreement of the code with what the repository says;
`PROJECT.json` quotes the line.

- `worker_order`: event keys are taken before the lock. If the later key is
  inserted first and the worker passes it, the earlier one lies behind the
  checkpoint and is never read, against "at-least-once".
- `tap_kill`: the registry is saved before the turn is sent; what ends tap in
  between loses the turn, against "at-least-once delivery".
- `rpc_deaf`: an answer longer than `MAX_LINE_BYTES` ends the client's reader. The
  call that waited for it is failed and repeated; but a client stays cached as
  long as no call loses it, and a call that registers after the reader's last act
  is written to an open connection and never answered.
- `entities_panic`: an object such as "café" panics in a byte slice; the worker
  task ends, and ends again at every restart, with the event in front of its
  checkpoint, against "per-event failure isolation".

**What the excuses stand for.** Properties of passing runs make exceptions, each
for a race that TLC shows when the exception is taken out:

- `ReplayOnlyLast` allows the last event to be stored twice: a kill between
  `insert_memory` and the checkpoint replays it under fresh ids
  (`toffee_rust_plan_v1.md:458` calls the replay idempotent).
- `RetiredNotFound` excuses a memory retired under a task that has yet to embed
  it: `forget_memory` between `insert_embedding` and `insert_with_seq` leaves it
  searchable.
- `StoredIsFound` excuses a row written between the two clears of
  `rebuild_indexes`: it has no point and the rebuild skips it.
- `ContradictionFiled` excuses a claim that came to its conflict after a resolver
  had looked: it stays active in a closed conflict.
- `SurvivorUnlessStale` excuses a winner that was itself superseded: two
  overlapping picks both succeed and no claim is left active.
- `OnceUnlessReplaced` excuses a lost position: `Registry::load` starts empty on any
  error of `read_to_string`, not only when there is no file (`registry.rs:79-82`),
  and every turn of every file is sent again.
- `OwnSession` excuses a rollout taken up in the middle: its header is kept in memory
  only, so after a restart its further turns are taken for no turns. It also excuses
  a file that was replaced: `session_meta` is keyed by path, so the turns of the new
  file go out under the old file's session when the tailer goes on past the new
  header.
- `SoleDaemon` excuses the straggler: the pid file is unlinked before its lock is
  released, and a daemon that had opened it then locks an inode no path names
  while a third creates a new one. What it says of the others is weaker than one
  process per store: a `rebuild_indexes` that is running when its daemon is stopped
  goes on beside the next daemon, since `run` awaits neither connection tasks nor
  their blocking requests.
- `CallsReturn` excuses, next to the deaf client of `rpc_deaf`, a line torn down to
  its newline: it is skipped as blank (`framing.rs:29-31`), and `Client::call` has no
  timeout.
- `OneFaultHidden` excuses lines that are too long: the repeated call asks for the
  same answer or sends the same request, so the retry is lost as well, and each time
  it takes the calls that share its client with it. It also excuses a connection
  made to a daemon that is stopping, which is lost with it.
- `ShutdownObeyed` speaks of shutdowns main received. A request that comes after
  the server is up and before main subscribes ends the tasks only; main waits on,
  holding the pid lock, with nobody serving.
- `FeedbackCounts` excuses overlapping feedback: one of the two is lost.
- `OneEntityPerName` and `AloneSucceeds` excuse names SQLite does not lower.
- `AloneSucceeds` and `EventsPassed` excuse panics: of the name ("café", see
  `entities_panic`), and of the text scan. After some memory made the entity "öl",
  every call whose text has the word "ölpreis" panics, unless it is about "öl"
  itself, and an event with such a text ends the worker.

## Proofs

`WorkerProofs` proves, for any set of appenders, any extractions, any batch size
and any bounds (`WorkerAssumption` says only that the bounds are naturals and the
batch is not empty):

- `TypeCorrect`: `Spec => []TypeOK`
- `EventsAccountedFor`: `Spec => []AccountedFor`
- `OnlyLastReplayed`: `Spec => []ReplayOnlyLast`
- `LagCleared`: `Spec => []LagClearedWhenIdle`
- `AtLeastOnceInOrder`: if there is at most one appender, `Spec => []AtLeastOnce`

The last is the positive side of `worker_order`: the overtaking needs a second
connection. Without that assumption it is false.

**The inductive invariant** `IInv`. `AccountedFor` speaks of events behind the
checkpoint, and the checkpoint moves over the event at hand and over every key
up to it. So one has to know two more things.

- Nothing lies between checkpoint and event at hand that was not overtaken.
  `NoGap` says it for everything up to the end of the batch in memory: since the
  batch is a prefix of what lay past the checkpoint (`BatchIsPrefix`, from the
  ordering and the `LIMIT` of `events_after`), a key in the log inside its range
  is in it or came later. `LoopInv` fixes what `cur` and `batch` hold at each
  place of the loop.
- The event at hand is done when its turn ends. `ProgressInv` says that the
  candidates before the current one are stored, linked, embedded and filed, and
  `StageInv` how far the current one is. `TablesGrow` gives that nothing finished
  is undone.

`ReplayOnlyLast` needs `LastInv` (a stored event the checkpoint has not passed is
the last its run reached) and `RowInv` (rows belong to this run or an earlier
one). `LagInv` extends the lag property to the place just before the wait. For
one appender `InOrder` says that a stamped key lies above all of the log, hence
`overtaken` stays empty.

Each part has a lemma `…Step` with one step per action; `IInvStep` puts them
together.

**The refinement.** `WorkerProofs` also proves
`WorkerImplementsEventLog`: `Spec => ImplementsEventLog`. The mapping takes the
checkpoint for the position, `overtaken` for what came late and `Passed` for what
was passed in its turn. Three things make it work. By `AccountedFor`, `Passed` is
exactly the events behind the checkpoint that were not overtaken
(`PassedIsBehind`). By `NoGap`, everything between the old and the new checkpoint
was overtaken, so `SetCheckpoint` is one `Pass` (`AdvanceIsPass`). And keys are
fresh (`FreshKeys`), so `InsertEvent` is one `Append` (`InsertIsAppend`). All other
steps leave the abstract state alone; in particular a kill does, since nothing of
it is in memory.

**The index.** `MemoryIndexProofs` proves, for any number of memories, tasks and
restarts (`IndexAssumption`), all five invariants of the run: `SeqNames`
(`SeqNamesOneMemory`), `RetiredStaysGone` (`RetiredNotFound`), `StoredStaysFound`
(`StoredIsFound`), `RebuildMends` (`RebuildRepairs`) and `TypeCorrect`. `ShapeInv`
says what a task at each place of its call is working on; each hazard has its own
part on top of it.

- `FreshInv` and `SeqInv`: an id is inserted once, a `seq_id` handed out once. Two
  tasks about to index therefore hold different ones, and what they write cannot
  name two memories.
- `QuietInv` and `GoneInv`: a memory retired while nobody was to embed it is
  embedded by nobody later, since an insertion embeds only what it inserted itself
  and `ListMemories` lists what is active. Hence what `DeleteEmbeddings` and
  `Forget` took away is not written again. A memory that was on a task's list when
  it was retired is `raced`; nothing is checked again before it is embedded.
- `FoundInv`: a stored active memory has its row, or a rebuild has still to come to
  it; and with a row it has a point, or a task is about to index it. It leaves out
  what a rebuild that overlapped or was cut short may have lost (`skipped`).
  `RebuildInv` is the stronger form for a rebuild that is alone: whatever it has
  behind it is complete, and what it has not is on its list.

**Conflicts.** `ConflictsProofs` proves all invariants of the run for any set of
claims and resolvers and any bounds (`ConflictsAssumption`): `Contradictions`
(`ContradictionFiled`), `OpenDisjoint` (`OpenConflictsDisjoint`), `ClosedDecided`
(`ClosedIsDecided`), `Survivor` (`SurvivorUnlessStale`) and `TypeCorrect`.

- `FoundInv`: what the worker found when it looked still holds all that contradicts
  its candidate, because nobody else makes a memory watched, and what is retired
  does not come back (`ActiveShrinks`). While it extends a conflict, those it is
  through with are in it.
- `OpenInv`: from the look-up to the insert no conflict with a common scope appears,
  since only the worker opens one.
- `DecidedInv`: of what a resolver saw, the part it is through with is retired, but
  for the winner of a pick. What joined the conflict after that reading is `late`,
  and only that escapes.

`Left(k)` in the invariant is what `ClosedIsDecided` counts; the theorem adds that a
set all of whose elements are equal has at most one (`AtMostOne`).

**Entities.** `EntitiesProofs` proves, for any calls, names and restarts
(`EntitiesAssumption`): `OnPages` (`OnItsPages`), `OnePerName` (`OneEntityPerName`),
`SucceedsAlone` (`AloneSucceeds`) and `TypeCorrect`. Both forms of lower-casing stay
arbitrary functions. `UniqueInv` is what the `UNIQUE` index says, so two entities
never agree in `SqlLower`; `CoverInv` says that a call that is through with a name
holds the entity the look-up would return for it, and keeps holding it because
nothing is taken from the table (`CoveredKept`). `AloneInv` carries what a call read
over to its insert: without an overlap no other call can have taken the name. The
failures left to a lone call are a name on which the two rules differ, one that
cannot be sliced, and an entity that cuts its text. The last stays so after the call
has failed, because entities are only added (`ScanCuts`).

**The daemon.** `DaemonProofs` proves, for any sets of daemons and stop commands and
any number of faults (`DaemonAssumption`): `OneDaemon` (`SoleDaemon`),
`SocketLeads` (`SocketLeadsToServer`), `PidFileNames` (`PidFileNamesServer`) and
`TypeCorrect`. The invariant is `LockInv`, `TaskInv`, `RequestInv`, `FileInv`. `LockInv`: whoever
is past `Flock` holds the lock on the inode it opened, and as long as there was no
straggler, that inode, and the one of everybody about to lock, is the one the path
names. Hence two owners hold one lock and are one (`OneOwner`). `FileInv`: what the
owner wrote into the path's inode and bound at the socket is still there, because
every other writer would have to be an owner, too. `TaskInv`: tasks run only under
an owner, and `Join` waits for them, so that the socket is removed when nobody
answers any more. `RequestInv`: requests begin after `Load` and end with the process,
so a daemon that is not the owner and still uses the store is past its unlink; with
`OneOwner` that is `SoleDaemon`.

**The RPC path.** `RpcProofs` proves, for any set of tool calls with any methods and
any number of connections and faults (`RpcAssumption`): `AnswersOwn` (`OwnAnswer`),
`NoneSkipped` (`RequestsInOrder`), `OnceUnlessLost` (`RepeatedOnlyAfterLoss`) and
`TypeCorrect`. The invariant has four parts beyond the types.

- `HoldInv`: a client that is cached or held is not dropped, and connections not
  made yet are blank. It is what lets the others speak of live connections only.
- `IdInv` and `FrameInv`: an id below `next_id` was given to one call, and every
  line sent, answer in the making and frame on its way carries the id of the call
  it belongs to, as long as that call holds it (`Owned`). An answer may outlive its
  call; since ids are not given twice, nobody else takes it (`OwnedKept`).
- `ServedInv`: the lines executed are lines read, in their order (`Ordered`), and
  all lines read but one for each notification written. A line that is torn now has
  its notification already counted and is still to be read.
- `CountInv`: executions so far plus the lines still unread (`Unread`) are no more
  than the lines written. Reading moves one from the second to the first
  (`ReadCount`), only `Write` adds one (`WriteCount`), closing a connection takes
  some away (`UnreadShrinks`), and a call reaches its second `Write` only through a
  loss (`CallCount`). Counting unread lines is needed because a call may give up a
  connection and its line be executed all the same.

**One fault.** `FaultHidden` is `Spec => []OneFaultHidden`: as long as there was one
fault at most, no call was told that its connection was lost. It relates the calls
to the number of faults, and needs to know which connections can still break.
`FaultInv` says that before the first fault there is at most one connection and
every call is at its first attempt, and that the connections made after it are
`Healthy`. So the fault can only break the first connection. That is true of a shutdown
because the property speaks of behaviours in which nobody connects to a daemon that
is stopping (`hasty`), and of a torn line because all lines fit: a line that is too
long is a fault each time it is sent. A second attempt is made on another connection,
and a healthy one never ends the reader. `WaitInv` closes
the last gap: while its reader runs, a call that has no answer has its waiter, so
that it is not told of a closed connection by mistake. `KindInv` says that what
comes back is an answer or a frame nobody waits for.

**Tap.** `TapProofs` proves, for any files of either kind and any number of lines,
replacements, starts and faults (`TapAssumption`): `NoneSkipped`
(`NothingSkipped`), `StoredOnce` (`OnceUnlessReplaced`), `HeaderFirst`
(`OwnSession`) and `TypeCorrect`.

- `FirmInv`: a turn behind a position of the registry, or behind one that will be
  put there, is *firm*: sent, about to be, dropped, without a session, or shadowed.
  None of these is undone when a file is rotated. A turn behind the tailer's
  position alone may also be among the lines in hand, at its own index. That the
  registry *will* move has to be counted (`Ahead`): after `Stat` the tailer's inode
  is the file's, and the entry follows with the first line parsed.
- `PartialInv`: a line without its end is behind no position, unless it was begun
  there; otherwise finishing it would make a turn that was passed unread.
- `UniqueInv`: an id is that of one line of one file, for good, and what tap holds
  is of the file it was read from. Without it a turn could count as sent because
  another one was.
- `OnceInv`: while a file is only appended to and its position is not lost
  (`Excused`), registry
  file, registry, lines in hand and tailer are positions in the one file there has
  been, in this order (`Kept`); every turn sent or about to be is behind the
  registry (`Passed`), and the latter are there once (`Queued`). What is read is
  past the registry, hence new.
- `HeaderInv`: a rollout that was not resumed has its header remembered, or first
  in hand, before tap is past it.
- `SessionInv`: in a file that was not replaced all lines have the session of the
  first, and what is remembered for its path is that session. So a turn under
  another session is one of a file that was replaced.

**The read path.** `ReadPathProofs` proves, for any memories, scopes, entities,
lens, weights and limits, and any number of reads, feedbacks, forgets and errors
(`ReadPathAssumption`): `ReadsSee` (`SeesEarlierWrites`), `PackagesRanked`
(`PackageRanked`), `PackagesExplained` (`ExplainedWhileRecent`), `FeedbackApplied`
(`FeedbackCounts`) and `TypeCorrect`. Each read is a record, and `ReadInv(x)` says
of it what the tables have to respect; `ReadKept` shows that no writer breaks it
(`Moves`: a row keeps its `updated_at` or gets a later one), `ReaderMoves` that no
other read does.

- `TimeInv` and `Distinct`: rows in hand are no older than when the read began, and
  two of different memories never have one `updated_at`, since each is a value of
  the clock given out once. With that `Better` is a strict total order of the
  candidates (`RankingOrders`).
- `ChosenInv`: a package about to be reported is chosen well. A strict total order
  of a finite set has its sequence (`SortedExists`: an item's place is the number
  of those before it, and by counting every place is taken); the longest fitting
  beginning of it exists (`AllocateFacts`, by the least place that does not fit),
  and what is left out is behind it (`PackageChosen`).
- `HiddenInv`: what was forgotten before the read began is deleted and has no
  point (`TableInv`), so neither listing nor search hands it out, and what the
  read returns is among the rows it has.
- `ListedInv`: past `Recent`, if the clock stands where it stood at the beginning,
  nothing was written, and the recent rows in hand are the recent rows.
- `FeedbackInv`: two feedbacks on one memory at a time have `raced`; any other
  holds the row as it is, so what it writes follows from what was there.
- `RingInv`: the ring is the end of `reported`, backwards, and each report says
  what its read, now done, returned.

**Only model-checked.** Liveness (`QueueDrains`, `TurnArrives`, `EventsPassed`,
`CallsReturn`, `ShutdownObeyed`, `CommandsReturn`), which is out of the prover's
reach. Every invariant the runs check has its theorem. What `BudgetFor` and
`TokensOf` compute (sums over a function) is not looked into: the theorems hold
whatever they are.

## Left out

- Text: what the extractor's expressions match, how a summary is worded, how
  JSON is laid out. Where an outcome matters it is an input of the model.
- Vectors, HNSW, and the approximation in nearest-neighbour search. Which points
  exist is modelled; `ReadPath` takes the index to return the true nearest.
- Embedders (numeric code and an external model), the evaluation harness
  (offline, no shared state), and the command line apart from `daemon start` and
  `daemon stop`: argument parsing and printing around one client call.
- The conflicts section of a context package and of an entity page: a read of the
  open conflicts with no step of its own.
- Migrations: straight-line SQL at start.
- A clock that is set back (it would reorder keys even with one appender).
- The stdin source of tap and its multi-line accumulator: no position is kept and
  nothing survives a restart. Its one hazard, that `read_next` waits inside the
  round for up to 64 lines, is listed.
- `toffee daemon start --foreground`, which replaces the command by a daemon in the
  terminal: for the pid file and the socket it is a daemon like the others.
- The config watcher's own loop; the hazard that an edit before its first look is
  missed is listed. What its reload does is `SetScoring` of `ReadPath`.
- Disk corruption and a torn write: SQLite's transactions are trusted.

## Plan

What would add most, in this order:

1. A composition of `Rpc` with `Worker`: an event appended twice by the retry.
2. The stdin source, as a second source next to the file sources in one round.
