------------------------------- MODULE Worker -------------------------------
(***************************************************************************)
(* The event log and the background worker that replays it.                *)
(*                                                                         *)
(* Clients append events concurrently (Runtime::append_event).  An event's *)
(* key (created_at, id) is taken before the store lock, so keys and        *)
(* insertion order may differ.  One worker drains the log in batches past  *)
(* a durable checkpoint, turns each event's candidates into memory rows,   *)
(* and advances the checkpoint after every event, whether processing it    *)
(* succeeded or not.  The daemon may be killed between any two steps.      *)
(*                                                                         *)
(* Every call of a Store method is one step: the store keeps one           *)
(* connection behind one mutex and each method is one autocommit statement *)
(* (or one critical section).  Events are identified with their keys, and  *)
(* keys are numbered in key order from 1.  The clock is assumed not to be  *)
(* set back.  Inside the worker the vector index is left out (module       *)
(* MemoryIndex); so is what a conflict does (module Conflicts).            *)
(***************************************************************************)
EXTENDS Integers, FiniteSets, Sequences

CONSTANTS
    Appenders,    \* concurrent callers of append_event (RPC connections)
    Extractions,  \* what extractor::extract may return: sequences of decisions
    BATCH_SIZE,   \* events fetched per drain
    MaxEvents,    \* bound: events ever stamped
    MaxRestarts,  \* bound: times the daemon is started again
    MaxFaults,    \* bound: store or embedder calls that return an error
    MaxMemories   \* bound: memory ids generated

\* What becomes of a candidate: promoter::Decision, and apart from it the
\* promoted candidate whose entity can never be resolved (link_entities returns
\* an error on every attempt).
Decision == {"Discard", "Episode", "Promote", "Unlinkable"}

ASSUME WorkerAssumption ==
    /\ Extractions \subseteq Seq(Decision)
    /\ BATCH_SIZE \in Nat \ {0}
    /\ MaxEvents \in Nat
    /\ MaxRestarts \in Nat
    /\ MaxFaults \in Nat
    /\ MaxMemories \in Nat

VARIABLES
    candidates,  \* what the extractor makes of the event with each key (input)
    clock,       \* the last key handed out
    pending,     \* per appender: the key stamped and not yet inserted, or 0
    log,         \* table events: the keys inserted
    checkpoint,  \* table worker_state: last processed key, 0 when there is no row
    permit,      \* the Notify permit
    pc,          \* where the worker is
    cur,         \* the event the for loop is at, or 0
    batch,       \* the events of the fetched batch after cur
    next,        \* index of the candidate of cur being handled
    stage,       \* the step of that candidate
    rows,        \* table memories: one record per row
    lastId,      \* the last memory id generated
    linked,      \* ids whose memory_entities rows are written
    embedded,    \* ids with a row in table embeddings
    clashing,    \* ids inserted as one side of a contradiction
    filed,       \* ids that a row of table conflicts mentions
    failures,    \* table worker_failures: keys with a row
    warned,      \* keys whose failure row could not be written: log line only
    lagging,     \* the in-memory was_lagging flag
    run,         \* number of the daemon's current (or last) run
    faults,      \* errors injected so far
    overtaken    \* history: keys inserted behind what the worker had read

store == <<log, checkpoint, rows, lastId, linked, embedded, clashing, filed,
           failures, warned>>
worker == <<pc, cur, batch, next, stage>>
tables == <<rows, lastId, linked, embedded, clashing, filed>>
vars == <<candidates, clock, pending, log, checkpoint, permit, pc, cur, batch,
          next, stage, rows, lastId, linked, embedded, clashing, filed,
          failures, warned, lagging, run, faults, overtaken>>

Keys == 1..MaxEvents

PCs == {"drain", "process", "record", "advance", "lag", "wait", "dead",
        "stopped", "down"}
Stages == {"decide", "link", "embed", "conflict"}
Row == [id : Nat, src : Keys, cand : Nat, run : Nat]

TypeOK ==
    /\ candidates \in [Keys -> Extractions]
    /\ clock \in 0..MaxEvents
    /\ pending \in [Appenders -> 0..MaxEvents]
    /\ log \subseteq Keys
    /\ checkpoint \in 0..MaxEvents
    /\ permit \in BOOLEAN
    /\ pc \in PCs
    /\ cur \in 0..MaxEvents
    /\ batch \subseteq Keys
    /\ next \in Nat \ {0}
    /\ stage \in Stages
    /\ rows \subseteq Row
    /\ lastId \in Nat
    /\ linked \subseteq Nat
    /\ embedded \subseteq Nat
    /\ clashing \subseteq Nat
    /\ filed \subseteq Nat
    /\ failures \subseteq Keys
    /\ warned \subseteq Keys
    /\ lagging \in BOOLEAN
    /\ run \in Nat
    /\ faults \in 0..MaxFaults
    /\ overtaken \subseteq Keys

Init ==
    /\ candidates \in [Keys -> Extractions]
    /\ clock = 0
    /\ pending = [a \in Appenders |-> 0]
    /\ log = {}
    /\ checkpoint = 0
    /\ permit = FALSE
    /\ pc = "drain"
    /\ cur = 0
    /\ batch = {}
    /\ next = 1
    /\ stage = "decide"
    /\ rows = {}
    /\ lastId = 0
    /\ linked = {}
    /\ embedded = {}
    /\ clashing = {}
    /\ filed = {}
    /\ failures = {}
    /\ warned = {}
    /\ lagging = FALSE
    /\ run = 1
    /\ faults = 0
    /\ overtaken = {}

-----------------------------------------------------------------------------
(* Appending: Runtime::append_event, called by any number of RPC tasks.    *)

\* Store::append_event takes the id and created_at before the store lock.
Stamp(a) ==
    /\ pc # "down"
    /\ pending[a] = 0
    /\ clock < MaxEvents
    /\ clock' = clock + 1
    /\ pending' = [pending EXCEPT ![a] = clock + 1]
    /\ UNCHANGED <<candidates, store, permit, worker, lagging, run, faults,
                   overtaken>>

\* The worker has already read past this key: the checkpoint is beyond it, or
\* the batch in memory holds a later event.
ReadPast(k) ==
    \/ k <= checkpoint
    \/ k < cur
    \/ \E j \in batch : k < j

\* insert_event under the lock, then notify_one.
InsertEvent(a) ==
    /\ pc # "down"
    /\ pending[a] # 0
    /\ log' = log \cup {pending[a]}
    /\ overtaken' = IF ReadPast(pending[a]) THEN overtaken \cup {pending[a]}
                                            ELSE overtaken
    /\ pending' = [pending EXCEPT ![a] = 0]
    /\ permit' = TRUE
    /\ UNCHANGED <<candidates, clock, checkpoint, worker, tables, failures,
                   warned, lagging, run, faults>>

\* The insert returns an error: the caller is told, nothing is stored.
InsertEventFails(a) ==
    /\ pc # "down"
    /\ pending[a] # 0
    /\ faults < MaxFaults
    /\ faults' = faults + 1
    /\ pending' = [pending EXCEPT ![a] = 0]
    /\ UNCHANGED <<candidates, clock, store, permit, worker, lagging, run,
                   overtaken>>

-----------------------------------------------------------------------------
(* Draining: worker::run and worker::drain_once_sync.                      *)

\* Store::events_after without its LIMIT, and Store::count_events_after.
EventsAfter(c) == {k \in log : k > c}

\* A bug: the newest BATCH_SIZE events, ORDER BY ... DESC.
NextBatchDescending ==
    LET queue == EventsAfter(checkpoint)
    IN  {k \in queue : Cardinality({j \in queue : j >= k}) <= BATCH_SIZE}

\* Store::events_after: the first BATCH_SIZE events past the checkpoint.
NextBatch ==
    LET queue == EventsAfter(checkpoint)
    IN  {k \in queue : Cardinality({j \in queue : j <= k}) <= BATCH_SIZE}

First(k, S) == k \in S /\ \A j \in S : k <= j

\* The for loop goes on with the first event of S.
Begin(S) ==
    \E k \in S :
        /\ First(k, S)
        /\ cur' = k
        /\ batch' = S \ {k}
        /\ next' = 1
        /\ stage' = "decide"
        /\ pc' = "process"

\* worker_checkpoint and events_after.  Only the worker writes the checkpoint,
\* so reading it in the same step as the events loses no interleaving.
Fetch ==
    /\ pc = "drain"
    /\ NextBatch # {}
    /\ Begin(NextBatch)
    /\ UNCHANGED <<candidates, clock, pending, store, permit, lagging, run,
                   faults, overtaken>>

\* drain_once returned 0: wait for something to do.
FetchNothing ==
    /\ pc = "drain"
    /\ NextBatch = {}
    /\ pc' = "wait"
    /\ UNCHANGED <<candidates, clock, pending, store, permit, cur, batch, next,
                   stage, lagging, run, faults, overtaken>>

\* An error of either read leaves run through `?`: the worker task ends, the
\* daemon goes on without it.
FetchFails ==
    /\ pc = "drain"
    /\ faults < MaxFaults
    /\ faults' = faults + 1
    /\ pc' = "dead"
    /\ UNCHANGED <<candidates, clock, pending, store, permit, cur, batch, next,
                   stage, lagging, run, overtaken>>

-----------------------------------------------------------------------------
(* Processing one event: worker::process_event.                            *)

Processing == pc = "process" /\ next <= Len(candidates[cur])

NextCandidate == next' = next + 1 /\ stage' = "decide"

\* Decision::Discard.
Discard ==
    /\ Processing
    /\ stage = "decide"
    /\ candidates[cur][next] = "Discard"
    /\ NextCandidate
    /\ UNCHANGED <<candidates, clock, pending, store, permit, pc, cur, batch,
                   lagging, run, faults, overtaken>>

\* insert_memory under a freshly generated id: an episode, a promoted memory,
\* or, when conflict_detector::find reports a contradiction, its second side.
InsertMemory ==
    /\ Processing
    /\ stage = "decide"
    /\ candidates[cur][next] # "Discard"
    /\ lastId < MaxMemories
    /\ lastId' = lastId + 1
    /\ rows' = rows \cup {[id |-> lastId + 1, src |-> cur, cand |-> next,
                           run |-> run]}
    /\ \/ clashing' = clashing
       \/ /\ candidates[cur][next] # "Episode"
          /\ clashing' = clashing \cup {lastId + 1}
    /\ stage' = "link"
    /\ UNCHANGED <<candidates, clock, pending, log, checkpoint, permit, pc, cur,
                   batch, next, linked, embedded, filed, failures, warned,
                   lagging, run, faults, overtaken>>

\* link_entities: entity_resolver::resolve, then one link per entity.
LinkEntities ==
    /\ Processing
    /\ stage = "link"
    /\ candidates[cur][next] # "Unlinkable"
    /\ linked' = linked \cup {lastId}
    /\ stage' = "embed"
    /\ UNCHANGED <<candidates, clock, pending, log, checkpoint, permit, pc, cur,
                   batch, next, rows, lastId, embedded, clashing, filed,
                   failures, warned, lagging, run, faults, overtaken>>

\* embed_and_index; without a contradiction this candidate is finished.
EmbedAndIndex ==
    /\ Processing
    /\ stage = "embed"
    /\ embedded' = embedded \cup {lastId}
    /\ IF lastId \in clashing
       THEN stage' = "conflict" /\ next' = next
       ELSE NextCandidate
    /\ UNCHANGED <<candidates, clock, pending, log, checkpoint, permit, pc, cur,
                   batch, rows, lastId, linked, clashing, filed, failures,
                   warned, lagging, run, faults, overtaken>>

\* The end of record_conflict: extend the open conflict or insert a new one.
RecordConflict ==
    /\ Processing
    /\ stage = "conflict"
    /\ filed' = filed \cup {lastId}
    /\ NextCandidate
    /\ UNCHANGED <<candidates, clock, pending, log, checkpoint, permit, pc, cur,
                   batch, rows, lastId, linked, embedded, clashing, failures,
                   warned, lagging, run, faults, overtaken>>

\* process_event returns Ok.
FinishEvent ==
    /\ pc = "process"
    /\ next > Len(candidates[cur])
    /\ pc' = "advance"
    /\ UNCHANGED <<candidates, clock, pending, store, permit, cur, batch, next,
                   stage, lagging, run, faults, overtaken>>

\* A bug: the failing call is repeated until it succeeds.
ProcessRetries ==
    /\ Processing
    /\ candidates[cur][next] # "Discard"
    /\ \/ /\ stage = "link"
          /\ candidates[cur][next] = "Unlinkable"
          /\ faults' = faults
       \/ /\ faults < MaxFaults
          /\ faults' = faults + 1
    /\ UNCHANGED <<candidates, clock, pending, store, permit, worker, lagging,
                   run, overtaken>>

\* Any of the calls above returns an error: process_event stops where it is.
ProcessFails ==
    /\ Processing
    /\ candidates[cur][next] # "Discard"
    /\ \/ /\ stage = "link"
          /\ candidates[cur][next] = "Unlinkable"
          /\ faults' = faults
       \/ /\ faults < MaxFaults
          /\ faults' = faults + 1
    /\ pc' = "record"
    /\ UNCHANGED <<candidates, clock, pending, store, permit, cur, batch, next,
                   stage, lagging, run, overtaken>>

\* record_worker_failure.
RecordFailure ==
    /\ pc = "record"
    /\ failures' = failures \cup {cur}
    /\ pc' = "advance"
    /\ UNCHANGED <<candidates, clock, pending, log, checkpoint, permit, cur,
                   batch, next, stage, tables, warned, lagging, run, faults,
                   overtaken>>

\* It fails too: only a warning is logged.
RecordFailureFails ==
    /\ pc = "record"
    /\ faults < MaxFaults
    /\ faults' = faults + 1
    /\ warned' = warned \cup {cur}
    /\ pc' = "advance"
    /\ UNCHANGED <<candidates, clock, pending, log, checkpoint, permit, cur,
                   batch, next, stage, tables, failures, lagging, run,
                   overtaken>>

\* A bug: one checkpoint per batch.
SetCheckpointPerBatch ==
    /\ pc = "advance"
    /\ \/ Begin(batch) /\ checkpoint' = checkpoint
       \/ /\ batch = {}
          /\ checkpoint' = cur
          /\ pc' = "lag"
          /\ cur' = 0
          /\ UNCHANGED <<batch, next, stage>>
    /\ UNCHANGED <<candidates, clock, pending, log, permit, tables, failures,
                   warned, lagging, run, faults, overtaken>>

\* A bug: the checkpoint is taken for the next event to read.
SetCheckpointToNext ==
    /\ pc = "advance"
    /\ checkpoint' = cur + 1
    /\ \/ Begin(batch)
       \/ /\ batch = {}
          /\ pc' = "lag"
          /\ cur' = 0
          /\ UNCHANGED <<batch, next, stage>>
    /\ UNCHANGED <<candidates, clock, pending, log, permit, tables, failures,
                   warned, lagging, run, faults, overtaken>>

\* set_worker_checkpoint, on success and on failure alike; then the next event
\* of the batch.
SetCheckpoint ==
    /\ pc = "advance"
    /\ checkpoint' = cur
    /\ \/ Begin(batch)
       \/ /\ batch = {}
          /\ pc' = "lag"
          /\ cur' = 0
          /\ UNCHANGED <<batch, next, stage>>
    /\ UNCHANGED <<candidates, clock, pending, log, permit, tables, failures,
                   warned, lagging, run, faults, overtaken>>

\* set_worker_checkpoint fails, or the entity resolver panics (module Entities
\* says when): the blocking task of drain_once ends with an error, which run
\* returns.  The worker is gone, with the event still in front of the
\* checkpoint.
DrainFails ==
    /\ pc = "advance" \/ (pc = "process" /\ stage = "link")
    /\ faults < MaxFaults
    /\ faults' = faults + 1
    /\ pc' = "dead"
    /\ cur' = 0
    /\ batch' = {}
    /\ UNCHANGED <<candidates, clock, pending, store, permit, next, stage,
                   lagging, run, overtaken>>

-----------------------------------------------------------------------------
(* After a batch: check_lag_and_maybe_notify.                              *)

\* A bug: the age of the checkpoint alone decides.
NowLaggingByAge == BOOLEAN

\* now_lagging needs a queue; the age of the checkpoint is arbitrary here.
NowLagging == IF EventsAfter(checkpoint) = {} THEN {FALSE} ELSE BOOLEAN

CheckLag ==
    /\ pc = "lag"
    /\ lagging' \in NowLagging
    /\ pc' = "drain"
    /\ UNCHANGED <<candidates, clock, pending, store, permit, cur, batch, next,
                   stage, run, faults, overtaken>>

\* An unreadable checkpoint returns early and keeps the flag; an unreadable
\* count is taken as an empty queue.
CheckLagFails ==
    /\ pc = "lag"
    /\ faults < MaxFaults
    /\ faults' = faults + 1
    /\ lagging' \in {lagging, FALSE}
    /\ pc' = "drain"
    /\ UNCHANGED <<candidates, clock, pending, store, permit, cur, batch, next,
                   stage, run, overtaken>>

-----------------------------------------------------------------------------
(* Waiting and stopping: the select! of worker::run.                       *)

WakeNotified ==
    /\ pc = "wait"
    /\ permit
    /\ permit' = FALSE
    /\ pc' = "drain"
    /\ UNCHANGED <<candidates, clock, pending, store, cur, batch, next, stage,
                   lagging, run, faults, overtaken>>

WakeIdlePoll ==
    /\ pc = "wait"
    /\ pc' = "drain"
    /\ UNCHANGED <<candidates, clock, pending, store, permit, cur, batch, next,
                   stage, lagging, run, faults, overtaken>>

Shutdown ==
    /\ pc = "wait"
    /\ pc' = "stopped"
    /\ UNCHANGED <<candidates, clock, pending, store, permit, cur, batch, next,
                   stage, lagging, run, faults, overtaken>>

\* The process ends, killed at any point or after a shutdown: what is in
\* memory is gone, the tables stay.
Exit ==
    /\ pc # "down"
    /\ run <= MaxRestarts
    /\ pc' = "down"
    /\ pending' = [a \in Appenders |-> 0]
    /\ permit' = FALSE
    /\ cur' = 0
    /\ batch' = {}
    /\ next' = 1
    /\ stage' = "decide"
    /\ lagging' = FALSE
    /\ UNCHANGED <<candidates, clock, store, run, faults, overtaken>>

Restart ==
    /\ pc = "down"
    /\ run' = run + 1
    /\ pc' = "drain"
    /\ UNCHANGED <<candidates, clock, pending, store, permit, cur, batch, next,
                   stage, lagging, faults, overtaken>>

-----------------------------------------------------------------------------
ProcessEvent ==
    Discard \/ InsertMemory \/ LinkEntities \/ EmbedAndIndex \/ RecordConflict
        \/ FinishEvent \/ ProcessFails \/ RecordFailure \/ RecordFailureFails

Drain ==
    Fetch \/ FetchNothing \/ FetchFails \/ ProcessEvent \/ SetCheckpoint
        \/ DrainFails \/ CheckLag \/ CheckLagFails

Next ==
    \/ \E a \in Appenders : Stamp(a)
    \/ \E a \in Appenders : InsertEvent(a)
    \/ \E a \in Appenders : InsertEventFails(a)
    \/ Drain
    \/ WakeNotified
    \/ WakeIdlePoll
    \/ Shutdown
    \/ Exit
    \/ Restart

Spec == Init /\ [][Next]_vars

\* The worker task is scheduled by tokio and its idle poll always fires.
\* Nothing is owed by clients, by whoever stops the daemon or starts it again.
FairSpec == Spec /\ WF_vars(Drain) /\ WF_vars(WakeIdlePoll)

-----------------------------------------------------------------------------
(* What the worker promises.                                               *)

\* Row m is finished: linked, embedded and, if it contradicts another memory,
\* mentioned by a conflict.
Finished(m) ==
    /\ m.id \in linked
    /\ m.id \in embedded
    /\ m.id \in clashing => m.id \in filed

\* Every candidate of event k that is not discarded has a finished row.
Stored(k) ==
    \A i \in DOMAIN candidates[k] :
        candidates[k][i] # "Discard" =>
            \E m \in rows : m.src = k /\ m.cand = i /\ Finished(m)

\* An event the checkpoint has passed is never silently half done: all its
\* candidates are stored, linked, embedded and filed, or its failure was
\* reported, or it was inserted behind what the worker had already read
\* (drain_once_sync, process_event; across kills and store errors).
AccountedFor ==
    \A k \in log :
        k <= checkpoint =>
            k \in overtaken \/ k \in failures \/ k \in warned \/ Stored(k)

\* The same without the excuse: what "At-least-once" promises of every event
\* (set_worker_checkpoint moves past events that events_after has not returned).
AtLeastOnce ==
    \A k \in log :
        k <= checkpoint => k \in failures \/ k \in warned \/ Stored(k)

\* A kill makes the worker repeat at most the event it was at: if a later run
\* stored memories of an event again, no event after it had been reached in the
\* run before (set_worker_checkpoint follows every event, not every batch).
ReplayOnlyLast ==
    \A m, n \in rows :
        n.src = m.src /\ n.run > m.run =>
            \A o \in rows : o.run = m.run => o.src <= m.src

\* Subscribers are not left with "lagging": when the worker goes to wait with
\* nothing queued the flag is down, unless a store call failed
\* (check_lag_and_maybe_notify runs after the last batch).
LagClearedWhenIdle ==
    pc = "wait" /\ EventsAfter(checkpoint) = {} /\ faults = 0 => ~lagging

\* The events passed in their turn: stored in full, or their failure reported.
Passed ==
    {k \in log \ overtaken :
        k <= checkpoint /\ (k \in failures \/ k \in warned \/ Stored(k))}

Abstract == INSTANCE EventLog WITH position <- checkpoint, passed <- Passed,
                                   late <- overtaken

\* The worker implements the log it is meant to be: seen from outside, through
\* batches, errors, kills and replays, the checkpoint moves over the events in key
\* order, one at a time, each accounted for when it is passed and never again
\* unaccounted for, and it jumps over no event that was not inserted behind what
\* had been read (drain_once_sync, events_after, set_worker_checkpoint).
ImplementsEventLog == Abstract!LogSpec

\* No event blocks the queue, not even one whose processing always fails: again
\* and again every inserted event is passed by the checkpoint, unless the worker
\* is gone.
QueueDrains ==
    []<>(\/ \A k \in log : k <= checkpoint
         \/ pc \in {"dead", "stopped", "down"})
=============================================================================
