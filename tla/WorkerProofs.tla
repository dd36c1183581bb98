---------------------------- MODULE WorkerProofs ----------------------------
(***************************************************************************)
(* Proofs about the event log and its worker, for any number of appenders, *)
(* events, restarts and store errors.                                      *)
(***************************************************************************)
EXTENDS Worker, TLAPS, FiniteSetTheorems

\* No two appenders: every event goes through one connection.
OneAppender == \A a, b \in Appenders : a = b

-----------------------------------------------------------------------------
(* The inductive invariant, in parts.                                      *)

\* The for loop of drain_once_sync: what cur and batch hold.
LoopInv ==
    /\ pc \in {"process", "record", "advance"} <=> cur # 0
    /\ cur = 0 => batch = {}
    /\ cur # 0 => cur \in log /\ checkpoint < cur
    /\ batch \subseteq log
    /\ \A j \in batch : cur < j

\* Between the checkpoint and the last event read nothing is missing except
\* what was inserted after the read.
NoGap ==
    \A k \in log :
        checkpoint < k /\ k # cur /\ (k < cur \/ \E j \in batch : k < j) =>
            k \in batch \/ k \in overtaken

\* The candidate at hand: the row written for it, and how far it got.
StageInv ==
    pc = "process" =>
        /\ stage # "decide" => [id |-> lastId, src |-> cur, cand |-> next,
                                run |-> run] \in rows
        /\ stage \in {"embed", "conflict"} => lastId \in linked
        /\ stage = "conflict" => lastId \in embedded

\* Candidate i of event k has a finished row.
Done(k, i) == \E m \in rows : m.src = k /\ m.cand = i /\ Finished(m)

\* The candidates before it are stored; after the loop the event is, or its
\* failure is reported.
ProgressInv ==
    /\ pc = "process" =>
        \A i \in DOMAIN candidates[cur] :
            i < next /\ candidates[cur][i] # "Discard" => Done(cur, i)
    /\ pc = "advance" => cur \in failures \/ cur \in warned \/ Stored(cur)

\* Rows are numbered in order and belong to this run or an earlier one.
RowInv == \A m \in rows : m.id <= lastId /\ m.run <= run

\* An event stored and not yet passed is the last its run reached, and in the
\* current run it is the event at hand.
LastInv ==
    /\ \A m \in rows :
        m.src > checkpoint => \A o \in rows : o.run = m.run => o.src <= m.src
    /\ pc \notin {"dead", "down"} =>
        \A m \in rows : m.run = run /\ m.src > checkpoint => m.src = cur

\* The lag flag is down whenever the worker is about to wait with no queue.
LagInv ==
    /\ pc \in {"drain", "wait"} /\ EventsAfter(checkpoint) = {} /\ faults = 0
         => ~lagging
    /\ pc = "down" => ~lagging

IInv ==
    /\ TypeOK
    /\ LoopInv
    /\ NoGap
    /\ StageInv
    /\ ProgressInv
    /\ RowInv
    /\ LastInv
    /\ LagInv
    /\ AccountedFor
    /\ ReplayOnlyLast
-----------------------------------------------------------------------------
(* Type correctness.                                                       *)

\* The initial state is well typed.
LEMMA TypeInit == Init => TypeOK
<1> SUFFICES ASSUME Init PROVE TypeOK
  OBVIOUS
<1>1. permit \in BOOLEAN /\ lagging \in BOOLEAN
  BY Zenon DEF Init
<1>2. pending \in [Appenders -> 0..MaxEvents]
  BY WorkerAssumption DEF Init
<1> QED
  BY <1>1, <1>2, WorkerAssumption DEF Init, TypeOK, PCs, Stages, Keys

\* Every step keeps the types; the loop invariant supplies that an event is at
\* hand while one is processed.
LEMMA TypeStep == TypeOK /\ LoopInv /\ [Next]_vars => TypeOK'
<1> SUFFICES ASSUME TypeOK, LoopInv, [Next]_vars PROVE TypeOK'
  OBVIOUS
<1> USE WorkerAssumption DEF TypeOK, PCs, Stages, store, worker, tables
<1>1. ASSUME NEW a \in Appenders, Stamp(a) PROVE TypeOK'
  BY <1>1 DEF Stamp
<1>2. ASSUME NEW a \in Appenders, InsertEvent(a) PROVE TypeOK'
  <2>1. pending[a] \in Keys
    BY <1>2 DEF InsertEvent, Keys
  <2> QED
    BY <1>2, <2>1 DEF InsertEvent
<1>3. ASSUME NEW a \in Appenders, InsertEventFails(a) PROVE TypeOK'
  BY <1>3 DEF InsertEventFails
<1>4. CASE Fetch
  <2>1. NextBatch \subseteq Keys
    BY DEF NextBatch, EventsAfter
  <2>2. /\ cur' \in 0..MaxEvents /\ batch' \subseteq Keys /\ next' \in Nat \ {0}
        /\ stage' = "decide" /\ pc' = "process"
    BY <1>4, <2>1 DEF Fetch, Begin, Keys
  <2> QED
    BY <1>4, <2>2 DEF Fetch
<1>5. CASE SetCheckpoint
  <2>1. /\ cur' \in 0..MaxEvents /\ batch' \subseteq Keys /\ next' \in Nat \ {0}
        /\ stage' \in Stages /\ pc' \in PCs
    <3>1. CASE Begin(batch)
      BY <3>1 DEF Begin, Keys
    <3>2. CASE batch = {} /\ pc' = "lag" /\ cur' = 0 /\ UNCHANGED <<batch, next, stage>>
      BY <3>2
    <3> QED
      BY <1>5, <3>1, <3>2, Zenon DEF SetCheckpoint
  <2>2. /\ checkpoint' = cur
        /\ UNCHANGED <<candidates, clock, pending, log, permit, tables>>
        /\ UNCHANGED <<failures, warned, lagging, run, faults, overtaken>>
    BY <1>5 DEF SetCheckpoint
  <2> QED
    BY <2>1, <2>2
<1>6. CASE FetchNothing
  BY <1>6 DEF FetchNothing
<1>7. CASE FetchFails
  BY <1>7 DEF FetchFails
<1>8. CASE Discard
  BY <1>8 DEF Discard, NextCandidate
<1>9. CASE InsertMemory
  <2>1. cur \in Keys
    BY <1>9 DEF InsertMemory, Processing, Keys, LoopInv
  <2> QED
    <3>1. rows' \subseteq Row
      BY <1>9, <2>1 DEF InsertMemory, Row
    <3>2. clashing' \subseteq Nat /\ lastId' \in Nat
      <4>1. lastId' = lastId + 1
        BY <1>9 DEF InsertMemory
      <4>2. clashing' = clashing \/ clashing' = clashing \cup {lastId + 1}
        BY <1>9, Zenon DEF InsertMemory
      <4>3. lastId + 1 \in Nat /\ clashing \subseteq Nat
        OBVIOUS
      <4> HIDE DEF TypeOK
      <4> QED
        BY <4>1, <4>2, <4>3
    <3>3. /\ UNCHANGED <<candidates, clock, pending, log, checkpoint, permit, pc>>
          /\ UNCHANGED <<cur, batch, next, linked, embedded, filed, failures>>
          /\ UNCHANGED <<warned, lagging, run, faults, overtaken>>
          /\ stage' = "link"
      BY <1>9 DEF InsertMemory
    <3> QED
      BY <3>1, <3>2, <3>3
<1>10. CASE LinkEntities
  BY <1>10 DEF LinkEntities
<1>11. CASE EmbedAndIndex
  BY <1>11 DEF EmbedAndIndex, NextCandidate
<1>12. CASE RecordConflict
  BY <1>12 DEF RecordConflict, NextCandidate
<1>13. CASE FinishEvent
  BY <1>13 DEF FinishEvent
<1>14. CASE ProcessFails
  BY <1>14 DEF ProcessFails
<1>15. CASE RecordFailure
  BY <1>15 DEF RecordFailure, Keys, LoopInv
<1>16. CASE RecordFailureFails
  BY <1>16 DEF RecordFailureFails, Keys, LoopInv
<1>17. CASE DrainFails
  BY <1>17 DEF DrainFails
<1>18. CASE CheckLag
  BY <1>18 DEF CheckLag, NowLagging
<1>19. CASE CheckLagFails
  <2>1. lagging' \in BOOLEAN
    BY <1>19, Zenon DEF CheckLagFails
  <2> QED
    BY <1>19, <2>1 DEF CheckLagFails
<1>20. CASE WakeNotified
  BY <1>20 DEF WakeNotified
<1>21. CASE WakeIdlePoll
  BY <1>21 DEF WakeIdlePoll
<1>22. CASE Shutdown
  BY <1>22 DEF Shutdown
<1>23. CASE Exit
  <2>1. permit' \in BOOLEAN /\ lagging' \in BOOLEAN
    BY <1>23, Zenon DEF Exit
  <2>2. pending' \in [Appenders -> 0..MaxEvents]
    BY <1>23 DEF Exit
  <2> QED
    BY <1>23, <2>1, <2>2 DEF Exit
<1>24. CASE Restart
  BY <1>24 DEF Restart
<1>25. CASE UNCHANGED vars
  BY <1>25 DEF vars
<1> QED
  BY <1>1, <1>2, <1>3, <1>4, <1>5, <1>6, <1>7, <1>8, <1>9, <1>10, <1>11, <1>12, <1>13, <1>14, <1>15, <1>16, <1>17, <1>18, <1>19, <1>20, <1>21, <1>22, <1>23, <1>24, <1>25 DEF Next, Drain, ProcessEvent

\* The for loop keeps its bookkeeping.
LEMMA LoopStep == TypeOK /\ LoopInv /\ [Next]_vars => LoopInv'
<1> SUFFICES ASSUME TypeOK, LoopInv, [Next]_vars PROVE LoopInv'
  OBVIOUS
<1>t1. cur \in Nat /\ checkpoint \in Nat /\ log \subseteq Nat /\ batch \subseteq Nat
  BY WorkerAssumption DEF TypeOK, Keys
<1> USE DEF LoopInv, store, worker, tables
<1>1. ASSUME NEW a \in Appenders, Stamp(a) PROVE LoopInv'
  BY <1>t1, <1>1 DEF Stamp
<1>2. ASSUME NEW a \in Appenders, InsertEvent(a) PROVE LoopInv'
  BY <1>t1, <1>2 DEF InsertEvent
<1>3. ASSUME NEW a \in Appenders, InsertEventFails(a) PROVE LoopInv'
  BY <1>t1, <1>3 DEF InsertEventFails
<1>4. CASE Fetch
  <2>1. NextBatch \subseteq {k \in log : checkpoint < k}
    BY <1>t1 DEF NextBatch, EventsAfter
  <2>2. PICK k \in NextBatch : /\ First(k, NextBatch) /\ cur' = k
                               /\ batch' = NextBatch \ {k} /\ pc' = "process"
    BY <1>4, Zenon DEF Fetch, Begin
  <2>3. log' = log /\ checkpoint' = checkpoint
    BY <1>4 DEF Fetch, store
  <2> QED
    BY <1>t1, <2>1, <2>2, <2>3 DEF First
<1>5. CASE FetchNothing
  BY <1>t1, <1>5 DEF FetchNothing
<1>6. CASE FetchFails
  BY <1>t1, <1>6 DEF FetchFails
<1>7. CASE Discard
  BY <1>t1, <1>7 DEF Discard, Processing
<1>8. CASE InsertMemory
  BY <1>t1, <1>8 DEF InsertMemory, Processing
<1>9. CASE LinkEntities
  BY <1>t1, <1>9 DEF LinkEntities
<1>10. CASE EmbedAndIndex
  BY <1>t1, <1>10 DEF EmbedAndIndex
<1>11. CASE RecordConflict
  BY <1>t1, <1>11 DEF RecordConflict
<1>12. CASE FinishEvent
  BY <1>t1, <1>12 DEF FinishEvent
<1>13. CASE ProcessFails
  BY <1>t1, <1>13 DEF ProcessFails, Processing
<1>14. CASE RecordFailure
  BY <1>t1, <1>14 DEF RecordFailure
<1>15. CASE RecordFailureFails
  BY <1>t1, <1>15 DEF RecordFailureFails
<1>16. CASE SetCheckpoint
  <2>1. log' = log /\ checkpoint' = cur /\ cur # 0 /\ cur \in log
    BY <1>16 DEF SetCheckpoint
  <2>2. CASE Begin(batch)
    <3>1. PICK k \in batch : /\ First(k, batch) /\ cur' = k
                             /\ batch' = batch \ {k} /\ pc' = "process"
      BY <2>2, Zenon DEF Begin
    <3> QED
      BY <1>t1, <2>1, <3>1 DEF First
  <2>3. CASE batch = {} /\ pc' = "lag" /\ cur' = 0 /\ UNCHANGED <<batch, next, stage>>
    BY <2>1, <2>3
  <2> QED
    BY <1>16, <2>2, <2>3, Zenon DEF SetCheckpoint
<1>17. CASE DrainFails
  BY <1>t1, <1>17 DEF DrainFails
<1>18. CASE CheckLag
  BY <1>t1, <1>18 DEF CheckLag
<1>19. CASE CheckLagFails
  BY <1>t1, <1>19 DEF CheckLagFails
<1>20. CASE WakeNotified
  BY <1>t1, <1>20 DEF WakeNotified
<1>21. CASE WakeIdlePoll
  BY <1>t1, <1>21 DEF WakeIdlePoll
<1>22. CASE Shutdown
  BY <1>t1, <1>22 DEF Shutdown
<1>23. CASE Exit
  BY <1>t1, <1>23 DEF Exit
<1>24. CASE Restart
  BY <1>t1, <1>24 DEF Restart
<1>25. CASE UNCHANGED vars
  BY <1>t1, <1>25 DEF vars
<1> QED
  BY <1>1, <1>2, <1>3, <1>4, <1>5, <1>6, <1>7, <1>8, <1>9, <1>10, <1>11,
     <1>12, <1>13, <1>14, <1>15, <1>16, <1>17, <1>18, <1>19, <1>20, <1>21,
     <1>22, <1>23, <1>24, <1>25 DEF Next, Drain, ProcessEvent

\* The fetched batch is an initial segment of the queue (ORDER BY ... LIMIT).
LEMMA BatchIsPrefix ==
    ASSUME TypeOK, NEW j \in NextBatch, NEW k \in EventsAfter(checkpoint), k < j
    PROVE  k \in NextBatch
<1> DEFINE upto(i) == {h \in EventsAfter(checkpoint) : h <= i}
<1>1. EventsAfter(checkpoint) \subseteq 1..MaxEvents
  BY DEF TypeOK, EventsAfter, Keys
<1>2. IsFiniteSet(upto(j))
  BY <1>1, FS_Interval, FS_Subset, WorkerAssumption
<1>3. j \in EventsAfter(checkpoint) /\ Cardinality(upto(j)) <= BATCH_SIZE
  BY DEF NextBatch
<1>4. upto(k) \subseteq upto(j)
  BY <1>1, <1>3
<1>5. /\ Cardinality(upto(k)) <= Cardinality(upto(j))
      /\ Cardinality(upto(k)) \in Nat /\ Cardinality(upto(j)) \in Nat
  BY <1>2, <1>4, FS_Subset, FS_CardinalityType
<1>6. Cardinality(upto(k)) <= BATCH_SIZE
  BY <1>3, <1>5, WorkerAssumption
<1> QED
  BY <1>6 DEF NextBatch

\* No event between the checkpoint and the last one read goes missing.
LEMMA NoGapStep == TypeOK /\ LoopInv /\ NoGap /\ [Next]_vars => NoGap'
<1> SUFFICES ASSUME TypeOK, LoopInv, NoGap, [Next]_vars PROVE NoGap'
  OBVIOUS
<1>t1. /\ cur \in Nat /\ checkpoint \in Nat /\ log \subseteq Nat /\ batch \subseteq Nat
       /\ pending \in [Appenders -> Nat]
  BY WorkerAssumption DEF TypeOK, Keys
<1> USE DEF NoGap, store, worker, tables
<1>1. ASSUME NEW a \in Appenders, Stamp(a) PROVE NoGap'
  BY <1>t1, <1>1 DEF Stamp
<1>2. ASSUME NEW a \in Appenders, InsertEvent(a) PROVE NoGap'
  <2>1. /\ log' = log \cup {pending[a]}
        /\ overtaken' = IF ReadPast(pending[a]) THEN overtaken \cup {pending[a]}
                                                ELSE overtaken
        /\ UNCHANGED <<checkpoint, cur, batch>>
    BY <1>2 DEF InsertEvent
  <2>2. pending[a] \in Nat
    BY <1>t1
  <2> QED
    BY <1>t1, <2>1, <2>2 DEF ReadPast
<1>3. ASSUME NEW a \in Appenders, InsertEventFails(a) PROVE NoGap'
  BY <1>t1, <1>3 DEF InsertEventFails
<1>4. CASE Fetch
  <2>1. NextBatch \subseteq {k \in log : checkpoint < k}
    BY <1>t1 DEF NextBatch, EventsAfter
  <2>2. PICK k \in NextBatch : /\ First(k, NextBatch) /\ cur' = k
                               /\ batch' = NextBatch \ {k} /\ pc' = "process"
    BY <1>4, Zenon DEF Fetch, Begin
  <2>3. UNCHANGED <<log, checkpoint, overtaken>>
    BY <1>4 DEF Fetch
  <2> SUFFICES ASSUME NEW i \in log, checkpoint < i, i # k,
                      i < k \/ \E j \in NextBatch : i < j
               PROVE  i \in NextBatch
    BY <1>t1, <2>1, <2>2, <2>3
  <2>4. i \in EventsAfter(checkpoint)
    BY <1>t1 DEF EventsAfter
  <2> QED
    BY <2>2, <2>4, BatchIsPrefix
<1>5. CASE FetchNothing
  BY <1>t1, <1>5 DEF FetchNothing
<1>6. CASE FetchFails
  BY <1>t1, <1>6 DEF FetchFails
<1>7. CASE Discard
  BY <1>t1, <1>7 DEF Discard
<1>8. CASE InsertMemory
  BY <1>t1, <1>8 DEF InsertMemory
<1>9. CASE LinkEntities
  BY <1>t1, <1>9 DEF LinkEntities
<1>10. CASE EmbedAndIndex
  BY <1>t1, <1>10 DEF EmbedAndIndex
<1>11. CASE RecordConflict
  BY <1>t1, <1>11 DEF RecordConflict
<1>12. CASE FinishEvent
  BY <1>t1, <1>12 DEF FinishEvent
<1>13. CASE ProcessFails
  BY <1>t1, <1>13 DEF ProcessFails
<1>14. CASE RecordFailure
  BY <1>t1, <1>14 DEF RecordFailure
<1>15. CASE RecordFailureFails
  BY <1>t1, <1>15 DEF RecordFailureFails
<1>16. CASE SetCheckpoint
  <2>1. UNCHANGED <<log, overtaken>> /\ checkpoint' = cur /\ cur # 0 /\ checkpoint < cur
    BY <1>16 DEF SetCheckpoint, LoopInv
  <2>2. CASE Begin(batch)
    <3>1. PICK k \in batch : /\ First(k, batch) /\ cur' = k
                             /\ batch' = batch \ {k} /\ pc' = "process"
      BY <2>2, Zenon DEF Begin
    <3> QED
      BY <1>t1, <2>1, <3>1 DEF First, LoopInv
  <2>3. CASE batch = {} /\ pc' = "lag" /\ cur' = 0 /\ UNCHANGED <<batch, next, stage>>
    BY <1>t1, <2>1, <2>3
  <2> QED
    BY <1>16, <2>2, <2>3, Zenon DEF SetCheckpoint
<1>17. CASE DrainFails
  BY <1>t1, <1>17 DEF DrainFails
<1>18. CASE CheckLag
  BY <1>t1, <1>18 DEF CheckLag
<1>19. CASE CheckLagFails
  BY <1>t1, <1>19 DEF CheckLagFails
<1>20. CASE WakeNotified
  BY <1>t1, <1>20 DEF WakeNotified
<1>21. CASE WakeIdlePoll
  BY <1>t1, <1>21 DEF WakeIdlePoll
<1>22. CASE Shutdown
  BY <1>t1, <1>22 DEF Shutdown
<1>23. CASE Exit
  BY <1>t1, <1>23 DEF Exit
<1>24. CASE Restart
  BY <1>t1, <1>24 DEF Restart
<1>25. CASE UNCHANGED vars
  BY <1>t1, <1>25 DEF vars
<1> QED
  BY <1>1, <1>2, <1>3, <1>4, <1>5, <1>6, <1>7, <1>8, <1>9, <1>10, <1>11,
     <1>12, <1>13, <1>14, <1>15, <1>16, <1>17, <1>18, <1>19, <1>20, <1>21,
     <1>22, <1>23, <1>24, <1>25 DEF Next, Drain, ProcessEvent

\* The memory tables only grow, and only a new row can become one side of a
\* contradiction.
Grows ==
    /\ rows \subseteq rows'
    /\ linked \subseteq linked'
    /\ embedded \subseteq embedded'
    /\ filed \subseteq filed'
    /\ failures \subseteq failures'
    /\ warned \subseteq warned'
    /\ overtaken \subseteq overtaken'
    /\ clashing' \subseteq clashing \cup {lastId + 1}
    /\ candidates' = candidates

\* Every step only adds to the tables.
LEMMA TablesGrow == [Next]_vars => Grows
<1> SUFFICES ASSUME [Next]_vars PROVE Grows
  OBVIOUS
<1> USE DEF Grows, store, worker, tables
<1>1. ASSUME NEW a \in Appenders, Stamp(a) PROVE Grows
  BY <1>1 DEF Stamp
<1>2. ASSUME NEW a \in Appenders, InsertEvent(a) PROVE Grows
  BY <1>2 DEF InsertEvent
<1>3. ASSUME NEW a \in Appenders, InsertEventFails(a) PROVE Grows
  BY <1>3 DEF InsertEventFails
<1>4. CASE Fetch
  BY <1>4 DEF Fetch
<1>5. CASE FetchNothing
  BY <1>5 DEF FetchNothing
<1>6. CASE FetchFails
  BY <1>6 DEF FetchFails
<1>7. CASE Discard
  BY <1>7 DEF Discard
<1>8. CASE InsertMemory
  BY <1>8 DEF InsertMemory
<1>9. CASE LinkEntities
  BY <1>9 DEF LinkEntities
<1>10. CASE EmbedAndIndex
  BY <1>10 DEF EmbedAndIndex
<1>11. CASE RecordConflict
  BY <1>11 DEF RecordConflict
<1>12. CASE FinishEvent
  BY <1>12 DEF FinishEvent
<1>13. CASE ProcessFails
  BY <1>13 DEF ProcessFails
<1>14. CASE RecordFailure
  BY <1>14 DEF RecordFailure
<1>15. CASE RecordFailureFails
  BY <1>15 DEF RecordFailureFails
<1>16. CASE SetCheckpoint
  BY <1>16 DEF SetCheckpoint
<1>17. CASE DrainFails
  BY <1>17 DEF DrainFails
<1>18. CASE CheckLag
  BY <1>18 DEF CheckLag
<1>19. CASE CheckLagFails
  BY <1>19 DEF CheckLagFails
<1>20. CASE WakeNotified
  BY <1>20 DEF WakeNotified
<1>21. CASE WakeIdlePoll
  BY <1>21 DEF WakeIdlePoll
<1>22. CASE Shutdown
  BY <1>22 DEF Shutdown
<1>23. CASE Exit
  BY <1>23 DEF Exit
<1>24. CASE Restart
  BY <1>24 DEF Restart
<1>25. CASE UNCHANGED vars
  BY <1>25 DEF vars
<1> QED
  BY <1>1, <1>2, <1>3, <1>4, <1>5, <1>6, <1>7, <1>8, <1>9, <1>10, <1>11,
     <1>12, <1>13, <1>14, <1>15, <1>16, <1>17, <1>18, <1>19, <1>20, <1>21,
     <1>22, <1>23, <1>24, <1>25 DEF Next, Drain, ProcessEvent

\* A finished row stays finished.
LEMMA FinishedStable ==
    ASSUME TypeOK, RowInv, [Next]_vars, NEW m \in rows, Finished(m)
    PROVE  m \in rows' /\ Finished(m)'
<1>1. Grows
  BY TablesGrow
<1>2. m.id <= lastId /\ m.id \in Nat /\ lastId \in Nat
  BY DEF TypeOK, Row, RowInv
<1>3. m.id # lastId + 1
  BY <1>2
<1> QED
  BY <1>1, <1>3 DEF Grows, Finished

\* A stored event stays stored.
LEMMA StoredStable ==
    ASSUME TypeOK, RowInv, [Next]_vars, NEW k, Stored(k)
    PROVE  Stored(k)'
<1> SUFFICES ASSUME NEW i \in DOMAIN candidates[k], candidates[k][i] # "Discard"
             PROVE  \E m \in rows' : m.src = k /\ m.cand = i /\ Finished(m)'
  BY TablesGrow DEF Stored, Grows
<1>1. PICK m \in rows : m.src = k /\ m.cand = i /\ Finished(m)
  BY DEF Stored
<1> QED
  BY <1>1, FinishedStable

\* Row ids and runs stay in order.
LEMMA RowStep == TypeOK /\ RowInv /\ [Next]_vars => RowInv'
<1> SUFFICES ASSUME TypeOK, RowInv, [Next]_vars PROVE RowInv'
  OBVIOUS
<1>t1. lastId \in Nat /\ run \in Nat /\ \A m \in rows : m.id \in Nat /\ m.run \in Nat
  BY DEF TypeOK, Row
<1> USE DEF RowInv, store, worker, tables
<1>1. ASSUME NEW a \in Appenders, Stamp(a) PROVE RowInv'
  BY <1>t1, <1>1 DEF Stamp
<1>2. ASSUME NEW a \in Appenders, InsertEvent(a) PROVE RowInv'
  BY <1>t1, <1>2 DEF InsertEvent
<1>3. ASSUME NEW a \in Appenders, InsertEventFails(a) PROVE RowInv'
  BY <1>t1, <1>3 DEF InsertEventFails
<1>4. CASE Fetch
  BY <1>t1, <1>4 DEF Fetch
<1>5. CASE FetchNothing
  BY <1>t1, <1>5 DEF FetchNothing
<1>6. CASE FetchFails
  BY <1>t1, <1>6 DEF FetchFails
<1>7. CASE Discard
  BY <1>t1, <1>7 DEF Discard
<1>8. CASE InsertMemory
  BY <1>t1, <1>8 DEF InsertMemory
<1>9. CASE LinkEntities
  BY <1>t1, <1>9 DEF LinkEntities
<1>10. CASE EmbedAndIndex
  BY <1>t1, <1>10 DEF EmbedAndIndex
<1>11. CASE RecordConflict
  BY <1>t1, <1>11 DEF RecordConflict
<1>12. CASE FinishEvent
  BY <1>t1, <1>12 DEF FinishEvent
<1>13. CASE ProcessFails
  BY <1>t1, <1>13 DEF ProcessFails
<1>14. CASE RecordFailure
  BY <1>t1, <1>14 DEF RecordFailure
<1>15. CASE RecordFailureFails
  BY <1>t1, <1>15 DEF RecordFailureFails
<1>16. CASE SetCheckpoint
  BY <1>t1, <1>16 DEF SetCheckpoint
<1>17. CASE DrainFails
  BY <1>t1, <1>17 DEF DrainFails
<1>18. CASE CheckLag
  BY <1>t1, <1>18 DEF CheckLag
<1>19. CASE CheckLagFails
  BY <1>t1, <1>19 DEF CheckLagFails
<1>20. CASE WakeNotified
  BY <1>t1, <1>20 DEF WakeNotified
<1>21. CASE WakeIdlePoll
  BY <1>t1, <1>21 DEF WakeIdlePoll
<1>22. CASE Shutdown
  BY <1>t1, <1>22 DEF Shutdown
<1>23. CASE Exit
  BY <1>t1, <1>23 DEF Exit
<1>24. CASE Restart
  BY <1>t1, <1>24 DEF Restart
<1>25. CASE UNCHANGED vars
  BY <1>t1, <1>25 DEF vars
<1> QED
  BY <1>1, <1>2, <1>3, <1>4, <1>5, <1>6, <1>7, <1>8, <1>9, <1>10, <1>11,
     <1>12, <1>13, <1>14, <1>15, <1>16, <1>17, <1>18, <1>19, <1>20, <1>21,
     <1>22, <1>23, <1>24, <1>25 DEF Next, Drain, ProcessEvent

\* The row and the marks of the candidate at hand.
LEMMA StageStep == StageInv /\ [Next]_vars => StageInv'
<1> SUFFICES ASSUME StageInv, [Next]_vars PROVE StageInv'
  OBVIOUS
<1> USE DEF StageInv, store, worker, tables
<1>1. ASSUME NEW a \in Appenders, Stamp(a) PROVE StageInv'
  BY <1>1 DEF Stamp
<1>2. ASSUME NEW a \in Appenders, InsertEvent(a) PROVE StageInv'
  BY <1>2 DEF InsertEvent
<1>3. ASSUME NEW a \in Appenders, InsertEventFails(a) PROVE StageInv'
  BY <1>3 DEF InsertEventFails
<1>4. CASE Fetch
  BY <1>4 DEF Fetch, Begin
<1>5. CASE FetchNothing
  BY <1>5 DEF FetchNothing
<1>6. CASE FetchFails
  BY <1>6 DEF FetchFails
<1>7. CASE Discard
  BY <1>7 DEF Discard, NextCandidate
<1>8. CASE InsertMemory
  BY <1>8 DEF InsertMemory
<1>9. CASE LinkEntities
  BY <1>9 DEF LinkEntities
<1>10. CASE EmbedAndIndex
  BY <1>10 DEF EmbedAndIndex, NextCandidate
<1>11. CASE RecordConflict
  BY <1>11 DEF RecordConflict, NextCandidate
<1>12. CASE FinishEvent
  BY <1>12 DEF FinishEvent
<1>13. CASE ProcessFails
  BY <1>13 DEF ProcessFails, Processing
<1>14. CASE RecordFailure
  BY <1>14 DEF RecordFailure
<1>15. CASE RecordFailureFails
  BY <1>15 DEF RecordFailureFails
<1>16. CASE SetCheckpoint
  BY <1>16 DEF SetCheckpoint, Begin
<1>17. CASE DrainFails
  BY <1>17 DEF DrainFails
<1>18. CASE CheckLag
  BY <1>18 DEF CheckLag
<1>19. CASE CheckLagFails
  BY <1>19 DEF CheckLagFails
<1>20. CASE WakeNotified
  BY <1>20 DEF WakeNotified
<1>21. CASE WakeIdlePoll
  BY <1>21 DEF WakeIdlePoll
<1>22. CASE Shutdown
  BY <1>22 DEF Shutdown
<1>23. CASE Exit
  BY <1>23 DEF Exit
<1>24. CASE Restart
  BY <1>24 DEF Restart
<1>25. CASE UNCHANGED vars
  BY <1>25 DEF vars
<1> QED
  BY <1>1, <1>2, <1>3, <1>4, <1>5, <1>6, <1>7, <1>8, <1>9, <1>10, <1>11,
     <1>12, <1>13, <1>14, <1>15, <1>16, <1>17, <1>18, <1>19, <1>20, <1>21,
     <1>22, <1>23, <1>24, <1>25 DEF Next, Drain, ProcessEvent

\* Before the first candidate nothing is owed.
LEMMA BeginOwesNothing ==
    ASSUME TypeOK, NEW k \in Keys, NEW i \in DOMAIN candidates[k]
    PROVE  ~(i < 1)
<1>1. candidates[k] \in Seq(Decision)
  BY WorkerAssumption DEF TypeOK
<1> QED
  BY <1>1

\* A candidate once done stays done.
LEMMA DoneStable ==
    ASSUME TypeOK, RowInv, [Next]_vars, NEW k, NEW i, Done(k, i)
    PROVE  Done(k, i)'
<1>1. PICK m \in rows : m.src = k /\ m.cand = i /\ Finished(m)
  BY DEF Done
<1> QED
  BY <1>1, FinishedStable DEF Done

\* Handling the candidates one by one stores the event.
LEMMA ProgressStep == TypeOK /\ LoopInv /\ StageInv /\ RowInv /\ ProgressInv /\ [Next]_vars => ProgressInv'
<1> SUFFICES ASSUME TypeOK, LoopInv, StageInv, RowInv, ProgressInv, [Next]_vars PROVE ProgressInv'
  OBVIOUS
<1>t1. candidates' = candidates /\ failures \subseteq failures' /\ warned \subseteq warned'
  BY TablesGrow DEF Grows
<1>t2. /\ \A k, i : Done(k, i) => Done(k, i)'
       /\ \A k : Stored(k) => Stored(k)'
  BY DoneStable, StoredStable
<1>t3. /\ next \in Nat
       /\ cur # 0 => /\ \A i \in DOMAIN candidates[cur] : i \in Nat
                     /\ DOMAIN candidates[cur] = 1..Len(candidates[cur])
                     /\ Len(candidates[cur]) \in Nat
       /\ pc = "process" => cur # 0
  <2>1. cur # 0 => cur \in Keys
    BY DEF TypeOK, Keys
  <2>2. cur # 0 => candidates[cur] \in Seq(Decision)
    BY <2>1, WorkerAssumption DEF TypeOK
  <2> QED
    BY <2>2 DEF TypeOK, LoopInv
<1> USE DEF ProgressInv, store, worker, tables
<1>1. ASSUME NEW a \in Appenders, Stamp(a) PROVE ProgressInv'
  <2>1. pc' = pc /\ cur' = cur /\ next' = next
    BY <1>1 DEF Stamp
  <2> QED
    BY <2>1, <1>t1, <1>t2
<1>2. ASSUME NEW a \in Appenders, InsertEvent(a) PROVE ProgressInv'
  <2>1. pc' = pc /\ cur' = cur /\ next' = next
    BY <1>2 DEF InsertEvent
  <2> QED
    BY <2>1, <1>t1, <1>t2
<1>3. ASSUME NEW a \in Appenders, InsertEventFails(a) PROVE ProgressInv'
  <2>1. pc' = pc /\ cur' = cur /\ next' = next
    BY <1>3 DEF InsertEventFails
  <2> QED
    BY <2>1, <1>t1, <1>t2
<1>4. CASE Fetch
  <2>1. NextBatch \subseteq Keys
    BY DEF NextBatch, EventsAfter, TypeOK
  <2>2. pc' = "process" /\ cur' \in Keys /\ next' = 1
    BY <1>4, <2>1, Zenon DEF Fetch, Begin
  <2> QED
    BY <2>2, <1>t1, BeginOwesNothing
<1>5. CASE FetchNothing
  <2>1. pc' \notin {"process", "advance"}
    BY <1>5 DEF FetchNothing
  <2> QED
    BY <2>1
<1>6. CASE FetchFails
  <2>1. pc' \notin {"process", "advance"}
    BY <1>6 DEF FetchFails
  <2> QED
    BY <2>1
<1>7. CASE Discard
  <2>1. pc = "process" /\ pc' = pc /\ cur' = cur
    BY <1>7 DEF Discard, Processing
  <2>2. next' = next + 1
    BY <1>7 DEF Discard, NextCandidate
  <2>3. candidates[cur][next] = "Discard"
    BY <1>7 DEF Discard
  <2> SUFFICES ASSUME NEW i \in DOMAIN candidates[cur], i < next',
                      candidates[cur][i] # "Discard"
               PROVE  Done(cur, i)'
    BY <2>1, <1>t1
  <2>8. i \in Nat /\ (i < next \/ i = next)
    BY <2>1, <1>t3, <2>2
  <2> QED
    BY <2>1, <2>3, <2>8, <1>t1, <1>t2
<1>8. CASE InsertMemory
  <2>1. pc' = pc /\ cur' = cur /\ next' = next
    BY <1>8 DEF InsertMemory
  <2> QED
    BY <2>1, <1>t1, <1>t2
<1>9. CASE LinkEntities
  <2>1. pc' = pc /\ cur' = cur /\ next' = next
    BY <1>9 DEF LinkEntities
  <2> QED
    BY <2>1, <1>t1, <1>t2
<1>10. CASE EmbedAndIndex
  <2>1. pc = "process" /\ pc' = pc /\ cur' = cur
    BY <1>10 DEF EmbedAndIndex, Processing
  <2>2. CASE lastId \in clashing
    <3>1. next' = next
      BY <1>10, <2>2 DEF EmbedAndIndex
    <3> QED
      BY <2>1, <3>1, <1>t1, <1>t2
  <2>3. CASE lastId \notin clashing
    <3>1. next' = next + 1
      BY <1>10, <2>3 DEF EmbedAndIndex, NextCandidate
    <3>2. ASSUME NEW n, n = next PROVE Done(cur, n)'
      <4> DEFINE m == [id |-> lastId, src |-> cur, cand |-> n, run |-> run]
      <4>1. m \in rows' /\ m.src = cur' /\ m.cand = n
        BY <1>10, <2>1, <3>2 DEF EmbedAndIndex, StageInv
      <4>2. m.id \in linked' /\ m.id \in embedded' /\ m.id \notin clashing'
        BY <1>10, <2>1, <2>3 DEF EmbedAndIndex, StageInv
      <4> QED
        BY <4>1, <4>2 DEF Done, Finished
    <3> SUFFICES ASSUME NEW i \in DOMAIN candidates[cur], i < next',
                        candidates[cur][i] # "Discard"
                 PROVE  Done(cur, i)'
      BY <2>1, <1>t1
    <3>3. i \in Nat /\ (i < next \/ i = next)
      BY <2>1, <1>t3, <3>1
    <3> QED
      BY <2>1, <3>2, <3>3, <1>t1, <1>t2
  <2> QED
    BY <2>2, <2>3
<1>11. CASE RecordConflict
  <2>1. pc = "process" /\ pc' = pc /\ cur' = cur
    BY <1>11 DEF RecordConflict, Processing
  <2>2. next' = next + 1
    BY <1>11 DEF RecordConflict, NextCandidate
  <2>3. ASSUME NEW n, n = next PROVE Done(cur, n)'
    <3> DEFINE m == [id |-> lastId, src |-> cur, cand |-> n, run |-> run]
    <3>1. m \in rows' /\ m.src = cur' /\ m.cand = n
      BY <1>11, <2>1, <2>3 DEF RecordConflict, StageInv
    <3>2. m.id \in linked' /\ m.id \in embedded' /\ m.id \in filed'
      BY <1>11, <2>1 DEF RecordConflict, StageInv
    <3> QED
      BY <3>1, <3>2 DEF Done, Finished
  <2> SUFFICES ASSUME NEW i \in DOMAIN candidates[cur], i < next',
                      candidates[cur][i] # "Discard"
               PROVE  Done(cur, i)'
    BY <2>1, <1>t1
  <2>4. i \in Nat /\ (i < next \/ i = next)
    BY <2>1, <1>t3, <2>2
  <2> QED
    BY <2>1, <2>3, <2>4, <1>t1, <1>t2
<1>12. CASE FinishEvent
  <2>1. pc = "process" /\ pc' = "advance" /\ cur' = cur /\ next > Len(candidates[cur])
    BY <1>12 DEF FinishEvent
  <2>2. ASSUME NEW i \in DOMAIN candidates[cur] PROVE i < next
    BY <2>1, <1>t3
  <2>3. Stored(cur)
    BY <2>1, <2>2 DEF Stored, Done, ProgressInv
  <2> QED
    BY <2>1, <2>3, StoredStable
<1>13. CASE ProcessFails
  <2>1. pc' \notin {"process", "advance"}
    BY <1>13 DEF ProcessFails
  <2> QED
    BY <2>1
<1>14. CASE RecordFailure
  <2>1. pc' = "advance" /\ cur' = cur /\ cur \in failures'
    BY <1>14 DEF RecordFailure
  <2> QED
    BY <2>1
<1>15. CASE RecordFailureFails
  <2>1. pc' = "advance" /\ cur' = cur /\ cur \in warned'
    BY <1>15 DEF RecordFailureFails
  <2> QED
    BY <2>1
<1>16. CASE SetCheckpoint
  <2>1. CASE Begin(batch)
    <3>1. pc' = "process" /\ cur' \in Keys /\ next' = 1
      BY <2>1, Zenon DEF Begin, TypeOK
    <3> QED
      BY <3>1, <1>t1, BeginOwesNothing
  <2>2. CASE pc' = "lag"
    BY <2>2
  <2> QED
    BY <1>16, <2>1, <2>2, Zenon DEF SetCheckpoint
<1>17. CASE DrainFails
  <2>1. pc' \notin {"process", "advance"}
    BY <1>17 DEF DrainFails
  <2> QED
    BY <2>1
<1>18. CASE CheckLag
  <2>1. pc' \notin {"process", "advance"}
    BY <1>18 DEF CheckLag
  <2> QED
    BY <2>1
<1>19. CASE CheckLagFails
  <2>1. pc' \notin {"process", "advance"}
    BY <1>19 DEF CheckLagFails
  <2> QED
    BY <2>1
<1>20. CASE WakeNotified
  <2>1. pc' \notin {"process", "advance"}
    BY <1>20 DEF WakeNotified
  <2> QED
    BY <2>1
<1>21. CASE WakeIdlePoll
  <2>1. pc' \notin {"process", "advance"}
    BY <1>21 DEF WakeIdlePoll
  <2> QED
    BY <2>1
<1>22. CASE Shutdown
  <2>1. pc' \notin {"process", "advance"}
    BY <1>22 DEF Shutdown
  <2> QED
    BY <2>1
<1>23. CASE Exit
  <2>1. pc' \notin {"process", "advance"}
    BY <1>23 DEF Exit
  <2> QED
    BY <2>1
<1>24. CASE Restart
  <2>1. pc' \notin {"process", "advance"}
    BY <1>24 DEF Restart
  <2> QED
    BY <2>1
<1>25. CASE UNCHANGED vars
  BY <1>t1, <1>t2, <1>t3, <1>25 DEF vars
<1> QED
  BY <1>1, <1>2, <1>3, <1>4, <1>5, <1>6, <1>7, <1>8, <1>9, <1>10, <1>11,
     <1>12, <1>13, <1>14, <1>15, <1>16, <1>17, <1>18, <1>19, <1>20, <1>21,
     <1>22, <1>23, <1>24, <1>25 DEF Next, Drain, ProcessEvent

\* Nothing the checkpoint passes is lost without a trace.
LEMMA AccountedStep == TypeOK /\ LoopInv /\ NoGap /\ RowInv /\ ProgressInv /\ AccountedFor /\ [Next]_vars => AccountedFor'
<1> SUFFICES ASSUME TypeOK, LoopInv, NoGap, RowInv, ProgressInv, AccountedFor, [Next]_vars PROVE AccountedFor'
  OBVIOUS
<1>t1. /\ failures \subseteq failures' /\ warned \subseteq warned'
       /\ overtaken \subseteq overtaken'
  BY TablesGrow DEF Grows
<1>t2. \A k : Stored(k) => Stored(k)'
  BY StoredStable
<1> USE DEF AccountedFor, store, worker, tables
<1>1. ASSUME NEW a \in Appenders, Stamp(a) PROVE AccountedFor'
  <2>1. log' = log /\ checkpoint' = checkpoint
    BY <1>1 DEF Stamp
  <2> QED
    BY <2>1, <1>t1, <1>t2
<1>2. ASSUME NEW a \in Appenders, InsertEvent(a) PROVE AccountedFor'
  <2>1. /\ log' = log \cup {pending[a]} /\ checkpoint' = checkpoint
        /\ pending[a] <= checkpoint => pending[a] \in overtaken'
    BY <1>2 DEF InsertEvent, ReadPast
  <2> QED
    BY <2>1, <1>t1, <1>t2
<1>3. ASSUME NEW a \in Appenders, InsertEventFails(a) PROVE AccountedFor'
  <2>1. log' = log /\ checkpoint' = checkpoint
    BY <1>3 DEF InsertEventFails
  <2> QED
    BY <2>1, <1>t1, <1>t2
<1>4. CASE Fetch
  <2>1. log' = log /\ checkpoint' = checkpoint
    BY <1>4 DEF Fetch
  <2> QED
    BY <2>1, <1>t1, <1>t2
<1>5. CASE FetchNothing
  <2>1. log' = log /\ checkpoint' = checkpoint
    BY <1>5 DEF FetchNothing
  <2> QED
    BY <2>1, <1>t1, <1>t2
<1>6. CASE FetchFails
  <2>1. log' = log /\ checkpoint' = checkpoint
    BY <1>6 DEF FetchFails
  <2> QED
    BY <2>1, <1>t1, <1>t2
<1>7. CASE Discard
  <2>1. log' = log /\ checkpoint' = checkpoint
    BY <1>7 DEF Discard
  <2> QED
    BY <2>1, <1>t1, <1>t2
<1>8. CASE InsertMemory
  <2>1. log' = log /\ checkpoint' = checkpoint
    BY <1>8 DEF InsertMemory
  <2> QED
    BY <2>1, <1>t1, <1>t2
<1>9. CASE LinkEntities
  <2>1. log' = log /\ checkpoint' = checkpoint
    BY <1>9 DEF LinkEntities
  <2> QED
    BY <2>1, <1>t1, <1>t2
<1>10. CASE EmbedAndIndex
  <2>1. log' = log /\ checkpoint' = checkpoint
    BY <1>10 DEF EmbedAndIndex
  <2> QED
    BY <2>1, <1>t1, <1>t2
<1>11. CASE RecordConflict
  <2>1. log' = log /\ checkpoint' = checkpoint
    BY <1>11 DEF RecordConflict
  <2> QED
    BY <2>1, <1>t1, <1>t2
<1>12. CASE FinishEvent
  <2>1. log' = log /\ checkpoint' = checkpoint
    BY <1>12 DEF FinishEvent
  <2> QED
    BY <2>1, <1>t1, <1>t2
<1>13. CASE ProcessFails
  <2>1. log' = log /\ checkpoint' = checkpoint
    BY <1>13 DEF ProcessFails
  <2> QED
    BY <2>1, <1>t1, <1>t2
<1>14. CASE RecordFailure
  <2>1. log' = log /\ checkpoint' = checkpoint
    BY <1>14 DEF RecordFailure
  <2> QED
    BY <2>1, <1>t1, <1>t2
<1>15. CASE RecordFailureFails
  <2>1. log' = log /\ checkpoint' = checkpoint
    BY <1>15 DEF RecordFailureFails
  <2> QED
    BY <2>1, <1>t1, <1>t2
<1>16. CASE SetCheckpoint
  <2>1. pc = "advance" /\ log' = log /\ checkpoint' = cur
    BY <1>16 DEF SetCheckpoint
  <2>2. /\ cur # 0 /\ checkpoint < cur /\ cur \in Nat /\ checkpoint \in Nat
        /\ log \subseteq Nat /\ batch \subseteq Nat /\ \A j \in batch : cur < j
    BY <2>1, WorkerAssumption DEF LoopInv, TypeOK, Keys
  <2> SUFFICES ASSUME NEW k \in log, k <= cur
               PROVE  k \in overtaken' \/ k \in failures' \/ k \in warned' \/ Stored(k)'
    BY <2>1
  <2>3. CASE k <= checkpoint
    BY <2>3, <1>t1, <1>t2
  <2>4. CASE k = cur
    BY <2>1, <2>4, <1>t1, <1>t2 DEF ProgressInv
  <2>5. CASE checkpoint < k /\ k < cur
    BY <2>2, <2>5, <1>t1 DEF NoGap
  <2> QED
    BY <2>2, <2>3, <2>4, <2>5
<1>17. CASE DrainFails
  <2>1. log' = log /\ checkpoint' = checkpoint
    BY <1>17 DEF DrainFails
  <2> QED
    BY <2>1, <1>t1, <1>t2
<1>18. CASE CheckLag
  <2>1. log' = log /\ checkpoint' = checkpoint
    BY <1>18 DEF CheckLag
  <2> QED
    BY <2>1, <1>t1, <1>t2
<1>19. CASE CheckLagFails
  <2>1. log' = log /\ checkpoint' = checkpoint
    BY <1>19 DEF CheckLagFails
  <2> QED
    BY <2>1, <1>t1, <1>t2
<1>20. CASE WakeNotified
  <2>1. log' = log /\ checkpoint' = checkpoint
    BY <1>20 DEF WakeNotified
  <2> QED
    BY <2>1, <1>t1, <1>t2
<1>21. CASE WakeIdlePoll
  <2>1. log' = log /\ checkpoint' = checkpoint
    BY <1>21 DEF WakeIdlePoll
  <2> QED
    BY <2>1, <1>t1, <1>t2
<1>22. CASE Shutdown
  <2>1. log' = log /\ checkpoint' = checkpoint
    BY <1>22 DEF Shutdown
  <2> QED
    BY <2>1, <1>t1, <1>t2
<1>23. CASE Exit
  <2>1. log' = log /\ checkpoint' = checkpoint
    BY <1>23 DEF Exit
  <2> QED
    BY <2>1, <1>t1, <1>t2
<1>24. CASE Restart
  <2>1. log' = log /\ checkpoint' = checkpoint
    BY <1>24 DEF Restart
  <2> QED
    BY <2>1, <1>t1, <1>t2
<1>25. CASE UNCHANGED vars
  BY <1>t1, <1>t2, <1>25 DEF vars
<1> QED
  BY <1>1, <1>2, <1>3, <1>4, <1>5, <1>6, <1>7, <1>8, <1>9, <1>10, <1>11,
     <1>12, <1>13, <1>14, <1>15, <1>16, <1>17, <1>18, <1>19, <1>20, <1>21,
     <1>22, <1>23, <1>24, <1>25 DEF Next, Drain, ProcessEvent

\* An event stored in two runs is the last the earlier run reached.
LEMMA LastStep == TypeOK /\ LoopInv /\ RowInv /\ LastInv /\ ReplayOnlyLast /\ [Next]_vars => LastInv' /\ ReplayOnlyLast'
<1> SUFFICES ASSUME TypeOK, LoopInv, RowInv, LastInv, ReplayOnlyLast, [Next]_vars PROVE LastInv' /\ ReplayOnlyLast'
  OBVIOUS
<1>t1. /\ cur \in Nat /\ checkpoint \in Nat /\ run \in Nat
       /\ \A m \in rows : m.src \in Nat /\ m.src # 0 /\ m.run \in Nat /\ m.run <= run
  BY WorkerAssumption DEF TypeOK, Row, Keys, RowInv
<1> USE DEF LastInv, ReplayOnlyLast, store, worker, tables
<1>1. ASSUME NEW a \in Appenders, Stamp(a) PROVE LastInv' /\ ReplayOnlyLast'
  <2>1. UNCHANGED <<rows, checkpoint, run, cur, pc>>
    BY <1>1 DEF Stamp
  <2> QED
    BY <2>1
<1>2. ASSUME NEW a \in Appenders, InsertEvent(a) PROVE LastInv' /\ ReplayOnlyLast'
  <2>1. UNCHANGED <<rows, checkpoint, run, cur, pc>>
    BY <1>2 DEF InsertEvent
  <2> QED
    BY <2>1
<1>3. ASSUME NEW a \in Appenders, InsertEventFails(a) PROVE LastInv' /\ ReplayOnlyLast'
  <2>1. UNCHANGED <<rows, checkpoint, run, cur, pc>>
    BY <1>3 DEF InsertEventFails
  <2> QED
    BY <2>1
<1>4. CASE Fetch
  <2>1. UNCHANGED <<rows, checkpoint, run>> /\ pc = "drain"
    BY <1>4 DEF Fetch
  <2>2. cur = 0
    BY <2>1 DEF LoopInv
  <2>3. \A m \in rows : ~(m.run = run /\ m.src > checkpoint)
    BY <2>1, <2>2, <1>t1
  <2> QED
    BY <2>1, <2>3
<1>5. CASE FetchNothing
  <2>1. /\ UNCHANGED <<rows, checkpoint, run, cur>>
        /\ pc' \in {"dead", "down"} \/ pc \notin {"dead", "down"}
    BY <1>5 DEF FetchNothing, Processing
  <2> QED
    BY <2>1
<1>6. CASE FetchFails
  <2>1. /\ UNCHANGED <<rows, checkpoint, run, cur>>
        /\ pc' \in {"dead", "down"} \/ pc \notin {"dead", "down"}
    BY <1>6 DEF FetchFails, Processing
  <2> QED
    BY <2>1
<1>7. CASE Discard
  <2>1. /\ UNCHANGED <<rows, checkpoint, run, cur>>
        /\ pc' \in {"dead", "down"} \/ pc \notin {"dead", "down"}
    BY <1>7 DEF Discard, Processing
  <2> QED
    BY <2>1
<1>8. CASE InsertMemory
  <2>1. pc = "process" /\ UNCHANGED <<pc, cur, checkpoint, run>>
    BY <1>8 DEF InsertMemory, Processing
  <2>2. cur # 0 /\ checkpoint < cur
    BY <2>1 DEF LoopInv
  <2> DEFINE new == [id |-> lastId + 1, src |-> cur, cand |-> next, run |-> run]
  <2>3. rows' = rows \cup {new} /\ new.src = cur /\ new.run = run
    BY <1>8 DEF InsertMemory
  <2> HIDE DEF new
  <2>4. \A m \in rows : m.run = run => m.src <= cur
    BY <2>1, <2>2, <1>t1
  <2>5. ReplayOnlyLast'
    BY <2>1, <2>2, <2>3, <1>t1
  <2> QED
    BY <2>1, <2>2, <2>3, <2>4, <2>5, <1>t1
<1>9. CASE LinkEntities
  <2>1. /\ UNCHANGED <<rows, checkpoint, run, cur>>
        /\ pc' \in {"dead", "down"} \/ pc \notin {"dead", "down"}
    BY <1>9 DEF LinkEntities, Processing
  <2> QED
    BY <2>1
<1>10. CASE EmbedAndIndex
  <2>1. /\ UNCHANGED <<rows, checkpoint, run, cur>>
        /\ pc' \in {"dead", "down"} \/ pc \notin {"dead", "down"}
    BY <1>10 DEF EmbedAndIndex, Processing
  <2> QED
    BY <2>1
<1>11. CASE RecordConflict
  <2>1. /\ UNCHANGED <<rows, checkpoint, run, cur>>
        /\ pc' \in {"dead", "down"} \/ pc \notin {"dead", "down"}
    BY <1>11 DEF RecordConflict, Processing
  <2> QED
    BY <2>1
<1>12. CASE FinishEvent
  <2>1. /\ UNCHANGED <<rows, checkpoint, run, cur>>
        /\ pc' \in {"dead", "down"} \/ pc \notin {"dead", "down"}
    BY <1>12 DEF FinishEvent, Processing
  <2> QED
    BY <2>1
<1>13. CASE ProcessFails
  <2>1. /\ UNCHANGED <<rows, checkpoint, run, cur>>
        /\ pc' \in {"dead", "down"} \/ pc \notin {"dead", "down"}
    BY <1>13 DEF ProcessFails, Processing
  <2> QED
    BY <2>1
<1>14. CASE RecordFailure
  <2>1. /\ UNCHANGED <<rows, checkpoint, run, cur>>
        /\ pc' \in {"dead", "down"} \/ pc \notin {"dead", "down"}
    BY <1>14 DEF RecordFailure, Processing
  <2> QED
    BY <2>1
<1>15. CASE RecordFailureFails
  <2>1. /\ UNCHANGED <<rows, checkpoint, run, cur>>
        /\ pc' \in {"dead", "down"} \/ pc \notin {"dead", "down"}
    BY <1>15 DEF RecordFailureFails, Processing
  <2> QED
    BY <2>1
<1>16. CASE SetCheckpoint
  <2>1. UNCHANGED <<rows, run>> /\ checkpoint' = cur /\ pc = "advance"
    BY <1>16 DEF SetCheckpoint
  <2>2. checkpoint < cur
    BY <2>1 DEF LoopInv
  <2>3. \A m \in rows : ~(m.run = run /\ m.src > cur)
    BY <2>1, <2>2, <1>t1
  <2> QED
    BY <2>1, <2>2, <2>3, <1>t1
<1>17. CASE DrainFails
  <2>1. UNCHANGED <<rows, checkpoint, run>> /\ pc' \in {"dead", "down"}
    BY <1>17 DEF DrainFails
  <2> QED
    BY <2>1
<1>18. CASE CheckLag
  <2>1. /\ UNCHANGED <<rows, checkpoint, run, cur>>
        /\ pc' \in {"dead", "down"} \/ pc \notin {"dead", "down"}
    BY <1>18 DEF CheckLag, Processing
  <2> QED
    BY <2>1
<1>19. CASE CheckLagFails
  <2>1. /\ UNCHANGED <<rows, checkpoint, run, cur>>
        /\ pc' \in {"dead", "down"} \/ pc \notin {"dead", "down"}
    BY <1>19 DEF CheckLagFails, Processing
  <2> QED
    BY <2>1
<1>20. CASE WakeNotified
  <2>1. /\ UNCHANGED <<rows, checkpoint, run, cur>>
        /\ pc' \in {"dead", "down"} \/ pc \notin {"dead", "down"}
    BY <1>20 DEF WakeNotified, Processing
  <2> QED
    BY <2>1
<1>21. CASE WakeIdlePoll
  <2>1. /\ UNCHANGED <<rows, checkpoint, run, cur>>
        /\ pc' \in {"dead", "down"} \/ pc \notin {"dead", "down"}
    BY <1>21 DEF WakeIdlePoll, Processing
  <2> QED
    BY <2>1
<1>22. CASE Shutdown
  <2>1. /\ UNCHANGED <<rows, checkpoint, run, cur>>
        /\ pc' \in {"dead", "down"} \/ pc \notin {"dead", "down"}
    BY <1>22 DEF Shutdown, Processing
  <2> QED
    BY <2>1
<1>23. CASE Exit
  <2>1. UNCHANGED <<rows, checkpoint, run>> /\ pc' \in {"dead", "down"}
    BY <1>23 DEF Exit
  <2> QED
    BY <2>1
<1>24. CASE Restart
  <2>1. UNCHANGED <<rows, checkpoint>> /\ run' = run + 1
    BY <1>24 DEF Restart
  <2>2. \A m \in rows : m.run # run'
    BY <2>1, <1>t1
  <2> QED
    BY <2>1, <2>2
<1>25. CASE UNCHANGED vars
  BY <1>t1, <1>25 DEF vars
<1> QED
  BY <1>1, <1>2, <1>3, <1>4, <1>5, <1>6, <1>7, <1>8, <1>9, <1>10, <1>11,
     <1>12, <1>13, <1>14, <1>15, <1>16, <1>17, <1>18, <1>19, <1>20, <1>21,
     <1>22, <1>23, <1>24, <1>25 DEF Next, Drain, ProcessEvent

\* The lag flag is settled before the worker waits.
LEMMA LagStep == TypeOK /\ LagInv /\ [Next]_vars => LagInv'
<1> SUFFICES ASSUME TypeOK, LagInv, [Next]_vars PROVE LagInv'
  OBVIOUS
<1>t1. faults \in Nat /\ lagging \in BOOLEAN
  BY WorkerAssumption DEF TypeOK
<1> USE DEF LagInv, store, worker, tables
<1>1. ASSUME NEW a \in Appenders, Stamp(a) PROVE LagInv'
  BY <1>t1, <1>1 DEF Stamp, EventsAfter
<1>2. ASSUME NEW a \in Appenders, InsertEvent(a) PROVE LagInv'
  BY <1>t1, <1>2 DEF InsertEvent, EventsAfter
<1>3. ASSUME NEW a \in Appenders, InsertEventFails(a) PROVE LagInv'
  BY <1>t1, <1>3 DEF InsertEventFails, EventsAfter
<1>4. CASE Fetch
  <2>1. pc' = "process"
    BY <1>4, Zenon DEF Fetch, Begin
  <2> QED
    BY <2>1
<1>5. CASE FetchNothing
  BY <1>t1, <1>5 DEF FetchNothing, EventsAfter
<1>6. CASE FetchFails
  BY <1>t1, <1>6 DEF FetchFails, EventsAfter
<1>7. CASE Discard
  BY <1>t1, <1>7 DEF Discard, EventsAfter
<1>8. CASE InsertMemory
  BY <1>t1, <1>8 DEF InsertMemory, EventsAfter
<1>9. CASE LinkEntities
  BY <1>t1, <1>9 DEF LinkEntities, EventsAfter
<1>10. CASE EmbedAndIndex
  BY <1>t1, <1>10 DEF EmbedAndIndex, EventsAfter
<1>11. CASE RecordConflict
  BY <1>t1, <1>11 DEF RecordConflict, EventsAfter
<1>12. CASE FinishEvent
  BY <1>t1, <1>12 DEF FinishEvent, EventsAfter
<1>13. CASE ProcessFails
  BY <1>t1, <1>13 DEF ProcessFails, EventsAfter
<1>14. CASE RecordFailure
  BY <1>t1, <1>14 DEF RecordFailure, EventsAfter
<1>15. CASE RecordFailureFails
  BY <1>t1, <1>15 DEF RecordFailureFails, EventsAfter
<1>16. CASE SetCheckpoint
  <2>1. pc' \in {"process", "lag"}
    BY <1>16, Zenon DEF SetCheckpoint, Begin
  <2> QED
    BY <2>1
<1>17. CASE DrainFails
  BY <1>t1, <1>17 DEF DrainFails, EventsAfter
<1>18. CASE CheckLag
  <2>1. UNCHANGED <<log, checkpoint>> /\ pc' = "drain"
    BY <1>18 DEF CheckLag
  <2>2. EventsAfter(checkpoint) = {} => ~lagging'
    BY <1>18 DEF CheckLag, NowLagging
  <2> QED
    BY <2>1, <2>2 DEF EventsAfter
<1>19. CASE CheckLagFails
  <2>1. pc' = "drain" /\ faults' # 0
    BY <1>19, <1>t1 DEF CheckLagFails
  <2> QED
    BY <2>1
<1>20. CASE WakeNotified
  BY <1>t1, <1>20 DEF WakeNotified, EventsAfter
<1>21. CASE WakeIdlePoll
  BY <1>t1, <1>21 DEF WakeIdlePoll, EventsAfter
<1>22. CASE Shutdown
  BY <1>t1, <1>22 DEF Shutdown, EventsAfter
<1>23. CASE Exit
  BY <1>t1, <1>23 DEF Exit, EventsAfter
<1>24. CASE Restart
  BY <1>t1, <1>24 DEF Restart, EventsAfter
<1>25. CASE UNCHANGED vars
  BY <1>t1, <1>25 DEF vars, EventsAfter
<1> QED
  BY <1>1, <1>2, <1>3, <1>4, <1>5, <1>6, <1>7, <1>8, <1>9, <1>10, <1>11,
     <1>12, <1>13, <1>14, <1>15, <1>16, <1>17, <1>18, <1>19, <1>20, <1>21,
     <1>22, <1>23, <1>24, <1>25 DEF Next, Drain, ProcessEvent
-----------------------------------------------------------------------------
(* The theorems.                                                           *)

\* The initial state satisfies the inductive invariant.
LEMMA IInvInit == Init => IInv
<1> SUFFICES ASSUME Init PROVE IInv
  OBVIOUS
<1>1. TypeOK
  BY TypeInit
<1>2. ~lagging
  BY Zenon DEF Init
<1>3. /\ log = {} /\ rows = {} /\ batch = {} /\ cur = 0 /\ pc = "drain"
  BY DEF Init
<1>4. LoopInv /\ NoGap /\ StageInv /\ ProgressInv
  BY <1>3 DEF LoopInv, NoGap, StageInv, ProgressInv
<1>5. RowInv /\ LastInv /\ AccountedFor /\ ReplayOnlyLast
  BY <1>3 DEF RowInv, LastInv, AccountedFor, ReplayOnlyLast
<1>6. LagInv
  BY <1>2, <1>3 DEF LagInv
<1> QED
  BY <1>1, <1>4, <1>5, <1>6 DEF IInv

\* Every step of the appenders, the worker and the daemon keeps it.
LEMMA IInvStep == IInv /\ [Next]_vars => IInv'
<1> SUFFICES ASSUME IInv, [Next]_vars PROVE IInv'
  OBVIOUS
<1>1. TypeOK' /\ LoopInv' /\ NoGap'
  BY TypeStep, LoopStep, NoGapStep DEF IInv
<1>2. RowInv' /\ StageInv' /\ ProgressInv'
  BY RowStep, StageStep, ProgressStep DEF IInv
<1>3. AccountedFor' /\ LastInv' /\ ReplayOnlyLast' /\ LagInv'
  BY AccountedStep, LastStep, LagStep DEF IInv
<1> QED
  BY <1>1, <1>2, <1>3 DEF IInv

\* The inductive invariant holds throughout.
THEOREM Invariance == Spec => []IInv
BY IInvInit, IInvStep, PTL DEF Spec

\* The tables and the worker's state stay well typed; above all the checkpoint
\* written by set_worker_checkpoint is the key of a stamped event.
THEOREM TypeCorrect == Spec => []TypeOK
<1>1. IInv => TypeOK
  BY DEF IInv
<1> QED
  BY <1>1, Invariance, PTL

\* The worker never passes an event it read without storing it completely or
\* reporting its failure, whatever is killed or fails (drain_once_sync).
THEOREM EventsAccountedFor == Spec => []AccountedFor
<1>1. IInv => AccountedFor
  BY DEF IInv
<1> QED
  BY <1>1, Invariance, PTL

\* A kill makes the worker repeat at most the event it was at
\* (set_worker_checkpoint after every event).
THEOREM OnlyLastReplayed == Spec => []ReplayOnlyLast
<1>1. IInv => ReplayOnlyLast
  BY DEF IInv
<1> QED
  BY <1>1, Invariance, PTL

\* Without store errors the lag flag is down when the worker waits with an
\* empty queue (check_lag_and_maybe_notify).
THEOREM LagCleared == Spec => []LagClearedWhenIdle
<1>1. IInv => LagClearedWhenIdle
  BY DEF IInv, LagInv, LagClearedWhenIdle
<1> QED
  BY <1>1, Invariance, PTL

-----------------------------------------------------------------------------
(* One appender: the excuse of AccountedFor is never needed.               *)

\* Events reach the log in the order of their keys.
InOrder ==
    /\ \A k \in log : k <= clock
    /\ \A a \in Appenders :
        pending[a] # 0 => /\ pending[a] <= clock
                          /\ \A k \in log : k < pending[a]
    /\ checkpoint # 0 => checkpoint \in log
    /\ overtaken = {}

\* With one appender no event is inserted behind what the worker has read.
LEMMA InOrderStep ==
    ASSUME OneAppender
    PROVE  IInv /\ InOrder /\ [Next]_vars => InOrder'
<1> SUFFICES ASSUME IInv, InOrder, [Next]_vars PROVE InOrder'
  OBVIOUS
<1>t1. /\ clock \in Nat /\ checkpoint \in Nat /\ cur \in Nat
       /\ log \subseteq Nat /\ pending \in [Appenders -> Nat]
       /\ MaxEvents \in Nat
  BY WorkerAssumption DEF IInv, TypeOK, Keys
<1>t2. /\ cur # 0 => cur \in log
       /\ batch \subseteq log
       /\ pc \in {"process", "record", "advance"} <=> cur # 0
  BY DEF IInv, LoopInv
<1> USE DEF InOrder, store, worker, tables
<1>1. ASSUME NEW a \in Appenders, Stamp(a) PROVE InOrder'
  <2>1. /\ clock' = clock + 1 /\ pending' = [pending EXCEPT ![a] = clock + 1]
        /\ UNCHANGED <<log, checkpoint, overtaken>>
    BY <1>1 DEF Stamp
  <2> QED
    BY <1>t1, <2>1
<1>2. ASSUME NEW a \in Appenders, InsertEvent(a) PROVE InOrder'
  <2>1. /\ pending[a] # 0 /\ log' = log \cup {pending[a]}
        /\ pending' = [pending EXCEPT ![a] = 0]
        /\ UNCHANGED <<clock, checkpoint>>
    BY <1>2 DEF InsertEvent
  <2>2. ~ReadPast(pending[a])
    BY <1>t1, <1>t2, <2>1 DEF ReadPast
  <2>3. overtaken' = overtaken
    BY <1>2, <2>2 DEF InsertEvent
  <2>4. \A b \in Appenders : pending'[b] = 0
    BY <1>t1, <2>1 DEF OneAppender
  <2> QED
    BY <1>t1, <2>1, <2>3, <2>4
<1>3. ASSUME NEW a \in Appenders, InsertEventFails(a) PROVE InOrder'
  <2>1. /\ pending' = [pending EXCEPT ![a] = 0]
        /\ UNCHANGED <<clock, log, checkpoint, overtaken>>
    BY <1>3 DEF InsertEventFails
  <2> QED
    BY <1>t1, <2>1
<1>4. CASE SetCheckpoint
  <2>1. /\ pc = "advance" /\ checkpoint' = cur
        /\ UNCHANGED <<clock, pending, log, overtaken>>
    BY <1>4 DEF SetCheckpoint
  <2> QED
    BY <1>t2, <2>1
<1>5. CASE Exit
  <2>1. /\ pending' = [a \in Appenders |-> 0]
        /\ UNCHANGED <<clock, log, checkpoint, overtaken>>
    BY <1>5 DEF Exit
  <2> QED
    BY <1>t1, <2>1
<1>6. CASE Fetch
  BY <1>6 DEF Fetch
<1>7. CASE FetchNothing
  BY <1>7 DEF FetchNothing
<1>8. CASE FetchFails
  BY <1>8 DEF FetchFails
<1>9. CASE Discard
  BY <1>9 DEF Discard
<1>10. CASE InsertMemory
  BY <1>10 DEF InsertMemory
<1>11. CASE LinkEntities
  BY <1>11 DEF LinkEntities
<1>12. CASE EmbedAndIndex
  BY <1>12 DEF EmbedAndIndex
<1>13. CASE RecordConflict
  BY <1>13 DEF RecordConflict
<1>14. CASE FinishEvent
  BY <1>14 DEF FinishEvent
<1>15. CASE ProcessFails
  BY <1>15 DEF ProcessFails
<1>16. CASE RecordFailure
  BY <1>16 DEF RecordFailure
<1>17. CASE RecordFailureFails
  BY <1>17 DEF RecordFailureFails
<1>18. CASE DrainFails
  BY <1>18 DEF DrainFails
<1>19. CASE CheckLag
  BY <1>19 DEF CheckLag
<1>20. CASE CheckLagFails
  BY <1>20 DEF CheckLagFails
<1>21. CASE WakeNotified
  BY <1>21 DEF WakeNotified
<1>22. CASE WakeIdlePoll
  BY <1>22 DEF WakeIdlePoll
<1>23. CASE Shutdown
  BY <1>23 DEF Shutdown
<1>24. CASE Restart
  BY <1>24 DEF Restart
<1>25. CASE UNCHANGED vars
  BY <1>25 DEF vars
<1> QED
  BY <1>1, <1>2, <1>3, <1>4, <1>5, <1>6, <1>7, <1>8, <1>9, <1>10, <1>11,
     <1>12, <1>13, <1>14, <1>15, <1>16, <1>17, <1>18, <1>19, <1>20, <1>21,
     <1>22, <1>23, <1>24, <1>25 DEF Next, Drain, ProcessEvent

\* When events arrive over one connection, at-least-once holds as documented:
\* no event is passed unless it is stored or its failure is reported.
THEOREM AtLeastOnceInOrder ==
    ASSUME OneAppender
    PROVE  Spec => []AtLeastOnce
<1>1. Init => InOrder
  BY DEF Init, InOrder
<1>2. IInv /\ InOrder /\ [Next]_vars => InOrder'
  BY InOrderStep
<1>3. IInv /\ InOrder => AtLeastOnce
  BY DEF IInv, InOrder, AccountedFor, AtLeastOnce
<1> QED
  BY <1>1, <1>2, <1>3, Invariance, PTL DEF Spec

-----------------------------------------------------------------------------
(* The worker implements the abstract event log.                           *)

\* Keys are handed out once: a stamped key is in no other appender's hands and
\* not yet in the log.
FreshKeys ==
    /\ \A k \in log : k <= clock
    /\ \A a \in Appenders :
        pending[a] # 0 =>
            /\ pending[a] <= clock
            /\ pending[a] \notin log
            /\ \A b \in Appenders : pending[b] = pending[a] => a = b

\* Steps other than the three of append_event and Exit leave the keys alone.
LEMMA FreshStep == TypeOK /\ FreshKeys /\ [Next]_vars => FreshKeys'
<1> SUFFICES ASSUME TypeOK, FreshKeys, [Next]_vars PROVE FreshKeys'
  OBVIOUS
<1>t. /\ clock \in Nat /\ log \subseteq Nat /\ pending \in [Appenders -> Nat]
  BY WorkerAssumption DEF TypeOK, Keys
<1> USE DEF FreshKeys
<1>1. ASSUME NEW a \in Appenders, Stamp(a) PROVE FreshKeys'
  <2>1. /\ clock' = clock + 1 /\ pending' = [pending EXCEPT ![a] = clock + 1]
        /\ log' = log
    BY <1>1 DEF Stamp, store
  <2> QED
    BY <1>t, <2>1
<1>2. ASSUME NEW a \in Appenders, InsertEvent(a) PROVE FreshKeys'
  <2>1. /\ pending[a] # 0 /\ log' = log \cup {pending[a]}
        /\ pending' = [pending EXCEPT ![a] = 0] /\ clock' = clock
    BY <1>2 DEF InsertEvent
  <2> QED
    BY <1>t, <2>1
<1>3. ASSUME NEW a \in Appenders, InsertEventFails(a) PROVE FreshKeys'
  <2>1. /\ pending' = [pending EXCEPT ![a] = 0] /\ clock' = clock /\ log' = log
    BY <1>3 DEF InsertEventFails, store
  <2> QED
    BY <1>t, <2>1
<1>4. CASE Exit
  <2>1. /\ pending' = [a \in Appenders |-> 0] /\ clock' = clock /\ log' = log
    BY <1>4 DEF Exit, store
  <2> QED
    BY <1>t, <2>1
<1>5. CASE ProcessEvent \/ SetCheckpoint
  BY <1>5 DEF ProcessEvent, Discard, InsertMemory, LinkEntities, EmbedAndIndex,
     RecordConflict, FinishEvent, ProcessFails, RecordFailure,
     RecordFailureFails, SetCheckpoint, store
<1>6. CASE Fetch \/ FetchNothing \/ FetchFails \/ DrainFails \/ CheckLag \/ CheckLagFails
  BY <1>6 DEF Fetch, FetchNothing, FetchFails, DrainFails, CheckLag,
     CheckLagFails, store
<1>7. CASE WakeNotified \/ WakeIdlePoll \/ Shutdown \/ Restart
  BY <1>7 DEF WakeNotified, WakeIdlePoll, Shutdown, Restart, store
<1>8. CASE UNCHANGED vars
  BY <1>8 DEF vars
<1> QED
  BY <1>1, <1>2, <1>3, <1>4, <1>5, <1>6, <1>7, <1>8 DEF Next, Drain

\* Every event behind the checkpoint that was not overtaken is accounted for, so
\* the abstract log has passed exactly those.
LEMMA PassedIsBehind ==
    /\ AccountedFor => Passed = {k \in log \ overtaken : k <= checkpoint}
    /\ AccountedFor' => Passed' = {k \in log' \ overtaken' : k <= checkpoint'}
BY DEF AccountedFor, Passed

\* insert_event is Append: a key behind the checkpoint is late.
LEMMA InsertIsAppend ==
    ASSUME IInv, IInv', FreshKeys, NEW a \in Appenders, InsertEvent(a)
    PROVE  Abstract!Append(pending[a]) /\ pending[a] \in Keys
<1>1. /\ pending[a] # 0 /\ log' = log \cup {pending[a]} /\ checkpoint' = checkpoint
      /\ overtaken' = IF ReadPast(pending[a]) THEN overtaken \cup {pending[a]}
                                              ELSE overtaken
  BY DEF InsertEvent
<1>2. pending[a] \in Keys /\ pending[a] \notin log
  BY <1>1, WorkerAssumption DEF IInv, TypeOK, Keys, FreshKeys
<1>3. pending[a] <= checkpoint => pending[a] \in overtaken'
  BY <1>1 DEF ReadPast
<1>4. /\ Passed = {k \in log \ overtaken : k <= checkpoint}
      /\ Passed' = {k \in log' \ overtaken' : k <= checkpoint'}
  BY PassedIsBehind DEF IInv
<1>5. Passed' = Passed
  BY <1>1, <1>2, <1>3, <1>4
<1> QED
  BY <1>1, <1>2, <1>3, <1>5 DEF Abstract!Append

\* set_worker_checkpoint is Pass: what lies between the old and the new position
\* was inserted after the batch was read.
LEMMA AdvanceIsPass ==
    ASSUME IInv, IInv', SetCheckpoint
    PROVE  Abstract!Pass(cur) /\ cur \in Keys
<1>1. pc = "advance" /\ checkpoint' = cur /\ log' = log /\ overtaken' = overtaken
  BY DEF SetCheckpoint
<1>2. /\ checkpoint \in Nat /\ cur \in Nat /\ log \subseteq Nat /\ log \subseteq Keys
      /\ batch \subseteq Nat
  BY WorkerAssumption DEF IInv, TypeOK, Keys
<1>3. /\ cur # 0 /\ cur \in log /\ checkpoint < cur
      /\ \A j \in batch : cur < j
  BY <1>1 DEF IInv, LoopInv
<1>4. \A j \in log : checkpoint < j /\ j < cur => j \in overtaken
  BY <1>2, <1>3 DEF IInv, NoGap
<1>5. /\ Passed = {k \in log \ overtaken : k <= checkpoint}
      /\ Passed' = {k \in log' \ overtaken' : k <= checkpoint'}
  BY PassedIsBehind DEF IInv
<1>6. Passed' = Passed \cup ({cur} \ overtaken)
  <2>1. \A k : k \in Passed' <=> k \in log /\ k \notin overtaken /\ k <= cur
    BY <1>1, <1>5
  <2>2. \A k : k \in Passed <=> k \in log /\ k \notin overtaken /\ k <= checkpoint
    BY <1>5
  <2>3. \A k \in log : k \notin overtaken => (k <= cur <=> k <= checkpoint \/ k = cur)
    BY <1>2, <1>3, <1>4
  <2>4. \A k : k \in Passed' <=> k \in Passed \/ (k = cur /\ k \notin overtaken)
    BY <1>3, <2>1, <2>2, <2>3
  <2> QED
    BY <2>4
<1> QED
  BY <1>1, <1>2, <1>3, <1>4, <1>6 DEF Abstract!Pass

\* Every step of the worker is a step of the abstract log or changes nothing in it.
LEMMA StepRefines ==
    IInv /\ IInv' /\ FreshKeys /\ [Next]_vars
        => [Abstract!LogNext]_(Abstract!logVars)
<1> SUFFICES ASSUME IInv, IInv', FreshKeys, [Next]_vars
             PROVE  Abstract!LogNext \/ UNCHANGED Abstract!logVars
  OBVIOUS
<1>1. ASSUME NEW a \in Appenders, InsertEvent(a) PROVE Abstract!LogNext
  BY <1>1, InsertIsAppend DEF Abstract!LogNext
<1>2. CASE SetCheckpoint
  BY <1>2, AdvanceIsPass DEF Abstract!LogNext
<1>3. ASSUME UNCHANGED <<log, checkpoint, overtaken>> PROVE UNCHANGED Abstract!logVars
  <2>1. Passed' = Passed
    BY <1>3, PassedIsBehind DEF IInv
  <2> QED
    BY <1>3, <2>1 DEF Abstract!logVars
<1>4. ASSUME NEW a \in Appenders, Stamp(a) \/ InsertEventFails(a)
      PROVE  UNCHANGED <<log, checkpoint, overtaken>>
  BY <1>4 DEF Stamp, InsertEventFails, store
<1>5. CASE ProcessEvent
  BY <1>5, <1>3 DEF ProcessEvent, Discard, InsertMemory, LinkEntities,
     EmbedAndIndex, RecordConflict, FinishEvent, ProcessFails, RecordFailure,
     RecordFailureFails, store
<1>6. CASE Fetch \/ FetchNothing \/ FetchFails \/ DrainFails \/ CheckLag \/ CheckLagFails
  BY <1>6, <1>3 DEF Fetch, FetchNothing, FetchFails, DrainFails, CheckLag,
     CheckLagFails, store
<1>7. CASE WakeNotified \/ WakeIdlePoll \/ Shutdown \/ Exit \/ Restart
  BY <1>7, <1>3 DEF WakeNotified, WakeIdlePoll, Shutdown, Exit, Restart, store
<1>8. CASE UNCHANGED vars
  BY <1>8, <1>3 DEF vars
<1> QED
  BY <1>1, <1>2, <1>3, <1>4, <1>5, <1>6, <1>7, <1>8 DEF Next, Drain

\* The worker implements the abstract event log: through batches, errors, kills
\* and replays the checkpoint passes the events in key order, one at a time,
\* accounted for, and jumps only over those inserted behind what had been read.
THEOREM WorkerImplementsEventLog == Spec => ImplementsEventLog
<1>1. Init => Abstract!LogInit /\ FreshKeys
  BY DEF Init, Abstract!LogInit, FreshKeys, Passed
<1>2. TypeOK /\ FreshKeys /\ [Next]_vars => FreshKeys'
  BY FreshStep
<1>3. IInv => TypeOK
  BY DEF IInv
<1>4. IInv /\ IInv' /\ FreshKeys /\ [Next]_vars
        => [Abstract!LogNext]_(Abstract!logVars)
  BY StepRefines
<1> QED
  BY <1>1, <1>2, <1>3, <1>4, Invariance, PTL
     DEF Spec, ImplementsEventLog, Abstract!LogSpec
=============================================================================
