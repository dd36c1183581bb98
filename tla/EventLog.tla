------------------------------ MODULE EventLog ------------------------------
(***************************************************************************)
(* What the event log and its worker promise together, without batches,    *)
(* candidates, errors, kills or restarts: events are appended under keys,  *)
(* and a position moves over them in key order, one event at a time, each  *)
(* accounted for when it is passed.  Only events appended late, behind     *)
(* what had already been read, may be jumped over.                         *)
(***************************************************************************)
EXTENDS Integers

CONSTANT Keys  \* the keys of events, in the order of (created_at, id)

VARIABLES
    log,       \* the events appended
    position,  \* the key of the last event passed, 0 at first
    passed,    \* the events passed in their turn, and accounted for
    late       \* the events appended late

logVars == <<log, position, passed, late>>

LogInit ==
    /\ log = {}
    /\ position = 0
    /\ passed = {}
    /\ late = {}

\* An event arrives.  Behind the position it is late; ahead of it, it may be.
Append(k) ==
    /\ k \notin log
    /\ log' = log \cup {k}
    /\ late' \in {late, late \cup {k}}
    /\ k <= position => k \in late'
    /\ UNCHANGED <<position, passed>>

\* The worker is done with event k, the first one ahead that is not late, or a
\* late one before it.
Pass(k) ==
    /\ k \in log
    /\ k > position
    /\ \A j \in log : position < j /\ j < k => j \in late
    /\ position' = k
    /\ passed' = passed \cup ({k} \ late)
    /\ UNCHANGED <<log, late>>

LogNext == \E k \in Keys : Append(k) \/ Pass(k)

LogSpec == LogInit /\ [][LogNext]_logVars
=============================================================================
