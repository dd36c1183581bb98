----------------------------- MODULE Conflicts ------------------------------
(***************************************************************************)
(* Contradicting claims.  The worker compares a promoted claim with the    *)
(* active memories about the same subject and predicate; if one in a       *)
(* shared scope has another object it stores the claim all the same and    *)
(* files both under a conflict, an open one if there is one.  People       *)
(* resolve conflicts by picking a winner, by writing a merged memory or by *)
(* rejecting all; meanwhile memories are added by hand, which no detector  *)
(* looks at, and forgotten.                                                *)
(*                                                                         *)
(* All claims here have one (subject, predicate); other pairs do not meet. *)
(* One step is one call of a Store method.  The calls that only concern    *)
(* embeddings and the index are in module MemoryIndex.                     *)
(***************************************************************************)
EXTENDS Integers, FiniteSets, Sequences

CONSTANTS
    Claims,        \* what may be said: [scope, object] records
    Resolvers,     \* RPC calls of resolve_conflict in progress
    MaxMemories,   \* bound: memories ever inserted
    MaxConflicts,  \* bound: conflicts ever opened
    MaxFaults      \* bound: store calls that return an error, and kills

Objects == {c.object : c \in Claims}
Scopes == {c.scope : c \in Claims}

ASSUME ConflictsAssumption ==
    /\ Claims \subseteq [scope : Scopes, object : Objects]
    /\ MaxMemories \in Nat
    /\ MaxConflicts \in Nat
    /\ MaxFaults \in Nat

VARIABLES
    memories,   \* table memories: the claim of each id, in order of creation
    sup,        \* column superseded_by, 0 for NULL
    deleted,    \* ids with a deleted_at
    conflicts,  \* table conflicts: [scope, competing, resolution] by creation
    pc,         \* where the worker is
    claim,      \* the candidate it is at
    found,      \* the ids conflict_detector::find returned
    home,       \* the open conflict it found
    own,        \* the id it gave the candidate, 0 before the insert
    adding,     \* other ids it has still to put there
    rpc,        \* where each resolver is
    target,     \* the conflict it resolves
    action,     \* the resolution it applies
    winner,     \* the memory that supersedes the others, 0 for none
    snapshot,   \* the competing ids it read
    losers,     \* those it has still to retire
    faults,     \* errors and kills so far
    watched,    \* history: ids the worker stored to the end
    late,       \* history: ids a resolver did not see in time
    stale       \* history: some winner was itself superseded

workerVars == <<pc, claim, found, home, own, adding>>
resolverVars == <<rpc, target, action, winner, snapshot, losers>>
history == <<watched, late, stale>>
vars == <<memories, sup, deleted, conflicts, pc, claim, found, home, own, adding,
          rpc, target, action, winner, snapshot, losers, faults,
          watched, late, stale>>

Ids == 1..MaxMemories
Resolution == {"unresolved", "picked", "merged", "rejected_all"}

TypeOK ==
    /\ memories \in Seq([scope : Scopes, object : Objects])
    /\ Len(memories) <= MaxMemories
    /\ sup \in [Ids -> 0..MaxMemories]
    /\ deleted \subseteq 1..Len(memories)
    /\ \A k \in DOMAIN conflicts :
        /\ conflicts[k].competing \subseteq 1..Len(memories)
        /\ conflicts[k].resolution \in Resolution
    /\ Len(conflicts) <= MaxConflicts
    /\ pc \in {"idle", "insert", "lookup", "extend", "open"}
    /\ claim \subseteq Claims
    /\ found \subseteq 1..Len(memories)
    /\ home \in 0..Len(conflicts)
    /\ own \in 0..Len(memories)
    /\ adding \subseteq 1..Len(memories)
    /\ rpc \in [Resolvers -> {"idle", "merge", "retire"}]
    /\ target \in [Resolvers -> 0..Len(conflicts)]
    /\ action \in [Resolvers -> Resolution]
    /\ winner \in [Resolvers -> 0..Len(memories)]
    /\ snapshot \in [Resolvers -> SUBSET (1..Len(memories))]
    /\ losers \in [Resolvers -> SUBSET (1..Len(memories))]
    /\ faults \in 0..MaxFaults
    /\ watched \subseteq 1..Len(memories)
    /\ late \subseteq 1..Len(memories)
    /\ stale \in BOOLEAN

Init ==
    /\ memories = <<>>
    /\ sup = [m \in Ids |-> 0]
    /\ deleted = {}
    /\ conflicts = <<>>
    /\ pc = "idle"
    /\ claim = {}
    /\ found = {}
    /\ home = 0
    /\ own = 0
    /\ adding = {}
    /\ rpc = [r \in Resolvers |-> "idle"]
    /\ target = [r \in Resolvers |-> 0]
    /\ action = [r \in Resolvers |-> "unresolved"]
    /\ winner = [r \in Resolvers |-> 0]
    /\ snapshot = [r \in Resolvers |-> {}]
    /\ losers = [r \in Resolvers |-> {}]
    /\ faults = 0
    /\ watched = {}
    /\ late = {}
    /\ stale = FALSE

-----------------------------------------------------------------------------
Active == {m \in 1..Len(memories) : sup[m] = 0 /\ m \notin deleted}

Meet(s, t) == s \cap t # {}

Contradict(c, d) == Meet(c.scope, d.scope) /\ c.object # d.object

Unresolved(k) == conflicts[k].resolution = "unresolved"

\* The worker goes on with the next candidate.
WorkerIdle ==
    /\ pc' = "idle"
    /\ claim' = {}
    /\ found' = {}
    /\ home' = 0
    /\ own' = 0
    /\ adding' = {}

\* The calls of the resolvers in S are over.
ResolversIdle(S) ==
    /\ rpc' = [r \in Resolvers |-> IF r \in S THEN "idle" ELSE rpc[r]]
    /\ target' = [r \in Resolvers |-> IF r \in S THEN 0 ELSE target[r]]
    /\ action' = [r \in Resolvers |->
                     IF r \in S THEN "unresolved" ELSE action[r]]
    /\ winner' = [r \in Resolvers |-> IF r \in S THEN 0 ELSE winner[r]]
    /\ snapshot' = [r \in Resolvers |-> IF r \in S THEN {} ELSE snapshot[r]]
    /\ losers' = [r \in Resolvers |-> IF r \in S THEN {} ELSE losers[r]]

-----------------------------------------------------------------------------
(* The worker: conflict_detector::find and worker::record_conflict.        *)

\* find_active_by_subject_predicate, then the filter on the object.
Detect(c) ==
    /\ pc = "idle"
    /\ pc' = "insert"
    /\ claim' = {c}
    /\ found' = {m \in Active : Contradict(c, memories[m])}
    /\ UNCHANGED <<memories, sup, deleted, conflicts, home, own, adding,
                   resolverVars, faults, history>>

\* insert_memory.  Without a finding nothing more is owed.
InsertClaim ==
    /\ pc = "insert"
    /\ Len(memories) < MaxMemories
    /\ \E c \in claim : memories' = Append(memories, c)
    /\ \/ /\ found = {}
          /\ WorkerIdle
          /\ watched' = watched \cup {Len(memories) + 1}
       \/ /\ found # {}
          /\ pc' = "lookup"
          /\ own' = Len(memories) + 1
          /\ UNCHANGED <<claim, found, home, adding, watched>>
    /\ UNCHANGED <<sup, deleted, conflicts, resolverVars, faults, late, stale>>

\* A bug: an open conflict counts only under the very same scope.
MatchesExactly(c) ==
    {k \in DOMAIN conflicts : Unresolved(k) /\ c.scope = conflicts[k].scope}

\* The open conflicts in a scope the candidate shares.
Matches(c) ==
    {k \in DOMAIN conflicts : Unresolved(k) /\ Meet(c.scope, conflicts[k].scope)}

\* find_unresolved_conflict_for_spo: the oldest match, if any.
Lookup ==
    /\ pc = "lookup"
    /\ \E c \in claim :
        \/ /\ Matches(c) = {}
           /\ pc' = "open"
           /\ UNCHANGED <<home, adding>>
        \/ /\ home' \in Matches(c)
           /\ \A k \in Matches(c) : home' <= k
           /\ adding' = found
           /\ pc' = "extend"
    /\ UNCHANGED <<memories, sup, deleted, conflicts, claim, found, own,
                   resolverVars, faults, history>>

\* extend_conflict, whatever has become of the conflict since the look-up.
Extend(m) ==
    /\ conflicts' = [conflicts EXCEPT ![home].competing = @ \cup {m}]
    /\ late' = IF Unresolved(home) THEN late ELSE late \cup {m}

\* One competing memory of the finding.
ExtendFound ==
    /\ pc = "extend"
    /\ \E m \in adding : Extend(m) /\ adding' = adding \ {m}
    /\ UNCHANGED <<memories, sup, deleted, pc, claim, found, home, own,
                   resolverVars, faults, watched, stale>>

\* At last the candidate itself.
ExtendOwn ==
    /\ pc = "extend"
    /\ adding = {}
    /\ Extend(own)
    /\ watched' = watched \cup {own}
    /\ WorkerIdle
    /\ UNCHANGED <<memories, sup, deleted, resolverVars, faults, stale>>

\* A bug: only the candidate is listed.
OpenConflictOwn ==
    /\ pc = "open"
    /\ Len(conflicts) < MaxConflicts
    /\ \E c \in claim :
        conflicts' = Append(conflicts, [scope |-> c.scope, competing |-> {own},
                                        resolution |-> "unresolved"])
    /\ watched' = watched \cup {own}
    /\ WorkerIdle
    /\ UNCHANGED <<memories, sup, deleted, resolverVars, faults, late, stale>>

\* insert_conflict.
OpenConflict ==
    /\ pc = "open"
    /\ Len(conflicts) < MaxConflicts
    /\ \E c \in claim :
        conflicts' = Append(conflicts, [scope |-> c.scope,
                                        competing |-> found \cup {own},
                                        resolution |-> "unresolved"])
    /\ watched' = watched \cup {own}
    /\ WorkerIdle
    /\ UNCHANGED <<memories, sup, deleted, resolverVars, faults, late, stale>>

\* process_event stops with an error; the worker does not come back to it.
WorkerFails ==
    /\ pc # "idle"
    /\ faults < MaxFaults
    /\ faults' = faults + 1
    /\ WorkerIdle
    /\ UNCHANGED <<memories, sup, deleted, conflicts, resolverVars, history>>

-----------------------------------------------------------------------------
(* People: add_memory, forget_memory and resolve_conflict.                 *)

\* insert_memory_and_link_entities, which does not look for contradictions.
AddMemory(c) ==
    /\ Len(memories) < MaxMemories
    /\ memories' = Append(memories, c)
    /\ UNCHANGED <<sup, deleted, conflicts, workerVars, resolverVars, faults,
                   history>>

\* soft_delete_memory.
ForgetMemory(m) ==
    /\ m \in 1..Len(memories)
    /\ deleted' = deleted \cup {m}
    /\ UNCHANGED <<memories, sup, conflicts, workerVars, resolverVars, faults,
                   history>>

\* A bug: any memory may be named.
MayWinAny(k, w) == w # 0

\* A pick must name a competing memory; that it is still active is not asked.
MayWin(k, w) == w \in conflicts[k].competing

\* A bug: the winner is not skipped.
LosersAll(k, w) == conflicts[k].competing

\* The ids the loops of resolve_conflict go through.
Losers(k, w) == conflicts[k].competing \ {w}

\* get_conflict and the checks.
BeginResolve(r, k, a, w) ==
    /\ rpc[r] = "idle"
    /\ Unresolved(k)
    /\ IF a = "picked" THEN MayWin(k, w) ELSE w = 0
    /\ rpc' = [rpc EXCEPT ![r] = IF a = "merged" THEN "merge" ELSE "retire"]
    /\ target' = [target EXCEPT ![r] = k]
    /\ action' = [action EXCEPT ![r] = a]
    /\ winner' = [winner EXCEPT ![r] = w]
    /\ snapshot' = [snapshot EXCEPT ![r] = conflicts[k].competing]
    /\ losers' = [losers EXCEPT ![r] = Losers(k, w)]

Resolve(r) ==
    /\ \E k \in DOMAIN conflicts, a \in Resolution \ {"unresolved"},
          w \in {0} \cup Ids : BeginResolve(r, k, a, w)
    /\ UNCHANGED <<memories, sup, deleted, conflicts, workerVars, faults,
                   history>>

\* Merge: the new memory, in the conflict's scope with the caller's object.
InsertMerged(r) ==
    /\ rpc[r] = "merge"
    /\ Len(memories) < MaxMemories
    /\ \E o \in Objects :
        memories' = Append(memories, [scope |-> conflicts[target[r]].scope,
                                      object |-> o])
    /\ winner' = [winner EXCEPT ![r] = Len(memories) + 1]
    /\ rpc' = [rpc EXCEPT ![r] = "retire"]
    /\ UNCHANGED <<sup, deleted, conflicts, workerVars, target, action, snapshot,
                   losers, faults, history>>

\* supersede_memory, or soft_delete_memory when all are rejected.
RetireLoser(r) ==
    /\ rpc[r] = "retire"
    /\ \E m \in losers[r] :
        /\ losers' = [losers EXCEPT ![r] = @ \ {m}]
        /\ \/ /\ action[r] = "rejected_all"
              /\ deleted' = deleted \cup {m}
              /\ UNCHANGED <<sup, stale>>
           \/ /\ action[r] # "rejected_all"
              /\ sup' = [sup EXCEPT ![m] = winner[r]]
              /\ stale' = (stale \/ sup[winner[r]] # 0)
              /\ deleted' = deleted
    /\ UNCHANGED <<memories, conflicts, workerVars, rpc, target, action, winner,
                   snapshot, faults, watched, late>>

\* A bug: the conflict is closed before the losers are retired.
CloseConflictEarly(r) ==
    /\ rpc[r] = "retire"
    /\ conflicts' = [conflicts EXCEPT ![target[r]].resolution = action[r]]
    /\ late' = late \cup (conflicts[target[r]].competing \ snapshot[r])
    /\ ResolversIdle({r})
    /\ UNCHANGED <<memories, sup, deleted, workerVars, faults, watched, stale>>

\* Store::resolve_conflict, whatever the conflict has become since.
CloseConflict(r) ==
    /\ rpc[r] = "retire"
    /\ losers[r] = {}
    /\ conflicts' = [conflicts EXCEPT ![target[r]].resolution = action[r]]
    /\ late' = late \cup (conflicts[target[r]].competing \ snapshot[r])
    /\ ResolversIdle({r})
    /\ UNCHANGED <<memories, sup, deleted, workerVars, faults, watched, stale>>

\* A store call of resolve_conflict returns an error: the rest is not done.
ResolveFails(r) ==
    /\ rpc[r] # "idle"
    /\ faults < MaxFaults
    /\ faults' = faults + 1
    /\ ResolversIdle({r})
    /\ UNCHANGED <<memories, sup, deleted, conflicts, workerVars, history>>

-----------------------------------------------------------------------------
\* The daemon is killed and started again; the worker takes up the same event
\* once more, which is a Detect of any claim here.
Restart ==
    /\ faults < MaxFaults
    /\ faults' = faults + 1
    /\ WorkerIdle
    /\ ResolversIdle(Resolvers)
    /\ UNCHANGED <<memories, sup, deleted, conflicts, history>>

WorkerStep ==
    \/ \E c \in Claims : Detect(c)
    \/ InsertClaim
    \/ Lookup
    \/ ExtendFound
    \/ ExtendOwn
    \/ OpenConflict
    \/ WorkerFails

ResolverStep(r) ==
    \/ Resolve(r)
    \/ InsertMerged(r)
    \/ RetireLoser(r)
    \/ CloseConflict(r)
    \/ ResolveFails(r)

Next ==
    \/ WorkerStep
    \/ \E r \in Resolvers : ResolverStep(r)
    \/ \E c \in Claims : AddMemory(c)
    \/ \E m \in Ids : ForgetMemory(m)
    \/ Restart

Spec == Init /\ [][Next]_vars

-----------------------------------------------------------------------------
(* What conflicts are for.                                                 *)

\* Memories a and b are listed together by a conflict that is open.
Filed(a, b) ==
    \E k \in DOMAIN conflicts :
        Unresolved(k) /\ {a, b} \subseteq conflicts[k].competing

\* Of two contradicting active memories that the worker has stored, one is
\* always to be found with the other in an open conflict, unless it came to its
\* conflict after the resolver had looked (record_conflict reads the active
\* memories, the open conflict and writes it under different locks).
ContradictionFiled ==
    \A a, b \in watched \cap Active :
        Contradict(memories[a], memories[b]) =>
            Filed(a, b) \/ a \in late \/ b \in late

\* A closed conflict has decided: of the memories its resolver saw at most one
\* is active, and none when they were merged or all rejected, however many
\* calls of resolve_conflict overlapped, failed or were killed before.
ClosedIsDecided ==
    \A k \in DOMAIN conflicts :
        LET left == (conflicts[k].competing \ late) \cap Active
            how == conflicts[k].resolution
        IN  /\ how = "picked" => Cardinality(left) <= 1
            /\ how \in {"merged", "rejected_all"} => left = {}

\* Open conflicts never share a scope, so a contradiction has one place to go,
\* although the look-up and the insert are separate calls.
OpenConflictsDisjoint ==
    \A k, l \in DOMAIN conflicts :
        /\ Unresolved(k)
        /\ Unresolved(l)
        /\ Meet(conflicts[k].scope, conflicts[l].scope)
        => k = l

\* Superseding alone never loses the last claim: some memory stays active until
\* one is deleted, unless a resolution went on for a winner that had itself been
\* superseded (by another resolution of the same or an overlapping conflict).
SurvivorUnlessStale ==
    memories # <<>> /\ deleted = {} /\ ~stale => Active # {}
=============================================================================
