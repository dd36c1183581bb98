-------------------------- MODULE ConflictsProofs ---------------------------
(***************************************************************************)
(* Proofs about contradicting claims, for any claims, any number of        *)
(* resolvers, memories and conflicts, and any errors and kills.            *)
(***************************************************************************)
EXTENDS Conflicts, FiniteSetTheorems, TLAPS

Row == [scope : Scopes, competing : SUBSET Ids, resolution : Resolution]

\* What the worker and a resolver hold at each place.  The winner is not among
\* those to be retired, and only a rejection has none.
ShapeInv ==
    /\ conflicts \in Seq(Row)
    /\ \A m \in Ids : m > Len(memories) => sup[m] = 0
    /\ \A c, d \in claim : c = d
    /\ pc = "idle" <=> claim = {}
    /\ pc = "extend" => home \in DOMAIN conflicts
    /\ pc \in {"lookup", "extend", "open"} => own # 0
    /\ \A r \in Resolvers : rpc[r] # "idle" =>
           /\ target[r] \in DOMAIN conflicts
           /\ action[r] # "unresolved"
           /\ winner[r] \notin losers[r]
           /\ rpc[r] = "merge" => action[r] = "merged"
           /\ rpc[r] = "retire" => (winner[r] = 0 <=> action[r] = "rejected_all")

\* Between look-up and insert of a conflict nobody else opens one.
OpenInv ==
    /\ OpenConflictsDisjoint
    /\ pc = "open" => \A c \in claim : Matches(c) = {}

\* Competing memories of k that are active and came in time.
Left(k) == (conflicts[k].competing \ late) \cap Active

\* What a resolver has gone through is retired, but for the winner of a pick;
\* so it is when the conflict is closed.
DecidedInv ==
    /\ \A k \in DOMAIN conflicts :
           /\ conflicts[k].resolution = "picked" => \A m, n \in Left(k) : m = n
           /\ conflicts[k].resolution \in {"merged", "rejected_all"} => Left(k) = {}
    /\ \A r \in Resolvers : rpc[r] # "idle" =>
           \A m \in (snapshot[r] \ losers[r]) \cap Active :
               action[r] = "picked" /\ m = winner[r]

\* The worker has found what contradicts its candidate, and in the conflict it
\* extends are those it is through with.
FoundInv ==
    /\ \A a \in watched \cap Active, c \in claim :
           Contradict(c, memories[a]) => a \in found
    /\ pc \in {"lookup", "extend", "open"} => \A c \in claim : memories[own] = c
    /\ pc = "extend" => found \ adding \subseteq conflicts[home].competing

IInv ==
    /\ TypeOK /\ ShapeInv /\ OpenInv /\ DecidedInv /\ FoundInv
    /\ ContradictionFiled /\ SurvivorUnlessStale

\* The parts of TypeOK.
TypeTables ==
    /\ memories \in Seq([scope : Scopes, object : Objects])
    /\ Len(memories) <= MaxMemories
    /\ sup \in [Ids -> 0..MaxMemories]
    /\ deleted \subseteq 1..Len(memories)
    /\ \A k \in DOMAIN conflicts :
        /\ conflicts[k].competing \subseteq 1..Len(memories)
        /\ conflicts[k].resolution \in Resolution
    /\ Len(conflicts) <= MaxConflicts

TypeWorker ==
    /\ pc \in {"idle", "insert", "lookup", "extend", "open"}
    /\ claim \subseteq Claims
    /\ found \subseteq 1..Len(memories)
    /\ home \in 0..Len(conflicts)
    /\ own \in 0..Len(memories)
    /\ adding \subseteq 1..Len(memories)

TypeResolvers ==
    /\ rpc \in [Resolvers -> {"idle", "merge", "retire"}]
    /\ target \in [Resolvers -> 0..Len(conflicts)]
    /\ action \in [Resolvers -> Resolution]
    /\ winner \in [Resolvers -> 0..Len(memories)]
    /\ snapshot \in [Resolvers -> SUBSET (1..Len(memories))]
    /\ losers \in [Resolvers -> SUBSET (1..Len(memories))]

TypeHistory ==
    /\ faults \in 0..MaxFaults
    /\ watched \subseteq 1..Len(memories)
    /\ late \subseteq 1..Len(memories)
    /\ stale \in BOOLEAN

\* What extend_conflict, insert_conflict, Store::resolve_conflict and insert_memory
\* change in the two tables.
ExtendedBy(m) ==
    /\ conflicts' \in Seq(Row)
    /\ DOMAIN conflicts' = DOMAIN conflicts
    /\ Len(conflicts') = Len(conflicts)
    /\ \A k \in DOMAIN conflicts :
           /\ conflicts'[k].scope = conflicts[k].scope
           /\ conflicts'[k].resolution = conflicts[k].resolution
           /\ conflicts'[k].competing =
                  conflicts[k].competing \cup (IF k = home THEN {m} ELSE {})

OpenedOne ==
    /\ conflicts' \in Seq(Row)
    /\ DOMAIN conflicts' = DOMAIN conflicts \cup {Len(conflicts) + 1}
    /\ Len(conflicts') = Len(conflicts) + 1
    /\ \A k \in DOMAIN conflicts : conflicts'[k] = conflicts[k]

ClosedBy(r) ==
    /\ conflicts' \in Seq(Row)
    /\ DOMAIN conflicts' = DOMAIN conflicts
    /\ Len(conflicts') = Len(conflicts)
    /\ \A k \in DOMAIN conflicts :
           /\ conflicts'[k].scope = conflicts[k].scope
           /\ conflicts'[k].competing = conflicts[k].competing
           /\ conflicts'[k].resolution =
                  IF k = target[r] THEN action[r] ELSE conflicts[k].resolution

AddedMemory(c) ==
    /\ memories' \in Seq([scope : Scopes, object : Objects])
    /\ Len(memories') = Len(memories) + 1
    /\ Len(memories') \in Ids
    /\ \A m \in 1..Len(memories) : memories'[m] = memories[m]
    /\ memories'[Len(memories')] = c

-----------------------------------------------------------------------------
(* The two tables.                                                         *)

\* extend_conflict adds m to the conflict home, and changes nothing else.
LEMMA Extended ==
    ASSUME conflicts \in Seq(Row), home \in DOMAIN conflicts, NEW m \in Ids, Extend(m)
    PROVE  ExtendedBy(m)
<1>1. /\ conflicts[home] \in Row
      /\ \A k \in DOMAIN conflicts : conflicts[k] \in Row
  OBVIOUS
<1> DEFINE new == [conflicts[home] EXCEPT !.competing = @ \cup {m}]
<1>2. /\ new \in Row
      /\ new.scope = conflicts[home].scope
      /\ new.resolution = conflicts[home].resolution
      /\ new.competing = conflicts[home].competing \cup {m}
  BY <1>1 DEF Row
<1>3. conflicts' = [conflicts EXCEPT ![home] = new]
  BY DEF Extend
<1> HIDE DEF new
<1> QED
  BY <1>2, <1>3 DEF ExtendedBy

\* insert_conflict adds one row: the candidate with what was found, unresolved.
LEMMA Opened ==
    ASSUME conflicts \in Seq(Row), OpenConflict, TypeOK, own # 0
    PROVE  /\ OpenedOne
           /\ \E c \in claim :
                  conflicts'[Len(conflicts) + 1] =
                      [scope |-> c.scope, competing |-> found \cup {own},
                       resolution |-> "unresolved"]
<1>1. PICK c \in claim :
          conflicts' = Append(conflicts, [scope |-> c.scope, competing |-> found \cup {own},
                                          resolution |-> "unresolved"])
  BY DEF OpenConflict
<1> DEFINE new == [scope |-> c.scope, competing |-> found \cup {own},
                   resolution |-> "unresolved"]
<1>2. new \in Row
  <2>1. c.scope \in Scopes
    BY DEF TypeOK, Scopes
  <2>2. found \cup {own} \subseteq Ids
    BY ConflictsAssumption DEF TypeOK, Ids
  <2> QED
    BY <2>1, <2>2 DEF Row, Resolution
<1>3. conflicts' = Append(conflicts, new)
  BY <1>1
<1> HIDE DEF new
<1>4. /\ conflicts' \in Seq(Row)
      /\ DOMAIN conflicts' = DOMAIN conflicts \cup {Len(conflicts) + 1}
      /\ Len(conflicts') = Len(conflicts) + 1
      /\ \A k \in DOMAIN conflicts : conflicts'[k] = conflicts[k]
      /\ conflicts'[Len(conflicts) + 1] = new
  BY <1>2, <1>3
<1> QED
  BY <1>4 DEF new, OpenedOne

\* Store::resolve_conflict sets the resolution of one conflict.
LEMMA Closed ==
    ASSUME conflicts \in Seq(Row), NEW r \in Resolvers, target[r] \in DOMAIN conflicts,
           action[r] \in Resolution, CloseConflict(r)
    PROVE  ClosedBy(r)
<1> DEFINE k == target[r]
<1>1. /\ conflicts[k] \in Row
      /\ \A l \in DOMAIN conflicts : conflicts[l] \in Row
  OBVIOUS
<1> DEFINE new == [conflicts[k] EXCEPT !.resolution = action[r]]
<1>2. /\ new \in Row
      /\ new.scope = conflicts[k].scope
      /\ new.resolution = action[r]
      /\ new.competing = conflicts[k].competing
  BY <1>1 DEF Row
<1>3. conflicts' = [conflicts EXCEPT ![k] = new]
  BY DEF CloseConflict
<1> HIDE DEF new
<1> QED
  BY <1>2, <1>3 DEF ClosedBy

\* insert_memory adds one row.
LEMMA Added ==
    ASSUME TypeOK, NEW c \in [scope : Scopes, object : Objects],
           Len(memories) < MaxMemories, memories' = Append(memories, c)
    PROVE  AddedMemory(c)
<1> DEFINE R == [scope : Scopes, object : Objects]
<1>1. memories \in Seq(R) /\ c \in R
  BY DEF TypeOK
<1> HIDE DEF R
<1>2. memories' \in Seq(R) /\ Len(memories') = Len(memories) + 1
  BY <1>1
<1>3. Len(memories) \in Nat /\ Len(memories') \in Ids
  BY ConflictsAssumption DEF Ids
<1> QED
  BY <1>2, <1>3 DEF R, AddedMemory

\* Ids of the table as it was are ids of the table with one row more.
LEMMA Grown ==
    ASSUME TypeOK, NEW c, AddedMemory(c)
    PROVE  /\ 1..Len(memories) \subseteq 1..Len(memories')
           /\ Len(memories') \in 1..Len(memories')
           /\ 0..Len(memories) \subseteq 0..Len(memories')
           /\ Len(memories') <= MaxMemories
<1>2. Len(memories') = Len(memories) + 1 /\ Len(memories') \in Ids
  BY DEF AddedMemory
<1> QED
  BY <1>2 DEF Ids
-----------------------------------------------------------------------------
(* Types and shapes.                                                       *)

\* TypeOK, part by part.
LEMMA TypeParts ==
    /\ TypeOK <=> TypeTables /\ TypeWorker /\ TypeResolvers /\ TypeHistory
    /\ TypeOK' <=> TypeTables' /\ TypeWorker' /\ TypeResolvers' /\ TypeHistory'
BY DEF TypeOK, TypeTables, TypeWorker, TypeResolvers, TypeHistory

\* The tables, the worker and the resolvers start well typed.
LEMMA TypeInit == Init => TypeOK
<1> SUFFICES ASSUME Init PROVE TypeOK
  OBVIOUS
<1>3. TypeTables
  BY ConflictsAssumption DEF Init, TypeTables
<1>4. TypeWorker
  BY DEF Init, TypeWorker
<1>6. TypeHistory
  <2>1. stale \in BOOLEAN
    BY Zenon DEF Init
  <2>2. faults \in 0..MaxFaults /\ watched = {} /\ late = {}
    BY ConflictsAssumption DEF Init
  <2> QED
    BY <2>1, <2>2 DEF TypeHistory
<1>5. TypeResolvers
  BY DEF Init, TypeResolvers, Resolution
<1> QED
  BY <1>3, <1>4, <1>5, <1>6, TypeParts

\* Every operation leaves them well typed.
LEMMA TypeStep ==
    ASSUME TypeOK, ShapeInv, [Next]_vars
    PROVE  TypeOK'
<1> USE DEF workerVars, resolverVars, history
<1>1. ASSUME NEW c \in Claims, Detect(c) PROVE TypeOK'
  BY <1>1 DEF Detect, TypeOK, Active
<1>2. CASE InsertClaim
  <2>1. PICK c \in claim : memories' = Append(memories, c) /\ Len(memories) < MaxMemories
    BY <1>2 DEF InsertClaim
  <2> USE DEF AddedMemory
  <2>2. AddedMemory(c)
    BY <2>1, Added, ConflictsAssumption DEF TypeOK
  <2>3. /\ 1..Len(memories) \subseteq 1..Len(memories')
        /\ Len(memories') \in 1..Len(memories')
        /\ 0..Len(memories) \subseteq 0..Len(memories')
        /\ Len(memories') <= MaxMemories
    BY <2>2, Grown
  <2>11. TypeTables'
    BY <1>2, ConflictsAssumption DEF InsertClaim, TypeOK, TypeTables
  <2>12. TypeWorker'
    <3>1. CASE found = {} /\ WorkerIdle
      BY <3>1 DEF TypeWorker, WorkerIdle
    <3>2. CASE /\ pc' = "lookup"
               /\ own' = Len(memories) + 1
               /\ UNCHANGED <<conflicts, claim, found, home, adding>>
      BY <3>2, <2>2 DEF TypeOK, TypeWorker
    <3> QED
      BY <1>2, <3>1, <3>2 DEF InsertClaim
  <2>13. TypeResolvers'
    BY <1>2 DEF InsertClaim, TypeOK, TypeResolvers
  <2>14. TypeHistory'
    BY <1>2, <2>2, <2>3 DEF InsertClaim, TypeOK, TypeHistory
  <2> QED
    BY <2>11, <2>12, <2>13, <2>14, TypeParts
<1>3. CASE Lookup
  <2>11. TypeTables'
    BY <1>3 DEF Lookup, TypeOK, TypeTables
  <2>12. TypeWorker'
    <3>1. CASE pc' = "open" /\ UNCHANGED <<home, adding>>
      BY <1>3, <3>1 DEF Lookup, TypeOK, TypeWorker
    <3>2. CASE pc' = "extend" /\ adding' = found /\ home' \in DOMAIN conflicts
      BY <1>3, <3>2 DEF Lookup, TypeOK, TypeWorker
    <3> QED
      BY <1>3, <3>1, <3>2 DEF Lookup, Matches
  <2>13. TypeResolvers'
    BY <1>3 DEF Lookup, TypeOK, TypeResolvers
  <2>14. TypeHistory'
    BY <1>3 DEF Lookup, TypeOK, TypeHistory
  <2> QED
    BY <2>11, <2>12, <2>13, <2>14, TypeParts
<1>4. CASE ExtendFound
  <2>1. PICK m \in adding : Extend(m) /\ adding' = adding \ {m}
    BY <1>4 DEF ExtendFound
  <2>2. m \in 1..Len(memories) /\ m \in Ids /\ home \in DOMAIN conflicts
    BY <1>4, ConflictsAssumption DEF TypeOK, ShapeInv, ExtendFound, Ids
  <2> USE DEF ExtendedBy
  <2>3. ExtendedBy(m)
    BY <2>1, <2>2, Extended DEF ShapeInv
  <2>11. TypeTables'
    BY <1>4, <2>1, <2>2, <2>3 DEF ExtendFound, Extend, TypeOK, TypeTables
  <2>12. TypeWorker'
    BY <1>4, <2>1, <2>3 DEF ExtendFound, Extend, TypeOK, TypeWorker
  <2>13. TypeResolvers'
    BY <1>4, <2>3 DEF ExtendFound, Extend, TypeOK, TypeResolvers
  <2>14. TypeHistory'
    BY <1>4, <2>1, <2>2 DEF ExtendFound, Extend, TypeOK, TypeHistory
  <2> QED
    BY <2>11, <2>12, <2>13, <2>14, TypeParts
<1>5. CASE ExtendOwn
  BY <1>5 DEF ExtendOwn, Extend, WorkerIdle, TypeOK, ShapeInv, Ids
<1>6. CASE OpenConflict
  <2>1. own # 0
    BY <1>6 DEF ShapeInv, OpenConflict
  <2> USE DEF OpenedOne
  <2>2. OpenedOne
    BY <1>6, <2>1, Opened DEF ShapeInv
  <2>3. PICK c \in claim :
            conflicts'[Len(conflicts) + 1] =
                [scope |-> c.scope, competing |-> found \cup {own},
                 resolution |-> "unresolved"]
    BY <1>6, <2>1, Opened DEF ShapeInv
  <2>11. TypeTables'
    <3>3. own \in 1..Len(memories) /\ found \subseteq 1..Len(memories)
      BY <2>1 DEF TypeOK
    <3>1. found \cup {own} \subseteq 1..Len(memories)
      BY <3>3
    <3>2. \A k \in DOMAIN conflicts' :
              /\ conflicts'[k].competing \subseteq 1..Len(memories)
              /\ conflicts'[k].resolution \in Resolution
      <4> SUFFICES ASSUME NEW k \in DOMAIN conflicts'
                   PROVE  /\ conflicts'[k].competing \subseteq 1..Len(memories)
                          /\ conflicts'[k].resolution \in Resolution
        OBVIOUS
      <4>1. CASE k \in DOMAIN conflicts
        BY <4>1, <2>2 DEF TypeOK
      <4>2. CASE k = Len(conflicts) + 1
        BY <4>2, <2>3, <3>1 DEF Resolution
      <4> QED
        BY <4>1, <4>2, <2>2
    <3> QED
      BY <1>6, <3>2, ConflictsAssumption DEF OpenConflict, TypeOK, TypeTables
  <2>12. TypeWorker'
    BY <1>6 DEF OpenConflict, WorkerIdle, TypeWorker
  <2>13. TypeResolvers'
    BY <1>6 DEF OpenConflict, TypeOK, TypeResolvers
  <2>14. TypeHistory'
    BY <1>6, <2>1 DEF OpenConflict, TypeOK, TypeHistory
  <2> QED
    BY <2>11, <2>12, <2>13, <2>14, TypeParts
<1>7. CASE WorkerFails
  <2>11. TypeTables'
    BY <1>7 DEF WorkerFails, WorkerIdle, TypeOK, TypeTables
  <2>12. TypeWorker'
    BY <1>7, ConflictsAssumption DEF WorkerFails, WorkerIdle, TypeOK, TypeWorker
  <2>13. TypeResolvers'
    BY <1>7 DEF WorkerFails, WorkerIdle, TypeOK, TypeResolvers
  <2>14. TypeHistory'
    BY <1>7, ConflictsAssumption DEF WorkerFails, WorkerIdle, TypeOK, TypeHistory
  <2> QED
    BY <2>11, <2>12, <2>13, <2>14, TypeParts
<1>8. ASSUME NEW r \in Resolvers, Resolve(r) PROVE TypeOK'
  <2>11. TypeTables'
    BY <1>8 DEF Resolve, TypeOK, TypeTables
  <2>12. TypeWorker'
    BY <1>8 DEF Resolve, TypeOK, TypeWorker
  <2>13. TypeResolvers'
    <3>1. PICK k \in DOMAIN conflicts, a \in Resolution \ {"unresolved"},
               w \in {0} \cup Ids :
              BeginResolve(r, k, a, w)
      BY <1>8 DEF Resolve
    <3>2. k \in 0..Len(conflicts) /\ conflicts[k].competing \subseteq 1..Len(memories)
      BY DEF TypeOK, ShapeInv
    <3>3. w \in 0..Len(memories)
      BY <3>1, <3>2 DEF BeginResolve, MayWin, TypeOK
    <3>4. Losers(k, w) \subseteq 1..Len(memories)
      BY <3>2 DEF Losers
    <3>5. UNCHANGED <<memories, conflicts>>
      BY <1>8 DEF Resolve
    <3> QED
      BY <3>1, <3>2, <3>3, <3>4, <3>5 DEF BeginResolve, TypeOK, TypeResolvers
  <2>14. TypeHistory'
    BY <1>8 DEF Resolve, TypeOK, TypeHistory
  <2> QED
    BY <2>11, <2>12, <2>13, <2>14, TypeParts
<1>9. ASSUME NEW r \in Resolvers, InsertMerged(r) PROVE TypeOK'
  <2>1. PICK o \in Objects :
            memories' = Append(memories, [scope |-> conflicts[target[r]].scope,
                                          object |-> o])
    BY <1>9 DEF InsertMerged
  <2> DEFINE c == [scope |-> conflicts[target[r]].scope, object |-> o]
  <2>5. c \in [scope : Scopes, object : Objects]
    <3>1. conflicts[target[r]] \in Row
      BY <1>9 DEF ShapeInv, InsertMerged
    <3> QED
      BY <3>1 DEF Row
  <2>4. memories' = Append(memories, c) /\ Len(memories) < MaxMemories
    BY <1>9, <2>1 DEF InsertMerged
  <2> HIDE DEF c
  <2> USE DEF AddedMemory
  <2>2. AddedMemory(c)
    BY <2>5, <2>4, Added
  <2>3. /\ 1..Len(memories) \subseteq 1..Len(memories')
        /\ Len(memories') \in 1..Len(memories')
        /\ 0..Len(memories) \subseteq 0..Len(memories')
        /\ Len(memories') <= MaxMemories
    BY <2>2, Grown
  <2>11. TypeTables'
    BY <1>9, <2>2, ConflictsAssumption DEF InsertMerged, TypeOK, TypeTables
  <2>12. TypeWorker'
    BY <1>9 DEF InsertMerged, TypeOK, TypeWorker
  <2>13. TypeResolvers'
    BY <1>9, <2>3 DEF InsertMerged, TypeOK, TypeResolvers, Resolution
  <2>14. TypeHistory'
    BY <1>9 DEF InsertMerged, TypeOK, TypeHistory
  <2> QED
    BY <2>11, <2>12, <2>13, <2>14, TypeParts
<1>10. ASSUME NEW r \in Resolvers, RetireLoser(r) PROVE TypeOK'
  <2>11. TypeTables'
    <3>1. PICK m \in losers[r] :
              \/ deleted' = deleted \cup {m} /\ UNCHANGED sup
              \/ sup' = [sup EXCEPT ![m] = winner[r]] /\ deleted' = deleted
      BY <1>10 DEF RetireLoser
    <3>2. /\ m \in 1..Len(memories)
          /\ winner[r] \in 0..MaxMemories
      BY ConflictsAssumption DEF TypeOK
    <3>3. sup' \in [Ids -> 0..MaxMemories] /\ deleted' \subseteq 1..Len(memories)
      BY <3>1, <3>2 DEF TypeOK
    <3> QED
      BY <1>10, <3>3 DEF RetireLoser, TypeOK, TypeTables
  <2>12. TypeWorker'
    BY <1>10 DEF RetireLoser, TypeOK, TypeWorker
  <2>13. TypeResolvers'
    BY <1>10 DEF RetireLoser, TypeOK, TypeResolvers, Resolution
  <2>14. TypeHistory'
    BY <1>10 DEF RetireLoser, TypeOK, TypeHistory
  <2> QED
    BY <2>11, <2>12, <2>13, <2>14, TypeParts
<1>11. ASSUME NEW r \in Resolvers, CloseConflict(r) PROVE TypeOK'
  <2>1. target[r] \in DOMAIN conflicts /\ action[r] \in Resolution
    BY <1>11 DEF TypeOK, ShapeInv, CloseConflict
  <2> USE DEF ClosedBy
  <2>2. ClosedBy(r)
    BY <1>11, <2>1, Closed DEF ShapeInv
  <2>11. TypeTables'
    BY <1>11, <2>1, <2>2 DEF CloseConflict, ResolversIdle, TypeOK, TypeTables
  <2>12. TypeWorker'
    BY <1>11, <2>2 DEF CloseConflict, ResolversIdle, TypeOK, TypeWorker
  <2>13. TypeResolvers'
    BY <1>11, <2>2 DEF CloseConflict, ResolversIdle, TypeOK, TypeResolvers, Resolution
  <2>14. TypeHistory'
    BY <1>11, <2>1, <2>2 DEF CloseConflict, TypeOK, TypeHistory
  <2> QED
    BY <2>11, <2>12, <2>13, <2>14, TypeParts
<1>12. ASSUME NEW r \in Resolvers, ResolveFails(r) PROVE TypeOK'
  <2>11. TypeTables'
    BY <1>12 DEF ResolveFails, TypeOK, TypeTables
  <2>12. TypeWorker'
    BY <1>12 DEF ResolveFails, TypeOK, TypeWorker
  <2>13. TypeResolvers'
    BY <1>12 DEF ResolveFails, ResolversIdle, TypeOK, TypeResolvers, Resolution
  <2>14. TypeHistory'
    BY <1>12, ConflictsAssumption DEF ResolveFails, TypeOK, TypeHistory
  <2> QED
    BY <2>11, <2>12, <2>13, <2>14, TypeParts
<1>13. ASSUME NEW c \in Claims, AddMemory(c) PROVE TypeOK'
  <2> USE DEF AddedMemory
  <2>11. TypeTables'
    BY <1>13, ConflictsAssumption DEF AddMemory, TypeOK, TypeTables
  <2>12. TypeWorker'
    BY <1>13 DEF AddMemory, TypeOK, TypeWorker
  <2>13. TypeResolvers'
    BY <1>13 DEF AddMemory, TypeOK, TypeResolvers
  <2>14. TypeHistory'
    BY <1>13 DEF AddMemory, TypeOK, TypeHistory
  <2> QED
    BY <2>11, <2>12, <2>13, <2>14, TypeParts
<1>14. ASSUME NEW m \in Ids, ForgetMemory(m) PROVE TypeOK'
  BY <1>14 DEF ForgetMemory, TypeOK
<1>15. CASE Restart
  BY <1>15, ConflictsAssumption DEF Restart, WorkerIdle, ResolversIdle, TypeOK, Resolution
<1>16. CASE UNCHANGED vars
  BY <1>16 DEF vars, TypeOK
<1> QED
  BY <1>1, <1>2, <1>3, <1>4, <1>5, <1>6, <1>7, <1>8, <1>9, <1>10, <1>11, <1>12, <1>13,
     <1>14, <1>15, <1>16
     DEF Next, WorkerStep, ResolverStep

\* What the worker and the resolvers hold stays in shape.
LEMMA ShapeStep ==
    ASSUME TypeOK, ShapeInv, [Next]_vars
    PROVE  ShapeInv'
<1> USE DEF workerVars, resolverVars, history
<1>1. ASSUME NEW c \in Claims, Detect(c) PROVE ShapeInv'
  BY <1>1 DEF Detect, ShapeInv
<1>2. CASE InsertClaim
  <2> USE DEF AddedMemory
  <2>3. \A m \in Ids : m > Len(memories') => sup'[m] = 0
    BY <1>2 DEF InsertClaim, ShapeInv, Ids
  <2>4. /\ \A d, e \in claim' : d = e
        /\ pc' = "idle" <=> claim' = {}
        /\ pc' = "extend" => home' \in DOMAIN conflicts'
        /\ pc' \in {"lookup", "extend", "open"} => own' # 0
    BY <1>2 DEF InsertClaim, WorkerIdle, ShapeInv
  <2>5. UNCHANGED <<conflicts, rpc, target, action, winner, losers>>
    BY <1>2 DEF InsertClaim
  <2> QED
    BY <2>3, <2>4, <2>5 DEF ShapeInv
<1>3. CASE Lookup
  BY <1>3 DEF Lookup, ShapeInv, Matches
<1>4. CASE ExtendFound
  <2>1. PICK m \in adding : Extend(m) /\ adding' = adding \ {m}
    BY <1>4 DEF ExtendFound
  <2>2. m \in 1..Len(memories) /\ m \in Ids /\ home \in DOMAIN conflicts
    BY <1>4, ConflictsAssumption DEF TypeOK, ShapeInv, ExtendFound, Ids
  <2> USE DEF ExtendedBy
  <2>3. ExtendedBy(m)
    BY <2>1, <2>2, Extended DEF ShapeInv
  <2> QED
    BY <1>4, <2>3 DEF ExtendFound, ShapeInv
<1>5. CASE ExtendOwn
  <2>1. Extend(own)
    BY <1>5 DEF ExtendOwn
  <2>2. own \in 1..Len(memories) /\ own \in Ids /\ home \in DOMAIN conflicts
    BY <1>5, ConflictsAssumption DEF TypeOK, ShapeInv, ExtendOwn, Ids
  <2> USE DEF ExtendedBy
  <2>3. ExtendedBy(own)
    BY <2>1, <2>2, Extended DEF ShapeInv
  <2> QED
    BY <1>5, <2>3 DEF ExtendOwn, WorkerIdle, ShapeInv
<1>6. CASE OpenConflict
  <2>1. own # 0
    BY <1>6 DEF ShapeInv, OpenConflict
  <2> USE DEF OpenedOne
  <2>2. OpenedOne
    BY <1>6, <2>1, Opened DEF ShapeInv
  <2> QED
    BY <1>6, <2>2 DEF OpenConflict, WorkerIdle, ShapeInv
<1>7. CASE WorkerFails
  BY <1>7 DEF WorkerFails, WorkerIdle, ShapeInv
<1>8. ASSUME NEW r \in Resolvers, Resolve(r) PROVE ShapeInv'
  <2>1. PICK k \in DOMAIN conflicts, a \in Resolution \ {"unresolved"},
             w \in {0} \cup Ids :
            BeginResolve(r, k, a, w)
    BY <1>8 DEF Resolve
  <2>2. /\ w \notin Losers(k, w)
        /\ a = "picked" <=> w # 0
        /\ a # "merged" => (w = 0 <=> a = "rejected_all")
    BY <2>1 DEF BeginResolve, Losers, MayWin, TypeOK, Resolution
  <2>3. ASSUME NEW q \in Resolvers, rpc'[q] # "idle"
        PROVE  /\ target'[q] \in DOMAIN conflicts'
               /\ action'[q] # "unresolved"
               /\ winner'[q] \notin losers'[q]
               /\ rpc'[q] = "merge" => action'[q] = "merged"
               /\ rpc'[q] = "retire" => (winner'[q] = 0 <=> action'[q] = "rejected_all")
    <3>1. CASE q = r
      BY <1>8, <2>1, <2>2, <3>1 DEF Resolve, BeginResolve, TypeOK
    <3>2. CASE q # r
      BY <1>8, <2>3, <3>2 DEF Resolve, BeginResolve, ShapeInv
    <3> QED
      BY <3>1, <3>2
  <2> QED
    BY <1>8, <2>3 DEF Resolve, ShapeInv
<1>9. ASSUME NEW r \in Resolvers, InsertMerged(r) PROVE ShapeInv'
  <2>1. PICK o \in Objects :
            memories' = Append(memories, [scope |-> conflicts[target[r]].scope,
                                          object |-> o])
    BY <1>9 DEF InsertMerged
  <2> DEFINE c == [scope |-> conflicts[target[r]].scope, object |-> o]
  <2> HIDE DEF c
  <2> USE DEF AddedMemory
  <2> QED
    BY <1>9 DEF InsertMerged, TypeOK, ShapeInv, Ids
<1>10. ASSUME NEW r \in Resolvers, RetireLoser(r) PROVE ShapeInv'
  <2>1. PICK m \in losers[r] :
            /\ m \in 1..Len(memories)
            /\ losers' = [losers EXCEPT ![r] = @ \ {m}]
            /\ sup' = sup \/ sup' = [sup EXCEPT ![m] = winner[r]]
    BY <1>10 DEF RetireLoser, TypeOK
  <2>2. \A i \in Ids : i > Len(memories) => sup'[i] = 0
    BY <2>1 DEF TypeOK, ShapeInv
  <2> QED
    BY <1>10, <2>2 DEF RetireLoser, ShapeInv
<1>11. ASSUME NEW r \in Resolvers, CloseConflict(r) PROVE ShapeInv'
  <2>1. target[r] \in DOMAIN conflicts /\ action[r] \in Resolution
    BY <1>11 DEF TypeOK, ShapeInv, CloseConflict
  <2> USE DEF ClosedBy
  <2>2. ClosedBy(r)
    BY <1>11, <2>1, Closed DEF ShapeInv
  <2> QED
    BY <1>11, <2>2 DEF CloseConflict, ResolversIdle, ShapeInv
<1>12. ASSUME NEW r \in Resolvers, ResolveFails(r) PROVE ShapeInv'
  BY <1>12 DEF ResolveFails, ResolversIdle, ShapeInv
<1>13. ASSUME NEW c \in Claims, AddMemory(c) PROVE ShapeInv'
  BY <1>13 DEF AddMemory, ShapeInv, Ids
<1>14. ASSUME NEW m \in Ids, ForgetMemory(m) PROVE ShapeInv'
  BY <1>14 DEF ForgetMemory, ShapeInv
<1>15. CASE Restart
  BY <1>15 DEF Restart, WorkerIdle, ResolversIdle, ShapeInv
<1>16. CASE UNCHANGED vars
  BY <1>16 DEF vars, ShapeInv
<1> QED
  BY <1>1, <1>2, <1>3, <1>4, <1>5, <1>6, <1>7, <1>8, <1>9, <1>10, <1>11, <1>12, <1>13,
     <1>14, <1>15, <1>16
     DEF Next, WorkerStep, ResolverStep

-----------------------------------------------------------------------------
(* Active memories.                                                        *)

\* One loser is superseded or deleted.
LEMMA RetireEffect ==
    ASSUME TypeOK, ShapeInv, NEW r \in Resolvers, RetireLoser(r)
    PROVE  \E m \in losers[r] :
               /\ m \in 1..Len(memories)
               /\ losers' = [losers EXCEPT ![r] = @ \ {m}]
               /\ Active' = Active \ {m}
               /\ \/ deleted' # {}
                  \/ /\ winner[r] \in 1..Len(memories)
                     /\ winner[r] # m
                     /\ stale' = (stale \/ sup[winner[r]] # 0)
                     /\ deleted' = deleted
<1>1. PICK m \in losers[r] :
          /\ losers' = [losers EXCEPT ![r] = @ \ {m}]
          /\ \/ /\ action[r] = "rejected_all"
                /\ deleted' = deleted \cup {m}
                /\ sup' = sup
             \/ /\ action[r] # "rejected_all"
                /\ sup' = [sup EXCEPT ![m] = winner[r]]
                /\ stale' = (stale \/ sup[winner[r]] # 0)
                /\ deleted' = deleted
  BY DEF RetireLoser
<1>2. /\ m \in 1..Len(memories)
      /\ winner[r] # m
      /\ action[r] # "rejected_all" => winner[r] \in 1..Len(memories)
      /\ memories' = memories
  <2>1. /\ winner[r] \in 0..Len(memories)
        /\ losers[r] \subseteq 1..Len(memories)
        /\ Len(memories) \in Nat
    BY DEF TypeOK
  <2> QED
    BY <2>1 DEF RetireLoser, ShapeInv
<1>3. 1..Len(memories) \subseteq Ids /\ sup \in [Ids -> 0..MaxMemories]
  BY ConflictsAssumption DEF TypeOK, Ids
<1>4. CASE deleted' = deleted \cup {m} /\ sup' = sup
  BY <1>1, <1>2, <1>4 DEF Active
<1>5. CASE action[r] # "rejected_all" /\ sup' = [sup EXCEPT ![m] = winner[r]]
           /\ stale' = (stale \/ sup[winner[r]] # 0) /\ deleted' = deleted
  <2>3. Active' = Active \ {m}
    BY <1>2, <1>3, <1>5 DEF Active
  <2> QED
    BY <1>1, <1>2, <2>3
<1> QED
  BY <1>1, <1>4, <1>5

\* Nothing that was retired comes back, and rows are only added.
LEMMA ActiveShrinks ==
    ASSUME TypeOK, ShapeInv, TypeOK', [Next]_vars
    PROVE  /\ \A m \in Active' : m \in 1..Len(memories) => m \in Active
           /\ \A m \in 1..Len(memories) :
                  memories'[m] = memories[m] /\ m \in 1..Len(memories')
<1> DEFINE OnlyGrows ==
        /\ \A i \in Active' : i \in 1..Len(memories) => i \in Active
        /\ \A i \in 1..Len(memories) :
               memories'[i] = memories[i] /\ i \in 1..Len(memories')
<1> USE DEF workerVars, resolverVars, history
<1>1. ASSUME NEW c \in Claims, Detect(c) PROVE OnlyGrows
  BY <1>1 DEF Detect, Active
<1>2. CASE InsertClaim
  BY <1>2 DEF InsertClaim, Active
<1>3. CASE Lookup
  BY <1>3 DEF Lookup, Active
<1>4. CASE ExtendFound
  BY <1>4 DEF ExtendFound, Active
<1>5. CASE ExtendOwn
  BY <1>5 DEF ExtendOwn, Active
<1>6. CASE OpenConflict
  BY <1>6 DEF OpenConflict, Active
<1>7. CASE WorkerFails
  BY <1>7 DEF WorkerFails, Active
<1>8. ASSUME NEW r \in Resolvers, Resolve(r) PROVE OnlyGrows
  BY <1>8 DEF Resolve, Active
<1>9. ASSUME NEW r \in Resolvers, InsertMerged(r) PROVE OnlyGrows
  <2>1. PICK o \in Objects :
            memories' = Append(memories, [scope |-> conflicts[target[r]].scope,
                                          object |-> o])
    BY <1>9 DEF InsertMerged
  <2> DEFINE c == [scope |-> conflicts[target[r]].scope, object |-> o]
  <2> HIDE DEF c
  <2> USE DEF AddedMemory
  <2> QED
    BY <1>9 DEF InsertMerged, Active
<1>10. ASSUME NEW r \in Resolvers, RetireLoser(r) PROVE OnlyGrows
  <2>1. PICK m \in losers[r] : Active' = Active \ {m}
    BY <1>10, RetireEffect
  <2>2. memories' = memories
    BY <1>10 DEF RetireLoser
  <2> QED
    BY <2>1, <2>2
<1>11. ASSUME NEW r \in Resolvers, CloseConflict(r) PROVE OnlyGrows
  BY <1>11 DEF CloseConflict, Active
<1>12. ASSUME NEW r \in Resolvers, ResolveFails(r) PROVE OnlyGrows
  BY <1>12 DEF ResolveFails, Active
<1>13. ASSUME NEW c \in Claims, AddMemory(c) PROVE OnlyGrows
  BY <1>13 DEF AddMemory, Active
<1>14. ASSUME NEW m \in Ids, ForgetMemory(m) PROVE OnlyGrows
  BY <1>14 DEF ForgetMemory, Active
<1>15. CASE Restart
  BY <1>15 DEF Restart, Active
<1>16. CASE UNCHANGED vars
  BY <1>16 DEF vars, Active
<1> QED
  BY <1>1, <1>2, <1>3, <1>4, <1>5, <1>6, <1>7, <1>8, <1>9, <1>10, <1>11, <1>12, <1>13,
     <1>14, <1>15, <1>16
     DEF Next, WorkerStep, ResolverStep

-----------------------------------------------------------------------------
(* Open conflicts.                                                         *)

\* The only conflict that is opened shares no scope with an open one.
LEMMA OpenStep ==
    ASSUME TypeOK, ShapeInv, TypeOK', OpenInv, [Next]_vars
    PROVE  OpenInv'
<1> USE DEF workerVars, resolverVars, history
<1>1. ASSUME NEW c \in Claims, Detect(c) PROVE OpenInv'
  BY <1>1 DEF Detect, OpenInv, OpenConflictsDisjoint, Unresolved
<1>2. CASE InsertClaim
  BY <1>2 DEF InsertClaim, WorkerIdle, OpenInv, OpenConflictsDisjoint, Unresolved
<1>3. CASE Lookup
  BY <1>3 DEF Lookup, ShapeInv, OpenInv, OpenConflictsDisjoint, Unresolved, Matches
<1>4. CASE ExtendFound
  <2>1. PICK m \in adding : Extend(m) /\ adding' = adding \ {m}
    BY <1>4 DEF ExtendFound
  <2>2. m \in 1..Len(memories) /\ m \in Ids /\ home \in DOMAIN conflicts
    BY <1>4, ConflictsAssumption DEF TypeOK, ShapeInv, ExtendFound, Ids
  <2> USE DEF ExtendedBy
  <2>3. ExtendedBy(m)
    BY <2>1, <2>2, Extended DEF ShapeInv
  <2> QED
    BY <1>4, <2>3 DEF ExtendFound, OpenInv, OpenConflictsDisjoint, Unresolved
<1>5. CASE ExtendOwn
  <2>1. Extend(own)
    BY <1>5 DEF ExtendOwn
  <2>2. own \in 1..Len(memories) /\ own \in Ids /\ home \in DOMAIN conflicts
    BY <1>5, ConflictsAssumption DEF TypeOK, ShapeInv, ExtendOwn, Ids
  <2> USE DEF ExtendedBy
  <2>3. ExtendedBy(own)
    BY <2>1, <2>2, Extended DEF ShapeInv
  <2> QED
    BY <1>5, <2>3 DEF ExtendOwn, WorkerIdle, OpenInv, OpenConflictsDisjoint, Unresolved
<1>6. CASE OpenConflict
  BY <1>6
     DEF OpenConflict, WorkerIdle, OpenInv, OpenConflictsDisjoint, Unresolved,
         Matches, Meet
<1>7. CASE WorkerFails
  BY <1>7 DEF WorkerFails, WorkerIdle, OpenInv, OpenConflictsDisjoint, Unresolved
<1>8. ASSUME NEW r \in Resolvers, Resolve(r) PROVE OpenInv'
  BY <1>8 DEF Resolve, OpenInv, OpenConflictsDisjoint, Unresolved, Matches
<1>9. ASSUME NEW r \in Resolvers, InsertMerged(r) PROVE OpenInv'
  <2>1. PICK o \in Objects :
            memories' = Append(memories, [scope |-> conflicts[target[r]].scope,
                                          object |-> o])
    BY <1>9 DEF InsertMerged
  <2> DEFINE c == [scope |-> conflicts[target[r]].scope, object |-> o]
  <2> HIDE DEF c
  <2> USE DEF AddedMemory
  <2> QED
    BY <1>9 DEF InsertMerged, OpenInv, OpenConflictsDisjoint, Unresolved, Matches
<1>10. ASSUME NEW r \in Resolvers, RetireLoser(r) PROVE OpenInv'
  BY <1>10 DEF RetireLoser, OpenInv, OpenConflictsDisjoint, Unresolved, Matches
<1>11. ASSUME NEW r \in Resolvers, CloseConflict(r) PROVE OpenInv'
  BY <1>11
     DEF CloseConflict, ShapeInv, OpenInv, OpenConflictsDisjoint, Unresolved, Matches
<1>12. ASSUME NEW r \in Resolvers, ResolveFails(r) PROVE OpenInv'
  BY <1>12 DEF ResolveFails, OpenInv, OpenConflictsDisjoint, Unresolved, Matches
<1>13. ASSUME NEW c \in Claims, AddMemory(c) PROVE OpenInv'
  BY <1>13 DEF AddMemory, OpenInv, OpenConflictsDisjoint, Unresolved, Matches
<1>14. ASSUME NEW m \in Ids, ForgetMemory(m) PROVE OpenInv'
  BY <1>14 DEF ForgetMemory, OpenInv, OpenConflictsDisjoint, Unresolved, Matches
<1>15. CASE Restart
  BY <1>15 DEF Restart, WorkerIdle, OpenInv, OpenConflictsDisjoint, Unresolved
<1>16. CASE UNCHANGED vars
  BY <1>16 DEF vars, OpenInv, OpenConflictsDisjoint, Unresolved, Matches
<1> QED
  BY <1>1, <1>2, <1>3, <1>4, <1>5, <1>6, <1>7, <1>8, <1>9, <1>10, <1>11, <1>12, <1>13,
     <1>14, <1>15, <1>16
     DEF Next, WorkerStep, ResolverStep

-----------------------------------------------------------------------------
(* Closed conflicts.                                                       *)

\* What a resolver has gone through stays retired.
LEMMA DecidedStep ==
    ASSUME TypeOK, ShapeInv, TypeOK', DecidedInv, [Next]_vars
    PROVE  DecidedInv'
<1> USE DEF workerVars, resolverVars, history
<1>1. ASSUME NEW c \in Claims, Detect(c) PROVE DecidedInv'
  BY <1>1 DEF Detect, DecidedInv, Left, Active
<1>2. CASE InsertClaim
  BY <1>2 DEF InsertClaim, TypeOK, DecidedInv, Left, Active
<1>3. CASE Lookup
  BY <1>3 DEF Lookup, DecidedInv, Left, Active
<1>4. CASE ExtendFound
  <2>1. PICK m \in adding : Extend(m) /\ adding' = adding \ {m}
    BY <1>4 DEF ExtendFound
  <2>2. m \in 1..Len(memories) /\ m \in Ids /\ home \in DOMAIN conflicts
    BY <1>4, ConflictsAssumption DEF TypeOK, ShapeInv, ExtendFound, Ids
  <2> USE DEF ExtendedBy
  <2>3. ExtendedBy(m)
    BY <2>1, <2>2, Extended DEF ShapeInv
  <2>4. Active' = Active
    BY <1>4 DEF ExtendFound, Active
  <2>5. \A k \in DOMAIN conflicts :
            conflicts[k].resolution # "unresolved" => Left(k)' \subseteq Left(k)
    BY <2>1, <2>3, <2>4 DEF Left, Extend, Unresolved
  <2> QED
    BY <1>4, <2>3, <2>4, <2>5 DEF ExtendFound, DecidedInv
<1>5. CASE ExtendOwn
  BY <1>5 DEF ExtendOwn, Extend, DecidedInv, Left, Active, Unresolved
<1>6. CASE OpenConflict
  <2>1. own # 0
    BY <1>6 DEF ShapeInv, OpenConflict
  <2> USE DEF OpenedOne
  <2>2. OpenedOne
    BY <1>6, <2>1, Opened DEF ShapeInv
  <2>3. PICK c \in claim :
            conflicts'[Len(conflicts) + 1] =
                [scope |-> c.scope, competing |-> found \cup {own},
                 resolution |-> "unresolved"]
    BY <1>6, <2>1, Opened DEF ShapeInv
  <2>4. Active' = Active /\ late' = late
    BY <1>6 DEF OpenConflict, Active
  <2>5. \A k \in DOMAIN conflicts : Left(k)' = Left(k)
    BY <2>2, <2>4 DEF Left
  <2>6. conflicts'[Len(conflicts) + 1].resolution = "unresolved"
    BY <2>3
  <2> QED
    BY <1>6, <2>2, <2>4, <2>5, <2>6 DEF OpenConflict, DecidedInv
<1>7. CASE WorkerFails
  BY <1>7 DEF WorkerFails, DecidedInv, Left, Active
<1>8. ASSUME NEW r \in Resolvers, Resolve(r) PROVE DecidedInv'
  <2>1. PICK k \in DOMAIN conflicts, a \in Resolution \ {"unresolved"},
             w \in {0} \cup Ids :
            BeginResolve(r, k, a, w)
    BY <1>8 DEF Resolve
  <2>2. Active' = Active /\ \A l : Left(l)' = Left(l)
    BY <1>8 DEF Resolve, Active, Left
  <2>3. \A m \in conflicts[k].competing \ Losers(k, w) : m = w
    BY DEF Losers
  <2>4. w \in conflicts[k].competing => a = "picked"
    BY <2>1 DEF BeginResolve, TypeOK
  <2> QED
    BY <1>8, <2>1, <2>2, <2>3, <2>4 DEF Resolve, BeginResolve, DecidedInv, TypeOK
<1>9. ASSUME NEW r \in Resolvers, InsertMerged(r) PROVE DecidedInv'
  <2>1. \A i \in Active' : i \in 1..Len(memories) => i \in Active
    BY ActiveShrinks
  <2>2. /\ UNCHANGED <<conflicts, late, action, snapshot, losers>>
        /\ rpc[r] # "idle" /\ action[r] # "picked"
        /\ \A q \in Resolvers : q # r => rpc'[q] = rpc[q] /\ winner'[q] = winner[q]
    BY <1>9 DEF InsertMerged, ShapeInv
  <2>3. \A k \in DOMAIN conflicts : Left(k)' \subseteq Left(k)
    BY <2>1, <2>2 DEF Left, TypeOK
  <2>4. \A q \in Resolvers :
            (snapshot[q] \ losers[q]) \cap Active' \subseteq
                (snapshot[q] \ losers[q]) \cap Active
    BY <2>1 DEF TypeOK
  <2> QED
    BY <2>2, <2>3, <2>4 DEF DecidedInv
<1>10. ASSUME NEW r \in Resolvers, RetireLoser(r) PROVE DecidedInv'
  <2>1. PICK m \in losers[r] :
            losers' = [losers EXCEPT ![r] = @ \ {m}] /\ Active' = Active \ {m}
    BY <1>10, RetireEffect
  <2>4. /\ UNCHANGED <<memories, conflicts, rpc, action, winner, snapshot, late>>
        /\ \A q \in Resolvers : losers'[q] = IF q = r THEN losers[r] \ {m} ELSE losers[q]
    BY <1>10, <2>1 DEF RetireLoser, TypeOK
  <2>5. \A k : Left(k)' \subseteq Left(k)
    BY <2>1, <2>4 DEF Left
  <2> QED
    BY <2>1, <2>4, <2>5 DEF DecidedInv
<1>11. ASSUME NEW r \in Resolvers, CloseConflict(r) PROVE DecidedInv'
  <2>1. target[r] \in DOMAIN conflicts /\ action[r] \in Resolution
    BY <1>11 DEF TypeOK, ShapeInv, CloseConflict
  <2> USE DEF ClosedBy
  <2>2. ClosedBy(r)
    BY <1>11, <2>1, Closed DEF ShapeInv
  <2>3. Active' = Active /\ late' = late \cup (conflicts[target[r]].competing \ snapshot[r])
    BY <1>11 DEF CloseConflict, Active
  <2>4. \A m, n \in (snapshot[r] \cap Active) : action[r] = "picked" /\ m = n
    BY <1>11 DEF CloseConflict, DecidedInv
  <2>5. \A k \in DOMAIN conflicts : Left(k)' \subseteq Left(k)
    BY <2>2, <2>3 DEF Left
  <2>7. ASSUME NEW k \in DOMAIN conflicts'
        PROVE  /\ conflicts'[k].resolution = "picked" => \A m, n \in Left(k)' : m = n
               /\ conflicts'[k].resolution \in {"merged", "rejected_all"} => Left(k)' = {}
    <3>1. CASE k = target[r]
      <4>1. conflicts'[k].competing \ late' \subseteq snapshot[r]
        BY <3>1, <2>2, <2>3
      <4>2. Left(k)' \subseteq snapshot[r] \cap Active
        BY <4>1, <2>3 DEF Left
      <4>3. conflicts'[k].resolution = action[r]
        BY <3>1, <2>2
      <4> QED
        BY <2>4, <4>2, <4>3
    <3>2. CASE k # target[r]
      BY <3>2, <2>2, <2>5 DEF DecidedInv
    <3> QED
      BY <3>1, <3>2
  <2>8. ASSUME NEW q \in Resolvers, rpc'[q] # "idle"
        PROVE  /\ q # r
               /\ UNCHANGED <<snapshot[q], losers[q], action[q], winner[q]>>
               /\ rpc[q] # "idle"
    BY <1>11, <2>8 DEF CloseConflict, ResolversIdle
  <2> QED
    BY <2>3, <2>7, <2>8 DEF DecidedInv
<1>12. ASSUME NEW r \in Resolvers, ResolveFails(r) PROVE DecidedInv'
  BY <1>12 DEF ResolveFails, ResolversIdle, DecidedInv, Left, Active
<1>13. ASSUME NEW c \in Claims, AddMemory(c) PROVE DecidedInv'
  BY <1>13 DEF AddMemory, TypeOK, DecidedInv, Left, Active
<1>14. ASSUME NEW m \in Ids, ForgetMemory(m) PROVE DecidedInv'
  BY <1>14 DEF ForgetMemory, DecidedInv, Left, Active
<1>15. CASE Restart
  BY <1>15 DEF Restart, ResolversIdle, DecidedInv, Left, Active
<1>16. CASE UNCHANGED vars
  BY <1>16 DEF vars, DecidedInv, Left, Active
<1> QED
  BY <1>1, <1>2, <1>3, <1>4, <1>5, <1>6, <1>7, <1>8, <1>9, <1>10, <1>11, <1>12, <1>13,
     <1>14, <1>15, <1>16
     DEF Next, WorkerStep, ResolverStep

-----------------------------------------------------------------------------
(* Contradictions.                                                         *)

\* The worker goes on holding all that contradicts its candidate.
LEMMA FoundStep ==
    ASSUME TypeOK, ShapeInv, TypeOK', FoundInv, [Next]_vars
    PROVE  FoundInv'
<1> USE DEF workerVars, resolverVars, history
<1>1. ASSUME NEW c \in Claims, Detect(c) PROVE FoundInv'
  BY <1>1, ActiveShrinks DEF Detect, TypeOK, FoundInv
<1>2. CASE InsertClaim
  <2>1. PICK c \in claim : memories' = Append(memories, c) /\ Len(memories) < MaxMemories
    BY <1>2 DEF InsertClaim
  <2> USE DEF AddedMemory
  <2>3. \A i \in watched \cap Active' : i \in Active /\ memories'[i] = memories[i]
    BY ActiveShrinks DEF TypeOK
  <2>4. CASE found = {}
    BY <1>2, <2>4 DEF InsertClaim, WorkerIdle, FoundInv
  <2>5. CASE found # {}
    <3>1. /\ pc' = "lookup" /\ own' = Len(memories')
          /\ UNCHANGED <<claim, found, watched>>
      BY <1>2, <2>5 DEF InsertClaim
    <3>2. \A d \in claim : memories'[own'] = d
      BY <2>1, <3>1 DEF ShapeInv
    <3> QED
      BY <2>3, <3>1, <3>2 DEF FoundInv
  <2> QED
    BY <2>4, <2>5
<1>3. CASE Lookup
  BY <1>3, ActiveShrinks DEF Lookup, TypeOK, FoundInv
<1>4. CASE ExtendFound
  <2>1. PICK m \in adding : Extend(m) /\ adding' = adding \ {m}
    BY <1>4 DEF ExtendFound
  <2>2. m \in 1..Len(memories) /\ m \in Ids /\ home \in DOMAIN conflicts
    BY <1>4, ConflictsAssumption DEF TypeOK, ShapeInv, ExtendFound, Ids
  <2> USE DEF ExtendedBy
  <2>3. ExtendedBy(m)
    BY <2>1, <2>2, Extended DEF ShapeInv
  <2>4. /\ \A i \in (watched \cap Active)' : i \in watched \cap Active
        /\ UNCHANGED <<memories, pc, claim, found, own, home>>
    BY <1>4, ActiveShrinks DEF ExtendFound, TypeOK
  <2>5. found \ adding' \subseteq conflicts'[home].competing
    BY <1>4, <2>1, <2>2, <2>3 DEF ExtendFound, FoundInv
  <2> QED
    BY <2>4, <2>5 DEF FoundInv
<1>5. CASE ExtendOwn
  BY <1>5 DEF ExtendOwn, WorkerIdle, FoundInv
<1>6. CASE OpenConflict
  BY <1>6 DEF OpenConflict, WorkerIdle, FoundInv
<1>7. CASE WorkerFails
  BY <1>7 DEF WorkerFails, WorkerIdle, FoundInv
<1>8. ASSUME NEW r \in Resolvers, Resolve(r) PROVE FoundInv'
  BY <1>8, ActiveShrinks DEF Resolve, TypeOK, FoundInv
<1>9. ASSUME NEW r \in Resolvers, InsertMerged(r) PROVE FoundInv'
  <2>1. PICK o \in Objects :
            memories' = Append(memories, [scope |-> conflicts[target[r]].scope,
                                          object |-> o])
    BY <1>9 DEF InsertMerged
  <2> DEFINE c == [scope |-> conflicts[target[r]].scope, object |-> o]
  <2>6. c \in [scope : Scopes, object : Objects]
    <3>1. conflicts[target[r]] \in Row
      BY <1>9 DEF ShapeInv, InsertMerged
    <3> QED
      BY <3>1 DEF Row
  <2>7. memories' = Append(memories, c) /\ Len(memories) < MaxMemories
    BY <1>9, <2>1 DEF InsertMerged
  <2> HIDE DEF c
  <2> USE DEF AddedMemory
  <2>2. AddedMemory(c)
    BY <2>6, <2>7, Added
  <2>3. \A i \in watched \cap Active' : i \in Active /\ memories'[i] = memories[i]
    BY ActiveShrinks DEF TypeOK
  <2>5. own # 0 => memories'[own] = memories[own]
    <3>1. own \in 0..Len(memories) /\ Len(memories) \in Nat
      BY DEF TypeOK
    <3> QED
      BY <2>2, <3>1
  <2>4. UNCHANGED <<conflicts, pc, claim, found, own, home, adding, watched>>
    BY <1>9 DEF InsertMerged
  <2> QED
    BY <2>3, <2>4, <2>5 DEF FoundInv, ShapeInv
<1>10. ASSUME NEW r \in Resolvers, RetireLoser(r) PROVE FoundInv'
  BY <1>10, ActiveShrinks DEF RetireLoser, TypeOK, FoundInv
<1>11. ASSUME NEW r \in Resolvers, CloseConflict(r) PROVE FoundInv'
  <2>1. target[r] \in DOMAIN conflicts /\ action[r] \in Resolution
    BY <1>11 DEF TypeOK, ShapeInv, CloseConflict
  <2> USE DEF ClosedBy
  <2>2. ClosedBy(r)
    BY <1>11, <2>1, Closed DEF ShapeInv
  <2> QED
    BY <1>11, <2>2, ActiveShrinks DEF CloseConflict, TypeOK, ShapeInv, FoundInv
<1>12. ASSUME NEW r \in Resolvers, ResolveFails(r) PROVE FoundInv'
  BY <1>12, ActiveShrinks DEF ResolveFails, TypeOK, FoundInv
<1>13. ASSUME NEW c \in Claims, AddMemory(c) PROVE FoundInv'
  <2>1. memories' = Append(memories, c) /\ Len(memories) < MaxMemories
    BY <1>13 DEF AddMemory
  <2> USE DEF AddedMemory
  <2>2. AddedMemory(c)
    BY <2>1, Added, ConflictsAssumption
  <2>3. \A i \in watched \cap Active' : i \in Active /\ memories'[i] = memories[i]
    BY ActiveShrinks DEF TypeOK
  <2>5. own # 0 => memories'[own] = memories[own]
    <3>1. own \in 0..Len(memories) /\ Len(memories) \in Nat
      BY DEF TypeOK
    <3> QED
      BY <2>2, <3>1
  <2>4. UNCHANGED <<conflicts, pc, claim, found, own, home, adding, watched>>
    BY <1>13 DEF AddMemory, resolverVars
  <2> QED
    BY <2>3, <2>4, <2>5 DEF FoundInv, ShapeInv
<1>14. ASSUME NEW m \in Ids, ForgetMemory(m) PROVE FoundInv'
  BY <1>14, ActiveShrinks DEF ForgetMemory, TypeOK, FoundInv
<1>15. CASE Restart
  BY <1>15 DEF Restart, WorkerIdle, FoundInv
<1>16. CASE UNCHANGED vars
  BY <1>16 DEF vars, Active, FoundInv
<1> QED
  BY <1>1, <1>2, <1>3, <1>4, <1>5, <1>6, <1>7, <1>8, <1>9, <1>10, <1>11, <1>12, <1>13,
     <1>14, <1>15, <1>16
     DEF Next, WorkerStep, ResolverStep

\* A step that closes no conflict leaves two memories filed.
LEMMA FiledKept ==
    ASSUME \A k \in DOMAIN conflicts :
               /\ k \in DOMAIN conflicts'
               /\ conflicts'[k].resolution = conflicts[k].resolution
               /\ conflicts[k].competing \subseteq conflicts'[k].competing
    PROVE  \A a, b : Filed(a, b) => Filed(a, b)'
BY DEF Filed, Unresolved

\* What is true of the memories already watched.
LEMMA WatchedKept ==
    ASSUME TypeOK, ShapeInv, TypeOK', [Next]_vars, ContradictionFiled, late \subseteq late',
           \A a, b : Filed(a, b) => Filed(a, b)'
    PROVE  /\ \A a \in watched \cap Active' : a \in Active /\ memories'[a] = memories[a]
           /\ \A a, b \in watched \cap Active' :
                  Contradict(memories'[a], memories'[b]) =>
                      Filed(a, b)' \/ a \in late' \/ b \in late'
<1>1. \A a \in watched \cap Active' : a \in Active /\ memories'[a] = memories[a]
  BY ActiveShrinks DEF TypeOK
<1> QED
  BY <1>1 DEF ContradictionFiled

\* The worker is through with memory n.
LEMMA WatchedAlso ==
    ASSUME TypeOK, ShapeInv, TypeOK', [Next]_vars, ContradictionFiled, late \subseteq late',
           \A a, b : Filed(a, b) => Filed(a, b)',
           NEW n, watched' = watched \cup {n},
           \A a \in watched \cap Active :
               Contradict(memories'[n], memories[a]) => Filed(a, n)' \/ n \in late'
    PROVE  ContradictionFiled'
<1>1. /\ \A a \in watched \cap Active' : a \in Active /\ memories'[a] = memories[a]
      /\ \A a, b \in watched \cap Active' :
             Contradict(memories'[a], memories'[b]) =>
                 Filed(a, b)' \/ a \in late' \/ b \in late'
  BY WatchedKept
<1>2. /\ \A c, d : Contradict(c, d) => Contradict(d, c) /\ c # d
      /\ \A a, b : Filed(a, b)' => Filed(b, a)'
  BY DEF Contradict, Meet, Filed
<1>3. SUFFICES ASSUME NEW a \in watched' \cap Active', NEW b \in watched' \cap Active',
                      Contradict(memories'[a], memories'[b])
               PROVE  Filed(a, b)' \/ a \in late' \/ b \in late'
  BY DEF ContradictionFiled
<1>4. CASE a \in watched /\ b \in watched
  BY <1>1, <1>3, <1>4
<1>5. CASE a = n
  BY <1>1, <1>2, <1>3
<1>6. CASE b = n
  BY <1>1, <1>2, <1>3
<1> QED
  BY <1>4, <1>5, <1>6

\* Contradicting memories the worker is through with stay filed, and a candidate
\* is filed with what contradicts it when the worker is through with it.
LEMMA FiledStep ==
    ASSUME TypeOK, ShapeInv, TypeOK', DecidedInv, FoundInv, ContradictionFiled, [Next]_vars
    PROVE  ContradictionFiled'
<1> USE DEF workerVars, resolverVars, history
<1>1. ASSUME NEW c \in Claims, Detect(c) PROVE ContradictionFiled'
  BY <1>1, FiledKept, WatchedKept DEF Detect, ContradictionFiled
<1>2. CASE InsertClaim
  <2>1. PICK c \in claim : memories' = Append(memories, c) /\ Len(memories) < MaxMemories
    BY <1>2 DEF InsertClaim
  <2> USE DEF AddedMemory
  <2>3. CASE found # {}
    BY <1>2, <2>3, FiledKept, WatchedKept DEF InsertClaim, ContradictionFiled
  <2>4. CASE found = {}
    <3>1. watched' = watched \cup {Len(memories')} /\ UNCHANGED <<conflicts, late>>
      BY <1>2, <2>4 DEF InsertClaim
    <3>2. \A a \in watched \cap Active : ~Contradict(memories'[Len(memories')], memories[a])
      BY <2>1, <2>4 DEF FoundInv
    <3> DEFINE n == Len(memories')
    <3>3. \A a, b : Filed(a, b) => Filed(a, b)'
      BY <3>1, FiledKept
    <3> HIDE DEF n
    <3> QED
      BY <3>1, <3>2, <3>3, WatchedAlso
  <2> QED
    BY <2>3, <2>4
<1>3. CASE Lookup
  BY <1>3, FiledKept, WatchedKept DEF Lookup, ContradictionFiled
<1>4. CASE ExtendFound
  BY <1>4, FiledKept, WatchedKept DEF ExtendFound, Extend, ContradictionFiled
<1>5. CASE ExtendOwn
  <2>1. Extend(own)
    BY <1>5 DEF ExtendOwn
  <2>2. own \in 1..Len(memories) /\ own \in Ids /\ home \in DOMAIN conflicts
    BY <1>5, ConflictsAssumption DEF TypeOK, ShapeInv, ExtendOwn, Ids
  <2> USE DEF ExtendedBy
  <2>3. ExtendedBy(own)
    BY <2>1, <2>2, Extended DEF ShapeInv
  <2>7. PICK n : n = own
    OBVIOUS
  <2>4. \A a, b : Filed(a, b) => Filed(a, b)'
    BY <2>3, FiledKept
  <2>5. watched' = watched \cup {n} /\ memories' = memories /\ late \subseteq late'
    BY <1>5, <2>7 DEF ExtendOwn, Extend
  <2>6. ASSUME NEW a \in watched \cap Active, Contradict(memories'[n], memories[a])
        PROVE  Filed(a, n)' \/ n \in late'
    <3> SUFFICES ASSUME n \notin late'
                 PROVE  Filed(a, n)'
      OBVIOUS
    <3>1. PICK c \in claim : memories[own] = c
      BY <1>5 DEF ExtendOwn, ShapeInv, FoundInv
    <3>2. a \in found
      BY <1>5, <2>6, <2>7, <3>1 DEF ExtendOwn, FoundInv
    <3>3. {a, n} \subseteq conflicts'[home].competing
      BY <1>5, <2>2, <2>3, <2>7, <3>2 DEF ExtendOwn, FoundInv
    <3>4. conflicts[home].resolution = "unresolved"
      BY <2>1, <2>7 DEF Extend, Unresolved
    <3> QED
      BY <2>2, <2>3, <3>3, <3>4 DEF Filed, Unresolved
  <2> QED
    BY <2>4, <2>5, <2>6, WatchedAlso
<1>6. CASE OpenConflict
  <2>1. own # 0
    BY <1>6 DEF ShapeInv, OpenConflict
  <2> USE DEF OpenedOne
  <2>2. OpenedOne
    BY <1>6, <2>1, Opened DEF ShapeInv
  <2>3. PICK c \in claim :
            conflicts'[Len(conflicts) + 1] =
                [scope |-> c.scope, competing |-> found \cup {own},
                 resolution |-> "unresolved"]
    BY <1>6, <2>1, Opened DEF ShapeInv
  <2>7. PICK n : n = own
    OBVIOUS
  <2>4. \A a, b : Filed(a, b) => Filed(a, b)'
    BY <2>2, FiledKept
  <2>5. watched' = watched \cup {n} /\ UNCHANGED <<memories, late>>
    BY <1>6, <2>7 DEF OpenConflict
  <2>6. ASSUME NEW a \in watched \cap Active, Contradict(memories[n], memories[a])
        PROVE  Filed(a, n)'
    <3>1. a \in found
      BY <1>6, <2>6, <2>7 DEF OpenConflict, FoundInv
    <3> DEFINE k == Len(conflicts) + 1
    <3>2. /\ k \in DOMAIN conflicts'
          /\ conflicts'[k].resolution = "unresolved"
          /\ {a, n} \subseteq conflicts'[k].competing
      BY <2>2, <2>3, <2>7, <3>1
    <3> HIDE DEF k
    <3> QED
      BY <3>2 DEF Filed, Unresolved
  <2> QED
    BY <2>4, <2>5, <2>6, WatchedAlso
<1>7. CASE WorkerFails
  BY <1>7, FiledKept, WatchedKept DEF WorkerFails, ContradictionFiled
<1>8. ASSUME NEW r \in Resolvers, Resolve(r) PROVE ContradictionFiled'
  BY <1>8, FiledKept, WatchedKept DEF Resolve, ContradictionFiled
<1>9. ASSUME NEW r \in Resolvers, InsertMerged(r) PROVE ContradictionFiled'
  <2>1. PICK o \in Objects :
            memories' = Append(memories, [scope |-> conflicts[target[r]].scope,
                                          object |-> o])
    BY <1>9 DEF InsertMerged
  <2> DEFINE c == [scope |-> conflicts[target[r]].scope, object |-> o]
  <2> HIDE DEF c
  <2> USE DEF AddedMemory
  <2> QED
    BY <1>9, FiledKept, WatchedKept DEF InsertMerged, ContradictionFiled
<1>10. ASSUME NEW r \in Resolvers, RetireLoser(r) PROVE ContradictionFiled'
  BY <1>10, FiledKept, WatchedKept DEF RetireLoser, ContradictionFiled
<1>11. ASSUME NEW r \in Resolvers, CloseConflict(r) PROVE ContradictionFiled'
  <2>1. target[r] \in DOMAIN conflicts /\ action[r] \in Resolution
    BY <1>11 DEF TypeOK, ShapeInv, CloseConflict
  <2> USE DEF ClosedBy
  <2>2. ClosedBy(r)
    BY <1>11, <2>1, Closed DEF ShapeInv
  <2>3. /\ Active' = Active
        /\ late' = late \cup (conflicts[target[r]].competing \ snapshot[r])
        /\ UNCHANGED <<memories, watched>>
    BY <1>11 DEF CloseConflict, Active
  <2>4. \A m, n \in snapshot[r] \cap Active : m = n
    BY <1>11 DEF CloseConflict, DecidedInv
  <2>5. ASSUME NEW a \in watched \cap Active, NEW b \in watched \cap Active,
               Contradict(memories[a], memories[b]), a \notin late', b \notin late'
        PROVE  Filed(a, b)'
    <3>1. PICK k \in DOMAIN conflicts :
              /\ conflicts[k].resolution = "unresolved"
              /\ {a, b} \subseteq conflicts[k].competing
      BY <2>3, <2>5 DEF ContradictionFiled, Filed, Unresolved
    <3>2. a # b
      BY <2>5 DEF Contradict
    <3>3. k # target[r]
      BY <2>3, <2>4, <2>5, <3>1, <3>2
    <3> QED
      BY <2>2, <3>1, <3>3 DEF Filed, Unresolved
  <2> QED
    BY <2>3, <2>5 DEF ContradictionFiled
<1>12. ASSUME NEW r \in Resolvers, ResolveFails(r) PROVE ContradictionFiled'
  BY <1>12, FiledKept, WatchedKept DEF ResolveFails, ContradictionFiled
<1>13. ASSUME NEW c \in Claims, AddMemory(c) PROVE ContradictionFiled'
  BY <1>13, FiledKept, WatchedKept DEF AddMemory, ContradictionFiled
<1>14. ASSUME NEW m \in Ids, ForgetMemory(m) PROVE ContradictionFiled'
  BY <1>14, FiledKept, WatchedKept DEF ForgetMemory, ContradictionFiled
<1>15. CASE Restart
  BY <1>15, FiledKept, WatchedKept DEF Restart, ContradictionFiled
<1>16. CASE UNCHANGED vars
  BY <1>16, FiledKept, WatchedKept DEF vars, ContradictionFiled
<1> QED
  BY <1>1, <1>2, <1>3, <1>4, <1>5, <1>6, <1>7, <1>8, <1>9, <1>10, <1>11, <1>12, <1>13,
     <1>14, <1>15, <1>16
     DEF Next, WorkerStep, ResolverStep

\* A superseding memory is active, unless it was stale.
LEMMA AliveStep ==
    ASSUME TypeOK, ShapeInv, TypeOK', SurvivorUnlessStale, [Next]_vars
    PROVE  SurvivorUnlessStale'
<1> USE DEF workerVars, resolverVars, history
<1>1. ASSUME NEW c \in Claims, Detect(c) PROVE SurvivorUnlessStale'
  BY <1>1 DEF Detect, SurvivorUnlessStale, Active
<1>2. CASE InsertClaim
  <2>1. PICK c \in claim : memories' = Append(memories, c) /\ Len(memories) < MaxMemories
    BY <1>2 DEF InsertClaim
  <2> USE DEF AddedMemory
  <2>2. AddedMemory(c)
    BY <2>1, Added, ConflictsAssumption DEF TypeOK
  <2> QED
    BY <1>2, <2>2 DEF InsertClaim, ShapeInv, SurvivorUnlessStale, Active
<1>3. CASE Lookup
  BY <1>3 DEF Lookup, SurvivorUnlessStale, Active
<1>4. CASE ExtendFound
  BY <1>4 DEF ExtendFound, SurvivorUnlessStale, Active
<1>5. CASE ExtendOwn
  BY <1>5 DEF ExtendOwn, SurvivorUnlessStale, Active
<1>6. CASE OpenConflict
  BY <1>6 DEF OpenConflict, SurvivorUnlessStale, Active
<1>7. CASE WorkerFails
  BY <1>7 DEF WorkerFails, SurvivorUnlessStale, Active
<1>8. ASSUME NEW r \in Resolvers, Resolve(r) PROVE SurvivorUnlessStale'
  BY <1>8 DEF Resolve, SurvivorUnlessStale, Active
<1>9. ASSUME NEW r \in Resolvers, InsertMerged(r) PROVE SurvivorUnlessStale'
  <2>1. PICK o \in Objects :
            memories' = Append(memories, [scope |-> conflicts[target[r]].scope,
                                          object |-> o])
    BY <1>9 DEF InsertMerged
  <2> DEFINE c == [scope |-> conflicts[target[r]].scope, object |-> o]
  <2>5. c \in [scope : Scopes, object : Objects]
    <3>1. conflicts[target[r]] \in Row
      BY <1>9 DEF ShapeInv, InsertMerged
    <3> QED
      BY <3>1 DEF Row
  <2>4. memories' = Append(memories, c) /\ Len(memories) < MaxMemories
    BY <1>9, <2>1 DEF InsertMerged
  <2> HIDE DEF c
  <2> USE DEF AddedMemory
  <2>2. AddedMemory(c)
    BY <2>5, <2>4, Added
  <2> QED
    BY <1>9, <2>2 DEF InsertMerged, ShapeInv, SurvivorUnlessStale, Active
<1>10. ASSUME NEW r \in Resolvers, RetireLoser(r) PROVE SurvivorUnlessStale'
  <2>1. PICK m \in losers[r] :
            /\ Active' = Active \ {m}
            /\ \/ deleted' # {}
               \/ /\ winner[r] \in 1..Len(memories)
                  /\ winner[r] # m
                  /\ stale' = (stale \/ sup[winner[r]] # 0)
                  /\ deleted' = deleted
    BY <1>10, RetireEffect
  <2>2. deleted' = {} /\ ~stale' => winner[r] \in Active'
    BY <2>1 DEF Active
  <2> QED
    BY <2>2 DEF SurvivorUnlessStale
<1>11. ASSUME NEW r \in Resolvers, CloseConflict(r) PROVE SurvivorUnlessStale'
  BY <1>11 DEF CloseConflict, SurvivorUnlessStale, Active
<1>12. ASSUME NEW r \in Resolvers, ResolveFails(r) PROVE SurvivorUnlessStale'
  BY <1>12 DEF ResolveFails, SurvivorUnlessStale, Active
<1>13. ASSUME NEW c \in Claims, AddMemory(c) PROVE SurvivorUnlessStale'
  <2>1. memories' = Append(memories, c) /\ Len(memories) < MaxMemories
    BY <1>13 DEF AddMemory
  <2> USE DEF AddedMemory
  <2>2. AddedMemory(c)
    BY <2>1, Added, ConflictsAssumption
  <2> QED
    BY <1>13, <2>2 DEF AddMemory, ShapeInv, SurvivorUnlessStale, Active
<1>14. ASSUME NEW m \in Ids, ForgetMemory(m) PROVE SurvivorUnlessStale'
  BY <1>14 DEF ForgetMemory, SurvivorUnlessStale
<1>15. CASE Restart
  BY <1>15 DEF Restart, SurvivorUnlessStale, Active
<1>16. CASE UNCHANGED vars
  BY <1>16 DEF vars, SurvivorUnlessStale, Active
<1> QED
  BY <1>1, <1>2, <1>3, <1>4, <1>5, <1>6, <1>7, <1>8, <1>9, <1>10, <1>11, <1>12, <1>13,
     <1>14, <1>15, <1>16
     DEF Next, WorkerStep, ResolverStep

-----------------------------------------------------------------------------
(* The invariant and what it gives.                                        *)

\* The inductive invariant holds at the start.
LEMMA InitIInv == Init => IInv
<1> SUFFICES ASSUME Init PROVE IInv
  OBVIOUS
<1>1. TypeOK
  BY TypeInit
<1>2. DOMAIN conflicts = {} /\ conflicts \in Seq(Row)
  BY DEF Init
<1>3. ShapeInv
  BY <1>2 DEF Init, ShapeInv
<1>4. OpenInv
  BY DEF Init, OpenInv, OpenConflictsDisjoint
<1>5. DecidedInv
  BY <1>2 DEF Init, DecidedInv
<1>6. FoundInv /\ ContradictionFiled /\ SurvivorUnlessStale
  BY DEF Init, FoundInv, ContradictionFiled, SurvivorUnlessStale
<1> QED
  BY <1>1, <1>3, <1>4, <1>5, <1>6 DEF IInv

\* Every step keeps it.
LEMMA NextIInv == IInv /\ [Next]_vars => IInv'
BY TypeStep, ShapeStep, OpenStep, DecidedStep, FoundStep, FiledStep, AliveStep DEF IInv

\* The inductive invariant of conflicts holds in every reachable state.
THEOREM Invariance == Spec => []IInv
BY InitIInv, NextIInv, PTL DEF Spec

\* The tables, the worker and the resolvers are well typed.
THEOREM TypeCorrect == Spec => []TypeOK
<1>1. IInv => TypeOK
  BY DEF IInv
<1> QED
  BY <1>1, Invariance, PTL

\* Two contradicting active memories the worker has stored are in one open
\* conflict, or one of them came too late for its resolver (record_conflict).
THEOREM Contradictions == Spec => []ContradictionFiled
<1>1. IInv => ContradictionFiled
  BY DEF IInv
<1> QED
  BY <1>1, Invariance, PTL

\* Open conflicts share no scope (find_unresolved_conflict_for_spo).
THEOREM OpenDisjoint == Spec => []OpenConflictsDisjoint
<1>1. IInv => OpenConflictsDisjoint
  BY DEF IInv, OpenInv
<1> QED
  BY <1>1, Invariance, PTL

\* A set whose elements are all the same has at most one.
LEMMA AtMostOne ==
    ASSUME NEW S, \A m, n \in S : m = n
    PROVE  Cardinality(S) <= 1
<1>1. CASE S = {}
  BY <1>1, FS_EmptySet
<1>2. CASE S # {}
  <2>1. PICK w : S = {w}
    BY <1>2
  <2>2. Cardinality({w}) = 1
    BY FS_Singleton
  <2> QED
    BY <2>1, <2>2
<1> QED
  BY <1>1, <1>2

\* Of the memories the resolver of a closed conflict saw at most one is active,
\* and none after a merge or a rejection (resolve_conflict).
THEOREM ClosedDecided == Spec => []ClosedIsDecided
<1>1. IInv => ClosedIsDecided
  <2> SUFFICES ASSUME IInv, NEW k \in DOMAIN conflicts
               PROVE  /\ conflicts[k].resolution = "picked" => Cardinality(Left(k)) <= 1
                      /\ conflicts[k].resolution \in {"merged", "rejected_all"} =>
                             Left(k) = {}
    BY DEF ClosedIsDecided, Left
  <2>1. ASSUME conflicts[k].resolution = "picked"
        PROVE  \A m, n \in Left(k) : m = n
    BY <2>1 DEF IInv, DecidedInv
  <2>2. conflicts[k].resolution \in {"merged", "rejected_all"} => Left(k) = {}
    BY DEF IInv, DecidedInv
  <2> QED
    BY <2>1, <2>2, AtMostOne
<1> QED
  BY <1>1, Invariance, PTL

\* Superseding alone leaves some memory active, unless a winner was stale.
THEOREM Survivor == Spec => []SurvivorUnlessStale
<1>1. IInv => SurvivorUnlessStale
  BY DEF IInv
<1> QED
  BY <1>1, Invariance, PTL

=============================================================================
