--------------------------- MODULE EntitiesProofs ---------------------------
(***************************************************************************)
(* Proofs about the entity resolver, for any calls, names and restarts.    *)
(***************************************************************************)
EXTENDS Entities, TLAPS

CallRecord == [pc : {"idle", "find", "create", "scan", "link", "embed",
                     "done", "failed"},
               role : Roles, try : 0..MaxRestarts + 1, ids : SUBSET Ids]

EntityIds == {e.id : e \in ents}

\* A call that has begun has its row, and it holds ids of entities.  An event is
\* begun once per start of the daemon.
CallInv ==
    \A c \in Calls :
        /\ call[c].try <= restarts + 1
        /\ call[c].pc = "idle" /\ (c \in Logged => worker = "running") =>
               call[c].try <= restarts
        /\ call[c].pc # "idle" => Memory(c) \in rows
        /\ call[c].ids \subseteq EntityIds
        /\ call[c].pc = "create" => Name(c) \notin Skipped \cup Splits

\* Call c holds the entity named n, if there has to be one.
Covered(c, n) ==
    n \in Skipped \/ ~Foldable(n) \/ \E e \in FindEntityByName(n) : e.id \in call[c].ids

\* A call holds the names it is through with, and in the end has linked them.
CoverInv ==
    \A c \in Calls :
        /\ call[c].pc = "idle" => call[c].role = "subject"
        /\ \/ call[c].pc \in {"find", "create"} /\ call[c].role = "object"
           \/ call[c].pc \in {"scan", "link", "done"}
           => Covered(c, Subject[c])
        /\ call[c].pc \in {"scan", "link", "done"} => Covered(c, Object[c])
        /\ call[c].pc = "done" =>
               \A id \in call[c].ids : <<Memory(c), id>> \in links

\* What the UNIQUE index says.
UniqueInv == \A e, f \in ents : SqlLower[e.name] = SqlLower[f.name] => e = f

\* A call that is alone finds the table as it left it.
AloneInv ==
    ~overlap =>
        /\ \A c, d \in Calls : Active(c) /\ Active(d) => c = d
        /\ \A c \in Calls : call[c].pc = "create" => FindEntityByName(Name(c)) = {}

IInv ==
    /\ TypeOK /\ CallInv /\ CoverInv /\ UniqueInv /\ AloneInv /\ AloneSucceeds

-----------------------------------------------------------------------------
(* What the steps of a call do to its record.                              *)

\* Call c goes on with these fields, the others as they are.
Goes(c, p, o, n, is) ==
    /\ call' \in [Calls -> CallRecord]
    /\ \A d \in Calls : d # c => call'[d] = call[d]
    /\ call'[c].pc = p
    /\ call'[c].role = o
    /\ call'[c].try = n
    /\ call'[c].ids = is

\* The fields of a call.
LEMMA Fields ==
    ASSUME TypeOK, NEW c \in Calls
    PROVE  /\ call \in [Calls -> CallRecord]
           /\ call[c] \in CallRecord
           /\ call[c].role \in Roles
           /\ call[c].try \in 0..MaxRestarts + 1
           /\ call[c].ids \subseteq Ids
BY DEF TypeOK, CallRecord

\* A call whose record is replaced goes on with the fields of the new one.
LEMMA Update ==
    ASSUME TypeOK, NEW c \in Calls, NEW r \in CallRecord, call' = [call EXCEPT ![c] = r]
    PROVE  Goes(c, r.pc, r.role, r.try, r.ids)
BY Fields DEF Goes

\* The record of a call that is through with a name.
LEMMA AfterIs ==
    ASSUME TypeOK, NEW c \in Calls, NEW is \in SUBSET Ids
    PROVE  /\ After(c, is) \in CallRecord
           /\ After(c, is).pc = IF call[c].role = "subject" THEN "find" ELSE "scan"
           /\ After(c, is).role = "object"
           /\ After(c, is).try = call[c].try
           /\ After(c, is).ids = is
<1> DEFINE s == [call[c] EXCEPT !.pc = "find", !.role = "object", !.ids = is]
           t == [call[c] EXCEPT !.pc = "scan", !.ids = is]
<1>1. /\ s \in CallRecord
      /\ s.pc = "find" /\ s.role = "object" /\ s.try = call[c].try /\ s.ids = is
  BY Fields DEF CallRecord, Roles
<1>2. /\ t \in CallRecord
      /\ t.pc = "scan" /\ t.role = call[c].role /\ t.try = call[c].try /\ t.ids = is
  BY Fields DEF CallRecord, Roles
<1>3. After(c, is) = IF call[c].role = "subject" THEN s ELSE t
  BY DEF After
<1> HIDE DEF s, t
<1> QED
  BY <1>1, <1>2, <1>3, Fields DEF Roles

\* A call begins with find_entity_by_name of its subject.
LEMMA BeginGoes ==
    ASSUME TypeOK, CallInv, NEW c \in Calls, Begin(c), c \in Logged => worker = "running"
    PROVE  Goes(c, "find", call[c].role, call[c].try + 1, call[c].ids)
<1> DEFINE r == [call[c] EXCEPT !.pc = "find", !.try = @ + 1]
<1>1. call[c].try + 1 \in 0..MaxRestarts + 1
  BY DEF CallInv, Begin, TypeOK
<1>2. /\ r \in CallRecord
      /\ r.pc = "find" /\ r.role = call[c].role /\ r.try = call[c].try + 1
      /\ r.ids = call[c].ids
  BY Fields, <1>1 DEF CallRecord
<1>3. call' = [call EXCEPT ![c] = r]
  BY DEF Begin
<1> HIDE DEF r
<1> QED
  BY <1>2, <1>3, Update

\* A call that is through with its subject takes its object, then the scan.
LEMMA AfterGoes ==
    ASSUME TypeOK, NEW c \in Calls, NEW is \in SUBSET Ids,
           call' = [call EXCEPT ![c] = After(c, is)]
    PROVE  Goes(c, IF call[c].role = "subject" THEN "find" ELSE "scan", "object",
                call[c].try, is)
<1> DEFINE r == After(c, is)
<1>1. r \in CallRecord /\ call' = [call EXCEPT ![c] = r]
  BY AfterIs
<1>2. /\ r.pc = IF call[c].role = "subject" THEN "find" ELSE "scan"
      /\ r.role = "object" /\ r.try = call[c].try /\ r.ids = is
  BY AfterIs
<1> HIDE DEF r
<1>3. Goes(c, r.pc, r.role, r.try, r.ids)
  BY <1>1, Update
<1> QED
  BY <1>2, <1>3 DEF Goes

\* A call goes on to p with the ids in is.
LEMMA PcGoes ==
    ASSUME TypeOK, NEW c \in Calls,
           NEW p \in {"create", "link", "done", "failed"}, NEW is \in SUBSET Ids,
           call' = [call EXCEPT ![c].pc = p, ![c].ids = is]
    PROVE  Goes(c, p, call[c].role, call[c].try, is)
<1> DEFINE r == [call[c] EXCEPT !.pc = p, !.ids = is]
<1>1. /\ r \in CallRecord
      /\ r.pc = p /\ r.role = call[c].role /\ r.try = call[c].try /\ r.ids = is
  BY Fields DEF CallRecord
<1>2. call' = [call EXCEPT ![c] = r]
  OBVIOUS
<1> HIDE DEF r
<1> QED
  BY <1>1, <1>2, Update

\* A call goes on to p with the ids it has.
LEMMA OnlyPcGoes ==
    ASSUME TypeOK, NEW c \in Calls, NEW p \in {"create", "done", "failed"},
           call' = [call EXCEPT ![c].pc = p]
    PROVE  Goes(c, p, call[c].role, call[c].try, call[c].ids)
<1> DEFINE r == [call[c] EXCEPT !.pc = p]
<1>1. /\ r \in CallRecord
      /\ r.pc = p /\ r.role = call[c].role /\ r.try = call[c].try
      /\ r.ids = call[c].ids
  BY Fields DEF CallRecord
<1>2. call' = [call EXCEPT ![c] = r]
  OBVIOUS
<1> HIDE DEF r
<1> QED
  BY <1>1, <1>2, Update

\* A logged call that is cut short is to be replayed, any other has failed.
LEMMA AbandonIs ==
    ASSUME TypeOK, NEW c \in Calls
    PROVE  /\ Abandon(c) \in CallRecord
           /\ Abandon(c).try = call[c].try
           /\ IF c \in Logged
              THEN Abandon(c).pc = "idle" /\ Abandon(c).role = "subject"
                                          /\ Abandon(c).ids = {}
              ELSE Abandon(c).pc = "failed" /\ Abandon(c).role = call[c].role
                                            /\ Abandon(c).ids = call[c].ids
BY Fields DEF Abandon, NewCall, CallRecord, Roles

\* Where c goes from here when it is through with a name.
Onward(c) == IF call[c].role = "subject" THEN "find" ELSE "scan"

\* A panic cuts a call short.
LEMMA PanicGoes ==
    ASSUME TypeOK, NEW c \in Calls, Panic(c)
    PROVE  IF c \in Logged
           THEN Goes(c, "idle", "subject", call[c].try, {})
           ELSE Goes(c, "failed", call[c].role, call[c].try, call[c].ids)
<1> DEFINE r == Abandon(c)
<1>1. r \in CallRecord /\ call' = [call EXCEPT ![c] = r]
  BY AbandonIs DEF Panic
<1>2. /\ r.try = call[c].try
      /\ IF c \in Logged
         THEN r.pc = "idle" /\ r.role = "subject" /\ r.ids = {}
         ELSE r.pc = "failed" /\ r.role = call[c].role /\ r.ids = call[c].ids
  BY AbandonIs
<1> HIDE DEF r
<1>3. Goes(c, r.pc, r.role, r.try, r.ids)
  BY <1>1, Update
<1> QED
  BY <1>2, <1>3 DEF Goes

\* find_entity_by_name leads to insert_entity, or to what follows the name.
LEMMA FindGoes ==
    ASSUME TypeOK, NEW c \in Calls, Find(c)
    PROVE  \/ /\ FindEntityByName(Name(c)) = {}
              /\ Goes(c, "create", call[c].role, call[c].try, call[c].ids)
           \/ /\ FindEntityByName(Name(c)) # {}
              /\ Goes(c, Onward(c), "object", call[c].try,
                      call[c].ids \cup {e.id : e \in FindEntityByName(Name(c))})
<1> DEFINE found == FindEntityByName(Name(c))
           is == call[c].ids \cup {e.id : e \in found}
<1>1. found \subseteq ents
  BY DEF FindEntityByName
<1>2. is \in SUBSET Ids
  BY <1>1, Fields DEF TypeOK
<1>3. CASE found = {}
  <2>1. call' = [call EXCEPT ![c].pc = "create"]
    BY <1>3 DEF Find
  <2> QED
    BY <2>1, <1>3, OnlyPcGoes
<1>4. CASE found # {}
  <2>1. call' = [call EXCEPT ![c] = After(c, is)]
    BY <1>4 DEF Find
  <2> HIDE DEF is, found
  <2>2. Goes(c, Onward(c), "object", call[c].try, is)
    BY <2>1, <1>2, AfterGoes DEF Onward
  <2> QED
    BY <2>2, <1>4 DEF is, found
<1> QED
  BY <1>3, <1>4

\* insert_entity adds the entity of this call and name.
LEMMA CreateGoes ==
    ASSUME TypeOK, CallInv, NEW c \in Calls, Create(c)
    PROVE  /\ <<Memory(c), call[c].role>> \in Ids
           /\ Goes(c, Onward(c), "object", call[c].try,
                   call[c].ids \cup {<<Memory(c), call[c].role>>})
<1> DEFINE id == <<Memory(c), call[c].role>>
<1>1. id \in Ids
  BY DEF CallInv, Create, TypeOK, Ids
<1>2. call' = [call EXCEPT ![c] = After(c, call[c].ids \cup {id})]
  BY DEF Create
<1> HIDE DEF id
<1> QED
  BY <1>1, <1>2, Fields, AfterGoes DEF Onward, id

\* The scan adds entities that exist.
LEMMA ScanGoes ==
    ASSUME TypeOK, NEW c \in Calls, Scan(c)
    PROVE  /\ Mentioned(c) \subseteq EntityIds
           /\ Goes(c, "link", call[c].role, call[c].try, call[c].ids \cup Mentioned(c))
<1>1. Mentioned(c) \subseteq EntityIds
  BY DEF Mentioned, EntityIds
<1>2. EntityIds \subseteq Ids
  BY DEF TypeOK, EntityIds
<1> DEFINE is == call[c].ids \cup Mentioned(c)
<1>3. is \in SUBSET Ids /\ call' = [call EXCEPT ![c].pc = "link", ![c].ids = is]
  BY <1>1, <1>2, Fields DEF Scan
<1> HIDE DEF is
<1>4. Goes(c, "link", call[c].role, call[c].try, is)
  BY <1>3, PcGoes
<1> QED
  BY <1>1, <1>4 DEF is

\* A restart cuts every active call short, and those logged begin anew.
LEMMA RestartGoes ==
    ASSUME TypeOK, Restart
    PROVE  /\ call' \in [Calls -> CallRecord]
           /\ \A c \in Calls :
                  /\ call'[c].try = call[c].try
                  /\ \/ call'[c] = call[c] /\ ~Active(c)
                     \/ /\ call'[c].pc = "idle" /\ c \in Logged
                        /\ call'[c].role = "subject" /\ call'[c].ids = {}
                     \/ /\ call'[c].pc = "failed" /\ Active(c)
                        /\ call'[c].role = call[c].role /\ call'[c].ids = call[c].ids
<1> DEFINE f(c) == CASE Active(c) -> Abandon(c)
                     [] passed < Len(Events) /\ c = Events[passed + 1] ->
                            NewCall(call[c].try)
                     [] OTHER -> call[c]
<1>1. ASSUME NEW c \in Calls
      PROVE  /\ f(c) \in CallRecord
             /\ f(c).try = call[c].try
             /\ \/ f(c) = call[c] /\ ~Active(c)
                \/ /\ f(c).pc = "idle" /\ c \in Logged
                   /\ f(c).role = "subject" /\ f(c).ids = {}
                \/ /\ f(c).pc = "failed" /\ Active(c)
                   /\ f(c).role = call[c].role /\ f(c).ids = call[c].ids
  <2>1. CASE Active(c)
    <3>2. passed < Len(Events) /\ c = Events[passed + 1] =>
              Abandon(c) = NewCall(call[c].try)
      BY EntitiesAssumption DEF TypeOK, Abandon
    <3>1. f(c) = Abandon(c)
      BY <2>1, <3>2
    <3> QED
      BY <2>1, <3>1, AbandonIs
  <2>2. CASE ~Active(c) /\ passed < Len(Events) /\ c = Events[passed + 1]
    <3>1. f(c) = NewCall(call[c].try)
      BY <2>2
    <3>2. c \in Logged
      BY <2>2, EntitiesAssumption DEF TypeOK
    <3> QED
      BY <3>1, <3>2, Fields DEF NewCall, CallRecord, Roles
  <2>3. CASE ~Active(c) /\ ~(passed < Len(Events) /\ c = Events[passed + 1])
    BY <2>3, Fields
  <2> QED
    BY <2>1, <2>2, <2>3
<1>2. call' = [c \in Calls |-> f(c)]
  BY DEF Restart
<1> HIDE DEF f
<1> QED
  BY <1>1, <1>2

\* Who begins a call.
LEMMA Begins ==
    ASSUME TypeOK, \/ \E c \in Adds : BeginAdd(c)
                   \/ BeginEvent
    PROVE  \E c \in Calls : Begin(c) /\ (c \in Logged => worker = "running")
<1>1. ASSUME NEW c \in Adds, BeginAdd(c)
      PROVE  c \in Calls /\ Begin(c) /\ c \notin Logged
  BY <1>1, EntitiesAssumption DEF BeginAdd, Calls
<1>2. CASE BeginEvent
  <2>1. Events[passed + 1] \in Logged
    BY <1>2, EntitiesAssumption DEF BeginEvent, TypeOK
  <2> QED
    BY <1>2, <2>1 DEF BeginEvent, Calls
<1> QED
  BY <1>1, <1>2

-----------------------------------------------------------------------------
(* Types.                                                                  *)

\* The tables and the calls start well typed.
LEMMA TypeInit == Init => TypeOK
<1> SUFFICES ASSUME Init PROVE TypeOK
  OBVIOUS
<1>1. call \in [Calls -> CallRecord]
  BY EntitiesAssumption DEF Init, NewCall, CallRecord, Roles
<1>3. passed \in 0..Len(Events) /\ restarts \in 0..MaxRestarts
  BY EntitiesAssumption DEF Init
<1> QED
  BY <1>1, <1>3 DEF Init, TypeOK, CallRecord

\* Every step leaves them well typed.
LEMMA TypeStep ==
    ASSUME TypeOK, CallInv, [Next]_vars
    PROVE  TypeOK'
<1>1. ASSUME NEW c \in Calls, Begin(c), c \in Logged => worker = "running" PROVE TypeOK'
  BY <1>1 DEF Begin, TypeOK
<1>2. ASSUME NEW c \in Calls, SkipName(c) PROVE TypeOK'
  <2>1. Goes(c, Onward(c), "object", call[c].try, call[c].ids)
    BY <1>2, AfterGoes, Fields DEF SkipName, Onward
  <2> QED
    BY <1>2, <2>1 DEF SkipName, Goes, TypeOK, CallRecord
<1>3. ASSUME NEW c \in Calls, Active(c), Panic(c) PROVE TypeOK'
  <2>1. IF c \in Logged
       THEN Goes(c, "idle", "subject", call[c].try, {})
       ELSE Goes(c, "failed", call[c].role, call[c].try, call[c].ids)
    BY <1>3, PanicGoes
  <2> QED
    BY <1>3, <2>1 DEF Panic, Goes, TypeOK, CallRecord
<1>4. ASSUME NEW c \in Calls, Find(c) PROVE TypeOK'
  <2>1. \/ /\ FindEntityByName(Name(c)) = {}
          /\ Goes(c, "create", call[c].role, call[c].try, call[c].ids)
       \/ /\ FindEntityByName(Name(c)) # {}
          /\ Goes(c, Onward(c), "object", call[c].try,
                  call[c].ids \cup {e.id : e \in FindEntityByName(Name(c))})
    BY <1>4, FindGoes
  <2> QED
    BY <1>4, <2>1 DEF Find, Goes, TypeOK, CallRecord
<1>5. ASSUME NEW c \in Calls, Create(c) PROVE TypeOK'
  <2>1. /\ <<Memory(c), call[c].role>> \in Ids
       /\ Goes(c, Onward(c), "object", call[c].try,
               call[c].ids \cup {<<Memory(c), call[c].role>>})
    BY <1>5, CreateGoes
  <2>2. Name(c) \in Spellings \ Skipped
    BY <1>5, EntitiesAssumption DEF Create, CallInv, Name
  <2>3. ents' = ents \cup {[id |-> <<Memory(c), call[c].role>>, name |-> Name(c)]}
    BY <1>5 DEF Create
  <2>4. ents' \subseteq [id : Ids, name : Spellings \ Skipped]
    BY <2>1, <2>2, <2>3 DEF TypeOK
  <2>6. links' \subseteq rows' \X {e.id : e \in ents'}
    BY <1>5 DEF Create, TypeOK
  <2> QED
    BY <1>5, <2>1, <2>4, <2>6 DEF Create, Goes, TypeOK, CallRecord
<1>6. ASSUME NEW c \in Calls, CreateFails(c) PROVE TypeOK'
  BY <1>6 DEF CreateFails, TypeOK
<1>7. ASSUME NEW c \in Calls, Scan(c) PROVE TypeOK'
  <2>1. /\ Mentioned(c) \subseteq EntityIds
       /\ Goes(c, "link", call[c].role, call[c].try, call[c].ids \cup Mentioned(c))
    BY <1>7, ScanGoes
  <2> QED
    BY <1>7, <2>1 DEF Scan, Goes, TypeOK, CallRecord
<1>8. ASSUME NEW c \in Calls, Link(c) PROVE TypeOK'
  <2>1. PICK id \in call[c].ids : links' = links \cup {<<Memory(c), id>>}
    BY <1>8 DEF Link
  <2>2. id \in {e.id : e \in ents} /\ Memory(c) \in rows
    BY <1>8 DEF Link, CallInv, EntityIds
  <2> QED
    BY <1>8, <2>1, <2>2 DEF Link, TypeOK
<1>9. ASSUME NEW c \in Calls, Embed(c) PROVE TypeOK'
  <2>2. Memory(c) \in rows
    BY <1>9 DEF Embed, CallInv
  <2> QED
    BY <1>9, <2>2 DEF Embed, TypeOK
<1>10. CASE Checkpoint
  BY <1>10 DEF Checkpoint, TypeOK
<1>11. CASE Restart
  <2>1. /\ call' \in [Calls -> CallRecord]
       /\ \A c \in Calls :
              /\ call'[c].try = call[c].try
              /\ \/ call'[c] = call[c] /\ ~Active(c)
                 \/ /\ call'[c].pc = "idle" /\ c \in Logged
                    /\ call'[c].role = "subject" /\ call'[c].ids = {}
                 \/ /\ call'[c].pc = "failed" /\ Active(c)
                    /\ call'[c].role = call[c].role /\ call'[c].ids = call[c].ids
    BY <1>11, RestartGoes
  <2>2. restarts' \in 0..MaxRestarts
    BY <1>11, EntitiesAssumption DEF Restart, TypeOK
  <2> QED
    BY <1>11, <2>1, <2>2 DEF Restart, TypeOK, CallRecord
<1>12. CASE UNCHANGED vars
  BY <1>12 DEF vars, TypeOK
<1> QED
  BY <1>1, <1>2, <1>3, <1>4, <1>5, <1>6, <1>7, <1>8, <1>9, <1>10, <1>11, <1>12, Begins
     DEF Next, CallStep, WorkerStep, NamePanics, ScanPanics, Active

\* A call that has begun keeps its row, and its ids name entities.
LEMMA CallInvStep ==
    ASSUME TypeOK, CallInv, TypeOK', [Next]_vars
    PROVE  CallInv'
<1>1. ASSUME NEW c \in Calls, Begin(c), c \in Logged => worker = "running" PROVE CallInv'
  BY <1>1 DEF Begin, TypeOK
<1>2. ASSUME NEW c \in Calls, SkipName(c) PROVE CallInv'
  <2>1. Goes(c, Onward(c), "object", call[c].try, call[c].ids)
    BY <1>2, AfterGoes, Fields DEF SkipName, Onward
  <2> QED
    BY <1>2, <2>1 DEF SkipName, Goes, CallInv, EntityIds, Memory, Name, Onward
<1>3. ASSUME NEW c \in Calls, Active(c), Panic(c) PROVE CallInv'
  <2>1. IF c \in Logged
       THEN Goes(c, "idle", "subject", call[c].try, {})
       ELSE Goes(c, "failed", call[c].role, call[c].try, call[c].ids)
    BY <1>3, PanicGoes
  <2> QED
    BY <1>3, <2>1 DEF Panic, Active, Goes, CallInv, EntityIds, Memory, Name
<1>4. ASSUME NEW c \in Calls, Find(c) PROVE CallInv'
  <2>1. PICK is \in SUBSET EntityIds, p \in {"create", "find", "scan"},
              o \in Roles :
            /\ Goes(c, p, o, call[c].try, is)
            /\ p = "create" => o = call[c].role
    <3>1. {e.id : e \in FindEntityByName(Name(c))} \subseteq EntityIds
      BY DEF FindEntityByName, EntityIds
    <3>2. call[c].ids \subseteq EntityIds
      BY DEF CallInv
    <3> QED
      BY <1>4, <3>1, <3>2, FindGoes, Fields DEF Onward, Roles
  <2>2. /\ call[c].try <= restarts + 1
        /\ Memory(c) \in rows
        /\ Name(c) \notin Skipped \cup Splits
    BY <1>4 DEF Find, CallInv
  <2>3. UNCHANGED <<ents, rows, restarts, worker>>
    BY <1>4 DEF Find
  <2> QED
    BY <2>1, <2>2, <2>3 DEF Goes, CallInv, EntityIds, Memory, Name
<1>5. ASSUME NEW c \in Calls, Create(c) PROVE CallInv'
  <2>1. /\ <<Memory(c), call[c].role>> \in Ids
       /\ Goes(c, Onward(c), "object", call[c].try,
               call[c].ids \cup {<<Memory(c), call[c].role>>})
    BY <1>5, CreateGoes
  <2>2. EntityIds \subseteq EntityIds' /\ <<Memory(c), call[c].role>> \in EntityIds'
    <3> DEFINE e == [id |-> <<Memory(c), call[c].role>>, name |-> Name(c)]
    <3>1. e.id = <<Memory(c), call[c].role>> /\ ents' = ents \cup {e}
      BY <1>5 DEF Create
    <3> HIDE DEF e
    <3>2. e \in ents' /\ ents \subseteq ents'
      BY <3>1
    <3> QED
      BY <3>1, <3>2 DEF EntityIds
  <2> QED
    BY <1>5, <2>1, <2>2 DEF Create, Goes, CallInv, Memory, Name, Onward
<1>6. ASSUME NEW c \in Calls, CreateFails(c) PROVE CallInv'
  BY <1>6 DEF CreateFails, CallInv, EntityIds, Memory, Name
<1>7. ASSUME NEW c \in Calls, Scan(c) PROVE CallInv'
  <2>1. /\ Mentioned(c) \subseteq EntityIds
       /\ Goes(c, "link", call[c].role, call[c].try, call[c].ids \cup Mentioned(c))
    BY <1>7, ScanGoes
  <2> QED
    BY <1>7, <2>1, Fields DEF Scan, CallInv, EntityIds, Memory, Name
<1>8. ASSUME NEW c \in Calls, Link(c) PROVE CallInv'
  BY <1>8 DEF Link, CallInv, EntityIds, Memory, Name
<1>9. ASSUME NEW c \in Calls, Embed(c) PROVE CallInv'
  BY <1>9 DEF Embed, CallInv, EntityIds, Memory, Name
<1>10. CASE Checkpoint
  BY <1>10 DEF Checkpoint, CallInv, EntityIds, Memory, Name
<1>11. CASE Restart
  <2>1. /\ call' \in [Calls -> CallRecord]
       /\ \A c \in Calls :
              /\ call'[c].try = call[c].try
              /\ \/ call'[c] = call[c] /\ ~Active(c)
                 \/ /\ call'[c].pc = "idle" /\ c \in Logged
                    /\ call'[c].role = "subject" /\ call'[c].ids = {}
                 \/ /\ call'[c].pc = "failed" /\ Active(c)
                    /\ call'[c].role = call[c].role /\ call'[c].ids = call[c].ids
    BY <1>11, RestartGoes
  <2> QED
    BY <1>11, <2>1 DEF Restart, TypeOK, CallInv, EntityIds, Memory, Active
<1>12. CASE UNCHANGED vars
  BY <1>12 DEF vars, CallInv, EntityIds, Memory, Name
<1> QED
  BY <1>1, <1>2, <1>3, <1>4, <1>5, <1>6, <1>7, <1>8, <1>9, <1>10, <1>11, <1>12, Begins
     DEF Next, CallStep, WorkerStep, NamePanics, ScanPanics, Active

-----------------------------------------------------------------------------
(* Pages.                                                                  *)

\* Nothing is taken from the tables.
LEMMA Grows ==
    ASSUME [Next]_vars
    PROVE  ents \subseteq ents' /\ rows \subseteq rows' /\ links \subseteq links'
BY DEF Next, vars, BeginAdd, BeginEvent, Begin, CallStep, SkipName, NamePanics,
       Panic, Find, Create, CreateFails, ScanPanics, Scan, Link, Embed, WorkerStep,
       Checkpoint, Restart

\* A call that has an entity keeps it.
LEMMA CoveredKept ==
    ASSUME ents \subseteq ents', NEW d, NEW n, Covered(d, n),
           call[d].ids \subseteq call'[d].ids
    PROVE  Covered(d, n)'
BY DEF Covered, FindEntityByName

\* The other calls, in a step of call c.
LEMMA OthersCovered ==
    ASSUME ents \subseteq ents', links \subseteq links', CoverInv, NEW c \in Calls,
           \A d \in Calls : d # c => call'[d] = call[d],
           NEW d \in Calls, d # c
    PROVE  /\ call'[d].pc = "idle" => call'[d].role = "subject"
           /\ \/ call'[d].pc \in {"find", "create"} /\ call'[d].role = "object"
              \/ call'[d].pc \in {"scan", "link", "done"}
              => Covered(d, Subject[d])'
           /\ call'[d].pc \in {"scan", "link", "done"} => Covered(d, Object[d])'
           /\ call'[d].pc = "done" =>
                  \A id \in call'[d].ids : <<Memory(d)', id>> \in links'
<1>1. call'[d] = call[d] /\ Memory(d)' = Memory(d)
  BY DEF Memory
<1> QED
  BY <1>1, CoveredKept DEF CoverInv

\* Call c is through with a name, which it holds now if it has to.
LEMMA Through ==
    ASSUME ents \subseteq ents', links \subseteq links', CoverInv, TypeOK, NEW c \in Calls,
           NEW is, call[c].ids \subseteq is, call[c].pc \in {"find", "create"},
           Goes(c, Onward(c), "object", call[c].try, is),
           \/ Name(c) \in Skipped
           \/ ~Foldable(Name(c))
           \/ \E e \in ents' : SqlLower[e.name] = Lower[Name(c)] /\ e.id \in is
    PROVE  CoverInv'
<1>1. ASSUME NEW n, n = Name(c)
      PROVE  Covered(c, n)'
  BY <1>1 DEF Covered, FindEntityByName, Goes
<1>2. CASE call[c].role = "subject"
  <2>1. Covered(c, Subject[c])'
    BY <1>1, <1>2 DEF Name
  <2>2. call'[c].pc = "find" /\ call'[c].role = "object"
    BY <1>2 DEF Goes, Onward
  <2> QED
    BY <2>1, <2>2, OthersCovered DEF CoverInv, Goes
<1>3. CASE call[c].role = "object"
  <2>1. Covered(c, Object[c])'
    BY <1>1, <1>3 DEF Name
  <2>2. call'[c].pc = "scan" /\ call'[c].role = "object" /\ call'[c].ids = is
    BY <1>3 DEF Goes, Onward
  <2>3. Covered(c, Subject[c])'
    BY <1>3, <2>2, CoveredKept DEF CoverInv
  <2> QED
    BY <2>1, <2>2, <2>3, OthersCovered DEF CoverInv, Goes
<1> QED
  BY <1>2, <1>3, Fields DEF Roles

\* A call keeps what it holds, and has linked it when it returns.
LEMMA CoverStep ==
    ASSUME TypeOK, CallInv, TypeOK', CoverInv, [Next]_vars
    PROVE  CoverInv'
<1>1. ASSUME NEW c \in Calls, Begin(c), c \in Logged => worker = "running" PROVE CoverInv'
  <2>1. Goes(c, "find", call[c].role, call[c].try + 1, call[c].ids)
    BY <1>1, BeginGoes
  <2> QED
    BY <1>1, <2>1, OthersCovered DEF Begin, Goes, CoverInv
<1>2. ASSUME NEW c \in Calls, SkipName(c) PROVE CoverInv'
  <2>1. Goes(c, Onward(c), "object", call[c].try, call[c].ids)
    BY <1>2, AfterGoes, Fields DEF SkipName, Onward
  <2> QED
    BY <1>2, <2>1, Through DEF SkipName
<1>3. ASSUME NEW c \in Calls, Active(c), Panic(c) PROVE CoverInv'
  <2>1. IF c \in Logged
       THEN Goes(c, "idle", "subject", call[c].try, {})
       ELSE Goes(c, "failed", call[c].role, call[c].try, call[c].ids)
    BY <1>3, PanicGoes
  <2> QED
    BY <2>1, OthersCovered, Grows DEF Goes, CoverInv
<1>4. ASSUME NEW c \in Calls, Find(c) PROVE CoverInv'
  <2>1. CASE Goes(c, "create", call[c].role, call[c].try, call[c].ids)
    <3>1. /\ call[c].pc = "find" /\ call'[c].pc = "create"
          /\ call'[c].role = call[c].role /\ call'[c].ids = call[c].ids
      BY <1>4, <2>1 DEF Goes, Find
    <3>2. call'[c].role = "object" => Covered(c, Subject[c])'
      BY <3>1, Grows, CoveredKept DEF CoverInv
    <3> QED
      BY <2>1, <3>2, Grows, OthersCovered DEF CoverInv, Goes
  <2>2. CASE /\ FindEntityByName(Name(c)) # {}
             /\ Goes(c, Onward(c), "object", call[c].try,
                     call[c].ids \cup {e.id : e \in FindEntityByName(Name(c))})
    <3> DEFINE is == call[c].ids \cup {e.id : e \in FindEntityByName(Name(c))}
    <3>1. PICK e \in ents : SqlLower[e.name] = Lower[Name(c)] /\ e.id \in is
      BY <2>2 DEF FindEntityByName
    <3>2. e \in ents' /\ call[c].ids \subseteq is /\ call[c].pc = "find"
      BY <1>4, Grows DEF Find
    <3>3. Goes(c, Onward(c), "object", call[c].try, is)
      BY <2>2
    <3> HIDE DEF is
    <3> QED
      BY <3>1, <3>2, <3>3, Grows, Through
  <2> QED
    BY <1>4, <2>1, <2>2, FindGoes
<1>5. ASSUME NEW c \in Calls, Create(c) PROVE CoverInv'
  <2> DEFINE id == <<Memory(c), call[c].role>>
             e == [id |-> id, name |-> Name(c)]
  <2>1. e \in ents' /\ e.id = id /\ e.name = Name(c) /\ call[c].pc = "create"
    BY <1>5 DEF Create
  <2>2. Goes(c, Onward(c), "object", call[c].try, call[c].ids \cup {id})
    BY <1>5, CreateGoes
  <2> HIDE DEF id, e
  <2>3. Foldable(Name(c)) =>
            \E f \in ents' :
                /\ SqlLower[f.name] = Lower[Name(c)]
                /\ f.id \in call[c].ids \cup {id}
    BY <2>1 DEF Foldable
  <2> QED
    BY <2>1, <2>2, <2>3, Grows, Through
<1>6. ASSUME NEW c \in Calls, CreateFails(c) PROVE CoverInv'
  <2>1. Goes(c, "failed", call[c].role, call[c].try, call[c].ids)
    BY <1>6, OnlyPcGoes DEF CreateFails
  <2> QED
    BY <2>1, OthersCovered, Grows DEF Goes, CoverInv
<1>7. ASSUME NEW c \in Calls, Scan(c) PROVE CoverInv'
  <2>1. /\ Mentioned(c) \subseteq EntityIds
       /\ Goes(c, "link", call[c].role, call[c].try, call[c].ids \cup Mentioned(c))
    BY <1>7, ScanGoes
  <2>2. call[c].pc = "scan" /\ Covered(c, Subject[c])' /\ Covered(c, Object[c])'
    BY <1>7, <2>1, CoveredKept DEF Scan, Goes, CoverInv
  <2> QED
    BY <2>1, <2>2, OthersCovered, Grows DEF Goes, CoverInv
<1>8. ASSUME NEW c \in Calls, Link(c) PROVE CoverInv'
  <2>1. UNCHANGED call
    BY <1>8 DEF Link
  <2>2. ASSUME NEW d \in Calls, NEW n, Covered(d, n)
        PROVE  Covered(d, n)'
    BY <2>1, <2>2, Grows, CoveredKept
  <2>3. \A d \in Calls : Memory(d)' = Memory(d)
    BY <2>1 DEF Memory
  <2> QED
    BY <2>1, <2>2, <2>3, Grows DEF CoverInv
<1>9. ASSUME NEW c \in Calls, Embed(c) PROVE CoverInv'
  <2>2. call[c].pc = "link" /\ Covered(c, Subject[c])' /\ Covered(c, Object[c])'
    BY <1>9, CoveredKept DEF Embed, CoverInv
  <2>3. \A id \in call'[c].ids : <<Memory(c)', id>> \in links'
    BY <1>9 DEF Embed, Memory
  <2> QED
    BY <1>9, <2>2, <2>3, OthersCovered DEF Embed, CoverInv
<1>10. CASE Checkpoint
  <2>1. UNCHANGED call
    BY <1>10 DEF Checkpoint
  <2>2. ASSUME NEW d \in Calls, NEW n, Covered(d, n)
        PROVE  Covered(d, n)'
    BY <2>1, <2>2, Grows, CoveredKept
  <2>3. \A d \in Calls : Memory(d)' = Memory(d)
    BY <2>1 DEF Memory
  <2> QED
    BY <2>1, <2>2, <2>3, Grows DEF CoverInv
<1>11. CASE Restart
  <2>1. ASSUME NEW d \in Calls
        PROVE  \/ call'[d] = call[d]
               \/ call'[d].pc = "idle" /\ call'[d].role = "subject"
               \/ call'[d].pc = "failed"
    BY <1>11, RestartGoes
  <2>2. ASSUME NEW d \in Calls, NEW n, Covered(d, n), call'[d] = call[d]
        PROVE  Covered(d, n)'
    BY <2>2, Grows, CoveredKept
  <2>3. ASSUME NEW d \in Calls, call'[d] = call[d]
        PROVE  Memory(d)' = Memory(d)
    BY <2>3 DEF Memory
  <2> QED
    BY <2>1, <2>2, <2>3, Grows DEF CoverInv
<1>12. CASE UNCHANGED vars
  <2>1. UNCHANGED call
    BY <1>12 DEF vars
  <2>2. ASSUME NEW d \in Calls, NEW n, Covered(d, n)
        PROVE  Covered(d, n)'
    BY <2>1, <2>2, Grows, CoveredKept
  <2>3. \A d \in Calls : Memory(d)' = Memory(d)
    BY <2>1 DEF Memory
  <2> QED
    BY <2>1, <2>2, <2>3, Grows DEF CoverInv
<1> QED
  BY <1>1, <1>2, <1>3, <1>4, <1>5, <1>6, <1>7, <1>8, <1>9, <1>10, <1>11, <1>12, Begins
     DEF Next, CallStep, WorkerStep, NamePanics, ScanPanics, Active

-----------------------------------------------------------------------------
(* Names, and calls that are alone.                                        *)

\* insert_entity fails on a name that is taken.
LEMMA UniqueStep ==
    ASSUME TypeOK, UniqueInv, [Next]_vars
    PROVE  UniqueInv'
<1>1. ASSUME NEW c \in Calls, Begin(c), c \in Logged => worker = "running" PROVE UniqueInv'
  BY <1>1 DEF Begin, UniqueInv
<1>2. ASSUME NEW c \in Calls, SkipName(c) PROVE UniqueInv'
  BY <1>2 DEF SkipName, UniqueInv
<1>3. ASSUME NEW c \in Calls, Active(c), Panic(c) PROVE UniqueInv'
  BY <1>3 DEF Panic, UniqueInv
<1>4. ASSUME NEW c \in Calls, Find(c) PROVE UniqueInv'
  BY <1>4 DEF Find, UniqueInv
<1>5. ASSUME NEW c \in Calls, Create(c) PROVE UniqueInv'
  <2> DEFINE e == [id |-> <<Memory(c), call[c].role>>, name |-> Name(c)]
  <2>1. ents' = ents \cup {e} /\ e.name = Name(c)
    BY <1>5 DEF Create
  <2> HIDE DEF e
  <2>2. \A f \in ents : SqlLower[f.name] # SqlLower[e.name]
    BY <1>5, <2>1 DEF Create, Taken
  <2> QED
    BY <2>1, <2>2 DEF UniqueInv
<1>6. ASSUME NEW c \in Calls, CreateFails(c) PROVE UniqueInv'
  BY <1>6 DEF CreateFails, UniqueInv
<1>7. ASSUME NEW c \in Calls, Scan(c) PROVE UniqueInv'
  BY <1>7 DEF Scan, UniqueInv
<1>8. ASSUME NEW c \in Calls, Link(c) PROVE UniqueInv'
  BY <1>8 DEF Link, UniqueInv
<1>9. ASSUME NEW c \in Calls, Embed(c) PROVE UniqueInv'
  BY <1>9 DEF Embed, UniqueInv
<1>10. CASE Checkpoint
  BY <1>10 DEF Checkpoint, UniqueInv
<1>11. CASE Restart
  BY <1>11 DEF Restart, UniqueInv
<1>12. CASE UNCHANGED vars
  BY <1>12 DEF vars, UniqueInv
<1> QED
  BY <1>1, <1>2, <1>3, <1>4, <1>5, <1>6, <1>7, <1>8, <1>9, <1>10, <1>11, <1>12, Begins
     DEF Next, CallStep, WorkerStep, NamePanics, ScanPanics, Active

\* As long as no calls overlap, one at most is active and what it read is still true.
LEMMA AloneStep ==
    ASSUME TypeOK, CallInv, TypeOK', AloneInv, [Next]_vars
    PROVE  AloneInv'
<1>1. ASSUME NEW c \in Calls, Begin(c), c \in Logged => worker = "running" PROVE AloneInv'
  <2>1. Goes(c, "find", call[c].role, call[c].try + 1, call[c].ids)
    BY <1>1, BeginGoes
  <2> QED
    BY <1>1, <2>1 DEF Begin, Goes, AloneInv, Active
<1>2. ASSUME NEW c \in Calls, SkipName(c) PROVE AloneInv'
  <2>1. Goes(c, Onward(c), "object", call[c].try, call[c].ids)
    BY <1>2, AfterGoes, Fields DEF SkipName, Onward
  <2> QED
    BY <1>2, <2>1 DEF SkipName, Goes, AloneInv, Active, Onward
<1>3. ASSUME NEW c \in Calls, Active(c), Panic(c) PROVE AloneInv'
  <2>1. IF c \in Logged
       THEN Goes(c, "idle", "subject", call[c].try, {})
       ELSE Goes(c, "failed", call[c].role, call[c].try, call[c].ids)
    BY <1>3, PanicGoes
  <2> QED
    BY <1>3, <2>1 DEF Panic, Goes, AloneInv, Active
<1>4. ASSUME NEW c \in Calls, Find(c) PROVE AloneInv'
  <2>1. /\ \A d \in Calls : d # c => call'[d] = call[d]
        /\ call'[c].pc \in {"create", "find", "scan"}
        /\ call'[c].pc = "create" =>
               call'[c].role = call[c].role /\ FindEntityByName(Name(c)) = {}
    BY <1>4, FindGoes DEF Goes, Onward
  <2>2. call[c].pc = "find" /\ UNCHANGED <<ents, overlap>>
    BY <1>4 DEF Find
  <2>3. call'[c].pc = "create" => FindEntityByName(Name(c))' = {}
    BY <2>1, <2>2 DEF Name, FindEntityByName
  <2>4. \A d \in Calls :
            d # c /\ FindEntityByName(Name(d)) = {} => FindEntityByName(Name(d))' = {}
    BY <2>1, <2>2 DEF Name, FindEntityByName
  <2>5. \A d \in Calls : Active(d)' => Active(d)
    BY <2>1, <2>2 DEF Active
  <2> QED
    BY <2>1, <2>2, <2>3, <2>4, <2>5 DEF AloneInv
<1>5. ASSUME NEW c \in Calls, Create(c) PROVE AloneInv'
  <2>1. /\ call[c].pc = "create" /\ overlap' = overlap
        /\ \A d \in Calls : d # c => call'[d] = call[d]
        /\ call'[c].pc # "create"
    BY <1>5, CreateGoes DEF Create, Goes, Onward
  <2>2. \A d \in Calls : Active(d)' => Active(d)
    BY <2>1 DEF Active
  <2>3. ASSUME ~overlap, NEW d \in Calls
        PROVE  call'[d].pc # "create"
    BY <2>1, <2>3 DEF AloneInv, Active
  <2> QED
    BY <2>1, <2>2, <2>3 DEF AloneInv
<1>6. ASSUME NEW c \in Calls, CreateFails(c) PROVE AloneInv'
  <2>1. Goes(c, "failed", call[c].role, call[c].try, call[c].ids)
    BY <1>6, OnlyPcGoes DEF CreateFails
  <2> QED
    BY <1>6, <2>1 DEF CreateFails, Goes, AloneInv, Active
<1>7. ASSUME NEW c \in Calls, Scan(c) PROVE AloneInv'
  <2>1. /\ Mentioned(c) \subseteq EntityIds
       /\ Goes(c, "link", call[c].role, call[c].try, call[c].ids \cup Mentioned(c))
    BY <1>7, ScanGoes
  <2> QED
    BY <1>7, <2>1 DEF Scan, Goes, AloneInv, Active
<1>8. ASSUME NEW c \in Calls, Link(c) PROVE AloneInv'
  BY <1>8 DEF Link, AloneInv, Active
<1>9. ASSUME NEW c \in Calls, Embed(c) PROVE AloneInv'
  BY <1>9 DEF Embed, AloneInv, Active
<1>10. CASE Checkpoint
  BY <1>10 DEF Checkpoint, AloneInv, Active, Name, FindEntityByName
<1>11. CASE Restart
  <2>1. /\ call' \in [Calls -> CallRecord]
       /\ \A c \in Calls :
              /\ call'[c].try = call[c].try
              /\ \/ call'[c] = call[c] /\ ~Active(c)
                 \/ /\ call'[c].pc = "idle" /\ c \in Logged
                    /\ call'[c].role = "subject" /\ call'[c].ids = {}
                 \/ /\ call'[c].pc = "failed" /\ Active(c)
                    /\ call'[c].role = call[c].role /\ call'[c].ids = call[c].ids
    BY <1>11, RestartGoes
  <2> QED
    BY <2>1 DEF AloneInv, Active
<1>12. CASE UNCHANGED vars
  BY <1>12 DEF vars, AloneInv, Active, Name, FindEntityByName
<1> QED
  BY <1>1, <1>2, <1>3, <1>4, <1>5, <1>6, <1>7, <1>8, <1>9, <1>10, <1>11, <1>12, Begins
     DEF Next, CallStep, WorkerStep, NamePanics, ScanPanics, Active

\* A step of a call that is alone fails only over a name that cannot be lowered
\* or sliced, or over an entity that cuts its text.
LEMMA SucceedsStep ==
    ASSUME TypeOK, CallInv, TypeOK', AloneInv, AloneSucceeds, [Next]_vars
    PROVE  AloneSucceeds'
<1>1. ASSUME NEW c \in Calls, Begin(c), c \in Logged => worker = "running"
      PROVE  AloneSucceeds'
  <2>1. Goes(c, "find", call[c].role, call[c].try + 1, call[c].ids)
    BY <1>1, BeginGoes
  <2> QED
    BY <1>1, <2>1 DEF Begin, Goes, AloneSucceeds, ScanCuts
<1>2. ASSUME NEW c \in Calls, SkipName(c) PROVE AloneSucceeds'
  <2>1. /\ call'[c].pc # "failed" /\ UNCHANGED <<ents, restarts, overlap>>
        /\ \A d \in Calls : d # c => call'[d] = call[d]
    BY <1>2, AfterGoes, Fields DEF SkipName, Goes
  <2> QED
    BY <2>1 DEF AloneSucceeds, ScanCuts
<1>3. ASSUME NEW c \in Calls, NamePanics(c) PROVE AloneSucceeds'
  <2>2. /\ \A d \in Calls : d # c => call'[d] = call[d]
        /\ UNCHANGED <<ents, restarts, overlap>>
    BY <1>3 DEF NamePanics, Panic
  <2>4. Name(c) \in {Subject[c], Object[c]}
    BY DEF Name
  <2>3. \E n \in Resolvable(c) : ~Foldable(n) \/ n \in Splits
    BY <1>3, <2>4, EntitiesAssumption DEF NamePanics, Resolvable
  <2> QED
    BY <2>2, <2>3 DEF AloneSucceeds, ScanCuts
<1>13. ASSUME NEW c \in Calls, ScanPanics(c) PROVE AloneSucceeds'
  <2>1. /\ \A d \in Calls : d # c => call'[d] = call[d]
        /\ UNCHANGED <<ents, restarts, overlap>>
    BY <1>13 DEF ScanPanics, Panic
  <2>2. call'[c].pc = "failed" => call'[c].ids = call[c].ids
    BY <1>13, PanicGoes DEF ScanPanics, Goes
  <2>3. call'[c].pc = "failed" => ScanCuts(c)'
    BY <1>13, <2>1, <2>2 DEF ScanPanics, ScanCuts
  <2> QED
    BY <2>1, <2>3 DEF AloneSucceeds, ScanCuts
<1>4. ASSUME NEW c \in Calls, Find(c) PROVE AloneSucceeds'
  <2>1. /\ call'[c].pc # "failed" /\ UNCHANGED <<ents, restarts, overlap>>
        /\ \A d \in Calls : d # c => call'[d] = call[d]
    BY <1>4, FindGoes DEF Find, Goes, Onward
  <2> QED
    BY <2>1 DEF AloneSucceeds, ScanCuts
<1>5. ASSUME NEW c \in Calls, Create(c) PROVE AloneSucceeds'
  <2>1. /\ call'[c].pc # "failed" /\ UNCHANGED <<restarts, overlap>>
        /\ ents \subseteq ents'
        /\ \A d \in Calls : d # c => call'[d] = call[d]
    BY <1>5, CreateGoes DEF Create, Goes, Onward
  <2> QED
    BY <2>1 DEF AloneSucceeds, ScanCuts
<1>6. ASSUME NEW c \in Calls, CreateFails(c) PROVE AloneSucceeds'
  <2>2. /\ \A d \in Calls : d # c => call'[d] = call[d]
        /\ UNCHANGED <<ents, restarts, overlap>>
    BY <1>6 DEF CreateFails
  <2>4. Name(c) \in {Subject[c], Object[c]}
    BY DEF Name
  <2>3. ~overlap => \E n \in Resolvable(c) : ~Foldable(n) \/ n \in Splits
    <3>1. Name(c) \in Resolvable(c)
      BY <1>6, <2>4 DEF CreateFails, CallInv, Resolvable
    <3>2. ~overlap => ~Foldable(Name(c))
      BY <1>6 DEF CreateFails, AloneInv, Taken, FindEntityByName, Foldable
    <3> QED
      BY <3>1, <3>2
  <2> QED
    BY <2>2, <2>3 DEF AloneSucceeds, ScanCuts
<1>7. ASSUME NEW c \in Calls, Scan(c) PROVE AloneSucceeds'
  <2>1. /\ Mentioned(c) \subseteq EntityIds
       /\ Goes(c, "link", call[c].role, call[c].try, call[c].ids \cup Mentioned(c))
    BY <1>7, ScanGoes
  <2> QED
    BY <1>7, <2>1 DEF Scan, Goes, AloneSucceeds, ScanCuts
<1>8. ASSUME NEW c \in Calls, Link(c) PROVE AloneSucceeds'
  BY <1>8 DEF Link, AloneSucceeds, ScanCuts
<1>9. ASSUME NEW c \in Calls, Embed(c) PROVE AloneSucceeds'
  BY <1>9 DEF Embed, AloneSucceeds, ScanCuts
<1>10. CASE Checkpoint
  BY <1>10 DEF Checkpoint, AloneSucceeds, ScanCuts
<1>11. CASE Restart
  <2>1. restarts' # 0
    BY <1>11 DEF Restart, TypeOK
  <2> QED
    BY <2>1 DEF AloneSucceeds, ScanCuts
<1>12. CASE UNCHANGED vars
  BY <1>12 DEF vars, AloneSucceeds, ScanCuts
<1> QED
  BY <1>1, <1>2, <1>3, <1>4, <1>5, <1>6, <1>7, <1>8, <1>9, <1>10, <1>11, <1>12, <1>13, Begins
     DEF Next, CallStep, WorkerStep

-----------------------------------------------------------------------------
(* The invariant and what it gives.                                        *)

\* The inductive invariant holds at the start.
LEMMA InitIInv == Init => IInv
<1> SUFFICES ASSUME Init PROVE IInv
  OBVIOUS
<1>1. TypeOK
  BY TypeInit
<1>2. \A c \in Calls : call[c].pc = "idle" /\ call[c].role = "subject"
                      /\ call[c].try = 0 /\ call[c].ids = {}
  BY DEF Init, NewCall
<1>3. CallInv
  BY <1>2 DEF Init, CallInv
<1>4. CoverInv /\ AloneSucceeds
  BY <1>2 DEF CoverInv, AloneSucceeds
<1>5. UniqueInv /\ AloneInv
  BY <1>2 DEF Init, UniqueInv, AloneInv, Active
<1> QED
  BY <1>1, <1>3, <1>4, <1>5 DEF IInv

\* Every step keeps it.
LEMMA NextIInv == IInv /\ [Next]_vars => IInv'
BY TypeStep, CallInvStep, CoverStep, UniqueStep, AloneStep, SucceedsStep DEF IInv

\* The inductive invariant of the resolver holds in every reachable state.
THEOREM Invariance == Spec => []IInv
BY InitIInv, NextIInv, PTL DEF Spec

\* The tables and the calls are well typed; only entities that exist are linked.
THEOREM TypeCorrect == Spec => []TypeOK
<1>1. IInv => TypeOK
  BY DEF IInv
<1> QED
  BY <1>1, Invariance, PTL

\* The memory of a call that returned is on the pages of its names, whatever
\* other calls did (resolve, link_memory_entity, entity_page::build).
THEOREM OnPages == Spec => []OnItsPages
<1>1. IInv => OnItsPages
  <2> SUFFICES ASSUME IInv, NEW c \in Calls, call[c].pc = "done",
                      NEW n \in Resolvable(c), Foldable(n)
               PROVE  Memory(c) \in Page(n)
    BY DEF OnItsPages
  <2>1. Covered(c, n)
    BY DEF IInv, CoverInv, Resolvable
  <2>2. PICK e \in FindEntityByName(n) : e.id \in call[c].ids
    BY <2>1 DEF Covered, Resolvable
  <2>3. Memory(c) \in rows /\ <<Memory(c), e.id>> \in links
    BY <2>2 DEF IInv, CallInv, CoverInv
  <2> QED
    BY <2>3 DEF Page, MemoriesFor
<1> QED
  BY <1>1, Invariance, PTL

\* One entity per name without regard to case (resolve_or_create_entity,
\* idx_entities_name_unique_active).
THEOREM OnePerName == Spec => []OneEntityPerName
<1>1. IInv => OneEntityPerName
  BY DEF IInv, UniqueInv, OneEntityPerName, Foldable
<1> QED
  BY <1>1, Invariance, PTL

\* A call that overlaps no other fails only over a name that cannot be lowered or
\* sliced, or over an entity that cuts its text.
THEOREM SucceedsAlone == Spec => []AloneSucceeds
<1>1. IInv => AloneSucceeds
  BY DEF IInv
<1> QED
  BY <1>1, Invariance, PTL

=============================================================================
