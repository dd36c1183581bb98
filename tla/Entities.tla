----------------------------- MODULE Entities -----------------------------
(***************************************************************************)
(* The entity resolver: which entities a new memory is linked to, with two *)
(* kinds of callers that run at the same time, the worker for the events   *)
(* of the log and the handlers of add_memory.                              *)
(*                                                                         *)
(* A call inserts its memory row, resolves its subject and its object,     *)
(* each by a lookup and, when nothing is found, an insert under another    *)
(* lock, scans its text for entities that exist, and links them one by     *)
(* one.  A name is a spelling; what its two lower-case forms are, and      *)
(* whether slicing it by bytes cuts a character, are constants.            *)
(***************************************************************************)
EXTENDS Integers, Sequences

CONSTANTS
    Adds,        \* add_memory calls
    Events,      \* the log: one candidate each, in the worker's order
    Spellings,   \* names as they are written
    Lower,       \* their lower case in Rust (Unicode)
    SqlLower,    \* their lower case in SQLite's LOWER (ASCII letters only)
    Splits,      \* those with a character across byte 2, 3 or 4
    Skipped,     \* those clean_name, the stoplist or the length rule drop
    Subject,     \* per call: a spelling
    Object,      \* per call: a spelling
    Mentions,    \* per call: the lower-case names that are words of its text
    Cut,         \* per call: the lower-case names that begin with a multi-byte
                 \* character and occur in its text inside a word, before any
                 \* place where they are a word of it
    MaxRestarts  \* bound: restarts of the daemon

Logged == {Events[i] : i \in DOMAIN Events}
Calls == Adds \cup Logged

ASSUME EntitiesAssumption ==
    /\ Events \in Seq(Logged)
    /\ \A i, j \in DOMAIN Events : Events[i] = Events[j] => i = j
    /\ Adds \cap Logged = {}
    /\ Splits \subseteq Spellings /\ Skipped \subseteq Spellings
    /\ Splits \cap Skipped = {}  \* clean_name panics before it drops a name
    /\ Subject \in [Calls -> Spellings] /\ Object \in [Calls -> Spellings]
    /\ DOMAIN Lower = Spellings /\ DOMAIN SqlLower = Spellings
    /\ DOMAIN Mentions = Calls /\ DOMAIN Cut = Calls
    /\ \A c \in Calls : Mentions[c] \cap Cut[c] = {}
    /\ MaxRestarts \in Nat

VARIABLES
    ents,      \* the active rows of the entities table
    rows,      \* memories with a row
    links,     \* the memory_entities table
    embedded,  \* memories with an embedding and a point
    call,      \* per call: where it is
    passed,    \* events behind the worker's checkpoint
    worker,    \* the worker task: "running" or "ended"
    restarts,  \* restarts so far
    overlap    \* history: two calls were in progress at the same time

vars == <<ents, rows, links, embedded, call, passed, worker, restarts, overlap>>

\* A memory is named by its call and the attempt that made it, an entity by the
\* memory and the role it was made for.
Memories == Calls \X (1..MaxRestarts + 1)
Roles == {"subject", "object"}
Ids == Memories \X Roles

TypeOK ==
    /\ ents \subseteq [id : Ids, name : Spellings \ Skipped]
    /\ rows \subseteq Memories
    /\ links \subseteq rows \X {e.id : e \in ents}
    /\ embedded \subseteq rows
    /\ call \in [Calls -> [pc : {"idle", "find", "create", "scan", "link", "embed",
                                 "done", "failed"},
                           role : Roles, try : 0..MaxRestarts + 1, ids : SUBSET Ids]]
    /\ passed \in 0..Len(Events)
    /\ worker \in {"running", "ended"}
    /\ restarts \in 0..MaxRestarts
    /\ overlap \in BOOLEAN

NewCall(n) == [pc |-> "idle", role |-> "subject", try |-> n, ids |-> {}]

Init ==
    /\ ents = {}
    /\ rows = {}
    /\ links = {}
    /\ embedded = {}
    /\ call = [c \in Calls |-> NewCall(0)]
    /\ passed = 0
    /\ worker = "running"
    /\ restarts = 0
    /\ overlap = FALSE

Active(c) == call[c].pc \notin {"idle", "done", "failed"}
Memory(c) == <<c, call[c].try>>
Name(c) == IF call[c].role = "subject" THEN Subject[c] ELSE Object[c]

-----------------------------------------------------------------------------
(* The tables.                                                             *)

\* A bug: the needle is compared as it is spelled.
FindExactSpelling(n) == {e \in ents : e.name = n}

\* Store::find_entity_by_name: LOWER(name) against the needle lowered by Rust.
\* No code path gives an entity an alias or deletes one.
FindEntityByName(n) == {e \in ents : SqlLower[e.name] = Lower[n]}

\* A bug: the index is on the name as it is spelled.
TakenExactly(n) == \E e \in ents : e.name = n

\* idx_entities_name_unique_active would refuse the name.
Taken(n) == \E e \in ents : SqlLower[e.name] = SqlLower[n]

-----------------------------------------------------------------------------
(* One call.                                                               *)

\* insert_memory comes first, whatever happens later.
Begin(c) ==
    /\ call[c].pc = "idle"
    /\ rows' = rows \cup {<<c, call[c].try + 1>>}
    /\ call' = [call EXCEPT ![c].pc = "find", ![c].try = @ + 1]
    /\ overlap' = (overlap \/ \E o \in Calls : Active(o))
    /\ UNCHANGED <<ents, links, embedded, passed, worker, restarts>>

\* add_memory: insert_memory_and_link_entities.
BeginAdd(c) == c \in Adds /\ Begin(c)

\* process_event for the first event past the checkpoint.
BeginEvent ==
    /\ worker = "running"
    /\ passed < Len(Events)
    /\ Begin(Events[passed + 1])

\* The record of a call c that goes on with the ids is: to its object, or to the
\* text scan.
After(c, is) ==
    IF call[c].role = "subject"
    THEN [call[c] EXCEPT !.pc = "find", !.role = "object", !.ids = is]
    ELSE [call[c] EXCEPT !.pc = "scan", !.ids = is]

\* A name that is empty, on the stoplist or too short names no entity.
SkipName(c) ==
    /\ call[c].pc = "find"
    /\ Name(c) \in Skipped
    /\ call' = [call EXCEPT ![c] = After(c, call[c].ids)]
    /\ UNCHANGED <<ents, rows, links, embedded, passed, worker, restarts, overlap>>

\* An event's call that did not finish is made again after a restart.
Abandon(c) == IF c \in Logged THEN NewCall(call[c].try)
                              ELSE [call[c] EXCEPT !.pc = "failed"]

\* A panic in resolve.  The handler answers with an error; the worker's
\* drain_once fails, and run returns with the event still in front of the
\* checkpoint.
Panic(c) ==
    /\ call' = [call EXCEPT ![c] = Abandon(c)]
    /\ worker' = IF c \in Logged THEN "ended" ELSE worker
    /\ UNCHANGED <<ents, rows, links, embedded, passed, restarts, overlap>>

\* strip_prefix_ci slices the name by bytes and panics inside a character.
NamePanics(c) ==
    /\ call[c].pc = "find"
    /\ Name(c) \in Splits
    /\ Panic(c)

\* resolve_or_create_entity looks the name up.
Find(c) ==
    LET found == FindEntityByName(Name(c)) IN
    /\ call[c].pc = "find"
    /\ Name(c) \notin Skipped \cup Splits
    /\ call' = [call EXCEPT ![c] =
           IF found = {} THEN [@ EXCEPT !.pc = "create"]
                         ELSE After(c, @.ids \cup {e.id : e \in found})]
    /\ UNCHANGED <<ents, rows, links, embedded, passed, worker, restarts, overlap>>

\* A bug: INSERT OR IGNORE, and the caller keeps the id that was not stored.
CreateOrIgnore(c) ==
    LET id == <<Memory(c), call[c].role>> IN
    /\ call[c].pc = "create"
    /\ ents' = IF Taken(Name(c)) THEN ents
                                 ELSE ents \cup {[id |-> id, name |-> Name(c)]}
    /\ call' = [call EXCEPT ![c] = After(c, @.ids \cup {id})]
    /\ UNCHANGED <<rows, links, embedded, passed, worker, restarts, overlap>>

\* insert_entity, under a lock of its own.
Create(c) ==
    LET id == <<Memory(c), call[c].role>> IN
    /\ call[c].pc = "create"
    /\ ~Taken(Name(c))
    /\ ents' = ents \cup {[id |-> id, name |-> Name(c)]}
    /\ call' = [call EXCEPT ![c] = After(c, @.ids \cup {id})]
    /\ UNCHANGED <<rows, links, embedded, passed, worker, restarts, overlap>>

\* The UNIQUE index refuses it: the call fails with its row inserted and
\* nothing linked or embedded.
CreateFails(c) ==
    /\ call[c].pc = "create"
    /\ Taken(Name(c))
    /\ call' = [call EXCEPT ![c].pc = "failed"]
    /\ UNCHANGED <<ents, rows, links, embedded, passed, worker, restarts, overlap>>

\* contains_whole_word is true, over list_entities.
Mentioned(c) == {e.id : e \in {f \in ents : Lower[f.name] \in Mentions[c]}}

\* contains_whole_word leaves an occurrence inside a word by one byte, and so
\* slices the text inside a character; entities the call holds are not looked for.
ScanCuts(c) == \E e \in ents : e.id \notin call[c].ids /\ Lower[e.name] \in Cut[c]

\* The scan panics, say over an entity named by the first two letters of a longer
\* word of the text, the first with an umlaut.
ScanPanics(c) ==
    /\ call[c].pc = "scan"
    /\ ScanCuts(c)
    /\ Panic(c)

\* Entities that exist and whose name is a word of the text are added.
Scan(c) ==
    /\ call[c].pc = "scan"
    /\ ~ScanCuts(c)
    /\ call' = [call EXCEPT ![c].pc = "link", ![c].ids = @ \cup Mentioned(c)]
    /\ UNCHANGED <<ents, rows, links, embedded, passed, worker, restarts, overlap>>

\* link_memory_entity: INSERT OR IGNORE, one at a time.
Link(c) ==
    /\ call[c].pc = "link"
    /\ \E id \in call[c].ids :
           /\ <<Memory(c), id>> \notin links
           /\ links' = links \cup {<<Memory(c), id>>}
    /\ UNCHANGED <<ents, rows, embedded, call, passed, worker, restarts, overlap>>

\* embed_and_index follows, and the call returns.
Embed(c) ==
    /\ call[c].pc = "link"
    /\ \A id \in call[c].ids : <<Memory(c), id>> \in links
    /\ embedded' = embedded \cup {Memory(c)}
    /\ call' = [call EXCEPT ![c].pc = "done"]
    /\ UNCHANGED <<ents, rows, links, passed, worker, restarts, overlap>>

CallStep(c) ==
    \/ SkipName(c) \/ NamePanics(c) \/ Find(c) \/ Create(c) \/ CreateFails(c)
    \/ ScanPanics(c) \/ Scan(c) \/ Link(c) \/ Embed(c)

-----------------------------------------------------------------------------
(* The worker and the daemon around the calls.                             *)

\* A bug: an event that failed is not passed.
CheckpointOnlyDone ==
    /\ worker = "running"
    /\ passed < Len(Events)
    /\ call[Events[passed + 1]].pc = "done"
    /\ passed' = passed + 1
    /\ UNCHANGED <<ents, rows, links, embedded, call, worker, restarts, overlap>>

\* set_worker_checkpoint, after the event was processed or its failure recorded.
Checkpoint ==
    /\ worker = "running"
    /\ passed < Len(Events)
    /\ call[Events[passed + 1]].pc \in {"done", "failed"}
    /\ passed' = passed + 1
    /\ UNCHANGED <<ents, rows, links, embedded, call, worker, restarts, overlap>>

\* The daemon ends and is started again: calls in progress are cut off, and the
\* worker begins again with the first event past the checkpoint.
Restart ==
    /\ restarts < MaxRestarts
    /\ restarts' = restarts + 1
    /\ worker' = "running"
    /\ call' = [c \in Calls |->
           CASE Active(c) -> Abandon(c)
             [] passed < Len(Events) /\ c = Events[passed + 1] -> NewCall(call[c].try)
             [] OTHER -> call[c]]
    /\ UNCHANGED <<ents, rows, links, embedded, passed, overlap>>

WorkerStep == BeginEvent \/ Checkpoint

Next ==
    \/ \E c \in Adds : BeginAdd(c)
    \/ \E c \in Calls : CallStep(c)
    \/ WorkerStep
    \/ Restart

Spec == Init /\ [][Next]_vars

\* Calls and the worker are scheduled; clients and restarts are not owed.
FairSpec ==
    /\ Spec
    /\ \A c \in Calls : WF_vars(CallStep(c))
    /\ WF_vars(WorkerStep)

-----------------------------------------------------------------------------
(* What the callers may rely on.                                           *)

\* SQLite and Rust agree on the lower case of n.
Foldable(n) == SqlLower[n] = Lower[n]

\* The names of call c that name entities.
Resolvable(c) == {Subject[c], Object[c]} \ Skipped

\* memories_for_entity.
MemoriesFor(es) == {m \in rows : \E e \in es : <<m, e.id>> \in links}

\* entity_page: lookup by name, and what is linked to it.
Page(n) == MemoriesFor(FindEntityByName(n))

\* The memory of a call that returned is on the entity pages of its subject and
\* its object, whatever other calls did meanwhile, unless SQLite cannot lower
\* the name (resolve, link_memory_entity, entity_page::build).
OnItsPages ==
    \A c \in Calls : call[c].pc = "done" =>
        \A n \in Resolvable(c) : Foldable(n) => Memory(c) \in Page(n)

\* One entity per name without regard to case, under concurrent find-or-create,
\* unless SQLite cannot lower the name of one of them.
OneEntityPerName ==
    \A e, f \in ents :
        /\ Lower[e.name] = Lower[f.name]
        /\ Foldable(e.name) /\ Foldable(f.name)
        => e = f

\* A call fails only because it overlapped another one, because of a name that
\* SQLite cannot lower or that cannot be sliced, or because an entity that is not
\* one of its own cuts its text (resolve_or_create_entity, contains_whole_word).
AloneSucceeds ==
    \A c \in Calls : call[c].pc = "failed" /\ restarts = 0 /\ ~overlap =>
        \/ \E n \in Resolvable(c) : ~Foldable(n) \/ n \in Splits
        \/ ScanCuts(c)

\* No name of event i can make its call panic, and no entity ever cuts its text.
NeverPanics(i) ==
    /\ Resolvable(Events[i]) \cap Splits = {}
    /\ [](\A e \in ents : Lower[e.name] \notin Cut[Events[i]])

\* An event is passed by the worker, whether it succeeds or fails, if neither it
\* nor an event in front of it panics (drain_once_sync).
EventsPassed ==
    \A i \in DOMAIN Events : (\A j \in 1..i : NeverPanics(j)) => <>(passed >= i)

\* "A failed extraction logs to worker_failures and doesn't block subsequent
\* events": the worker passes every event.
FailureIsolated == <>(passed = Len(Events))
===============================================================================
