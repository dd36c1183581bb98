---------------------------- MODULE MemoryIndex -----------------------------
(***************************************************************************)
(* Three copies of what is searchable: the rows of table memories, the     *)
(* rows of table embeddings, and the side table of the in-memory vector    *)
(* index.  Blocking tasks of the daemon write them without a common lock:  *)
(* the worker and manual adds insert a memory and embed it, forget_memory  *)
(* and the loops of resolve_conflict retire one, rebuild_indexes throws    *)
(* both derived copies away and embeds every active memory again.  A       *)
(* restart reloads the index from table embeddings.                        *)
(*                                                                         *)
(* One step is one call of a Store or VectorIndex method.  A deleted and a *)
(* superseded memory are both "retired": no code here tells them apart.    *)
(* One embedder model is in use; vectors are left out, and what a search   *)
(* may return is what the side table holds, because get_memory returns     *)
(* retired rows too.                                                       *)
(***************************************************************************)
EXTENDS Integers, FiniteSets

CONSTANTS
    Memories,     \* memory ids
    Tasks,        \* blocking tasks: the worker and RPC calls in progress
    MaxSeq,       \* bound: embeddings rows ever inserted
    MaxRestarts,  \* bound: times the daemon is killed and started again
    MaxFaults     \* bound: store or embedder calls that return an error

ASSUME IndexAssumption ==
    /\ MaxSeq \in Nat
    /\ MaxRestarts \in Nat
    /\ MaxFaults \in Nat

VARIABLES
    row,         \* table memories: "none", "active" or "retired" per id
    embeddings,  \* table embeddings: [seq, mem] records
    lastSeq,     \* the AUTOINCREMENT counter of that table
    side,        \* the index's side table: [seq, mem] records
    op,          \* what each task is doing
    pc,          \* where it is
    mem,         \* the memory it is at: a set of at most one id
    seq,         \* the seq_id insert_embedding gave it
    todo,        \* the memories rebuild_indexes has still to embed
    restarts,    \* times restarted
    faults,      \* errors injected so far
    done,        \* history: memories whose insertion returned Ok
    gone,        \* history: memories whose retirement returned Ok
    raced,       \* history: memories retired while a task was to embed them
    skipped,     \* history: see ClearIndex and CutShort
    alone        \* history: no other task has been busy since this one began

tables == <<row, embeddings, lastSeq>>
history == <<done, gone, raced, skipped>>
vars == <<row, embeddings, lastSeq, side, op, pc, mem, seq, todo, restarts,
          faults, done, gone, raced, skipped, alone>>

Ops == {"none", "insert", "retire", "rebuild"}
PCs == {"idle", "exists", "embed", "index", "unembed", "forget", "clear",
        "list", "loop"}
Point == [seq : 1..MaxSeq, mem : Memories]

TypeOK ==
    /\ row \in [Memories -> {"none", "active", "retired"}]
    /\ embeddings \subseteq Point
    /\ lastSeq \in 0..MaxSeq
    /\ side \subseteq Point
    /\ op \in [Tasks -> Ops]
    /\ pc \in [Tasks -> PCs]
    /\ mem \in [Tasks -> SUBSET Memories]
    /\ seq \in [Tasks -> 0..MaxSeq]
    /\ todo \in [Tasks -> SUBSET Memories]
    /\ restarts \in 0..MaxRestarts
    /\ faults \in 0..MaxFaults
    /\ done \subseteq Memories
    /\ gone \subseteq Memories
    /\ raced \subseteq Memories
    /\ skipped \subseteq Memories
    /\ alone \in [Tasks -> BOOLEAN]

Init ==
    /\ row = [m \in Memories |-> "none"]
    /\ embeddings = {}
    /\ lastSeq = 0
    /\ side = {}
    /\ op = [t \in Tasks |-> "none"]
    /\ pc = [t \in Tasks |-> "idle"]
    /\ mem = [t \in Tasks |-> {}]
    /\ seq = [t \in Tasks |-> 0]
    /\ todo = [t \in Tasks |-> {}]
    /\ restarts = 0
    /\ faults = 0
    /\ done = {}
    /\ gone = {}
    /\ raced = {}
    /\ skipped = {}
    /\ alone = [t \in Tasks |-> FALSE]

-----------------------------------------------------------------------------
Active == {m \in Memories : row[m] = "active"}

\* What VectorIndex::search can hit, and search_memory then return.
Searchable == {p.mem : p \in side}

Rebuilding(t) == op[t] = "rebuild"

\* Task t will still write an embedding of m, if it finds none.
WillEmbed(t, m) ==
    \/ pc[t] \in {"exists", "embed", "index"} /\ m \in mem[t]
    \/ m \in todo[t]

\* An idle task begins operation o at step l with memory set ms.
Begin(t, o, l, ms) ==
    /\ pc[t] = "idle"
    /\ op' = [op EXCEPT ![t] = o]
    /\ pc' = [pc EXCEPT ![t] = l]
    /\ mem' = [mem EXCEPT ![t] = ms]
    /\ alone' = [u \in Tasks |->
                    u = t /\ \A v \in Tasks \ {t} : pc[v] = "idle"]
    /\ UNCHANGED <<seq, todo>>

\* The operations of the tasks in S are over.
End(S) ==
    /\ op' = [t \in Tasks |-> IF t \in S THEN "none" ELSE op[t]]
    /\ pc' = [t \in Tasks |-> IF t \in S THEN "idle" ELSE pc[t]]
    /\ mem' = [t \in Tasks |-> IF t \in S THEN {} ELSE mem[t]]
    /\ seq' = [t \in Tasks |-> IF t \in S THEN 0 ELSE seq[t]]
    /\ todo' = [t \in Tasks |-> IF t \in S THEN {} ELSE todo[t]]
    /\ alone' = [t \in Tasks |-> t \notin S /\ alone[t]]

Goto(t, from, to) == pc[t] = from /\ pc' = [pc EXCEPT ![t] = to]

-----------------------------------------------------------------------------
(* Inserting and embedding: insert_memory_and_link_entities, process_event *)
(* and embed_and_index.                                                    *)

\* insert_memory under a fresh id.
InsertMemory(t, m) ==
    /\ row[m] = "none"
    /\ row' = [row EXCEPT ![m] = "active"]
    /\ Begin(t, "insert", "exists", {m})
    /\ UNCHANGED <<embeddings, lastSeq, side, restarts, faults, history>>

\* embedding_exists: a row of this memory is enough to return.
EmbeddingExists(t) ==
    /\ Goto(t, "exists",
            IF \E r \in embeddings : r.mem \in mem[t] THEN "loop" ELSE "embed")
    /\ UNCHANGED <<tables, side, op, mem, seq, todo, restarts, faults, history,
                   alone>>

\* A bug: the table without AUTOINCREMENT hands out the highest seq_id plus one.
InsertEmbeddingReusingSeq(t) ==
    LET top == CHOOSE n \in 0..MaxSeq :
                   /\ n = 0 \/ \E r \in embeddings : r.seq = n
                   /\ \A r \in embeddings : r.seq <= n
    IN  /\ Goto(t, "embed", "index")
        /\ top < MaxSeq
        /\ lastSeq' = top + 1
        /\ embeddings' = embeddings \cup
                             {[seq |-> top + 1, mem |-> m] : m \in mem[t]}
        /\ seq' = [seq EXCEPT ![t] = top + 1]
        /\ UNCHANGED <<row, side, op, mem, todo, restarts, faults, history,
                       alone>>

\* A bug: the value of the counter before the insert is taken for the row's id.
InsertEmbeddingFromZero(t) ==
    /\ Goto(t, "embed", "index")
    /\ lastSeq < MaxSeq
    /\ lastSeq' = lastSeq + 1
    /\ embeddings' = embeddings \cup
                         {[seq |-> lastSeq, mem |-> m] : m \in mem[t]}
    /\ seq' = [seq EXCEPT ![t] = lastSeq]
    /\ UNCHANGED <<row, side, op, mem, todo, restarts, faults, history, alone>>

\* The embedder, then insert_embedding.
InsertEmbedding(t) ==
    /\ Goto(t, "embed", "index")
    /\ lastSeq < MaxSeq
    /\ lastSeq' = lastSeq + 1
    /\ embeddings' = embeddings \cup
                         {[seq |-> lastSeq + 1, mem |-> m] : m \in mem[t]}
    /\ seq' = [seq EXCEPT ![t] = lastSeq + 1]
    /\ UNCHANGED <<row, side, op, mem, todo, restarts, faults, history, alone>>

\* VectorIndex::insert_with_seq: the side table is a map, so a point under the
\* same seq is replaced.
InsertWithSeq(t) ==
    /\ Goto(t, "index", "loop")
    /\ side' = {p \in side : p.seq # seq[t]} \cup
                   {[seq |-> seq[t], mem |-> m] : m \in mem[t]}
    /\ seq' = [seq EXCEPT ![t] = 0]
    /\ UNCHANGED <<tables, op, mem, todo, restarts, faults, history, alone>>

-----------------------------------------------------------------------------
(* Retiring: forget_memory, and each turn of the loops of resolve_conflict. *)

\* soft_delete_memory or supersede_memory, after the row was found.  Rows are
\* never removed, so the look-up needs no step of its own.
Retire(t, m) ==
    /\ row[m] # "none"
    /\ row' = [row EXCEPT ![m] = "retired"]
    /\ raced' = IF \E u \in Tasks : WillEmbed(u, m) THEN raced \cup {m}
                                                    ELSE raced
    /\ Begin(t, "retire", "unembed", {m})
    /\ UNCHANGED <<embeddings, lastSeq, side, restarts, faults, done, gone,
                   skipped>>

\* A bug: the rows are left for the next rebuild.
DeleteEmbeddingsNot(t) ==
    /\ Goto(t, "unembed", "forget")
    /\ UNCHANGED <<tables, side, op, mem, seq, todo, restarts, faults, history,
                   alone>>

\* delete_embeddings_for_memory.
DeleteEmbeddings(t) ==
    /\ Goto(t, "unembed", "forget")
    /\ embeddings' = {r \in embeddings : r.mem \notin mem[t]}
    /\ UNCHANGED <<row, lastSeq, side, op, mem, seq, todo, restarts, faults,
                   history, alone>>

\* VectorIndex::forget.
Forget(t) ==
    /\ Goto(t, "forget", "loop")
    /\ side' = {p \in side : p.mem \notin mem[t]}
    /\ UNCHANGED <<tables, op, mem, seq, todo, restarts, faults, history, alone>>

-----------------------------------------------------------------------------
(* Rebuilding: rebuild_indexes.                                            *)

\* clear_embeddings.
ClearEmbeddings(t) ==
    /\ Begin(t, "rebuild", "clear", {})
    /\ embeddings' = {}
    /\ UNCHANGED <<row, lastSeq, side, restarts, faults, history>>

\* A bug: the old index is kept and only added to.
ClearIndexNot(t) ==
    /\ Goto(t, "clear", "list")
    /\ UNCHANGED <<tables, side, op, mem, seq, todo, restarts, faults, history,
                   alone>>

\* VectorIndex::clear.  A row that another task wrote since clear_embeddings
\* loses its point here and EmbeddingExists will skip it.
ClearIndex(t) ==
    /\ Goto(t, "clear", "list")
    /\ side' = {}
    /\ skipped' = skipped \cup {r.mem : r \in embeddings}
    /\ UNCHANGED <<tables, op, mem, seq, todo, restarts, faults, done, gone,
                   raced, alone>>

\* list_memories without deleted and superseded ones.
ListMemories(t) ==
    /\ Goto(t, "list", "loop")
    /\ todo' = [todo EXCEPT ![t] = Active]
    /\ mem' = [mem EXCEPT ![t] = {}]
    /\ UNCHANGED <<tables, side, op, seq, restarts, faults, history, alone>>

\* The for loop; the list is ordered by updated_at, which is arbitrary here.
NextMemory(t, m) ==
    /\ m \in todo[t]
    /\ Goto(t, "loop", "exists")
    /\ mem' = [mem EXCEPT ![t] = {m}]
    /\ todo' = [todo EXCEPT ![t] = @ \ {m}]
    /\ UNCHANGED <<tables, side, op, seq, restarts, faults, history, alone>>

-----------------------------------------------------------------------------
\* The call returns Ok.
Return(t) ==
    /\ pc[t] = "loop"
    /\ todo[t] = {}
    /\ End({t})
    /\ done' = IF op[t] = "insert" THEN done \cup mem[t] ELSE done
    /\ gone' = IF op[t] = "retire" THEN gone \cup mem[t] ELSE gone
    /\ UNCHANGED <<tables, side, restarts, faults, raced, skipped>>

\* A rebuild that stops before its end leaves any active memory without a row.
CutShort(S) ==
    skipped' = IF \E t \in S : Rebuilding(t) THEN skipped \cup Active
                                             ELSE skipped

\* A store or embedder call returns an error, and with it the operation.
Fail(t) ==
    /\ pc[t] \in {"list", "exists", "embed", "unembed"}
    /\ faults < MaxFaults
    /\ faults' = faults + 1
    /\ End({t})
    /\ CutShort({t})
    /\ UNCHANGED <<tables, side, restarts, done, gone, raced>>

\* A bug: the index starts empty.
RestartWithoutLoad ==
    /\ restarts < MaxRestarts
    /\ restarts' = restarts + 1
    /\ side' = {}
    /\ End(Tasks)
    /\ CutShort(Tasks)
    /\ UNCHANGED <<tables, faults, done, gone, raced>>

\* The daemon is killed at any point; main runs load_index_from_store before it
\* starts the worker and the server.
Restart ==
    /\ restarts < MaxRestarts
    /\ restarts' = restarts + 1
    /\ side' = embeddings
    /\ End(Tasks)
    /\ CutShort(Tasks)
    /\ UNCHANGED <<tables, faults, done, gone, raced>>

Step(t) ==
    \/ \E m \in Memories : InsertMemory(t, m)
    \/ \E m \in Memories : Retire(t, m)
    \/ \E m \in Memories : NextMemory(t, m)
    \/ EmbeddingExists(t)
    \/ InsertEmbedding(t)
    \/ InsertWithSeq(t)
    \/ DeleteEmbeddings(t)
    \/ Forget(t)
    \/ ClearEmbeddings(t)
    \/ ClearIndex(t)
    \/ ListMemories(t)
    \/ Return(t)
    \/ Fail(t)

Next == Restart \/ \E t \in Tasks : Step(t)

Spec == Init /\ [][Next]_vars

-----------------------------------------------------------------------------
(* What the three copies owe each other.                                   *)

\* A seq_id names one memory for good: a point of the index, a row of the table
\* and a seq_id that a task is about to index never stand for different
\* memories, although rebuild_indexes empties both (AUTOINCREMENT of table
\* embeddings, insert_with_seq).
SeqNamesOneMemory ==
    /\ \A p, q \in embeddings \cup side : p.seq = q.seq => p.mem = q.mem
    /\ \A t \in Tasks : pc[t] = "index" =>
        \A p \in embeddings \cup side : p.seq = seq[t] => p.mem \in mem[t]

\* A memory whose forget_memory (or supersession) returned is not found by a
\* search, not even after a restart, unless it was retired while a task that
\* had yet to embed it was running.
RetiredNotFound ==
    \A m \in gone : m \in Searchable => m \in raced

NoRebuild == \A t \in Tasks : ~Rebuilding(t)

\* A memory whose insertion returned is found as long as it is active, over
\* restarts too, except while a rebuild runs, after one that was cut short, or
\* when its row was written between a rebuild's two clears.
StoredIsFound ==
    NoRebuild => \A m \in done \cap Active : m \in Searchable \cup skipped

\* A rebuild with no other task around repairs everything that races, errors
\* and kills left behind: exactly the active memories are found, each once, and
\* the table holds the same points as the index.
RebuildRepairs ==
    \A t \in Tasks :
        Rebuilding(t) /\ alone[t] /\ pc[t] = "loop" /\ todo[t] = {} =>
            /\ Searchable = Active
            /\ side = embeddings
            /\ Cardinality(side) = Cardinality(Active)
=============================================================================
