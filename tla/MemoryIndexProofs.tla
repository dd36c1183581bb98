-------------------------- MODULE MemoryIndexProofs --------------------------
(***************************************************************************)
(* Proofs about the three copies of what is searchable, for any number of  *)
(* memories, tasks, restarts and errors.                                   *)
(***************************************************************************)
EXTENDS MemoryIndex, FiniteSetTheorems, TLAPS

\* What an operation can be at, and the memories it holds.
ShapeInv ==
    /\ \A p \in embeddings \cup side : row[p.mem] # "none"
    /\ \A t \in Tasks :
           /\ \A m, n \in mem[t] : m = n
           /\ \A m \in mem[t] \cup todo[t] : row[m] # "none"
           /\ op[t] = "none" <=> pc[t] = "idle"
           /\ op[t] = "none" => mem[t] = {}
           /\ op[t] = "insert" => pc[t] \in {"exists", "embed", "index", "loop"}
           /\ op[t] = "retire" => pc[t] \in {"unembed", "forget", "loop"}
           /\ op[t] = "rebuild" =>
                  pc[t] \in {"clear", "list", "loop", "exists", "embed", "index"}
           /\ op[t] # "rebuild" => todo[t] = {}

\* Ids are fresh: nobody else inserts a memory, and no one before did.
FreshInv ==
    /\ \A m \in done : row[m] # "none"
    /\ \A t \in Tasks : op[t] = "insert" =>
           /\ \A m \in mem[t] : m \notin done
           /\ \A u \in Tasks, m \in mem[t] : op[u] = "insert" /\ m \in mem[u] => t = u

\* Every seq_id in use was handed out, and the one a task is about to index is
\* no other task's.
SeqInv ==
    /\ \A p \in embeddings \cup side : p.seq <= lastSeq
    /\ \A t \in Tasks : pc[t] = "index" => seq[t] \in 1..lastSeq
    /\ \A t, u \in Tasks : pc[t] = "index" /\ pc[u] = "index" /\ seq[t] = seq[u] => t = u

\* No row and no point of m is left.
NoRow(m) == \A p \in embeddings : p.mem # m
NoPoint(m) == \A p \in side : p.mem # m

\* A memory that was retired while nobody was to embed it is never embedded again.
QuietInv ==
    \A m \in Memories : row[m] = "retired" /\ m \notin raced =>
        \A t \in Tasks : ~WillEmbed(t, m)

\* So its rows are gone once a retiring task deleted them, and its points once it
\* had the index forget them.
GoneInv ==
    /\ \A m \in gone : row[m] = "retired" /\ (m \notin raced => NoRow(m) /\ NoPoint(m))
    /\ \A t \in Tasks : op[t] = "retire" =>
           \A m \in mem[t] :
               /\ row[m] = "retired"
               /\ m \notin raced =>
                      /\ pc[t] \in {"forget", "loop"} => NoRow(m)
                      /\ pc[t] = "loop" => NoPoint(m)

\* A rebuild that will still embed memory m, unless it finds a row.
Pending(m) ==
    \E t \in Tasks :
        /\ Rebuilding(t)
        /\ \/ pc[t] \in {"clear", "list"}
           \/ pc[t] \in {"exists", "embed"} /\ m \in mem[t]
           \/ m \in todo[t]

\* The insertion of m has come as far as its row.
Stored(m) ==
    \/ m \in done
    \/ \E t \in Tasks : op[t] = "insert" /\ pc[t] \in {"index", "loop"} /\ m \in mem[t]

\* An active memory that is stored has a row or will be given one, and if it has
\* one it has a point or a task is about to index it.
FoundInv ==
    \A m \in Active \ skipped :
        /\ Stored(m) => ~NoRow(m) \/ Pending(m)
        /\ ~NoRow(m) => \/ ~NoPoint(m)
                        \/ \E t \in Tasks : pc[t] = "index" /\ m \in mem[t]

\* A rebuild with no other task around has a row of every active memory but
\* those it has still to embed, one each, and the index follows the table.
RebuildInv ==
    \A t \in Tasks : alone[t] =>
        /\ \A u \in Tasks \ {t} : pc[u] = "idle"
        /\ op[t] = "rebuild" =>
               /\ pc[t] \in {"clear", "list"} => embeddings = {}
               /\ pc[t] = "list" => side = {}
               /\ pc[t] \notin {"clear", "list"} =>
                      /\ embeddings = side \cup
                             {p \in Point : pc[t] = "index" /\ p.seq = seq[t] /\ p.mem \in mem[t]}
                      /\ \A p, q \in embeddings : p.mem = q.mem => p = q
                      /\ \A p \in embeddings : p.mem \in Active \ todo[t]
                      /\ todo[t] \subseteq Active
                      /\ pc[t] \in {"exists", "embed"} =>
                             \A m \in mem[t] : NoRow(m) /\ m \in Active \ todo[t]
                      /\ \A m \in Active \ todo[t] :
                             ~NoRow(m) \/ (pc[t] \in {"exists", "embed"} /\ m \in mem[t])

IInv ==
    /\ TypeOK /\ ShapeInv /\ FreshInv
    /\ SeqInv /\ SeqNamesOneMemory
    /\ QuietInv /\ GoneInv /\ FoundInv /\ RebuildInv

-----------------------------------------------------------------------------
(* Types and shapes.                                                       *)

LEMMA TypeInit == Init => TypeOK
BY IndexAssumption DEF Init, TypeOK, Ops, PCs, Point

\* A seq_id is in range because it is one that was handed out.
LEMMA TypeStep ==
    ASSUME TypeOK, SeqInv, [Next]_vars
    PROVE  TypeOK'
<1> USE DEF tables, history
<1>0. MaxSeq \in Nat /\ MaxRestarts \in Nat /\ MaxFaults \in Nat
  BY IndexAssumption
<1>1. ASSUME NEW t \in Tasks, NEW m \in Memories, InsertMemory(t, m)
      PROVE  TypeOK'
  BY <1>1 DEF InsertMemory, Begin, TypeOK, Ops, PCs
<1>2. ASSUME NEW t \in Tasks, NEW m \in Memories, Retire(t, m)
      PROVE  TypeOK'
  BY <1>2 DEF Retire, Begin, TypeOK, Ops, PCs
<1>3. ASSUME NEW t \in Tasks, NEW m \in Memories, NextMemory(t, m)
      PROVE  TypeOK'
  BY <1>3 DEF NextMemory, Goto, TypeOK, PCs
<1>4. ASSUME NEW t \in Tasks, EmbeddingExists(t) PROVE TypeOK'
  BY <1>4 DEF EmbeddingExists, Goto, TypeOK, PCs
<1>5. ASSUME NEW t \in Tasks, InsertEmbedding(t) PROVE TypeOK'
  BY <1>5, <1>0 DEF InsertEmbedding, Goto, TypeOK, PCs, Point
<1>6. ASSUME NEW t \in Tasks, InsertWithSeq(t) PROVE TypeOK'
  BY <1>6, <1>0 DEF InsertWithSeq, Goto, TypeOK, SeqInv, PCs, Point
<1>7. ASSUME NEW t \in Tasks, DeleteEmbeddings(t) PROVE TypeOK'
  BY <1>7 DEF DeleteEmbeddings, Goto, TypeOK, PCs
<1>8. ASSUME NEW t \in Tasks, Forget(t) PROVE TypeOK'
  BY <1>8 DEF Forget, Goto, TypeOK, PCs
<1>9. ASSUME NEW t \in Tasks, ClearEmbeddings(t) PROVE TypeOK'
  BY <1>9 DEF ClearEmbeddings, Begin, TypeOK, Ops, PCs
<1>10. ASSUME NEW t \in Tasks, ClearIndex(t) PROVE TypeOK'
  BY <1>10 DEF ClearIndex, Goto, TypeOK, PCs, Point
<1>11. ASSUME NEW t \in Tasks, ListMemories(t) PROVE TypeOK'
  BY <1>11 DEF ListMemories, Goto, TypeOK, PCs, Active
<1>12. ASSUME NEW t \in Tasks, Return(t) PROVE TypeOK'
  BY <1>12, <1>0 DEF Return, End, TypeOK, Ops, PCs
<1>13. ASSUME NEW t \in Tasks, Fail(t) PROVE TypeOK'
  BY <1>13, <1>0 DEF Fail, End, CutShort, TypeOK, Ops, PCs, Active
<1>14. CASE Restart
  BY <1>14, <1>0 DEF Restart, End, CutShort, TypeOK, Ops, PCs, Active
<1>15. CASE UNCHANGED vars
  BY <1>15 DEF vars, TypeOK
<1> QED
  BY <1>1, <1>2, <1>3, <1>4, <1>5, <1>6, <1>7, <1>8, <1>9, <1>10,
     <1>11, <1>12, <1>13, <1>14, <1>15 DEF Next, Step

\* Every operation stays within its places.
LEMMA ShapeStep ==
    ASSUME TypeOK, ShapeInv, [Next]_vars
    PROVE  ShapeInv'
<1> USE DEF tables, history
<1>1. ASSUME NEW t \in Tasks, NEW m \in Memories, InsertMemory(t, m)
      PROVE  ShapeInv'
  BY <1>1 DEF InsertMemory, Begin, TypeOK, ShapeInv
<1>2. ASSUME NEW t \in Tasks, NEW m \in Memories, Retire(t, m)
      PROVE  ShapeInv'
  BY <1>2 DEF Retire, Begin, TypeOK, ShapeInv
<1>3. ASSUME NEW t \in Tasks, NEW m \in Memories, NextMemory(t, m)
      PROVE  ShapeInv'
  BY <1>3 DEF NextMemory, Goto, ShapeInv
<1>4. ASSUME NEW t \in Tasks, EmbeddingExists(t) PROVE ShapeInv'
  BY <1>4 DEF EmbeddingExists, Goto, ShapeInv
<1>5. ASSUME NEW t \in Tasks, InsertEmbedding(t) PROVE ShapeInv'
  BY <1>5 DEF InsertEmbedding, Goto, ShapeInv
<1>6. ASSUME NEW t \in Tasks, InsertWithSeq(t) PROVE ShapeInv'
  BY <1>6 DEF InsertWithSeq, Goto, ShapeInv
<1>7. ASSUME NEW t \in Tasks, DeleteEmbeddings(t) PROVE ShapeInv'
  BY <1>7 DEF DeleteEmbeddings, Goto, ShapeInv
<1>8. ASSUME NEW t \in Tasks, Forget(t) PROVE ShapeInv'
  BY <1>8 DEF Forget, Goto, ShapeInv
<1>9. ASSUME NEW t \in Tasks, ClearEmbeddings(t) PROVE ShapeInv'
  BY <1>9 DEF ClearEmbeddings, Begin, TypeOK, ShapeInv
<1>10. ASSUME NEW t \in Tasks, ClearIndex(t) PROVE ShapeInv'
  BY <1>10 DEF ClearIndex, Goto, ShapeInv
<1>11. ASSUME NEW t \in Tasks, ListMemories(t) PROVE ShapeInv'
  BY <1>11 DEF ListMemories, Goto, TypeOK, Ops, ShapeInv, Active
<1>12. ASSUME NEW t \in Tasks, Return(t) PROVE ShapeInv'
  BY <1>12 DEF Return, End, ShapeInv
<1>13. ASSUME NEW t \in Tasks, Fail(t) PROVE ShapeInv'
  BY <1>13 DEF Fail, End, ShapeInv
<1>14. CASE Restart
  BY <1>14 DEF Restart, End, ShapeInv
<1>15. CASE UNCHANGED vars
  BY <1>15 DEF vars, TypeOK, ShapeInv
<1> QED
  BY <1>1, <1>2, <1>3, <1>4, <1>5, <1>6, <1>7, <1>8, <1>9, <1>10,
     <1>11, <1>12, <1>13, <1>14, <1>15 DEF Next, Step

\* An id is inserted once.
LEMMA FreshStep ==
    ASSUME TypeOK, ShapeInv, FreshInv, [Next]_vars
    PROVE  FreshInv'
<1> USE DEF tables, history
<1>1. ASSUME NEW t \in Tasks, NEW m \in Memories, InsertMemory(t, m)
      PROVE  FreshInv'
  BY <1>1 DEF InsertMemory, Begin, ShapeInv, FreshInv
<1>2. ASSUME NEW t \in Tasks, NEW m \in Memories, Retire(t, m)
      PROVE  FreshInv'
  BY <1>2 DEF Retire, Begin, TypeOK, FreshInv
<1>3. ASSUME NEW t \in Tasks, NEW m \in Memories, NextMemory(t, m)
      PROVE  FreshInv'
  BY <1>3 DEF NextMemory, ShapeInv, FreshInv
<1>4. ASSUME NEW t \in Tasks, EmbeddingExists(t) PROVE FreshInv'
  BY <1>4 DEF EmbeddingExists, FreshInv
<1>5. ASSUME NEW t \in Tasks, InsertEmbedding(t) PROVE FreshInv'
  BY <1>5 DEF InsertEmbedding, FreshInv
<1>6. ASSUME NEW t \in Tasks, InsertWithSeq(t) PROVE FreshInv'
  BY <1>6 DEF InsertWithSeq, FreshInv
<1>7. ASSUME NEW t \in Tasks, DeleteEmbeddings(t) PROVE FreshInv'
  BY <1>7 DEF DeleteEmbeddings, FreshInv
<1>8. ASSUME NEW t \in Tasks, Forget(t) PROVE FreshInv'
  BY <1>8 DEF Forget, FreshInv
<1>9. ASSUME NEW t \in Tasks, ClearEmbeddings(t) PROVE FreshInv'
  BY <1>9 DEF ClearEmbeddings, Begin, FreshInv
<1>10. ASSUME NEW t \in Tasks, ClearIndex(t) PROVE FreshInv'
  BY <1>10 DEF ClearIndex, FreshInv
<1>11. ASSUME NEW t \in Tasks, ListMemories(t) PROVE FreshInv'
  BY <1>11 DEF ListMemories, FreshInv
<1>12. ASSUME NEW t \in Tasks, Return(t) PROVE FreshInv'
  BY <1>12 DEF Return, End, ShapeInv, FreshInv
<1>13. ASSUME NEW t \in Tasks, Fail(t) PROVE FreshInv'
  BY <1>13 DEF Fail, End, FreshInv
<1>14. CASE Restart
  BY <1>14 DEF Restart, End, FreshInv
<1>15. CASE UNCHANGED vars
  BY <1>15 DEF vars, FreshInv
<1> QED
  BY <1>1, <1>2, <1>3, <1>4, <1>5, <1>6, <1>7, <1>8, <1>9, <1>10,
     <1>11, <1>12, <1>13, <1>14, <1>15 DEF Next, Step

-----------------------------------------------------------------------------
(* Sequence numbers.                                                       *)

\* Only InsertEmbedding hands out a number, and it is a new one.
LEMMA SeqStep ==
    ASSUME TypeOK, ShapeInv, SeqInv, SeqNamesOneMemory, [Next]_vars
    PROVE  SeqInv' /\ SeqNamesOneMemory'
<1> USE DEF tables, history
<1>1. ASSUME NEW t \in Tasks, NEW m \in Memories, InsertMemory(t, m)
      PROVE  SeqInv' /\ SeqNamesOneMemory'
  BY <1>1 DEF InsertMemory, Begin, SeqInv, SeqNamesOneMemory
<1>2. ASSUME NEW t \in Tasks, NEW m \in Memories, Retire(t, m)
      PROVE  SeqInv' /\ SeqNamesOneMemory'
  BY <1>2 DEF Retire, Begin, SeqInv, SeqNamesOneMemory
<1>3. ASSUME NEW t \in Tasks, NEW m \in Memories, NextMemory(t, m)
      PROVE  SeqInv' /\ SeqNamesOneMemory'
  BY <1>3 DEF NextMemory, Goto, SeqInv, SeqNamesOneMemory
<1>4. ASSUME NEW t \in Tasks, EmbeddingExists(t)
      PROVE  SeqInv' /\ SeqNamesOneMemory'
  BY <1>4 DEF EmbeddingExists, Goto, SeqInv, SeqNamesOneMemory
<1>5. ASSUME NEW t \in Tasks, InsertEmbedding(t)
      PROVE  SeqInv' /\ SeqNamesOneMemory'
  BY <1>5 DEF InsertEmbedding, Goto, TypeOK, ShapeInv, Point, SeqInv, SeqNamesOneMemory
<1>6. ASSUME NEW t \in Tasks, InsertWithSeq(t)
      PROVE  SeqInv' /\ SeqNamesOneMemory'
  BY <1>6 DEF InsertWithSeq, Goto, TypeOK, ShapeInv, SeqInv, SeqNamesOneMemory
<1>7. ASSUME NEW t \in Tasks, DeleteEmbeddings(t)
      PROVE  SeqInv' /\ SeqNamesOneMemory'
  BY <1>7 DEF DeleteEmbeddings, Goto, SeqInv, SeqNamesOneMemory
<1>8. ASSUME NEW t \in Tasks, Forget(t)
      PROVE  SeqInv' /\ SeqNamesOneMemory'
  BY <1>8 DEF Forget, Goto, SeqInv, SeqNamesOneMemory
<1>9. ASSUME NEW t \in Tasks, ClearEmbeddings(t)
      PROVE  SeqInv' /\ SeqNamesOneMemory'
  BY <1>9 DEF ClearEmbeddings, Begin, SeqInv, SeqNamesOneMemory
<1>10. ASSUME NEW t \in Tasks, ClearIndex(t)
      PROVE  SeqInv' /\ SeqNamesOneMemory'
  BY <1>10 DEF ClearIndex, Goto, SeqInv, SeqNamesOneMemory
<1>11. ASSUME NEW t \in Tasks, ListMemories(t)
      PROVE  SeqInv' /\ SeqNamesOneMemory'
  BY <1>11 DEF ListMemories, Goto, SeqInv, SeqNamesOneMemory
<1>12. ASSUME NEW t \in Tasks, Return(t)
      PROVE  SeqInv' /\ SeqNamesOneMemory'
  BY <1>12 DEF Return, End, SeqInv, SeqNamesOneMemory
<1>13. ASSUME NEW t \in Tasks, Fail(t)
      PROVE  SeqInv' /\ SeqNamesOneMemory'
  BY <1>13 DEF Fail, End, SeqInv, SeqNamesOneMemory
<1>14. CASE Restart
  BY <1>14 DEF Restart, End, SeqInv, SeqNamesOneMemory
<1>15. CASE UNCHANGED vars
  BY <1>15 DEF vars, SeqInv, SeqNamesOneMemory
<1> QED
  BY <1>1, <1>2, <1>3, <1>4, <1>5, <1>6, <1>7, <1>8, <1>9, <1>10,
     <1>11, <1>12, <1>13, <1>14, <1>15 DEF Next, Step

-----------------------------------------------------------------------------
(* Retired memories.                                                       *)

\* Whoever is to embed a memory was to when it was retired.
LEMMA QuietStep ==
    ASSUME TypeOK, ShapeInv, QuietInv, [Next]_vars
    PROVE  QuietInv'
<1> USE DEF tables, history
<1>1. ASSUME NEW t \in Tasks, NEW m \in Memories, InsertMemory(t, m)
      PROVE  QuietInv'
  BY <1>1 DEF InsertMemory, Begin, TypeOK, QuietInv, WillEmbed
<1>2. ASSUME NEW t \in Tasks, NEW m \in Memories, Retire(t, m)
      PROVE  QuietInv'
  BY <1>2 DEF Retire, Begin, QuietInv, WillEmbed
<1>3. ASSUME NEW t \in Tasks, NEW m \in Memories, NextMemory(t, m)
      PROVE  QuietInv'
  BY <1>3 DEF NextMemory, Goto, TypeOK, QuietInv, WillEmbed
<1>4. ASSUME NEW t \in Tasks, EmbeddingExists(t) PROVE QuietInv'
  BY <1>4 DEF EmbeddingExists, Goto, QuietInv, WillEmbed
<1>5. ASSUME NEW t \in Tasks, InsertEmbedding(t) PROVE QuietInv'
  BY <1>5 DEF InsertEmbedding, Goto, QuietInv, WillEmbed
<1>6. ASSUME NEW t \in Tasks, InsertWithSeq(t) PROVE QuietInv'
  BY <1>6 DEF InsertWithSeq, Goto, QuietInv, WillEmbed
<1>7. ASSUME NEW t \in Tasks, DeleteEmbeddings(t) PROVE QuietInv'
  BY <1>7 DEF DeleteEmbeddings, Goto, QuietInv, WillEmbed
<1>8. ASSUME NEW t \in Tasks, Forget(t) PROVE QuietInv'
  BY <1>8 DEF Forget, Goto, QuietInv, WillEmbed
<1>9. ASSUME NEW t \in Tasks, ClearEmbeddings(t) PROVE QuietInv'
  BY <1>9 DEF ClearEmbeddings, Begin, QuietInv, WillEmbed
<1>10. ASSUME NEW t \in Tasks, ClearIndex(t) PROVE QuietInv'
  BY <1>10 DEF ClearIndex, Goto, QuietInv, WillEmbed
<1>11. ASSUME NEW t \in Tasks, ListMemories(t) PROVE QuietInv'
  BY <1>11 DEF ListMemories, Goto, QuietInv, WillEmbed, Active
<1>12. ASSUME NEW t \in Tasks, Return(t) PROVE QuietInv'
  BY <1>12 DEF Return, End, QuietInv, WillEmbed
<1>13. ASSUME NEW t \in Tasks, Fail(t) PROVE QuietInv'
  BY <1>13 DEF Fail, End, QuietInv, WillEmbed
<1>14. CASE Restart
  BY <1>14 DEF Restart, End, QuietInv, WillEmbed
<1>15. CASE UNCHANGED vars
  BY <1>15 DEF vars, QuietInv, WillEmbed
<1> QED
  BY <1>1, <1>2, <1>3, <1>4, <1>5, <1>6, <1>7, <1>8, <1>9, <1>10,
     <1>11, <1>12, <1>13, <1>14, <1>15 DEF Next, Step

\* A retiring task leaves no row and no point behind, and none comes back.
LEMMA GoneStep ==
    ASSUME TypeOK, ShapeInv, QuietInv, GoneInv, [Next]_vars
    PROVE  GoneInv'
<1> USE DEF tables, history
<1>1. ASSUME NEW t \in Tasks, NEW m \in Memories, InsertMemory(t, m)
      PROVE  GoneInv'
  BY <1>1 DEF InsertMemory, Begin, TypeOK, GoneInv, NoRow, NoPoint
<1>2. ASSUME NEW t \in Tasks, NEW m \in Memories, Retire(t, m)
      PROVE  GoneInv'
  BY <1>2 DEF Retire, Begin, TypeOK, GoneInv, NoRow, NoPoint
<1>3. ASSUME NEW t \in Tasks, NEW m \in Memories, NextMemory(t, m)
      PROVE  GoneInv'
  BY <1>3 DEF NextMemory, Goto, ShapeInv, GoneInv, NoRow, NoPoint
<1>4. ASSUME NEW t \in Tasks, EmbeddingExists(t) PROVE GoneInv'
  BY <1>4 DEF EmbeddingExists, Goto, ShapeInv, GoneInv, NoRow, NoPoint
<1>5. ASSUME NEW t \in Tasks, InsertEmbedding(t) PROVE GoneInv'
  BY <1>5 DEF InsertEmbedding, Goto, TypeOK, QuietInv, WillEmbed, GoneInv, NoRow,
              NoPoint
<1>6. ASSUME NEW t \in Tasks, InsertWithSeq(t) PROVE GoneInv'
  BY <1>6 DEF InsertWithSeq, Goto, TypeOK, QuietInv, WillEmbed, GoneInv, NoRow, NoPoint
<1>7. ASSUME NEW t \in Tasks, DeleteEmbeddings(t) PROVE GoneInv'
  BY <1>7 DEF DeleteEmbeddings, Goto, GoneInv, NoRow, NoPoint
<1>8. ASSUME NEW t \in Tasks, Forget(t) PROVE GoneInv'
  BY <1>8 DEF Forget, Goto, GoneInv, NoRow, NoPoint
<1>9. ASSUME NEW t \in Tasks, ClearEmbeddings(t) PROVE GoneInv'
  BY <1>9 DEF ClearEmbeddings, Begin, GoneInv, NoRow, NoPoint
<1>10. ASSUME NEW t \in Tasks, ClearIndex(t) PROVE GoneInv'
  BY <1>10 DEF ClearIndex, Goto, GoneInv, NoRow, NoPoint
<1>11. ASSUME NEW t \in Tasks, ListMemories(t) PROVE GoneInv'
  BY <1>11 DEF ListMemories, Goto, TypeOK, GoneInv, NoRow, NoPoint
<1>12. ASSUME NEW t \in Tasks, Return(t) PROVE GoneInv'
  BY <1>12 DEF Return, End, GoneInv, NoRow, NoPoint
<1>13. ASSUME NEW t \in Tasks, Fail(t) PROVE GoneInv'
  BY <1>13 DEF Fail, End, GoneInv, NoRow, NoPoint
<1>14. CASE Restart
  BY <1>14 DEF Restart, End, GoneInv, NoRow, NoPoint
<1>15. CASE UNCHANGED vars
  BY <1>15 DEF vars, GoneInv, NoRow, NoPoint
<1> QED
  BY <1>1, <1>2, <1>3, <1>4, <1>5, <1>6, <1>7, <1>8, <1>9, <1>10,
     <1>11, <1>12, <1>13, <1>14, <1>15 DEF Next, Step

-----------------------------------------------------------------------------
(* Active memories.                                                        *)

\* No step takes row or point from a stored memory without a rebuild to mend it.
LEMMA FoundStep ==
    ASSUME TypeOK, ShapeInv, FreshInv, SeqInv, SeqNamesOneMemory, GoneInv,
           FoundInv, [Next]_vars
    PROVE  FoundInv'
<1> USE DEF tables, history
<1>1. ASSUME NEW t \in Tasks, NEW m \in Memories, InsertMemory(t, m)
      PROVE  FoundInv'
  <2> SUFFICES ASSUME NEW x \in Active', x \notin skipped'
               PROVE  /\ Stored(x)' => ~NoRow(x)' \/ Pending(x)'
                      /\ ~NoRow(x)' => \/ ~NoPoint(x)'
                                       \/ \E u \in Tasks : pc'[u] = "index" /\ x \in mem'[u]
    BY DEF FoundInv
  <2>1. CASE x = m
    <3>1. ~Stored(x)'
      BY <1>1, <2>1 DEF InsertMemory, Begin, Stored, TypeOK, ShapeInv, FreshInv
    <3>2. NoRow(x)'
      BY <1>1, <2>1 DEF InsertMemory, Begin, NoRow, ShapeInv
    <3> QED
      BY <3>1, <3>2
  <2>2. CASE x # m
    <3>1. x \in Active /\ x \notin skipped
      BY <1>1, <2>2 DEF InsertMemory, Active, TypeOK
    <3>2. \A u \in Tasks : op[u] \in {"insert", "rebuild"} \/ pc[u] = "index" => u # t
      BY <1>1 DEF InsertMemory, Begin, TypeOK, ShapeInv
    <3>3. Stored(x)' => Stored(x)
      BY <1>1, <2>2 DEF InsertMemory, Begin, Stored, TypeOK
    <3>4. Pending(x) => Pending(x)'
      BY <1>1, <3>2 DEF InsertMemory, Begin, Pending, Rebuilding, TypeOK
    <3>5. (\E u \in Tasks : pc[u] = "index" /\ x \in mem[u])
             => \E u \in Tasks : pc'[u] = "index" /\ x \in mem'[u]
      BY <1>1, <3>2 DEF InsertMemory, Begin, TypeOK
    <3>6. NoRow(x)' = NoRow(x) /\ NoPoint(x)' = NoPoint(x)
      BY <1>1 DEF InsertMemory, NoRow, NoPoint
    <3> QED
      BY <3>1, <3>3, <3>4, <3>5, <3>6 DEF FoundInv
  <2> QED
    BY <2>1, <2>2
<1>2. ASSUME NEW t \in Tasks, NEW m \in Memories, Retire(t, m)
      PROVE  FoundInv'
  BY <1>2 DEF Retire, Begin, ShapeInv, FoundInv, Pending, Stored, Rebuilding, NoRow,
              NoPoint, Active
<1>3. ASSUME NEW t \in Tasks, NEW m \in Memories, NextMemory(t, m)
      PROVE  FoundInv'
  BY <1>3 DEF NextMemory, Goto, TypeOK, FoundInv, Pending, Stored, Rebuilding, NoRow,
              NoPoint, Active
<1>4. ASSUME NEW t \in Tasks, EmbeddingExists(t) PROVE FoundInv'
  BY <1>4 DEF EmbeddingExists, Goto, ShapeInv, FoundInv, Pending, Stored, Rebuilding,
              NoRow, NoPoint, Active
<1>5. ASSUME NEW t \in Tasks, InsertEmbedding(t) PROVE FoundInv'
  <2> SUFFICES ASSUME NEW x \in Active', x \notin skipped'
               PROVE  /\ Stored(x)' => ~NoRow(x)' \/ Pending(x)'
                      /\ ~NoRow(x)' => \/ ~NoPoint(x)'
                                       \/ \E u \in Tasks : pc'[u] = "index" /\ x \in mem'[u]
    BY DEF FoundInv
  <2>1. x \in Active /\ x \notin skipped
    BY <1>5 DEF InsertEmbedding, Active
  <2>2. CASE x \in mem[t]
    <3>1. ~NoRow(x)' /\ pc'[t] = "index" /\ x \in mem'[t]
      <4>1. [seq |-> lastSeq + 1, mem |-> x] \in embeddings'
        BY <1>5, <2>2 DEF InsertEmbedding
      <4> QED
        BY <1>5, <2>2, <4>1 DEF InsertEmbedding, Goto, NoRow, TypeOK
    <3> QED
      BY <3>1
  <2>3. CASE x \notin mem[t]
    <3>1. NoRow(x)' = NoRow(x) /\ NoPoint(x)' = NoPoint(x)
      BY <1>5, <2>3 DEF InsertEmbedding, NoRow, NoPoint
    <3>2. Stored(x)' => Stored(x)
      BY <1>5, <2>3 DEF InsertEmbedding, Goto, Stored, TypeOK
    <3>3. Pending(x) => Pending(x)'
      BY <1>5, <2>3 DEF InsertEmbedding, Goto, Pending, Rebuilding, TypeOK
    <3>4. (\E u \in Tasks : pc[u] = "index" /\ x \in mem[u])
             => \E u \in Tasks : pc'[u] = "index" /\ x \in mem'[u]
      BY <1>5 DEF InsertEmbedding, Goto, TypeOK
    <3> QED
      BY <2>1, <3>1, <3>2, <3>3, <3>4 DEF FoundInv
  <2> QED
    BY <2>2, <2>3
<1>6. ASSUME NEW t \in Tasks, InsertWithSeq(t) PROVE FoundInv'
  <2> SUFFICES ASSUME NEW x \in Active', x \notin skipped'
               PROVE  /\ Stored(x)' => ~NoRow(x)' \/ Pending(x)'
                      /\ ~NoRow(x)' => \/ ~NoPoint(x)'
                                       \/ \E u \in Tasks : pc'[u] = "index" /\ x \in mem'[u]
    BY DEF FoundInv
  <2>1. x \in Active /\ x \notin skipped /\ NoRow(x)' = NoRow(x)
    BY <1>6 DEF InsertWithSeq, Active, NoRow
  <2>2. (Stored(x)' => Stored(x)) /\ (Pending(x) => Pending(x)')
    BY <1>6 DEF InsertWithSeq, Goto, Stored, Pending, Rebuilding, TypeOK
  <2>3. CASE x \in mem[t]
    <3>1. [seq |-> seq[t], mem |-> x] \in side'
      BY <1>6, <2>3 DEF InsertWithSeq
    <3>2. ~NoPoint(x)'
      BY <3>1 DEF NoPoint
    <3> QED
      BY <2>1, <2>2, <3>2 DEF FoundInv
  <2>4. CASE x \notin mem[t]
    <3>1. ~NoPoint(x) => ~NoPoint(x)'
      BY <1>6, <2>4 DEF InsertWithSeq, Goto, NoPoint, SeqNamesOneMemory
    <3>2. (\E u \in Tasks : pc[u] = "index" /\ x \in mem[u])
             => \E u \in Tasks : pc'[u] = "index" /\ x \in mem'[u]
      BY <1>6, <2>4 DEF InsertWithSeq, Goto, TypeOK
    <3> QED
      BY <2>1, <2>2, <3>1, <3>2 DEF FoundInv
  <2> QED
    BY <2>3, <2>4
<1>7. ASSUME NEW t \in Tasks, DeleteEmbeddings(t) PROVE FoundInv'
  <2> SUFFICES ASSUME NEW x \in Active', x \notin skipped'
               PROVE  /\ Stored(x)' => ~NoRow(x)' \/ Pending(x)'
                      /\ ~NoRow(x)' => \/ ~NoPoint(x)'
                                       \/ \E u \in Tasks : pc'[u] = "index" /\ x \in mem'[u]
    BY DEF FoundInv
  <2>1. x \in Active /\ x \notin skipped
    BY <1>7 DEF DeleteEmbeddings, Active
  <2>2. x \notin mem[t]
    <3>1. op[t] = "retire"
      BY <1>7 DEF DeleteEmbeddings, Goto, TypeOK, Ops, ShapeInv
    <3> QED
      BY <2>1, <3>1 DEF GoneInv, Active
  <2>3. NoRow(x)' = NoRow(x) /\ NoPoint(x)' = NoPoint(x)
    BY <1>7, <2>2 DEF DeleteEmbeddings, NoRow, NoPoint
  <2>4. (Stored(x)' => Stored(x)) /\ (Pending(x) => Pending(x)')
    BY <1>7, <2>2 DEF DeleteEmbeddings, Goto, Stored, Pending, Rebuilding, TypeOK
  <2>5. (\E u \in Tasks : pc[u] = "index" /\ x \in mem[u])
           => \E u \in Tasks : pc'[u] = "index" /\ x \in mem'[u]
    BY <1>7, <2>2 DEF DeleteEmbeddings, Goto, TypeOK
  <2> QED
    BY <2>1, <2>3, <2>4, <2>5 DEF FoundInv
<1>8. ASSUME NEW t \in Tasks, Forget(t) PROVE FoundInv'
  <2> SUFFICES ASSUME NEW x \in Active', x \notin skipped'
               PROVE  /\ Stored(x)' => ~NoRow(x)' \/ Pending(x)'
                      /\ ~NoRow(x)' => \/ ~NoPoint(x)'
                                       \/ \E u \in Tasks : pc'[u] = "index" /\ x \in mem'[u]
    BY DEF FoundInv
  <2>1. x \in Active /\ x \notin skipped
    BY <1>8 DEF Forget, Active
  <2>2. x \notin mem[t]
    <3>1. op[t] = "retire"
      BY <1>8 DEF Forget, Goto, TypeOK, Ops, ShapeInv
    <3> QED
      BY <2>1, <3>1 DEF GoneInv, Active
  <2>3. NoRow(x)' = NoRow(x) /\ NoPoint(x)' = NoPoint(x)
    BY <1>8, <2>2 DEF Forget, NoRow, NoPoint
  <2>4. (Stored(x)' => Stored(x)) /\ (Pending(x) => Pending(x)')
    BY <1>8, <2>2 DEF Forget, Goto, Stored, Pending, Rebuilding, TypeOK
  <2>5. (\E u \in Tasks : pc[u] = "index" /\ x \in mem[u])
           => \E u \in Tasks : pc'[u] = "index" /\ x \in mem'[u]
    BY <1>8, <2>2 DEF Forget, Goto, TypeOK
  <2> QED
    BY <2>1, <2>3, <2>4, <2>5 DEF FoundInv
<1>9. ASSUME NEW t \in Tasks, ClearEmbeddings(t) PROVE FoundInv'
  BY <1>9 DEF ClearEmbeddings, Begin, TypeOK, FoundInv, Pending, Rebuilding, NoRow
<1>10. ASSUME NEW t \in Tasks, ClearIndex(t) PROVE FoundInv'
  BY <1>10 DEF ClearIndex, Goto, TypeOK, Ops, ShapeInv, FoundInv, Pending, Rebuilding,
               NoRow
<1>11. ASSUME NEW t \in Tasks, ListMemories(t) PROVE FoundInv'
  BY <1>11 DEF ListMemories, Goto, TypeOK, Ops, ShapeInv, FoundInv, Pending,
               Rebuilding, NoRow, NoPoint, Active
<1>12. ASSUME NEW t \in Tasks, Return(t) PROVE FoundInv'
  <2> SUFFICES ASSUME NEW x \in Active', x \notin skipped'
               PROVE  /\ Stored(x)' => ~NoRow(x)' \/ Pending(x)'
                      /\ ~NoRow(x)' => \/ ~NoPoint(x)'
                                       \/ \E u \in Tasks : pc'[u] = "index" /\ x \in mem'[u]
    BY DEF FoundInv
  <2>1. x \in Active /\ x \notin skipped /\ NoRow(x)' = NoRow(x) /\ NoPoint(x)' = NoPoint(x)
    BY <1>12 DEF Return, Active, NoRow, NoPoint
  <2>2. pc[t] = "loop" /\ todo[t] = {}
    BY <1>12 DEF Return
  <2>3. Stored(x)' => Stored(x)
    BY <1>12, <2>2 DEF Return, End, Stored
  <2>4. Pending(x) => Pending(x)'
    BY <1>12, <2>2 DEF Return, End, Pending, Rebuilding
  <2>5. (\E u \in Tasks : pc[u] = "index" /\ x \in mem[u])
           => \E u \in Tasks : pc'[u] = "index" /\ x \in mem'[u]
    BY <1>12, <2>2 DEF Return, End
  <2> QED
    BY <2>1, <2>3, <2>4, <2>5 DEF FoundInv
<1>13. ASSUME NEW t \in Tasks, Fail(t) PROVE FoundInv'
  BY <1>13 DEF Fail, End, CutShort, FoundInv, Pending, Stored, Rebuilding, NoRow,
               NoPoint, Active
<1>14. CASE Restart
  BY <1>14 DEF Restart, End, CutShort, FoundInv, Pending, Stored, NoRow, NoPoint, Active
<1>15. CASE UNCHANGED vars
  BY <1>15 DEF vars, FoundInv, Pending, Stored, Rebuilding, NoRow, NoPoint, Active
<1> QED
  BY <1>1, <1>2, <1>3, <1>4, <1>5, <1>6, <1>7, <1>8, <1>9, <1>10,
     <1>11, <1>12, <1>13, <1>14, <1>15 DEF Next, Step

-----------------------------------------------------------------------------
(* Rebuilds.                                                               *)

\* Alone, a rebuild makes table and index again from the memories.
LEMMA RebuildStep ==
    ASSUME TypeOK, ShapeInv, SeqInv, SeqNamesOneMemory, RebuildInv, [Next]_vars
    PROVE  RebuildInv'
<1> USE DEF tables, history
<1>1. ASSUME NEW t \in Tasks, NEW m \in Memories, InsertMemory(t, m)
      PROVE  RebuildInv'
  <2>1. \A u \in Tasks : alone'[u] => u = t /\ \A v \in Tasks \ {t} : pc[v] = "idle"
    BY <1>1 DEF InsertMemory, Begin
  <2>2. op'[t] # "rebuild" /\ \A v \in Tasks \ {t} : pc'[v] = pc[v]
    BY <1>1 DEF InsertMemory, Begin, TypeOK
  <2> QED
    BY <2>1, <2>2 DEF RebuildInv
<1>2. ASSUME NEW t \in Tasks, NEW m \in Memories, Retire(t, m)
      PROVE  RebuildInv'
  <2>1. \A u \in Tasks : alone'[u] => u = t /\ \A v \in Tasks \ {t} : pc[v] = "idle"
    BY <1>2 DEF Retire, Begin
  <2>2. op'[t] # "rebuild" /\ \A v \in Tasks \ {t} : pc'[v] = pc[v]
    BY <1>2 DEF Retire, Begin, TypeOK
  <2> QED
    BY <2>1, <2>2 DEF RebuildInv
<1>3. ASSUME NEW t \in Tasks, NEW m \in Memories, NextMemory(t, m)
      PROVE  RebuildInv'
  BY <1>3 DEF NextMemory, Goto, TypeOK, RebuildInv, NoRow, Active
<1>4. ASSUME NEW t \in Tasks, EmbeddingExists(t) PROVE RebuildInv'
  BY <1>4 DEF EmbeddingExists, Goto, RebuildInv, NoRow, Active
<1>5. ASSUME NEW t \in Tasks, InsertEmbedding(t) PROVE RebuildInv'
  <2> SUFFICES ASSUME alone[t], op[t] = "rebuild"
               PROVE  RebuildInv'
    <3>1. \A u \in Tasks : alone'[u] = alone[u] /\ op'[u] = op[u] /\ (alone[u] => u = t)
      BY <1>5 DEF InsertEmbedding, Goto, RebuildInv
    <3>2. \A v \in Tasks \ {t} : pc'[v] = pc[v]
      BY <1>5 DEF InsertEmbedding, Goto, TypeOK
    <3> QED
      BY <3>1, <3>2 DEF RebuildInv
  <2>1. /\ \A u \in Tasks \ {t} : pc[u] = "idle"
        /\ embeddings = side
        /\ \A p, q \in embeddings : p.mem = q.mem => p = q
        /\ \A p \in embeddings : p.mem \in Active \ todo[t]
        /\ todo[t] \subseteq Active
        /\ \A m \in mem[t] : NoRow(m) /\ m \in Active \ todo[t]
        /\ \A m \in Active \ todo[t] : ~NoRow(m) \/ m \in mem[t]
    <3>1. pc[t] = "embed"
      BY <1>5 DEF InsertEmbedding, Goto
    <3>2. embeddings = side
      <4>1. {p \in Point : pc[t] = "index" /\ p.seq = seq[t] /\ p.mem \in mem[t]} = {}
        BY <3>1
      <4> QED
        BY <3>1, <4>1 DEF RebuildInv
    <3>3. /\ \A u \in Tasks \ {t} : pc[u] = "idle"
          /\ \A p, q \in embeddings : p.mem = q.mem => p = q
          /\ \A p \in embeddings : p.mem \in Active \ todo[t]
          /\ todo[t] \subseteq Active
      BY <3>1 DEF RebuildInv
    <3>4. /\ \A m \in mem[t] : NoRow(m) /\ m \in Active \ todo[t]
          /\ \A m \in Active \ todo[t] : ~NoRow(m) \/ m \in mem[t]
      BY <3>1 DEF RebuildInv
    <3> QED
      BY <3>2, <3>3, <3>4
  <2> DEFINE New == {[seq |-> lastSeq + 1, mem |-> m] : m \in mem[t]}
  <2>2. /\ embeddings' = embeddings \cup New
        /\ pc'[t] = "index" /\ seq'[t] = lastSeq + 1
        /\ \A u \in Tasks \ {t} : pc'[u] = "idle" /\ alone'[u] = FALSE
        /\ UNCHANGED <<row, side, op, mem, todo, alone>>
    <3>1. pc \in [Tasks -> PCs] /\ seq \in [Tasks -> 0..MaxSeq]
      BY DEF TypeOK
    <3>2. /\ embeddings' = embeddings \cup New
          /\ pc' = [pc EXCEPT ![t] = "index"] /\ seq' = [seq EXCEPT ![t] = lastSeq + 1]
          /\ UNCHANGED <<row, side, op, mem, todo, alone>>
      BY <1>5 DEF InsertEmbedding, Goto
    <3>3. \A u \in Tasks \ {t} : alone'[u] = FALSE
      <4>1. pc[t] # "idle" /\ alone \in [Tasks -> BOOLEAN]
        BY <1>5 DEF InsertEmbedding, Goto, TypeOK
      <4>2. \A u \in Tasks : alone[u] => \A v \in Tasks \ {u} : pc[v] = "idle"
        BY DEF RebuildInv
      <4> QED
        BY <3>2, <4>1, <4>2, Zenon
    <3> HIDE DEF New
    <3> QED
      BY <2>1, <3>1, <3>2, <3>3
  <2>3. New = {p \in Point : p.seq = lastSeq + 1 /\ p.mem \in mem[t]}
    BY <1>5, IndexAssumption DEF InsertEmbedding, TypeOK, Point
  <2>4. \A p \in New : p.mem \in mem[t] /\ p.seq = lastSeq + 1
    OBVIOUS
  <2>5. \A m \in mem[t] : [seq |-> lastSeq + 1, mem |-> m] \in New
    OBVIOUS
  <2>6. \A p, q \in New : p = q
    BY DEF ShapeInv
  <2> HIDE DEF New
  <2>7. embeddings' = side' \cup {p \in Point : pc'[t] = "index" /\ p.seq = seq'[t] /\ p.mem \in mem'[t]}
    BY <2>1, <2>2, <2>3
  <2>8. \A p, q \in embeddings' : p.mem = q.mem => p = q
    BY <2>1, <2>2, <2>4, <2>6 DEF NoRow
  <2>9. \A p \in embeddings' : p.mem \in Active \ todo[t]
    BY <2>1, <2>2, <2>4
  <2>10. \A m \in Active \ todo[t] : ~NoRow(m)'
    <3>1. ASSUME NEW m \in mem[t] PROVE ~NoRow(m)'
      <4>1. [seq |-> lastSeq + 1, mem |-> m] \in embeddings'
        BY <2>2, <2>5
      <4> QED
        BY <4>1 DEF NoRow
    <3>2. ASSUME NEW m \in Memories, ~NoRow(m) PROVE ~NoRow(m)'
      BY <2>2, <3>2 DEF NoRow
    <3> QED
      BY <2>1, <3>1, <3>2 DEF Active
  <2>11. Active' = Active
    BY <2>2 DEF Active
  <2> QED
    BY <2>1, <2>2, <2>7, <2>8, <2>9, <2>10, <2>11 DEF RebuildInv
<1>6. ASSUME NEW t \in Tasks, InsertWithSeq(t) PROVE RebuildInv'
  BY <1>6 DEF InsertWithSeq, Goto, TypeOK, SeqInv, SeqNamesOneMemory, RebuildInv,
              NoRow, Active, Point
<1>7. ASSUME NEW t \in Tasks, DeleteEmbeddings(t) PROVE RebuildInv'
  BY <1>7 DEF DeleteEmbeddings, Goto, ShapeInv, RebuildInv
<1>8. ASSUME NEW t \in Tasks, Forget(t) PROVE RebuildInv'
  BY <1>8 DEF Forget, Goto, ShapeInv, RebuildInv
<1>9. ASSUME NEW t \in Tasks, ClearEmbeddings(t) PROVE RebuildInv'
  <2>1. \A u \in Tasks : alone'[u] => u = t /\ \A v \in Tasks \ {t} : pc[v] = "idle"
    BY <1>9 DEF ClearEmbeddings, Begin
  <2>2. pc'[t] = "clear" /\ embeddings' = {} /\ \A v \in Tasks \ {t} : pc'[v] = pc[v]
    BY <1>9 DEF ClearEmbeddings, Begin, TypeOK
  <2> QED
    BY <2>1, <2>2 DEF RebuildInv
<1>10. ASSUME NEW t \in Tasks, ClearIndex(t) PROVE RebuildInv'
  BY <1>10 DEF ClearIndex, Goto, RebuildInv
<1>11. ASSUME NEW t \in Tasks, ListMemories(t) PROVE RebuildInv'
  BY <1>11 DEF ListMemories, Goto, TypeOK, RebuildInv, Active
<1>12. ASSUME NEW t \in Tasks, Return(t) PROVE RebuildInv'
  BY <1>12 DEF Return, End, RebuildInv
<1>13. ASSUME NEW t \in Tasks, Fail(t) PROVE RebuildInv'
  BY <1>13 DEF Fail, End, RebuildInv
<1>14. CASE Restart
  BY <1>14 DEF Restart, End, RebuildInv
<1>15. CASE UNCHANGED vars
  BY <1>15 DEF vars, RebuildInv, NoRow, Active
<1> QED
  BY <1>1, <1>2, <1>3, <1>4, <1>5, <1>6, <1>7, <1>8, <1>9, <1>10,
     <1>11, <1>12, <1>13, <1>14, <1>15 DEF Next, Step

-----------------------------------------------------------------------------
(* The invariant and what it gives.                                        *)

LEMMA InitIInv == Init => IInv
<1> SUFFICES ASSUME Init PROVE IInv
  OBVIOUS
<1>1. TypeOK
  BY TypeInit
<1>2. ShapeInv /\ FreshInv /\ SeqInv /\ SeqNamesOneMemory /\ QuietInv /\ GoneInv
  BY DEF Init, ShapeInv, FreshInv, SeqInv, SeqNamesOneMemory, QuietInv, GoneInv
<1>3. FoundInv
  BY DEF Init, FoundInv, Active
<1>4. RebuildInv
  BY DEF Init, RebuildInv
<1> QED
  BY <1>1, <1>2, <1>3, <1>4 DEF IInv

LEMMA NextIInv == IInv /\ [Next]_vars => IInv'
BY TypeStep, ShapeStep, FreshStep, SeqStep, QuietStep, GoneStep, FoundStep,
   RebuildStep DEF IInv

\* The inductive invariant of the three copies holds in every reachable state.
THEOREM Invariance == Spec => []IInv
BY InitIInv, NextIInv, PTL DEF Spec

\* The tables, the side table and the tasks are well typed.
THEOREM TypeCorrect == Spec => []TypeOK
<1>1. IInv => TypeOK
  BY DEF IInv
<1> QED
  BY <1>1, Invariance, PTL

\* Through any interleaving of insertions, retirements, rebuilds and restarts a
\* seq_id stands for one memory (insert_embedding, insert_with_seq).
THEOREM SeqNames == Spec => []SeqNamesOneMemory
<1>1. IInv => SeqNamesOneMemory
  BY DEF IInv
<1> QED
  BY <1>1, Invariance, PTL

\* A retired memory is not found again, unless it was retired while a task was
\* about to embed it (forget_memory, resolve_conflict).
THEOREM RetiredStaysGone == Spec => []RetiredNotFound
<1>1. IInv => RetiredNotFound
  BY DEF IInv, GoneInv, NoPoint, RetiredNotFound, Searchable
<1> QED
  BY <1>1, Invariance, PTL

\* An inserted memory is found as long as it is active and no rebuild gets in the
\* way (embed_and_index, rebuild_indexes, load_index_from_store).
THEOREM StoredStaysFound == Spec => []StoredIsFound
<1>1. IInv => StoredIsFound
  <2> SUFFICES ASSUME IInv, NoRebuild, NEW m \in done \cap Active, m \notin skipped
               PROVE  m \in Searchable
    BY DEF StoredIsFound
  <2>1. FoundInv /\ Stored(m) /\ ~Pending(m)
    BY DEF IInv, NoRebuild, Stored, Pending
  <2>2. ~NoRow(m)
    BY <2>1 DEF FoundInv
  <2>3. ASSUME NEW t \in Tasks, pc[t] = "index", m \in mem[t] PROVE FALSE
    <3>1. op[t] = "insert"
      BY <2>3 DEF IInv, ShapeInv, TypeOK, Ops, NoRebuild, Rebuilding
    <3> QED
      BY <2>3, <3>1 DEF IInv, FreshInv
  <2>4. ~NoPoint(m)
    BY <2>1, <2>2, <2>3 DEF FoundInv
  <2> QED
    BY <2>4 DEF NoPoint, Searchable
<1> QED
  BY <1>1, Invariance, PTL

\* As many points as memories, if each memory has one and a seq_id names one.
LEMMA OnePointEach ==
    ASSUME TypeOK, SeqNamesOneMemory, Searchable = Active,
           \A p, q \in side : p.mem = q.mem => p = q
    PROVE  Cardinality(side) = Cardinality(Active)
<1>1. IsFiniteSet(side)
  <2> DEFINE f == [p \in side |-> p.seq]
  <2>1. f \in [side -> 1..MaxSeq]
    BY DEF TypeOK, Point
  <2>2. \A p, q \in side : p.seq = q.seq => p = q
    BY DEF SeqNamesOneMemory
  <2>3. f \in Injection(side, 1..MaxSeq)
    BY <2>1, <2>2 DEF Injection, IsInjective
  <2>4. IsFiniteSet(1..MaxSeq)
    BY FS_Interval, IndexAssumption
  <2> QED
    BY <2>3, <2>4, FS_Injection
<1>2. ExistsBijection(side, Active)
  <2> DEFINE g == [p \in side |-> p.mem]
  <2>1. g \in [side -> Active] /\ \A m \in Active : \E p \in side : g[p] = m
    BY DEF Searchable
  <2>2. IsInjective(g)
    BY DEF IsInjective
  <2>3. g \in Bijection(side, Active)
    BY <2>1, <2>2 DEF Bijection, Injection, Surjection
  <2> QED
    BY <2>3 DEF ExistsBijection
<1> QED
  BY <1>1, <1>2, FS_Bijection

\* A rebuild that runs alone leaves every active memory with one row and one point,
\* and nothing else, whatever was there before (rebuild_indexes).
THEOREM RebuildMends == Spec => []RebuildRepairs
<1>1. IInv => RebuildRepairs
  <2> SUFFICES ASSUME IInv, NEW t \in Tasks, Rebuilding(t), alone[t], pc[t] = "loop",
                      todo[t] = {}
               PROVE  /\ Searchable = Active
                      /\ side = embeddings
                      /\ Cardinality(side) = Cardinality(Active)
    BY DEF RebuildRepairs
  <2>1. /\ embeddings = side
        /\ \A p, q \in side : p.mem = q.mem => p = q
        /\ \A p \in side : p.mem \in Active
        /\ \A m \in Active : ~NoRow(m)
    BY DEF IInv, RebuildInv, Rebuilding
  <2>2. Searchable = Active
    BY <2>1 DEF Searchable, NoRow
  <2> QED
    BY <2>1, <2>2, OnePointEach DEF IInv
<1> QED
  BY <1>1, Invariance, PTL
=============================================================================
