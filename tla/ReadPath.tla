------------------------------- MODULE ReadPath -------------------------------
(***************************************************************************)
(* What an agent is due: read_context assembles a package of memories    *)
(* from the vector index, the entities its query names and the most        *)
(* recently updated rows; search_memory asks the index alone.  Meanwhile   *)
(* other calls of the daemon give feedback, forget memories and swap the   *)
(* ranking weights.  Every Store or VectorIndex method takes its lock for  *)
(* itself, so a read sees the tables at several moments.                   *)
(*                                                                         *)
(* One query in one scope set is asked.  What it is similar to and which   *)
(* entities it names are constants; the index returns the true nearest     *)
(* points.  Confidences and similarities are in hundredths; updated_at is  *)
(* a logical clock, and the recency weight is applied to it directly       *)
(* (recency_decay is monotone in it).  The conflicts a package lists are   *)
(* left out.                                                               *)
(***************************************************************************)
EXTENDS Integers, FiniteSets, Sequences, Functions

CONSTANTS
    Ids,            \* memories, numbered in the order of their ids
    ScopeOf,        \* their scopes
    KindOf,         \* their kinds
    Tokens,         \* estimate_tokens_for their texts
    Similarity,     \* of the query to each
    Confidence,     \* what they start with
    Linked,         \* per entity the query names: the memories linked to it
    Requested,      \* the scopes asked for
    Kinds,          \* the kinds: a package has a list for each
    Weight,         \* the lens: share of the budget per kind
    MinConfidence,  \* the lens: the floor
    MaxPerKind,     \* the lens: items per kind
    TokenBudget,
    Scorings,       \* the weights in use, one after the other
    VectorOversample, EntityPerHitLimit, RecentWindow,  \* consts of read_path.rs
    SearchOversample, SearchLimit, MinSimilarity,       \* search_memory
    Capacity,       \* of the provenance cache
    Reads,          \* read_context and search_memory calls
    Feedbacks,      \* record_feedback calls
    Votes,          \* what they may say: [mem, kind] records
    Forgets,        \* forget_memory calls
    Forgettable,    \* the memories they may name
    MaxFaults       \* bound: calls that fail half way

FeedbackKinds == {"helpful", "correct", "stale", "wrong"}
ScoringConfig == [vector : Int, entity : Int, recency : Int, confidence : Int]

ASSUME ReadPathAssumption ==
    /\ IsFiniteSet(Ids) /\ Ids = 1..Cardinality(Ids)
    /\ DOMAIN ScopeOf = Ids
    /\ KindOf \in [Ids -> Kinds] /\ Confidence \in [Ids -> 0..100]
    /\ Tokens \in [Ids -> Nat] /\ Similarity \in [Ids -> -100..100]
    /\ Linked \in Seq(SUBSET Ids)
    /\ Weight \in [Kinds -> Nat]
    /\ Votes \subseteq [mem : Ids, kind : FeedbackKinds] /\ Forgettable \subseteq Ids
    /\ Scorings \in Seq(ScoringConfig) /\ Len(Scorings) > 0
    /\ MaxPerKind \in Nat /\ TokenBudget \in Nat /\ MaxFaults \in Nat
    /\ Capacity \in Nat \ {0} /\ SearchLimit \in Nat \ {0}

VARIABLES
    row,        \* table memories: [conf, updated, live] per id
    points,     \* the graph of the vector index: never shrinks
    side,       \* its side table: the points a search returns
    scoring,    \* the live ranking weights: an index of Scorings
    ring,       \* the provenance cache, newest first
    read,       \* per read: where it is and what it holds
    feedback,   \* per record_feedback: where it is and the row it read
    forget,     \* per forget_memory: where it is
    clock,      \* the last updated_at given out
    faults,     \* calls failed so far
    due,        \* history: per memory, the confidence it has if each feedback
                \* is applied when it returns, to what the one before left
    raced,      \* history: memories where two feedbacks overlapped
    gone,       \* history: memories whose forget_memory returned Ok
    reported    \* history: reads that returned a package, in order

vars == <<row, points, side, scoring, ring, read, feedback, forget, clock, faults,
          due, raced, gone, reported>>
world == <<row, points, side, clock, feedback, forget, due, raced, gone>>

Seen == [conf : 0..100, updated : Nat]

Idle == [pc |-> "idle", mode |-> "context", weights |-> 1,
         hits |-> {}, named |-> 0, vec |-> [i \in {} |-> 0], ent |-> [i \in {} |-> 0],
         rec |-> [i \in {} |-> 0], found |-> <<>>, out |-> [k \in Kinds |-> <<>>],
         began |-> 0, asof |-> [i \in Ids |-> 0], gone |-> {}]

Over(label) == [pc |-> label, mem |-> 0, kind |-> "stale", conf |-> 0]

TypeOK ==
    /\ row \in [Ids -> [conf : 0..100, updated : Nat, live : BOOLEAN]]
    /\ side \subseteq points /\ points \subseteq Ids
    /\ scoring \in 1..Len(Scorings)
    /\ ring \in Seq([id : Reads, entries : [Kinds -> Seq([mem : Ids, conf : 0..100])]])
    /\ Len(ring) <= Capacity
    /\ \A r \in Reads :
        /\ read[r].pc \in {"idle", "search", "anchor", "fetch", "report", "done", "failed"}
        /\ read[r].mode \in {"context", "search"} /\ read[r].weights \in 1..Len(Scorings)
        /\ read[r].hits \subseteq Ids /\ read[r].named \in 0..Len(Linked)
        /\ \A seen \in {read[r].vec, read[r].ent, read[r].rec} :
            DOMAIN seen \subseteq Ids /\ \A i \in DOMAIN seen : seen[i] \in Seen
        /\ read[r].found \in Seq(Ids) /\ read[r].out \in [Kinds -> Seq(Ids)]
        /\ read[r].began \in Nat /\ read[r].asof \in [Ids -> Nat] /\ read[r].gone \subseteq Ids
    /\ feedback \in [Feedbacks -> [pc : {"idle", "write", "done", "failed"},
                                   mem : Ids \cup {0}, kind : FeedbackKinds, conf : 0..100]]
    /\ forget \in [Forgets -> [pc : {"idle", "unindex", "done", "failed"},
                               mem : Ids \cup {0}]]
    /\ clock \in Nat /\ faults \in 0..MaxFaults
    /\ due \in [Ids -> 0..100] /\ raced \subseteq Ids /\ gone \subseteq Ids
    /\ reported \in Seq(Reads)

Init ==
    /\ row = [i \in Ids |-> [conf |-> Confidence[i], updated |-> i, live |-> TRUE]]
    /\ points = Ids
    /\ side = Ids
    /\ scoring = 1
    /\ ring = <<>>
    /\ read = [r \in Reads |-> Idle]
    /\ feedback = [f \in Feedbacks |-> Over("idle")]
    /\ forget = [f \in Forgets |-> [pc |-> "idle", mem |-> 0]]
    /\ clock = Cardinality(Ids)
    /\ faults = 0
    /\ due = Confidence
    /\ raced = {}
    /\ gone = {}
    /\ reported = <<>>

-----------------------------------------------------------------------------
(* Pure parts of the read path.                                            *)

\* expand_inherited: a request for any scope also reads user:me and global.
ExpandInherited(scopes) == IF scopes = {} THEN {} ELSE scopes \cup {"user:me", "global"}

\* any_scope_match.
InScope(i) == ScopeOf[i] \cap ExpandInherited(Requested) # {}

\* The first n members of S.
First(S, n, Before(_, _)) == {i \in S : Cardinality({j \in S : Before(j, i)}) < n}

\* VectorIndex::search: the k nearest points of the graph, and of those the ones
\* the side table still has.
Nearer(i, j) == Similarity[i] > Similarity[j] \/ (Similarity[i] = Similarity[j] /\ i > j)
Nearest(k) == First(points, k, Nearer) \cap side

\* ORDER BY updated_at DESC, id DESC LIMIT n over the active rows of S, the scope
\* filter after it: list_memories and memories_for_entity.
Newer(i, j) == \/ row[i].updated > row[j].updated
               \/ row[i].updated = row[j].updated /\ i > j
ListedDeleted(S, n) == {i \in First(S, n, Newer) : InScope(i)}
Listed(S, n) == {i \in First({j \in S : row[j].live}, n, Newer) : InScope(i)}

\* The rows of S as the reader has them now.
Rows(S) == [i \in S |-> [conf |-> row[i].conf, updated |-> row[i].updated]]

\* Lens::budget_for: the kind's share of the budget, rounded half up.
BudgetFor(k) ==
    LET sum == SumFunction(Weight)
    IN  IF sum = 0 THEN 0 ELSE (2 * TokenBudget * Weight[k] + sum) \div (2 * sum)

\* What is in f or in g; what is in both stays as in f.
Merge(f, g) == [i \in DOMAIN f \cup DOMAIN g |-> IF i \in DOMAIN f THEN f[i] ELSE g[i]]

\* The merged candidates: an id found twice keeps the row of the first source.
Candidates(x) == Merge(x.vec, Merge(x.ent, x.rec))

\* ScoringConfig::combined of a candidate.
Score(x, w, i) ==
      Scorings[w].vector * (IF i \in DOMAIN x.vec THEN Similarity[i] ELSE 0)
    + Scorings[w].entity * (IF i \in DOMAIN x.ent THEN 50 ELSE 0)
    + Scorings[w].recency * Candidates(x)[i].updated
    + Scorings[w].confidence * Candidates(x)[i].conf

\* The order a bucket is filled in.
Better(x, w, i, j) ==
    \/ Score(x, w, i) > Score(x, w, j)
    \/ /\ Score(x, w, i) = Score(x, w, j)
       /\ Candidates(x)[i].updated > Candidates(x)[j].updated

TokensOf(S) == SumFunctionOnSet(Tokens, S)

\* S in the order R, a set of pairs.
Sorted(S, R) ==
    CHOOSE s \in [1..Cardinality(S) -> S] :
        \A m, n \in DOMAIN s : m < n => <<s[m], s[n]>> \in R

\* allocate_bucket: take items in order until one does not fit; the first always
\* does.
AllocateLate(sorted, k) ==
    LET Fits(n) == /\ n <= MaxPerKind
                   /\ n = 1 \/ TokensOf({sorted[m] : m \in 1..n-1}) <= BudgetFor(k)
    IN  [n \in {n \in DOMAIN sorted : \A m \in 1..n : Fits(m)} |-> sorted[n]]
Allocate(sorted, k) ==
    LET Fits(n) == /\ n <= MaxPerKind
                   /\ n = 1 \/ TokensOf({sorted[m] : m \in 1..n}) <= BudgetFor(k)
    IN  [n \in {n \in DOMAIN sorted : \A m \in 1..n : Fits(m)} |-> sorted[n]]

\* The candidates of kind k at or above the floor.
Bucket(x, k) == {i \in DOMAIN Candidates(x) :
                    KindOf[i] = k /\ Candidates(x)[i].conf >= MinConfidence}

\* The order of the candidates' scores under the weights w.
Ranking(x, w) == LET found == DOMAIN Candidates(x)
                 IN  {p \in found \X found : Better(x, w, p[1], p[2])}

\* Filter by the floor, sort, bucket by kind, fill each bucket.
Package(x, w) == [k \in Kinds |-> Allocate(Sorted(Bucket(x, k), Ranking(x, w)), k)]

-----------------------------------------------------------------------------
(* Reading.                                                                *)

At(r, label) == read[r].pc = label

\* What a call did stays on record.
Returned(x) == [x EXCEPT !.pc = "done"]

\* read_context copies the ranking weights; search_memory has none.
Begin(r, mode) ==
    /\ At(r, "idle")
    /\ read' = [read EXCEPT ![r] = [Idle EXCEPT !.pc = "search", !.mode = mode,
                                                !.weights = scoring,
                                                !.began = clock, !.gone = gone,
                                                !.asof = [i \in Ids |-> row[i].updated]]]
    /\ UNCHANGED <<world, scoring, ring, faults, reported>>

\* Once the last hit is fetched the rest is local: search_memory returns, and
\* read_context merges, scores, sorts and allocates, under the weights it copied.
Compiled(x) ==
    CASE x.hits # {} -> x
      [] x.hits = {} /\ x.mode = "search" -> Returned(x)
      [] x.hits = {} /\ x.mode = "context" ->
            [x EXCEPT !.pc = "report", !.out = Package(x, x.weights)]

\* The vector search; search_memory then applies its post-filter.
Search(r) ==
    /\ At(r, "search")
    /\ read' = [read EXCEPT ![r] =
         IF read[r].mode = "context"
         THEN [@ EXCEPT !.pc = "anchor", 
                         !.hits = {i \in Nearest(VectorOversample) : InScope(i)}]
         ELSE LET kept == {i \in Nearest(SearchOversample) :
                              Similarity[i] >= MinSimilarity /\ InScope(i)}
              IN  Compiled([@ EXCEPT !.pc = "fetch",
                                     !.hits = First(kept, SearchLimit, Nearer)])]
    /\ UNCHANGED <<world, scoring, ring, faults, reported>>

\* entity_anchored: memories_for_entity of the next entity the query names.  A
\* memory seen before keeps its row.
Anchor(r) ==
    /\ At(r, "anchor") /\ read[r].named < Len(Linked)
    /\ read' = [read EXCEPT ![r].named = @ + 1,
           ![r].ent = Merge(@, Rows(Listed(Linked[read[r].named + 1],
                                           EntityPerHitLimit)))]
    /\ UNCHANGED <<world, scoring, ring, faults, reported>>

\* recent_in_scope.
Recent(r) ==
    /\ At(r, "anchor") /\ read[r].named = Len(Linked)
    /\ read' = [read EXCEPT ![r] =
           Compiled([@ EXCEPT !.pc = "fetch", !.rec = Rows(Listed(Ids, RecentWindow))])]
    /\ UNCHANGED <<world, scoring, ring, faults, reported>>

\* get_memory of the next hit: it returns deleted rows too.
Fetch(r) ==
    LET x == read[r] IN
    /\ At(r, "fetch")
    /\ \E i \in x.hits :
        /\ \A j \in x.hits \ {i} : Nearer(i, j)
        /\ read' = [read EXCEPT ![r] =
              Compiled([x EXCEPT !.hits = x.hits \ {i}, !.vec = Merge(x.vec, Rows({i})),
                                 !.found = IF x.mode = "search"
                                           THEN Append(x.found, i) ELSE x.found])]
    /\ UNCHANGED <<world, scoring, ring, faults, reported>>

\* ProvenanceCache::insert, then the package is returned.
InsertIfRoom(report) ==
    IF Len(ring) = Capacity THEN ring ELSE <<report>> \o ring
Insert(report) ==
    <<report>> \o 
        (IF Len(ring) = Capacity THEN SubSeq(ring, 1, Capacity - 1) ELSE ring)
Report(r) ==
    /\ At(r, "report")
    /\ ring' = Insert([id |-> r, entries |-> [k \in Kinds |->
                   [n \in DOMAIN read[r].out[k] |->
                       [mem |-> read[r].out[k][n],
                        conf |-> Candidates(read[r])[read[r].out[k][n]].conf]]]])
    /\ reported' = Append(reported, r)
    /\ read' = [read EXCEPT ![r] = Returned(read[r])]
    /\ UNCHANGED <<world, scoring, faults>>

\* inspect_provenance: the report of a package, if the cache still has it.
InspectProvenance(id) == {report \in Range(ring) : report.id = id}

\* The embedder, the index or the store returns an error: the call does.
ReadFails(r) ==
    /\ read[r].pc \in {"search", "anchor", "fetch"}
    /\ faults < MaxFaults
    /\ faults' = faults + 1
    /\ read' = [read EXCEPT ![r] = [Idle EXCEPT !.pc = "failed"]]
    /\ UNCHANGED <<world, scoring, ring, reported>>

-----------------------------------------------------------------------------
(* Writing.                                                                *)

readers == <<read, scoring, ring, reported>>

\* apply_feedback: a delta, clamped to the unit interval.
Delta(k) == CASE k = "helpful" -> 5 [] k = "correct" -> 10
              [] k = "stale" -> -15 [] k = "wrong" -> -40
Clamp(x) == IF x < 0 THEN 0 ELSE IF x > 100 THEN 100 ELSE x
ApplyFeedbackUnclamped(c, k) == c + Delta(k)
ApplyFeedback(c, k) == Clamp(c + Delta(k))

\* record_feedback: get_memory, of a deleted row as well.
FeedbackRead(f, v) ==
    /\ feedback[f].pc = "idle"
    /\ feedback' = [feedback EXCEPT ![f] = [pc |-> "write", mem |-> v.mem, kind |-> v.kind,
                                            conf |-> row[v.mem].conf]]
    /\ raced' = raced \cup {feedback[g].mem : g \in {g \in Feedbacks :
                              feedback[g].pc = "write" /\ feedback[g].mem = v.mem}}
    /\ UNCHANGED <<readers, row, points, side, forget, clock, faults, due, gone>>

\* update_memory_confidence, with the value computed from the row read before.
FeedbackWrite(f) ==
    LET x == feedback[f] IN
    /\ x.pc = "write"
    /\ row' = [row EXCEPT ![x.mem].conf = ApplyFeedback(x.conf, x.kind),
                          ![x.mem].updated = clock + 1]
    /\ clock' = clock + 1
    /\ due' = [due EXCEPT ![x.mem] = Clamp(@ + Delta(x.kind))]
    /\ feedback' = [feedback EXCEPT ![f] = Over("done")]
    /\ UNCHANGED <<readers, points, side, forget, faults, raced, gone>>

FeedbackFails(f) ==
    /\ feedback[f].pc = "write" /\ faults < MaxFaults
    /\ faults' = faults + 1
    /\ feedback' = [feedback EXCEPT ![f] = Over("failed")]
    /\ UNCHANGED <<readers, row, points, side, forget, clock, due, raced, gone>>

\* forget_memory: soft_delete_memory.
SoftDelete(f, i) ==
    /\ forget[f].pc = "idle"
    /\ row' = [row EXCEPT ![i].live = FALSE, ![i].updated = clock + 1]
    /\ clock' = clock + 1
    /\ forget' = [forget EXCEPT ![f] = [pc |-> "unindex", mem |-> i]]
    /\ UNCHANGED <<readers, points, side, feedback, faults, due, raced, gone>>

\* delete_embeddings_for_memory, then VectorIndex::forget.
Unindex(f) ==
    /\ forget[f].pc = "unindex"
    /\ side' = side \ {forget[f].mem}
    /\ gone' = gone \cup {forget[f].mem}
    /\ forget' = [forget EXCEPT ![f].pc = "done"]
    /\ UNCHANGED <<readers, row, points, feedback, clock, faults, due, raced>>

\* delete_embeddings_for_memory fails: the row is deleted, the point stays.
ForgetFails(f) ==
    /\ forget[f].pc = "unindex" /\ faults < MaxFaults
    /\ faults' = faults + 1
    /\ forget' = [forget EXCEPT ![f].pc = "failed"]
    /\ UNCHANGED <<readers, row, points, side, feedback, clock, due, raced, gone>>

\* set_scoring_config, from the config watcher.
SetScoring ==
    /\ scoring < Len(Scorings)
    /\ scoring' = scoring + 1
    /\ UNCHANGED <<world, ring, read, faults, reported>>

Step(r) ==
    \/ \E mode \in {"context", "search"} : Begin(r, mode)
    \/ Search(r) \/ Anchor(r) \/ Recent(r) \/ Fetch(r) \/ Report(r) \/ ReadFails(r)

Next ==
    \/ \E r \in Reads : Step(r)
    \/ \E f \in Feedbacks :
        \/ \E v \in Votes : FeedbackRead(f, v)
        \/ FeedbackWrite(f) \/ FeedbackFails(f)
    \/ \E f \in Forgets :
        \/ \E i \in Forgettable : SoftDelete(f, i)
        \/ Unindex(f) \/ ForgetFails(f)
    \/ SetScoring

Spec == Init /\ [][Next]_vars

-----------------------------------------------------------------------------
(* Properties.                                                             *)

Served(r) == Range(read[r].found) \cup UNION {Range(read[r].out[k]) : k \in Kinds}

\* A read sees what was written before it began: it returns no memory whose
\* forget_memory had returned, no row older than its last feedback, and, when
\* nothing is written while it runs, it considers every memory in scope that is
\* among the RECENT_WINDOW last updated of all scopes (list_memories applies the
\* limit before the scope filter, so others' writes can crowd a memory out).
SeesEarlierWrites ==
    \A r \in Reads :
        /\ Served(r) \cap read[r].gone = {}
        /\ \A i \in Served(r) : Candidates(read[r])[i].updated >= read[r].asof[i]
        /\ read[r].pc = "report" /\ clock = read[r].began =>
              \A i \in Ids :
                 /\ row[i].live /\ InScope(i)
                 /\ Cardinality({j \in Ids : row[j].live /\ row[j].updated > row[i].updated})
                        < RecentWindow
                 => i \in DOMAIN Candidates(read[r])

\* A package is, for each kind, the best candidates at or above the floor under
\* the weights of the moment the read began, best first, cut where the next one
\* would pass max_per_kind or the kind's budget; a kind with any such candidate is
\* never empty, and only a single item may be larger than the kind's budget.
PackageRanked ==
    \A r \in Reads : \A k \in Kinds :
        read[r].pc = "report" =>
            LET x == read[r]
                took == x.out[k]
                left == Bucket(x, k) \ Range(took)
            IN  /\ Range(took) \subseteq Bucket(x, k)
                /\ \A m, n \in DOMAIN took : m < n => Better(x, x.weights, took[m], took[n])
                /\ \A i \in left, j \in Range(took) : Better(x, x.weights, j, i)
                /\ Len(took) <= MaxPerKind
                /\ Len(took) <= 1 \/ TokensOf(Range(took)) <= BudgetFor(k)
                /\ \A i \in left : (\A j \in left \ {i} : Better(x, x.weights, i, j)) =>
                      \/ Len(took) = MaxPerKind
                      \/ /\ took # <<>>
                         /\ ~(TokensOf(Range(took) \cup {i}) <= BudgetFor(k))

\* inspect_provenance explains each of the last Capacity packages, whichever of two
\* overlapping reads began first, item by item and with the confidence it was
\* chosen at.
ExplainedWhileRecent ==
    \A n \in DOMAIN reported :
        n > Len(reported) - Capacity =>
            \E report \in InspectProvenance(reported[n]) :
                \A k \in Kinds :
                    LET listed == report.entries[k] IN
                    /\ [e \in DOMAIN listed |-> listed[e].mem] = read[reported[n]].out[k]
                    /\ \A e \in DOMAIN listed : listed[e].conf >= MinConfidence

\* Feedback counts: a memory's confidence is its first one moved by every feedback
\* that returned, in order, within [0, 1], unless two of them overlapped
\* (record_feedback reads and writes under separate locks).
FeedbackCounts == \A i \in Ids \ raced : row[i].conf = due[i]
===============================================================================
