--------------------------- MODULE ReadPathProofs ---------------------------
(***************************************************************************)
(* The safety of ReadPath, for any memories, weights, reads, feedbacks and *)
(* forgets, and any bounds.                                                *)
(***************************************************************************)
EXTENDS ReadPath, FiniteSetTheorems, SequenceTheorems, TLAPS

-----------------------------------------------------------------------------
(* What is assumed of the constants, one by one.                           *)

\* The memories are finitely many numbers.
LEMMA IdsFacts == IsFiniteSet(Ids) /\ Cardinality(Ids) \in Nat /\ Ids = 1..Cardinality(Ids)
  <1>1. IsFiniteSet(Ids) /\ Ids = 1..Cardinality(Ids)
    BY ReadPathAssumption, Zenon
  <1> QED
    BY <1>1, FS_CardinalityType

\* What the code keeps as numbers are numbers.
LEMMA NumberFacts ==
    /\ Confidence \in [Ids -> 0..100] /\ Similarity \in [Ids -> -100..100]
    /\ MaxPerKind \in Nat /\ MaxFaults \in Nat /\ Capacity \in Nat \ {0}
  BY ReadPathAssumption, Zenon

\* The query names a sequence of entities.
LEMMA LinkedFacts ==
    Len(Linked) \in Nat /\ \A n \in 1..Len(Linked) : Linked[n] \subseteq Ids
  <1>1. Linked \in Seq(SUBSET Ids)
    BY ReadPathAssumption, Zenon
  <1> QED
    BY <1>1

\* Feedback and forgetting name memories.
LEMMA InputFacts ==
    Votes \subseteq [mem : Ids, kind : FeedbackKinds] /\ Forgettable \subseteq Ids
  BY ReadPathAssumption, Zenon

\* The places in the sequence of weights.
Versions == 1..Len(Scorings)

\* There are weights to begin with, and all of them are weights.
LEMMA ScoringFacts ==
    /\ Len(Scorings) \in Nat /\ 1 \in Versions
    /\ \A w \in Versions :
          /\ Scorings[w].vector \in Int /\ Scorings[w].entity \in Int
          /\ Scorings[w].recency \in Int /\ Scorings[w].confidence \in Int
  <1>1. Scorings \in Seq(ScoringConfig) /\ Len(Scorings) > 0
    BY ReadPathAssumption, Zenon
  <1>2. Len(Scorings) \in Nat /\ \A w \in 1..Len(Scorings) : Scorings[w] \in ScoringConfig
    BY <1>1
  <1>3. \A c \in ScoringConfig : /\ c.vector \in Int /\ c.entity \in Int
                                 /\ c.recency \in Int /\ c.confidence \in Int
    BY DEF ScoringConfig
  <1>4. Len(Scorings) \in Nat /\ 1 \in Versions
    BY <1>1, <1>2 DEF Versions
  <1> QED
    BY <1>2, <1>3, <1>4, Zenon DEF Versions

-----------------------------------------------------------------------------
(* Sorting and allocating.                                                 *)

\* A set of naturals has a least member.
LEMMA LeastNat ==
    ASSUME NEW S \in SUBSET Nat, S # {}
    PROVE  \E m \in S : \A n \in S : m <= n
  <1>1. PICK m \in S : \A n \in S : ~(<<n, m>> \in OpToRel(<, Nat))
    BY NatLessThanWellFounded, WFMin
  <1>2. \A n \in S : ~(n < m)
    BY <1>1 DEF OpToRel
  <1> QED
    BY <1>2

\* R orders S strictly and totally.
Orders(R, S) ==
    /\ \A i \in S : <<i, i>> \notin R
    /\ \A i, j \in S : i # j => <<i, j>> \in R \/ <<j, i>> \in R
    /\ \A i, j, k \in S : <<i, j>> \in R /\ <<j, k>> \in R => <<i, k>> \in R

\* A finite set can be written in its order: the place of a member is the number of
\* those before it.
LEMMA SortedExists ==
    ASSUME NEW S, IsFiniteSet(S), NEW R, Orders(R, S)
    PROVE  \E s \in [1..Cardinality(S) -> S] :
               \A m, n \in DOMAIN s : m < n => <<s[m], s[n]>> \in R
  <1> DEFINE c == Cardinality(S)
             Ahead(i) == {j \in S : <<j, i>> \in R}
             place == [i \in S |-> Cardinality(Ahead(i)) + 1]
  <1>c. c \in Nat
    BY FS_CardinalityType
  <1>1. \A i \in S : IsFiniteSet(Ahead(i)) /\ Cardinality(Ahead(i)) \in Nat
    BY FS_Subset, FS_CardinalityType
  <1>2. \A i, j \in S : <<i, j>> \in R => place[i] < place[j]
    <2> SUFFICES ASSUME NEW i \in S, NEW j \in S, <<i, j>> \in R
                 PROVE  place[i] < place[j]
      OBVIOUS
    <2>1. i \notin Ahead(i) /\ Ahead(i) \cup {i} \subseteq Ahead(j)
      BY DEF Orders
    <2>2. Cardinality(Ahead(i) \cup {i}) = Cardinality(Ahead(i)) + 1
      BY <1>1, <2>1, FS_AddElement
    <2>3. Cardinality(Ahead(i) \cup {i}) <= Cardinality(Ahead(j))
      BY <1>1, <2>1, FS_Subset
    <2> QED
      BY <1>1, <2>2, <2>3
  <1>3. \A i \in S : place[i] \in 1..c
    <2> SUFFICES ASSUME NEW i \in S PROVE place[i] \in 1..c
      OBVIOUS
    <2>1. i \notin Ahead(i) /\ Ahead(i) \cup {i} \subseteq S
      BY DEF Orders
    <2>2. Cardinality(Ahead(i) \cup {i}) = Cardinality(Ahead(i)) + 1
      BY <1>1, <2>1, FS_AddElement
    <2>3. Cardinality(Ahead(i) \cup {i}) <= c
      BY <2>1, FS_Subset
    <2> QED
      BY <1>1, <1>c, <2>2, <2>3
  <1>p. place \in [S -> 1..c]
    BY <1>3
  <1> HIDE DEF place
  <1>4. place \in Injection(S, 1..c)
    <2>1. \A i, j \in S : place[i] = place[j] => i = j
      <3> SUFFICES ASSUME NEW i \in S, NEW j \in S, place[i] = place[j], i # j
                   PROVE  FALSE
        OBVIOUS
      <3>1. <<i, j>> \in R \/ <<j, i>> \in R
        BY DEF Orders
      <3>2. place[i] \in Int /\ place[j] \in Int
        BY <1>3, <1>c
      <3> QED
        BY <1>2, <3>1, <3>2
    <2> QED
      BY <1>p, <2>1 DEF Injection, IsInjective
  <1>5. \A n \in 1..c : \E i \in S : place[i] = n
    <2>1. IsFiniteSet(1..c) /\ Cardinality(1..c) = c
      BY <1>c, FS_Interval
    <2>2. place \in Surjection(S, 1..c)
      BY <1>4, <2>1, FS_Injection
    <2> QED
      BY <2>2 DEF Surjection
  <1> DEFINE s == [n \in 1..c |-> CHOOSE i \in S : place[i] = n]
  <1>6. \A n \in 1..c : s[n] \in S /\ place[s[n]] = n
    BY <1>5
  <1>7. s \in [1..c -> S]
    BY <1>6
  <1>8. \A m, n \in 1..c : m < n => <<s[m], s[n]>> \in R
    <2> SUFFICES ASSUME NEW m \in 1..c, NEW n \in 1..c, m < n
                 PROVE  <<s[m], s[n]>> \in R
      OBVIOUS
    <2> HIDE DEF s
    <2>1. s[m] # s[n]
      BY <1>6, <1>c
    <2>2. ~(<<s[n], s[m]>> \in R)
      BY <1>2, <1>6, <1>c
    <2> QED
      BY <1>6, <2>1, <2>2 DEF Orders
  <1> HIDE DEF s
  <1>9. DOMAIN s = 1..c
    BY <1>7
  <1> QED
    BY <1>7, <1>8, <1>9

\* Sorted is such a sequence, and has every member.
LEMMA SortedFacts ==
    ASSUME NEW S, IsFiniteSet(S), NEW R, Orders(R, S)
    PROVE  /\ Cardinality(S) \in Nat
           /\ Sorted(S, R) \in [1..Cardinality(S) -> S]
           /\ \A m, n \in 1..Cardinality(S) :
                 m < n => <<Sorted(S, R)[m], Sorted(S, R)[n]>> \in R
           /\ \A i \in S : \E n \in 1..Cardinality(S) : Sorted(S, R)[n] = i
  <1> DEFINE c == Cardinality(S)
             s == Sorted(S, R)
  <1>c. c \in Nat
    BY FS_CardinalityType
  <1>1. /\ s \in [1..c -> S]
        /\ \A m, n \in DOMAIN s : m < n => <<s[m], s[n]>> \in R
    BY SortedExists DEF Sorted
  <1> HIDE DEF s
  <1>2. \A m, n \in 1..c : m < n => <<s[m], s[n]>> \in R
    BY <1>1
  <1>3. \A m, n \in 1..c : s[m] = s[n] => m = n
    <2> SUFFICES ASSUME NEW m \in 1..c, NEW n \in 1..c, s[m] = s[n], m # n
                 PROVE  FALSE
      OBVIOUS
    <2>1. <<s[m], s[m]>> \in R
      BY <1>2, <1>c
    <2>2. s[m] \in S
      BY <1>1
    <2> QED
      BY <2>1, <2>2 DEF Orders
  <1>4. s \in Injection(1..c, S)
    BY <1>1, <1>3 DEF Injection, IsInjective
  <1>5. s \in Surjection(1..c, S)
    BY <1>4, <1>c, FS_Injection, FS_Interval
  <1>6. \A i \in S : \E n \in 1..c : s[n] = i
    BY <1>5 DEF Surjection
  <1> QED
    BY <1>c, <1>1, <1>2, <1>6 DEF s

\* Of the sequence s of c items a bucket takes the first t: within the limits, and as
\* many as it can.
Takes(s, c, k, t) ==
    /\ Allocate(s, k) = [n \in 1..t |-> s[n]]
    /\ t <= MaxPerKind
    /\ t <= 1 \/ TokensOf({s[m] : m \in 1..t}) <= BudgetFor(k)
    /\ t < c => \/ t = MaxPerKind
                \/ /\ t >= 1
                   /\ ~(TokensOf({s[m] : m \in 1..t+1}) <= BudgetFor(k))

\* allocate_bucket takes a beginning of what it is given.
LEMMA AllocateFacts ==
    ASSUME NEW c \in Nat, NEW s, DOMAIN s = 1..c, NEW k
    PROVE  \E t \in 0..c : Takes(s, c, k, t)
  <1> DEFINE Fits(n) == /\ n <= MaxPerKind
                        /\ n = 1 \/ TokensOf({s[m] : m \in 1..n}) <= BudgetFor(k)
             D == {n \in 1..c : \A m \in 1..n : Fits(m)}
             Outside == {n \in Nat : n >= 1 /\ n \notin D}
  <1>m. MaxPerKind \in Nat
    BY NumberFacts
  <1>1. Allocate(s, k) = [n \in D |-> s[n]]
    BY DEF Allocate
  <1>2. c + 1 \in Outside
    OBVIOUS
  <1>3. PICK u \in Outside : \A n \in Outside : u <= n
    BY <1>2, LeastNat
  <1> DEFINE t == u - 1
  <1>4. t \in 0..c
    BY <1>2, <1>3
  <1> HIDE DEF Fits
  <1>5. D = 1..t
    <2>1. ASSUME NEW n \in D PROVE n \in 1..t
      <3>1. CASE n >= u
        <4>1. u \in 1..c /\ \A m \in 1..u : Fits(m)
          BY <3>1
        <4> QED
          BY <4>1
      <3> QED
        BY <3>1
    <2>2. ASSUME NEW n \in 1..t PROVE n \in D
      BY <1>3
    <2> QED
      BY <2>1, <2>2
  <1>6. \A n \in 1..t : Fits(n)
    <2> SUFFICES ASSUME NEW n \in 1..t PROVE Fits(n)
      OBVIOUS
    <2>1. n \in D
      BY <1>5
    <2> QED
      BY <2>1
  <1>7. t < c => ~Fits(u)
    <2> SUFFICES ASSUME t < c, Fits(u) PROVE FALSE
      OBVIOUS
    <2>1. \A m \in 1..u : Fits(m)
      BY <1>6
    <2>2. u \in D
      BY <2>1, <1>4
    <2> QED
      BY <2>2
  <1>8. t <= MaxPerKind /\ (t <= 1 \/ TokensOf({s[m] : m \in 1..t}) <= BudgetFor(k))
    <2>1. t = 0 \/ Fits(t)
      BY <1>4, <1>6
    <2> HIDE DEF t
    <2>2. CASE t = 0
      BY <2>2, <1>m
    <2>3. CASE Fits(t)
      <3>1. t = 1 => t <= 1
        OBVIOUS
      <3> QED
        BY <2>3, <3>1, Zenon DEF Fits
    <2> QED
      BY <2>1, <2>2, <2>3
  <1>9. t < c => \/ t = MaxPerKind
                 \/ /\ t >= 1
                    /\ ~(TokensOf({s[m] : m \in 1..t+1}) <= BudgetFor(k))
    <2>1. t + 1 = u
      OBVIOUS
    <2> HIDE DEF t
    <2> SUFFICES ASSUME t < c
                 PROVE  \/ t = MaxPerKind
                        \/ /\ t >= 1
                           /\ ~(TokensOf({s[m] : m \in 1..t+1}) <= BudgetFor(k))
      OBVIOUS
    <2>2. \/ ~(u <= MaxPerKind)
          \/ u # 1 /\ ~(TokensOf({s[m] : m \in 1..u}) <= BudgetFor(k))
      BY <1>7 DEF Fits
    <2>3. {s[m] : m \in 1..u} = {s[m] : m \in 1..t+1}
      BY <2>1
    <2>4. CASE ~(u <= MaxPerKind)
      BY <2>1, <2>4, <1>4, <1>8, <1>m
    <2>5. CASE u # 1 /\ ~(TokensOf({s[m] : m \in 1..u}) <= BudgetFor(k))
      <3>1. t >= 1
        BY <2>1, <2>5, <1>4
      <3>2. ~(TokensOf({s[m] : m \in 1..t+1}) <= BudgetFor(k))
        BY <2>3, <2>5, Zenon
      <3> QED
        BY <3>1, <3>2
    <2> QED
      BY <2>2, <2>4, <2>5
  <1> HIDE DEF D, t
  <1>10. Allocate(s, k) = [n \in 1..t |-> s[n]]
    BY <1>1, <1>5
  <1>11. Takes(s, c, k, t)
    BY <1>8, <1>9, <1>10, Zenon DEF Takes
  <1> QED
    BY <1>4, <1>11

-----------------------------------------------------------------------------
(* Types.                                                                  *)

\* What a read remembers of some rows, by id.
Copies == UNION {[S -> Seen] : S \in SUBSET Ids}

ReadSet ==
    [pc : {"idle", "search", "anchor", "fetch", "report", "done", "failed"},
     mode : {"context", "search"}, weights : Versions,
     hits : SUBSET Ids, named : 0..Len(Linked),
     vec : Copies, ent : Copies, rec : Copies,
     found : Seq(Ids), out : [Kinds -> Seq(Ids)],
     began : Nat, asof : [Ids -> Nat], gone : SUBSET Ids]

\* What is remembered of a row is a confidence and a time.
LEMMA CopiesFacts ==
    ASSUME NEW f \in Copies
    PROVE  /\ DOMAIN f \subseteq Ids
           /\ \A i \in DOMAIN f : f[i].conf \in 0..100 /\ f[i].updated \in Nat
  BY DEF Copies, Seen

\* Merging adds the rows of g that f lacks.
LEMMA MergeFacts ==
    ASSUME NEW f \in Copies, NEW g \in Copies
    PROVE  /\ Merge(f, g) \in Copies
           /\ DOMAIN Merge(f, g) = DOMAIN f \cup DOMAIN g
           /\ \A i \in DOMAIN f : Merge(f, g)[i] = f[i]
           /\ \A i \in DOMAIN g \ DOMAIN f : Merge(f, g)[i] = g[i]
  <1>1. /\ DOMAIN f \subseteq Ids /\ \A i \in DOMAIN f : f[i] \in Seen
        /\ DOMAIN g \subseteq Ids /\ \A i \in DOMAIN g : g[i] \in Seen
    BY DEF Copies
  <1>2. /\ DOMAIN Merge(f, g) = DOMAIN f \cup DOMAIN g
        /\ \A i \in DOMAIN f : Merge(f, g)[i] = f[i]
        /\ \A i \in DOMAIN g \ DOMAIN f : Merge(f, g)[i] = g[i]
    BY DEF Merge
  <1>3. Merge(f, g) \in [DOMAIN f \cup DOMAIN g -> Seen]
    BY <1>1 DEF Merge
  <1> QED
    BY <1>1, <1>2, <1>3 DEF Copies

\* A candidate's row is the one of the source that found it.
LEMMA CandidatesFacts ==
    ASSUME NEW x \in ReadSet
    PROVE  /\ Candidates(x) \in Copies
           /\ DOMAIN Candidates(x) = DOMAIN x.vec \cup DOMAIN x.ent \cup DOMAIN x.rec
           /\ \A i \in DOMAIN Candidates(x) :
                 \E seen \in {x.vec, x.ent, x.rec} :
                     i \in DOMAIN seen /\ Candidates(x)[i] = seen[i]
  <1>1. x.vec \in Copies /\ x.ent \in Copies /\ x.rec \in Copies
    BY DEF ReadSet
  <1> DEFINE m == Merge(x.ent, x.rec)
  <1>2. /\ m \in Copies
        /\ DOMAIN m = DOMAIN x.ent \cup DOMAIN x.rec
        /\ \A i \in DOMAIN x.ent : m[i] = x.ent[i]
        /\ \A i \in DOMAIN x.rec \ DOMAIN x.ent : m[i] = x.rec[i]
    BY <1>1, MergeFacts
  <1> HIDE DEF m
  <1>3. /\ Merge(x.vec, m) \in Copies
        /\ DOMAIN Merge(x.vec, m) = DOMAIN x.vec \cup DOMAIN m
        /\ \A i \in DOMAIN x.vec : Merge(x.vec, m)[i] = x.vec[i]
        /\ \A i \in DOMAIN m \ DOMAIN x.vec : Merge(x.vec, m)[i] = m[i]
    BY <1>1, <1>2, MergeFacts
  <1>4. Candidates(x) = Merge(x.vec, m)
    BY DEF Candidates, m
  <1> QED
    BY <1>2, <1>3, <1>4

-----------------------------------------------------------------------------
(* A package is well chosen.                                               *)

\* No two rows a read remembers were updated at the same time.
Distinct(x) ==
    \A seen, other \in {x.vec, x.ent, x.rec} :
        \A i \in DOMAIN seen, j \in DOMAIN other :
            i # j => seen[i].updated # other[j].updated

\* What a score is made of are numbers.
LEMMA CandidateType ==
    ASSUME NEW x \in ReadSet, NEW i \in DOMAIN Candidates(x)
    PROVE  /\ i \in Ids /\ Similarity[i] \in Int
           /\ Candidates(x)[i].updated \in Int /\ Candidates(x)[i].conf \in Int
  <1>1. Candidates(x) \in Copies
    BY CandidatesFacts
  <1>2. /\ i \in Ids
        /\ Candidates(x)[i].updated \in Int /\ Candidates(x)[i].conf \in Int
    BY <1>1, CopiesFacts
  <1>3. Similarity[i] \in Int
    BY <1>2, NumberFacts
  <1> QED
    BY <1>2, <1>3

\* Scores are numbers.
LEMMA ScoreType ==
    ASSUME NEW x \in ReadSet, NEW w \in Versions, NEW i \in DOMAIN Candidates(x)
    PROVE  Score(x, w, i) \in Int
  <1>1. /\ Similarity[i] \in Int
        /\ Candidates(x)[i].updated \in Int /\ Candidates(x)[i].conf \in Int
    BY CandidateType
  <1> DEFINE v == IF i \in DOMAIN x.vec THEN Similarity[i] ELSE 0
             e == IF i \in DOMAIN x.ent THEN 50 ELSE 0
             W == Scorings[w]
  <1>4. v \in Int /\ e \in Int
    BY <1>1
  <1>5. W.vector \in Int /\ W.entity \in Int /\ W.recency \in Int /\ W.confidence \in Int
    BY ScoringFacts
  <1>6. Score(x, w, i) = W.vector * v + W.entity * e
                         + W.recency * Candidates(x)[i].updated
                         + W.confidence * Candidates(x)[i].conf
    BY DEF Score
  <1> HIDE DEF v, e, W
  <1>7. /\ W.vector * v \in Int /\ W.entity * e \in Int
        /\ W.recency * Candidates(x)[i].updated \in Int
        /\ W.confidence * Candidates(x)[i].conf \in Int
    BY <1>1, <1>4, <1>5
  <1> QED
    BY <1>6, <1>7

\* The scores order the candidates strictly and totally, time breaking ties.
LEMMA RankingOrders ==
    ASSUME NEW x \in ReadSet, Distinct(x), NEW w \in Versions,
           NEW S \in SUBSET DOMAIN Candidates(x)
    PROVE  Orders(Ranking(x, w), S)
  <1> DEFINE C == DOMAIN Candidates(x)
             T(i) == Candidates(x)[i].updated
             P(i) == Score(x, w, i)
  <1>1. \A i \in C : P(i) \in Int /\ T(i) \in Int
    BY ScoreType, CandidateType
  <1>2. \A i, j \in C : i # j => T(i) # T(j)
    <2> SUFFICES ASSUME NEW i \in C, NEW j \in C, i # j PROVE T(i) # T(j)
      OBVIOUS
    <2>1. PICK seen \in {x.vec, x.ent, x.rec} :
              i \in DOMAIN seen /\ Candidates(x)[i] = seen[i]
      BY CandidatesFacts
    <2>2. PICK other \in {x.vec, x.ent, x.rec} :
              j \in DOMAIN other /\ Candidates(x)[j] = other[j]
      BY CandidatesFacts
    <2>3. seen[i].updated # other[j].updated
      BY <2>1, <2>2 DEF Distinct
    <2> QED
      BY <2>1, <2>2, <2>3
  <1>3. \A i, j \in C : <<i, j>> \in Ranking(x, w) <=>
            P(i) > P(j) \/ (P(i) = P(j) /\ T(i) > T(j))
    BY DEF Ranking, Better
  <1> HIDE DEF C, T, P
  <1>4. S \subseteq C
    BY DEF C
  <1>5. \A i \in S : <<i, i>> \notin Ranking(x, w)
    BY <1>1, <1>3, <1>4
  <1>6. \A i, j \in S : i # j => <<i, j>> \in Ranking(x, w) \/ <<j, i>> \in Ranking(x, w)
    BY <1>1, <1>2, <1>3, <1>4
  <1>7. \A i, j, k \in S : <<i, j>> \in Ranking(x, w) /\ <<j, k>> \in Ranking(x, w)
                              => <<i, k>> \in Ranking(x, w)
    BY <1>1, <1>3, <1>4
  <1> QED
    BY <1>5, <1>6, <1>7 DEF Orders

\* What PackageRanked says of the list of one kind.
Chosen(x, took, k) ==
    LET left == Bucket(x, k) \ Range(took)
    IN  /\ Range(took) \subseteq Bucket(x, k)
        /\ \A m, n \in DOMAIN took : m < n => Better(x, x.weights, took[m], took[n])
        /\ \A i \in left, j \in Range(took) : Better(x, x.weights, j, i)
        /\ Len(took) <= MaxPerKind
        /\ Len(took) <= 1 \/ TokensOf(Range(took)) <= BudgetFor(k)
        /\ \A i \in left : (\A j \in left \ {i} : Better(x, x.weights, i, j)) =>
              \/ Len(took) = MaxPerKind
              \/ /\ took # <<>>
                 /\ ~(TokensOf(Range(took) \cup {i}) <= BudgetFor(k))

\* A package is chosen well: what a bucket takes is a beginning of its order.
LEMMA PackageChosen ==
    ASSUME NEW x \in ReadSet, Distinct(x), NEW k \in Kinds
    PROVE  /\ Package(x, x.weights)[k] \in Seq(Ids)
           /\ Chosen(x, Package(x, x.weights)[k], k)
  <1> DEFINE w == x.weights
             S == Bucket(x, k)
             R == Ranking(x, w)
             s == Sorted(S, R)
             c == Cardinality(S)
             took == Package(x, w)[k]
  <1>w. w \in Versions
    BY DEF ReadSet
  <1>1. S \subseteq DOMAIN Candidates(x) /\ S \subseteq Ids /\ IsFiniteSet(S)
    <2>1. S \subseteq DOMAIN Candidates(x)
      BY DEF Bucket
    <2>2. S \subseteq Ids
      BY <2>1, CandidatesFacts, CopiesFacts
    <2> QED
      BY <2>1, <2>2, FS_Subset, IdsFacts
  <1>2. Orders(R, S)
    BY <1>1, <1>w, RankingOrders
  <1>3. \A i, j \in S : <<i, j>> \in R <=> Better(x, w, i, j)
    BY <1>1 DEF Ranking
  <1> HIDE DEF S, R
  <1>4. /\ c \in Nat
        /\ s \in [1..c -> S]
        /\ \A m, n \in 1..c : m < n => <<s[m], s[n]>> \in R
        /\ \A i \in S : \E n \in 1..c : s[n] = i
    <2>1. IsFiniteSet(S) /\ Orders(R, S)
      BY <1>1, <1>2, Zenon
    <2> DEFINE t == Sorted(S, R)
               d == Cardinality(S)
    <2>2. /\ d \in Nat
          /\ t \in [1..d -> S]
          /\ \A m, n \in 1..d : m < n => <<t[m], t[n]>> \in R
          /\ \A i \in S : \E n \in 1..d : t[n] = i
      BY <2>1, SortedFacts
    <2> QED
      BY <2>2, Zenon
  <1>5. took = Allocate(s, k)
    BY DEF Package, S, R
  <1> HIDE DEF s, c
  <1>6. PICK t \in 0..c : Takes(s, c, k, t)
    <2>1. c \in Nat /\ DOMAIN s = 1..c
      BY <1>4
    <2> QED
      BY <2>1, AllocateFacts, Zenon
  <1>7. took = [n \in 1..t |-> s[n]]
    BY <1>5, <1>6, Zenon DEF Takes
  <1> HIDE DEF took
  <1>8. /\ t \in Nat /\ took \in Seq(S) /\ Len(took) = t /\ DOMAIN took = 1..t
        /\ \A n \in 1..t : n \in 1..c /\ took[n] = s[n]
    <2>1. t \in Nat /\ 1..t \subseteq 1..c
      BY <1>4
    <2>2. \A n \in 1..t : s[n] \in S
      BY <1>4, <2>1
    <2> QED
      BY <1>7, <2>1, <2>2
  <1>9. Range(took) = {s[m] : m \in 1..t}
    BY <1>8 DEF Range
  <1>10. \A i \in S \ Range(took) : \E n \in 1..c : i = s[n] /\ n > t
    <2> SUFFICES ASSUME NEW i \in S \ Range(took)
                 PROVE  \E n \in 1..c : i = s[n] /\ n > t
      OBVIOUS
    <2>1. PICK n \in 1..c : s[n] = i
      BY <1>4
    <2>2. ~(n <= t)
      BY <1>9, <2>1, <1>4
    <2> QED
      BY <2>1, <2>2, <1>4
  <1>11. Range(took) \subseteq S
    BY <1>4, <1>8, <1>9
  <1>12. \A m, n \in DOMAIN took : m < n => Better(x, w, took[m], took[n])
    <2> SUFFICES ASSUME NEW m \in 1..t, NEW n \in 1..t, m < n
                 PROVE  Better(x, w, took[m], took[n])
      BY <1>8
    <2>1. <<s[m], s[n]>> \in R /\ s[m] \in S /\ s[n] \in S
      BY <1>4, <1>8
    <2> QED
      BY <2>1, <1>3, <1>8
  <1>13. \A i \in S \ Range(took), j \in Range(took) : Better(x, w, j, i)
    <2> SUFFICES ASSUME NEW i \in S \ Range(took), NEW j \in Range(took)
                 PROVE  Better(x, w, j, i)
      OBVIOUS
    <2>1. PICK n \in 1..c : i = s[n] /\ n > t
      BY <1>10
    <2>2. PICK m \in 1..t : j = s[m]
      BY <1>9
    <2>3. <<j, i>> \in R
      BY <2>1, <2>2, <1>4, <1>8
    <2> QED
      BY <2>3, <1>3, <1>11
  <1>14. Len(took) <= 1 \/ TokensOf(Range(took)) <= BudgetFor(k)
    <2>1. t <= 1 \/ TokensOf({s[m] : m \in 1..t}) <= BudgetFor(k)
      BY <1>6, Zenon DEF Takes
    <2> QED
      BY <2>1, <1>8, <1>9
  <1>15. ASSUME NEW i \in S \ Range(took),
                \A j \in (S \ Range(took)) \ {i} : Better(x, w, i, j)
         PROVE  \/ Len(took) = MaxPerKind
                \/ /\ took # <<>>
                   /\ ~(TokensOf(Range(took) \cup {i}) <= BudgetFor(k))
    <2>1. PICK n \in 1..c : i = s[n] /\ n > t
      BY <1>10
    <2>2. t < c /\ t + 1 \in 1..c
      BY <1>4, <1>8, <2>1
    <2>3. s[t+1] \in S \ Range(took)
      <3>1. s[t+1] \in S
        BY <1>4, <2>2
      <3>2. ASSUME NEW m \in 1..t, s[t+1] = s[m] PROVE FALSE
        <4>1. <<s[m], s[t+1]>> \in R
          BY <1>4, <1>8, <2>2
        <4> QED
          BY <3>1, <3>2, <4>1, <1>2 DEF Orders
      <3> QED
        BY <3>1, <3>2, <1>9
    <2>4. i = s[t+1]
      <3> SUFFICES ASSUME i # s[t+1] PROVE FALSE
        OBVIOUS
      <3>1. <<s[t+1], i>> \in R
        BY <1>4, <1>8, <2>1, <2>2
      <3>2. <<i, s[t+1]>> \in R
        BY <1>3, <1>15, <2>3
      <3> QED
        BY <3>1, <3>2, <2>3, <1>2 DEF Orders
    <2>5. Range(took) \cup {i} = {s[m] : m \in 1..t+1}
      BY <1>8, <1>9, <2>4
    <2>6. CASE t = MaxPerKind
      BY <2>6, <1>8
    <2>7. CASE /\ t >= 1
               /\ ~(TokensOf({s[m] : m \in 1..t+1}) <= BudgetFor(k))
      <3>1. took # <<>>
        BY <2>7, <1>8
      <3>2. ~(TokensOf(Range(took) \cup {i}) <= BudgetFor(k))
        BY <2>5, <2>7, Zenon
      <3> QED
        BY <3>1, <3>2
    <2> QED
      BY <1>6, <2>2, <2>6, <2>7, Zenon DEF Takes
  <1>16. took \in Seq(Ids)
    BY <1>1, <1>8
  <1>17. Len(took) <= MaxPerKind
    BY <1>6, <1>8 DEF Takes
  <1>18. Chosen(x, took, k)
    BY <1>11, <1>12, <1>13, <1>14, <1>15, <1>17 DEF Chosen, S
  <1> QED
    BY <1>16, <1>18 DEF took

-----------------------------------------------------------------------------
(* The invariant.                                                          *)

RowSet == [conf : 0..100, updated : Nat, live : BOOLEAN]
Entries == [mem : Ids, conf : 0..100]
ReportSet == [id : Reads, entries : [Kinds -> Seq(Entries)]]
FeedbackSet == [pc : {"idle", "write", "done", "failed"},
                mem : Ids \cup {0}, kind : FeedbackKinds, conf : 0..100]
ForgetSet == [pc : {"idle", "unindex", "done", "failed"}, mem : Ids \cup {0}]

\* The types of what readers do not write, and of what they write.
TableTyped ==
    /\ row \in [Ids -> RowSet]
    /\ side \subseteq points /\ points \subseteq Ids
    /\ feedback \in [Feedbacks -> FeedbackSet] /\ forget \in [Forgets -> ForgetSet]
    /\ clock \in Nat
    /\ due \in [Ids -> 0..100] /\ raced \subseteq Ids /\ gone \subseteq Ids
ReaderTyped ==
    /\ scoring \in Versions
    /\ ring \in Seq(ReportSet)
    /\ read \in [Reads -> ReadSet]
    /\ reported \in Seq(Reads)

\* Rows have been updated at different times; what was forgotten is deleted and has
\* no point.
TableInv ==
    /\ \A i \in Ids : row[i].updated <= clock
    /\ \A i, j \in Ids : i # j => row[i].updated # row[j].updated
    /\ \A i \in gone : i \notin side /\ ~row[i].live
    /\ \A f \in Forgets : forget[f].pc = "unindex" =>
          forget[f].mem \in Ids /\ ~row[forget[f].mem].live

\* Two who write the same memory have raced; who has not raced writes what follows
\* from the row as it is.
FeedbackInv ==
    /\ \A f \in Feedbacks : feedback[f].pc = "write" => feedback[f].mem \in Ids
    /\ \A f, g \in Feedbacks :
          /\ f # g /\ feedback[f].pc = "write" /\ feedback[g].pc = "write"
          /\ feedback[f].mem = feedback[g].mem
          => feedback[f].mem \in raced
    /\ \A f \in Feedbacks :
          feedback[f].pc = "write" /\ feedback[f].mem \notin raced =>
              feedback[f].conf = row[feedback[f].mem].conf
    /\ FeedbackCounts

\* The rows a read x remembers are no older than its beginning, of the past, and of a
\* time that no other row has.
TimeInv(x) ==
    /\ x.began <= clock
    /\ \A i \in Ids : x.asof[i] <= row[i].updated
    /\ \A seen \in {x.vec, x.ent, x.rec} : \A i \in DOMAIN seen :
          /\ seen[i].updated <= clock
          /\ x.asof[i] <= seen[i].updated
          /\ \A j \in Ids \ {i} : seen[i].updated # row[j].updated
    /\ Distinct(x)

\* Nothing of what was forgotten before a read began is in its hands, and what it
\* returns is among the rows it remembers; the recent ones it learns last.
HiddenInv(x) ==
    /\ x.gone \subseteq gone
    /\ x.hits \cap x.gone = {}
    /\ \A seen \in {x.vec, x.ent, x.rec} : DOMAIN seen \cap x.gone = {}
    /\ Range(x.found) \subseteq DOMAIN x.vec
    /\ \A k \in Kinds : Range(x.out[k]) \subseteq DOMAIN Candidates(x)
    /\ x.pc \in {"search", "anchor"} => DOMAIN x.rec = {}

\* Past recent_in_scope, a read that nobody wrote beside has the latest rows.
ListedInv(x) ==
    x.pc \in {"fetch", "report"} /\ x.mode = "context" /\ clock = x.began =>
        Listed(Ids, RecentWindow) \subseteq DOMAIN x.rec

\* A package about to be reported is one of read_context, and chosen well.
ChosenInv(x) ==
    x.pc = "report" => x.mode = "context" /\ \A k \in Kinds : Chosen(x, x.out[k], k)

ReadInv(x) == TimeInv(x) /\ HiddenInv(x) /\ ListedInv(x) /\ ChosenInv(x)

\* A report says what its package holds.
Explains(report) ==
    \A k \in Kinds :
        LET listed == report.entries[k] IN
        /\ [e \in DOMAIN listed |-> listed[e].mem] = read[report.id].out[k]
        /\ \A e \in DOMAIN listed : listed[e].conf >= MinConfidence

\* The ring holds the reports of the last packages, backwards.
RingInv ==
    /\ Len(ring) <= Capacity
    /\ Len(ring) <= Len(reported)
    /\ Len(ring) = Capacity \/ Len(ring) = Len(reported)
    /\ \A n \in 1..Len(ring) :
          /\ ring[n].id = reported[Len(reported) + 1 - n]
          /\ read[ring[n].id].pc = "done"
          /\ Explains(ring[n])

IInv ==
    /\ TableTyped /\ ReaderTyped /\ faults \in 0..MaxFaults
    /\ TableInv /\ FeedbackInv
    /\ \A r \in Reads : ReadInv(read[r])
    /\ RingInv

-----------------------------------------------------------------------------
(* The beginning.                                                          *)

\* A call that has not begun holds nothing.
LEMMA IdleFacts ==
    /\ Idle \in ReadSet
    /\ Idle.pc = "idle" /\ Idle.hits = {} /\ Idle.gone = {} /\ Idle.began = 0
    /\ Idle.asof = [i \in Ids |-> 0] /\ Idle.found = <<>>
    /\ Idle.out = [k \in Kinds |-> <<>>] /\ Idle.named = 0
    /\ \A seen \in {Idle.vec, Idle.ent, Idle.rec} : DOMAIN seen = {}
  <1> DEFINE none == [i \in {} |-> 0]
  <1>1. none \in Copies /\ DOMAIN none = {}
    <2>1. none \in [{} -> Seen]
      OBVIOUS
    <2> QED
      BY <2>1 DEF Copies
  <1>2. /\ 0 \in 0..Len(Linked) /\ 1 \in Versions /\ <<>> \in Seq(Ids)
        /\ [i \in Ids |-> 0] \in [Ids -> Nat]
        /\ [k \in Kinds |-> <<>>] \in [Kinds -> Seq(Ids)]
    BY LinkedFacts, ScoringFacts
  <1> HIDE DEF none
  <1>3. Idle = [pc |-> "idle", mode |-> "context", weights |-> 1, hits |-> {},
                named |-> 0, vec |-> none, ent |-> none, rec |-> none, found |-> <<>>,
                out |-> [k \in Kinds |-> <<>>], began |-> 0,
                asof |-> [i \in Ids |-> 0], gone |-> {}]
    BY DEF Idle, none
  <1> DEFINE lists == [k \in Kinds |-> <<>>]
             times == [i \in Ids |-> 0]
  <1>4. lists \in [Kinds -> Seq(Ids)] /\ times \in [Ids -> Nat]
    BY <1>2
  <1> HIDE DEF lists, times
  <1>5. Idle = [pc |-> "idle", mode |-> "context", weights |-> 1, hits |-> {},
                named |-> 0, vec |-> none, ent |-> none, rec |-> none, found |-> <<>>,
                out |-> lists, began |-> 0, asof |-> times, gone |-> {}]
    BY <1>3 DEF lists, times
  <1>6. Idle \in ReadSet
    BY <1>1, <1>2, <1>4, <1>5 DEF ReadSet
  <1>7. /\ Idle.pc = "idle" /\ Idle.hits = {} /\ Idle.gone = {} /\ Idle.began = 0
        /\ Idle.asof = times /\ Idle.found = <<>> /\ Idle.out = lists /\ Idle.named = 0
        /\ Idle.vec = none /\ Idle.ent = none /\ Idle.rec = none
    BY <1>5
  <1> QED
    BY <1>1, <1>6, <1>7 DEF lists, times

\* So it has nothing wrong.
LEMMA IdleInv ==
    ASSUME TableTyped, NEW x \in ReadSet,
           x.hits = {}, x.found = <<>>, x.out = [k \in Kinds |-> <<>>],
           x.pc \notin {"fetch", "report"},
           \A seen \in {x.vec, x.ent, x.rec} : DOMAIN seen = {},
           x.gone \subseteq gone, x.began <= clock,
           \A i \in Ids : x.asof[i] <= row[i].updated
    PROVE  ReadInv(x)
  <1>1. TimeInv(x)
    BY DEF TimeInv, Distinct
  <1>2. HiddenInv(x)
    BY DEF HiddenInv, Range
  <1>3. ListedInv(x) /\ ChosenInv(x)
    BY DEF ListedInv, ChosenInv
  <1> QED
    BY <1>1, <1>2, <1>3 DEF ReadInv

\* It holds at the start.
LEMMA InitIInv == Init => IInv
  <1> SUFFICES ASSUME Init PROVE IInv
    OBVIOUS
  <1>0. /\ row = [i \in Ids |-> [conf |-> Confidence[i], updated |-> i, live |-> TRUE]]
        /\ points = Ids /\ side = Ids /\ scoring = 1 /\ ring = <<>>
        /\ read = [r \in Reads |-> Idle]
        /\ feedback = [f \in Feedbacks |-> Over("idle")]
        /\ forget = [f \in Forgets |-> [pc |-> "idle", mem |-> 0]]
        /\ clock = Cardinality(Ids) /\ faults = 0 /\ due = Confidence
        /\ raced = {} /\ gone = {} /\ reported = <<>>
    BY DEF Init
  <1>1. clock \in Nat /\ \A i \in Ids : i \in Nat /\ i <= clock
    BY <1>0, IdsFacts
  <1>2. \A i \in Ids : Confidence[i] \in 0..100
    BY NumberFacts
  <1>3. /\ \A i \in Ids : row[i] \in RowSet /\ row[i].updated = i
        /\ \A i \in Ids : row[i].conf = Confidence[i]
        /\ row \in [Ids -> RowSet]
    BY <1>0, <1>1, <1>2 DEF RowSet
  <1>4. /\ Over("idle") \in FeedbackSet /\ Over("idle").pc = "idle"
    BY DEF Over, FeedbackSet, FeedbackKinds
  <1>5. /\ feedback \in [Feedbacks -> FeedbackSet]
        /\ \A f \in Feedbacks : feedback[f].pc = "idle"
    BY <1>0, <1>4
  <1>6. /\ forget \in [Forgets -> ForgetSet]
        /\ \A f \in Forgets : forget[f].pc = "idle"
    BY <1>0 DEF ForgetSet
  <1>7. TableTyped
    BY <1>0, <1>1, <1>3, <1>5, <1>6, NumberFacts DEF TableTyped
  <1>8. ReaderTyped
    <2>1. read \in [Reads -> ReadSet]
      BY <1>0, IdleFacts
    <2>2. ring \in Seq(ReportSet) /\ reported \in Seq(Reads)
      BY <1>0
    <2> QED
      BY <2>1, <2>2, <1>0, ScoringFacts DEF ReaderTyped
  <1>9. TableInv
    BY <1>0, <1>1, <1>3, <1>6 DEF TableInv
  <1>10. FeedbackInv
    BY <1>0, <1>3, <1>5 DEF FeedbackInv, FeedbackCounts
  <1>11. ASSUME NEW r \in Reads PROVE ReadInv(read[r])
    <2>1. read[r] = Idle
      BY <1>0
    <2>2. \A i \in Ids : Idle.asof[i] <= row[i].updated
      BY <1>1, <1>3, IdleFacts
    <2>3. Idle.began <= clock
      BY <1>1, IdleFacts
    <2> QED
      BY <1>7, <2>1, <2>2, <2>3, IdleFacts, IdleInv
  <1>12. RingInv
    BY <1>0, NumberFacts DEF RingInv
  <1>13. faults \in 0..MaxFaults
    BY <1>0, NumberFacts
  <1> QED
    BY <1>7, <1>8, <1>9, <1>10, <1>11, <1>12, <1>13 DEF IInv

-----------------------------------------------------------------------------
(* Writers.                                                                *)

\* What feedback and forgetting may do under a read's eyes.
Moves ==
    /\ clock' >= clock
    /\ gone \subseteq gone'
    /\ clock' = clock => row' = row
    /\ \A i \in Ids : row'[i].updated = row[i].updated \/ row'[i].updated > clock

\* Whatever they do, what a read holds stays right.
LEMMA ReadKept ==
    ASSUME TableTyped, TableTyped', TableInv, Moves, NEW x \in ReadSet, ReadInv(x)
    PROVE  ReadInv(x)'
  <1>0. clock \in Nat /\ clock' \in Nat /\ clock' >= clock /\ x.began \in Nat
    BY DEF TableTyped, Moves, ReadSet
  <1>1. /\ \A i \in Ids : row[i].updated \in Nat /\ row'[i].updated \in Nat
        /\ \A i \in Ids : x.asof[i] \in Nat
    BY DEF TableTyped, RowSet, ReadSet
  <1>2. x.vec \in Copies /\ x.ent \in Copies /\ x.rec \in Copies
    BY DEF ReadSet
  <1>3. TimeInv(x)'
    <2>1. x.began <= clock'
      BY <1>0 DEF ReadInv, TimeInv
    <2>2. ASSUME NEW i \in Ids PROVE x.asof[i] <= row'[i].updated
      <3>1. x.asof[i] <= row[i].updated
        BY DEF ReadInv, TimeInv
      <3>2. row'[i].updated = row[i].updated \/ row'[i].updated > clock
        BY DEF Moves
      <3>3. row[i].updated <= clock
        BY DEF TableInv
      <3> QED
        BY <1>0, <1>1, <3>1, <3>2, <3>3
    <2>3. ASSUME NEW seen \in {x.vec, x.ent, x.rec}, NEW i \in DOMAIN seen
          PROVE  /\ seen[i].updated <= clock'
                 /\ x.asof[i] <= seen[i].updated
                 /\ \A j \in Ids \ {i} : seen[i].updated # row'[j].updated
      <3>1. seen[i].updated \in Nat
        BY <1>2, CopiesFacts
      <3>2. /\ seen[i].updated <= clock
            /\ x.asof[i] <= seen[i].updated
            /\ \A j \in Ids \ {i} : seen[i].updated # row[j].updated
        BY DEF ReadInv, TimeInv
      <3> QED
        BY <1>0, <1>1, <3>1, <3>2 DEF Moves
    <2> QED
      BY <2>1, <2>2, <2>3 DEF ReadInv, TimeInv, Distinct
  <1>4. HiddenInv(x)'
    BY DEF ReadInv, HiddenInv, Moves, Candidates, Merge, Range
  <1>5. ListedInv(x)'
    <2> SUFFICES ASSUME x.pc \in {"fetch", "report"}, x.mode = "context", clock' = x.began
                 PROVE  Listed(Ids, RecentWindow)' \subseteq DOMAIN x.rec
      BY DEF ListedInv
    <2>1. clock = x.began /\ row' = row
      BY <1>0 DEF ReadInv, TimeInv, Moves
    <2>2. Listed(Ids, RecentWindow) \subseteq DOMAIN x.rec
      BY <2>1 DEF ReadInv, ListedInv
    <2>3. Listed(Ids, RecentWindow)' = Listed(Ids, RecentWindow)
      BY <2>1 DEF Listed, First, Newer, InScope, ExpandInherited
    <2> QED
      BY <2>2, <2>3
  <1>6. ChosenInv(x)'
    BY DEF ReadInv, ChosenInv, Chosen, Bucket, Candidates, Merge, Better, Score, Range,
           BudgetFor, TokensOf
  <1> QED
    BY <1>3, <1>4, <1>5 DEF ReadInv

\* record_feedback reads.
LEMMA FeedbackReadStep ==
    ASSUME TableTyped, TableInv, FeedbackInv,
           NEW f \in Feedbacks, NEW v \in Votes, FeedbackRead(f, v)
    PROVE  TableTyped' /\ TableInv' /\ FeedbackInv' /\ Moves
  <1> DEFINE x == [pc |-> "write", mem |-> v.mem, kind |-> v.kind,
                   conf |-> row[v.mem].conf]
             both == {feedback[g].mem : g \in {g \in Feedbacks :
                         feedback[g].pc = "write" /\ feedback[g].mem = v.mem}}
  <1>1. v.mem \in Ids /\ v.kind \in FeedbackKinds
    BY InputFacts
  <1>2. /\ feedback' = [feedback EXCEPT ![f] = x] /\ raced' = raced \cup both
        /\ UNCHANGED <<row, points, side, forget, clock, due, gone>>
        /\ feedback[f].pc = "idle"
    BY DEF FeedbackRead
  <1>3. row[v.mem].conf \in 0..100
    BY <1>1 DEF TableTyped, RowSet
  <1>4. x \in FeedbackSet /\ x.pc = "write" /\ x.mem = v.mem /\ x.conf = row[v.mem].conf
    BY <1>1, <1>3 DEF FeedbackSet
  <1>5. both \subseteq {v.mem}
    OBVIOUS
  <1>6. \A g \in Feedbacks : feedback[g].pc = "write" /\ feedback[g].mem = v.mem
                                 => v.mem \in both
    OBVIOUS
  <1> HIDE DEF x, both
  <1>7. /\ feedback' \in [Feedbacks -> FeedbackSet] /\ feedback'[f] = x
        /\ \A g \in Feedbacks \ {f} : feedback'[g] = feedback[g]
    BY <1>2, <1>4 DEF TableTyped
  <1>8. TableTyped'
    BY <1>1, <1>2, <1>5, <1>7 DEF TableTyped
  <1>9. TableInv' /\ Moves
    BY <1>2 DEF TableInv, Moves, TableTyped
  <1>10. FeedbackInv'
    <2>1. \A g \in Feedbacks : feedback'[g].pc = "write" => feedback'[g].mem \in Ids
      BY <1>1, <1>4, <1>7 DEF FeedbackInv
    <2>2. ASSUME NEW g \in Feedbacks, NEW h \in Feedbacks, g # h,
                 feedback'[g].pc = "write", feedback'[h].pc = "write",
                 feedback'[g].mem = feedback'[h].mem
          PROVE  feedback'[g].mem \in raced'
      <3>1. CASE g = f
        BY <3>1, <2>2, <1>2, <1>4, <1>6, <1>7
      <3>2. CASE h = f
        BY <3>2, <2>2, <1>2, <1>4, <1>6, <1>7
      <3>3. CASE g # f /\ h # f
        BY <3>3, <2>2, <1>2, <1>7 DEF FeedbackInv
      <3> QED
        BY <3>1, <3>2, <3>3
    <2>3. \A g \in Feedbacks :
              feedback'[g].pc = "write" /\ feedback'[g].mem \notin raced' =>
                  feedback'[g].conf = row'[feedback'[g].mem].conf
      BY <1>2, <1>4, <1>7 DEF FeedbackInv
    <2>4. FeedbackCounts'
      BY <1>2 DEF FeedbackInv, FeedbackCounts
    <2> QED
      BY <2>1, <2>2, <2>3, <2>4 DEF FeedbackInv
  <1> QED
    BY <1>8, <1>9, <1>10

\* A confidence stays one.
LEMMA ApplyFeedbackType ==
    ASSUME NEW c \in 0..100, NEW k \in FeedbackKinds
    PROVE  ApplyFeedback(c, k) \in 0..100
  <1>1. Delta(k) \in Int
    BY DEF Delta, FeedbackKinds
  <1> HIDE DEF Delta
  <1> QED
    BY <1>1 DEF ApplyFeedback, Clamp

\* record_feedback writes: who has not raced adds his delta to what is there, and
\* nobody else was about to.
LEMMA FeedbackWriteStep ==
    ASSUME TableTyped, TableInv, FeedbackInv, NEW f \in Feedbacks, FeedbackWrite(f)
    PROVE  TableTyped' /\ TableInv' /\ FeedbackInv' /\ Moves
  <1> DEFINE m == feedback[f].mem
             k == feedback[f].kind
             c == ApplyFeedback(feedback[f].conf, k)
  <1>1. /\ m \in Ids /\ feedback[f].pc = "write"
        /\ k \in FeedbackKinds /\ feedback[f].conf \in 0..100
    BY DEF FeedbackWrite, FeedbackInv, TableTyped, FeedbackSet
  <1>2. c \in 0..100
    BY <1>1, ApplyFeedbackType
  <1>3. /\ row' = [row EXCEPT ![m].conf = c, ![m].updated = clock + 1]
        /\ clock' = clock + 1
        /\ due' = [due EXCEPT ![m] = ApplyFeedback(@, k)]
        /\ feedback' = [feedback EXCEPT ![f] = Over("done")]
        /\ UNCHANGED <<points, side, forget, raced, gone>>
    BY DEF FeedbackWrite, ApplyFeedback
  <1>4. clock \in Nat /\ row[m] \in RowSet
    BY <1>1 DEF TableTyped
  <1> HIDE DEF c
  <1>5. /\ row' \in [Ids -> RowSet]
        /\ row'[m].conf = c /\ row'[m].updated = clock + 1 /\ row'[m].live = row[m].live
        /\ \A i \in Ids \ {m} : row'[i] = row[i]
    <2>0. m \in Ids
      BY <1>1
    <2> HIDE DEF m, k
    <2>1. row \in [Ids -> RowSet] /\ clock + 1 \in Nat
      BY <1>4 DEF TableTyped
    <2> QED
      BY <1>2, <1>3, <2>0, <2>1, ZenonT(60) DEF RowSet
  <1>7. Over("done") \in FeedbackSet /\ Over("done").pc = "done"
    BY DEF Over, FeedbackSet, FeedbackKinds
  <1>8. /\ feedback' \in [Feedbacks -> FeedbackSet] /\ feedback'[f].pc = "done"
        /\ \A g \in Feedbacks \ {f} : feedback'[g] = feedback[g]
    BY <1>3, <1>7 DEF TableTyped
  <1>9. /\ due[m] \in 0..100
        /\ due'[m] = ApplyFeedback(due[m], k)
        /\ \A i \in Ids \ {m} : due'[i] = due[i]
    BY <1>1, <1>3 DEF TableTyped
  <1>10. due' \in [Ids -> 0..100]
    <2>1. ApplyFeedback(due[m], k) \in 0..100
      BY <1>1, <1>9, ApplyFeedbackType
    <2> QED
      BY <1>1, <1>3, <2>1 DEF TableTyped
  <1> HIDE DEF m, k
  <1>11. TableTyped'
    BY <1>3, <1>4, <1>5, <1>8, <1>10 DEF TableTyped
  <1>12. \A i \in Ids : row[i].updated \in Nat
    BY DEF TableTyped, RowSet
  <1>13. TableInv'
    <2>1. \A i \in Ids : row'[i].updated <= clock'
      BY <1>3, <1>4, <1>5, <1>12 DEF TableInv
    <2>2. \A i, j \in Ids : i # j => row'[i].updated # row'[j].updated
      <3> SUFFICES ASSUME NEW i \in Ids, NEW j \in Ids, i # j
                   PROVE  row'[i].updated # row'[j].updated
        OBVIOUS
      <3>1. /\ row[i].updated # row[j].updated
            /\ row[i].updated <= clock /\ row[j].updated <= clock
        BY DEF TableInv
      <3>2. /\ row'[i].updated = IF i = m THEN clock + 1 ELSE row[i].updated
            /\ row'[j].updated = IF j = m THEN clock + 1 ELSE row[j].updated
        BY <1>5
      <3> QED
        BY <1>4, <1>12, <3>1, <3>2
    <2>3. \A i \in Ids : row'[i].live = row[i].live
      BY <1>5
    <2>4. gone \subseteq Ids
      BY DEF TableTyped
    <2> QED
      BY <1>3, <2>1, <2>2, <2>3, <2>4 DEF TableInv
  <1>14. Moves
    BY <1>3, <1>4, <1>5 DEF Moves
  <1>15. FeedbackInv'
    <2>1. \A g \in Feedbacks : feedback'[g].pc = "write" =>
              g # f /\ feedback'[g] = feedback[g]
      BY <1>8
    <2>2. ASSUME NEW g \in Feedbacks, feedback'[g].pc = "write",
                 feedback'[g].mem \notin raced'
          PROVE  feedback'[g].conf = row'[feedback'[g].mem].conf
      <3>1. g # f /\ feedback'[g] = feedback[g] /\ raced' = raced
        BY <2>1, <2>2, <1>3
      <3>2. feedback[g].mem # m
        BY <2>2, <3>1, <1>1 DEF FeedbackInv, m
      <3>3. feedback[g].mem \in Ids
        BY <2>2, <3>1 DEF FeedbackInv
      <3> QED
        BY <2>2, <3>1, <3>2, <3>3, <1>5 DEF FeedbackInv
    <2>3. FeedbackCounts'
      <3>1. ASSUME NEW i \in Ids \ raced PROVE row'[i].conf = due'[i]
        <4>1. row[i].conf = due[i]
          BY DEF FeedbackInv, FeedbackCounts
        <4>2. CASE i = m
          <5>1. feedback[f].conf = row[m].conf
            BY <4>2, <1>1 DEF FeedbackInv, m
          <5>2. c = ApplyFeedback(due[m], k)
            BY <4>1, <4>2, <5>1 DEF c
          <5> QED
            BY <4>2, <5>2, <1>5, <1>9
        <4>3. CASE i # m
          BY <4>1, <4>3, <1>5, <1>9
        <4> QED
          BY <4>2, <4>3
      <3> QED
        BY <3>1, <1>3 DEF FeedbackCounts
    <2>4. \A g, h \in Feedbacks :
              /\ g # h /\ feedback'[g].pc = "write" /\ feedback'[h].pc = "write"
              /\ feedback'[g].mem = feedback'[h].mem
              => feedback'[g].mem \in raced'
      BY <2>1, <1>3 DEF FeedbackInv
    <2>5. \A g \in Feedbacks : feedback'[g].pc = "write" => feedback'[g].mem \in Ids
      BY <2>1 DEF FeedbackInv
    <2> QED
      BY <2>2, <2>3, <2>4, <2>5 DEF FeedbackInv
  <1> QED
    BY <1>11, <1>13, <1>14, <1>15

\* record_feedback fails between the two.
LEMMA FeedbackFailsStep ==
    ASSUME TableTyped, TableInv, FeedbackInv, NEW f \in Feedbacks, FeedbackFails(f)
    PROVE  TableTyped' /\ TableInv' /\ FeedbackInv' /\ Moves
  <1>1. /\ feedback' = [feedback EXCEPT ![f] = Over("failed")]
        /\ UNCHANGED <<row, points, side, forget, clock, due, raced, gone>>
    BY DEF FeedbackFails
  <1>2. Over("failed") \in FeedbackSet /\ Over("failed").pc = "failed"
    BY DEF Over, FeedbackSet, FeedbackKinds
  <1>3. /\ feedback' \in [Feedbacks -> FeedbackSet] /\ feedback'[f].pc = "failed"
        /\ \A g \in Feedbacks \ {f} : feedback'[g] = feedback[g]
    BY <1>1, <1>2 DEF TableTyped
  <1>4. TableTyped' /\ TableInv' /\ Moves
    BY <1>1, <1>3 DEF TableTyped, TableInv, Moves
  <1>5. \A g \in Feedbacks : feedback'[g].pc = "write" => feedback'[g] = feedback[g]
    BY <1>3
  <1>6. FeedbackInv'
    BY <1>1, <1>5 DEF FeedbackInv, FeedbackCounts
  <1> QED
    BY <1>4, <1>6

\* forget_memory deletes the row.
LEMMA SoftDeleteStep ==
    ASSUME TableTyped, TableInv, FeedbackInv,
           NEW f \in Forgets, NEW m \in Forgettable, SoftDelete(f, m)
    PROVE  TableTyped' /\ TableInv' /\ FeedbackInv' /\ Moves
  <1> DEFINE w == [pc |-> "unindex", mem |-> m]
  <1>1. m \in Ids
    BY InputFacts
  <1>2. /\ row' = [row EXCEPT ![m].live = FALSE, ![m].updated = clock + 1]
        /\ clock' = clock + 1
        /\ forget' = [forget EXCEPT ![f] = w]
        /\ UNCHANGED <<points, side, feedback, due, raced, gone>>
    BY DEF SoftDelete
  <1>3. clock \in Nat /\ row[m] \in RowSet
    BY <1>1 DEF TableTyped
  <1>4. /\ row' \in [Ids -> RowSet]
        /\ row'[m].live = FALSE /\ row'[m].updated = clock + 1 /\ row'[m].conf = row[m].conf
        /\ \A i \in Ids \ {m} : row'[i] = row[i]
    <2>1. row \in [Ids -> RowSet] /\ clock + 1 \in Nat
      BY <1>3 DEF TableTyped
    <2> QED
      BY <1>1, <1>2, <2>1, ZenonT(60) DEF RowSet
  <1>6. w \in ForgetSet /\ w.mem = m /\ w.pc = "unindex"
    BY <1>1 DEF ForgetSet
  <1> HIDE DEF w
  <1>7. /\ forget' \in [Forgets -> ForgetSet] /\ forget'[f] = w
        /\ \A g \in Forgets \ {f} : forget'[g] = forget[g]
    BY <1>2, <1>6 DEF TableTyped
  <1>8. TableTyped'
    BY <1>2, <1>3, <1>4, <1>7 DEF TableTyped
  <1>9. \A i \in Ids : row[i].updated \in Nat
    BY DEF TableTyped, RowSet
  <1>10. TableInv'
    <2>1. \A i \in Ids : row'[i].updated <= clock'
      BY <1>2, <1>3, <1>4, <1>9 DEF TableInv
    <2>2. \A i, j \in Ids : i # j => row'[i].updated # row'[j].updated
      <3> SUFFICES ASSUME NEW i \in Ids, NEW j \in Ids, i # j
                   PROVE  row'[i].updated # row'[j].updated
        OBVIOUS
      <3>1. /\ row[i].updated # row[j].updated
            /\ row[i].updated <= clock /\ row[j].updated <= clock
        BY DEF TableInv
      <3>2. /\ row'[i].updated = IF i = m THEN clock + 1 ELSE row[i].updated
            /\ row'[j].updated = IF j = m THEN clock + 1 ELSE row[j].updated
        BY <1>4
      <3> QED
        BY <1>3, <1>9, <3>1, <3>2
    <2>3. \A i \in Ids : ~row[i].live => ~row'[i].live
      BY <1>4
    <2>4. gone \subseteq Ids
      BY DEF TableTyped
    <2>5. ASSUME NEW g \in Forgets, forget'[g].pc = "unindex"
          PROVE  forget'[g].mem \in Ids /\ ~row'[forget'[g].mem].live
      <3>1. CASE g = f
        <4>1. forget'[g].mem = m
          BY <3>1, <1>6, <1>7
        <4> QED
          BY <4>1, <1>1, <1>4
      <3>2. CASE g # f
        BY <3>2, <2>3, <2>5, <1>7 DEF TableInv
      <3> QED
        BY <3>1, <3>2
    <2> QED
      BY <1>2, <2>1, <2>2, <2>3, <2>4, <2>5 DEF TableInv
  <1>11. Moves
    BY <1>2, <1>3, <1>4 DEF Moves
  <1>12. FeedbackInv'
    <2>1. \A i \in Ids : row'[i].conf = row[i].conf
      BY <1>4
    <2> QED
      BY <1>2, <2>1 DEF FeedbackInv, FeedbackCounts
  <1> QED
    BY <1>8, <1>10, <1>11, <1>12

\* forget_memory takes its point, or fails to.
LEMMA UnindexStep ==
    ASSUME TableTyped, TableInv, FeedbackInv, NEW f \in Forgets,
           Unindex(f) \/ ForgetFails(f)
    PROVE  TableTyped' /\ TableInv' /\ FeedbackInv' /\ Moves
  <1>1. /\ forget[f].pc = "unindex" /\ forget[f].mem \in Ids
        /\ ~row[forget[f].mem].live
    BY DEF Unindex, ForgetFails, TableInv
  <1>2. /\ UNCHANGED <<row, points, feedback, clock, due, raced>>
        /\ \/ forget' = [forget EXCEPT ![f].pc = "done"]
           \/ forget' = [forget EXCEPT ![f].pc = "failed"]
        /\ \/ side' = side \ {forget[f].mem} /\ gone' = gone \cup {forget[f].mem}
           \/ side' = side /\ gone' = gone
    BY DEF Unindex, ForgetFails
  <1>3. forget[f] \in ForgetSet
    BY DEF TableTyped
  <1>4. /\ forget' \in [Forgets -> ForgetSet]
        /\ \A g \in Forgets : forget'[g].pc = "unindex" => forget'[g] = forget[g]
    BY <1>2, <1>3 DEF TableTyped, ForgetSet
  <1>5. TableTyped'
    BY <1>1, <1>2, <1>4 DEF TableTyped
  <1>6. TableInv'
    BY <1>1, <1>2, <1>4 DEF TableInv
  <1>7. Moves
    BY <1>2, <1>5 DEF Moves, TableTyped
  <1>8. FeedbackInv'
    BY <1>2 DEF FeedbackInv, FeedbackCounts
  <1> QED
    BY <1>5, <1>6, <1>7, <1>8

-----------------------------------------------------------------------------
(* Readers.                                                                *)

\* Rows read are as they are now.
LEMMA RowsFacts ==
    ASSUME TableTyped, NEW S \in SUBSET Ids
    PROVE  /\ Rows(S) \in Copies /\ DOMAIN Rows(S) = S
           /\ \A i \in S : Rows(S)[i].updated = row[i].updated
  <1>1. \A i \in S : row[i] \in RowSet
    BY DEF TableTyped
  <1>2. \A i \in S : [conf |-> row[i].conf, updated |-> row[i].updated] \in Seen
    BY <1>1 DEF RowSet, Seen
  <1>3. Rows(S) \in [S -> Seen]
    BY <1>2 DEF Rows
  <1> QED
    BY <1>3 DEF Rows, Copies

\* What is listed is active, and what is near has a point: neither is forgotten.
LEMMA ListedFacts ==
    ASSUME TableInv, NEW S \in SUBSET Ids, NEW n
    PROVE  Listed(S, n) \subseteq Ids /\ Listed(S, n) \cap gone = {}
  BY DEF Listed, First, TableInv

LEMMA NearestFacts ==
    ASSUME TableTyped, TableInv, NEW k
    PROVE  Nearest(k) \subseteq Ids /\ Nearest(k) \cap gone = {}
  BY DEF Nearest, First, TableInv, TableTyped

\* A read that remembers rows it had, or rows as they are now, is in order.
LEMMA Remembers ==
    ASSUME TableTyped, TableInv, NEW x \in ReadSet, TimeInv(x), NEW y \in ReadSet,
           y.began = x.began, y.asof = x.asof,
           \A seen \in {y.vec, y.ent, y.rec} : \A i \in DOMAIN seen :
               \/ \E old \in {x.vec, x.ent, x.rec} : i \in DOMAIN old /\ seen[i] = old[i]
               \/ seen[i].updated = row[i].updated
    PROVE  TimeInv(y)
  <1>1. ASSUME NEW seen \in {y.vec, y.ent, y.rec} PROVE DOMAIN seen \subseteq Ids
    BY CopiesFacts DEF ReadSet
  <1>2. ASSUME NEW seen \in {y.vec, y.ent, y.rec}, NEW i \in DOMAIN seen
        PROVE  /\ seen[i].updated <= clock
               /\ x.asof[i] <= seen[i].updated
               /\ \A j \in Ids \ {i} : seen[i].updated # row[j].updated
    <2>1. CASE \E old \in {x.vec, x.ent, x.rec} : i \in DOMAIN old /\ seen[i] = old[i]
      BY <2>1 DEF TimeInv
    <2>2. CASE seen[i].updated = row[i].updated
      BY <1>1, <2>2 DEF TimeInv, TableInv
    <2> QED
      BY <2>1, <2>2
  <1>3. ASSUME NEW seen \in {y.vec, y.ent, y.rec}, NEW other \in {y.vec, y.ent, y.rec},
               NEW i \in DOMAIN seen, NEW j \in DOMAIN other, i # j
        PROVE  seen[i].updated # other[j].updated
    <2>1. i \in Ids /\ j \in Ids
      BY <1>1
    <2>2. CASE other[j].updated = row[j].updated
      BY <1>2, <1>3, <2>1, <2>2
    <2>3. CASE seen[i].updated = row[i].updated
      BY <1>2, <1>3, <2>1, <2>3
    <2>4. CASE /\ other[j].updated # row[j].updated
               /\ seen[i].updated # row[i].updated
      <3>1. PICK old \in {x.vec, x.ent, x.rec} : i \in DOMAIN old /\ seen[i] = old[i]
        BY <2>4
      <3>2. PICK old2 \in {x.vec, x.ent, x.rec} : j \in DOMAIN old2 /\ other[j] = old2[j]
        BY <2>4
      <3>3. old[i].updated # old2[j].updated
        BY <1>3, <3>1, <3>2 DEF TimeInv, Distinct
      <3> QED
        BY <3>1, <3>2, <3>3
    <2> QED
      BY <2>2, <2>3, <2>4
  <1>4. y.began <= clock /\ \A i \in Ids : y.asof[i] <= row[i].updated
    BY DEF TimeInv
  <1>5. Distinct(y)
    BY <1>3 DEF Distinct
  <1> QED
    BY <1>2, <1>4, <1>5 DEF TimeInv

\* What a package is made of are the rows a read remembers, and its weights.
LEMMA SameFound ==
    ASSUME NEW x, NEW y, y.vec = x.vec, y.ent = x.ent, y.rec = x.rec,
           y.weights = x.weights
    PROVE  /\ Candidates(y) = Candidates(x)
           /\ \A took, k : Chosen(y, took, k) <=> Chosen(x, took, k)
  <1>1. Candidates(y) = Candidates(x)
    BY DEF Candidates
  <1>2. \A i : Score(y, x.weights, i) = Score(x, x.weights, i)
    BY <1>1 DEF Score
  <1>3. \A i, j : Better(y, y.weights, i, j) <=> Better(x, x.weights, i, j)
    BY <1>1, <1>2 DEF Better
  <1>4. \A k : Bucket(y, k) = Bucket(x, k)
    BY <1>1 DEF Bucket
  <1> QED
    BY <1>1, <1>3, <1>4 DEF Chosen

\* Compiling keeps a read in order.
LEMMA CompiledStep ==
    ASSUME TableTyped, NEW x \in ReadSet, x.pc = "fetch", ReadInv(x)
    PROVE  Compiled(x) \in ReadSet /\ ReadInv(Compiled(x))
  <1>1. CASE x.hits # {}
    <2>1. Compiled(x) = x
      BY <1>1 DEF Compiled
    <2> QED
      BY <2>1
  <1>2. CASE x.hits = {} /\ x.mode = "search"
    <2> DEFINE y == [x EXCEPT !.pc = "done"]
    <2>1. Compiled(x) = y
      BY <1>2 DEF Compiled, Returned
    <2>2. /\ y \in ReadSet /\ y.pc = "done"
          /\ y.vec = x.vec /\ y.ent = x.ent /\ y.rec = x.rec /\ y.weights = x.weights
          /\ y.began = x.began /\ y.asof = x.asof /\ y.gone = x.gone
          /\ y.hits = x.hits /\ y.found = x.found /\ y.out = x.out
      BY DEF ReadSet
    <2> HIDE DEF y
    <2>3. TimeInv(y)
      BY <2>2 DEF ReadInv, TimeInv, Distinct
    <2>4. HiddenInv(y)
      BY <2>2, SameFound DEF ReadInv, HiddenInv
    <2>5. ListedInv(y) /\ ChosenInv(y)
      BY <2>2 DEF ListedInv, ChosenInv
    <2> QED
      BY <2>1, <2>2, <2>3, <2>4, <2>5 DEF ReadInv
  <1>3. CASE x.hits = {} /\ x.mode = "context"
    <2> DEFINE p == Package(x, x.weights)
               y == [x EXCEPT !.pc = "report", !.out = p]
    <2>1. Compiled(x) = y
      BY <1>3 DEF Compiled
    <2>2. Distinct(x)
      BY DEF ReadInv, TimeInv
    <2>3. \A k \in Kinds : p[k] \in Seq(Ids) /\ Chosen(x, p[k], k)
      BY <2>2, PackageChosen
    <2>4. p \in [Kinds -> Seq(Ids)]
      BY <2>3 DEF Package
    <2> HIDE DEF p
    <2>5. /\ y \in ReadSet /\ y.pc = "report" /\ y.out = p /\ y.mode = "context"
          /\ y.vec = x.vec /\ y.ent = x.ent /\ y.rec = x.rec /\ y.weights = x.weights
          /\ y.began = x.began /\ y.asof = x.asof /\ y.gone = x.gone
          /\ y.hits = x.hits /\ y.found = x.found
      BY <1>3, <2>4 DEF ReadSet
    <2> HIDE DEF y
    <2>6. TimeInv(y)
      BY <2>5 DEF ReadInv, TimeInv, Distinct
    <2>7. Candidates(y) = Candidates(x) /\ \A k \in Kinds : Chosen(y, p[k], k)
      BY <2>3, <2>5, SameFound
    <2>8. \A k \in Kinds : Range(p[k]) \subseteq DOMAIN Candidates(y)
      BY <2>7 DEF Chosen, Bucket
    <2>9. HiddenInv(y)
      BY <2>5, <2>8 DEF ReadInv, HiddenInv
    <2>10. ListedInv(y)
      BY <1>3, <2>5 DEF ReadInv, ListedInv
    <2>11. ChosenInv(y)
      BY <2>5, <2>7 DEF ChosenInv
    <2> QED
      BY <2>1, <2>5, <2>6, <2>9, <2>10, <2>11 DEF ReadInv
  <1> QED
    BY <1>1, <1>2, <1>3 DEF ReadSet

\* A read that moves on in order leaves all of them in order.
LEMMA ReaderMoves ==
    ASSUME TableTyped, TableInv, FeedbackInv, read \in [Reads -> ReadSet],
           \A q \in Reads : ReadInv(read[q]), UNCHANGED world,
           NEW r \in Reads, NEW y \in ReadSet, ReadInv(y), read' = [read EXCEPT ![r] = y]
    PROVE  /\ TableTyped' /\ TableInv' /\ FeedbackInv'
           /\ read' \in [Reads -> ReadSet]
           /\ (\A q \in Reads : ReadInv(read[q]))'
  <1>1. TableTyped' /\ TableInv' /\ FeedbackInv'
    BY DEF world, TableTyped, TableInv, FeedbackInv, FeedbackCounts
  <1>2. Moves
    BY DEF Moves, world, TableTyped
  <1>3. /\ read' \in [Reads -> ReadSet] /\ read'[r] = y
        /\ \A q \in Reads \ {r} : read'[q] = read[q]
    OBVIOUS
  <1>4. ASSUME NEW q \in Reads PROVE ReadInv(read[q])'
    <2> DEFINE z == read'[q]
    <2>1. PICK x \in ReadSet : x = read'[q] /\ ReadInv(x)
      BY <1>3
    <2>2. ReadInv(x)'
      BY <1>1, <1>2, <2>1, ReadKept
    <2> QED
      BY <2>1, <2>2
  <1> QED
    BY <1>1, <1>3, <1>4


\* What a step of a read starts from.
Ready ==
    /\ TableTyped /\ ReaderTyped /\ TableInv /\ FeedbackInv
    /\ \A r \in Reads : ReadInv(read[r])

\* Read r moves to y, and that is in order.
MovesTo(r, y) == y \in ReadSet /\ ReadInv(y) /\ read' = [read EXCEPT ![r] = y]

LEMMA ReadyFacts ==
    ASSUME Ready, NEW r \in Reads
    PROVE  /\ TableTyped /\ TableInv
           /\ read[r] \in ReadSet /\ ReadInv(read[r])
           /\ scoring \in Versions /\ clock \in Nat /\ gone \subseteq Ids
           /\ \A i \in Ids : row[i].updated \in Nat
  <1>1. /\ TableTyped /\ TableInv
        /\ read[r] \in ReadSet /\ ReadInv(read[r])
        /\ scoring \in Versions
    BY DEF Ready, ReaderTyped
  <1>2. clock \in Nat /\ gone \subseteq Ids /\ row \in [Ids -> RowSet]
    BY <1>1 DEF TableTyped
  <1>3. \A i \in Ids : row[i].updated \in Nat
    BY <1>2 DEF RowSet
  <1> QED
    BY <1>1, <1>2, <1>3

\* A read begins with nothing in its hands.
LEMMA BeginStep ==
    ASSUME Ready, NEW r \in Reads, NEW mode \in {"context", "search"}, Begin(r, mode)
    PROVE  \E y : MovesTo(r, y)
  <1> DEFINE times == [i \in Ids |-> row[i].updated]
             y == [Idle EXCEPT !.pc = "search", !.mode = mode, !.weights = scoring,
                               !.began = clock, !.gone = gone, !.asof = times]
  <1>1. read' = [read EXCEPT ![r] = y]
    BY DEF Begin
  <1>2. /\ TableTyped /\ scoring \in Versions /\ clock \in Nat /\ gone \subseteq Ids
        /\ \A i \in Ids : row[i].updated \in Nat
    BY ReadyFacts
  <1>3. times \in [Ids -> Nat] /\ \A i \in Ids : times[i] <= row[i].updated
    BY <1>2
  <1> HIDE DEF times
  <1>4. PICK old \in ReadSet : old = Idle
    BY IdleFacts
  <1>5. /\ y \in ReadSet /\ y.pc = "search" /\ y.began = clock /\ y.gone = gone
        /\ y.asof = times /\ y.hits = old.hits /\ y.found = old.found /\ y.out = old.out
        /\ y.vec = old.vec /\ y.ent = old.ent /\ y.rec = old.rec
    BY <1>2, <1>3, <1>4 DEF ReadSet
  <1> HIDE DEF y
  <1>6. /\ y.hits = {} /\ y.found = <<>> /\ y.out = [k \in Kinds |-> <<>>]
        /\ \A seen \in {y.vec, y.ent, y.rec} : DOMAIN seen = {}
    BY <1>4, <1>5, IdleFacts
  <1>7. ReadInv(y)
    BY <1>2, <1>3, <1>5, <1>6, IdleInv
  <1> QED
    BY <1>1, <1>5, <1>7 DEF MovesTo

\* A read that fails lets go of everything.
LEMMA ReadFailsStep ==
    ASSUME Ready, NEW r \in Reads, ReadFails(r)
    PROVE  \E y : MovesTo(r, y)
  <1> DEFINE y == [Idle EXCEPT !.pc = "failed"]
  <1>1. read' = [read EXCEPT ![r] = y]
    BY DEF ReadFails
  <1>2. /\ TableTyped /\ clock \in Nat /\ \A i \in Ids : row[i].updated \in Nat
    BY ReadyFacts
  <1>3. PICK old \in ReadSet : old = Idle
    BY IdleFacts
  <1>4. /\ y \in ReadSet /\ y.pc = "failed" /\ y.began = old.began /\ y.gone = old.gone
        /\ y.asof = old.asof /\ y.hits = old.hits /\ y.found = old.found
        /\ y.out = old.out /\ y.vec = old.vec /\ y.ent = old.ent /\ y.rec = old.rec
    BY <1>3 DEF ReadSet
  <1> HIDE DEF y
  <1>5. /\ y.hits = {} /\ y.found = <<>> /\ y.out = [k \in Kinds |-> <<>>]
        /\ \A seen \in {y.vec, y.ent, y.rec} : DOMAIN seen = {}
        /\ y.gone = {} /\ y.began = 0 /\ y.asof = [i \in Ids |-> 0]
    BY <1>3, <1>4, IdleFacts
  <1>6. y.began <= clock /\ \A i \in Ids : y.asof[i] <= row[i].updated
    BY <1>2, <1>5
  <1>7. ReadInv(y)
    BY <1>2, <1>4, <1>5, <1>6, IdleInv
  <1> QED
    BY <1>1, <1>4, <1>7 DEF MovesTo

\* A read that takes hits it may see is in order.
LEMMA HitsTaken ==
    ASSUME NEW x \in ReadSet, ReadInv(x), x.gone \subseteq gone,
           NEW H \in SUBSET Ids, H \cap gone = {}, NEW label \in {"anchor", "fetch"},
           x.pc = "search", label = "fetch" => x.mode = "search"
    PROVE  LET y == [x EXCEPT !.pc = label, !.hits = H]
           IN  y \in ReadSet /\ ReadInv(y) /\ y.pc = label
  <1> DEFINE y == [x EXCEPT !.pc = label, !.hits = H]
  <1>1. /\ y \in ReadSet /\ y.pc = label /\ y.hits = H /\ y.mode = x.mode
        /\ y.vec = x.vec /\ y.ent = x.ent /\ y.rec = x.rec /\ y.weights = x.weights
        /\ y.began = x.began /\ y.asof = x.asof /\ y.gone = x.gone
        /\ y.found = x.found /\ y.out = x.out
    BY DEF ReadSet
  <1> HIDE DEF y
  <1>2. TimeInv(y)
    BY <1>1 DEF ReadInv, TimeInv, Distinct
  <1>3. HiddenInv(y)
    BY <1>1, SameFound DEF ReadInv, HiddenInv
  <1>4. ListedInv(y) /\ ChosenInv(y)
    BY <1>1 DEF ListedInv, ChosenInv
  <1>5. y \in ReadSet /\ ReadInv(y) /\ y.pc = label
    BY <1>1, <1>2, <1>3, <1>4 DEF ReadInv
  <1> QED
    BY <1>5 DEF y

\* What the index returns has not been forgotten.
LEMMA SearchStep ==
    ASSUME Ready, NEW r \in Reads, Search(r)
    PROVE  \E y : MovesTo(r, y)
  <1>1. PICK x \in ReadSet : x = read[r] /\ ReadInv(x)
    BY ReadyFacts
  <1>2. TableTyped /\ TableInv
    BY ReadyFacts
  <1>3. x.gone \subseteq gone /\ x.pc = "search"
    BY <1>1 DEF ReadInv, HiddenInv, Search, At
  <1>4. CASE x.mode = "context"
    <2> DEFINE H == {i \in Nearest(VectorOversample) : InScope(i)}
               y == [x EXCEPT !.pc = "anchor", !.hits = H]
    <2>1. read' = [read EXCEPT ![r] = y]
      BY <1>1, <1>4 DEF Search
    <2>2. H \in SUBSET Ids /\ H \cap gone = {}
      BY <1>2, NearestFacts
    <2> HIDE DEF H
    <2>3. y \in ReadSet /\ ReadInv(y)
      BY <1>1, <1>3, <2>2, HitsTaken
    <2> QED
      BY <2>1, <2>3 DEF MovesTo
  <1>5. CASE x.mode # "context"
    <2> DEFINE kept == {i \in Nearest(SearchOversample) :
                           Similarity[i] >= MinSimilarity /\ InScope(i)}
               H == First(kept, SearchLimit, Nearer)
               z == [x EXCEPT !.pc = "fetch", !.hits = H]
    <2>1. read' = [read EXCEPT ![r] = Compiled(z)]
      BY <1>1, <1>5 DEF Search
    <2>2. H \in SUBSET Ids /\ H \cap gone = {}
      BY <1>2, NearestFacts DEF First
    <2>3. x.mode = "search"
      BY <1>1, <1>5 DEF ReadSet
    <2> HIDE DEF H
    <2>4. z \in ReadSet /\ ReadInv(z) /\ z.pc = "fetch"
      BY <1>1, <1>3, <2>2, <2>3, HitsTaken
    <2> HIDE DEF z
    <2>5. Compiled(z) \in ReadSet /\ ReadInv(Compiled(z))
      BY <1>2, <2>4, CompiledStep
    <2> QED
      BY <2>1, <2>5 DEF MovesTo
  <1> QED
    BY <1>4, <1>5

\* A read remembers its entities' rows as they are when it asks.
LEMMA AnchorStep ==
    ASSUME Ready, NEW r \in Reads, Anchor(r)
    PROVE  \E y : MovesTo(r, y) /\ read[r].pc = "anchor"
  <1>1. PICK x \in ReadSet : x = read[r] /\ ReadInv(x)
    BY ReadyFacts
  <1> DEFINE S == Listed(Linked[x.named + 1], EntityPerHitLimit)
             m == Merge(x.ent, Rows(S))
             n == x.named + 1
             y == [x EXCEPT !.named = n, !.ent = m]
  <1>2. TableTyped /\ TableInv /\ read \in [Reads -> ReadSet]
    BY DEF Ready, ReaderTyped
  <1>3. x.pc = "anchor" /\ x.named < Len(Linked)
    BY <1>1 DEF Anchor, At
  <1>4. n \in 0..Len(Linked) /\ Linked[n] \subseteq Ids
    BY <1>3, LinkedFacts DEF ReadSet
  <1>5. read' = [read EXCEPT ![r].named = n, ![r].ent = m]
    BY <1>1 DEF Anchor
  <1>6. S \subseteq Ids /\ S \cap gone = {}
    BY <1>2, <1>4, ListedFacts
  <1> HIDE DEF S, n
  <1>7. /\ Rows(S) \in Copies /\ DOMAIN Rows(S) = S
        /\ \A i \in S : Rows(S)[i].updated = row[i].updated
    BY <1>2, <1>6, RowsFacts
  <1>8. x.ent \in Copies
    BY DEF ReadSet
  <1>9. /\ m \in Copies /\ DOMAIN m = DOMAIN x.ent \cup S
        /\ \A i \in DOMAIN x.ent : m[i] = x.ent[i]
        /\ \A i \in S \ DOMAIN x.ent : m[i] = Rows(S)[i]
    BY <1>7, <1>8, MergeFacts
  <1> HIDE DEF m
  <1>10. /\ y \in ReadSet /\ y.pc = x.pc /\ y.hits = x.hits /\ y.mode = x.mode
         /\ y.vec = x.vec /\ y.ent = m /\ y.rec = x.rec /\ y.weights = x.weights
         /\ y.began = x.began /\ y.asof = x.asof /\ y.gone = x.gone
         /\ y.found = x.found /\ y.out = x.out
    BY <1>4, <1>9 DEF ReadSet
  <1>11. read' = [read EXCEPT ![r] = y]
    <2>1. read'[r] = y
      BY <1>1, <1>2, <1>5 DEF ReadSet
    <2> HIDE DEF y
    <2> QED
      BY <1>2, <1>5, <2>1
  <1> HIDE DEF y
  <1>12. TimeInv(y)
    <2>1. \A i \in DOMAIN m : (i \in DOMAIN x.ent /\ m[i] = x.ent[i])
                                \/ m[i].updated = row[i].updated
      BY <1>7, <1>9
    <2>2. TimeInv(x)
      BY <1>1 DEF ReadInv
    <2> QED
      BY <1>2, <1>10, <2>1, <2>2, Remembers
  <1>13. HiddenInv(y)
    <2>1. HiddenInv(x)
      BY <1>1 DEF ReadInv
    <2>2. DOMAIN m \cap x.gone = {}
      BY <1>6, <1>9, <2>1 DEF HiddenInv
    <2>3. DOMAIN Candidates(x) \subseteq DOMAIN Candidates(y)
      BY <1>9, <1>10, CandidatesFacts
    <2> QED
      BY <1>10, <2>1, <2>2, <2>3 DEF HiddenInv
  <1>14. ListedInv(y) /\ ChosenInv(y)
    BY <1>3, <1>10 DEF ListedInv, ChosenInv
  <1> QED
    BY <1>1, <1>3, <1>10, <1>11, <1>12, <1>13, <1>14 DEF MovesTo, ReadInv

\* And the recent ones' rows, all that are listed.
LEMMA RecentStep ==
    ASSUME Ready, NEW r \in Reads, Recent(r)
    PROVE  \E y : MovesTo(r, y) /\ read[r].pc = "anchor"
  <1>1. PICK x \in ReadSet : x = read[r] /\ ReadInv(x)
    BY ReadyFacts
  <1> DEFINE S == Listed(Ids, RecentWindow)
             m == Rows(S)
             y == [x EXCEPT !.pc = "fetch", !.rec = m]
  <1>2. TableTyped /\ TableInv
    BY ReadyFacts
  <1>3. x.pc = "anchor"
    BY <1>1 DEF Recent, At
  <1>4. read' = [read EXCEPT ![r] = Compiled(y)]
    BY <1>1 DEF Recent
  <1>5. S \subseteq Ids /\ S \cap gone = {}
    BY <1>2, ListedFacts
  <1>6. /\ m \in Copies /\ DOMAIN m = S
        /\ \A i \in S : m[i].updated = row[i].updated
    BY <1>2, <1>5, RowsFacts
  <1> HIDE DEF m
  <1>7. /\ y \in ReadSet /\ y.pc = "fetch" /\ y.hits = x.hits /\ y.mode = x.mode
        /\ y.vec = x.vec /\ y.ent = x.ent /\ y.rec = m /\ y.weights = x.weights
        /\ y.began = x.began /\ y.asof = x.asof /\ y.gone = x.gone
        /\ y.found = x.found /\ y.out = x.out
    BY <1>6 DEF ReadSet
  <1> HIDE DEF y
  <1>8. TimeInv(y)
    <2>1. TimeInv(x)
      BY <1>1 DEF ReadInv
    <2> QED
      BY <1>2, <1>6, <1>7, <2>1, Remembers
  <1>9. HiddenInv(y)
    <2>1. HiddenInv(x)
      BY <1>1 DEF ReadInv
    <2>2. DOMAIN m \cap x.gone = {}
      BY <1>5, <1>6, <2>1 DEF HiddenInv
    <2>3. DOMAIN x.rec = {}
      BY <1>3, <2>1 DEF HiddenInv
    <2>4. DOMAIN Candidates(x) \subseteq DOMAIN Candidates(y)
      BY <1>7, <2>3, CandidatesFacts
    <2> QED
      BY <1>7, <2>1, <2>2, <2>4 DEF HiddenInv
  <1>10. ListedInv(y) /\ ChosenInv(y)
    BY <1>6, <1>7 DEF ListedInv, ChosenInv
  <1>11. Compiled(y) \in ReadSet /\ ReadInv(Compiled(y))
    BY <1>2, <1>7, <1>8, <1>9, <1>10, CompiledStep DEF ReadInv
  <1> QED
    BY <1>1, <1>3, <1>4, <1>11 DEF MovesTo

\* The next hit's row joins what it remembers.
LEMMA FetchStep ==
    ASSUME Ready, NEW r \in Reads, Fetch(r)
    PROVE  \E y : MovesTo(r, y)
  <1> DEFINE x == read[r]
  <1>1. PICK i \in x.hits :
            read' = [read EXCEPT ![r] =
                Compiled([x EXCEPT !.hits = x.hits \ {i}, !.vec = Merge(x.vec, Rows({i})),
                                   !.found = IF x.mode = "search"
                                             THEN Append(x.found, i) ELSE x.found])]
    BY DEF Fetch
  <1> DEFINE H == x.hits \ {i}
             new == Rows({i})
             m == Merge(x.vec, new)
             s == IF x.mode = "search" THEN Append(x.found, i) ELSE x.found
             y == [x EXCEPT !.hits = H, !.vec = m, !.found = s]
  <1>2. TableTyped /\ TableInv
    BY ReadyFacts
  <1>3. x \in ReadSet /\ ReadInv(x) /\ x.pc = "fetch"
    BY ReadyFacts DEF Fetch, At
  <1>5. read' = [read EXCEPT ![r] = Compiled(y)]
    BY <1>1
  <1> HIDE DEF x
  <1>6. /\ x.hits \subseteq Ids /\ i \in Ids /\ x.vec \in Copies /\ x.found \in Seq(Ids)
    BY <1>3 DEF ReadSet
  <1>7. new \in Copies /\ DOMAIN new = {i} /\ new[i].updated = row[i].updated
    BY <1>2, <1>6, RowsFacts
  <1> HIDE DEF new
  <1>8. /\ m \in Copies /\ DOMAIN m = DOMAIN x.vec \cup {i}
        /\ \A j \in DOMAIN x.vec : m[j] = x.vec[j]
        /\ i \notin DOMAIN x.vec => m[i] = new[i]
    <2>1. /\ m \in Copies /\ DOMAIN m = DOMAIN x.vec \cup DOMAIN new
          /\ \A j \in DOMAIN x.vec : m[j] = x.vec[j]
          /\ \A j \in DOMAIN new \ DOMAIN x.vec : m[j] = new[j]
      BY <1>6, <1>7, MergeFacts
    <2> HIDE DEF m
    <2> QED
      BY <1>7, <2>1
  <1>9. s \in Seq(Ids) /\ Range(s) \subseteq Range(x.found) \cup {i}
    BY <1>6 DEF Range
  <1>10. H \subseteq Ids
    BY <1>6
  <1> HIDE DEF m, s, H
  <1>11. /\ y \in ReadSet /\ y.pc = x.pc /\ y.hits = H /\ y.mode = x.mode
         /\ y.vec = m /\ y.ent = x.ent /\ y.rec = x.rec /\ y.weights = x.weights
         /\ y.began = x.began /\ y.asof = x.asof /\ y.gone = x.gone
         /\ y.found = s /\ y.out = x.out
    BY <1>3, <1>8, <1>9, <1>10 DEF ReadSet
  <1> HIDE DEF y
  <1>12. TimeInv(y)
    <2>1. \A j \in DOMAIN m : (j \in DOMAIN x.vec /\ m[j] = x.vec[j])
                                \/ m[j].updated = row[j].updated
      BY <1>7, <1>8
    <2>2. TimeInv(x)
      BY <1>3 DEF ReadInv
    <2> QED
      BY <1>2, <1>3, <1>11, <2>1, <2>2, Remembers
  <1>13. HiddenInv(y)
    <2>1. HiddenInv(x)
      BY <1>3 DEF ReadInv
    <2>2. DOMAIN m \cap x.gone = {} /\ H \cap x.gone = {}
      BY <1>8, <2>1 DEF HiddenInv, H
    <2>3. DOMAIN Candidates(x) \subseteq DOMAIN Candidates(y)
      BY <1>3, <1>8, <1>11, CandidatesFacts
    <2>4. Range(s) \subseteq DOMAIN m
      BY <1>8, <1>9, <2>1 DEF HiddenInv
    <2> QED
      BY <1>11, <2>1, <2>2, <2>3, <2>4 DEF HiddenInv
  <1>14. ListedInv(y) /\ ChosenInv(y)
    BY <1>3, <1>11 DEF ReadInv, ListedInv, ChosenInv
  <1>15. Compiled(y) \in ReadSet /\ ReadInv(Compiled(y))
    BY <1>2, <1>3, <1>11, <1>12, <1>13, <1>14, CompiledStep DEF ReadInv
  <1> QED
    BY <1>5, <1>15 DEF MovesTo

-----------------------------------------------------------------------------
(* Reports.                                                                *)

\* The report of a package, as Report writes it.
ReportOf(r) ==
    [id |-> r, entries |-> [k \in Kinds |->
        [n \in DOMAIN read[r].out[k] |->
            [mem |-> read[r].out[k][n],
             conf |-> Candidates(read[r])[read[r].out[k][n]].conf]]]]

\* It says what the package holds, and nothing below the floor.
LEMMA ReportFacts ==
    ASSUME NEW r \in Reads, read[r] \in ReadSet, ReadInv(read[r]), read[r].pc = "report"
    PROVE  /\ ReportOf(r) \in ReportSet /\ ReportOf(r).id = r
           /\ \A k \in Kinds :
                 LET listed == ReportOf(r).entries[k] IN
                 /\ [e \in DOMAIN listed |-> listed[e].mem] = read[r].out[k]
                 /\ \A e \in DOMAIN listed : listed[e].conf >= MinConfidence
  <1> DEFINE x == read[r]
             List(k) == [n \in DOMAIN x.out[k] |->
                           [mem |-> x.out[k][n], conf |-> Candidates(x)[x.out[k][n]].conf]]
             lists == [k \in Kinds |-> List(k)]
  <1>1. x \in ReadSet /\ x.out \in [Kinds -> Seq(Ids)]
    BY DEF ReadSet
  <1>2. \A k \in Kinds : Range(x.out[k]) \subseteq Bucket(x, k)
    BY DEF ReadInv, ChosenInv, Chosen
  <1>3. ReportOf(r) = [id |-> r, entries |-> lists]
    BY DEF ReportOf
  <1> HIDE DEF x
  <1>4. ASSUME NEW k \in Kinds
        PROVE  /\ List(k) \in Seq(Entries)
               /\ [e \in DOMAIN List(k) |-> List(k)[e].mem] = x.out[k]
               /\ \A e \in DOMAIN List(k) : List(k)[e].conf >= MinConfidence
    <2> DEFINE s == x.out[k]
    <2>1. s \in Seq(Ids)
      BY <1>1
    <2>2. ASSUME NEW n \in 1..Len(s)
          PROVE  /\ s[n] \in Ids /\ Candidates(x)[s[n]].conf \in 0..100
                 /\ Candidates(x)[s[n]].conf >= MinConfidence
      <3>1. s[n] \in Bucket(x, k)
        BY <1>2, <2>1 DEF Range
      <3>2. s[n] \in DOMAIN Candidates(x) /\ Candidates(x)[s[n]].conf >= MinConfidence
        BY <3>1 DEF Bucket
      <3>3. Candidates(x) \in Copies
        BY <1>1, CandidatesFacts
      <3> QED
        BY <3>2, <3>3, CopiesFacts
    <2> HIDE DEF s
    <2> DEFINE c == [n \in 1..Len(s) |-> Candidates(x)[s[n]].conf]
    <2>3. \A n \in 1..Len(s) : s[n] \in Ids /\ c[n] \in 0..100 /\ c[n] >= MinConfidence
      BY <2>2
    <2>4. List(k) = [n \in 1..Len(s) |-> [mem |-> s[n], conf |-> c[n]]]
      BY <2>1 DEF s
    <2> HIDE DEF c, List
    <2>5. List(k) \in Seq(Entries)
      BY <2>1, <2>3, <2>4 DEF Entries
    <2>6. /\ DOMAIN List(k) = 1..Len(s)
          /\ \A e \in 1..Len(s) : List(k)[e].mem = s[e] /\ List(k)[e].conf = c[e]
      BY <2>4
    <2>7. [e \in DOMAIN List(k) |-> List(k)[e].mem] = s
      BY <2>1, <2>6
    <2> QED
      BY <2>3, <2>5, <2>6, <2>7 DEF s
  <1> HIDE DEF List
  <1>5. lists \in [Kinds -> Seq(Entries)] /\ \A k \in Kinds : lists[k] = List(k)
    BY <1>4
  <1> HIDE DEF lists
  <1>6. ReportOf(r) \in ReportSet /\ ReportOf(r).id = r /\ ReportOf(r).entries = lists
    BY <1>3, <1>5 DEF ReportSet
  <1> QED
    BY <1>4, <1>5, <1>6 DEF x

\* What was reported last comes first; a full ring loses the oldest.
LEMMA InsertFacts ==
    ASSUME ring \in Seq(ReportSet), Len(ring) <= Capacity, NEW report \in ReportSet
    PROVE  /\ Insert(report) \in Seq(ReportSet)
           /\ Len(Insert(report)) = IF Len(ring) = Capacity THEN Capacity ELSE Len(ring) + 1
           /\ Insert(report)[1] = report
           /\ \A n \in 1..Len(Insert(report)) :
                 n # 1 => n - 1 \in 1..Len(ring) /\ Insert(report)[n] = ring[n - 1]
  <1> DEFINE kept == IF Len(ring) = Capacity THEN SubSeq(ring, 1, Capacity - 1) ELSE ring
  <1>1. Capacity \in Nat \ {0} /\ Len(ring) \in Nat
    BY NumberFacts
  <1>2. /\ kept \in Seq(ReportSet)
        /\ Len(kept) = IF Len(ring) = Capacity THEN Capacity - 1 ELSE Len(ring)
        /\ \A n \in 1..Len(kept) : n \in 1..Len(ring) /\ kept[n] = ring[n]
    BY <1>1
  <1>3. Insert(report) = <<report>> \o kept
    BY DEF Insert
  <1> HIDE DEF kept
  <1> DEFINE q == <<report>> \o kept
  <1>4. /\ q \in Seq(ReportSet) /\ Len(q) = Len(kept) + 1 /\ q[1] = report
        /\ \A n \in 1..Len(q) : n # 1 => q[n] = kept[n - 1]
    BY <1>2
  <1> HIDE DEF q
  <1>5. \A n \in 1..Len(q) : n # 1 => n - 1 \in 1..Len(kept)
    BY <1>2, <1>4
  <1>6. Len(q) = IF Len(ring) = Capacity THEN Capacity ELSE Len(ring) + 1
    BY <1>1, <1>2, <1>4
  <1>7. \A n \in 1..Len(q) : n # 1 => n - 1 \in 1..Len(ring) /\ q[n] = ring[n - 1]
    BY <1>2, <1>4, <1>5
  <1> QED
    BY <1>3, <1>4, <1>6, <1>7 DEF q

\* Others' moves leave the reports alone: what a read did stays on record.
LEMMA RingKept ==
    ASSUME RingInv, ReaderTyped, NEW r \in Reads, NEW y, read[r].pc # "done",
           read' = [read EXCEPT ![r] = y], UNCHANGED <<ring, reported>>
    PROVE  RingInv'
  <1>1. /\ ring \in Seq(ReportSet) /\ read \in [Reads -> ReadSet] /\ Len(ring) \in Nat
        /\ ring' = ring /\ reported' = reported
    BY DEF ReaderTyped
  <1>2. ASSUME NEW n \in 1..Len(ring)
        PROVE  /\ ring[n].id = reported[Len(reported) + 1 - n]
               /\ (read')[ring[n].id].pc = "done"
               /\ \A k \in Kinds :
                     LET listed == ring[n].entries[k] IN
                     /\ [e \in DOMAIN listed |-> listed[e].mem] = (read')[ring[n].id].out[k]
                     /\ \A e \in DOMAIN listed : listed[e].conf >= MinConfidence
    <2>1. ring[n] \in ReportSet
      BY <1>1
    <2>2. /\ ring[n].id \in Reads /\ read[ring[n].id].pc = "done"
          /\ ring[n].id = reported[Len(reported) + 1 - n] /\ Explains(ring[n])
      BY <2>1 DEF RingInv, ReportSet
    <2>3. (read')[ring[n].id] = read[ring[n].id]
      BY <1>1, <2>2
    <2> QED
      BY <2>2, <2>3 DEF Explains
  <1>3. ASSUME NEW n \in 1..Len(ring) PROVE Explains(ring[n])'
    BY <1>1, <1>2 DEF Explains
  <1> QED
    BY <1>1, <1>2, <1>3 DEF RingInv

\* A report joins them.
LEMMA RingGrows ==
    ASSUME RingInv, ReaderTyped, NEW r \in Reads, ReadInv(read[r]), read[r].pc = "report",
           ring' = Insert(ReportOf(r)), reported' = Append(reported, r),
           NEW y, read' = [read EXCEPT ![r] = y], y.pc = "done", y.out = read[r].out
    PROVE  RingInv' /\ ring' \in Seq(ReportSet) /\ reported' \in Seq(Reads)
  <1>1. /\ ring \in Seq(ReportSet) /\ read \in [Reads -> ReadSet] /\ Len(ring) \in Nat
        /\ reported \in Seq(Reads) /\ Len(reported) \in Nat /\ read[r] \in ReadSet
    BY DEF ReaderTyped
  <1>2. /\ Len(ring) <= Capacity /\ Len(ring) <= Len(reported)
        /\ Len(ring) = Capacity \/ Len(ring) = Len(reported)
        /\ Capacity \in Nat \ {0}
    BY NumberFacts DEF RingInv
  <1> DEFINE new == ReportOf(r)
  <1>3. /\ new \in ReportSet /\ new.id = r
        /\ \A k \in Kinds :
              LET listed == new.entries[k] IN
              /\ [e \in DOMAIN listed |-> listed[e].mem] = read[r].out[k]
              /\ \A e \in DOMAIN listed : listed[e].conf >= MinConfidence
    BY <1>1, ReportFacts
  <1> HIDE DEF new
  <1>4. /\ ring' \in Seq(ReportSet)
        /\ Len(ring') = IF Len(ring) = Capacity THEN Capacity ELSE Len(ring) + 1
        /\ ring'[1] = new
        /\ \A n \in 1..Len(ring') :
              n # 1 => n - 1 \in 1..Len(ring) /\ ring'[n] = ring[n - 1]
    BY <1>1, <1>2, <1>3, InsertFacts DEF new
  <1>5. /\ reported' \in Seq(Reads) /\ Len(reported') = Len(reported) + 1
        /\ reported'[Len(reported) + 1] = r
        /\ \A n \in 1..Len(reported) : reported'[n] = reported[n]
    BY <1>1
  <1>6. /\ Len(ring') <= Capacity /\ Len(ring') <= Len(reported')
        /\ Len(ring') = Capacity \/ Len(ring') = Len(reported')
    BY <1>1, <1>2, <1>4, <1>5
  <1>7. (read')[r] = y
    BY <1>1
  <1>8. ASSUME NEW n \in 1..Len(ring'), n # 1
        PROVE  /\ (ring')[n].id = (reported')[Len(reported') + 1 - n]
               /\ (read')[(ring')[n].id].pc = "done"
               /\ \A k \in Kinds :
                     LET listed == (ring')[n].entries[k] IN
                     /\ [e \in DOMAIN listed |-> listed[e].mem]
                            = (read')[(ring')[n].id].out[k]
                     /\ \A e \in DOMAIN listed : listed[e].conf >= MinConfidence
    <2> DEFINE m == n - 1
    <2>1. m \in 1..Len(ring) /\ (ring')[n] = ring[m]
      BY <1>4, <1>8
    <2>2. n \in Nat /\ m = n - 1 /\ m \in Nat
      BY <1>4
    <2> HIDE DEF m
    <2>3. ring[m] \in ReportSet
      BY <1>1, <2>1
    <2>4. /\ ring[m].id \in Reads /\ read[ring[m].id].pc = "done"
          /\ ring[m].id = reported[Len(reported) + 1 - m] /\ Explains(ring[m])
      BY <2>1, <2>3 DEF RingInv, ReportSet
    <2>5. (read')[ring[m].id] = read[ring[m].id]
      BY <1>1, <2>4
    <2>6. /\ Len(reported) + 1 - m \in 1..Len(reported)
          /\ Len(reported') + 1 - n = Len(reported) + 1 - m
      BY <1>1, <1>2, <1>5, <2>1, <2>2
    <2>7. (reported')[Len(reported') + 1 - n] = reported[Len(reported) + 1 - m]
      BY <1>5, <2>6
    <2> QED
      BY <2>1, <2>4, <2>5, <2>7 DEF Explains
  <1>9. /\ (ring')[1].id = (reported')[Len(reported') + 1 - 1]
        /\ (read')[(ring')[1].id].pc = "done"
        /\ \A k \in Kinds :
              LET listed == (ring')[1].entries[k] IN
              /\ [e \in DOMAIN listed |-> listed[e].mem] = (read')[(ring')[1].id].out[k]
              /\ \A e \in DOMAIN listed : listed[e].conf >= MinConfidence
    BY <1>1, <1>3, <1>4, <1>5, <1>7
  <1>10. ASSUME NEW n \in 1..Len(ring')
         PROVE  /\ (ring')[n].id = (reported')[Len(reported') + 1 - n]
                /\ (read')[(ring')[n].id].pc = "done"
                /\ Explains(ring[n])'
    <2>1. CASE n = 1
      <3>1. Explains(ring[1])'
        BY <1>9 DEF Explains
      <3> QED
        BY <1>9, <2>1, <3>1
    <2>2. CASE n # 1
      <3>1. Explains(ring[n])'
        BY <1>8, <2>2 DEF Explains
      <3> QED
        BY <1>8, <2>2, <3>1
    <2> QED
      BY <2>1, <2>2
  <1> QED
    BY <1>4, <1>5, <1>6, <1>10 DEF RingInv

-----------------------------------------------------------------------------
(* Every step.                                                             *)

\* A read that moves on, without reporting.
LEMMA ReaderStep ==
    ASSUME IInv, NEW r \in Reads, NEW y, MovesTo(r, y), read[r].pc # "done",
           UNCHANGED <<world, scoring, ring, reported>>, faults' \in 0..MaxFaults
    PROVE  IInv'
  <1>1. /\ TableTyped /\ TableInv /\ FeedbackInv /\ ReaderTyped /\ RingInv
        /\ \A q \in Reads : ReadInv(read[q])
    BY DEF IInv
  <1>2. /\ read \in [Reads -> ReadSet] /\ y \in ReadSet /\ ReadInv(y)
        /\ read' = [read EXCEPT ![r] = y] /\ UNCHANGED world
    BY <1>1 DEF ReaderTyped, MovesTo
  <1>3. /\ TableTyped' /\ TableInv' /\ FeedbackInv' /\ read' \in [Reads -> ReadSet]
        /\ (\A q \in Reads : ReadInv(read[q]))'
    BY <1>1, <1>2, ReaderMoves
  <1>4. ReaderTyped'
    BY <1>1, <1>3 DEF ReaderTyped
  <1>5. RingInv'
    BY <1>1, <1>2, RingKept
  <1> QED
    BY <1>3, <1>4, <1>5 DEF IInv

\* A read that reports.
LEMMA ReportStep ==
    ASSUME IInv, NEW r \in Reads, Report(r)
    PROVE  IInv'
  <1>1. /\ TableTyped /\ TableInv /\ FeedbackInv /\ ReaderTyped /\ RingInv
        /\ faults \in 0..MaxFaults
        /\ \A q \in Reads : ReadInv(read[q])
    BY DEF IInv
  <1>2. /\ read \in [Reads -> ReadSet] /\ read[r] \in ReadSet /\ ReadInv(read[r])
        /\ scoring \in Versions
    BY <1>1 DEF ReaderTyped
  <1>3. read[r].pc = "report" /\ UNCHANGED <<world, scoring, faults>>
    BY DEF Report, At
  <1>4. /\ ring' = Insert(ReportOf(r)) /\ reported' = Append(reported, r)
        /\ read' = [read EXCEPT ![r] = Returned(read[r])]
    BY DEF Report, ReportOf
  <1> DEFINE x == read[r]
             y == [x EXCEPT !.pc = "done"]
  <1>5. read' = [read EXCEPT ![r] = y]
    BY <1>4 DEF Returned
  <1>6. x \in ReadSet /\ ReadInv(x)
    BY <1>2
  <1> HIDE DEF x
  <1>7. /\ y \in ReadSet /\ y.pc = "done"
        /\ y.vec = x.vec /\ y.ent = x.ent /\ y.rec = x.rec /\ y.weights = x.weights
        /\ y.began = x.began /\ y.asof = x.asof /\ y.gone = x.gone
        /\ y.hits = x.hits /\ y.found = x.found /\ y.out = x.out
    BY <1>6 DEF ReadSet
  <1> HIDE DEF y
  <1>8. TimeInv(y)
    BY <1>6, <1>7 DEF ReadInv, TimeInv, Distinct
  <1>9. HiddenInv(y)
    BY <1>6, <1>7, SameFound DEF ReadInv, HiddenInv
  <1>10. ReadInv(y)
    BY <1>7, <1>8, <1>9 DEF ReadInv, ListedInv, ChosenInv
  <1>11. PICK z \in ReadSet : z = y
    BY <1>7
  <1>12. /\ ReadInv(z) /\ read' = [read EXCEPT ![r] = z] /\ z.pc = "done"
         /\ z.out = read[r].out
    BY <1>5, <1>7, <1>10, <1>11 DEF x
  <1>13. /\ TableTyped' /\ TableInv' /\ FeedbackInv' /\ read' \in [Reads -> ReadSet]
         /\ (\A q \in Reads : ReadInv(read[q]))'
    BY <1>1, <1>2, <1>3, <1>12, ReaderMoves
  <1>14. RingInv' /\ ring' \in Seq(ReportSet) /\ reported' \in Seq(Reads)
    BY <1>1, <1>2, <1>3, <1>4, <1>12, RingGrows
  <1>15. ReaderTyped'
    BY <1>2, <1>3, <1>13, <1>14 DEF ReaderTyped
  <1>16. faults' \in 0..MaxFaults
    BY <1>1, <1>3
  <1> QED
    BY <1>13, <1>14, <1>15, <1>16 DEF IInv

\* A step that moves no read.
LEMMA TableStep ==
    ASSUME IInv, TableTyped', TableInv', FeedbackInv', Moves,
           UNCHANGED <<read, ring, reported>>, scoring' \in Versions,
           faults' \in 0..MaxFaults
    PROVE  IInv'
  <1>1. /\ TableTyped /\ TableInv /\ ReaderTyped /\ RingInv
        /\ \A q \in Reads : ReadInv(read[q])
    BY DEF IInv
  <1>2. ReaderTyped' /\ read \in [Reads -> ReadSet] /\ read' = read
    BY <1>1 DEF ReaderTyped
  <1>3. ASSUME NEW q \in Reads PROVE ReadInv(read[q])'
    <2>1. PICK x \in ReadSet : x = read[q] /\ ReadInv(x)
      BY <1>1, <1>2
    <2>2. ReadInv(x)'
      BY <1>1, <2>1, ReadKept
    <2>3. x = read'[q]
      BY <1>2, <2>1
    <2> QED
      BY <2>2, <2>3
  <1>4. RingInv'
    BY <1>1 DEF RingInv, Explains
  <1> QED
    BY <1>2, <1>3, <1>4 DEF IInv

\* What one more fault leaves within the bound.
LEMMA FaultsStep ==
    ASSUME faults \in 0..MaxFaults,
           faults' = faults \/ (faults < MaxFaults /\ faults' = faults + 1)
    PROVE  faults' \in 0..MaxFaults
  BY NumberFacts

\* The invariant is inductive.
LEMMA IInvStep == IInv /\ [Next]_vars => IInv'
  <1> SUFFICES ASSUME IInv, [Next]_vars PROVE IInv'
    OBVIOUS
  <1>0. /\ Ready /\ TableTyped /\ TableInv /\ FeedbackInv /\ scoring \in Versions
        /\ faults \in 0..MaxFaults
    BY DEF IInv, Ready, ReaderTyped
  <1>1. ASSUME NEW r \in Reads, Step(r) PROVE IInv'
    <2>1. ASSUME NEW mode \in {"context", "search"}, Begin(r, mode) PROVE IInv'
      <3>1. read[r].pc # "done" /\ UNCHANGED <<world, scoring, ring, faults, reported>>
        BY <2>1 DEF Begin, At
      <3>2. PICK y : MovesTo(r, y)
        BY <1>0, <2>1, BeginStep
      <3> QED
        BY <1>0, <3>1, <3>2, ReaderStep
    <2>2. CASE Search(r)
      <3>1. read[r].pc # "done" /\ UNCHANGED <<world, scoring, ring, faults, reported>>
        BY <2>2 DEF Search, At
      <3>2. PICK y : MovesTo(r, y)
        BY <1>0, <2>2, SearchStep
      <3> QED
        BY <1>0, <3>1, <3>2, ReaderStep
    <2>3. CASE Anchor(r)
      <3>1. read[r].pc # "done" /\ UNCHANGED <<world, scoring, ring, faults, reported>>
        BY <2>3 DEF Anchor, At
      <3>2. PICK y : MovesTo(r, y)
        BY <1>0, <2>3, AnchorStep
      <3> QED
        BY <1>0, <3>1, <3>2, ReaderStep
    <2>4. CASE Recent(r)
      <3>1. read[r].pc # "done" /\ UNCHANGED <<world, scoring, ring, faults, reported>>
        BY <2>4 DEF Recent, At
      <3>2. PICK y : MovesTo(r, y)
        BY <1>0, <2>4, RecentStep
      <3> QED
        BY <1>0, <3>1, <3>2, ReaderStep
    <2>5. CASE Fetch(r)
      <3>1. read[r].pc # "done" /\ UNCHANGED <<world, scoring, ring, faults, reported>>
        BY <2>5 DEF Fetch, At
      <3>2. PICK y : MovesTo(r, y)
        BY <1>0, <2>5, FetchStep
      <3> QED
        BY <1>0, <3>1, <3>2, ReaderStep
    <2>6. CASE Report(r)
      BY <2>6, ReportStep
    <2>7. CASE ReadFails(r)
      <3>1. /\ read[r].pc # "done" /\ UNCHANGED <<world, scoring, ring, reported>>
            /\ faults < MaxFaults /\ faults' = faults + 1
        BY <2>7 DEF ReadFails
      <3>2. PICK y : MovesTo(r, y)
        BY <1>0, <2>7, ReadFailsStep
      <3>3. faults' \in 0..MaxFaults
        BY <1>0, <3>1, FaultsStep
      <3> QED
        BY <3>1, <3>2, <3>3, ReaderStep
    <2> QED
      BY <1>1, <2>1, <2>2, <2>3, <2>4, <2>5, <2>6, <2>7 DEF Step
  <1>2. ASSUME NEW f \in Feedbacks, NEW v \in Votes, FeedbackRead(f, v) PROVE IInv'
    <2>1. UNCHANGED <<read, scoring, ring, reported, faults>>
      BY <1>2 DEF FeedbackRead, readers
    <2>2. TableTyped' /\ TableInv' /\ FeedbackInv' /\ Moves
      BY <1>0, <1>2, FeedbackReadStep
    <2> QED
      BY <1>0, <2>1, <2>2, TableStep
  <1>3. ASSUME NEW f \in Feedbacks, FeedbackWrite(f) PROVE IInv'
    <2>1. UNCHANGED <<read, scoring, ring, reported, faults>>
      BY <1>3 DEF FeedbackWrite, readers
    <2>2. TableTyped' /\ TableInv' /\ FeedbackInv' /\ Moves
      BY <1>0, <1>3, FeedbackWriteStep
    <2> QED
      BY <1>0, <2>1, <2>2, TableStep
  <1>4. ASSUME NEW f \in Feedbacks, FeedbackFails(f) PROVE IInv'
    <2>1. /\ UNCHANGED <<read, scoring, ring, reported>>
          /\ faults < MaxFaults /\ faults' = faults + 1
      BY <1>4 DEF FeedbackFails, readers
    <2>2. TableTyped' /\ TableInv' /\ FeedbackInv' /\ Moves
      BY <1>0, <1>4, FeedbackFailsStep
    <2>3. faults' \in 0..MaxFaults
      BY <1>0, <2>1, FaultsStep
    <2> QED
      BY <1>0, <2>1, <2>2, <2>3, TableStep
  <1>5. ASSUME NEW f \in Forgets, NEW i \in Forgettable, SoftDelete(f, i) PROVE IInv'
    <2>1. UNCHANGED <<read, scoring, ring, reported, faults>>
      BY <1>5 DEF SoftDelete, readers
    <2>2. TableTyped' /\ TableInv' /\ FeedbackInv' /\ Moves
      BY <1>0, <1>5, SoftDeleteStep
    <2> QED
      BY <1>0, <2>1, <2>2, TableStep
  <1>6. ASSUME NEW f \in Forgets, Unindex(f) \/ ForgetFails(f) PROVE IInv'
    <2>1. /\ UNCHANGED <<read, scoring, ring, reported>>
          /\ faults' = faults \/ (faults < MaxFaults /\ faults' = faults + 1)
      BY <1>6 DEF Unindex, ForgetFails, readers
    <2>2. TableTyped' /\ TableInv' /\ FeedbackInv' /\ Moves
      BY <1>0, <1>6, UnindexStep
    <2>3. faults' \in 0..MaxFaults
      BY <1>0, <2>1, FaultsStep
    <2> QED
      BY <1>0, <2>1, <2>2, <2>3, TableStep
  <1>7. CASE SetScoring
    <2>1. /\ UNCHANGED <<world, read, ring, reported, faults>>
          /\ scoring < Len(Scorings) /\ scoring' = scoring + 1
      BY <1>7 DEF SetScoring
    <2>2. scoring' \in Versions
      BY <1>0, <2>1, ScoringFacts DEF Versions
    <2>3. TableTyped' /\ TableInv' /\ FeedbackInv'
      BY <1>0, <2>1 DEF world, TableTyped, TableInv, FeedbackInv, FeedbackCounts
    <2>4. Moves
      BY <1>0, <2>1 DEF Moves, world, TableTyped
    <2> QED
      BY <1>0, <2>1, <2>2, <2>3, <2>4, TableStep
  <1>8. CASE UNCHANGED vars
    <2>1. UNCHANGED <<world, read, ring, reported, faults, scoring>>
      BY <1>8 DEF vars, world
    <2>2. TableTyped' /\ TableInv' /\ FeedbackInv'
      BY <1>0, <2>1 DEF world, TableTyped, TableInv, FeedbackInv, FeedbackCounts
    <2>3. Moves
      BY <1>0, <2>1 DEF Moves, world, TableTyped
    <2> QED
      BY <1>0, <2>1, <2>2, <2>3, TableStep
  <1> QED
    BY <1>1, <1>2, <1>3, <1>4, <1>5, <1>6, <1>7, <1>8 DEF Next

\* It always holds.
THEOREM Invariance == Spec => []IInv
  <1>1. Init => IInv
    BY InitIInv
  <1>2. IInv /\ [Next]_vars => IInv'
    BY IInvStep
  <1> QED
    BY <1>1, <1>2, PTL DEF Spec

-----------------------------------------------------------------------------
(* What follows.                                                           *)

LEMMA TypeFollows == IInv => TypeOK
  <1> SUFFICES ASSUME IInv PROVE TypeOK
    OBVIOUS
  <1>1. TableTyped /\ ReaderTyped /\ faults \in 0..MaxFaults /\ Len(ring) <= Capacity
    BY DEF IInv, RingInv
  <1>2. ASSUME NEW r \in Reads
        PROVE
        /\ read[r].pc \in {"idle", "search", "anchor", "fetch", "report", "done", "failed"}
        /\ read[r].mode \in {"context", "search"} /\ read[r].weights \in 1..Len(Scorings)
        /\ read[r].hits \subseteq Ids /\ read[r].named \in 0..Len(Linked)
        /\ \A seen \in {read[r].vec, read[r].ent, read[r].rec} :
            DOMAIN seen \subseteq Ids /\ \A i \in DOMAIN seen : seen[i] \in Seen
        /\ read[r].found \in Seq(Ids) /\ read[r].out \in [Kinds -> Seq(Ids)]
        /\ read[r].began \in Nat /\ read[r].asof \in [Ids -> Nat]
        /\ read[r].gone \subseteq Ids
    <2>1. PICK x \in ReadSet : x = read[r]
      BY <1>1 DEF ReaderTyped
    <2>2. \A seen \in {x.vec, x.ent, x.rec} : seen \in Copies
      BY DEF ReadSet
    <2>3. \A seen \in {x.vec, x.ent, x.rec} :
            DOMAIN seen \subseteq Ids /\ \A i \in DOMAIN seen : seen[i] \in Seen
      BY <2>2 DEF Copies
    <2>4. x.weights \in 1..Len(Scorings)
      BY DEF ReadSet, Versions
    <2> QED
      BY <2>1, <2>3, <2>4 DEF ReadSet
  <1>3. ring \in Seq([id : Reads, entries : [Kinds -> Seq([mem : Ids, conf : 0..100])]])
    BY <1>1, Zenon DEF ReaderTyped, ReportSet, Entries
  <1>4. scoring \in 1..Len(Scorings) /\ reported \in Seq(Reads)
    BY <1>1 DEF ReaderTyped, Versions
  <1>5. row \in [Ids -> [conf : 0..100, updated : Nat, live : BOOLEAN]]
    BY <1>1, Zenon DEF TableTyped, RowSet
  <1>6. /\ feedback \in [Feedbacks -> [pc : {"idle", "write", "done", "failed"},
                                   mem : Ids \cup {0}, kind : FeedbackKinds, conf : 0..100]]
        /\ forget \in [Forgets -> [pc : {"idle", "unindex", "done", "failed"},
                               mem : Ids \cup {0}]]
    BY <1>1, Zenon DEF TableTyped, FeedbackSet, ForgetSet
  <1>7. /\ side \subseteq points /\ points \subseteq Ids /\ clock \in Nat
        /\ due \in [Ids -> 0..100] /\ raced \subseteq Ids /\ gone \subseteq Ids
    BY <1>1, Zenon DEF TableTyped
  <1> QED
    BY <1>1, <1>2, <1>3, <1>4, <1>5, <1>6, <1>7, Zenon DEF TypeOK

LEMMA SeesFollows == IInv => SeesEarlierWrites
  <1> SUFFICES ASSUME IInv, NEW r \in Reads
               PROVE
        /\ Served(r) \cap read[r].gone = {}
        /\ \A i \in Served(r) : Candidates(read[r])[i].updated >= read[r].asof[i]
        /\ read[r].pc = "report" /\ clock = read[r].began =>
              \A i \in Ids :
                 /\ row[i].live /\ InScope(i)
                 /\ Cardinality({j \in Ids : row[j].live /\ row[j].updated > row[i].updated})
                        < RecentWindow
                 => i \in DOMAIN Candidates(read[r])
    BY Zenon DEF SeesEarlierWrites
  <1>1. PICK x \in ReadSet : x = read[r] /\ ReadInv(x)
    BY DEF IInv, ReaderTyped
  <1>2. TableTyped /\ TableInv
    BY DEF IInv
  <1>3. /\ TimeInv(x) /\ HiddenInv(x) /\ ListedInv(x) /\ ChosenInv(x)
    BY <1>1 DEF ReadInv
  <1> DEFINE C == DOMAIN Candidates(x)
  <1>4. C = DOMAIN x.vec \cup DOMAIN x.ent \cup DOMAIN x.rec
    BY CandidatesFacts
  <1>5. Served(r) \subseteq C
    BY <1>1, <1>3, <1>4 DEF Served, HiddenInv
  <1>6. C \cap x.gone = {}
    BY <1>3, <1>4 DEF HiddenInv
  <1>7. ASSUME NEW i \in C PROVE Candidates(x)[i].updated >= x.asof[i]
    <2>1. PICK seen \in {x.vec, x.ent, x.rec} :
              i \in DOMAIN seen /\ Candidates(x)[i] = seen[i]
      BY CandidatesFacts
    <2>2. x.asof[i] <= seen[i].updated
      BY <1>3, <2>1 DEF TimeInv
    <2>3. Candidates(x)[i].updated \in Int /\ i \in Ids
      BY CandidateType
    <2>4. x.asof[i] \in Nat
      BY <2>3 DEF ReadSet
    <2> QED
      BY <2>1, <2>2, <2>3, <2>4
  <1>8. ASSUME x.pc = "report", clock = x.began, NEW i \in Ids,
               row[i].live, InScope(i),
               Cardinality({j \in Ids : row[j].live /\ row[j].updated > row[i].updated})
                   < RecentWindow
        PROVE  i \in C
    <2>1. Listed(Ids, RecentWindow) \subseteq DOMAIN x.rec
      BY <1>3, <1>8 DEF ListedInv, ChosenInv
    <2> DEFINE live == {j \in Ids : row[j].live}
    <2>2. \A j \in live : Newer(j, i) <=> row[j].updated > row[i].updated
      <3>1. \A j \in Ids : row[j].updated \in Nat
        BY <1>2 DEF TableTyped, RowSet
      <3> QED
        BY <1>2, <3>1, IdsFacts DEF Newer, TableInv
    <2>3. {j \in live : Newer(j, i)}
            = {j \in Ids : row[j].live /\ row[j].updated > row[i].updated}
      BY <2>2
    <2>4. i \in First(live, RecentWindow, Newer)
      BY <1>8, <2>3 DEF First
    <2>5. i \in Listed(Ids, RecentWindow)
      BY <1>8, <2>4 DEF Listed
    <2> QED
      BY <1>4, <2>1, <2>5
  <1> QED
    BY <1>1, <1>5, <1>6, <1>7, <1>8

LEMMA RankedFollows == IInv => PackageRanked
  <1> SUFFICES ASSUME IInv, NEW r \in Reads, NEW k \in Kinds, read[r].pc = "report"
               PROVE  Chosen(read[r], read[r].out[k], k)
    BY Zenon DEF PackageRanked, Chosen
  <1> QED
    BY DEF IInv, ReadInv, ChosenInv

LEMMA ExplainedFollows == IInv => ExplainedWhileRecent
  <1> SUFFICES ASSUME IInv, NEW n \in DOMAIN reported, n > Len(reported) - Capacity
               PROVE  \E report \in InspectProvenance(reported[n]) :
                        \A k \in Kinds :
                            LET listed == report.entries[k] IN
                            /\ [e \in DOMAIN listed |-> listed[e].mem]
                                   = read[reported[n]].out[k]
                            /\ \A e \in DOMAIN listed : listed[e].conf >= MinConfidence
    BY Zenon DEF ExplainedWhileRecent
  <1>1. ReaderTyped /\ RingInv
    BY DEF IInv
  <1>2. /\ ring \in Seq(ReportSet) /\ Len(ring) \in Nat
        /\ reported \in Seq(Reads) /\ Len(reported) \in Nat /\ n \in 1..Len(reported)
    BY <1>1 DEF ReaderTyped
  <1> DEFINE m == Len(reported) + 1 - n
  <1>3. m \in 1..Len(ring) /\ Len(reported) + 1 - m = n
    <2>1. /\ Len(ring) <= Capacity /\ Len(ring) <= Len(reported)
          /\ Len(ring) = Capacity \/ Len(ring) = Len(reported)
      BY <1>1, Zenon DEF RingInv
    <2>2. Capacity \in Nat \ {0}
      BY NumberFacts, Zenon
    <2>3. n \in Nat /\ n >= 1 /\ n <= Len(reported)
      BY <1>2
    <2> QED
      BY <1>2, <2>1, <2>2, <2>3
  <1> HIDE DEF m
  <1>4. ring[m].id = reported[n] /\ Explains(ring[m])
    BY <1>1, <1>3 DEF RingInv
  <1>5. ring[m] \in InspectProvenance(reported[n])
    BY <1>2, <1>3, <1>4 DEF InspectProvenance, Range
  <1> DEFINE mine == ring[m]
  <1>6. \A k \in Kinds :
            LET listed == mine.entries[k] IN
            /\ [e \in DOMAIN listed |-> listed[e].mem] = read[reported[n]].out[k]
            /\ \A e \in DOMAIN listed : listed[e].conf >= MinConfidence
    BY <1>4 DEF Explains
  <1>7. mine \in InspectProvenance(reported[n])
    BY <1>5
  <1> HIDE DEF mine
  <1> QED
    BY <1>6, <1>7, Zenon

\* The types.
THEOREM TypeCorrect == Spec => []TypeOK
  BY Invariance, TypeFollows, PTL

\* A read returns nothing forgotten before it began and nothing older than it was then,
\* and alone it considers every memory in scope among the last updated: for any
\* weights, windows and scopes.
THEOREM ReadsSee == Spec => []SeesEarlierWrites
  BY Invariance, SeesFollows, PTL

\* A package takes the best of each kind in order, as many as its budget lets it.
THEOREM PackagesRanked == Spec => []PackageRanked
  BY Invariance, RankedFollows, PTL

\* inspect_provenance has the reports of the last Capacity packages.
THEOREM PackagesExplained == Spec => []ExplainedWhileRecent
  BY Invariance, ExplainedFollows, PTL

\* Feedback that meets no other on its memory counts exactly.
THEOREM FeedbackApplied == Spec => []FeedbackCounts
  <1>1. IInv => FeedbackCounts
    BY DEF IInv, FeedbackInv
  <1> QED
    BY <1>1, Invariance, PTL
=============================================================================
