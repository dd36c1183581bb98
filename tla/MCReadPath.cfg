SPECIFICATION Spec
SYMMETRY Symmetric
CHECK_DEADLOCK FALSE
CONSTANTS
    Ids = {1, 2, 3, 4, 5}
    ScopeOf <- MCScopeOf
    KindOf <- MCKindOf
    Tokens <- MCTokens
    Similarity <- MCSimilarity
    Confidence <- MCConfidence
    Linked <- MCLinked
    Requested <- MCRequested
    Kinds = {"claim", "decision"}
    Weight <- MCWeight
    Scorings <- MCScorings
    Votes <- MCVotes
    Forgettable <- MCForgettable
    MinConfidence = 60
    MaxPerKind = 2
    TokenBudget = 8
    VectorOversample = 3
    EntityPerHitLimit = 1
    RecentWindow = 2
    SearchOversample = 3
    SearchLimit = 1
    MinSimilarity = 0
    Capacity = 1
    Reads = {r1, r2}
    Feedbacks = {f1, f2}
    Forgets = {g1}
    MaxFaults = 1
INVARIANTS
    SeesEarlierWrites
    PackageRanked
    ExplainedWhileRecent
    FeedbackCounts
