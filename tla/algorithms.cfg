SPECIFICATION Spec
CONSTANTS
    N = 4
    M = 5
    K = 4
    MaxDepth = 2
    Types = {s, r}
    MaxRel = 3
    Depths = {1, 2, 3}
    Labels = {a, b, c}
    Unit = 1
    MaxEmbeddings = 3
    Nil = Nil
    DefaultBudget = 3
    MaxLines = 2
    MaxRunes = 2
INVARIANT WalksShortest
INVARIANT RelatedWithinLimit
INVARIANT PairsFirstCome
INVARIANT MetricsByPairs
INVARIANT CapInSync
INVARIANT WholeRunes
CHECK_DEADLOCK FALSE
