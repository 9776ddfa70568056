SPECIFICATION Spec
CONSTANTS
    d1 = d1 d2 = d2
    b1 = b1 b2 = b2 b3 = b3
    q1 = q1 q2 = q2
    c1 = c1
    i1 = i1 i2 = i2
    base1 = base1 empty = empty
    x1 = x1 x2 = x2
    Dirs = {d1, d2}
    Bodies = {b1, b2, b3}
    SeedOf <- MCSeedOf
    ConfigOf <- MCConfigOf
    PlanOf <- MCPlanOf
    Layouts <- MCLayouts
    Reruns <- MCReruns
    Plans = {q1, q2}
    Cids = {c1}
    MaxEdits = 0
    MaxCommands = 2
    None = None NoFile = NoFile Torn = Torn
    RunLists <- MCRunLists
    Configs = {base1, empty}
    Empty = empty
    Indexers = {i1, i2}
    Names = {n1}
    StageLists <- MCStageLists
    FileLists <- MCFileLists
    MaxDeposits = 2
    Paths <- MCPaths
    Published <- MCPublished
    Contents = {x1, x2}
    Starts <- MCStarts
    MaxChanges = 0
    MaxUses = 0
    Absent = Absent
INVARIANT DisagreementFlagged
SYMMETRY TwoIndexers
CHECK_DEADLOCK FALSE
