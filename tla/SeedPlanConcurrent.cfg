SPECIFICATION Spec
CONSTANTS
    Procs = {p1, p2}
    Dirs = {lab, run}
    RunDir = run
    Configs = {c1}
    Period = 1
    Delays = {1}
    Lag = 0
    Count = 1
    MaxTime = 2
    MaxCommands = 4
    None = None  NoFile = NoFile
SYMMETRY Symmetry
CHECK_DEADLOCK FALSE
INVARIANTS TypeOK SeedsAfterStamp SeedOfPlan L2PlanStamped
