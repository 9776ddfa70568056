SPECIFICATION Spec
CONSTANTS
    Procs = {p1}
    Dirs = {lab, run}
    RunDir = run
    Configs = {c1, c2}
    Period = 1
    Delays = {2}
    Lag = 1
    Count = 2
    MaxTime = 2
    MaxCommands = 4
    None = None  NoFile = NoFile
SYMMETRY Symmetry
CHECK_DEADLOCK FALSE
INVARIANTS DatedBeforeRound OneSeedPerPlan
