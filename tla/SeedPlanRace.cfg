SPECIFICATION Spec
CONSTANTS
    Procs = {p1}
    Dirs = {run}
    RunDir = run
    Configs = {c1}
    Period = 2
    Delays = {1}
    Lag = 0
    Count = 1
    MaxTime = 4
    MaxCommands = 2
    None = None  NoFile = NoFile
SYMMETRY Symmetry
CHECK_DEADLOCK FALSE
INVARIANTS AnchoredBeforeRound
