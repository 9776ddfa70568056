SPECIFICATION Spec
CONSTANTS
    Procs = {p1}
    Dirs = {run}
    RunDir = run
    Configs = {c1, c2}
    Period = 1
    Delays = {1}
    Lag = 0
    Count = 1
    MaxTime = 1
    MaxCommands = 3
    None = None  NoFile = NoFile
SYMMETRY Symmetry
CHECK_DEADLOCK FALSE
INVARIANTS OneSeedPerRung
