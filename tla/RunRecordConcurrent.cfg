SPECIFICATION Spec
CONSTANTS
    b1 = b1  b2 = b2  c1 = c1  c2 = c2
    Contents = {c1, c2}
    Bodies = {b1, b2}
    BodyContent <- MCBodyContent
    Procs = {p1, p2}
    Cids = {k1}
    Calendars = {o1}
    MaxCommands = 2
    Exclusive = FALSE
    None = None  NoFile = NoFile  Torn = Torn
SYMMETRY Symmetry
CHECK_DEADLOCK FALSE
INVARIANTS TypeOK L0Sound StampsMatchBody AnchorSubmitted ProofBeforeRecord
PROPERTIES KeepsPromise
