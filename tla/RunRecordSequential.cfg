SPECIFICATION Spec
CONSTANTS
    b1 = b1  b2 = b2  c1 = c1  c2 = c2
    Contents = {c1, c2}
    Bodies = {b1, b2}
    BodyContent <- MCBodyContent
    Procs = {p1}
    Cids = {k1, k2}
    Calendars = {o1, o2}
    MaxCommands = 2
    Exclusive = TRUE
    None = None  NoFile = NoFile  Torn = Torn
SYMMETRY Symmetry
CHECK_DEADLOCK FALSE
INVARIANTS CardSound
PROPERTIES AnchorVerifies AttestationKept StampingOnlyAdds
