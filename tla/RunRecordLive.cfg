SPECIFICATION FairSpec
CONSTANTS
    b1 = b1  b2 = b2  c1 = c1  c2 = c2
    Contents = {c1, c2}
    Bodies = {b1, b2}
    BodyContent <- MCBodyContent
    Procs = {p1}
    Cids = {k1}
    Calendars = {o1}
    MaxCommands = 2
    Exclusive = TRUE
    None = None  NoFile = NoFile  Torn = Torn
CHECK_DEADLOCK FALSE
PROPERTIES EventuallyConfirmed
