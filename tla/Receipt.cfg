SPECIFICATION Spec
CONSTANTS
    Procs = {p1, p2}
    Bodies = {b1, b2}
    Artifacts = {a1}
    MaxCommands = 2
    None = None  NoFile = NoFile  Torn = Torn
SYMMETRY Symmetry
INVARIANTS TypeOK RowSound L3Signed
PROPERTIES ReproduceVerifies
