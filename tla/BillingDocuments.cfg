CONSTANTS
    Docs = {d1, d2}
    Projects = {"A", "B"}
    Slots = {s1, s2}
    Mixes <- Everyday
    None = None
SYMMETRY Symmetry
SPECIFICATION Spec
INVARIANTS ReleaseHolds BasisAccepted
PROPERTIES BasisUnchanged
