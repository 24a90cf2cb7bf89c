CONSTANTS
    Slots = {s1, s2}
    Prefixes = {"F2"}
    Digits = {"F2"}
    Own = "F2"
    MaxSeq = 2
    LastSeq = 2
    MaxDocs = 4
    Ops = {"create", "import"}
    None = None
SYMMETRY Symmetry
SPECIFICATION Spec
INVARIANTS NeverBlocked
