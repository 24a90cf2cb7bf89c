CONSTANTS
    Slots = {s1, s2}
    Prefixes = {"FLW", "ACM"}
    Digits = {}
    Own = "FLW"
    MaxSeq = 2
    LastSeq = 4
    MaxDocs = 3
    Ops = {"create", "import", "delete", "kill"}
    None = None
SYMMETRY Symmetry
SPECIFICATION Spec
INVARIANTS TypeOK Continuous NeverBlocked
PROPERTIES CounterNeverRewinds ImplementsRegister
