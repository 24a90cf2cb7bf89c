CONSTANTS
    Users = {u1, u2}
    Companies = {1, 2}
    Slots = {s1, s2}
    Ops = {"set_role", "boot", "attach", "join", "set_code", "assign", "unassign", "set_primary", "detach"}
    NoOne = NoOne
    Mixes <- Everyday
SYMMETRY UserSymmetry
SPECIFICATION MixSpec
INVARIANTS TypeOK StaysListed OnePrimary
PROPERTIES GuardKeepsAnAdmin
