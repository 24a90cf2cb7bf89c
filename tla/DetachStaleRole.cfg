CONSTANTS
    Users = {u1, u2}
    Companies = {1}
    Slots = {s1, s2}
    Ops = {"set_role", "detach"}
    NoOne = NoOne
SYMMETRY UserSymmetry
SPECIFICATION Spec
PROPERTIES CompanyKeepsAdmin
