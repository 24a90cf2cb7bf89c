CONSTANTS
    Users = {u1, u2, u3}
    Companies = {1}
    Slots = {s1, s2}
    Ops = {"delete_account", "set_role", "boot"}
    NoOne = NoOne
    Mixes <- Contending
SPECIFICATION MixFairSpec
PROPERTIES EveryRequestEnds NoOneStranded
CHECK_DEADLOCK FALSE
