--------------------------- MODULE MCBillingDocuments ---------------------------
(* BillingDocuments for TLC. *)
EXTENDS BillingDocuments, TLC

(* Requests that overlap, on a single project, with the statuses that      *)
(* conversion and release depend on ...                                    *)
Overlapping ==
    [ops |-> {"create", "status", "update", "convert"}, alone |-> FALSE, places |-> {"A", None},
     targets |-> {"draft", "sent", "accepted", "paid", "cancelled"}]

(* ... and every request one at a time, some of them cut short.            *)
OneByOne ==
    [ops |-> {"create", "import", "status", "update", "convert", "delete", "kill"}, alone |-> TRUE,
     places |-> Projects \cup {None}, targets |-> Statuses]

Everyday == {Overlapping, OneByOne}

Symmetry == Permutations(Docs) \cup Permutations(Slots)
================================================================================
