----------------------------- MODULE NumberRegister -----------------------------
(***************************************************************************)
(* What the numbering of a company's billing documents promises: every     *)
(* request happens at once or not at all.  A new document takes the next   *)
(* number and nothing else does; a document that comes with its number     *)
(* moves the next one just past it, or leaves it alone.                    *)
(***************************************************************************)
EXTENDS Integers

CONSTANTS
    Numbers,    \* the numbers a document can have
    Issued(_),  \* the number the register writes for a sequence
    Reach(_)    \* the sequence a number stands for, 0 if it is of another kind

VARIABLES
    next,       \* the sequence of the next new document
    docs        \* the numbers of the documents that exist

Init == next = 1 /\ docs = {}

Issue ==
    /\ Issued(next) \in Numbers \ docs
    /\ docs' = docs \cup {Issued(next)}
    /\ next' = next + 1

Absorb(n) ==
    /\ n \notin docs
    /\ docs' = docs \cup {n}
    /\ next' = IF Reach(n) < next THEN next ELSE Reach(n) + 1

Discard(n) == n \in docs /\ docs' = docs \ {n} /\ UNCHANGED next

Next == Issue \/ \E n \in Numbers : Absorb(n) \/ Discard(n)

Spec == Init /\ [][Next]_<<next, docs>>
================================================================================
