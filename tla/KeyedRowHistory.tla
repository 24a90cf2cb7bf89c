----------------------------- MODULE KeyedRowHistory -----------------------------
(* What is remembered of the requests on a keyed row, and what they promise. *)

VARIABLES
    cleared,     \* slots whose request overlapped a clear
    failed       \* slots whose last request ended in an error

(* A double submit is benign: a request to set the row fails only if it    *)
(* overlapped one that clears it.                                          *)
FailsOnlyOverClear == failed \subseteq cleared
================================================================================
