-------------------------------- MODULE Refunds --------------------------------
(***************************************************************************)
(* An expense someone paid for and is owed back: its refund status, the    *)
(* release of funds made when the bank refunds it, and the flag of the     *)
(* payment method it was paid with.  The release and the status are        *)
(* written by two transactions: app/application/invoice/                   *)
(* set_refundable_status_usecase.py; the locks on a refunded expense are   *)
(* those of update_invoice.py and delete_invoice.py.                       *)
(***************************************************************************)
EXTENDS Integers, FiniteSets

CONSTANTS
    Slots,   \* requests being served
    Totals,  \* amounts an expense may have
    Mixes,   \* what a behaviour exercises: [ops, alone, faults, first]
    None

VARIABLES
    mix,
    expense, \* the expense's row, None once deleted: [total, status, by, method]
    release, \* amount of the release linked to it, None if there is none
    stray,   \* is there a release whose expense was deleted
    company, \* is the payment method flagged as the company's
    pc, job

vars == <<mix, expense, release, stray, company, pc, job>>

Statuses  == {None, "refundable", "refunded"}
Refunders == {None, "company", "bank", "both"}
Rows == [total : Totals, status : Statuses, by : Refunders, method : BOOLEAN]
Jobs == [op : {"status", "total", "method", "delete"}, base : Rows, new : Rows, made : BOOLEAN, own : BOOLEAN]

Constants ==
    /\ Totals \subseteq Nat
    /\ None \notin Totals \cup Rows \cup Jobs \cup {"refundable", "refunded", "company", "bank", "both"}
    /\ \A m \in Mixes : m.alone \in BOOLEAN /\ m.first \subseteq Rows

ByBank(row)  == row.status = "refunded" /\ row.by \in {"bank", "both"}
Tracked(row) == row.status # None

Init ==
    /\ mix \in Mixes
    /\ expense \in mix.first
    /\ release = IF ByBank(expense) THEN expense.total ELSE None
    /\ stray = FALSE
    /\ company = FALSE
    /\ pc = [t \in Slots |-> "idle"]
    /\ job = [t \in Slots |-> None]

--------------------------------------------------------------------------------
(* A request reads the expense; base is what its session believes          *)
(* is stored, and only columns that differ from base are written.  made is  *)
(* the code's reconcile_action = "created"; own, which the code does not    *)
(* keep, tells whether a row was really inserted.                           *)
Job(op, base, new) == [op |-> op, base |-> base, new |-> new, made |-> FALSE, own |-> FALSE]

MayStart(t, op) ==
    /\ op \in mix.ops
    /\ pc[t] = "idle"
    /\ mix.alone => \A s \in Slots : pc[s] = "idle"
    /\ expense # None

Begin(t, step, new) ==
    /\ pc' = [pc EXCEPT ![t] = step]
    /\ job' = [job EXCEPT ![t] = new]
    /\ UNCHANGED <<mix, expense, release, stray, company>>

Done(t) == pc' = [pc EXCEPT ![t] = "idle"] /\ job' = [job EXCEPT ![t] = None]

Written(new, base) ==
    [c \in DOMAIN new |-> IF new[c] # base[c] THEN new[c] ELSE expense[c]]

MayTrack(row) == (row.method => ~company) /\ (Tracked(row) \/ row.total > 0)

SetStatus(t, status, by) ==
    /\ MayStart(t, "status")
    /\ status # None => MayTrack(expense)
    /\ LET who == IF status # "refunded" THEN None ELSE IF by = None THEN "company" ELSE by
           new == [expense EXCEPT !.status = status, !.by = who]
       IN  Begin(t, IF ByBank(new) THEN "look" ELSE "unlink", Job("status", expense, new))

(* create_bank_refund_release: nothing for an empty amount, nor when the    *)
(* release is already there.                                                *)
Look(t) ==
    /\ pc[t] = "look"
    /\ pc' = [pc EXCEPT ![t] = IF job[t].new.total > 0 /\ release = None THEN "insert" ELSE "persist"]
    /\ job' = [job EXCEPT ![t].made = TRUE]
    /\ UNCHANGED <<mix, expense, release, stray, company>>

(* The insert: refused by the unique index or by the missing expense, which *)
(* is logged and goes on.  Either way the transaction ends, and the next    *)
(* look at the row is a fresh one.                                          *)
Insert(t) ==
    /\ pc[t] = "insert"
    /\ release' = IF release = None /\ expense # None THEN job[t].new.total ELSE release
    /\ pc' = [pc EXCEPT ![t] = "refetch"]
    /\ job' = [job EXCEPT ![t].own = (release = None)]
    /\ UNCHANGED <<mix, expense, stray, company>>

(* A mutant: an undone refund keeps its release. *)
UnlinkNothing(t) ==
    /\ pc[t] = "unlink"
    /\ pc' = [pc EXCEPT ![t] = "refetch"]
    /\ UNCHANGED <<mix, expense, release, stray, company, job>>

Unlink(t) ==
    /\ pc[t] = "unlink"
    /\ release' = None
    /\ pc' = [pc EXCEPT ![t] = "refetch"]
    /\ UNCHANGED <<mix, expense, stray, company, job>>

Persist(t) ==
    /\ pc[t] \in {"persist", "refetch"}
    /\ expense # None
    /\ expense' = Written(job[t].new, IF pc[t] = "refetch" THEN expense ELSE job[t].base)
    /\ Done(t)
    /\ UNCHANGED <<mix, release, stray, company>>

(* The update fails, or finds no row: what the request made is taken back. *)
PersistFails(t) ==
    /\ pc[t] \in {"persist", "refetch"}
    /\ "persist fails" \in mix.faults \/ expense = None
    /\ IF job[t].op = "status" /\ job[t].made
       THEN pc' = [pc EXCEPT ![t] = "compensate"] /\ UNCHANGED job
       ELSE Done(t)
    /\ UNCHANGED <<mix, expense, release, stray, company>>

Compensate(t) ==
    /\ pc[t] = "compensate"
    /\ release' = None
    /\ Done(t)
    /\ UNCHANGED <<mix, expense, stray, company>>

(* The process dies, or the compensation fails and is logged. *)
GiveUp(t) ==
    /\ \/ pc[t] # "idle" /\ "crash" \in mix.faults
       \/ pc[t] = "compensate" /\ "persist fails" \in mix.faults
    /\ Done(t)
    /\ UNCHANGED <<mix, expense, release, stray, company>>

--------------------------------------------------------------------------------

(* UpdateInvoice and DeleteInvoice of the expense: a refunded one is locked. *)
EditTotal(t, total) ==
    /\ MayStart(t, "total")
    /\ expense.status # "refunded"
    /\ Begin(t, "persist", Job("total", expense, [expense EXCEPT !.total = total]))

EditMethod(t, method) ==
    /\ MayStart(t, "method")
    /\ expense.status # "refunded"
    /\ Begin(t, IF method THEN "flagged" ELSE "persist",
             Job("method", expense, [expense EXCEPT !.method = method]))

(* The method's row is locked from the check of its flag to the commit. *)
PutOnMethod(t) ==
    /\ pc[t] = "flagged"
    /\ IF expense = None \/ (company /\ Tracked(job[t].base))
       THEN UNCHANGED expense
       ELSE expense' = Written(job[t].new, job[t].base)
    /\ Done(t)
    /\ UNCHANGED <<mix, release, stray, company>>

Delete(t) ==
    /\ MayStart(t, "delete")
    /\ expense.status # "refunded"
    /\ Begin(t, "drop", Job("delete", expense, expense))

(* The link of a release to a deleted expense becomes NULL. *)
Drop(t) ==
    /\ pc[t] = "drop"
    /\ expense' = None
    /\ release' = None
    /\ stray' = (stray \/ release # None)
    /\ Done(t)
    /\ UNCHANGED <<mix, company>>

(* An auto-generated release may be deleted by hand once its expense is gone. *)
DeleteStray ==
    /\ "delete" \in mix.ops
    /\ stray
    /\ stray' = FALSE
    /\ UNCHANGED <<mix, expense, release, company, pc, job>>

(* A mutant: a method is flagged without counting its tracked expenses. *)
FlagUncounted ==
    /\ "flag" \in mix.ops
    /\ ~company
    /\ company' = TRUE
    /\ UNCHANGED <<mix, expense, release, stray, pc, job>>

(* UpdatePaymentMethod, its row locked: not while a tracked expense uses it. *)
Flag ==
    /\ "flag" \in mix.ops
    /\ ~company /\ ~(expense # None /\ expense.method /\ Tracked(expense))
    /\ company' = TRUE
    /\ UNCHANGED <<mix, expense, release, stray, pc, job>>

Unflag ==
    /\ "flag" \in mix.ops
    /\ company
    /\ company' = FALSE
    /\ UNCHANGED <<mix, expense, release, stray, pc, job>>

Request(t) ==
    \/ \E status \in Statuses, by \in Refunders : SetStatus(t, status, by)
    \/ \E total \in Totals : EditTotal(t, total)
    \/ \E method \in BOOLEAN : EditMethod(t, method)
    \/ Delete(t)

Step(t) ==
    \/ Look(t) \/ Insert(t) \/ Unlink(t) \/ Persist(t) \/ PersistFails(t)
    \/ Compensate(t) \/ GiveUp(t) \/ PutOnMethod(t) \/ Drop(t)

Next == (\E t \in Slots : Request(t) \/ Step(t)) \/ DeleteStray \/ Flag \/ Unflag

Spec == Init /\ [][Next]_vars

--------------------------------------------------------------------------------
TypeOK ==
    /\ mix \in Mixes
    /\ expense \in Rows \cup {None}
    /\ release \in Totals \cup {None}
    /\ stray \in BOOLEAN /\ company \in BOOLEAN
    /\ \A t \in Slots : job[t] = None <=> pc[t] = "idle"

Quiet == \A t \in Slots : pc[t] = "idle"

Matched(row, funds) ==
    /\ funds # None => row # None /\ ByBank(row)
    /\ (row # None /\ ByBank(row) /\ row.total > 0) => funds # None

(* One request at a time and nothing fails: the funds the bank gave back   *)
(* are counted exactly while the expense says the bank refunded it, and    *)
(* for the amount the expense has, whatever edits, undone refunds and      *)
(* deletions came before; and none outlives its expense.                   *)
RefundMirrored ==
    mix.alone /\ mix.faults = {} /\ Quiet =>
        /\ Matched(expense, release)
        /\ release # None => release = expense.total
        /\ ~stray

(* Whatever failed or died before, the next status that goes through       *)
(* leaves the release there exactly when the status says so (an expense    *)
(* emptied after a failure may keep one).                                  *)
Converges ==
    \A t \in Slots :
        (mix.alone /\ pc[t] # "idle" /\ job[t].op = "status" /\ Persist(t)) => Matched(expense', release')

(* A tracked expense is never paid by the company as well: an expense that *)
(* is moved onto a method and the method that is flagged at the same time  *)
(* see each other through the lock on the method.                          *)
NeverPaidTwice ==
    "status" \notin mix.ops /\ expense # None /\ expense.method /\ company => ~Tracked(expense)

(* The compensation takes back what this request made, nothing older.      *)
TakesBackItsOwn ==
    \A t \in Slots : (mix.alone /\ release # None /\ Compensate(t)) => job[t].own
================================================================================
