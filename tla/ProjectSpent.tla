------------------------------ MODULE ProjectSpent ------------------------------
(***************************************************************************)
(* What a project has cost and who paid for it: the sums of                *)
(* sqlalchemy_project_spent_reader.py over the project's invoices and the  *)
(* labor its workers accrued, next to the purses of the expense page       *)
(* (sum_spent_split in sqlalchemy_invoice.py).                             *)
(***************************************************************************)
EXTENDS Integers, Sequences, Functions

CONSTANTS
    Accruals,     \* labor the workers may have accrued: functions from them to amounts
    Kinds,        \* invoices that may be recorded: [type, amount, worker, purse, by]
    MaxInvoices,
    None

VARIABLES
    accrued,  \* validated labor, by worker
    invoices  \* the project's invoices, each with what it is and who refunded it

vars == <<accrued, invoices>>

Init ==
    /\ accrued \in Accruals
    /\ invoices = <<>>

Record(kind) ==
    /\ Len(invoices) < MaxInvoices
    /\ invoices' = Append(invoices, kind)
    /\ UNCHANGED accrued

(* The refund of a purchase paid by hand is settled, or taken back. *)
Refund(i, by) ==
    /\ invoices[i].type = "materials_services" /\ invoices[i].purse # "company"
    /\ invoices' = [invoices EXCEPT ![i].by = by]
    /\ UNCHANGED accrued

Next ==
    \/ \E kind \in Kinds : Record(kind)
    \/ \E i \in DOMAIN invoices, by \in {None, "company", "bank", "both"} : Refund(i, by)

Spec == Init /\ [][Next]_vars

--------------------------------------------------------------------------------
Workers == DOMAIN accrued
Floored(n) == IF n < 0 THEN 0 ELSE n
Total(amounts) == FoldFunction(+, 0, amounts)
Sum(chosen) == Total([i \in chosen |-> invoices[i].amount])

All   == DOMAIN invoices
Labor == {i \in All : invoices[i].type = "labor"}
IsCompanyReimbursed(invoice) == invoice.by \in {"company", "both"}
IsCompanyPaid(invoice) == IsCompanyReimbursed(invoice) \/ invoice.purse = "company"

(* sum_spent_by_projects: one bucket for each invoice. *)
BucketOf(invoice) ==
    IF IsCompanyPaid(invoice) THEN "credits"
    ELSE IF invoice.purse = "personal" THEN "personal" ELSE "unassigned"

InBucket(bucket) == Sum({i \in All : BucketOf(invoices[i]) = bucket})

PaidTo(w) == Sum({i \in Labor : invoices[i].worker = w})

(* A mutant: a payment to nobody in particular is left out. *)
LaborPaidTagged == Sum({i \in Labor : invoices[i].worker # None})

LaborPaid == Sum(Labor)

(* A mutant: the wages still owed are those of the whole crew at once. *)
LaborUnpaidAtOnce == Floored(Total(accrued) - LaborPaid)

LaborUnpaid == Total([w \in Workers |-> Floored(accrued[w] - PaidTo(w))])

TotalSpent == LaborPaid + LaborUnpaid + Sum(All \ Labor)

ByCredits  == Floored(InBucket("credits"))
Personal   == Floored(InBucket("personal"))
Unassigned == Floored(InBucket("unassigned"))

(* sum_spent_split: two rules, each asked of every invoice. *)
ByHand(invoice) == invoice.purse = "personal" /\ ~IsCompanyReimbursed(invoice)
CompanySpent  == Floored(Sum({i \in All : IsCompanyPaid(invoices[i])}))
PersonalSpent == Floored(Sum({i \in All : ByHand(invoices[i])}))

--------------------------------------------------------------------------------
(* The purses, and the wages still owed, add up to the project's cost. *)
AddsUp == ByCredits + Personal + Unassigned + LaborUnpaid = TotalSpent

(* They do as long as no purse was credited with more than it spent. *)
SplitAddsUp == (\A bucket \in {"credits", "personal", "unassigned"} : InBucket(bucket) >= 0) => AddsUp

(* The card of the project and the expense page name the same figures. *)
PursesAgree == ByCredits = CompanySpent /\ Personal = PersonalSpent

(* Paying one worker, or nobody in particular, never settles what another  *)
(* worker is owed: the wages owed go down by what this worker was due.     *)
OwedEach ==
    \A kind \in Kinds : Record(kind) =>
        LET due == IF kind.worker \in Workers THEN Floored(accrued[kind.worker] - PaidTo(kind.worker)) ELSE 0
        IN  LaborUnpaid - LaborUnpaid' = IF due > 0 /\ kind.amount < due THEN kind.amount ELSE due
================================================================================
