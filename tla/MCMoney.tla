-------------------------------- MODULE MCMoney --------------------------------
(***************************************************************************)
(* The expenses of a project, side by side: the returns that lower them,   *)
(* the refunds of those somebody paid, and what they sum up to.  A         *)
(* behaviour exercises one of the three.                                   *)
(***************************************************************************)
EXTENDS Integers, Sequences, FiniteSets, TLC

CONSTANTS Parts, Amounts, RefundMixes, Ids, Bought, Others, Largest, ReturnMixes, Slots, None, Keep

VARIABLES
    part,
    mix, expense, release, stray, company, pc, job,   \* Refunds
    accrued, invoices,                                \* ProjectSpent
    class, inv, counter, locker, at, req, found, seen \* InvoiceReturns

--------------------------------------------------------------------------------
Paid(status, by, method) == [total |-> 2, status |-> status, by |-> by, method |-> method]
Fresh == Paid(None, None, TRUE)
All   == {"status", "total", "method", "delete", "flag"}
Mix(does, alone, faults, first) == [ops |-> does, alone |-> alone, faults |-> faults, first |-> first]

Careful == Mix(All, TRUE, {}, {Fresh, Paid("refunded", "bank", FALSE)})
Failing == Mix({"status", "total"}, TRUE, {"persist fails"}, {Fresh})
Dying   == Mix({"status", "total", "delete"}, TRUE, {"crash"}, {Fresh, Paid("refunded", "both", TRUE)})
Moving  == Mix({"method", "flag", "total"}, FALSE, {}, {Paid("refundable", None, FALSE), Paid(None, None, FALSE)})
Racing  == Mix({"status", "total", "delete"}, FALSE, {}, {Fresh})
EverydayRefunds == {Careful, Failing, Dying, Moving, Racing}

F == INSTANCE Refunds WITH Totals <- Amounts, Mixes <- RefundMixes

ASSUME RefundConstants == F!Constants

--------------------------------------------------------------------------------
Crew == {"x", "y"}
Kind(type, amount, worker, purse) ==
    [type |-> type, amount |-> amount, worker |-> worker, purse |-> purse, by |-> None]

P == INSTANCE ProjectSpent WITH
         Accruals <- {[w \in Crew |-> IF w = "x" THEN 2 ELSE 1], [w \in {"x"} |-> 1]},
         Kinds <- {Kind("labor", n, w, purse) : n \in {1, 2}, w \in Crew \cup {None}, purse \in {"company", "personal"}}
                  \cup {Kind("materials_services", 2, None, purse) : purse \in {"company", "personal", "plain", None}}
                  \cup {Kind("return", -1, None, purse) : purse \in {"company", "personal", "plain", None}},
         MaxInvoices <- 3

(* Requests about returns overlap, and the others are mixed with them one  *)
(* at a time.                                                              *)
Overlapping == {"create return", "amend return", "kill"}
Linking     == {"create return", "create expense", "relink", "delete return"}
Expensing   == {"create return", "amend expense", "delete expense", "retype"}
Everyday    == {Overlapping, Linking, Expensing}
OneAtATime  == {Linking, Expensing} \cap ReturnMixes

(* A purchase is lowered while its returns come in. *)
Lowering == {{"create return", "amend expense"}}

R == INSTANCE InvoiceReturns WITH
         Invoices <- Ids, Purchases <- Bought, Expenses <- Others, MaxTotal <- Largest,
         Mixes <- ReturnMixes, Alone <- OneAtATime,
         mix <- class, pc <- at

ASSUME ReturnConstants == R!Constants

fvars == <<mix, expense, release, stray, company, pc, job>>
pvars == <<accrued, invoices>>
rvars == <<class, inv, counter, locker, at, req, found, seen>>
vars  == <<part, fvars, pvars, rvars>>

--------------------------------------------------------------------------------
Init ==
    /\ part \in Parts
    /\ IF part = "refunds" THEN F!Init
       ELSE mix = None /\ expense = None /\ release = None /\ stray = None /\ company = None
            /\ pc = None /\ job = None
    /\ IF part = "spent" THEN P!Init ELSE accrued = None /\ invoices = None
    /\ IF part = "returns" THEN R!Init
       ELSE class = None /\ inv = None /\ counter = None /\ locker = None /\ at = None /\ req = None
            /\ found = None /\ seen = None

Next ==
    /\ UNCHANGED part
    /\ \/ part = "refunds" /\ F!Next /\ UNCHANGED <<pvars, rvars>>
       \/ part = "spent" /\ P!Next /\ UNCHANGED <<fvars, rvars>>
       \/ part = "returns" /\ R!Next /\ UNCHANGED <<fvars, pvars>>

Spec == Init /\ [][Next]_vars

Symmetry == Permutations(Slots)

--------------------------------------------------------------------------------
(* A bank refund and its release mirror each other, and a tracked expense   *)
(* is never paid by the company as well.                                    *)
RefundsHold == part = "refunds" => F!TypeOK /\ F!RefundMirrored /\ F!NeverPaidTwice

(* After a failure or a crash the next status puts the release right.       *)
Converges == [][part = "refunds" => F!Converges]_vars

(* "best-effort compensating delete for a release it just created":         *)
(* violated, and in no run.                                                 *)
TakesBackItsOwn == [][part = "refunds" => F!TakesBackItsOwn]_vars

(* The purses, the wages paid and the wages owed add up to what was spent   *)
(* while no refund exceeds its purse, and the two readers of a purse agree. *)
SpentAddsUp == part = "spent" => P!SplitAddsUp /\ P!PursesAgree

(* "by_credits + personal + unassigned + labor_unpaid == total" always:     *)
(* violated, and in no run.                                                 *)
AddsUp == part = "spent" => P!AddsUp

(* Paying one worker never settles what another is owed.                    *)
OwedEach == [][part = "spent" => P!OwedEach]_vars

(* Returns stay within what they refund and what they are spent on, their   *)
(* links fit their types, and numbers are handed out once.                  *)
ReturnsHold == part = "returns" => /\ R!TypeOK
                                   /\ R!RefundsWithinPurchase /\ R!CreditsWithinExpense
                                   /\ R!LinksSuit /\ R!NumbersUnique

(* Also when an edit or the deletion of the purchase overlaps: violated     *)
(* with ReturnMixes <- Lowering, and in no run.                             *)
RefundsWithinPurchase == part = "returns" => R!RefundsWithinPurchase

(* Requests that lock two invoices never wait for each other.               *)
NoDeadlock == part = "returns" => R!NoDeadlock

(* The deletion of an expense never takes the link of a return with it.     *)
NeverUnlinked == [][part = "returns" => R!LinksLast]_vars
================================================================================
