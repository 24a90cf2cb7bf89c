------------------------------ MODULE InvoiceReturns ------------------------------
(***************************************************************************)
(* The ledger of one project: purchases (materials_services), other        *)
(* expenses (others) and the returns that lower them.  A return may refund *)
(* a purchase (refunds_invoice_id), and its credit, an avoir, may be spent *)
(* on an expense (applied_to_invoice_id); neither may exceed the invoice.  *)
(*                                                                         *)
(* A request runs in one transaction at READ COMMITTED.  It locks          *)
(* (SELECT ... FOR UPDATE) the invoices its return links to, not the       *)
(* invoice it is about; it reads that one again before it writes, and the  *)
(* UPDATE sets the columns that then differ.                               *)
(***************************************************************************)
EXTENDS Integers, FiniteSets, FiniteSetsExt

CONSTANTS
    Slots,     \* requests the workers can serve at the same time
    Invoices,  \* ids of invoices: the order of the ids is that of the integers
    Purchases, \* the purchases and the expenses that exist at the start ...
    Expenses,
    MaxTotal,  \* bound: the largest total, in some unit
    Mixes,     \* classes of requests that a behaviour is made of
    Alone,     \* the mixes that are served one request at a time
    None,      \* "no invoice", "no slot"
    Keep       \* "not in the request"

(* Requests by what they do and to what: returns and expenses are created, *)
(* given a new total and deleted; anything may be linked or change type.   *)
Classes == {"create return", "create expense", "amend return", "amend expense",
            "delete return", "delete expense", "relink", "retype", "kill"}

Constants ==
    /\ Invoices \subseteq Nat /\ IsFiniteSet(Invoices)
    /\ Purchases \subseteq Invoices /\ Expenses \subseteq Invoices \ Purchases
    /\ MaxTotal \in Nat \ {0}
    /\ Alone \subseteq Mixes /\ Mixes \subseteq SUBSET Classes
    /\ None \notin Slots \cup Invoices
    /\ Keep \notin Invoices \cup Int \cup {None, "materials_services", "others", "return"}

VARIABLES
    inv,       \* the invoices, committed
    counter,   \* the next number of the project, committed
    locker,    \* per invoice: the slot that holds its row
    pc, req,   \* per slot: the next step, and the request
    found,     \* per slot: the invoice as the request found it
    seen,      \* per slot: the invoice as update() read it again
    mix        \* the classes of requests of this behaviour

tables == <<inv, counter>>
vars   == <<inv, counter, locker, pc, req, found, seen, mix>>

--------------------------------------------------------------------------------
(* Invoices *)

Types == {"materials_services", "others", "return"}
Links == Invoices \cup {None}
Totals == (-MaxTotal)..MaxTotal \ {0}

(* A deleted invoice leaves its number behind. *)
Rows == [type : Types \cup {"unused", "deleted"}, total : Totals \cup {0},
         refunds : Links, applied : Links, number : Nat]
NoRow == [type |-> "unused", total |-> 0, refunds |-> None, applied |-> None, number |-> 0]

Live == {i \in Invoices : inv[i].type \in Types}

(* Purchases and returns may have lines of both signs, but not any total. *)
SignOf(t, v) == IF t = "return" THEN v <= 0 ELSE v >= 0

Total(i) == inv[i].total
SumOf(S) == MapThenSumSet(Total, S)
RefundsOf(i, but) == SumOf({r \in Live \ but : inv[r].type = "return" /\ inv[r].refunds = i})
AppliedTo(i, but) == SumOf({r \in Live \ but : inv[r].type = "return" /\ inv[r].applied = i})
Size(v) == IF v < 0 THEN -v ELSE v

--------------------------------------------------------------------------------
(* Requests *)

PCs  == {"idle", "lock", "insert", "write", "delete", "drop"}

(* A request to create, to change or to delete; Keep leaves a field alone. *)
Requests ==
    [op : {"none", "create", "update", "delete"}, class : Classes \cup {"none"}, about : Links,
     type : Types \cup {Keep}, total : Totals \cup {Keep},
     refunds : Links \cup {Keep}, applied : Links \cup {Keep}]
NoReq == [op |-> "none", class |-> "none", about |-> None, type |-> Keep,
          total |-> Keep, refunds |-> Keep, applied |-> Keep]

(* The transaction of s is over ...                                         *)
End(s) ==
    /\ locker' = [i \in Invoices |-> IF locker[i] = s THEN None ELSE locker[i]]
    /\ pc' = [pc EXCEPT ![s] = "idle"]
    /\ req' = [req EXCEPT ![s] = NoReq]
    /\ found' = [found EXCEPT ![s] = NoRow]
    /\ seen' = [seen EXCEPT ![s] = NoRow]

(* ... refused, rolled back or without anything to write.                   *)
Leave(s) == End(s) /\ UNCHANGED tables

Goto(s, step) == pc' = [pc EXCEPT ![s] = step]

(* What the request makes of a row.  A link that was not given survives     *)
(* only on a return.                                                        *)
Given(field, old) == IF field = Keep THEN old ELSE field
Link(field, old, t) == IF field # Keep THEN field ELSE IF t = "return" THEN old ELSE None
Changed(r, row) ==
    LET t == Given(r.type, row.type) IN
    [row EXCEPT !.type = t, !.total = Given(r.total, row.total),
                !.refunds = Link(r.refunds, row.refunds, t),
                !.applied = Link(r.applied, row.applied, t)]
New(s) == Changed(req[s], found[s])

(* The signs of new lines, or of the old ones under a new type; a request   *)
(* that has them wrong is refused before it does anything.                  *)
SignAccepted(r, row) ==
    LET new == Changed(r, row) IN
    new.type # row.type \/ r.total # Keep => SignOf(new.type, new.total)

Admitted(s, class) ==
    /\ pc[s] = "idle" /\ class \in mix
    /\ mix \in Alone => \A t \in Slots : pc[t] = "idle"

Serve(s, r, row, step) ==
    /\ SignAccepted(r, row)
    /\ req' = [req EXCEPT ![s] = r]
    /\ found' = [found EXCEPT ![s] = row]
    /\ pc' = [pc EXCEPT ![s] = step]
    /\ UNCHANGED <<tables, locker, seen>>

--------------------------------------------------------------------------------
(* Locks *)

(* The links of the new row that have to be checked again.                  *)
ToLock(s) ==
    LET r == req[s] IN
    IF New(s).type # "return" THEN {}
    ELSE {l \in Live : \/ l = New(s).refunds /\ (r.refunds # Keep \/ r.total # Keep)
                       \/ l = New(s).applied /\ (r.applied # Keep \/ r.total # Keep)} \ {r.about}

Held(s) == {i \in Invoices : locker[i] = s}

(* lock_invoices_in_id_order; the variant locks them as the request names   *)
(* them, the refund source first.                                           *)
SourceFirst(s) ==
    LET left == ToLock(s) \ Held(s) IN
    IF New(s).refunds \in left THEN New(s).refunds ELSE CHOOSE i \in left : TRUE
InIdOrder(s) == Min(ToLock(s) \ Held(s))

(* find_by_id_for_update waits for the row; the variant does not.           *)
ReadInvoice(s, i) == locker' = [locker EXCEPT ![i] = s]
HoldInvoice(s, i) == locker[i] = None /\ locker' = [locker EXCEPT ![i] = s]

Lock(s) ==
    /\ pc[s] = "lock" /\ ~(ToLock(s) \subseteq Held(s))
    /\ HoldInvoice(s, InIdOrder(s))
    /\ UNCHANGED <<tables, pc, req, found, seen>>

--------------------------------------------------------------------------------
(* Checks *)

(* The caps, without the row that the request is about; each sum is read   *)
(* under the lock of the invoice it belongs to.                            *)
RoomToRefund(i, but, v) == Total(i) + RefundsOf(i, but) + v >= 0
RoomToApply(i, but, v)  == Size(AppliedTo(i, but) + v) <= Total(i)

(* A link that is given has to suit; one that stays only has to have room  *)
(* for a new total.                                                        *)
RefundAccepted(s) ==
    LET r == req[s]  new == New(s)  i == new.refunds IN
    /\ r.refunds \in Invoices =>
           /\ new.type = "return" /\ i # r.about
           /\ i \in Live /\ inv[i].type = "materials_services"
           /\ RoomToRefund(i, {r.about}, new.total)
    /\ r.refunds = Keep /\ new.type = "return" /\ r.total # Keep /\ i \in Live =>
           RoomToRefund(i, {r.about}, new.total)

ApplyAccepted(s) ==
    LET r == req[s]  new == New(s)  i == new.applied IN
    /\ r.applied \in Invoices =>
           /\ new.type = "return" /\ i # r.about
           /\ i \in Live /\ inv[i].type # "return"
           /\ RoomToApply(i, {r.about}, new.total)
    /\ r.applied = Keep /\ new.type = "return" /\ r.total # Keep /\ i \in Live =>
           RoomToApply(i, {r.about}, new.total)

(* The returns that already lower the invoice the request changes: these   *)
(* sums are read without a lock of that invoice.                           *)
OwnReturnsAllow(s) ==
    LET r == req[s]  new == New(s)  old == found[s]  refunded == RefundsOf(r.about, {}) IN
    old.type = "materials_services" /\ (new.type # old.type \/ r.total # Keep) /\ refunded # 0
        => new.type = old.type /\ new.total + refunded >= 0

OwnCreditsAllow(s) ==
    LET r == req[s]  new == New(s)  old == found[s]  spent == AppliedTo(r.about, {}) IN
    old.type # "return" /\ (new.type # old.type \/ r.total # Keep) /\ spent # 0
        => new.type # "return" /\ Size(spent) <= new.total

(* update() reads the row again before it writes it.  A commit between the *)
(* sums and this read is as good as one before both, if it is of this row, *)
(* which the sums leave out, or else as one after both.                    *)
Check(s) ==
    LET r == req[s] IN
    /\ pc[s] = "lock" /\ ToLock(s) \subseteq Held(s)
    /\ IF /\ RefundAccepted(s) /\ ApplyAccepted(s)
          /\ r.op = "update" => r.about \in Live /\ OwnReturnsAllow(s) /\ OwnCreditsAllow(s)
       THEN /\ Goto(s, IF r.op = "create" THEN "insert" ELSE "write")
            /\ seen' = [seen EXCEPT ![s] = inv[r.about]]
            /\ UNCHANGED <<tables, locker, req, found>>
       ELSE Leave(s)

--------------------------------------------------------------------------------
(* Create *)

(* _claim_number; before there was a counter it was the highest number in  *)
(* use, and one.                                                           *)
Highest == Max({inv[i].number : i \in Live} \cup {0})
ClaimedNumber == Max({counter, Highest + 1})

(* The counter's row is locked from the claim to the commit, and nobody    *)
(* else reads it in between.                                               *)
Insert(s) ==
    /\ pc[s] = "insert"
    /\ IF {New(s).refunds, New(s).applied} \subseteq Live \cup {None}
       THEN /\ inv' = [inv EXCEPT ![req[s].about] = [New(s) EXCEPT !.number = ClaimedNumber]]
            /\ counter' = ClaimedNumber + 1
            /\ End(s)
       ELSE Leave(s)

--------------------------------------------------------------------------------
(* Update *)

(* A column is written if it differs from the row that was read again.     *)
Column(new, old, now) == IF new = old THEN now ELSE new
Written(s) ==
    LET new == New(s)  old == seen[s]  now == inv[req[s].about] IN
    [type |-> Column(new.type, old.type, now.type),
     total |-> Column(new.total, old.total, now.total),
     refunds |-> Column(new.refunds, old.refunds, now.refunds),
     applied |-> Column(new.applied, old.applied, now.applied),
     number |-> now.number]

(* The links that the foreign keys check.                                  *)
NewLinks(s) ==
    LET new == New(s)  old == seen[s] IN
    {l \in Links : \/ l = new.refunds /\ l # old.refunds
                   \/ l = new.applied /\ l # old.applied}

Write(s) ==
    /\ pc[s] = "write"
    /\ locker[req[s].about] \in {None, s}
    /\ \A l \in NewLinks(s) \cap Invoices : locker[l] \in {None, s}
    /\ IF req[s].about \in Live /\ NewLinks(s) \subseteq Live \cup {None}
       THEN /\ inv' = [inv EXCEPT ![req[s].about] = Written(s)]
            /\ UNCHANGED counter
            /\ End(s)
       ELSE Leave(s)

--------------------------------------------------------------------------------
(* Delete *)

(* The variant does not look at the returns.                               *)
DeleteUnchecked(s) ==
    /\ pc[s] = "delete"
    /\ Goto(s, "drop")
    /\ UNCHANGED <<tables, locker, req, found, seen>>

Delete(s) ==
    LET i == req[s].about IN
    /\ pc[s] = "delete"
    /\ IF \/ found[s].type = "materials_services" /\ RefundsOf(i, {}) # 0
          \/ found[s].type # "return" /\ AppliedTo(i, {}) # 0
       THEN Leave(s)
       ELSE Goto(s, "drop") /\ UNCHANGED <<tables, locker, req, found, seen>>

(* ON DELETE SET NULL clears the links to the row that goes.               *)
Without(i) ==
    [r \in Invoices |->
        IF r = i THEN [NoRow EXCEPT !.type = "deleted", !.number = inv[i].number]
        ELSE [inv[r] EXCEPT !.refunds = IF @ = i THEN None ELSE @,
                            !.applied = IF @ = i THEN None ELSE @]]

Drop(s) ==
    LET i == req[s].about IN
    /\ pc[s] = "drop"
    /\ \A r \in Live : r = i \/ i \in {inv[r].refunds, inv[r].applied} => locker[r] = None
    /\ inv' = IF i \in Live THEN Without(i) ELSE inv
    /\ UNCHANGED counter
    /\ End(s)

--------------------------------------------------------------------------------
(* Requests *)

(* A link that is given names an expense: another one is refused.          *)
Linkable == {i \in Live : inv[i].type # "return"} \cup {None}
Fresh == {i \in Invoices : inv[i].type = "unused" /\ \A s \in Slots : req[s].about # i}
Either(t, return, expense) == IF t = "return" THEN return ELSE expense

Create(s, t) ==
    LET class == Either(t, "create return", "create expense") IN
    /\ Admitted(s, class) /\ Fresh # {}
    /\ \E v \in Totals, refunds, applied \in Either(t, Linkable, {None}) :
           Serve(s, [op |-> "create", class |-> class, about |-> Min(Fresh), type |-> t,
                     total |-> v, refunds |-> refunds, applied |-> applied], NoRow, "lock")

(* find_by_id, and what the request makes of the invoice it found.         *)
Update(s, i, r) ==
    Serve(s, [r EXCEPT !.op = "update", !.about = i], inv[i], "lock")

Amend(s, i) ==
    LET class == Either(inv[i].type, "amend return", "amend expense") IN
    /\ Admitted(s, class)
    /\ \E v \in Totals : Update(s, i, [NoReq EXCEPT !.class = class, !.total = v])

Relink(s, i) ==
    /\ Admitted(s, "relink")
    /\ \E refunds, applied \in Linkable \cup {Keep} :
           Update(s, i, [NoReq EXCEPT !.class = "relink", !.refunds = refunds, !.applied = applied])

Retype(s, i, t) ==
    /\ Admitted(s, "retype")
    /\ t # inv[i].type
    /\ \E v \in Totals \cup {Keep} :
           Update(s, i, [NoReq EXCEPT !.class = "retype", !.total = v, !.type = t])

Remove(s, i) ==
    LET class == Either(inv[i].type, "delete return", "delete expense") IN
    /\ Admitted(s, class)
    /\ Serve(s, [NoReq EXCEPT !.op = "delete", !.about = i, !.class = class], inv[i], "delete")

(* InvoiceNotFoundError.                                                   *)
NotFound(s, i) ==
    /\ pc[s] = "idle" /\ inv[i].type = "deleted"
    /\ UNCHANGED <<tables, locker, pc, req, found, seen>>

(* The worker dies: PostgreSQL rolls its transaction back.                 *)
Killed(s) == "kill" \in mix /\ pc[s] # "idle" /\ Leave(s)

--------------------------------------------------------------------------------
(* Specification *)

Start(i, t) == [NoRow EXCEPT !.type = t, !.total = MaxTotal,
                             !.number = Cardinality({j \in Purchases \cup Expenses : j <= i})]

Init ==
    /\ inv = [i \in Invoices |-> IF i \in Purchases THEN Start(i, "materials_services")
                                ELSE IF i \in Expenses THEN Start(i, "others") ELSE NoRow]
    /\ counter = Cardinality(Purchases \cup Expenses) + 1
    /\ locker = [i \in Invoices |-> None]
    /\ pc = [s \in Slots |-> "idle"]
    /\ req = [s \in Slots |-> NoReq]
    /\ found = [s \in Slots |-> NoRow] /\ seen = [s \in Slots |-> NoRow]
    /\ mix \in Mixes

Asked(s) ==
    \/ \E t \in Types : Create(s, t)
    \/ \E i \in Live : Amend(s, i) \/ Relink(s, i) \/ Remove(s, i) \/ \E t \in Types : Retype(s, i, t)
    \/ \E i \in Invoices : NotFound(s, i)

Step(s) ==
    Lock(s) \/ Check(s) \/ Insert(s) \/ Write(s) \/ Delete(s) \/ Drop(s)

Next == (\E s \in Slots : Asked(s) \/ Step(s) \/ Killed(s)) /\ UNCHANGED mix

Spec == Init /\ [][Next]_vars

--------------------------------------------------------------------------------
(* Properties *)

TypeOK ==
    /\ inv \in [Invoices -> Rows] /\ counter \in Nat
    /\ locker \in [Invoices -> Slots \cup {None}]
    /\ pc \in [Slots -> PCs] /\ req \in [Slots -> Requests]
    /\ found \in [Slots -> Rows] /\ seen \in [Slots -> Rows]
    /\ mix \in Mixes

(* The returns of a purchase never exceed it, although the purchase, its   *)
(* returns and the sum of them are read and written by different requests. *)
RefundsWithinPurchase == \A i \in Live :
    inv[i].type = "materials_services" => RoomToRefund(i, {}, 0)

(* The credit spent on an expense never exceeds it.                        *)
CreditsWithinExpense == \A i \in Live : inv[i].type # "return" => RoomToApply(i, {}, 0)

(* A return refunds a purchase and is spent on an expense, whatever those  *)
(* became since it was linked.                                             *)
LinksSuit == \A r \in Live :
    /\ inv[r].refunds # None => inv[r].type = "return" /\ inv[inv[r].refunds].type = "materials_services"
    /\ inv[r].applied # None => inv[r].type = "return" /\ inv[inv[r].applied].type \in Types \ {"return"}

(* The deletion of an expense never takes the link of a return with it.    *)
LinksLast == \A r \in Live : \A i \in Invoices :
    i \in {inv[r].refunds, inv[r].applied} /\ inv'[i].type = "deleted" => inv'[r].type = "deleted"
NeverUnlinked == [][LinksLast]_vars

(* A number is handed out once, also after its invoice was deleted.        *)
NumbersUnique == \A i, j \in Invoices :
    i # j /\ inv[i].type # "unused" /\ inv[j].type # "unused" => inv[i].number # inv[j].number

(* The rows that s waits for.                                              *)
Wants(s) ==
    CASE pc[s] = "lock"  -> IF ToLock(s) \subseteq Held(s) THEN {} ELSE {InIdOrder(s)}
      [] pc[s] = "write" -> ({req[s].about} \cup NewLinks(s)) \cap Invoices
      [] pc[s] = "drop"  -> {r \in Live : r = req[s].about \/ req[s].about \in {inv[r].refunds, inv[r].applied}}
      [] OTHER           -> {}
WaitsFor(s, t) == s # t /\ \E i \in Wants(s) : locker[i] = t

(* Returns that cross, one refunding what the other is spent on, queue     *)
(* instead of waiting for each other.                                      *)
NoDeadlock == \A C \in SUBSET Slots : C # {} => \E s \in C : \A t \in C : ~WaitsFor(s, t)
================================================================================
