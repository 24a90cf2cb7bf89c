--------------------------------- MODULE Quotes ---------------------------------
(***************************************************************************)
(* The prices collected for one article of a chiffrage: the shops they     *)
(* come from, the name a price shows for its shop, and the one offer the   *)
(* budget retains.  A request reads first and writes in a second step, in  *)
(* which the whole row is put back; only the choice of the retained offer  *)
(* takes a lock, the one of the article's row.  Amounts are left out.      *)
(***************************************************************************)
EXTENDS Integers, FiniteSets

CONSTANTS
    Slots,      \* requests served at the same time
    Shops, None, Keep, Gone,
    MaxQuotes,  \* bound: prices ever recorded
    Names,      \* the names a shop can have
    Mixes       \* what a behaviour exercises: its operations, one at a time or not, on which prices

Own   == "own"                  \* a supplier's name typed by the user
Ids   == 1..MaxQuotes
Price == [shop : Shops \cup {None}, name : Names \cup {Own, None}, retained : BOOLEAN]

VARIABLES
    mix,
    quote,   \* a price, None before it is recorded, Gone once deleted
    shop,    \* the name of a shop, None without one
    typed,   \* history: prices whose name is not taken from their shop
    locker,  \* the request that holds the article's row
    pc, job

vars == <<mix, quote, shop, typed, locker, pc, job>>

Constants ==
    /\ IsFiniteSet(Slots) /\ MaxQuotes \in Nat
    /\ None \notin Slots \cup Shops \cup Names \cup Price \cup {Own, Gone} /\ Gone \notin Price
    /\ Keep \notin {None, Own}
    /\ \A m \in Mixes :
        LET Was(q)    == m.first[q]
            listed    == {q \in Ids : Was(q) \notin {None, Gone}}
        IN  /\ m.alone \in BOOLEAN /\ m.first \in [Ids -> Price \cup {None, Gone}]
            /\ \A q \in listed : Was(q).name = Own \/ (Was(q).name = None /\ Was(q).shop # None)
            /\ \A q, r \in listed : Was(q).retained /\ Was(r).retained => q = r

Live == {q \in Ids : quote[q] \notin {None, Gone}}
Retained == {q \in Live : quote[q].retained}

Job == [op : {"none", "add", "edit", "delete", "select", "unselect", "rename", "drop", "open"},
        q : Ids \cup {None}, copy : Price \cup {None}, name : {Own, None, Keep},
        at : Shops \cup {None}, to : Names \cup {None}, cleared : SUBSET Ids]
Idle == [op |-> "none", q |-> None, copy |-> None, name |-> Keep, at |-> None, to |-> None, cleared |-> {}]

Init ==
    /\ mix \in Mixes /\ quote = mix.first
    /\ shop \in {f \in [Shops -> Names] : \A x, y \in Shops : x # y => f[x] # f[y]}
    /\ typed = {q \in Ids : quote[q] \notin {None, Gone} /\ quote[q].name = Own} /\ locker = None
    /\ pc = [s \in Slots |-> "idle"] /\ job = [s \in Slots |-> Idle]

--------------------------------------------------------------------------------
Free(s, op) ==
    /\ pc[s] = "idle" /\ op \in mix.ops
    /\ mix.alone => \A t \in Slots : pc[t] = "idle"

Go(s, step, j) ==
    /\ pc' = [pc EXCEPT ![s] = step] /\ job' = [job EXCEPT ![s] = j]
    /\ UNCHANGED <<mix, quote, shop, typed, locker>>

Done(s) == pc' = [pc EXCEPT ![s] = "idle"] /\ job' = [job EXCEPT ![s] = Idle]

(* A price names a shop of the project or a supplier, and takes the name of *)
(* its shop when none is given.                                             *)
Add(s) ==
    /\ Free(s, "add") /\ Cardinality({t \in Slots : job[t].op = "add"}) < Cardinality({q \in Ids : quote[q] = None})
    /\ \E at \in Shops \cup {None}, name \in {Own, None} :
        /\ at # None \/ name # None
        /\ at # None => shop[at] # None
        /\ Go(s, "write", [Idle EXCEPT !.op = "add", !.name = name, !.copy =
               [shop |-> at, name |-> IF name = None THEN shop[at] ELSE name, retained |-> FALSE]])

(* The name a price ends up with: a name that is only the old shop's        *)
(* follows the price to another shop, and a missing one is the shop's; the  *)
(* variant only fills in a missing one.                                     *)
AttributionOfMissing(old, at, name) ==
    LET given == IF name = Keep THEN old.name ELSE name
    IN  IF at # None /\ given = None THEN shop[at] ELSE given
Attribution(old, at, name) ==
    LET given   == IF name = Keep THEN old.name ELSE name
        follows == old.shop # None /\ at # old.shop /\ given = shop[old.shop]
    IN  IF at # None /\ (given = None \/ follows) THEN shop[at] ELSE given

Edit(s) ==
    /\ Free(s, "edit")
    /\ \E q \in Live, to \in Shops \cup {None, Keep}, name \in {Own, None, Keep} :
        LET old == quote[q]
            at  == IF to = Keep THEN old.shop ELSE to
        IN  /\ at # None \/ (IF name = Keep THEN old.name ELSE name) # None
            /\ at # None => shop[at] # None
            /\ Go(s, "write", [Idle EXCEPT !.op = "edit", !.q = q, !.name = name, !.copy =
                   [old EXCEPT !.shop = at, !.name = Attribution(old, at, name)]])

Read(s) ==
    \E q \in Live, op \in {"delete", "select", "unselect"} :
        /\ Free(s, op)
        /\ Go(s, IF op = "delete" THEN "write" ELSE "lock", [Idle EXCEPT !.op = op, !.q = q, !.copy = quote[q]])

(* A shop opens under a free name, takes another one, or is removed.        *)
Taken(n) == \E x \in Shops : shop[x] = n

OpenShop(s) ==
    \E x \in Shops, n \in Names :
        /\ Free(s, "open") /\ shop[x] = None /\ ~Taken(n)
        /\ Go(s, "write", [Idle EXCEPT !.op = "open", !.at = x, !.to = n])

RenameShop(s) ==
    \E x \in Shops, n \in Names :
        /\ Free(s, "rename") /\ shop[x] # None /\ ~Taken(n)
        /\ Go(s, "write", [Idle EXCEPT !.op = "rename", !.at = x, !.to = n])

DropShop(s) ==
    \E x \in Shops :
        /\ Free(s, "drop") /\ shop[x] # None
        /\ Go(s, "write", [Idle EXCEPT !.op = "drop", !.at = x, !.to = shop[x]])

--------------------------------------------------------------------------------
(* The row is put back whole, the flag of the retained offer included.  The *)
(* foreign key refuses a shop that is gone, and a deleted row is skipped.   *)
Put(q, row) == IF q \in Live THEN [quote EXCEPT ![q] = row] ELSE quote

Refused(row) == row.shop # None /\ shop[row.shop] = None

(* A name is typed, or outlives its shop.                                   *)
Typing(q, row, name) ==
    IF name = Own \/ row.shop = None THEN typed \cup {q} ELSE IF name = None THEN typed \ {q} ELSE typed

WriteRow(s) ==
    LET j == job[s] IN
    /\ pc[s] = "write" /\ j.op \in {"add", "edit", "delete"} /\ Done(s)
    /\ CASE j.op = "delete" -> quote' = [quote EXCEPT ![j.q] = Gone] /\ UNCHANGED typed
         [] j.op # "delete" /\ Refused(j.copy) -> UNCHANGED <<quote, typed>>
         [] OTHER ->
              LET q == IF j.op = "edit" THEN j.q ELSE CHOOSE n \in Ids : quote[n] = None
              IN  /\ quote' = IF j.op = "add" THEN [quote EXCEPT ![q] = j.copy] ELSE Put(q, j.copy)
                  /\ typed' = Typing(q, j.copy, j.name)
    /\ UNCHANGED <<mix, shop, locker>>

(* A name that was taken meanwhile is refused by the unique key. *)
WriteOpened(s) ==
    LET j == job[s] IN
    /\ pc[s] = "write" /\ j.op = "open" /\ Done(s)
    /\ shop' = IF shop[j.at] = None /\ ~Taken(j.to) THEN [shop EXCEPT ![j.at] = j.to] ELSE shop
    /\ UNCHANGED <<mix, quote, typed, locker>>

From(x) == {q \in Live : quote[q].shop = x}

(* The new name reaches the prices that still show the old one.             *)
WriteRenamed(s) ==
    LET j == job[s]
        old  == shop[j.at]
        fits == old # None /\ ~Taken(j.to)
    IN
    /\ pc[s] = "write" /\ j.op = "rename" /\ Done(s)
    /\ shop' = IF fits THEN [shop EXCEPT ![j.at] = j.to] ELSE shop
    /\ quote' = [q \in Ids |-> IF fits /\ q \in From(j.at) /\ quote[q].name = old
                              THEN [quote[q] EXCEPT !.name = j.to] ELSE quote[q]]
    /\ UNCHANGED <<mix, typed, locker>>

(* A removed shop leaves its name to the prices that have none.             *)
WriteDropped(s) ==
    LET j == job[s] IN
    /\ pc[s] = "write" /\ j.op = "drop" /\ Done(s)
    /\ shop' = [shop EXCEPT ![j.at] = None]
    /\ quote' = [q \in Ids |-> IF q \in From(j.at)
                              THEN [quote[q] EXCEPT !.shop = None, !.name = IF @ = None THEN j.to ELSE @] ELSE quote[q]]
    /\ typed' = typed \cup From(j.at)
    /\ UNCHANGED <<mix, locker>>

--------------------------------------------------------------------------------
(* The article is locked, then the flag is cleared everywhere and set once. *)
(* What the statement clears is what is flagged when it runs, and others    *)
(* see it at the commit.  The variant of the lock does not wait.            *)
LockNothing(s) ==
    /\ pc[s] = "lock"
    /\ pc' = [pc EXCEPT ![s] = "clear"] /\ UNCHANGED <<mix, quote, shop, typed, locker, job>>

Lock(s) ==
    /\ pc[s] = "lock" /\ locker = None
    /\ locker' = s /\ pc' = [pc EXCEPT ![s] = "clear"] /\ UNCHANGED <<mix, quote, shop, typed, job>>

Clears(j) == j.op = "select" \/ j.copy.retained

Clear(s) ==
    /\ pc[s] = "clear"
    /\ pc' = [pc EXCEPT ![s] = "commit"]
    /\ job' = [job EXCEPT ![s].cleared = IF Clears(job[s]) THEN Retained ELSE {}]
    /\ UNCHANGED <<mix, quote, shop, typed, locker>>

Commit(s) ==
    LET j == job[s]
        none == [q \in Ids |-> IF q \in j.cleared \cap Live THEN [quote[q] EXCEPT !.retained = FALSE] ELSE quote[q]]
    IN
    /\ pc[s] = "commit" /\ Done(s)
    /\ locker' = IF locker = s THEN None ELSE locker
    /\ quote' = CASE j.op = "unselect" -> none
                  [] j.op = "select" /\ Refused(j.copy) -> quote
                  [] OTHER -> IF j.q \in Live THEN [none EXCEPT ![j.q] = [j.copy EXCEPT !.retained = TRUE]] ELSE none
    /\ UNCHANGED <<mix, shop, typed>>

Next == \E s \in Slots : 
    \/ Add(s) \/ Edit(s) \/ Read(s) \/ WriteRow(s)
    \/ OpenShop(s) \/ RenameShop(s) \/ DropShop(s) \/ WriteOpened(s) \/ WriteRenamed(s) \/ WriteDropped(s)
    \/ Lock(s) \/ Clear(s) \/ Commit(s)

Spec == Init /\ [][Next]_vars

--------------------------------------------------------------------------------
TypeOK ==
    /\ typed \subseteq Ids /\ locker \in Slots \cup {None}
    /\ quote \in [Ids -> Price \cup {None, Gone}]
    /\ shop \in [Shops -> Names \cup {None}]
    /\ pc \in [Slots -> {"idle", "lock", "clear", "commit", "write"}] /\ job \in [Slots -> Job]

(* "otherwise both could clear-then-set and leave two quotes flagged, which *)
(* would make the budget total depend on row order": one offer is retained. *)
OneRetained == Cardinality(Retained) <= 1

(* Every price says where it comes from, also when its shop is removed      *)
(* while it is being recorded.                                              *)
Attributed == \A q \in Live : quote[q].shop # None \/ quote[q].name # None

(* "A price recorded here shows the shop's current name", whatever was      *)
(* renamed, moved or edited before, one request at a time.                  *)
ShowsItsShop ==
    \A q \in Live \ typed : quote[q].shop # None =>
        shop[quote[q].shop] # None /\ quote[q].name \in {None, shop[quote[q].shop]}

(* "when another quote of the article is the retained one, nothing changes" *)
(* of an unselection: violated when a selection comes between its read and  *)
(* its lock.                                                                *)
UnselectsItsOwn ==
    [][\A s \in Slots : Commit(s) /\ job[s].op = "unselect" =>
           \A q \in Retained : quote'[q] = quote[q] \/ q = job[s].q]_vars
================================================================================
