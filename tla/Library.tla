--------------------------------- MODULE Library --------------------------------
(***************************************************************************)
(* One reference of a supplier in a company's product library: its row     *)
(* with the totals kept in it, the purchases imported for it, and its      *)
(* image.                                                                  *)
(*                                                                         *)
(* A request is one PostgreSQL transaction at READ COMMITTED.  product and *)
(* bought are the committed tables, a job keeps what its transaction has   *)
(* written.  An insert of a purchase shares the row of its product with    *)
(* other inserts and with updates ("share"); updates exclude each other    *)
(* ("write"); FOR UPDATE and a deletion exclude everyone ("all").          *)
(***************************************************************************)
EXTENDS Integers, Sequences, FiniteSets

CONSTANTS
    Slots,
    Lines,      \* the purchase lines that can be imported, later ones were bought later
    MaxMade,    \* how many rows are ever made for the reference
    None, Keep, \* "no row", and "not written"
    Mixes       \* [ops, alone, known]

VARIABLES
    mix,
    product,    \* the row: its description, whether it has an image, its totals
    bought,     \* the lines with a purchase row
    stored,     \* the rows whose image lies in the storage (under a fixed key per row)
    made,       \* ids given out
    pc, job

vars == <<mix, product, bought, stored, made, pc, job>>

Row(i, text) == [id |-> i, text |-> text, image |-> FALSE, count |-> 0, last |-> 0]
Fields == {"text", "image", "count", "last"}

(* "Fill the empty slots only"; a purchase counts, and is the last one when *)
(* it is the latest.                                                        *)
WithEnrichment(r) == IF r.text = None THEN [r EXCEPT !.text = "imported"] ELSE r
WithPurchase(r, line) ==
    [r EXCEPT !.count = @ + 1, !.last = IF line > @ THEN line ELSE @]

Rows == [id : 1..MaxMade, text : {None, "imported", "typed"}, image : BOOLEAN, count : Nat, last : Nat]

Constants ==
    /\ Lines \subseteq Nat \ {0} /\ MaxMade \in Nat \ {0}
    /\ None \notin Rows \cup {Keep, "imported", "typed"} /\ Keep \notin Rows
    /\ \A m \in Mixes : m.alone \in BOOLEAN /\ m.known \in BOOLEAN

Idle == [op |-> "none", all |-> {}, todo |-> <<>>, seen |-> None, differs |-> {}, wrote |-> Keep,
         added |-> {}, lock |-> "none"]

Init ==
    /\ mix \in Mixes
    /\ product = IF mix.known THEN Row(1, "imported") ELSE None
    /\ made = IF mix.known THEN 1 ELSE 0
    /\ bought = {} /\ stored = {}
    /\ pc = [s \in Slots |-> "idle"] /\ job = [s \in Slots |-> Idle]

--------------------------------------------------------------------------------
(* Transactions *)

Others(s) == Slots \ {s}
Current(s) == IF job[s].wrote = Keep THEN product ELSE job[s].wrote

(* An uncommitted row of the reference, and an uncommitted deletion, make  *)
(* an insert of the reference wait.                                        *)
Pending(t) == job[t].wrote = None \/ (product = None /\ job[t].wrote # Keep)

(* The locks of others that a statement of s waits for.                    *)
Against(lock) == CASE lock = "share" -> {"all"}
                   [] lock = "write" -> {"write", "all"}
                   [] lock = "all"   -> {"share", "write", "all"}
Strongest(held, lock) == IF held = "all" \/ (held = "write" /\ lock = "share") THEN held ELSE lock

Blocks(t, s) ==
    CASE pc[s] = "insert" -> Pending(t)
      [] pc[s] = "update" -> job[t].lock \in Against("write")
      [] pc[s] = "buy"    -> \/ job[t].lock \in Against("share")
                             \/ job[s].todo # <<>> /\ Head(job[s].todo) \in job[t].added
      [] pc[s] \in {"apply", "drop"} -> job[t].lock \in Against("all")
      [] OTHER -> FALSE
Free(s) == \A t \in Others(s) : ~Blocks(t, s)

Go(s, step, j) == pc' = [pc EXCEPT ![s] = step] /\ job' = [job EXCEPT ![s] = j]
Done(s) == Go(s, "idle", Idle)
tables == <<product, bought, stored, made>>

(* 404, 409, nothing to do, or a rollback.                                 *)
Leave(s) == Done(s) /\ UNCHANGED <<mix, tables>>

Afterwards(s) == IF job[s].op = "import" THEN "buy" ELSE "commit"
NextLine(j) == [j EXCEPT !.todo = Tail(@)]
AfterLine(j) == IF Len(j.todo) = 1 THEN "commit" ELSE "find"

--------------------------------------------------------------------------------
(* Requests *)

Seqs == {<<l>> : l \in Lines} \cup {<<l, m>> : l \in Lines, m \in Lines}

Begin(s, op) ==
    /\ pc[s] = "idle" /\ op \in mix.ops
    /\ mix.alone => \A t \in Slots : pc[t] = "idle"
    /\ UNCHANGED <<mix, product, bought, stored>>

(* An import takes one line after the other.                               *)
Import(s) ==
    /\ Begin(s, "import") /\ UNCHANGED made
    /\ \E q \in Seqs : Go(s, "find", [Idle EXCEPT !.op = "import", !.todo = q, !.all = {q[i] : i \in DOMAIN q}])

CreateProduct(s) ==
    /\ Begin(s, "create") /\ made < MaxMade /\ made' = made + 1
    /\ Go(s, "insert", [Idle EXCEPT !.op = "create", !.seen = Row(made + 1, None)])

(* The others read the product and mean to write it back, changed.         *)
Change(s, op, step, r) == Begin(s, op) /\ UNCHANGED made /\ Go(s, step, [Idle EXCEPT !.op = op, !.seen = r])

UpdateProduct(s) ==
    product # None /\ \E text \in {None, "typed"} : Change(s, "edit", "get", [product EXCEPT !.text = text])
UploadImage(s)   == product # None /\ Change(s, "upload", "put", [product EXCEPT !.image = TRUE])
FetchImage(s)    == product # None /\ ~product.image /\ Change(s, "fetch", "put", [product EXCEPT !.image = TRUE])
RemoveImage(s)   == product # None /\ product.image /\ Change(s, "remove", "get", [product EXCEPT !.image = FALSE])
DeleteProduct(s) == product # None /\ Change(s, "delete", "drop", product)

(* find_by_reference, without a lock: the product is made, or enriched.    *)
ImportFind(s) ==
    LET r == Current(s)
        new == Row(made + 1, "imported")
        more == WithEnrichment(r)
    IN
    /\ pc[s] = "find"
    /\ IF r = None
       THEN made < MaxMade /\ made' = made + 1 /\ Go(s, "insert", [job[s] EXCEPT !.seen = new])
       ELSE /\ Go(s, IF more # r THEN "get" ELSE "buy", [job[s] EXCEPT !.seen = more])
            /\ UNCHANGED made
    /\ UNCHANGED <<mix, product, bought, stored>>

(* The image is put before the row tells of it.                            *)
PutImage(s) ==
    /\ pc[s] = "put" /\ stored' = stored \cup {job[s].seen.id}
    /\ Go(s, "get", job[s]) /\ UNCHANGED <<mix, product, bought, made>>

--------------------------------------------------------------------------------
(* upsert *)

Differing(r, j) == {f \in Fields : r[f] # j.seen[f]}

(* session.get: a row that is gone is inserted again, of another one the   *)
(* columns that differ are written, all of them from what was read before. *)
UpsertGet(s) ==
    LET j == job[s]
        r == Current(s)
    IN
    /\ pc[s] = "get"
    /\ CASE r = None \/ r.id # j.seen.id -> Go(s, "insert", j)
         [] r # None /\ r.id = j.seen.id ->
              IF Differing(r, j) = {} THEN Go(s, Afterwards(s), j)
              ELSE Go(s, "update", [j EXCEPT !.differs = Differing(r, j)])
    /\ UNCHANGED <<mix, tables>>

(* The unique reference: who comes second overwrites the row of the first, *)
(* or, creating by hand, is refused.                                       *)
UpsertInsert(s) ==
    LET j == job[s] IN
    /\ pc[s] = "insert" /\ Free(s)
    /\ CASE product = None -> Go(s, Afterwards(s), [j EXCEPT !.wrote = j.seen, !.lock = "all"])
         [] product # None /\ j.op = "create" -> Done(s)
         [] product # None /\ j.op # "create" ->
              Go(s, "update", [j EXCEPT !.seen.id = product.id, !.differs = Differing(product, j)])
    /\ UNCHANGED <<mix, tables>>

(* The row may have changed during the wait, or be gone (a 500).           *)
UpsertUpdate(s) ==
    LET j == job[s]
        r == Current(s)
    IN
    /\ pc[s] = "update" /\ Free(s)
    /\ IF r = None \/ r.id # j.seen.id
       THEN Done(s)
       ELSE Go(s, Afterwards(s),
               [j EXCEPT !.wrote = [f \in Fields \cup {"id"} |-> IF f \in j.differs THEN j.seen[f] ELSE r[f]],
                         !.lock = Strongest(@, "write")])
    /\ UNCHANGED <<mix, tables>>

--------------------------------------------------------------------------------
(* Purchases *)

(* (A line that is there goes unnoticed.)                                  *)
AddAnyway(s) ==
    LET j == job[s] IN
    /\ pc[s] = "buy" /\ Free(s)
    /\ IF Current(s) = None THEN Go(s, AfterLine(j), NextLine(j))
       ELSE Go(s, "apply", [j EXCEPT !.added = @ \cup {Head(j.todo)}, !.lock = Strongest(@, "share")])
    /\ UNCHANGED <<mix, tables>>

(* add_if_absent: a line that is there, and a product that is not, refuse  *)
(* the insert.                                                             *)
AddIfAbsent(s) ==
    LET j == job[s]
        line == Head(j.todo)
        r == Current(s)
    IN
    /\ pc[s] = "buy" /\ Free(s)
    /\ IF line \in bought \cup j.added \/ r = None \/ r.id # j.seen.id
       THEN Go(s, AfterLine(j), NextLine(j))
       ELSE Go(s, "apply", [j EXCEPT !.added = @ \cup {line}, !.lock = Strongest(@, "share")])
    /\ UNCHANGED <<mix, tables>>

(* find_by_id_for_update, and the totals of the row as it then is; the     *)
(* variant adds to the row that was found.                                 *)
ApplyToFound(s) ==
    LET j == job[s]
        r == WithPurchase(IF j.wrote = Keep THEN j.seen ELSE j.wrote, Head(j.todo))
    IN
    /\ pc[s] = "apply" /\ \A t \in Others(s) : job[t].lock \notin Against("write")
    /\ Go(s, AfterLine(j), NextLine([j EXCEPT !.wrote = r, !.lock = "write"]))
    /\ UNCHANGED <<mix, tables>>

ApplyPurchase(s) ==
    LET j == job[s] IN
    /\ pc[s] = "apply" /\ Free(s)
    /\ Go(s, AfterLine(j), NextLine([j EXCEPT !.wrote = WithPurchase(Current(s), Head(j.todo)), !.lock = "all"]))
    /\ UNCHANGED <<mix, tables>>

--------------------------------------------------------------------------------
(* Deletions, and the end of a request *)

DropProduct(s) ==
    LET j == job[s] IN
    /\ pc[s] = "drop" /\ Free(s)
    /\ IF product # None /\ product.id = j.seen.id
       THEN Go(s, "commit", [j EXCEPT !.wrote = None, !.lock = "all"])
       ELSE Go(s, "commit", j)
    /\ UNCHANGED <<mix, tables>>

(* Purchases go with their product; an image that is no longer shown goes  *)
(* after the commit.                                                       *)
Commit(s) ==
    LET j == job[s] IN
    /\ pc[s] = "commit"
    /\ product' = Current(s)
    /\ bought' = IF j.wrote = None THEN {} ELSE bought \cup j.added
    /\ IF j.op = "remove" \/ (j.op = "delete" /\ j.seen.image)
       THEN Go(s, "unstore", [Idle EXCEPT !.op = j.op, !.seen = j.seen])
       ELSE Done(s)
    /\ UNCHANGED <<mix, stored, made>>

DeleteImage(s) ==
    /\ pc[s] = "unstore" /\ Done(s)
    /\ stored' = stored \ {job[s].seen.id}
    /\ UNCHANGED <<mix, product, bought, made>>

(* A worker dies, or two requests wait for each other and one is undone.   *)
Killed(s) == "kill" \in mix.ops /\ pc[s] # "idle" /\ Leave(s)
Victim(s) == (\E t \in Others(s) : Blocks(t, s) /\ Blocks(s, t)) /\ Leave(s)

Next ==
    \E s \in Slots :
        \/ Import(s) \/ CreateProduct(s) \/ UpdateProduct(s) \/ DeleteProduct(s)
        \/ UploadImage(s) \/ FetchImage(s) \/ RemoveImage(s)
        \/ ImportFind(s) \/ PutImage(s)
        \/ UpsertGet(s) \/ UpsertInsert(s) \/ UpsertUpdate(s)
        \/ AddIfAbsent(s) \/ ApplyPurchase(s) \/ DropProduct(s)
        \/ Commit(s) \/ DeleteImage(s) \/ Killed(s) \/ Victim(s)

Spec == Init /\ [][Next]_vars

--------------------------------------------------------------------------------
(* Properties *)

TypeOK ==
    /\ product = None \/ product.id \in 1..MaxMade
    /\ bought \subseteq Lines /\ stored \subseteq 1..MaxMade /\ made \in 0..MaxMade

(* The totals kept in the row are those of the purchases, whatever was     *)
(* imported twice, in whichever order, by requests that overlapped         *)
(* (LibraryProduct: "counts/prices/dates stay consistent").                *)
TotalsHold ==
    IF product = None THEN bought = {}
    ELSE /\ product.count = Cardinality(bought)
         /\ product.last = IF bought = {} THEN 0 ELSE CHOOSE l \in bought : \A m \in bought : m <= l

(* Imports alone may lose a purchase from the totals, but count none twice *)
(* ("calling this on a duplicate import would double-count").              *)
NeverTwice == product # None => product.count <= Cardinality(bought)

(* A product that tells of an image has one.                               *)
ImagesShown == product # None /\ product.image => product.id \in stored

(* "Re-posting the same payload" changes nothing.                          *)
ImportsOnce ==
    \A s \in Slots :
        pc[s] = "commit" /\ job[s].op = "import" /\ product # None /\ job[s].all \subseteq bought
        /\ pc'[s] = "idle" /\ product' # None
        => bought' = bought /\ product'.count = product.count /\ product'.last = product.last
================================================================================
