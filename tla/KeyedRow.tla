-------------------------------- MODULE KeyedRow --------------------------------
(***************************************************************************)
(* The one row of a key that requests set and clear: the description of a  *)
(* day, the note on a worker's month, the rate of a worker from a date.    *)
(* No row is locked; the unique key decides two inserts, and the one that  *)
(* comes second looks again and updates.                                   *)
(***************************************************************************)
EXTENDS Integers, FiniteSets, KeyedRowHistory

CONSTANTS
    Slots,       \* requests served at the same time
    Texts,       \* what a row may say
    Users,
    MaxRows,     \* bound: ids given out
    None

VARIABLES
    row,         \* the row of the key, or None
    ids,         \* ids given out
    pc, req      \* per slot: the next step, and the request it serves

vars == <<row, ids, pc, req, cleared, failed>>

--------------------------------------------------------------------------------
Rows   == [id : 1..MaxRows, creator : Users, text : Texts]
Busy   == {s \in Slots : pc[s] # "idle"}
NoReq  == [text |-> None, user |-> None, found |-> None, id |-> 0]

(* What the theorems assume of the constants. *)
Constants == MaxRows \in Nat /\ None \notin Rows \cup Texts

Goto(s, step) == pc' = [pc EXCEPT ![s] = step]
End(s, wrong) ==
    /\ Goto(s, "idle")
    /\ req' = [req EXCEPT ![s] = NoReq]
    /\ failed' = IF wrong THEN failed \cup {s} ELSE failed \ {s}

Serve(s, text, user) ==
    /\ pc[s] = "idle"
    /\ Goto(s, IF text = None THEN "clear" ELSE "find")
    /\ req' = [req EXCEPT ![s] = [NoReq EXCEPT !.text = text, !.user = user]]
    /\ cleared' = IF \E t \in Busy : req[t].text = None THEN cleared \cup {s}
                  ELSE IF text = None THEN cleared \cup Busy ELSE cleared \ {s}
    /\ failed' = failed \ {s}
    /\ UNCHANGED <<row, ids>>

Set(s, text, user) == Serve(s, text, user)
Clear(s, user)     == Serve(s, None, user)

(* The use case looks for the row, and keeps its id and creator if it is there. *)
Find(s) ==
    /\ pc[s] = "find"
    /\ Goto(s, "upsert")
    /\ req' = [req EXCEPT ![s].found = row]
    /\ UNCHANGED <<row, ids, cleared, failed>>

(* The repository looks again before it decides between update and insert. *)
Upsert(s) ==
    /\ pc[s] = "upsert"
    /\ Goto(s, IF row = None THEN "insert" ELSE "update")
    /\ req' = [req EXCEPT ![s].id = IF row = None THEN 0 ELSE row.id]
    /\ UNCHANGED <<row, ids, cleared, failed>>

(* The text alone is written; an update that meets no row is an error. *)
Update(s) ==
    /\ pc[s] = "update"
    /\ LET meets == row # None /\ row.id = req[s].id
       IN  /\ row' = IF meets THEN [row EXCEPT !.text = req[s].text] ELSE row
           /\ End(s, ~meets)
    /\ UNCHANGED <<ids, cleared>>

NewRow(s) ==
    IF req[s].found = None THEN [id |-> ids + 1, creator |-> req[s].user, text |-> req[s].text]
    ELSE [req[s].found EXCEPT !.text = req[s].text]

Insert(s) ==
    /\ pc[s] = "insert" /\ row = None
    /\ req[s].found = None => ids < MaxRows
    /\ row' = NewRow(s)
    /\ ids' = IF req[s].found = None THEN ids + 1 ELSE ids
    /\ End(s, FALSE)
    /\ UNCHANGED cleared

(* Mutant: the refused insert is an error. *)
ConvergeFails(s) ==
    /\ pc[s] = "insert" /\ row # None
    /\ End(s, TRUE)
    /\ UNCHANGED <<row, ids, cleared>>

(* The unique key refused the insert. *)
Converge(s) ==
    /\ pc[s] = "insert" /\ row # None
    /\ Goto(s, "reselect")
    /\ UNCHANGED <<row, ids, req, cleared, failed>>

Reselect(s) ==
    /\ pc[s] = "reselect"
    /\ IF row = None
       THEN End(s, TRUE)
       ELSE /\ Goto(s, "update")
            /\ req' = [req EXCEPT ![s].id = row.id]
            /\ UNCHANGED failed
    /\ UNCHANGED <<row, ids, cleared>>

(* Clearing looks for the row and deletes what it found. *)
LookToClear(s) ==
    /\ pc[s] = "clear"
    /\ IF row = None
       THEN End(s, FALSE)
       ELSE Goto(s, "delete") /\ req' = [req EXCEPT ![s].id = row.id] /\ UNCHANGED failed
    /\ UNCHANGED <<row, ids, cleared>>

DeleteFound(s) ==
    /\ pc[s] = "delete"
    /\ row' = IF row # None /\ row.id = req[s].id THEN None ELSE row
    /\ End(s, FALSE)
    /\ UNCHANGED <<ids, cleared>>

--------------------------------------------------------------------------------
Init ==
    /\ row = None /\ ids = 0
    /\ pc = [s \in Slots |-> "idle"]
    /\ req = [s \in Slots |-> NoReq]
    /\ cleared = {} /\ failed = {}

Next == \E s \in Slots :
    \/ \E u \in Users : Clear(s, u) \/ \E t \in Texts : Set(s, t, u)
    \/ Find(s) \/ Upsert(s) \/ Update(s) \/ Insert(s) \/ Converge(s) \/ Reselect(s)
    \/ LookToClear(s) \/ DeleteFound(s)

Spec == Init /\ [][Next]_vars

--------------------------------------------------------------------------------
TypeOK ==
    /\ row \in Rows \cup {None}
    /\ ids \in 0..MaxRows
    /\ pc \in [Slots -> {"idle", "find", "upsert", "insert", "update", "reselect", "clear", "delete"}]
    /\ cleared \subseteq Slots /\ failed \subseteq Slots

(* The row keeps its creator however often it is set, and by whomever.     *)
SameCreator == row # None /\ row' # None => row'.id = row.id /\ row'.creator = row.creator
CreatorKept == [][SameCreator]_vars
================================================================================
