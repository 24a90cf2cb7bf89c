---------------------------- MODULE BillingDocuments ----------------------------
(***************************************************************************)
(* Devis and factures: their status, the conversion of a devis into a      *)
(* facture, and the released_funds expense that a paid facture keeps in    *)
(* its project.                                                            *)
(*                                                                         *)
(* A request is a PostgreSQL transaction at READ COMMITTED, except that    *)
(* the funds release adapter commits by itself: when it has to move a      *)
(* release it commits the deletion of the old one, the edit of the         *)
(* document with it, and only then inserts the new one, in a second        *)
(* transaction that holds no lock.  As in CompanyMembership, the variables *)
(* are the committed tables, and a transaction's writes appear when it     *)
(* commits.                                                                *)
(*                                                                         *)
(* Every project here belongs to the documents' company, and the number of *)
(* a document is left to the counter.                                      *)
(***************************************************************************)
EXTENDS Integers, FiniteSets

CONSTANTS
    Docs,       \* documents that can be created
    Projects,   \* projects of the company
    Slots,      \* requests the workers can serve at the same time
    Mixes,      \* [ops, alone, places, targets]: endpoints, whether one request is served
                \* at a time, the places of documents, and the statuses asked for
    None        \* "no document", "no project" and "no slot"

ASSUME BillingConstants ==
    /\ None \notin Docs /\ None \notin Projects /\ None \notin Slots
    /\ \A m \in Mixes : m.alone \in BOOLEAN /\ m.places \subseteq Projects \cup {None}

VARIABLES
    mix,            \* the mix that a behaviour exercises
    kind, status,   \* billing_documents: what a document is, where it stands
    source,         \* source_devis_id
    project,        \* project_id
    lines,          \* the items, recipient and issue date, as a version
    release,        \* the released_funds expense made for a facture
    stray,          \* documents whose release lost its source_billing_document_id
    holder,         \* the slot whose transaction holds a document's row lock
    pc, req,        \* per slot: the next step, and the request it serves
    saved,          \* per slot: the document as its transaction wrote it
    seen            \* per slot: the release its transaction has found

tables == <<kind, status, source, project, lines, release, stray>>
vars   == <<mix, kind, status, source, project, lines, release, stray, holder, pc, req, saved, seen>>

--------------------------------------------------------------------------------
(* Documents *)

Kinds    == {"devis", "facture"}
Statuses == {"draft", "sent", "accepted", "rejected", "expired", "paid", "overdue", "cancelled"}
Lines    == {0, 1}
Places   == Projects \cup {None}

NoRelease == [project |-> None, lines |-> 0]
Releases  == [project : Projects, lines : Lines] \cup {NoRelease}

Live(d)   == status[d] \in Statuses
Unused    == {d \in Docs : status[d] = "unused"}
Factures(d)  == {f \in Docs : Live(f) /\ source[f] = d}      \* find_by_source_devis_id
Locked(d) == kind[d] = "devis" /\ \E f \in Factures(d) : status[f] # "cancelled"

(* The transition matrix; a devis that an old import left in a facture's   *)
(* status can be put back on its track.                                    *)
Moves(k, from) ==
    IF k = "devis"
    THEN CASE from = "draft"    -> {"sent"}
           [] from = "sent"     -> {"accepted", "rejected", "expired"}
           [] from = "accepted" -> {"sent"}
           [] from = "rejected" -> {"draft"}
           [] from = "expired"  -> {}
           [] OTHER             -> {"draft", "sent", "accepted", "rejected"}
    ELSE CASE from = "draft"    -> {"sent"}
           [] from = "sent"     -> {"paid", "overdue", "cancelled"}
           [] from = "overdue"  -> {"paid"}
           [] from = "paid"     -> {"cancelled"}
           [] OTHER             -> {}

(* What an import may bring in. *)
Imported(k) == IF k = "devis" THEN {"draft", "sent"} ELSE {"draft", "sent", "paid", "cancelled"}

PCs == {"idle", "lock", "commit", "sync", "apply", "create", "convert", "insert",
        "read", "unrelease", "drop"}

NoReq    == [op |-> "none", doc |-> None, to |-> "none", place |-> None, lines |-> 0]
NotSaved == [status |-> "none", project |-> None, lines |-> 0]

Goto(s, step) == pc' = [pc EXCEPT ![s] = step]
LetGo(s)      == holder' = [d \in Docs |-> IF holder[d] = s THEN None ELSE holder[d]]
Doc(s)        == req[s].doc

(* The request of s is answered and its transaction over. *)
End(s) ==
    /\ LetGo(s)
    /\ Goto(s, "idle")
    /\ req' = [req EXCEPT ![s] = NoReq]
    /\ saved' = [saved EXCEPT ![s] = NotSaved]
    /\ seen' = [seen EXCEPT ![s] = NoRelease]

(* Refused, rolled back, or nothing to do. *)
Leave(s) == End(s) /\ UNCHANGED tables

(* The commit of what s saved, with the release it leaves behind. *)
Save(s, r) ==
    /\ status' = [status EXCEPT ![Doc(s)] = saved[s].status]
    /\ project' = [project EXCEPT ![Doc(s)] = saved[s].project]
    /\ lines' = [lines EXCEPT ![Doc(s)] = saved[s].lines]
    /\ release' = [release EXCEPT ![Doc(s)] = r]
    /\ UNCHANGED <<kind, source, stray>>

--------------------------------------------------------------------------------
(* New documents *)

Write(d, k, st, from, p, v) ==
    /\ kind' = [kind EXCEPT ![d] = k]
    /\ status' = [status EXCEPT ![d] = st]
    /\ source' = [source EXCEPT ![d] = from]
    /\ project' = [project EXCEPT ![d] = p]
    /\ lines' = [lines EXCEPT ![d] = v]
    /\ UNCHANGED <<release, stray>>

(* Create, clone and a template insert a draft that links to no devis; an  *)
(* import brings a document in as it was, and makes no release for it.     *)
Create(d, k, st, p) ==
    /\ status[d] = "unused"
    /\ \/ "create" \in mix.ops /\ st = "draft"
       \/ "import" \in mix.ops /\ st \in Imported(k)
    /\ Write(d, k, st, None, p, 0)
    /\ UNCHANGED <<holder, pc, req, saved, seen>>

--------------------------------------------------------------------------------
(* Requests about a document *)

FirstStep(op) == CASE op \in {"status", "update"} -> "lock" [] op = "convert" -> "convert" [] OTHER -> "read"

Request(s, op, d, to, place, v) ==
    /\ pc[s] = "idle"
    /\ mix.alone => \A t \in Slots : pc[t] = "idle"
    /\ op # "status" => to = "none"
    /\ op # "update" => place = None /\ v = 0
    /\ Goto(s, FirstStep(op))
    /\ req' = [req EXCEPT ![s] = [op |-> op, doc |-> d, to |-> to, place |-> place, lines |-> v]]
    /\ UNCHANGED <<tables, holder, saved, seen>>

(* find_by_id_for_update; the variant is find_by_id. *)
ReadDoc(s) == UNCHANGED holder
HoldDoc(s) == holder[Doc(s)] = None /\ holder' = [holder EXCEPT ![Doc(s)] = s]

Permitted(s) ==
    /\ Live(Doc(s)) /\ ~Locked(Doc(s))
    /\ req[s].op = "status" => req[s].to \in Moves(kind[Doc(s)], status[Doc(s)])

Edited(s) ==
    IF req[s].op = "status"
    THEN [status |-> req[s].to, project |-> project[Doc(s)], lines |-> lines[Doc(s)]]
    ELSE [status |-> status[Doc(s)], project |-> req[s].place, lines |-> req[s].lines]

(* PATCH of the status or of the fields: the row is locked, checked and    *)
(* written; a facture that is paid now has its release brought in line.    *)
LockDoc(s) ==
    /\ pc[s] = "lock"
    /\ IF ~Permitted(s)
       THEN holder[Doc(s)] = None /\ Leave(s)
       ELSE /\ HoldDoc(s)
            /\ saved' = [saved EXCEPT ![s] = Edited(s)]
            /\ Goto(s, IF kind[Doc(s)] = "facture" /\ Edited(s).status = "paid" THEN "sync" ELSE "commit")
            /\ UNCHANGED <<tables, req, seen>>

(* A facture that is no longer paid loses its release with the commit.      *)
CommitDoc(s) ==
    /\ pc[s] = "commit"
    /\ LET refund == kind[Doc(s)] = "facture" /\ status[Doc(s)] = "paid" /\ saved[s].status # "paid"
       IN  Save(s, IF refund THEN NoRelease ELSE release[Doc(s)])
    /\ End(s)

(* sync_funds_release looks the release up ... *)
FindRelease(s) ==
    /\ pc[s] = "sync"
    /\ seen' = [seen EXCEPT ![s] = release[Doc(s)]]
    /\ Goto(s, "apply")
    /\ UNCHANGED <<tables, holder, req, saved>>

Mirror(s) == [project |-> saved[s].project, lines |-> saved[s].lines]

(* ... and rewrites the one of the same project (a row gone since is an    *)
(* error), ...                                                             *)
UpdateRelease(s) ==
    /\ pc[s] = "apply" /\ seen[s] # NoRelease /\ seen[s].project = saved[s].project
    /\ IF release[Doc(s)] = NoRelease THEN Leave(s) ELSE Save(s, Mirror(s)) /\ End(s)

(* ... or inserts the first one (a second one is an IntegrityError, which  *)
(* rolls the whole request back), ...                                      *)
InsertRelease(s) ==
    /\ pc[s] = "apply" /\ seen[s] = NoRelease
    /\ IF saved[s].project # None /\ release[Doc(s)] # NoRelease
       THEN Leave(s)
       ELSE Save(s, IF saved[s].project = None THEN release[Doc(s)] ELSE Mirror(s)) /\ End(s)

(* ... or, for another project, deletes it first.  That deletion commits,  *)
(* and the lock of the document goes with it.                              *)
MoveRelease(s) ==
    /\ pc[s] = "apply" /\ seen[s] # NoRelease /\ seen[s].project # saved[s].project
    /\ Save(s, NoRelease)
    /\ IF saved[s].project = None
       THEN End(s)
       ELSE LetGo(s) /\ Goto(s, "create") /\ UNCHANGED <<req, saved, seen>>

(* The insert that follows waits for the document's row (its foreign key   *)
(* is checked); an IntegrityError is swallowed.                            *)
CreateRelease(s) ==
    /\ pc[s] = "create" /\ holder[Doc(s)] = None
    /\ IF ~Live(Doc(s)) \/ release[Doc(s)] # NoRelease
       THEN Leave(s)
       ELSE /\ release' = [release EXCEPT ![Doc(s)] = Mirror(s)]
            /\ UNCHANGED <<kind, status, source, project, lines, stray>>
            /\ End(s)

(* Converting locks the devis, so that its status stays accepted and no    *)
(* other conversion runs, ...                                              *)
LockDevis(s) ==
    /\ pc[s] = "convert"
    /\ IF ~Live(Doc(s)) \/ kind[Doc(s)] # "devis" \/ status[Doc(s)] # "accepted" \/ Factures(Doc(s)) # {}
       THEN holder[Doc(s)] = None /\ Leave(s)
       ELSE /\ HoldDoc(s)
            /\ saved' = [saved EXCEPT ![s] = [status |-> "draft", project |-> project[Doc(s)],
                                              lines |-> lines[Doc(s)]]]
            /\ Goto(s, "insert")
            /\ UNCHANGED <<tables, req, seen>>

(* ... then inserts the facture; uix_billing_documents_source_devis_id is  *)
(* the backstop.                                                           *)
InsertFacture(s) ==
    /\ pc[s] = "insert"
    /\ \/ /\ Unused = {} \/ Factures(Doc(s)) # {} \/ ~Live(Doc(s))
          /\ Leave(s)
       \/ /\ Factures(Doc(s)) = {} /\ Live(Doc(s))
          /\ \E f \in Unused : Write(f, "facture", "draft", Doc(s), saved[s].project, saved[s].lines)
          /\ End(s)

(* Deleting reads the document without a lock (the variant does not know   *)
(* of releases), ...                                                       *)
ReadToDrop(s) ==
    /\ pc[s] = "read"
    /\ IF ~Live(Doc(s)) \/ Locked(Doc(s))
       THEN Leave(s)
       ELSE Goto(s, "drop") /\ UNCHANGED <<tables, holder, req, saved, seen>>

ReadToDelete(s) ==
    /\ pc[s] = "read"
    /\ IF ~Live(Doc(s)) \/ Locked(Doc(s))
       THEN Leave(s)
       ELSE /\ Goto(s, IF kind[Doc(s)] = "facture" THEN "unrelease" ELSE "drop")
            /\ UNCHANGED <<tables, holder, req, saved, seen>>

(* ... commits the deletion of a facture's release, ... *)
DeleteRelease(s) ==
    /\ pc[s] = "unrelease"
    /\ release' = [release EXCEPT ![Doc(s)] = NoRelease]
    /\ Goto(s, "drop")
    /\ UNCHANGED <<kind, status, source, project, lines, stray, holder, req, saved, seen>>

(* ... and deletes the row, whatever it has become: the foreign keys that  *)
(* still point to it are set to NULL.                                      *)
DropDoc(s) ==
    /\ pc[s] = "drop" /\ holder[Doc(s)] = None
    /\ IF ~Live(Doc(s))
       THEN Leave(s)
       ELSE /\ status' = [status EXCEPT ![Doc(s)] = "deleted"]
            /\ source' = [d \in Docs |-> IF d = Doc(s) \/ source[d] = Doc(s) THEN None ELSE source[d]]
            /\ stray' = IF release[Doc(s)] = NoRelease THEN stray ELSE stray \cup {Doc(s)}
            /\ release' = [release EXCEPT ![Doc(s)] = NoRelease]
            /\ UNCHANGED <<kind, project, lines>>
            /\ End(s)

(* The worker is killed or the connection lost: PostgreSQL rolls back what *)
(* is not committed.                                                       *)
Killed(s) == "kill" \in mix.ops /\ pc[s] # "idle" /\ Leave(s)

--------------------------------------------------------------------------------
(* Specification *)

Init ==
    /\ mix \in Mixes
    /\ kind = [d \in Docs |-> "devis"]
    /\ status = [d \in Docs |-> "unused"]
    /\ source = [d \in Docs |-> None]
    /\ project = [d \in Docs |-> None]
    /\ lines = [d \in Docs |-> 0]
    /\ release = [d \in Docs |-> NoRelease]
    /\ stray = {}
    /\ holder = [d \in Docs |-> None]
    /\ pc = [s \in Slots |-> "idle"]
    /\ req = [s \in Slots |-> NoReq]
    /\ saved = [s \in Slots |-> NotSaved]
    /\ seen = [s \in Slots |-> NoRelease]

Step(s) ==
    \/ LockDoc(s) \/ CommitDoc(s)
    \/ FindRelease(s) \/ UpdateRelease(s) \/ InsertRelease(s) \/ MoveRelease(s) \/ CreateRelease(s)
    \/ LockDevis(s) \/ InsertFacture(s)
    \/ ReadToDelete(s) \/ DeleteRelease(s) \/ DropDoc(s)

Next ==
    /\ UNCHANGED mix
    /\ \/ \E d \in Docs, k \in Kinds, st \in Statuses, p \in mix.places : Create(d, k, st, p)
       \/ \E s \in Slots, op \in mix.ops \cap {"status", "update", "convert", "delete"}, d \in Docs,
             to \in mix.targets \cup {"none"}, p \in mix.places, v \in Lines : Request(s, op, d, to, p, v)
       \/ \E s \in Slots : Step(s) \/ Killed(s)

Spec == Init /\ [][Next]_vars

--------------------------------------------------------------------------------
(* Properties *)

TypeOK ==
    /\ kind \in [Docs -> Kinds]
    /\ status \in [Docs -> Statuses \cup {"unused", "deleted"}]
    /\ source \in [Docs -> Docs \cup {None}]
    /\ project \in [Docs -> Places] /\ lines \in [Docs -> Lines]
    /\ release \in [Docs -> Releases] /\ stray \subseteq Docs
    /\ holder \in [Docs -> Slots \cup {None}]
    /\ pc \in [Slots -> PCs]

(* A facture that is not cancelled stands on the accepted devis it was     *)
(* made from: no status change reverts that devis under it                 *)
(* (_assert_devis_not_locked, ConvertDevisToFactureUseCase).               *)
BasisAccepted ==
    \A f \in Docs : Live(f) /\ source[f] # None /\ status[f] # "cancelled"
                      => kind[source[f]] = "devis" /\ status[source[f]] = "accepted"

(* ... nor does an edit change what it says: the facture would point at a  *)
(* devis that no longer says what was invoiced.                            *)
BasisUnchanged == [][\A d \in Docs : Locked(d) => lines'[d] = lines[d] /\ project'[d] = project[d]]_vars

(* A paid facture of a project has exactly one release there, with its own *)
(* lines, and no other facture has one: the money counted as released is   *)
(* the money that was paid.                                                *)
ReleaseMatchesPaid ==
    \A d \in Docs : release[d] = IF Live(d) /\ kind[d] = "facture" /\ status[d] = "paid" /\ project[d] # None
                                 THEN [project |-> project[d], lines |-> lines[d]]
                                 ELSE NoRelease

(* Whatever happens to a single request on the way, a worker that dies     *)
(* included, a release never says more than its facture: it belongs to a   *)
(* paid one, in the same project and with the same lines, and none         *)
(* outlives its facture (DeleteBillingDocumentUseCase removes it first).   *)
ReleaseMirrors ==
    /\ stray = {}
    /\ \A d \in Docs : release[d] # NoRelease
        => status[d] = "paid" /\ release[d] = [project |-> project[d], lines |-> lines[d]]

(* The first as long as no request is cut short, deleted under or preceded *)
(* by an import, and all is in one project; the second whatever comes, one *)
(* request after another.                                                  *)
Uncut ==
    /\ mix.ops \cap {"kill", "import", "delete"} = {}
    /\ \A p, q \in mix.places \ {None} : p = q
ReleaseHolds == (Uncut => ReleaseMatchesPaid) /\ (mix.alone => ReleaseMirrors)

(* Only a paid facture has a release (FundsReleaseAdapter.sync_funds_release, *)
(* called "under the row lock").                                           *)
ReleaseOnlyIfPaid == \A d \in Docs : release[d] # NoRelease => status[d] = "paid"
================================================================================
