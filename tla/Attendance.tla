------------------------------- MODULE Attendance -------------------------------
(***************************************************************************)
(* One day of attendance: the entries managers log, the days workers       *)
(* submit themselves, and everything that can happen to an entry after.    *)
(*                                                                         *)
(* No request locks a row.  A request that changes an entry reads it,      *)
(* decides on that copy, reads the row again when the repository saves,    *)
(* and writes the columns in which its copy differs from this second       *)
(* read; an entry that is gone by then is left alone.  A bulk log commits  *)
(* its entries one by one.                                                 *)
(***************************************************************************)
EXTENDS Integers, FiniteSets

CONSTANTS
    Workers,      \* workers of the projects of one company
    Site, Person, \* a worker's project, and the person behind it
    Hours,        \* supplement hours, 0 among them, at most 12
    Slots,        \* requests served at the same time
    Mixes,        \* what a behaviour exercises: its operations, whether requests come
                  \* one after another, who is active at first, how many entries fit,
                  \* and the days that are asked for
    None

VARIABLES
    active,     \* workers.is_active
    entry,      \* labor_entries by id, None when it is not there
    given,      \* how many ids were given out; an id is never given twice
    pc, job,    \* per slot: the next step, and the request it serves
    mix,        \* what this behaviour exercises
    signed,     \* history: the ids a manager logged or validated
    loose       \* history: the ids that were not kept to one site

vars == <<active, entry, given, pc, job, mix, signed, loose>>

(* What the constants are.  The schemas of the requests, and the entity,    *)
(* refuse a day that is empty or has a price without a shift.               *)
Constants ==
    /\ 0 \in Hours /\ Hours \subseteq Nat
    /\ \A m \in Mixes :
           /\ m.alone \in BOOLEAN /\ m.room \in Nat
           /\ \A d \in m.days :
                  /\ d.shift \in {"none", "full"} /\ d.hours \in Hours /\ d.over \in BOOLEAN
                  /\ d.shift # "none" \/ d.hours > 0
                  /\ d.over => d.shift # "none"
    /\ None \notin [worker : Workers, status : {"pending", "validated"}, shift : {"none", "full"},
                    hours : Hours, over : BOOLEAN, pshift : {"none", "full"}, phours : Hours, asked : BOOLEAN]

--------------------------------------------------------------------------------
(* Entries *)

Ids    == 1..mix.room
Shifts == {"none", "full"}
Rows   == [worker : Workers, status : {"pending", "validated"}, shift : Shifts, hours : Hours,
           over : BOOLEAN, pshift : Shifts, phours : Hours, asked : BOOLEAN]

Present == {e \in Ids : entry[e] # None}
DayOf(w) == {e \in Present : entry[e].worker = w}

Filled(shift, hours) == shift # "none" \/ hours > 0
Sound(r) == Filled(r.shift, r.hours) /\ (r.over => r.shift # "none")     \* check_invariants
NewRow(w, status, d) ==
    [worker |-> w, status |-> status, shift |-> d.shift, hours |-> d.hours, over |-> d.over,
     pshift |-> "none", phours |-> 0, asked |-> FALSE]

(* The entity's methods. *)
Edited(r, d)   == [r EXCEPT !.shift = d.shift, !.hours = d.hours]
Proposed(r, d) == [r EXCEPT !.pshift = d.shift, !.phours = d.hours, !.asked = TRUE]

(* Mutant: the proposal is closed but not emptied. *)
DiscardedHalf(r) == [r EXCEPT !.asked = FALSE]

Discarded(r)   == [r EXCEPT !.pshift = "none", !.phours = 0, !.asked = FALSE]

(* Mutant: approved hours are added to those of the day. *)
AppliedOnTop(r) == Discarded([r EXCEPT !.shift = r.pshift, !.hours = r.hours + r.phours,
                                       !.over = r.over /\ r.pshift = r.shift])

Applied(r)     == Discarded([r EXCEPT !.shift = r.pshift, !.hours = r.phours,
                                      !.over = r.over /\ r.pshift = r.shift])
Validated(r)   == [r EXCEPT !.status = "validated"]

--------------------------------------------------------------------------------
(* Requests *)

NoJob == [op |-> "none", id |-> 0, row |-> None, todo |-> {}]

Goto(s, step) == pc' = [pc EXCEPT ![s] = step]
End(s) == Goto(s, "idle") /\ job' = [job EXCEPT ![s] = NoJob]
Nothing == UNCHANGED <<active, entry, given, mix, signed, loose>>

CanServe(s, op) ==
    /\ op \in mix.ops
    /\ pc[s] = "idle"
    /\ mix.alone => \A t \in Slots : pc[t] = "idle"

Serve(s, op, step, id, row, todo) ==
    /\ CanServe(s, op)
    /\ Goto(s, step)
    /\ job' = [job EXCEPT ![s] = [op |-> op, id |-> id, row |-> row, todo |-> todo]]
    /\ Nothing

(* Mutant: a worker's own day needs nobody's validation. *)
SubmitValidated(s, w, d) ==
    /\ active[w]
    /\ Serve(s, "submit", "insert", 0, NewRow(w, "validated", [d EXCEPT !.over = FALSE]), {w})

(* A worker submits a day of their own. *)
Submit(s, w, d) ==
    /\ active[w]
    /\ Serve(s, "submit", "insert", 0, NewRow(w, "pending", [d EXCEPT !.over = FALSE]), {w})

(* A manager logs a day for one worker. *)
Log(s, w, d, acknowledged) ==
    /\ active[w]
    /\ Sound(NewRow(w, "validated", d))
    /\ Serve(s, IF acknowledged THEN "log acknowledged" ELSE "log",
             IF acknowledged THEN "insert" ELSE "conflicts", 0, NewRow(w, "validated", d), {w})

(* A manager logs the same day for several workers of a site; the ones who *)
(* have an entry by now are skipped.                                       *)
BulkLog(s, ws, d, acknowledged) ==
    /\ ws # {} /\ \A v, w \in ws : Site[v] = Site[w]
    /\ \A w \in ws : active[w]
    /\ LET todo == {w \in ws : DayOf(w) = {}}
       IN  /\ todo # {}
           /\ Serve(s, IF acknowledged THEN "bulk acknowledged" ELSE "bulk",
                    IF acknowledged THEN "insert" ELSE "conflicts",
                    0, NewRow(CHOOSE w \in ws : TRUE, "validated", d), todo)

(* Another site of the company has an entry of the same person, and both   *)
(* workers are active.                                                     *)
Conflicts(ws) ==
    {e \in Present : \E w \in ws : /\ active[w] /\ active[entry[e].worker]
                                   /\ Person[w] = Person[entry[e].worker]
                                   /\ Site[w] # Site[entry[e].worker]}

CheckConflicts(s) ==
    /\ pc[s] = "conflicts"
    /\ IF Conflicts(job[s].todo) = {}
       THEN Goto(s, "insert") /\ UNCHANGED job
       ELSE End(s)
    /\ Nothing

(* The insert of one entry commits; the unique key refuses the second      *)
(* entry of a worker, and ends the request where it stands.                *)
Insert(s, w) ==
    /\ pc[s] = "insert" /\ w \in job[s].todo
    /\ IF DayOf(w) = {}
       THEN /\ given < mix.room
            /\ given' = given + 1
            /\ entry' = [entry EXCEPT ![given + 1] = [job[s].row EXCEPT !.worker = w]]
            /\ signed' = IF job[s].op = "submit" THEN signed ELSE signed \cup {given + 1}
            /\ loose' = IF job[s].op \in {"log", "bulk"} THEN loose ELSE loose \cup {given + 1}
            /\ IF job[s].todo = {w}
               THEN End(s)
               ELSE job' = [job EXCEPT ![s].todo = @ \ {w}] /\ UNCHANGED pc
            /\ UNCHANGED <<active, mix>>
       ELSE End(s) /\ Nothing

(* What a worker asks for a day of their own: a pending day is changed in  *)
(* place, a validated one gains a proposal.                                *)
EditOwn(s, e, d) ==
    /\ e \in Present /\ active[entry[e].worker]
    /\ LET r == entry[e]
       IN  IF r.status = "pending"
           THEN Sound(Edited(r, d)) /\ Serve(s, "edit", "reread", e, Edited(r, d), {})
           ELSE Serve(s, "propose", "reread", e, Proposed(r, d), {})

Decide(s, e, approve) ==
    /\ e \in Present /\ entry[e].asked
    /\ approve => Sound(Applied(entry[e]))
    /\ Serve(s, "decide", "reread", e, IF approve THEN Applied(entry[e]) ELSE Discarded(entry[e]), {})

Validate(s, e) ==
    /\ e \in Present /\ entry[e].status = "pending"
    /\ Serve(s, "validate", "reread", e, Validated(entry[e]), {})

(* A manager's PUT; the status stays. *)
Update(s, e, d) ==
    /\ e \in Present
    /\ LET r == [Edited(entry[e], d) EXCEPT !.over = d.over]
       IN  Sound(r) /\ Serve(s, "update", "reread", e, r, {})

Reject(s, e) ==
    /\ e \in Present /\ entry[e].status = "pending"
    /\ Serve(s, "reject", "erase", e, None, {})

Delete(s, e) == e \in Present /\ Serve(s, "delete", "erase", e, None, {})

(* The repository reads the row again; only what differs is written.  The  *)
(* time of a proposal is new, so it always differs.                        *)
Differing(s, r) ==
    {f \in DOMAIN r : r[f] # job[s].row[f]} \cup (IF job[s].op = "propose" THEN {"asked"} ELSE {})

(* Mutant: an entry that is gone is saved as a new one. *)
ReReadOrAdd(s) ==
    /\ pc[s] = "reread"
    /\ LET e == job[s].id
       IN  entry' = IF e \in Present THEN entry ELSE [entry EXCEPT ![e] = job[s].row]
    /\ End(s)
    /\ UNCHANGED <<active, given, mix, signed, loose>>

ReRead(s) ==
    /\ pc[s] = "reread"
    /\ LET e == job[s].id
       IN  IF e \in Present /\ Differing(s, entry[e]) # {}
           THEN /\ Goto(s, "write")
                /\ job' = [job EXCEPT ![s].row = [f \in Differing(s, entry[e]) |-> job[s].row[f]]]
           ELSE End(s)
    /\ Nothing

Merged(old, new) == [f \in DOMAIN old |-> IF f \in DOMAIN new THEN new[f] ELSE old[f]]

Write(s) ==
    /\ pc[s] = "write"
    /\ LET e == job[s].id
       IN  IF e \in Present
           THEN /\ entry' = [entry EXCEPT ![e] = Merged(@, job[s].row)]
                /\ signed' = IF job[s].op = "validate" THEN signed \cup {e} ELSE signed
                /\ UNCHANGED <<active, given, mix, loose>>
           ELSE Nothing
    /\ End(s)

Erase(s) ==
    /\ pc[s] = "erase"
    /\ entry' = [entry EXCEPT ![job[s].id] = None]
    /\ End(s)
    /\ UNCHANGED <<active, given, mix, signed, loose>>

(* The company's roster stops or restarts a worker. *)
SetActive(w) ==
    /\ "roster" \in mix.ops
    /\ mix.alone => \A s \in Slots : pc[s] = "idle"
    /\ active' = [active EXCEPT ![w] = ~@]
    /\ loose' = loose \cup DayOf(w)
    /\ UNCHANGED <<entry, given, pc, job, mix, signed>>

--------------------------------------------------------------------------------
Init ==
    /\ mix \in Mixes
    /\ active = [w \in Workers |-> w \in mix.crew]
    /\ entry = [e \in Ids |-> None]
    /\ given = 0
    /\ pc = [s \in Slots |-> "idle"]
    /\ job = [s \in Slots |-> NoJob]
    /\ signed = {} /\ loose = {}

Step(s) ==
    \/ \E w \in Workers, d \in mix.days : Submit(s, w, d)
    \/ \E w \in Workers, d \in mix.days, a \in BOOLEAN : Log(s, w, d, a)
    \/ \E ws \in SUBSET Workers, d \in mix.days, a \in BOOLEAN : BulkLog(s, ws, d, a)
    \/ CheckConflicts(s)
    \/ \E w \in Workers : Insert(s, w)
    \/ \E e \in Ids, d \in mix.days : EditOwn(s, e, d)
    \/ \E e \in Ids, a \in BOOLEAN : Decide(s, e, a)
    \/ \E e \in Ids : Validate(s, e) \/ Reject(s, e) \/ Delete(s, e)
    \/ \E e \in Ids, d \in mix.days : Update(s, e, d)
    \/ ReRead(s) \/ Write(s) \/ Erase(s)

Next == (\E s \in Slots : Step(s)) \/ (\E w \in Workers : SetActive(w))

Spec == Init /\ [][Next]_vars

--------------------------------------------------------------------------------
(* Every variable keeps its type. *)
TypeOK ==
    /\ active \in [Workers -> BOOLEAN]
    /\ entry \in [Ids -> Rows \cup {None}]
    /\ given \in 0..mix.room
    /\ pc \in [Slots -> {"idle", "conflicts", "insert", "reread", "write", "erase"}]
    /\ mix \in Mixes
    /\ signed \subseteq 1..given /\ loose \subseteq 1..given

(* Managers check what is paid: a validated day was logged or validated by *)
(* one of them, whatever overlaps.                                         *)
ManagersValidate == \A e \in Present : entry[e].status = "validated" => e \in signed

(* A day that was rejected or deleted is not brought back by a request     *)
(* that read it before.                                                    *)
GoneKept == \A e \in 1..given : entry[e] = None => entry'[e] = None

(* One after another, requests leave only entries that can be read back:   *)
(* the entity refuses an empty day, and a price set by hand without a      *)
(* shift, when it loads.                                                   *)
Loadable == mix.alone => \A e \in Present : Sound(entry[e])

(* One after another: a change is asked for validated days only, and the   *)
(* proposal a manager decides on is there as long as it is asked for.      *)
ProposalsWhole ==
    mix.alone => \A e \in Present :
        /\ entry[e].asked => entry[e].status = "validated" /\ Filled(entry[e].pshift, entry[e].phours)
        /\ ~entry[e].asked => entry[e].pshift = "none" /\ entry[e].phours = 0

(* One after another: a person is not on two sites the same day unless the *)
(* worker said so, a manager acknowledged it, or one of the two workers    *)
(* was stopped.                                                            *)
SitesApart ==
    mix.alone => \A d, e \in Present \ loose :
        Person[entry[d].worker] = Person[entry[e].worker] => Site[entry[d].worker] = Site[entry[e].worker]

Price(r) == <<r.shift, r.hours, r.over>>

(* A manager's request is written. *)
ByManager(e) == \E s \in Slots : pc[s] = "write" /\ job[s].id = e /\ job[s].op \in {"decide", "update"}

PriceKept ==
    \A e \in Present : entry[e].status = "validated" /\ entry'[e] # None =>
        /\ entry'[e].status = "validated"
        /\ Price(entry'[e]) # Price(entry[e]) => ByManager(e)

(* "A validated day keeps its priced values" until a manager decides, as   *)
(* the module of the worker's edits promises: with overlapping requests it *)
(* does not.                                                               *)
ValidatedKeepsPrice == [][PriceKept]_vars

PendingRejected ==
    \A s \in Slots : pc[s] = "erase" /\ pc'[s] = "idle" /\ job[s].op = "reject" =>
        entry[job[s].id] = None \/ entry[job[s].id].status = "pending"

(* Managers check what is paid, whatever requests overlap on a day; one     *)
(* after another, requests leave entries that can be read back, with whole  *)
(* proposals, and nobody at two sites in one shift unasked.                 *)
AttendanceHolds == TypeOK /\ ManagersValidate /\ Loadable /\ ProposalsWhole /\ SitesApart

(* A day that is gone stays gone, whatever overlaps; one after another,    *)
(* a validated day keeps its price until a manager decides, and is not     *)
(* rejected away.                                                          *)
DayKept  == GoneKept /\ (mix.alone => PriceKept /\ PendingRejected)
DaysKept == [][DayKept]_vars
================================================================================
