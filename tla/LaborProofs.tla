------------------------------- MODULE LaborProofs -------------------------------
(***************************************************************************)
(* Theorems about the parts of MCLabor.                                    *)
(*                                                                         *)
(* Attendance, for any workers, sites, persons, hours and days, and any    *)
(* requests on one day: however they overlap, only what a manager logged   *)
(* or validated counts as validated, and a day that is gone stays gone;    *)
(* one after another, entries can be read back, proposals are whole,       *)
(* nobody is at two sites unasked, and a validated day keeps its price     *)
(* until a manager decides.                                                *)
(*                                                                         *)
(* Requests write back parts of a copy that may be old.  What makes the    *)
(* first part true all the same is that a copy that says validated was     *)
(* validated when it was read, and that no id comes back (Brings).  The    *)
(* rest holds only if a copy is what the entry was made of (Fits).         *)
(*                                                                         *)
(* Keyed rows, for any texts, authors and requests: a request that sets    *)
(* the row and fails met a row that went away, and only a request that     *)
(* clears takes a row away.                                                *)
(*                                                                         *)
(* The roster, for any sites, persons, roles, requests and order of them:  *)
(* a company has one crew, on all its sites, and whoever was stopped on    *)
(* all of them stays so.  A copy runs after its request's first change is  *)
(* committed, so in between a site may lack somebody; the invariant says   *)
(* of each who is missing which request still owes the copy (Listing), and *)
(* of rows that differ which request is yet to reach the others (Agreeing).*)
(***************************************************************************)
EXTENDS MCLabor, TLAPS, WellFoundedInduction

Ops    == {"none", "submit", "log", "log acknowledged", "bulk", "bulk acknowledged", "edit", "propose",
           "decide", "validate", "update", "reject", "delete"}
Steps  == {"idle", "conflicts", "insert", "reread", "write", "erase"}
Shaped == job = [s \in Slots |-> [op |-> job[s].op, id |-> job[s].id, row |-> job[s].row, todo |-> job[s].todo]]

Typed ==
    /\ mix \in Mixes /\ active \in [Workers -> BOOLEAN]
    /\ entry \in [Ids -> Rows \cup {None}] /\ given \in 0..mix.room
    /\ pc \in [Slots -> Steps] /\ Shaped
    /\ signed \subseteq 1..given /\ loose \subseteq 1..given
Counted == \A e \in Present : e <= given

(* The rows a request brings: only a manager's are validated. *)
Signs(old, new, j) == new.status = "validated" => old = "validated" \/ j.id \in signed \/ j.op = "validate"
Brings(step, j) ==
    /\ step \in {"conflicts", "insert"} =>
           /\ j.row \in Rows /\ j.todo \subseteq Workers
           /\ j.op = "submit" => j.row.status = "pending"
    /\ step = "conflicts" => j.op \in {"log", "bulk"}
    /\ step \in {"reread", "write", "erase"} => j.id \in 1..given
    /\ step = "reread" => j.row \in Rows /\ Signs("pending", j.row, j)
    /\ step = "write" => \A old \in Rows : Merged(old, j.row) \in Rows /\ Signs(old.status, Merged(old, j.row), j)

IInv == Typed /\ Counted /\ ManagersValidate /\ \A s \in Slots : Brings(pc[s], job[s])

(* One after another *)
Single == \A s, t \in Slots : pc[s] # "idle" /\ pc[t] # "idle" => s = t
Whole(r) ==
    /\ r.asked => r.status = "validated" /\ Filled(r.pshift, r.phours)
    /\ ~r.asked => r.pshift = "none" /\ r.phours = 0
Kept == Present \ loose
Apart(w, v) == Person[w] = Person[v] => Site[w] = Site[v]

(* What a change makes of an entry. *)
Fits(op, old, new) ==
    /\ new \in Rows /\ new.worker = old.worker /\ Sound(new) /\ Whole(new)
    /\ op \in {"edit", "propose", "decide", "validate", "update"}
    /\ op \in {"edit", "validate"} => old.status = "pending"
    /\ op \in {"propose", "decide", "update"} => new.status = old.status
    /\ op = "propose" => Price(new) = Price(old)
Steady(step, j) ==
    /\ step \in {"conflicts", "insert"} =>
           /\ Sound(j.row) /\ Whole(j.row)
           /\ \A w \in j.todo : active[w]
           /\ \A w, v \in j.todo : Site[w] = Site[v]
    /\ step = "insert" /\ j.op \in {"log", "bulk"} =>
           \A w \in j.todo, e \in Kept : Apart(w, entry[e].worker)
    /\ step \in {"reread", "write", "erase"} => j.id \in Present
    /\ step = "reread" => Fits(j.op, entry[j.id], j.row)
    /\ step = "write" => Fits(j.op, entry[j.id], Merged(entry[j.id], j.row))
    /\ step = "erase" /\ j.op = "reject" => entry[j.id].status = "pending"
Table ==
    /\ \A e \in Present : Sound(entry[e]) /\ Whole(entry[e])
    /\ \A e \in Kept : active[entry[e].worker]
    /\ \A d, e \in Kept : Apart(entry[d].worker, entry[e].worker)
InTurn == mix.alone => Single /\ Table /\ \A s \in Slots : Steady(pc[s], job[s])

--------------------------------------------------------------------------------
(* Rows                                                                    *)

Fields == {"worker", "status", "shift", "hours", "over", "pshift", "phours", "asked"}

(* A row into which some columns of another are written.                   *)
LEMMA MergedRow ==
    ASSUME NEW old \in Rows, NEW new \in Rows, NEW D \in SUBSET Fields
    PROVE  LET m == Merged(old, [f \in D |-> new[f]])
           IN  /\ m \in Rows
               /\ m.status = IF "status" \in D THEN new.status ELSE old.status
  <1> DEFINE p == [f \in D |-> new[f]]
             m == Merged(old, p)
  <1>1. DOMAIN old = Fields
    BY DEF Rows, Fields
  <1>2. m = [f \in Fields |-> IF f \in D THEN new[f] ELSE old[f]]
    BY <1>1 DEF Merged
  <1>3. m = [worker |-> m["worker"], status |-> m["status"], shift |-> m["shift"], hours |-> m["hours"],
             over |-> m["over"], pshift |-> m["pshift"], phours |-> m["phours"], asked |-> m["asked"]]
    BY <1>2 DEF Fields
  <1>4. m \in Rows
    BY <1>2, <1>3 DEF Rows, Fields
  <1> QED
    BY <1>2, <1>4 DEF Fields

(* All columns in which they differ are written. *)
LEMMA MergedAll ==
    ASSUME NEW old \in Rows, NEW new \in Rows, NEW D \in SUBSET Fields,
           \A f \in Fields \ D : new[f] = old[f]
    PROVE  Merged(old, [f \in D |-> new[f]]) = new
  <1>1. DOMAIN old = Fields /\ DOMAIN new = Fields
    BY DEF Rows, Fields
  <1>2. Merged(old, [f \in D |-> new[f]]) = [f \in Fields |-> IF f \in D THEN new[f] ELSE old[f]]
    BY <1>1 DEF Merged
  <1>3. new = [f \in Fields |-> new[f]]
    BY DEF Rows, Fields
  <1> QED
    BY <1>2, <1>3

--------------------------------------------------------------------------------
(* Steps                                                                   *)

LEMMA InitInv == Constants /\ Init => IInv /\ InTurn
  <1> SUFFICES ASSUME Constants, Init PROVE IInv /\ InTurn
    OBVIOUS
  <1>1. Present = {}
    BY DEF Init, Present
  <1>2. Typed
    <2>1. mix.room \in Nat
      BY DEF Init, Constants
    <2>2. Shaped
      BY DEF Init, Shaped, NoJob
    <2> QED
      BY <2>1, <2>2 DEF Init, Typed, Steps
  <1>3. Counted /\ ManagersValidate
    BY <1>1 DEF Counted, ManagersValidate
  <1>4. \A s \in Slots : Brings(pc[s], job[s]) /\ Steady(pc[s], job[s])
    BY DEF Init, Brings, Steady
  <1>5. Single /\ Table
    BY <1>1 DEF Init, Single, Table, Kept
  <1> QED
    BY <1>2, <1>3, <1>4, <1>5 DEF IInv, InTurn

(* What a step does to the requests in hand. *)
IsJob(j) == j = [op |-> j.op, id |-> j.id, row |-> j.row, todo |-> j.todo]
Went(s, step, j) == pc' = [pc EXCEPT ![s] = step] /\ job' = [job EXCEPT ![s] = j]

LEMMA JobsKept ==
    ASSUME Typed, NEW s \in Slots, NEW step \in Steps, NEW j, IsJob(j), Went(s, step, j)
    PROVE  /\ pc' \in [Slots -> Steps] /\ Shaped'
           /\ pc'[s] = step /\ job'[s] = j
           /\ \A t \in Slots \ {s} : pc'[t] = pc[t] /\ job'[t] = job[t]
  <1>1. /\ pc' \in [Slots -> Steps] /\ pc'[s] = step /\ job'[s] = j
        /\ \A t \in Slots \ {s} : pc'[t] = pc[t] /\ job'[t] = job[t]
    BY DEF Typed, Shaped, Went
  <1>2. DOMAIN job = Slots
    BY DEF Typed, Shaped
  <1>3. job' = [t \in Slots |-> job'[t]]
    BY <1>2 DEF Went
  <1>4. \A t \in Slots : IsJob(job[t])
    BY DEF Typed, Shaped, IsJob
  <1>5. \A t \in Slots : job'[t] = [op |-> job'[t].op, id |-> job'[t].id, row |-> job'[t].row, todo |-> job'[t].todo]
    BY <1>1, <1>4 DEF IsJob
  <1>6. Shaped'
    BY <1>3, <1>5 DEF Shaped
  <1> QED
    BY <1>1, <1>6

LEMMA NoJobIs == IsJob(NoJob) /\ NoJob.op = "none"
  BY DEF IsJob, NoJob

LEMMA JobIs ==
    ASSUME Typed, NEW s \in Slots
    PROVE  IsJob(job[s])
  BY DEF Typed, Shaped, IsJob

(* What the requests bring is still what they bring. *)
LEMMA BringsKept ==
    ASSUME IInv, NEW s \in Slots, NEW step \in Steps, NEW j, IsJob(j), Went(s, step, j),
           given' \in Nat, given <= given', signed \subseteq signed', Brings(step, j)'
    PROVE  \A t \in Slots : Brings(pc[t], job[t])'
  <1> TAKE t \in Slots
  <1>1. Typed /\ given \in Nat
    BY DEF IInv, Typed
  <1>2. CASE t = s
    <2>1. pc'[t] = step /\ job'[t] = j
      BY <1>1, <1>2, JobsKept
    <2> QED
      BY <2>1 DEF Brings, Signs
  <1>3. CASE t # s
    <2>1. pc'[t] = pc[t] /\ job'[t] = job[t]
      BY <1>1, <1>3, JobsKept
    <2>2. Brings(pc[t], job[t])
      BY DEF IInv
    <2> QED
      BY <2>1, <2>2, <1>1 DEF Brings, Signs
  <1> QED
    BY <1>2, <1>3

(* One after another, the others have nothing in hand. *)
LEMMA OthersIdle ==
    ASSUME IInv, NEW s \in Slots, NEW step \in Steps, NEW j, IsJob(j), Went(s, step, j),
           Single, pc[s] # "idle" \/ \A t \in Slots : pc[t] = "idle", Steady(step, j)'
    PROVE  Single' /\ \A t \in Slots : Steady(pc[t], job[t])'
  <1>1. /\ pc'[s] = step /\ job'[s] = j
        /\ \A t \in Slots \ {s} : pc'[t] = pc[t]
    BY JobsKept DEF IInv
  <1>2. \A t \in Slots \ {s} : pc'[t] = "idle"
    BY <1>1 DEF Single
  <1>3. Single'
    BY <1>2 DEF Single
  <1>4. ASSUME NEW t \in Slots PROVE Steady(pc[t], job[t])'
    <2>1. CASE t = s
      BY <2>1, <1>1 DEF Steady
    <2>2. CASE t # s
      BY <2>2, <1>2 DEF Steady
    <2> QED
      BY <2>1, <2>2
  <1> QED
    BY <1>3, <1>4

(* A step that reads, and changes no table. *)
LEMMA LookStep ==
    ASSUME Constants, IInv, InTurn, NEW s \in Slots, NEW step \in Steps, NEW j, IsJob(j), Went(s, step, j),
           Nothing, Brings(step, j),
           mix.alone => /\ pc[s] # "idle" \/ \A t \in Slots : pc[t] = "idle"
                        /\ Steady(step, j)
    PROVE  IInv' /\ InTurn'
  <1>1. Typed /\ UNCHANGED <<active, entry, given, mix, signed, loose>> /\ given \in Nat
    BY DEF IInv, Typed, Nothing
  <1>2. Ids' = Ids /\ Present' = Present
    BY <1>1 DEF Ids, Present
  <1>3. Typed'
    BY <1>1, <1>2, JobsKept DEF Typed
  <1>4. Counted' /\ ManagersValidate'
    BY <1>1, <1>2 DEF IInv, Counted, ManagersValidate
  <1>5. Brings(step, j)'
    BY <1>1 DEF Brings, Signs
  <1>6. \A t \in Slots : Brings(pc[t], job[t])'
    BY <1>1, <1>5, BringsKept
  <1>7. ASSUME mix.alone PROVE (Single /\ Table /\ \A t \in Slots : Steady(pc[t], job[t]))'
    <2>1. Table'
      BY <1>1, <1>2, <1>7 DEF InTurn, Table, Kept
    <2>2. Steady(step, j)'
      BY <1>1, <1>2, <1>7 DEF Steady, Kept
    <2>3. Single
      BY <1>7 DEF InTurn
    <2> QED
      BY <2>1, <2>2, <2>3, <1>7, OthersIdle
  <1>8. InTurn'
    BY <1>1, <1>7 DEF InTurn
  <1> QED
    BY <1>3, <1>4, <1>6, <1>8 DEF IInv

(* A request that is served has read what it brings. *)
LEMMA ServeStep ==
    ASSUME Constants, IInv, InTurn, NEW s \in Slots, NEW op, NEW step \in Steps, NEW id, NEW r, NEW todo,
           Serve(s, op, step, id, r, todo), NEW j, j = [op |-> op, id |-> id, row |-> r, todo |-> todo],
           Brings(step, j), mix.alone => Steady(step, j)
    PROVE  IInv' /\ InTurn'
  <1>1. IsJob(j)
    BY DEF IsJob
  <1>2. Went(s, step, j) /\ Nothing
    BY DEF Serve, Goto, Went
  <1>3. mix.alone => \A t \in Slots : pc[t] = "idle"
    BY DEF Serve, CanServe
  <1> QED
    BY <1>1, <1>2, <1>3, LookStep

(* A request that ends. *)
LEMMA EndStep ==
    ASSUME Constants, IInv, InTurn, NEW s \in Slots, pc[s] # "idle", End(s), Nothing
    PROVE  IInv' /\ InTurn'
  <1>1. Went(s, "idle", NoJob) /\ "idle" \in Steps
    BY DEF End, Goto, Went, Steps
  <1>2. Brings("idle", NoJob) /\ Steady("idle", NoJob)
    BY DEF Brings, Steady
  <1> QED
    BY <1>1, <1>2, NoJobIs, LookStep

--------------------------------------------------------------------------------
(* Requests that bring a new day                                           *)

LEMMA NewRowIs ==
    ASSUME Constants, NEW w \in Workers, NEW status \in {"pending", "validated"}, NEW d,
           d.shift \in Shifts, d.hours \in Hours, d.over \in BOOLEAN,
           d.shift # "none" \/ d.hours > 0, d.over => d.shift # "none"
    PROVE  LET r == NewRow(w, status, d)
           IN  r \in Rows /\ r.status = status /\ Sound(r) /\ Whole(r)
  BY DEF NewRow, Rows, Sound, Filled, Whole, Shifts, Constants

LEMMA DaysAre ==
    ASSUME Constants, IInv, NEW d \in mix.days
    PROVE  /\ d.shift \in Shifts /\ d.hours \in Hours /\ d.over \in BOOLEAN
           /\ d.shift # "none" \/ d.hours > 0
           /\ d.over => d.shift # "none"
  BY DEF Constants, IInv, Typed, Shifts

LEMMA SubmitStep ==
    ASSUME Constants, IInv, InTurn, NEW s \in Slots, NEW w \in Workers, NEW d \in mix.days, Submit(s, w, d)
    PROVE  IInv' /\ InTurn'
  <1>1. PICK r : r = NewRow(w, "pending", [d EXCEPT !.over = FALSE])
    OBVIOUS
  <1>2. r = NewRow(w, "pending", [shift |-> d.shift, hours |-> d.hours, over |-> FALSE])
    BY <1>1 DEF NewRow
  <1>3. r \in Rows /\ r.status = "pending" /\ Sound(r) /\ Whole(r)
    BY <1>2, DaysAre, NewRowIs
  <1>4. PICK j : j = [op |-> "submit", id |-> 0, row |-> r, todo |-> {w}]
    OBVIOUS
  <1>5. Serve(s, "submit", "insert", 0, r, {w}) /\ active[w]
    BY <1>1 DEF Submit
  <1>6. Brings("insert", j) /\ Steady("insert", j)
    BY <1>3, <1>4, <1>5 DEF Brings, Steady
  <1> QED
    BY <1>4, <1>5, <1>6, ServeStep DEF Steps

LEMMA LogStep ==
    ASSUME Constants, IInv, InTurn, NEW s \in Slots, NEW w \in Workers, NEW d \in mix.days,
           NEW a \in BOOLEAN, Log(s, w, d, a)
    PROVE  IInv' /\ InTurn'
  <1>1. PICK r : r = NewRow(w, "validated", d)
    OBVIOUS
  <1>2. r \in Rows /\ r.status = "validated" /\ Sound(r) /\ Whole(r)
    BY <1>1, DaysAre, NewRowIs
  <1> DEFINE op == IF a THEN "log acknowledged" ELSE "log"
             step == IF a THEN "insert" ELSE "conflicts"
  <1>3. PICK j : j = [op |-> op, id |-> 0, row |-> r, todo |-> {w}]
    OBVIOUS
  <1>4. Serve(s, op, step, 0, r, {w}) /\ active[w]
    BY <1>1 DEF Log
  <1>5. Brings(step, j) /\ Steady(step, j)
    BY <1>2, <1>3, <1>4 DEF Brings, Steady
  <1>6. step \in Steps
    BY DEF Steps
  <1> QED
    BY <1>3, <1>4, <1>5, <1>6, ServeStep

LEMMA BulkLogStep ==
    ASSUME Constants, IInv, InTurn, NEW s \in Slots, NEW ws \in SUBSET Workers, NEW d \in mix.days,
           NEW a \in BOOLEAN, BulkLog(s, ws, d, a)
    PROVE  IInv' /\ InTurn'
  <1>1. PICK r : r = NewRow(CHOOSE w \in ws : TRUE, "validated", d)
    OBVIOUS
  <1>2. (CHOOSE w \in ws : TRUE) \in Workers
    BY DEF BulkLog
  <1>3. r \in Rows /\ r.status = "validated" /\ Sound(r) /\ Whole(r)
    BY <1>1, <1>2, DaysAre, NewRowIs
  <1>4. PICK todo : todo = {w \in ws : DayOf(w) = {}}
    OBVIOUS
  <1> DEFINE op == IF a THEN "bulk acknowledged" ELSE "bulk"
             step == IF a THEN "insert" ELSE "conflicts"
  <1>5. PICK j : j = [op |-> op, id |-> 0, row |-> r, todo |-> todo]
    OBVIOUS
  <1>6. Serve(s, op, step, 0, r, todo)
    BY <1>1, <1>4 DEF BulkLog
  <1>7. /\ todo \subseteq Workers /\ \A w \in todo : active[w]
        /\ \A w, v \in todo : Site[w] = Site[v]
    <2>1. todo \subseteq ws /\ \A w \in ws : active[w]
      BY <1>4 DEF BulkLog
    <2>2. \A v, w \in ws : Site[v] = Site[w]
      BY DEF BulkLog
    <2> QED
      BY <2>1, <2>2
  <1>8. Brings(step, j) /\ Steady(step, j)
    BY <1>3, <1>5, <1>7 DEF Brings, Steady
  <1>9. step \in Steps
    BY DEF Steps
  <1> QED
    BY <1>5, <1>6, <1>8, <1>9, ServeStep

LEMMA CheckConflictsStep ==
    ASSUME Constants, IInv, InTurn, NEW s \in Slots, CheckConflicts(s)
    PROVE  IInv' /\ InTurn'
  <1>1. pc[s] = "conflicts" /\ Nothing /\ Typed /\ Brings("conflicts", job[s]) /\ IsJob(job[s])
    BY JobIs DEF IInv, CheckConflicts
  <1>2. CASE End(s)
    BY <1>1, <1>2, EndStep
  <1>3. CASE Conflicts(job[s].todo) = {} /\ Goto(s, "insert") /\ UNCHANGED job
    <2>1. PICK j : j = job[s]
      OBVIOUS
    <2>2. Went(s, "insert", j)
      BY <2>1, <1>1, <1>3 DEF Goto, Went, Typed, Shaped
    <2>3. Brings("insert", j)
      BY <2>1, <1>1 DEF Brings
    <2>4. ASSUME mix.alone PROVE Steady("insert", j)
      <3>1. Steady("conflicts", j) /\ Table
        BY <2>1, <2>4, <1>1 DEF InTurn
      <3>2. ASSUME NEW w \in j.todo, NEW e \in Kept PROVE Apart(w, entry[e].worker)
        <4>1. active[w] /\ active[entry[e].worker] /\ e \in Present
          BY <3>1 DEF Steady, Table, Kept
        <4>2. e \notin Conflicts(j.todo)
          BY <2>1, <1>3
        <4> QED
          BY <4>1, <4>2 DEF Conflicts, Apart
      <3> QED
        BY <3>1, <3>2 DEF Steady
    <2> QED
      BY <2>1, <2>2, <2>3, <2>4, <1>1, LookStep DEF Steps
  <1> QED
    BY <1>2, <1>3 DEF CheckConflicts

--------------------------------------------------------------------------------
(* The insert of a day                                                     *)

LEMMA Added ==
    ASSUME Constants, IInv, NEW s \in Slots, NEW w \in job[s].todo, Insert(s, w), pc[s] = "insert", DayOf(w) = {}
    PROVE  \E r \in Rows, e \in Ids :
               /\ r = [job[s].row EXCEPT !.worker = w]
               /\ e = given + 1 /\ given' = e /\ e \notin Present
               /\ r # None /\ r.worker = w /\ r.status = job[s].row.status
               /\ Sound(r) = Sound(job[s].row) /\ Whole(r) = Whole(job[s].row)
               /\ entry' = [entry EXCEPT ![e] = r]
               /\ signed' = IF job[s].op = "submit" THEN signed ELSE signed \cup {e}
               /\ loose' = IF job[s].op \in {"log", "bulk"} THEN loose ELSE loose \cup {e}
               /\ UNCHANGED <<active, mix>>
  <1>1. Typed /\ Counted /\ job[s].row \in Rows /\ w \in Workers
    BY DEF IInv, Brings
  <1>2. PICK r : r = [job[s].row EXCEPT !.worker = w]
    OBVIOUS
  <1>3. r \in Rows /\ r.worker = w /\ r.status = job[s].row.status
    BY <1>1, <1>2 DEF Rows
  <1>4. Sound(r) = Sound(job[s].row) /\ Whole(r) = Whole(job[s].row)
    BY <1>1, <1>2 DEF Rows, Sound, Filled, Whole
  <1>5. r # None
    BY <1>3 DEF Rows, Shifts, Constants
  <1>6. given < mix.room /\ mix.room \in Nat /\ given \in Nat
    BY <1>1 DEF Insert, Typed, Constants
  <1>7. given + 1 \in Ids /\ given + 1 \notin Present
    BY <1>1, <1>6 DEF Ids, Counted
  <1>8. /\ entry' = [entry EXCEPT ![given + 1] = r] /\ given' = given + 1
        /\ signed' = IF job[s].op = "submit" THEN signed ELSE signed \cup {given + 1}
        /\ loose' = IF job[s].op \in {"log", "bulk"} THEN loose ELSE loose \cup {given + 1}
        /\ UNCHANGED <<active, mix>>
    BY <1>2 DEF Insert
  <1> QED
    BY <1>3, <1>4, <1>5, <1>7, <1>8, <1>2

(* The job that is left after it. *)
LEMMA Left ==
    ASSUME Constants, IInv, NEW s \in Slots, NEW w \in job[s].todo, Insert(s, w), pc[s] = "insert", DayOf(w) = {}
    PROVE  \E step \in {"idle", "insert"} : \E j :
               /\ IsJob(j) /\ Went(s, step, j)
               /\ step = "insert" => /\ j.op = job[s].op /\ j.row = job[s].row /\ j.todo \subseteq job[s].todo
  <1>1. Typed /\ IsJob(job[s])
    BY JobIs DEF IInv
  <1>2. CASE job[s].todo = {w}
    <2>1. Went(s, "idle", NoJob)
      BY <1>2 DEF Insert, End, Goto, Went
    <2> QED
      BY <2>1, NoJobIs
  <1>3. CASE job[s].todo # {w}
    <2>1. PICK j : j = [op |-> job[s].op, id |-> job[s].id, row |-> job[s].row, todo |-> job[s].todo \ {w}]
      OBVIOUS
    <2>2. [job[s] EXCEPT !.todo = @ \ {w}] = j
      BY <2>1, <1>1 DEF IsJob
    <2>3. job' = [job EXCEPT ![s] = [job[s] EXCEPT !.todo = @ \ {w}]] /\ pc' = pc
      BY <1>3 DEF Insert
    <2>4. Went(s, "insert", j)
      BY <2>2, <2>3, <1>1 DEF Went, Typed
    <2> QED
      BY <2>1, <2>4 DEF IsJob
  <1> QED
    BY <1>2, <1>3

LEMMA InsertStep ==
    ASSUME Constants, IInv, InTurn, NEW s \in Slots, NEW w \in Workers, Insert(s, w)
    PROVE  IInv' /\ InTurn'
  <1>1. pc[s] = "insert" /\ w \in job[s].todo /\ Typed /\ Brings("insert", job[s])
    BY DEF Insert, IInv
  <1>2. CASE DayOf(w) # {}
    BY <1>1, <1>2, EndStep DEF Insert
  <1>3. CASE DayOf(w) = {}
    <2>1. PICK r \in Rows, e \in Ids :
               /\ r = [job[s].row EXCEPT !.worker = w]
               /\ e = given + 1 /\ given' = e /\ e \notin Present
               /\ r # None /\ r.worker = w /\ r.status = job[s].row.status
               /\ Sound(r) = Sound(job[s].row) /\ Whole(r) = Whole(job[s].row)
               /\ entry' = [entry EXCEPT ![e] = r]
               /\ signed' = IF job[s].op = "submit" THEN signed ELSE signed \cup {e}
               /\ loose' = IF job[s].op \in {"log", "bulk"} THEN loose ELSE loose \cup {e}
               /\ UNCHANGED <<active, mix>>
      BY <1>1, <1>3, Added
    <2>a. PICK step \in {"idle", "insert"} : \E j :
               /\ IsJob(j) /\ Went(s, step, j)
               /\ step = "insert" => /\ j.op = job[s].op /\ j.row = job[s].row /\ j.todo \subseteq job[s].todo
      BY <1>1, <1>3, Left
    <2>2. PICK j :
               /\ IsJob(j) /\ Went(s, step, j)
               /\ step = "insert" => /\ j.op = job[s].op /\ j.row = job[s].row /\ j.todo \subseteq job[s].todo
      BY <2>a
    <2>3. step \in Steps /\ given \in Nat /\ e \in Nat /\ e = given + 1
      BY <2>1, <1>1 DEF Steps, Typed
    <2>4. Ids' = Ids /\ \A f \in Ids : entry'[f] = IF f = e THEN r ELSE entry[f]
      BY <2>1, <1>1 DEF Ids, Typed
    <2>5. Present' = Present \cup {e}
      BY <2>1, <2>4 DEF Present
    <2>6. Typed'
      <3>1. entry' \in [Ids -> Rows \cup {None}]
        BY <2>1, <1>1 DEF Typed
      <3>2. signed' \subseteq 1..given' /\ loose' \subseteq 1..given' /\ given' \in 0..mix.room
        BY <2>1, <2>3, <1>1 DEF Typed, Ids
      <3> QED
        BY <3>1, <3>2, <2>1, <2>2, <2>3, <2>4, <1>1, JobsKept DEF Typed
    <2>7. Counted'
      <3>1. \A f \in Present : f <= given /\ f \in Int
        BY DEF IInv, Counted, Present, Ids
      <3>2. \A f \in Present' : f <= given'
        BY <3>1, <2>1, <2>3, <2>5
      <3> QED
        BY <3>2 DEF Counted
    <2>8. ManagersValidate'
      <3>1. r.status = "validated" => e \in signed'
        BY <2>1, <1>1 DEF Brings
      <3> QED
        BY <3>1, <2>1, <2>4, <2>5 DEF IInv, ManagersValidate, Present
    <2>9. \A t \in Slots : Brings(pc[t], job[t])'
      <3>1. Brings(step, j)'
        BY <2>2, <1>1 DEF Brings
      <3> QED
        BY <3>1, <2>1, <2>2, <2>3, BringsKept
    <2>10. ASSUME mix.alone PROVE (Single /\ Table /\ \A t \in Slots : Steady(pc[t], job[t]))'
      <3>1. Table /\ Single /\ Steady("insert", job[s])
        BY <2>10, <1>1 DEF InTurn
      <3>2. Kept' = IF job[s].op \in {"log", "bulk"} THEN Kept \cup {e} ELSE Kept
        <4>1. e \notin loose
          BY <2>3, <1>1 DEF Typed
        <4> QED
          BY <4>1, <2>1, <2>5 DEF Kept
      <3>3. \A f \in Kept' : entry'[f].worker = IF f = e THEN w ELSE entry[f].worker
        BY <3>2, <2>1, <2>4, <2>5 DEF Kept, Present
      <3>4. job[s].op \in {"log", "bulk"} => \A f \in Kept : Apart(w, entry[f].worker)
        BY <3>1, <1>1 DEF Steady
      <3>5. Kept \subseteq Present
        BY DEF Kept
      <3>6. Table'
        <4>1. (\A f \in Present : Sound(entry[f]) /\ Whole(entry[f]))'
          BY <3>1, <2>1, <2>4, <2>5 DEF Table, Steady, Present, Sound, Whole, Filled
        <4>2. (\A f \in Kept : active[entry[f].worker])'
          BY <3>1, <3>2, <3>3, <2>1, <1>1 DEF Table, Steady
        <4>3. ASSUME NEW c \in Kept', NEW d \in Kept' PROVE Apart(entry'[c].worker, entry'[d].worker)
          <5>1. c \in Kept \/ (c = e /\ job[s].op \in {"log", "bulk"})
            BY <3>2
          <5>2. d \in Kept \/ (d = e /\ job[s].op \in {"log", "bulk"})
            BY <3>2
          <5>3. e \notin Kept
            BY <2>1, <3>5
          <5>4. CASE c \in Kept /\ d \in Kept
            BY <5>3, <5>4, <3>1, <3>3 DEF Table
          <5>5. CASE c = e /\ d = e
            BY <5>5, <3>3 DEF Apart
          <5>6. CASE c = e /\ d \in Kept /\ job[s].op \in {"log", "bulk"}
            BY <5>3, <5>6, <3>3, <3>4 DEF Apart
          <5>7. CASE c \in Kept /\ d = e /\ job[s].op \in {"log", "bulk"}
            BY <5>3, <5>7, <3>3, <3>4 DEF Apart
          <5> QED
            BY <5>1, <5>2, <5>4, <5>5, <5>6, <5>7
        <4>4. (\A c, d \in Kept : Apart(entry[c].worker, entry[d].worker))'
          BY <4>3 DEF Apart
        <4> QED
          BY <4>1, <4>2, <4>4 DEF Table
      <3>7. Steady(step, j)'
        <4>1. CASE step = "idle"
          BY <4>1 DEF Steady
        <4>2. CASE step = "insert"
          <5>1. ASSUME NEW v \in j.todo, NEW f \in Kept', j.op \in {"log", "bulk"}
                PROVE  Apart(v, entry'[f].worker)
            <6>1. v \in job[s].todo /\ job[s].op = j.op
              BY <4>2, <2>2
            <6>2. CASE f = e
              BY <6>1, <6>2, <3>1, <3>3, <1>1 DEF Steady, Apart
            <6>3. CASE f # e
              BY <5>1, <6>1, <6>3, <3>1, <3>2, <3>3 DEF Steady
            <6> QED
              BY <6>2, <6>3
          <5>2. (\A v \in j.todo, f \in Kept : Apart(v, entry[f].worker))' \/ j.op \notin {"log", "bulk"}
            BY <5>1 DEF Apart
          <5>3. Sound(j.row) /\ Whole(j.row) /\ (\A v \in j.todo : active'[v]) /\ \A u, v \in j.todo : Site[u] = Site[v]
            BY <4>2, <2>1, <2>2, <3>1 DEF Steady
          <5> QED
            BY <5>2, <5>3, <4>2 DEF Steady, Sound, Whole, Filled
        <4> QED
          BY <4>1, <4>2, <2>2
      <3> QED
        BY <3>1, <3>6, <3>7, <1>1, <2>2, <2>3, OthersIdle
    <2>11. InTurn'
      BY <2>1, <2>10 DEF InTurn
    <2> QED
      BY <2>6, <2>7, <2>8, <2>9, <2>11 DEF IInv
  <1> QED
    BY <1>2, <1>3

--------------------------------------------------------------------------------
(* Requests that change a day                                              *)

(* A request that read an entry, and what it makes of it. *)
LEMMA ChangeStep ==
    ASSUME Constants, IInv, InTurn, NEW s \in Slots, NEW op \in Ops, NEW e \in Present, NEW new \in Rows,
           Serve(s, op, "reread", e, new, {}),
           Signs(entry[e].status, new, [op |-> op, id |-> e]),
           mix.alone => Fits(op, entry[e], new)
    PROVE  IInv' /\ InTurn'
  <1>1. PICK j : j = [op |-> op, id |-> e, row |-> new, todo |-> {}]
    OBVIOUS
  <1>2. e \in 1..given /\ entry[e] \in Rows
    BY DEF IInv, Typed, Counted, Present, Ids
  <1>3. Signs("pending", new, j)
    BY <1>1 DEF Signs, IInv, ManagersValidate
  <1>4. Brings("reread", j)
    BY <1>1, <1>2, <1>3 DEF Brings
  <1>5. mix.alone => Steady("reread", j)
    BY <1>1 DEF Steady
  <1> QED
    BY <1>1, <1>4, <1>5, ServeStep DEF Steps

(* What the entries are, one request after another. *)
LEMMA EntryIs ==
    ASSUME Constants, IInv, InTurn, NEW e \in Present
    PROVE  entry[e] \in Rows /\ (mix.alone => Sound(entry[e]) /\ Whole(entry[e]))
  BY DEF IInv, Typed, Present, InTurn, Table

LEMMA EditedIs ==
    ASSUME Constants, NEW r \in Rows, NEW d, d.shift \in Shifts, d.hours \in Hours
    PROVE  /\ Edited(r, d) \in Rows /\ Edited(r, d).worker = r.worker /\ Edited(r, d).status = r.status
           /\ Whole(r) => Whole(Edited(r, d))
  BY DEF Edited, Rows, Whole, Filled

LEMMA ProposedIs ==
    ASSUME Constants, NEW r \in Rows, NEW d, d.shift \in Shifts, d.hours \in Hours,
           d.shift # "none" \/ d.hours > 0
    PROVE  LET p == Proposed(r, d)
           IN  /\ p \in Rows /\ p.worker = r.worker /\ p.status = r.status
               /\ Price(p) = Price(r) /\ Sound(p) = Sound(r)
               /\ r.status = "validated" => Whole(p)
  BY DEF Proposed, Rows, Whole, Filled, Price, Sound

LEMMA DiscardedIs ==
    ASSUME Constants, NEW r \in Rows
    PROVE  LET p == Discarded(r)
           IN  /\ p \in Rows /\ p.worker = r.worker /\ p.status = r.status
               /\ Sound(p) = Sound(r) /\ Whole(p)
  BY DEF Discarded, Rows, Whole, Filled, Sound, Shifts, Constants

LEMMA AppliedIs ==
    ASSUME Constants, NEW r \in Rows
    PROVE  Applied(r) \in Rows /\ Applied(r).worker = r.worker /\ Applied(r).status = r.status /\ Whole(Applied(r))
  <1>1. PICK q : q = [r EXCEPT !.shift = r.pshift, !.hours = r.phours, !.over = r.over /\ r.pshift = r.shift]
    OBVIOUS
  <1>2. q \in Rows /\ q.worker = r.worker /\ q.status = r.status
    <2>1. (r.over /\ r.pshift = r.shift) \in BOOLEAN
      OBVIOUS
    <2> QED
      BY <2>1, <1>1 DEF Rows
  <1>3. Applied(r) = Discarded(q)
    BY <1>1 DEF Applied
  <1> QED
    BY <1>2, <1>3, DiscardedIs

LEMMA EditOwnStep ==
    ASSUME Constants, IInv, InTurn, NEW s \in Slots, NEW e \in Ids, NEW d \in mix.days, EditOwn(s, e, d)
    PROVE  IInv' /\ InTurn'
  <1>1. e \in Present /\ d.shift \in Shifts /\ d.hours \in Hours /\ (d.shift # "none" \/ d.hours > 0)
    BY DaysAre DEF EditOwn
  <1>2. entry[e] \in Rows /\ (mix.alone => Sound(entry[e]) /\ Whole(entry[e]))
    BY <1>1, EntryIs
  <1>3. CASE entry[e].status = "pending"
    <2>1. PICK new : new = Edited(entry[e], d)
      OBVIOUS
    <2>2. Sound(new) /\ Serve(s, "edit", "reread", e, new, {})
      BY <1>3, <2>1 DEF EditOwn
    <2>3. /\ new \in Rows /\ new.worker = entry[e].worker /\ new.status = entry[e].status
          /\ Whole(entry[e]) => Whole(new)
      BY <1>1, <1>2, <2>1, EditedIs
    <2>4. Signs(entry[e].status, new, [op |-> "edit", id |-> e])
      BY <2>3 DEF Signs
    <2>5. mix.alone => Fits("edit", entry[e], new)
      BY <1>2, <1>3, <2>2, <2>3 DEF Fits
    <2> QED
      BY <1>1, <2>2, <2>3, <2>4, <2>5, ChangeStep DEF Ops
  <1>4. CASE entry[e].status # "pending"
    <2>1. PICK new : new = Proposed(entry[e], d)
      OBVIOUS
    <2>2. Serve(s, "propose", "reread", e, new, {})
      BY <1>4, <2>1 DEF EditOwn
    <2>3. entry[e].status = "validated"
      BY <1>2, <1>4 DEF Rows
    <2>4. /\ new \in Rows /\ new.worker = entry[e].worker /\ new.status = entry[e].status
          /\ Price(new) = Price(entry[e]) /\ Sound(new) = Sound(entry[e]) /\ Whole(new)
      BY <1>1, <1>2, <2>1, <2>3, ProposedIs
    <2>5. Signs(entry[e].status, new, [op |-> "propose", id |-> e])
      BY <2>4 DEF Signs
    <2>6. mix.alone => Fits("propose", entry[e], new)
      BY <1>2, <2>4 DEF Fits
    <2> QED
      BY <1>1, <2>2, <2>4, <2>5, <2>6, ChangeStep DEF Ops
  <1> QED
    BY <1>3, <1>4

LEMMA DecideStep ==
    ASSUME Constants, IInv, InTurn, NEW s \in Slots, NEW e \in Ids, NEW a \in BOOLEAN, Decide(s, e, a)
    PROVE  IInv' /\ InTurn'
  <1>1. e \in Present
    BY DEF Decide
  <1>2. entry[e] \in Rows /\ (mix.alone => Sound(entry[e]) /\ Whole(entry[e]))
    BY <1>1, EntryIs
  <1>3. PICK new : new = IF a THEN Applied(entry[e]) ELSE Discarded(entry[e])
    OBVIOUS
  <1>4. Serve(s, "decide", "reread", e, new, {}) /\ (a => Sound(Applied(entry[e])))
    BY <1>3 DEF Decide
  <1>5. /\ new \in Rows /\ new.worker = entry[e].worker /\ new.status = entry[e].status /\ Whole(new)
        /\ mix.alone => Sound(new)
    <2>1. CASE a
      BY <2>1, <1>2, <1>3, <1>4, AppliedIs
    <2>2. CASE ~a
      BY <2>2, <1>2, <1>3, DiscardedIs
    <2> QED
      BY <2>1, <2>2
  <1>6. Signs(entry[e].status, new, [op |-> "decide", id |-> e])
    BY <1>5 DEF Signs
  <1>7. mix.alone => Fits("decide", entry[e], new)
    BY <1>5 DEF Fits
  <1> QED
    BY <1>1, <1>4, <1>5, <1>6, <1>7, ChangeStep DEF Ops

LEMMA ValidateStep ==
    ASSUME Constants, IInv, InTurn, NEW s \in Slots, NEW e \in Ids, Validate(s, e)
    PROVE  IInv' /\ InTurn'
  <1>1. e \in Present /\ entry[e].status = "pending"
    BY DEF Validate
  <1>2. entry[e] \in Rows /\ (mix.alone => Sound(entry[e]) /\ Whole(entry[e]))
    BY <1>1, EntryIs
  <1>3. PICK new : new = Validated(entry[e])
    OBVIOUS
  <1>4. Serve(s, "validate", "reread", e, new, {})
    BY <1>3 DEF Validate
  <1>5. /\ new \in Rows /\ new.worker = entry[e].worker
        /\ Sound(new) = Sound(entry[e]) /\ (Whole(entry[e]) => Whole(new))
    BY <1>1, <1>2, <1>3 DEF Validated, Rows, Sound, Whole, Filled
  <1>6. Signs(entry[e].status, new, [op |-> "validate", id |-> e])
    BY DEF Signs
  <1>7. mix.alone => Fits("validate", entry[e], new)
    BY <1>1, <1>2, <1>5 DEF Fits
  <1> QED
    BY <1>1, <1>4, <1>5, <1>6, <1>7, ChangeStep DEF Ops

LEMMA UpdateStep ==
    ASSUME Constants, IInv, InTurn, NEW s \in Slots, NEW e \in Ids, NEW d \in mix.days, Update(s, e, d)
    PROVE  IInv' /\ InTurn'
  <1>1. e \in Present /\ d.shift \in Shifts /\ d.hours \in Hours /\ d.over \in BOOLEAN
    BY DaysAre DEF Update
  <1>2. entry[e] \in Rows /\ (mix.alone => Sound(entry[e]) /\ Whole(entry[e]))
    BY <1>1, EntryIs
  <1>3. PICK new : new = [Edited(entry[e], d) EXCEPT !.over = d.over]
    OBVIOUS
  <1>4. Sound(new) /\ Serve(s, "update", "reread", e, new, {})
    BY <1>3 DEF Update
  <1>5. /\ new \in Rows /\ new.worker = entry[e].worker /\ new.status = entry[e].status
        /\ Whole(entry[e]) => Whole(new)
    <2>1. PICK q : q = Edited(entry[e], d)
      OBVIOUS
    <2>2. /\ q \in Rows /\ q.worker = entry[e].worker /\ q.status = entry[e].status
          /\ Whole(entry[e]) => Whole(q)
      BY <1>1, <1>2, <2>1, EditedIs
    <2> QED
      BY <1>1, <1>3, <2>1, <2>2 DEF Rows, Whole
  <1>6. Signs(entry[e].status, new, [op |-> "update", id |-> e])
    BY <1>5 DEF Signs
  <1>7. mix.alone => Fits("update", entry[e], new)
    BY <1>2, <1>4, <1>5 DEF Fits
  <1> QED
    BY <1>1, <1>4, <1>5, <1>6, <1>7, ChangeStep DEF Ops

(* Rejecting and deleting. *)
LEMMA DropStep ==
    ASSUME Constants, IInv, InTurn, NEW s \in Slots, NEW e \in Ids, Reject(s, e) \/ Delete(s, e)
    PROVE  IInv' /\ InTurn'
  <1>1. PICK op \in {"reject", "delete"} :
            Serve(s, op, "erase", e, None, {}) /\ e \in Present /\ (op = "reject" => entry[e].status = "pending")
    BY DEF Reject, Delete
  <1>2. PICK j : j = [op |-> op, id |-> e, row |-> None, todo |-> {}]
    OBVIOUS
  <1>3. e \in 1..given
    BY <1>1 DEF IInv, Typed, Counted, Ids
  <1>4. Brings("erase", j) /\ Steady("erase", j)
    BY <1>1, <1>2, <1>3 DEF Brings, Steady
  <1> QED
    BY <1>1, <1>2, <1>4, ServeStep DEF Steps

LEMMA ReReadStep ==
    ASSUME Constants, IInv, InTurn, NEW s \in Slots, ReRead(s)
    PROVE  IInv' /\ InTurn'
  <1>1. pc[s] = "reread" /\ Nothing /\ Typed /\ Brings("reread", job[s]) /\ IsJob(job[s])
    BY JobIs DEF IInv, ReRead
  <1> DEFINE e == job[s].id
             new == job[s].row
             D == Differing(s, entry[e])
  <1>2. CASE ~(e \in Present /\ D # {})
    BY <1>1, <1>2, EndStep DEF ReRead
  <1>3. CASE e \in Present /\ D # {}
    <2>1. entry[e] \in Rows /\ new \in Rows
      BY <1>1, <1>3 DEF Typed, Present, Brings
    <2>2. DOMAIN entry[e] = Fields
      BY <2>1 DEF Rows, Fields
    <2>3. D \in SUBSET Fields /\ \A f \in Fields \ D : new[f] = entry[e][f]
      BY <2>2 DEF Differing, Fields
    <2>4. PICK p : p = [f \in D |-> new[f]]
      OBVIOUS
    <2>5. \A old \in Rows : /\ Merged(old, p) \in Rows
                            /\ Merged(old, p).status \in {old.status, new.status}
      BY <2>1, <2>3, <2>4, MergedRow
    <2>6. Merged(entry[e], p) = new
      BY <2>1, <2>3, <2>4, MergedAll
    <2>7. PICK j : j = [op |-> job[s].op, id |-> e, row |-> p, todo |-> job[s].todo]
      OBVIOUS
    <2>8. [job[s] EXCEPT !.row = p] = j
      BY <2>7, <1>1 DEF IsJob
    <2>9. Went(s, "write", j)
      <3>1. job' = [job EXCEPT ![s] = [job[s] EXCEPT !.row = p]]
        BY <1>3, <2>4 DEF ReRead
      <3> QED
        BY <3>1, <1>3, <2>8 DEF ReRead, Goto, Went
    <2>10. Brings("write", j)
      BY <2>5, <2>7, <1>1 DEF Brings, Signs
    <2>11. mix.alone => Steady("write", j)
      <3>1. mix.alone => Steady("reread", job[s])
        BY <1>1 DEF InTurn
      <3> QED
        BY <3>1, <2>6, <2>7 DEF Steady
    <2> QED
      BY <2>7, <2>9, <2>10, <2>11, <1>1, LookStep DEF Steps, IsJob
  <1> QED
    BY <1>2, <1>3

(* The entry that a request writes. *)
LEMMA Wrote ==
    ASSUME Constants, IInv, NEW s \in Slots, Write(s), job[s].id \in Present
    PROVE  \E new \in Rows, e \in Present :
               /\ e = job[s].id /\ new = Merged(entry[e], job[s].row) /\ new # None
               /\ Signs(entry[e].status, new, job[s])
               /\ entry' = [entry EXCEPT ![e] = new]
               /\ signed' = IF job[s].op = "validate" THEN signed \cup {e} ELSE signed
               /\ UNCHANGED <<active, given, mix, loose>>
  <1>1. Brings("write", job[s]) /\ entry[job[s].id] \in Rows
    BY DEF IInv, Write, Typed, Present
  <1>2. Merged(entry[job[s].id], job[s].row) \in Rows
        /\ Signs(entry[job[s].id].status, Merged(entry[job[s].id], job[s].row), job[s])
    BY <1>1 DEF Brings
  <1>3. None \notin Rows
    BY DEF Rows, Shifts, Constants
  <1> QED
    BY <1>2, <1>3 DEF Write

LEMMA WriteStep ==
    ASSUME Constants, IInv, InTurn, NEW s \in Slots, Write(s)
    PROVE  IInv' /\ InTurn'
  <1>1. pc[s] = "write" /\ End(s) /\ Typed
    BY DEF IInv, Write
  <1>2. CASE job[s].id \notin Present
    BY <1>1, <1>2, EndStep DEF Write
  <1>3. CASE job[s].id \in Present
    <2>1. PICK new \in Rows, e \in Present :
               /\ e = job[s].id /\ new = Merged(entry[e], job[s].row) /\ new # None
               /\ Signs(entry[e].status, new, job[s])
               /\ entry' = [entry EXCEPT ![e] = new]
               /\ signed' = IF job[s].op = "validate" THEN signed \cup {e} ELSE signed
               /\ UNCHANGED <<active, given, mix, loose>>
      BY <1>3, Wrote
    <2>2. Went(s, "idle", NoJob) /\ "idle" \in Steps
      BY <1>1 DEF End, Goto, Went, Steps
    <2>3. Ids' = Ids /\ \A f \in Ids : entry'[f] = IF f = e THEN new ELSE entry[f]
      BY <2>1, <1>1 DEF Ids, Typed, Present
    <2>4. Present' = Present
      BY <2>1, <2>3 DEF Present
    <2>5. Typed'
      <3>1. entry' \in [Ids -> Rows \cup {None}]
        BY <2>1, <1>1 DEF Typed
      <3>2. signed' \subseteq 1..given'
        BY <2>1, <1>1 DEF Typed, IInv, Counted, Present, Ids
      <3> QED
        BY <3>1, <3>2, <2>1, <2>2, <2>3, <1>1, NoJobIs, JobsKept DEF Typed
    <2>6. Counted'
      BY <2>1, <2>4 DEF IInv, Counted
    <2>7. ManagersValidate'
      <3>1. new.status = "validated" => e \in signed'
        BY <2>1 DEF Signs, IInv, ManagersValidate
      <3> QED
        BY <3>1, <2>1, <2>3, <2>4 DEF IInv, ManagersValidate, Present
    <2>8. \A t \in Slots : Brings(pc[t], job[t])'
      <3>1. Brings("idle", NoJob)'
        BY DEF Brings
      <3>2. given \in Nat
        BY <1>1 DEF Typed
      <3> QED
        BY <3>1, <3>2, <2>1, <2>2, NoJobIs, BringsKept
    <2>9. ASSUME mix.alone PROVE (Single /\ Table /\ \A t \in Slots : Steady(pc[t], job[t]))'
      <3>1. Table /\ Single /\ Fits(job[s].op, entry[e], new)
        BY <2>1, <2>9, <1>1 DEF InTurn, Steady
      <3>2. Kept' = Kept
        BY <2>1, <2>4 DEF Kept
      <3>3. \A f \in Present : entry'[f].worker = entry[f].worker
        BY <2>1, <2>3, <3>1 DEF Fits, Present
      <3>4. Table'
        <4>1. (\A f \in Present : Sound(entry[f]) /\ Whole(entry[f]))'
          BY <2>3, <2>4, <3>1 DEF Table, Fits, Present, Sound, Whole, Filled
        <4>2. Kept \subseteq Present
          BY DEF Kept
        <4>3. (\A f \in Kept : active[entry[f].worker])'
          BY <2>1, <3>1, <3>2, <3>3, <4>2 DEF Table
        <4>4. (\A c, d \in Kept : Apart(entry[c].worker, entry[d].worker))'
          <5>1. \A c, d \in Kept : Apart(entry'[c].worker, entry'[d].worker)
            BY <3>1, <3>3, <4>2 DEF Table
          <5> QED
            BY <5>1, <3>2 DEF Apart
        <4> QED
          BY <4>1, <4>3, <4>4 DEF Table
      <3>5. Steady("idle", NoJob)'
        BY DEF Steady
      <3> QED
        BY <3>1, <3>4, <3>5, <1>1, <2>2, NoJobIs, OthersIdle
    <2>10. InTurn'
      BY <2>1, <2>9 DEF InTurn
    <2> QED
      BY <2>5, <2>6, <2>7, <2>8, <2>10 DEF IInv
  <1> QED
    BY <1>2, <1>3

LEMMA EraseStep ==
    ASSUME Constants, IInv, InTurn, NEW s \in Slots, Erase(s)
    PROVE  IInv' /\ InTurn'
  <1>1. /\ pc[s] = "erase" /\ End(s) /\ Typed /\ entry' = [entry EXCEPT ![job[s].id] = None]
        /\ UNCHANGED <<active, given, mix, signed, loose>> /\ given \in Nat
    BY DEF IInv, Typed, Erase
  <1>2. PICK e : e = job[s].id
    OBVIOUS
  <1>3. Went(s, "idle", NoJob) /\ "idle" \in Steps
    BY <1>1 DEF End, Goto, Went, Steps
  <1>4. Ids' = Ids /\ \A f \in Ids : entry'[f] = IF f = e THEN None ELSE entry[f]
    BY <1>1, <1>2 DEF Ids, Typed
  <1>5. Present' = Present \ {e}
    BY <1>4 DEF Present
  <1>6. Typed'
    <2>1. entry' \in [Ids -> Rows \cup {None}]
      BY <1>1 DEF Typed
    <2> QED
      BY <2>1, <1>1, <1>3, <1>4, NoJobIs, JobsKept DEF Typed
  <1>7. Counted' /\ ManagersValidate'
    <2>1. \A f \in Present' : f \in Present /\ entry'[f] = entry[f]
      BY <1>4, <1>5 DEF Present
    <2> QED
      BY <2>1, <1>1 DEF IInv, Counted, ManagersValidate
  <1>8. \A t \in Slots : Brings(pc[t], job[t])'
    <2>1. Brings("idle", NoJob)'
      BY DEF Brings
    <2> QED
      BY <2>1, <1>1, <1>3, NoJobIs, BringsKept
  <1>9. ASSUME mix.alone PROVE (Single /\ Table /\ \A t \in Slots : Steady(pc[t], job[t]))'
    <2>1. Table /\ Single
      BY <1>9 DEF InTurn
    <2>2. Kept' = Kept \ {e}
      BY <1>1, <1>5 DEF Kept
    <2>3. Kept \subseteq Present /\ \A f \in Present' : f \in Present /\ entry'[f] = entry[f]
      BY <1>4, <1>5 DEF Kept, Present
    <2>4. Kept' \subseteq Present'
      BY <1>5, <2>2, <2>3
    <2>5. Table'
      <3>1. (\A f \in Present : Sound(entry[f]) /\ Whole(entry[f]))'
        BY <2>1, <2>3 DEF Table, Sound, Whole, Filled
      <3>2. (\A f \in Kept : active[entry[f].worker])'
        BY <1>1, <2>1, <2>2, <2>3, <2>4 DEF Table
      <3>3. (\A c, d \in Kept : Apart(entry[c].worker, entry[d].worker))'
        <4>1. \A c, d \in Kept' : Apart(entry'[c].worker, entry'[d].worker)
          BY <2>1, <2>2, <2>3, <2>4 DEF Table
        <4> QED
          BY <4>1 DEF Apart
      <3> QED
        BY <3>1, <3>2, <3>3 DEF Table
    <2>6. Steady("idle", NoJob)'
      BY DEF Steady
    <2> QED
      BY <2>1, <2>5, <2>6, <1>1, <1>3, NoJobIs, OthersIdle
  <1>10. InTurn'
    BY <1>1, <1>9 DEF InTurn
  <1> QED
    BY <1>6, <1>7, <1>8, <1>10 DEF IInv

(* The days of a worker who is stopped or restarted may overlap others. *)
LEMMA SetActiveStep ==
    ASSUME Constants, IInv, InTurn, NEW w \in Workers, SetActive(w)
    PROVE  IInv' /\ InTurn'
  <1>1. /\ Typed /\ active' = [active EXCEPT ![w] = ~@] /\ loose' = loose \cup DayOf(w)
        /\ UNCHANGED <<entry, given, pc, job, mix, signed>>
        /\ mix.alone => \A s \in Slots : pc[s] = "idle"
    BY DEF IInv, SetActive
  <1>2. Ids' = Ids /\ Present' = Present
    BY <1>1 DEF Ids, Present
  <1>3. Typed'
    <2>1. DayOf(w) \subseteq 1..given
      BY <1>1 DEF DayOf, IInv, Counted, Present, Ids, Typed
    <2>2. active' \in [Workers -> BOOLEAN]
      BY <1>1 DEF Typed
    <2> QED
      BY <2>1, <2>2, <1>1, <1>2 DEF Typed, Shaped
  <1>4. Counted' /\ ManagersValidate' /\ \A t \in Slots : Brings(pc[t], job[t])'
    BY <1>1, <1>2 DEF IInv, Counted, ManagersValidate, Brings, Signs
  <1>5. ASSUME mix.alone PROVE (Single /\ Table /\ \A t \in Slots : Steady(pc[t], job[t]))'
    <2>1. Table
      BY <1>5 DEF InTurn
    <2>2. Kept' = Kept \ DayOf(w)
      BY <1>1, <1>2 DEF Kept
    <2>3. \A f \in Kept' : f \in Kept /\ entry[f].worker # w
      BY <2>2 DEF DayOf, Kept
    <2>4. \A f \in Kept : entry[f].worker \in Workers
      BY <1>1 DEF Kept, Present, Typed, Rows
    <2>5. (\A f \in Kept : active[entry[f].worker])'
      <3>1. \A f \in Kept' : active'[entry[f].worker]
        BY <2>1, <2>3, <2>4, <1>1 DEF Typed, Table
      <3> QED
        BY <3>1, <1>1
    <2>6. (\A f \in Present : Sound(entry[f]) /\ Whole(entry[f]))'
      BY <2>1, <1>1, <1>2 DEF Table, Sound, Whole, Filled
    <2>7. (\A c, d \in Kept : Apart(entry[c].worker, entry[d].worker))'
      BY <2>1, <2>3, <1>1 DEF Table, Apart
    <2>8. Single' /\ \A t \in Slots : Steady(pc[t], job[t])'
      BY <1>1, <1>5 DEF Single, Steady
    <2> QED
      BY <2>5, <2>6, <2>7, <2>8 DEF Table
  <1>6. InTurn'
    BY <1>1, <1>5 DEF InTurn
  <1> QED
    BY <1>3, <1>4, <1>6 DEF IInv

LEMMA StepInv == Constants /\ IInv /\ InTurn /\ [Next]_vars => IInv' /\ InTurn'
  <1> SUFFICES ASSUME Constants, IInv, InTurn, [Next]_vars PROVE IInv' /\ InTurn'
    OBVIOUS
  <1>1. CASE UNCHANGED vars
    <2>1. Ids' = Ids /\ Present' = Present /\ Kept' = Kept
      BY <1>1 DEF vars, Ids, Present, Kept
    <2>2. Typed' /\ Counted' /\ ManagersValidate' /\ \A s \in Slots : Brings(pc[s], job[s])'
      BY <1>1, <2>1 DEF vars, IInv, Typed, Shaped, Counted, ManagersValidate, Brings, Signs
    <2>3. InTurn'
      BY <1>1, <2>1 DEF vars, InTurn, Single, Table, Steady, Kept
    <2> QED
      BY <2>2, <2>3 DEF IInv
  <1>2. ASSUME NEW s \in Slots, Step(s) PROVE IInv' /\ InTurn'
    BY <1>2, SubmitStep, LogStep, BulkLogStep, CheckConflictsStep, InsertStep, EditOwnStep, DecideStep,
       ValidateStep, DropStep, UpdateStep, ReReadStep, WriteStep, EraseStep DEF Step
  <1>3. ASSUME NEW w \in Workers, SetActive(w) PROVE IInv' /\ InTurn'
    BY <1>3, SetActiveStep
  <1> QED
    BY <1>1, <1>2, <1>3 DEF Next

--------------------------------------------------------------------------------
(* What a step may not do                                                  *)

LEMMA RejectedPending ==
    ASSUME Constants, IInv, InTurn, mix.alone
    PROVE  PendingRejected
  BY DEF PendingRejected, InTurn, Steady

LEMMA EntriesKept ==
    ASSUME UNCHANGED entry
    PROVE  GoneKept /\ PriceKept
  BY DEF GoneKept, PriceKept

LEMMA InsertKeeps ==
    ASSUME Constants, IInv, NEW s \in Slots, NEW w \in Workers, Insert(s, w)
    PROVE  GoneKept /\ PriceKept
  <1>1. CASE DayOf(w) # {}
    BY <1>1, EntriesKept DEF Insert, Nothing
  <1>2. CASE DayOf(w) = {}
    <2>1. PICK r \in Rows, e \in Ids : e = given + 1 /\ e \notin Present /\ entry' = [entry EXCEPT ![e] = r]
      BY <1>2, Added DEF Insert
    <2>2. \A f \in Ids : f # e => entry'[f] = entry[f]
      BY <2>1 DEF IInv, Typed
    <2>3. 1..given \subseteq Ids /\ e \notin 1..given
      BY <2>1 DEF IInv, Typed, Ids, Constants
    <2> QED
      BY <2>1, <2>2, <2>3 DEF GoneKept, PriceKept, Present
  <1> QED
    BY <1>1, <1>2

LEMMA WriteKeeps ==
    ASSUME Constants, IInv, InTurn, NEW s \in Slots, Write(s)
    PROVE  GoneKept /\ (mix.alone => PriceKept)
  <1>1. CASE job[s].id \notin Present
    BY <1>1, EntriesKept DEF Write, Nothing
  <1>2. CASE job[s].id \in Present
    <2>1. PICK new \in Rows, e \in Present :
               e = job[s].id /\ new = Merged(entry[e], job[s].row) /\ entry' = [entry EXCEPT ![e] = new]
      BY <1>2, Wrote
    <2>2. e \in Ids /\ \A f \in Ids : entry'[f] = IF f = e THEN new ELSE entry[f]
      BY <2>1 DEF IInv, Typed, Present
    <2>3. GoneKept
      <3>1. 1..given \subseteq Ids
        BY DEF IInv, Typed, Ids, Constants
      <3> QED
        BY <2>1, <2>2, <3>1 DEF GoneKept, Present
    <2>4. ASSUME mix.alone PROVE PriceKept
      <3>1. pc[s] = "write" /\ Fits(job[s].op, entry[e], new)
        BY <2>1, <2>4 DEF Write, InTurn, Steady
      <3>2. ASSUME entry[e].status = "validated"
            PROVE  new.status = "validated" /\ (Price(new) # Price(entry[e]) => ByManager(e))
        BY <2>1, <3>1, <3>2 DEF Fits, ByManager
      <3>3. ASSUME NEW f \in Present, entry[f].status = "validated", entry'[f] # None
            PROVE  /\ entry'[f].status = "validated"
                   /\ Price(entry'[f]) # Price(entry[f]) => ByManager(f)
        BY <3>3, <3>2, <2>2 DEF Present
      <3> QED
        BY <3>3 DEF PriceKept
    <2> QED
      BY <2>3, <2>4
  <1> QED
    BY <1>1, <1>2

LEMMA EraseKeeps ==
    ASSUME Constants, IInv, NEW s \in Slots, Erase(s)
    PROVE  GoneKept /\ PriceKept
  <1>1. \A f \in Ids : entry'[f] = None \/ entry'[f] = entry[f]
    BY DEF Erase, IInv, Typed
  <1>2. 1..given \subseteq Ids
    BY DEF IInv, Typed, Ids, Constants
  <1> QED
    BY <1>1, <1>2 DEF GoneKept, PriceKept, Present

LEMMA StepKeeps == Constants /\ IInv /\ InTurn /\ [Next]_vars => DayKept
  <1> SUFFICES ASSUME Constants, IInv, InTurn, [Next]_vars PROVE GoneKept /\ (mix.alone => PriceKept)
    BY RejectedPending DEF DayKept
  <1>1. CASE UNCHANGED vars
    BY <1>1, EntriesKept DEF vars
  <1>2. ASSUME NEW s \in Slots, Step(s) PROVE GoneKept /\ (mix.alone => PriceKept)
    <2>1. CASE \E w \in Workers : Insert(s, w)
      BY <2>1, InsertKeeps
    <2>2. CASE Write(s)
      BY <2>2, WriteKeeps
    <2>3. CASE Erase(s)
      BY <2>3, EraseKeeps
    <2>4. CASE UNCHANGED entry
      BY <2>4, EntriesKept
    <2> QED
      BY <1>2, <2>1, <2>2, <2>3, <2>4
      DEF Step, Submit, Log, BulkLog, CheckConflicts, EditOwn, Decide, Validate, Reject, Delete, Update, ReRead,
          Serve, Nothing
  <1>3. ASSUME NEW w \in Workers, SetActive(w) PROVE GoneKept /\ (mix.alone => PriceKept)
    BY <1>3, EntriesKept DEF SetActive
  <1> QED
    BY <1>1, <1>2, <1>3 DEF Next

--------------------------------------------------------------------------------
(* The theorems                                                            *)

(* However requests overlap, a copy that says validated was validated when *)
(* it was read; one after another, a request changes an entry into what it *)
(* read of it made, and no two days of one person are at different sites.  *)
THEOREM AttendanceInvariant ==
    ASSUME Constants
    PROVE  Spec => [](IInv /\ InTurn)
  <1>1. Init => IInv /\ InTurn
    BY InitInv
  <1>2. IInv /\ InTurn /\ [Next]_vars => (IInv /\ InTurn)'
    BY StepInv
  <1> QED
    BY <1>1, <1>2, PTL DEF Spec

(* Managers check what is paid, whatever requests overlap on a day; one     *)
(* after another, entries can be read back, proposals are whole, and        *)
(* nobody is at two sites in one shift unasked: for any workers, sites,     *)
(* persons, hours and days, and any mix of requests.                        *)
THEOREM ManagersDecideWhatIsPaid ==
    ASSUME Constants
    PROVE  Spec => []AttendanceHolds
  <1>1. IInv => TypeOK
    BY DEF IInv, Typed, TypeOK, Steps
  <1>2. IInv /\ InTurn => AttendanceHolds
    <2>1. IInv => ManagersValidate
      BY DEF IInv
    <2>2. InTurn => Loadable /\ ProposalsWhole
      BY DEF InTurn, Table, Loadable, ProposalsWhole, Whole
    <2>3. InTurn => SitesApart
      BY DEF InTurn, Table, SitesApart, Apart, Kept
    <2> QED
      BY <1>1, <2>1, <2>2, <2>3 DEF AttendanceHolds
  <1> QED
    BY <1>2, AttendanceInvariant, PTL

(* A day that is gone stays gone, whatever requests overlap; one after      *)
(* another, a validated day keeps its price until a manager decides, and is *)
(* not rejected away.                                                       *)
THEOREM GoneAndPricedForGood ==
    ASSUME Constants
    PROVE  Spec => DaysKept
  <1>1. IInv /\ InTurn /\ [Next]_vars => DayKept
    BY StepKeeps
  <1> QED
    BY <1>1, AttendanceInvariant, PTL DEF Spec, DaysKept

--------------------------------------------------------------------------------
(* Keyed rows                                                              *)

RowRequests == [text : Texts \cup {None}, user : Users \cup {None},
             found : K!Rows \cup {None}, id : Nat]
RowTyped == K!TypeOK /\ req \in [Slots -> RowRequests]

SettingRow(s)  == at[s] \in {"find", "upsert", "insert", "update", "reselect"}
ClearingRow(s) == at[s] \in {"clear", "delete"}

(* What a request is for decides the steps it takes. *)
RowRouted ==
    \A s \in Slots : /\ SettingRow(s) => req[s].text # None /\ req[s].user \in Users
                     /\ ClearingRow(s) => req[s].text = None

(* Who sets while another clears is counted as overlapped. *)
Marked == \A s, t \in Slots : SettingRow(s) /\ ClearingRow(t) => s \in cleared

(* The row a request not overlapped counts on is there. *)
CountsOn(s) ==
    /\ at[s] = "update" => row # None /\ row.id = req[s].id
    /\ at[s] = "reselect" => row # None
Undisturbed == \A s \in Slots \ cleared : CountsOn(s)

RowInv == RowTyped /\ RowRouted /\ Marked /\ Undisturbed /\ failed \subseteq cleared

--------------------------------------------------------------------------------
(* The key has no row and no request is served at first. *)
LEMMA RowStarts == ASSUME K!Constants, K!Init PROVE RowInv
  BY DEF K!Constants, K!Init, RowInv, RowTyped, K!TypeOK, RowRequests, K!NoReq, RowRouted, Marked, Undisturbed,
         CountsOn, SettingRow, ClearingRow, K!Rows

(* What becomes of a row whose text is written. *)
LEMMA TextOfRow ==
  ASSUME NEW r \in K!Rows, NEW text \in Texts
  PROVE  [r EXCEPT !.text = text] \in K!Rows /\ [r EXCEPT !.text = text].id = r.id
                                             /\ [r EXCEPT !.text = text].creator = r.creator
  BY DEF K!Rows

LEMMA AskedOfRow ==
  ASSUME RowInv, NEW s \in Slots, SettingRow(s)
  PROVE  req[s] \in RowRequests /\ req[s].text \in Texts /\ req[s].user \in Users
<1>1. req[s] \in RowRequests
  BY DEF RowInv, RowTyped
<1>2. req[s].text # None /\ req[s].user \in Users
  BY DEF RowInv, RowRouted
<1>3. req[s].text \in Texts \cup {None}
  BY <1>1 DEF RowRequests
<1> QED BY <1>1, <1>2, <1>3

LEMMA NewRowIsRow ==
  ASSUME K!Constants, RowInv, NEW s \in Slots, K!Insert(s)
  PROVE  K!NewRow(s) \in K!Rows /\ ids' \in 0..MaxRows
<1>1. req[s] \in RowRequests /\ ids \in 0..MaxRows /\ MaxRows \in Nat
      /\ req[s].text \in Texts /\ req[s].user \in Users
  <2>1. SettingRow(s)
    BY DEF K!Insert, SettingRow
  <2>2. ids \in 0..MaxRows /\ MaxRows \in Nat
    BY DEF RowInv, RowTyped, K!TypeOK, K!Constants
  <2> QED BY <2>1, <2>2, AskedOfRow
<1>2. CASE req[s].found = None
  BY <1>1, <1>2 DEF K!Insert, K!NewRow, K!Rows
<1>3. CASE req[s].found # None
  <2>1. req[s].found \in K!Rows
    BY <1>1, <1>3 DEF RowRequests
  <2> QED BY <1>1, <1>3, <2>1, TextOfRow DEF K!Insert, K!NewRow
<1> QED BY <1>2, <1>3

(* A request that comes, of either kind. *)
LEMMA RowArrives ==
  ASSUME K!Constants, RowInv, NEW s \in Slots, NEW u \in Users, NEW text \in Texts \cup {None},
         K!Serve(s, text, u)
  PROVE  RowInv'
<1> USE DEF SettingRow, ClearingRow, K!Busy, K!Goto
<1>1. RowTyped'
  BY DEF RowInv, RowTyped, K!TypeOK, K!Serve, RowRequests, K!NoReq
<1>2. RowRouted'
  BY DEF RowInv, RowTyped, K!TypeOK, RowRouted, K!Serve, RowRequests, K!NoReq
<1>3. Marked'
  <2>1. at' = [at EXCEPT ![s] = IF text = None THEN "clear" ELSE "find"] /\ at[s] = "idle"
    BY DEF K!Serve
  <2>3. cleared' = IF \E t \in Slots : at[t] # "idle" /\ req[t].text = None THEN cleared \cup {s}
                   ELSE IF text = None THEN cleared \cup {t \in Slots : at[t] # "idle"} ELSE cleared \ {s}
    BY DEF K!Serve
  <2>4. at \in [Slots -> {"idle", "find", "upsert", "insert", "update", "reselect", "clear", "delete"}]
    BY DEF RowInv, RowTyped, K!TypeOK
  <2>5. \A t \in Slots : at[t] # "idle" /\ req[t].text = None <=> ClearingRow(t)
    BY <2>4 DEF RowInv, RowRouted
  <2> SUFFICES ASSUME NEW t \in Slots, NEW v \in Slots, SettingRow(t)', ClearingRow(v)' PROVE t \in cleared'
    BY DEF Marked
  <2>6. CASE t = s
    <3>1. ClearingRow(v) /\ v # s
      BY <2>1, <2>4, <2>6
    <3> QED BY <2>3, <2>5, <2>6, <3>1
  <2>7. CASE t # s
    <3>1. SettingRow(t) /\ at[t] # "idle"
      BY <2>1, <2>4, <2>7
    <3>2. CASE v = s
      <4>1. text = None
        BY <2>1, <2>4, <3>2
      <4>2. CASE \E w \in Slots : ClearingRow(w)
        BY <2>3, <2>5, <3>1, <4>2 DEF RowInv, Marked
      <4>3. CASE ~\E w \in Slots : ClearingRow(w)
        BY <2>3, <2>5, <3>1, <4>1, <4>3
      <4> QED BY <4>2, <4>3
    <3>3. CASE v # s
      <4>1. ClearingRow(v)
        BY <2>1, <2>4, <3>3
      <4> QED BY <2>3, <2>7, <3>1, <4>1 DEF RowInv, Marked
    <3> QED BY <3>2, <3>3
  <2> QED BY <2>6, <2>7
<1>4. Undisturbed'
  BY DEF RowInv, RowTyped, K!TypeOK, Undisturbed, CountsOn, K!Serve, RowRequests, K!NoReq
<1>5. (failed \subseteq cleared)'
  BY DEF RowInv, RowTyped, K!TypeOK, K!Serve
<1> QED BY <1>1, <1>2, <1>3, <1>4, <1>5 DEF RowInv

(* A step of a request that sets the row, and takes no row away. *)
LEMMA SettingSteps ==
  ASSUME K!Constants, RowInv, NEW s \in Slots,
         K!Find(s) \/ K!Upsert(s) \/ K!Update(s) \/ K!Insert(s) \/ K!Converge(s) \/ K!Reselect(s)
  PROVE  RowInv'
<1> USE DEF SettingRow, ClearingRow, K!Goto, K!End
<1>1. RowTyped'
  <2> USE DEF RowInv, RowTyped, K!TypeOK, RowRequests, K!Rows, K!NoReq, K!Constants
  <2>1. CASE K!Find(s)
    BY <2>1 DEF K!Find
  <2>2. CASE K!Upsert(s)
    BY <2>2 DEF K!Upsert
  <2>3. CASE K!Update(s)
    <3>1. row' \in K!Rows \cup {None}
      BY <2>3, AskedOfRow, TextOfRow DEF K!Update
    <3> QED BY <2>3, <3>1 DEF K!Update
  <2>4. CASE K!Insert(s)
    <3>1. K!NewRow(s) \in K!Rows /\ ids' \in 0..MaxRows
      BY <2>4, NewRowIsRow
    <3> QED BY <2>4, <3>1 DEF K!Insert
  <2>5. CASE K!Converge(s)
    BY <2>5 DEF K!Converge
  <2>6. CASE K!Reselect(s)
    BY <2>6 DEF K!Reselect
  <2> QED BY <2>1, <2>2, <2>3, <2>4, <2>5, <2>6
<1>2. RowRouted' /\ Marked'
  BY DEF RowInv, RowTyped, K!TypeOK, RowRequests, K!NoReq, RowRouted, Marked,
         K!Find, K!Upsert, K!Update, K!Insert, K!Converge, K!Reselect
<1>3. Undisturbed' /\ (failed \subseteq cleared)'
  <2> USE DEF RowInv, RowTyped, K!TypeOK, RowRequests, Undisturbed, CountsOn, K!Constants
  <2>1. CASE K!Find(s)
    BY <2>1 DEF K!Find
  <2>2. CASE K!Upsert(s)
    BY <2>2 DEF K!Upsert
  <2>3. CASE K!Update(s)
    <3>1. row # None => row' # None /\ row'.id = row.id
      <4>1. row # None => [row EXCEPT !.text = req[s].text] \in K!Rows
        BY <2>3, AskedOfRow, TextOfRow DEF K!Update
      <4>2. row # None => [row EXCEPT !.text = req[s].text].id = row.id
        BY <2>3, AskedOfRow, TextOfRow DEF K!Update
      <4> QED BY <2>3, <4>1, <4>2 DEF K!Update
    <3> QED BY <2>3, <3>1 DEF K!Update
  <2>4. CASE K!Insert(s)
    BY <2>4 DEF K!Insert, K!NewRow, K!Rows
  <2>5. CASE K!Converge(s)
    BY <2>5 DEF K!Converge
  <2>6. CASE K!Reselect(s)
    BY <2>6 DEF K!Reselect
  <2> QED BY <2>1, <2>2, <2>3, <2>4, <2>5, <2>6
<1> QED BY <1>1, <1>2, <1>3 DEF RowInv

(* A step of a request that clears: whoever else is served is marked. *)
LEMMA ClearingSteps ==
  ASSUME K!Constants, RowInv, NEW s \in Slots, K!LookToClear(s) \/ K!DeleteFound(s)
  PROVE  RowInv'
<1> USE DEF SettingRow, ClearingRow, K!Goto, K!End
<1>1. RowTyped'
  BY DEF RowInv, RowTyped, K!TypeOK, RowRequests, K!Rows, K!NoReq, K!Constants, K!LookToClear, K!DeleteFound
<1>2. RowRouted' /\ Marked'
  BY DEF RowInv, RowTyped, K!TypeOK, RowRequests, K!NoReq, RowRouted, Marked, K!LookToClear, K!DeleteFound
<1>3. Undisturbed' /\ (failed \subseteq cleared)'
  BY DEF RowInv, RowTyped, K!TypeOK, Undisturbed, CountsOn, Marked, K!LookToClear, K!DeleteFound
<1> QED BY <1>1, <1>2, <1>3 DEF RowInv

(* No step, and no request that comes, breaks the invariant. *)
LEMMA RowSteps == ASSUME K!Constants, RowInv, [K!Next]_K!vars PROVE RowInv'
<1>1. CASE UNCHANGED K!vars
  BY <1>1 DEF K!vars, RowInv, RowTyped, K!TypeOK, RowRouted, Marked, Undisturbed, CountsOn, SettingRow, ClearingRow
<1>2. CASE K!Next
  <2>1. PICK s \in Slots :
          \/ \E u \in Users : K!Clear(s, u) \/ \E t \in Texts : K!Set(s, t, u)
          \/ K!Find(s) \/ K!Upsert(s) \/ K!Update(s) \/ K!Insert(s) \/ K!Converge(s) \/ K!Reselect(s)
          \/ K!LookToClear(s) \/ K!DeleteFound(s)
    BY <1>2 DEF K!Next
  <2>2. CASE \E u \in Users, text \in Texts \cup {None} : K!Serve(s, text, u)
    BY <2>2, RowArrives
  <2> QED BY <2>1, <2>2, SettingSteps, ClearingSteps DEF K!Set, K!Clear
<1> QED BY <1>1, <1>2

--------------------------------------------------------------------------------
(* In every state that requests reach, each of them is typed and routed,   *)
(* whoever overlaps a clear is marked, and the others find the row they     *)
(* count on: the invariant of the rows keyed by a day or a month.           *)
THEOREM KeyedRowInvariant == ASSUME K!Constants PROVE K!Spec => []RowInv
<1>1. K!Init => RowInv
  BY RowStarts
<1>2. RowInv /\ [K!Next]_K!vars => RowInv'
  BY RowSteps
<1> QED BY <1>1, <1>2, PTL DEF K!Spec

(* For any number of overlapping requests, texts and authors: a double     *)
(* submit is benign, a request that sets the row of a day, of a month's     *)
(* note or of a rate fails only if it overlapped one that clears it         *)
(* (upsert of the day description, payment note and rate repositories).     *)
THEOREM DoubleSubmitIsBenign == ASSUME K!Constants PROVE K!Spec => []FailsOnlyOverClear
<1>1. RowInv => FailsOnlyOverClear
  BY DEF RowInv, FailsOnlyOverClear
<1> QED BY <1>1, KeyedRowInvariant, PTL

(* Whoever sets the row next, and however requests overlap, a row that is   *)
(* there keeps the identity and the author it was created with.             *)
THEOREM AuthorStays == ASSUME K!Constants PROVE K!Spec => K!CreatorKept
<1>1. ASSUME RowInv, [K!Next]_K!vars PROVE [K!SameCreator]_K!vars
  <2> SUFFICES ASSUME K!Next, row # None, row' # None
      PROVE row'.id = row.id /\ row'.creator = row.creator
    BY <1>1 DEF K!SameCreator
  <2>1. row' = row \/ \E s \in Slots : row' = [row EXCEPT !.text = req[s].text]
    BY DEF K!Next, K!Clear, K!Set, K!Serve, K!Find, K!Upsert, K!Update, K!Insert, K!Converge, K!Reselect,
           K!LookToClear, K!DeleteFound
  <2> QED BY <2>1, <1>1 DEF RowInv, RowTyped, K!TypeOK, K!Rows
<1> QED BY <1>1, KeyedRowInvariant, PTL DEF K!Spec, K!CreatorKept

--------------------------------------------------------------------------------
(***************************************************************************)
(* The roster: who is at which step, and what a request is about.          *)
(***************************************************************************)
RosterSteps == {"idle", "insert", "write", "reach", "spread", "copy", "fill"}
Errands == [op : {"none", "create", "rename", "restart", "role", "link", "stop", "open"},
            key : (Projects \X (Persons \cup {None}) \X {1, 2}) \cup {None},
            new : R!Rows \cup {None}, reach : SUBSET Projects]

(* What a request at some step is about: a row that is there, or one that  *)
(* is to come.                                                             *)
Works(step, j) ==
    /\ step # "idle" => j.op \in plan.ops
    /\ step # "idle" /\ step # "fill" => j.key \in R!Keys
    /\ step = "insert" => /\ j.op = "create" /\ j.key[3] = 1 /\ j.key[1] \in sites
                          /\ j.new \in R!Rows /\ j.new.user \in {None, j.key[2]}
    /\ step = "write" => /\ j.op \in {"rename", "restart", "role", "link"} /\ j.key \in R!Present
                         /\ j.new \in R!Rows
                         /\ "link" \notin plan.ops => j.new.user \in {None, j.key[2]}
    /\ step \in {"reach", "spread"} => j.op \in {"restart", "role", "stop"} /\ j.key \in R!Present
    /\ step \in {"reach", "spread"} /\ j.op = "role" => j.new \in R!Rows
    /\ step = "copy" => j.op \in {"create", "restart"}
    /\ step = "fill" => j.op = "open"

(* One request after another: what it has read is what is there.           *)
Follows(step, j) ==
    /\ step = "insert" => R!Lacks(j.key[1], j.key[2])
    /\ step = "write" =>
           /\ j.op \in {"rename", "restart", "link"} => j.new.role = row[j.key].role
           /\ j.op \in {"rename", "role", "link"} => j.new.active = row[j.key].active
    /\ step \in {"reach", "spread"} /\ j.op = "role" => j.new.role \in roles \cup {None}
    /\ step = "spread" => j.reach = {k[1] : k \in R!RowsOf(j.key[2])} \cap plan.manages

RosterTypes ==
    /\ R!TypeOK /\ errand \in [Slots -> Errands]
    /\ \A s \in Slots : Works(at[s], errand[s])
Onsite == \A k \in R!Present : k[1] \in sites /\ row[k].role \in roles \cup {None}
OneByOne ==
    /\ \A s, t \in Slots : at[s] # "idle" /\ at[t] # "idle" => s = t
    /\ \A s \in Slots : Follows(at[s], errand[s])

(* Nobody is linked to an account but their own: no two persons share one. *)
Own == \A k \in R!Present : row[k].user \in {None, k[2]}

(* Whoever works on a site is listed on all, or a request is still to      *)
(* copy them there.                                                        *)
Owes(s, x, p) ==
    \/ at[s] \in {"reach", "spread"} /\ errand[s].op = "restart" /\ errand[s].key[2] = x
    \/ at[s] = "copy" /\ errand[s].key[2] = x
    \/ at[s] = "fill" /\ errand[s].key[1] = p
Spreads(ops, x) == \E s \in Slots : at[s] \in {"reach", "spread"} /\ errand[s].op \in ops /\ errand[s].key[2] = x

Dependable == "fail" \notin plan.ops /\ Projects \subseteq plan.manages
Listing ==
    /\ \A x \in Persons : profile[x].rate = 0
    /\ \A x \in Persons, p \in sites :
           R!ActiveRows(x) # {} /\ p \notin R!Roster(x) => \E s \in Slots : Owes(s, x, p)
Agreeing ==
    \A x \in Persons : \A k, l \in R!RowsOf(x) :
        /\ row[k].pay = row[l].pay
        /\ row[k].role = row[l].role \/ Spreads({"role"}, x)
        /\ row[k].active = row[l].active \/ Spreads({"stop", "restart"}, x)

RosterInv ==
    /\ RosterTypes
    /\ Onsite
    /\ R!SlotsUnique(row)
    /\ R!OneRowPerSite
    /\ "link" \notin plan.ops => Own
    /\ plan.alone => OneByOne
    /\ plan.alone /\ Dependable /\ R!ByHand /\ "link" \notin plan.ops => Listing
    /\ plan.alone /\ Dependable /\ plan.ops \cap {"create", "link", "rate"} = {} => Agreeing

--------------------------------------------------------------------------------
(* Rows of the roster.                                                     *)

LEMMA RosterKey ==
    /\ \A k \in R!Keys : k = <<k[1], k[2], k[3]>> /\ k[1] \in Projects /\ k[2] \in Persons /\ k[3] \in {1, 2}
    /\ \A p \in Projects, x \in Persons, n \in {1, 2} : <<p, x, n>> \in R!Keys
BY DEF R!Keys

LEMMA RosterRow ==
    ASSUME R!Constants, RosterTypes
    PROVE  /\ plan.till \in Nat \ {0} /\ clock \in 0..plan.till
           /\ \A k \in R!Present : k \in R!Keys /\ row[k] \in R!Rows
           /\ \A k \in R!Keys : row[k] \in R!Rows \cup {None}
           /\ None \notin R!Rows /\ None \notin R!RowsUntil(plan.till + 1)
<1>1. plan.till \in Nat \ {0} /\ clock \in 0..plan.till /\ None \notin R!RowsUntil(plan.till + 1)
  BY DEF R!Constants, RosterTypes, R!TypeOK
<1>2. R!Rows \subseteq R!RowsUntil(plan.till + 1)
  <2>1. 1..plan.till \subseteq 1..(plan.till + 1)
    BY <1>1
  <2> QED BY <2>1 DEF R!Rows, R!RowsUntil
<1> QED BY <1>1, <1>2 DEF RosterTypes, R!TypeOK, R!Present

(* A row of the right type, changed in some columns.                       *)
LEMMA RosterEdit ==
    ASSUME R!Constants, RosterTypes, NEW r \in R!Rows, NEW b \in BOOLEAN, NEW y \in R!Rates,
           NEW l \in LaborRoles \cup {None}, NEW u \in Holders \cup {None}
    PROVE  /\ [r EXCEPT !.active = b] \in R!Rows
           /\ [r EXCEPT !.pay = y] \in R!Rows
           /\ [r EXCEPT !.role = l] \in R!Rows
           /\ [r EXCEPT !.user = u] \in R!Rows
           /\ clock < plan.till => [r EXCEPT !.at = clock + 1] \in R!Rows
<1>1. clock + 1 \in 1..plan.till \/ ~(clock < plan.till)
  BY RosterRow
<1> QED BY <1>1 DEF R!Rows, R!RowsUntil

(* What a person is copied from.                                           *)
LEMMA SourcesAreRows ==
    ASSUME R!Constants, RosterTypes, NEW x \in Persons
    PROVE  R!Sources(x) \subseteq R!Rows
<1>1. R!RowsOf(x) # {} => R!Sources(x) \subseteq R!Rows
  BY RosterRow DEF R!Sources, R!RowsOf, R!ActiveRows
<1>2. R!RowsOf(x) = {} => R!Sources(x) \subseteq R!Rows
  <2> SUFFICES ASSUME R!RowsOf(x) = {}, profile[x].rate > 0 PROVE R!FromProfile(x) \in R!Rows
    BY DEF R!Sources
  <2>1. profile[x] \in [listed : BOOLEAN, rate : {0} \cup R!Rates, role : LaborRoles \cup {None}]
    BY DEF RosterTypes, R!TypeOK
  <2>2. profile[x].rate \in R!Rates /\ profile[x].role \in LaborRoles \cup {None}
    BY <2>1 DEF R!Rates
  <2> QED BY <2>2, RosterRow DEF R!FromProfile, R!AccountOf, R!Rows, R!RowsUntil
<1> QED BY <1>1, <1>2

LEMMA CopyIsRow ==
    ASSUME R!Constants, RosterTypes, NEW source \in R!Rows, NEW p, clock < plan.till
    PROVE  LET c == R!CopyOf(source, p) IN
           /\ c \in R!Rows /\ c.active /\ c.pay = source.pay
           /\ c.role = IF source.role \in roles THEN source.role ELSE None
           /\ c.user \in {source.user, None}
<1>1. roles \subseteq LaborRoles /\ clock + 1 \in 1..plan.till
  BY RosterRow DEF RosterTypes, R!TypeOK
<1> QED BY <1>1, RosterRow DEF R!CopyOf, R!Rows, R!RowsUntil

(* Among those who work on some site, one was edited last.                 *)
LEMMA EditedLast ==
    ASSUME R!Constants, RosterTypes, NEW x \in Persons, R!ActiveRows(x) # {}
    PROVE  R!Sources(x) # {}
<1> DEFINE ages == {plan.till - row[k].at : k \in R!ActiveRows(x)}
<1>1. \A k \in R!ActiveRows(x) : k \in R!Present /\ row[k].at \in 1..plan.till
  BY RosterRow DEF R!ActiveRows, R!RowsOf, R!Rows, R!RowsUntil
<1>2. plan.till \in Nat
  BY RosterRow
<1>3. ages \subseteq Nat /\ ages # {}
  BY <1>1, <1>2
<1>4. PICK a \in ages : \A b \in ages : a <= b
  <2>1. IsWellFoundedOn(OpToRel(<, Nat), Nat)
    BY NatLessThanWellFounded
  <2>2. PICK a \in ages : \A b \in ages : ~(<<b, a>> \in OpToRel(<, Nat))
    BY <1>3, <2>1, WFMin
  <2>3. \A b \in ages : ~(b < a)
    BY <1>3, <2>2 DEF OpToRel
  <2> HIDE DEF ages
  <2> QED BY <1>3, <2>3
<1>5. PICK k \in R!ActiveRows(x) : a = plan.till - row[k].at
  OBVIOUS
<1>6. \A l \in R!ActiveRows(x) : row[l].at <= row[k].at
  <2> TAKE l \in R!ActiveRows(x)
  <2>1. a <= plan.till - row[l].at
    BY <1>4
  <2> QED BY <2>1, <1>1, <1>2, <1>5
<1>7. R!RowsOf(x) # {}
  BY <1>5 DEF R!ActiveRows
<1> QED BY <1>5, <1>6, <1>7 DEF R!Sources

(* What an enrolment adds: to those who have none, rows made of one source *)
(* per person.                                                             *)
CopiedFrom(x, source, k) ==
    /\ R!Lacks(k[1], x) /\ k[2] = x /\ k[3] = 1
    /\ row'[k] \in R!Rows /\ row'[k].active /\ row'[k].pay = source.pay
    /\ row'[k].role = IF source.role \in roles THEN source.role ELSE None
    /\ row'[k].user \in {source.user, None}

RowsTyped == row' \in [R!Keys -> R!Rows \cup {None}] /\ clock' \in 0..plan.till
Grown == \A k \in R!Present : row'[k] # None

LEMMA Enrolled ==
    ASSUME R!Constants, RosterTypes, R!SlotsUnique(row), NEW ps, NEW xs, R!Enroll(ps, xs), plan' = plan
    PROVE  /\ RowsTyped /\ R!SlotsUnique(row')
           /\ \A k \in R!Present : row'[k] = row[k]
           /\ \A x \in Persons : \E source \in R!Sources(x) \cup {None} :
                  \A k \in R!Keys : k[2] = x /\ row[k] = None /\ row'[k] # None =>
                      source \in R!Sources(x) /\ k[1] \in ps /\ x \in xs /\ CopiedFrom(x, source, k)
<1>0. row \in [R!Keys -> R!Rows \cup {None}] /\ clock \in 0..plan.till /\ plan.till \in Nat
  BY RosterRow DEF RosterTypes, R!TypeOK
<1>1. CASE UNCHANGED <<row, clock>>
  BY <1>0, <1>1, RosterRow DEF RowsTyped, R!Present
<1>2. CASE ~UNCHANGED <<row, clock>>
  <2> DEFINE ready == {x \in xs : R!Sources(x) # {}}
             fresh(k) == k[1] \in ps /\ k[2] \in ready /\ k[3] = 1 /\ R!Lacks(k[1], k[2])
  <2>1. clock < plan.till /\ clock' = clock + 1 /\ R!SlotsUnique(row') /\ row' \in R!Copied(ps, xs)
    BY <1>2 DEF R!Enroll, R!Tick
  <2>2. PICK f \in [ready -> UNION {R!Sources(x) : x \in ready}] :
            /\ \A x \in ready : f[x] \in R!Sources(x)
            /\ row' = [k \in R!Keys |-> IF fresh(k) THEN R!CopyOf(f[k[2]], k[1]) ELSE row[k]]
    BY <2>1 DEF R!Copied
  <2>3. \A k \in R!Keys : fresh(k) => row[k] = None
    <3> SUFFICES ASSUME NEW k \in R!Keys, fresh(k) PROVE row[k] = None
      OBVIOUS
    <3>1. k = <<k[1], k[2], 1>>
      BY RosterKey
    <3> QED BY <3>1 DEF R!Lacks
  <2>4. ASSUME NEW k \in R!Keys, fresh(k)
        PROVE  f[k[2]] \in R!Sources(k[2]) /\ CopiedFrom(k[2], f[k[2]], k)
    <3>1. k[2] \in Persons /\ f[k[2]] \in R!Sources(k[2]) /\ row'[k] = R!CopyOf(f[k[2]], k[1])
      BY <2>2, <2>4, RosterKey
    <3>2. f[k[2]] \in R!Rows
      BY <3>1, SourcesAreRows
    <3> QED BY <2>1, <2>4, <3>1, <3>2, CopyIsRow DEF CopiedFrom
  <2>5. RowsTyped
    <3>1. clock' \in 0..plan.till
      BY <1>0, <2>1
    <3>2. \A k \in R!Keys : row'[k] \in R!Rows \cup {None}
      BY <1>0, <2>2, <2>4 DEF CopiedFrom
    <3> QED BY <2>2, <3>1, <3>2 DEF RowsTyped
  <2>6. \A k \in R!Present : row'[k] = row[k]
    BY <2>2, <2>3 DEF R!Present
  <2>7. ASSUME NEW x \in Persons
        PROVE  \E source \in R!Sources(x) \cup {None} :
                  \A k \in R!Keys : k[2] = x /\ row[k] = None /\ row'[k] # None =>
                      source \in R!Sources(x) /\ k[1] \in ps /\ x \in xs /\ CopiedFrom(x, source, k)
    <3>1. CASE x \in ready
      <4>1. f[x] \in R!Sources(x)
        BY <2>2, <3>1
      <4>2. ASSUME NEW k \in R!Keys, k[2] = x, row[k] = None, row'[k] # None
            PROVE  k[1] \in ps /\ x \in xs /\ CopiedFrom(x, f[x], k)
        <5>1. fresh(k)
          BY <2>2, <4>2
        <5> QED BY <5>1, <4>2, <2>4
      <4> QED BY <4>1, <4>2
    <3>2. CASE x \notin ready
      <4>1. \A k \in R!Keys : k[2] = x => row'[k] = row[k]
        BY <2>2, <3>2
      <4> QED BY <4>1
    <3> QED BY <3>1, <3>2
  <2> QED BY <2>1, <2>5, <2>6, <2>7
<1> QED BY <1>1, <1>2

(* Where every row belongs to whoever it is of, the copy goes through: the *)
(* key of accounts refuses none.                                           *)
LEMMA OwnIsUnique ==
    ASSUME NEW r,
           \A k \in R!Keys : r[k] # None => r[k].user \in {None, k[2]} /\ k[3] = 1
    PROVE  R!SlotsUnique(r)
<1> SUFFICES ASSUME NEW k \in R!Keys, NEW l \in R!Keys, k # l, k[1] = l[1], r[k] # None, r[l] # None,
                    r[k].user # None, r[k].user = r[l].user
             PROVE  FALSE
  BY DEF R!SlotsUnique
<1>1. k[2] = l[2] /\ k[3] = l[3]
  OBVIOUS
<1> QED BY <1>1, RosterKey

(***************************************************************************)
(* What a step leaves of the types: the slot that moves, and the others.   *)
(***************************************************************************)
Moves(s, step, j) == at' = [at EXCEPT ![s] = step] /\ errand' = [errand EXCEPT ![s] = j]
Profiles == [Persons -> [listed : BOOLEAN, rate : {0} \cup R!Rates, role : LaborRoles \cup {None}]]
Shared ==
    /\ plan' = plan /\ sites \subseteq sites' /\ sites' \subseteq Projects
    /\ roles' \subseteq LaborRoles /\ members' \subseteq Holders /\ profile' \in Profiles
    /\ RowsTyped /\ Grown

LEMMA StillWorks ==
    ASSUME RosterTypes, Shared, NEW s \in Slots, at'[s] = at[s], errand'[s] = errand[s]
    PROVE  Works(at[s], errand[s])'
<1>1. R!Rows' = R!Rows
  BY DEF Shared, R!Rows, R!RowsUntil
<1>2. \A k \in R!Present : k \in R!Present'
  BY DEF Shared, Grown, R!Present
<1>3. Works(at[s], errand[s])
  BY DEF RosterTypes
<1> QED BY <1>1, <1>2, <1>3 DEF Works, Shared

LEMMA TypesMove ==
    ASSUME RosterTypes, Shared, NEW s \in Slots, NEW step \in RosterSteps, NEW j \in Errands,
           Moves(s, step, j), Works(step, j)'
    PROVE  RosterTypes'
<1>1. R!TypeOK'
  BY DEF RosterTypes, R!TypeOK, Shared, RowsTyped, Profiles, Moves, RosterSteps, R!Rows, R!RowsUntil
<1>2. errand' \in [Slots -> Errands]' 
  BY DEF RosterTypes, Moves, Errands, Shared, R!Rows, R!RowsUntil
<1>3. \A t \in Slots : Works(at[t], errand[t])'
  <2> TAKE t \in Slots
  <2>1. CASE t = s
    <3>1. at'[t] = step /\ errand'[t] = j
      BY <2>1 DEF RosterTypes, R!TypeOK, Moves
    <3> QED BY <3>1
  <2>2. CASE t # s
    <3>1. at'[t] = at[t] /\ errand'[t] = errand[t]
      BY <2>2 DEF RosterTypes, R!TypeOK, Moves
    <3> QED BY <3>1, StillWorks
  <2> QED BY <2>1, <2>2
<1> QED BY <1>1, <1>2, <1>3 DEF RosterTypes

LEMMA TypesRest ==
    ASSUME RosterTypes, Shared, UNCHANGED <<at, errand>>
    PROVE  RosterTypes'
<1>1. R!TypeOK'
  BY DEF RosterTypes, R!TypeOK, Shared, RowsTyped, Profiles, R!Rows, R!RowsUntil
<1>2. errand' \in [Slots -> Errands]'
  BY DEF RosterTypes, Errands, Shared, R!Rows, R!RowsUntil
<1>3. \A t \in Slots : Works(at[t], errand[t])'
  BY StillWorks
<1> QED BY <1>1, <1>2, <1>3 DEF RosterTypes

(* One request after another: the slot that moves was the busy one, or     *)
(* none was.                                                               *)
LEMMA OthersRest ==
    ASSUME RosterTypes, NEW s \in Slots, (at[s] # "idle" /\ OneByOne) \/ R!Quiet
    PROVE  \A t \in Slots : t # s => at[t] = "idle"
BY DEF OneByOne, R!Quiet

LEMMA MovesAlone ==
    ASSUME RosterTypes, NEW s \in Slots, NEW step, NEW j, Moves(s, step, j),
           (at[s] # "idle" /\ OneByOne) \/ R!Quiet, Follows(step, j)'
    PROVE  OneByOne'
<1>1. \A t \in Slots : t # s => at'[t] = "idle" /\ errand'[t] = errand[t]
  BY OthersRest DEF RosterTypes, R!TypeOK, Moves
<1>2. at'[s] = step /\ errand'[s] = j
  BY DEF RosterTypes, R!TypeOK, Moves
<1>3. \A t, u \in Slots : at'[t] # "idle" /\ at'[u] # "idle" => t = u
  BY <1>1
<1>4. \A t \in Slots : Follows(at[t], errand[t])'
  <2> TAKE t \in Slots
  <2>1. CASE t = s
    BY <2>1, <1>2
  <2>2. CASE t # s
    <3>1. at'[t] = "idle"
      BY <2>2, <1>1
    <3> QED BY <3>1 DEF Follows
  <2> QED BY <2>1, <2>2
<1> QED BY <1>3, <1>4 DEF OneByOne

LEMMA RestsAlone ==
    ASSUME RosterTypes, R!Quiet, UNCHANGED at
    PROVE  OneByOne' /\ R!Quiet'
BY DEF OneByOne, R!Quiet, Follows

(* What the rows are like, whoever is at work.                             *)
Tidy ==
    /\ Onsite /\ R!SlotsUnique(row) /\ R!OneRowPerSite
    /\ "link" \notin plan.ops => Own

(* A step that adds no row and links nobody.                               *)
LEMMA TidyEdit ==
    ASSUME Tidy, plan' = plan, sites \subseteq sites',
           \A k \in R!Keys : row'[k] = None <=> row[k] = None,
           \A k \in R!Present : row'[k].user \in {row[k].user, None} /\ row'[k].role \in roles' \cup {None}
    PROVE  Tidy'
<1>1. R!Present' = R!Present
  BY DEF R!Present
<1>2. Onsite'
  BY <1>1 DEF Tidy, Onsite
<1>3. R!SlotsUnique(row')
  BY DEF Tidy, R!SlotsUnique, R!Present
<1>4. R!OneRowPerSite'
  BY RosterKey DEF Tidy, R!OneRowPerSite, R!Alone
<1>5. "link" \notin plan.ops => Own'
  BY <1>1 DEF Tidy, Own
<1> QED BY <1>2, <1>3, <1>4, <1>5 DEF Tidy, R!SlotsUnique

(* Before a request has to copy anybody, everybody is where they should be. *)
Listed == plan.alone /\ Dependable /\ R!ByHand /\ "link" \notin plan.ops
Agreed == plan.alone /\ Dependable /\ plan.ops \cap {"create", "link", "rate"} = {}
Everywhere == \A x \in Persons : R!ActiveRows(x) # {} => sites \subseteq R!Roster(x)
Alike == \A x \in Persons : \A k, l \in R!RowsOf(x) :
             row[k].pay = row[l].pay /\ row[k].role = row[l].role /\ row[k].active = row[l].active

LEMMA NothingOwed ==
    ASSUME \A s \in Slots : at[s] \in {"idle", "insert", "write"}
    PROVE  /\ Listing => Everywhere
           /\ Agreeing => Alike
BY DEF Listing, Owes, Everywhere, Agreeing, Spreads, Alike

LEMMA RosterParts ==
    RosterInv <=> /\ RosterTypes /\ Tidy
                  /\ plan.alone => OneByOne
                  /\ Listed => Listing
                  /\ Agreed => Agreeing
BY DEF RosterInv, Tidy, Listed, Agreed

(* A step of a request that leaves the rows alone.                         *)
AtRest == UNCHANGED <<row, sites, roles, members, clock, plan>> /\ profile' \in Profiles

LEMMA AtRestShared ==
    ASSUME RosterTypes, AtRest
    PROVE  Shared
BY DEF RosterTypes, R!TypeOK, AtRest, Shared, RowsTyped, Grown, R!Present

LEMMA RowsAtRest ==
    ASSUME AtRest
    PROVE  /\ R!Present' = R!Present
           /\ \A x : R!RowsOf(x)' = R!RowsOf(x) /\ R!ActiveRows(x)' = R!ActiveRows(x) /\ R!Roster(x)' = R!Roster(x)
<1>1. R!Present' = R!Present
  BY DEF AtRest, R!Present
<1> QED BY <1>1 DEF AtRest, R!RowsOf, R!ActiveRows, R!Roster

(* The debts a request leaves with its slot, step and errand.              *)
Before(s, step, j) ==
    \/ at[s] \in {"idle", "insert", "write"}
    \/ at[s] = "reach" /\ step = "spread" /\ j.op = errand[s].op /\ j.key = errand[s].key

LEMMA WaitsListing ==
    ASSUME RosterTypes, AtRest, Listing, \A x \in Persons : profile'[x].rate = profile[x].rate,
           NEW s \in Slots, NEW step, NEW j, Moves(s, step, j), Before(s, step, j)
    PROVE  Listing'
<1>1. at'[s] = step /\ errand'[s] = j
  BY DEF RosterTypes, R!TypeOK, Moves
<1>2. \A t \in Slots : t # s => at'[t] = at[t] /\ errand'[t] = errand[t]
  BY DEF RosterTypes, R!TypeOK, Moves
<1>3. \A x \in Persons : profile'[x].rate = 0
  BY DEF Listing
<1>4. ASSUME NEW x \in Persons, NEW p \in sites, R!ActiveRows(x) # {}, p \notin R!Roster(x)
      PROVE  \E t \in Slots : Owes(t, x, p)'
  <2>1. PICK t \in Slots : Owes(t, x, p)
    BY <1>4 DEF Listing
  <2>2. CASE t # s
    BY <2>1, <2>2, <1>2 DEF Owes
  <2>3. CASE t = s
    BY <2>1, <2>3, <1>1 DEF Owes, Before
  <2> QED BY <2>2, <2>3
<1> QED BY <1>3, <1>4, RowsAtRest DEF Listing, AtRest

LEMMA WaitsAgreeing ==
    ASSUME RosterTypes, AtRest, Agreeing,
           NEW s \in Slots, NEW step, NEW j, Moves(s, step, j), Before(s, step, j)
    PROVE  Agreeing'
<1>1. at'[s] = step /\ errand'[s] = j
  BY DEF RosterTypes, R!TypeOK, Moves
<1>2. \A t \in Slots : t # s => at'[t] = at[t] /\ errand'[t] = errand[t]
  BY DEF RosterTypes, R!TypeOK, Moves
<1>3. \A x \in Persons : \A ops : Spreads(ops, x) => Spreads(ops, x)'
  <2> SUFFICES ASSUME NEW x \in Persons, NEW ops, NEW t \in Slots, at[t] \in {"reach", "spread"},
                      errand[t].op \in ops, errand[t].key[2] = x
               PROVE  at'[t] \in {"reach", "spread"} /\ errand'[t].op \in ops /\ errand'[t].key[2] = x
    BY DEF Spreads
  <2> QED BY <1>1, <1>2 DEF Before
<1> QED BY <1>3, RowsAtRest DEF Agreeing, AtRest

LEMMA Waits ==
    ASSUME R!Constants, RosterInv, AtRest,
           "directory" \notin plan.ops => \A x \in Persons : profile'[x].rate = profile[x].rate,
           NEW s \in Slots, NEW step \in RosterSteps, NEW j \in Errands, Moves(s, step, j),
           plan.alone => at[s] # "idle" \/ R!Quiet, Works(step, j)', plan.alone => Follows(step, j)',
           plan.alone /\ Dependable => Before(s, step, j)
    PROVE  RosterInv'
<1>0. RosterTypes /\ Tidy
  BY RosterParts
<1>1. RosterTypes'
  BY <1>0, AtRestShared, TypesMove
<1>2. Tidy'
  <2>1. \A k \in R!Present : row[k].role \in roles \cup {None}
    BY <1>0 DEF Tidy, Onsite
  <2> QED BY <1>0, <2>1, TidyEdit DEF AtRest
<1>3. (plan.alone => OneByOne)'
  BY <1>0, MovesAlone, RosterParts DEF AtRest
<1>4. (Listed => Listing)'
  <2> SUFFICES ASSUME Listed PROVE Listing'
    BY DEF AtRest, Listed, Dependable, R!ByHand
  <2> QED BY <1>0, WaitsListing, RosterParts DEF Listed, R!ByHand
<1>5. (Agreed => Agreeing)'
  <2> SUFFICES ASSUME Agreed PROVE Agreeing'
    BY DEF AtRest, Agreed, Dependable
  <2> QED BY <1>0, WaitsAgreeing, RosterParts DEF Agreed
<1> QED BY <1>1, <1>2, <1>3, <1>4, <1>5 DEF RosterInv, Tidy, Listed, Agreed

(* Requests that have read a row, or found that there is none.             *)
LEMMA Relinks ==
    ASSUME R!Constants, RosterTypes, NEW k \in R!Present
    PROVE  R!Relinked(k) \in {row[k].user, k[2]} /\ R!Relinked(k) \in Holders \cup {None}
<1>1. row[k].user \in Holders \cup {None}
  BY RosterRow DEF R!Rows, R!RowsUntil
<1> QED BY <1>1 DEF R!Relinked

LEMMA ReadKeeps ==
    ASSUME R!Constants, RosterInv, NEW s \in Slots, NEW op \in {"rename", "restart", "role", "link"},
           NEW k, NEW new, R!Read(s, op, k, new),
           k \in R!Present => new \in R!Rows /\ ("link" \notin plan.ops => new.user \in {None, k[2]}),
           k \in R!Present /\ op # "role" => new.role = row[k].role,
           k \in R!Present /\ op # "restart" => new.active = row[k].active
    PROVE  RosterInv'
<1> DEFINE j == [op |-> op, key |-> k, new |-> new, reach |-> {}]
<1>1. k \in R!Present /\ k \in R!Keys /\ op \in plan.ops /\ at[s] = "idle" /\ (plan.alone => R!Quiet)
  BY DEF R!Read, R!Serve, R!CanServe, R!Alone, R!Present
<1>2. Moves(s, "write", j) /\ AtRest /\ profile' = profile
  <2>1. profile \in Profiles
    BY RosterParts DEF RosterTypes, R!TypeOK, Profiles
  <2> QED BY <2>1 DEF R!Read, R!Serve, R!Goto, R!Same, R!Rest, Moves, AtRest
<1>3. j \in Errands
  <2>1. k \in Projects \X (Persons \cup {None}) \X {1, 2}
    BY <1>1 DEF R!Keys
  <2> QED BY <1>1, <2>1 DEF Errands
<1>4. Works("write", j)'
  BY <1>1, <1>2, RowsAtRest DEF Works, AtRest, R!Rows, R!RowsUntil
<1>5. Follows("write", j)'
  BY <1>1, <1>2 DEF Follows, AtRest
<1>6. Before(s, "write", j) /\ "write" \in RosterSteps
  BY <1>1 DEF Before, RosterSteps
<1> QED BY <1>1, <1>2, <1>3, <1>4, <1>5, <1>6, Waits

LEMMA RosterReads ==
    ASSUME R!Constants, RosterInv, NEW s \in Slots, NEW k
    PROVE  /\ R!Rename(s, k) => RosterInv'
           /\ R!Restart(s, k) => RosterInv'
           /\ \A r : R!ChangeRole(s, k, r) => RosterInv'
           /\ \A a \in Holders \cup {None} : R!Link(s, k, a) => RosterInv'
<1>0. RosterTypes /\ Tidy
  BY RosterParts
<1>1. k \in R!Present =>
          /\ row[k] \in R!Rows /\ row[k].user \in Holders \cup {None} /\ row[k].active \in BOOLEAN
          /\ "link" \notin plan.ops => row[k].user \in {None, k[2]}
  BY <1>0, RosterRow DEF Tidy, Own, R!Rows, R!RowsUntil
<1>2. R!Rename(s, k) => RosterInv'
  BY <1>1, ReadKeeps DEF R!Rename
<1>3. ASSUME R!Restart(s, k) PROVE RosterInv'
  <2> DEFINE u == IF row[k].active THEN row[k].user ELSE R!Relinked(k)
             new == [row[k] EXCEPT !.active = TRUE, !.user = u]
  <2>1. k \in R!Present
    BY <1>3 DEF R!Restart, R!Read
  <2>2. u \in Holders \cup {None} /\ u \in {row[k].user, k[2]}
    BY <1>0, <1>1, <2>1, Relinks
  <2>3. new \in R!Rows /\ new.user = u /\ new.role = row[k].role
    BY <1>1, <2>1, <2>2 DEF R!Rows, R!RowsUntil
  <2>4. R!Read(s, "restart", k, new)
    BY <1>1, <1>3, <2>1 DEF R!Restart
  <2> HIDE DEF new
  <2> QED BY <1>1, <2>1, <2>2, <2>3, <2>4, ReadKeeps
<1>4. ASSUME NEW r, R!ChangeRole(s, k, r) PROVE RosterInv'
  <2> DEFINE new == [row[k] EXCEPT !.role = r]
  <2>1. k \in R!Present /\ r \in LaborRoles \cup {None} /\ R!Read(s, "role", k, new)
    BY <1>0, <1>4 DEF R!ChangeRole, R!Read, RosterTypes, R!TypeOK
  <2>2. new \in R!Rows /\ new.user = row[k].user /\ new.active = row[k].active
    BY <1>1, <2>1 DEF R!Rows, R!RowsUntil
  <2> HIDE DEF new
  <2> QED BY <1>1, <2>1, <2>2, ReadKeeps
<1>5. ASSUME NEW a \in Holders \cup {None}, R!Link(s, k, a) PROVE RosterInv'
  <2> DEFINE new == [row[k] EXCEPT !.user = a]
  <2>1. k \in R!Present /\ "link" \in plan.ops /\ R!Read(s, "link", k, new)
    BY <1>5 DEF R!Link, R!Read, R!Serve, R!CanServe
  <2>2. new \in R!Rows /\ new.role = row[k].role /\ new.active = row[k].active
    BY <1>1, <2>1 DEF R!Rows, R!RowsUntil
  <2> HIDE DEF new
  <2> QED BY <1>1, <2>1, <2>2, ReadKeeps
<1> QED BY <1>2, <1>3, <1>4, <1>5

LEMMA RosterCreates ==
    ASSUME R!Constants, RosterInv, NEW s \in Slots, NEW p, NEW x \in Persons,
           NEW rate \in {0} \cup R!Rates, NEW r, R!Create(s, p, x, rate, r)
    PROVE  RosterInv'
<1> DEFINE pay == IF rate > 0 THEN rate ELSE profile[x].rate
           new == [active |-> TRUE, pay |-> pay, role |-> IF r = None THEN profile[x].role ELSE r,
                   user |-> R!AccountOf(x), at |-> 1]
<1> PICK j : j = [op |-> "create", key |-> <<p, x, 1>>, new |-> new, reach |-> {}]
  OBVIOUS
<1>0. RosterTypes
  BY RosterParts
<1>1. /\ p \in sites /\ p \in Projects /\ r \in LaborRoles \cup {None} /\ R!Lacks(p, x) /\ pay > 0
      /\ at[s] = "idle" /\ "create" \in plan.ops /\ (plan.alone => R!Quiet)
  BY <1>0 DEF R!Create, R!Serve, R!CanServe, R!Alone, RosterTypes, R!TypeOK
<1>2. profile \in Profiles /\ profile[x] \in [listed : BOOLEAN, rate : {0} \cup R!Rates, role : LaborRoles \cup {None}]
  BY <1>0 DEF RosterTypes, R!TypeOK, Profiles
<1>3. Moves(s, "insert", j) /\ AtRest /\ \A y \in Persons : profile'[y].rate = profile[y].rate
  <2>1. profile' = [profile EXCEPT ![x].listed = TRUE]
    BY DEF R!Create
  <2>2. profile' \in Profiles /\ \A y \in Persons : profile'[y].rate = profile[y].rate
    BY <1>2, <2>1 DEF Profiles
  <2>3. Moves(s, "insert", j)
    BY DEF R!Create, R!Serve, R!Goto, Moves
  <2>4. UNCHANGED <<row, sites, roles, members, clock, plan>>
    BY DEF R!Create
  <2> QED BY <2>2, <2>3, <2>4 DEF AtRest
<1>4. pay \in R!Rates /\ R!AccountOf(x) \in Holders \cup {None} /\ R!AccountOf(x) \in {None, x}
  BY <1>1, <1>2 DEF R!Rates, R!AccountOf
<1>5. new \in R!Rows /\ new.user \in {None, x}
  <2>1. (IF r = None THEN profile[x].role ELSE r) \in LaborRoles \cup {None}
    BY <1>1, <1>2
  <2>2. 1 \in 1..plan.till
    BY <1>0, RosterRow
  <2> QED BY <1>4, <2>1, <2>2 DEF R!Rows, R!RowsUntil
<1>6. <<p, x, 1>> \in R!Keys
  BY <1>1, RosterKey
<1>a. j.op = "create" /\ j.key = <<p, x, 1>> /\ j.new \in R!Rows /\ j.new.user \in {None, x}
  BY <1>5
<1> HIDE DEF new
<1>7. j \in Errands
  <2>1. <<p, x, 1>> \in Projects \X (Persons \cup {None}) \X {1, 2}
    BY <1>1
  <2> QED BY <1>5, <2>1 DEF Errands
<1>8. Works("insert", j)'
  BY <1>1, <1>3, <1>a, <1>6 DEF Works, AtRest, R!Rows, R!RowsUntil
<1>9. Follows("insert", j)'
  BY <1>1, <1>3, <1>a DEF Follows, AtRest, R!Lacks
<1>10. Before(s, "insert", j) /\ "insert" \in RosterSteps
  BY <1>1 DEF Before, RosterSteps
<1> QED BY <1>1, <1>3, <1>7, <1>8, <1>9, <1>10, Waits

(* Requests that end with nothing done, or go on to the other sites.       *)
LEMMA NothingToDo ==
    ASSUME R!Constants
    PROVE  R!NoJob \in Errands /\ R!NoJob.op = "none"
BY DEF R!NoJob, Errands

LEMMA GivesUp ==
    ASSUME R!Constants, RosterInv, NEW s \in Slots, R!End(s), AtRest, profile' = profile, at[s] # "idle",
           plan.alone /\ Dependable => at[s] \in {"insert", "write"}
    PROVE  RosterInv'
<1> PICK j : j = R!NoJob
  OBVIOUS
<1>1. Moves(s, "idle", j) /\ j \in Errands
  BY NothingToDo DEF R!End, R!Goto, Moves
<1>2. Works("idle", j)' /\ Follows("idle", j)' /\ "idle" \in RosterSteps
  BY DEF Works, Follows, RosterSteps
<1>3. plan.alone /\ Dependable => Before(s, "idle", j)
  BY DEF Before
<1> QED BY <1>1, <1>2, <1>3, Waits

LEMMA RosterReaches ==
    ASSUME R!Constants, RosterInv, NEW s \in Slots, R!Reach(s)
    PROVE  RosterInv'
<1>0. RosterTypes /\ (plan.alone => OneByOne)
  BY RosterParts
<1> DEFINE to == {k[1] : k \in R!RowsOf(errand[s].key[2])} \cap plan.manages
<1> PICK j : j = [errand[s] EXCEPT !.reach = to]
  OBVIOUS
<1>1. errand[s] \in Errands /\ at[s] = "reach" /\ Works("reach", errand[s])
  BY <1>0 DEF RosterTypes, R!Reach
<1>2. to \subseteq Projects
  BY RosterKey DEF R!RowsOf, R!Present
<1>3. /\ j \in Errands /\ j.op = errand[s].op /\ j.key = errand[s].key /\ j.new = errand[s].new /\ j.reach = to
  BY <1>1, <1>2 DEF Errands
<1>4. Moves(s, "spread", j) /\ AtRest /\ profile' = profile
  <2>1. profile \in Profiles
    BY <1>0 DEF RosterTypes, R!TypeOK, Profiles
  <2>2. errand' = [errand EXCEPT ![s] = j]
    BY <1>0 DEF R!Reach, RosterTypes
  <2> QED BY <2>1, <2>2 DEF R!Reach, R!Goto, R!Same, R!Rest, Moves, AtRest
<1>5. R!Keys' = R!Keys /\ R!Rows' = R!Rows /\ R!Present' = R!Present /\ plan' = plan
  BY <1>4, RowsAtRest DEF R!Keys, R!Rows, R!RowsUntil, AtRest
<1>6. Works("spread", j)'
  BY <1>1, <1>3, <1>5 DEF Works
<1>7. plan.alone => Follows("spread", j)'
  <2> SUFFICES ASSUME plan.alone PROVE Follows("spread", j)'
    OBVIOUS
  <2>1. Follows("reach", errand[s])
    BY <1>0, <1>1 DEF OneByOne
  <2>2. j.op = "role" => j.new.role \in roles' \cup {None}
    BY <1>3, <1>4, <2>1 DEF Follows, AtRest
  <2>3. R!RowsOf(j.key[2])' = R!RowsOf(errand[s].key[2])
    BY <1>3, <1>5 DEF R!RowsOf
  <2>4. j.reach = {k[1] : k \in R!RowsOf(j.key[2])'} \cap plan'.manages
    BY <1>3, <1>5, <2>3
  <2> QED BY <2>2, <2>4 DEF Follows
<1>8. Before(s, "spread", j) /\ "spread" \in RosterSteps
  BY <1>1, <1>3 DEF Before, RosterSteps
<1> QED BY <1>1, <1>3, <1>4, <1>6, <1>7, <1>8, Waits

(* Between requests nothing is owed.                                       *)
LEMMA QuietOwesNothing ==
    ASSUME RosterInv, R!Quiet
    PROVE  /\ Listed => Everywhere /\ \A x \in Persons : profile[x].rate = 0
           /\ Agreed => Alike
BY RosterParts, NothingOwed DEF R!Quiet, Listing

LEMMA RosterDirectory ==
    ASSUME R!Constants, RosterInv, NEW x \in Persons, NEW listed \in BOOLEAN, NEW rate \in R!Rates,
           R!SetProfile(x, listed, rate)
    PROVE  RosterInv'
<1>0. RosterTypes /\ Tidy
  BY RosterParts
<1>1. AtRest /\ UNCHANGED <<at, errand>> /\ "directory" \in plan.ops /\ (plan.alone => R!Quiet)
  <2>1. profile' \in Profiles
    BY <1>0 DEF R!SetProfile, RosterTypes, R!TypeOK, Profiles
  <2> QED BY <2>1 DEF R!SetProfile, R!Meanwhile, R!Alone, AtRest
<1>2. RosterTypes'
  BY <1>0, <1>1, AtRestShared, TypesRest
<1>3. Tidy'
  <2>1. \A k \in R!Present : row[k].role \in roles \cup {None}
    BY <1>0 DEF Tidy, Onsite
  <2> QED BY <1>0, <1>1, <2>1, TidyEdit DEF AtRest
<1>4. (plan.alone => OneByOne)'
  BY <1>0, <1>1, RestsAlone DEF AtRest
<1>5. ~Listed'
  BY <1>1 DEF Listed, R!ByHand, AtRest
<1>6. (Agreed => Agreeing)'
  <2> SUFFICES ASSUME Agreed PROVE Agreeing'
    BY <1>1 DEF Agreed, Dependable, AtRest
  <2>1. Alike
    BY <1>1, QuietOwesNothing DEF Agreed
  <2>2. Alike'
    BY <1>1, <2>1, RowsAtRest DEF Alike, AtRest
  <2> QED BY <2>2 DEF Alike, Agreeing
<1> QED BY <1>2, <1>3, <1>4, <1>5, <1>6 DEF RosterInv, Tidy, Listed, Agreed

LEMMA RosterOpens ==
    ASSUME R!Constants, RosterInv, NEW s \in Slots, NEW p \in Projects, R!Open(s, p)
    PROVE  RosterInv'
<1>0. RosterTypes /\ Tidy
  BY RosterParts
<1> PICK j : j = [op |-> "open", key |-> <<p, None, 1>>, new |-> None, reach |-> {}]
  OBVIOUS
<1>1. /\ Moves(s, "fill", j) /\ UNCHANGED <<row, roles, members, profile, clock, plan>>
      /\ sites' = sites \cup {p} /\ "open" \in plan.ops /\ at[s] = "idle" /\ (plan.alone => R!Quiet)
  BY DEF R!Open, R!Serve, R!CanServe, R!Alone, R!Goto, Moves
<1>2. Shared
  BY <1>0, <1>1 DEF RosterTypes, R!TypeOK, Shared, RowsTyped, Profiles, Grown, R!Present
<1>3. RosterTypes'
  <2>1. j \in Errands
    BY DEF Errands
  <2>2. Works("fill", j)' /\ "fill" \in RosterSteps
    BY <1>1 DEF Works, RosterSteps
  <2> QED BY <1>0, <1>1, <1>2, <2>1, <2>2, TypesMove
<1>4. Tidy'
  <2>1. \A k \in R!Present : row[k].role \in roles \cup {None}
    BY <1>0 DEF Tidy, Onsite
  <2> QED BY <1>0, <1>1, <2>1, TidyEdit
<1>5. (plan.alone => OneByOne)'
  <2>1. Follows("fill", j)'
    BY DEF Follows
  <2> QED BY <1>0, <1>1, <2>1, MovesAlone
<1>6. R!Present' = R!Present
  BY <1>1 DEF R!Present
<1>7. \A x : R!RowsOf(x)' = R!RowsOf(x) /\ R!ActiveRows(x)' = R!ActiveRows(x) /\ R!Roster(x)' = R!Roster(x)
  BY <1>1, <1>6 DEF R!RowsOf, R!ActiveRows, R!Roster
<1>8. (Listed => Listing)'
  <2> SUFFICES ASSUME Listed PROVE Listing'
    BY <1>1 DEF Listed, Dependable, R!ByHand
  <2>1. Everywhere /\ \A x \in Persons : profile[x].rate = 0
    BY <1>1, QuietOwesNothing DEF Listed
  <2>2. at'[s] = "fill" /\ errand'[s].key[1] = p
    BY <1>0, <1>1 DEF RosterTypes, R!TypeOK, Moves
  <2>3. ASSUME NEW x \in Persons, NEW q \in sites', R!ActiveRows(x)' # {}, q \notin R!Roster(x)'
        PROVE  q = p
    BY <1>1, <1>7, <2>1, <2>3 DEF Everywhere
  <2> QED BY <1>1, <2>1, <2>2, <2>3 DEF Listing, Owes
<1>9. (Agreed => Agreeing)'
  <2> SUFFICES ASSUME Agreed PROVE Agreeing'
    BY <1>1 DEF Agreed, Dependable
  <2>1. Alike
    BY <1>1, QuietOwesNothing DEF Agreed
  <2> QED BY <1>1, <1>7, <2>1 DEF Alike, Agreeing
<1> QED BY <1>3, <1>4, <1>5, <1>8, <1>9 DEF RosterInv, Tidy, Listed, Agreed

(* Steps that change rows and neither add one nor lose one.                *)
Edits ==
    /\ RowsTyped /\ plan' = plan /\ sites' = sites /\ roles' \subseteq roles /\ members' \subseteq members
    /\ profile' \in Profiles
    /\ \A k \in R!Keys : row'[k] = None <=> row[k] = None

LEMMA EditsShared ==
    ASSUME RosterTypes, Edits
    PROVE  Shared /\ R!Present' = R!Present /\ \A x : R!RowsOf(x)' = R!RowsOf(x) /\ R!Roster(x)' = R!Roster(x)
<1>1. R!Present' = R!Present
  BY DEF Edits, R!Present
<1> QED BY <1>1 DEF RosterTypes, R!TypeOK, Edits, Shared, Grown, R!RowsOf, R!Roster, R!Present

(* Nobody starts to work.                                                  *)
LEMMA EditEverywhere ==
    ASSUME RosterTypes, Edits, \A k \in R!Present : row'[k].active => row[k].active, Everywhere
    PROVE  Everywhere'
BY EditsShared DEF Everywhere, R!ActiveRows, R!RowsOf, Edits

(* Edits while no request is under way.                                    *)
LEMMA QuietEdit ==
    ASSUME R!Constants, RosterInv, Edits, UNCHANGED <<at, errand>>, plan.alone => R!Quiet,
           \A x \in Persons : profile'[x].rate = profile[x].rate,
           \A k \in R!Present : /\ row'[k].user \in {row[k].user, None} /\ row'[k].role \in roles' \cup {None}
                                /\ row'[k].active = row[k].active,
           Agreed /\ Alike => Alike'
    PROVE  RosterInv'
<1>0. RosterTypes /\ Tidy
  BY RosterParts
<1>1. RosterTypes'
  BY <1>0, EditsShared, TypesRest
<1>2. Tidy'
  BY <1>0, TidyEdit DEF Edits
<1>3. (plan.alone => OneByOne)'
  BY <1>0, RestsAlone DEF Edits
<1>4. (Listed => Listing)'
  <2> SUFFICES ASSUME Listed PROVE Listing'
    BY DEF Listed, Dependable, R!ByHand, Edits
  <2>1. Everywhere /\ \A x \in Persons : profile[x].rate = 0
    BY QuietOwesNothing DEF Listed
  <2>2. Everywhere'
    BY <1>0, <2>1, EditEverywhere
  <2> QED BY <2>1, <2>2 DEF Listing, Everywhere
<1>5. (Agreed => Agreeing)'
  <2> SUFFICES ASSUME Agreed PROVE Agreeing'
    BY DEF Agreed, Dependable, Edits
  <2>1. Alike'
    BY QuietOwesNothing DEF Agreed
  <2> QED BY <2>1 DEF Alike, Agreeing
<1> QED BY <1>1, <1>2, <1>3, <1>4, <1>5 DEF RosterInv, Tidy, Listed, Agreed

LEMMA RosterRate ==
    ASSUME R!Constants, RosterInv, NEW k \in R!Keys, NEW rate \in R!Rates, R!SetRate(k, rate)
    PROVE  RosterInv'
<1>0. RosterTypes /\ Tidy
  BY RosterParts
<1>1. /\ k \in R!Present /\ row[k] \in R!Rows /\ clock < plan.till /\ clock' = clock + 1 /\ "rate" \in plan.ops
      /\ row' = [row EXCEPT ![k] = [[row[k] EXCEPT !.pay = rate] EXCEPT !.at = clock + 1]]
      /\ UNCHANGED <<sites, roles, members, profile, plan, at, errand>> /\ (plan.alone => R!Quiet)
  <2>1. k \in R!Present /\ row[k] \in R!Rows
    BY <1>0, RosterRow DEF R!SetRate
  <2>2. row' = [row EXCEPT ![k] = [[row[k] EXCEPT !.pay = rate] EXCEPT !.at = clock + 1]]
    BY <1>0, <2>1 DEF R!SetRate, RosterTypes, R!TypeOK
  <2> QED BY <2>1, <2>2 DEF R!SetRate, R!Tick, R!Meanwhile, R!Alone
<1>2. row'[k] \in R!Rows /\ row'[k].user = row[k].user /\ row'[k].role = row[k].role /\ row'[k].active = row[k].active
  <2>1. row'[k] = [[row[k] EXCEPT !.pay = rate] EXCEPT !.at = clock + 1]
    BY <1>0, <1>1 DEF RosterTypes, R!TypeOK
  <2>2. row'[k] \in R!Rows
    BY <1>0, <1>1, <2>1, RosterEdit
  <2> QED BY <1>1, <2>1, <2>2 DEF R!Rows, R!RowsUntil
<1>3. \A l \in R!Keys : l # k => row'[l] = row[l]
  BY <1>0, <1>1 DEF RosterTypes, R!TypeOK
<1>4. Edits
  <2>1. RowsTyped
    BY <1>0, <1>1, <1>2, RosterRow DEF RosterTypes, R!TypeOK, RowsTyped
  <2>2. profile \in Profiles
    BY <1>0 DEF RosterTypes, R!TypeOK, Profiles
  <2> QED BY <1>0, <1>1, <1>2, <1>3, <2>1, <2>2, RosterRow DEF Edits, R!Present
<1>5. ~Agreed
  BY <1>1 DEF Agreed
<1>6. \A l \in R!Present : /\ row'[l].user \in {row[l].user, None} /\ row'[l].role \in roles' \cup {None}
                           /\ row'[l].active = row[l].active
  BY <1>0, <1>1, <1>2, <1>3, RosterRow DEF Tidy, Onsite
<1> QED BY <1>1, <1>4, <1>5, <1>6, QuietEdit

LEMMA RosterDropsRole ==
    ASSUME R!Constants, RosterInv, NEW r \in LaborRoles, R!DropRole(r)
    PROVE  RosterInv'
<1>0. RosterTypes /\ Tidy
  BY RosterParts
<1>1. /\ roles' = roles \ {r} /\ UNCHANGED <<sites, members, clock, plan, at, errand>> /\ (plan.alone => R!Quiet)
      /\ row' = [k \in R!Keys |-> IF k \in R!Present /\ row[k].role = r THEN [row[k] EXCEPT !.role = None] ELSE row[k]]
      /\ profile' = [x \in Persons |-> IF profile[x].role = r THEN [profile[x] EXCEPT !.role = None] ELSE profile[x]]
  BY DEF R!DropRole, R!Meanwhile, R!Alone
<1>2. ASSUME NEW k \in R!Present
      PROVE  /\ row'[k] \in R!Rows /\ row'[k].user = row[k].user /\ row'[k].active = row[k].active
             /\ row'[k].pay = row[k].pay /\ row'[k].role = IF row[k].role = r THEN None ELSE row[k].role
  BY <1>0, <1>1, RosterRow DEF R!Rows, R!RowsUntil
<1>3. \A k \in R!Keys : k \notin R!Present => row'[k] = row[k]
  BY <1>1
<1>4. profile' \in Profiles /\ \A x \in Persons : profile'[x].rate = profile[x].rate
  BY <1>0, <1>1 DEF RosterTypes, R!TypeOK, Profiles
<1>5. Edits
  <2>1. \A k \in R!Keys : row'[k] \in R!Rows \cup {None}
    BY <1>0, <1>2, <1>3, RosterRow
  <2>2. RowsTyped
    BY <1>0, <1>1, <2>1, RosterRow DEF RowsTyped
  <2> QED BY <1>0, <1>1, <1>2, <1>3, <1>4, <2>2, RosterRow DEF Edits, R!Present
<1>6. ASSUME NEW k \in R!Present
      PROVE  /\ row'[k].user \in {row[k].user, None} /\ row'[k].role \in roles' \cup {None}
             /\ row'[k].active = row[k].active
  <2>1. row[k].role \in roles \cup {None}
    BY <1>0 DEF Tidy, Onsite
  <2>2. CASE row[k].role = r
    BY <1>2, <2>2
  <2>3. CASE row[k].role # r
    <3>1. row'[k].role = row[k].role /\ row'[k].user = row[k].user /\ row'[k].active = row[k].active
      BY <1>2, <2>3
    <3>2. roles' = roles \ {r}
      BY <1>1
    <3> QED BY <2>1, <2>3, <3>1, <3>2
  <2> QED BY <2>2, <2>3
<1>7. Alike => Alike'
  <2>1. \A x : R!RowsOf(x)' = R!RowsOf(x) /\ R!RowsOf(x) \subseteq R!Present
    BY <1>0, <1>5, EditsShared DEF R!RowsOf
  <2> QED BY <1>2, <2>1 DEF Alike
<1> QED BY <1>1, <1>4, <1>5, <1>6, <1>7, QuietEdit

LEMMA RosterLeaves ==
    ASSUME R!Constants, RosterInv, NEW a \in Holders, R!Leave(a)
    PROVE  RosterInv'
<1>0. RosterTypes /\ Tidy
  BY RosterParts
<1>1. /\ members' = members \ {a} /\ UNCHANGED <<sites, roles, clock, plan, at, errand>> /\ (plan.alone => R!Quiet)
      /\ row' = [k \in R!Keys |-> IF k \in R!Present /\ row[k].user = a THEN [row[k] EXCEPT !.user = None] ELSE row[k]]
      /\ profile' = [profile EXCEPT ![a].listed = FALSE]
  BY DEF R!Leave, R!Meanwhile, R!Alone, R!Unlinked
<1>2. ASSUME NEW k \in R!Present
      PROVE  /\ row'[k] \in R!Rows /\ row'[k].user \in {row[k].user, None} /\ row'[k].active = row[k].active
             /\ row'[k].pay = row[k].pay /\ row'[k].role = row[k].role
  BY <1>0, <1>1, RosterRow DEF R!Rows, R!RowsUntil
<1>3. \A k \in R!Keys : k \notin R!Present => row'[k] = row[k]
  BY <1>1
<1>4. profile' \in Profiles /\ \A x \in Persons : profile'[x].rate = profile[x].rate
  BY <1>0, <1>1 DEF RosterTypes, R!TypeOK, Profiles
<1>5. Edits
  <2>1. \A k \in R!Keys : row'[k] \in R!Rows \cup {None}
    BY <1>0, <1>2, <1>3, RosterRow
  <2>2. RowsTyped
    BY <1>0, <1>1, <2>1, RosterRow DEF RowsTyped
  <2> QED BY <1>0, <1>1, <1>2, <1>3, <1>4, <2>2, RosterRow DEF Edits, R!Present
<1>6. \A k \in R!Present : /\ row'[k].user \in {row[k].user, None} /\ row'[k].role \in roles' \cup {None}
                           /\ row'[k].active = row[k].active
  BY <1>0, <1>1, <1>2 DEF Tidy, Onsite
<1>7. Alike => Alike'
  <2>1. \A x : R!RowsOf(x)' = R!RowsOf(x) /\ R!RowsOf(x) \subseteq R!Present
    BY <1>0, <1>5, EditsShared DEF R!RowsOf
  <2> QED BY <1>2, <2>1 DEF Alike
<1> QED BY <1>1, <1>4, <1>5, <1>6, <1>7, QuietEdit

(* Rows changed in several columns.                                        *)
LEMMA RowColumns ==
    ASSUME NEW r \in R!Rows
    PROVE  /\ r.active \in BOOLEAN /\ r.pay \in R!Rates /\ r.role \in LaborRoles \cup {None}
           /\ r.user \in Holders \cup {None} /\ r.at \in 1..plan.till
           /\ r = [active |-> r.active, pay |-> r.pay, role |-> r.role, user |-> r.user, at |-> r.at]
BY DEF R!Rows, R!RowsUntil

LEMMA RowStopped ==
    ASSUME NEW r \in R!Rows, NEW n \in 1..plan.till,
           NEW e, e = [r EXCEPT !.active = FALSE, !.user = None, !.at = n]
    PROVE  e \in R!Rows /\ e.active = FALSE /\ e.user = None /\ e.role = r.role /\ e.pay = r.pay
BY RowColumns DEF R!Rows, R!RowsUntil

(* A row is stopped.                                                       *)
LEMMA RosterStops ==
    ASSUME R!Constants, RosterInv, NEW s \in Slots, NEW k \in R!Keys, R!Stop(s, k)
    PROVE  RosterInv'
<1>0. RosterTypes /\ Tidy
  BY RosterParts
<1> PICK j : j = [op |-> "stop", key |-> k, new |-> None, reach |-> {}]
  OBVIOUS
<1> DEFINE new == [row[k] EXCEPT !.active = FALSE, !.user = None, !.at = clock + 1]
<1>1. /\ Moves(s, "reach", j) /\ UNCHANGED <<sites, roles, members, profile, plan>>
      /\ k \in R!Present /\ "stop" \in plan.ops /\ at[s] = "idle" /\ (plan.alone => R!Quiet)
      /\ clock < plan.till /\ clock' = clock + 1 /\ row[k] \in R!Rows /\ row' = [row EXCEPT ![k] = new]
  <2>1. k \in R!Present /\ row[k] \in R!Rows
    BY <1>0, RosterRow DEF R!Stop
  <2>2. row' = [row EXCEPT ![k] = new]
    BY <1>0, <2>1 DEF R!Stop, RosterTypes, R!TypeOK
  <2> QED BY <2>1, <2>2 DEF R!Stop, R!Serve, R!CanServe, R!Alone, R!Goto, R!Tick, R!Rest, Moves
<1>2. /\ row'[k] \in R!Rows /\ row'[k].user = None /\ row'[k].role = row[k].role
      /\ row'[k].pay = row[k].pay /\ row'[k].active = FALSE
  <2>1. row'[k] = new
    BY <1>0, <1>1 DEF RosterTypes, R!TypeOK
  <2>2. clock + 1 \in 1..plan.till
    BY <1>0, <1>1, RosterRow
  <2>3. PICK r \in R!Rows, n \in 1..plan.till : r = row[k] /\ n = clock + 1
    BY <1>1, <2>2
  <2>4. row'[k] = [r EXCEPT !.active = FALSE, !.user = None, !.at = n]
    BY <2>1, <2>3
  <2> HIDE DEF new
  <2>5. row'[k] \in R!Rows
    BY <2>3, <2>4, RowStopped
  <2>6. r = [active |-> r.active, pay |-> r.pay, role |-> r.role, user |-> r.user, at |-> r.at]
    BY RowColumns
  <2>7. row'[k].active = FALSE /\ row'[k].user = None /\ row'[k].role = r.role /\ row'[k].pay = r.pay
    BY <2>4, <2>6
  <2> QED BY <2>3, <2>5, <2>7
<1>3. \A l \in R!Keys : l # k => row'[l] = row[l]
  BY <1>0, <1>1 DEF RosterTypes, R!TypeOK
<1> HIDE DEF new
<1>4. Edits
  <2>1. RowsTyped
    BY <1>0, <1>1, <1>2, RosterRow DEF RosterTypes, R!TypeOK, RowsTyped
  <2>2. profile \in Profiles
    BY <1>0 DEF RosterTypes, R!TypeOK, Profiles
  <2> QED BY <1>0, <1>1, <1>2, <1>3, <2>1, <2>2, RosterRow DEF Edits, R!Present
<1>5. Shared /\ R!Present' = R!Present /\ \A x : R!RowsOf(x)' = R!RowsOf(x) /\ R!Roster(x)' = R!Roster(x)
  BY <1>0, <1>4, EditsShared
<1>6. RosterTypes'
  <2>1. k \in Projects \X (Persons \cup {None}) \X {1, 2}
    BY DEF R!Keys
  <2>2. j \in Errands
    BY <2>1 DEF Errands
  <2>3. Works("reach", j)' /\ "reach" \in RosterSteps
    BY <1>1, <1>5 DEF Works, RosterSteps
  <2> QED BY <1>0, <1>1, <1>5, <2>2, <2>3, TypesMove
<1>7. Tidy'
  <2>1. \A l \in R!Present : row'[l].user \in {row[l].user, None} /\ row'[l].role \in roles' \cup {None}
    BY <1>0, <1>1, <1>2, <1>3 DEF Tidy, Onsite, R!Present
  <2> QED BY <1>0, <1>4, <2>1, TidyEdit DEF Edits
<1>8. (plan.alone => OneByOne)'
  <2>1. Follows("reach", j)'
    BY DEF Follows
  <2> QED BY <1>0, <1>1, <2>1, MovesAlone
<1>9. (Listed => Listing)'
  <2> SUFFICES ASSUME Listed PROVE Listing'
    BY <1>1 DEF Listed, Dependable, R!ByHand
  <2>1. Everywhere /\ \A x \in Persons : profile[x].rate = 0
    BY <1>1, QuietOwesNothing DEF Listed
  <2>2. Everywhere'
    BY <1>0, <1>2, <1>3, <1>4, <2>1, EditEverywhere DEF R!Present
  <2> QED BY <1>1, <2>1, <2>2 DEF Listing, Everywhere
<1>10. (Agreed => Agreeing)'
  <2> SUFFICES ASSUME Agreed, NEW x \in Persons, NEW l \in R!RowsOf(x)', NEW m \in R!RowsOf(x)'
               PROVE  /\ row'[l].pay = row'[m].pay /\ row'[l].role = row'[m].role
                      /\ row'[l].active = row'[m].active \/ Spreads({"stop", "restart"}, x)'
    BY <1>1 DEF Agreed, Dependable, Agreeing
  <2>1. /\ row[l].pay = row[m].pay /\ row[l].role = row[m].role /\ row[l].active = row[m].active
        /\ l \in R!Keys /\ m \in R!Keys /\ l[2] = x /\ m[2] = x
    BY <1>1, <1>5, QuietOwesNothing DEF Agreed, Alike, R!RowsOf, R!Present
  <2>2. row'[l].pay = row[l].pay /\ row'[l].role = row[l].role /\ row'[m].pay = row[m].pay /\ row'[m].role = row[m].role
    BY <1>2, <1>3, <2>1
  <2>3. x # k[2] => row'[l].active = row'[m].active
    BY <1>3, <2>1
  <2>4. x = k[2] => Spreads({"stop", "restart"}, x)'
    BY <1>0, <1>1 DEF Spreads, Moves, RosterTypes, R!TypeOK
  <2> QED BY <2>1, <2>2, <2>3, <2>4
<1> QED BY <1>6, <1>7, <1>8, <1>9, <1>10 DEF RosterInv, Tidy, Listed, Agreed

(* A step whose rows the key of accounts has let through.                  *)
LEMMA TidyGuarded ==
    ASSUME Tidy, plan' = plan, R!SlotsUnique(row'),
           \A k \in R!Keys : row'[k] # None =>
               /\ k[1] \in sites' /\ row'[k].role \in roles' \cup {None}
               /\ "link" \notin plan.ops => row'[k].user \in {None, k[2]}
               /\ plan.alone \/ "create" \notin plan.ops => k[3] = 1 \/ row[k] # None
    PROVE  Tidy'
<1>1. Onsite'
  BY DEF Onsite, R!Present, R!Keys
<1>2. R!OneRowPerSite'
  <2> SUFFICES ASSUME plan.alone \/ "create" \notin plan.ops, NEW p \in Projects, NEW x \in Persons
               PROVE  row'[<<p, x, 2>>] = None
    BY DEF R!OneRowPerSite, R!Alone
  <2>1. <<p, x, 2>> \in R!Keys /\ <<p, x, 2>>[3] = 2 /\ row[<<p, x, 2>>] = None
    BY RosterKey DEF Tidy, R!OneRowPerSite, R!Alone
  <2> QED BY <2>1
<1>3. ("link" \notin plan.ops => Own)'
  BY DEF Own, R!Present, R!Keys
<1> QED BY <1>1, <1>2, <1>3 DEF Tidy, R!SlotsUnique, R!Keys

LEMMA RosterInserts ==
    ASSUME R!Constants, RosterInv, NEW s \in Slots, R!Insert(s)
    PROVE  RosterInv'
<1>0. RosterTypes /\ Tidy /\ (plan.alone => OneByOne)
  BY RosterParts
<1> PICK j : j = errand[s]
  OBVIOUS
<1> DEFINE k == IF row[j.key] = None THEN j.key ELSE <<j.key[1], j.key[2], 2>>
           new == [j.new EXCEPT !.at = clock + 1]
<1>1. /\ at[s] = "insert" /\ j \in Errands /\ Works("insert", j) /\ (plan.alone => Follows("insert", j))
      /\ UNCHANGED <<sites, roles, members, profile, plan>>
  BY <1>0 DEF R!Insert, R!Rest, RosterTypes, OneByOne
<1>2. CASE R!End(s) /\ UNCHANGED <<row, clock>>
  <2>1. AtRest
    BY <1>0, <1>1, <1>2 DEF AtRest, RosterTypes, R!TypeOK, Profiles
  <2> QED BY <1>1, <1>2, <2>1, GivesUp
<1>3. CASE ~(R!End(s) /\ UNCHANGED <<row, clock>>)
  <2>1. /\ row' = [row EXCEPT ![k] = new] /\ clock < plan.till /\ clock' = clock + 1
        /\ Moves(s, "copy", j) /\ R!SlotsUnique(row') /\ j.new.role \in roles \cup {None}
    <3>1. row' = [row EXCEPT ![k] = new] /\ R!Tick /\ R!Goto(s, "copy") /\ UNCHANGED errand
          /\ R!SlotsUnique(row') /\ j.new.role \in roles \cup {None}
      BY <1>3 DEF R!Insert
    <3>2. errand' = [errand EXCEPT ![s] = j]
      BY <1>0, <3>1 DEF RosterTypes
    <3> QED BY <3>1, <3>2 DEF R!Tick, R!Goto, Moves
  <2>2. /\ j.key \in R!Keys /\ k \in R!Keys /\ k[1] = j.key[1] /\ k[2] = j.key[2] /\ k[1] \in sites
        /\ j.op = "create" /\ "create" \in plan.ops /\ j.new.user \in {None, k[2]}
    BY <1>1, RosterKey DEF Works
  <2>3. plan.alone => k = j.key /\ k[3] = 1
    <3>1. j.key = <<j.key[1], j.key[2], 1>>
      BY <1>1, <2>2, RosterKey DEF Works
    <3> QED BY <1>1, <3>1 DEF Follows, R!Lacks
  <2> HIDE DEF k
  <2>4. row'[k] \in R!Rows /\ row'[k].role = j.new.role /\ row'[k].user = j.new.user
    <3>1. row'[k] = new /\ j.new \in R!Rows
      BY <1>0, <1>1, <2>1, <2>2 DEF RosterTypes, R!TypeOK, Works
    <3>2. clock + 1 \in 1..plan.till
      BY <1>0, <2>1, RosterRow
    <3> QED BY <3>1, <3>2 DEF R!Rows, R!RowsUntil
  <2>5. \A l \in R!Keys : l # k => row'[l] = row[l]
    BY <1>0, <2>1 DEF RosterTypes, R!TypeOK
  <2>6. Shared
    <3>1. RowsTyped
      BY <1>0, <2>1, <2>2, <2>4, RosterRow DEF RosterTypes, R!TypeOK, RowsTyped
    <3>2. Grown
      BY <1>0, <2>4, <2>5, RosterRow DEF Grown, R!Present
    <3> QED BY <1>0, <1>1, <3>1, <3>2 DEF RosterTypes, R!TypeOK, Profiles, Shared
  <2>7. RosterTypes'
    <3>1. Works("copy", j)' /\ "copy" \in RosterSteps
      BY <1>1, <2>2 DEF Works, RosterSteps, R!Keys
    <3> QED BY <1>0, <1>1, <2>1, <2>6, <3>1, TypesMove
  <2>8. Tidy'
    <3>1. \A l \in R!Keys : row[l] # None =>
              l[1] \in sites /\ row[l].role \in roles \cup {None} /\ ("link" \notin plan.ops => row[l].user \in {None, l[2]})
      BY <1>0 DEF Tidy, Onsite, Own, R!Present
    <3> QED BY <1>0, <1>1, <2>1, <2>2, <2>3, <2>4, <2>5, <3>1, TidyGuarded
  <2>9. (plan.alone => OneByOne)'
    <3>1. Follows("copy", j)'
      BY DEF Follows
    <3> QED BY <1>0, <1>1, <2>1, <3>1, MovesAlone
  <2>10. (Listed => Listing)'
    <3> SUFFICES ASSUME Listed PROVE Listing'
      BY <1>1 DEF Listed, Dependable, R!ByHand
    <3>1. Everywhere /\ \A x \in Persons : profile[x].rate = 0
      BY <1>0, <1>1, OthersRest, NothingOwed, RosterParts DEF Listed, Listing
    <3>2. ASSUME NEW x \in Persons, NEW p \in sites, R!ActiveRows(x)' # {}, p \notin R!Roster(x)'
          PROVE  Owes(s, x, p)'
      <4>1. CASE x = k[2]
        BY <1>0, <2>1, <2>2, <4>1 DEF Owes, Moves, RosterTypes, R!TypeOK
      <4>2. CASE x # k[2]
        <5>1. R!RowsOf(x)' = R!RowsOf(x) /\ \A l \in R!RowsOf(x) : row'[l] = row[l]
          BY <2>2, <2>5, <4>2 DEF R!RowsOf, R!Present, R!Keys
        <5>2. R!ActiveRows(x) # {} /\ p \notin R!Roster(x)
          BY <3>2, <5>1 DEF R!ActiveRows, R!Roster
        <5> QED BY <3>1, <5>2 DEF Everywhere
      <4> QED BY <4>1, <4>2
    <3> QED BY <1>1, <3>1, <3>2 DEF Listing
  <2>11. ~Agreed'
    BY <1>1, <2>2 DEF Agreed
  <2> QED BY <2>7, <2>8, <2>9, <2>10, <2>11 DEF RosterInv, Tidy, Listed, Agreed
<1> QED BY <1>2, <1>3

LEMMA RosterWrites ==
    ASSUME R!Constants, RosterInv, NEW s \in Slots, R!Write(s)
    PROVE  RosterInv'
<1>0. RosterTypes /\ Tidy /\ (plan.alone => OneByOne)
  BY RosterParts
<1> PICK j : j = errand[s]
  OBVIOUS
<1> PICK k : k = j.key
  OBVIOUS
<1> DEFINE new == [j.new EXCEPT !.pay = row[k].pay, !.at = clock + 1]
<1>1. /\ at[s] = "write" /\ j \in Errands /\ Works("write", j) /\ (plan.alone => Follows("write", j))
      /\ UNCHANGED <<sites, roles, members, profile, plan>>
  BY <1>0 DEF R!Write, R!Rest, RosterTypes, OneByOne
<1>2. CASE R!End(s) /\ UNCHANGED <<row, clock>>
  <2>1. AtRest
    BY <1>0, <1>1, <1>2 DEF AtRest, RosterTypes, R!TypeOK, Profiles
  <2> QED BY <1>1, <1>2, <2>1, GivesUp
<1>3. CASE ~(R!End(s) /\ UNCHANGED <<row, clock>>)
  <2>1. /\ row' = [row EXCEPT ![k] = new] /\ clock < plan.till /\ clock' = clock + 1
        /\ R!SlotsUnique(row') /\ j.new.role \in roles \cup {None}
        /\ IF j.op \in {"restart", "role"} THEN R!Goto(s, "reach") /\ UNCHANGED errand ELSE R!End(s)
    BY <1>3 DEF R!Write, R!Tick
  <2>2. PICK step \in RosterSteps, e \in Errands :
            /\ Moves(s, step, e) /\ e = IF step = "reach" THEN j ELSE R!NoJob
            /\ step = IF j.op \in {"restart", "role"} THEN "reach" ELSE "idle"
    <3>1. CASE j.op \in {"restart", "role"}
      <4>1. errand' = [errand EXCEPT ![s] = j]
        BY <1>0, <2>1, <3>1 DEF RosterTypes
      <4> QED BY <1>1, <2>1, <3>1, <4>1 DEF R!Goto, Moves, RosterSteps
    <3>2. CASE j.op \notin {"restart", "role"}
      BY <2>1, <3>2, NothingToDo DEF R!End, R!Goto, Moves, RosterSteps
    <3> QED BY <3>1, <3>2
  <2>3. /\ k \in R!Keys /\ k \in R!Present /\ row[k] \in R!Rows /\ j.new \in R!Rows
        /\ j.op \in {"rename", "restart", "role", "link"} /\ j.op \in plan.ops
        /\ "link" \notin plan.ops => j.new.user \in {None, k[2]}
    BY <1>0, <1>1, RosterRow DEF Works
  <2>4. /\ row'[k] \in R!Rows /\ row'[k].role = j.new.role /\ row'[k].user = j.new.user
        /\ row'[k].active = j.new.active /\ row'[k].pay = row[k].pay
    <3>1. PICK r \in R!Rows, y \in R!Rates, n \in 1..plan.till : r = j.new /\ y = row[k].pay /\ n = clock + 1
      BY <1>0, <2>1, <2>3, RowColumns, RosterRow
    <3>2. row'[k] = [r EXCEPT !.pay = y, !.at = n]
      BY <1>0, <2>1, <2>3, <3>1 DEF RosterTypes, R!TypeOK
    <3>3. r = [active |-> r.active, pay |-> r.pay, role |-> r.role, user |-> r.user, at |-> r.at]
      BY RowColumns
    <3>4. row'[k] \in R!Rows
      BY <3>2, <3>3, RowColumns DEF R!Rows, R!RowsUntil
    <3>5. /\ row'[k].role = r.role /\ row'[k].user = r.user
          /\ row'[k].active = r.active /\ row'[k].pay = y
      BY <3>2, <3>3
    <3> QED BY <3>1, <3>4, <3>5
  <2>5. \A l \in R!Keys : l # k => row'[l] = row[l]
    BY <1>0, <2>1 DEF RosterTypes, R!TypeOK
  <2> HIDE DEF new
  <2>6. Edits
    <3>1. RowsTyped
      BY <1>0, <2>1, <2>3, <2>4, RosterRow DEF RosterTypes, R!TypeOK, RowsTyped
    <3>2. profile \in Profiles
      BY <1>0 DEF RosterTypes, R!TypeOK, Profiles
    <3> QED BY <1>0, <1>1, <2>3, <2>4, <2>5, <3>1, <3>2, RosterRow DEF Edits, R!Present
  <2>7. Shared /\ R!Present' = R!Present /\ \A x : R!RowsOf(x)' = R!RowsOf(x) /\ R!Roster(x)' = R!Roster(x)
    BY <1>0, <2>6, EditsShared
  <2>8. RosterTypes'
    <3>1. CASE step = "reach"
      <4>1. e = j /\ R!Rows' = R!Rows /\ R!Keys' = R!Keys /\ plan' = plan
        BY <1>1, <2>2, <3>1 DEF R!Rows, R!RowsUntil, R!Keys
      <4>2. Works("reach", e)'
        BY <2>2, <2>3, <2>7, <3>1, <4>1 DEF Works
      <4> QED BY <1>0, <2>2, <2>7, <3>1, <4>2, TypesMove
    <3>2. CASE step = "idle"
      <4>1. Works("idle", e)'
        BY DEF Works
      <4> QED BY <1>0, <2>2, <2>7, <3>2, <4>1, TypesMove
    <3> QED BY <2>2, <3>1, <3>2
  <2>9. Tidy'
    <3>1. \A l \in R!Keys : row[l] # None =>
              l[1] \in sites /\ row[l].role \in roles \cup {None} /\ ("link" \notin plan.ops => row[l].user \in {None, l[2]})
      BY <1>0 DEF Tidy, Onsite, Own, R!Present
    <3>2. row[k] # None
      BY <2>3 DEF R!Present
    <3> QED BY <1>0, <1>1, <2>1, <2>3, <2>4, <2>5, <3>1, <3>2, TidyGuarded
  <2>10. (plan.alone => OneByOne)'
    <3>1. Follows(step, e)'
      BY <1>1, <2>1, <2>2 DEF Follows
    <3> QED BY <1>0, <1>1, <2>2, <3>1, MovesAlone
  <2>11. plan.alone => \A t \in Slots : at[t] \in {"idle", "insert", "write"}
    BY <1>0, <1>1, OthersRest
  <2>12. at'[s] = step /\ errand'[s] = e
    BY <1>0, <2>2 DEF Moves, RosterTypes, R!TypeOK
  <2>13. (Listed => Listing)'
    <3> SUFFICES ASSUME Listed PROVE Listing'
      BY <1>1 DEF Listed, Dependable, R!ByHand
    <3>1. Everywhere /\ \A x \in Persons : profile[x].rate = 0
      BY <2>11, NothingOwed, RosterParts DEF Listed, Listing
    <3>2. ASSUME NEW x \in Persons, NEW p \in sites, R!ActiveRows(x)' # {}, p \notin R!Roster(x)'
          PROVE  Owes(s, x, p)'
      <4>1. CASE x = k[2] /\ j.op = "restart"
        BY <2>2, <2>12, <4>1 DEF Owes
      <4>2. CASE ~(x = k[2] /\ j.op = "restart")
        <5>1. \A l \in R!RowsOf(x) : row'[l].active = row[l].active
          BY <1>1, <2>3, <2>4, <2>5, <4>2 DEF Follows, Listed, R!RowsOf, R!Present
        <5>2. R!ActiveRows(x) # {} /\ p \notin R!Roster(x)
          BY <2>7, <3>2, <5>1 DEF R!ActiveRows
        <5> QED BY <3>1, <5>2 DEF Everywhere
      <4> QED BY <4>1, <4>2
    <3> QED BY <1>1, <3>1, <3>2 DEF Listing
  <2>14. (Agreed => Agreeing)'
    <3> SUFFICES ASSUME Agreed, NEW x \in Persons, NEW l \in R!RowsOf(x)', NEW m \in R!RowsOf(x)'
                 PROVE  /\ row'[l].pay = row'[m].pay
                        /\ row'[l].role = row'[m].role \/ Spreads({"role"}, x)'
                        /\ row'[l].active = row'[m].active \/ Spreads({"stop", "restart"}, x)'
      BY <1>1 DEF Agreed, Dependable, Agreeing
    <3>1. /\ row[l].pay = row[m].pay /\ row[l].role = row[m].role /\ row[l].active = row[m].active
          /\ l \in R!Keys /\ m \in R!Keys /\ l[2] = x /\ m[2] = x
      BY <2>7, <2>11, NothingOwed, RosterParts DEF Agreed, Alike, R!RowsOf, R!Present
    <3>2. row'[l].pay = row[l].pay /\ row'[m].pay = row[m].pay
      BY <2>4, <2>5, <3>1
    <3>3. x # k[2] => row'[l] = row[l] /\ row'[m] = row[m]
      BY <2>5, <3>1
    <3>4. x = k[2] /\ j.op = "restart" => Spreads({"stop", "restart"}, x)'
      BY <2>2, <2>12 DEF Spreads
    <3>5. x = k[2] /\ j.op = "role" => Spreads({"role"}, x)'
      BY <2>2, <2>12 DEF Spreads
    <3>6. j.op \in {"rename", "restart", "role"} /\ Follows("write", j)
      BY <1>1, <2>3 DEF Agreed
    <3>7. j.op # "role" => row'[l].role = row[l].role /\ row'[m].role = row[m].role
      BY <2>4, <2>5, <3>1, <3>6 DEF Follows
    <3>8. j.op # "restart" => row'[l].active = row[l].active /\ row'[m].active = row[m].active
      BY <2>4, <2>5, <3>1, <3>6 DEF Follows
    <3>9. row'[l].role = row'[m].role \/ Spreads({"role"}, x)'
      BY <3>1, <3>3, <3>5, <3>7
    <3>10. row'[l].active = row'[m].active \/ Spreads({"stop", "restart"}, x)'
      BY <3>1, <3>3, <3>4, <3>8
    <3> QED BY <3>1, <3>2, <3>9, <3>10
  <2> QED BY <2>8, <2>9, <2>10, <2>13, <2>14 DEF RosterInv, Tidy, Listed, Agreed
<1> QED BY <1>2, <1>3

(* What the change of a flag on other sites does to the rows.              *)
LEMMA ActiveSpreads ==
    ASSUME R!Constants, RosterTypes, plan' = plan, NEW x \in Persons, NEW ps, NEW on \in BOOLEAN,
           R!SetActive(x, ps, on), R!SlotsUnique(row)
    PROVE  /\ RowsTyped /\ R!SlotsUnique(row')
           /\ \A k \in R!Keys : row'[k] = None <=> row[k] = None
           /\ \A k \in R!Present :
                  /\ row'[k].pay = row[k].pay /\ row'[k].role = row[k].role /\ row'[k].user \in {row[k].user, k[2]}
                  /\ k[2] # x => row'[k] = row[k]
                  /\ row'[k].active = row[k].active \/ row'[k].active = on
           /\ Own /\ (\A k \in R!Present : k[3] = 1) =>
                  \A k \in R!RowsOf(x) : k[1] \in ps => row'[k].active = on
<1> DEFINE hit == {k \in R!RowsOf(x) : k[1] \in ps /\ row[k].active # on}
           edited(k) == [row[k] EXCEPT !.active = on, !.at = clock + 1, !.user = IF on THEN R!Relinked(k) ELSE @]
           new == [k \in R!Keys |-> IF k \in hit THEN edited(k) ELSE row[k]]
<1>0. row \in [R!Keys -> R!Rows \cup {None}] /\ clock \in 0..plan.till /\ plan.till \in Nat
  BY RosterRow DEF RosterTypes, R!TypeOK
<1>1. \A k \in hit : k \in R!Present /\ k \in R!Keys /\ k[2] = x /\ row[k] \in R!Rows
  BY RosterRow DEF R!RowsOf
<1>2. ASSUME NEW k \in hit
      PROVE  /\ edited(k).active = on /\ edited(k).pay = row[k].pay /\ edited(k).role = row[k].role
             /\ edited(k).user \in {row[k].user, k[2]}
             /\ clock < plan.till => edited(k) \in R!Rows
  <2>1. PICK r \in R!Rows, u \in Holders \cup {None} :
            r = row[k] /\ u \in {row[k].user, k[2]} /\ edited(k) = [r EXCEPT !.active = on, !.at = clock + 1, !.user = u]
    <3>1. (IF on THEN R!Relinked(k) ELSE row[k].user) \in {row[k].user, k[2]} \cap (Holders \cup {None})
      BY <1>1, Relinks, RowColumns
    <3> QED BY <1>1, <3>1
  <2>2. r = [active |-> r.active, pay |-> r.pay, role |-> r.role, user |-> r.user, at |-> r.at]
    BY RowColumns
  <2> HIDE DEF edited
  <2>3. edited(k) = [active |-> on, pay |-> r.pay, role |-> r.role, user |-> u, at |-> clock + 1]
    BY <2>1, <2>2
  <2>4. clock < plan.till => clock + 1 \in 1..plan.till
    BY <1>0
  <2>5. clock < plan.till => edited(k) \in R!Rows
    BY <2>3, <2>4, RowColumns DEF R!Rows, R!RowsUntil
  <2> QED BY <2>1, <2>3, <2>5
<1> HIDE DEF edited
<1>4. CASE hit = {} \/ ~R!SlotsUnique(new)
  <2>1. UNCHANGED <<row, clock>>
    BY <1>4 DEF R!SetActive, edited
  <2>2. RowsTyped
    BY <1>0, <2>1, RosterRow DEF RowsTyped
  <2>3. ASSUME Own, \A k \in R!Present : k[3] = 1
        PROVE  \A k \in R!RowsOf(x) : k[1] \in ps => row[k].active = on
    <3>1. \A k \in R!Keys : new[k] # None => new[k].user \in {None, k[2]} /\ k[3] = 1
      BY <1>1, <1>2, <2>3 DEF Own, R!Present
    <3>2. R!SlotsUnique(new)
      BY <3>1, OwnIsUnique
    <3> QED BY <1>4, <3>2
  <2> QED BY <2>1, <2>2, <2>3
<1>5. CASE ~(hit = {} \/ ~R!SlotsUnique(new))
  <2>1. row' = new /\ clock < plan.till /\ clock' = clock + 1 /\ R!SlotsUnique(new)
    BY <1>5 DEF R!SetActive, R!Tick, edited
  <2>2. RowsTyped
    BY <1>0, <1>2, <2>1 DEF RowsTyped
  <2>3. \A k \in R!Keys : row'[k] = None <=> row[k] = None
    BY <1>1, <1>2, <2>1, RosterRow
  <2>4. \A k \in R!Present :
            /\ row'[k].pay = row[k].pay /\ row'[k].role = row[k].role /\ row'[k].user \in {row[k].user, k[2]}
            /\ k[2] # x => row'[k] = row[k]
            /\ row'[k].active = row[k].active \/ row'[k].active = on
    BY <1>1, <1>2, <2>1, RosterRow
  <2>5. \A k \in R!RowsOf(x) : k[1] \in ps => row'[k].active = on
    BY <1>2, <2>1 DEF R!RowsOf, R!Present
  <2> QED BY <2>1, <2>2, <2>3, <2>4, <2>5
<1> QED BY <1>4, <1>5

LEMMA RoleSpreads ==
    ASSUME R!Constants, RosterTypes, plan' = plan, NEW x \in Persons, NEW ps, NEW r, R!SetRole(x, ps, r)
    PROVE  /\ RowsTyped /\ r \in roles \cup {None} /\ profile' = [profile EXCEPT ![x].role = r]
           /\ \A k \in R!Keys : row'[k] = None <=> row[k] = None
           /\ \A k \in R!Present :
                  /\ row'[k].pay = row[k].pay /\ row'[k].active = row[k].active /\ row'[k].user = row[k].user
                  /\ k[2] # x => row'[k] = row[k]
                  /\ row'[k].role = row[k].role \/ row'[k].role = r
           /\ \A k \in R!RowsOf(x) : k[1] \in ps => row'[k].role = r
<1> DEFINE hit == {k \in R!RowsOf(x) : k[1] \in ps /\ row[k].role # r}
           edited(k) == [row[k] EXCEPT !.role = r, !.at = clock + 1]
<1>0. /\ row \in [R!Keys -> R!Rows \cup {None}] /\ clock \in 0..plan.till /\ plan.till \in Nat
      /\ r \in roles \cup {None} /\ r \in LaborRoles \cup {None} /\ profile' = [profile EXCEPT ![x].role = r]
  BY RosterRow DEF RosterTypes, R!TypeOK, R!SetRole
<1>1. \A k \in hit : k \in R!Present /\ k \in R!Keys /\ k[2] = x /\ row[k] \in R!Rows
  BY RosterRow DEF R!RowsOf
<1>2. CASE hit = {}
  <2>1. UNCHANGED <<row, clock>>
    BY <1>2 DEF R!SetRole
  <2>2. RowsTyped
    BY <1>0, <2>1, RosterRow DEF RowsTyped
  <2> QED BY <1>0, <1>2, <2>1, <2>2
<1>3. CASE hit # {}
  <2>1. /\ row' = [k \in R!Keys |-> IF k \in hit THEN edited(k) ELSE row[k]]
        /\ clock < plan.till /\ clock' = clock + 1
    BY <1>3 DEF R!SetRole, R!Tick
  <2>2. ASSUME NEW k \in hit
        PROVE  /\ edited(k).active = row[k].active /\ edited(k).pay = row[k].pay /\ edited(k).role = r
               /\ edited(k).user = row[k].user /\ edited(k) \in R!Rows
    <3>1. PICK o \in R!Rows : o = row[k] /\ edited(k) = [o EXCEPT !.role = r, !.at = clock + 1]
      BY <1>1
    <3>2. o = [active |-> o.active, pay |-> o.pay, role |-> o.role, user |-> o.user, at |-> o.at]
      BY RowColumns
    <3> HIDE DEF edited
    <3>3. edited(k) = [active |-> o.active, pay |-> o.pay, role |-> r, user |-> o.user, at |-> clock + 1]
      BY <3>1, <3>2
    <3>4. clock + 1 \in 1..plan.till
      BY <1>0, <2>1
    <3>5. edited(k) \in R!Rows
      BY <1>0, <3>3, <3>4, RowColumns DEF R!Rows, R!RowsUntil
    <3> QED BY <3>1, <3>3, <3>5
  <2> HIDE DEF edited
  <2>3. RowsTyped
    BY <1>0, <2>1, <2>2 DEF RowsTyped
  <2>4. \A k \in R!Keys : row'[k] = None <=> row[k] = None
    BY <1>1, <2>1, <2>2, RosterRow
  <2>5. \A k \in R!Present :
            /\ row'[k].pay = row[k].pay /\ row'[k].active = row[k].active /\ row'[k].user = row[k].user
            /\ k[2] # x => row'[k] = row[k]
            /\ row'[k].role = row[k].role \/ row'[k].role = r
    BY <1>1, <2>1, <2>2, RosterRow
  <2>6. \A k \in R!RowsOf(x) : k[1] \in ps => row'[k].role = r
    BY <2>1, <2>2 DEF R!RowsOf, R!Present
  <2> QED BY <1>0, <2>3, <2>4, <2>5, <2>6
<1> QED BY <1>2, <1>3

(* What is written on the other sites, and what it leaves behind.          *)
LEMMA SpreadKeeps ==
    ASSUME R!Constants, RosterInv, NEW s \in Slots, at[s] = "spread", NEW j, j = errand[s], NEW x, x = j.key[2],
           Edits, roles' = roles, R!SlotsUnique(row'), \A y \in Persons : profile'[y].rate = profile[y].rate,
           NEW step, NEW e, Moves(s, step, e),
           step = IF j.op = "restart" THEN "copy" ELSE "idle", e = IF j.op = "restart" THEN j ELSE R!NoJob,
           \A k \in R!Present :
               /\ row'[k].pay = row[k].pay /\ row'[k].role \in roles \cup {None}
               /\ row'[k].user \in {row[k].user, k[2]} /\ (k[2] # x => row'[k] = row[k])
               /\ j.op = "restart" \/ (row'[k].active => row[k].active),
           Agreed => \A k, l \in R!RowsOf(x) : row'[k].role = row'[l].role /\ row'[k].active = row'[l].active
    PROVE  RosterInv'
<1>0. RosterTypes /\ Tidy /\ (plan.alone => OneByOne)
  BY RosterParts
<1>1. j \in Errands /\ Works("spread", j) /\ x \in Persons /\ plan' = plan /\ sites' = sites
  BY <1>0, RosterKey DEF RosterTypes, Works, Edits
<1>2. Shared /\ R!Present' = R!Present /\ \A y : R!RowsOf(y)' = R!RowsOf(y) /\ R!Roster(y)' = R!Roster(y)
  BY <1>0, EditsShared
<1>3. RosterTypes'
  <2>1. e \in Errands /\ step \in RosterSteps
    BY <1>1, NothingToDo DEF RosterSteps
  <2>2. Works(step, e)'
    <3>1. R!Keys' = R!Keys
      BY DEF R!Keys
    <3> QED BY <1>1, <3>1 DEF Works
  <2> QED BY <1>0, <1>2, <2>1, <2>2, TypesMove
<1>4. Tidy'
  <2>1. \A l \in R!Keys : row'[l] # None => l \in R!Present
    BY DEF Edits, R!Present
  <2>2. \A l \in R!Present : l[1] \in sites /\ ("link" \notin plan.ops => row[l].user \in {None, l[2]})
    BY <1>0 DEF Tidy, Onsite, Own
  <2> QED BY <1>0, <1>1, <2>1, <2>2, TidyGuarded DEF R!Present
<1>5. (plan.alone => OneByOne)'
  <2>1. Follows(step, e)'
    BY DEF Follows
  <2> QED BY <1>0, <1>1, <2>1, MovesAlone
<1>6. at'[s] = step /\ errand'[s] = e
  BY <1>0 DEF Moves, RosterTypes, R!TypeOK
<1>7. plan.alone => \A t \in Slots : t # s => at[t] = "idle"
  BY <1>0, OthersRest
<1>8. (Listed => Listing)'
  <2> SUFFICES ASSUME Listed PROVE Listing'
    BY <1>1 DEF Listed, Dependable, R!ByHand
  <2>1. Listing
    BY RosterParts
  <2>2. ASSUME NEW y \in Persons, NEW p \in sites, R!ActiveRows(y)' # {}, p \notin R!Roster(y)'
        PROVE  Owes(s, y, p)'
    <3>1. CASE y = x /\ j.op = "restart"
      BY <1>6, <3>1 DEF Owes
    <3>2. CASE ~(y = x /\ j.op = "restart")
      <4>1. \A l \in R!RowsOf(y) : row'[l].active => row[l].active
        BY <3>2 DEF R!RowsOf
      <4>2. R!ActiveRows(y) # {} /\ p \notin R!Roster(y)
        BY <1>2, <2>2, <4>1 DEF R!ActiveRows
      <4>3. PICK t \in Slots : Owes(t, y, p)
        BY <2>1, <4>2 DEF Listing
      <4>4. t = s
        BY <1>7, <4>3 DEF Owes, Listed
      <4> QED BY <3>2, <4>3, <4>4 DEF Owes
    <3> QED BY <3>1, <3>2
  <2> QED BY <1>1, <2>1, <2>2 DEF Listing
<1>9. (Agreed => Agreeing)'
  <2> SUFFICES ASSUME Agreed, NEW y \in Persons, NEW k \in R!RowsOf(y)', NEW l \in R!RowsOf(y)'
               PROVE  row'[k].pay = row'[l].pay /\ row'[k].role = row'[l].role /\ row'[k].active = row'[l].active
    BY <1>1 DEF Agreed, Dependable, Agreeing
  <2>1. k \in R!RowsOf(y) /\ l \in R!RowsOf(y) /\ k \in R!Present /\ l \in R!Present /\ k[2] = y /\ l[2] = y
    BY <1>2 DEF R!RowsOf
  <2>2. Agreeing
    BY RosterParts
  <2>3. row'[k].pay = row'[l].pay
    BY <2>1, <2>2 DEF Agreeing
  <2>4. CASE y = x
    BY <2>1, <2>3, <2>4
  <2>5. CASE y # x
    <3>1. \A ops : ~Spreads(ops, y)
      BY <1>7, <2>5 DEF Spreads, Agreed
    <3>2. row[k].role = row[l].role /\ row[k].active = row[l].active
      BY <2>1, <2>2, <3>1 DEF Agreeing
    <3> QED BY <2>1, <2>3, <2>5, <3>2
  <2> QED BY <2>4, <2>5
<1> QED BY <1>3, <1>4, <1>5, <1>8, <1>9 DEF RosterInv, Tidy, Listed, Agreed

(* All sites of the person are reached.                                    *)
LEMMA ReachesAll ==
    ASSUME R!Constants, RosterInv, Agreed, NEW s \in Slots, at[s] = "spread", NEW x \in Persons, x = errand[s].key[2]
    PROVE  /\ Own /\ \A k \in R!Present : k[3] = 1
           /\ \A k \in R!RowsOf(x) : k[1] \in errand[s].reach
           /\ \A k, l \in R!RowsOf(x) :
                  /\ errand[s].op \in {"stop", "restart"} => row[k].role = row[l].role
                  /\ errand[s].op = "role" => row[k].active = row[l].active
<1>1. RosterTypes /\ Tidy /\ OneByOne /\ Agreeing
  BY RosterParts DEF Agreed
<1>2. Own
  BY <1>1 DEF Tidy, Agreed
<1>3. ASSUME NEW k \in R!Present PROVE k[3] = 1
  <2>1. k \in R!Keys /\ row[k] # None /\ k = <<k[1], k[2], k[3]>> /\ k[1] \in Projects /\ k[2] \in Persons /\ k[3] \in {1, 2}
    BY RosterKey DEF R!Present
  <2>2. row[<<k[1], k[2], 2>>] = None
    BY <1>1, <2>1 DEF Tidy, R!OneRowPerSite, R!Alone, Agreed
  <2> QED BY <2>1, <2>2
<1>4. Follows("spread", errand[s])
  BY <1>1 DEF OneByOne
<1>5. \A k \in R!RowsOf(x) : k[1] \in Projects
  BY RosterKey DEF R!RowsOf, R!Present
<1>6. \A k \in R!RowsOf(x) : k[1] \in errand[s].reach
  BY <1>4, <1>5 DEF Follows, Agreed, Dependable
<1>7. \A t \in Slots : t # s => at[t] = "idle"
  BY <1>1, OthersRest
<1>8. /\ errand[s].op \in {"stop", "restart"} => ~Spreads({"role"}, x)
      /\ errand[s].op = "role" => ~Spreads({"stop", "restart"}, x)
  BY <1>7 DEF Spreads
<1> QED BY <1>1, <1>2, <1>3, <1>6, <1>8 DEF Agreeing

LEMMA RosterSpreads ==
    ASSUME R!Constants, RosterInv, NEW s \in Slots, R!Spread(s)
    PROVE  RosterInv'
<1>0. RosterTypes /\ Tidy /\ (plan.alone => OneByOne)
  BY RosterParts
<1> PICK j : j = errand[s]
  OBVIOUS
<1> PICK x : x = j.key[2]
  OBVIOUS
<1>1. /\ at[s] = "spread" /\ j \in Errands /\ Works("spread", j) /\ x \in Persons
      /\ UNCHANGED <<sites, roles, members, plan>> /\ (plan.alone => Follows("spread", j))
  BY <1>0, RosterKey DEF R!Spread, RosterTypes, Works, OneByOne
<1>2. PICK step \in RosterSteps, e \in Errands :
          /\ Moves(s, step, e) /\ e = IF j.op = "restart" THEN j ELSE R!NoJob
          /\ step = IF j.op = "restart" THEN "copy" ELSE "idle"
          /\ j.op # "restart" => R!End(s)
  <2>1. CASE j.op = "restart"
    <3>1. errand' = [errand EXCEPT ![s] = j]
      BY <1>0, <2>1 DEF RosterTypes, R!Spread
    <3> QED BY <1>1, <2>1, <3>1 DEF R!Goto, Moves, RosterSteps, R!Spread
  <2>2. CASE j.op # "restart"
    BY <2>2, NothingToDo DEF R!End, R!Goto, Moves, RosterSteps, R!Spread
  <2> QED BY <2>1, <2>2
<1>3. profile \in Profiles /\ \A k \in R!Present : row[k].role \in roles \cup {None}
  BY <1>0 DEF RosterTypes, R!TypeOK, Profiles, Tidy, Onsite
<1>4. ASSUME NEW on \in BOOLEAN, R!SetActive(x, j.reach, on), profile' = profile,
             (j.op = "restart" /\ on) \/ (j.op = "stop" /\ ~on)
      PROVE  RosterInv'
  <2>1. /\ RowsTyped /\ R!SlotsUnique(row')
        /\ \A k \in R!Keys : row'[k] = None <=> row[k] = None
        /\ \A k \in R!Present :
               /\ row'[k].pay = row[k].pay /\ row'[k].role = row[k].role /\ row'[k].user \in {row[k].user, k[2]}
               /\ k[2] # x => row'[k] = row[k]
               /\ row'[k].active = row[k].active \/ row'[k].active = on
        /\ Own /\ (\A k \in R!Present : k[3] = 1) =>
               \A k \in R!RowsOf(x) : k[1] \in j.reach => row'[k].active = on
    BY <1>0, <1>1, <1>4, ActiveSpreads DEF Tidy
  <2>2. Edits
    BY <1>1, <1>3, <1>4, <2>1 DEF Edits
  <2>3. ASSUME Agreed, NEW k \in R!RowsOf(x), NEW l \in R!RowsOf(x)
        PROVE  row'[k].role = row'[l].role /\ row'[k].active = row'[l].active
    <3>1. row'[k].active = on /\ row'[l].active = on
      BY <1>1, <2>1, <2>3, ReachesAll
    <3>2. row[k].role = row[l].role
      BY <1>1, <1>4, <2>3, ReachesAll
    <3> QED BY <2>1, <3>1, <3>2 DEF R!RowsOf
  <2>4. \A k \in R!Present :
            /\ row'[k].pay = row[k].pay /\ row'[k].role \in roles \cup {None}
            /\ row'[k].user \in {row[k].user, k[2]} /\ (k[2] # x => row'[k] = row[k])
            /\ j.op = "restart" \/ (row'[k].active => row[k].active)
    BY <1>3, <1>4, <2>1
  <2> QED BY <1>1, <1>2, <1>4, <2>1, <2>2, <2>3, <2>4, SpreadKeeps
<1>5. ASSUME NEW r, R!SetRole(x, j.reach, r), j.op = "role"
      PROVE  RosterInv'
  <2>1. /\ RowsTyped /\ r \in roles \cup {None} /\ profile' = [profile EXCEPT ![x].role = r]
        /\ \A k \in R!Keys : row'[k] = None <=> row[k] = None
        /\ \A k \in R!Present :
               /\ row'[k].pay = row[k].pay /\ row'[k].active = row[k].active /\ row'[k].user = row[k].user
               /\ k[2] # x => row'[k] = row[k]
               /\ row'[k].role = row[k].role \/ row'[k].role = r
        /\ \A k \in R!RowsOf(x) : k[1] \in j.reach => row'[k].role = r
    BY <1>0, <1>1, <1>5, RoleSpreads
  <2>2. profile' \in Profiles /\ \A y \in Persons : profile'[y].rate = profile[y].rate
    BY <1>0, <1>1, <2>1 DEF RosterTypes, R!TypeOK, Profiles
  <2>3. Edits
    BY <1>1, <2>1, <2>2 DEF Edits
  <2>4. ASSUME Agreed, NEW k \in R!RowsOf(x), NEW l \in R!RowsOf(x)
        PROVE  row'[k].role = row'[l].role /\ row'[k].active = row'[l].active
    <3>1. row'[k].role = r /\ row'[l].role = r
      BY <1>1, <2>1, <2>4, ReachesAll
    <3>2. row[k].active = row[l].active
      BY <1>1, <1>5, <2>4, ReachesAll
    <3> QED BY <2>1, <3>1, <3>2 DEF R!RowsOf
  <2>5. R!SlotsUnique(row')
    BY <1>0, <2>1 DEF Tidy, R!SlotsUnique, R!Present
  <2>6. \A k \in R!Present :
            /\ row'[k].pay = row[k].pay /\ row'[k].role \in roles \cup {None}
            /\ row'[k].user \in {row[k].user, k[2]} /\ (k[2] # x => row'[k] = row[k])
            /\ j.op = "restart" \/ (row'[k].active => row[k].active)
    BY <1>3, <2>1
  <2> QED BY <1>1, <1>2, <2>2, <2>3, <2>4, <2>5, <2>6, SpreadKeeps
<1>6. ASSUME UNCHANGED <<row, clock, profile>>, ~(plan.alone /\ Dependable)
      PROVE  RosterInv'
  <2>1. AtRest
    BY <1>1, <1>3, <1>6 DEF AtRest
  <2>2. Works(step, e)'
    <3>1. R!Keys' = R!Keys
      BY DEF R!Keys
    <3> QED BY <1>1, <1>2, <3>1 DEF Works
  <2>3. Follows(step, e)'
    BY <1>2 DEF Follows
  <2> QED BY <1>1, <1>2, <1>6, <2>1, <2>2, <2>3, Waits
<1>7. \/ j.op = "stop" /\ R!SetActive(x, j.reach, FALSE) /\ UNCHANGED profile
      \/ j.op = "restart" /\ R!SetActive(x, j.reach, TRUE) /\ UNCHANGED profile
      \/ j.op = "role" /\ R!SetRole(x, j.reach, j.new.role)
      \/ j.op = "role" /\ j.new.role \notin roles \cup {None} /\ UNCHANGED <<row, clock, profile>>
      \/ R!Fails
  BY DEF R!Spread
<1>8. R!Fails \/ (j.op = "role" /\ j.new.role \notin roles \cup {None}) => ~(plan.alone /\ Dependable)
  BY <1>1 DEF R!Fails, Dependable, Follows
<1>9. CASE j.op = "stop" /\ R!SetActive(x, j.reach, FALSE) /\ UNCHANGED profile
  <2>1. PICK on \in BOOLEAN : ~on
    OBVIOUS
  <2>2. R!SetActive(x, j.reach, on)
    BY <1>9, <2>1
  <2>3. profile' = profile /\ ((j.op = "restart" /\ on) \/ (j.op = "stop" /\ ~on))
    BY <1>9, <2>1
  <2> QED BY <1>4, <2>2, <2>3
<1>10. CASE j.op = "restart" /\ R!SetActive(x, j.reach, TRUE) /\ UNCHANGED profile
  <2>1. PICK on \in BOOLEAN : on
    OBVIOUS
  <2>2. R!SetActive(x, j.reach, on)
    BY <1>10, <2>1
  <2>3. profile' = profile /\ ((j.op = "restart" /\ on) \/ (j.op = "stop" /\ ~on))
    BY <1>10, <2>1
  <2> QED BY <1>4, <2>2, <2>3
<1>11. CASE j.op = "role" /\ R!SetRole(x, j.reach, j.new.role)
  BY <1>5, <1>11
<1>12. CASE R!Fails \/ (j.op = "role" /\ j.new.role \notin roles \cup {None} /\ UNCHANGED <<row, clock, profile>>)
  BY <1>6, <1>8, <1>12 DEF R!Fails
<1> QED BY <1>7, <1>9, <1>10, <1>11, <1>12

(***************************************************************************)
(* The copies.                                                             *)
(***************************************************************************)
LEMMA EnrolShares ==
    ASSUME R!Constants, RosterInv, NEW ps, NEW xs, R!Enroll(ps, xs),
           UNCHANGED <<sites, roles, members, profile, plan>>
    PROVE  Shared /\ Tidy'
<1>0. RosterTypes /\ Tidy
  BY RosterParts
<1>1. /\ RowsTyped /\ R!SlotsUnique(row')
      /\ \A k \in R!Present : row'[k] = row[k]
      /\ \A x \in Persons : \E source \in R!Sources(x) \cup {None} :
             \A k \in R!Keys : k[2] = x /\ row[k] = None /\ row'[k] # None =>
                 source \in R!Sources(x) /\ k[1] \in ps /\ x \in xs /\ CopiedFrom(x, source, k)
  BY <1>0, Enrolled DEF Tidy
<1>2. Shared
  BY <1>0, <1>1 DEF RosterTypes, R!TypeOK, Shared, Profiles, Grown, R!Present
<1>3. ASSUME NEW k \in R!Keys, row'[k] # None
      PROVE  /\ k[1] \in sites' /\ row'[k].role \in roles' \cup {None}
             /\ "link" \notin plan.ops => row'[k].user \in {None, k[2]}
             /\ k[3] = 1 \/ row[k] # None
  <2>1. CASE row[k] # None
    BY <1>0, <1>1, <2>1 DEF Tidy, Onsite, Own, R!Present
  <2>2. CASE row[k] = None
    <3>1. k[2] \in Persons
      BY RosterKey
    <3>2. PICK source \in R!Sources(k[2]) : CopiedFrom(k[2], source, k)
      BY <1>1, <1>3, <2>2, <3>1
    <3>3. k[1] \in sites /\ k[3] = 1 /\ row'[k].role \in roles \cup {None} /\ row'[k].user \in {source.user, None}
      BY <3>2 DEF CopiedFrom, R!Lacks
    <3>4. "link" \notin plan.ops => source.user \in {None, k[2]}
      BY <1>0, <3>1, <3>2 DEF Tidy, Own, R!Sources, R!ActiveRows, R!RowsOf, R!FromProfile, R!AccountOf
    <3> QED BY <3>3, <3>4
  <2> QED BY <2>1, <2>2
<1>4. Tidy'
  BY <1>0, <1>1, <1>3, TidyGuarded
<1> QED BY <1>2, <1>4

(* Without a rate in the directory only who works on a site is copied.     *)
LEMMA EnrolsWorkers ==
    ASSUME R!Constants, RosterInv, NEW ps, NEW xs, R!Enroll(ps, xs), plan' = plan,
           NEW x \in Persons, profile[x].rate = 0
    PROVE  R!ActiveRows(x)' # {} => R!ActiveRows(x) # {}
<1>0. RosterTypes /\ Tidy
  BY RosterParts
<1>1. /\ \A k \in R!Present : row'[k] = row[k]
      /\ \A k \in R!Keys : k[2] = x /\ row[k] = None /\ row'[k] # None => R!Sources(x) # {}
  BY <1>0, Enrolled DEF Tidy
<1>2. R!Sources(x) # {} => R!ActiveRows(x) # {}
  BY DEF R!Sources
<1>3. ASSUME NEW k \in R!ActiveRows(x)' PROVE R!ActiveRows(x) # {}
  <2>1. k \in R!Keys /\ row'[k] # None /\ k[2] = x /\ row'[k].active
    BY DEF R!ActiveRows, R!RowsOf, R!Present, R!Keys
  <2> QED BY <1>1, <1>2, <2>1 DEF R!ActiveRows, R!RowsOf, R!Present
<1> QED BY <1>3

LEMMA EnrolsAlike ==
    ASSUME R!Constants, RosterInv, NEW ps, NEW xs, R!Enroll(ps, xs), plan' = plan, Alike
    PROVE  Alike'
<1>0. RosterTypes /\ Tidy
  BY RosterParts
<1> SUFFICES ASSUME NEW x \in Persons
             PROVE  \A k, l \in R!RowsOf(x)' :
                        row'[k].pay = row'[l].pay /\ row'[k].role = row'[l].role /\ row'[k].active = row'[l].active
  BY DEF Alike
<1>1. /\ RowsTyped /\ \A k \in R!Present : row'[k] = row[k]
      /\ \E source \in R!Sources(x) \cup {None} :
             \A k \in R!Keys : k[2] = x /\ row[k] = None /\ row'[k] # None =>
                 source \in R!Sources(x) /\ k[1] \in ps /\ x \in xs /\ CopiedFrom(x, source, k)
  BY <1>0, Enrolled DEF Tidy
<1> PICK source \in R!Sources(x) \cup {None} :
        \A k \in R!Keys : k[2] = x /\ row[k] = None /\ row'[k] # None =>
            source \in R!Sources(x) /\ CopiedFrom(x, source, k)
  BY <1>1
<1> DEFINE fresh(k) == k \in R!Keys /\ k[2] = x /\ row[k] = None /\ row'[k] # None
           kept == IF source.role \in roles THEN source.role ELSE None
<1>2. \A k \in R!RowsOf(x)' : (k \in R!RowsOf(x) /\ row'[k] = row[k]) \/ fresh(k)
  <2> TAKE k \in R!RowsOf(x)'
  <2>1. k \in R!Keys /\ row'[k] # None /\ k[2] = x
    BY DEF R!RowsOf, R!Present, R!Keys
  <2> QED BY <1>1, <2>1 DEF R!RowsOf, R!Present
<1>3. \A k : fresh(k) => row'[k].active = TRUE /\ row'[k].pay = source.pay /\ row'[k].role = kept /\ source \in R!Sources(x)
  <2> SUFFICES ASSUME NEW k, fresh(k)
               PROVE row'[k].active = TRUE /\ row'[k].pay = source.pay /\ row'[k].role = kept /\ source \in R!Sources(x)
    OBVIOUS
  <2>1. CopiedFrom(x, source, k) /\ source \in R!Sources(x)
    OBVIOUS
  <2>2. row'[k].active \in BOOLEAN
    BY <2>1 DEF CopiedFrom, R!Rows, R!RowsUntil
  <2> QED BY <2>1, <2>2 DEF CopiedFrom
<1>4. \A k, m : k \in R!RowsOf(x) /\ fresh(m) =>
          row[k].active = TRUE /\ row[k].pay = source.pay /\ row[k].role = kept
  <2> SUFFICES ASSUME NEW k \in R!RowsOf(x), NEW m, fresh(m)
               PROVE  row[k].active = TRUE /\ row[k].pay = source.pay /\ row[k].role = kept
    OBVIOUS
  <2>1. PICK a \in R!ActiveRows(x) : source = row[a]
    BY <1>3 DEF R!Sources
  <2>2. a \in R!RowsOf(x) /\ a \in R!Present /\ row[a].active = TRUE
    BY <1>0, <2>1, RosterRow DEF R!ActiveRows, R!RowsOf, R!Rows, R!RowsUntil
  <2>3. row[k].pay = row[a].pay /\ row[k].role = row[a].role /\ row[k].active = row[a].active
    BY <2>2 DEF Alike
  <2>4. row[a].role \in roles \cup {None}
    BY <1>0, <2>2 DEF Tidy, Onsite
  <2> QED BY <2>1, <2>2, <2>3, <2>4
<1> HIDE DEF fresh, kept
<1> TAKE k, l \in R!RowsOf(x)'
<1>5. CASE k \in R!RowsOf(x) /\ row'[k] = row[k] /\ l \in R!RowsOf(x) /\ row'[l] = row[l]
  BY <1>5 DEF Alike
<1>6. CASE fresh(k) /\ fresh(l)
  BY <1>3, <1>6
<1>7. CASE k \in R!RowsOf(x) /\ row'[k] = row[k] /\ fresh(l)
  BY <1>3, <1>4, <1>7
<1>8. CASE l \in R!RowsOf(x) /\ row'[l] = row[l] /\ fresh(k)
  BY <1>3, <1>4, <1>8
<1> QED BY <1>2, <1>5, <1>6, <1>7, <1>8

(* Where every row is its person's own, whoever works on a site is copied. *)
LEMMA EverybodyEnrolled ==
    ASSUME R!Constants, RosterInv, Own, \A k \in R!Present : k[3] = 1, NEW ps, NEW xs, R!Enroll(ps, xs),
           NEW x \in Persons, x \in xs, R!ActiveRows(x) # {}, NEW p \in Projects, p \in ps, p \in sites
    PROVE  p \in R!Roster(x)'
<1>0. RosterTypes /\ R!Sources(x) # {}
  BY RosterParts, EditedLast
<1> DEFINE ready == {y \in xs : R!Sources(y) # {}}
           fresh(k) == k[1] \in ps /\ k[2] \in ready /\ k[3] = 1 /\ R!Lacks(k[1], k[2])
<1>1. PICK f, new :
          /\ \A y \in ready : f[y] \in R!Sources(y)
          /\ new = [k \in R!Keys |-> IF fresh(k) THEN R!CopyOf(f[k[2]], k[1]) ELSE row[k]]
          /\ IF new = row \/ ~R!SlotsUnique(new) THEN UNCHANGED <<row, clock>> ELSE row' = new
  BY DEF R!Enroll, R!Copied
<1>2. ASSUME NEW k \in R!Keys, fresh(k)
      PROVE  new[k] # None /\ new[k].user \in {None, k[2]}
  <2>1. k[2] \in Persons /\ f[k[2]] \in R!Sources(k[2]) /\ new[k] = R!CopyOf(f[k[2]], k[1])
    BY <1>1, <1>2, RosterKey
  <2>2. PICK o \in R!Rows : o = f[k[2]] /\ o \in R!Sources(k[2])
    BY <1>0, <2>1, SourcesAreRows
  <2>3. o.user \in {None, k[2]}
    BY <2>1, <2>2 DEF Own, R!Sources, R!ActiveRows, R!RowsOf, R!FromProfile, R!AccountOf
  <2>4. PICK l \in LaborRoles \cup {None}, u \in Holders \cup {None} :
            /\ u \in {o.user, None}
            /\ R!CopyOf(o, k[1]) = [o EXCEPT !.active = TRUE, !.at = clock + 1, !.role = l, !.user = u]
    <3>1. (IF o.role \in roles THEN o.role ELSE None) \in LaborRoles \cup {None}
      BY <1>0 DEF RosterTypes, R!TypeOK
    <3>2. (IF R!Taken(k[1], o.user) THEN None ELSE o.user) \in (Holders \cup {None}) \cap {o.user, None}
      BY RowColumns
    <3>3. R!CopyOf(o, k[1]) = [o EXCEPT !.active = TRUE, !.at = clock + 1,
                                        !.role = IF o.role \in roles THEN o.role ELSE None,
                                        !.user = IF R!Taken(k[1], o.user) THEN None ELSE o.user]
      BY RowColumns DEF R!CopyOf
    <3> QED BY <3>1, <3>2, <3>3
  <2>5. o = [active |-> o.active, pay |-> o.pay, role |-> o.role, user |-> o.user, at |-> o.at]
    BY RowColumns
  <2>6. R!CopyOf(o, k[1]) = [active |-> TRUE, pay |-> o.pay, role |-> l, user |-> u, at |-> clock + 1]
    BY <2>4, <2>5
  <2>7. clock + 1 \in 1..(plan.till + 1)
    BY <1>0, RosterRow
  <2>8. R!CopyOf(o, k[1]) \in R!RowsUntil(plan.till + 1)
    BY <2>6, <2>7, RowColumns DEF R!RowsUntil
  <2> QED BY <1>0, <2>1, <2>2, <2>3, <2>4, <2>6, <2>8, RosterRow
<1>3. \A k \in R!Keys : ~fresh(k) => new[k] = row[k]
  BY <1>1
<1>4. R!SlotsUnique(new)
  <2>1. \A k \in R!Keys : new[k] # None => new[k].user \in {None, k[2]} /\ k[3] = 1
    BY <1>2, <1>3 DEF Own, R!Present
  <2> QED BY <2>1, OwnIsUnique
<1>5. row' = new
  BY <1>1, <1>4
<1>6. CASE R!Lacks(p, x)
  <2>1. <<p, x, 1>> \in R!Keys /\ fresh(<<p, x, 1>>)
    BY <1>0, <1>6, RosterKey
  <2>2. row'[<<p, x, 1>>] # None
    BY <1>2, <1>5, <2>1
  <2>3. <<p, x, 1>> \in R!RowsOf(x)'
    BY <2>1, <2>2 DEF R!RowsOf, R!Present, R!Keys
  <2> QED BY <2>3 DEF R!Roster
<1>7. CASE ~R!Lacks(p, x)
  <2>1. PICK n \in {1, 2} : row[<<p, x, n>>] # None
    BY <1>7 DEF R!Lacks
  <2>2. <<p, x, n>> \in R!Keys
    BY RosterKey
  <2>3. row'[<<p, x, n>>] # None
    BY <1>2, <1>3, <1>5, <2>1, <2>2
  <2>4. <<p, x, n>> \in R!RowsOf(x)'
    BY <2>2, <2>3 DEF R!RowsOf, R!Present, R!Keys
  <2> QED BY <2>4 DEF R!Roster
<1> QED BY <1>6, <1>7

LEMMA RosterLists ==
    ASSUME R!Constants, RosterInv, NEW s \in Slots, NEW p, R!List(s, p)
    PROVE  RosterInv'
<1>0. RosterTypes /\ Tidy
  BY RosterParts
<1>1. /\ R!Enroll({p}, Persons) /\ UNCHANGED <<sites, roles, members, profile, plan, at, errand>>
      /\ plan.alone => R!Quiet
  BY DEF R!List, R!CanServe, R!Alone
<1>2. Shared /\ Tidy'
  BY <1>1, EnrolShares
<1>3. RosterTypes'
  BY <1>0, <1>1, <1>2, TypesRest
<1>4. (plan.alone => OneByOne)'
  BY <1>0, <1>1, RestsAlone
<1>5. (Listed => Listing)'
  <2> SUFFICES ASSUME Listed PROVE Listing'
    BY <1>1 DEF Listed, Dependable, R!ByHand
  <2>1. Everywhere /\ \A x \in Persons : profile[x].rate = 0
    BY <1>1, QuietOwesNothing DEF Listed
  <2>2. \A x \in Persons : R!ActiveRows(x)' # {} => R!ActiveRows(x) # {}
    BY <1>1, <2>1, EnrolsWorkers
  <2>3. \A x \in Persons : R!Roster(x) \subseteq R!Roster(x)'
    BY <1>2 DEF Shared, Grown, R!Roster, R!RowsOf, R!Present
  <2> QED BY <1>1, <2>1, <2>2, <2>3 DEF Listing, Everywhere
<1>6. (Agreed => Agreeing)'
  <2> SUFFICES ASSUME Agreed PROVE Agreeing'
    BY <1>1 DEF Agreed, Dependable
  <2>1. Alike'
    BY <1>1, QuietOwesNothing, EnrolsAlike DEF Agreed
  <2> QED BY <2>1 DEF Alike, Agreeing
<1> QED BY <1>2, <1>3, <1>4, <1>5, <1>6 DEF RosterInv, Tidy, Listed, Agreed

(* A copy that ends a request pays what the request owed.                  *)
LEMMA CopyEnds ==
    ASSUME R!Constants, RosterInv, NEW s \in Slots, at[s] \in {"copy", "fill"}, NEW ps, NEW xs, R!Enroll(ps, xs),
           R!End(s), UNCHANGED <<sites, roles, members, profile, plan>>,
           \A x \in Persons, p \in sites : Owes(s, x, p) => x \in xs /\ p \in ps
    PROVE  RosterInv'
<1>0. RosterTypes /\ Tidy /\ (plan.alone => OneByOne)
  BY RosterParts
<1> PICK j : j = R!NoJob
  OBVIOUS
<1>1. Moves(s, "idle", j) /\ j \in Errands
  BY NothingToDo DEF R!End, R!Goto, Moves
<1>2. Shared /\ Tidy'
  BY EnrolShares
<1>3. RosterTypes'
  <2>1. Works("idle", j)' /\ "idle" \in RosterSteps
    BY DEF Works, RosterSteps
  <2> QED BY <1>0, <1>1, <1>2, <2>1, TypesMove
<1>4. (plan.alone => OneByOne)'
  <2>1. Follows("idle", j)'
    BY DEF Follows
  <2> QED BY <1>0, <1>1, <2>1, MovesAlone
<1>5. plan.alone => \A t \in Slots : t # s => at[t] = "idle"
  BY <1>0, OthersRest
<1>6. (Listed => Listing)'
  <2> SUFFICES ASSUME Listed PROVE Listing'
    BY DEF Listed, Dependable, R!ByHand
  <2>1. Listing /\ Own
    BY <1>0, RosterParts DEF Tidy, Listed
  <2>2. \A k \in R!Present : k[3] = 1
    <3> TAKE k \in R!Present
    <3>1. k \in R!Keys /\ row[k] # None /\ k = <<k[1], k[2], k[3]>> /\ k[1] \in Projects /\ k[2] \in Persons /\ k[3] \in {1, 2}
      BY RosterKey DEF R!Present
    <3>2. row[<<k[1], k[2], 2>>] = None
      BY <1>0, <3>1 DEF Tidy, R!OneRowPerSite, R!Alone, Listed
    <3> QED BY <3>1, <3>2
  <2>3. ASSUME NEW x \in Persons, NEW p \in sites, R!ActiveRows(x)' # {} PROVE p \in R!Roster(x)'
    <3>1. R!ActiveRows(x) # {}
      BY <2>1, <2>3, EnrolsWorkers DEF Listing
    <3>2. CASE p \in R!Roster(x)
      BY <1>2, <3>2 DEF Shared, Grown, R!Roster, R!RowsOf, R!Present
    <3>3. CASE p \notin R!Roster(x)
      <4>1. PICK t \in Slots : Owes(t, x, p)
        BY <2>1, <3>1, <3>3 DEF Listing
      <4>2. Owes(s, x, p) /\ p \in Projects
        BY <1>0, <1>5, <4>1 DEF Owes, Listed, RosterTypes, R!TypeOK
      <4>3. x \in xs /\ p \in ps
        BY <4>2
      <4> QED BY <2>1, <2>2, <3>1, <4>2, <4>3, EverybodyEnrolled
    <3> QED BY <3>2, <3>3
  <2> QED BY <2>1, <2>3 DEF Listing
<1>7. (Agreed => Agreeing)'
  <2> SUFFICES ASSUME Agreed PROVE Agreeing'
    BY DEF Agreed, Dependable
  <2>1. \A x \in Persons : \A ops : ~Spreads(ops, x)
    BY <1>5 DEF Spreads, Agreed
  <2>2. Alike
    BY <2>1, RosterParts DEF Agreeing, Alike
  <2>3. Alike'
    BY <2>2, EnrolsAlike
  <2> QED BY <2>3 DEF Alike, Agreeing
<1> QED BY <1>2, <1>3, <1>4, <1>6, <1>7 DEF RosterInv, Tidy, Listed, Agreed

LEMMA RosterCopies ==
    ASSUME R!Constants, RosterInv, NEW s \in Slots, R!CopyToSites(s) \/ R!Fill(s)
    PROVE  RosterInv'
<1>0. RosterTypes
  BY RosterParts
<1>1. CASE R!Fails
  <2>1. /\ R!End(s) /\ at[s] # "idle" /\ UNCHANGED <<sites, roles, members, plan, row, clock, profile>>
        /\ "fail" \in plan.ops
    BY <1>1 DEF R!CopyToSites, R!Fill, R!Fails
  <2>2. AtRest
    BY <1>0, <2>1 DEF AtRest, RosterTypes, R!TypeOK, Profiles
  <2> QED BY <2>1, <2>2, GivesUp DEF Dependable
<1>2. CASE R!CopyToSites(s) /\ ~R!Fails
  <2>1. /\ R!Enroll(sites, {errand[s].key[2]}) /\ at[s] = "copy" /\ R!End(s)
        /\ UNCHANGED <<sites, roles, members, profile, plan>>
    BY <1>2 DEF R!CopyToSites
  <2>2. \A x \in Persons, p \in sites : Owes(s, x, p) => x \in {errand[s].key[2]} /\ p \in sites
    BY <2>1 DEF Owes
  <2> QED BY <2>1, <2>2, CopyEnds
<1>3. CASE R!Fill(s) /\ ~R!Fails
  <2>1. /\ R!Enroll({errand[s].key[1]}, Persons) /\ at[s] = "fill" /\ R!End(s)
        /\ UNCHANGED <<sites, roles, members, profile, plan>>
    BY <1>3 DEF R!Fill
  <2>2. \A x \in Persons, p \in sites : Owes(s, x, p) => x \in Persons /\ p \in {errand[s].key[1]}
    BY <2>1 DEF Owes
  <2> QED BY <2>1, <2>2, CopyEnds
<1> QED BY <1>1, <1>2, <1>3

--------------------------------------------------------------------------------
LEMMA RosterBegins ==
    ASSUME R!Constants, R!Init
    PROVE  RosterInv
<1>1. R!TypeOK
  BY DEF R!Init, R!TypeOK, R!Constants, R!Rates
<1>2. R!Present = {} /\ \A s \in Slots : at[s] = "idle" /\ errand[s] = R!NoJob
  BY DEF R!Init, R!Present
<1>3. RosterTypes
  <2>1. errand \in [Slots -> Errands]
    BY NothingToDo DEF R!Init
  <2> QED BY <1>1, <1>2, <2>1 DEF RosterTypes, Works
<1>4. Tidy
  BY <1>2, RosterKey DEF Tidy, Onsite, R!SlotsUnique, R!OneRowPerSite, Own, R!Present
<1>5. OneByOne
  BY <1>2 DEF OneByOne, Follows
<1>6. Listed => Listing
  BY <1>2 DEF R!Init, Listed, R!ByHand, Listing, R!ActiveRows, R!RowsOf
<1>7. Agreeing
  BY <1>2 DEF Agreeing, R!RowsOf
<1> QED BY <1>3, <1>4, <1>5, <1>6, <1>7, RosterParts

LEMMA RosterMoves ==
    ASSUME R!Constants, RosterInv, R!Next
    PROVE  RosterInv'
<1>1. ASSUME NEW s \in Slots, R!Step(s) PROVE RosterInv'
  <2>1. CASE \E p \in Projects, x \in plan.people, rate \in {0} \cup R!Rates, r \in LaborRoles \cup {None} : R!Create(s, p, x, rate, r)
    <3>1. plan.people \subseteq Persons
      BY RosterParts DEF RosterTypes, R!TypeOK, R!Constants
    <3> QED BY <2>1, <3>1, RosterCreates
  <2>2. CASE \E k \in R!Keys : R!Rename(s, k) \/ R!Restart(s, k) \/ R!Stop(s, k)
    BY <2>2, RosterReads, RosterStops
  <2>3. CASE \E k \in R!Present, r \in LaborRoles \cup {None} : R!ChangeRole(s, k, r)
    BY <2>3, RosterReads
  <2>4. CASE \E k \in R!Present, a \in Holders \cup {None} : R!Link(s, k, a)
    BY <2>4, RosterReads
  <2>5. CASE \E p \in Projects : R!Open(s, p) \/ R!List(s, p)
    BY <2>5, RosterOpens, RosterLists
  <2>6. CASE R!Insert(s) \/ R!Write(s) \/ R!Reach(s) \/ R!Spread(s) \/ R!CopyToSites(s) \/ R!Fill(s)
    BY <2>6, RosterInserts, RosterWrites, RosterReaches, RosterSpreads, RosterCopies
  <2> QED BY <1>1, <2>1, <2>2, <2>3, <2>4, <2>5, <2>6 DEF R!Step
<1>2. CASE \E x \in plan.people, listed \in BOOLEAN, rate \in R!Rates : R!SetProfile(x, listed, rate)
  <2>1. plan.people \subseteq Persons
    BY RosterParts DEF RosterTypes, R!TypeOK, R!Constants
  <2> QED BY <1>2, <2>1, RosterDirectory
<1>3. CASE \E k \in R!Keys, rate \in R!Rates : R!SetRate(k, rate)
  BY <1>3, RosterRate
<1>4. CASE \E r \in LaborRoles : R!DropRole(r)
  BY <1>4, RosterDropsRole
<1>5. CASE \E a \in Holders : R!Leave(a)
  BY <1>5, RosterLeaves
<1> QED BY <1>1, <1>2, <1>3, <1>4, <1>5 DEF R!Next

LEMMA RosterStutters ==
    ASSUME RosterInv, UNCHANGED <<row, at, rvars>>
    PROVE  RosterInv'
<1> USE DEF rvars
<1>1. UNCHANGED <<R!Rows, R!Keys, R!Present>> /\ \A x : UNCHANGED <<R!RowsOf(x), R!ActiveRows(x), R!Roster(x)>>
  BY DEF R!Rows, R!RowsUntil, R!Keys, R!Present, R!RowsOf, R!ActiveRows, R!Roster
<1>2. RosterTypes'
  <2>1. R!TypeOK'
    BY <1>1 DEF RosterInv, RosterTypes, R!TypeOK
  <2>2. \A s \in Slots : Works(at[s], errand[s])'
    BY <1>1 DEF RosterInv, RosterTypes, Works
  <2> QED BY <1>1, <2>1, <2>2 DEF RosterInv, RosterTypes, Errands
<1>3. Tidy'
  BY RosterParts, <1>1 DEF Tidy, Onsite, R!SlotsUnique, R!OneRowPerSite, R!Alone, Own
<1>4. (plan.alone => OneByOne)'
  BY <1>1 DEF RosterInv, OneByOne, Follows, R!Lacks
<1>5. (Listed => Listing)'
  BY RosterParts, <1>1 DEF Listed, Dependable, R!ByHand, Listing, Owes
<1>6. (Agreed => Agreeing)'
  BY RosterParts, <1>1 DEF Agreed, Dependable, Agreeing, Spreads
<1> QED BY <1>2, <1>3, <1>4, <1>5, <1>6 DEF RosterInv, Tidy, Listed, Agreed

(* While the roster is exercised, whatever requests do to it: everybody is *)
(* at a step of their request with the row it is about, rows are on sites  *)
(* of the company and under its roles, and one after another every debt of *)
(* a copy is a request's that is under way (the labor routes and the       *)
(* repository's copies under the advisory lock).                           *)
THEOREM RosterInvariant == MCSpec => [](part = "roster" => RosterInv)
<1>1. R!Constants
  BY RosterConstants
<1>2. MCInit => (part = "roster" => RosterInv)
  BY <1>1, RosterBegins DEF MCInit
<1>3. (part = "roster" => RosterInv) /\ [MCNext]_allvars => (part = "roster" => RosterInv)'
  <2> SUFFICES ASSUME part = "roster" => RosterInv, [MCNext]_allvars, part' = "roster" PROVE RosterInv'
    OBVIOUS
  <2>1. part = "roster" /\ RosterInv
    BY DEF MCNext, allvars
  <2>2. CASE R!Next
    BY <1>1, <2>1, <2>2, RosterMoves
  <2>3. CASE UNCHANGED <<row, at, rvars>>
    BY <2>1, <2>3, RosterStutters
  <2> QED BY <2>1, <2>2, <2>3 DEF MCNext, allvars
<1> QED BY <1>2, <1>3, PTL DEF MCSpec

(* For any sites, persons, roles and requests: nobody has two rows on a    *)
(* site unless requests that add them overlap; and where requests come one *)
(* after another and no copy fails, whoever works is listed on every site, *)
(* and a stop, a restart or a change of role has reached all of them.      *)
THEOREM EverySiteHasOneCrew == MCSpec => []OneCrew
<1>1. (part = "roster" => RosterInv) => OneCrew
  <2> SUFFICES ASSUME RosterInv PROVE R!TypeOK /\ R!OneRowPerSite /\ R!ListedEverywhere /\ R!SitesAgree
    BY DEF OneCrew
  <2>1. R!TypeOK /\ R!OneRowPerSite
    BY DEF RosterInv, RosterTypes
  <2>2. R!ListedEverywhere
    <3> SUFFICES ASSUME R!Quiet, Listed, NEW x \in Persons, R!ActiveRows(x) # {}
                 PROVE  R!Roster(x) = sites
      BY DEF R!ListedEverywhere, R!Reliable, R!Alone, Listed, Dependable
    <3>1. sites \subseteq R!Roster(x)
      BY QuietOwesNothing DEF Everywhere
    <3>2. R!Roster(x) \subseteq sites
      BY DEF RosterInv, Onsite, R!Roster, R!RowsOf
    <3> QED BY <3>1, <3>2
  <2>3. R!SitesAgree
    BY QuietOwesNothing DEF R!SitesAgree, R!Reliable, R!Alone, Agreed, Dependable, Alike
  <2> QED BY <2>1, <2>2, <2>3
<1> QED BY <1>1, RosterInvariant, PTL

(* No step takes a row away.                                               *)
LEMMA RowsStay ==
    ASSUME R!Constants, RosterInv, R!Next, NEW l \in R!Present
    PROVE  row'[l] # None
<1>0. /\ RosterTypes /\ Tidy /\ l \in R!Keys /\ row[l] # None /\ row[l] \in R!Rows /\ None \notin R!Rows
      /\ row[l] = [active |-> row[l].active, pay |-> row[l].pay, role |-> row[l].role, user |-> row[l].user, at |-> row[l].at]
  BY RosterParts, RosterRow, RowColumns DEF R!Present
<1>1. R!Tick => clock + 1 \in 1..plan.till
  BY <1>0, RosterRow DEF R!Tick
<1> SUFFICES ASSUME row'[l] = None PROVE FALSE
  OBVIOUS
<1>2. ASSUME NEW ps, NEW xs, R!Enroll(ps, xs), plan' = plan PROVE FALSE
  BY <1>0, <1>2, Enrolled DEF Tidy
<1>3. ASSUME NEW k, NEW new \in R!Rows, row' = [row EXCEPT ![k] = new] PROVE FALSE
  BY <1>0, <1>3 DEF RosterTypes, R!TypeOK
<1>4. ASSUME NEW s \in Slots, R!Step(s) PROVE FALSE
  <2>0. Works(at[s], errand[s]) /\ (at[s] \in {"insert", "write"} => errand[s].new \in R!Rows)
    BY <1>0 DEF RosterTypes, Works
  <2>1. CASE R!Insert(s)
    <3>1. PICK k : R!Tick /\ row' = [row EXCEPT ![k] = [errand[s].new EXCEPT !.at = clock + 1]]
      BY <1>0, <2>1 DEF R!Insert
    <3>2. [errand[s].new EXCEPT !.at = clock + 1] \in R!Rows
      BY <1>1, <2>0, <2>1, <3>1 DEF R!Insert, R!Rows, R!RowsUntil
    <3> QED BY <1>3, <3>1, <3>2
  <2>2. CASE R!Write(s)
    <3>1. /\ R!Tick /\ errand[s].key \in R!Present /\ errand[s].new \in R!Rows
          /\ row' = [row EXCEPT ![errand[s].key] = [errand[s].new EXCEPT !.pay = row[errand[s].key].pay, !.at = clock + 1]]
      BY <1>0, <2>0, <2>2 DEF R!Write, Works
    <3>2. PICK r \in R!Rows, y \in R!Rates : r = errand[s].new /\ y = row[errand[s].key].pay
      BY <1>0, <3>1, RosterRow, RowColumns
    <3>3. r = [active |-> r.active, pay |-> r.pay, role |-> r.role, user |-> r.user, at |-> r.at]
      BY RowColumns
    <3>4. PICK e : e = [r EXCEPT !.pay = y, !.at = clock + 1]
      OBVIOUS
    <3>5. e \in R!Rows
      BY <1>1, <3>1, <3>3, <3>4, RowColumns DEF R!Rows, R!RowsUntil
    <3> QED BY <1>3, <3>1, <3>2, <3>4, <3>5
  <2>3. CASE R!Spread(s)
    <3>1. Works("spread", errand[s]) /\ errand[s].key[2] \in Persons /\ plan' = plan
      BY <1>0, <2>3, RosterKey DEF RosterTypes, Works, R!Spread
    <3>2. ASSUME NEW on \in BOOLEAN, R!SetActive(errand[s].key[2], errand[s].reach, on) PROVE FALSE
      BY <1>0, <3>1, <3>2, ActiveSpreads DEF Tidy
    <3>3. ~\E r : R!SetRole(errand[s].key[2], errand[s].reach, r)
      BY <1>0, <3>1, RoleSpreads DEF Tidy
    <3>4. ~R!SetActive(errand[s].key[2], errand[s].reach, TRUE)
      BY <3>2
    <3>5. ~R!SetActive(errand[s].key[2], errand[s].reach, FALSE)
      <4>1. PICK on \in BOOLEAN : on = FALSE
        OBVIOUS
      <4> QED BY <3>2, <4>1
    <3> QED BY <1>0, <2>3, <3>3, <3>4, <3>5 DEF R!Spread, R!Fails
  <2>4. CASE R!CopyToSites(s) \/ R!Fill(s)
    BY <1>0, <1>2, <2>4 DEF R!CopyToSites, R!Fill, R!Fails
  <2>5. CASE \E p \in Projects : R!Open(s, p) \/ R!List(s, p)
    BY <1>0, <1>2, <2>5 DEF R!Open, R!List
  <2>6. CASE \E k \in R!Keys : R!Rename(s, k) \/ R!Restart(s, k) \/ R!Stop(s, k)
    <3>1. PICK k \in R!Keys : R!Stop(s, k)
      BY <1>0, <2>6 DEF R!Rename, R!Restart, R!Read, R!Same
    <3>2. row' = [row EXCEPT ![k].active = FALSE, ![k].user = None, ![k].at = clock + 1] /\ R!Tick
      BY <3>1 DEF R!Stop
    <3>3. k = l
      BY <1>0, <3>2 DEF RosterTypes, R!TypeOK
    <3>4. row'[l] = [active |-> FALSE, pay |-> row[l].pay, role |-> row[l].role, user |-> None, at |-> clock + 1]
      BY <1>0, <3>2, <3>3 DEF RosterTypes, R!TypeOK
    <3>5. row'[l] \in R!Rows
      BY <1>0, <1>1, <3>2, <3>4, RowColumns DEF R!Rows, R!RowsUntil
    <3> QED BY <1>0, <3>5
  <2>7. CASE \/ \E k \in R!Present, r \in LaborRoles \cup {None} : R!ChangeRole(s, k, r)
             \/ \E k \in R!Present, a \in Holders \cup {None} : R!Link(s, k, a)
    BY <1>0, <2>7 DEF R!ChangeRole, R!Link, R!Read, R!Same
  <2>8. CASE R!Reach(s) \/ \E p \in Projects, y \in plan.people, rate \in {0} \cup R!Rates, r \in LaborRoles \cup {None} :
                              R!Create(s, p, y, rate, r)
    BY <1>0, <2>8 DEF R!Reach, R!Same, R!Create
  <2> QED BY <1>4, <2>1, <2>2, <2>3, <2>4, <2>5, <2>6, <2>7, <2>8 DEF R!Step
<1>5. ~(\E y \in plan.people, listed \in BOOLEAN, rate \in R!Rates : R!SetProfile(y, listed, rate))
  BY <1>0 DEF R!SetProfile
<1>6. ~(\E k \in R!Keys, rate \in R!Rates : R!SetRate(k, rate))
  <2> SUFFICES ASSUME NEW k \in R!Keys, NEW rate \in R!Rates, R!SetRate(k, rate) PROVE FALSE
    OBVIOUS
  <2>1. row' = [row EXCEPT ![k].pay = rate, ![k].at = clock + 1] /\ R!Tick
    BY DEF R!SetRate
  <2>2. k = l
    BY <1>0, <2>1 DEF RosterTypes, R!TypeOK
  <2>3. row'[l] = [active |-> row[l].active, pay |-> rate, role |-> row[l].role, user |-> row[l].user, at |-> clock + 1]
    BY <1>0, <2>1, <2>2 DEF RosterTypes, R!TypeOK
  <2>4. row'[l] \in R!Rows
    BY <1>0, <1>1, <2>1, <2>3, RowColumns DEF R!Rows, R!RowsUntil
  <2> QED BY <1>0, <2>4
<1>7. ~(\E r \in LaborRoles : R!DropRole(r)) /\ ~(\E a \in Holders : R!Leave(a))
  <2>1. [row[l] EXCEPT !.role = None] \in R!Rows /\ [row[l] EXCEPT !.user = None] \in R!Rows
    BY <1>0 DEF R!Rows, R!RowsUntil
  <2> QED BY <1>0, <2>1 DEF R!DropRole, R!Leave, R!Unlinked
<1> QED BY <1>4, <1>5, <1>6, <1>7 DEF R!Next

(* Whom a step puts back to work on some site.                             *)
LEMMA OnlyAsked ==
    ASSUME R!Constants, RosterInv, plan.alone, R!Next, NEW x \in Persons, R!RowsOf(x) # {}, R!ActiveRows(x) = {},
           NEW k \in R!Keys, k[2] = x, row'[k] # None, row'[k].active
    PROVE  R!WantedBack(x)
<1>0. RosterTypes /\ Tidy /\ OneByOne
  BY RosterParts
<1>1. ~(row[k] # None /\ row[k].active)
  BY DEF R!ActiveRows, R!RowsOf, R!Present
<1>2. row'[k] # row[k]
  BY <1>1
<1>3. ASSUME NEW ps, NEW xs, R!Enroll(ps, xs), plan' = plan PROVE FALSE
  <2>1. row[k] = None => R!Sources(x) # {}
    BY <1>0, <1>3, Enrolled DEF Tidy
  <2>2. row[k] # None => row'[k] = row[k]
    BY <1>0, <1>3, Enrolled DEF Tidy, R!Present
  <2> QED BY <1>2, <2>1, <2>2 DEF R!Sources
<1>4. ASSUME NEW s \in Slots, R!Step(s) PROVE R!WantedBack(x)
  <2>1. CASE R!Insert(s)
    <3>1. Works("insert", errand[s])
      BY <1>0, <2>1 DEF RosterTypes, R!Insert
    <3>2. k[2] = errand[s].key[2]
      BY <1>0, <1>2, <2>1 DEF R!Insert, RosterTypes, R!TypeOK
    <3> QED BY <3>1, <3>2 DEF Works, R!WantedBack
  <2>2. CASE R!Write(s)
    <3>1. Works("write", errand[s]) /\ Follows("write", errand[s])
      BY <1>0, <2>2 DEF RosterTypes, OneByOne, R!Write
    <3>2. k = errand[s].key /\ row'[k] = [errand[s].new EXCEPT !.pay = row[k].pay, !.at = clock + 1]
      BY <1>0, <1>2, <2>2 DEF R!Write, RosterTypes, R!TypeOK
    <3>3. errand[s].new \in R!Rows
      BY <3>1 DEF Works
    <3>4. row'[k].active = errand[s].new.active
      BY <3>2, <3>3, RowColumns
    <3>5. errand[s].op = "restart"
      BY <1>1, <3>1, <3>2, <3>4 DEF Works, Follows, R!Present
    <3> QED BY <3>2, <3>5 DEF R!WantedBack
  <2>3. CASE R!Spread(s)
    <3>1. Works("spread", errand[s]) /\ errand[s].key[2] \in Persons /\ plan' = plan
      BY <1>0, <2>3, RosterKey DEF RosterTypes, Works, R!Spread
    <3>2. CASE errand[s].op = "restart"
      <4>1. R!SetActive(errand[s].key[2], errand[s].reach, TRUE)
        BY <1>2, <2>3, <3>2 DEF R!Spread, R!Fails
      <4>2. k[2] = errand[s].key[2]
        BY <1>2, <4>1 DEF R!SetActive, R!RowsOf
      <4> QED BY <3>2, <4>2 DEF R!WantedBack
    <3>3. CASE errand[s].op = "stop"
      <4>1. R!SetActive(errand[s].key[2], errand[s].reach, FALSE)
        BY <1>2, <2>3, <3>3 DEF R!Spread, R!Fails
      <4>2. PICK on \in BOOLEAN : on = FALSE
        OBVIOUS
      <4>3. R!SetActive(errand[s].key[2], errand[s].reach, on)
        BY <4>1, <4>2
      <4>4. /\ \A l \in R!Keys : row'[l] = None <=> row[l] = None
            /\ \A l \in R!Present : row'[l].active = row[l].active \/ row'[l].active = on
        BY <1>0, <3>1, <4>3, ActiveSpreads DEF Tidy
      <4>5. k \in R!Present
        BY <4>4 DEF R!Present
      <4> QED BY <1>1, <4>2, <4>4, <4>5 DEF R!Present
    <3>4. CASE errand[s].op = "role"
      <4>1. R!SetRole(errand[s].key[2], errand[s].reach, errand[s].new.role)
        BY <1>2, <2>3, <3>4 DEF R!Spread, R!Fails
      <4>2. k \in R!Present /\ row'[k].active = row[k].active
        BY <1>0, <3>1, <4>1, RoleSpreads DEF R!Present
      <4> QED BY <1>1, <4>2 DEF R!Present
    <3> QED BY <3>1, <3>2, <3>3, <3>4 DEF Works
  <2>4. CASE R!CopyToSites(s) \/ R!Fill(s)
    BY <1>2, <1>3, <2>4 DEF R!CopyToSites, R!Fill, R!Fails
  <2>5. CASE \E p \in Projects : R!Open(s, p) \/ R!List(s, p)
    BY <1>2, <1>3, <2>5 DEF R!Open, R!List
  <2>6. CASE \E l \in R!Keys : R!Rename(s, l) \/ R!Restart(s, l) \/ R!Stop(s, l)
    <3>1. PICK l \in R!Keys : R!Stop(s, l)
      BY <1>2, <2>6 DEF R!Rename, R!Restart, R!Read, R!Same
    <3>2. row' = [row EXCEPT ![l].active = FALSE, ![l].user = None, ![l].at = clock + 1] /\ l \in R!Present
      BY <3>1 DEF R!Stop
    <3>3. k = l
      BY <1>0, <1>2, <3>2 DEF RosterTypes, R!TypeOK
    <3>4. row[k] = [active |-> row[k].active, pay |-> row[k].pay, role |-> row[k].role, user |-> row[k].user, at |-> row[k].at]
      BY <1>0, <3>2, <3>3, RosterRow, RowColumns
    <3>5. row'[k] = [active |-> FALSE, pay |-> row[k].pay, role |-> row[k].role, user |-> None, at |-> clock + 1]
      BY <1>0, <3>2, <3>3, <3>4 DEF RosterTypes, R!TypeOK
    <3> QED BY <3>5
  <2>7. CASE \/ \E l \in R!Present, r \in LaborRoles \cup {None} : R!ChangeRole(s, l, r)
             \/ \E l \in R!Present, a \in Holders \cup {None} : R!Link(s, l, a)
    BY <1>2, <2>7 DEF R!ChangeRole, R!Link, R!Read, R!Same
  <2>8. CASE R!Reach(s) \/ \E p \in Projects, y \in plan.people, rate \in {0} \cup R!Rates, r \in LaborRoles \cup {None} :
                              R!Create(s, p, y, rate, r)
    BY <1>2, <2>8 DEF R!Reach, R!Same, R!Create
  <2> QED BY <1>4, <2>1, <2>2, <2>3, <2>4, <2>5, <2>6, <2>7, <2>8 DEF R!Step
<1>5. ~(\E y \in plan.people, listed \in BOOLEAN, rate \in R!Rates : R!SetProfile(y, listed, rate))
  BY <1>2 DEF R!SetProfile
<1>6. ~(\E l \in R!Keys, rate \in R!Rates : R!SetRate(l, rate))
  <2> SUFFICES ASSUME NEW l \in R!Keys, NEW rate \in R!Rates, R!SetRate(l, rate) PROVE FALSE
    OBVIOUS
  <2>1. row' = [row EXCEPT ![l].pay = rate, ![l].at = clock + 1] /\ l \in R!Present
    BY DEF R!SetRate
  <2>2. k = l
    BY <1>0, <1>2, <2>1 DEF RosterTypes, R!TypeOK
  <2>3. row[k] = [active |-> row[k].active, pay |-> row[k].pay, role |-> row[k].role, user |-> row[k].user, at |-> row[k].at]
    BY <1>0, <2>1, <2>2, RosterRow, RowColumns
  <2>4. row'[k].active = row[k].active
    BY <1>0, <2>1, <2>2, <2>3 DEF RosterTypes, R!TypeOK
  <2> QED BY <1>1, <2>1, <2>2, <2>4 DEF R!Present
<1>7. ~(\E r \in LaborRoles : R!DropRole(r)) /\ ~(\E a \in Holders : R!Leave(a))
  <2>1. k \in R!Present => /\ [row[k] EXCEPT !.role = None].active = row[k].active
                           /\ [row[k] EXCEPT !.user = None].active = row[k].active
    BY <1>0, RosterRow DEF R!Rows, R!RowsUntil
  <2>2. k \in R!Present => ~row[k].active
    BY <1>1 DEF R!Present
  <2>3. (\E r \in LaborRoles : R!DropRole(r)) =>
            k \in R!Present /\ (row'[k] = row[k] \/ row'[k] = [row[k] EXCEPT !.role = None])
    BY <1>2 DEF R!DropRole
  <2>4. (\E a \in Holders : R!Leave(a)) =>
            k \in R!Present /\ (row'[k] = row[k] \/ row'[k] = [row[k] EXCEPT !.user = None])
    BY <1>2 DEF R!Leave, R!Unlinked
  <2> QED BY <2>1, <2>2, <2>3, <2>4
<1> QED BY <1>4, <1>5, <1>6, <1>7 DEF R!Next

(* For any sites, persons and requests that come one after another: who    *)
(* was stopped on every site stays so through copies, lists and new sites  *)
(* until a request restarts them or adds them by hand.                     *)
THEOREM StoppedStayStopped == MCSpec => StopHolds
<1>1. R!Constants
  BY RosterConstants
<1>2. ASSUME part = "roster" => RosterInv, [MCNext]_allvars
      PROVE  [part = "roster" /\ R!Alone => R!StayStopped]_allvars
  <2> SUFFICES ASSUME MCNext, part = "roster", plan.alone, NEW x \in Persons, R!Stopped(x), ~R!Stopped(x)'
               PROVE  R!WantedBack(x)
    BY <1>2 DEF R!StayStopped, R!Alone
  <2>1. RosterInv /\ R!Next
    BY <1>2 DEF MCNext
  <2>2. RosterInv'
    BY <1>1, <2>1, RosterMoves
  <2>3. PICK l \in R!RowsOf(x) : TRUE
    BY DEF R!Stopped
  <2>4. R!RowsOf(x) # {} /\ R!ActiveRows(x) = {}
    BY DEF R!Stopped
  <2>5. R!RowsOf(x)' # {}
    BY <1>1, <2>1, <2>3, RowsStay DEF R!RowsOf, R!Present, R!Keys
  <2>6. PICK k : k \in R!ActiveRows(x)'
    BY <2>5 DEF R!Stopped
  <2>7. k \in R!Keys /\ k[2] = x /\ row'[k] # None /\ row'[k].active
    BY <2>6 DEF R!ActiveRows, R!RowsOf, R!Present, R!Keys
  <2> QED BY <1>1, <2>1, <2>4, <2>7, OnlyAsked
<1> QED BY <1>2, RosterInvariant, PTL DEF MCSpec, StopHolds
================================================================================
