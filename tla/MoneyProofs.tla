------------------------------- MODULE MoneyProofs -------------------------------
(***************************************************************************)
(* Proofs about the expenses of a project, for every set of amounts, every *)
(* number of requests at a time and every class of behaviours.             *)
(***************************************************************************)
EXTENDS MCMoney, FiniteSetTheorems, WellFoundedInduction, TLAPS

--------------------------------------------------------------------------------
(* Refunds: the release that mirrors a bank refund.                        *)

RefundSteps == {"idle", "look", "insert", "unlink", "persist", "refetch", "compensate", "flagged", "drop"}

(* Which request is at which step, and what it leaves as it found it.      *)
Asks(step, j) ==
    /\ step \in {"look", "insert", "unlink", "refetch", "compensate"} => j.op = "status"
    /\ step = "flagged" => j.op = "method"
    /\ step = "drop" => j.op = "delete"
    /\ j.op = "delete" => step = "drop"
    /\ j.op # "status" => j.new.status = j.base.status /\ j.base.status # "refunded"
    /\ j.op = "total" => j.new.method = j.base.method
    /\ j.op = "method" /\ step = "persist" => ~j.new.method
    /\ j.op # "total" => j.new.total = j.base.total

(* What a request that is served alone knows: the expense e is the one it  *)
(* found, and the release r is on its way to what the new status says.     *)
Knows(step, j, e, r) ==
    /\ e # None /\ j.base = e
    /\ step \in {"look", "insert"} => F!ByBank(j.new)
    /\ step = "unlink" => ~F!ByBank(j.new)
    /\ step = "insert" => j.new.total > 0
    /\ step = "refetch" => (r # None <=> F!ByBank(j.new))
    /\ step = "persist" /\ j.op = "status" =>
           F!ByBank(j.new) /\ (j.new.total > 0 => r # None)

(* Between two requests, and inside one until it has touched the release.  *)
Mirror(step, e, r, s) ==
    /\ ~s /\ step # "compensate"
    /\ r # None => e # None /\ r = e.total
    /\ step # "refetch" => F!Matched(e, r)

(* No status is asked for: the one that a request found is still there.    *)
Tracks(step, j, e) == step # "idle" /\ e # None => j.base.status = e.status
PaidOnce(e, c) == e # None /\ e.method /\ c => ~F!Tracked(e)

RefundTypes ==
    /\ F!TypeOK
    /\ pc \in [Slots -> RefundSteps]
    /\ job \in [Slots -> F!Jobs \cup {None}]
Asking == \A t \in Slots : pc[t] # "idle" => Asks(pc[t], job[t]) /\ job[t].op \in mix.ops
Serial == \A s, t \in Slots : pc[s] # "idle" /\ pc[t] # "idle" => s = t
Knowing == \A t \in Slots : pc[t] # "idle" => Knows(pc[t], job[t], expense, release)
Mirrored ==
    /\ F!Quiet => Mirror("idle", expense, release, stray)
    /\ \A t \in Slots : pc[t] # "idle" => Mirror(pc[t], expense, release, stray)
Tracking == (\A t \in Slots : Tracks(pc[t], job[t], expense)) /\ PaidOnce(expense, company)

RefundInv ==
    /\ RefundTypes
    /\ Asking
    /\ mix.alone => Serial /\ Knowing
    /\ mix.alone /\ mix.faults = {} => Mirrored
    /\ "status" \notin mix.ops => Tracking

--------------------------------------------------------------------------------
(* Where an edit finds the row it read, it writes the row it means.        *)
LEMMA WrittenWhole ==
    ASSUME NEW new \in F!Rows, expense \in F!Rows
    PROVE  F!Written(new, expense) = new
<1>1. F!Written(new, expense) = [c \in DOMAIN new |-> new[c]]
  BY DEF F!Written
<1>2. new = [c \in DOMAIN new |-> new[c]]
  BY DEF F!Rows
<1> QED BY <1>1, <1>2

LEMMA WrittenRow ==
    ASSUME NEW new \in F!Rows, NEW base \in F!Rows, expense \in F!Rows
    PROVE  /\ F!Written(new, base) \in F!Rows
           /\ new.status = base.status => F!Written(new, base).status = expense.status
           /\ new.method = base.method => F!Written(new, base).method = expense.method
           /\ ~new.method /\ ~expense.method => ~F!Written(new, base).method
<1> DEFINE w == F!Written(new, base)
<1>1. DOMAIN new = {"total", "status", "by", "method"}
  BY DEF F!Rows
<1>2. /\ w.total = IF new.total # base.total THEN new.total ELSE expense.total
      /\ w.status = IF new.status # base.status THEN new.status ELSE expense.status
      /\ w.by = IF new.by # base.by THEN new.by ELSE expense.by
      /\ w.method = IF new.method # base.method THEN new.method ELSE expense.method
  BY <1>1 DEF F!Written
<1>3. w = [total |-> w.total, status |-> w.status, by |-> w.by, method |-> w.method]
  BY <1>1 DEF F!Written
<1>4. w.total \in Amounts /\ w.status \in F!Statuses /\ w.by \in F!Refunders
  BY <1>2 DEF F!Rows
<1>5. w.method \in BOOLEAN
  BY <1>2 DEF F!Rows
<1>6. w \in F!Rows
  BY <1>3, <1>4, <1>5 DEF F!Rows
<1>7. new.status = base.status => w.status = expense.status
  BY <1>2
<1>8. new.method = base.method => w.method = expense.method
  BY <1>2
<1>9. ~new.method /\ ~expense.method => ~w.method
  BY <1>2
<1> QED BY <1>6, <1>7, <1>8, <1>9

LEMMA RefundInit == F!Constants /\ F!Init => RefundInv
<1> SUFFICES ASSUME F!Constants, F!Init PROVE RefundInv
  OBVIOUS
<1>1. expense \in F!Rows /\ mix \in RefundMixes
  BY DEF F!Init, F!Constants
<1>2. release \in Amounts \cup {None}
  BY <1>1 DEF F!Init, F!Rows
<1>3. RefundTypes
  BY <1>1, <1>2 DEF F!Init, RefundTypes, F!TypeOK, RefundSteps
<1>4. expense # None /\ expense.total \in Amounts /\ expense.total # None
  BY <1>1 DEF F!Constants, F!Rows
<1>5. F!Matched(expense, release) /\ (release # None => release = expense.total)
  BY <1>4 DEF F!Init, F!Matched
<1>6. Mirrored
  BY <1>4, <1>5 DEF F!Init, Mirrored, Mirror
<1>7. Tracking
  BY DEF F!Init, Tracking, Tracks, PaidOnce
<1> QED BY <1>3, <1>6, <1>7 DEF F!Init, RefundInv, Asking, Serial, Knowing

(* One request moves on, and the others stay where they are.               *)
LEMMA MovesOn ==
    ASSUME F!Constants, RefundInv,
           NEW t \in Slots, NEW step \in RefundSteps, NEW j \in F!Jobs \cup {None},
           step = "idle" <=> j = None,
           pc' = [pc EXCEPT ![t] = step], job' = [job EXCEPT ![t] = j],
           mix' = mix,
           expense' \in F!Rows \cup {None}, release' \in Amounts \cup {None},
           stray' \in BOOLEAN, company' \in BOOLEAN,
           mix.alone => \A s \in Slots \ {t} : pc[s] = "idle",
           step # "idle" => Asks(step, j) /\ j.op \in mix.ops,
           mix.alone /\ step # "idle" => Knows(step, j, expense', release'),
           mix.alone /\ mix.faults = {} => Mirror(step, expense', release', stray'),
           "status" \notin mix.ops =>
               /\ Tracks(step, j, expense') /\ PaidOnce(expense', company')
               /\ expense' # None => expense # None /\ expense'.status = expense.status
    PROVE  RefundInv'
<1>1. RefundTypes'
  <2>1. pc' \in [Slots -> RefundSteps] /\ job' \in [Slots -> F!Jobs \cup {None}]
    BY DEF RefundInv, RefundTypes
  <2>2. \A s \in Slots : (job[s] = None <=> pc[s] = "idle")'
    BY DEF RefundInv, RefundTypes, F!TypeOK
  <2>3. mix' \in RefundMixes
    BY DEF RefundInv, RefundTypes, F!TypeOK
  <2> QED BY <2>1, <2>2, <2>3 DEF RefundTypes, F!TypeOK
<1>2. \A s \in Slots \ {t} : pc'[s] = pc[s] /\ job'[s] = job[s]
  BY DEF RefundInv, RefundTypes
<1>3. pc'[t] = step /\ job'[t] = j
  BY DEF RefundInv, RefundTypes
<1>4. Asking'
  <2> SUFFICES ASSUME NEW s \in Slots, pc'[s] # "idle"
               PROVE  Asks(pc'[s], job'[s]) /\ job'[s].op \in mix'.ops
    BY DEF Asking, Asks
  <2>1. CASE s = t
    BY <2>1, <1>3
  <2>2. CASE s # t
    BY <2>2, <1>2 DEF RefundInv, Asking
  <2> QED BY <2>1, <2>2
<1>5. ASSUME mix.alone PROVE Serial' /\ Knowing'
  <2>1. \A s \in Slots \ {t} : pc'[s] = "idle"
    BY <1>2, <1>5
  <2>2. Serial'
    BY <2>1 DEF Serial
  <2>3. Knowing'
    <3> SUFFICES ASSUME NEW s \in Slots, pc'[s] # "idle"
                 PROVE  Knows(pc'[s], job'[s], expense', release')
      BY DEF Knowing, Knows
    <3>1. s = t
      BY <2>1
    <3> QED BY <3>1, <1>3, <1>5
  <2> QED BY <2>2, <2>3
<1>6. ASSUME mix.alone /\ mix.faults = {} PROVE Mirrored'
  <2>1. \A s \in Slots \ {t} : pc'[s] = "idle"
    BY <1>2, <1>6
  <2>2. Mirror(step, expense', release', stray')
    BY <1>6
  <2>3. ASSUME F!Quiet' PROVE Mirror("idle", expense', release', stray')
    <3>1. step = "idle"
      BY <2>3, <1>3 DEF F!Quiet
    <3> QED BY <3>1, <2>2
  <2>4. ASSUME NEW s \in Slots, pc'[s] # "idle" PROVE Mirror(pc'[s], expense', release', stray')
    <3>1. s = t
      BY <2>1, <2>4
    <3> QED BY <3>1, <1>3, <2>2
  <2> QED BY <2>3, <2>4 DEF Mirrored, Mirror
<1>7. ASSUME "status" \notin mix.ops PROVE Tracking'
  <2>1. ASSUME NEW s \in Slots PROVE Tracks(pc'[s], job'[s], expense')
    <3>1. CASE s = t
      BY <3>1, <1>3, <1>7
    <3>2. CASE s # t
      <4>1. Tracks(pc[s], job[s], expense)
        BY <1>7 DEF RefundInv, Tracking
      <4> QED BY <4>1, <3>2, <1>2, <1>7 DEF Tracks
    <3> QED BY <3>1, <3>2
  <2>2. PaidOnce(expense', company')
    BY <1>7
  <2> QED BY <2>1, <2>2 DEF Tracking, Tracks, PaidOnce
<1> QED BY <1>1, <1>4, <1>5, <1>6, <1>7 DEF RefundInv

LEMMA RefundFields ==
    ASSUME RefundInv, NEW t \in Slots, pc[t] # "idle"
    PROVE  /\ job[t] \in F!Jobs /\ Asks(pc[t], job[t]) /\ job[t].op \in mix.ops
           /\ mix.alone => /\ \A s \in Slots \ {t} : pc[s] = "idle"
                           /\ Knows(pc[t], job[t], expense, release)
           /\ mix.alone /\ mix.faults = {} => Mirror(pc[t], expense, release, stray)
           /\ "status" \notin mix.ops => Tracks(pc[t], job[t], expense)
<1>1. job[t] \in F!Jobs
  BY DEF RefundInv, RefundTypes, F!TypeOK
<1>2. Asks(pc[t], job[t]) /\ job[t].op \in mix.ops
  BY DEF RefundInv, Asking
<1>3. mix.alone => /\ \A s \in Slots \ {t} : pc[s] = "idle"
                   /\ Knows(pc[t], job[t], expense, release)
  BY DEF RefundInv, Serial, Knowing
<1>4. mix.alone /\ mix.faults = {} => Mirror(pc[t], expense, release, stray)
  BY DEF RefundInv, Mirrored
<1>5. "status" \notin mix.ops => Tracks(pc[t], job[t], expense)
  BY DEF RefundInv, Tracking
<1> QED BY <1>1, <1>2, <1>3, <1>4, <1>5

(* A request starts.                                                       *)
LEMMA RequestStarts ==
    ASSUME F!Constants, RefundInv,
           NEW t \in Slots, NEW op \in {"status", "total", "method", "delete"},
           NEW step \in RefundSteps \ {"idle", "insert", "refetch", "compensate"},
           NEW new \in F!Rows,
           F!MayStart(t, op),
           F!Begin(t, step, F!Job(op, expense, new)),
           Asks(step, F!Job(op, expense, new)),
           step = "look" => F!ByBank(new), step = "unlink" => ~F!ByBank(new),
           step = "persist" => op # "status"
    PROVE  RefundInv'
<1> DEFINE j == F!Job(op, expense, new)
<1>1. expense \in F!Rows /\ expense # None
  BY DEF F!MayStart, RefundInv, RefundTypes, F!TypeOK
<1>2. j \in F!Jobs /\ j.op = op /\ j.new = new /\ j.base = expense
  BY <1>1 DEF F!Job, F!Jobs
<1>3. j # None
  BY <1>2 DEF F!Constants
<1>4. pc' = [pc EXCEPT ![t] = step] /\ job' = [job EXCEPT ![t] = j]
  BY DEF F!Begin
<1>5. /\ mix' = mix /\ expense' = expense /\ release' = release
      /\ stray' = stray /\ company' = company
  BY DEF F!Begin
<1>6. /\ expense' \in F!Rows \cup {None} /\ release' \in Amounts \cup {None}
      /\ stray' \in BOOLEAN /\ company' \in BOOLEAN
  BY <1>5 DEF RefundInv, RefundTypes, F!TypeOK
<1>7. mix.alone => F!Quiet
  BY DEF F!MayStart, F!Quiet
<1>8. mix.alone => \A s \in Slots \ {t} : pc[s] = "idle"
  BY <1>7 DEF F!Quiet
<1>9. mix.alone /\ step # "idle" => Knows(step, j, expense', release')
  BY <1>1, <1>2, <1>5 DEF Knows
<1>10. mix.alone /\ mix.faults = {} => Mirror(step, expense', release', stray')
  <2>1. mix.alone /\ mix.faults = {} => Mirror("idle", expense, release, stray)
    BY <1>7 DEF RefundInv, Mirrored
  <2> QED BY <2>1, <1>5 DEF Mirror
<1>11. "status" \notin mix.ops =>
          /\ Tracks(step, j, expense') /\ PaidOnce(expense', company')
          /\ expense' # None => expense # None /\ expense'.status = expense.status
  BY <1>2, <1>5 DEF RefundInv, Tracking, Tracks, PaidOnce
<1>12. step # "idle" => Asks(step, j) /\ j.op \in mix.ops
  BY <1>2 DEF F!MayStart
<1>13. j \in F!Jobs \cup {None} /\ (step = "idle" <=> j = None)
  BY <1>2, <1>3
<1> HIDE DEF j
<1> QED BY <1>4, <1>5, <1>6, <1>8, <1>9, <1>10, <1>11, <1>12, <1>13, MovesOn

LEMMA ExpenseColumns ==
    ASSUME expense \in F!Rows,
           NEW total \in Amounts, NEW status \in F!Statuses, NEW by \in F!Refunders, NEW method \in BOOLEAN
    PROVE  /\ [expense EXCEPT !.status = status, !.by = by] \in F!Rows
           /\ [expense EXCEPT !.total = total] \in F!Rows
           /\ [expense EXCEPT !.method = method] \in F!Rows
BY DEF F!Rows

LEMMA JobColumns ==
    ASSUME NEW op, NEW base, NEW new
    PROVE  F!Job(op, base, new).op = op /\ F!Job(op, base, new).base = base /\ F!Job(op, base, new).new = new
BY DEF F!Job

LEMMA SetStatusKeeps ==
    ASSUME F!Constants, RefundInv, NEW t \in Slots,
           NEW status \in F!Statuses, NEW by \in F!Refunders, F!SetStatus(t, status, by)
    PROVE  RefundInv'
<1> DEFINE who == IF status # "refunded" THEN None ELSE IF by = None THEN "company" ELSE by
           new == [expense EXCEPT !.status = status, !.by = who]
           step == IF F!ByBank(new) THEN "look" ELSE "unlink"
<1>1. expense \in F!Rows
  BY DEF F!SetStatus, F!MayStart, RefundInv, RefundTypes, F!TypeOK
<1>2. who \in F!Refunders
  BY DEF F!Refunders
<1>3. new \in F!Rows /\ new.total = expense.total
  BY <1>1, <1>2 DEF F!Rows
<1>4. F!MayStart(t, "status") /\ F!Begin(t, step, F!Job("status", expense, new))
  BY DEF F!SetStatus
<1> HIDE DEF who, new
<1>5. Asks(step, F!Job("status", expense, new))
  BY <1>3, JobColumns DEF Asks
<1>6. step \in RefundSteps \ {"idle", "insert", "refetch", "compensate"}
  BY DEF RefundSteps
<1>7. (step = "look" => F!ByBank(new)) /\ (step = "unlink" => ~F!ByBank(new)) /\ step # "persist"
  OBVIOUS
<1> HIDE DEF step
<1> QED BY <1>3, <1>4, <1>5, <1>6, <1>7, RequestStarts

LEMMA EditTotalKeeps ==
    ASSUME F!Constants, RefundInv, NEW t \in Slots,
           NEW total \in Amounts, F!EditTotal(t, total)
    PROVE  RefundInv'
<1> DEFINE new == [expense EXCEPT !.total = total]
<1>1. expense \in F!Rows /\ expense.status # "refunded"
  BY DEF F!EditTotal, F!MayStart, RefundInv, RefundTypes, F!TypeOK
<1>2. new \in F!Rows /\ new.status = expense.status /\ new.method = expense.method
  BY <1>1 DEF F!Rows
<1>3. F!MayStart(t, "total") /\ F!Begin(t, "persist", F!Job("total", expense, new))
  BY DEF F!EditTotal
<1> HIDE DEF new
<1>4. Asks("persist", F!Job("total", expense, new))
  BY <1>1, <1>2, JobColumns DEF Asks
<1>5. "persist" \in RefundSteps \ {"idle", "insert", "refetch", "compensate"}
  BY DEF RefundSteps
<1> QED BY <1>2, <1>3, <1>4, <1>5, RequestStarts

LEMMA EditMethodKeeps ==
    ASSUME F!Constants, RefundInv, NEW t \in Slots,
           NEW method \in BOOLEAN, F!EditMethod(t, method)
    PROVE  RefundInv'
<1> DEFINE new == [expense EXCEPT !.method = method]
           step == IF method THEN "flagged" ELSE "persist"
<1>1. expense \in F!Rows /\ expense.status # "refunded"
  BY DEF F!EditMethod, F!MayStart, RefundInv, RefundTypes, F!TypeOK
<1>2. new \in F!Rows /\ new.status = expense.status /\ new.total = expense.total
  BY <1>1 DEF F!Rows
<1>3. step = "persist" => ~new.method
  BY <1>1 DEF F!Rows
<1>4. F!MayStart(t, "method") /\ F!Begin(t, step, F!Job("method", expense, new))
  BY DEF F!EditMethod
<1>5. step \in {"flagged", "persist"}
  OBVIOUS
<1> HIDE DEF new, step
<1>6. Asks(step, F!Job("method", expense, new))
  BY <1>1, <1>2, <1>3, <1>5, JobColumns DEF Asks
<1>7. step \in RefundSteps \ {"idle", "insert", "refetch", "compensate"} /\ step # "look" /\ step # "unlink"
  BY <1>5 DEF RefundSteps
<1> QED BY <1>2, <1>4, <1>6, <1>7, RequestStarts

LEMMA DeleteKeeps ==
    ASSUME F!Constants, RefundInv, NEW t \in Slots, F!Delete(t)
    PROVE  RefundInv'
<1>1. expense \in F!Rows /\ expense.status # "refunded"
  BY DEF F!Delete, F!MayStart, RefundInv, RefundTypes, F!TypeOK
<1>2. F!MayStart(t, "delete") /\ F!Begin(t, "drop", F!Job("delete", expense, expense))
  BY DEF F!Delete
<1>3. Asks("drop", F!Job("delete", expense, expense))
  BY <1>1, JobColumns DEF Asks
<1>4. "drop" \in RefundSteps \ {"idle", "insert", "refetch", "compensate"}
  BY DEF RefundSteps
<1> QED BY <1>1, <1>2, <1>3, <1>4, RequestStarts

--------------------------------------------------------------------------------
(* A request in the middle takes a step that leaves the expense alone.     *)
LEMMA GoesOn ==
    ASSUME F!Constants, RefundInv,
           NEW t \in Slots, pc[t] # "idle",
           NEW step \in RefundSteps \ {"idle"}, NEW j \in F!Jobs,
           pc' = [pc EXCEPT ![t] = step], job' = [job EXCEPT ![t] = j],
           UNCHANGED <<mix, expense, stray, company>>,
           release' \in Amounts \cup {None},
           j.op = job[t].op, j.base = job[t].base, j.new = job[t].new, Asks(step, j),
           mix.alone => Knows(step, j, expense, release'),
           mix.alone /\ mix.faults = {} => Mirror(step, expense, release', stray)
    PROVE  RefundInv'
<1>1. j # None
  BY DEF F!Constants
<1>2. expense' \in F!Rows \cup {None} /\ stray' \in BOOLEAN /\ company' \in BOOLEAN /\ mix' = mix
  BY DEF RefundInv, RefundTypes, F!TypeOK
<1>3. mix.alone => \A s \in Slots \ {t} : pc[s] = "idle"
  BY RefundFields
<1>4. j.op \in mix.ops
  BY RefundFields
<1>5. "status" \notin mix.ops =>
          /\ Tracks(step, j, expense') /\ PaidOnce(expense', company')
          /\ expense' # None => expense # None /\ expense'.status = expense.status
  <2>1. "status" \notin mix.ops => Tracks(pc[t], job[t], expense) /\ PaidOnce(expense, company)
    BY RefundFields DEF RefundInv, Tracking
  <2>2. expense' = expense /\ company' = company
    OBVIOUS
  <2>3. Tracks(pc[t], job[t], expense) => Tracks(step, j, expense')
    BY <2>2 DEF Tracks
  <2> QED BY <2>1, <2>2, <2>3
<1>6. /\ mix.alone /\ step # "idle" => Knows(step, j, expense', release')
      /\ mix.alone /\ mix.faults = {} => Mirror(step, expense', release', stray')
  <2>1. expense' = expense /\ stray' = stray
    OBVIOUS
  <2> QED BY <2>1
<1>7. /\ j \in F!Jobs \cup {None} /\ (step = "idle" <=> j = None) /\ step \in RefundSteps
      /\ step # "idle" => Asks(step, j) /\ j.op \in mix.ops
  BY <1>1, <1>4
<1> QED BY <1>2, <1>3, <1>5, <1>6, <1>7, MovesOn

(* A request ends.                                                         *)
LEMMA Ends ==
    ASSUME F!Constants, RefundInv,
           NEW t \in Slots, pc[t] # "idle", F!Done(t), mix' = mix,
           expense' \in F!Rows \cup {None}, release' \in Amounts \cup {None},
           stray' \in BOOLEAN, company' \in BOOLEAN,
           mix.alone /\ mix.faults = {} => Mirror("idle", expense', release', stray'),
           "status" \notin mix.ops =>
               /\ PaidOnce(expense', company')
               /\ expense' # None => expense # None /\ expense'.status = expense.status
    PROVE  RefundInv'
<1>1. pc' = [pc EXCEPT ![t] = "idle"] /\ job' = [job EXCEPT ![t] = None]
  BY DEF F!Done
<1>2. "idle" \in RefundSteps /\ None \in F!Jobs \cup {None}
  BY DEF RefundSteps
<1>3. mix.alone => \A s \in Slots \ {t} : pc[s] = "idle"
  BY RefundFields
<1>4. Tracks("idle", None, expense')
  BY DEF Tracks
<1>5. "status" \notin mix.ops =>
          /\ Tracks("idle", None, expense') /\ PaidOnce(expense', company')
          /\ expense' # None => expense # None /\ expense'.status = expense.status
  BY <1>4
<1> QED BY <1>1, <1>2, <1>3, <1>5, MovesOn

LEMMA LookKeeps ==
    ASSUME F!Constants, RefundInv, NEW t \in Slots, F!Look(t)
    PROVE  RefundInv'
<1> DEFINE j == [job[t] EXCEPT !.made = TRUE]
           step == IF job[t].new.total > 0 /\ release = None THEN "insert" ELSE "persist"
<1>1. pc[t] = "look" /\ pc[t] # "idle"
  BY DEF F!Look
<1>2. job[t] \in F!Jobs /\ Asks("look", job[t])
  BY <1>1, RefundFields
<1>3. j \in F!Jobs /\ j.op = job[t].op /\ j.base = job[t].base /\ j.new = job[t].new
  BY <1>2 DEF F!Jobs
<1>4. job' = [job EXCEPT ![t] = j] /\ pc' = [pc EXCEPT ![t] = step]
  BY DEF F!Look
<1>5. UNCHANGED <<mix, expense, release, stray, company>>
  BY DEF F!Look
<1>6. job[t].op = "status"
  BY <1>2 DEF Asks
<1>7. step \in {"insert", "persist"}
  OBVIOUS
<1>8. (step = "insert" => job[t].new.total > 0) /\ (step = "persist" /\ job[t].new.total > 0 => release # None)
  OBVIOUS
<1> HIDE DEF j, step
<1>9. Asks(step, j)
  BY <1>2, <1>3, <1>6, <1>7 DEF Asks
<1>10. mix.alone => Knows(step, j, expense, release')
  <2> SUFFICES ASSUME mix.alone PROVE Knows(step, j, expense, release)
    BY <1>5
  <2>1. Knows("look", job[t], expense, release)
    BY <1>1, RefundFields
  <2> QED BY <2>1, <1>3, <1>7, <1>8 DEF Knows
<1>11. mix.alone /\ mix.faults = {} => Mirror(step, expense, release', stray)
  <2> SUFFICES ASSUME mix.alone /\ mix.faults = {} PROVE Mirror(step, expense, release, stray)
    BY <1>5
  <2>1. Mirror("look", expense, release, stray)
    BY <1>1, RefundFields
  <2> QED BY <2>1, <1>7 DEF Mirror
<1>12. step \in RefundSteps \ {"idle"}
  BY <1>7 DEF RefundSteps
<1>13. release' \in Amounts \cup {None}
  BY <1>5 DEF RefundInv, RefundTypes, F!TypeOK
<1> QED BY <1>1, <1>3, <1>4, <1>5, <1>9, <1>10, <1>11, <1>12, <1>13, GoesOn

LEMMA InsertKeeps ==
    ASSUME F!Constants, RefundInv, NEW t \in Slots, F!Insert(t)
    PROVE  RefundInv'
<1> DEFINE j == [job[t] EXCEPT !.own = (release = None)]
<1>1. pc[t] = "insert" /\ pc[t] # "idle"
  BY DEF F!Insert
<1>2. job[t] \in F!Jobs /\ Asks("insert", job[t])
  BY <1>1, RefundFields
<1>3. j \in F!Jobs /\ j.op = job[t].op /\ j.base = job[t].base /\ j.new = job[t].new
  BY <1>2 DEF F!Jobs
<1>4. job' = [job EXCEPT ![t] = j] /\ pc' = [pc EXCEPT ![t] = "refetch"]
  BY DEF F!Insert
<1>5. UNCHANGED <<mix, expense, stray, company>>
  BY DEF F!Insert
<1>6. job[t].op = "status" /\ job[t].new.total = job[t].base.total
  BY <1>2 DEF Asks
<1>7. release' = IF release = None /\ expense # None THEN job[t].new.total ELSE release
  BY DEF F!Insert
<1>8. job[t].new.total \in Amounts /\ job[t].new.total # None
  BY <1>2 DEF F!Jobs, F!Rows, F!Constants
<1> HIDE DEF j
<1>9. Asks("refetch", j)
  BY <1>2, <1>3, <1>6 DEF Asks
<1>10. mix.alone => Knows("refetch", j, expense, release')
  <2> SUFFICES ASSUME mix.alone PROVE Knows("refetch", j, expense, release')
    OBVIOUS
  <2>1. Knows("insert", job[t], expense, release)
    BY <1>1, RefundFields
  <2>2. release' # None
    BY <2>1, <1>7, <1>8 DEF Knows
  <2> QED BY <2>1, <2>2, <1>3 DEF Knows
<1>11. mix.alone /\ mix.faults = {} => Mirror("refetch", expense, release', stray)
  <2> SUFFICES ASSUME mix.alone /\ mix.faults = {} PROVE Mirror("refetch", expense, release', stray)
    OBVIOUS
  <2>1. Mirror("insert", expense, release, stray) /\ Knows("insert", job[t], expense, release)
    BY <1>1, RefundFields
  <2>2. expense # None /\ job[t].base = expense
    BY <2>1 DEF Knows
  <2> QED BY <2>1, <2>2, <1>6, <1>7 DEF Mirror
<1>12. "refetch" \in RefundSteps \ {"idle"}
  BY DEF RefundSteps
<1>13. release' \in Amounts \cup {None}
  BY <1>7, <1>8 DEF RefundInv, RefundTypes, F!TypeOK
<1> QED BY <1>1, <1>3, <1>4, <1>5, <1>9, <1>10, <1>11, <1>12, <1>13, GoesOn

LEMMA UnlinkKeeps ==
    ASSUME F!Constants, RefundInv, NEW t \in Slots, F!Unlink(t)
    PROVE  RefundInv'
<1>1. pc[t] = "unlink" /\ pc[t] # "idle"
  BY DEF F!Unlink
<1>2. job[t] \in F!Jobs /\ Asks("unlink", job[t])
  BY <1>1, RefundFields
<1>3. pc' = [pc EXCEPT ![t] = "refetch"] /\ job' = job /\ release' = None
  BY DEF F!Unlink
<1>4. job' = [job EXCEPT ![t] = job[t]]
  BY <1>3 DEF RefundInv, RefundTypes
<1>5. UNCHANGED <<mix, expense, stray, company>>
  BY DEF F!Unlink
<1>6. Asks("refetch", job[t])
  BY <1>2 DEF Asks
<1>7. mix.alone => Knows("refetch", job[t], expense, release')
  <2> SUFFICES ASSUME mix.alone PROVE Knows("refetch", job[t], expense, release')
    OBVIOUS
  <2>1. Knows("unlink", job[t], expense, release)
    BY <1>1, RefundFields
  <2> QED BY <2>1, <1>3 DEF Knows
<1>8. mix.alone /\ mix.faults = {} => Mirror("refetch", expense, release', stray)
  <2> SUFFICES ASSUME mix.alone /\ mix.faults = {} PROVE Mirror("refetch", expense, release', stray)
    OBVIOUS
  <2>1. Mirror("unlink", expense, release, stray)
    BY <1>1, RefundFields
  <2> QED BY <2>1, <1>3 DEF Mirror
<1>9. "refetch" \in RefundSteps \ {"idle"} /\ release' \in Amounts \cup {None}
  BY <1>3 DEF RefundSteps
<1> QED BY <1>1, <1>2, <1>3, <1>4, <1>5, <1>6, <1>7, <1>8, <1>9, GoesOn

(* What a request that is served alone writes is what it decided, and the  *)
(* release is then what the new status says.                               *)
LEMMA WritesWhatItMeans ==
    ASSUME F!Constants, RefundInv, NEW t \in Slots, mix.alone, F!Persist(t)
    PROVE  /\ expense' = job[t].new
           /\ job[t].op = "status" => F!Matched(expense', release)
<1>1. pc[t] \in {"persist", "refetch"} /\ pc[t] # "idle" /\ expense # None
  BY DEF F!Persist
<1>2. job[t] \in F!Jobs /\ Knows(pc[t], job[t], expense, release)
  BY <1>1, RefundFields
<1>3. expense \in F!Rows /\ job[t].new \in F!Rows
  BY <1>1, <1>2 DEF F!Jobs, RefundInv, RefundTypes, F!TypeOK
<1>4. job[t].base = expense
  BY <1>2 DEF Knows
<1>5. expense' = F!Written(job[t].new, expense)
  BY <1>4 DEF F!Persist
<1>6. expense' = job[t].new
  BY <1>3, <1>5, WrittenWhole
<1>7. job[t].op = "status" => /\ release # None => F!ByBank(job[t].new)
                              /\ F!ByBank(job[t].new) /\ job[t].new.total > 0 => release # None
  BY <1>1, <1>2 DEF Knows
<1>8. job[t].new # None
  BY <1>3 DEF F!Constants
<1>9. ASSUME job[t].op = "status" PROVE F!Matched(job[t].new, release)
  <2>1. release # None => F!ByBank(job[t].new)
    BY <1>7, <1>9
  <2>2. job[t].new # None /\ F!ByBank(job[t].new) /\ job[t].new.total > 0 => release # None
    BY <1>7, <1>9
  <2> QED BY <2>1, <2>2, <1>8 DEF F!Matched
<1> QED BY <1>6, <1>9

LEMMA PersistKeeps ==
    ASSUME F!Constants, RefundInv, NEW t \in Slots, F!Persist(t)
    PROVE  RefundInv'
<1> DEFINE base == IF pc[t] = "refetch" THEN expense ELSE job[t].base
<1>1. pc[t] \in {"persist", "refetch"} /\ pc[t] # "idle" /\ expense # None /\ F!Done(t)
  BY DEF F!Persist
<1>2. UNCHANGED <<mix, release, stray, company>>
  BY DEF F!Persist
<1>3. job[t] \in F!Jobs /\ Asks(pc[t], job[t]) /\ job[t].op \in mix.ops
  BY <1>1, RefundFields
<1>4. expense \in F!Rows /\ job[t].new \in F!Rows /\ base \in F!Rows
  BY <1>1, <1>3 DEF F!Jobs, RefundInv, RefundTypes, F!TypeOK
<1>5. expense' = F!Written(job[t].new, base)
  BY DEF F!Persist
<1>6. expense' \in F!Rows
  BY <1>4, <1>5, WrittenRow
<1>7. /\ expense' \in F!Rows \cup {None} /\ release' \in Amounts \cup {None}
      /\ stray' \in BOOLEAN /\ company' \in BOOLEAN
  BY <1>2, <1>6 DEF RefundInv, RefundTypes, F!TypeOK
<1>8. ASSUME mix.alone /\ mix.faults = {} PROVE Mirror("idle", expense', release', stray')
  <2>1. Knows(pc[t], job[t], expense, release) /\ Mirror(pc[t], expense, release, stray)
    BY <1>1, <1>8, RefundFields
  <2>2. expense' = job[t].new /\ (job[t].op = "status" => F!Matched(expense', release))
    BY <1>8, WritesWhatItMeans
  <2>3. job[t].base = expense
    BY <2>1 DEF Knows
  <2>4. ASSUME job[t].op # "status"
        PROVE  release = None /\ ~F!ByBank(expense')
    <3>1. pc[t] = "persist" /\ expense.status # "refunded" /\ expense'.status # "refunded"
      BY <1>1, <1>3, <2>2, <2>3, <2>4 DEF Asks
    <3>2. F!Matched(expense, release)
      BY <2>1, <3>1 DEF Mirror
    <3> QED BY <3>1, <3>2 DEF F!Matched, F!ByBank
  <2>5. F!Matched(expense', release)
    BY <2>2, <2>4 DEF F!Matched
  <2>6. ASSUME release # None PROVE expense' # None /\ release = expense'.total
    <3>1. job[t].op = "status" /\ job[t].new.total = expense.total
      BY <2>3, <2>4, <2>6, <1>3 DEF Asks
    <3>2. release = expense.total
      BY <2>1, <2>6 DEF Mirror
    <3>3. expense' # None
      BY <1>6 DEF F!Constants
    <3> QED BY <2>2, <3>1, <3>2, <3>3
  <2>7. ~stray
    BY <2>1 DEF Mirror
  <2> QED BY <2>5, <2>6, <2>7, <1>2 DEF Mirror
<1>9. ASSUME "status" \notin mix.ops
      PROVE  /\ PaidOnce(expense', company')
             /\ expense' # None => expense # None /\ expense'.status = expense.status
  <2>1. Tracks(pc[t], job[t], expense) /\ PaidOnce(expense, company)
    BY <1>1, <1>9, RefundFields DEF RefundInv, Tracking
  <2>2. job[t].op # "status" /\ pc[t] = "persist"
    BY <1>1, <1>3, <1>9 DEF Asks
  <2>3. base = job[t].base
    BY <2>2
  <2>4. job[t].new.status = job[t].base.status
    BY <1>3, <2>2 DEF Asks
  <2>5. expense'.status = expense.status
    BY <1>4, <1>5, <2>3, <2>4, WrittenRow
  <2>6. job[t].op \in {"total", "method"}
    BY <1>3, <2>2 DEF Asks, F!Jobs
  <2>7. expense'.method => expense.method
    <3>1. CASE job[t].op = "total"
      <4>1. job[t].new.method = job[t].base.method
        BY <3>1, <1>3 DEF Asks
      <4>2. expense'.method = expense.method
        BY <4>1, <1>4, <1>5, <2>3, WrittenRow
      <4> QED BY <4>2
    <3>2. CASE job[t].op = "method"
      <4>1. ~job[t].new.method
        BY <3>2, <1>3, <2>2 DEF Asks
      <4>2. ~expense.method => ~expense'.method
        BY <4>1, <1>4, <1>5, WrittenRow
      <4> QED BY <4>2
    <3> QED BY <3>1, <3>2, <2>6
  <2>8. PaidOnce(expense', company')
    BY <2>1, <2>5, <2>7, <1>1, <1>2 DEF PaidOnce, F!Tracked
  <2> QED BY <2>5, <2>8, <1>1
<1> QED BY <1>1, <1>2, <1>7, <1>8, <1>9, Ends

LEMMA PersistFailsKeeps ==
    ASSUME F!Constants, RefundInv, NEW t \in Slots, F!PersistFails(t)
    PROVE  RefundInv'
<1>1. pc[t] \in {"persist", "refetch"} /\ pc[t] # "idle"
  BY DEF F!PersistFails
<1>2. UNCHANGED <<mix, expense, release, stray, company>>
  BY DEF F!PersistFails
<1>3. job[t] \in F!Jobs /\ Asks(pc[t], job[t])
  BY <1>1, RefundFields
<1>4. ~(mix.alone /\ mix.faults = {})
  <2>1. mix.alone => expense # None
    BY <1>1, RefundFields DEF Knows
  <2> QED BY <2>1 DEF F!PersistFails
<1>5. /\ expense' \in F!Rows \cup {None} /\ release' \in Amounts \cup {None}
      /\ stray' \in BOOLEAN /\ company' \in BOOLEAN
  BY <1>2 DEF RefundInv, RefundTypes, F!TypeOK
<1>6. CASE job[t].op = "status" /\ job[t].made
  <2>1. pc' = [pc EXCEPT ![t] = "compensate"] /\ job' = job
    BY <1>6 DEF F!PersistFails
  <2>2. job' = [job EXCEPT ![t] = job[t]]
    BY <2>1 DEF RefundInv, RefundTypes
  <2>3. Asks("compensate", job[t])
    BY <1>3, <1>6 DEF Asks
  <2>4. mix.alone => Knows("compensate", job[t], expense, release')
    <3> SUFFICES ASSUME mix.alone PROVE Knows("compensate", job[t], expense, release')
      OBVIOUS
    <3>1. Knows(pc[t], job[t], expense, release)
      BY <1>1, RefundFields
    <3> QED BY <3>1 DEF Knows
  <2>5. "compensate" \in RefundSteps \ {"idle"}
    BY DEF RefundSteps
  <2> QED BY <1>1, <1>2, <1>3, <1>4, <1>5, <2>1, <2>2, <2>3, <2>4, <2>5, GoesOn
<1>7. CASE ~(job[t].op = "status" /\ job[t].made)
  <2>1. F!Done(t)
    BY <1>7 DEF F!PersistFails
  <2>2. "status" \notin mix.ops =>
            /\ PaidOnce(expense', company')
            /\ expense' # None => expense # None /\ expense'.status = expense.status
    BY <1>2 DEF RefundInv, Tracking
  <2> QED BY <1>1, <1>2, <1>4, <1>5, <2>1, <2>2, Ends
<1> QED BY <1>6, <1>7

LEMMA CompensateKeeps ==
    ASSUME F!Constants, RefundInv, NEW t \in Slots, F!Compensate(t)
    PROVE  RefundInv'
<1>1. pc[t] = "compensate" /\ pc[t] # "idle" /\ F!Done(t) /\ release' = None
  BY DEF F!Compensate
<1>2. UNCHANGED <<mix, expense, stray, company>>
  BY DEF F!Compensate
<1>3. ~(mix.alone /\ mix.faults = {})
  BY <1>1, RefundFields DEF Mirror
<1>4. /\ expense' \in F!Rows \cup {None} /\ release' \in Amounts \cup {None}
      /\ stray' \in BOOLEAN /\ company' \in BOOLEAN
  BY <1>1, <1>2 DEF RefundInv, RefundTypes, F!TypeOK
<1>5. "status" \notin mix.ops =>
          /\ PaidOnce(expense', company')
          /\ expense' # None => expense # None /\ expense'.status = expense.status
  BY <1>2 DEF RefundInv, Tracking
<1> QED BY <1>1, <1>2, <1>3, <1>4, <1>5, Ends

LEMMA GiveUpKeeps ==
    ASSUME F!Constants, RefundInv, NEW t \in Slots, F!GiveUp(t)
    PROVE  RefundInv'
<1>1. pc[t] # "idle" /\ F!Done(t)
  BY DEF F!GiveUp
<1>2. UNCHANGED <<mix, expense, release, stray, company>>
  BY DEF F!GiveUp
<1>3. ~(mix.alone /\ mix.faults = {})
  BY DEF F!GiveUp
<1>4. /\ expense' \in F!Rows \cup {None} /\ release' \in Amounts \cup {None}
      /\ stray' \in BOOLEAN /\ company' \in BOOLEAN
  BY <1>2 DEF RefundInv, RefundTypes, F!TypeOK
<1>5. "status" \notin mix.ops =>
          /\ PaidOnce(expense', company')
          /\ expense' # None => expense # None /\ expense'.status = expense.status
  BY <1>2 DEF RefundInv, Tracking
<1> QED BY <1>1, <1>2, <1>3, <1>4, <1>5, Ends

(* Onto a method: its lock is held from the look at its flag to the write. *)
LEMMA PutOnMethodKeeps ==
    ASSUME F!Constants, RefundInv, NEW t \in Slots, F!PutOnMethod(t)
    PROVE  RefundInv'
<1>1. pc[t] = "flagged" /\ pc[t] # "idle" /\ F!Done(t)
  BY DEF F!PutOnMethod
<1>2. UNCHANGED <<mix, release, stray, company>>
  BY DEF F!PutOnMethod
<1>3. job[t] \in F!Jobs /\ Asks("flagged", job[t])
  BY <1>1, RefundFields
<1>4. job[t].new \in F!Rows /\ job[t].base \in F!Rows
  BY <1>3 DEF F!Jobs
<1>5. /\ job[t].new.status = job[t].base.status /\ job[t].base.status # "refunded"
      /\ job[t].new.total = job[t].base.total
  BY <1>3 DEF Asks
<1>6. \/ expense' = expense
      \/ /\ expense # None /\ ~(company /\ F!Tracked(job[t].base))
         /\ expense' = F!Written(job[t].new, job[t].base)
  BY DEF F!PutOnMethod
<1>7. expense \in F!Rows \cup {None}
  BY DEF RefundInv, RefundTypes, F!TypeOK
<1>8. expense' \in F!Rows \cup {None}
  <2>1. CASE expense' = expense
    BY <2>1, <1>7
  <2>2. CASE expense # None /\ expense' = F!Written(job[t].new, job[t].base)
    <3>1. expense \in F!Rows
      BY <2>2, <1>7
    <3> QED BY <3>1, <2>2, <1>4, WrittenRow
  <2> QED BY <2>1, <2>2, <1>6
<1>9. release' \in Amounts \cup {None} /\ stray' \in BOOLEAN /\ company' \in BOOLEAN
  BY <1>2 DEF RefundInv, RefundTypes, F!TypeOK
<1>10. ASSUME mix.alone /\ mix.faults = {} PROVE Mirror("idle", expense', release', stray')
  <2>1. Knows("flagged", job[t], expense, release) /\ Mirror("flagged", expense, release, stray)
    BY <1>1, <1>10, RefundFields
  <2>2. expense # None /\ job[t].base = expense /\ expense \in F!Rows
    BY <2>1, <1>7 DEF Knows
  <2>3. F!Matched(expense, release) /\ ~stray
    BY <2>1 DEF Mirror
  <2>4. release = None
    BY <2>2, <2>3, <1>5 DEF F!Matched, F!ByBank
  <2>5. expense' = expense \/ expense' = job[t].new
    BY <1>4, <1>6, <2>2, WrittenWhole
  <2>6. ~F!ByBank(expense')
    BY <2>2, <2>5, <1>5 DEF F!ByBank
  <2> QED BY <2>3, <2>4, <2>6, <1>2 DEF Mirror, F!Matched
<1>11. ASSUME "status" \notin mix.ops
       PROVE  /\ PaidOnce(expense', company')
              /\ expense' # None => expense # None /\ expense'.status = expense.status
  <2>1. Tracks("flagged", job[t], expense) /\ PaidOnce(expense, company)
    BY <1>1, <1>11, RefundFields DEF RefundInv, Tracking
  <2>2. CASE expense' = expense
    BY <2>1, <2>2, <1>2
  <2>3. CASE /\ expense # None /\ ~(company /\ F!Tracked(job[t].base))
             /\ expense' = F!Written(job[t].new, job[t].base)
    <3>1. expense \in F!Rows /\ job[t].base.status = expense.status
      BY <2>1, <2>3, <1>7 DEF Tracks
    <3>2. expense'.status = expense.status
      BY <3>1, <2>3, <1>4, <1>5, WrittenRow
    <3>3. company => ~F!Tracked(expense')
      BY <3>1, <3>2, <2>3 DEF F!Tracked
    <3> QED BY <3>2, <3>3, <2>3, <1>2 DEF PaidOnce
  <2> QED BY <2>2, <2>3, <1>6
<1> QED BY <1>1, <1>2, <1>8, <1>9, <1>10, <1>11, Ends

LEMMA DropKeeps ==
    ASSUME F!Constants, RefundInv, NEW t \in Slots, F!Drop(t)
    PROVE  RefundInv'
<1>1. pc[t] = "drop" /\ pc[t] # "idle" /\ F!Done(t)
  BY DEF F!Drop
<1>2. mix' = mix /\ company' = company /\ expense' = None /\ release' = None
  BY DEF F!Drop
<1>3. stray' = (stray \/ release # None)
  BY DEF F!Drop
<1>4. Asks("drop", job[t])
  BY <1>1, RefundFields
<1>5. ASSUME mix.alone /\ mix.faults = {} PROVE Mirror("idle", expense', release', stray')
  <2>1. Knows("drop", job[t], expense, release) /\ Mirror("drop", expense, release, stray)
    BY <1>1, <1>5, RefundFields
  <2>2. expense.status # "refunded"
    BY <2>1, <1>4 DEF Knows, Asks
  <2>3. release = None /\ ~stray
    BY <2>1, <2>2 DEF Mirror, F!Matched, F!ByBank
  <2>4. ~stray'
    BY <2>3, <1>3
  <2> QED BY <2>4, <1>2 DEF Mirror, F!Matched
<1>6. PaidOnce(expense', company')
  BY <1>2 DEF PaidOnce
<1>7. stray' \in BOOLEAN
  BY <1>3
<1>8. company' \in BOOLEAN
  BY <1>2 DEF RefundInv, RefundTypes, F!TypeOK
<1> QED BY <1>1, <1>2, <1>5, <1>6, <1>7, <1>8, Ends

--------------------------------------------------------------------------------
LEMMA AsideKeeps ==
    ASSUME RefundInv, F!DeleteStray \/ F!Flag \/ F!Unflag
    PROVE  RefundInv'
<1>1. UNCHANGED <<mix, expense, release, pc, job>>
  BY DEF F!DeleteStray, F!Flag, F!Unflag
<1>2. stray' \in BOOLEAN /\ company' \in BOOLEAN /\ (~stray => ~stray')
  <2>1. stray \in BOOLEAN /\ company \in BOOLEAN
    BY DEF RefundInv, RefundTypes, F!TypeOK
  <2>2. CASE F!DeleteStray
    BY <2>1, <2>2 DEF F!DeleteStray
  <2>3. CASE F!Flag \/ F!Unflag
    <3>1. stray' = stray /\ (company' = TRUE \/ company' = FALSE)
      BY <2>3 DEF F!Flag, F!Unflag
    <3> QED BY <2>1, <3>1
  <2> QED BY <2>2, <2>3
<1>3. company' => company \/ ~(expense # None /\ expense.method /\ F!Tracked(expense))
  BY DEF F!DeleteStray, F!Flag, F!Unflag
<1>4. RefundTypes'
  BY <1>1, <1>2 DEF RefundInv, RefundTypes, F!TypeOK
<1>5. Asking' /\ (mix'.alone => Serial' /\ Knowing')
  BY <1>1 DEF RefundInv, Asking, Asks, Serial, Knowing, Knows
<1>6. mix.alone /\ mix.faults = {} => Mirrored'
  BY <1>1, <1>2 DEF RefundInv, Mirrored, Mirror, F!Quiet
<1>7. "status" \notin mix.ops => Tracking'
  <2> SUFFICES ASSUME "status" \notin mix.ops PROVE Tracking'
    OBVIOUS
  <2>1. \A t \in Slots : Tracks(pc'[t], job'[t], expense')
    BY <1>1 DEF RefundInv, Tracking
  <2>2. PaidOnce(expense, company)
    BY DEF RefundInv, Tracking
  <2>3. PaidOnce(expense', company')
    BY <1>1, <1>3, <2>2 DEF PaidOnce
  <2> QED BY <2>1, <2>3 DEF Tracking, Tracks, PaidOnce
<1> QED BY <1>1, <1>4, <1>5, <1>6, <1>7 DEF RefundInv

LEMMA RefundNext == F!Constants /\ RefundInv /\ F!Next => RefundInv'
<1> SUFFICES ASSUME F!Constants, RefundInv, F!Next PROVE RefundInv'
  OBVIOUS
<1>1. ASSUME NEW t \in Slots, F!Request(t) PROVE RefundInv'
  BY <1>1, SetStatusKeeps, EditTotalKeeps, EditMethodKeeps, DeleteKeeps DEF F!Request
<1>2. ASSUME NEW t \in Slots, F!Step(t) PROVE RefundInv'
  BY <1>2, LookKeeps, InsertKeeps, UnlinkKeeps, PersistKeeps, PersistFailsKeeps,
     CompensateKeeps, GiveUpKeeps, PutOnMethodKeeps, DropKeeps DEF F!Step
<1>3. CASE F!DeleteStray \/ F!Flag \/ F!Unflag
  BY <1>3, AsideKeeps
<1> QED BY <1>1, <1>2, <1>3 DEF F!Next

LEMMA RefundStutter == RefundInv /\ UNCHANGED fvars => RefundInv'
<1> SUFFICES ASSUME RefundInv, UNCHANGED fvars PROVE RefundInv'
  OBVIOUS
<1>1. UNCHANGED <<mix, expense, release, stray, company, pc, job>>
  BY DEF fvars
<1>2. RefundTypes' /\ Asking' /\ (mix'.alone => Serial' /\ Knowing')
  BY <1>1 DEF RefundInv, RefundTypes, F!TypeOK, Asking, Asks, Serial, Knowing, Knows
<1>3. mix.alone /\ mix.faults = {} => Mirrored'
  BY <1>1 DEF RefundInv, Mirrored, Mirror, F!Quiet
<1>4. "status" \notin mix.ops => Tracking'
  BY <1>1 DEF RefundInv, Tracking, Tracks, PaidOnce
<1> QED BY <1>1, <1>2, <1>3, <1>4 DEF RefundInv

(* The invariant gives what a run checks.                                  *)
LEMMA RefundInvSuffices == RefundInv => F!TypeOK /\ F!RefundMirrored /\ F!NeverPaidTwice
<1> SUFFICES ASSUME RefundInv PROVE F!TypeOK /\ F!RefundMirrored /\ F!NeverPaidTwice
  OBVIOUS
<1>1. F!TypeOK
  BY DEF RefundInv, RefundTypes
<1>2. F!RefundMirrored
  BY DEF RefundInv, Mirrored, Mirror, F!RefundMirrored
<1>3. F!NeverPaidTwice
  BY DEF RefundInv, Tracking, PaidOnce, F!NeverPaidTwice
<1> QED BY <1>1, <1>2, <1>3

LEMMA RefundConverges == F!Constants /\ RefundInv => F!Converges
<1> SUFFICES ASSUME F!Constants, RefundInv, NEW t \in Slots,
                    mix.alone, job[t].op = "status", F!Persist(t)
             PROVE  F!Matched(expense', release')
  BY DEF F!Converges
<1>1. F!Matched(expense', release) /\ release' = release
  BY WritesWhatItMeans DEF F!Persist
<1> QED BY <1>1

--------------------------------------------------------------------------------
(* The type and the state of the refunds, in every behaviour: a bank       *)
(* refund and its release mirror each other between requests that are      *)
(* served alone and do not fail, and a tracked expense is never paid by    *)
(* the company as well, whatever overlaps.                                 *)
THEOREM RefundInvariant == Spec => [](part = "refunds" => RefundInv)
<1>1. Init => (part = "refunds" => RefundInv)
  BY RefundInit, RefundConstants DEF Init
<1>2. (part = "refunds" => RefundInv) /\ [Next]_vars => (part = "refunds" => RefundInv)'
  <2> SUFFICES ASSUME part = "refunds" => RefundInv, [Next]_vars, part' = "refunds"
               PROVE  RefundInv'
    OBVIOUS
  <2>1. part = "refunds" /\ RefundInv
    BY DEF Next, vars
  <2>2. CASE Next
    <3>1. F!Next
      BY <2>1, <2>2 DEF Next
    <3> QED BY <2>1, <3>1, RefundNext, RefundConstants
  <2>3. CASE UNCHANGED vars
    BY <2>1, <2>3, RefundStutter DEF vars
  <2> QED BY <2>2, <2>3
<1> QED BY <1>1, <1>2, PTL DEF Spec

THEOREM RefundsMirrored == Spec => []RefundsHold
<1>1. (part = "refunds" => RefundInv) => RefundsHold
  BY RefundInvSuffices DEF RefundsHold
<1> QED BY <1>1, RefundInvariant, PTL

(* The next status that goes through puts the release right, whatever      *)
(* failed or died before it.                                               *)
THEOREM StatusConverges == Spec => Converges
<1>1. (part = "refunds" => RefundInv) => (part = "refunds" => F!Converges)
  BY RefundConverges, RefundConstants
<1>2. (part = "refunds" => RefundInv) /\ [Next]_vars => [part = "refunds" => F!Converges]_vars
  BY <1>1
<1> QED BY <1>2, RefundInvariant, PTL DEF Spec, Converges

--------------------------------------------------------------------------------
(* Returns: requests that lock two invoices queue for them.                *)

LEMMA LargestExists ==
    ASSUME NEW S, IsFiniteSet(S), S # {}, S \subseteq Int
    PROVE  \E x \in S : \A y \in S : x >= y
<1> DEFINE above(x) == {k \in S : k > x}
           counts == {Cardinality(above(x)) : x \in S}
<1>1. \A x \in S : above(x) \subseteq S /\ IsFiniteSet(above(x)) /\ Cardinality(above(x)) \in Nat
  BY FS_Subset, FS_CardinalityType
<1>2. counts \subseteq Nat /\ counts # {}
  BY <1>1
<1>3. PICK n \in counts : \A m \in counts : ~(<<m, n>> \in OpToRel(<, Nat))
  BY <1>2, NatLessThanWellFounded, WFMin
<1>4. \A m \in counts : ~(m < n)
  BY <1>2, <1>3 DEF OpToRel
<1>5. PICK x \in S : n = Cardinality(above(x))
  OBVIOUS
<1>6. ASSUME NEW y \in S, y > x PROVE FALSE
  <2>1. \A k \in S : k > y => k > x
    <3>1. x \in Int /\ y \in Int /\ \A k \in S : k \in Int
      OBVIOUS
    <3> QED BY <3>1, <1>6
  <2>2. y \in Int
    OBVIOUS
  <2>3. above(y) \subseteq above(x) /\ y \in above(x) /\ y \notin above(y)
    <3>1. ~(y > y)
      BY <2>2
    <3>2. above(y) \subseteq above(x)
      BY <2>1
    <3>3. y \in above(x)
      BY <1>6
    <3>4. y \notin above(y)
      BY <3>1
    <3> QED BY <3>2, <3>3, <3>4
  <2>4. Cardinality(above(y)) < Cardinality(above(x))
    BY <1>1, <2>3, FS_Subset
  <2>5. Cardinality(above(y)) \in counts
    OBVIOUS
  <2> QED BY <2>4, <2>5, <1>4, <1>5
<1>7. \A y \in S : x \in Int /\ y \in Int
  OBVIOUS
<1> QED BY <1>6, <1>7

LEMMA MaxIsLargest ==
    ASSUME NEW S, IsFiniteSet(S), S # {}, S \subseteq Int
    PROVE  R!Max(S) \in S /\ \A y \in S : R!Max(S) >= y
BY LargestExists DEF R!Max

LEMMA MinIsSmallest ==
    ASSUME NEW S, S # {}, S \subseteq Nat
    PROVE  R!Min(S) \in S /\ \A y \in S : R!Min(S) <= y
<1>1. PICK x \in S : \A y \in S : ~(<<y, x>> \in OpToRel(<, Nat))
  BY NatLessThanWellFounded, WFMin
<1>2. \A y \in S : x <= y
  <2>1. x \in Nat /\ \A y \in S : y \in Nat
    OBVIOUS
  <2>2. \A y \in S : ~(y < x)
    BY <1>1, <2>1 DEF OpToRel
  <2> QED BY <2>1, <2>2
<1> QED BY <1>2 DEF R!Min

LEMMA SameFinite == \A set : (R!IsFiniteSet(set) <=> IsFiniteSet(set)) /\ R!Cardinality(set) = Cardinality(set)
BY DEF R!Cardinality, Cardinality, R!IsFiniteSet, IsFiniteSet

(* One request at a time, or requests that create and amend: none of these *)
(* links an invoice that is there, changes its type or deletes it.         *)
Crossing == {"create return", "create expense", "amend return", "amend expense", "kill"}
CrossingOnly == \A m \in ReturnMixes \ OneAtATime : m \subseteq Crossing

(* Where the requests are, and that only a request in progress holds rows. *)
HoldInv ==
    /\ class \in ReturnMixes
    /\ locker \in [Ids -> Slots \cup {None}]
    /\ at \in [Slots -> R!PCs]
    /\ \A s \in Slots : at[s] = "idle" => \A i \in Ids : locker[i] # s
    /\ class \in OneAtATime => \A s, t \in Slots : at[s] # "idle" /\ at[t] # "idle" => s = t

(* The invoices that a return may be linked to.                            *)
Standing(l) == l = None \/ (l \in R!Live /\ inv[l].type # "return")
SameLinks(row, i) == row.type = inv[i].type /\ row.refunds = inv[i].refunds /\ row.applied = inv[i].applied

LedgerTypes ==
    /\ inv \in [Ids -> R!Rows] /\ counter \in Nat
    /\ req \in [Slots -> R!Requests]
    /\ found \in [Slots -> R!Rows] /\ seen \in [Slots -> R!Rows]
Ledger == \A i \in R!Live :
    /\ Standing(inv[i].refunds) /\ Standing(inv[i].applied)
    /\ inv[i].type # "return" => inv[i].refunds = None /\ inv[i].applied = None

(* What a request that creates or amends is about, and what it writes: a   *)
(* new invoice with links that stand, or the links that are there.         *)
Crosses(s) ==
    LET r == req[s]  new == R!New(s) IN
    /\ at[s] \in {"lock", "insert", "write"} /\ r.op \in {"create", "update"}
    /\ (at[s] = "insert" => r.op = "create") /\ (at[s] = "write" => r.op = "update")
    /\ new.type \in R!Types /\ Standing(new.refunds) /\ Standing(new.applied)
    /\ new.type # "return" => new.refunds = None /\ new.applied = None
    /\ r.op = "create" => r.about \in Ids /\ inv[r.about].type = "unused"
    /\ r.op = "update" => r.about \in R!Live /\ SameLinks(new, r.about)
    /\ at[s] = "write" => SameLinks(seen[s], r.about)

(* A row that s holds is one that its return is linked to.                 *)
Holds(i, s) ==
    /\ i \in R!Live /\ inv[i].type # "return"
    /\ R!New(s).type = "return" /\ i \in {R!New(s).refunds, R!New(s).applied}

(* The rows still to lock come after those that are locked.                *)
InOrder(s) ==
    at[s] = "lock" => \A i \in Ids, k \in R!ToLock(s) : locker[i] = s /\ locker[k] # s => i < k

Queues(s) ==
    /\ at[s] # "idle" => Crosses(s)
    /\ \A i \in Ids : locker[i] = s => Holds(i, s)
    /\ InOrder(s)

Creating(s) == at[s] # "idle" /\ req[s].op = "create"
Apart == \A s, t \in Slots : Creating(s) /\ Creating(t) /\ s # t => req[s].about # req[t].about

CrossInv == LedgerTypes /\ Ledger /\ Apart /\ \A s \in Slots : Queues(s)

ReturnInv == HoldInv /\ (class \notin OneAtATime => CrossInv)

--------------------------------------------------------------------------------
(* Who holds what: every request there is.                                 *)

LEMMA ServeHolds ==
    ASSUME HoldInv, NEW s \in Slots, NEW does, NEW r, NEW row, NEW step \in {"lock", "delete"},
           R!Admitted(s, does), R!Serve(s, r, row, step), class' = class
    PROVE  HoldInv'
<1>1. /\ at[s] = "idle" /\ at' = [at EXCEPT ![s] = step] /\ locker' = locker
      /\ class \in OneAtATime => \A t \in Slots : at[t] = "idle"
  BY DEF R!Admitted, R!Serve
<1>2. at' \in [Slots -> R!PCs]
  BY <1>1 DEF HoldInv, R!PCs
<1>3. \A t \in Slots : at'[t] = "idle" => at[t] = "idle"
  BY <1>1 DEF HoldInv
<1>4. class \in OneAtATime => \A t, u \in Slots : at'[t] # "idle" /\ at'[u] # "idle" => t = u
  BY <1>1 DEF HoldInv
<1> QED BY <1>1, <1>2, <1>3, <1>4 DEF HoldInv

LEMMA EndHolds ==
    ASSUME R!Constants, HoldInv, NEW s \in Slots, R!End(s), class' = class
    PROVE  HoldInv'
<1>1. /\ locker' = [i \in Ids |-> IF locker[i] = s THEN None ELSE locker[i]]
      /\ at' = [at EXCEPT ![s] = "idle"]
  BY DEF R!End
<1>2. at' \in [Slots -> R!PCs] /\ locker' \in [Ids -> Slots \cup {None}]
  BY <1>1 DEF HoldInv, R!PCs
<1>3. None \notin Slots
  BY DEF R!Constants
<1>4. \A t \in Slots : at'[t] = "idle" => \A i \in Ids : locker'[i] # t
  BY <1>1, <1>3 DEF HoldInv
<1>5. \A t \in Slots : at'[t] # "idle" => at[t] # "idle"
  BY <1>1 DEF HoldInv
<1> QED BY <1>2, <1>4, <1>5 DEF HoldInv

LEMMA GotoHolds ==
    ASSUME HoldInv, NEW s \in Slots, NEW step \in R!PCs \ {"idle"}, at[s] # "idle",
           R!Goto(s, step), UNCHANGED <<locker, class>>
    PROVE  HoldInv'
<1>1. at' = [at EXCEPT ![s] = step] /\ locker' = locker /\ class' = class
  BY DEF R!Goto
<1>2. at' \in [Slots -> R!PCs]
  BY <1>1 DEF HoldInv
<1>3. \A t \in Slots : at'[t] = "idle" <=> at[t] = "idle"
  BY <1>1 DEF HoldInv
<1> QED BY <1>1, <1>2, <1>3 DEF HoldInv

LEMMA LockHolds ==
    ASSUME R!Constants, HoldInv, NEW s \in Slots, R!Lock(s), class' = class
    PROVE  HoldInv'
<1> DEFINE k == R!InIdOrder(s)
<1>1. /\ at[s] = "lock" /\ at' = at
      /\ locker[k] = None /\ locker' = [locker EXCEPT ![k] = s]
  BY DEF R!Lock, R!HoldInvoice
<1>2. locker' \in [Ids -> Slots \cup {None}]
  BY <1>1 DEF HoldInv
<1>3. \A t \in Slots : at[t] = "idle" => \A i \in Ids : locker'[i] # t
  BY <1>1 DEF HoldInv
<1> QED BY <1>1, <1>2, <1>3 DEF HoldInv

LEMMA HoldNext == R!Constants /\ HoldInv /\ R!Next => HoldInv'
<1> SUFFICES ASSUME R!Constants, HoldInv, R!Next PROVE HoldInv'
  OBVIOUS
<1>0. class' = class
  BY DEF R!Next
<1>1. ASSUME NEW s \in Slots, R!Asked(s) PROVE HoldInv'
  <2>1. ASSUME NEW t \in R!Types, R!Create(s, t) PROVE HoldInv'
    BY <1>0, <2>1, ServeHolds DEF R!Create
  <2>2. ASSUME NEW i \in R!Live, R!Amend(s, i) PROVE HoldInv'
    BY <1>0, <2>2, ServeHolds DEF R!Amend, R!Update
  <2>3. ASSUME NEW i \in R!Live, R!Relink(s, i) PROVE HoldInv'
    BY <1>0, <2>3, ServeHolds DEF R!Relink, R!Update
  <2>4. ASSUME NEW i \in R!Live, R!Remove(s, i) PROVE HoldInv'
    BY <1>0, <2>4, ServeHolds DEF R!Remove
  <2>5. ASSUME NEW i \in R!Live, NEW t \in R!Types, R!Retype(s, i, t) PROVE HoldInv'
    BY <1>0, <2>5, ServeHolds DEF R!Retype, R!Update
  <2>6. ASSUME NEW i \in Ids, R!NotFound(s, i) PROVE HoldInv'
    BY <1>0, <2>6 DEF R!NotFound, HoldInv
  <2> QED BY <1>1, <2>1, <2>2, <2>3, <2>4, <2>5, <2>6 DEF R!Asked
<1>2. ASSUME NEW s \in Slots, R!Check(s) PROVE HoldInv'
  <2>1. CASE R!Leave(s)
    BY <1>0, <2>1, EndHolds DEF R!Leave
  <2>2. CASE ~R!Leave(s)
    <3>1. PICK step \in {"insert", "write"} : R!Goto(s, step)
      BY <1>2, <2>2 DEF R!Check
    <3>2. at[s] # "idle" /\ locker' = locker
      BY <1>2, <2>2 DEF R!Check
    <3>3. step \in R!PCs \ {"idle"}
      BY DEF R!PCs
    <3> QED BY <1>0, <3>1, <3>2, <3>3, GotoHolds
  <2> QED BY <2>1, <2>2
<1>3. ASSUME NEW s \in Slots, R!Insert(s) \/ R!Write(s) \/ R!Drop(s) \/ R!Killed(s) PROVE HoldInv'
  <2>1. R!End(s)
    BY <1>3 DEF R!Insert, R!Write, R!Drop, R!Killed, R!Leave
  <2> QED BY <1>0, <2>1, EndHolds
<1>4. ASSUME NEW s \in Slots, R!Delete(s) PROVE HoldInv'
  <2>1. CASE R!Leave(s)
    BY <1>0, <2>1, EndHolds DEF R!Leave
  <2>2. CASE ~R!Leave(s)
    <3>1. R!Goto(s, "drop") /\ at[s] # "idle" /\ locker' = locker
      BY <1>4, <2>2 DEF R!Delete
    <3>2. "drop" \in R!PCs \ {"idle"}
      BY DEF R!PCs
    <3> QED BY <1>0, <3>1, <3>2, GotoHolds
  <2> QED BY <2>1, <2>2
<1>5. ASSUME NEW s \in Slots, R!Lock(s) PROVE HoldInv'
  BY <1>0, <1>5, LockHolds
<1> QED BY <1>1, <1>2, <1>3, <1>4, <1>5 DEF R!Next, R!Step

--------------------------------------------------------------------------------
(* What a request makes of a row.                                          *)

RowOf(type, total, refunds, applied, number) ==
    [type |-> type, total |-> total, refunds |-> refunds, applied |-> applied, number |-> number]

LEMMA RowColumns ==
    ASSUME NEW row \in R!Rows, NEW t, NEW total, NEW refunds, NEW applied
    PROVE  [row EXCEPT !.type = t, !.total = total, !.refunds = refunds, !.applied = applied]
               = RowOf(t, total, refunds, applied, row.number)
<1>1. row = RowOf(row.type, row.total, row.refunds, row.applied, row.number)
  BY DEF R!Rows, RowOf
<1>2. PICK a : a = [row EXCEPT !.type = t]
  OBVIOUS
<1>3. a = RowOf(t, row.total, row.refunds, row.applied, row.number)
  BY <1>1, <1>2 DEF RowOf
<1>4. PICK b : b = [a EXCEPT !.total = total]
  OBVIOUS
<1>5. b = RowOf(t, total, row.refunds, row.applied, row.number)
  BY <1>3, <1>4 DEF RowOf
<1>6. PICK c : c = [b EXCEPT !.refunds = refunds]
  OBVIOUS
<1>7. c = RowOf(t, total, refunds, row.applied, row.number)
  BY <1>5, <1>6 DEF RowOf
<1>8. PICK d : d = [c EXCEPT !.applied = applied]
  OBVIOUS
<1>9. d = RowOf(t, total, refunds, applied, row.number)
  BY <1>7, <1>8 DEF RowOf
<1>10. d = [row EXCEPT !.type = t, !.total = total, !.refunds = refunds, !.applied = applied]
  BY <1>2, <1>4, <1>6, <1>8
<1> QED BY <1>9, <1>10

LEMMA ChangedRow ==
    ASSUME R!Constants, NEW r \in R!Requests, NEW row \in R!Rows
    PROVE  /\ R!Changed(r, row) \in R!Rows
           /\ R!Changed(r, row).type = R!Given(r.type, row.type)
           /\ R!Changed(r, row).refunds = R!Link(r.refunds, row.refunds, R!Given(r.type, row.type))
           /\ R!Changed(r, row).applied = R!Link(r.applied, row.applied, R!Given(r.type, row.type))
<1> DEFINE t == R!Given(r.type, row.type)
           total == R!Given(r.total, row.total)
           refunds == R!Link(r.refunds, row.refunds, t)
           applied == R!Link(r.applied, row.applied, t)
<1>1. R!Changed(r, row) = [row EXCEPT !.type = t, !.total = total, !.refunds = refunds, !.applied = applied]
  BY DEF R!Changed
<1>2. R!Changed(r, row) = [type |-> t, total |-> total, refunds |-> refunds,
                           applied |-> applied, number |-> row.number]
  BY <1>1, RowColumns DEF RowOf
<1>3. t \in R!Types \cup {"unused", "deleted"}
  BY DEF R!Given, R!Rows, R!Requests
<1>4. total \in R!Totals \cup {0}
  BY DEF R!Given, R!Rows, R!Requests
<1>5. refunds \in R!Links /\ applied \in R!Links
  BY DEF R!Link, R!Rows, R!Requests, R!Links
<1>6. row.number \in Nat
  BY DEF R!Rows
<1> HIDE DEF t, total, refunds, applied
<1>7. R!Changed(r, row) \in R!Rows
  BY <1>2, <1>3, <1>4, <1>5, <1>6 DEF R!Rows
<1>8. R!Changed(r, row).type = t /\ R!Changed(r, row).refunds = refunds /\ R!Changed(r, row).applied = applied
  BY <1>2
<1> QED BY <1>7, <1>8 DEF t, refunds, applied

LEMMA KeepApart ==
    R!Constants => /\ Keep \notin Ids /\ Keep # None /\ None \notin Ids /\ None \notin Slots
                   /\ Keep \notin R!Types /\ Keep \notin R!Totals
                   /\ Ids \subseteq Nat /\ IsFiniteSet(Ids)
<1> SUFFICES ASSUME R!Constants PROVE
        /\ Keep \notin Ids /\ Keep # None /\ None \notin Ids /\ None \notin Slots
        /\ Keep \notin R!Types /\ Keep \notin R!Totals
        /\ Ids \subseteq Nat /\ IsFiniteSet(Ids)
  OBVIOUS
<1>1. Keep \notin Ids /\ Keep # None /\ None \notin Ids /\ None \notin Slots /\ Keep \notin Int
  BY DEF R!Constants
<1>2. Keep \notin R!Types
  BY DEF R!Constants, R!Types
<1>3. R!Totals \subseteq Int
  BY DEF R!Totals
<1>4. Ids \subseteq Nat /\ IsFiniteSet(Ids)
  BY SameFinite DEF R!Constants
<1> QED BY <1>1, <1>2, <1>3, <1>4

(* The number of an invoice that is inserted.                              *)
LEMMA ClaimedIsNumber == R!Constants /\ LedgerTypes => R!ClaimedNumber \in Nat
<1> SUFFICES ASSUME R!Constants, LedgerTypes PROVE R!ClaimedNumber \in Nat
  OBVIOUS
<1> DEFINE used == {inv[i].number : i \in R!Live} \cup {0}
<1>1. R!Live \subseteq Ids /\ IsFiniteSet(R!Live)
  BY KeepApart, FS_Subset DEF R!Live
<1>2. IsFiniteSet({inv[i].number : i \in R!Live})
  <2> DEFINE number == [i \in R!Live |-> inv[i].number]
  <2>1. number \in Surjection(R!Live, {inv[i].number : i \in R!Live})
    BY DEF Surjection
  <2> HIDE DEF number
  <2> QED BY <1>1, <2>1, FS_Surjection
<1>3. IsFiniteSet(used) /\ used # {}
  BY <1>2, FS_AddElement
<1>4. used \subseteq Nat
  BY <1>1 DEF LedgerTypes, R!Rows
<1>5. R!Highest \in Nat
  <2>1. R!Highest = R!Max(used)
    BY DEF R!Highest
  <2>2. used \subseteq Int
    BY <1>4
  <2>3. R!Max(used) \in used
    BY <1>3, <2>2, MaxIsLargest
  <2> QED BY <1>4, <2>1, <2>3
<1>6. counter \in Nat
  BY DEF LedgerTypes
<1>7. IsFiniteSet({counter, R!Highest + 1})
  <2>1. {counter, R!Highest + 1} = {counter} \cup {R!Highest + 1}
    OBVIOUS
  <2>2. IsFiniteSet({counter})
    BY FS_Singleton
  <2>3. IsFiniteSet({counter} \cup {R!Highest + 1})
    BY <2>2, FS_AddElement
  <2> QED BY <2>1, <2>3
<1>8. R!Max({counter, R!Highest + 1}) \in {counter, R!Highest + 1}
  <2>1. {counter, R!Highest + 1} \subseteq Int /\ {counter, R!Highest + 1} # {}
    BY <1>5, <1>6
  <2> QED BY <2>1, <1>7, MaxIsLargest
<1> QED BY <1>5, <1>6, <1>8 DEF R!ClaimedNumber

--------------------------------------------------------------------------------
(* Invoices come, and those that are there keep their type and links.      *)
Grows == \A i \in Ids : i \in R!Live =>
    /\ i \in R!Live'
    /\ inv'[i].type = inv[i].type /\ inv'[i].refunds = inv[i].refunds /\ inv'[i].applied = inv[i].applied

LEMMA SameLedgerGrows == inv' = inv => Grows
BY DEF Grows, R!Live

LEMMA StandingStays ==
    ASSUME Grows, NEW l, Standing(l)
    PROVE  l = None \/ (l \in R!Live' /\ inv'[l].type # "return")
BY DEF Grows, Standing, R!Live

(* The links of the new row lead to rows that can be locked.               *)
LEMMA LockableStays ==
    ASSUME R!Constants, Grows, NEW s \in Slots, Crosses(s), req'[s] = req[s], found'[s] = found[s]
    PROVE  R!New(s)' = R!New(s) /\ R!ToLock(s)' = R!ToLock(s)
<1>1. R!New(s)' = R!New(s)
  BY DEF R!New
<1>2. /\ R!New(s).refunds = None \/ R!New(s).refunds \in R!Live
      /\ R!New(s).applied = None \/ R!New(s).applied \in R!Live
  BY DEF Crosses, Standing
<1>3. None \notin Ids
  BY KeepApart
<1>4. R!Live \subseteq R!Live' /\ R!Live' \subseteq Ids
  BY DEF Grows, R!Live
<1>5. \A l \in R!Live' : l = R!New(s).refunds \/ l = R!New(s).applied => l \in R!Live
  BY <1>2, <1>3, <1>4
<1> HIDE DEF Crosses, Grows
<1> DEFINE r == req[s]
           wanted(live) == {l \in live : \/ l = R!New(s).refunds /\ (r.refunds # Keep \/ r.total # Keep)
                                         \/ l = R!New(s).applied /\ (r.applied # Keep \/ r.total # Keep)} \ {r.about}
<1>6. wanted(R!Live') = wanted(R!Live)
  BY <1>4, <1>5
<1>7. R!ToLock(s) = IF R!New(s).type # "return" THEN {} ELSE wanted(R!Live)
  BY DEF R!ToLock
<1>8. R!ToLock(s)' = IF R!New(s).type # "return" THEN {} ELSE wanted(R!Live')
  BY <1>1 DEF R!ToLock
<1> QED BY <1>1, <1>6, <1>7, <1>8

LEMMA CrossesStays ==
    ASSUME R!Constants, Grows, NEW s \in Slots, Crosses(s),
           at'[s] = at[s], req'[s] = req[s], found'[s] = found[s], seen'[s] = seen[s],
           req[s].op = "create" => inv'[req[s].about].type = "unused"
    PROVE  Crosses(s)'
<1>1. R!New(s)' = R!New(s)
  BY LockableStays
<1>2. /\ R!New(s).refunds = None \/ (R!New(s).refunds \in R!Live' /\ inv'[R!New(s).refunds].type # "return")
      /\ R!New(s).applied = None \/ (R!New(s).applied \in R!Live' /\ inv'[R!New(s).applied].type # "return")
  BY StandingStays DEF Crosses
<1>3. ASSUME req[s].op = "update"
      PROVE  req[s].about \in R!Live' /\ SameLinks(R!New(s), req[s].about)'
  <2>1. req[s].about \in R!Live /\ req[s].about \in Ids
    BY <1>3 DEF Crosses, R!Live
  <2> QED BY <1>1, <1>3, <2>1 DEF Crosses, SameLinks, Grows
<1>4. ASSUME at[s] = "write" PROVE SameLinks(seen[s], req[s].about)'
  <2>1. req[s].about \in R!Live /\ req[s].about \in Ids
    BY <1>4 DEF Crosses, R!Live
  <2> QED BY <1>4, <2>1 DEF Crosses, SameLinks, Grows
<1> QED BY <1>1, <1>2, <1>3, <1>4 DEF Crosses, Standing

(* The requests that do not move.                                          *)
LEMMA QueuesStays ==
    ASSUME R!Constants, HoldInv, Grows, NEW s \in Slots, Queues(s),
           at'[s] = at[s], req'[s] = req[s], found'[s] = found[s], seen'[s] = seen[s],
           \A i \in Ids : locker'[i] = s <=> locker[i] = s,
           Creating(s) => inv'[req[s].about].type = "unused"
    PROVE  Queues(s)'
<1>1. CASE at[s] = "idle"
  BY <1>1 DEF Queues, InOrder, HoldInv
<1>2. CASE at[s] # "idle"
  <2>1. Crosses(s)
    BY <1>2 DEF Queues
  <2>2. Crosses(s)'
    BY <1>2, <2>1, CrossesStays DEF Creating
  <2>3. R!New(s)' = R!New(s) /\ R!ToLock(s)' = R!ToLock(s)
    BY <2>1, LockableStays
  <2>4. \A i \in Ids : locker'[i] = s => Holds(i, s)'
    <3> SUFFICES ASSUME NEW i \in Ids, locker'[i] = s PROVE Holds(i, s)'
      OBVIOUS
    <3>1. Holds(i, s)
      BY DEF Queues
    <3> QED BY <2>3, <3>1 DEF Holds, Grows
  <2>5. R!ToLock(s) \subseteq Ids
    BY DEF R!ToLock, R!Live
  <2>6. InOrder(s)'
    BY <2>3, <2>5 DEF Queues, InOrder
  <2> QED BY <2>2, <2>4, <2>6 DEF Queues
<1> QED BY <1>1, <1>2

--------------------------------------------------------------------------------
(* One request moves, and the ledger only grows.                           *)
LEMMA CrossStep ==
    ASSUME R!Constants, HoldInv, CrossInv, NEW s \in Slots, Grows,
           \A u \in Slots \ {s} :
               /\ at'[u] = at[u] /\ req'[u] = req[u] /\ found'[u] = found[u] /\ seen'[u] = seen[u]
               /\ \A i \in Ids : locker'[i] = u <=> locker[i] = u
               /\ Creating(u) => inv'[req[u].about].type = "unused",
           LedgerTypes', Ledger', Queues(s)',
           Creating(s)' => \A u \in Slots \ {s} : Creating(u) => req[u].about # req'[s].about
    PROVE  CrossInv'
<1>1. ASSUME NEW u \in Slots PROVE Queues(u)'
  <2>1. CASE u = s
    BY <2>1
  <2>2. CASE u # s
    <3>1. Queues(u)
      BY DEF CrossInv
    <3>2. at'[u] = at[u] /\ req'[u] = req[u] /\ found'[u] = found[u] /\ seen'[u] = seen[u]
      BY <2>2
    <3>3. (\A i \in Ids : locker'[i] = u <=> locker[i] = u) /\ (Creating(u) => inv'[req[u].about].type = "unused")
      BY <2>2
    <3> QED BY <3>1, <3>2, <3>3, QueuesStays
  <2> QED BY <2>1, <2>2
<1>2. Apart'
  <2>1. \A u \in Slots \ {s} : Creating(u)' = Creating(u) /\ req'[u] = req[u]
    BY DEF Creating
  <2>2. ASSUME NEW u \in Slots, NEW t \in Slots, Creating(u)', Creating(t)', u # t
        PROVE  req'[u].about # req'[t].about
    <3>1. CASE u = s
      <4>1. Creating(s)' /\ t \in Slots \ {s} /\ Creating(t)
        BY <2>1, <2>2, <3>1
      <4> QED BY <4>1, <2>1, <3>1
    <3>2. CASE t = s
      <4>1. Creating(s)' /\ u \in Slots \ {s} /\ Creating(u)
        BY <2>1, <2>2, <3>2
      <4>2. req[u].about # req'[s].about
        BY <4>1
      <4> QED BY <4>1, <4>2, <2>1, <3>2
    <3>3. CASE u # s /\ t # s
      BY <2>1, <2>2, <3>3 DEF CrossInv, Apart
    <3> QED BY <3>1, <3>2, <3>3
  <2> QED BY <2>2 DEF Apart
<1> QED BY <1>1, <1>2 DEF CrossInv

LEMMA SameLedger == inv' = inv /\ Ledger => Ledger'
BY DEF Ledger, Standing, R!Live

(* The ledger stays as it is.                                              *)
LEMMA ReadStep ==
    ASSUME R!Constants, HoldInv, CrossInv, NEW s \in Slots, inv' = inv, counter' = counter,
           req' \in [Slots -> R!Requests], found' \in [Slots -> R!Rows], seen' \in [Slots -> R!Rows],
           \A u \in Slots \ {s} :
               /\ at'[u] = at[u] /\ req'[u] = req[u] /\ found'[u] = found[u] /\ seen'[u] = seen[u]
               /\ \A i \in Ids : locker'[i] = u <=> locker[i] = u,
           Queues(s)',
           Creating(s)' => \A u \in Slots \ {s} : Creating(u) => req[u].about # req'[s].about
    PROVE  CrossInv'
<1>1. Grows
  BY SameLedgerGrows
<1>2. Ledger'
  BY SameLedger DEF CrossInv
<1>3. LedgerTypes'
  BY DEF CrossInv, LedgerTypes
<1>4. \A u \in Slots \ {s} : Creating(u) => inv'[req[u].about].type = "unused"
  BY DEF CrossInv, Queues, Crosses, Creating
<1> QED BY <1>1, <1>2, <1>3, <1>4, CrossStep

(* A request ends.                                                         *)
LEMMA EndQueues ==
    ASSUME R!Constants, HoldInv, NEW s \in Slots, R!End(s), LedgerTypes
    PROVE  /\ \A u \in Slots \ {s} :
                  /\ at'[u] = at[u] /\ req'[u] = req[u] /\ found'[u] = found[u] /\ seen'[u] = seen[u]
                  /\ \A i \in Ids : locker'[i] = u <=> locker[i] = u
           /\ Queues(s)' /\ ~Creating(s)'
           /\ req' \in [Slots -> R!Requests] /\ found' \in [Slots -> R!Rows] /\ seen' \in [Slots -> R!Rows]
<1>1. /\ locker' = [i \in Ids |-> IF locker[i] = s THEN None ELSE locker[i]]
      /\ at' = [at EXCEPT ![s] = "idle"]
      /\ req' = [req EXCEPT ![s] = R!NoReq]
      /\ found' = [found EXCEPT ![s] = R!NoRow]
      /\ seen' = [seen EXCEPT ![s] = R!NoRow]
  BY DEF R!End
<1>2. R!NoReq \in R!Requests /\ R!NoRow \in R!Rows
  BY DEF R!NoReq, R!Requests, R!NoRow, R!Rows, R!Links
<1>3. \A u \in Slots \ {s} :
          at'[u] = at[u] /\ req'[u] = req[u] /\ found'[u] = found[u] /\ seen'[u] = seen[u]
  BY <1>1 DEF HoldInv, LedgerTypes
<1>4. None \notin Slots
  BY KeepApart
<1>5. \A u \in Slots \ {s} : \A i \in Ids : locker'[i] = u <=> locker[i] = u
  BY <1>1, <1>4
<1>6. at'[s] = "idle" /\ \A i \in Ids : locker'[i] # s
  BY <1>1, <1>4 DEF HoldInv
<1>7. Queues(s)' /\ ~Creating(s)'
  BY <1>6 DEF Queues, InOrder, Creating
<1>8. req' \in [Slots -> R!Requests] /\ found' \in [Slots -> R!Rows] /\ seen' \in [Slots -> R!Rows]
  BY <1>1, <1>2 DEF LedgerTypes
<1> QED BY <1>3, <1>5, <1>7, <1>8

LEMMA LeaveCrosses ==
    ASSUME R!Constants, HoldInv, CrossInv, NEW s \in Slots, R!Leave(s)
    PROVE  CrossInv'
<1>1. R!End(s) /\ inv' = inv /\ counter' = counter
  BY DEF R!Leave, R!tables
<1>2. LedgerTypes
  BY DEF CrossInv
<1> QED BY <1>1, <1>2, EndQueues, ReadStep

(* A request starts.                                                       *)
LEMMA ServeCrosses ==
    ASSUME R!Constants, HoldInv, CrossInv, NEW s \in Slots, at[s] = "idle",
           NEW r \in R!Requests, NEW row \in R!Rows, R!Serve(s, r, row, "lock"),
           r.op \in {"create", "update"},
           R!Changed(r, row).type \in R!Types,
           Standing(R!Changed(r, row).refunds), Standing(R!Changed(r, row).applied),
           R!Changed(r, row).type # "return" =>
               R!Changed(r, row).refunds = None /\ R!Changed(r, row).applied = None,
           r.op = "create" => /\ r.about \in Ids /\ inv[r.about].type = "unused"
                              /\ \A u \in Slots : req[u].about # r.about,
           r.op = "update" => r.about \in R!Live /\ SameLinks(R!Changed(r, row), r.about)
    PROVE  CrossInv'
<1>1. /\ req' = [req EXCEPT ![s] = r] /\ found' = [found EXCEPT ![s] = row]
      /\ at' = [at EXCEPT ![s] = "lock"]
      /\ inv' = inv /\ counter' = counter /\ locker' = locker /\ seen' = seen
  BY DEF R!Serve, R!tables
<1>2. req' \in [Slots -> R!Requests] /\ found' \in [Slots -> R!Rows] /\ seen' \in [Slots -> R!Rows]
  BY <1>1 DEF CrossInv, LedgerTypes
<1>3. \A u \in Slots \ {s} :
          /\ at'[u] = at[u] /\ req'[u] = req[u] /\ found'[u] = found[u] /\ seen'[u] = seen[u]
          /\ \A i \in Ids : locker'[i] = u <=> locker[i] = u
  BY <1>1 DEF HoldInv, CrossInv, LedgerTypes
<1>4. at'[s] = "lock" /\ req'[s] = r /\ found'[s] = row
  BY <1>1 DEF HoldInv, CrossInv, LedgerTypes
<1>5. R!New(s)' = R!Changed(r, row)
  BY <1>4 DEF R!New
<1>6. R!Live' = R!Live
  BY <1>1 DEF R!Live
<1>7. Crosses(s)'
  BY <1>1, <1>4, <1>5, <1>6 DEF Crosses, Standing, SameLinks
<1>8. \A i \in Ids : locker'[i] # s
  BY <1>1 DEF HoldInv
<1>9. Queues(s)'
  BY <1>7, <1>8 DEF Queues, InOrder
<1>10. Creating(s)' => \A u \in Slots \ {s} : Creating(u) => req[u].about # req'[s].about
  BY <1>4 DEF Creating
<1> QED BY <1>1, <1>2, <1>3, <1>9, <1>10, ReadStep

LEMMA CreateCrosses ==
    ASSUME R!Constants, HoldInv, CrossInv, NEW s \in Slots, NEW t \in R!Types, R!Create(s, t)
    PROVE  CrossInv'
<1>1. at[s] = "idle" /\ R!Fresh # {}
  BY DEF R!Create, R!Admitted
<1>2. PICK v \in R!Totals, refunds \in R!Either(t, R!Linkable, {None}), applied \in R!Either(t, R!Linkable, {None}) :
          R!Serve(s, [op |-> "create", class |-> R!Either(t, "create return", "create expense"),
                      about |-> R!Min(R!Fresh), type |-> t,
                      total |-> v, refunds |-> refunds, applied |-> applied], R!NoRow, "lock")
  BY DEF R!Create
<1> DEFINE r == [op |-> "create", class |-> R!Either(t, "create return", "create expense"),
                 about |-> R!Min(R!Fresh), type |-> t,
                 total |-> v, refunds |-> refunds, applied |-> applied]
<1>3. R!Min(R!Fresh) \in R!Fresh
  <2>1. R!Fresh \subseteq Nat
    BY KeepApart DEF R!Fresh
  <2> QED BY <1>1, <2>1, MinIsSmallest
<1>4. /\ r.about \in Ids /\ inv[r.about].type = "unused"
      /\ \A u \in Slots : req[u].about # r.about
  BY <1>3 DEF R!Fresh
<1>5. Standing(refunds) /\ Standing(applied)
  BY DEF R!Either, R!Linkable, Standing
<1>6. t # "return" => refunds = None /\ applied = None
  BY DEF R!Either
<1>7. refunds \in R!Links /\ applied \in R!Links
  BY <1>5 DEF Standing, R!Links, R!Live
<1>8. r \in R!Requests
  <2>1. R!Either(t, "create return", "create expense") \in R!Classes
    BY DEF R!Either, R!Classes
  <2>2. R!Min(R!Fresh) \in R!Links
    BY <1>4 DEF R!Links
  <2> QED BY <2>1, <2>2, <1>7 DEF R!Requests
<1>9. R!NoRow \in R!Rows
  BY DEF R!NoRow, R!Rows, R!Links
<1>10. t # Keep /\ refunds # Keep /\ applied # Keep
  BY <1>7, KeepApart DEF R!Links
<1>11. /\ R!Changed(r, R!NoRow).type = t
       /\ R!Changed(r, R!NoRow).refunds = refunds /\ R!Changed(r, R!NoRow).applied = applied
  <2>1. r.type = t /\ r.refunds = refunds /\ r.applied = applied
    OBVIOUS
  <2> HIDE DEF r
  <2> QED BY <1>8, <1>9, <1>10, <2>1, ChangedRow DEF R!Given, R!Link
<1>12. r.op = "create"
  OBVIOUS
<1>13. R!Serve(s, r, R!NoRow, "lock")
  BY <1>2
<1> HIDE DEF r
<1>14. /\ r.op \in {"create", "update"} /\ R!Changed(r, R!NoRow).type \in R!Types
       /\ Standing(R!Changed(r, R!NoRow).refunds) /\ Standing(R!Changed(r, R!NoRow).applied)
       /\ R!Changed(r, R!NoRow).type # "return" =>
              R!Changed(r, R!NoRow).refunds = None /\ R!Changed(r, R!NoRow).applied = None
  BY <1>5, <1>6, <1>11, <1>12
<1> QED BY <1>1, <1>4, <1>8, <1>9, <1>12, <1>13, <1>14, ServeCrosses

RequestOf(op, does, about, total) ==
    [op |-> op, class |-> does, about |-> about, type |-> Keep,
     total |-> total, refunds |-> Keep, applied |-> Keep]

LEMMA RequestColumns ==
    ASSUME NEW does, NEW about, NEW total
    PROVE  [[R!NoReq EXCEPT !.class = does, !.total = total] EXCEPT !.op = "update", !.about = about]
               = RequestOf("update", does, about, total)
<1>1. R!NoReq = RequestOf("none", "none", None, Keep)
  BY DEF R!NoReq, RequestOf
<1>2. PICK a : a = [R!NoReq EXCEPT !.class = does]
  OBVIOUS
<1>3. a = RequestOf("none", does, None, Keep)
  BY <1>1, <1>2 DEF RequestOf
<1>4. PICK b : b = [a EXCEPT !.total = total]
  OBVIOUS
<1>5. b = RequestOf("none", does, None, total)
  BY <1>3, <1>4 DEF RequestOf
<1>6. PICK c : c = [b EXCEPT !.op = "update"]
  OBVIOUS
<1>7. c = RequestOf("update", does, None, total)
  BY <1>5, <1>6 DEF RequestOf
<1>8. PICK d : d = [c EXCEPT !.about = about]
  OBVIOUS
<1>9. d = RequestOf("update", does, about, total)
  BY <1>7, <1>8 DEF RequestOf
<1>10. d = [[R!NoReq EXCEPT !.class = does, !.total = total] EXCEPT !.op = "update", !.about = about]
  BY <1>2, <1>4, <1>6, <1>8
<1> QED BY <1>9, <1>10

LEMMA AmendCrosses ==
    ASSUME R!Constants, HoldInv, CrossInv, NEW s \in Slots, NEW i \in R!Live, R!Amend(s, i)
    PROVE  CrossInv'
<1>1. at[s] = "idle"
  BY DEF R!Amend, R!Admitted
<1> DEFINE does == R!Either(inv[i].type, "amend return", "amend expense")
<1>2. PICK v \in R!Totals :
          R!Serve(s, [[R!NoReq EXCEPT !.class = does, !.total = v] EXCEPT !.op = "update", !.about = i], inv[i], "lock")
  BY DEF R!Amend, R!Update
<1> DEFINE r == [[R!NoReq EXCEPT !.class = does, !.total = v] EXCEPT !.op = "update", !.about = i]
<1>3. r = [op |-> "update", class |-> does, about |-> i, type |-> Keep,
           total |-> v, refunds |-> Keep, applied |-> Keep]
  BY RequestColumns DEF RequestOf
<1>4. does \in R!Classes
  BY DEF R!Either, R!Classes
<1>5. r \in R!Requests
  <2>1. i \in R!Links
    BY DEF R!Live, R!Links
  <2> QED BY <1>3, <1>4, <2>1 DEF R!Requests
<1>6. inv[i] \in R!Rows /\ inv[i].type \in R!Types
  BY DEF CrossInv, LedgerTypes, R!Live
<1>7. r.op = "update" /\ r.about = i /\ r.type = Keep /\ r.refunds = Keep /\ r.applied = Keep
  BY <1>3
<1>8. R!Serve(s, r, inv[i], "lock")
  BY <1>2
<1> HIDE DEF r
<1>9. /\ Standing(inv[i].refunds) /\ Standing(inv[i].applied)
      /\ inv[i].type # "return" => inv[i].refunds = None /\ inv[i].applied = None
  BY DEF CrossInv, Ledger
<1>10. SameLinks(R!Changed(r, inv[i]), i)
  <2>1. R!Changed(r, inv[i]).type = inv[i].type
    BY <1>5, <1>6, <1>7, ChangedRow DEF R!Given
  <2>2. R!Given(r.type, inv[i].type) = inv[i].type
    BY <1>7 DEF R!Given
  <2>3. /\ R!Changed(r, inv[i]).refunds = R!Link(Keep, inv[i].refunds, inv[i].type)
        /\ R!Changed(r, inv[i]).applied = R!Link(Keep, inv[i].applied, inv[i].type)
    BY <1>5, <1>6, <1>7, <2>2, ChangedRow
  <2> QED BY <2>1, <2>3, <1>9 DEF R!Link, SameLinks
<1>11. /\ r.op \in {"create", "update"} /\ R!Changed(r, inv[i]).type \in R!Types
       /\ Standing(R!Changed(r, inv[i]).refunds) /\ Standing(R!Changed(r, inv[i]).applied)
       /\ R!Changed(r, inv[i]).type # "return" =>
              R!Changed(r, inv[i]).refunds = None /\ R!Changed(r, inv[i]).applied = None
       /\ r.op # "create" /\ (r.op = "update" => r.about \in R!Live /\ SameLinks(R!Changed(r, inv[i]), r.about))
  BY <1>6, <1>7, <1>9, <1>10 DEF SameLinks
<1> QED BY <1>1, <1>5, <1>6, <1>8, <1>11, ServeCrosses

(* The next row is the first of those that are left.                       *)
LEMMA LockCrosses ==
    ASSUME R!Constants, HoldInv, CrossInv, NEW s \in Slots, R!Lock(s)
    PROVE  CrossInv'
<1> DEFINE left == R!ToLock(s) \ R!Held(s)
           k == R!Min(left)
<1>1. /\ at[s] = "lock" /\ left # {} /\ locker[k] = None /\ locker' = [locker EXCEPT ![k] = s]
      /\ inv' = inv /\ counter' = counter /\ at' = at /\ req' = req /\ found' = found /\ seen' = seen
  BY DEF R!Lock, R!HoldInvoice, R!InIdOrder, R!tables
<1>2. R!ToLock(s) \subseteq Ids /\ Ids \subseteq Nat /\ None \notin Slots
  BY KeepApart DEF R!ToLock, R!Live
<1>3. k \in left /\ \A l \in left : k <= l
  BY <1>1, <1>2, MinIsSmallest
<1>4. k \in Ids /\ k \in R!ToLock(s)
  BY <1>2, <1>3
<1> HIDE DEF k
<1>5. Crosses(s) /\ InOrder(s) /\ \A i \in Ids : locker[i] = s => Holds(i, s)
  BY <1>1 DEF CrossInv, Queues
<1>6. Grows
  BY <1>1, SameLedgerGrows
<1>7. R!New(s)' = R!New(s) /\ R!ToLock(s)' = R!ToLock(s)
  BY <1>1, <1>5, <1>6, LockableStays
<1>8. Crosses(s)'
  <2>1. req[s].op = "create" => inv'[req[s].about].type = "unused"
    BY <1>1, <1>5 DEF Crosses
  <2> QED BY <1>1, <1>5, <1>6, <2>1, CrossesStays
<1>9. R!Live' = R!Live
  BY <1>1 DEF R!Live
<1>10. Holds(k, s)
  <2>1. k \in R!Live /\ R!New(s).type = "return" /\ k \in {R!New(s).refunds, R!New(s).applied}
    BY <1>4 DEF R!ToLock
  <2>2. None \notin Ids
    BY KeepApart
  <2>3. inv[k].type # "return"
    BY <1>4, <1>5, <2>1, <2>2 DEF Crosses, Standing
  <2> QED BY <2>1, <2>3 DEF Holds
<1>11. \A i \in Ids : locker'[i] = s => i = k \/ locker[i] = s
  BY <1>1 DEF HoldInv
<1>12. \A i \in Ids : locker'[i] = s => Holds(i, s)'
  <2> SUFFICES ASSUME NEW i \in Ids, locker'[i] = s PROVE Holds(i, s)'
    OBVIOUS
  <2>1. Holds(i, s)
    BY <1>5, <1>10, <1>11
  <2> QED BY <1>1, <1>7, <1>9, <2>1 DEF Holds
<1>13. InOrder(s)'
  <2> SUFFICES ASSUME NEW i \in Ids, NEW l \in R!ToLock(s), locker'[i] = s, locker'[l] # s
               PROVE  i < l
    BY <1>7 DEF InOrder
  <2>1. l \in Ids /\ locker'[k] = s
    BY <1>1, <1>2, <1>4 DEF HoldInv
  <2>2. l # k /\ locker[l] # s
    BY <1>1, <2>1 DEF HoldInv
  <2>3. CASE i = k
    <3>1. l \in left
      BY <2>1, <2>2 DEF R!Held
    <3>2. k <= l /\ k \in Nat /\ l \in Nat
      BY <3>1, <1>2, <1>3, <1>4, <2>1
    <3> QED BY <3>2, <2>2, <2>3
  <2>4. CASE locker[i] = s
    BY <2>2, <2>4, <1>1, <1>5 DEF InOrder
  <2> QED BY <2>3, <2>4, <1>11
<1>14. Queues(s)'
  BY <1>8, <1>12, <1>13 DEF Queues
<1>15. \A u \in Slots \ {s} :
          /\ at'[u] = at[u] /\ req'[u] = req[u] /\ found'[u] = found[u] /\ seen'[u] = seen[u]
          /\ \A i \in Ids : locker'[i] = u <=> locker[i] = u
  <2>1. \A u \in Slots \ {s} : \A i \in Ids : locker'[i] = u <=> locker[i] = u
    BY <1>1, <1>2 DEF HoldInv
  <2> QED BY <1>1, <2>1
<1>16. Creating(s)' => \A u \in Slots \ {s} : Creating(u) => req[u].about # req'[s].about
  BY <1>1 DEF Creating, CrossInv, Apart
<1>17. req' \in [Slots -> R!Requests] /\ found' \in [Slots -> R!Rows] /\ seen' \in [Slots -> R!Rows]
  BY <1>1 DEF CrossInv, LedgerTypes
<1> QED BY <1>1, <1>14, <1>15, <1>16, <1>17, ReadStep

LEMMA CheckCrosses ==
    ASSUME R!Constants, HoldInv, CrossInv, NEW s \in Slots, R!Check(s)
    PROVE  CrossInv'
<1>1. CASE R!Leave(s)
  BY <1>1, LeaveCrosses
<1>2. CASE ~R!Leave(s)
  <2> DEFINE step == IF req[s].op = "create" THEN "insert" ELSE "write"
             i == req[s].about
  <2>1. /\ at[s] = "lock" /\ at' = [at EXCEPT ![s] = step] /\ seen' = [seen EXCEPT ![s] = inv[i]]
        /\ inv' = inv /\ counter' = counter /\ locker' = locker /\ req' = req /\ found' = found
    BY <1>2 DEF R!Check, R!Goto, R!tables
  <2>2. Crosses(s) /\ \A j \in Ids : locker[j] = s => Holds(j, s)
    BY <2>1 DEF CrossInv, Queues
  <2>3. i \in Ids
    BY <2>2 DEF Crosses, R!Live
  <2>4. inv[i] \in R!Rows
    BY <2>3 DEF CrossInv, LedgerTypes
  <2>5. at'[s] = step /\ seen'[s] = inv[i] /\ req'[s] = req[s] /\ found'[s] = found[s]
    BY <2>1 DEF HoldInv, CrossInv, LedgerTypes
  <2>6. R!New(s)' = R!New(s) /\ R!Live' = R!Live
    BY <2>1 DEF R!New, R!Live
  <2>7. Crosses(s)'
    <3>1. SameLinks(inv[i], i)' /\ (step = "insert" => req[s].op = "create") /\ step \in {"insert", "write"}
      BY <2>1 DEF SameLinks
    <3>2. step = "write" => req[s].op = "update"
      BY <2>2 DEF Crosses
    <3>3. SameLinks(seen[s], i)'
      BY <2>1, <2>5 DEF SameLinks
    <3> HIDE DEF step
    <3> QED BY <2>1, <2>2, <2>5, <2>6, <3>1, <3>2, <3>3 DEF Crosses, SameLinks, Standing
  <2>8. \A j \in Ids : locker'[j] = s => Holds(j, s)'
    BY <2>1, <2>2, <2>6 DEF Holds
  <2>9. Queues(s)'
    BY <2>5, <2>7, <2>8 DEF Queues, InOrder
  <2>10. \A u \in Slots \ {s} :
          /\ at'[u] = at[u] /\ req'[u] = req[u] /\ found'[u] = found[u] /\ seen'[u] = seen[u]
          /\ \A j \in Ids : locker'[j] = u <=> locker[j] = u
    BY <2>1 DEF HoldInv, CrossInv, LedgerTypes
  <2>11. Creating(s)' => \A u \in Slots \ {s} : Creating(u) => req[u].about # req'[s].about
    BY <2>1 DEF Creating, CrossInv, Apart
  <2>12. req' \in [Slots -> R!Requests] /\ found' \in [Slots -> R!Rows] /\ seen' \in [Slots -> R!Rows]
    BY <2>1, <2>4 DEF CrossInv, LedgerTypes
  <2> QED BY <2>1, <2>9, <2>10, <2>11, <2>12, ReadStep
<1> QED BY <1>1, <1>2

LEMMA InsertCrosses ==
    ASSUME R!Constants, HoldInv, CrossInv, NEW s \in Slots, R!Insert(s)
    PROVE  CrossInv'
<1>1. CASE R!Leave(s)
  BY <1>1, LeaveCrosses
<1>2. CASE ~R!Leave(s)
  <2> DEFINE i == req[s].about
             row == [R!New(s) EXCEPT !.number = R!ClaimedNumber]
  <2>1. /\ at[s] = "insert" /\ inv' = [inv EXCEPT ![i] = row]
        /\ counter' = R!ClaimedNumber + 1 /\ R!End(s)
    BY <1>2 DEF R!Insert
  <2>2. Crosses(s)
    BY <2>1 DEF CrossInv, Queues
  <2>3. req[s].op = "create" /\ i \in Ids /\ inv[i].type = "unused"
    BY <2>1, <2>2 DEF Crosses
  <2>4. LedgerTypes
    BY DEF CrossInv
  <2>5. R!New(s) \in R!Rows
    BY <2>4, ChangedRow DEF R!New, LedgerTypes
  <2>6. R!ClaimedNumber \in Nat
    BY <2>4, ClaimedIsNumber
  <2>7. row \in R!Rows /\ row.type = R!New(s).type /\ row.refunds = R!New(s).refunds /\ row.applied = R!New(s).applied
    BY <2>5, <2>6 DEF R!Rows
  <2> HIDE DEF row
  <2>8. i \notin R!Live
    BY <2>3 DEF R!Live, R!Types
  <2>9. inv' \in [Ids -> R!Rows] /\ inv'[i] = row /\ \A j \in Ids : j # i => inv'[j] = inv[j]
    BY <2>1, <2>3, <2>4, <2>7 DEF LedgerTypes
  <2>10. R!Live' = R!Live \cup {i}
    <3>1. row.type \in R!Types
      BY <2>2, <2>7 DEF Crosses
    <3> QED BY <2>3, <2>9, <3>1 DEF R!Live
  <2>11. Grows
    BY <2>8, <2>9, <2>10 DEF Grows
  <2>12. Ledger'
    <3> SUFFICES ASSUME NEW j \in R!Live'
                 PROVE  /\ Standing(inv[j].refunds)' /\ Standing(inv[j].applied)'
                        /\ inv'[j].type # "return" => inv'[j].refunds = None /\ inv'[j].applied = None
      BY DEF Ledger, Standing
    <3>1. CASE j = i
      <4>1. inv'[j].refunds = R!New(s).refunds /\ inv'[j].applied = R!New(s).applied /\ inv'[j].type = R!New(s).type
        BY <2>7, <2>9, <3>1
      <4>2. Standing(R!New(s).refunds) /\ Standing(R!New(s).applied)
        BY <2>2 DEF Crosses
      <4> QED BY <2>2, <2>11, <4>1, <4>2, StandingStays DEF Crosses, Standing
    <3>2. CASE j # i
      <4>1. j \in R!Live /\ j \in Ids /\ inv'[j] = inv[j]
        BY <2>9, <2>10, <3>2 DEF R!Live
      <4>2. Standing(inv[j].refunds) /\ Standing(inv[j].applied)
        BY <4>1 DEF CrossInv, Ledger
      <4>3. inv[j].type # "return" => inv[j].refunds = None /\ inv[j].applied = None
        BY <4>1 DEF CrossInv, Ledger
      <4> QED BY <2>11, <4>1, <4>2, <4>3, StandingStays DEF Standing
    <3> QED BY <3>1, <3>2
  <2>13. \A u \in Slots \ {s} : Creating(u) => inv'[req[u].about].type = "unused"
    <3> SUFFICES ASSUME NEW u \in Slots \ {s}, Creating(u) PROVE inv'[req[u].about].type = "unused"
      OBVIOUS
    <3>1. req[u].about # i
      BY <2>1, <2>3 DEF Creating, CrossInv, Apart
    <3>2. req[u].about \in Ids /\ inv[req[u].about].type = "unused"
      BY DEF Creating, CrossInv, Queues, Crosses
    <3> QED BY <2>9, <3>1, <3>2
  <2>14. counter' \in Nat
    BY <2>1, <2>6
  <2>15. LedgerTypes'
    BY <2>1, <2>4, <2>9, <2>14, EndQueues DEF LedgerTypes
  <2>16. \A u \in Slots \ {s} :
             /\ at'[u] = at[u] /\ req'[u] = req[u] /\ found'[u] = found[u] /\ seen'[u] = seen[u]
             /\ \A j \in Ids : locker'[j] = u <=> locker[j] = u
    BY <2>1, <2>4, EndQueues
  <2>17. Queues(s)' /\ ~Creating(s)'
    BY <2>1, <2>4, EndQueues
  <2> QED BY <2>11, <2>12, <2>13, <2>15, <2>16, <2>17, CrossStep
<1> QED BY <1>1, <1>2

(* The row that an amendment writes keeps its type and its links.          *)
LEMMA WriteCrosses ==
    ASSUME R!Constants, HoldInv, CrossInv, NEW s \in Slots, R!Write(s)
    PROVE  CrossInv'
<1>1. CASE R!Leave(s)
  BY <1>1, LeaveCrosses
<1>2. CASE ~R!Leave(s)
  <2> DEFINE i == req[s].about
             row == R!Written(s)
  <2>1. /\ at[s] = "write" /\ inv' = [inv EXCEPT ![i] = row] /\ counter' = counter /\ R!End(s)
    BY <1>2 DEF R!Write
  <2>2. Crosses(s)
    BY <2>1 DEF CrossInv, Queues
  <2>3. i \in R!Live /\ i \in Ids /\ SameLinks(R!New(s), i) /\ SameLinks(seen[s], i)
    BY <2>1, <2>2 DEF Crosses, R!Live
  <2>4. LedgerTypes
    BY DEF CrossInv
  <2>5. R!New(s) \in R!Rows /\ inv[i] \in R!Rows
    BY <2>3, <2>4, ChangedRow DEF R!New, LedgerTypes
  <2>6. row.type = inv[i].type /\ row.refunds = inv[i].refunds /\ row.applied = inv[i].applied
    BY <2>3 DEF R!Written, R!Column, SameLinks
  <2>7. row \in R!Rows
    <3>1. row = [type |-> row.type, total |-> row.total, refunds |-> row.refunds,
                 applied |-> row.applied, number |-> row.number]
      BY DEF R!Written
    <3>2. row.total \in R!Totals \cup {0} /\ row.number \in Nat
      BY <2>5 DEF R!Written, R!Column, R!Rows
    <3>3. row.type \in R!Types \cup {"unused", "deleted"} /\ row.refunds \in R!Links /\ row.applied \in R!Links
      BY <2>5, <2>6 DEF R!Rows
    <3> HIDE DEF row
    <3> QED BY <3>1, <3>2, <3>3 DEF R!Rows
  <2> HIDE DEF row
  <2>8. inv' \in [Ids -> R!Rows] /\ inv'[i] = row /\ \A j \in Ids : j # i => inv'[j] = inv[j]
    BY <2>1, <2>3, <2>4, <2>7 DEF LedgerTypes
  <2>9. \A j \in Ids : inv'[j].type = inv[j].type /\ inv'[j].refunds = inv[j].refunds /\ inv'[j].applied = inv[j].applied
    BY <2>6, <2>8
  <2>10. R!Live' = R!Live /\ Grows
    BY <2>9 DEF R!Live, Grows
  <2>11. Ledger'
    <3> SUFFICES ASSUME NEW j \in R!Live
                 PROVE  /\ Standing(inv[j].refunds)' /\ Standing(inv[j].applied)'
                        /\ inv'[j].type # "return" => inv'[j].refunds = None /\ inv'[j].applied = None
      BY <2>10 DEF Ledger, Standing
    <3>1. j \in Ids
      BY DEF R!Live
    <3>2. Standing(inv[j].refunds) /\ Standing(inv[j].applied)
      BY DEF CrossInv, Ledger
    <3>3. inv[j].type # "return" => inv[j].refunds = None /\ inv[j].applied = None
      BY DEF CrossInv, Ledger
    <3> QED BY <2>9, <2>10, <3>1, <3>2, <3>3, StandingStays DEF Standing
  <2>12. \A u \in Slots \ {s} : Creating(u) => inv'[req[u].about].type = "unused"
    BY <2>9 DEF Creating, CrossInv, Queues, Crosses
  <2>13. LedgerTypes'
    BY <2>1, <2>4, <2>8, EndQueues DEF LedgerTypes
  <2>14. \A u \in Slots \ {s} :
             /\ at'[u] = at[u] /\ req'[u] = req[u] /\ found'[u] = found[u] /\ seen'[u] = seen[u]
             /\ \A j \in Ids : locker'[j] = u <=> locker[j] = u
    BY <2>1, <2>4, EndQueues
  <2>15. Queues(s)' /\ ~Creating(s)'
    BY <2>1, <2>4, EndQueues
  <2> QED BY <2>10, <2>11, <2>12, <2>13, <2>14, <2>15, CrossStep
<1> QED BY <1>1, <1>2

LEMMA NothingMoves ==
    ASSUME R!Constants, HoldInv, CrossInv, UNCHANGED <<class, inv, counter, locker, at, req, found, seen>>
    PROVE  CrossInv'
<1>1. Ledger'
  BY SameLedger DEF CrossInv
<1>2. ASSUME NEW u \in Slots PROVE Queues(u)'
  <2>1. Grows /\ Queues(u) /\ (Creating(u) => inv'[req[u].about].type = "unused")
    BY SameLedgerGrows DEF CrossInv, Queues, Crosses, Creating
  <2> QED BY <2>1, QueuesStays
<1>3. LedgerTypes' /\ Apart'
  BY DEF CrossInv, LedgerTypes, Apart, Creating
<1> QED BY <1>1, <1>2, <1>3 DEF CrossInv

LEMMA CrossNext == R!Constants /\ CrossingOnly /\ ReturnInv /\ R!Next => ReturnInv'
<1> SUFFICES ASSUME R!Constants, CrossingOnly, ReturnInv, R!Next PROVE ReturnInv'
  OBVIOUS
<1>1. HoldInv /\ HoldInv' /\ class' = class
  BY HoldNext DEF ReturnInv, R!Next
<1> SUFFICES ASSUME class \notin OneAtATime PROVE CrossInv'
  BY <1>1 DEF ReturnInv
<1>2. CrossInv /\ class \subseteq Crossing
  BY <1>1 DEF ReturnInv, HoldInv, CrossingOnly
<1>3. ASSUME NEW s \in Slots, R!Asked(s) PROVE CrossInv'
  <2>1. ASSUME NEW t \in R!Types, R!Create(s, t) PROVE CrossInv'
    BY <1>1, <1>2, <2>1, CreateCrosses
  <2>2. ASSUME NEW i \in R!Live, R!Amend(s, i) PROVE CrossInv'
    BY <1>1, <1>2, <2>2, AmendCrosses
  <2>3. ASSUME NEW i \in R!Live, NEW t \in R!Types, R!Relink(s, i) \/ R!Remove(s, i) \/ R!Retype(s, i, t)
        PROVE  FALSE
    <3>1. \E does \in class : does \in {"relink", "retype", "delete return", "delete expense"}
      BY <2>3 DEF R!Relink, R!Remove, R!Retype, R!Admitted, R!Either
    <3> QED BY <1>2, <3>1 DEF Crossing
  <2>4. ASSUME NEW i \in R!Live, R!Relink(s, i) \/ R!Remove(s, i) PROVE FALSE
    <3>1. "return" \in R!Types
      BY DEF R!Types
    <3> QED BY <2>3, <2>4, <3>1
  <2>5. ASSUME NEW i \in Ids, R!NotFound(s, i) PROVE CrossInv'
    <3>1. UNCHANGED <<inv, counter, locker, at, req, found, seen>>
      BY <2>5 DEF R!NotFound, R!tables
    <3> QED BY <1>1, <1>2, <3>1, NothingMoves
  <2> QED BY <1>3, <2>1, <2>2, <2>3, <2>4, <2>5 DEF R!Asked
<1>4. ASSUME NEW s \in Slots, R!Step(s) PROVE CrossInv'
  <2>1. ~R!Delete(s) /\ ~R!Drop(s)
    BY <1>2 DEF R!Delete, R!Drop, CrossInv, Queues, Crosses
  <2> QED BY <1>1, <1>2, <1>4, <2>1, LockCrosses, CheckCrosses, InsertCrosses, WriteCrosses DEF R!Step
<1>5. ASSUME NEW s \in Slots, R!Killed(s) PROVE CrossInv'
  BY <1>1, <1>2, <1>5, LeaveCrosses DEF R!Killed
<1> QED BY <1>3, <1>4, <1>5 DEF R!Next

LEMMA StartRow ==
    ASSUME R!Constants, NEW i \in Ids, NEW t \in {"materials_services", "others"}
    PROVE  /\ R!Start(i, t) \in R!Rows /\ R!Start(i, t).type = t
           /\ R!Start(i, t).refunds = None /\ R!Start(i, t).applied = None
<1> DEFINE earlier == {j \in Bought \cup Others : j <= i}
           number == R!Cardinality(earlier)
<1>1. number \in Nat
  <2>1. earlier \subseteq Ids /\ IsFiniteSet(Ids)
    BY KeepApart DEF R!Constants
  <2>2. IsFiniteSet(earlier)
    BY <2>1, FS_Subset
  <2>3. Cardinality(earlier) \in Nat
    BY <2>2, FS_CardinalityType
  <2> QED BY <2>3, SameFinite
<1>2. R!NoRow = RowOf("unused", 0, None, None, 0)
  BY DEF R!NoRow, RowOf
<1>3. PICK a : a = [R!NoRow EXCEPT !.type = t]
  OBVIOUS
<1>4. a = RowOf(t, 0, None, None, 0)
  BY <1>2, <1>3 DEF RowOf
<1>5. PICK b : b = [a EXCEPT !.total = Largest]
  OBVIOUS
<1>6. b = RowOf(t, Largest, None, None, 0)
  BY <1>4, <1>5 DEF RowOf
<1> HIDE DEF number
<1>7. PICK c : c = [b EXCEPT !.number = number]
  OBVIOUS
<1>8. c = RowOf(t, Largest, None, None, number)
  BY <1>6, <1>7 DEF RowOf
<1>9. c = R!Start(i, t)
  BY <1>3, <1>5, <1>7 DEF R!Start, number
<1>10. Largest \in R!Totals
  BY DEF R!Constants, R!Totals
<1>11. RowOf(t, Largest, None, None, number) \in R!Rows
  BY <1>1, <1>10 DEF RowOf, R!Rows, R!Types, R!Links
<1> QED BY <1>8, <1>9, <1>11 DEF RowOf

LEMMA ReturnInit == R!Constants /\ R!Init => ReturnInv
<1> SUFFICES ASSUME R!Constants, R!Init PROVE ReturnInv
  OBVIOUS
<1>1. HoldInv
  BY KeepApart DEF R!Init, HoldInv, R!PCs
<1>2. R!NoReq \in R!Requests /\ R!NoRow \in R!Rows
  BY DEF R!NoReq, R!Requests, R!NoRow, R!Rows, R!Links
<1>3. ASSUME NEW i \in Ids
      PROVE  /\ inv[i] \in R!Rows
             /\ i \in R!Live => inv[i].refunds = None /\ inv[i].applied = None
  <2>1. CASE i \in Bought
    <3>1. inv[i] = R!Start(i, "materials_services")
      BY <2>1 DEF R!Init
    <3> QED BY <3>1, StartRow
  <2>2. CASE i \notin Bought /\ i \in Others
    <3>1. inv[i] = R!Start(i, "others")
      BY <2>2 DEF R!Init
    <3> QED BY <3>1, StartRow
  <2>3. CASE i \notin Bought /\ i \notin Others
    <3>1. inv[i] = R!NoRow
      BY <2>3 DEF R!Init
    <3> QED BY <1>2, <3>1 DEF R!NoRow
  <2> QED BY <2>1, <2>2, <2>3
<1>4. inv \in [Ids -> R!Rows]
  <2>1. inv = [i \in Ids |-> inv[i]]
    BY DEF R!Init
  <2> QED BY <2>1, <1>3
<1>5. counter \in Nat
  <2>1. Bought \cup Others \subseteq Ids /\ IsFiniteSet(Ids)
    BY KeepApart DEF R!Constants
  <2>2. Cardinality(Bought \cup Others) \in Nat
    BY <2>1, FS_Subset, FS_CardinalityType
  <2>3. counter = Cardinality(Bought \cup Others) + 1
    BY SameFinite DEF R!Init
  <2> QED BY <2>2, <2>3
<1>6. LedgerTypes
  BY <1>2, <1>4, <1>5 DEF R!Init, LedgerTypes
<1>7. Ledger
  BY <1>3 DEF Ledger, Standing, R!Live
<1>8. Apart /\ \A s \in Slots : Queues(s)
  BY KeepApart DEF R!Init, Apart, Creating, Queues, InOrder
<1> QED BY <1>1, <1>6, <1>7, <1>8 DEF ReturnInv, CrossInv

LEMMA ReturnStutter ==
    ASSUME R!Constants, ReturnInv, UNCHANGED <<class, inv, counter, locker, at, req, found, seen>>
    PROVE  ReturnInv'
<1>1. HoldInv'
  BY DEF ReturnInv, HoldInv
<1>2. class \notin OneAtATime => CrossInv'
  BY NothingMoves DEF ReturnInv
<1> QED BY <1>1, <1>2 DEF ReturnInv

--------------------------------------------------------------------------------
(* A row that one waits for while it holds another comes after that one.   *)
LEMMA WaitsUpwards ==
    ASSUME R!Constants, HoldInv, CrossInv, NEW t \in Slots, NEW u \in Slots, R!WaitsFor(t, u),
           NEW i \in Ids, locker[i] = t
    PROVE  \E k \in Ids : locker[k] = u /\ i < k
<1>1. PICK k \in R!Wants(t) : locker[k] = u /\ t # u
  BY DEF R!WaitsFor
<1>2. at[t] # "idle" /\ Crosses(t) /\ Holds(i, t) /\ InOrder(t)
  BY DEF HoldInv, CrossInv, Queues
<1>3. at[t] \in {"lock", "insert", "write"} /\ R!New(t).type = "return"
  BY <1>2 DEF Crosses, Holds
<1>4. CASE at[t] = "lock"
  <2> DEFINE left == R!ToLock(t) \ R!Held(t)
  <2>1. left # {} /\ k = R!Min(left)
    BY <1>1, <1>4 DEF R!Wants, R!InIdOrder
  <2>2. R!ToLock(t) \subseteq Ids /\ Ids \subseteq Nat
    BY KeepApart DEF R!ToLock, R!Live
  <2>3. k \in left
    BY <2>1, <2>2, MinIsSmallest
  <2>4. k \in Ids /\ k \in R!ToLock(t) /\ locker[k] # t
    BY <1>1, <2>2, <2>3
  <2> QED BY <1>1, <1>2, <1>4, <2>4 DEF InOrder
<1>5. CASE at[t] = "insert"
  <2>1. R!Wants(t) = {}
    BY <1>5 DEF R!Wants
  <2> QED BY <1>1, <2>1
<1>6. CASE at[t] = "write"
  <2> DEFINE j == req[t].about
  <2>1. j \in R!Live /\ SameLinks(R!New(t), j) /\ SameLinks(seen[t], j)
    BY <1>2, <1>6 DEF Crosses
  <2>2. R!NewLinks(t) = {}
    BY <2>1 DEF R!NewLinks, SameLinks
  <2>3. k = j
    BY <1>1, <1>6, <2>2 DEF R!Wants
  <2>4. j \in Ids /\ inv[j].type = "return"
    BY <1>3, <2>1 DEF R!Live, SameLinks
  <2>5. Holds(j, u)
    BY <1>1, <2>3, <2>4 DEF CrossInv, Queues
  <2> QED BY <2>4, <2>5 DEF Holds
<1> QED BY <1>3, <1>4, <1>5, <1>6

LEMMA WaitsForHolder ==
    ASSUME R!Constants, HoldInv, NEW s \in Slots, NEW t \in Slots, R!WaitsFor(s, t)
    PROVE  s # t /\ at[s] # "idle" /\ at[t] # "idle" /\ \E i \in Ids : locker[i] = t
<1>1. PICK k \in R!Wants(s) : locker[k] = t /\ s # t
  BY DEF R!WaitsFor
<1>2. at[s] \in {"lock", "write", "drop"}
  BY <1>1 DEF R!Wants
<1>3. k \in Ids
  <2>1. CASE at[s] = "lock"
    <3> DEFINE left == R!ToLock(s) \ R!Held(s)
    <3>1. left # {} /\ k = R!Min(left)
      BY <1>1, <2>1 DEF R!Wants, R!InIdOrder
    <3>2. left \subseteq Ids /\ Ids \subseteq Nat
      BY KeepApart DEF R!ToLock, R!Live
    <3>3. k \in left
      BY <3>1, <3>2, MinIsSmallest
    <3> QED BY <3>2, <3>3
  <2>2. CASE at[s] = "write"
    BY <1>1, <2>2 DEF R!Wants
  <2>3. CASE at[s] = "drop"
    BY <1>1, <2>3 DEF R!Wants, R!Live
  <2> QED BY <1>2, <2>1, <2>2, <2>3
<1>4. at[t] # "idle"
  BY <1>1, <1>3 DEF HoldInv
<1> QED BY <1>1, <1>2, <1>3, <1>4

LEMMA NobodyWaitsInARing == R!Constants /\ ReturnInv => R!NoDeadlock
<1> SUFFICES ASSUME R!Constants, ReturnInv, NEW C \in SUBSET Slots, C # {},
                    \A s \in C : \E t \in C : R!WaitsFor(s, t)
             PROVE  FALSE
  BY DEF R!NoDeadlock
<1>1. HoldInv /\ Ids \subseteq Nat /\ IsFiniteSet(Ids)
  BY KeepApart DEF ReturnInv
<1>2. PICK s \in C, t \in C : R!WaitsFor(s, t)
  OBVIOUS
<1>3. s # t /\ at[s] # "idle" /\ at[t] # "idle" /\ \E i \in Ids : locker[i] = t
  BY <1>1, <1>2, WaitsForHolder
<1>4. class \notin OneAtATime
  BY <1>1, <1>3 DEF HoldInv
<1>5. CrossInv
  BY <1>4 DEF ReturnInv
<1> DEFINE held == {i \in Ids : locker[i] \in C}
<1>6. held # {} /\ held \subseteq Int /\ IsFiniteSet(held)
  <2>1. held \subseteq Ids
    OBVIOUS
  <2>2. IsFiniteSet(held)
    BY <1>1, <2>1, FS_Subset
  <2>3. held # {}
    BY <1>3
  <2>4. held \subseteq Int
    <3>1. Nat \subseteq Int
      OBVIOUS
    <3> HIDE DEF held
    <3> QED BY <1>1, <2>1, <3>1
  <2> QED BY <2>2, <2>3, <2>4
<1>7. PICK i \in held : \A k \in held : i >= k
  BY <1>6, LargestExists
<1>8. PICK u \in C : R!WaitsFor(locker[i], u)
  OBVIOUS
<1>9. PICK k \in Ids : locker[k] = u /\ i < k
  BY <1>1, <1>5, <1>8, WaitsUpwards
<1>10. k \in held /\ i \in Int /\ k \in Int
  BY <1>1, <1>9
<1> QED BY <1>7, <1>9, <1>10

(* However many requests create and amend returns of the same purchases    *)
(* and expenses, there is no ring of requests that wait for each other.    *)
THEOREM ReturnsQueue == CrossingOnly /\ Spec => []NoDeadlock
<1> SUFFICES ASSUME CrossingOnly PROVE Spec => []NoDeadlock
  OBVIOUS
<1>1. Init => (part = "returns" => ReturnInv)
  BY ReturnInit, ReturnConstants DEF Init
<1>2. (part = "returns" => ReturnInv) /\ [Next]_vars => (part = "returns" => ReturnInv)'
  <2> SUFFICES ASSUME part = "returns" => ReturnInv, [Next]_vars, part' = "returns"
               PROVE  ReturnInv'
    OBVIOUS
  <2>1. part = "returns" /\ ReturnInv
    BY DEF Next, vars
  <2>2. CASE Next
    <3>1. R!Next
      BY <2>1, <2>2 DEF Next
    <3> QED BY <2>1, <3>1, CrossNext, ReturnConstants
  <2>3. CASE UNCHANGED vars
    <3>1. UNCHANGED <<class, inv, counter, locker, at, req, found, seen>>
      BY <2>3 DEF vars, rvars
    <3> QED BY <2>1, <3>1, ReturnStutter, ReturnConstants
  <2> QED BY <2>2, <2>3
<1>3. (part = "returns" => ReturnInv) => NoDeadlock
  BY NobodyWaitsInARing, ReturnConstants DEF NoDeadlock
<1> QED BY <1>1, <1>2, <1>3, PTL DEF Spec
================================================================================
