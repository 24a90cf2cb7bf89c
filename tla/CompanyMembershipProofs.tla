------------------------ MODULE CompanyMembershipProofs ------------------------
(* Theorems about CompanyMembership, for any users, companies and slots,   *)
(* and about the mixes of its requests.                                    *)
EXTENDS MCMembershipMixes, FiniteSetTheorems, TLAPS

(* The values of an idle slot are of the right type.                       *)
LEMMA Blank ==
    /\ NoRow \in Rows /\ NoHeir \in Heirs /\ "idle" \in PCs
    /\ NoReq.op \notin {"set_role", "assign"}
  BY DEF NoRow, NoHeir, NoReq, Rows, Heirs, PCs, Roles

LEMMA TypeInit == Init => TypeOK
  <1> SUFFICES ASSUME Init PROVE TypeOK
    OBVIOUS
  <1>1. \A s \in Slots : pc[s] = "idle" /\ req[s] = NoReq
    BY DEF Init
  <1> QED
    BY <1>1, Blank DEF Init, TypeOK, Serving, Keys

(* The rows and requests a step reads are of the right type.               *)
LEMMA TypeFacts ==
    ASSUME TypeOK, NEW s \in Slots
    PROVE  /\ pc[s] # "idle" => /\ Key(s) \in Keys
                                /\ req[s].op \in Ops /\ req[s].user \in Users
                                /\ req[s].company \in Companies
                                /\ req[s].new \in Roles \cup {"none"}
           /\ \A k \in Keys : access[k] \in Rows
           /\ \A k \in Keys : k = <<k[1], k[2]>> /\ k[1] \in Users /\ k[2] \in Companies
           /\ \A k \in Keys : Present(k) => access[k] \in [role : Roles, rank : Ranks]
  <1>1. pc[s] # "idle" => req[s] \in Requests
    BY DEF TypeOK, Serving
  <1>2. \A k \in Keys : access[k] \in Rows
    BY DEF TypeOK
  <1>3. \A k \in Keys : Present(k) => access[k] \in [role : Roles, rank : Ranks]
    BY <1>2 DEF Rows, NoRow, Present
  <1> QED
    BY <1>1, <1>2, <1>3 DEF Key, Keys, Requests

LEMMA TypeEnd ==
    ASSUME TypeOK, NEW s \in Slots, End(s),
           access' \in [Keys -> Rows], assigned' \subseteq Keys, listed' \subseteq Keys,
           open' \in [Companies -> BOOLEAN], erased' \subseteq Users
    PROVE  TypeOK'
  <1>1. \A t \in Slots : Serving(t)'
    <2> TAKE t \in Slots
    <2>1. CASE t = s
      BY <2>1, Blank DEF TypeOK, End, Forget, Goto, Serving
    <2>2. CASE t # s
      BY <2>2 DEF TypeOK, End, Forget, Goto, Serving
    <2> QED
      BY <2>1, <2>2
  <1>2. /\ pc' \in [Slots -> PCs] /\ holder' \in [Keys -> Slots \cup {NoOne}]
        /\ req' \in [Slots -> Requests \cup {NoReq}]
    BY Blank DEF TypeOK, End, Forget, Goto
  <1>3. /\ row' \in [Slots -> Rows]
        /\ todo' \in [Slots -> SUBSET Keys] /\ admins' \in [Slots -> SUBSET Keys]
        /\ queue' \in [Slots -> SUBSET Companies] /\ orphaned' \in [Slots -> SUBSET Companies]
        /\ heir' \in [Slots -> Heirs]
    BY Blank DEF TypeOK, End, Forget, Heirs
  <1> QED
    BY <1>1, <1>2, <1>3 DEF TypeOK, Heirs

LEMMA TypeLeave == ASSUME TypeOK, NEW s \in Slots, Leave(s) PROVE TypeOK'
  BY TypeEnd DEF TypeOK, Leave, tables

(* A step of s on its way through a request.                               *)
LEMMA TypeStep ==
    ASSUME TypeOK, NEW s \in Slots, pc[s] # "idle", NEW p \in PCs, Goto(s, p),
           UNCHANGED <<tables, req>>,
           holder' \in [Keys -> Slots \cup {NoOne}], row' \in [Slots -> Rows],
           todo' \in [Slots -> SUBSET Keys], admins' \in [Slots -> SUBSET Keys],
           queue' \in [Slots -> SUBSET Companies], orphaned' \in [Slots -> SUBSET Companies],
           heir' \in [Slots -> Heirs]
    PROVE  TypeOK'
  <1>1. /\ pc' \in [Slots -> PCs] /\ req' \in [Slots -> Requests \cup {NoReq}]
        /\ UNCHANGED <<access, assigned, listed, open, erased>>
    BY DEF TypeOK, Goto, tables
  <1>2. \A t \in Slots : Serving(t)'
    BY DEF TypeOK, Serving, Goto
  <1> QED
    BY <1>1, <1>2 DEF TypeOK, Heirs

LEMMA TypeReads ==
    ASSUME TypeOK, NEW s \in Slots,
           \/ LockTarget(s) \/ DetachRead(s) \/ SnapshotAdmins(s) \/ LockAdmin(s)
           \/ LastAdminGuard(s) \/ DeleteRow(s)
    PROVE  TypeOK'
  <1> DEFINE Typed ==
        /\ holder \in [Keys -> Slots \cup {NoOne}] /\ row \in [Slots -> Rows]
        /\ todo \in [Slots -> SUBSET Keys] /\ admins \in [Slots -> SUBSET Keys]
        /\ queue \in [Slots -> SUBSET Companies] /\ orphaned \in [Slots -> SUBSET Companies]
        /\ heir \in [Slots -> Heirs]
  <1>0. Typed
    BY DEF TypeOK, Heirs
  <1>1. CASE LockTarget(s)
    <2>1. CASE Leave(s)
      BY <2>1, TypeLeave
    <2>2. CASE ~Leave(s)
      <3>1. Key(s) \in Keys /\ access[Key(s)] \in Rows
        BY <1>1, TypeFacts DEF LockTarget
      <3>2. PICK p \in {"admins", "delete", "finish"} : Goto(s, p)
        BY <1>1, <2>2 DEF LockTarget
      <3>3. Typed' /\ UNCHANGED <<tables, req>> /\ pc[s] # "idle"
        BY <1>0, <1>1, <2>2, <3>1 DEF LockTarget, HoldTarget, Lock
      <3> QED
        BY <3>2, <3>3, TypeStep DEF PCs
    <2> QED
      BY <2>1, <2>2
  <1>2. CASE DetachRead(s)
    <2>1. CASE Leave(s)
      BY <2>1, TypeLeave
    <2>2. CASE ~Leave(s)
      <3>1. Key(s) \in Keys /\ access[Key(s)] \in Rows
        BY <1>2, TypeFacts DEF DetachRead
      <3>2. PICK p \in {"admins", "delete"} : Goto(s, p)
        BY <1>2, <2>2 DEF DetachRead
      <3>3. Typed' /\ UNCHANGED <<tables, req>> /\ pc[s] # "idle"
        BY <1>0, <1>2, <2>2, <3>1 DEF DetachRead
      <3> QED
        BY <3>2, <3>3, TypeStep DEF PCs
    <2> QED
      BY <2>1, <2>2
  <1>3. CASE SnapshotAdmins(s)
    <2>1. Typed' /\ UNCHANGED <<tables, req>> /\ pc[s] # "idle" /\ Goto(s, "locking")
      BY <1>0, <1>3 DEF SnapshotAdmins, Admins
    <2> QED
      BY <2>1, TypeStep DEF PCs
  <1>4. CASE LockAdmin(s)
    <2>1. Typed' /\ UNCHANGED <<tables, req, pc>>
      BY <1>0, <1>4 DEF LockAdmin, Lock
    <2> QED
      BY <2>1 DEF TypeOK, Serving, tables, Heirs
  <1>5. CASE LastAdminGuard(s)
    <2>1. CASE Leave(s)
      BY <2>1, TypeLeave
    <2>2. CASE ~Leave(s)
      <3>1. PICK p \in {"delete", "finish"} : Goto(s, p)
        BY <1>5, <2>2 DEF LastAdminGuard
      <3>2. UNCHANGED <<tables, holder, req, locals>> /\ pc[s] # "idle"
        BY <1>5, <2>2 DEF LastAdminGuard
      <3> QED
        BY <1>0, <3>1, <3>2, TypeStep DEF PCs, locals
    <2> QED
      BY <2>1, <2>2
  <1>6. CASE DeleteRow(s)
    <2>1. PICK p \in {"pick", "finish"} : Goto(s, p)
      BY <1>6 DEF DeleteRow
    <2>2. Typed' /\ UNCHANGED <<tables, req>> /\ pc[s] # "idle"
      BY <1>0, <1>6 DEF DeleteRow, Lock, locals
    <2> QED
      BY <2>1, <2>2, TypeStep DEF PCs
  <1> QED
    BY <1>1, <1>2, <1>3, <1>4, <1>5, <1>6

LEMMA TypeMoreReads ==
    ASSUME TypeOK, NEW s \in Slots,
           \/ PickHeir(s) \/ GetHeir(s) \/ SnapshotRows(s) \/ SweepRow(s)
           \/ AttachRead(s) \/ JoinRead(s) \/ AssignRead(s) \/ UnassignRead(s)
           \/ DeleteAccountRead(s) \/ DeleteAccountNext(s) \/ DeleteAccountGuard(s)
    PROVE  TypeOK'
  <1> DEFINE Typed ==
        /\ holder \in [Keys -> Slots \cup {NoOne}] /\ row \in [Slots -> Rows]
        /\ todo \in [Slots -> SUBSET Keys] /\ admins \in [Slots -> SUBSET Keys]
        /\ queue \in [Slots -> SUBSET Companies] /\ orphaned \in [Slots -> SUBSET Companies]
        /\ heir \in [Slots -> Heirs]
  <1>0. Typed
    BY DEF TypeOK, Heirs
  <1>1. CASE PickHeir(s)
    <2>1. PICK p \in {"get", "finish"} : Goto(s, p)
      BY <1>1 DEF PickHeir
    <2>2. \A k \in RowsOf(req[s].user) : [company |-> k[2], role |-> access[k].role, how |-> "none"] \in Heirs
      BY TypeFacts DEF Heirs, RowsOf
    <2>3. heir' \in [Slots -> Heirs]
      BY <1>0, <1>1, <2>2 DEF PickHeir, RowsOf
    <2>4. Typed' /\ UNCHANGED <<tables, req>> /\ pc[s] # "idle"
      BY <1>0, <1>1, <2>3 DEF PickHeir
    <2> QED
      BY <2>1, <2>4, TypeStep DEF PCs
  <1>2. CASE GetHeir(s)
    <2>1. HeirWrite(s) \in {"insert", "update", "overwrite"}
      BY DEF HeirWrite
    <2>2. [heir[s] EXCEPT !.how = HeirWrite(s)] \in Heirs
      BY <1>0, <2>1 DEF Heirs
    <2>3. heir' \in [Slots -> Heirs]
      BY <1>0, <1>2, <2>2 DEF GetHeir
    <2>4. Typed' /\ UNCHANGED <<tables, req>> /\ pc[s] # "idle" /\ Goto(s, "finish")
      BY <1>0, <1>2, <2>3 DEF GetHeir
    <2> QED
      BY <2>4, TypeStep DEF PCs
  <1>3. CASE SnapshotRows(s)
    <2>1. Typed' /\ UNCHANGED <<tables, req>> /\ pc[s] # "idle" /\ Goto(s, "sweep")
      BY <1>0, <1>3 DEF SnapshotRows, RowsOf
    <2> QED
      BY <2>1, TypeStep DEF PCs
  <1>4. CASE SweepRow(s)
    <2>1. PICK p \in {"sweep", "finish"} : Goto(s, p)
      BY <1>4 DEF SweepRow, Goto, TypeOK
    <2>2. Typed' /\ UNCHANGED <<tables, req>> /\ pc[s] # "idle"
      BY <1>0, <1>4 DEF SweepRow, Lock
    <2> QED
      BY <2>1, <2>2, TypeStep DEF PCs
  <1>5. CASE AttachRead(s) \/ AssignRead(s) \/ UnassignRead(s)
    <2>1. CASE Leave(s)
      BY <2>1, TypeLeave
    <2>2. CASE ~Leave(s)
      <3>1. PICK p \in {"finish", "target", "add"} : Goto(s, p)
        BY <1>5, <2>2 DEF AttachRead, AssignRead, UnassignRead
      <3>2. UNCHANGED <<tables, holder, req, locals>> /\ pc[s] # "idle"
        BY <1>5, <2>2 DEF AttachRead, AssignRead, UnassignRead
      <3> QED
        BY <1>0, <3>1, <3>2, TypeStep DEF PCs, locals
    <2> QED
      BY <2>1, <2>2
  <1>6. CASE JoinRead(s)
    <2>1. CASE Leave(s)
      BY <2>1, TypeLeave
    <2>2. CASE ~Leave(s)
      <3>1. [role |-> "member", rank |-> IF Primaries(req[s].user) = {} THEN "primary" ELSE "other"] \in Rows
        BY DEF Rows, Roles, Ranks
      <3>2. Typed' /\ UNCHANGED <<tables, req>> /\ pc[s] # "idle" /\ Goto(s, "finish")
        BY <1>0, <1>6, <2>2, <3>1 DEF JoinRead
      <3> QED
        BY <3>2, TypeStep DEF PCs
    <2> QED
      BY <2>1, <2>2
  <1>7. CASE DeleteAccountRead(s)
    <2>1. {k[2] : k \in {r \in RowsOf(req[s].user) : access[r].role = "admin"}} \subseteq Companies
      BY TypeFacts DEF RowsOf
    <2>2. Typed' /\ UNCHANGED <<tables, req>> /\ pc[s] # "idle" /\ Goto(s, "next")
      BY <1>0, <1>7, <2>1 DEF DeleteAccountRead
    <2> QED
      BY <2>2, TypeStep DEF PCs
  <1>8. CASE DeleteAccountNext(s)
    <2>1. CASE queue[s] = {}
      <3>1. Typed' /\ UNCHANGED <<tables, req>> /\ pc[s] # "idle" /\ Goto(s, "rows")
        BY <1>0, <1>8, <2>1 DEF DeleteAccountNext
      <3> QED
        BY <3>1, TypeStep DEF PCs
    <2>2. CASE queue[s] # {}
      <3>1. PICK c \in queue[s] : /\ req' = [req EXCEPT ![s].company = c]
                                 /\ queue' = [queue EXCEPT ![s] = @ \ {c}]
                                 /\ Goto(s, "admins") /\ pc[s] # "idle"
        BY <1>8, <2>2 DEF DeleteAccountNext
      <3>2. c \in Companies
        BY <1>0
      <3>3. Typed' /\ UNCHANGED tables
        BY <1>0, <1>8, <3>1 DEF DeleteAccountNext
      <3>4. req[s] \in Requests
        BY <3>1 DEF TypeOK, Serving
      <3>5. [req[s] EXCEPT !.company = c] \in Requests
        BY <3>2, <3>4 DEF Requests
      <3>6. [req[s] EXCEPT !.company = c] # NoReq
        BY <3>4, <3>5, MembershipConstants DEF NoReq, Requests
      <3> QED
        <4>1. \A t \in Slots : Serving(t)'
          BY <3>1, <3>6 DEF TypeOK, Serving, Goto
        <4>2. req' \in [Slots -> Requests \cup {NoReq}] /\ pc' \in [Slots -> PCs]
          BY <3>1, <3>5 DEF TypeOK, Goto, PCs
        <4> QED
          BY <3>3, <4>1, <4>2 DEF TypeOK, tables, Heirs
    <2> QED
      BY <2>1, <2>2
  <1>9. CASE DeleteAccountGuard(s)
    <2>1. CASE Leave(s)
      BY <2>1, TypeLeave
    <2>2. CASE ~Leave(s)
      <3>1. req[s].company \in Companies
        BY <1>9, TypeFacts DEF DeleteAccountGuard
      <3>2. Typed' /\ UNCHANGED <<tables, req>> /\ pc[s] # "idle" /\ Goto(s, "next")
        BY <1>0, <1>9, <2>2, <3>1 DEF DeleteAccountGuard
      <3> QED
        BY <3>2, TypeStep DEF PCs
    <2> QED
      BY <2>1, <2>2
  <1> QED
    BY <1>1, <1>2, <1>3, <1>4, <1>5, <1>6, <1>7, <1>8, <1>9

(* Changing the rank of a row.                                             *)
LEMMA Ranked ==
    ASSUME NEW x \in Rows
    PROVE  /\ [x EXCEPT !.rank = "other"] \in Rows
           /\ x.role # "none" => [x EXCEPT !.rank = "primary"] \in Rows
  <1>1. CASE x = NoRow
    BY <1>1 DEF NoRow, Rows
  <1>2. CASE x \in [role : Roles, rank : Ranks]
    BY <1>2 DEF Rows, Ranks
  <1> QED
    BY <1>1, <1>2 DEF Rows

LEMMA TypeFinish ==
    ASSUME TypeOK, NEW s \in Slots,
           \/ FinishSetRole(s) \/ FinishAssign(s) \/ FinishUnassign(s) \/ FinishRemoval(s)
           \/ FinishInsert(s) \/ FinishSetPrimary(s) \/ FinishDeleteAccount(s)
    PROVE  TypeOK'
  <1>1. CASE Leave(s)
    BY <1>1, TypeLeave
  <1>2. CASE FinishAssign(s) \/ FinishUnassign(s)
    <2>1. Key(s) \in Keys
      BY <1>2, TypeFacts DEF FinishAssign, FinishUnassign
    <2> QED
      BY <1>2, <2>1, TypeEnd DEF FinishAssign, FinishUnassign, TypeOK
  <1>3. CASE FinishInsert(s) /\ ~Leave(s)
    <2>1. [role |-> "member", rank |-> row[s].rank] \in Rows
      BY DEF TypeOK, Rows, NoRow, Roles, Ranks
    <2>2. Key(s) \in Keys
      BY <1>3, TypeFacts DEF FinishInsert
    <2> QED
      BY <1>3, <2>1, <2>2, TypeEnd DEF FinishInsert, TypeOK
  <1>4. CASE FinishSetPrimary(s) /\ ~Leave(s)
    <2>1. access' \in [Keys -> Rows]
      <3>1. Present(Key(s))
        BY <1>4 DEF FinishSetPrimary
      <3>2. access' = [r \in Keys |->
                         IF r = Key(s) THEN [access[r] EXCEPT !.rank = "primary"]
                         ELSE IF holder[r] = s THEN [access[r] EXCEPT !.rank = "other"]
                         ELSE access[r]]
        BY <1>4 DEF FinishSetPrimary
      <3> DEFINE f == [r \in Keys |->
                         IF r = Key(s) THEN [access[r] EXCEPT !.rank = "primary"]
                         ELSE IF holder[r] = s THEN [access[r] EXCEPT !.rank = "other"]
                         ELSE access[r]]
      <3>3. ASSUME NEW r \in Keys PROVE f[r] \in Rows
        <4>1. access[r] \in Rows
          BY DEF TypeOK
        <4>2. r = Key(s) => access[r].role # "none"
          BY <3>1 DEF Present
        <4> QED
          BY <4>1, <4>2, Ranked
      <3> HIDE DEF f
      <3>4. f \in [Keys -> Rows]
        BY <3>3 DEF f
      <3> QED
        BY <3>2, <3>4 DEF f
    <2> QED
      BY <1>4, <2>1, TypeEnd DEF FinishSetPrimary, TypeOK
  <1>5. CASE FinishDeleteAccount(s)
    <2>1. access' \in [Keys -> Rows]
      BY <1>5, TypeFacts DEF FinishDeleteAccount, Gone, Rows
    <2>2. req[s].user \in Users
      BY <1>5, TypeFacts DEF FinishDeleteAccount
    <2> QED
      BY <1>5, <2>1, <2>2, TypeEnd DEF FinishDeleteAccount, TypeOK
  <1>6. CASE FinishSetRole(s)
    <2>1. Key(s) \in Keys /\ req[s].new \in Roles
      BY <1>6, TypeFacts DEF FinishSetRole, TypeOK, Serving
    <2>2. [access[Key(s)] EXCEPT !.role = req[s].new] \in [role : Roles, rank : Ranks]
      BY <2>1, TypeFacts DEF Rows, NoRow, Ranks
    <2>3. access' \in [Keys -> Rows]
      BY <1>6, <2>1, <2>2 DEF FinishSetRole, TypeOK, Rows
    <2>4. assigned' \subseteq Keys
      BY <1>6, <2>1 DEF FinishSetRole, TypeOK
    <2> QED
      BY <1>6, <2>3, <2>4, TypeEnd DEF FinishSetRole, TypeOK
  <1>7. CASE FinishRemoval(s) /\ ~Leave(s)
    <2> DEFINE h == Heir(s)
               role == IF heir[s].how = "update" THEN access[h].role ELSE heir[s].role
    <2>1. heir[s].how # "none" /\ h \in Keys => role \in Roles
      <3>1. heir[s].how = "update" => Present(h)
        BY <1>7 DEF FinishRemoval
      <3>2. heir[s].role \in Roles
        BY DEF TypeOK, Heirs
      <3>3. Present(h) /\ h \in Keys => access[h].role \in Roles
        BY TypeFacts
      <3> QED
        BY <3>1, <3>2, <3>3
    <2>2. heir[s].how # "none" /\ h \in Keys => [role |-> role, rank |-> "primary"] \in Rows
      BY <2>1 DEF Rows, Ranks
    <2>3. \A r \in Keys : Gone(r) \in Rows /\ access[r] \in Rows
      BY TypeFacts DEF Gone, Rows
    <2>4. access' \in [Keys -> Rows]
      BY <1>7, <2>2, <2>3 DEF FinishRemoval
    <2> QED
      BY <1>7, <2>4, TypeEnd DEF FinishRemoval, TypeOK
  <1> QED
    BY <1>1, <1>2, <1>3, <1>4, <1>5, <1>6, <1>7

LEMMA TypeRequest ==
    ASSUME TypeOK, NEW s \in Slots, NEW op \in Ops \ {"set_code"}, NEW u \in Users,
           NEW c \in Companies, NEW new \in Roles \cup {"none"}, Request(s, op, u, c, new)
    PROVE  TypeOK'
  <1> DEFINE r == [op |-> op, user |-> u, company |-> c, new |-> new]
  <1>1. r \in Requests
    BY DEF Requests
  <1>2. r # NoReq
    BY MembershipConstants DEF NoReq
  <1>3. op \in {"set_role", "assign"} => new # "none"
    BY DEF Request
  <1>4. FirstStep(op) \in PCs
    BY DEF FirstStep, PCs
  <1>5. req' = [req EXCEPT ![s] = r] /\ pc' = [pc EXCEPT ![s] = FirstStep(op)]
    BY DEF Request, Goto
  <1>6. UNCHANGED <<tables, holder, locals>>
    BY DEF Request
  <1>7. /\ req' \in [Slots -> Requests \cup {NoReq}]
        /\ pc' \in [Slots -> PCs]
    BY <1>1, <1>4, <1>5 DEF TypeOK
  <1>8. \A t \in Slots : Serving(t)'
    <2> TAKE t \in Slots
    <2>1. CASE t = s
      BY <1>2, <1>3, <1>5, <2>1 DEF TypeOK, Serving
    <2>2. CASE t # s
      BY <1>5, <2>2 DEF TypeOK, Serving
    <2> QED
      BY <2>1, <2>2
  <1> QED
    BY <1>6, <1>7, <1>8 DEF TypeOK, tables, locals, Heirs

LEMMA TypeNext == TypeOK /\ [Next]_vars => TypeOK'
  <1> SUFFICES ASSUME TypeOK, [Next]_vars PROVE TypeOK'
    OBVIOUS
  <1>1. ASSUME NEW s \in Slots, NEW op \in Ops \ {"set_code"}, NEW u \in Users,
               NEW c \in Companies, NEW new \in Roles \cup {"none"}, Request(s, op, u, c, new)
        PROVE  TypeOK'
    BY <1>1, TypeRequest
  <1>2. ASSUME NEW s \in Slots, Step(s) PROVE TypeOK'
    BY <1>2, TypeReads, TypeMoreReads, TypeFinish DEF Step
  <1>3. ASSUME NEW s \in Slots, DeadlockVictim(s) \/ Killed(s) PROVE TypeOK'
    BY <1>3, TypeLeave DEF DeadlockVictim, Killed
  <1>4. ASSUME NEW c \in Companies, NEW enable \in BOOLEAN, SetJoinCode(c, enable) PROVE TypeOK'
    <2>1. open' \in [Companies -> BOOLEAN]
      BY <1>4 DEF SetJoinCode, TypeOK
    <2> QED
      BY <1>4, <2>1 DEF SetJoinCode, TypeOK, Serving, locals, Heirs
  <1>5. CASE UNCHANGED vars
    BY <1>5 DEF TypeOK, Serving, vars, Heirs
  <1> QED
    BY <1>1, <1>2, <1>3, <1>4, <1>5 DEF Next

(* Every reachable state is well typed.                                    *)
THEOREM TypeCorrect == Spec => []TypeOK
  <1> QED
    BY TypeInit, TypeNext, PTL DEF Spec

--------------------------------------------------------------------------------
(* The primary company.  Only the flags matter: a step that gives no row    *)
(* the flag keeps it with one.                                              *)
Flagged(k) == access[k].rank = "primary"

LEMMA FlagsShrink ==
    ASSUME OnePrimary, \A k \in Keys : Flagged(k)' => Flagged(k)
    PROVE  OnePrimary'
  BY DEF OnePrimary, Primaries, Flagged

(* A step that gives it to a row takes it from the user's others, or finds  *)
(* that they have none.                                                     *)
LEMMA FlagMoves ==
    ASSUME OnePrimary, NEW h \in Keys,
           \A k \in Keys \ {h} : Flagged(k)' => Flagged(k) /\ k[1] # h[1]
    PROVE  OnePrimary'
  BY DEF OnePrimary, Primaries, Flagged

LEMMA PrimaryFinish ==
    ASSUME TypeOK, OnePrimary, NEW s \in Slots,
           \/ FinishSetRole(s) \/ FinishAssign(s) \/ FinishUnassign(s) \/ FinishRemoval(s)
           \/ FinishInsert(s) \/ FinishSetPrimary(s) \/ FinishDeleteAccount(s)
    PROVE  OnePrimary'
  <1>1. Key(s) \in Keys /\ Key(s)[1] = req[s].user /\ pc[s] # "idle"
    BY TypeFacts DEF FinishSetRole, FinishAssign, FinishUnassign, FinishRemoval, FinishInsert, FinishSetPrimary,
                     FinishDeleteAccount, Key
  <1>2. CASE UNCHANGED access
    BY <1>2 DEF OnePrimary, Primaries
  <1>3. CASE Leave(s)
    BY <1>2, <1>3 DEF Leave, tables
  <1>4. CASE FinishSetRole(s)
    <2>1. \A k \in Keys : Flagged(k)' => Flagged(k)
      BY <1>1, <1>4, TypeFacts DEF FinishSetRole, Flagged, TypeOK, Rows, NoRow
    <2> QED
      BY <2>1, FlagsShrink
  <1>5. CASE FinishInsert(s) /\ ~Leave(s)
    <2>1. access' = [access EXCEPT ![Key(s)] = [role |-> "member", rank |-> row[s].rank]]
          /\ ~(row[s].rank = "primary" /\ PrimaryClash(req[s].user, {}))
      BY <1>5 DEF FinishInsert
    <2>2. \A k \in Keys : access'[k] = IF k = Key(s) THEN [role |-> "member", rank |-> row[s].rank] ELSE access[k]
      BY <1>1, <2>1 DEF TypeOK
    <2>3. CASE row[s].rank = "primary"
      BY <1>1, <2>1, <2>2, <2>3, FlagMoves DEF Flagged, PrimaryClash, Primaries
    <2>4. CASE row[s].rank # "primary"
      BY <2>2, <2>4, FlagsShrink DEF Flagged
    <2> QED
      BY <2>3, <2>4
  <1>6. CASE FinishSetPrimary(s) /\ ~Leave(s)
    <2>1. /\ access' = [r \in Keys |-> IF r = Key(s) THEN [access[r] EXCEPT !.rank = "primary"]
                                       ELSE IF holder[r] = s THEN [access[r] EXCEPT !.rank = "other"]
                                       ELSE access[r]]
          /\ ~PrimaryClash(req[s].user, Held(s) \cup {Key(s)})
      BY <1>6 DEF FinishSetPrimary
    <2>2. ASSUME NEW k \in Keys \ {Key(s)}, Flagged(k)' PROVE Flagged(k) /\ k[1] # req[s].user
      <3>1. access[k] \in Rows /\ [access[k] EXCEPT !.rank = "other"].rank = "other"
        BY TypeFacts DEF Rows, NoRow
      <3>2. holder[k] # s /\ access'[k] = access[k]
        BY <2>1, <2>2, <3>1 DEF Flagged
      <3> QED
        BY <2>1, <2>2, <3>2 DEF Flagged, PrimaryClash, Primaries, Held
    <2> QED
      BY <1>1, <2>2, FlagMoves
  <1>7. CASE FinishDeleteAccount(s)
    <2>1. \A k \in Keys : Flagged(k)' => Flagged(k)
      BY <1>7 DEF FinishDeleteAccount, Flagged, Gone, NoRow
    <2> QED
      BY <2>1, FlagsShrink
  <1>8. CASE FinishRemoval(s) /\ ~Leave(s)
    <2> DEFINE k    == Key(s)
               h    == Heir(s)
               how  == heir[s].how
               mine == {r \in {k} : holder[r] = s}
               role == IF how = "update" THEN access[h].role ELSE heir[s].role
    <2>1. /\ access' = [r \in Keys |-> CASE r \in mine -> Gone(r)
                                         [] r \notin mine /\ r = h /\ how # "none" -> [role |-> role, rank |-> "primary"]
                                         [] OTHER -> access[r]]
          /\ how # "none" => ~PrimaryClash(req[s].user, mine \cup {h})
      BY <1>8 DEF FinishRemoval
    <2>2. h[1] = req[s].user
      BY DEF Heir
    <2> HIDE DEF mine, h, role, how
    <2>3. \A r \in Keys : /\ r \in mine => access'[r] = Gone(r)
                          /\ r \notin mine /\ ~(r = h /\ how # "none") => access'[r] = access[r]
      BY <2>1
    <2>4. CASE how # "none" /\ h \in Keys
      <3>1. ASSUME NEW r \in Keys \ {h}, Flagged(r)' PROVE Flagged(r) /\ r[1] # h[1]
        <4>1. r \notin mine /\ access'[r] = access[r]
          BY <2>3, <3>1 DEF Flagged, Gone, NoRow
        <4> QED
          BY <2>1, <2>2, <2>4, <3>1, <4>1 DEF Flagged, PrimaryClash, Primaries
      <3> QED
        BY <2>4, <3>1, FlagMoves
    <2>5. CASE ~(how # "none" /\ h \in Keys)
      <3>1. \A r \in Keys : Flagged(r)' => Flagged(r)
        BY <2>3, <2>5 DEF Flagged, Gone, NoRow
      <3> QED
        BY <3>1, FlagsShrink
    <2> QED
      BY <2>4, <2>5
  <1>9. CASE FinishAssign(s) \/ FinishUnassign(s)
    BY <1>2, <1>9 DEF FinishAssign, FinishUnassign
  <1> QED
    BY <1>3, <1>4, <1>5, <1>6, <1>7, <1>8, <1>9

LEMMA PrimaryNext == TypeOK /\ OnePrimary /\ [Next]_vars => OnePrimary'
  <1> SUFFICES ASSUME TypeOK, OnePrimary, [Next]_vars PROVE OnePrimary'
    OBVIOUS
  <1>1. CASE UNCHANGED access
    BY <1>1 DEF OnePrimary, Primaries
  <1>2. ASSUME NEW s \in Slots, Leave(s) PROVE OnePrimary'
    BY <1>1, <1>2 DEF Leave, tables
  <1>3. ASSUME NEW s \in Slots, Step(s), ~Leave(s) PROVE OnePrimary'
    <2>1. CASE UNCHANGED tables
      BY <1>1, <2>1 DEF tables
    <2>2. CASE \/ FinishSetRole(s) \/ FinishAssign(s) \/ FinishUnassign(s) \/ FinishRemoval(s)
               \/ FinishInsert(s) \/ FinishSetPrimary(s) \/ FinishDeleteAccount(s)
      BY <2>2, PrimaryFinish
    <2>3. CASE \/ LockTarget(s) \/ DetachRead(s) \/ SnapshotAdmins(s) \/ LockAdmin(s) \/ LastAdminGuard(s)
               \/ DeleteRow(s) \/ PickHeir(s) \/ GetHeir(s) \/ SnapshotRows(s) \/ SweepRow(s)
      BY <1>3, <2>1, <2>3 DEF LockTarget, DetachRead, SnapshotAdmins, LockAdmin, LastAdminGuard, DeleteRow,
                              PickHeir, GetHeir, SnapshotRows, SweepRow
    <2>4. CASE \/ AttachRead(s) \/ JoinRead(s) \/ AssignRead(s) \/ UnassignRead(s)
               \/ DeleteAccountRead(s) \/ DeleteAccountNext(s) \/ DeleteAccountGuard(s)
      BY <1>3, <2>1, <2>4 DEF AttachRead, JoinRead, AssignRead, UnassignRead, DeleteAccountRead,
                              DeleteAccountNext, DeleteAccountGuard
    <2> QED
      BY <1>3, <2>2, <2>3, <2>4 DEF Step
  <1>4. ASSUME NEW s \in Slots, DeadlockVictim(s) \/ Killed(s) PROVE OnePrimary'
    BY <1>2, <1>4 DEF DeadlockVictim, Killed
  <1>5. CASE \E s \in Slots, op \in Ops \ {"set_code"}, u \in Users, c \in Companies,
                new \in Roles \cup {"none"} : Request(s, op, u, c, new)
    BY <1>1, <1>5 DEF Request, tables
  <1>6. CASE \E c \in Companies, enable \in BOOLEAN : SetJoinCode(c, enable)
    BY <1>1, <1>6 DEF SetJoinCode
  <1>7. CASE UNCHANGED vars
    BY <1>1, <1>7 DEF vars
  <1> QED
    BY <1>2, <1>3, <1>4, <1>5, <1>6, <1>7 DEF Next

(* A user has one primary company at most, whatever joins, departures and   *)
(* switches overlap: the sweep of the other rows and the unique index       *)
(* together let no second one through.                                      *)
THEOREM PrimaryIsOne == Spec => []OnePrimary
  <1>1. Init => OnePrimary
    BY DEF Init, OnePrimary
  <1> QED
    BY <1>1, PrimaryNext, TypeCorrect, PTL DEF Spec

--------------------------------------------------------------------------------
(***************************************************************************)
(* The last-admin guard, for any users, companies and overlapping          *)
(* requests: a role change, a boot, or a detach that saw itself as an      *)
(* admin never takes the last admin of its company.                        *)
(*                                                                         *)
(* The guard counts admins that the request has locked.  An invariant      *)
(* about one request makes that an argument: every row it has counted is   *)
(* still its own and still an admin (Counted), it went past the guard with *)
(* more than one of them if it is about to take the role from an admin     *)
(* (Passed), and a row that it locked to change is still as it read it     *)
(* (Aimed).  Other requests do not disturb these facts, because a role     *)
(* only changes in a row that is free, one's own, or not there (Keeps).    *)
(***************************************************************************)
Guardable == {"set_role", "assign", "boot", "detach"}

(* An idle slot has nothing in its memory. *)
Idle(s) == pc[s] = "idle" => req[s] = NoReq /\ admins[s] = {}

(* A request that goes through the guard does not sweep rows, and a        *)
(* removal has no new role.                                                *)
Routed(s) ==
    /\ req[s].op \in Guardable => pc[s] \notin {"rows", "sweep", "next"}
    /\ req[s].op \in {"boot", "detach"} => req[s].new = "none"

(* The rows that it is about to lock are of its company. *)
Listing(s) == pc[s] = "locking" => \A k \in todo[s] : k[2] = req[s].company

Counted(s) == req[s].op \in Guardable =>
    \A k \in admins[s] : holder[k] = s /\ access[k].role = "admin" /\ k[2] = req[s].company

Passed(s) ==
    /\ req[s].op \in Guardable /\ pc[s] \in {"delete", "pick", "get", "finish"}
    /\ row[s].role = "admin" /\ req[s].new # "admin"
    => ~(Cardinality(admins[s]) <= 1)

Aimed(s) ==
    /\ req[s].op \in {"set_role", "assign", "boot"}
    /\ pc[s] \in {"admins", "locking", "delete", "pick", "get", "finish"}
    => holder[Key(s)] = s /\ Present(Key(s)) /\ access[Key(s)].role = row[s].role

SlotInv(s) == Idle(s) /\ Routed(s) /\ Listing(s) /\ Counted(s) /\ Passed(s) /\ Aimed(s)

GuardInv == TypeOK /\ \A s \in Slots : SlotInv(s)

--------------------------------------------------------------------------------
(* What a step of another request leaves alone. *)
Untouched(s) ==
    /\ pc'[s] = pc[s] /\ req'[s] = req[s] /\ row'[s] = row[s]
    /\ todo'[s] = todo[s] /\ admins'[s] = admins[s]

HoldsOn(s) == \A k \in Keys : holder[k] = s => holder'[k] = s

Keeps(s) == \A k \in Keys :
    holder[k] = s /\ Present(k) => holder'[k] = s /\ access'[k].role = access[k].role

(* The row that a guarded request is about is one.                         *)
LEMMA GuardedKey ==
    ASSUME TypeOK, NEW s \in Slots, req[s].op \in Guardable
    PROVE  Key(s) \in Keys /\ req[s].company \in Companies
  <1>1. req[s] \in Requests
    BY DEF TypeOK, NoReq, Guardable
  <1> QED
    BY <1>1 DEF Requests, Key, Keys

LEMMA KeptInv ==
    ASSUME TypeOK, NEW s \in Slots, SlotInv(s), Untouched(s), Keeps(s)
    PROVE  SlotInv(s)'
  <1>1. Idle(s)' /\ Routed(s)' /\ Listing(s)' /\ Passed(s)'
    BY DEF SlotInv, Untouched, Idle, Routed, Listing, Passed
  <1>2. Counted(s)'
    <2> SUFFICES ASSUME req[s].op \in Guardable, NEW k \in admins[s]
                 PROVE  holder'[k] = s /\ access'[k].role = "admin" /\ k[2] = req[s].company
      BY DEF Untouched, Counted
    <2>1. k \in Keys /\ holder[k] = s /\ access[k].role = "admin" /\ k[2] = req[s].company
      BY DEF SlotInv, Counted, TypeOK
    <2> QED
      BY <2>1 DEF Keeps, Present
  <1>3. Aimed(s)'
    <2> SUFFICES ASSUME req[s].op \in {"set_role", "assign", "boot"},
                        pc[s] \in {"admins", "locking", "delete", "pick", "get", "finish"}
                 PROVE  holder'[Key(s)] = s /\ access'[Key(s)].role # "none"
                        /\ access'[Key(s)].role = row[s].role
      BY DEF Untouched, Aimed, Key, Present
    <2>1. Key(s) \in Keys
      BY GuardedKey DEF Guardable
    <2>2. holder[Key(s)] = s /\ Present(Key(s)) /\ access[Key(s)].role = row[s].role
      BY DEF SlotInv, Aimed
    <2> QED
      BY <2>1, <2>2 DEF Keeps, Present
  <1> QED
    BY <1>1, <1>2, <1>3 DEF SlotInv

(* The end of a request leaves nothing behind, and the others alone.       *)
LEMMA EndInv ==
    ASSUME TypeOK, NEW s \in Slots, End(s) PROVE SlotInv(s)'
  <1>1. pc'[s] = "idle" /\ req'[s] = NoReq /\ admins'[s] = {}
    BY DEF End, Forget, Goto, TypeOK
  <1>2. NoReq.op \notin Guardable \cup {"set_role", "assign", "boot", "detach"}
    BY DEF NoReq, Guardable
  <1> QED
    BY <1>1, <1>2 DEF SlotInv, Idle, Routed, Listing, Counted, Passed, Aimed

LEMMA EndOther ==
    ASSUME TypeOK, NEW s \in Slots, NEW t \in Slots, s # t, End(t)
    PROVE  Untouched(s) /\ HoldsOn(s)
  BY DEF End, Forget, Goto, TypeOK, Untouched, HoldsOn

--------------------------------------------------------------------------------
(* Nobody takes a row that another request holds.                          *)
LEMMA LockOther ==
    ASSUME TypeOK, NEW s \in Slots, NEW t \in Slots, s # t, NEW k, Free(k, t), Lock(t, k)
    PROVE  HoldsOn(s)
  BY MembershipConstants DEF TypeOK, Free, Lock, HoldsOn

LEMMA LeaveOther ==
    ASSUME TypeOK, NEW s \in Slots, NEW t \in Slots, s # t, Leave(t)
    PROVE  UNCHANGED access /\ Untouched(s) /\ HoldsOn(s)
  BY EndOther DEF Leave, tables

(* A request that reads and locks on its way changes no role.              *)
LEMMA OtherReads ==
    ASSUME TypeOK, NEW s \in Slots, NEW t \in Slots, s # t,
           \/ LockTarget(t)
           \/ DetachRead(t) \/ SnapshotAdmins(t) \/ LockAdmin(t) \/ LastAdminGuard(t)
           \/ DeleteRow(t) \/ PickHeir(t) \/ GetHeir(t)
           \/ SnapshotRows(t) \/ SweepRow(t)
           \/ AttachRead(t) \/ JoinRead(t) \/ AssignRead(t) \/ UnassignRead(t)
           \/ DeleteAccountRead(t) \/ DeleteAccountNext(t) \/ DeleteAccountGuard(t)
    PROVE  UNCHANGED access /\ Untouched(s) /\ HoldsOn(s)
  <1>0. ASSUME UNCHANGED holder PROVE HoldsOn(s)
    BY <1>0 DEF HoldsOn
  <1>1. CASE LockTarget(t)
    <2>1. CASE ~Present(Key(t))
      BY <1>1, <2>1, LeaveOther DEF LockTarget
    <2>2. CASE Present(Key(t))
      <3>1. HoldTarget(t)
        BY <1>1, <2>2 DEF LockTarget
      <3>2. HoldsOn(s)
        BY <3>1, LockOther DEF HoldTarget, Free
      <3> QED
        BY <1>1, <2>2, <3>2 DEF LockTarget, Goto, tables, TypeOK, Untouched
    <2> QED
      BY <2>1, <2>2
  <1>2. CASE DetachRead(t)
    BY <1>2, <1>0, LeaveOther DEF DetachRead, Goto, tables, TypeOK, Untouched
  <1>3. CASE SnapshotAdmins(t)
    BY <1>3, <1>0 DEF SnapshotAdmins, Goto, tables, TypeOK, Untouched
  <1>4. CASE LockAdmin(t)
    <2>1. HoldsOn(s)
      BY <1>4, <1>0, LockOther DEF LockAdmin
    <2>2. admins'[s] = admins[s] /\ todo'[s] = todo[s]
      BY <1>4 DEF LockAdmin, TypeOK
    <2> QED
      BY <1>4, <2>1, <2>2 DEF LockAdmin, tables, Untouched
  <1>5. CASE LastAdminGuard(t)
    BY <1>5, <1>0, LeaveOther DEF LastAdminGuard, Goto, tables, locals, TypeOK, Untouched
  <1>6. CASE DeleteRow(t)
    <2>1. HoldsOn(s)
      BY <1>6, <1>0, LockOther DEF DeleteRow
    <2> QED
      BY <1>6, <2>1 DEF DeleteRow, Goto, tables, locals, TypeOK, Untouched
  <1>7. CASE PickHeir(t)
    <2>1. pc'[s] = pc[s]
      BY <1>7 DEF PickHeir, Goto, TypeOK
    <2> QED
      BY <1>7, <1>0, <2>1 DEF PickHeir, tables, Untouched
  <1>8. CASE GetHeir(t) \/ SnapshotRows(t)
    BY <1>8, <1>0 DEF GetHeir, SnapshotRows, Goto, tables, TypeOK, Untouched
  <1>9. CASE SweepRow(t)
    <2>1. HoldsOn(s)
      BY <1>9, <1>0, LockOther DEF SweepRow
    <2>2. pc'[s] = pc[s] /\ todo'[s] = todo[s]
      BY <1>9 DEF SweepRow, Goto, TypeOK
    <2> QED
      BY <1>9, <2>1, <2>2 DEF SweepRow, tables, Untouched
  <1>10. CASE AttachRead(t) \/ UnassignRead(t) \/ AssignRead(t)
    BY <1>10, <1>0, LeaveOther DEF AttachRead, UnassignRead, AssignRead, Goto, tables, locals, TypeOK, Untouched
  <1>11. CASE JoinRead(t)
    BY <1>11, <1>0, LeaveOther DEF JoinRead, Goto, tables, TypeOK, Untouched
  <1>12. CASE DeleteAccountRead(t)
    BY <1>12, <1>0 DEF DeleteAccountRead, Goto, tables, TypeOK, Untouched
  <1>13. CASE DeleteAccountNext(t)
    <2>1. pc'[s] = pc[s] /\ req'[s] = req[s]
      BY <1>13 DEF DeleteAccountNext, Goto, TypeOK
    <2> QED
      BY <1>13, <1>0, <2>1 DEF DeleteAccountNext, tables, Untouched
  <1>14. CASE DeleteAccountGuard(t)
    <2>1. CASE Leave(t)
      BY <2>1, LeaveOther
    <2>2. CASE ~Leave(t)
      BY <1>14, <1>0, <2>2 DEF DeleteAccountGuard, Goto, tables, TypeOK, Untouched
    <2> QED
      BY <2>1, <2>2
  <1> QED
    BY <1>1, <1>2, <1>3, <1>4, <1>5, <1>6, <1>7, <1>8, <1>9, <1>10, <1>11, <1>12, <1>13, <1>14

(* ... and one that commits changes the role of no row that another holds. *)
LEMMA OtherFinish ==
    ASSUME TypeOK, NEW s \in Slots, NEW t \in Slots, s # t, SlotInv(t),
           \/ FinishSetRole(t) \/ FinishAssign(t) \/ FinishUnassign(t) \/ FinishRemoval(t)
           \/ FinishInsert(t) \/ FinishSetPrimary(t) \/ FinishDeleteAccount(t)
    PROVE  Untouched(s) /\ Keeps(s)
  <1>0. ASSUME UNCHANGED access, HoldsOn(s) PROVE Keeps(s)
    BY <1>0 DEF Keeps, HoldsOn
  <1>1. ASSUME End(t), NEW k \in Keys, holder[k] = s PROVE holder'[k] = s
    BY <1>1, EndOther DEF HoldsOn
  <1>2. CASE Leave(t)
    BY <1>0, <1>2, LeaveOther
  <1>3. CASE FinishAssign(t) \/ FinishUnassign(t)
    BY <1>0, <1>3, EndOther DEF FinishAssign, FinishUnassign
  <1>4. CASE FinishSetRole(t)
    <2>1. End(t) /\ access' = [access EXCEPT ![Key(t)].role = req[t].new]
      BY <1>4 DEF FinishSetRole
    <2>2. holder[Key(t)] = t
      BY <1>4 DEF FinishSetRole, SlotInv, Aimed
    <2> QED
      BY <1>1, <2>1, <2>2, EndOther DEF Keeps, TypeOK
  <1>5. CASE FinishRemoval(t) /\ ~Leave(t)
    <2> DEFINE h == Heir(t)
               how == heir[t].how
               mine == {r \in {Key(t)} : holder[r] = t}
               role == IF how = "update" THEN access[h].role ELSE heir[t].role
    <2>1. /\ how \in {"update", "overwrite"} => Free(h, t)
          /\ how = "none" \/ ~(Present(h) <=> (how = "insert"))
          /\ access' = [r \in Keys |-> CASE r \in mine -> Gone(r)
                                         [] r \notin mine /\ r = h /\ how # "none" ->
                                              [role |-> role, rank |-> "primary"]
                                         [] OTHER -> access[r]]
          /\ End(t)
      BY <1>5 DEF FinishRemoval
    <2>2. how \in {"none", "insert", "update", "overwrite"}
      BY DEF TypeOK, Heirs, NoHeir
    <2>3. ASSUME NEW k \in Keys, holder[k] = s, Present(k)
          PROVE  access'[k] = access[k]
      <3>1. k \notin mine
        BY <2>3
      <3>2. ~(k = h /\ how # "none")
        BY <2>1, <2>2, <2>3, MembershipConstants DEF Free
      <3> HIDE DEF mine, h, how, role
      <3> QED
        BY <2>1, <3>1, <3>2
    <2> QED
      BY <1>1, <2>1, <2>3, EndOther DEF Keeps
  <1>6. CASE FinishInsert(t) /\ ~Leave(t)
    <2>1. /\ End(t) /\ ~Present(Key(t))
          /\ access' = [access EXCEPT ![Key(t)] = [role |-> "member", rank |-> row[t].rank]]
      BY <1>6 DEF FinishInsert
    <2> QED
      BY <1>1, <2>1, EndOther DEF Keeps, TypeOK
  <1>7. CASE FinishSetPrimary(t) /\ ~Leave(t)
    <2>1. /\ End(t)
          /\ access' = [r \in Keys |->
                          IF r = Key(t) THEN [access[r] EXCEPT !.rank = "primary"]
                          ELSE IF holder[r] = t THEN [access[r] EXCEPT !.rank = "other"]
                          ELSE access[r]]
      BY <1>7 DEF FinishSetPrimary
    <2>2. ASSUME NEW k \in Keys PROVE access'[k].role = access[k].role
      <3>1. access[k] \in [role : Roles \cup {"none"}, rank : Ranks]
        BY DEF TypeOK, Rows, NoRow, Ranks
      <3> QED
        BY <2>1, <3>1
    <2> QED
      BY <1>1, <2>1, <2>2, EndOther DEF Keeps
  <1>8. CASE FinishDeleteAccount(t)
    <2>1. /\ End(t)
          /\ access' = [r \in Keys |-> IF holder[r] = t /\ r[1] = req[t].user THEN Gone(r) ELSE access[r]]
      BY <1>8 DEF FinishDeleteAccount
    <2> QED
      BY <1>1, <2>1, EndOther DEF Keeps
  <1> QED
    BY <1>2, <1>3, <1>4, <1>5, <1>6, <1>7, <1>8

--------------------------------------------------------------------------------
(* What a request does with its memory: a step that keeps its rows, with   *)
(* each part of the invariant it may disturb.                              *)
LEMMA OwnStep ==
    ASSUME TypeOK, NEW s \in Slots, SlotInv(s), UNCHANGED access, HoldsOn(s),
           req'[s] = req[s], pc[s] # "idle", pc'[s] # "idle",
           req[s].op \in Guardable => pc'[s] \notin {"rows", "sweep", "next"},
           Listing(s)', Counted(s)', Passed(s)', Aimed(s)'
    PROVE  SlotInv(s)'
  BY DEF SlotInv, Idle, Routed

LEMMA CountedStays ==
    ASSUME TypeOK, NEW s \in Slots, SlotInv(s), UNCHANGED access, HoldsOn(s),
           req'[s] = req[s], admins'[s] = admins[s]
    PROVE  Counted(s)'
  BY DEF SlotInv, Counted, HoldsOn, TypeOK

LEMMA AimedStays ==
    ASSUME TypeOK, NEW s \in Slots, SlotInv(s), UNCHANGED access, HoldsOn(s),
           req'[s] = req[s], row'[s] = row[s],
           req[s].op \in Guardable =>
               pc[s] \in {"admins", "locking", "delete", "pick", "get", "finish"}
    PROVE  Aimed(s)'
  <1> SUFFICES ASSUME req[s].op \in {"set_role", "assign", "boot"}
               PROVE  holder'[Key(s)] = s /\ Present(Key(s)) /\ access[Key(s)].role = row[s].role
    BY DEF Aimed, Key, Present
  <1>1. Key(s) \in Keys
    BY GuardedKey DEF Guardable
  <1> QED
    BY <1>1 DEF SlotInv, Aimed, HoldsOn, Guardable

(* The steps up to the guard. *)
LEMMA OwnGuard ==
    ASSUME TypeOK, NEW s \in Slots, SlotInv(s), ~Leave(s),
           LockTarget(s) \/ DetachRead(s) \/ SnapshotAdmins(s) \/ LockAdmin(s) \/ LastAdminGuard(s)
    PROVE  SlotInv(s)'
  <1>1. CASE LockTarget(s)
    <2>1. /\ pc[s] = "target" /\ Present(Key(s)) /\ HoldTarget(s)
          /\ row' = [row EXCEPT ![s] = access[Key(s)]]
          /\ Goto(s, CASE access[Key(s)].role = "admin" /\ req[s].new # "admin" -> "admins"
                         [] access[Key(s)].role # "admin" /\ req[s].op = "boot" -> "delete"
                         [] OTHER -> "finish")
          /\ UNCHANGED <<access, req, todo, admins>>
      BY <1>1 DEF LockTarget, tables
    <2>2. HoldsOn(s) /\ (Key(s) \in Keys => holder'[Key(s)] = s)
      BY <2>1, MembershipConstants DEF HoldTarget, Lock, HoldsOn, TypeOK
    <2>3. row'[s] = access[Key(s)] /\ req'[s] = req[s] /\ admins'[s] = admins[s]
      BY <2>1 DEF TypeOK
    <2>4. pc'[s] \in {"admins", "delete", "finish"}
          /\ (access[Key(s)].role = "admin" /\ req[s].new # "admin" => pc'[s] = "admins")
      BY <2>1 DEF Goto, TypeOK
    <2>5. Aimed(s)'
      BY <2>1, <2>2, <2>3, GuardedKey DEF Aimed, Guardable, Key, Present
    <2>6. Listing(s)' /\ Passed(s)'
      BY <2>3, <2>4 DEF Listing, Passed
    <2> QED
      BY <2>1, <2>2, <2>3, <2>4, <2>5, <2>6, CountedStays, OwnStep
  <1>2. CASE DetachRead(s)
    <2>1. /\ pc[s] = "read" /\ req[s].op = "detach"
          /\ row' = [row EXCEPT ![s] = access[Key(s)]]
          /\ Goto(s, IF access[Key(s)].role = "admin" THEN "admins" ELSE "delete")
          /\ UNCHANGED <<access, holder, req, todo, admins>>
      BY <1>2 DEF DetachRead, tables
    <2>2. HoldsOn(s) /\ row'[s] = access[Key(s)]
      BY <2>1 DEF HoldsOn, TypeOK
    <2>3. pc'[s] = IF access[Key(s)].role = "admin" THEN "admins" ELSE "delete"
      BY <2>1 DEF Goto, TypeOK
    <2>4. Listing(s)' /\ Passed(s)' /\ Aimed(s)'
      BY <2>1, <2>2, <2>3 DEF Listing, Passed, Aimed
    <2> QED
      BY <2>1, <2>2, <2>3, <2>4, CountedStays, OwnStep
  <1>3. CASE SnapshotAdmins(s)
    <2>1. /\ pc[s] = "admins" /\ pc'[s] = "locking"
          /\ todo'[s] = Admins(req[s].company) /\ admins'[s] = {}
          /\ UNCHANGED <<access, holder, req, row>>
      BY <1>3 DEF SnapshotAdmins, Goto, tables, TypeOK
    <2>2. HoldsOn(s)
      BY <2>1 DEF HoldsOn
    <2>3. Listing(s)' /\ Passed(s)' /\ Counted(s)'
      BY <2>1 DEF Listing, Passed, Counted, Admins
    <2> QED
      BY <2>1, <2>2, <2>3, AimedStays, OwnStep
  <1>4. CASE LockAdmin(s)
    <2>1. PICK k \in todo[s] :
             /\ Free(k, s)
             /\ todo' = [todo EXCEPT ![s] = @ \ {k}]
             /\ IF access[k].role = "admin"
                THEN Lock(s, k) /\ admins' = [admins EXCEPT ![s] = @ \cup {k}]
                ELSE UNCHANGED <<holder, admins>>
      BY <1>4 DEF LockAdmin
    <2>2. pc[s] = "locking" /\ UNCHANGED <<access, pc, req, row>>
      BY <1>4 DEF LockAdmin, tables
    <2>3. k \in Keys /\ k[2] = req[s].company
      BY <2>2 DEF TypeOK, SlotInv, Listing
    <2>4. HoldsOn(s)
      BY <2>1 DEF Lock, HoldsOn, TypeOK
    <2>5. Counted(s)'
      <3>1. CASE access[k].role = "admin"
        <4>1. admins'[s] = admins[s] \cup {k} /\ holder'[k] = s
          BY <2>1, <2>3, <3>1 DEF Lock, TypeOK
        <4>2. ASSUME req[s].op \in Guardable, NEW l \in admins[s]
              PROVE  holder'[l] = s /\ access[l].role = "admin" /\ l[2] = req[s].company
          BY <4>2, <2>4 DEF SlotInv, Counted, HoldsOn, TypeOK
        <4> QED
          BY <2>2, <2>3, <3>1, <4>1, <4>2 DEF Counted
      <3>2. CASE access[k].role # "admin"
        BY <2>1, <2>2, <2>4, <3>2, CountedStays
      <3> QED
        BY <3>1, <3>2
    <2>6. Listing(s)' /\ Passed(s)'
      BY <2>1, <2>2 DEF SlotInv, Listing, Passed, TypeOK
    <2> QED
      BY <2>2, <2>4, <2>5, <2>6, AimedStays, OwnStep
  <1>5. CASE LastAdminGuard(s)
    <2>1. /\ pc[s] = "locking" /\ ~(Cardinality(admins[s]) <= 1)
          /\ pc'[s] \in {"delete", "finish"}
          /\ UNCHANGED <<access, holder, req, row, todo, admins>>
      BY <1>5 DEF LastAdminGuard, Goto, tables, locals, TypeOK
    <2>2. HoldsOn(s)
      BY <2>1 DEF HoldsOn
    <2>3. Listing(s)' /\ Passed(s)'
      BY <2>1 DEF Listing, Passed
    <2> QED
      BY <2>1, <2>2, <2>3, CountedStays, AimedStays, OwnStep
  <1> QED
    BY <1>1, <1>2, <1>3, <1>4, <1>5

(* The steps of a removal. *)
LEMMA OwnRemoval ==
    ASSUME TypeOK, NEW s \in Slots, SlotInv(s), DeleteRow(s) \/ PickHeir(s) \/ GetHeir(s)
    PROVE  SlotInv(s)'
  <1>1. /\ pc[s] \in {"delete", "pick", "get"} /\ pc'[s] \in {"pick", "get", "finish"}
        /\ UNCHANGED <<access, req, row, todo, admins>>
    BY DEF DeleteRow, PickHeir, GetHeir, Goto, tables, locals, TypeOK
  <1>2. HoldsOn(s)
    BY DEF DeleteRow, PickHeir, GetHeir, Lock, HoldsOn, TypeOK
  <1>3. Listing(s)' /\ Passed(s)'
    BY <1>1 DEF SlotInv, Listing, Passed
  <1> QED
    BY <1>1, <1>2, <1>3, CountedStays, AimedStays, OwnStep

(* The steps of the requests that no guard stands before, and of the       *)
(* assignment before it hands its target on.                               *)
LEMMA OwnOther ==
    ASSUME TypeOK, NEW s \in Slots, SlotInv(s), ~Leave(s),
           \/ SnapshotRows(s) \/ SweepRow(s)
           \/ AttachRead(s) \/ JoinRead(s) \/ AssignRead(s) \/ UnassignRead(s)
           \/ DeleteAccountRead(s) \/ DeleteAccountNext(s) \/ DeleteAccountGuard(s)
    PROVE  SlotInv(s)'
  <1>1. CASE AssignRead(s)
    <2>1. /\ pc[s] = "read" /\ pc'[s] \in {"target", "add"}
          /\ UNCHANGED <<access, holder, req, row, todo, admins>>
      BY <1>1 DEF AssignRead, Goto, tables, locals, TypeOK
    <2>2. HoldsOn(s) /\ Listing(s)' /\ Passed(s)' /\ Aimed(s)'
      BY <2>1 DEF HoldsOn, Listing, Passed, Aimed
    <2> QED
      BY <2>1, <2>2, CountedStays, OwnStep
  <1>2. CASE ~AssignRead(s)
    <2>1. pc[s] # "idle" /\ req[s].op \notin Guardable
      BY <1>2 DEF SnapshotRows, SweepRow, AttachRead, JoinRead, UnassignRead, DeleteAccountRead,
                  DeleteAccountNext, DeleteAccountGuard, SlotInv, Routed, Guardable
    <2>2. req'[s].op = req[s].op /\ pc'[s] \in {"sweep", "finish", "next", "rows", "admins"}
      <3>1. CASE DeleteAccountNext(s)
        BY <3>1 DEF DeleteAccountNext, Goto, TypeOK, Requests, NoReq
      <3>2. CASE ~DeleteAccountNext(s)
        BY <1>2, <3>2 DEF SnapshotRows, SweepRow, AttachRead, JoinRead, UnassignRead, DeleteAccountRead,
                  DeleteAccountGuard, Goto, TypeOK, locals
      <3> QED
        BY <3>1, <3>2
    <2> QED
      BY <2>1, <2>2 DEF SlotInv, Idle, Routed, Listing, Counted, Passed, Aimed, Guardable
  <1> QED
    BY <1>1, <1>2

LEMMA OwnRequest ==
    ASSUME TypeOK, NEW s \in Slots, SlotInv(s), NEW op, NEW u, NEW c, NEW new, Request(s, op, u, c, new)
    PROVE  SlotInv(s)'
  <1>1. /\ pc[s] = "idle" /\ admins'[s] = {} /\ pc'[s] = FirstStep(op)
        /\ req'[s].op = op /\ req'[s].new = new
        /\ (new # "none") <=> (op \in {"set_role", "assign"})
    BY DEF Request, Goto, locals, TypeOK, SlotInv, Idle
  <1>2. pc'[s] \in {"target", "read", "rows"} /\ (op \in Guardable => pc'[s] # "rows")
    BY <1>1 DEF FirstStep, Guardable
  <1> QED
    BY <1>1, <1>2 DEF SlotInv, Idle, Routed, Listing, Counted, Passed, Aimed

LEMMA OtherRequest ==
    ASSUME TypeOK, NEW s \in Slots, NEW t \in Slots, s # t,
           NEW op, NEW u, NEW c, NEW new, Request(t, op, u, c, new)
    PROVE  Untouched(s) /\ Keeps(s)
  BY DEF Request, Goto, tables, locals, TypeOK, Untouched, Keeps

LEMMA NobodySteps ==
    ASSUME UNCHANGED <<access, holder, pc, req, locals>>, NEW s \in Slots
    PROVE  Untouched(s) /\ Keeps(s)
  BY DEF locals, Untouched, Keeps

--------------------------------------------------------------------------------
(* The steps of Next, told apart by what they can do to the rows.          *)
Reads(t) ==
    \/ LockTarget(t)
    \/ DetachRead(t) \/ SnapshotAdmins(t) \/ LockAdmin(t) \/ LastAdminGuard(t)
    \/ DeleteRow(t) \/ PickHeir(t) \/ GetHeir(t)
    \/ SnapshotRows(t) \/ SweepRow(t)
    \/ AttachRead(t) \/ JoinRead(t) \/ AssignRead(t) \/ UnassignRead(t)
    \/ DeleteAccountRead(t) \/ DeleteAccountNext(t) \/ DeleteAccountGuard(t)

Finishes(t) ==
    \/ FinishSetRole(t) \/ FinishAssign(t) \/ FinishUnassign(t) \/ FinishRemoval(t)
    \/ FinishInsert(t) \/ FinishSetPrimary(t) \/ FinishDeleteAccount(t)

LEMMA Steps ==
    ASSUME [Next]_vars
    PROVE  \/ UNCHANGED <<access, holder, pc, req, locals>>
           \/ \E t \in Slots, op \in Ops, u \in Users, c \in Companies, new \in Roles \cup {"none"} :
                Request(t, op, u, c, new)
           \/ \E t \in Slots : Reads(t) \/ Finishes(t) \/ Leave(t)
  <1>1. CASE UNCHANGED vars
    BY <1>1 DEF vars, locals
  <1>2. CASE \E c \in Companies, enable \in BOOLEAN : SetJoinCode(c, enable)
    BY <1>2 DEF SetJoinCode
  <1>3. CASE \E s \in Slots, op \in Ops \ {"set_code"}, u \in Users, c \in Companies,
               new \in Roles \cup {"none"} : Request(s, op, u, c, new)
    BY <1>3
  <1>4. CASE \E s \in Slots : Step(s) \/ DeadlockVictim(s) \/ Killed(s)
    BY <1>4 DEF Step, Reads, Finishes, DeadlockVictim, Killed
  <1> QED
    BY <1>1, <1>2, <1>3, <1>4 DEF Next

LEMMA FinishLeaves ==
    ASSUME NEW s \in Slots, Finishes(s) PROVE End(s)
  BY DEF Finishes, FinishSetRole, FinishAssign, FinishUnassign, FinishRemoval, FinishInsert,
         FinishSetPrimary, FinishDeleteAccount, Leave

LEMMA OwnReads ==
    ASSUME TypeOK, NEW s \in Slots, SlotInv(s), Reads(s) PROVE SlotInv(s)'
  BY EndInv, OwnGuard, OwnRemoval, OwnOther DEF Reads, Leave

LEMMA GuardInit == Init => GuardInv
  <1> SUFFICES ASSUME Init PROVE GuardInv
    OBVIOUS
  <1>1. ASSUME NEW s \in Slots PROVE pc[s] = "idle" /\ req[s] = NoReq /\ admins[s] = {}
    BY DEF Init
  <1>2. NoReq.op \notin Guardable \cup {"set_role", "assign", "boot", "detach"}
    BY DEF NoReq, Guardable
  <1> QED
    BY <1>1, <1>2, TypeInit DEF GuardInv, SlotInv, Idle, Routed, Listing, Counted, Passed, Aimed

LEMMA GuardNext == GuardInv /\ [Next]_vars => GuardInv'
  <1> SUFFICES ASSUME GuardInv, [Next]_vars PROVE GuardInv'
    OBVIOUS
  <1>1. TypeOK /\ TypeOK'
    BY TypeNext DEF GuardInv
  <1> SUFFICES ASSUME NEW s \in Slots PROVE SlotInv(s)'
    BY <1>1 DEF GuardInv
  <1>2. \A t \in Slots : SlotInv(t)
    BY DEF GuardInv
  <1>3. CASE UNCHANGED <<access, holder, pc, req, locals>>
    BY <1>1, <1>2, <1>3, NobodySteps, KeptInv
  <1>4. ASSUME NEW t \in Slots, NEW op, NEW u, NEW c, NEW new, Request(t, op, u, c, new)
        PROVE  SlotInv(s)'
    BY <1>1, <1>2, <1>4, OwnRequest, OtherRequest, KeptInv
  <1>5. ASSUME NEW t \in Slots, Reads(t) \/ Finishes(t) \/ Leave(t) PROVE SlotInv(s)'
    <2>1. CASE t = s
      <3>1. CASE Reads(s)
        BY <1>1, <1>2, <3>1, OwnReads
      <3>2. CASE Finishes(s) \/ Leave(s)
        <4>1. End(s)
          BY <3>2, FinishLeaves DEF Leave
        <4> QED
          BY <1>1, <4>1, EndInv
      <3> QED
        BY <1>5, <2>1, <3>1, <3>2
    <2>2. CASE t # s
      <3>1. ASSUME UNCHANGED access, HoldsOn(s) PROVE Keeps(s)
        BY <3>1 DEF Keeps, HoldsOn
      <3>2. CASE Reads(t)
        <4>1. UNCHANGED access /\ Untouched(s) /\ HoldsOn(s)
          BY <1>1, <2>2, <3>2, OtherReads DEF Reads
        <4> QED
          BY <1>1, <1>2, <3>1, <4>1, KeptInv
      <3>3. CASE Finishes(t)
        <4>1. Untouched(s) /\ Keeps(s)
          BY <1>1, <1>2, <2>2, <3>3, OtherFinish DEF Finishes
        <4> QED
          BY <1>1, <1>2, <4>1, KeptInv
      <3>4. CASE Leave(t)
        BY <1>1, <1>2, <2>2, <3>1, <3>4, LeaveOther, KeptInv
      <3> QED
        BY <1>5, <3>2, <3>3, <3>4
    <2> QED
      BY <2>1, <2>2
  <1> QED
    BY <1>3, <1>4, <1>5, Steps

(* What every request knows of the rows it has counted and of the row it   *)
(* changes holds in every reachable state (list_admins_for_update and      *)
(* find_for_update of the membership use cases).                           *)
THEOREM GuardInvariant == Spec => []GuardInv
  BY GuardInit, GuardNext, PTL DEF Spec

--------------------------------------------------------------------------------
(* Of more than one admin, one is not the request's target. *)
LEMMA TwoCounted ==
    ASSUME TypeOK, NEW s \in Slots, ~(Cardinality(admins[s]) <= 1), NEW x
    PROVE  \E k \in admins[s] : k # x
  <1> SUFFICES ASSUME \A k \in admins[s] : k = x PROVE FALSE
    OBVIOUS
  <1>1. admins[s] \subseteq {x}
    OBVIOUS
  <1>2. IsFiniteSet({x}) /\ Cardinality({x}) = 1
    BY FS_Singleton
  <1>3. Cardinality(admins[s]) <= Cardinality({x})
    BY <1>1, <1>2, FS_Subset
  <1> QED
    BY <1>2, <1>3

(* Only an end makes a slot idle, and one without a commit changes no row. *)
LEMMA Ending ==
    ASSUME TypeOK, NEW s \in Slots, Reads(s), pc[s] # "idle", pc'[s] = "idle" PROVE UNCHANGED access
  BY DEF Reads, LockTarget, DetachRead, SnapshotAdmins, LockAdmin, LastAdminGuard, DeleteRow,
         PickHeir, GetHeir, SnapshotRows, SweepRow, AttachRead, JoinRead, AssignRead, UnassignRead,
         DeleteAccountRead, DeleteAccountNext, DeleteAccountGuard, Leave, tables

(* A role change leaves an admin, because its target was none or is not    *)
(* the only one counted; so does a removal.                                *)
LEMMA RoleChangeLeavesOne ==
    ASSUME TypeOK, NEW s \in Slots, SlotInv(s), FinishSetRole(s),
           NEW c, req[s].company = c, Admins(c) # {}
    PROVE  Admins(c)' # {}
  <1>1. /\ req[s].op \in {"set_role", "assign"} /\ pc[s] = "finish"
        /\ access' = [access EXCEPT ![Key(s)].role = req[s].new]
    BY DEF FinishSetRole
  <1>2. Key(s) \in Keys /\ Key(s)[2] = req[s].company
    BY <1>1, GuardedKey DEF Guardable, Key
  <1>3. access[Key(s)].role = row[s].role
    BY <1>1 DEF SlotInv, Aimed
  <1>4. \A k \in Keys : k # Key(s) => access'[k] = access[k]
    BY <1>1 DEF TypeOK
  <1>5. CASE req[s].new = "admin"
    <2>1. access[Key(s)] \in [role : Roles \cup {"none"}, rank : Ranks]
      BY <1>2 DEF TypeOK, Rows, NoRow, Ranks
    <2>2. access'[Key(s)].role = "admin"
      BY <1>1, <1>2, <1>5, <2>1 DEF TypeOK
    <2> QED
      BY <1>2, <2>2 DEF Admins
  <1>6. CASE req[s].new # "admin" /\ row[s].role = "admin"
    <2>1. ~(Cardinality(admins[s]) <= 1)
      BY <1>1, <1>6 DEF SlotInv, Passed, Guardable
    <2>2. PICK k \in admins[s] : k # Key(s)
      BY <2>1, TwoCounted
    <2>3. k \in Keys /\ access[k].role = "admin" /\ k[2] = req[s].company
      BY <1>1 DEF TypeOK, SlotInv, Counted, Guardable
    <2> QED
      BY <1>4, <2>2, <2>3 DEF Admins
  <1>7. CASE row[s].role # "admin"
    BY <1>3, <1>4, <1>7 DEF Admins
  <1> QED
    BY <1>5, <1>6, <1>7

LEMMA RemovalLeavesOne ==
    ASSUME TypeOK, NEW s \in Slots, SlotInv(s), FinishRemoval(s), ~Leave(s), Guarded(s),
           NEW c, req[s].company = c, Admins(c) # {}
    PROVE  Admins(c)' # {}
  <1> DEFINE h == Heir(s)
             how == heir[s].how
             mine == {r \in {Key(s)} : holder[r] = s}
             role == IF how = "update" THEN access[h].role ELSE heir[s].role
  <1>1. /\ req[s].op \in {"boot", "detach"} /\ pc[s] = "finish"
        /\ access' = [r \in Keys |-> CASE r \in mine -> Gone(r)
                                       [] r \notin mine /\ r = h /\ how # "none" ->
                                            [role |-> role, rank |-> "primary"]
                                       [] OTHER -> access[r]]
    BY DEF FinishRemoval
  <1>2. Key(s) = <<req[s].user, req[s].company>> /\ h[1] = req[s].user
    BY DEF Key, Heir
  <1>3. ASSUME NEW k \in Keys, k[2] = req[s].company, k # Key(s) PROVE access'[k] = access[k]
    <2>1. k = <<k[1], k[2]>>
      BY DEF Keys
    <2>2. k # h /\ k \notin mine
      BY <1>2, <1>3, <2>1
    <2> HIDE DEF mine, h, how, role
    <2> QED
      BY <1>1, <2>2
  <1>4. req[s].op = "detach" => row[s].role = "admin"
    BY DEF Guarded
  <1>5. CASE row[s].role = "admin"
    <2>1. ~(Cardinality(admins[s]) <= 1)
      BY <1>1, <1>5 DEF SlotInv, Routed, Passed, Guardable
    <2>2. PICK k \in admins[s] : k # Key(s)
      BY <2>1, TwoCounted
    <2>3. k \in Keys /\ access[k].role = "admin" /\ k[2] = req[s].company
      BY <1>1 DEF TypeOK, SlotInv, Counted, Guardable
    <2> QED
      BY <1>3, <2>2, <2>3 DEF Admins
  <1>6. CASE row[s].role # "admin"
    <2>1. access[Key(s)].role # "admin"
      BY <1>1, <1>4, <1>6 DEF SlotInv, Aimed
    <2> QED
      BY <1>3, <2>1 DEF Admins
  <1> QED
    BY <1>5, <1>6

LEMMA GuardStep ==
    ASSUME GuardInv, [Next]_vars, NEW s \in Slots, Guarded(s), pc'[s] = "idle",
           NEW c, req[s].company = c, Admins(c) # {}
    PROVE  Admins(c)' # {}
  <1>1. TypeOK /\ \A t \in Slots : SlotInv(t)
    BY DEF GuardInv
  <1>2. pc[s] # "idle"
    BY <1>1 DEF SlotInv, Idle, Guarded, NoReq
  <1>3. ASSUME UNCHANGED access PROVE Admins(c)' # {}
    BY <1>3 DEF Admins
  <1>4. CASE UNCHANGED <<access, holder, pc, req, locals>>
    BY <1>3, <1>4
  <1>5. ASSUME NEW t \in Slots, NEW op, NEW u, NEW d, NEW new, Request(t, op, u, d, new)
        PROVE  Admins(c)' # {}
    BY <1>3, <1>5 DEF Request, tables
  <1>6. ASSUME NEW t \in Slots, t # s, Reads(t) \/ Finishes(t) \/ Leave(t) PROVE FALSE
    BY <1>1, <1>2, <1>6, OtherReads, OtherFinish, LeaveOther DEF Reads, Finishes, Untouched
  <1>7. CASE Reads(s) \/ Leave(s)
    BY <1>1, <1>2, <1>3, <1>7, Ending DEF Leave, tables
  <1>8. CASE Finishes(s) /\ ~Leave(s)
    <2>1. FinishSetRole(s) \/ FinishAssign(s) \/ FinishRemoval(s)
      BY <1>8 DEF Finishes, Guarded, FinishUnassign, FinishInsert, FinishSetPrimary, FinishDeleteAccount
    <2>2. CASE FinishAssign(s)
      BY <1>3, <2>2 DEF FinishAssign
    <2> QED
      BY <1>1, <1>8, <2>1, <2>2, RoleChangeLeavesOne, RemovalLeavesOne
  <1> QED
    BY <1>4, <1>5, <1>6, <1>7, <1>8, Steps

(* Whatever requests overlap, a demotion, a boot, or a detach that saw     *)
(* itself as an admin never takes the last admin of its company            *)
(* (SetMemberRoleUseCase, BootAttachedUserUseCase, DetachCompanyUseCase).  *)
THEOREM LastAdminStays == Spec => GuardKeepsAnAdmin
  <1> DEFINE KeepsOne == \A s \in Slots, c \in Companies :
                 /\ Guarded(s) /\ pc'[s] = "idle" /\ req[s].company = c
                 /\ Admins(c) # {}
                 => Admins(c)' # {}
  <1>1. GuardInv /\ [Next]_vars => KeepsOne
    BY GuardStep
  <1> QED
    BY <1>1, GuardInvariant, PTL DEF Spec, GuardKeepsAnAdmin

--------------------------------------------------------------------------------
(***************************************************************************)
(* Everyone attached is listed, in a mix where nobody detaches.            *)
(*                                                                         *)
(* A boot takes the profile away together with the row, because it holds   *)
(* the row (Aimed), and writes one more row, that of the next primary      *)
(* company.  Had that row gone since it was chosen, save() would insert it *)
(* anew and nobody would list it; in a steady mix it is in a company where *)
(* no request removes anyone (Chosen), so it never goes.                   *)
(***************************************************************************)
Steady(m) ==
    "detach" \notin m.ops =>
        /\ "delete_account" \notin m.ops
        /\ "boot" \in m.ops => \A c, d \in m.companies : c = d

(* The mixes that the run checks are steady.                               *)
LEMMA EverydayIsSteady == \A m \in Everyday : Steady(m)
  <1> USE DEF Steady
  <1>1. Steady(Managing) /\ Steady(Assigning) /\ Steady(Switching) /\ Steady(Coming)
    BY DEF Managing, Assigning, Switching, Coming
  <1> QED
    BY <1>1 DEF Everyday

(* Only a boot removes, and the row it makes primary is elsewhere. *)
Chosen(s) ==
    /\ pc[s] \in {"delete", "pick", "get"} => req[s].op = "boot"
    /\ pc[s] = "get" => heir[s].company \in Companies \ mix.companies
    /\ heir[s].how # "insert"

(* The rows of the other companies stay. *)
ElsewhereStays == \A k \in Keys : k[2] \notin mix.companies => Present(k)

ListInv ==
    /\ GuardInv /\ Within /\ Steady(mix)
    /\ "detach" \notin mix.ops =>
         ElsewhereStays /\ ListedIfAttached /\ \A s \in Slots : Chosen(s)

(* What the steps of a request know, in a steady mix without detach.       *)
Unleaving == GuardInv /\ Within /\ Steady(mix) /\ "detach" \notin mix.ops
             /\ ElsewhereStays /\ ListedIfAttached /\ \A s \in Slots : Chosen(s)

LEMMA BlankChosen ==
    ASSUME TypeOK, NEW s \in Slots, End(s) PROVE Chosen(s)'
  <1>1. pc'[s] = "idle" /\ heir'[s] = NoHeir
    BY DEF End, Forget, Goto, TypeOK
  <1> QED
    BY <1>1 DEF Chosen, NoHeir

LEMMA OtherChosen ==
    ASSUME TypeOK, UNCHANGED mix, NEW s \in Slots, NEW t \in Slots, s # t, Chosen(s),
           Reads(t) \/ Finishes(t) \/ Leave(t)
    PROVE  Chosen(s)'
  <1>1. CASE Finishes(t) \/ Leave(t)
    <2>1. End(t)
      BY <1>1, FinishLeaves DEF Leave
    <2>2. pc'[s] = pc[s] /\ req'[s] = req[s] /\ heir'[s] = heir[s]
      BY <2>1 DEF End, Forget, Goto, TypeOK
    <2> QED
      BY <2>2 DEF Chosen
  <1>2. CASE Reads(t)
    <2>1. Untouched(s)
      BY <1>2, OtherReads DEF Reads
    <2>2. heir'[s] = heir[s]
      BY <1>2 DEF Reads, LockTarget, DetachRead, SnapshotAdmins, LockAdmin, LastAdminGuard, DeleteRow,
         PickHeir, GetHeir, SnapshotRows, SweepRow, AttachRead, JoinRead, AssignRead, UnassignRead,
         DeleteAccountRead, DeleteAccountNext, DeleteAccountGuard, Leave, End, Forget, locals, TypeOK
    <2> QED
      BY <2>1, <2>2 DEF Chosen, Untouched
  <1> QED
    BY <1>1, <1>2

(* The request of a step is one of the mix. *)
LEMMA OfTheMix ==
    ASSUME Within, TypeOK, NEW s \in Slots, pc[s] # "idle"
    PROVE  req[s].op \in mix.ops /\ req[s].company \in mix.companies
  BY DEF Within, TypeOK, Serving

LEMMA PickChosen ==
    ASSUME Unleaving, UNCHANGED mix, NEW s \in Slots, PickHeir(s) PROVE Chosen(s)'
  <1>1. TypeOK /\ Chosen(s) /\ pc[s] = "pick"
    BY DEF Unleaving, GuardInv, PickHeir
  <1>2. req[s].op = "boot" /\ UNCHANGED req
    BY <1>1 DEF Chosen, PickHeir
  <1>3. req[s].company \in mix.companies /\ "boot" \in mix.ops
    BY <1>1, <1>2, OfTheMix DEF Unleaving
  <1>4. CASE RowsOf(req[s].user) \ {Key(s)} = {}
    <2>1. pc'[s] = "finish" /\ heir' = heir
      BY <1>1, <1>4 DEF PickHeir, Goto, TypeOK
    <2> QED
      BY <1>1, <2>1 DEF Chosen
  <1>5. CASE RowsOf(req[s].user) \ {Key(s)} # {}
    <2>1. PICK k \in RowsOf(req[s].user) \ {Key(s)} :
            /\ heir' = [heir EXCEPT ![s] = [company |-> k[2], role |-> access[k].role, how |-> "none"]]
            /\ Goto(s, "get")
      BY <1>5 DEF PickHeir
    <2>2. pc'[s] = "get" /\ heir'[s].company = k[2] /\ heir'[s].how = "none"
      BY <1>1, <2>1 DEF Goto, TypeOK
    <2>3. k \in Keys /\ k[1] = req[s].user /\ k # Key(s)
      BY <2>1 DEF RowsOf
    <2>4. k[2] # req[s].company /\ k[2] \in Companies
      BY <2>3 DEF Keys, Key
    <2>5. k[2] \notin mix.companies
      BY <1>3, <2>4 DEF Unleaving, Steady
    <2> QED
      BY <1>2, <2>2, <2>4, <2>5 DEF Chosen
  <1> QED
    BY <1>4, <1>5

LEMMA GetChosen ==
    ASSUME Unleaving, UNCHANGED mix, NEW s \in Slots, GetHeir(s) PROVE Chosen(s)'
  <1>1. TypeOK /\ Chosen(s) /\ pc[s] = "get"
    BY DEF Unleaving, GuardInv, GetHeir
  <1>2. heir[s].company \in Companies \ mix.companies /\ req[s].user \in Users
    BY <1>1, TypeFacts DEF Chosen
  <1>3. Heir(s) \in Keys /\ Heir(s)[2] \notin mix.companies
    BY <1>2 DEF Heir, Keys
  <1>4. HeirWrite(s) # "insert"
    BY <1>3 DEF Unleaving, ElsewhereStays, HeirWrite
  <1>5. pc'[s] = "finish" /\ heir'[s].how = HeirWrite(s)
    BY <1>1 DEF GetHeir, Goto, TypeOK, Heirs
  <1> QED
    BY <1>4, <1>5 DEF Chosen

LEMMA OwnChosen ==
    ASSUME Unleaving, UNCHANGED mix, NEW s \in Slots, Reads(s) \/ Finishes(s) \/ Leave(s)
    PROVE  Chosen(s)'
  <1>1. TypeOK /\ Chosen(s)
    BY DEF Unleaving, GuardInv
  <1>2. CASE Finishes(s) \/ Leave(s)
    BY <1>1, <1>2, FinishLeaves, BlankChosen DEF Leave
  <1>3. CASE PickHeir(s) \/ GetHeir(s)
    BY <1>3, PickChosen, GetChosen
  <1>4. CASE \/ SnapshotAdmins(s) \/ LockAdmin(s) \/ SnapshotRows(s) \/ SweepRow(s)
             \/ AttachRead(s) \/ JoinRead(s) \/ AssignRead(s) \/ UnassignRead(s)
             \/ DeleteAccountRead(s) \/ DeleteAccountNext(s) \/ DeleteAccountGuard(s)
    <2>1. CASE Leave(s)
      BY <1>1, <2>1, BlankChosen DEF Leave
    <2>2. CASE ~Leave(s)
      <3>1. UNCHANGED heir /\ pc'[s] \notin {"delete", "pick", "get"}
        BY <1>1, <1>4, <2>2 DEF SnapshotAdmins, LockAdmin, SnapshotRows, SweepRow, AttachRead, JoinRead,
             AssignRead, UnassignRead, DeleteAccountRead, DeleteAccountNext, DeleteAccountGuard,
             Goto, locals, TypeOK
      <3> QED
        BY <1>1, <3>1 DEF Chosen
    <2> QED
      BY <2>1, <2>2
  <1>5. CASE LockTarget(s) \/ DetachRead(s) \/ LastAdminGuard(s) \/ DeleteRow(s)
    <2>1. CASE Leave(s)
      BY <1>1, <2>1, BlankChosen DEF Leave
    <2>2. CASE ~Leave(s)
      <3>1. pc[s] # "idle"
        BY <1>5 DEF LockTarget, DetachRead, LastAdminGuard, DeleteRow
      <3>2. req[s].op # "detach"
        BY <1>1, <3>1, OfTheMix DEF Unleaving
      <3>3. /\ UNCHANGED <<heir, req>> /\ pc'[s] \notin {"get"}
            /\ pc'[s] \in {"delete", "pick"} => req[s].op = "boot"
        BY <1>1, <1>5, <2>2, <3>2 DEF LockTarget, DetachRead, LastAdminGuard, DeleteRow, Chosen,
             Goto, locals, TypeOK
      <3> QED
        BY <1>1, <3>3 DEF Chosen
    <2> QED
      BY <2>1, <2>2
  <1> QED
    BY <1>2, <1>3, <1>4, <1>5 DEF Reads

(* What a step leaves: the rows elsewhere, and everyone attached listed.   *)
AllListed ==
    \A k \in Keys : (Present(k)' => k \in listed') /\ (k[2] \notin mix.companies => Present(k)')

LEMMA SameRows ==
    ASSUME Unleaving, UNCHANGED <<access, listed>> PROVE AllListed
  BY DEF Unleaving, AllListed, ElsewhereStays, ListedIfAttached, Present

LEMMA RemovalLists ==
    ASSUME Unleaving, NEW s \in Slots, FinishRemoval(s), ~Leave(s) PROVE AllListed
  <1> DEFINE h == Heir(s)
             how == heir[s].how
             mine == {r \in {Key(s)} : holder[r] = s}
             role == IF how = "update" THEN access[h].role ELSE heir[s].role
  <1>1. /\ TypeOK /\ SlotInv(s) /\ Chosen(s)
        /\ req[s].op \in {"boot", "detach"} /\ pc[s] = "finish"
    BY DEF Unleaving, GuardInv, FinishRemoval
  <1>2. /\ access' = [r \in Keys |-> CASE r \in mine -> Gone(r)
                                       [] r \notin mine /\ r = h /\ how # "none" ->
                                            [role |-> role, rank |-> "primary"]
                                       [] OTHER -> access[r]]
        /\ listed' = listed \ {Key(s)}
        /\ how # "none" => ~(Present(h) <=> (how = "insert"))
    BY DEF FinishRemoval
  <1>3. /\ req[s].op = "boot" /\ req[s].company \in mix.companies
        /\ Key(s) \in Keys /\ Key(s)[2] = req[s].company
    BY <1>1, OfTheMix, TypeFacts DEF Unleaving, Key
  <1>4. holder[Key(s)] = s
    BY <1>1, <1>3 DEF SlotInv, Aimed
  <1>5. access'[Key(s)].role = "none"
    <2>1. access'[Key(s)] = Gone(Key(s))
      BY <1>2, <1>3, <1>4
    <2> QED
      BY <2>1 DEF Gone, NoRow
  <1>6. ASSUME NEW k \in Keys, k # Key(s) PROVE Present(k)' <=> Present(k)
    <2>0. k \notin mine
      BY <1>6
    <2>1. CASE k = h /\ how # "none"
      <3>1. access'[k] = [role |-> role, rank |-> "primary"]
        <4> HIDE DEF mine, h, how, role
        <4> QED
          BY <1>2, <2>0, <2>1
      <3>2. how # "insert" /\ Present(k)
        BY <1>1, <1>2, <2>1 DEF Chosen
      <3>3. heir[s] \in Heirs
        BY <1>1 DEF TypeOK
      <3>4. role # "none"
        BY <2>1, <3>2, <3>3 DEF Heirs, Roles, Present
      <3> QED
        BY <3>1, <3>2, <3>4 DEF Present
    <2>2. CASE ~(k = h /\ how # "none")
      <3>1. access'[k] = access[k]
        <4> HIDE DEF mine, h, how, role
        <4> QED
          BY <1>2, <2>0, <2>2
      <3> QED
        BY <3>1 DEF Present
    <2> QED
      BY <2>1, <2>2
  <1> QED
    BY <1>2, <1>3, <1>5, <1>6 DEF AllListed, Unleaving, ElsewhereStays, ListedIfAttached, Present

LEMMA RoleChangeLists ==
    ASSUME Unleaving, NEW s \in Slots, FinishSetRole(s) PROVE AllListed
  <1>1. /\ TypeOK /\ SlotInv(s) /\ UNCHANGED listed
        /\ req[s].op \in {"set_role", "assign"} /\ pc[s] = "finish"
        /\ access' = [access EXCEPT ![Key(s)].role = req[s].new]
    BY DEF FinishSetRole, Unleaving, GuardInv
  <1>2. Present(Key(s)) /\ req[s].company \in mix.companies /\ Key(s)[2] = req[s].company
    BY <1>1, OfTheMix DEF SlotInv, Aimed, Unleaving, Key
  <1>3. \A k \in Keys : k # Key(s) => access'[k] = access[k]
    BY <1>1 DEF TypeOK
  <1> QED
    BY <1>1, <1>2, <1>3 DEF AllListed, Unleaving, ElsewhereStays, ListedIfAttached, Present

LEMMA InsertLists ==
    ASSUME Unleaving, NEW s \in Slots, FinishInsert(s), ~Leave(s) PROVE AllListed
  <1>1. /\ TypeOK /\ pc[s] = "finish"
        /\ access' = [access EXCEPT ![Key(s)] = [role |-> "member", rank |-> row[s].rank]]
        /\ listed' = listed \cup {Key(s)}
    BY DEF FinishInsert, Unleaving, GuardInv
  <1>2. \A k \in Keys : k # Key(s) => access'[k] = access[k]
    BY <1>1 DEF TypeOK
  <1>3. req[s].company \in mix.companies /\ Key(s)[2] = req[s].company
    BY <1>1, OfTheMix DEF Unleaving, Key
  <1> QED
    BY <1>1, <1>2, <1>3 DEF AllListed, Unleaving, ElsewhereStays, ListedIfAttached, Present

LEMMA PrimaryLists ==
    ASSUME Unleaving, NEW s \in Slots, FinishSetPrimary(s), ~Leave(s) PROVE AllListed
  <1>1. /\ TypeOK /\ UNCHANGED listed
        /\ access' = [r \in Keys |->
                            IF r = Key(s) THEN [access[r] EXCEPT !.rank = "primary"]
                            ELSE IF holder[r] = s THEN [access[r] EXCEPT !.rank = "other"]
                            ELSE access[r]]
    BY DEF FinishSetPrimary, Unleaving, GuardInv
  <1>2. ASSUME NEW k \in Keys PROVE access'[k].role = access[k].role
    <2>1. access[k] \in [role : Roles \cup {"none"}, rank : Ranks]
      BY <1>1 DEF TypeOK, Rows, NoRow, Ranks
    <2> QED
      BY <1>1, <2>1
  <1> QED
    BY <1>1, <1>2 DEF AllListed, Unleaving, ElsewhereStays, ListedIfAttached, Present

LEMMA FinishLists ==
    ASSUME Unleaving, NEW s \in Slots, Reads(s) \/ Finishes(s) \/ Leave(s) PROVE AllListed
  <1>1. CASE Leave(s) \/ FinishAssign(s) \/ FinishUnassign(s)
    BY <1>1, SameRows DEF Leave, tables, FinishAssign, FinishUnassign
  <1>2. CASE Reads(s)
    <2>1. UNCHANGED <<access, listed>>
      BY <1>2 DEF Reads, LockTarget, DetachRead, SnapshotAdmins, LockAdmin, LastAdminGuard, DeleteRow,
         PickHeir, GetHeir, SnapshotRows, SweepRow, AttachRead, JoinRead, AssignRead, UnassignRead,
         DeleteAccountRead, DeleteAccountNext, DeleteAccountGuard, Leave, tables
    <2> QED
      BY <2>1, SameRows
  <1>3. CASE FinishDeleteAccount(s)
    <2>1. TypeOK /\ pc[s] = "finish" /\ req[s].op = "delete_account"
      BY <1>3 DEF FinishDeleteAccount, Unleaving, GuardInv
    <2>2. FALSE
      BY <2>1, OfTheMix DEF Unleaving, Steady
    <2> QED
      BY <2>2
  <1> QED
    BY <1>1, <1>2, <1>3, RemovalLists, RoleChangeLists, InsertLists, PrimaryLists DEF Finishes

LEMMA ListNext == ListInv /\ [MixNext]_<<vars, mix>> => ListInv'
  <1> SUFFICES ASSUME ListInv, [MixNext]_<<vars, mix>> PROVE ListInv'
    OBVIOUS
  <1>1. GuardInv' /\ [Next]_vars /\ UNCHANGED mix
    BY GuardNext DEF ListInv, MixNext
  <1>2. Within'
    BY DEF MixNext, ListInv, Within, vars
  <1>3. Steady(mix)'
    BY <1>1 DEF ListInv, Steady
  <1>4. ASSUME "detach" \notin mix.ops PROVE AllListed /\ \A s \in Slots : Chosen(s)'
    <2>1. Unleaving
      BY <1>4 DEF ListInv, Unleaving
    <2>2. CASE UNCHANGED <<access, holder, pc, req, locals>> /\ UNCHANGED listed
      BY <1>1, <2>1, <2>2, SameRows DEF locals, Chosen, Unleaving
    <2>3. ASSUME NEW t \in Slots, NEW op, NEW u, NEW c, NEW new, Request(t, op, u, c, new)
          PROVE  AllListed /\ \A s \in Slots : Chosen(s)'
      <3>1. UNCHANGED <<access, listed, heir>>
        BY <2>3 DEF Request, tables, locals
      <3>2. TypeOK /\ pc'[t] \in {"target", "rows", "read"}
        BY <2>1, <2>3 DEF Request, FirstStep, Goto, Unleaving, GuardInv, TypeOK
      <3>3. \A s \in Slots : s # t => pc'[s] = pc[s] /\ req'[s] = req[s]
        BY <2>3, <3>2 DEF Request, Goto, TypeOK
      <3> QED
        BY <1>1, <2>1, <3>1, <3>2, <3>3, SameRows DEF Chosen, Unleaving
    <2>4. ASSUME NEW t \in Slots, Reads(t) \/ Finishes(t) \/ Leave(t)
          PROVE  AllListed /\ \A s \in Slots : Chosen(s)'
      <3>1. TypeOK /\ \A s \in Slots : Chosen(s)
        BY <2>1 DEF Unleaving, GuardInv
      <3> QED
        BY <1>1, <2>1, <2>4, <3>1, FinishLists, OwnChosen, OtherChosen
    <2>5. \/ UNCHANGED <<access, holder, pc, req, locals>> /\ UNCHANGED listed
          \/ \E t \in Slots, op \in Ops, u \in Users, c \in Companies, new \in Roles \cup {"none"} :
               Request(t, op, u, c, new)
          \/ \E t \in Slots : Reads(t) \/ Finishes(t) \/ Leave(t)
      BY <1>1 DEF vars, locals, Next, SetJoinCode, Step, Reads, Finishes, DeadlockVictim, Killed
    <2> QED
      BY <2>2, <2>3, <2>4, <2>5
  <1>5. "detach" \notin mix.ops => ElsewhereStays' /\ ListedIfAttached'
    BY <1>1, <1>4 DEF AllListed, ElsewhereStays, ListedIfAttached
  <1> QED
    BY <1>1, <1>2, <1>3, <1>4, <1>5 DEF ListInv

LEMMA ListStart ==
    ASSUME \A m \in Mixes : Steady(m), MixInit PROVE ListInv
  <1>1. GuardInv /\ Steady(mix)
    BY GuardInit DEF MixInit
  <1>2. Within
    BY DEF MixInit, Init, Within
  <1>3. ElsewhereStays
    BY DEF MixInit, ElsewhereStays, Elsewhere, Present
  <1>4. ListedIfAttached
    BY DEF MixInit, Init, ListedIfAttached
  <1>5. \A s \in Slots : Chosen(s)
    <2> TAKE s \in Slots
    <2>1. pc[s] = "idle" /\ heir[s] = NoHeir
      BY DEF MixInit, Init
    <2> QED
      BY <2>1 DEF Chosen, NoHeir
  <1> QED
    BY <1>1, <1>2, <1>3, <1>4, <1>5 DEF ListInv

(* In a mix where nobody detaches or erases the account, and boots are of  *)
(* one company, everyone attached has an active directory profile, however *)
(* boots, attachments, joins and role changes overlap (the invariant of    *)
(* ensure_company_person).                                                 *)
THEOREM AttachedStayListed ==
    ASSUME \A m \in Mixes : Steady(m) PROVE MixSpec => []StaysListed
  <1>1. MixInit => ListInv
    BY ListStart
  <1>2. ListInv => StaysListed
    BY DEF ListInv, StaysListed
  <1> QED
    BY <1>1, <1>2, ListNext, PTL DEF MixSpec

--------------------------------------------------------------------------------
(***************************************************************************)
(* Nobody is left without an admin, in a mix where nobody is let in or     *)
(* gets a role.                                                            *)
(*                                                                         *)
(* An erasure decides about one company after the other and deletes its    *)
(* user's rows much later.  What it decided stays true until then: another *)
(* admin of the company is a row that it has locked, or the company has no *)
(* other member and nobody enters it (Settled).  Every company where its   *)
(* user is an admin is settled, or still to be looked at (Visiting).       *)
(***************************************************************************)
OnlyErasing(m) == m.ops \subseteq {"delete_account", "set_primary", "unassign", "set_code"}

(* The mix of account deletions of the run is one of them.                 *)
LEMMA ErasingOnlyErases == \A m \in Erasing : OnlyErasing(m)
  BY DEF Erasing, OnlyErasing

Settled(s, c) ==
    \/ \A k \in Members(c) : k[1] = req[s].user
    \/ \E k \in Keys : k[2] = c /\ k[1] # req[s].user /\ holder[k] = s /\ access[k].role = "admin"

Visiting(s) ==
    req[s].op = "delete_account" =>
        /\ pc[s] \in {"read", "next", "admins", "locking", "rows", "sweep", "finish"}
        /\ pc[s] \in {"rows", "sweep", "finish"} => queue[s] = {}
        /\ pc[s] = "locking" =>
             \A k \in admins[s] : holder[k] = s /\ access[k].role = "admin" /\ k[2] = req[s].company
        /\ pc[s] # "read" =>
             \A c \in Companies : access[<<req[s].user, c>>].role = "admin" =>
                 \/ c \in queue[s]
                 \/ pc[s] \in {"admins", "locking"} /\ c = req[s].company
                 \/ Settled(s, c)

EraseInv == GuardInv /\ Within /\ OnlyErasing(mix) /\ \A s \in Slots : Visiting(s)

(* Rows keep their role or go. *)
Fewer == \A k \in Keys : access'[k].role \in {access[k].role, "none"}

LEMMA ErasingOps ==
    ASSUME EraseInv, NEW s \in Slots, pc[s] # "idle"
    PROVE  req[s].op \in {"delete_account", "set_primary", "unassign", "set_code"}
  BY OfTheMix DEF EraseInv, GuardInv, OnlyErasing

LEMMA VisitKept ==
    ASSUME TypeOK, NEW s \in Slots, Visiting(s), Untouched(s), queue'[s] = queue[s], Keeps(s), Fewer
    PROVE  Visiting(s)'
  <1> SUFFICES ASSUME req[s].op = "delete_account" PROVE Visiting(s)'
    BY DEF Untouched, Visiting
  <1>1. req[s].user \in Users
    <2>1. req[s] \in Requests
      BY DEF TypeOK, NoReq
    <2> QED
      BY <2>1 DEF Requests
  <1>2. ASSUME NEW c \in Companies, Settled(s, c) PROVE Settled(s, c)'
    <2>1. CASE \A k \in Members(c) : k[1] = req[s].user
      <3>1. Members(c)' \subseteq Members(c)
        BY DEF Fewer, Members, Present
      <3> QED
        BY <2>1, <3>1 DEF Settled, Untouched
    <2>2. CASE \E k \in Keys : k[2] = c /\ k[1] # req[s].user /\ holder[k] = s /\ access[k].role = "admin"
      BY <2>2 DEF Settled, Untouched, Keeps, Present
    <2> QED
      BY <1>2, <2>1, <2>2 DEF Settled
  <1>3. ASSUME NEW c \in Companies, access'[<<req[s].user, c>>].role = "admin"
        PROVE  access[<<req[s].user, c>>].role = "admin"
    <2>1. <<req[s].user, c>> \in Keys
      BY <1>1 DEF Keys
    <2> QED
      BY <1>3, <2>1 DEF Fewer
  <1>4. \A k \in admins[s] : holder[k] = s /\ access[k].role = "admin"
                             => holder'[k] = s /\ access'[k].role = "admin"
    BY DEF Keeps, Present, TypeOK
  <1> QED
    BY <1>2, <1>3, <1>4 DEF Visiting, Untouched

LEMMA BlankVisit ==
    ASSUME TypeOK, NEW s \in Slots, End(s) PROVE Visiting(s)'
  <1>1. req'[s] = NoReq
    BY DEF End, Forget, TypeOK
  <1> QED
    BY <1>1 DEF Visiting, NoReq

(* What the steps of an erasure keep of the rows. *)
LEMMA VisitReads ==
    ASSUME EraseInv, NEW s \in Slots, Reads(s) PROVE Visiting(s)'
  <1>1. TypeOK /\ Visiting(s) /\ SlotInv(s)
    BY DEF EraseInv, GuardInv
  <1>2. CASE Leave(s)
    BY <1>1, <1>2, BlankVisit DEF Leave
  <1>3. CASE req[s].op # "delete_account" /\ ~Leave(s)
    <2>1. req'[s].op = req[s].op
      BY <1>1, <1>3 DEF Reads, LockTarget, DetachRead, SnapshotAdmins, LockAdmin, LastAdminGuard, DeleteRow,
         PickHeir, GetHeir, SnapshotRows, SweepRow, AttachRead, JoinRead, AssignRead, UnassignRead,
         DeleteAccountRead, DeleteAccountNext, DeleteAccountGuard, locals, TypeOK, Requests, NoReq
    <2> QED
      BY <1>3, <2>1 DEF Visiting
  <1>4. CASE req[s].op = "delete_account" /\ ~Leave(s)
    <2>0. req[s].op = "delete_account" /\ pc[s] \in {"read", "next", "admins", "locking", "rows", "sweep", "finish"}
      BY <1>1, <1>4 DEF Visiting
    <2>u. req[s].user \in Users /\ req[s].company \in Companies /\ UNCHANGED access
      BY <1>1, <1>4, <2>0, TypeFacts, OtherReads
         DEF Reads, LockTarget, DetachRead, SnapshotAdmins, LockAdmin, LastAdminGuard, DeleteRow,
         PickHeir, GetHeir, SnapshotRows, SweepRow, AttachRead, JoinRead, AssignRead, UnassignRead,
         DeleteAccountRead, DeleteAccountNext, DeleteAccountGuard, Leave, tables
    <2>1. \/ SnapshotAdmins(s) \/ LockAdmin(s) \/ SnapshotRows(s) \/ SweepRow(s)
          \/ DeleteAccountRead(s) \/ DeleteAccountNext(s) \/ DeleteAccountGuard(s)
      BY <1>4, <2>0 DEF Reads, LockTarget, DetachRead, LastAdminGuard, DeleteRow, PickHeir, GetHeir,
           AttachRead, JoinRead, AssignRead, UnassignRead
    <2>2. \A c \in Companies : <<req[s].user, c>> \in Keys
      BY <2>u DEF Keys
    <2>3. ASSUME req'[s].user = req[s].user, HoldsOn(s), NEW c \in Companies, Settled(s, c)
          PROVE  Settled(s, c)'
      BY <2>u, <2>3 DEF Settled, Members, Present, HoldsOn
    <2>4. CASE SnapshotAdmins(s)
      <3>1. pc'[s] = "locking" /\ pc[s] = "admins" /\ admins'[s] = {} /\ UNCHANGED <<req, queue, holder>>
        BY <1>1, <2>4 DEF SnapshotAdmins, Goto, TypeOK
      <3> QED
        BY <1>1, <2>0, <2>u, <2>3, <3>1 DEF Visiting, HoldsOn
    <2>5. CASE LockAdmin(s)
      <3>1. pc' = pc /\ pc[s] = "locking" /\ UNCHANGED <<req, queue>>
        BY <2>5 DEF LockAdmin
      <3>2. PICK k \in todo[s] :
              /\ Free(k, s)
              /\ IF access[k].role = "admin"
                 THEN Lock(s, k) /\ admins' = [admins EXCEPT ![s] = @ \cup {k}]
                 ELSE UNCHANGED <<holder, admins>>
        BY <2>5 DEF LockAdmin
      <3>3. k \in Keys /\ k[2] = req[s].company
        BY <1>1, <3>1 DEF SlotInv, Listing, TypeOK
      <3>4. HoldsOn(s)
        BY <1>1, <3>2 DEF HoldsOn, Lock, TypeOK
      <3>5. \A l \in admins'[s] : holder'[l] = s /\ access[l].role = "admin" /\ l[2] = req[s].company
        <4>1. \A l \in admins[s] : l \in Keys /\ holder[l] = s /\ access[l].role = "admin" /\ l[2] = req[s].company
          BY <1>1, <2>0, <3>1 DEF Visiting, TypeOK
        <4>2. CASE access[k].role = "admin"
          BY <1>1, <3>2, <3>3, <3>4, <4>1, <4>2 DEF Lock, HoldsOn, TypeOK
        <4>3. CASE access[k].role # "admin"
          BY <3>2, <4>1, <4>3
        <4> QED
          BY <4>2, <4>3
      <3> QED
        BY <1>1, <2>0, <2>u, <2>3, <3>1, <3>4, <3>5 DEF Visiting
    <2>6. CASE SnapshotRows(s) \/ SweepRow(s)
      <3>1. /\ pc[s] \in {"rows", "sweep"} /\ pc'[s] \in {"sweep", "finish"} /\ UNCHANGED <<req, queue>>
        BY <1>1, <2>6 DEF SnapshotRows, SweepRow, Goto, TypeOK
      <3>2. HoldsOn(s)
        BY <1>1, <2>6 DEF SnapshotRows, SweepRow, HoldsOn, Lock, TypeOK
      <3> QED
        BY <1>1, <2>0, <2>u, <2>3, <3>1, <3>2 DEF Visiting
    <2>7. CASE DeleteAccountRead(s)
      <3>1. /\ pc'[s] = "next" /\ UNCHANGED req
            /\ queue'[s] = {k[2] : k \in {r \in RowsOf(req[s].user) : access[r].role = "admin"}}
        BY <1>1, <2>7 DEF DeleteAccountRead, Goto, TypeOK
      <3>2. ASSUME NEW c \in Companies, access[<<req[s].user, c>>].role = "admin" PROVE c \in queue'[s]
        <4>1. <<req[s].user, c>> \in {r \in RowsOf(req[s].user) : access[r].role = "admin"}
          BY <2>2, <3>2 DEF RowsOf, Present
        <4> QED
          BY <3>1, <4>1
      <3> QED
        BY <2>0, <2>u, <3>1, <3>2 DEF Visiting
    <2>8. CASE DeleteAccountNext(s)
      <3>1. pc[s] = "next" /\ UNCHANGED holder
        BY <2>8 DEF DeleteAccountNext
      <3>2. CASE queue[s] = {}
        <4>1. pc'[s] = "rows" /\ UNCHANGED <<req, queue>>
          BY <1>1, <2>8, <3>2 DEF DeleteAccountNext, Goto, TypeOK
        <4> QED
          BY <1>1, <2>0, <2>u, <2>3, <3>1, <3>2, <4>1 DEF Visiting, HoldsOn
      <3>3. CASE queue[s] # {}
        <4>1. PICK c \in queue[s] : /\ Goto(s, "admins") /\ req' = [req EXCEPT ![s].company = c]
                                    /\ queue' = [queue EXCEPT ![s] = @ \ {c}]
          BY <2>8, <3>3 DEF DeleteAccountNext
        <4>2. req[s] \in Requests
          BY <1>1, <2>0 DEF TypeOK, NoReq
        <4>3. /\ pc'[s] = "admins" /\ queue'[s] = queue[s] \ {c}
              /\ req'[s].company = c /\ req'[s].user = req[s].user /\ req'[s].op = req[s].op
          BY <1>1, <4>1, <4>2 DEF Goto, TypeOK, Requests
        <4>4. ASSUME NEW d \in Companies, access[<<req[s].user, d>>].role = "admin"
              PROVE  d \in queue'[s] \/ d = c \/ Settled(s, d)'
          BY <1>1, <2>0, <2>3, <3>1, <4>3, <4>4 DEF Visiting, HoldsOn
        <4> QED
          BY <2>0, <2>u, <4>3, <4>4 DEF Visiting
      <3> QED
        BY <3>2, <3>3
    <2>9. CASE DeleteAccountGuard(s)
      <3>1. /\ pc[s] = "locking" /\ pc'[s] = "next" /\ UNCHANGED <<req, queue, holder>>
            /\ ~({k \in admins[s] : k[1] # req[s].user} = {}
                 /\ {k \in Members(req[s].company) : k[1] # req[s].user} # {})
        BY <1>1, <1>4, <2>9 DEF DeleteAccountGuard, Goto, TypeOK
      <3>2. Settled(s, req[s].company)
        <4>1. CASE {k \in Members(req[s].company) : k[1] # req[s].user} = {}
          BY <4>1 DEF Settled
        <4>2. CASE {k \in admins[s] : k[1] # req[s].user} # {}
          <5>1. PICK k \in admins[s] : k[1] # req[s].user
            BY <4>2
          <5>2. k \in Keys /\ holder[k] = s /\ access[k].role = "admin" /\ k[2] = req[s].company
            BY <1>1, <2>0, <3>1 DEF Visiting, TypeOK
          <5> QED
            BY <5>1, <5>2 DEF Settled
        <4> QED
          BY <3>1, <4>1, <4>2
      <3> QED
        BY <1>1, <2>0, <2>u, <2>3, <3>1, <3>2 DEF Visiting, HoldsOn
    <2> QED
      BY <2>1, <2>4, <2>5, <2>6, <2>7, <2>8, <2>9
  <1> QED
    BY <1>2, <1>3, <1>4

(* The requests of such a mix only take roles away, and never the last     *)
(* admin from members that stay.                                           *)
ErasureStays == \A c \in Companies : Admins(c) # {} /\ Members(c)' # {} => Admins(c)' # {}

LEMMA SameRoles ==
    ASSUME \A k \in Keys : access'[k].role = access[k].role PROVE Fewer /\ ErasureStays
  BY DEF Fewer, ErasureStays, Admins

LEMMA ErasureFewer ==
    ASSUME EraseInv, NEW s \in Slots, FinishDeleteAccount(s) PROVE Fewer /\ ErasureStays
  <1>1. /\ TypeOK /\ Visiting(s) /\ req[s].op = "delete_account" /\ pc[s] = "finish"
        /\ access' = [r \in Keys |-> IF holder[r] = s /\ r[1] = req[s].user THEN Gone(r) ELSE access[r]]
    BY DEF FinishDeleteAccount, EraseInv, GuardInv
  <1>2. ASSUME NEW k \in Keys, ~(holder[k] = s /\ k[1] = req[s].user) PROVE access'[k] = access[k]
    BY <1>1, <1>2
  <1>3. ASSUME NEW k \in Keys, holder[k] = s, k[1] = req[s].user PROVE access'[k].role = "none"
    <2>1. access'[k] = Gone(k)
      BY <1>1, <1>3
    <2> QED
      BY <2>1 DEF Gone, NoRow
  <1>4. Fewer
    BY <1>2, <1>3 DEF Fewer
  <1>5. ASSUME NEW c \in Companies, Admins(c) # {}, Members(c)' # {} PROVE Admins(c)' # {}
    <2>1. PICK a \in Keys : a[2] = c /\ access[a].role = "admin"
      BY <1>5 DEF Admins
    <2>2. CASE a[1] # req[s].user \/ holder[a] # s
      BY <1>2, <2>1, <2>2 DEF Admins
    <2>3. CASE a[1] = req[s].user /\ holder[a] = s
      <3>1. a = <<req[s].user, c>>
        BY <2>1, <2>3 DEF Keys
      <3>2. Settled(s, c)
        BY <1>1, <2>1, <3>1 DEF Visiting
      <3>3. CASE \E k \in Keys : k[2] = c /\ k[1] # req[s].user /\ holder[k] = s /\ access[k].role = "admin"
        BY <1>2, <3>3 DEF Admins
      <3>4. CASE \A k \in Members(c) : k[1] = req[s].user
        <4>1. PICK m \in Keys : m[2] = c /\ access'[m].role # "none"
          BY <1>5 DEF Members, Present
        <4>2. m \in Members(c)
          BY <1>4, <4>1 DEF Members, Present, Fewer
        <4>3. m = a
          BY <3>1, <3>4, <4>1, <4>2 DEF Keys
        <4> QED
          BY <1>3, <2>3, <4>1, <4>3
      <3> QED
        BY <3>2, <3>3, <3>4 DEF Settled
    <2> QED
      BY <2>2, <2>3
  <1> QED
    BY <1>4, <1>5 DEF ErasureStays

LEMMA ErasingSteps ==
    ASSUME EraseInv, NEW s \in Slots, Reads(s) \/ Finishes(s) \/ Leave(s)
    PROVE  Fewer /\ ErasureStays
  <1>1. TypeOK
    BY DEF EraseInv, GuardInv
  <1>2. CASE UNCHANGED access
    BY <1>2, SameRoles
  <1>3. CASE Reads(s) \/ Leave(s)
    <2>1. UNCHANGED access
      BY <1>3 DEF Reads, LockTarget, DetachRead, SnapshotAdmins, LockAdmin, LastAdminGuard, DeleteRow,
         PickHeir, GetHeir, SnapshotRows, SweepRow, AttachRead, JoinRead, AssignRead, UnassignRead,
         DeleteAccountRead, DeleteAccountNext, DeleteAccountGuard, Leave, tables
    <2> QED
      BY <1>2, <2>1
  <1>4. CASE FinishSetRole(s) \/ FinishRemoval(s) \/ FinishInsert(s)
    <2>1. pc[s] # "idle" /\ req[s].op \in {"set_role", "assign", "boot", "detach", "attach", "join"}
      BY <1>4 DEF FinishSetRole, FinishRemoval, FinishInsert
    <2> QED
      BY <2>1, ErasingOps
  <1>5. CASE FinishAssign(s) \/ FinishUnassign(s)
    BY <1>2, <1>5 DEF FinishAssign, FinishUnassign
  <1>6. CASE FinishSetPrimary(s) /\ ~Leave(s)
    <2>1. access' = [r \in Keys |->
                            IF r = Key(s) THEN [access[r] EXCEPT !.rank = "primary"]
                            ELSE IF holder[r] = s THEN [access[r] EXCEPT !.rank = "other"]
                            ELSE access[r]]
      BY <1>6 DEF FinishSetPrimary
    <2>2. ASSUME NEW k \in Keys PROVE access'[k].role = access[k].role
      <3>1. access[k] \in [role : Roles \cup {"none"}, rank : Ranks]
        BY <1>1 DEF TypeOK, Rows, NoRow, Ranks
      <3> QED
        BY <2>1, <3>1
    <2> QED
      BY <2>2, SameRoles
  <1>7. CASE FinishDeleteAccount(s)
    BY <1>7, ErasureFewer
  <1> QED
    BY <1>3, <1>4, <1>5, <1>6, <1>7 DEF Finishes

LEMMA OtherVisit ==
    ASSUME EraseInv, NEW s \in Slots, NEW t \in Slots, s # t, Reads(t) \/ Finishes(t) \/ Leave(t)
    PROVE  Visiting(s)'
  <1>1. TypeOK /\ Visiting(s) /\ SlotInv(t) /\ Fewer
    BY ErasingSteps DEF EraseInv, GuardInv
  <1>2. CASE Reads(t)
    <2>1. UNCHANGED access /\ Untouched(s) /\ HoldsOn(s)
      BY <1>1, <1>2, OtherReads DEF Reads
    <2>2. queue'[s] = queue[s]
      BY <1>1, <1>2 DEF Reads, LockTarget, DetachRead, SnapshotAdmins, LockAdmin, LastAdminGuard, DeleteRow,
         PickHeir, GetHeir, SnapshotRows, SweepRow, AttachRead, JoinRead, AssignRead, UnassignRead,
         DeleteAccountRead, DeleteAccountNext, DeleteAccountGuard, Leave, End, Forget, locals, TypeOK
    <2>3. Keeps(s)
      BY <2>1 DEF Keeps, HoldsOn
    <2> QED
      BY <1>1, <2>1, <2>2, <2>3, VisitKept
  <1>3. CASE Finishes(t) \/ Leave(t)
    <2>1. End(t)
      BY <1>3, FinishLeaves DEF Leave
    <2>2. queue'[s] = queue[s]
      BY <1>1, <2>1 DEF End, Forget, TypeOK
    <2>3. Untouched(s) /\ Keeps(s)
      <3>1. CASE Finishes(t)
        BY <1>1, <3>1, OtherFinish DEF Finishes
      <3>2. CASE Leave(t)
        BY <1>1, <3>2, LeaveOther DEF Keeps, HoldsOn
      <3> QED
        BY <1>3, <3>1, <3>2
    <2> QED
      BY <1>1, <2>2, <2>3, VisitKept
  <1> QED
    BY <1>2, <1>3

LEMMA RequestVisit ==
    ASSUME EraseInv, NEW s \in Slots, NEW t \in Slots, NEW op, NEW u, NEW c, NEW new,
           Request(t, op, u, c, new)
    PROVE  Visiting(s)'
  <1>1. TypeOK /\ Visiting(s)
    BY DEF EraseInv, GuardInv
  <1>2. UNCHANGED <<access, holder, queue, admins, row, todo>>
    BY DEF Request, tables, locals
  <1>3. CASE s = t
    <2>1. req'[s].op = "delete_account" => pc'[s] = "read"
      BY <1>1, <1>3 DEF Request, FirstStep, Goto, TypeOK
    <2> QED
      BY <2>1 DEF Visiting
  <1>4. CASE s # t
    <2>1. pc'[s] = pc[s] /\ req'[s] = req[s]
      BY <1>1, <1>4 DEF Request, Goto, TypeOK
    <2>2. Untouched(s) /\ Keeps(s) /\ Fewer
      BY <1>2, <2>1 DEF Untouched, Keeps, Fewer
    <2> QED
      BY <1>1, <1>2, <2>2, VisitKept
  <1> QED
    BY <1>3, <1>4

LEMMA EraseNext ==
    ASSUME EraseInv, [MixNext]_<<vars, mix>> PROVE EraseInv' /\ ErasureStays
  <1>1. GuardInv' /\ [Next]_vars /\ UNCHANGED mix
    BY GuardNext DEF EraseInv, MixNext
  <1>2. Within'
    BY DEF MixNext, EraseInv, Within, vars
  <1>3. OnlyErasing(mix)'
    BY <1>1 DEF EraseInv, OnlyErasing
  <1>4. TypeOK /\ \A s \in Slots : Visiting(s)
    BY DEF EraseInv, GuardInv
  <1>5. CASE UNCHANGED <<access, holder, pc, req, locals>>
    <2>1. ErasureStays /\ Fewer
      BY <1>5, SameRoles
    <2>2. \A s \in Slots : Untouched(s) /\ Keeps(s) /\ queue'[s] = queue[s]
      BY <1>5 DEF locals, Untouched, Keeps
    <2> QED
      BY <1>1, <1>2, <1>3, <1>4, <2>1, <2>2, VisitKept DEF EraseInv
  <1>6. ASSUME NEW t \in Slots, NEW op, NEW u, NEW c, NEW new, Request(t, op, u, c, new)
        PROVE  EraseInv' /\ ErasureStays
    <2>1. ErasureStays
      BY <1>6, SameRoles DEF Request, tables
    <2> QED
      BY <1>1, <1>2, <1>3, <1>6, <2>1, RequestVisit DEF EraseInv
  <1>7. ASSUME NEW t \in Slots, Reads(t) \/ Finishes(t) \/ Leave(t) PROVE EraseInv' /\ ErasureStays
    <2>1. ErasureStays
      BY <1>7, ErasingSteps
    <2>2. ASSUME NEW s \in Slots PROVE Visiting(s)'
      <3>1. CASE s # t
        BY <1>7, <3>1, OtherVisit
      <3>2. CASE s = t /\ Reads(t)
        BY <3>2, VisitReads
      <3>3. CASE s = t /\ ~Reads(t)
        BY <1>4, <1>7, <3>3, FinishLeaves, BlankVisit DEF Leave
      <3> QED
        BY <3>1, <3>2, <3>3
    <2> QED
      BY <1>1, <1>2, <1>3, <2>1, <2>2 DEF EraseInv
  <1> QED
    BY <1>1, <1>5, <1>6, <1>7, Steps

(* In a mix where nobody is let in or gets a role, overlapping account     *)
(* deletions never leave members without an admin (DeleteAccountUseCase).  *)
THEOREM ErasureStrandsNoOne ==
    ASSUME \A m \in Mixes : OnlyErasing(m) PROVE MixSpec => NoOneStranded
  <1>1. MixInit => EraseInv
    <2> SUFFICES ASSUME MixInit PROVE EraseInv
      OBVIOUS
    <2>1. GuardInv /\ OnlyErasing(mix)
      BY GuardInit DEF MixInit
    <2>2. \A s \in Slots : req[s] = NoReq
      BY DEF MixInit, Init
    <2>3. Within
      BY DEF MixInit, Init, Within
    <2> QED
      BY <2>1, <2>2, <2>3 DEF EraseInv, Visiting, NoReq
  <1>2. EraseInv /\ [MixNext]_<<vars, mix>> => EraseInv'
    BY EraseNext
  <1>3. EraseInv /\ [MixNext]_<<vars, mix>> => [ErasureStays]_vars
    BY EraseNext
  <1> QED
    BY <1>1, <1>2, <1>3, PTL DEF MixSpec, NoOneStranded, ErasureStays
================================================================================
