---------------------------- MODULE InvitationsProofs ----------------------------
(***************************************************************************)
(* Invitations, for any addresses, people and overlapping requests: one    *)
(* person takes up a link, a link that was taken back lets nobody in, and, *)
(* one request after another, an address has one pending link and what was *)
(* accepted stays accepted.                                                *)
(*                                                                         *)
(* Nothing counts who came in.  What makes it one is the row lock of an    *)
(* acceptance: a row that is being joined through is pending and nobody    *)
(* else's (Locked), and whoever came in before left it other than pending  *)
(* (Taken).  That a status never becomes pending again rests on the ids: a *)
(* new invitation takes the place of none (Counted).                       *)
(***************************************************************************)
EXTENDS Invitations, FiniteSetTheorems, TLAPS

Ops   == {"none", "create", "revoke", "accept"}
Steps == {"idle", "sending", "revoking", "accepting", "joining"}

Typed ==
    /\ serial \in BOOLEAN /\ allowed \in BOOLEAN
    /\ inv \in [Ids -> Invitation \cup {Absent}]
    /\ mailbox \in [People -> Addresses \cup {Absent, "other"}]
    /\ member \subseteq People
    /\ took \in [Ids -> SUBSET People]
    /\ step \in [Slots -> Steps]
    /\ req \in [Slots -> [op : Ops, id : Ids \cup {0}, who : Addresses \cup People \cup {Absent}]]

(* A request is about an invitation that was sent, and by a person. *)
Aimed(s) ==
    /\ step[s] \in {"revoking", "accepting", "joining"} => req[s].id \in Sent
    /\ step[s] \in {"accepting", "joining"} => req[s].who \in People
    /\ step[s] = "sending" => req[s].who \in Addresses /\ req[s].id \in Sent \cup {0}

Counted == \E n \in Nat : n <= MaxInvitations /\ Sent = 1..n

(* The row that a request joins through is locked by it alone, and pending. *)
Locked(s) == step[s] = "joining" =>
    /\ inv[req[s].id].status = "pending"
    /\ \A t \in Slots : step[t] = "joining" /\ req[t].id = req[s].id => t = s

(* Nobody, or one person, came in through an invitation, and it is pending *)
(* no more.                                                                *)
AtMostOne(set) == \A x, y \in set : x = y
Taken(i) == AtMostOne(took[i]) /\ (took[i] # {} => i \in Sent /\ inv[i].status # "pending")

OneAccount == \A p, q \in People : mailbox[p] = mailbox[q] /\ mailbox[p] \in Addresses => p = q

IInv ==
    /\ Typed /\ Counted /\ OneAccount
    /\ \A s \in Slots : Aimed(s) /\ Locked(s)
    /\ \A i \in Ids : Taken(i)

(* One after another: the request in hand is alone, sends next to what was *)
(* pending when it looked, and takes back what is still pending.           *)
Alone(s) == step[s] # "idle" => \A t \in Slots : step[t] # "idle" => t = s
Looked(s) ==
    /\ step[s] \in {"sending", "revoking"} /\ req[s].id # 0 => inv[req[s].id].status = "pending"
    /\ step[s] = "sending" => \A i \in Pending(req[s].who) : i = req[s].id
OneAlive == \A a \in Addresses : AtMostOne(Pending(a))

SerialInv == serial => OneAlive /\ \A s \in Slots : Alone(s) /\ Looked(s)

--------------------------------------------------------------------------------
(* What a request's start leaves behind, and its end.                      *)
LEMMA Begun ==
    ASSUME Typed, NEW s \in Slots, NEW next \in Steps, NEW op \in Ops, NEW id \in Ids \cup {0},
           NEW who \in Addresses \cup People \cup {Absent}, Begin(s, next, op, id, who)
    PROVE  /\ step[s] = "idle" /\ (serial => \A t \in Slots : step[t] = "idle")
           /\ step' \in [Slots -> Steps]
           /\ req' \in [Slots -> [op : Ops, id : Ids \cup {0}, who : Addresses \cup People \cup {Absent}]]
           /\ step'[s] = next /\ req'[s].id = id /\ req'[s].who = who
           /\ \A t \in Slots \ {s} : step'[t] = step[t] /\ req'[t] = req[t]
  BY DEF Begin, Typed

LEMMA Ended ==
    ASSUME Typed, NEW s \in Slots, Done(s)
    PROVE  /\ step' \in [Slots -> Steps]
           /\ req' \in [Slots -> [op : Ops, id : Ids \cup {0}, who : Addresses \cup People \cup {Absent}]]
           /\ step'[s] = "idle"
           /\ \A t \in Slots \ {s} : step'[t] = step[t] /\ req'[t] = req[t]
  BY DEF Done, Typed, NoReq, Steps, Ops

(* Ids are given out in order, so the next one is new. *)
LEMMA NextIsNew ==
    ASSUME Constants, Counted, NextInv \in Ids
    PROVE  NextInv \notin Sent /\ Sent \cup {NextInv} = 1..NextInv /\ NextInv \in Nat \ {0}
  <1>1. PICK n \in Nat : n <= MaxInvitations /\ Sent = 1..n
    BY DEF Counted
  <1>2. Cardinality(1..n) = n
    BY FS_Interval
  <1> QED
    BY <1>1, <1>2 DEF NextInv

LEMMA InitInv == Constants /\ Init => IInv
  <1> SUFFICES ASSUME Constants, Init PROVE IInv
    OBVIOUS
  <1>1. Sent = {}
    BY DEF Init, Sent
  <1>2. Counted
    BY <1>1 DEF Counted, Constants
  <1>3. Typed
    BY DEF Init, Typed, Constants, Steps, Ops, NoReq, Ids
  <1>4. OneAccount
    BY DEF Init, OneAccount, Constants
  <1>5. \A s \in Slots : Aimed(s) /\ Locked(s)
    BY DEF Init, Aimed, Locked
  <1>6. \A i \in Ids : Taken(i)
    BY DEF Init, Taken, AtMostOne
  <1> QED
    BY <1>2, <1>3, <1>4, <1>5, <1>6 DEF IInv

(* A step that leaves the rows alone leaves what they have to do with.     *)
LEMMA RowsKept ==
    ASSUME IInv, UNCHANGED inv
    PROVE  Sent' = Sent /\ Counted'
  BY DEF IInv, Sent, Counted, Ids

LEMMA TakenKept ==
    ASSUME IInv, UNCHANGED <<inv, took>>
    PROVE  \A i \in Ids : Taken(i)'
  BY RowsKept DEF IInv, Taken

(* A request begins that joins nothing yet. *)
LEMMA BeginStep ==
    ASSUME Constants, IInv, NEW s \in Slots, NEW next \in Steps \ {"joining"}, NEW op \in Ops,
           NEW id \in Ids \cup {0}, NEW who \in Addresses \cup People \cup {Absent},
           Begin(s, next, op, id, who), UNCHANGED <<serial, allowed, inv, mailbox, member, took>>,
           next \in {"revoking", "accepting"} => id \in Sent,
           next = "accepting" => who \in People,
           next = "sending" => who \in Addresses /\ id \in Sent \cup {0}
    PROVE  IInv'
  <1>1. Typed
    BY DEF IInv
  <1>2. Typed'
    BY <1>1, Begun DEF Typed
  <1>3. Counted' /\ OneAccount' /\ \A i \in Ids : Taken(i)'
    BY RowsKept, TakenKept DEF IInv, OneAccount
  <1>4. ASSUME NEW t \in Slots PROVE Aimed(t)' /\ Locked(t)'
    <2>1. CASE t = s
      BY <2>1, <1>1, Begun, RowsKept DEF Aimed, Locked
    <2>2. CASE t # s
      <3>1. Aimed(t) /\ Locked(t) /\ step'[t] = step[t] /\ req'[t] = req[t] /\ step'[s] # "joining"
        BY <2>2, <1>1, Begun DEF IInv
      <3>2. \A r \in Slots \ {s} : step'[r] = step[r] /\ req'[r] = req[r]
        BY <1>1, Begun
      <3> QED
        BY <3>1, <3>2, RowsKept DEF Aimed, Locked
    <2> QED
      BY <2>1, <2>2
  <1> QED
    BY <1>2, <1>3, <1>4 DEF IInv

LEMMA NewRequest ==
    ASSUME Constants, IInv, NEW s \in Slots, NEW i \in Ids,
           \/ \E a \in Addresses : CreateInvitation(s, a)
           \/ RevokeInvitation(s, i)
           \/ \E p \in People : AcceptInvitation(s, i, p)
    PROVE  IInv'
  <1>1. ASSUME NEW a \in Addresses, CreateInvitation(s, a) PROVE IInv'
    <2>1. PICK j \in Sent \cup {0} : Begin(s, "sending", "create", j, a)
      BY <1>1 DEF CreateInvitation, Pending
    <2> QED
      BY <1>1, <2>1, BeginStep DEF CreateInvitation, Steps, Ops, Sent
  <1>2. ASSUME RevokeInvitation(s, i) PROVE IInv'
    BY <1>2, BeginStep DEF RevokeInvitation, Steps, Ops
  <1>3. ASSUME NEW p \in People, AcceptInvitation(s, i, p) PROVE IInv'
    BY <1>3, BeginStep DEF AcceptInvitation, Steps, Ops
  <1> QED
    BY <1>1, <1>2, <1>3

--------------------------------------------------------------------------------
(* A request that ends without a trace. *)
LEMMA EndStep ==
    ASSUME Constants, IInv, NEW s \in Slots, Done(s),
           UNCHANGED <<serial, allowed, inv, mailbox, member, took>>
    PROVE  IInv'
  <1>1. Typed
    BY DEF IInv
  <1>2. Typed'
    BY <1>1, Ended DEF Typed
  <1>3. Counted' /\ OneAccount' /\ \A i \in Ids : Taken(i)'
    BY RowsKept, TakenKept DEF IInv, OneAccount
  <1>4. \A r \in Slots \ {s} : step'[r] = step[r] /\ req'[r] = req[r]
    BY <1>1, Ended
  <1>5. ASSUME NEW t \in Slots PROVE Aimed(t)' /\ Locked(t)'
    <2>1. step'[s] = "idle" /\ Aimed(t) /\ Locked(t)
      BY <1>1, Ended DEF IInv
    <2>2. t # s => step'[t] = step[t] /\ req'[t] = req[t]
      BY <1>4
    <2> QED
      BY <2>1, <2>2, <1>4, RowsKept DEF Aimed, Locked
  <1> QED
    BY <1>2, <1>3, <1>5 DEF IInv

(* The row is locked when no acceptance holds it. *)
LEMMA LockStep ==
    ASSUME Constants, IInv, NEW s \in Slots, LockInvitation(s)
    PROVE  IInv'
  <1>1. CASE Done(s)
    BY <1>1, EndStep DEF LockInvitation
  <1>2. CASE step' = [step EXCEPT ![s] = "joining"] /\ req' = req /\ Usable(req[s].id)
    <2>1. Typed
      BY DEF IInv
    <2>2. Typed' /\ UNCHANGED <<serial, allowed, inv, mailbox, member, took>>
      BY <1>2, <2>1 DEF Typed, LockInvitation, Steps
    <2>3. Counted' /\ OneAccount' /\ \A i \in Ids : Taken(i)'
      BY <2>2, RowsKept, TakenKept DEF IInv, OneAccount
    <2>4. step[s] = "accepting" /\ step'[s] = "joining" /\ \A r \in Slots \ {s} : step'[r] = step[r]
      BY <1>2, <2>1 DEF LockInvitation, Typed
    <2>5. \A r \in Slots : step[r] = "joining" => req[r].id # req[s].id
      BY DEF LockInvitation, HeldBy
    <2>6. ASSUME NEW t \in Slots PROVE Aimed(t)'
      BY <1>2, <2>2, <2>4, RowsKept DEF IInv, Aimed
    <2>7. ASSUME NEW t \in Slots PROVE Locked(t)'
      <3>1. Locked(t) /\ Locked(s) /\ inv[req[s].id].status = "pending"
        BY <1>2 DEF IInv, Usable
      <3> QED
        BY <1>2, <2>2, <2>4, <2>5, <3>1 DEF Locked
    <2> QED
      BY <2>2, <2>3, <2>6, <2>7 DEF IInv
  <1> QED
    BY <1>1, <1>2 DEF LockInvitation

(* A row changes its status; what joins through another row is not         *)
(* disturbed, and the row is not pending again.                            *)
LEMMA StatusStep ==
    ASSUME Constants, IInv, NEW s \in Slots, Done(s), NEW i \in Sent,
           NEW status \in {"accepted", "revoked"},
           inv' = [inv EXCEPT ![i].status = status],
           \A t \in Slots : step[t] = "joining" /\ req[t].id = i => t = s,
           UNCHANGED <<serial, allowed>>,
           Typed', OneAccount',
           \A j \in Ids : took'[j] = took[j] \/ (j = i /\ AtMostOne(took'[j]))
    PROVE  IInv'
  <1>1. Typed /\ i \in Ids /\ inv[i] # Absent
    BY DEF IInv, Sent
  <1>2. \A j \in Ids : inv'[j] = IF j = i THEN [inv[i] EXCEPT !.status = status] ELSE inv[j]
    BY <1>1 DEF Typed
  <1>3. inv'[i] \in Invitation /\ inv'[i].status = status
    BY <1>1, <1>2 DEF Typed, Invitation, Statuses
  <1>4. Sent' = Sent
    BY <1>1, <1>2, <1>3 DEF Sent, Constants
  <1>5. Counted'
    BY <1>4 DEF IInv, Counted
  <1>6. ASSUME NEW j \in Ids PROVE Taken(j)'
    <2>1. Taken(j) /\ (took'[j] = took[j] \/ (j = i /\ AtMostOne(took'[j])))
      BY DEF IInv
    <2>2. CASE j = i
      BY <2>1, <2>2, <1>3, <1>4 DEF Taken, AtMostOne
    <2>3. CASE j # i
      BY <2>1, <2>3, <1>2, <1>4 DEF Taken, AtMostOne
    <2> QED
      BY <2>2, <2>3
  <1>7. step'[s] = "idle" /\ \A r \in Slots \ {s} : step'[r] = step[r] /\ req'[r] = req[r]
    BY <1>1, Ended
  <1>8. ASSUME NEW t \in Slots PROVE Aimed(t)' /\ Locked(t)'
    <2>1. Aimed(t) /\ Locked(t)
      BY DEF IInv
    <2>2. CASE t = s
      BY <2>2, <1>7 DEF Aimed, Locked
    <2>3. CASE t # s
      <3>1. step'[t] = step[t] /\ req'[t] = req[t]
        BY <2>3, <1>7
      <3>2. step[t] = "joining" => req[t].id \in Ids /\ req[t].id # i
        BY <2>1, <2>3 DEF Aimed, Sent
      <3>3. Aimed(t)'
        BY <2>1, <3>1, <1>4 DEF Aimed
      <3>4. Locked(t)'
        BY <2>1, <3>1, <3>2, <1>2, <1>7 DEF Locked
      <3> QED
        BY <3>3, <3>4
    <2> QED
      BY <2>2, <2>3
  <1> QED
    BY <1>5, <1>6, <1>8 DEF IInv

LEMMA RevokedStep ==
    ASSUME Constants, IInv, NEW s \in Slots, SaveRevoked(s)
    PROVE  IInv'
  <1>1. Typed /\ req[s].id \in Sent
    BY DEF IInv, Aimed, SaveRevoked
  <1>2. Typed'
    BY <1>1, Ended DEF SaveRevoked, Typed, Invitation, Statuses, Sent
  <1>3. OneAccount' /\ \A t \in Slots : step[t] = "joining" /\ req[t].id = req[s].id => t = s
    BY DEF IInv, OneAccount, SaveRevoked, HeldBy
  <1>4. Done(s) /\ inv' = [inv EXCEPT ![req[s].id].status = "revoked"] /\ UNCHANGED <<serial, allowed, took>>
    BY DEF SaveRevoked
  <1>5. \A j \in Ids : took'[j] = took[j]
    BY <1>4
  <1> QED
    BY <1>1, <1>2, <1>3, <1>4, <1>5, StatusStep

(* Whoever joins is the first, because the row is pending. *)
LEMMA JoinStep ==
    ASSUME Constants, IInv, NEW s \in Slots, JoinProject(s)
    PROVE  IInv'
  <1> DEFINE i == req[s].id
             p == req[s].who
             a == inv[i].address
  <1>1. Typed /\ i \in Sent /\ i \in Ids /\ p \in People /\ inv[i] \in Invitation
    BY DEF IInv, Aimed, JoinProject, Sent, Typed
  <1>2. CASE ~MayTake(p, a)
    BY <1>2, EndStep DEF JoinProject
  <1>3. CASE MayTake(p, a)
    <2>1. /\ mailbox' = IF mailbox[p] = Absent THEN [mailbox EXCEPT ![p] = a] ELSE mailbox
          /\ member' = member \cup {p} /\ inv' = [inv EXCEPT ![i].status = "accepted"]
          /\ took' = [took EXCEPT ![i] = @ \cup {p}] /\ Done(s) /\ UNCHANGED <<serial, allowed>>
      BY <1>3 DEF JoinProject
    <2>2. a \in Addresses
      BY <1>1 DEF Invitation
    <2>3. Typed'
      BY <1>1, <2>1, <2>2, Ended DEF Typed, Invitation, Statuses
    <2>4. OneAccount'
      <3>1. \A q \in People : mailbox'[q] = IF q = p /\ mailbox[p] = Absent THEN a ELSE mailbox[q]
        BY <1>1, <2>1 DEF Typed
      <3>2. \A q \in People : mailbox[q] = a => q = p
        BY <1>3 DEF MayTake, Holder
      <3> QED
        BY <3>1, <3>2 DEF IInv, OneAccount
    <2>5. Locked(s) /\ Taken(i) /\ step[s] = "joining"
      BY <1>1 DEF IInv, JoinProject
    <2>6. took[i] = {}
      BY <2>5 DEF Locked, Taken
    <2>7. \A j \in Ids : took'[j] = took[j] \/ (j = i /\ AtMostOne(took'[j]))
      BY <1>1, <2>1, <2>6 DEF AtMostOne, Typed
    <2>8. \A t \in Slots : step[t] = "joining" /\ req[t].id = i => t = s
      BY <2>5 DEF Locked
    <2> QED
      BY <1>1, <2>1, <2>3, <2>4, <2>7, <2>8, StatusStep
  <1> QED
    BY <1>2, <1>3

(* A new row, pending, and the one it replaces, if any, taken back. *)
LEMMA SendStep ==
    ASSUME Constants, IInv, NEW s \in Slots, SendInvitation(s)
    PROVE  IInv'
  <1> DEFINE n == NextInv
             old == req[s].id
  <1>1. Typed /\ Counted /\ n \in Ids /\ req[s].who \in Addresses /\ old \in Sent \cup {0}
    BY DEF IInv, Aimed, SendInvitation
  <1>2. n \notin Sent /\ Sent \cup {n} = 1..n /\ n \in Nat \ {0}
    BY <1>1, NextIsNew
  <1> HIDE DEF n
  <1>3. \A j \in Ids : inv'[j] = IF j = n THEN [address |-> req[s].who, status |-> "pending", over |-> FALSE]
                                 ELSE IF j = old THEN [inv[j] EXCEPT !.status = "revoked"] ELSE inv[j]
    BY DEF SendInvitation, n
  <1>4. inv'[n] \in Invitation /\ inv'[n].status = "pending"
    <2>1. inv'[n] = [address |-> req[s].who, status |-> "pending", over |-> FALSE]
      BY <1>1, <1>3
    <2>2. req[s].who \in Addresses
      BY <1>1
    <2> QED
      BY <2>1, <2>2 DEF Invitation, Statuses
  <1>5. ASSUME NEW j \in Ids, j # n
        PROVE  /\ inv'[j] = Absent <=> inv[j] = Absent
               /\ j # old => inv'[j] = inv[j]
               /\ j = old => inv'[j] \in Invitation /\ inv'[j].status = "revoked"
    <2>1. j # old => inv'[j] = inv[j]
      BY <1>3, <1>5
    <2>2. j = old => inv'[j] = [inv[j] EXCEPT !.status = "revoked"]
      BY <1>3, <1>5
    <2>3. j = old => inv[j] # Absent
      BY <1>1 DEF Sent, Ids
    <2>4. inv[j] \in Invitation \cup {Absent}
      BY <1>1 DEF Typed
    <2>5. j = old => inv'[j] \in Invitation /\ inv'[j].status = "revoked"
      BY <2>2, <2>3, <2>4 DEF Invitation, Statuses
    <2> QED
      BY <2>1, <2>3, <2>5 DEF Constants
  <1>6. Sent' = Sent \cup {n}
    <2>1. inv'[n] # Absent
      BY <1>4 DEF Constants
    <2>2. \A j \in Ids \ {n} : inv'[j] = Absent <=> inv[j] = Absent
      BY <1>5
    <2>3. Sent' = {j \in Ids : inv'[j] # Absent}
      BY DEF Sent, Ids
    <2> QED
      BY <1>1, <2>1, <2>2, <2>3 DEF Sent
  <1>7. Counted'
    BY <1>1, <1>2, <1>6 DEF Counted, Ids
  <1>8. Done(s) /\ UNCHANGED <<serial, allowed, mailbox, member, took>>
    BY DEF SendInvitation
  <1>9. step'[s] = "idle" /\ \A r \in Slots \ {s} : step'[r] = step[r] /\ req'[r] = req[r]
    BY <1>1, <1>8, Ended
  <1>10. Typed'
    <2>1. inv' = [j \in Ids |-> inv'[j]]
      BY DEF SendInvitation, Ids
    <2>2. \A j \in Ids : inv'[j] \in Invitation \cup {Absent}
      BY <1>1, <1>4, <1>5 DEF Typed
    <2>3. inv' \in [Ids -> Invitation \cup {Absent}]
      BY <2>1, <2>2
    <2> QED
      BY <1>1, <1>8, <2>3, Ended DEF Typed
  <1>11. OneAccount'
    BY <1>8 DEF IInv, OneAccount
  <1>12. ASSUME NEW j \in Ids PROVE Taken(j)'
    <2>1. Taken(j) /\ took'[j] = took[j]
      BY <1>8 DEF IInv
    <2>2. j = n => took[j] = {}
      BY <1>2, <2>1 DEF Taken
    <2>3. j # n => (j = old => inv'[j].status = "revoked") /\ (j # old => inv'[j] = inv[j])
      BY <1>5
    <2> QED
      BY <1>6, <2>1, <2>2, <2>3 DEF Taken, AtMostOne
  <1>13. ASSUME NEW t \in Slots PROVE Aimed(t)' /\ Locked(t)'
    <2>1. Aimed(t) /\ Locked(t)
      BY DEF IInv
    <2>2. CASE t = s
      BY <2>2, <1>9 DEF Aimed, Locked
    <2>3. CASE t # s
      <3>1. step'[t] = step[t] /\ req'[t] = req[t]
        BY <2>3, <1>9
      <3>2. Aimed(t)'
        BY <2>1, <3>1, <1>6 DEF Aimed
      <3>3. step[t] = "joining" => req[t].id \in Sent /\ req[t].id # n /\ req[t].id # old
        BY <1>2, <2>1 DEF Aimed, SendInvitation, HeldBy, Sent, Ids
      <3>4. step[t] = "joining" => inv'[req[t].id] = inv[req[t].id]
        BY <1>5, <3>3 DEF Sent
      <3> QED
        BY <2>1, <3>1, <3>2, <3>4, <1>9 DEF Locked
    <2> QED
      BY <2>2, <2>3
  <1> QED
    BY <1>7, <1>10, <1>11, <1>12, <1>13 DEF IInv

(* What happens outside the requests: an account of the address joins, a   *)
(* link lapses, the inviter's right changes.                               *)
LEMMA OutsideStep ==
    ASSUME Constants, IInv,
           \/ \E a \in Addresses : AddDirectly(a)
           \/ \E i \in Ids : Lapse(i)
           \/ InviterChanges
    PROVE  IInv'
  <1>1. Typed
    BY DEF IInv
  <1>2. UNCHANGED <<serial, mailbox, step, req, took>>
    BY DEF AddDirectly, Lapse, InviterChanges
  <1>3. \A j \in Ids : inv'[j] = inv[j] \/ (inv[j] \in Invitation /\ inv'[j] = [inv[j] EXCEPT !.over = TRUE])
    BY <1>1 DEF AddDirectly, Lapse, InviterChanges, Typed, Sent
  <1>4. \A j \in Ids : (inv'[j] = Absent <=> inv[j] = Absent) /\ inv'[j] \in Invitation \cup {Absent}
                      /\ (inv[j] # Absent => inv'[j].status = inv[j].status)
    <2> TAKE j \in Ids
    <2>1. CASE inv'[j] = inv[j]
      BY <1>1, <2>1 DEF Typed
    <2>2. CASE inv[j] \in Invitation /\ inv'[j] = [inv[j] EXCEPT !.over = TRUE]
      <3>1. inv'[j] \in Invitation /\ inv'[j].status = inv[j].status
        BY <2>2 DEF Invitation
      <3> QED
        BY <2>2, <3>1 DEF Constants
    <2> QED
      BY <1>3, <2>1, <2>2
  <1>5. Sent' = Sent
    BY <1>4 DEF Sent, Ids
  <1>6. Typed'
    <2>1. inv' \in [Ids -> Invitation \cup {Absent}]
      <3>1. inv' = [j \in Ids |-> inv'[j]]
        BY <1>1 DEF AddDirectly, Lapse, InviterChanges, Typed
      <3> QED
        BY <1>4, <3>1
    <2>2. allowed' \in BOOLEAN /\ member' \subseteq People
      BY <1>1 DEF AddDirectly, Lapse, InviterChanges, Typed, Holder
    <2> QED
      BY <1>1, <1>2, <2>1, <2>2 DEF Typed
  <1>7. Counted' /\ OneAccount'
    BY <1>2, <1>5 DEF IInv, Counted, OneAccount
  <1>8. \A j \in Ids : Taken(j)'
    BY <1>2, <1>4, <1>5 DEF IInv, Taken, AtMostOne, Sent
  <1>9. \A t \in Slots : Aimed(t)' /\ Locked(t)'
    BY <1>2, <1>4, <1>5 DEF IInv, Aimed, Locked, Sent
  <1> QED
    BY <1>6, <1>7, <1>8, <1>9 DEF IInv

LEMMA NextInvariant == Constants /\ IInv /\ [Next]_vars => IInv'
  <1> SUFFICES ASSUME Constants, IInv, [Next]_vars PROVE IInv'
    OBVIOUS
  <1>1. CASE UNCHANGED vars
    <2>1. Sent' = Sent /\ Counted' /\ \A i \in Ids : Taken(i)'
      BY <1>1, RowsKept, TakenKept DEF vars
    <2> QED
      BY <1>1, <2>1 DEF vars, IInv, Typed, OneAccount, Aimed, Locked
  <1>2. ASSUME NEW s \in Slots, SendInvitation(s) \/ SaveRevoked(s) \/ LockInvitation(s) \/ JoinProject(s)
        PROVE  IInv'
    BY <1>2, SendStep, RevokedStep, LockStep, JoinStep
  <1>3. ASSUME NEW s \in Slots, NEW a \in Addresses, CreateInvitation(s, a) PROVE IInv'
    BY <1>3, NewRequest DEF CreateInvitation
  <1>4. ASSUME NEW s \in Slots, NEW i \in Ids, RevokeInvitation(s, i) PROVE IInv'
    BY <1>4, NewRequest
  <1>5. ASSUME NEW s \in Slots, NEW i \in Ids, NEW p \in People, AcceptInvitation(s, i, p) PROVE IInv'
    BY <1>5, NewRequest
  <1> QED
    BY <1>1, <1>2, <1>3, <1>4, <1>5, OutsideStep DEF Next

(* The inductive invariant: the row lock of an acceptance and the order in  *)
(* which ids are given out, whatever requests overlap.                      *)
THEOREM InvitationsInvariant == ASSUME Constants PROVE Spec => []IInv
  BY InitInv, NextInvariant, PTL DEF Spec

--------------------------------------------------------------------------------
(* What has no two members has at most one.                                 *)
LEMMA SmallSets ==
    ASSUME NEW set, AtMostOne(set)
    PROVE  Cardinality(set) <= 1
  <1>1. CASE set = {}
    BY <1>1, FS_EmptySet
  <1>2. ASSUME NEW x \in set PROVE Cardinality(set) <= 1
    <2>1. set = {x}
      BY <1>2 DEF AtMostOne
    <2> QED
      BY <2>1, FS_Singleton
  <1> QED
    BY <1>1, <1>2

(* Whoever follows the same link at the same time, one person comes in      *)
(* through it, and an address stays one account's.                          *)
THEOREM OnePersonEach == ASSUME Constants PROVE Spec => []OneEach
  <1>1. IInv => OneEach
    <2> SUFFICES ASSUME IInv PROVE OneEach
      OBVIOUS
    <2>1. \A i \in Ids : Cardinality(took[i]) <= 1
      BY SmallSets DEF IInv, Taken
    <2>2. ASSUME NEW a \in Addresses PROVE Cardinality(Holder(a)) <= 1
      <3>1. AtMostOne(Holder(a))
        BY DEF IInv, OneAccount, Holder, AtMostOne
      <3> QED
        BY <3>1, SmallSets
    <2> QED
      BY <2>1, <2>2 DEF OneEach
  <1> QED
    BY <1>1, InvitationsInvariant, PTL

(* The only step that lets somebody in is through a pending row.            *)
LEMMA JoiningIsPending ==
    ASSUME IInv, [Next]_vars
    PROVE  NobodyThroughRevoked
  <1>1. CASE UNCHANGED took
    BY <1>1 DEF NobodyThroughRevoked
  <1>2. ASSUME NEW s \in Slots, JoinProject(s) PROVE NobodyThroughRevoked
    <2>1. inv[req[s].id].status = "pending" /\ took \in [Ids -> SUBSET People]
      BY <1>2 DEF IInv, Locked, JoinProject, Typed
    <2>2. \A i \in Ids : i # req[s].id => took'[i] = took[i]
      BY <1>2, <2>1 DEF JoinProject
    <2> QED
      BY <2>1, <2>2 DEF NobodyThroughRevoked
  <1> QED
    BY <1>1, <1>2 DEF Next, vars, AddDirectly, CreateInvitation, RevokeInvitation, AcceptInvitation,
                      SendInvitation, SaveRevoked, LockInvitation, Lapse, InviterChanges

(* A link that was taken back or replaced lets nobody in, whatever overlaps. *)
THEOREM RevokedLetsNobodyIn == ASSUME Constants PROVE Spec => TakenBackIsDead
  <1>1. IInv /\ [Next]_vars => [NobodyThroughRevoked]_vars
    BY JoiningIsPending
  <1> QED
    BY <1>1, InvitationsInvariant, PTL DEF Spec, TakenBackIsDead

--------------------------------------------------------------------------------
(* One request after another: what follows rests on the invariant, and on   *)
(* the request in hand being the only one.                                  *)
LEMMA PendingKept ==
    ASSUME NEW a,
           \A j \in Ids : (inv'[j] = Absent <=> inv[j] = Absent)
               /\ (inv[j] # Absent => inv'[j].status = inv[j].status /\ inv'[j].address = inv[j].address)
    PROVE  Pending(a)' = Pending(a)
  BY DEF Pending, Sent, Ids

LEMMA SerialInit == Init => SerialInv
  BY DEF Init, SerialInv, OneAlive, AtMostOne, Pending, Sent, Alone, Looked

(* Where the request ends, none is left; where it begins, none was there.   *)
LEMMA SerialEnds ==
    ASSUME IInv, serial => SerialInv, NEW s \in Slots, step[s] # "idle", Done(s), UNCHANGED serial,
           serial => OneAlive'
    PROVE  SerialInv'
  <1> SUFFICES ASSUME serial PROVE \A t \in Slots : Alone(t)' /\ Looked(t)'
    BY DEF SerialInv
  <1>1. Typed
    BY DEF IInv
  <1>2. \A t \in Slots : step'[t] = "idle"
    BY <1>1, Ended DEF SerialInv, Alone
  <1> QED
    BY <1>2 DEF Alone, Looked

LEMMA SerialBegins ==
    ASSUME IInv, SerialInv, NEW s \in Slots, NEW i \in Ids,
           \/ \E a \in Addresses : CreateInvitation(s, a)
           \/ RevokeInvitation(s, i)
           \/ \E p \in People : AcceptInvitation(s, i, p)
    PROVE  SerialInv'
  <1> SUFFICES ASSUME serial PROVE SerialInv'
    BY DEF SerialInv, CreateInvitation, RevokeInvitation, AcceptInvitation
  <1>1. Typed /\ UNCHANGED inv
    BY DEF IInv, CreateInvitation, RevokeInvitation, AcceptInvitation
  <1>2. \A a : Pending(a)' = Pending(a)
    BY <1>1 DEF Pending, Sent, Ids
  <1>3. OneAlive'
    BY <1>2 DEF OneAlive, SerialInv
  <1>4. ASSUME NEW next \in {"sending", "revoking", "accepting"}, NEW op \in Ops, NEW id \in Ids \cup {0},
               NEW who \in Addresses \cup People \cup {Absent}, Begin(s, next, op, id, who), UNCHANGED serial,
               next \in {"sending", "revoking"} /\ id # 0 => inv[id].status = "pending",
               next = "sending" => \A j \in Pending(who) : j = id
        PROVE  SerialInv'
    <2>1. step'[s] = next /\ req'[s].id = id /\ req'[s].who = who /\ \A t \in Slots \ {s} : step'[t] = "idle"
      BY <1>1, <1>4, Begun DEF Steps
    <2>2. \A t \in Slots : Alone(t)'
      BY <2>1 DEF Alone
    <2>3. \A t \in Slots : Looked(t)'
      BY <1>1, <1>2, <1>4, <2>1 DEF Looked
    <2> QED
      BY <1>3, <2>2, <2>3 DEF SerialInv
  <1>5. ASSUME NEW a \in Addresses, CreateInvitation(s, a) PROVE SerialInv'
    <2>1. PICK j \in (IF Pending(a) = {} THEN {0} ELSE Pending(a)) : Begin(s, "sending", "create", j, a)
      BY <1>5 DEF CreateInvitation
    <2>2. AtMostOne(Pending(a)) /\ Pending(a) \subseteq Ids
      BY DEF SerialInv, OneAlive, Pending, Sent
    <2>3. \A k \in Pending(a) : k = j
      BY <2>1, <2>2 DEF AtMostOne
    <2>4. j # 0 => inv[j].status = "pending"
      BY <2>1 DEF Pending
    <2>5. UNCHANGED serial /\ j \in Ids \cup {0} /\ "create" \in Ops
      BY <1>5, <2>1, <2>2 DEF CreateInvitation, Ops
    <2> QED
      BY <2>1, <2>3, <2>4, <2>5, <1>4
  <1>6. ASSUME RevokeInvitation(s, i) PROVE SerialInv'
    BY <1>6, <1>4 DEF RevokeInvitation, Ops
  <1>7. ASSUME NEW p \in People, AcceptInvitation(s, i, p) PROVE SerialInv'
    BY <1>7, <1>4 DEF AcceptInvitation, Ops
  <1> QED
    BY <1>5, <1>6, <1>7

(* The one pending link of an address is the one just sent. *)
LEMMA SentIsAlive ==
    ASSUME Constants, IInv, SerialInv, serial, NEW s \in Slots, SendInvitation(s)
    PROVE  OneAlive'
  <1> DEFINE n == NextInv
             old == req[s].id
  <1> SUFFICES ASSUME NEW a \in Addresses, NEW x \in Pending(a)', NEW y \in Pending(a)' PROVE x = y
    BY DEF OneAlive, AtMostOne
  <1>1. Typed /\ n \in Ids /\ n \notin Sent
    BY NextIsNew DEF IInv, SendInvitation
  <1> HIDE DEF n
  <1>2. \A j \in Ids : inv'[j] = IF j = n THEN [address |-> req[s].who, status |-> "pending", over |-> FALSE]
                                 ELSE IF j = old THEN [inv[j] EXCEPT !.status = "revoked"] ELSE inv[j]
    BY DEF SendInvitation, n
  <1>3. \A j \in Pending(a)' : j \in Ids /\ inv'[j] # Absent /\ inv'[j].address = a /\ inv'[j].status = "pending"
    BY DEF Pending, Sent, Ids
  <1>4. \A j \in Pending(a)' : j # n => j # old /\ j \in Pending(a)
    <2> SUFFICES ASSUME NEW j \in Pending(a)', j # n PROVE j # old /\ j \in Pending(a)
      OBVIOUS
    <2>1. CASE j = old
      <3>1. inv'[j] = [inv[j] EXCEPT !.status = "revoked"] /\ inv[j] \in Invitation \cup {Absent}
        BY <1>1, <1>2, <1>3, <2>1 DEF Typed
      <3>2. inv[j] # Absent
        <4>1. old \in Sent \cup {0}
          BY DEF IInv, Aimed, SendInvitation
        <4>2. j \in Ids /\ 0 \notin Ids
          BY <1>3 DEF Ids
        <4> QED
          BY <2>1, <4>1, <4>2 DEF Sent
      <3>3. inv'[j].status = "revoked"
        BY <3>1, <3>2 DEF Invitation
      <3> QED
        BY <1>3, <3>3
    <2>2. CASE j # old
      BY <1>2, <1>3, <2>2 DEF Pending, Sent
    <2> QED
      BY <2>1, <2>2
  <1>5. a = req[s].who => \A j \in Pending(a) : j = old
    BY DEF SerialInv, Looked, SendInvitation
  <1>6. n \in Pending(a)' => a = req[s].who
    <2>1. inv'[n] = [address |-> req[s].who, status |-> "pending", over |-> FALSE]
      BY <1>1, <1>2
    <2> QED
      BY <1>3, <2>1
  <1>7. AtMostOne(Pending(a))
    BY DEF SerialInv, OneAlive
  <1> QED
    BY <1>4, <1>5, <1>6, <1>7 DEF AtMostOne

LEMMA SerialNext == Constants /\ IInv /\ SerialInv /\ [Next]_vars => SerialInv'
  <1> SUFFICES ASSUME Constants, IInv, SerialInv, [Next]_vars PROVE SerialInv'
    OBVIOUS
  <1>1. Typed
    BY DEF IInv
  <1>2. CASE UNCHANGED <<serial, step, req>> /\ \A a : Pending(a)' = Pending(a)
             /\ \A j \in Sent : inv'[j].status = inv[j].status
    <2>1. ASSUME serial, NEW t \in Slots PROVE Alone(t)' /\ Looked(t)'
      BY <1>2, <2>1 DEF SerialInv, IInv, Aimed, Alone, Looked
    <2> QED
      BY <1>2, <2>1 DEF SerialInv, OneAlive
  <1>3. CASE UNCHANGED <<serial, inv, step, req>>
    BY <1>2, <1>3, PendingKept
  <1>4. ASSUME NEW i \in Ids, Lapse(i) PROVE SerialInv'
    <2>1. \A j \in Ids : (inv'[j] = Absent <=> inv[j] = Absent)
             /\ (inv[j] # Absent => inv'[j].status = inv[j].status /\ inv'[j].address = inv[j].address)
      <3> TAKE j \in Ids
      <3>1. CASE j # i
        BY <1>1, <1>4, <3>1 DEF Lapse, Typed
      <3>2. CASE j = i
        <4>1. inv[i] \in Invitation /\ inv'[i] = [inv[i] EXCEPT !.over = TRUE]
          BY <1>1, <1>4 DEF Lapse, Typed, Sent
        <4>2. inv'[i] \in Invitation /\ inv'[i].status = inv[i].status /\ inv'[i].address = inv[i].address
          BY <4>1 DEF Invitation
        <4> QED
          BY <3>2, <4>1, <4>2 DEF Constants
      <3> QED
        BY <3>1, <3>2
    <2>2. UNCHANGED <<serial, step, req>>
      BY <1>4 DEF Lapse
    <2> QED
      BY <1>2, <2>1, <2>2, PendingKept DEF Sent
  <1>5. ASSUME NEW s \in Slots, step[s] # "idle", Done(s), UNCHANGED serial, NEW i \in Sent,
               NEW status \in {"accepted", "revoked"}, inv' = [inv EXCEPT ![i].status = status]
        PROVE  SerialInv'
    <2>1. \A a : Pending(a)' \subseteq Pending(a)
      <3> SUFFICES ASSUME NEW a, NEW j \in Pending(a)' PROVE j \in Pending(a)
        OBVIOUS
      <3>1. j \in Ids /\ inv'[j] # Absent /\ inv'[j].address = a /\ inv'[j].status = "pending"
        BY DEF Pending, Sent, Ids
      <3>2. j = i => inv'[j].status = status
        BY <1>1, <1>5 DEF Typed, Sent, Invitation
      <3>3. j # i => inv'[j] = inv[j]
        BY <1>1, <1>5, <3>1 DEF Typed
      <3> QED
        BY <3>1, <3>2, <3>3 DEF Pending, Sent
    <2>2. serial => OneAlive'
      BY <2>1 DEF SerialInv, OneAlive, AtMostOne
    <2> QED
      BY <1>5, <2>2, SerialEnds
  <1>6. ASSUME NEW s \in Slots, step[s] # "idle", Done(s), UNCHANGED <<serial, inv>> PROVE SerialInv'
    <2>1. serial => OneAlive'
      BY <1>6, PendingKept DEF SerialInv, OneAlive
    <2> QED
      BY <1>6, <2>1, SerialEnds
  <1>7. ASSUME NEW s \in Slots, SendInvitation(s) PROVE SerialInv'
    BY <1>7, SentIsAlive, SerialEnds DEF SendInvitation
  <1>8. ASSUME NEW s \in Slots, SaveRevoked(s) PROVE SerialInv'
    BY <1>5, <1>8 DEF SaveRevoked, IInv, Aimed
  <1>9. ASSUME NEW s \in Slots, JoinProject(s) PROVE SerialInv'
    <2>1. req[s].id \in Sent /\ step[s] # "idle" /\ Done(s) /\ UNCHANGED serial
      BY <1>9 DEF JoinProject, IInv, Aimed
    <2>2. CASE inv' = [inv EXCEPT ![req[s].id].status = "accepted"]
      BY <1>5, <2>1, <2>2
    <2>3. CASE UNCHANGED inv
      BY <1>6, <2>1, <2>3
    <2> QED
      BY <1>9, <2>2, <2>3 DEF JoinProject
  <1>10. ASSUME NEW s \in Slots, LockInvitation(s) PROVE SerialInv'
    <2>1. CASE Done(s)
      BY <1>6, <1>10, <2>1 DEF LockInvitation
    <2>2. CASE step' = [step EXCEPT ![s] = "joining"] /\ UNCHANGED <<serial, inv, req>>
      <3>1. \A a : Pending(a)' = Pending(a)
        BY <2>2, PendingKept
      <3>2. step'[s] = "joining" /\ step[s] # "idle" /\ \A t \in Slots \ {s} : step'[t] = step[t]
        BY <1>1, <1>10, <2>2 DEF Typed, LockInvitation
      <3>3. ASSUME serial, NEW t \in Slots PROVE Alone(t)' /\ Looked(t)'
        BY <2>2, <3>1, <3>2, <3>3 DEF SerialInv, Alone, Looked
      <3> QED
        BY <2>2, <3>1, <3>3 DEF SerialInv, OneAlive
    <2> QED
      BY <1>10, <2>1, <2>2 DEF LockInvitation
  <1>11. ASSUME NEW s \in Slots, NEW a \in Addresses, CreateInvitation(s, a) PROVE SerialInv'
    BY <1>11, SerialBegins DEF CreateInvitation
  <1>12. ASSUME NEW s \in Slots, NEW i \in Ids, RevokeInvitation(s, i) PROVE SerialInv'
    BY <1>12, SerialBegins
  <1>13. ASSUME NEW s \in Slots, NEW i \in Ids, NEW p \in People, AcceptInvitation(s, i, p) PROVE SerialInv'
    BY <1>13, SerialBegins
  <1>14. CASE InviterChanges \/ \E a \in Addresses : AddDirectly(a)
    BY <1>3, <1>14 DEF InviterChanges, AddDirectly
  <1>15. CASE UNCHANGED vars
    BY <1>3, <1>15 DEF vars
  <1> QED
    BY <1>4, <1>7, <1>8, <1>9, <1>10, <1>11, <1>12, <1>13, <1>14, <1>15 DEF Next

(* What holds besides when requests come one after another.                 *)
THEOREM SerialInvariant == ASSUME Constants PROVE Spec => []SerialInv
  BY SerialInit, SerialNext, InvitationsInvariant, PTL DEF Spec

(* One request after another, at most one link to an address is alive.      *)
THEOREM OneLink == ASSUME Constants PROVE Spec => []OneLinkAlive
  <1>1. SerialInv => OneLinkAlive
    BY SmallSets DEF SerialInv, OneAlive, OneLinkAlive
  <1> QED
    BY <1>1, SerialInvariant, PTL

(* "The first commit wins", of whoever follows a link, and of the links to  *)
(* an address: for any people, addresses and overlapping requests.          *)
THEOREM FirstCommitWins == ASSUME Constants PROVE Spec => []OneTakesItUp
  BY OnePersonEach, OneLink, PTL DEF OneTakesItUp

(* What is taken back or replaced was pending when it was looked at, and    *)
(* nothing came in between.                                                 *)
LEMMA StatusStays ==
    ASSUME Constants, IInv, SerialInv, serial, [Next]_vars
    PROVE  StatusKept
  <1> SUFFICES ASSUME NEW i \in Ids, inv[i] # Absent, inv[i].status = "accepted" PROVE inv'[i].status = "accepted"
    BY DEF StatusKept
  <1>1. Typed /\ inv[i] \in Invitation /\ i \in Sent
    BY DEF IInv, Typed, Sent
  <1>2. CASE inv'[i] = inv[i]
    BY <1>2
  <1>3. ASSUME NEW s \in Slots, SendInvitation(s) PROVE inv'[i].status = "accepted"
    <2>1. i # NextInv /\ i # req[s].id
      BY <1>1, <1>3, NextIsNew DEF IInv, SerialInv, Looked, SendInvitation, Ids
    <2> QED
      BY <1>3, <2>1 DEF SendInvitation
  <1>4. ASSUME NEW s \in Slots, SaveRevoked(s) PROVE inv'[i].status = "accepted"
    <2>1. i # req[s].id
      BY <1>1, <1>4 DEF SerialInv, Looked, SaveRevoked, Ids
    <2> QED
      BY <1>1, <1>4, <2>1 DEF SaveRevoked, Typed
  <1>5. ASSUME NEW s \in Slots, JoinProject(s) PROVE inv'[i].status = "accepted"
    BY <1>1, <1>5 DEF JoinProject, Typed, Invitation
  <1>6. ASSUME NEW j \in Ids, Lapse(j) PROVE inv'[i].status = "accepted"
    BY <1>1, <1>6 DEF Lapse, Typed, Invitation
  <1> QED
    BY <1>2, <1>3, <1>4, <1>5, <1>6 DEF Next, vars, AddDirectly, CreateInvitation, RevokeInvitation,
                                        AcceptInvitation, LockInvitation, InviterChanges

(* A link that was taken back lets nobody in, whatever overlaps; one        *)
(* request after another, what was accepted stays accepted.                 *)
THEOREM AcceptedStaysAccepted == ASSUME Constants PROVE Spec => AcceptedStays
  <1> DEFINE Kept == NobodyThroughRevoked /\ (serial => StatusKept)
  <1>1. ASSUME IInv, SerialInv, [Next]_vars PROVE [Kept]_ledger
    BY <1>1, JoiningIsPending, StatusStays
  <1> QED
    BY <1>1, InvitationsInvariant, SerialInvariant, PTL DEF Spec, AcceptedStays
================================================================================
