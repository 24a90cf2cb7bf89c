------------------------------ MODULE Invitations ------------------------------
(***************************************************************************)
(* Invitations to a project by e-mail: a link per invitation, taken up by  *)
(* whoever proves a phone number, and taken back or replaced meanwhile.    *)
(*                                                                         *)
(* Accepting checks the invitation once without a lock, and again under a  *)
(* row lock that it keeps until its commit.  Revoking and re-sending read  *)
(* the row without a lock and write its status back.                       *)
(***************************************************************************)
EXTENDS Integers, FiniteSets, InvitationLedger

CONSTANTS
    Slots,
    Serial        \* a set of Booleans: requests one after another, or overlapping

VARIABLES
    allowed,      \* whether the inviter still holds project:invite
    member,       \* user_projects: who is on the project
    step, req     \* per slot

vars == <<serial, allowed, inv, mailbox, member, step, req, took>>

--------------------------------------------------------------------------------
NextInv  == Cardinality(Sent) + 1
Usable(i) == inv[i].status = "pending" /\ ~inv[i].over
NoReq    == [op |-> "none", id |-> 0, who |-> Absent]

(* What the constants are: Absent is neither an invitation nor an address, *)
(* and an account may have an address that nobody invites.                 *)
Constants ==
    /\ MaxInvitations \in Nat /\ Serial \subseteq BOOLEAN
    /\ Absent \notin Invitation /\ Absent \notin Addresses /\ "other" \notin Addresses

Begin(s, next, op, id, who) ==
    /\ step[s] = "idle"
    /\ serial => \A t \in Slots : step[t] = "idle"
    /\ step' = [step EXCEPT ![s] = next]
    /\ req' = [req EXCEPT ![s] = [op |-> op, id |-> id, who |-> who]]
Done(s) == step' = [step EXCEPT ![s] = "idle"] /\ req' = [req EXCEPT ![s] = NoReq]

HeldBy(i) == {s \in Slots : step[s] = "joining" /\ req[s].id = i}

--------------------------------------------------------------------------------
(* Sending: an account of the address is put on the project at once, else  *)
(* the pending invitation is looked up, then revoked with the new one.     *)
AddDirectly(a) ==
    /\ allowed
    /\ serial => \A t \in Slots : step[t] = "idle"
    /\ Holder(a) # {}
    /\ member' = member \cup Holder(a)
    /\ UNCHANGED <<serial, allowed, inv, mailbox, step, req, took>>

CreateInvitation(s, a) ==
    /\ allowed /\ Holder(a) = {} /\ NextInv \in Ids
    /\ \E i \in (IF Pending(a) = {} THEN {0} ELSE Pending(a)) : Begin(s, "sending", "create", i, a)
    /\ UNCHANGED <<serial, allowed, inv, mailbox, member, took>>

SendInvitation(s) ==
    /\ step[s] = "sending" /\ NextInv \in Ids
    /\ req[s].id = 0 \/ HeldBy(req[s].id) = {}
    /\ inv' = [i \in Ids |->
           IF i = NextInv THEN [address |-> req[s].who, status |-> "pending", over |-> FALSE]
           ELSE IF i = req[s].id THEN [inv[i] EXCEPT !.status = "revoked"] ELSE inv[i]]
    /\ Done(s)
    /\ UNCHANGED <<serial, allowed, mailbox, member, took>>

(* Mutant: an invitation is revoked whatever became of it. *)
RevokeAny(s, i) ==
    /\ i \in Sent
    /\ Begin(s, "revoking", "revoke", i, Absent)
    /\ UNCHANGED <<serial, allowed, inv, mailbox, member, took>>

RevokeInvitation(s, i) ==
    /\ i \in Sent /\ inv[i].status = "pending"
    /\ Begin(s, "revoking", "revoke", i, Absent)
    /\ UNCHANGED <<serial, allowed, inv, mailbox, member, took>>

SaveRevoked(s) ==
    /\ step[s] = "revoking" /\ HeldBy(req[s].id) = {}
    /\ inv' = [inv EXCEPT ![req[s].id].status = "revoked"]
    /\ Done(s)
    /\ UNCHANGED <<serial, allowed, mailbox, member, took>>

(* The seven days are over. *)
Lapse(i) ==
    /\ i \in Sent /\ ~inv[i].over
    /\ inv' = [inv EXCEPT ![i].over = TRUE]
    /\ UNCHANGED <<serial, allowed, mailbox, member, step, req, took>>

(* The right of the inviter ends, or is given back. *)
InviterChanges ==
    /\ allowed' = ~allowed
    /\ UNCHANGED <<serial, inv, mailbox, member, step, req, took>>

--------------------------------------------------------------------------------
(* Accepting, with a phone code or signed in: the first check.             *)
AcceptInvitation(s, i, p) ==
    /\ i \in Sent /\ Usable(i) /\ allowed
    /\ Begin(s, "accepting", "accept", i, p)
    /\ UNCHANGED <<serial, allowed, inv, mailbox, member, took>>

(* An address that has an account is that account's. *)
MayTake(p, a) == Holder(a) \subseteq {p}

(* Mutant: the first check is trusted. *)
LockUnread(s) ==
    /\ step[s] = "accepting" /\ HeldBy(req[s].id) = {}
    /\ step' = [step EXCEPT ![s] = "joining"]
    /\ UNCHANGED <<serial, allowed, inv, mailbox, member, req, took>>

(* The row is locked and read again. *)
LockInvitation(s) ==
    /\ step[s] = "accepting" /\ HeldBy(req[s].id) = {}
    /\ IF Usable(req[s].id) /\ allowed /\ MayTake(req[s].who, inv[req[s].id].address)
       THEN step' = [step EXCEPT ![s] = "joining"] /\ UNCHANGED req
       ELSE Done(s)
    /\ UNCHANGED <<serial, allowed, inv, mailbox, member, took>>

(* A person without an account gets one with the invited address.          *)
JoinProject(s) ==
    /\ step[s] = "joining"
    /\ LET i == req[s].id
           p == req[s].who
           a == inv[i].address
       IN  IF MayTake(p, a)
           THEN /\ mailbox' = IF mailbox[p] = Absent THEN [mailbox EXCEPT ![p] = a] ELSE mailbox
                /\ member' = member \cup {p}
                /\ inv' = [inv EXCEPT ![i].status = "accepted"]
                /\ took' = [took EXCEPT ![i] = @ \cup {p}]
           ELSE UNCHANGED <<inv, mailbox, member, took>>      \* the unique address: rolled back
    /\ Done(s)
    /\ UNCHANGED <<serial, allowed>>

Init ==
    /\ serial \in Serial
    /\ allowed = TRUE
    /\ inv = [i \in Ids |-> Absent]
    /\ mailbox \in [People -> Addresses \cup {Absent, "other"}]
    /\ \A p, q \in People : p # q /\ mailbox[p] = mailbox[q] => mailbox[p] \in {Absent, "other"}
    /\ member = {}
    /\ step = [s \in Slots |-> "idle"] /\ req = [s \in Slots |-> NoReq]
    /\ took = [i \in Ids |-> {}]

Next ==
    \/ \E a \in Addresses : AddDirectly(a)
    \/ \E s \in Slots, a \in Addresses : CreateInvitation(s, a)
    \/ \E s \in Slots, i \in Ids : RevokeInvitation(s, i)
    \/ \E s \in Slots, i \in Ids, p \in People : AcceptInvitation(s, i, p)
    \/ \E s \in Slots : SendInvitation(s) \/ SaveRevoked(s) \/ LockInvitation(s) \/ JoinProject(s)
    \/ \E i \in Ids : Lapse(i)
    \/ InviterChanges

Spec == Init /\ [][Next]_vars

--------------------------------------------------------------------------------
(* A link that was taken back or replaced lets nobody in after.            *)
TakenBackIsDead == [][NobodyThroughRevoked]_vars

(* "Revoke an invitation; no-op if already non-pending", also when it was  *)
(* accepted while the revocation was on its way.                           *)
RevokeSparesAccepted == [][StatusKept]_vars
================================================================================
