----------------------------- MODULE InvitationLedger ----------------------------
(* The invitations of a project, who came in through them, and the promise *)
(* about both; Invitations has the requests that keep it.                  *)
EXTENDS Integers, FiniteSets

CONSTANTS
    Addresses, People,        \* e-mail addresses; people who may follow a link
    MaxInvitations,           \* bound
    Absent

VARIABLES
    serial,       \* whether requests come one after another
    inv,          \* invitations by id
    mailbox,      \* people with an active account, by the address of the account; Absent without
    took          \* history: who came in through each invitation

ledger == <<serial, inv, mailbox, took>>

Ids        == 1..MaxInvitations
Statuses   == {"pending", "accepted", "revoked"}
Invitation == [address : Addresses, status : Statuses, over : BOOLEAN]

Sent       == {i \in Ids : inv[i] # Absent}
Pending(a) == {i \in Sent : inv[i].address = a /\ inv[i].status = "pending"}
Holder(a)  == {p \in People : mailbox[p] = a}

--------------------------------------------------------------------------------
(* Whoever follows the same link at the same time, an invitation lets one  *)
(* person in, and its address stays one account's.                         *)
OneEach ==
    /\ \A i \in Ids : Cardinality(took[i]) <= 1
    /\ \A a \in Addresses : Cardinality(Holder(a)) <= 1

(* One after another, at most one invitation to an address is pending.     *)
OneLinkAlive == serial => \A a \in Addresses : Cardinality(Pending(a)) <= 1

(* "The first commit wins": one person takes an invitation up, and one     *)
(* link to an address is alive.                                            *)
OneTakesItUp == OneEach /\ OneLinkAlive

NobodyThroughRevoked == \A i \in Ids : inv[i] # Absent /\ inv[i].status = "revoked" => took'[i] = took[i]
StatusKept == \A i \in Ids : inv[i] # Absent /\ inv[i].status = "accepted" => inv'[i].status = "accepted"

(* A link that was taken back lets nobody in, whatever overlaps; one after *)
(* another, what was accepted stays accepted.                              *)
AcceptedStays == [][NobodyThroughRevoked /\ (serial => StatusKept)]_ledger
================================================================================
