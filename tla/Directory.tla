------------------------------- MODULE Directory -------------------------------
(***************************************************************************)
(* The directory of the companies: the persons, the profile each company   *)
(* keeps of them, the invitations by phone number, and the accounts that   *)
(* take them up at sign-up.                                                *)
(*                                                                         *)
(* Every operation is one transaction, and is one step here.  A number     *)
(* stands for the account that signs in with it.  Each company has a       *)
(* founder, its admin, who is not among the numbers.                       *)
(***************************************************************************)
EXTENDS Integers, FiniteSets

CONSTANTS
    Companies,
    Phones,        \* the numbers people are invited and sign up with
    MaxPersons,    \* persons that can be created
    Mixes,         \* sets of operations: a behaviour exercises one of them
    None

VARIABLES
    ops,       \* the operations of this behaviour
    account,   \* the numbers that have an account
    person,    \* persons by id, in the order they were created
    profile,   \* company_persons
    access,    \* user_company_access: the role of an account in a company
    closed,    \* companies whose last admin erased their account
    promise    \* history: the role promised to whoever signs up with a number

vars == <<ops, account, person, profile, access, closed, promise>>

--------------------------------------------------------------------------------
Ids   == 1..MaxPersons
Roles == {"member", "manager"}

Persons  == [user : Phones \cup {None}, phone : Phones \cup {None}, normal : BOOLEAN, worker : BOOLEAN]
Profiles == [active : BOOLEAN, phone : Phones \cup {None}, pending : {"no", "open", "expired"}, role : Roles]

(* What the theorems assume of the constants. *)
Constants == MaxPersons \in Nat /\ None \notin Phones /\ None \notin Persons /\ None \notin Profiles

Known   == {i \in Ids : person[i] # None}
Listed(c) == {i \in Known : profile[c][i] # None}
Fresh   == {i \in Ids : \A j \in Known : i > j}       \* the ids after the last one
NewIds  == {i \in Fresh : \A j \in Fresh : i <= j}

OfUser(u)     == {i \in Known : person[i].user = u}                   \* find_by_user_id
Holders(c, u) == {i \in Listed(c) : profile[c][i].phone = u}          \* find_by_phone
Least(S)      == CHOOSE i \in S : \A j \in S : i <= j

NewPerson(user, phone, normal, worker) ==
    [user |-> user, phone |-> phone, normal |-> normal, worker |-> worker]
NewProfile(phone, pending, role) ==
    [active |-> TRUE, phone |-> phone, pending |-> pending, role |-> role]

(* The profiles of c as pc, in a function of the profiles of all companies. *)
Put(p, c, i, new) == [p EXCEPT ![c][i] = new]

Open(c)  == c \in Companies \ closed
Member(c, u) == access[c][u] # "none"

--------------------------------------------------------------------------------
(* Invitations by number *)

(* Create, reactivate or renew the profile of person i. *)
Upserted(old, phone, pending, role) ==
    IF old = None THEN NewProfile(phone, pending, role)
    ELSE IF ~old.active THEN [old EXCEPT !.active = TRUE, !.pending = pending, !.role = role]
    ELSE [old EXCEPT !.pending = pending, !.role = role]

(* Another person's profile has the number: 409. *)
Refused(p, c, i, u) == p[c][i] = None /\ \E j \in Ids \ {i} : p[c][j] # None /\ p[c][j].phone = u

(* The number's profile without an account, left by an invitation nobody   *)
(* took up or a member who erased their account.                           *)
Stale(c, u) == {i \in Holders(c, u) : person[i].user = None}

Released(old) ==
    [old EXCEPT !.phone = None, !.pending = "no", !.role = "member",
                !.active = @ /\ old.pending = "no"]

AddAccount(c, u, role) ==
    /\ u \in account /\ ~Member(c, u)
    /\ LET own   == OfUser(u)
           stale == Stale(c, u)
           freed == IF own # {} /\ stale # {}
                    THEN Put(profile, c, Least(stale), Released(profile[c][Least(stale)]))
                    ELSE profile
       IN  \E i \in (IF own # {} THEN own ELSE IF stale # {} THEN stale ELSE NewIds) :
           /\ ~Refused(freed, c, i, u)
           /\ person' = [person EXCEPT ![i] = IF i \in Known THEN [@ EXCEPT !.user = u]
                                              ELSE NewPerson(u, u, TRUE, FALSE)]
           /\ profile' = Put(freed, c, i, Upserted(freed[c][i], u, "no", "member"))
    /\ access' = [access EXCEPT ![c][u] = role]
    /\ promise' = [promise EXCEPT ![c][u] = "none"]
    /\ UNCHANGED <<ops, account, closed>>

(* The persons without an account that hold the number in a company the    *)
(* caller administers; with several, the caller says which.                *)
Candidates(u, mine) == {i \in UNION {Holders(c, u) : c \in mine} : person[i].user = None}

AddPending(c, u, role, mine) ==
    /\ u \notin account
    /\ LET found == Candidates(u, mine)
       IN  \E i \in (IF found = {} THEN NewIds ELSE found) :
           /\ ~Refused(profile, c, i, u)
           /\ person' = [person EXCEPT ![i] = IF i \in Known THEN @ ELSE NewPerson(None, u, TRUE, FALSE)]
           /\ profile' = Put(profile, c, i, Upserted(profile[c][i], u, "open", role))
    /\ promise' = [promise EXCEPT ![c][u] = role]
    /\ UNCHANGED <<ops, account, access, closed>>

AddMemberByPhone(c, u, role, mine) ==
    /\ "add" \in ops /\ Open(c) /\ c \in mine /\ mine \cap closed = {}
    /\ mine = {c} \/ "several" \in ops
    /\ AddAccount(c, u, role) \/ AddPending(c, u, role, mine)

(* Mutant: cancelling hides the profile, and leaves the invitation. *)
CancelProfileOnly(c, i) ==
    /\ "cancel" \in ops /\ Open(c) /\ i \in Listed(c)
    /\ profile[c][i].active /\ person[i].user = None
    /\ profile' = Put(profile, c, i, [profile[c][i] EXCEPT !.active = FALSE])
    /\ promise' = [promise EXCEPT ![c] = [u \in Phones |-> IF u = profile[c][i].phone THEN "none" ELSE @[u]]]
    /\ UNCHANGED <<ops, account, person, access, closed>>

CancelPending(c, i) ==
    /\ "cancel" \in ops /\ Open(c) /\ i \in Listed(c)
    /\ profile[c][i].active /\ person[i].user = None
    /\ profile' = Put(profile, c, i, [profile[c][i] EXCEPT !.active = FALSE, !.pending = "no", !.role = "member"])
    /\ promise' = [promise EXCEPT ![c] = [u \in Phones |-> IF u = profile[c][i].phone THEN "none" ELSE @[u]]]
    /\ UNCHANGED <<ops, account, person, access, closed>>

(* The invitation's thirty days are over. *)
Expire(c, i) ==
    /\ "expire" \in ops /\ i \in Listed(c) /\ profile[c][i].pending = "open"
    /\ profile' = Put(profile, c, i, [profile[c][i] EXCEPT !.pending = "expired"])
    /\ promise' = [promise EXCEPT ![c] = [u \in Phones |-> IF u = profile[c][i].phone THEN "none" ELSE @[u]]]
    /\ UNCHANGED <<ops, account, person, access, closed>>

--------------------------------------------------------------------------------
(* Sign-up *)

(* The open invitations of the number, in companies where the person is    *)
(* not another account's.                                                  *)
Eligible(u) ==
    {x \in Companies \X Ids : /\ x[2] \in Holders(x[1], u)
                              /\ profile[x[1]][x[2]].pending = "open"
                              /\ person[x[2]].user \in {None, u}}

Survivor(u) == IF OfUser(u) # {} THEN Least(OfUser(u)) ELSE Least({x[2] : x \in Eligible(u)})

(* A profile cannot move to a survivor who already has a row in that        *)
(* company: a company lists a person once.                                 *)
Collides(u) == \E x \in Eligible(u) : x[2] # Survivor(u) /\ profile[x[1]][Survivor(u)] # None

Linked(p) == [p EXCEPT !.pending = "no", !.role = "member"]

(* The profiles once every invitation belongs to the survivor. *)
LinkedProfiles(u) ==
    [c \in Companies |-> [i \in Ids |->
        LET taken == {x \in Eligible(u) : x[1] = c}
            here  == CHOOSE x \in taken : TRUE
        IN  IF taken # {} /\ i = Survivor(u) THEN Linked(profile[c][here[2]])
            ELSE IF <<c, i>> \in taken THEN None
            ELSE profile[c][i]]]

(* A duplicate that nothing refers to any more is deleted. *)
LinkedPersons(u) ==
    [i \in Ids |->
        IF i = Survivor(u) THEN [person[i] EXCEPT !.user = u]
        ELSE IF /\ \E c \in Companies : <<c, i>> \in Eligible(u)
                /\ \A c \in Companies : LinkedProfiles(u)[c][i] = None
                /\ ~person[i].worker
             THEN None
        ELSE person[i]]

(* With a collision the whole sign-up fails, the account with it: the      *)
(* exception is swallowed, but what the transaction asks next is refused.  *)
SignUp(u) ==
    /\ "signup" \in ops /\ u \notin account
    /\ ~Collides(u)
    /\ account' = account \cup {u}
    /\ IF Eligible(u) = {}
       THEN UNCHANGED <<person, profile, access>>
       ELSE /\ person' = LinkedPersons(u)
            /\ profile' = LinkedProfiles(u)
            /\ access' = [c \in Companies |->
                   IF \E i \in Ids : <<c, i>> \in Eligible(u) /\ ~Member(c, u)
                   THEN [access[c] EXCEPT ![u] = profile[c][CHOOSE i \in Ids : <<c, i>> \in Eligible(u)].role]
                   ELSE access[c]]
    /\ promise' = [c \in Companies |-> [promise[c] EXCEPT ![u] = "none"]]
    /\ UNCHANGED <<ops, closed>>

--------------------------------------------------------------------------------
(* Members *)

(* The number, unless a profile of the company has it. *)
FreePhone(c, i, p) ==
    IF person[i] = None THEN p
    ELSE IF ~person[i].normal THEN None ELSE person[i].phone

(* Mutant: a profile that is there is good enough. *)
EnsuredOnce(c, i, phone) ==
    LET old == profile[c][i]
    IN  IF old = None
        THEN NewProfile(IF phone # None /\ Holders(c, phone) # {} THEN None ELSE phone, "no", "member")
        ELSE old

EnsuredProfile(c, i, phone) ==
    LET old == profile[c][i]
    IN  IF old = None
        THEN NewProfile(IF phone # None /\ Holders(c, phone) # {} THEN None ELSE phone, "no", "member")
        ELSE IF ~old.active THEN [old EXCEPT !.active = TRUE, !.pending = "no"] ELSE old

(* Joining by code; an attachment and an accepted invitation do the same. *)
Join(c, u) ==
    /\ "join" \in ops /\ Open(c) /\ u \in account /\ ~Member(c, u)
    /\ \E i \in (IF OfUser(u) = {} THEN NewIds ELSE OfUser(u)) :
           /\ person' = IF i \in Known THEN person ELSE [person EXCEPT ![i] = NewPerson(u, u, TRUE, FALSE)]
           /\ profile' = Put(profile, c, i, EnsuredProfile(c, i, FreePhone(c, i, u)))
    /\ access' = [access EXCEPT ![c][u] = "member"]
    /\ UNCHANGED <<ops, account, closed, promise>>

(* Leaving, or being removed. *)
Leave(c, u) ==
    /\ "leave" \in ops /\ Member(c, u)
    /\ access' = [access EXCEPT ![c][u] = "none"]
    /\ profile' = [profile EXCEPT ![c] =
           [i \in Ids |-> IF i \in Listed(c) \cap OfUser(u) THEN [@[i] EXCEPT !.active = FALSE] ELSE @[i]]]
    /\ UNCHANGED <<ops, account, person, closed, promise>>

(* Copying a person of another company. *)
Import(c, from, i) ==
    /\ "import" \in ops /\ Open(c) /\ Open(from) /\ c # from /\ i \in Listed(from)
    /\ LET source  == profile[from][i]
           u       == person[i].user
           pending == IF u = None /\ (source.phone # None \/ person[i].phone # None) THEN "open" ELSE "no"
           old     == profile[c][i]
       IN  /\ old = None => source.phone = None \/ Holders(c, source.phone) \subseteq {i}
           /\ profile' = IF old = None THEN Put(profile, c, i, NewProfile(source.phone, pending, "member"))
                         ELSE IF ~old.active
                         THEN Put(profile, c, i, [old EXCEPT !.active = TRUE, !.pending = pending, !.role = "member"])
                         ELSE profile
           /\ access' = IF u # None /\ ~Member(c, u) THEN [access EXCEPT ![c][u] = "member"] ELSE access
           /\ promise' = LET phone == profile'[c][i].phone
                         IN  IF phone # None /\ profile'[c][i].pending = "open" /\ profile' # profile
                             THEN [promise EXCEPT ![c][phone] = "member"] ELSE promise
    /\ UNCHANGED <<ops, account, person, closed>>

(* A worker added by name and number, when no person of the company has    *)
(* the number: a person and their profile.  The number stays as typed.     *)
AddWorker(c, u) ==
    /\ "worker" \in ops /\ Open(c)
    /\ LET same == Holders(c, u) \cap {i \in Listed(c) : profile[c][i].active}
           text == {i \in Listed(c) : profile[c][i].active /\ person[i].phone = u}
       IN  IF same \cup text # {}
           THEN /\ person' = [person EXCEPT ![IF same # {} THEN Least(same) ELSE Least(text)].worker = TRUE]
                /\ UNCHANGED profile
           ELSE \E i \in NewIds :
                /\ person' = [person EXCEPT ![i] = NewPerson(None, u, FALSE, TRUE)]
                /\ profile' = Put(profile, c, i, NewProfile(None, "no", "member"))
    /\ UNCHANGED <<ops, account, access, closed, promise>>

(* An account is erased; its number is free again. *)
Erase(u) ==
    /\ "erase" \in ops /\ u \in account
    /\ account' = account \ {u}
    /\ person' = [i \in Ids |-> IF i \in OfUser(u) THEN [person[i] EXCEPT !.user = None] ELSE person[i]]
    /\ access' = [c \in Companies |-> [access[c] EXCEPT ![u] = "none"]]
    /\ UNCHANGED <<ops, profile, closed, promise>>

(* The founder, alone in their company, erases their account: the pending  *)
(* profiles are deactivated, and keep the end of their window.             *)
Close(c) ==
    /\ "close" \in ops /\ Open(c) /\ \A u \in Phones : ~Member(c, u)
    /\ closed' = closed \cup {c}
    /\ profile' = [profile EXCEPT ![c] =
           [i \in Ids |-> IF i \in Listed(c) /\ @[i].active /\ @[i].pending # "no"
                          THEN [@[i] EXCEPT !.active = FALSE] ELSE @[i]]]
    /\ promise' = [promise EXCEPT ![c] = [u \in Phones |-> "none"]]
    /\ UNCHANGED <<ops, account, person, access>>

--------------------------------------------------------------------------------
(* Merging two persons *)

MergedProfile(from, to) ==
    IF from = None THEN to
    ELSE IF to = None THEN from
    ELSE [active  |-> from.active \/ to.active,
          phone   |-> IF to.phone = None THEN from.phone ELSE to.phone,
          pending |-> IF from.pending # "no" /\ to.pending # "no" THEN to.pending ELSE "no",
          role    |-> IF to.role = "member" THEN from.role ELSE to.role]

(* Persons who are workers of the same project are refused. *)
Merge(i, j) ==
    /\ "merge" \in ops /\ i \in Known /\ j \in Known /\ i # j
    /\ ~(person[i].user # None /\ person[j].user # None)
    /\ profile' = [c \in Companies |->
           [profile[c] EXCEPT ![i] = None, ![j] = MergedProfile(profile[c][i], profile[c][j])]]
    /\ person' = [person EXCEPT
           ![i] = None,
           ![j] = NewPerson(IF @.user = None THEN person[i].user ELSE @.user,
                            IF @.phone = None THEN person[i].phone ELSE @.phone,
                            IF @.phone = None THEN person[i].normal ELSE @.normal,
                            @.worker \/ person[i].worker)]
    /\ UNCHANGED <<ops, account, access, closed, promise>>

--------------------------------------------------------------------------------
Init ==
    /\ ops \in Mixes
    /\ account = {}
    /\ person = [i \in Ids |-> None]
    /\ profile = [c \in Companies |-> [i \in Ids |-> None]]
    /\ access = [c \in Companies |-> [u \in Phones |-> "none"]]
    /\ closed = {}
    /\ promise = [c \in Companies |-> [u \in Phones |-> "none"]]

Next ==
    \/ \E c \in Companies, u \in Phones, r \in Roles, mine \in SUBSET Companies : AddMemberByPhone(c, u, r, mine)
    \/ \E c \in Companies, i \in Ids : CancelPending(c, i) \/ Expire(c, i)
    \/ \E u \in Phones : SignUp(u) \/ Erase(u)
    \/ \E c \in Companies, u \in Phones : Join(c, u) \/ Leave(c, u) \/ AddWorker(c, u)
    \/ \E c, from \in Companies, i \in Ids : Import(c, from, i)
    \/ \E c \in Companies : Close(c)
    \/ \E i, j \in Ids : Merge(i, j)

Spec == Init /\ [][Next]_vars

--------------------------------------------------------------------------------
(* Every variable keeps its type. *)
TypeOK ==
    /\ ops \in Mixes
    /\ account \subseteq Phones
    /\ person \in [Ids -> Persons \cup {None}]
    /\ profile \in [Companies -> [Ids -> Profiles \cup {None}]]
    /\ access \in [Companies -> [Phones -> Roles \cup {"none"}]]
    /\ closed \subseteq Companies
    /\ promise \in [Companies -> [Phones -> Roles \cup {"none"}]]

(* No operation meets the unique constraints on accounts and on numbers    *)
(* without having looked: an account is one person, and a company lists a  *)
(* number once.  (On persons a sign-up may meet one: Collides.)            *)
NoKeyTwice ==
    /\ \A u \in Phones : Cardinality(OfUser(u)) <= 1
    /\ \A c \in Companies, u \in Phones : Cardinality(Holders(c, u)) <= 1

(* Every company attachment has an active directory profile linked to the  *)
(* account: the assignment pickers list profiles.                          *)
AttachedIsListed ==
    \A c \in Companies, u \in Phones : Member(c, u) =>
        \E i \in OfUser(u) \cap Listed(c) : profile[c][i].active

(* An invitation stands until it is taken up, cancelled or over: it is     *)
(* among those a sign-up with the number takes up, with the role that was  *)
(* chosen.  (The sign-up itself fails where it collides.)                  *)
InvitationsStand ==
    \A c \in Companies, u \in Phones : promise[c][u] # "none" /\ u \notin account =>
        \E x \in Eligible(u) : x[1] = c /\ profile[c][x[2]].role = promise[c][u]

(* Nobody is attached at sign-up to a company that does not expect them.   *)
OnlyInvited ==
    \A u \in Phones \ account, x \in Companies \X Ids :
        x \in Eligible(u) /\ x[1] \notin closed => promise[x[1]][u] # "none"

(* "Every way in is closed" to a company whose last admin erased their     *)
(* account.                                                                *)
ClosedStaysEmpty == \A c \in closed, u \in Phones : ~Member(c, u)
================================================================================
