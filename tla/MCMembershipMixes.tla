-------------------------- MODULE MCMembershipMixes --------------------------
(***************************************************************************)
(* CompanyMembership with two companies, each behaviour with the endpoints *)
(* of one mix.                                                             *)
(***************************************************************************)
EXTENDS CompanyMembership, TLC

CONSTANT Mixes

VARIABLE mix

(* What an admin of one company does with members, and with who works on   *)
(* its projects, while everyone also has the other company;                *)
(* who picks the company to start in while being let in or thrown out; and *)
(* people who come and go by themselves, in both companies.                *)
Managing  == [ops |-> {"set_role", "boot", "attach", "join", "set_code"}, companies |-> {1}]
Assigning == [ops |-> {"set_role", "boot", "assign", "unassign"}, companies |-> {1}]
Switching == [ops |-> {"set_primary", "attach", "boot"}, companies |-> {1}]
Coming    == [ops |-> {"join", "detach"}, companies |-> {1, 2}]

Everyday == {Managing, Assigning, Switching, Coming}

(* Everyone of a company, the only one they have, erases the account.      *)
Erasing == {[ops |-> {"delete_account"}, companies |-> {1}]}

(* Or roles are changed and members removed: each request holds its target *)
(* when it asks for the admins, among them the target of the other.        *)
Contending == Erasing \cup {[ops |-> {"set_role", "boot"}, companies |-> {1}]}

Elsewhere == [role |-> "admin", rank |-> "other"]

(* The requests are those of the mix, and a join code comes and goes with   *)
(* its own endpoint and with the last admin only.                          *)
Within ==
    /\ \A s \in Slots : req[s] # NoReq => req[s].op \in mix.ops /\ req[s].company \in mix.companies
    /\ \A c \in Companies : ~open[c] => c \in mix.companies /\ mix.ops \cap {"set_code", "delete_account"} # {}

MixInit ==
    /\ mix \in Mixes
    /\ Init
    /\ \A k \in Keys : k[2] \notin mix.companies => access[k] = Elsewhere
    /\ mix \in Contending => \A k \in Keys : Present(k) => access[k].rank = "primary"

MixNext == UNCHANGED mix /\ Next /\ Within'

MixSpec == MixInit /\ [][MixNext]_<<vars, mix>>

(* With the fairness of FairSpec.                                          *)
MixFairSpec == MixSpec /\ \A s \in Slots : SF_vars(Step(s)) /\ WF_vars(DeadlockVictim(s))

(* Everyone attached is listed, as long as nobody detaches (a detach that  *)
(* was already running when its user came back takes the profile away).    *)
StaysListed == "detach" \notin mix.ops => ListedIfAttached

UserSymmetry == Permutations(Users) \cup Permutations(Slots)
================================================================================
