------------------------------ MODULE Permissions ------------------------------
(***************************************************************************)
(* What one person may do in a company: the matrix of the role, on the     *)
(* projects they are assigned to, plus the permissions an admin granted    *)
(* them and minus those an admin denied them, for the company or for one   *)
(* project.                                                                *)
(*                                                                         *)
(* Requests check first and write later, at READ COMMITTED and without a   *)
(* lock.  The writes of a request and its commit are one step: they take   *)
(* the rows they change in one order, so two requests that overlap there   *)
(* leave what they leave one after the other.                              *)
(***************************************************************************)
EXTENDS Integers, FiniteSets

CONSTANTS
    Slots, Projects,
    None, Wide, \* "no row", and the scope of a row that names no project
    MaxRows,    \* how many rows are ever made
    Mixes       \* [ops, alone, keys, roles]

VARIABLES
    mix,
    role,       \* the role in the company, None when not attached
    assigned,   \* the projects with an assignment
    rows,       \* company_member_grants: per permission and scope
    made,       \* ids given out
    decided,    \* what an admin last decided on each, as they were told
    failed,     \* the last request ended in a database error
    pc, job

vars == <<mix, role, assigned, rows, made, decided, failed, pc, job>>

(* What the constants are. *)
Constants ==
    /\ None \notin {"member", "manager", "admin", "grant", "deny"}
    /\ None \notin [id : Nat, effect : {"grant", "deny"}]
    /\ \A m \in Mixes : m.alone \in BOOLEAN /\ m.roles \subseteq {"member", "manager", "admin"}

Idle == [op |-> "none", key |-> None, effect |-> None, project |-> None, clears |-> FALSE,
         seen |-> None, again |-> FALSE]

Init ==
    /\ mix \in Mixes
    /\ role \in {"member", "manager"} /\ assigned \in SUBSET Projects
    /\ rows = [k \in mix.keys |-> None] /\ decided = rows /\ made = 0
    /\ failed = FALSE
    /\ pc = [s \in Slots |-> "idle"] /\ job = [s \in Slots |-> Idle]

--------------------------------------------------------------------------------
(* The matrix *)

AdminPermissions ==
    {"project:create", "project:delete", "company:manage_members", "company:manage_settings",
     "company:manage_billing", "project:read", "project:update", "project:invite",
     "project:manage_users", "project:manage_labor", "project:manage_invoices",
     "bibliotheque:manage", "inventory:manage", "project:log_own_attendance",
     "project:view_pay", "project:view_budget", "project:view_roster", "user:read"}
ManagerProjectPermissions ==
    {"project:read", "project:update", "project:invite", "project:manage_users",
     "project:manage_labor", "project:manage_invoices", "bibliotheque:manage",
     "inventory:manage", "project:log_own_attendance", "project:view_pay", "project:view_roster"}
MemberProjectPermissions == {"project:read", "project:log_own_attendance", "project:view_roster"}
UnassignedPermissions == {"user:read"}
CompanyWideOnly == {"bibliotheque:manage", "inventory:manage"}
Customisable ==
    {"project:update", "project:invite", "project:manage_users", "project:manage_labor",
     "project:manage_invoices", "project:log_own_attendance", "project:view_pay",
     "project:view_budget"} \cup CompanyWideOnly
NonDeniable == {"project:read"}

PermissionsFor(r, here) ==
    CASE r = "admin"             -> AdminPermissions
      [] r = "manager" /\ here   -> ManagerProjectPermissions \cup UnassignedPermissions
      [] r = "member" /\ here    -> MemberProjectPermissions \cup UnassignedPermissions
      [] r # None /\ ~here       -> UnassignedPermissions
      [] OTHER                   -> {}

--------------------------------------------------------------------------------
(* The resolver *)

Effect(k) == IF rows[k] = None THEN None ELSE rows[k].effect

(* The rows of the company and of this project apply, of no other project.  *)
GrantsFor(scopes, effect) == {k.perm : k \in {l \in mix.keys : l.scope \in scopes /\ Effect(l) = effect}}

(* "a deny on seeing pay would have no effect while labor management stays  *)
(* allowed, so it removes that too (a refusal always wins)"                 *)
WithImpliedDenies(denies) ==
    denies \cup (IF "project:view_pay" \in denies THEN {"project:manage_labor"} ELSE {})

Resolved(base, scopes) ==
    (base \cup GrantsFor(scopes, "grant")) \ (WithImpliedDenies(GrantsFor(scopes, "deny")) \ NonDeniable)

EffectivePermissions(p) ==
    IF role = None THEN {}
    ELSE Resolved(PermissionsFor(role, p \in assigned), {Wide, p})

(* What the menus of the clients show, which no route decides by.           *)
PermissionsInCompany ==
    IF role = None THEN {}
    ELSE Resolved(PermissionsFor(role, role = "admin" \/ assigned # {}), {Wide})

CanRead(p) == "project:read" \in EffectivePermissions(p)
CanMutateUnread(p, perm) == perm \in EffectivePermissions(p)
CanMutate(p, perm) == perm \in EffectivePermissions(p) /\ CanRead(p)
MayCall(p, perm) == CanMutate(p, perm) \/ (perm \in CompanyWideOnly /\ perm \in EffectivePermissions(p))

--------------------------------------------------------------------------------
(* Requests *)

Go(s, step, j) == pc' = [pc EXCEPT ![s] = step] /\ job' = [job EXCEPT ![s] = j]
Done(s) == Go(s, "idle", Idle)
tables == <<role, assigned, rows, made>>

Begin(s, op) ==
    /\ pc[s] = "idle" /\ op \in mix.ops
    /\ mix.alone => \A t \in Slots : pc[t] = "idle"
    /\ failed' = FALSE /\ UNCHANGED <<mix, tables, decided>>

(* What the use case requires of a permission and of its scope.             *)
Settable(k) == k.perm \in Customisable /\ (k.perm \in CompanyWideOnly => k.scope = Wide)

(* set_grant and remove_grant: the target is a manager or a member.         *)
SetGrant(s) ==
    /\ Begin(s, "set") /\ role \in {"member", "manager"} /\ made < MaxRows
    /\ \E k \in mix.keys, e \in {"grant", "deny"} :
           /\ Settable(k) /\ (e = "deny" => k.perm \notin NonDeniable)
           /\ Go(s, "find", [Idle EXCEPT !.op = "set", !.key = k, !.effect = e])

RemoveGrant(s) ==
    /\ Begin(s, "remove") /\ role \in {"member", "manager"}
    /\ \E k \in mix.keys : Go(s, "find", [Idle EXCEPT !.op = "remove", !.key = k])

(* A manager acts on members only; nobody is taken off a project of their   *)
(* company as its admin.  The older route also takes off who has left.      *)
Unassign(s) ==
    /\ Begin(s, "unassign") /\ role # "admin"
    /\ \E p \in Projects, caller \in {"admin", "manager"} :
           /\ caller = "manager" => role = "member"
           /\ Go(s, "write", [Idle EXCEPT !.op = "unassign", !.project = p, !.clears = role # None])

Assign(s) ==
    /\ Begin(s, "assign") /\ role # None
    /\ \E p \in Projects : Go(s, "write", [Idle EXCEPT !.op = "assign", !.project = p])

(* A departure, of oneself or by an admin, a change of role, and a return.  *)
Depart(s)  == Begin(s, "leave") /\ role # None /\ Go(s, "write", [Idle EXCEPT !.op = "leave"])
SetRole(s) ==
    /\ Begin(s, "role") /\ role # None
    /\ \E r \in mix.roles : Go(s, "write", [Idle EXCEPT !.op = "role", !.effect = r])
Rejoin(s)  == Begin(s, "join") /\ role = None /\ Go(s, "write", [Idle EXCEPT !.op = "join"])

--------------------------------------------------------------------------------
(* Their steps *)

At(s, step, op) == pc[s] = step /\ job[s].op = op /\ UNCHANGED mix

(* _find_row: a second look that finds nothing raises.                      *)
FindRow(s) ==
    /\ pc[s] = "find" /\ UNCHANGED <<mix, tables, decided>>
    /\ LET found == rows[job[s].key]
           lost  == found = None /\ (job[s].op = "remove" \/ job[s].again)
       IN  /\ failed' = (lost /\ job[s].op = "set")
           /\ IF lost THEN Done(s) ELSE Go(s, "write", [job[s] EXCEPT !.seen = found])

(* upsert: the row of another request makes this one look again; a row that *)
(* was updated after it was deleted is an error.                            *)
InsertOnce(s) ==
    /\ At(s, "write", "set") /\ job[s].seen = None /\ Done(s)
    /\ failed' = (rows[job[s].key] # None) /\ made' = made + 1 /\ UNCHANGED <<role, assigned>>
    /\ decided' = IF failed' THEN decided ELSE [decided EXCEPT ![job[s].key] = job[s].effect]
    /\ rows' = IF failed' THEN rows
               ELSE [rows EXCEPT ![job[s].key] = [id |-> made + 1, effect |-> job[s].effect]]
InsertGrant(s) ==
    /\ At(s, "write", "set") /\ job[s].seen = None
    /\ failed' = FALSE /\ UNCHANGED <<role, assigned>>
    /\ IF rows[job[s].key] = None
       THEN /\ rows' = [rows EXCEPT ![job[s].key] = [id |-> made + 1, effect |-> job[s].effect]]
            /\ made' = made + 1
            /\ decided' = IF role = None THEN decided ELSE [decided EXCEPT ![job[s].key] = job[s].effect]
            /\ Done(s)
       ELSE Go(s, "find", [job[s] EXCEPT !.again = TRUE]) /\ UNCHANGED <<rows, made, decided>>

SameRow(s) == rows[job[s].key] # None /\ rows[job[s].key].id = job[s].seen.id

UpdateGrant(s) ==
    /\ At(s, "write", "set") /\ job[s].seen # None /\ Done(s)
    /\ failed' = ~SameRow(s) /\ UNCHANGED <<role, assigned, made>>
    /\ rows' = IF SameRow(s) THEN [rows EXCEPT ![job[s].key].effect = job[s].effect] ELSE rows
    /\ decided' = IF SameRow(s) /\ role # None THEN [decided EXCEPT ![job[s].key] = job[s].effect] ELSE decided

DeleteGrant(s) ==
    /\ At(s, "write", "remove") /\ Done(s) /\ failed' = FALSE /\ UNCHANGED <<role, assigned, made>>
    /\ rows' = IF SameRow(s) THEN [rows EXCEPT ![job[s].key] = None] ELSE rows
    /\ decided' = IF SameRow(s) THEN [decided EXCEPT ![job[s].key] = None] ELSE decided

(* "A grant on this project would keep writes open to someone who can no    *)
(* longer read it."  A refusal stays.                                       *)
DeleteProjectRows(p) == [k \in mix.keys |-> IF k.scope = p THEN None ELSE rows[k]]
DeleteProjectGrants(p) == [k \in mix.keys |-> IF k.scope = p /\ Effect(k) = "grant" THEN None ELSE rows[k]]
GoneWith(ps) == [k \in mix.keys |-> IF k.scope \in ps /\ decided[k] = "grant" THEN None ELSE decided[k]]

FinishUnassign(s) ==
    /\ At(s, "write", "unassign") /\ Done(s) /\ failed' = FALSE /\ UNCHANGED <<role, made>>
    /\ assigned' = assigned \ {job[s].project}
    /\ rows' = IF job[s].clears THEN DeleteProjectGrants(job[s].project) ELSE rows
    /\ decided' = GoneWith({job[s].project})

FinishAssign(s) ==
    /\ At(s, "write", "assign") /\ Done(s) /\ failed' = FALSE /\ UNCHANGED <<role, rows, made, decided>>
    /\ assigned' = assigned \cup {job[s].project}

(* The access row is deleted, and the rest goes in the same transaction.    *)
FinishDepart(s) ==
    /\ At(s, "write", "leave") /\ Done(s) /\ failed' = FALSE /\ UNCHANGED made
    /\ IF role = None THEN UNCHANGED <<role, assigned, rows, decided>>
       ELSE role' = None /\ assigned' = {} /\ rows' = [k \in mix.keys |-> None] /\ decided' = rows'

(* Under a lock on the access row; a demoted admin loses their projects.    *)
FinishSetRole(s) ==
    /\ At(s, "write", "role") /\ Done(s) /\ failed' = FALSE /\ UNCHANGED <<rows, made>>
    /\ LET demoted == role = "admin" /\ job[s].effect # "admin"
       IN  /\ role' = IF role = None THEN None ELSE job[s].effect
           /\ assigned' = IF demoted THEN {} ELSE assigned
           /\ decided' = IF demoted THEN GoneWith(Projects) ELSE decided

FinishRejoin(s) ==
    /\ At(s, "write", "join") /\ Done(s) /\ failed' = FALSE /\ UNCHANGED <<assigned, rows, made, decided>>
    /\ role' = IF role = None THEN "member" ELSE role

Next ==
    \E s \in Slots :
        \/ SetGrant(s) \/ RemoveGrant(s) \/ Unassign(s) \/ Assign(s) \/ Depart(s) \/ SetRole(s) \/ Rejoin(s)
        \/ FindRow(s) \/ InsertGrant(s) \/ UpdateGrant(s) \/ DeleteGrant(s)
        \/ FinishUnassign(s) \/ FinishAssign(s) \/ FinishDepart(s) \/ FinishSetRole(s) \/ FinishRejoin(s)

Spec == Init /\ [][Next]_vars

--------------------------------------------------------------------------------
(* Properties *)

TypeOK ==
    /\ role \in {None, "member", "manager", "admin"} /\ assigned \subseteq Projects
    /\ \A k \in mix.keys : rows[k] = None \/ rows[k] \in [id : 1..made, effect : {"grant", "deny"}]
    /\ decided \in [mix.keys -> {None, "grant", "deny"}]
    /\ \A s \in Slots : pc[s] \in {"idle", "find", "write"}

(* "The grants are not silently restored": a grant that applies is one an   *)
(* admin decided on since the person came, or was last on the project.      *)
NothingInherited == \A k \in mix.keys : Effect(k) = "grant" => decided[k] = "grant"

(* "The deny stays": a refusal is there until an admin lifts it or the      *)
(* person leaves, whatever they are assigned to or promoted to meanwhile.   *)
RefusalsStand == \A k \in mix.keys : decided[k] = "deny" => Effect(k) = "deny"

(* Requests on one permission that overlap all succeed: "update it in place *)
(* instead of surfacing a raw DB error to the caller".                      *)
NoRawError == mix.ops = {"set"} => ~failed

(* Nobody changes anything on a project they neither administer nor are     *)
(* assigned to, whatever they were granted on it.                           *)
OutsidersOut ==
    \A p \in Projects : role # "admin" /\ p \notin assigned =>
        \A perm \in Customisable : ~CanMutate(p, perm) /\ (MayCall(p, perm) => perm \in CompanyWideOnly)

(* "Deliberately optimistic": what the menus hide no project allows, but by *)
(* a grant on that project alone.                                           *)
HintIsOptimistic ==
    \A p \in Projects : EffectivePermissions(p) \subseteq PermissionsInCompany \cup GrantsFor({p}, "grant")

(* Grants end with what they were given for, refusals stand, and nobody     *)
(* changes a project they have no part in.  A grant that was set while its  *)
(* person left, or before they were an admin for a while, is there again.   *)
Settled == (mix.alone \/ "leave" \notin mix.ops) /\ "admin" \notin mix.roles
PermissionsHold ==
    TypeOK /\ RefusalsStand /\ NoRawError /\ OutsidersOut /\ HintIsOptimistic /\ (Settled => NothingInherited)
================================================================================
