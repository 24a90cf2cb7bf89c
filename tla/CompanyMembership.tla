--------------------------- MODULE CompanyMembership ---------------------------
(***************************************************************************)
(* Who belongs to which company, with which role, and what follows from    *)
(* it: the user_company_access table, the project assignments and the      *)
(* directory profiles that the membership endpoints keep in step with it.  *)
(*                                                                         *)
(* Every request is one PostgreSQL transaction at READ COMMITTED: a        *)
(* statement reads the rows committed when it starts (and its own), a row  *)
(* that is written or read FOR UPDATE stays locked until the transaction   *)
(* ends, and a statement that had to wait for a lock evaluates its         *)
(* condition again on the row it then finds.  The writes of a request      *)
(* become visible together when it commits, so the model keeps only the    *)
(* committed tables and applies a request's writes in its last step; the   *)
(* reads and the locks it takes before that are steps of their own.        *)
(*                                                                         *)
(* The caller's authorisation is not a variable: platform ops pass every   *)
(* company-admin guard, so the guard removes no behaviour.                 *)
(***************************************************************************)
EXTENDS Integers, FiniteSets

CONSTANTS
    Users,      \* user accounts
    Companies,  \* company ids, compared as DeleteAccountUseCase sorts them
    Slots,      \* requests the workers can serve at the same time
    Ops,        \* the endpoints exercised
    NoOne       \* "no slot" and "no user"

ASSUME MembershipConstants ==
    /\ Companies \subseteq Nat
    /\ IsFiniteSet(Companies) /\ IsFiniteSet(Users)
    /\ NoOne \notin Slots /\ NoOne \notin Users

VARIABLES
    access,     \* user_company_access: role ("none": no row) and is_primary
    assigned,   \* user_projects: users assigned to projects of a company
    listed,     \* company_persons: active profiles linked to a user
    open,       \* companies.join_code IS NOT NULL
    erased,     \* users whose account was anonymised
    holder,     \* the slot whose transaction holds a row's lock
    pc, req,    \* per slot: the next step, and the request it serves
    row,        \* per slot: the access row its handler has read
    todo,       \* per slot: rows its statement still has to lock
    admins,     \* per slot: rows list_admins_for_update has returned so far
    queue,      \* per slot: companies DeleteAccount still has to look at ...
    orphaned,   \* ... and those it found it would leave empty
    heir        \* per slot: the row to make primary when a primary one goes

tables == <<access, assigned, listed, open, erased>>
locals == <<row, todo, admins, queue, orphaned, heir>>
vars   == <<access, assigned, listed, open, erased, holder, pc, req,
            row, todo, admins, queue, orphaned, heir>>

--------------------------------------------------------------------------------
(* Rows and requests *)

Roles == {"admin", "manager", "member"}
Keys  == Users \X Companies
Ranks == {"primary", "other"}     \* is_primary
NoRow == [role |-> "none", rank |-> "other"]
Rows  == [role : Roles, rank : Ranks] \cup {NoRow}

Present(k)   == access[k].role # "none"
Admins(c)    == {k \in Keys : k[2] = c /\ access[k].role = "admin"}
Members(c)   == {k \in Keys : k[2] = c /\ Present(k)}
RowsOf(u)    == {k \in Keys : k[1] = u /\ Present(k)}
Primaries(u) == {k \in Keys : k[1] = u /\ access[k].rank = "primary"}

PCs == {"idle", "target", "read", "admins", "locking", "delete", "pick", "get",
        "rows", "sweep", "next", "finish", "add"}

Requests == [op : Ops, user : Users, company : Companies, new : Roles \cup {"none"}]
NoReq  == [op |-> "none", user |-> NoOne, company |-> 0, new |-> "none"]
NoHeir == [company |-> 0, role |-> "member", how |-> "none"]     \* its role is never read
Heirs  == [company : Companies \cup {0}, role : Roles,
           how : {"none", "insert", "update", "overwrite"}]

(* What a DELETE leaves of a row; the variant forgets the flag.            *)
GoneKeepingFlag(k) == [access[k] EXCEPT !.role = "none"]
Gone(k) == NoRow

Key(s)  == <<req[s].user, req[s].company>>
Heir(s) == <<req[s].user, heir[s].company>>
Held(s) == {k \in Keys : holder[k] = s}
Free(k, s) == holder[k] \in {NoOne, s}

Goto(s, step) == pc' = [pc EXCEPT ![s] = step]
Lock(s, k)    == holder' = [holder EXCEPT ![k] = s]

(* The slot's memory of the request that ends. *)
Forget(s) ==
    /\ Goto(s, "idle")
    /\ req' = [req EXCEPT ![s] = NoReq]
    /\ row' = [row EXCEPT ![s] = NoRow]
    /\ todo' = [todo EXCEPT ![s] = {}]
    /\ admins' = [admins EXCEPT ![s] = {}]
    /\ queue' = [queue EXCEPT ![s] = {}]
    /\ orphaned' = [orphaned EXCEPT ![s] = {}]
    /\ heir' = [heir EXCEPT ![s] = NoHeir]

(* The transaction of s ends: its locks go and the slot is free again. *)
End(s) ==
    /\ holder' = [k \in Keys |-> IF holder[k] = s THEN NoOne ELSE holder[k]]
    /\ Forget(s)

(* A rejected request, or one with nothing to change: 4xx or 200, no write. *)
LeaveWithoutRollback(s) == Forget(s) /\ UNCHANGED <<tables, holder>>
Leave(s) == End(s) /\ UNCHANGED tables

--------------------------------------------------------------------------------
(* Arrival of a request *)

FirstStep(op) ==
    CASE op \in {"set_role", "boot"} -> "target"
      [] op = "set_primary"          -> "rows"
      [] OTHER                       -> "read"

(* A token of an erased account is refused before any handler runs; the    *)
(* other requests name a user chosen by someone else.                      *)
Request(s, op, u, c, new) ==
    /\ pc[s] = "idle"
    /\ op \in {"detach", "join", "set_primary", "delete_account"} => u \notin erased
    /\ (new # "none") <=> (op \in {"set_role", "assign"})
    /\ op = "assign" => new # "admin"
    /\ Goto(s, FirstStep(op))
    /\ req' = [req EXCEPT ![s] = [op |-> op, user |-> u, company |-> c, new |-> new]]
    /\ UNCHANGED <<tables, holder, locals>>

--------------------------------------------------------------------------------
(* Reads and locks *)

(* SELECT ... FOR UPDATE of the row a request is about; the variant reads  *)
(* without locking.                                                        *)
ReadTarget(s) == UNCHANGED holder
HoldTarget(s) == holder[Key(s)] = NoOne /\ Lock(s, Key(s))

(* find_for_update: waits for the row's lock, then reads the row.  The     *)
(* last-admin guard comes next when an admin is about to lose the role.    *)
LockTarget(s) ==
    /\ pc[s] = "target"
    /\ IF ~Present(Key(s))
       THEN Leave(s)
       ELSE /\ HoldTarget(s)
            /\ row' = [row EXCEPT ![s] = access[Key(s)]]
            /\ Goto(s, CASE access[Key(s)].role = "admin" /\ req[s].new # "admin" -> "admins"
                         [] access[Key(s)].role # "admin" /\ req[s].op = "boot" -> "delete"
                         [] OTHER -> "finish")
            /\ UNCHANGED <<tables, req, todo, admins, queue, orphaned, heir>>

(* Detach reads its own row without a lock and decides on that role        *)
(* whether the last-admin guard applies.                                   *)
DetachRead(s) ==
    /\ req[s].op = "detach" /\ pc[s] = "read"
    /\ IF ~Present(Key(s))
       THEN Leave(s)
       ELSE /\ row' = [row EXCEPT ![s] = access[Key(s)]]
            /\ Goto(s, IF access[Key(s)].role = "admin" THEN "admins" ELSE "delete")
            /\ UNCHANGED <<tables, holder, req, todo, admins, queue, orphaned, heir>>

(* list_admins_for_update: the admin rows of the statement's snapshot are  *)
(* locked one after the other; a row that lost the role meanwhile is not   *)
(* returned.  The variant counts the snapshot without FOR UPDATE.          *)
SnapshotAdminsUnlocked(s) ==
    /\ pc[s] = "admins"
    /\ Goto(s, "locking")
    /\ admins' = [admins EXCEPT ![s] = Admins(req[s].company)]
    /\ UNCHANGED <<tables, holder, req, row, todo, queue, orphaned, heir>>

SnapshotAdmins(s) ==
    /\ pc[s] = "admins"
    /\ Goto(s, "locking")
    /\ todo' = [todo EXCEPT ![s] = Admins(req[s].company)]
    /\ admins' = [admins EXCEPT ![s] = {}]
    /\ UNCHANGED <<tables, holder, req, row, queue, orphaned, heir>>

LockAdmin(s) ==
    /\ pc[s] = "locking"
    /\ \E k \in todo[s] :
         /\ Free(k, s)
         /\ todo' = [todo EXCEPT ![s] = @ \ {k}]
         /\ IF access[k].role = "admin"
            THEN Lock(s, k) /\ admins' = [admins EXCEPT ![s] = @ \cup {k}]
            ELSE UNCHANGED <<holder, admins>>
    /\ UNCHANGED <<tables, pc, req, row, queue, orphaned, heir>>

(* The last-admin guard of SetMemberRole, Boot and Detach: len(admins) <= 1 *)
(* is LastCompanyAdminError.                                               *)
LastAdminGuard(s) ==
    /\ pc[s] = "locking" /\ todo[s] = {} /\ req[s].op # "delete_account"
    /\ IF Cardinality(admins[s]) <= 1
       THEN Leave(s)
       ELSE /\ Goto(s, IF req[s].op \in {"boot", "detach"} THEN "delete" ELSE "finish")
            /\ UNCHANGED <<tables, holder, req, locals>>

(* delete(): the row is read again and deleted once its lock is free; a    *)
(* row that went meanwhile is no error.                                    *)
DeleteRow(s) ==
    /\ pc[s] = "delete"
    /\ IF Present(Key(s)) THEN Free(Key(s), s) /\ Lock(s, Key(s)) ELSE UNCHANGED holder
    /\ Goto(s, IF row[s].rank = "primary" THEN "pick" ELSE "finish")
    /\ UNCHANGED <<tables, req, locals>>

(* was_primary: the earliest attached row left becomes primary (any of     *)
(* them here: attached_at is not kept) ...                                 *)
PickHeir(s) ==
    /\ pc[s] = "pick"
    /\ LET left == RowsOf(req[s].user) \ {Key(s)}
       IN  IF left = {}
           THEN Goto(s, "finish") /\ UNCHANGED heir
           ELSE \E k \in left :
                  /\ heir' = [heir EXCEPT ![s] = [company |-> k[2], role |-> access[k].role, how |-> "none"]]
                  /\ Goto(s, "get")
    /\ UNCHANGED <<tables, holder, req, row, todo, admins, queue, orphaned>>

(* ... and save() reads it again: a row that is gone is inserted anew with *)
(* the values listed before, a row whose role changed gets the listed role *)
(* back.                                                                   *)
HeirWrite(s) ==
    CASE ~Present(Heir(s)) -> "insert"
      [] access[Heir(s)].role = heir[s].role -> "update"
      [] OTHER -> "overwrite"

GetHeir(s) ==
    /\ pc[s] = "get"
    /\ heir' = [heir EXCEPT ![s].how = HeirWrite(s)]
    /\ Goto(s, "finish")
    /\ UNCHANGED <<tables, holder, req, row, todo, admins, queue, orphaned>>

(* The statements that write every row of a user (clear_primary_for_user,  *)
(* the eraser's DELETE) lock the rows of their snapshot one by one.        *)
SnapshotRows(s) ==
    /\ pc[s] = "rows"
    /\ Goto(s, "sweep")
    /\ todo' = [todo EXCEPT ![s] = RowsOf(req[s].user)]
    /\ UNCHANGED <<tables, holder, req, row, admins, queue, orphaned, heir>>

SweepRow(s) ==
    /\ pc[s] = "sweep"
    /\ IF todo[s] = {}
       THEN Goto(s, "finish") /\ UNCHANGED <<holder, todo>>
       ELSE \E k \in todo[s] :
              /\ Free(k, s)
              /\ IF Present(k) THEN Lock(s, k) ELSE UNCHANGED holder
              /\ todo' = [todo EXCEPT ![s] = @ \ {k}]
              /\ UNCHANGED pc
    /\ UNCHANGED <<tables, req, row, admins, queue, orphaned, heir>>

AttachRead(s) ==
    /\ req[s].op = "attach" /\ pc[s] = "read"
    /\ IF Present(Key(s))
       THEN Leave(s)
       ELSE Goto(s, "finish") /\ UNCHANGED <<tables, holder, req, locals>>

(* A company without a join code, or without an admin, takes no one in;    *)
(* the row to insert is primary when the user has no primary one.          *)
JoinRead(s) ==
    /\ req[s].op = "join" /\ pc[s] = "read"
    /\ IF ~open[req[s].company] \/ Admins(req[s].company) = {} \/ Present(Key(s))
       THEN Leave(s)
       ELSE /\ Goto(s, "finish")
            /\ row' = [row EXCEPT ![s] = [role |-> "member",
                                      rank |-> IF Primaries(req[s].user) = {} THEN "primary" ELSE "other"]]
            /\ UNCHANGED <<tables, holder, req, todo, admins, queue, orphaned, heir>>

(* Assigning reads the target's row without a lock; asked for a manager,   *)
(* it hands a target it saw as a member on to SetMemberRoleUseCase.        *)
AssignRead(s) ==
    /\ req[s].op = "assign" /\ pc[s] = "read"
    /\ IF ~Present(Key(s)) \/ req[s].user \in erased
       THEN Leave(s)
       ELSE /\ Goto(s, IF req[s].new = "manager" /\ access[Key(s)].role = "member"
                       THEN "target" ELSE "add")
            /\ UNCHANGED <<tables, holder, req, locals>>

UnassignRead(s) ==
    /\ req[s].op = "unassign" /\ pc[s] = "read"
    /\ IF access[Key(s)].role \in {"none", "admin"}
       THEN Leave(s)
       ELSE Goto(s, "finish") /\ UNCHANGED <<tables, holder, req, locals>>

(* DeleteAccount lists the caller's rows without a lock and visits the     *)
(* companies where it saw the admin role ...                               *)
DeleteAccountRead(s) ==
    /\ req[s].op = "delete_account" /\ pc[s] = "read"
    /\ Goto(s, "next")
    /\ queue' = [queue EXCEPT ![s] =
                   {k[2] : k \in {r \in RowsOf(req[s].user) : access[r].role = "admin"}}]
    /\ UNCHANGED <<tables, holder, req, row, todo, admins, orphaned, heir>>

(* ... one after the other, in the order of their ids.                     *)
DeleteAccountNext(s) ==
    /\ pc[s] = "next"
    /\ IF queue[s] = {}
       THEN Goto(s, "rows") /\ UNCHANGED <<req, queue>>
       ELSE \E c \in queue[s] :
              /\ \A d \in queue[s] : c <= d
              /\ Goto(s, "admins")
              /\ req' = [req EXCEPT ![s].company = c]
              /\ queue' = [queue EXCEPT ![s] = @ \ {c}]
    /\ UNCHANGED <<tables, holder, row, todo, admins, orphaned, heir>>

(* Another admin stays, or the company has no other member and is left     *)
(* empty; else the erasure is refused.                                     *)
DeleteAccountGuard(s) ==
    /\ pc[s] = "locking" /\ todo[s] = {} /\ req[s].op = "delete_account"
    /\ LET others == {k \in admins[s] : k[1] # req[s].user}
           strand == {k \in Members(req[s].company) : k[1] # req[s].user}
       IN  IF others = {} /\ strand # {}
           THEN Leave(s)
           ELSE /\ Goto(s, "next")
                /\ orphaned' = [orphaned EXCEPT ![s] =
                                  IF others = {} THEN @ \cup {req[s].company} ELSE @]
                /\ UNCHANGED <<tables, holder, req, row, todo, admins, queue, heir>>

--------------------------------------------------------------------------------
(* The writes of a request and its commit *)

(* uix_user_company_access_primary_per_user: at most one primary row per   *)
(* user; the loser of a race gets an IntegrityError and is rolled back.    *)
NoPrimaryIndex(u, mine) == FALSE
PrimaryClash(u, mine) == \E k \in Primaries(u) : k \notin mine

FinishSetRole(s) ==
    /\ req[s].op \in {"set_role", "assign"} /\ pc[s] = "finish"
    /\ access' = [access EXCEPT ![Key(s)].role = req[s].new]
    /\ assigned' = CASE row[s].role = "admin" /\ req[s].new # "admin" -> assigned \ {Key(s)}
                     [] row[s].role # "admin" /\ req[s].op = "assign" -> assigned \cup {Key(s)}
                     [] OTHER -> assigned
    /\ UNCHANGED <<listed, open, erased>>
    /\ End(s)

(* INSERT ... ON CONFLICT DO NOTHING: nothing is checked again. *)
FinishAssign(s) ==
    /\ pc[s] = "add"
    /\ assigned' = assigned \cup {Key(s)}
    /\ UNCHANGED <<access, listed, open, erased>>
    /\ End(s)

FinishUnassign(s) ==
    /\ req[s].op = "unassign" /\ pc[s] = "finish"
    /\ assigned' = assigned \ {Key(s)}
    /\ UNCHANGED <<access, listed, open, erased>>
    /\ End(s)

(* Boot and detach: the row (if this request deleted one), the user's      *)
(* assignments and directory profile in the company go, and another row    *)
(* becomes primary.                                                        *)
FinishRemoval(s) ==
    /\ req[s].op \in {"boot", "detach"} /\ pc[s] = "finish"
    /\ LET k    == Key(s)
           h    == Heir(s)
           how  == heir[s].how
           mine == {r \in {k} : holder[r] = s}
           role == IF how = "update" THEN access[h].role ELSE heir[s].role
           fails == how # "none" /\ (\/ Present(h) <=> (how = "insert")
                                     \/ PrimaryClash(req[s].user, mine \cup {h}))
       IN  /\ how \in {"update", "overwrite"} => Free(h, s)
           /\ IF fails
              THEN Leave(s)
              ELSE /\ access' = [r \in Keys |->
                                   CASE r \in mine -> Gone(r)
                                     [] r \notin mine /\ r = h /\ how # "none" ->
                                          [role |-> role, rank |-> "primary"]
                                     [] OTHER -> access[r]]
                   /\ assigned' = assigned \ {k}
                   /\ listed' = listed \ {k}
                   /\ UNCHANGED <<open, erased>>
                   /\ End(s)

(* Attach and join insert the row (a second insert of the same key is an   *)
(* IntegrityError) and make the directory profile active.                  *)
FinishInsert(s) ==
    /\ req[s].op \in {"attach", "join"} /\ pc[s] = "finish"
    /\ IF Present(Key(s)) \/ (row[s].rank = "primary" /\ PrimaryClash(req[s].user, {}))
       THEN Leave(s)
       ELSE /\ access' = [access EXCEPT ![Key(s)] = [role |-> "member", rank |-> row[s].rank]]
            /\ listed' = listed \cup {Key(s)}
            /\ UNCHANGED <<assigned, open, erased>>
            /\ End(s)

(* The row to make primary is read FOR UPDATE after the sweep: it may have *)
(* appeared, or gone, since.                                               *)
FinishSetPrimary(s) ==
    /\ req[s].op = "set_primary" /\ pc[s] = "finish"
    /\ IF ~Present(Key(s)) \/ PrimaryClash(req[s].user, Held(s) \cup {Key(s)})
       THEN Leave(s)
       ELSE /\ Free(Key(s), s)
            /\ access' = [r \in Keys |->
                            IF r = Key(s) THEN [access[r] EXCEPT !.rank = "primary"]
                            ELSE IF holder[r] = s THEN [access[r] EXCEPT !.rank = "other"]
                            ELSE access[r]]
            /\ UNCHANGED <<assigned, listed, open, erased>>
            /\ End(s)

(* The eraser deletes the rows it swept, every assignment and the link to  *)
(* the person; companies left empty lose their join code.                  *)
FinishDeleteAccount(s) ==
    /\ req[s].op = "delete_account" /\ pc[s] = "finish"
    /\ access' = [r \in Keys |-> IF holder[r] = s /\ r[1] = req[s].user THEN Gone(r) ELSE access[r]]
    /\ assigned' = {k \in assigned : k[1] # req[s].user}
    /\ listed' = {k \in listed : k[1] # req[s].user}
    /\ open' = [c \in Companies |-> open[c] /\ c \notin orphaned[s]]
    /\ erased' = erased \cup {req[s].user}
    /\ End(s)

(* SetJoinCodeUseCase: one read and one write of the company row. *)
SetJoinCode(c, enable) ==
    /\ "set_code" \in Ops
    /\ open' = [open EXCEPT ![c] = enable]
    /\ UNCHANGED <<access, assigned, listed, erased, holder, pc, req, locals>>

--------------------------------------------------------------------------------
(* Requests that do not finish *)

(* The rows the next statement of s has to lock. *)
Wanted(s) ==
    CASE pc[s] \in {"target", "delete"} -> {Key(s)}
      [] pc[s] \in {"locking", "sweep"} -> todo[s]
      [] pc[s] = "finish" /\ heir[s].how \in {"update", "overwrite"} -> {Heir(s)}
      [] pc[s] = "finish" /\ req[s].op = "set_primary" -> {Key(s)}
      [] OTHER -> {}

WaitsFor(s, t) ==
    /\ s # t
    /\ \E k \in Wanted(s) : holder[k] = t
    /\ \A k \in Wanted(s) : ~Free(k, s)

Deadlocked(s) ==
    \E S \in SUBSET Slots : s \in S /\ \A x \in S : \E y \in S : WaitsFor(x, y)

(* PostgreSQL's deadlock detector rolls one transaction of a cycle back. *)
DeadlockVictim(s) == Deadlocked(s) /\ Leave(s)

(* The worker is killed, or the connection lost: PostgreSQL rolls back. *)
Killed(s) == pc[s] # "idle" /\ Leave(s)

--------------------------------------------------------------------------------
(* Specification *)

(* Companies with an admin, members that are listed, at most one primary:  *)
(* what requests served one at a time leave behind.                        *)
Init ==
    /\ access \in [Keys -> Rows]
    /\ \A c \in Companies : Admins(c) # {}
    /\ \A u \in Users : \A k, l \in Primaries(u) : k = l
    /\ listed = {k \in Keys : Present(k)}
    /\ assigned = {}
    /\ open = [c \in Companies |-> TRUE]
    /\ erased = {}
    /\ holder = [k \in Keys |-> NoOne]
    /\ pc = [s \in Slots |-> "idle"]
    /\ req = [s \in Slots |-> NoReq]
    /\ row = [s \in Slots |-> NoRow]
    /\ todo = [s \in Slots |-> {}]
    /\ admins = [s \in Slots |-> {}]
    /\ queue = [s \in Slots |-> {}]
    /\ orphaned = [s \in Slots |-> {}]
    /\ heir = [s \in Slots |-> NoHeir]

Step(s) ==
    \/ LockTarget(s)
    \/ DetachRead(s) \/ SnapshotAdmins(s) \/ LockAdmin(s) \/ LastAdminGuard(s)
    \/ DeleteRow(s) \/ PickHeir(s) \/ GetHeir(s)
    \/ SnapshotRows(s) \/ SweepRow(s)
    \/ AttachRead(s) \/ JoinRead(s) \/ AssignRead(s) \/ UnassignRead(s)
    \/ DeleteAccountRead(s) \/ DeleteAccountNext(s) \/ DeleteAccountGuard(s)
    \/ FinishSetRole(s) \/ FinishAssign(s) \/ FinishUnassign(s) \/ FinishRemoval(s)
    \/ FinishInsert(s) \/ FinishSetPrimary(s) \/ FinishDeleteAccount(s)

Next ==
    \/ \E s \in Slots, op \in Ops \ {"set_code"}, u \in Users, c \in Companies,
          new \in Roles \cup {"none"} : Request(s, op, u, c, new)
    \/ \E s \in Slots : Step(s) \/ DeadlockVictim(s) \/ Killed(s)
    \/ \E c \in Companies, enable \in BOOLEAN : SetJoinCode(c, enable)

Spec == Init /\ [][Next]_vars

(* A request's thread is scheduled again as long as it can go on, a waiter *)
(* of a row lock is served in turn (PostgreSQL queues them), and the       *)
(* deadlock detector runs after deadlock_timeout.                          *)
FairSpec ==
    /\ Spec
    /\ \A s \in Slots : SF_vars(Step(s)) /\ WF_vars(DeadlockVictim(s))

--------------------------------------------------------------------------------
(* Properties *)

(* A busy slot has a request, and the requests for a role name one.        *)
Serving(s) ==
    /\ pc[s] # "idle" => req[s] # NoReq
    /\ req[s].op \in {"set_role", "assign"} => req[s].new # "none"

TypeOK ==
    /\ access \in [Keys -> Rows]
    /\ assigned \subseteq Keys /\ listed \subseteq Keys
    /\ open \in [Companies -> BOOLEAN] /\ erased \subseteq Users
    /\ holder \in [Keys -> Slots \cup {NoOne}]
    /\ pc \in [Slots -> PCs]
    /\ req \in [Slots -> Requests \cup {NoReq}]
    /\ \A s \in Slots : Serving(s)
    /\ row \in [Slots -> Rows]
    /\ todo \in [Slots -> SUBSET Keys] /\ admins \in [Slots -> SUBSET Keys]
    /\ queue \in [Slots -> SUBSET Companies] /\ orphaned \in [Slots -> SUBSET Companies]
    /\ heir \in [Slots -> Heirs]

(* The request of s went through the last-admin guard: it is a role        *)
(* change, a boot, or a detach that saw itself as an admin.                *)
Guarded(s) ==
    \/ req[s].op \in {"set_role", "assign", "boot"}
    \/ req[s].op = "detach" /\ row[s].role = "admin"

(* Demotions, boots and guarded detaches of different admins, however they *)
(* overlap, never take the last admin of their company: the other admin    *)
(* that the count relied on is still one when the request commits.         *)
(* (SetMemberRoleUseCase, BootAttachedUserUseCase, DetachCompanyUseCase).  *)
GuardKeepsAnAdmin ==
    [][\A s \in Slots, c \in Companies :
         /\ Guarded(s) /\ pc'[s] = "idle" /\ req[s].company = c
         /\ Admins(c) # {}
         => Admins(c)' # {}]_vars

(* A company that has an admin keeps one, whatever requests overlap, as    *)
(* the docstring of DetachCompanyUseCase says: violated.                   *)
CompanyKeepsAdmin == [][\A c \in Companies : Admins(c) # {} => Admins(c)' # {}]_vars

(* A company with an admin is never left with members only: an account     *)
(* deletion is refused first (DeleteAccountUseCase).                       *)
NoOneStranded ==
    [][\A c \in Companies : Admins(c) # {} /\ Members(c)' # {} => Admins(c)' # {}]_vars

(* A user has at most one primary company, whatever joins, detaches and    *)
(* switches overlap (uq_user_company_access_primary and the sweep of       *)
(* clear_primary_for_user).                                                *)
OnePrimary == \A u \in Users : \A k, l \in Primaries(u) : k = l

(* Everyone attached to a company has an active profile in its directory   *)
(* (the invariant of ensure_company_person).                               *)
ListedIfAttached == \A k \in Keys : Present(k) => k \in listed

(* Whoever is assigned to a project belongs to its company, since "a       *)
(* stranger cannot be assigned" (assignments.py): violated.                *)
AssignedIsAttached == \A k \in assigned : Present(k)

(* Every request ends, also when requests lock each other out, or one is   *)
(* rolled back while others wait for its rows.                             *)
EveryRequestEnds == \A s \in Slots : pc[s] # "idle" ~> pc[s] = "idle"
================================================================================
