----------------------------- MODULE PeopleProofs -----------------------------
(***************************************************************************)
(* Permissions, for any permissions and scopes a company customises, any   *)
(* number of overlapping requests and any order of them: refusals stand,   *)
(* who has no part in a project changes nothing on it, the menus hide only *)
(* what no project allows, overlapping decisions never end in a database   *)
(* error, and grants end with what they were given for.                    *)
(*                                                                         *)
(* Nothing locks the rows between the check of a request and its writes.   *)
(* What holds on to them is that rows only ever get a permission the use   *)
(* case lets be set (OnlySettable), that the decisions are dropped with    *)
(* the person (Away), and that a row is never taken away as long as        *)
(* requests only set (Stays).                                              *)
(*                                                                         *)
(* The directory of company persons, for any companies, numbers and        *)
(* persons: a number is listed once, whoever is attached is listed, and an *)
(* invitation stands until it is taken up or ended.  It is proved for      *)
(* every combination of operations that is Apart; what ties the profiles   *)
(* of a person to the number they have is Owned, and what ties them to the *)
(* invitations made is Backed and Expected.                                *)
(*                                                                         *)
(* Sign-in, for any limits, times and numbers of accounts, tokens and      *)
(* requests at once: a row that is being judged stays as it was read, so   *)
(* its attempts are the wrong guesses; and what barred a refresh token     *)
(* once (Dead) bars it for as long as it lives.                            *)
(***************************************************************************)
EXTENDS MCPeople, FiniteSetTheorems, WellFoundedInduction, TLAPS

Effects == {"grant", "deny"}
Roles   == {"member", "manager", "admin"}
Row     == [id : Nat, effect : Effects]
Ops     == {"none", "set", "remove", "unassign", "assign", "leave", "role", "join"}
Steps   == {"idle", "find", "write"}
Jobs    == [op : Ops, key : mix.keys \cup {None}, effect : Effects \cup Roles \cup {None},
            project : Projects \cup {None}, clears : BOOLEAN, seen : Row \cup {None}, again : BOOLEAN]

TypedRows == /\ rows \in [mix.keys -> Row \cup {None}] /\ made \in Nat
             /\ decided \in [mix.keys -> Effects \cup {None}]
TypedPeople == role \in Roles \cup {None} /\ assigned \subseteq Projects
TypedJobs == pc \in [Slots -> Steps] /\ job \in [Slots -> Jobs]
Typed == mix \in Mixes /\ failed \in BOOLEAN /\ TypedPeople /\ TypedRows /\ TypedJobs

(* What a request in hand has been let through with. *)
Let(stage, j) == stage # "idle" =>
    /\ j.op \in mix.ops
    /\ j.op \in {"set", "remove"} => j.key \in mix.keys
    /\ j.op = "set" => Settable(j.key) /\ j.effect \in Effects
    /\ j.op = "role" => j.effect \in mix.roles
    /\ j.op \in {"assign", "unassign"} => j.project \in Projects
    /\ stage = "find" => j.op \in {"set", "remove"}
    /\ stage = "write" /\ j.op = "remove" => j.seen # None
Asked(s) == Let(pc[s], job[s])

OnlySettable == \A k \in mix.keys : rows[k] # None => Settable(k)

(* Nobody has decided anything for who is not attached. *)
Away == role = None => \A k \in mix.keys : decided[k] = None

(* While requests only set, a row that was seen is there, and the same one. *)
Seen(stage, j) == stage # "idle" =>
    /\ j.again => rows[j.key] # None
    /\ stage = "write" /\ j.seen # None => rows[j.key] # None /\ rows[j.key].id = j.seen.id
Stays(s) == Seen(pc[s], job[s])
Kept == mix.ops = {"set"} => ~failed /\ \A s \in Slots : Stays(s)

Tables == OnlySettable /\ Away /\ RefusalsStand
IInv == Typed /\ Tables /\ Kept /\ \A s \in Slots : Asked(s)

(* As long as nobody leaves under a request, and nobody becomes an admin:   *)
(* a grant is set on, and a project taken from, who is still attached.      *)
Single == \A s, t \in Slots : pc[s] # "idle" /\ pc[t] # "idle" => s = t
HeldBy(stage, j) == stage # "idle" =>
    /\ j.op = "set" => role # None
    /\ j.op = "unassign" /\ ~j.clears => role = None
Present(s) == HeldBy(pc[s], job[s])
Gone == role = None => mix.alone /\ \A k \in mix.keys : rows[k] = None
Fresh == Settled => NothingInherited /\ role # "admin" /\ Gone /\ (mix.alone => Single)
                    /\ \A s \in Slots : Present(s)

--------------------------------------------------------------------------------
(* What the resolver gives, in any state of the right types.               *)

(* Only what the use case lets be set is ever granted. *)
LEMMA GrantedIsSettable ==
    ASSUME Constants, Typed, OnlySettable, NEW scopes, NEW perm \in GrantsFor(scopes, "grant")
    PROVE  perm \in Customisable
  <1>1. PICK k \in mix.keys : Effect(k) = "grant" /\ perm = k.perm
    BY DEF GrantsFor
  <1>2. rows[k] # None
    BY <1>1 DEF Effect, Constants
  <1> QED
    BY <1>1, <1>2 DEF OnlySettable, Settable

(* Nobody changes anything on a project they have no part in.              *)
LEMMA OutsidersStayOut ==
    ASSUME Constants, Typed, OnlySettable
    PROVE  OutsidersOut
  <1> SUFFICES ASSUME NEW p \in Projects, role # "admin", p \notin assigned, NEW perm \in Customisable
               PROVE  ~CanMutate(p, perm) /\ (MayCall(p, perm) => perm \in CompanyWideOnly)
    BY DEF OutsidersOut
  <1>1. PermissionsFor(role, p \in assigned) \subseteq {"user:read"}
    <2>1. role \in {"member", "manager", None}
      BY DEF Typed, TypedPeople, Roles
    <2> QED
      BY <2>1 DEF PermissionsFor, UnassignedPermissions, Constants
  <1>2. "project:read" \notin PermissionsFor(role, p \in assigned)
    BY <1>1
  <1>3. "project:read" \notin GrantsFor({Wide, p}, "grant")
    <2>1. "project:read" \notin Customisable
      BY DEF Customisable, CompanyWideOnly
    <2> QED
      BY <2>1, GrantedIsSettable
  <1>4. ~CanRead(p)
    BY <1>2, <1>3 DEF CanRead, EffectivePermissions, Resolved
  <1> QED
    BY <1>4 DEF CanMutate, MayCall

(* What the menus hide, no project allows but by a grant of its own.       *)
LEMMA MenusAreOptimistic ==
    ASSUME Constants, Typed
    PROVE  HintIsOptimistic
  <1> SUFFICES ASSUME NEW p \in Projects, NEW perm \in EffectivePermissions(p)
               PROVE  perm \in PermissionsInCompany \cup GrantsFor({p}, "grant")
    BY DEF HintIsOptimistic
  <1> DEFINE base == PermissionsFor(role, p \in assigned)
             menu == PermissionsFor(role, role = "admin" \/ assigned # {})
  <1>1. role # None
    BY DEF EffectivePermissions
  <1>2. /\ perm \in base \/ perm \in GrantsFor({Wide, p}, "grant")
        /\ perm \notin WithImpliedDenies(GrantsFor({Wide, p}, "deny")) \ NonDeniable
    BY <1>1 DEF EffectivePermissions, Resolved
  <1>3. base \subseteq menu
    <2>1. role \in {"member", "manager", "admin"}
      BY <1>1 DEF Typed, TypedPeople, Roles
    <2>2. CASE p \in assigned \/ role = "admin"
      BY <2>1, <2>2, assigned # {} \/ role = "admin" DEF PermissionsFor
    <2>3. CASE p \notin assigned /\ role # "admin"
      <3>1. base = UnassignedPermissions
        BY <2>1, <2>3, <1>1 DEF PermissionsFor
      <3> QED
        BY <2>1, <1>1, <3>1 DEF PermissionsFor
    <2> QED
      BY <2>2, <2>3
  <1>4. perm \in GrantsFor({Wide, p}, "grant") =>
            perm \in GrantsFor({Wide}, "grant") \cup GrantsFor({p}, "grant")
    BY DEF GrantsFor
  <1>5. GrantsFor({Wide}, "deny") \subseteq GrantsFor({Wide, p}, "deny")
    BY DEF GrantsFor
  <1>6. WithImpliedDenies(GrantsFor({Wide}, "deny")) \subseteq WithImpliedDenies(GrantsFor({Wide, p}, "deny"))
    BY <1>5 DEF WithImpliedDenies
  <1> QED
    BY <1>1, <1>2, <1>3, <1>4, <1>6 DEF PermissionsInCompany, Resolved

--------------------------------------------------------------------------------
(* The inductive invariant                                                 *)

LEMMA InitInv == Constants /\ Init => IInv
  <1> SUFFICES ASSUME Constants, Init PROVE IInv
    OBVIOUS
  <1>1. TypedRows
    BY DEF Init, TypedRows
  <1>2. TypedPeople
    BY DEF Init, TypedPeople, Roles
  <1>3. Idle \in Jobs
    BY DEF Idle, Jobs, Ops
  <1>4. TypedJobs
    BY <1>3 DEF Init, TypedJobs, Steps
  <1>5. Tables
    BY DEF Init, Tables, OnlySettable, Away, RefusalsStand, Effect, Constants
  <1>6. Kept /\ \A s \in Slots : Asked(s)
    BY DEF Init, Kept, Stays, Seen, Asked, Let
  <1> QED
    BY <1>1, <1>2, <1>4, <1>5, <1>6 DEF IInv, Typed, Init

(* What a step does to the requests in hand. *)
LEMMA Went ==
    ASSUME Typed, NEW s \in Slots, NEW stage \in Steps, NEW j \in Jobs, Go(s, stage, j), UNCHANGED mix
    PROVE  /\ TypedJobs' /\ pc'[s] = stage /\ job'[s] = j
           /\ \A t \in Slots \ {s} : pc'[t] = pc[t] /\ job'[t] = job[t]
  <1>1. Jobs' = Jobs
    BY DEF Jobs
  <1> QED
    BY <1>1 DEF Go, Typed, TypedJobs

LEMMA IdleJob == Idle \in Jobs
  BY DEF Idle, Jobs, Ops

LEMMA AskedKept ==
    ASSUME IInv, NEW s \in Slots, NEW stage \in Steps, NEW j \in Jobs, Go(s, stage, j), UNCHANGED mix,
           Let(stage, j)
    PROVE  \A t \in Slots : Asked(t)'
  <1>1. Typed
    BY DEF IInv
  <1> TAKE t \in Slots
  <1>2. (pc'[t] = stage /\ job'[t] = j) \/ (pc'[t] = pc[t] /\ job'[t] = job[t])
    BY <1>1, Went
  <1>3. Asked(t)
    BY DEF IInv
  <1> QED
    BY <1>2, <1>3 DEF Asked, Let, Settable

(* The rows that were there are there, and the same ones. *)
RowsStay == \A k \in mix.keys : rows[k] # None => rows'[k] # None /\ rows'[k].id = rows[k].id

LEMMA SeenKept ==
    ASSUME IInv, NEW s \in Slots, NEW stage \in Steps, NEW j \in Jobs, Go(s, stage, j), UNCHANGED mix,
           RowsStay, mix.ops = {"set"}, failed' = FALSE, stage # "idle" => j.key \in mix.keys, Seen(stage, j)'
    PROVE  Kept'
  <1>1. Typed
    BY DEF IInv
  <1>2. ASSUME NEW t \in Slots PROVE Stays(t)'
    <2>1. CASE t = s
      BY <2>1, <1>1, Went DEF Stays, Seen
    <2>2. CASE t # s
      <3>1. pc'[t] = pc[t] /\ job'[t] = job[t]
        BY <2>2, <1>1, Went
      <3>2. Stays(t) /\ Asked(t)
        BY DEF IInv, Kept
      <3>3. pc[t] # "idle" => job[t].key \in mix.keys
        BY <3>2 DEF Asked, Let
      <3> QED
        BY <3>1, <3>2, <3>3 DEF Stays, Seen, RowsStay
    <2> QED
      BY <2>1, <2>2
  <1> QED
    BY <1>2 DEF Kept

(* Only a mix of other requests runs another request. *)
LEMMA OtherThanSet ==
    ASSUME IInv, NEW s \in Slots, pc[s] # "idle", job[s].op # "set", UNCHANGED mix
    PROVE  Kept'
  BY DEF IInv, Asked, Let, Kept

(* A request begins: it changes no table. *)
LEMMA BeginStep ==
    ASSUME IInv, NEW s \in Slots, NEW op, Begin(s, op), NEW stage \in Steps, NEW j \in Jobs,
           Go(s, stage, j), Let(stage, j), ~j.again, j.seen = None, stage # "idle" /\ j.op = op
    PROVE  IInv'
  <1>1. Typed /\ UNCHANGED mix
    BY DEF IInv, Begin
  <1>2. Typed'
    BY <1>1, Went DEF Typed, Begin, tables, TypedPeople, TypedRows
  <1>3. Tables'
    BY DEF IInv, Begin, tables, Tables, OnlySettable, Away, RefusalsStand, Effect, Settable
  <1>4. \A t \in Slots : Asked(t)'
    BY <1>1, AskedKept
  <1>5. Kept'
    <2>1. CASE mix.ops # {"set"}
      BY <2>1, <1>1 DEF Kept
    <2>2. CASE mix.ops = {"set"}
      <3>1. RowsStay /\ failed' = FALSE
        BY DEF Begin, tables, RowsStay
      <3>2. Seen(stage, j)'
        BY DEF Seen
      <3>3. j.key \in mix.keys
        BY <2>2 DEF Let
      <3> QED
        BY <1>1, <2>2, <3>1, <3>2, <3>3, SeenKept
    <2> QED
      BY <2>1, <2>2
  <1> QED
    BY <1>2, <1>3, <1>4, <1>5 DEF IInv

LEMMA SetGrantStep ==
    ASSUME Constants, IInv, NEW s \in Slots, SetGrant(s)
    PROVE  IInv'
  <1>1. PICK k \in mix.keys, e \in Effects :
            Settable(k) /\ Go(s, "find", [Idle EXCEPT !.op = "set", !.key = k, !.effect = e])
    BY DEF SetGrant, Effects
  <1> DEFINE j == [Idle EXCEPT !.op = "set", !.key = k, !.effect = e]
  <1>2. j \in Jobs /\ ~j.again /\ j.seen = None /\ j.op = "set" /\ j.key = k /\ j.effect = e
    BY DEF Idle, Jobs, Ops
  <1>3. Begin(s, "set") /\ "set" \in mix.ops
    BY DEF SetGrant, Begin
  <1> HIDE DEF j
  <1>4. Let("find", j)
    BY <1>1, <1>2, <1>3 DEF Let
  <1>5. Go(s, "find", j)
    BY <1>1 DEF j
  <1> QED
    BY <1>2, <1>3, <1>4, <1>5, BeginStep DEF Steps

LEMMA RemoveGrantStep ==
    ASSUME Constants, IInv, NEW s \in Slots, RemoveGrant(s)
    PROVE  IInv'
  <1>1. PICK k \in mix.keys : Go(s, "find", [Idle EXCEPT !.op = "remove", !.key = k])
    BY DEF RemoveGrant
  <1> DEFINE j == [Idle EXCEPT !.op = "remove", !.key = k]
  <1>2. j \in Jobs /\ ~j.again /\ j.seen = None /\ j.op = "remove" /\ j.key = k
    BY DEF Idle, Jobs, Ops
  <1>3. Begin(s, "remove") /\ "remove" \in mix.ops
    BY DEF RemoveGrant, Begin
  <1> HIDE DEF j
  <1>4. Let("find", j)
    BY <1>1, <1>2, <1>3 DEF Let
  <1>5. Go(s, "find", j)
    BY <1>1 DEF j
  <1> QED
    BY <1>2, <1>3, <1>4, <1>5, BeginStep DEF Steps

LEMMA UnassignStep ==
    ASSUME Constants, IInv, NEW s \in Slots, Unassign(s)
    PROVE  IInv'
  <1>1. PICK p \in Projects :
            Go(s, "write", [Idle EXCEPT !.op = "unassign", !.project = p, !.clears = role # None])
    BY DEF Unassign
  <1> DEFINE j == [Idle EXCEPT !.op = "unassign", !.project = p, !.clears = role # None]
  <1>2. j \in Jobs /\ ~j.again /\ j.seen = None /\ j.op = "unassign" /\ j.project = p
    <2>1. (role # None) \in BOOLEAN
      OBVIOUS
    <2> QED
      BY <2>1 DEF Idle, Jobs, Ops
  <1>3. Begin(s, "unassign") /\ "unassign" \in mix.ops
    BY DEF Unassign, Begin
  <1> HIDE DEF j
  <1>4. Let("write", j)
    BY <1>1, <1>2, <1>3 DEF Let
  <1>5. Go(s, "write", j)
    BY <1>1 DEF j
  <1> QED
    BY <1>2, <1>3, <1>4, <1>5, BeginStep DEF Steps

LEMMA AssignStep ==
    ASSUME Constants, IInv, NEW s \in Slots, Assign(s)
    PROVE  IInv'
  <1>1. PICK p \in Projects : Go(s, "write", [Idle EXCEPT !.op = "assign", !.project = p])
    BY DEF Assign
  <1> DEFINE j == [Idle EXCEPT !.op = "assign", !.project = p]
  <1>2. j \in Jobs /\ ~j.again /\ j.seen = None /\ j.op = "assign" /\ j.project = p
    BY DEF Idle, Jobs, Ops
  <1>3. Begin(s, "assign") /\ "assign" \in mix.ops
    BY DEF Assign, Begin
  <1> HIDE DEF j
  <1>4. Let("write", j)
    BY <1>1, <1>2, <1>3 DEF Let
  <1>5. Go(s, "write", j)
    BY <1>1 DEF j
  <1> QED
    BY <1>2, <1>3, <1>4, <1>5, BeginStep DEF Steps

LEMMA DepartStep ==
    ASSUME Constants, IInv, NEW s \in Slots, Depart(s)
    PROVE  IInv'
  <1> DEFINE j == [Idle EXCEPT !.op = "leave"]
  <1>1. j \in Jobs /\ ~j.again /\ j.seen = None /\ j.op = "leave"
    BY DEF Idle, Jobs, Ops
  <1>2. Begin(s, "leave") /\ "leave" \in mix.ops /\ Go(s, "write", j)
    BY DEF Depart, Begin
  <1> HIDE DEF j
  <1>3. Let("write", j)
    BY <1>1, <1>2 DEF Let
  <1> QED
    BY <1>1, <1>2, <1>3, BeginStep DEF Steps

LEMMA SetRoleStep ==
    ASSUME Constants, IInv, NEW s \in Slots, SetRole(s)
    PROVE  IInv'
  <1>1. PICK r \in mix.roles : Go(s, "write", [Idle EXCEPT !.op = "role", !.effect = r])
    BY DEF SetRole
  <1> DEFINE j == [Idle EXCEPT !.op = "role", !.effect = r]
  <1>2. j \in Jobs /\ ~j.again /\ j.seen = None /\ j.op = "role" /\ j.effect = r
    <2>1. r \in Roles
      BY DEF IInv, Typed, Constants, Roles
    <2> QED
      BY <2>1 DEF Idle, Jobs, Ops
  <1>3. Begin(s, "role") /\ "role" \in mix.ops
    BY DEF SetRole, Begin
  <1> HIDE DEF j
  <1>4. Let("write", j)
    BY <1>1, <1>2, <1>3 DEF Let
  <1>5. Go(s, "write", j)
    BY <1>1 DEF j
  <1> QED
    BY <1>2, <1>3, <1>4, <1>5, BeginStep DEF Steps

LEMMA RejoinStep ==
    ASSUME Constants, IInv, NEW s \in Slots, Rejoin(s)
    PROVE  IInv'
  <1> DEFINE j == [Idle EXCEPT !.op = "join"]
  <1>1. j \in Jobs /\ ~j.again /\ j.seen = None /\ j.op = "join"
    BY DEF Idle, Jobs, Ops
  <1>2. Begin(s, "join") /\ "join" \in mix.ops /\ Go(s, "write", j)
    BY DEF Rejoin, Begin
  <1> HIDE DEF j
  <1>3. Let("write", j)
    BY <1>1, <1>2 DEF Let
  <1> QED
    BY <1>1, <1>2, <1>3, BeginStep DEF Steps

LEMMA FindRowStep ==
    ASSUME Constants, IInv, NEW s \in Slots, FindRow(s)
    PROVE  IInv'
  <1>1. Typed /\ Asked(s) /\ pc[s] = "find" /\ UNCHANGED mix /\ job[s] \in Jobs
    BY DEF IInv, Typed, TypedJobs, FindRow
  <1>2. job[s].key \in mix.keys /\ job[s].op \in {"set", "remove"}
    BY <1>1 DEF Asked, Let
  <1> DEFINE found == rows[job[s].key]
             lost == found = None /\ (job[s].op = "remove" \/ job[s].again)
  <1>3. found \in Row \cup {None}
    BY <1>1, <1>2 DEF Typed, TypedRows
  <1>4. PICK j \in Jobs : j = [job[s] EXCEPT !.seen = found]
    BY <1>1, <1>3 DEF Jobs
  <1>5. /\ failed' = (lost /\ job[s].op = "set")
        /\ IF lost THEN Go(s, "idle", Idle) ELSE Go(s, "write", j)
    BY <1>4 DEF FindRow, Done
  <1>6. j.op = job[s].op /\ j.key = job[s].key /\ j.effect = job[s].effect /\ j.project = job[s].project
        /\ j.again = job[s].again /\ j.seen = found
    BY <1>1, <1>4 DEF Jobs
  <1>7. UNCHANGED <<role, assigned, rows, made, decided>>
    BY DEF FindRow, tables
  <1>8. ~lost => Let("write", j)
    BY <1>1, <1>2, <1>6 DEF Asked, Let
  <1>9. Tables'
    BY <1>1, <1>7 DEF IInv, Tables, OnlySettable, Away, RefusalsStand, Effect, Settable
  <1>10. TypedRows' /\ TypedPeople' /\ failed' \in BOOLEAN /\ mix' \in Mixes
    BY <1>1, <1>5, <1>7 DEF Typed, TypedRows, TypedPeople
  <1>11. CASE lost
    <2>1. Go(s, "idle", Idle)
      BY <1>5, <1>11
    <2>2. Typed' /\ \A t \in Slots : Asked(t)'
      BY <2>1, <1>1, <1>10, IdleJob, Went, AskedKept DEF Typed, Steps, Let
    <2>3. Kept'
      <3>1. CASE mix.ops # {"set"}
        BY <3>1, <1>1 DEF Kept
      <3>2. CASE mix.ops = {"set"}
        <4>1. job[s].op = "set" /\ ~job[s].again
          BY <3>2, <1>1, <1>2, <1>11 DEF IInv, Kept, Asked, Let, Stays, Seen
        <4> QED
          BY <4>1, <1>11
      <3> QED
        BY <3>1, <3>2
    <2> QED
      BY <2>2, <2>3, <1>9 DEF IInv
  <1>12. CASE ~lost
    <2>1. Go(s, "write", j) /\ failed' = FALSE
      BY <1>5, <1>12
    <2>2. Typed' /\ \A t \in Slots : Asked(t)'
      BY <2>1, <1>1, <1>4, <1>8, <1>10, <1>12, Went, AskedKept DEF Typed, Steps
    <2>3. Kept'
      <3>1. CASE mix.ops # {"set"}
        BY <3>1, <1>1 DEF Kept
      <3>2. CASE mix.ops = {"set"}
        <4>1. job[s].again => rows[job[s].key] # None
          BY <3>2, <1>1 DEF IInv, Kept, Stays, Seen
        <4>2. Seen("write", j)'
          BY <4>1, <1>6, <1>7 DEF Seen
        <4>3. RowsStay
          BY <1>7 DEF RowsStay
        <4> QED
          BY <1>1, <1>2, <1>4, <1>6, <2>1, <3>2, <4>2, <4>3, SeenKept DEF Steps
      <3> QED
        BY <3>1, <3>2
    <2> QED
      BY <2>2, <2>3, <1>9 DEF IInv
  <1> QED
    BY <1>11, <1>12

LEMMA InsertGrantStep ==
    ASSUME Constants, IInv, NEW s \in Slots, InsertGrant(s)
    PROVE  IInv'
  <1>1. Typed /\ Asked(s) /\ pc[s] = "write" /\ job[s].op = "set" /\ UNCHANGED mix /\ job[s] \in Jobs
    BY DEF IInv, Typed, TypedJobs, InsertGrant, At
  <1> DEFINE k == job[s].key
             row == [id |-> made + 1, effect |-> job[s].effect]
  <1>2. k \in mix.keys /\ Settable(k) /\ job[s].effect \in Effects
    BY <1>1 DEF Asked, Let
  <1>3. row \in Row /\ row # None /\ row.effect = job[s].effect
    BY <1>1, <1>2 DEF Typed, TypedRows, Row, Constants, Effects
  <1>4. failed' = FALSE /\ UNCHANGED <<role, assigned>> /\ job[s].seen = None
    BY DEF InsertGrant
  <1>5. TypedPeople' /\ failed' \in BOOLEAN /\ mix' \in Mixes
    BY <1>1, <1>4 DEF Typed, TypedPeople
  <1>6. CASE rows[k] = None
    <2>1. /\ rows' = [rows EXCEPT ![k] = row] /\ made' = made + 1
          /\ decided' = IF role = None THEN decided ELSE [decided EXCEPT ![k] = job[s].effect]
          /\ Go(s, "idle", Idle)
      BY <1>6 DEF InsertGrant, Done
    <2> HIDE DEF row
    <2>2. \A l \in mix.keys : rows'[l] = IF l = k THEN row ELSE rows[l]
      BY <2>1, <1>1, <1>2 DEF Typed, TypedRows
    <2>3. \A l \in mix.keys : decided'[l] = IF l = k /\ role # None THEN job[s].effect ELSE decided[l]
      BY <2>1, <1>1, <1>2 DEF Typed, TypedRows
    <2>4. TypedRows'
      BY <2>1, <1>1, <1>2, <1>3 DEF Typed, TypedRows
    <2>5. Typed' /\ \A t \in Slots : Asked(t)'
      BY <2>1, <2>4, <1>1, <1>5, IdleJob, Went, AskedKept DEF Typed, Steps, Let
    <2>6. OnlySettable' /\ Away'
      BY <2>2, <2>3, <1>1, <1>2, <1>4 DEF IInv, Tables, OnlySettable, Away, Settable
    <2>7. RefusalsStand'
      <3> SUFFICES ASSUME NEW l \in mix.keys, decided'[l] = "deny"
                   PROVE  rows'[l] # None /\ rows'[l].effect = "deny"
        BY <1>1 DEF RefusalsStand, Effect
      <3>1. decided[l] = "deny" => rows[l] # None /\ rows[l].effect = "deny"
        BY DEF IInv, Tables, RefusalsStand, Effect, Constants
      <3>2. CASE l = k
        <4>1. decided[l] # "deny"
          BY <3>1, <3>2, <1>6
        <4> QED
          BY <4>1, <3>2, <2>2, <2>3, <1>3
      <3>3. CASE l # k
        BY <3>1, <3>3, <2>2, <2>3
      <3> QED
        BY <3>2, <3>3
    <2>8. RowsStay
      BY <2>2, <1>6 DEF RowsStay
    <2>9. Kept'
      <3>1. Seen("idle", Idle)'
        BY DEF Seen
      <3>2. CASE mix.ops # {"set"}
        BY <3>2, <1>1 DEF Kept
      <3>3. CASE mix.ops = {"set"}
        BY <3>1, <3>3, <2>1, <2>8, <1>1, <1>4, IdleJob, SeenKept DEF Steps
      <3> QED
        BY <3>2, <3>3
    <2> QED
      BY <2>5, <2>6, <2>7, <2>9 DEF IInv, Tables
  <1>7. CASE rows[k] # None
    <2>0. PICK j \in Jobs : j = [job[s] EXCEPT !.again = TRUE]
      BY <1>1 DEF Jobs
    <2>1. Go(s, "find", j) /\ UNCHANGED <<rows, made, decided>>
      BY <1>7, <2>0 DEF InsertGrant
    <2>2. /\ j.op = "set" /\ j.key = k /\ j.effect = job[s].effect
      BY <1>1, <2>0 DEF Jobs
    <2>3. Let("find", j)
      BY <2>2, <1>1, <1>2 DEF Asked, Let
    <2>4. TypedRows' /\ Tables'
      BY <2>1, <1>1, <1>4 DEF IInv, Typed, TypedRows, Tables, OnlySettable, Away, RefusalsStand, Effect, Settable
    <2>5. Typed' /\ \A t \in Slots : Asked(t)'
      BY <2>1, <2>2, <2>3, <2>4, <1>1, <1>5, Went, AskedKept DEF Typed, Steps
    <2>6. RowsStay
      BY <2>1 DEF RowsStay
    <2>7. Seen("find", j)'
      BY <2>1, <2>2, <1>7 DEF Seen
    <2>8. Kept'
      <3>1. CASE mix.ops # {"set"}
        BY <3>1, <1>1 DEF Kept
      <3>2. CASE mix.ops = {"set"}
        BY <2>1, <2>2, <2>6, <2>7, <3>2, <1>1, <1>2, <1>4, SeenKept DEF Steps
      <3> QED
        BY <3>1, <3>2
    <2> QED
      BY <2>4, <2>5, <2>8 DEF IInv
  <1> QED
    BY <1>6, <1>7

LEMMA UpdateGrantStep ==
    ASSUME Constants, IInv, NEW s \in Slots, UpdateGrant(s)
    PROVE  IInv'
  <1>1. /\ Typed /\ Asked(s) /\ pc[s] = "write" /\ job[s].op = "set" /\ job[s].seen # None
        /\ UNCHANGED mix /\ job[s] \in Jobs
    BY DEF IInv, Typed, TypedJobs, UpdateGrant, At
  <1> DEFINE k == job[s].key
             row == [rows[k] EXCEPT !.effect = job[s].effect]
  <1>2. k \in mix.keys /\ Settable(k) /\ job[s].effect \in Effects
    BY <1>1 DEF Asked, Let
  <1>3. /\ failed' = ~SameRow(s) /\ UNCHANGED <<role, assigned, made>> /\ Go(s, "idle", Idle)
        /\ rows' = IF SameRow(s) THEN [rows EXCEPT ![k] = row] ELSE rows
        /\ decided' = IF SameRow(s) /\ role # None THEN [decided EXCEPT ![k] = job[s].effect] ELSE decided
    BY DEF UpdateGrant, Done
  <1>4. SameRow(s) => /\ rows[k] \in Row /\ row \in Row /\ row # None
                      /\ row.effect = job[s].effect /\ row.id = rows[k].id
    BY <1>1, <1>2 DEF SameRow, Typed, TypedRows, Row, Constants, Effects
  <1> HIDE DEF row
  <1>5. \A l \in mix.keys : rows'[l] = IF l = k /\ SameRow(s) THEN row ELSE rows[l]
    BY <1>1, <1>2, <1>3 DEF Typed, TypedRows
  <1>6. \A l \in mix.keys :
            decided'[l] = IF l = k /\ SameRow(s) /\ role # None THEN job[s].effect ELSE decided[l]
    BY <1>1, <1>2, <1>3 DEF Typed, TypedRows
  <1>7. TypedRows'
    BY <1>1, <1>2, <1>3, <1>4 DEF Typed, TypedRows
  <1>8. Typed' /\ \A t \in Slots : Asked(t)'
    <2>1. failed' \in BOOLEAN
      BY <1>3
    <2> QED
      BY <2>1, <1>1, <1>3, <1>7, IdleJob, Went, AskedKept DEF Typed, TypedPeople, Steps, Let
  <1>9. OnlySettable' /\ Away'
    BY <1>1, <1>2, <1>3, <1>5, <1>6 DEF IInv, Tables, OnlySettable, Away, Settable
  <1>10. RefusalsStand'
    <2> SUFFICES ASSUME NEW l \in mix.keys, decided'[l] = "deny"
                 PROVE  rows'[l] # None /\ rows'[l].effect = "deny"
      BY <1>1 DEF RefusalsStand, Effect
    <2>1. decided[l] = "deny" => rows[l] # None /\ rows[l].effect = "deny"
      BY DEF IInv, Tables, RefusalsStand, Effect, Constants
    <2>2. role = None => decided[l] # "deny"
      BY DEF IInv, Tables, Away, Constants
    <2>3. CASE l = k /\ SameRow(s)
      BY <2>2, <2>3, <1>3, <1>4, <1>5, <1>6
    <2>4. CASE ~(l = k /\ SameRow(s))
      BY <2>1, <2>4, <1>5, <1>6
    <2> QED
      BY <2>3, <2>4
  <1>11. Kept'
    <2>1. CASE mix.ops # {"set"}
      BY <2>1, <1>1 DEF Kept
    <2>2. CASE mix.ops = {"set"}
      <3>1. SameRow(s)
        BY <2>2, <1>1 DEF IInv, Kept, Stays, Seen, SameRow
      <3>2. RowsStay
        BY <3>1, <1>4, <1>5 DEF RowsStay
      <3>3. failed' = FALSE /\ Seen("idle", Idle)'
        BY <3>1, <1>3 DEF Seen
      <3> QED
        BY <3>2, <3>3, <2>2, <1>1, <1>3, IdleJob, SeenKept DEF Steps
    <2> QED
      BY <2>1, <2>2
  <1> QED
    BY <1>8, <1>9, <1>10, <1>11 DEF IInv, Tables

(* The end of a request that is no decision on a permission. *)
LEMMA EndStep ==
    ASSUME Constants, IInv, NEW s \in Slots, pc[s] # "idle", job[s].op # "set", Done(s), UNCHANGED mix,
           failed' = FALSE, TypedPeople', TypedRows', Tables'
    PROVE  IInv'
  <1>1. Typed
    BY DEF IInv
  <1>2. Typed' /\ \A t \in Slots : Asked(t)'
    BY <1>1, IdleJob, Went, AskedKept DEF Typed, Done, Steps, Let
  <1> QED
    BY <1>2, OtherThanSet DEF IInv

(* What a step takes away, refusals apart. *)
LEMMA CleanedTables ==
    ASSUME Constants, IInv, UNCHANGED mix,
           rows' \in [mix.keys -> Row \cup {None}], decided' \in [mix.keys -> Effects \cup {None}],
           \A k \in mix.keys : rows'[k] = rows[k] \/ rows'[k] = None,
           \A k \in mix.keys : decided'[k] = decided[k] \/ decided'[k] = None,
           \A k \in mix.keys : decided'[k] = "deny" => rows'[k] = rows[k],
           role' = None => role = None \/ \A k \in mix.keys : decided'[k] = None
    PROVE  Tables'
  <1>1. OnlySettable'
    BY DEF IInv, Tables, OnlySettable, Settable
  <1>2. Away'
    BY DEF IInv, Tables, Away
  <1>3. RefusalsStand'
    <2> SUFFICES ASSUME NEW k \in mix.keys, decided'[k] = "deny"
                 PROVE  rows'[k] # None /\ rows'[k].effect = "deny"
      BY DEF RefusalsStand, Effect
    <2>1. decided[k] = "deny" /\ rows'[k] = rows[k]
      BY DEF Constants
    <2> QED
      BY <2>1 DEF IInv, Tables, RefusalsStand, Effect, Constants
  <1> QED
    BY <1>1, <1>2, <1>3 DEF Tables

LEMMA GoneIs ==
    ASSUME Constants, Typed, NEW ps
    PROVE  /\ GoneWith(ps) \in [mix.keys -> Effects \cup {None}]
           /\ \A k \in mix.keys : GoneWith(ps)[k] = IF k.scope \in ps /\ decided[k] = "grant" THEN None ELSE decided[k]
  BY DEF GoneWith, Typed, TypedRows

LEMMA DeleteGrantStep ==
    ASSUME Constants, IInv, NEW s \in Slots, DeleteGrant(s)
    PROVE  IInv'
  <1>1. /\ Typed /\ Asked(s) /\ pc[s] = "write" /\ job[s].op = "remove" /\ UNCHANGED mix /\ Done(s)
        /\ failed' = FALSE /\ UNCHANGED <<role, assigned, made>>
    BY DEF IInv, DeleteGrant, At
  <1> DEFINE k == job[s].key
  <1>2. k \in mix.keys
    BY <1>1 DEF Asked, Let
  <1>3. /\ rows' = IF SameRow(s) THEN [rows EXCEPT ![k] = None] ELSE rows
        /\ decided' = IF SameRow(s) THEN [decided EXCEPT ![k] = None] ELSE decided
    BY DEF DeleteGrant
  <1>4. TypedRows' /\ TypedPeople'
    BY <1>1, <1>2, <1>3 DEF Typed, TypedRows, TypedPeople
  <1>5. /\ \A l \in mix.keys : rows'[l] = IF l = k /\ SameRow(s) THEN None ELSE rows[l]
        /\ \A l \in mix.keys : decided'[l] = IF l = k /\ SameRow(s) THEN None ELSE decided[l]
    BY <1>1, <1>2, <1>3 DEF Typed, TypedRows
  <1>6. Tables'
    <2>1. \A l \in mix.keys : decided'[l] = "deny" => rows'[l] = rows[l]
      BY <1>5 DEF Constants
    <2> QED
      BY <2>1, <1>1, <1>4, <1>5, CleanedTables DEF TypedRows
  <1> QED
    BY <1>1, <1>4, <1>6, EndStep

LEMMA FinishUnassignStep ==
    ASSUME Constants, IInv, NEW s \in Slots, FinishUnassign(s)
    PROVE  IInv'
  <1>1. /\ Typed /\ pc[s] = "write" /\ job[s].op = "unassign" /\ UNCHANGED mix /\ Done(s)
        /\ failed' = FALSE /\ UNCHANGED <<role, made>> /\ assigned' = assigned \ {job[s].project}
    BY DEF IInv, FinishUnassign, At
  <1> DEFINE p == job[s].project
  <1>2. /\ rows' = IF job[s].clears THEN DeleteProjectGrants(p) ELSE rows
        /\ decided' = GoneWith({p})
    BY DEF FinishUnassign
  <1>3. \A l \in mix.keys :
            rows'[l] = IF job[s].clears /\ l.scope = p /\ Effect(l) = "grant" THEN None ELSE rows[l]
    BY <1>2 DEF DeleteProjectGrants
  <1>4. \A l \in mix.keys : decided'[l] = IF l.scope = p /\ decided[l] = "grant" THEN None ELSE decided[l]
    BY <1>1, <1>2, GoneIs
  <1>5. TypedRows' /\ TypedPeople'
    <2>1. rows' \in [mix.keys -> Row \cup {None}]
      BY <1>1, <1>2 DEF DeleteProjectGrants, Typed, TypedRows
    <2>2. decided' \in [mix.keys -> Effects \cup {None}]
      BY <1>1, <1>2, GoneIs
    <2> QED
      BY <2>1, <2>2, <1>1 DEF Typed, TypedRows, TypedPeople
  <1>6. Tables'
    <2>1. ASSUME NEW l \in mix.keys, decided'[l] = "deny" PROVE rows'[l] = rows[l]
      <3>1. decided[l] = "deny"
        BY <2>1, <1>4 DEF Constants
      <3>2. Effect(l) = "deny"
        BY <3>1 DEF IInv, Tables, RefusalsStand
      <3> QED
        BY <3>2, <1>3
    <2> QED
      BY <2>1, <1>1, <1>3, <1>4, <1>5, CleanedTables DEF TypedRows
  <1> QED
    BY <1>1, <1>5, <1>6, EndStep

LEMMA FinishAssignStep ==
    ASSUME Constants, IInv, NEW s \in Slots, FinishAssign(s)
    PROVE  IInv'
  <1>1. /\ Typed /\ Asked(s) /\ pc[s] = "write" /\ job[s].op = "assign" /\ UNCHANGED mix /\ Done(s)
        /\ failed' = FALSE /\ UNCHANGED <<role, rows, made, decided>> /\ assigned' = assigned \cup {job[s].project}
    BY DEF IInv, FinishAssign, At
  <1>2. TypedRows' /\ TypedPeople'
    BY <1>1 DEF Typed, TypedRows, TypedPeople, Asked, Let
  <1>3. Tables'
    BY <1>1 DEF IInv, Tables, OnlySettable, Away, RefusalsStand, Effect, Settable
  <1> QED
    BY <1>1, <1>2, <1>3, EndStep

LEMMA FinishDepartStep ==
    ASSUME Constants, IInv, NEW s \in Slots, FinishDepart(s)
    PROVE  IInv'
  <1>1. /\ Typed /\ pc[s] = "write" /\ job[s].op = "leave" /\ UNCHANGED mix /\ Done(s)
        /\ failed' = FALSE /\ UNCHANGED made
    BY DEF IInv, FinishDepart, At
  <1>2. CASE role = None
    <2>1. UNCHANGED <<role, assigned, rows, decided>>
      BY <1>2 DEF FinishDepart
    <2>2. TypedRows' /\ TypedPeople' /\ Tables'
      BY <2>1, <1>1 DEF IInv, Typed, TypedRows, TypedPeople, Tables, OnlySettable, Away, RefusalsStand, Effect, Settable
    <2> QED
      BY <2>2, <1>1, EndStep
  <1>3. CASE role # None
    <2>1. /\ role' = None /\ assigned' = {} /\ rows' = [k \in mix.keys |-> None]
          /\ decided' = [k \in mix.keys |-> None]
      BY <1>3 DEF FinishDepart
    <2>2. TypedRows' /\ TypedPeople'
      BY <2>1, <1>1 DEF Typed, TypedRows, TypedPeople
    <2>3. Tables'
      BY <2>1, <1>1 DEF Tables, OnlySettable, Away, RefusalsStand, Effect, Constants
    <2> QED
      BY <2>2, <2>3, <1>1, EndStep
  <1> QED
    BY <1>2, <1>3

LEMMA FinishSetRoleStep ==
    ASSUME Constants, IInv, NEW s \in Slots, FinishSetRole(s)
    PROVE  IInv'
  <1>1. /\ Typed /\ Asked(s) /\ pc[s] = "write" /\ job[s].op = "role" /\ UNCHANGED mix /\ Done(s)
        /\ failed' = FALSE /\ UNCHANGED <<rows, made>>
    BY DEF IInv, FinishSetRole, At
  <1> DEFINE demoted == role = "admin" /\ job[s].effect # "admin"
  <1>2. /\ role' = IF role = None THEN None ELSE job[s].effect
        /\ assigned' = IF demoted THEN {} ELSE assigned
        /\ decided' = IF demoted THEN GoneWith(Projects) ELSE decided
    BY DEF FinishSetRole
  <1>3. job[s].effect \in Roles
    BY <1>1 DEF Asked, Let, Typed, Constants, Roles
  <1>4. TypedPeople'
    BY <1>1, <1>2, <1>3 DEF Typed, TypedPeople
  <1>5. decided' \in [mix.keys -> Effects \cup {None}]
    BY <1>1, <1>2, GoneIs DEF Typed, TypedRows
  <1>6. TypedRows'
    BY <1>1, <1>5 DEF Typed, TypedRows
  <1>7. \A l \in mix.keys : decided'[l] = decided[l] \/ decided'[l] = None
    BY <1>1, <1>2, GoneIs
  <1>8. role' = None => role = None
    BY <1>2, <1>3 DEF Constants, Roles
  <1>9. Tables'
    BY <1>1, <1>5, <1>6, <1>7, <1>8, CleanedTables DEF TypedRows
  <1> QED
    BY <1>1, <1>4, <1>6, <1>9, EndStep

LEMMA FinishRejoinStep ==
    ASSUME Constants, IInv, NEW s \in Slots, FinishRejoin(s)
    PROVE  IInv'
  <1>1. /\ Typed /\ pc[s] = "write" /\ job[s].op = "join" /\ UNCHANGED mix /\ Done(s)
        /\ failed' = FALSE /\ UNCHANGED <<assigned, rows, made, decided>>
        /\ role' = IF role = None THEN "member" ELSE role
    BY DEF IInv, FinishRejoin, At
  <1>2. TypedRows' /\ TypedPeople'
    BY <1>1 DEF Typed, TypedRows, TypedPeople, Roles
  <1>3. role' # None
    BY <1>1 DEF Constants
  <1>4. Tables'
    BY <1>1, <1>3 DEF IInv, Tables, OnlySettable, Away, RefusalsStand, Effect, Settable
  <1> QED
    BY <1>1, <1>2, <1>4, EndStep

LEMMA StepInv == Constants /\ IInv /\ [Next]_vars => IInv'
  <1> SUFFICES ASSUME Constants, IInv, [Next]_vars PROVE IInv'
    OBVIOUS
  <1>1. CASE UNCHANGED vars
    <2>1. Jobs' = Jobs
      BY <1>1 DEF vars, Jobs
    <2> QED
      BY <1>1, <2>1 DEF vars, IInv, Typed, TypedRows, TypedPeople, TypedJobs, Tables, OnlySettable, Away,
                        RefusalsStand, Effect, Settable, Kept, Stays, Seen, Asked, Let
  <1>2. ASSUME NEW s \in Slots,
               \/ SetGrant(s) \/ RemoveGrant(s) \/ Unassign(s) \/ Assign(s) \/ Depart(s) \/ SetRole(s) \/ Rejoin(s)
        PROVE  IInv'
    BY <1>2, SetGrantStep, RemoveGrantStep, UnassignStep, AssignStep, DepartStep, SetRoleStep, RejoinStep
  <1>3. ASSUME NEW s \in Slots,
               \/ FindRow(s) \/ InsertGrant(s) \/ UpdateGrant(s) \/ DeleteGrant(s)
               \/ FinishUnassign(s) \/ FinishAssign(s) \/ FinishDepart(s) \/ FinishSetRole(s) \/ FinishRejoin(s)
        PROVE  IInv'
    BY <1>3, FindRowStep, InsertGrantStep, UpdateGrantStep, DeleteGrantStep, FinishUnassignStep,
       FinishAssignStep, FinishDepartStep, FinishSetRoleStep, FinishRejoinStep
  <1> QED
    BY <1>1, <1>2, <1>3 DEF Next

--------------------------------------------------------------------------------
(* Grants end with what they were given for                                *)

LEMMA InitFresh == Constants /\ Init => Fresh
  BY DEF Constants, Init, Fresh, Settled, NothingInherited, Gone, Single, Present, HeldBy, Effect

LEMMA FreshStep ==
    ASSUME Constants, IInv, Fresh, Settled, NEW s \in Slots, NEW stage \in Steps, NEW j \in Jobs,
           Go(s, stage, j), UNCHANGED mix,
           mix.alone => pc[s] # "idle" \/ \A t \in Slots : pc[t] = "idle",
           NothingInherited', role' # "admin", Gone', HeldBy(stage, j)'
    PROVE  Fresh'
  <1>1. Typed /\ Gone /\ (mix.alone => Single)
    BY DEF IInv, Fresh
  <1>2. /\ pc'[s] = stage /\ job'[s] = j
        /\ \A t \in Slots \ {s} : pc'[t] = pc[t] /\ job'[t] = job[t]
    BY <1>1, Went
  <1>3. mix.alone => \A t \in Slots \ {s} : pc'[t] = "idle"
    BY <1>1, <1>2 DEF Single
  <1>4. (mix.alone => Single)'
    BY <1>3 DEF Single
  <1>5. ASSUME NEW t \in Slots PROVE Present(t)'
    <2>1. CASE t = s
      BY <2>1, <1>2 DEF Present, HeldBy
    <2>2. CASE t # s /\ mix.alone
      BY <2>2, <1>3 DEF Present, HeldBy
    <2>3. CASE t # s /\ ~mix.alone
      <3>1. role # None /\ role' # None
        BY <2>3, <1>1 DEF Gone
      <3>2. Present(t)
        BY DEF Fresh
      <3> QED
        BY <3>1, <3>2, <2>3, <1>2 DEF Present, HeldBy
    <2> QED
      BY <2>1, <2>2, <2>3
  <1> QED
    BY <1>4, <1>5 DEF Fresh

LEMMA BeginFresh ==
    ASSUME Constants, IInv, Fresh, Settled, NEW s \in Slots, NEW op, Begin(s, op),
           NEW stage \in Steps, NEW j \in Jobs, Go(s, stage, j), HeldBy(stage, j)
    PROVE  Fresh'
  <1>1. UNCHANGED <<mix, role, assigned, rows, made, decided>>
    BY DEF Begin, tables
  <1>2. NothingInherited' /\ role' # "admin" /\ Gone'
    BY <1>1 DEF Fresh, NothingInherited, Gone, Effect
  <1>3. HeldBy(stage, j)'
    BY <1>1 DEF HeldBy
  <1>4. mix.alone => \A t \in Slots : pc[t] = "idle"
    BY DEF Begin
  <1> QED
    BY <1>1, <1>2, <1>3, <1>4, FreshStep

LEMMA Beginnings ==
    ASSUME Constants, IInv, Fresh, Settled, NEW s \in Slots,
           \/ SetGrant(s) \/ RemoveGrant(s) \/ Unassign(s) \/ Assign(s) \/ Depart(s) \/ SetRole(s) \/ Rejoin(s)
    PROVE  Fresh'
  <1> USE DEF Idle, Jobs, Ops, Steps
  <1>1. CASE SetGrant(s)
    <2>1. PICK k \in mix.keys, e \in Effects : Go(s, "find", [Idle EXCEPT !.op = "set", !.key = k, !.effect = e])
      BY <1>1 DEF SetGrant, Effects
    <2>2. PICK j \in Jobs : j = [Idle EXCEPT !.op = "set", !.key = k, !.effect = e]
      OBVIOUS
    <2>3. Begin(s, "set") /\ role # None
      BY <1>1 DEF SetGrant, Constants
    <2>4. HeldBy("find", j)
      BY <2>2, <2>3 DEF HeldBy
    <2>5. Go(s, "find", j)
      BY <2>1, <2>2
    <2> QED
      BY <2>3, <2>4, <2>5, BeginFresh
  <1>2. CASE RemoveGrant(s)
    <2>1. PICK k \in mix.keys : Go(s, "find", [Idle EXCEPT !.op = "remove", !.key = k])
      BY <1>2 DEF RemoveGrant
    <2>2. PICK j \in Jobs : j = [Idle EXCEPT !.op = "remove", !.key = k]
      OBVIOUS
    <2>3. Begin(s, "remove")
      BY <1>2 DEF RemoveGrant
    <2>4. HeldBy("find", j)
      BY <2>2 DEF HeldBy
    <2>5. Go(s, "find", j)
      BY <2>1, <2>2
    <2> QED
      BY <2>3, <2>4, <2>5, BeginFresh
  <1>3. CASE Unassign(s)
    <2>1. PICK p \in Projects :
              Go(s, "write", [Idle EXCEPT !.op = "unassign", !.project = p, !.clears = role # None])
      BY <1>3 DEF Unassign
    <2>2. PICK j \in Jobs : j = [Idle EXCEPT !.op = "unassign", !.project = p, !.clears = role # None]
      <3>1. (role # None) \in BOOLEAN
        OBVIOUS
      <3> QED
        BY <3>1
    <2>3. Begin(s, "unassign")
      BY <1>3 DEF Unassign
    <2>4. HeldBy("write", j)
      BY <2>2 DEF HeldBy
    <2>5. Go(s, "write", j)
      BY <2>1, <2>2
    <2> QED
      BY <2>3, <2>4, <2>5, BeginFresh
  <1>4. CASE Assign(s)
    <2>1. PICK p \in Projects : Go(s, "write", [Idle EXCEPT !.op = "assign", !.project = p])
      BY <1>4 DEF Assign
    <2>2. PICK j \in Jobs : j = [Idle EXCEPT !.op = "assign", !.project = p]
      OBVIOUS
    <2>3. Begin(s, "assign")
      BY <1>4 DEF Assign
    <2>4. HeldBy("write", j)
      BY <2>2 DEF HeldBy
    <2>5. Go(s, "write", j)
      BY <2>1, <2>2
    <2> QED
      BY <2>3, <2>4, <2>5, BeginFresh
  <1>5. CASE Depart(s)
    <2>1. PICK j \in Jobs : j = [Idle EXCEPT !.op = "leave"]
      OBVIOUS
    <2>2. Begin(s, "leave") /\ Go(s, "write", j)
      BY <1>5, <2>1 DEF Depart
    <2>3. HeldBy("write", j)
      BY <2>1 DEF HeldBy
    <2> QED
      BY <2>2, <2>3, BeginFresh
  <1>6. CASE SetRole(s)
    <2>1. PICK r \in mix.roles : Go(s, "write", [Idle EXCEPT !.op = "role", !.effect = r])
      BY <1>6 DEF SetRole
    <2>2. r \in Roles
      BY DEF IInv, Typed, Constants, Roles
    <2>3. PICK j \in Jobs : j = [Idle EXCEPT !.op = "role", !.effect = r]
      BY <2>2
    <2>4. Begin(s, "role")
      BY <1>6 DEF SetRole
    <2>5. HeldBy("write", j)
      BY <2>3 DEF HeldBy
    <2>6. Go(s, "write", j)
      BY <2>1, <2>3
    <2> QED
      BY <2>4, <2>5, <2>6, BeginFresh
  <1>7. CASE Rejoin(s)
    <2>1. PICK j \in Jobs : j = [Idle EXCEPT !.op = "join"]
      OBVIOUS
    <2>2. Begin(s, "join") /\ Go(s, "write", j)
      BY <1>7, <2>1 DEF Rejoin
    <2>3. HeldBy("write", j)
      BY <2>1 DEF HeldBy
    <2> QED
      BY <2>2, <2>3, BeginFresh
  <1> QED
    BY <1>1, <1>2, <1>3, <1>4, <1>5, <1>6, <1>7

LEMMA FindRowFresh ==
    ASSUME Constants, IInv, Fresh, Settled, NEW s \in Slots, FindRow(s)
    PROVE  Fresh'
  <1>1. /\ Typed /\ Present(s) /\ pc[s] = "find" /\ job[s] \in Jobs
        /\ UNCHANGED <<mix, role, assigned, rows, made, decided>>
    BY DEF IInv, Typed, TypedJobs, Fresh, FindRow, tables
  <1>2. NothingInherited' /\ role' # "admin" /\ Gone'
    BY <1>1 DEF Fresh, NothingInherited, Gone, Effect
  <1>3. CASE Done(s)
    <2>1. HeldBy("idle", Idle)'
      BY DEF HeldBy
    <2> QED
      BY <2>1, <1>1, <1>2, <1>3, IdleJob, FreshStep DEF Done, Steps
  <1>4. CASE Go(s, "write", [job[s] EXCEPT !.seen = rows[job[s].key]])
    <2>1. job[s].key \in mix.keys
      BY <1>1 DEF IInv, Asked, Let
    <2>2. rows[job[s].key] \in Row \cup {None}
      BY <2>1, <1>1 DEF Typed, TypedRows
    <2>3. PICK j \in Jobs : j = [job[s] EXCEPT !.seen = rows[job[s].key]]
      BY <2>2, <1>1 DEF Jobs
    <2>4. j.op = job[s].op /\ j.clears = job[s].clears
      BY <2>3, <1>1 DEF Jobs
    <2>5. HeldBy("write", j)'
      BY <2>4, <1>1 DEF Present, HeldBy
    <2>6. Go(s, "write", j)
      BY <2>3, <1>4
    <2> QED
      BY <2>5, <2>6, <1>1, <1>2, FreshStep DEF Steps
  <1> QED
    BY <1>3, <1>4 DEF FindRow

LEMMA InsertGrantFresh ==
    ASSUME Constants, IInv, Fresh, Settled, NEW s \in Slots, InsertGrant(s)
    PROVE  Fresh'
  <1>1. /\ Typed /\ Present(s) /\ pc[s] = "write" /\ job[s].op = "set" /\ job[s] \in Jobs
        /\ UNCHANGED <<mix, role, assigned>>
    BY DEF IInv, Typed, TypedJobs, Fresh, InsertGrant, At
  <1>2. job[s].key \in mix.keys /\ role # None
    BY <1>1 DEF IInv, Asked, Let, Present, HeldBy
  <1>3. role' # "admin" /\ Gone'
    BY <1>1, <1>2 DEF Fresh, Gone
  <1>4. CASE rows[job[s].key] = None
    <2>1. /\ rows' = [rows EXCEPT ![job[s].key] = [id |-> made + 1, effect |-> job[s].effect]]
          /\ decided' = [decided EXCEPT ![job[s].key] = job[s].effect] /\ Done(s)
      BY <1>2, <1>4 DEF InsertGrant
    <2>2. NothingInherited'
      <3> SUFFICES ASSUME NEW k \in mix.keys, rows'[k] # None, rows'[k].effect = "grant"
                   PROVE  decided'[k] = "grant"
        BY <1>1 DEF NothingInherited, Effect, Constants
      <3>1. CASE k = job[s].key
        BY <3>1, <2>1, <1>1 DEF Typed, TypedRows
      <3>2. CASE k # job[s].key
        BY <3>2, <2>1, <1>1 DEF Typed, TypedRows, Fresh, NothingInherited, Effect
      <3> QED
        BY <3>1, <3>2
    <2>3. HeldBy("idle", Idle)'
      BY DEF HeldBy
    <2> QED
      BY <2>1, <2>2, <2>3, <1>1, <1>3, IdleJob, FreshStep DEF Done, Steps
  <1>5. CASE rows[job[s].key] # None
    <2>1. PICK j \in Jobs : j = [job[s] EXCEPT !.again = TRUE]
      BY <1>1 DEF Jobs
    <2>2. j.op = "set"
      BY <2>1, <1>1 DEF Jobs
    <2>3. Go(s, "find", j) /\ UNCHANGED <<rows, decided>>
      BY <1>5, <2>1 DEF InsertGrant
    <2>4. NothingInherited' /\ HeldBy("find", j)'
      BY <2>2, <2>3, <1>1, <1>2 DEF Fresh, NothingInherited, Effect, HeldBy
    <2> QED
      BY <2>3, <2>4, <1>1, <1>3, FreshStep DEF Steps
  <1> QED
    BY <1>4, <1>5

LEMMA UpdateGrantFresh ==
    ASSUME Constants, IInv, Fresh, Settled, NEW s \in Slots, UpdateGrant(s)
    PROVE  Fresh'
  <1>1. /\ Typed /\ Present(s) /\ pc[s] = "write" /\ job[s].op = "set" /\ Done(s)
        /\ UNCHANGED <<mix, role, assigned>>
    BY DEF IInv, Typed, Fresh, UpdateGrant, At
  <1> DEFINE k == job[s].key
  <1>2. k \in mix.keys /\ role # None
    BY <1>1 DEF IInv, Asked, Let, Present, HeldBy
  <1>3. role' # "admin" /\ Gone'
    BY <1>1, <1>2 DEF Fresh, Gone
  <1>4. CASE ~SameRow(s)
    <2>1. NothingInherited'
      BY <1>1, <1>4 DEF UpdateGrant, Fresh, NothingInherited, Effect
    <2>2. HeldBy("idle", Idle)'
      BY DEF HeldBy
    <2> QED
      BY <2>1, <2>2, <1>1, <1>3, IdleJob, FreshStep DEF Done, Steps
  <1>5. CASE SameRow(s)
    <2>1. /\ rows' = [rows EXCEPT ![k] = [rows[k] EXCEPT !.effect = job[s].effect]]
          /\ decided' = [decided EXCEPT ![k] = job[s].effect]
      BY <1>2, <1>5 DEF UpdateGrant
    <2>2. rows[k] \in Row
      BY <1>1, <1>2, <1>5 DEF SameRow, Typed, TypedRows
    <2>3. rows'[k].effect = job[s].effect /\ decided'[k] = job[s].effect
      BY <2>1, <2>2, <1>1, <1>2 DEF Typed, TypedRows, Row
    <2>4. \A l \in mix.keys : l # k => rows'[l] = rows[l] /\ decided'[l] = decided[l]
      BY <2>1, <1>1, <1>2 DEF Typed, TypedRows
    <2>5. NothingInherited'
      <3> SUFFICES ASSUME NEW l \in mix.keys, rows'[l] # None, rows'[l].effect = "grant"
                   PROVE  decided'[l] = "grant"
        BY <1>1 DEF NothingInherited, Effect, Constants
      <3>1. CASE l = k
        BY <3>1, <2>3
      <3>2. CASE l # k
        BY <3>2, <2>4 DEF Fresh, NothingInherited, Effect
      <3> QED
        BY <3>1, <3>2
    <2>6. HeldBy("idle", Idle)'
      BY DEF HeldBy
    <2> QED
      BY <2>5, <2>6, <1>1, <1>3, IdleJob, FreshStep DEF Done, Steps
  <1> QED
    BY <1>4, <1>5

(* The end of a request that is no decision. *)
LEMMA EndFresh ==
    ASSUME Constants, IInv, Fresh, Settled, NEW s \in Slots, pc[s] # "idle", Done(s), UNCHANGED mix,
           NothingInherited', role' # "admin", Gone'
    PROVE  Fresh'
  <1>1. HeldBy("idle", Idle)'
    BY DEF HeldBy
  <1> QED
    BY <1>1, IdleJob, FreshStep DEF Done, Steps

LEMMA Endings ==
    ASSUME Constants, IInv, Fresh, Settled, NEW s \in Slots,
           \/ DeleteGrant(s)
           \/ FinishUnassign(s) \/ FinishAssign(s) \/ FinishDepart(s) \/ FinishSetRole(s) \/ FinishRejoin(s)
    PROVE  Fresh'
  <1>1. Typed /\ NothingInherited /\ role # "admin" /\ Gone /\ Present(s) /\ Asked(s)
    BY DEF IInv, Fresh
  <1>2. CASE DeleteGrant(s)
    <2>1. /\ pc[s] = "write" /\ Done(s) /\ UNCHANGED <<mix, role>> /\ job[s].key \in mix.keys
          /\ rows' = IF SameRow(s) THEN [rows EXCEPT ![job[s].key] = None] ELSE rows
          /\ decided' = IF SameRow(s) THEN [decided EXCEPT ![job[s].key] = None] ELSE decided
      BY <1>1, <1>2 DEF DeleteGrant, At, Asked, Let
    <2>2. \A k \in mix.keys : rows'[k] = None \/ (rows'[k] = rows[k] /\ decided'[k] = decided[k])
      BY <2>1, <1>1 DEF Typed, TypedRows
    <2>3. NothingInherited'
      BY <2>1, <2>2, <1>1 DEF NothingInherited, Effect, Constants
    <2>4. Gone'
      BY <2>1, <2>2, <1>1 DEF Gone
    <2> QED
      BY <2>1, <2>3, <2>4, <1>1, EndFresh
  <1>3. CASE FinishUnassign(s)
    <2>1. /\ pc[s] = "write" /\ Done(s) /\ UNCHANGED <<mix, role>> /\ job[s].op = "unassign"
          /\ rows' = IF job[s].clears THEN DeleteProjectGrants(job[s].project) ELSE rows
          /\ decided' = GoneWith({job[s].project})
      BY <1>3 DEF FinishUnassign, At
    <2>2. \A k \in mix.keys : rows'[k] = None \/ rows'[k] = rows[k]
      BY <2>1 DEF DeleteProjectGrants
    <2>3. Gone'
      BY <2>1, <2>2, <1>1 DEF Gone
    <2>4. CASE job[s].clears
      <3>1. \A k \in mix.keys :
                rows'[k] = IF k.scope = job[s].project /\ Effect(k) = "grant" THEN None ELSE rows[k]
        BY <2>1, <2>4 DEF DeleteProjectGrants
      <3>2. \A k \in mix.keys :
                decided'[k] = IF k.scope = job[s].project /\ decided[k] = "grant" THEN None ELSE decided[k]
        BY <2>1, <1>1, GoneIs
      <3>3. NothingInherited'
        <4> SUFFICES ASSUME NEW k \in mix.keys, rows'[k] # None, rows'[k].effect = "grant"
                     PROVE  decided'[k] = "grant"
          BY <2>1 DEF NothingInherited, Effect, Constants
        <4>1. rows'[k] = rows[k] /\ Effect(k) = "grant"
          BY <2>2 DEF Effect
        <4>2. k.scope # job[s].project
          BY <4>1, <3>1
        <4> QED
          BY <4>1, <4>2, <3>2, <1>1 DEF NothingInherited
      <3> QED
        BY <3>3, <2>1, <2>3, <1>1, EndFresh
    <2>5. CASE ~job[s].clears
      <3>1. role = None
        BY <2>1, <2>5, <1>1 DEF Present, HeldBy
      <3>2. \A k \in mix.keys : rows'[k] = None
        BY <3>1, <2>1, <2>5, <1>1 DEF Gone
      <3>3. NothingInherited'
        BY <3>2, <2>1 DEF NothingInherited, Effect, Constants
      <3> QED
        BY <3>3, <2>1, <2>3, <1>1, EndFresh
    <2> QED
      BY <2>4, <2>5
  <1>4. CASE FinishAssign(s)
    <2>1. pc[s] = "write" /\ Done(s) /\ UNCHANGED <<mix, role, rows, decided>>
      BY <1>4 DEF FinishAssign, At
    <2>2. NothingInherited' /\ Gone'
      BY <2>1, <1>1 DEF NothingInherited, Effect, Gone
    <2> QED
      BY <2>1, <2>2, <1>1, EndFresh
  <1>5. CASE FinishDepart(s)
    <2>1. pc[s] = "write" /\ Done(s) /\ UNCHANGED mix /\ job[s].op = "leave"
      BY <1>5 DEF FinishDepart, At
    <2>2. mix.alone
      BY <2>1, <1>1 DEF Settled, Asked, Let
    <2>3. CASE role = None
      <3>1. UNCHANGED <<role, rows, decided>>
        BY <2>3, <1>5 DEF FinishDepart
      <3>2. NothingInherited' /\ Gone'
        BY <3>1, <2>1, <1>1 DEF NothingInherited, Effect, Gone
      <3> QED
        BY <3>1, <3>2, <2>1, <1>1, EndFresh
    <2>4. CASE role # None
      <3>1. role' = None /\ rows' = [k \in mix.keys |-> None]
        BY <2>4, <1>5 DEF FinishDepart
      <3>2. NothingInherited' /\ Gone' /\ role' # "admin"
        BY <3>1, <2>1, <2>2 DEF NothingInherited, Effect, Gone, Constants
      <3> QED
        BY <3>2, <2>1, EndFresh
    <2> QED
      BY <2>3, <2>4
  <1>6. CASE FinishSetRole(s)
    <2>1. /\ pc[s] = "write" /\ Done(s) /\ UNCHANGED <<mix, rows>> /\ job[s].op = "role"
          /\ role' = IF role = None THEN None ELSE job[s].effect
          /\ decided' = decided
      BY <1>1, <1>6 DEF FinishSetRole, At
    <2>2. job[s].effect \in mix.roles /\ job[s].effect # "admin" /\ job[s].effect # None
      BY <2>1, <1>1 DEF Asked, Let, Settled, Typed, Constants
    <2>3. NothingInherited' /\ Gone' /\ role' # "admin"
      BY <2>1, <2>2, <1>1 DEF NothingInherited, Effect, Gone, Constants
    <2> QED
      BY <2>1, <2>3, EndFresh
  <1>7. CASE FinishRejoin(s)
    <2>1. /\ pc[s] = "write" /\ Done(s) /\ UNCHANGED <<mix, rows, decided>>
          /\ role' = IF role = None THEN "member" ELSE role
      BY <1>7 DEF FinishRejoin, At
    <2>2. NothingInherited' /\ Gone' /\ role' # "admin"
      BY <2>1, <1>1 DEF NothingInherited, Effect, Gone, Constants
    <2> QED
      BY <2>1, <2>2, EndFresh
  <1> QED
    BY <1>2, <1>3, <1>4, <1>5, <1>6, <1>7

LEMMA StepFresh == Constants /\ IInv /\ Fresh /\ [Next]_vars => Fresh'
  <1> SUFFICES ASSUME Constants, IInv, Fresh, [Next]_vars PROVE Fresh'
    OBVIOUS
  <1>1. mix' = mix
    BY DEF Next, vars, SetGrant, RemoveGrant, Unassign, Assign, Depart, SetRole, Rejoin, Begin, FindRow,
           InsertGrant, UpdateGrant, DeleteGrant, FinishUnassign, FinishAssign, FinishDepart, FinishSetRole,
           FinishRejoin, At
  <1>2. CASE ~Settled
    BY <1>1, <1>2 DEF Fresh, Settled
  <1>3. CASE Settled /\ UNCHANGED vars
    BY <1>3 DEF vars, Fresh, Settled, NothingInherited, Effect, Gone, Single, Present, HeldBy
  <1>4. ASSUME Settled, NEW s \in Slots,
               \/ SetGrant(s) \/ RemoveGrant(s) \/ Unassign(s) \/ Assign(s) \/ Depart(s) \/ SetRole(s) \/ Rejoin(s)
        PROVE  Fresh'
    BY <1>4, Beginnings
  <1>5. ASSUME Settled, NEW s \in Slots,
               \/ FindRow(s) \/ InsertGrant(s) \/ UpdateGrant(s) \/ DeleteGrant(s)
               \/ FinishUnassign(s) \/ FinishAssign(s) \/ FinishDepart(s) \/ FinishSetRole(s) \/ FinishRejoin(s)
        PROVE  Fresh'
    BY <1>5, FindRowFresh, InsertGrantFresh, UpdateGrantFresh, Endings
  <1> QED
    BY <1>2, <1>3, <1>4, <1>5 DEF Next

--------------------------------------------------------------------------------
(* The theorems                                                            *)

(* Whatever requests overlap: rows only hold what may be set, decisions go *)
(* with the person, refusals stand, and no row disappears under requests   *)
(* that only set.                                                          *)
THEOREM PermissionsInvariant ==
    ASSUME Constants
    PROVE  Spec => []IInv
  <1>1. Init => IInv
    BY InitInv
  <1>2. IInv /\ [Next]_vars => IInv'
    BY StepInv
  <1> QED
    BY <1>1, <1>2, PTL DEF Spec

(* As long as nobody leaves under a request and nobody becomes an admin,   *)
(* a grant that applies was decided on since the person came, or was last  *)
(* on the project.                                                         *)
THEOREM GrantsEnd ==
    ASSUME Constants
    PROVE  Spec => [](Settled => NothingInherited)
  <1>1. Init => Fresh
    BY InitFresh
  <1>2. IInv /\ Fresh /\ [Next]_vars => Fresh'
    BY StepFresh
  <1>3. Fresh => (Settled => NothingInherited)
    BY DEF Fresh
  <1> QED
    BY <1>1, <1>2, <1>3, PermissionsInvariant, PTL DEF Spec

(* Rows are numbered as they are made. *)
Numbered == \A k \in mix.keys : rows[k] # None => rows[k].id \in 1..made

LEMMA StepNumbered ==
    ASSUME Constants, IInv, Numbered, [Next]_vars
    PROVE  Numbered'
  <1>1. Typed /\ made \in Nat /\ mix' = mix
    BY DEF IInv, Typed, TypedRows, Next, vars, Begin, At, SetGrant, RemoveGrant, Unassign, Assign,
           Depart, SetRole, Rejoin, FindRow, InsertGrant, UpdateGrant, DeleteGrant, FinishUnassign,
           FinishAssign, FinishDepart, FinishSetRole, FinishRejoin
  <1>2. CASE UNCHANGED <<rows, made>>
    BY <1>1, <1>2 DEF Numbered
  <1>3. ASSUME NEW s \in Slots, InsertGrant(s) PROVE Numbered'
    <2>1. CASE UNCHANGED rows /\ UNCHANGED made
      BY <2>1, <1>2
    <2>2. CASE /\ made' = made + 1
               /\ rows' = [rows EXCEPT ![job[s].key] = [id |-> made + 1, effect |-> job[s].effect]]
      <3>1. ASSUME NEW k \in mix.keys, rows'[k] # None PROVE rows'[k].id \in 1..made + 1
        <4>1. CASE k = job[s].key
          BY <4>1, <2>2, <1>1 DEF Typed, TypedRows
        <4>2. CASE k # job[s].key
          BY <4>2, <2>2, <1>1, <3>1 DEF Typed, TypedRows, Numbered, Row
        <4> QED BY <4>1, <4>2
      <3> QED
        BY <3>1, <2>2, <1>1 DEF Numbered
    <2> QED
      BY <1>3, <2>1, <2>2 DEF InsertGrant
  <1>4. ASSUME NEW s \in Slots, UpdateGrant(s) PROVE Numbered'
    <2>1. ASSUME NEW k \in mix.keys, rows'[k] # None PROVE rows'[k].id \in 1..made
      <3>1. CASE SameRow(s) /\ k = job[s].key
        <4>1. rows[k] # None /\ rows[k] \in Row
          BY <3>1, <1>1 DEF SameRow, Typed, TypedRows
        <4>2. rows'[k] = [rows[k] EXCEPT !.effect = job[s].effect]
          BY <3>1, <1>4, <1>1 DEF UpdateGrant, Typed, TypedRows
        <4>3. rows'[k].id = rows[k].id
          BY <4>1, <4>2 DEF Row
        <4> QED
          BY <4>1, <4>3 DEF Numbered
      <3>2. CASE ~(SameRow(s) /\ k = job[s].key)
        BY <3>2, <2>1, <1>4, <1>1 DEF UpdateGrant, Typed, TypedRows, Numbered
      <3> QED BY <3>1, <3>2
    <2> QED
      BY <2>1, <1>1, <1>4 DEF Numbered, UpdateGrant
  <1>5. CASE /\ UNCHANGED made
             /\ \A k \in mix.keys : rows'[k] = None \/ rows'[k] = rows[k]
    BY <1>5, <1>1 DEF Numbered
  <1>6. ASSUME NEW s \in Slots, DeleteGrant(s) \/ FinishUnassign(s) \/ FinishDepart(s) PROVE Numbered'
    BY <1>5, <1>6, <1>1 DEF DeleteGrant, FinishUnassign, FinishDepart, DeleteProjectGrants, Typed, TypedRows
  <1> QED
    BY <1>2, <1>3, <1>4, <1>6
    DEF Next, vars, Begin, tables, SetGrant, RemoveGrant, Unassign, Assign, Depart, SetRole, Rejoin,
        FindRow, FinishAssign, FinishSetRole, FinishRejoin

LEMMA TypesHold ==
    ASSUME Constants, IInv, Numbered
    PROVE  TypeOK
  <1>1. ASSUME NEW k \in mix.keys, rows[k] # None PROVE rows[k] \in [id : 1..made, effect : {"grant", "deny"}]
    BY <1>1 DEF IInv, Typed, TypedRows, Row, Effects, Numbered
  <1> QED
    BY <1>1 DEF IInv, Typed, TypedRows, TypedPeople, TypedJobs, Roles, Effects, Steps, TypeOK

(* What the resolver and the customisation of permissions promise, whatever *)
(* a company customises, in any order of requests: refusals stand, requests *)
(* that overlap end in no database error, outsiders change nothing, menus   *)
(* are optimistic, and grants end with what they were given for.            *)
THEOREM PermissionsStand ==
    ASSUME Constants
    PROVE  Spec => []PermissionsHold
  <1>0. Spec => []Numbered
    <2>1. Init => Numbered
      BY DEF Init, Numbered
    <2>2. IInv /\ Numbered /\ [Next]_vars => Numbered'
      BY StepNumbered
    <2> QED
      BY <2>1, <2>2, PermissionsInvariant, PTL DEF Spec
  <1>1. IInv => RefusalsStand /\ NoRawError
    BY DEF IInv, Tables, Kept, NoRawError
  <1>2. IInv => OutsidersOut /\ HintIsOptimistic
    BY OutsidersStayOut, MenusAreOptimistic DEF IInv, Tables
  <1>3. IInv /\ Numbered /\ (Settled => NothingInherited) => PermissionsHold
    BY <1>1, <1>2, TypesHold DEF PermissionsHold
  <1> QED
    BY <1>0, <1>3, PermissionsInvariant, GrantsEnd, PTL

--------------------------------------------------------------------------------
(* The directory *)

(* What may be exercised in one behaviour.  Each line names a combination  *)
(* that the code does not survive:                                         *)
(*   sign-ups after the last admin of a company erased their account;      *)
(*   renewals by a number that another company's profile has, after an     *)
(*   erasure freed it;                                                     *)
(*   a member who joins again with a copied invitation left open, and      *)
(*   erases their account;                                                 *)
(*   a merge of somebody who is invited.                                   *)
Apart(does) ==
    /\ "close" \in does => "signup" \notin does
    /\ "several" \in does => "erase" \notin does
    /\ "import" \in does /\ "leave" \in does => "erase" \notin does
    /\ "merge" \in does => "add" \notin does /\ "erase" \notin does

(* Persons pe and profiles pr: who has a profile is known, an account is   *)
(* one person, a company lists a number once, and whoever is attached is   *)
(* listed.                                                                 *)
Shaped(pe, pr) == /\ pe \in [D!Ids -> D!Persons \cup {None}]
                  /\ pr \in [Companies -> [D!Ids -> D!Profiles \cup {None}]]
OnlyKnown(pe, pr) == \A c \in Companies, i \in D!Ids : pr[c][i] # None => pe[i] # None
Accounts(pe) == \A i \in D!Ids : pe[i] # None => pe[i].user \in account \cup {None}
OnePerson(pe) == \A i, j \in D!Ids :
    pe[i] # None /\ pe[j] # None /\ pe[i].user # None /\ pe[i].user = pe[j].user => i = j
OneEntry(pr) == \A c \in Companies : \A i, j \in D!Ids :
    pr[c][i] # None /\ pr[c][j] # None /\ pr[c][i].phone # None /\ pr[c][i].phone = pr[c][j].phone => i = j
Attended(pe, pr, ac) == \A c \in Companies, u \in Phones : ac[c][u] # "none" =>
    \E i \in D!Ids : pe[i] # None /\ pe[i].user = u /\ pr[c][i] # None /\ pr[c][i].active

Entries(pe, pr, ac) == /\ Shaped(pe, pr) /\ OnlyKnown(pe, pr) /\ Accounts(pe)
                       /\ OnePerson(pe) /\ OneEntry(pr) /\ Attended(pe, pr, ac)

(* What the entries, the promises and the merges need of a person p and a  *)
(* profile new that are put in place of person i's in a company c.         *)
Fits(pe, pr, c, i, p, new) ==
    /\ pe[i] # None => pe[i].user \in {p.user, None}
    /\ p.user # None => /\ p.user \in account
                        /\ \A j \in D!Ids \ {i} : pe[j] # None => pe[j].user # p.user
    /\ new.phone # None => \A j \in D!Ids \ {i} : pr[c][j] # None => pr[c][j].phone # new.phone
    /\ p.user # None /\ pr[c][i] # None /\ pr[c][i].active => new.active
Comes(ac, later, c, p, new) == \A d \in Companies, u \in Phones :
    later[d][u] # "none" => ac[d][u] # "none" \/ (d = c /\ c \notin closed /\ p.user = u /\ new.active)
Follows(c, i, p, new) ==
    /\ person[i] # None => p.phone = person[i].phone
    /\ p.user \in {p.phone, None} /\ new.phone \in {p.phone, None}
    /\ "erase" \notin ops /\ p.phone \notin account =>
           \A d \in Companies \ {c} : profile[d][i] # None => profile[d][i].phone = new.phone
    /\ "import" \notin ops /\ new.phone \in account => new.pending # "open"
Plain(p, new) == new.phone # None => p.user # None /\ new.pending = "no"

Others == /\ ops \in DirectoryMixes /\ Apart(ops)
          /\ account \subseteq Phones /\ closed \subseteq Companies
          /\ access \in [Companies -> [Phones -> D!Roles \cup {"none"}]]
          /\ promise \in [Companies -> [Phones -> D!Roles \cup {"none"}]]
Shut == (closed # {} => "close" \in ops) /\ D!ClosedStaysEmpty

(* Without merges, a person has one number: the account's, and every       *)
(* profile's that has one.                                                 *)
Owned(pe, pr, i) == pe[i] # None =>
    /\ pe[i].user \in {pe[i].phone, None}
    /\ \A c \in Companies : pr[c][i] # None => pr[c][i].phone \in {pe[i].phone, None}

(* Then an invitation that was promised is open, and one that is open was  *)
(* promised: always, but for members who left with a copied invitation.    *)
Due(u) == u \notin account \/ "import" \notin ops \/ "leave" \notin ops
Waits(c, i, u) == profile[c][i] # None /\ profile[c][i].phone = u /\ profile[c][i].pending = "open"
Backed(c, u) == promise[c][u] # "none" =>
    \E i \in D!Ids : Waits(c, i, u) /\ profile[c][i].role = promise[c][u]
Expected(c, u) == c \notin closed =>
    \A i \in D!Ids : Waits(c, i, u) => profile[c][i].active /\ promise[c][u] # "none"

(* Who has an account has taken up what was open, unless it was copied;    *)
(* and as long as no account is erased, a number that has none is in every *)
(* profile of the person, or in none.                                      *)
TakenUp(u) == "import" \notin ops /\ u \in account => \A c \in Companies, i \in D!Ids : ~Waits(c, i, u)
Alike(i) == "erase" \notin ops /\ person[i] # None /\ person[i].phone \notin account =>
    \A c, d \in Companies : profile[c][i] # None /\ profile[d][i] # None => profile[c][i].phone = profile[d][i].phone

Tracked == /\ \A i \in D!Ids : Owned(person, profile, i) /\ Alike(i)
           /\ \A u \in Phones : TakenUp(u)
           /\ \A c \in Companies, u \in Phones : Due(u) => Backed(c, u) /\ Expected(c, u)

(* With merges, a number comes with an account, and nobody is invited.     *)
Uninvited == \A c \in Companies :
    /\ \A u \in Phones : promise[c][u] = "none"
    /\ \A i \in D!Ids : profile[c][i] # None /\ profile[c][i].phone # None =>
           person[i].user # None /\ profile[c][i].pending = "no"

DirectoryInv == /\ Others /\ Entries(person, profile, access) /\ Shut
                /\ IF "merge" \in ops THEN Uninvited ELSE Tracked

--------------------------------------------------------------------------------
(* The least of some ids is one of them. *)
LEMMA LeastIsOne ==
    ASSUME NEW set, set \subseteq Nat, set # {}
    PROVE  D!Least(set) \in set
  <1>1. PICK m \in set : \A k \in set : <<k, m>> \notin OpToRel(<, Nat)
    BY WFMin, NatLessThanWellFounded, Zenon
  <1>2. \A k \in set : ~(k < m)
    BY <1>1, Zenon DEF OpToRel
  <1>3. \A k \in set : m <= k
    BY <1>2
  <1> QED
    BY <1>3 DEF D!Least

LEMMA NewIdsAreNew == \A i \in D!NewIds : i \in D!Ids /\ person[i] = None
  BY DEF D!NewIds, D!Fresh, D!Known, D!Ids

(* A profile put in place of another. *)
LEMMA PutIn ==
    ASSUME NEW pr, NEW c \in Companies, NEW i \in D!Ids, NEW new, 
           pr \in [Companies -> [D!Ids -> D!Profiles \cup {None}]]
    PROVE  /\ new \in D!Profiles \cup {None} => D!Put(pr, c, i, new) \in [Companies -> [D!Ids -> D!Profiles \cup {None}]]
           /\ D!Put(pr, c, i, new)[c][i] = new
           /\ \A d \in Companies, j \in D!Ids : d # c \/ j # i => D!Put(pr, c, i, new)[d][j] = pr[d][j]
  BY DEF D!Put

(* One profile of one person changes: what the entries need. *)
LEMMA EntryPut ==
    ASSUME D!Constants, NEW pe, NEW pr, NEW ac, Entries(pe, pr, ac), 
           NEW c \in Companies, NEW i \in D!Ids, NEW p \in D!Persons, NEW new \in D!Profiles, NEW later,
           Fits(pe, pr, c, i, p, new), Comes(ac, later, c, p, new)
    PROVE  Entries([pe EXCEPT ![i] = p], D!Put(pr, c, i, new), later)
  <1> DEFINE pe2 == [pe EXCEPT ![i] = p]
             pr2 == D!Put(pr, c, i, new)
  <1>1. /\ pe2 \in [D!Ids -> D!Persons \cup {None}]
        /\ pe2[i] = p /\ p # None /\ new # None
        /\ \A j \in D!Ids \ {i} : pe2[j] = pe[j]
    BY DEF Entries, Shaped, D!Constants
  <1>2. /\ pr2 \in [Companies -> [D!Ids -> D!Profiles \cup {None}]]
        /\ pr2[c][i] = new
        /\ \A d \in Companies, j \in D!Ids : d # c \/ j # i => pr2[d][j] = pr[d][j]
    BY PutIn DEF Entries, Shaped
  <1> HIDE DEF pe2, pr2
  <1>3. Shaped(pe2, pr2)
    BY <1>1, <1>2 DEF Shaped
  <1>4. OnlyKnown(pe2, pr2)
    BY <1>1, <1>2 DEF Entries, OnlyKnown
  <1>5. Accounts(pe2)
    BY <1>1 DEF Entries, Accounts, Fits
  <1>6. OnePerson(pe2)
    BY <1>1 DEF Entries, OnePerson, Fits
  <1>7. OneEntry(pr2)
    <2> SUFFICES ASSUME NEW d \in Companies, NEW j \in D!Ids, NEW k \in D!Ids, pr2[d][j] # None, pr2[d][k] # None,
                        pr2[d][j].phone # None, pr2[d][j].phone = pr2[d][k].phone
                 PROVE  j = k
      BY DEF OneEntry
    <2>1. CASE d = c /\ (j = i \/ k = i)
      BY <1>2, <2>1 DEF Fits
    <2>2. CASE ~(d = c /\ (j = i \/ k = i))
      BY <1>2, <2>2 DEF Entries, OneEntry
    <2> QED
      BY <2>1, <2>2
  <1>8. Attended(pe2, pr2, later)
    <2> SUFFICES ASSUME NEW d \in Companies, NEW u \in Phones, later[d][u] # "none"
                 PROVE  \E j \in D!Ids : pe2[j] # None /\ pe2[j].user = u /\ pr2[d][j] # None /\ pr2[d][j].active
      BY DEF Attended
    <2>1. CASE d = c /\ p.user = u /\ new.active
      BY <1>1, <1>2, <2>1
    <2>2. CASE ac[d][u] # "none"
      <3>1. PICK j \in D!Ids : pe[j] # None /\ pe[j].user = u /\ pr[d][j] # None /\ pr[d][j].active
        BY <2>2 DEF Entries, Attended
      <3>2. u # None
        BY DEF D!Constants
      <3>3. CASE j # i
        BY <1>1, <1>2, <3>1, <3>3
      <3>4. CASE j = i
        <4>1. p.user = u
          BY <3>1, <3>2, <3>4 DEF Fits
        <4>2. pr2[d][i] # None /\ pr2[d][i].active
          BY <1>1, <1>2, <3>1, <3>2, <3>4, <4>1 DEF Fits
        <4> QED
          BY <1>1, <4>1, <4>2
      <3> QED
        BY <3>3, <3>4
    <2> QED
      BY <2>1, <2>2 DEF Comes
  <1> QED
    BY <1>3, <1>4, <1>5, <1>6, <1>7, <1>8 DEF Entries, pe2, pr2

--------------------------------------------------------------------------------
(* What a step in one company leaves as it was. *)
LEMMA BackedBy ==
    ASSUME NEW c \in Companies, NEW i \in D!Ids, NEW u \in Phones,
           Waits(c, i, u)', profile'[c][i].role = promise'[c][u], profile'[c][i].active,
           promise'[c][u] # "none", OneEntry(profile'), u # None
    PROVE  Backed(c, u)' /\ Expected(c, u)'
  <1>1. \A j \in D!Ids : Waits(c, j, u)' => j = i
    BY DEF Waits, OneEntry
  <1> QED
    BY <1>1 DEF Backed, Expected

LEMMA NobodyWaits ==
    ASSUME NEW c \in Companies, NEW u \in Phones, promise'[c][u] = "none", \A j \in D!Ids : ~Waits(c, j, u)'
    PROVE  Backed(c, u)' /\ Expected(c, u)'
  BY DEF Backed, Expected

LEMMA WaitsOn ==
    ASSUME NEW c \in Companies, NEW u \in Phones, promise'[c][u] = promise[c][u], Backed(c, u), Expected(c, u),
           c \in closed => c \in closed',
           \A j \in D!Ids : Waits(c, j, u) \/ Waits(c, j, u)' => profile'[c][j] = profile[c][j]
    PROVE  Backed(c, u)' /\ Expected(c, u)'
  <1>1. \A j \in D!Ids : Waits(c, j, u)' <=> Waits(c, j, u)
    BY DEF Waits
  <1> QED
    BY <1>1 DEF Backed, Expected

(* One profile of one person changes: what the promises need. *)
LEMMA TrackedPut ==
    ASSUME D!Constants, DirectoryInv, "merge" \notin ops, UNCHANGED <<ops, account, closed>>,
           NEW c \in Companies, NEW i \in D!Ids, NEW p \in D!Persons, NEW new \in D!Profiles,
           person' = [person EXCEPT ![i] = p], profile' = D!Put(profile, c, i, new),
           Follows(c, i, p, new),
           \A d \in Companies \ {c} : promise'[d] = promise[d],
           \A u \in Phones : Due(u) => Backed(c, u)' /\ Expected(c, u)'
    PROVE  Tracked'
  <1>1. /\ person'[i] = p /\ p # None /\ new # None
        /\ \A j \in D!Ids \ {i} : person'[j] = person[j]
    BY DEF DirectoryInv, Entries, Shaped, D!Constants
  <1>2. /\ profile'[c][i] = new
        /\ \A d \in Companies, j \in D!Ids : d # c \/ j # i => profile'[d][j] = profile[d][j]
    BY PutIn DEF DirectoryInv, Entries, Shaped
  <1>3. Tracked /\ OnlyKnown(person, profile)
    BY DEF DirectoryInv, Entries
  <1>4. ASSUME NEW j \in D!Ids PROVE Owned(person', profile', j) /\ Alike(j)'
    <2>1. CASE j # i
      BY <1>1, <1>2, <1>3, <2>1 DEF Tracked, Owned, Alike
    <2>2. CASE j = i
      <3>1. \A d \in Companies \ {c} : profile'[d][i] # None => profile'[d][i].phone \in {p.phone, None}
        BY <1>2, <1>3 DEF Tracked, Owned, OnlyKnown, Follows
      <3>2. Owned(person', profile', i)
        BY <1>1, <1>2, <3>1 DEF Owned, Follows
      <3>3. Alike(i)'
        BY <1>1, <1>2 DEF Alike, Follows
      <3> QED
        BY <2>2, <3>2, <3>3
    <2> QED
      BY <2>1, <2>2
  <1>5. ASSUME NEW u \in Phones PROVE TakenUp(u)'
    <2> SUFFICES ASSUME "import" \notin ops, u \in account, NEW d \in Companies, NEW j \in D!Ids, Waits(d, j, u)'
                 PROVE  FALSE
      BY DEF TakenUp
    <2>1. CASE d = c /\ j = i
      BY <1>2, <2>1 DEF Waits, Follows
    <2>2. CASE ~(d = c /\ j = i)
      BY <1>2, <1>3, <2>2 DEF Waits, Tracked, TakenUp
    <2> QED
      BY <2>1, <2>2
  <1>6. ASSUME NEW d \in Companies, NEW u \in Phones, Due(u) PROVE Backed(d, u)' /\ Expected(d, u)'
    <2>1. CASE d = c
      BY <1>6, <2>1
    <2>2. CASE d # c
      <3>1. Backed(d, u) /\ Expected(d, u)
        BY <1>3, <1>6 DEF Tracked
      <3>2. \A j \in D!Ids : profile'[d][j] = profile[d][j]
        BY <1>2, <2>2
      <3> QED
        BY <2>2, <3>1, <3>2, WaitsOn
    <2> QED
      BY <2>1, <2>2
  <1>7. \A u \in Phones : Due(u)' <=> Due(u)
    BY DEF Due
  <1> QED
    BY <1>4, <1>5, <1>6, <1>7 DEF Tracked

(* The same where persons merge. *)
LEMMA UninvitedPut ==
    ASSUME D!Constants, DirectoryInv, "merge" \in ops, UNCHANGED ops,
           NEW c \in Companies, NEW i \in D!Ids, NEW p \in D!Persons, NEW new \in D!Profiles,
           person' = [person EXCEPT ![i] = p], profile' = D!Put(profile, c, i, new), 
           Fits(person, profile, c, i, p, new), Plain(p, new),
           \A d \in Companies, u \in Phones : promise'[d][u] = "none"
    PROVE  Uninvited'
  <1>1. /\ person'[i] = p /\ p # None /\ new # None
        /\ \A j \in D!Ids \ {i} : person'[j] = person[j]
    BY DEF DirectoryInv, Entries, Shaped, D!Constants
  <1>2. /\ profile'[c][i] = new
        /\ \A d \in Companies, j \in D!Ids : d # c \/ j # i => profile'[d][j] = profile[d][j]
    BY PutIn DEF DirectoryInv, Entries, Shaped
  <1> SUFFICES ASSUME NEW d \in Companies, NEW j \in D!Ids, profile'[d][j] # None, profile'[d][j].phone # None
               PROVE  person'[j].user # None /\ profile'[d][j].pending = "no"
    BY DEF Uninvited
  <1>3. CASE d = c /\ j = i
    BY <1>1, <1>2, <1>3 DEF Plain
  <1>4. CASE ~(d = c /\ j = i)
    <2>1. profile[d][j] # None /\ profile[d][j].phone # None /\ profile'[d][j] = profile[d][j]
      BY <1>2, <1>4
    <2>2. person[j].user # None /\ profile[d][j].pending = "no" /\ person[j] # None
      BY <2>1 DEF DirectoryInv, Uninvited, Entries, OnlyKnown
    <2> QED
      BY <1>1, <1>2, <2>1, <2>2 DEF Fits
  <1> QED
    BY <1>3, <1>4

--------------------------------------------------------------------------------
(* One profile of one person changes: what all of it needs. *)
LEMMA DirectoryFacts ==
    ASSUME D!Constants, DirectoryInv
    PROVE  /\ person \in [D!Ids -> D!Persons \cup {None}]
           /\ profile \in [Companies -> [D!Ids -> D!Profiles \cup {None}]]
           /\ access \in [Companies -> [Phones -> D!Roles \cup {"none"}]]
           /\ promise \in [Companies -> [Phones -> D!Roles \cup {"none"}]]
           /\ account \subseteq Phones /\ closed \subseteq Companies
           /\ None \notin Phones /\ None \notin D!Persons /\ None \notin D!Profiles
           /\ "several" \in ops => "erase" \notin ops
           /\ "merge" \in ops => "add" \notin ops /\ "erase" \notin ops
           /\ "close" \in ops => "signup" \notin ops
           /\ "import" \in ops /\ "leave" \in ops => "erase" \notin ops
           /\ \A c \in Companies, i \in D!Ids : profile[c][i] # None =>
                  person[i] # None /\ person[i] \in D!Persons /\ profile[c][i] \in D!Profiles
  BY DEF DirectoryInv, Others, Entries, Shaped, OnlyKnown, D!Constants, Apart

LEMMA EntriesOn ==
    ASSUME Entries(person', profile', access'), account \subseteq account'
    PROVE  Entries(person, profile, access)'
  BY DEF Entries, Accounts, Shaped, OnlyKnown, OnePerson, OneEntry, Attended

LEMMA PutStep ==
    ASSUME D!Constants, DirectoryInv, UNCHANGED <<ops, account, closed>>,
           NEW c \in Companies, NEW i \in D!Ids, NEW p \in D!Persons, NEW new \in D!Profiles,
           person' = [person EXCEPT ![i] = p], profile' = D!Put(profile, c, i, new),
           access' \in [Companies -> [Phones -> D!Roles \cup {"none"}]],
           promise' \in [Companies -> [Phones -> D!Roles \cup {"none"}]],
           \A d \in Companies \ {c} : promise'[d] = promise[d],
           Fits(person, profile, c, i, p, new), Comes(access, access', c, p, new),
           "merge" \in ops => Plain(p, new) /\ \A u \in Phones : promise'[c][u] = "none",
           "merge" \notin ops => Follows(c, i, p, new) /\ \A u \in Phones : Due(u) => Backed(c, u)' /\ Expected(c, u)'
    PROVE  DirectoryInv'
  <1>1. Others'
    BY DEF DirectoryInv, Others
  <1>2. Shut'
    BY DirectoryFacts DEF DirectoryInv, Shut, Comes, D!ClosedStaysEmpty, D!Member
  <1>3. Entries(person, profile, access)'
    <2>1. Entries(person, profile, access)
      BY DEF DirectoryInv
    <2>2. Entries([person EXCEPT ![i] = p], D!Put(profile, c, i, new), access')
      BY <2>1, EntryPut
    <2> QED
      BY <2>2, EntriesOn
  <1>4. CASE "merge" \in ops
    <2>1. \A d \in Companies, u \in Phones : promise'[d][u] = "none"
      BY <1>4 DEF DirectoryInv, Uninvited
    <2>2. Uninvited'
      BY <1>4, <2>1, UninvitedPut
    <2> QED
      BY <1>1, <1>2, <1>3, <1>4, <2>2 DEF DirectoryInv
  <1>5. CASE "merge" \notin ops
    <2>1. Tracked'
      BY <1>5, TrackedPut
    <2> QED
      BY <1>1, <1>2, <1>3, <1>5, <2>1 DEF DirectoryInv
  <1> QED
    BY <1>4, <1>5

(* A person of the company keeps their number; what that needs. *)
LEMMA SameNumber ==
    ASSUME D!Constants, DirectoryInv, NEW c \in Companies, NEW i \in D!Ids, profile[c][i] # None,
           NEW p, p.user = person[i].user, p.phone = person[i].phone,
           NEW new, new.phone = profile[c][i].phone,
           new.pending = "open" => profile[c][i].pending = "open",
           profile[c][i].pending = "no" => new.pending = "no"
    PROVE  /\ (p.user # None /\ profile[c][i].active => new.active) => Fits(person, profile, c, i, p, new)
           /\ "merge" \in ops => Plain(p, new)
           /\ "merge" \notin ops => Follows(c, i, p, new)
  <1> DEFINE old == profile[c][i]
  <1>1. person[i] # None
    BY DirectoryFacts
  <1>2. old.phone # None => \A j \in D!Ids \ {i} : profile[c][j] # None => profile[c][j].phone # old.phone
    BY DEF DirectoryInv, Entries, OneEntry
  <1>3. "merge" \in ops => Plain(p, new)
    BY DEF DirectoryInv, Uninvited, Plain
  <1>4. ASSUME "merge" \notin ops PROVE Follows(c, i, p, new)
    <2>1. Owned(person, profile, i) /\ Alike(i)
      BY <1>4 DEF DirectoryInv, Tracked
    <2>2. ASSUME "import" \notin ops, old.phone \in account PROVE old.pending # "open"
      BY <1>4, <2>2, DirectoryFacts DEF DirectoryInv, Tracked, TakenUp, Waits
    <2> QED
      BY <1>1, <2>1, <2>2 DEF Owned, Alike, Follows
  <1>5. p.user # None =>
            /\ p.user \in account
            /\ \A j \in D!Ids \ {i} : person[j] # None => person[j].user # p.user
    BY <1>1 DEF DirectoryInv, Entries, Accounts, OnePerson
  <1> QED
    BY <1>2, <1>3, <1>4, <1>5 DEF Fits

(* A new person, with their first profile. *)
LEMMA NewNumber ==
    ASSUME D!Constants, DirectoryInv, NEW c \in Companies, NEW i \in D!NewIds, NEW p, NEW new,
           p.user # None => p.user \in account /\ \A j \in D!Ids : person[j] # None => person[j].user # p.user,
           p.user \in {p.phone, None}, new.phone \in {p.phone, None}, new.pending = "open" => new.phone \notin account,
           new.phone # None => \A j \in D!Ids : profile[c][j] # None => profile[c][j].phone # new.phone
    PROVE  /\ i \in D!Ids /\ person[i] = None /\ \A d \in Companies : profile[d][i] = None
           /\ Fits(person, profile, c, i, p, new) /\ Follows(c, i, p, new)
  <1>1. i \in D!Ids /\ person[i] = None
    BY NewIdsAreNew
  <1>2. \A d \in Companies : profile[d][i] = None
    BY <1>1, DirectoryFacts
  <1> QED
    BY <1>1, <1>2 DEF Fits, Follows

--------------------------------------------------------------------------------
(* The operations, one by one. *)

(* An invitation ends: it is cancelled, or it lapses. *)
LEMMA ExpireStep ==
    ASSUME D!Constants, DirectoryInv, NEW c \in Companies, NEW i \in D!Ids, D!CancelPending(c, i) \/ D!Expire(c, i)
    PROVE  DirectoryInv'
  <1> DEFINE old == profile[c][i]
  <1>1. old # None /\ (old.active => D!Expire(c, i) \/ person[i].user = None)
    BY DEF D!CancelPending, D!Expire, D!Listed
  <1>2. old \in D!Profiles /\ person[i] \in D!Persons /\ person[i] # None
    BY <1>1, DirectoryFacts
  <1>3. PICK new \in D!Profiles :
            /\ profile' = D!Put(profile, c, i, new)
            /\ new.phone = old.phone /\ new.pending # "open" /\ (old.pending = "no" => new.pending = "no")
            /\ person[i].user # None /\ old.active => new.active
    <2>1. CASE D!CancelPending(c, i)
      <3> DEFINE new == [old EXCEPT !.active = FALSE, !.pending = "no", !.role = "member"]
      <3>1. /\ new \in D!Profiles /\ new.phone = old.phone /\ new.pending = "no"
            /\ person[i].user = None /\ profile' = D!Put(profile, c, i, new)
        BY <1>2, <2>1 DEF D!CancelPending, D!Profiles, D!Roles
      <3> QED
        BY <3>1
    <2>2. CASE D!Expire(c, i)
      <3> DEFINE new == [old EXCEPT !.pending = "expired"]
      <3>1. /\ new \in D!Profiles /\ new.phone = old.phone /\ new.pending = "expired"
            /\ new.active = old.active /\ profile' = D!Put(profile, c, i, new) /\ old.pending = "open"
        BY <1>2, <2>2 DEF D!Expire, D!Profiles
      <3> QED
        BY <3>1
    <2> QED
      BY <2>1, <2>2
  <1>4. /\ person' = person /\ access' = access /\ ops' = ops /\ account' = account /\ closed' = closed
        /\ promise' = [promise EXCEPT ![c] = [u \in Phones |-> IF u = old.phone THEN "none" ELSE @[u]]]
    BY DEF D!CancelPending, D!Expire
  <1>5. /\ promise' \in [Companies -> [Phones -> D!Roles \cup {"none"}]]
        /\ \A d \in Companies \ {c} : promise'[d] = promise[d]
        /\ \A u \in Phones : promise'[c][u] = IF u = old.phone THEN "none" ELSE promise[c][u]
    BY <1>4, DirectoryFacts
  <1>6. person' = [person EXCEPT ![i] = person[i]]
    BY <1>4, DirectoryFacts
  <1>7. /\ Fits(person, profile, c, i, person[i], new)
        /\ "merge" \in ops => Plain(person[i], new)
        /\ "merge" \notin ops => Follows(c, i, person[i], new)
    BY <1>1, <1>3, SameNumber
  <1>8. ASSUME NEW u \in Phones, "merge" \notin ops, Due(u) PROVE Backed(c, u)' /\ Expected(c, u)'
    <2>1. profile'[c][i] = new /\ \A j \in D!Ids \ {i} : profile'[c][j] = profile[c][j]
      BY <1>3, PutIn, DirectoryFacts
    <2>2. CASE u = old.phone
      <3>1. \A j \in D!Ids : ~Waits(c, j, u)'
        BY <1>3, <2>1, <2>2, <1>7, DirectoryFacts DEF Waits, Fits
      <3> QED
        BY <1>5, <2>2, <3>1, NobodyWaits
    <2>3. CASE u # old.phone
      <3>1. Backed(c, u) /\ Expected(c, u)
        BY <1>8 DEF DirectoryInv, Tracked
      <3> QED
        BY <1>3, <1>4, <1>5, <2>1, <2>3, <3>1, WaitsOn DEF Waits
    <2> QED
      BY <2>2, <2>3
  <1>9. "merge" \in ops => \A u \in Phones : promise'[c][u] = "none"
    BY <1>5 DEF DirectoryInv, Uninvited
  <1>10. Comes(access, access', c, person[i], new)
    BY <1>4 DEF Comes
  <1> QED
    BY <1>2, <1>3, <1>4, <1>5, <1>6, <1>8, <1>9, <1>7, <1>10, PutStep, DirectoryFacts

(* A worker is added. *)
LEMMA WorkerStep ==
    ASSUME D!Constants, DirectoryInv, NEW c \in Companies, NEW u \in Phones, D!AddWorker(c, u)
    PROVE  DirectoryInv'
  <1> DEFINE same == D!Holders(c, u) \cap {i \in D!Listed(c) : profile[c][i].active}
             text == {i \in D!Listed(c) : profile[c][i].active /\ person[i].phone = u}
  <1>1. access' = access /\ ops' = ops /\ account' = account /\ closed' = closed /\ promise' = promise
    BY DEF D!AddWorker
  <1>2. \A p, new : Comes(access, access', c, p, new)
    BY <1>1 DEF Comes
  <1>3. "merge" \in ops => \A u2 \in Phones : promise'[c][u2] = "none"
    BY <1>1 DEF DirectoryInv, Uninvited
  <1>4. CASE same \cup text # {}
    <2> DEFINE i == IF same # {} THEN D!Least(same) ELSE D!Least(text)
               p == [person[i] EXCEPT !.worker = TRUE]
    <2>1. i \in D!Ids /\ profile[c][i] # None
      <3>1. same \subseteq Nat /\ text \subseteq Nat
        BY DEF D!Holders, D!Listed, D!Known, D!Ids
      <3>2. i \in same \cup text
        BY <1>4, <3>1, LeastIsOne
      <3> QED
        BY <3>2 DEF D!Holders, D!Listed, D!Known
    <2>2. person' = [person EXCEPT ![i].worker = TRUE] /\ profile' = profile
      BY <1>4 DEF D!AddWorker
    <2> HIDE DEF i
    <2>3. person[i] \in D!Persons /\ person[i] # None /\ profile[c][i] \in D!Profiles
      BY <2>1, DirectoryFacts
    <2>4. p \in D!Persons /\ p.user = person[i].user /\ p.phone = person[i].phone
      BY <2>3 DEF D!Persons
    <2>5. person' = [person EXCEPT ![i] = p] /\ profile' = D!Put(profile, c, i, profile[c][i])
      BY <2>1, <2>2, DirectoryFacts DEF D!Put
    <2> HIDE DEF p
    <2>6. /\ Fits(person, profile, c, i, p, profile[c][i])
          /\ "merge" \in ops => Plain(p, profile[c][i])
          /\ "merge" \notin ops => Follows(c, i, p, profile[c][i])
      BY <2>1, <2>4, SameNumber
    <2>7. ASSUME "merge" \notin ops, NEW v \in Phones, Due(v) PROVE Backed(c, v)' /\ Expected(c, v)'
      <3>1. Backed(c, v) /\ Expected(c, v)
        BY <2>7 DEF DirectoryInv, Tracked
      <3> QED
        BY <1>1, <2>2, <3>1, WaitsOn
    <2> QED
      BY <1>1, <1>2, <1>3, <2>1, <2>3, <2>4, <2>5, <2>6, <2>7, PutStep, DirectoryFacts
  <1>5. CASE same \cup text = {}
    <2> DEFINE p   == D!NewPerson(None, u, FALSE, TRUE)
               new == D!NewProfile(None, "no", "member")
    <2>1. PICK i \in D!NewIds : person' = [person EXCEPT ![i] = p] /\ profile' = D!Put(profile, c, i, new)
      BY <1>5 DEF D!AddWorker
    <2>2. /\ p \in D!Persons /\ new \in D!Profiles
          /\ p.user = None /\ p.phone = u /\ new.phone = None /\ new.pending = "no"
      BY DEF D!NewPerson, D!NewProfile, D!Persons, D!Profiles, D!Roles
    <2> HIDE DEF p, new
    <2>3. /\ i \in D!Ids /\ person[i] = None /\ profile[c][i] = None
          /\ Fits(person, profile, c, i, p, new) /\ Follows(c, i, p, new) /\ Plain(p, new)
      BY <2>2, NewNumber DEF Plain
    <2>4. ASSUME "merge" \notin ops, NEW v \in Phones, Due(v) PROVE Backed(c, v)' /\ Expected(c, v)'
      <3>1. Backed(c, v) /\ Expected(c, v)
        BY <2>4 DEF DirectoryInv, Tracked
      <3>2. profile'[c][i] = new /\ \A j \in D!Ids \ {i} : profile'[c][j] = profile[c][j]
        BY <2>1, <2>3, PutIn, DirectoryFacts
      <3> QED
        BY <1>1, <2>2, <2>3, <3>1, <3>2, WaitsOn DEF Waits
    <2> QED
      BY <1>1, <1>2, <1>3, <2>1, <2>2, <2>3, <2>4, PutStep, DirectoryFacts
  <1> QED
    BY <1>4, <1>5

(* Who joins is listed, with their number if it is free. *)
LEMMA JoinStep ==
    ASSUME D!Constants, DirectoryInv, NEW c \in Companies, NEW u \in Phones, D!Join(c, u)
    PROVE  DirectoryInv'
  <1>1. /\ ops' = ops /\ account' = account /\ closed' = closed /\ promise' = promise
        /\ access' = [access EXCEPT ![c][u] = "member"]
        /\ u \in account /\ c \notin closed /\ u # None
    BY DirectoryFacts DEF D!Join, D!Open
  <1>2. access' \in [Companies -> [Phones -> D!Roles \cup {"none"}]]
    BY <1>1, DirectoryFacts DEF D!Roles
  <1>3. ASSUME NEW p, NEW new, p.user = u, new.active PROVE Comes(access, access', c, p, new)
    BY <1>1, <1>3, DirectoryFacts DEF Comes
  <1>4. "merge" \in ops => \A v \in Phones : promise'[c][v] = "none"
    BY <1>1 DEF DirectoryInv, Uninvited
  <1>5. PICK i \in (IF D!OfUser(u) = {} THEN D!NewIds ELSE D!OfUser(u)) :
            /\ person' = IF i \in D!Known THEN person ELSE [person EXCEPT ![i] = D!NewPerson(u, u, TRUE, FALSE)]
            /\ profile' = D!Put(profile, c, i, D!EnsuredProfile(c, i, D!FreePhone(c, i, u)))
    BY DEF D!Join
  <1> DEFINE new == D!EnsuredProfile(c, i, D!FreePhone(c, i, u))
  <1>6. i \in D!Ids
    BY <1>5, NewIdsAreNew DEF D!OfUser, D!Known
  <1>7. PICK p \in D!Persons :
            /\ person' = [person EXCEPT ![i] = p] /\ p.user = u
            /\ new \in D!Profiles /\ new.active
            /\ profile[c][i] # None => person[i] # None
            /\ Fits(person, profile, c, i, p, new) /\ ("merge" \in ops => Plain(p, new))
            /\ "merge" \notin ops => Follows(c, i, p, new)
            /\ profile[c][i] = None => new.pending = "no"
            /\ profile[c][i] # None => /\ new.phone = profile[c][i].phone
                                       /\ new = profile[c][i] \/ (new.pending = "no" /\ ~profile[c][i].active)
    <2>1. CASE D!OfUser(u) = {}
      <3> DEFINE p == D!NewPerson(u, u, TRUE, FALSE)
      <3>1. i \in D!NewIds /\ person[i] = None /\ profile[c][i] = None /\ i \notin D!Known
        BY <1>5, <2>1, NewIdsAreNew, DirectoryFacts DEF D!Known
      <3>2. new = D!NewProfile(IF D!Holders(c, u) # {} THEN None ELSE u, "no", "member")
        BY <1>1, <3>1 DEF D!EnsuredProfile, D!FreePhone
      <3>3. p \in D!Persons /\ p.user = u /\ p.phone = u /\ person' = [person EXCEPT ![i] = p]
        BY <1>5, <3>1 DEF D!NewPerson, D!Persons
      <3>4. new \in D!Profiles /\ new.active /\ new.pending = "no" /\ new.phone \in {u, None}
        BY <3>2 DEF D!NewProfile, D!Profiles, D!Roles
      <3>5. new.phone # None => new.phone = u /\ D!Holders(c, u) = {}
        BY <3>2 DEF D!NewProfile
      <3> HIDE DEF new, p
      <3>6. \A j \in D!Ids : person[j] # None => person[j].user # u
        BY <2>1 DEF D!OfUser, D!Known
      <3>7. new.phone # None => \A j \in D!Ids : profile[c][j] # None => profile[c][j].phone # new.phone
        BY <3>5, DirectoryFacts DEF D!Holders, D!Listed, D!Known
      <3>8. Fits(person, profile, c, i, p, new) /\ Follows(c, i, p, new)
        BY <1>1, <3>1, <3>3, <3>4, <3>6, <3>7, NewNumber
      <3> QED
        BY <1>1, <3>1, <3>3, <3>4, <3>8 DEF Plain
    <2>2. CASE D!OfUser(u) # {}
      <3>1. person[i] # None /\ person[i].user = u /\ person' = person
        BY <1>5, <2>2 DEF D!OfUser, D!Known
      <3>2. person[i] \in D!Persons /\ person' = [person EXCEPT ![i] = person[i]]
        BY <1>6, <3>1, DirectoryFacts
      <3>3. CASE profile[c][i] = None
        <4> DEFINE free == D!FreePhone(c, i, u)
        <4>1. new = D!NewProfile(IF free # None /\ D!Holders(c, free) # {} THEN None ELSE free, "no", "member")
          BY <3>3 DEF D!EnsuredProfile
        <4>2. free \in {person[i].phone, None} /\ free \in Phones \cup {None}
          BY <3>1, <3>2 DEF D!FreePhone, D!Persons
        <4> HIDE DEF free
        <4>3. new \in D!Profiles /\ new.active /\ new.pending = "no" /\ new.phone \in {person[i].phone, None}
          BY <4>1, <4>2 DEF D!NewProfile, D!Profiles, D!Roles
        <4>4. new.phone # None => D!Holders(c, new.phone) = {}
          BY <4>1 DEF D!NewProfile
        <4> HIDE DEF new
        <4>5. new.phone # None => \A j \in D!Ids : profile[c][j] # None => profile[c][j].phone # new.phone
          BY <4>4, DirectoryFacts DEF D!Holders, D!Listed, D!Known
        <4>6. Fits(person, profile, c, i, person[i], new)
          BY <1>1, <1>6, <3>1, <3>3, <4>3, <4>5 DEF Fits, DirectoryInv, Entries, OnePerson
        <4>7. "merge" \notin ops => Follows(c, i, person[i], new)
          BY <1>1, <1>6, <3>1, <4>3 DEF Follows, DirectoryInv, Tracked, Owned
        <4> QED
          BY <1>1, <3>1, <3>2, <3>3, <4>3, <4>6, <4>7 DEF Plain
      <3>4. CASE profile[c][i] # None
        <4>1. profile[c][i] \in D!Profiles
          BY <1>6, <3>4, DirectoryFacts
        <4>2. /\ new \in D!Profiles /\ new.active /\ new.phone = profile[c][i].phone
              /\ new = profile[c][i] \/ (new.pending = "no" /\ ~profile[c][i].active)
          BY <3>4, <4>1 DEF D!EnsuredProfile, D!Profiles
        <4> HIDE DEF new
        <4>3. Fits(person, profile, c, i, person[i], new) /\ ("merge" \notin ops => Follows(c, i, person[i], new))
          BY <1>6, <3>4, <4>2, SameNumber
        <4>4. "merge" \in ops => Plain(person[i], new)
          BY <1>6, <3>4, <4>2, SameNumber
        <4> QED
          BY <1>1, <3>1, <3>2, <3>4, <4>2, <4>3, <4>4
      <3> QED
        BY <3>3, <3>4
    <2> QED
      BY <2>1, <2>2
  <1> HIDE DEF new
  <1>8. ASSUME "merge" \notin ops, NEW v \in Phones, Due(v) PROVE Backed(c, v)' /\ Expected(c, v)'
    <2>1. Backed(c, v) /\ Expected(c, v)
      BY <1>8 DEF DirectoryInv, Tracked
    <2>2. profile'[c][i] = new /\ \A j \in D!Ids \ {i} : profile'[c][j] = profile[c][j]
      BY <1>5, <1>6, <1>7, PutIn, DirectoryFacts DEF new
    <2>3. Waits(c, i, v) \/ Waits(c, i, v)' => profile'[c][i] = profile[c][i]
      BY <1>1, <1>6, <1>7, <2>1, <2>2 DEF Waits, Expected
    <2> QED
      BY <1>1, <2>1, <2>2, <2>3, WaitsOn
  <1> QED
    BY <1>1, <1>2, <1>3, <1>4, <1>5, <1>6, <1>7, <1>8, PutStep, DirectoryFacts DEF new

(* A person of another company is copied. *)
LEMMA ImportStep ==
    ASSUME D!Constants, DirectoryInv, NEW c \in Companies, NEW d \in Companies, NEW i \in D!Ids, D!Import(c, d, i)
    PROVE  DirectoryInv'
  <1> DEFINE source  == profile[d][i]
             u       == person[i].user
             old     == profile[c][i]
             pending == IF u = None /\ (source.phone # None \/ person[i].phone # None) THEN "open" ELSE "no"
             first   == D!NewProfile(source.phone, pending, "member")
             back    == [old EXCEPT !.active = TRUE, !.pending = pending, !.role = "member"]
             new     == IF old = None THEN first ELSE IF ~old.active THEN back ELSE old
             phone   == new.phone
             told    == phone # None /\ new.pending = "open" /\ new # old
  <1>1. /\ ops' = ops /\ account' = account /\ closed' = closed /\ person' = person
        /\ "import" \in ops /\ c \notin closed /\ c # d /\ source # None
        /\ access' = IF u # None /\ access[c][u] = "none" THEN [access EXCEPT ![c][u] = "member"] ELSE access
        /\ old = None => source.phone = None \/ D!Holders(c, source.phone) \subseteq {i}
    BY DEF D!Import, D!Open, D!Listed, D!Member
  <1>2. /\ person[i] # None /\ person[i] \in D!Persons /\ source \in D!Profiles
        /\ old # None => old \in D!Profiles
        /\ person' = [person EXCEPT ![i] = person[i]]
    BY <1>1, DirectoryFacts
  <1>3. /\ new \in D!Profiles /\ new.active
        /\ old = None => new.phone = source.phone /\ new.pending = pending /\ new.role = "member"
        /\ old # None => /\ new.phone = old.phone
                         /\ old.active => new = old
                         /\ ~old.active => new.pending = pending /\ new.role = "member" /\ new # old
    BY <1>2 DEF D!NewProfile, D!Profiles, D!Roles
  <1>4. profile' = D!Put(profile, c, i, new)
    <2>1. CASE old = None
      BY <2>1 DEF D!Import
    <2>2. CASE old # None /\ ~old.active
      BY <2>2 DEF D!Import
    <2>3. CASE old # None /\ old.active
      <3>1. profile' = profile
        BY <2>3 DEF D!Import
      <3> QED
        BY <2>3, <3>1, DirectoryFacts DEF D!Put
    <2> QED
      BY <2>1, <2>2, <2>3
  <1>5. profile'[c][i] = new /\ \A j \in D!Ids \ {i} : profile'[c][j] = profile[c][j]
    <2> HIDE DEF new
    <2>1. profile \in [Companies -> [D!Ids -> D!Profiles \cup {None}]]
      BY DirectoryFacts
    <2>2. D!Put(profile, c, i, new)[c][i] = new
      BY <2>1, PutIn
    <2>3. \A e \in Companies, j \in D!Ids : e # c \/ j # i => D!Put(profile, c, i, new)[e][j] = profile[e][j]
      BY <2>1 DEF D!Put
    <2> QED
      BY <1>4, <2>2, <2>3
  <1>6. new # old <=> profile' # profile
    <2>1. CASE new = old
      BY <1>4, <2>1, DirectoryFacts DEF D!Put
    <2> QED
      BY <1>5, <2>1
  <1>7. promise' = IF told THEN [promise EXCEPT ![c][phone] = "member"] ELSE promise
    BY <1>5, <1>6 DEF D!Import
  <1> HIDE DEF new, first, back
  <1>8. phone \in Phones \cup {None} /\ u \in Phones \cup {None}
    BY <1>2, <1>3 DEF D!Profiles, D!Persons
  <1>9. /\ promise' \in [Companies -> [Phones -> D!Roles \cup {"none"}]]
        /\ \A e \in Companies \ {c} : promise'[e] = promise[e]
        /\ \A v \in Phones : promise'[c][v] = IF told /\ v = phone THEN "member" ELSE promise[c][v]
    BY <1>7, <1>8, DirectoryFacts DEF D!Roles
  <1>10. /\ access' \in [Companies -> [Phones -> D!Roles \cup {"none"}]]
         /\ Comes(access, access', c, person[i], new)
    BY <1>1, <1>3, <1>8, DirectoryFacts DEF D!Roles, Comes
  <1>11. /\ Fits(person, profile, d, i, person[i], source)
         /\ "merge" \in ops => Plain(person[i], source)
         /\ "merge" \notin ops => Follows(d, i, person[i], source)
    BY <1>1, <1>3, SameNumber
  <1>12. old # None => /\ Fits(person, profile, c, i, person[i], old)
                       /\ "merge" \in ops => Plain(person[i], old)
                       /\ "merge" \notin ops => Follows(c, i, person[i], old)
    BY SameNumber
  <1>13. Fits(person, profile, c, i, person[i], new)
    <2>1. CASE old = None
      <3>1. new.phone # None => \A j \in D!Ids \ {i} : profile[c][j] # None => profile[c][j].phone # new.phone
        BY <1>1, <1>3, <2>1, DirectoryFacts DEF D!Holders, D!Listed, D!Known
      <3> QED
        BY <1>3, <1>11, <3>1 DEF Fits
    <2>2. CASE old # None
      BY <1>3, <1>12, <2>2 DEF Fits
    <2> QED
      BY <2>1, <2>2
  <1>14. ASSUME "merge" \in ops PROVE Plain(person[i], new)
    BY <1>3, <1>11, <1>12, <1>14 DEF Plain
  <1>15. ASSUME "merge" \notin ops PROVE Follows(c, i, person[i], new)
    <2>1. CASE old = None
      BY <1>1, <1>2, <1>3, <1>11, <1>15, <2>1 DEF Follows
    <2>2. CASE old # None
      BY <1>1, <1>3, <1>12, <1>15, <2>2 DEF Follows
    <2> QED
      BY <2>1, <2>2
  <1>16. ASSUME "merge" \in ops, NEW v \in Phones PROVE promise'[c][v] = "none"
    <2>1. promise[c][v] = "none"
      BY <1>16 DEF DirectoryInv, Uninvited
    <2>2. phone = None \/ new.pending = "no"
      BY <1>14, <1>16 DEF Plain
    <2> QED
      BY <1>9, <2>1, <2>2
  <1>17. ASSUME "merge" \notin ops, NEW v \in Phones, Due(v) PROVE Backed(c, v)' /\ Expected(c, v)'
    <2>1. Backed(c, v) /\ Expected(c, v)
      BY <1>17 DEF DirectoryInv, Tracked
    <2>2. CASE told /\ v = phone
      <3>1. Waits(c, i, v)' /\ profile'[c][i].role = promise'[c][v] /\ profile'[c][i].active /\ promise'[c][v] # "none"
        BY <1>2, <1>3, <1>5, <1>9, <2>2, DirectoryFacts DEF Waits
      <3>2. OneEntry(profile')
        <4>1. Entries([person EXCEPT ![i] = person[i]], D!Put(profile, c, i, new), access')
          BY <1>2, <1>3, <1>10, <1>13, EntryPut DEF DirectoryInv
        <4> QED
          BY <1>4, <4>1 DEF Entries
      <3> QED
        BY <2>2, <3>1, <3>2, BackedBy
    <2>3. CASE ~(told /\ v = phone)
      <3>1. Waits(c, i, v) \/ Waits(c, i, v)' => profile'[c][i] = profile[c][i]
        <4>1. CASE new = old
          BY <1>5, <4>1
        <4>2. CASE new # old
          <5>1. ~Waits(c, i, v)
            BY <1>1, <1>3, <2>1, <4>2 DEF Waits, Expected
          <5>2. ~Waits(c, i, v)'
            BY <1>5, <2>3, <4>2, DirectoryFacts DEF Waits
          <5> QED
            BY <5>1, <5>2
        <4> QED
          BY <4>1, <4>2
      <3> QED
        BY <1>1, <1>5, <1>9, <2>1, <2>3, <3>1, WaitsOn
    <2> QED
      BY <2>2, <2>3
  <1> QED
    BY <1>1, <1>2, <1>3, <1>4, <1>9, <1>10, <1>13, <1>14, <1>15, <1>16, <1>17, PutStep

(* A number without an account is invited. *)
LEMMA InviteStep ==
    ASSUME D!Constants, DirectoryInv, "add" \in ops, NEW c \in Companies, NEW u \in Phones, NEW r \in D!Roles,
           NEW mine \in SUBSET Companies, c \in mine, c \notin closed, mine = {c} \/ "several" \in ops,
           D!AddPending(c, u, r, mine)
    PROVE  DirectoryInv'
  <1>1. /\ ops' = ops /\ account' = account /\ closed' = closed /\ access' = access
        /\ promise' = [promise EXCEPT ![c][u] = r]
        /\ u \notin account /\ u # None
    BY DirectoryFacts DEF D!AddPending
  <1>2. "merge" \notin ops
    BY DirectoryFacts
  <1>3. PICK i \in (IF D!Candidates(u, mine) = {} THEN D!NewIds ELSE D!Candidates(u, mine)) :
            /\ ~D!Refused(profile, c, i, u)
            /\ person' = [person EXCEPT ![i] = IF i \in D!Known THEN @ ELSE D!NewPerson(None, u, TRUE, FALSE)]
            /\ profile' = D!Put(profile, c, i, D!Upserted(profile[c][i], u, "open", r))
    BY DEF D!AddPending
  <1> DEFINE old == profile[c][i]
             new == D!Upserted(old, u, "open", r)
  <1>4. /\ promise' \in [Companies -> [Phones -> D!Roles \cup {"none"}]]
        /\ \A d \in Companies \ {c} : promise'[d] = promise[d]
        /\ \A v \in Phones : promise'[c][v] = IF v = u THEN r ELSE promise[c][v]
    BY <1>1, DirectoryFacts
  <1>5. i \in D!Ids
    BY <1>3, NewIdsAreNew DEF D!Candidates, D!Holders, D!Listed, D!Known
  <1>6. old # None => old \in D!Profiles
    BY <1>5, DirectoryFacts
  <1>7. /\ new \in D!Profiles /\ new.active /\ new.pending = "open" /\ new.role = r /\ r # "none"
        /\ new.phone = IF old = None THEN u ELSE old.phone
    BY <1>6 DEF D!Upserted, D!NewProfile, D!Profiles, D!Roles
  <1>8. old = None => \A j \in D!Ids \ {i} : profile[c][j] # None => profile[c][j].phone # u
    BY <1>3 DEF D!Refused
  <1>9. PICK p \in D!Persons :
            /\ person' = [person EXCEPT ![i] = p] /\ p.user = None
            /\ new.phone = u
            /\ Fits(person, profile, c, i, p, new) /\ Follows(c, i, p, new)
    <2>1. CASE D!Candidates(u, mine) = {}
      <3> DEFINE p == D!NewPerson(None, u, TRUE, FALSE)
      <3>1. i \in D!NewIds /\ person[i] = None /\ old = None /\ i \notin D!Known
        BY <1>3, <2>1, NewIdsAreNew, DirectoryFacts DEF D!Known
      <3>2. p \in D!Persons /\ p.user = None /\ p.phone = u /\ person' = [person EXCEPT ![i] = p]
        BY <1>3, <3>1 DEF D!NewPerson, D!Persons
      <3> HIDE DEF new, p
      <3>3. \A j \in D!Ids : profile[c][j] # None => profile[c][j].phone # u
        BY <1>8, <3>1
      <3>4. Fits(person, profile, c, i, p, new) /\ Follows(c, i, p, new)
        BY <1>1, <1>7, <3>1, <3>2, <3>3, NewNumber
      <3> QED
        BY <1>7, <3>1, <3>2, <3>4
    <2>2. CASE D!Candidates(u, mine) # {}
      <3>1. PICK d \in mine : profile[d][i] # None /\ profile[d][i].phone = u /\ person[i] # None /\ person[i].user = None
        BY <1>3, <2>2 DEF D!Candidates, D!Holders, D!Listed, D!Known
      <3>2. person[i] \in D!Persons /\ person' = [person EXCEPT ![i] = person[i]]
        BY <1>3, <1>5, <3>1, DirectoryFacts DEF D!Known
      <3>3. Follows(d, i, person[i], profile[d][i])
        BY <1>2, <1>5, <3>1, SameNumber
      <3>4. person[i].phone = u
        BY <1>1, <3>1, <3>3 DEF Follows
      <3>5. \A e \in Companies : "erase" \notin ops /\ profile[e][i] # None => profile[e][i].phone = u
        BY <1>1, <3>1, <3>3, <3>4 DEF Follows
      <3>6. new.phone = u
        BY <1>7, <3>1, <3>5, DirectoryFacts
      <3> HIDE DEF new
      <3>7. Follows(c, i, person[i], new)
        BY <1>1, <1>7, <3>1, <3>4, <3>5, <3>6 DEF Follows
      <3>8. \A j \in D!Ids \ {i} : profile[c][j] # None => profile[c][j].phone # u
        BY <1>1, <1>5, <1>7, <1>8, <3>6 DEF DirectoryInv, Entries, OneEntry
      <3>9. Fits(person, profile, c, i, person[i], new)
        BY <3>1, <3>6, <3>8 DEF Fits
      <3> QED
        BY <3>1, <3>2, <3>6, <3>7, <3>9
    <2> QED
      BY <2>1, <2>2
  <1> HIDE DEF new
  <1>10. Comes(access, access', c, p, new)
    BY <1>1 DEF Comes
  <1>11. profile' = D!Put(profile, c, i, new)
    BY <1>3 DEF new
  <1>12. profile'[c][i] = new /\ \A j \in D!Ids \ {i} : profile'[c][j] = profile[c][j]
    BY <1>5, <1>7, <1>11, PutIn, DirectoryFacts
  <1>13. ASSUME NEW v \in Phones, Due(v) PROVE Backed(c, v)' /\ Expected(c, v)'
    <2>1. CASE v = u
      <3>1. Waits(c, i, u)' /\ profile'[c][i].role = promise'[c][u] /\ profile'[c][i].active /\ promise'[c][u] # "none"
        BY <1>4, <1>7, <1>9, <1>12, DirectoryFacts DEF Waits
      <3>2. OneEntry(profile')
        <4>1. Entries([person EXCEPT ![i] = p], D!Put(profile, c, i, new), access')
          BY <1>5, <1>7, <1>9, <1>10, EntryPut DEF DirectoryInv
        <4> QED
          BY <1>11, <4>1 DEF Entries
      <3> QED
        BY <1>1, <1>5, <2>1, <3>1, <3>2, BackedBy
    <2>2. CASE v # u
      <3>1. Backed(c, v) /\ Expected(c, v)
        BY <1>2, <1>13 DEF DirectoryInv, Tracked
      <3>2. ~Waits(c, i, v) /\ ~Waits(c, i, v)'
        BY <1>7, <1>9, <1>12, <2>2 DEF Waits
      <3> QED
        BY <1>1, <1>4, <1>12, <2>2, <3>1, <3>2, WaitsOn
    <2> QED
      BY <2>1, <2>2
  <1> QED
    BY <1>1, <1>2, <1>4, <1>5, <1>7, <1>9, <1>10, <1>11, <1>13, PutStep, DirectoryFacts

(* A number with an account is added. *)
LEMMA AddStep ==
    ASSUME D!Constants, DirectoryInv, "add" \in ops, NEW c \in Companies, NEW u \in Phones, NEW r \in D!Roles,
           c \notin closed, D!AddAccount(c, u, r)
    PROVE  DirectoryInv'
  <1> DEFINE own   == D!OfUser(u)
             stale == D!Stale(c, u)
             least == D!Least(stale)
             freed == IF own # {} /\ stale # {} THEN D!Put(profile, c, least, D!Released(profile[c][least])) ELSE profile
  <1>1. /\ ops' = ops /\ account' = account /\ closed' = closed
        /\ promise' = [promise EXCEPT ![c][u] = "none"] /\ access' = [access EXCEPT ![c][u] = r]
        /\ u \in account /\ u # None
    BY DirectoryFacts DEF D!AddAccount
  <1>2. "merge" \notin ops
    BY DirectoryFacts
  <1>3. PICK i \in (IF own # {} THEN own ELSE IF stale # {} THEN stale ELSE D!NewIds) :
            /\ ~D!Refused(freed, c, i, u)
            /\ person' = [person EXCEPT ![i] = IF i \in D!Known THEN [@ EXCEPT !.user = u] ELSE D!NewPerson(u, u, TRUE, FALSE)]
            /\ profile' = D!Put(freed, c, i, D!Upserted(freed[c][i], u, "no", "member"))
    BY DEF D!AddAccount
  <1>4. /\ promise' \in [Companies -> [Phones -> D!Roles \cup {"none"}]]
        /\ access' \in [Companies -> [Phones -> D!Roles \cup {"none"}]]
        /\ \A d \in Companies \ {c} : promise'[d] = promise[d] /\ access'[d] = access[d]
        /\ \A v \in Phones : /\ promise'[c][v] = IF v = u THEN "none" ELSE promise[c][v]
                             /\ access'[c][v] = IF v = u THEN r ELSE access[c][v]
    BY <1>1, DirectoryFacts DEF D!Roles
  <1>5. i \in D!Ids
    BY <1>3, NewIdsAreNew DEF D!OfUser, D!Stale, D!Holders, D!Listed, D!Known
  <1>6. /\ \A j \in own : j \in D!Ids /\ person[j] # None /\ person[j].user = u
        /\ \A j \in stale : /\ j \in D!Ids /\ person[j] # None /\ person[j].user = None
                            /\ profile[c][j] # None /\ profile[c][j].phone = u
    BY DEF D!OfUser, D!Stale, D!Holders, D!Listed, D!Known
  <1>7. \A j \in D!Ids : person[j] # None =>
            /\ person[j].user \in {person[j].phone, None}
            /\ \A d \in Companies : profile[d][j] # None => profile[d][j].phone \in {person[j].phone, None}
    BY <1>2 DEF DirectoryInv, Tracked, Owned
  <1>8. /\ \A j \in D!Ids : person[j] # None /\ person[j].user = u => j \in own
        /\ \A j \in D!Ids : profile[c][j] # None /\ profile[c][j].phone = u => j \in own \cup stale
    <2>1. \A j \in D!Ids : person[j] # None /\ person[j].user = u => j \in own
      BY DEF D!OfUser, D!Known
    <2>2. ASSUME NEW j \in D!Ids, profile[c][j] # None, profile[c][j].phone = u PROVE j \in own \cup stale
      <3>1. person[j] # None /\ person[j].user \in {u, None}
        BY <1>1, <1>7, <2>2, DirectoryFacts
      <3> QED
        BY <2>1, <2>2, <3>1 DEF D!Stale, D!Holders, D!Listed, D!Known
    <2> QED
      BY <2>1, <2>2
  <1>9. PICK p \in D!Persons : /\ person' = [person EXCEPT ![i] = p] /\ p.user = u /\ p.phone = u
                               /\ person[i] # None => person[i].phone = u
    <2>1. CASE person[i] = None
      <3>1. i \notin D!Known /\ D!NewPerson(u, u, TRUE, FALSE) \in D!Persons
        BY <2>1 DEF D!Known, D!NewPerson, D!Persons
      <3> QED
        BY <1>3, <2>1, <3>1 DEF D!NewPerson
    <2>2. CASE person[i] # None
      <3>1. person[i].phone = u /\ person[i] \in D!Persons /\ i \in D!Known
        <4>1. i \in own \cup stale
          BY <1>3, <2>2, NewIdsAreNew
        <4> QED
          BY <1>1, <1>5, <1>6, <1>7, <2>2, <4>1, DirectoryFacts DEF D!Known
      <3> DEFINE p == [person[i] EXCEPT !.user = u]
      <3>2. p \in D!Persons /\ p.user = u /\ p.phone = u
        BY <3>1 DEF D!Persons
      <3> QED
        BY <1>3, <3>1, <3>2
    <2> QED
      BY <2>1, <2>2
  <1>10. \A j \in D!Ids \ {i} : person[j] # None => person[j].user # u
    BY <1>1, <1>3, <1>5, <1>6, <1>8 DEF DirectoryInv, Entries, OnePerson
  <1>11. /\ profile[c][i] # None => profile[c][i] \in D!Profiles
         /\ person[i] = None => \A d \in Companies : profile[d][i] = None
    BY <1>5, DirectoryFacts
  <1>12. \A new : new.active => Comes(access, access', c, p, new)
    BY <1>4, <1>9 DEF Comes
  <1>13. \A v \in Phones \ {u} : ~Waits(c, i, v)
    BY <1>5, <1>7, <1>9, DirectoryFacts DEF Waits
  <1>14. i \in own => person[i].user = u
    BY <1>6
  <1>15. person[i] # None => person[i].user \in {u, None}
    BY <1>5, <1>7, <1>9
  <1> HIDE DEF own, stale, least
  <1>16. CASE own = {} \/ stale = {}
    <2> DEFINE old == profile[c][i]
               new == D!Upserted(old, u, "no", "member")
    <2>1. profile' = D!Put(profile, c, i, new) /\ ~D!Refused(profile, c, i, u)
      BY <1>3, <1>16
    <2>2. /\ new \in D!Profiles /\ new.active /\ new.pending = "no"
          /\ new.phone = IF old = None THEN u ELSE old.phone
      BY <1>11 DEF D!Upserted, D!NewProfile, D!Profiles, D!Roles
    <2> HIDE DEF new
    <2>3. old # None => old.phone \in {u, None}
      BY <1>5, <1>7, <1>9, <1>11
    <2>4. \A j \in D!Ids \ {i} : profile[c][j] # None => profile[c][j].phone # u
      <3> SUFFICES ASSUME NEW j \in D!Ids \ {i}, profile[c][j] # None, profile[c][j].phone = u PROVE FALSE
        OBVIOUS
      <3>1. j \in own \cup stale
        BY <1>8
      <3>2. j \notin own
        BY <1>6, <1>10
      <3>3. j \in stale /\ i \in stale
        BY <1>3, <1>16, <3>1, <3>2
      <3>4. profile[c][i] # None /\ profile[c][i].phone = u
        BY <1>6, <3>3
      <3> QED
        BY <1>1, <1>5, <3>4 DEF DirectoryInv, Entries, OneEntry
    <2>5. Fits(person, profile, c, i, p, new)
      BY <1>1, <1>9, <1>10, <1>15, <2>2, <2>3, <2>4 DEF Fits
    <2>6. Follows(c, i, p, new)
      BY <1>1, <1>9, <2>2, <2>3 DEF Follows
    <2>7. profile'[c][i] = new /\ \A j \in D!Ids \ {i} : profile'[c][j] = profile[c][j]
      BY <1>5, <2>1, <2>2, PutIn, DirectoryFacts
    <2>8. ASSUME NEW v \in Phones, Due(v) PROVE Backed(c, v)' /\ Expected(c, v)'
      <3>1. CASE v = u
        <4>1. \A j \in D!Ids : ~Waits(c, j, u)'
          BY <2>2, <2>4, <2>7 DEF Waits
        <4> QED
          BY <1>4, <3>1, <4>1, NobodyWaits
      <3>2. CASE v # u
        <4>1. Backed(c, v) /\ Expected(c, v)
          BY <1>2, <2>8 DEF DirectoryInv, Tracked
        <4>2. ~Waits(c, i, v) /\ ~Waits(c, i, v)'
          BY <1>13, <2>2, <2>7, <3>2 DEF Waits
        <4> QED
          BY <1>1, <1>4, <2>7, <3>2, <4>1, <4>2, WaitsOn
      <3> QED
        BY <3>1, <3>2
    <2> QED
      BY <1>1, <1>2, <1>4, <1>5, <1>9, <1>12, <2>1, <2>2, <2>5, <2>6, <2>8, PutStep
  <1>17. CASE own # {} /\ stale # {}
    <2> DEFINE rel == D!Released(profile[c][least])
               old == freed[c][i]
               new == D!Upserted(old, u, "no", "member")
    <2>1. least \in stale
      <3>1. stale \subseteq Nat
        BY DEF stale, D!Stale, D!Holders, D!Listed, D!Known, D!Ids
      <3> QED
        BY <1>17, <3>1, LeastIsOne DEF least
    <2>2. /\ least \in D!Ids /\ person[least] # None /\ person[least].user = None
          /\ profile[c][least] # None /\ profile[c][least].phone = u
      BY <1>6, <2>1
    <2>3. i \in own /\ person[i] # None /\ person[i].user = u /\ i # least
      BY <1>1, <1>3, <1>6, <1>17, <2>2
    <2>4. freed = D!Put(profile, c, least, rel)
      BY <1>17
    <2>5. rel \in D!Profiles /\ rel.phone = None /\ rel.pending = "no"
      <3>1. profile[c][least] \in D!Profiles
        BY <2>2, DirectoryFacts
      <3> QED
        BY <3>1 DEF D!Released, D!Profiles, D!Roles
    <2> HIDE DEF rel, freed
    <2>6. /\ freed \in [Companies -> [D!Ids -> D!Profiles \cup {None}]] /\ freed[c][least] = rel
          /\ \A d \in Companies, j \in D!Ids : d # c \/ j # least => freed[d][j] = profile[d][j]
      BY <2>2, <2>4, <2>5, PutIn, DirectoryFacts
    <2>7. /\ new \in D!Profiles /\ new.active /\ new.pending = "no"
          /\ new.phone \in {u, None} /\ profile' = D!Put(freed, c, i, new)
          /\ old = profile[c][i] /\ new.phone = IF old = None THEN u ELSE old.phone
      <3>1. old = profile[c][i] /\ (old # None => old \in D!Profiles)
        BY <1>5, <1>11, <2>3, <2>6
      <3>2. /\ new \in D!Profiles /\ new.active /\ new.pending = "no"
            /\ new.phone = IF old = None THEN u ELSE old.phone
        BY <3>1 DEF D!Upserted, D!NewProfile, D!Profiles, D!Roles
      <3>3. profile' = D!Put(freed, c, i, new)
        BY <1>3
      <3>4. old # None => old.phone \in {u, None}
        BY <1>5, <1>7, <1>9, <2>3, <3>1
      <3> QED
        BY <3>1, <3>2, <3>3, <3>4
    <2> HIDE DEF new, old
    <2>8. /\ profile' \in [Companies -> [D!Ids -> D!Profiles \cup {None}]]
          /\ profile'[c][i] = new /\ profile'[c][least] = rel
          /\ \A d \in Companies, j \in D!Ids : d # c \/ (j # least /\ j # i) => profile'[d][j] = profile[d][j]
      BY <1>5, <2>2, <2>3, <2>6, <2>7, PutIn
    <2>9. person' = person
      BY <1>3, <1>5, <2>3, DirectoryFacts DEF D!Known, D!Persons
    <2>10. \A j \in D!Ids \ {i, least} : profile[c][j] # None => profile[c][j].phone # u
      BY <1>1, <2>2 DEF DirectoryInv, Entries, OneEntry
    <2>11. Entries(person, profile, access)'
      <3>1. Entries(person, profile, access) /\ Comes(access, access, c, person[least], rel)
        BY DEF DirectoryInv, Comes
      <3>2. Fits(person, profile, c, least, person[least], rel) /\ person[least] \in D!Persons
        BY <2>2, <2>5, DirectoryFacts DEF Fits
      <3>3. person = [person EXCEPT ![least] = person[least]]
        BY DirectoryFacts
      <3>4. Entries([person EXCEPT ![least] = person[least]], D!Put(profile, c, least, rel), access)
        BY <2>2, <2>5, <3>1, <3>2, EntryPut
      <3>5. Entries(person, freed, access)
        BY <2>4, <3>3, <3>4
      <3>6. Fits(person, freed, c, i, p, new)
        <4>1. new.phone # None => \A j \in D!Ids \ {i} : freed[c][j] # None => freed[c][j].phone # new.phone
          <5> SUFFICES ASSUME new.phone # None, NEW j \in D!Ids \ {i}, freed[c][j] # None, freed[c][j].phone = new.phone
                       PROVE  FALSE
            OBVIOUS
          <5>1. new.phone = u
            BY <2>7
          <5>2. j = least
            BY <2>6, <2>10, <5>1
          <5> QED
            BY <1>1, <2>5, <2>6, <5>1, <5>2
        <4> QED
          BY <1>1, <1>9, <1>10, <2>3, <2>7, <4>1 DEF Fits
      <3>7. Entries([person EXCEPT ![i] = p], D!Put(freed, c, i, new), access')
        BY <1>5, <1>12, <2>7, <3>5, <3>6, EntryPut
      <3> QED
        BY <1>1, <1>9, <2>7, <3>7, EntriesOn
    <2>12. ASSUME NEW j \in D!Ids PROVE Owned(person', profile', j) /\ Alike(j)'
      <3>1. CASE j # i /\ j # least
        BY <1>1, <1>2, <2>8, <2>9, <3>1 DEF DirectoryInv, Tracked, Owned, Alike
      <3>2. CASE j = i \/ j = least
        <4>1. person[j].phone = u /\ person[j] # None
          BY <1>1, <1>7, <1>9, <2>2, <2>3, <3>2
        <4>2. Alike(j)'
          BY <1>1, <2>9, <4>1 DEF Alike
        <4>3. Owned(person', profile', j)
          BY <1>2, <2>5, <2>7, <2>8, <2>9, <3>2, <4>1, <1>7 DEF Owned
        <4> QED
          BY <4>2, <4>3
      <3> QED
        BY <3>1, <3>2
    <2>13. ASSUME NEW d \in Companies, NEW j \in D!Ids, NEW v \in Phones
           PROVE  /\ Waits(d, j, v)' => Waits(d, j, v) /\ profile'[d][j] = profile[d][j]
                  /\ d # c \/ v # u => (Waits(d, j, v) => Waits(d, j, v)' /\ profile'[d][j] = profile[d][j])
      <3>1. v # u => ~Waits(c, least, v) /\ ~Waits(c, i, v)
        BY <1>13, <2>2 DEF Waits
      <3> QED
        BY <2>5, <2>7, <2>8, <3>1 DEF Waits
    <2>14. ASSUME NEW v \in Phones PROVE TakenUp(v)'
      BY <1>1, <1>2, <2>13 DEF DirectoryInv, Tracked, TakenUp
    <2>15. ASSUME NEW d \in Companies, NEW v \in Phones, Due(v) PROVE Backed(d, v)' /\ Expected(d, v)'
      <3>1. CASE d = c /\ v = u
        <4>1. \A j \in D!Ids : ~Waits(c, j, u)'
          BY <2>5, <2>7, <2>8, <2>10 DEF Waits
        <4> QED
          BY <1>4, <3>1, <4>1, NobodyWaits
      <3>2. CASE ~(d = c /\ v = u)
        <4>1. Backed(d, v) /\ Expected(d, v)
          BY <1>2, <2>15 DEF DirectoryInv, Tracked
        <4>2. promise'[d][v] = promise[d][v]
          BY <1>4, <3>2
        <4> QED
          BY <1>1, <2>13, <3>2, <4>1, <4>2, WaitsOn
      <3> QED
        BY <3>1, <3>2
    <2>16. Tracked'
      <3>1. \A v \in Phones : Due(v)' <=> Due(v)
        BY <1>1 DEF Due
      <3> QED
        BY <2>12, <2>14, <2>15, <3>1 DEF Tracked
    <2>17. Others' /\ Shut'
      <3>1. Others'
        BY <1>1, <1>4 DEF DirectoryInv, Others
      <3>2. Shut'
        BY <1>1, <1>4 DEF DirectoryInv, Shut, D!ClosedStaysEmpty, D!Member
      <3> QED
        BY <3>1, <3>2
    <2> QED
      BY <1>1, <1>2, <2>11, <2>16, <2>17 DEF DirectoryInv
  <1> QED
    BY <1>16, <1>17

(* An account is erased. *)
LEMMA EraseStep ==
    ASSUME D!Constants, DirectoryInv, NEW u \in Phones, D!Erase(u)
    PROVE  DirectoryInv'
  <1>1. /\ ops' = ops /\ closed' = closed /\ promise' = promise /\ profile' = profile
        /\ account' = account \ {u} /\ "erase" \in ops /\ u # None
        /\ access' = [c \in Companies |-> [access[c] EXCEPT ![u] = "none"]]
    BY DirectoryFacts DEF D!Erase
  <1>2. /\ "merge" \notin ops /\ \A v \in Phones : Due(v)
    BY <1>1, DirectoryFacts DEF Due
  <1>3. \A i \in D!Ids : /\ person[i] = None => person'[i] = None
                         /\ person[i] # None => /\ person'[i] \in D!Persons /\ person'[i] # None
                                                /\ person'[i].phone = person[i].phone
                                                /\ person'[i].user = IF person[i].user = u THEN None ELSE person[i].user
                                                /\ person[i] \in D!Persons
    <2> SUFFICES ASSUME NEW i \in D!Ids
                 PROVE  /\ person[i] = None => person'[i] = None
                        /\ person[i] # None => /\ person'[i] \in D!Persons /\ person'[i] # None
                                               /\ person'[i].phone = person[i].phone
                                               /\ person'[i].user = IF person[i].user = u THEN None ELSE person[i].user
                                               /\ person[i] \in D!Persons
      OBVIOUS
    <2>1. person'[i] = IF person[i] # None /\ person[i].user = u THEN [person[i] EXCEPT !.user = None] ELSE person[i]
      BY DEF D!Erase, D!OfUser, D!Known
    <2>2. CASE person[i] = None
      BY <2>1, <2>2
    <2>3. CASE person[i] # None
      <3>1. person[i] \in D!Persons
        BY <2>3, DirectoryFacts
      <3>2. person'[i] \in D!Persons
        BY <2>1, <3>1 DEF D!Persons
      <3>3. /\ person'[i].phone = person[i].phone
            /\ person'[i].user = IF person[i].user = u THEN None ELSE person[i].user
        BY <2>1, <2>3, <3>1 DEF D!Persons
      <3> QED
        BY <2>3, <3>1, <3>2, <3>3, DirectoryFacts
    <2> QED
      BY <2>2, <2>3
  <1>4. person' \in [D!Ids -> D!Persons \cup {None}]
    <2>1. person' = [i \in D!Ids |-> IF i \in D!OfUser(u) THEN [person[i] EXCEPT !.user = None] ELSE person[i]]
      BY DEF D!Erase
    <2>2. \A i \in D!Ids : person'[i] \in D!Persons \cup {None}
      BY <1>3
    <2> QED
      BY <2>1, <2>2
  <1>5. /\ access' \in [Companies -> [Phones -> D!Roles \cup {"none"}]]
        /\ \A c \in Companies, v \in Phones : access'[c][v] = IF v = u THEN "none" ELSE access[c][v]
    BY <1>1, DirectoryFacts
  <1>6. Others' /\ Shut'
    <2>1. Others'
      BY <1>1, <1>5 DEF DirectoryInv, Others
    <2>2. Shut'
      BY <1>1, <1>5, DirectoryFacts DEF DirectoryInv, Shut, D!ClosedStaysEmpty, D!Member
    <2> QED
      BY <2>1, <2>2
  <1>7. Entries(person, profile, access)'
    <2>1. Entries(person, profile, access)
      BY DEF DirectoryInv
    <2>2. Shaped(person', profile') /\ OnlyKnown(person', profile') /\ OneEntry(profile')
      BY <1>1, <1>3, <1>4, <2>1 DEF Entries, Shaped, OnlyKnown
    <2>3. Accounts(person)' /\ OnePerson(person')
      BY <1>1, <1>3, <2>1 DEF Entries, Accounts, OnePerson
    <2>4. Attended(person', profile', access')
      <3> SUFFICES ASSUME NEW c \in Companies, NEW v \in Phones, access'[c][v] # "none"
                   PROVE  \E i \in D!Ids : person'[i] # None /\ person'[i].user = v /\ profile'[c][i] # None /\ profile'[c][i].active
        BY DEF Attended
      <3>1. v # u /\ access[c][v] # "none"
        BY <1>5
      <3>2. PICK i \in D!Ids : person[i] # None /\ person[i].user = v /\ profile[c][i] # None /\ profile[c][i].active
        BY <2>1, <3>1 DEF Entries, Attended
      <3> QED
        BY <1>1, <1>3, <3>1, <3>2
    <2> QED
      BY <2>2, <2>3, <2>4 DEF Entries, Accounts, Shaped, OnlyKnown, OnePerson, OneEntry, Attended
  <1>8. Tracked'
    <2>1. Tracked
      BY <1>2 DEF DirectoryInv
    <2>2. ASSUME NEW i \in D!Ids PROVE Owned(person', profile', i) /\ Alike(i)'
      BY <1>1, <1>3, <2>1 DEF Tracked, Owned, Alike
    <2>3. \A c \in Companies, i \in D!Ids, v \in Phones : Waits(c, i, v)' <=> Waits(c, i, v)
      BY <1>1 DEF Waits
    <2>4. ASSUME NEW v \in Phones PROVE TakenUp(v)'
      BY <1>1, <2>1, <2>3 DEF Tracked, TakenUp
    <2>5. ASSUME NEW c \in Companies, NEW v \in Phones PROVE Backed(c, v)' /\ Expected(c, v)'
      BY <1>1, <1>2, <2>1, WaitsOn DEF Tracked
    <2> QED
      BY <2>2, <2>4, <2>5 DEF Tracked
  <1> QED
    BY <1>1, <1>2, <1>6, <1>7, <1>8 DEF DirectoryInv

LEMMA Deactivated ==
    ASSUME NEW old \in D!Profiles
    PROVE  /\ [old EXCEPT !.active = FALSE] \in D!Profiles
           /\ [old EXCEPT !.active = FALSE].phone = old.phone
           /\ [old EXCEPT !.active = FALSE].pending = old.pending
           /\ [old EXCEPT !.active = FALSE].role = old.role
  BY DEF D!Profiles

(* Profiles of one company are deactivated, and nothing else of them        *)
(* changes: what stays.                                                     *)
LEMMA QuietStep ==
    ASSUME D!Constants, DirectoryInv, NEW c \in Companies, NEW who \in SUBSET D!Listed(c),
           profile' = [profile EXCEPT ![c] = [i \in D!Ids |-> IF i \in who THEN [@[i] EXCEPT !.active = FALSE] ELSE @[i]]]
    PROVE  /\ profile' \in [Companies -> [D!Ids -> D!Profiles \cup {None}]]
           /\ \A d \in Companies, i \in D!Ids :
                  /\ (profile'[d][i] = None) <=> (profile[d][i] = None)
                  /\ profile[d][i] # None => /\ profile'[d][i].phone = profile[d][i].phone
                                             /\ profile'[d][i].pending = profile[d][i].pending
                                             /\ profile'[d][i].role = profile[d][i].role
                                             /\ d # c \/ i \notin who => profile'[d][i].active = profile[d][i].active
  <1>1. \A d \in Companies, i \in D!Ids :
            profile'[d][i] = IF d = c /\ i \in who THEN [profile[d][i] EXCEPT !.active = FALSE] ELSE profile[d][i]
    BY DirectoryFacts
  <1>2. \A i \in who : i \in D!Ids /\ profile[c][i] # None
    BY DEF D!Listed, D!Known
  <1>3. ASSUME NEW d \in Companies, NEW i \in D!Ids
        PROVE  /\ profile'[d][i] \in D!Profiles \cup {None}
               /\ (profile'[d][i] = None) <=> (profile[d][i] = None)
               /\ profile[d][i] # None => /\ profile'[d][i].phone = profile[d][i].phone
                                          /\ profile'[d][i].pending = profile[d][i].pending
                                          /\ profile'[d][i].role = profile[d][i].role
                                          /\ d # c \/ i \notin who => profile'[d][i].active = profile[d][i].active
    <2>1. CASE d = c /\ i \in who
      <3>1. profile[d][i] \in D!Profiles /\ profile[d][i] # None
        BY <1>2, <2>1, DirectoryFacts
      <3>2. profile'[d][i] = [profile[d][i] EXCEPT !.active = FALSE]
        BY <1>1, <2>1
      <3>3. /\ profile'[d][i] \in D!Profiles /\ profile'[d][i].phone = profile[d][i].phone
            /\ profile'[d][i].role = profile[d][i].role /\ profile'[d][i].pending = profile[d][i].pending
        BY <3>1, <3>2, Deactivated
      <3> QED
        BY <2>1, <3>1, <3>2, <3>3, DirectoryFacts
    <2>2. CASE ~(d = c /\ i \in who)
      BY <1>1, <2>2, DirectoryFacts
    <2> QED
      BY <2>1, <2>2
  <1>4. profile' \in [Companies -> [D!Ids -> D!Profiles \cup {None}]]
    <2>1. profile' = [d \in Companies |-> profile'[d]] /\ \A d \in Companies : profile'[d] = [i \in D!Ids |-> profile'[d][i]]
      BY DirectoryFacts
    <2> QED
      BY <1>3, <2>1
  <1> QED
    BY <1>3, <1>4

LEMMA QuietEntries ==
    ASSUME D!Constants, DirectoryInv, person' = person,
           profile' \in [Companies -> [D!Ids -> D!Profiles \cup {None}]],
           \A d \in Companies, i \in D!Ids : /\ (profile'[d][i] = None) <=> (profile[d][i] = None)
                                             /\ profile[d][i] # None => profile'[d][i].phone = profile[d][i].phone,
           account' = account, Attended(person', profile', access')
    PROVE  Entries(person, profile, access)'
  <1>1. Entries(person, profile, access)
    BY DEF DirectoryInv
  <1>2. Shaped(person', profile') /\ OnlyKnown(person', profile') /\ OneEntry(profile')
    BY <1>1 DEF Entries, Shaped, OnlyKnown, OneEntry
  <1>3. Accounts(person)' /\ OnePerson(person')
    BY <1>1 DEF Entries, Accounts, OnePerson
  <1> QED
    BY <1>2, <1>3 DEF Entries, Accounts, Shaped, OnlyKnown, OnePerson, OneEntry, Attended

LEMMA QuietNumbers ==
    ASSUME DirectoryInv, person' = person, ops' = ops, account' = account,
           \A d \in Companies, i \in D!Ids :
               /\ (profile'[d][i] = None) <=> (profile[d][i] = None)
               /\ profile[d][i] # None => /\ profile'[d][i].phone = profile[d][i].phone
                                          /\ profile'[d][i].pending = profile[d][i].pending
    PROVE  /\ "merge" \notin ops => \A i \in D!Ids : Owned(person', profile', i) /\ Alike(i)'
           /\ "merge" \in ops => \A d \in Companies, i \in D!Ids : profile'[d][i] # None /\ profile'[d][i].phone # None =>
                  person'[i].user # None /\ profile'[d][i].pending = "no"
  <1>1. ASSUME "merge" \notin ops, NEW i \in D!Ids PROVE Owned(person', profile', i)
    <2>1. Owned(person, profile, i)
      BY <1>1 DEF DirectoryInv, Tracked
    <2> QED
      BY <2>1 DEF Owned
  <1>2. ASSUME "merge" \notin ops, NEW i \in D!Ids PROVE Alike(i)'
    <2>1. Alike(i)
      BY <1>2 DEF DirectoryInv, Tracked
    <2> QED
      BY <2>1 DEF Alike
  <1>3. ASSUME "merge" \in ops, NEW d \in Companies, NEW i \in D!Ids, profile'[d][i] # None, profile'[d][i].phone # None
        PROVE  person'[i].user # None /\ profile'[d][i].pending = "no"
    <2>1. profile[d][i] # None /\ profile[d][i].phone # None
      BY <1>3
    <2> QED
      BY <1>3, <2>1 DEF DirectoryInv, Uninvited
  <1> QED
    BY <1>1, <1>2, <1>3

LEMMA LeaveStep ==
    ASSUME D!Constants, DirectoryInv, NEW c \in Companies, NEW u \in Phones, D!Leave(c, u)
    PROVE  DirectoryInv'
  <1> DEFINE who == D!Listed(c) \cap D!OfUser(u)
  <1>1. /\ ops' = ops /\ closed' = closed /\ promise' = promise /\ person' = person /\ account' = account
        /\ "leave" \in ops /\ access' = [access EXCEPT ![c][u] = "none"] /\ u # None
        /\ profile' = [profile EXCEPT ![c] = [i \in D!Ids |-> IF i \in who THEN [@[i] EXCEPT !.active = FALSE] ELSE @[i]]]
    BY DirectoryFacts DEF D!Leave
  <1>2. \A i \in who : i \in D!Ids /\ person[i] # None /\ person[i].user = u
    BY DEF D!OfUser, D!Known
  <1>3. who \in SUBSET D!Listed(c)
    OBVIOUS
  <1> HIDE DEF who
  <1>4. /\ profile' \in [Companies -> [D!Ids -> D!Profiles \cup {None}]]
        /\ \A d \in Companies, i \in D!Ids :
               /\ (profile'[d][i] = None) <=> (profile[d][i] = None)
               /\ profile[d][i] # None => /\ profile'[d][i].phone = profile[d][i].phone
                                          /\ profile'[d][i].pending = profile[d][i].pending
                                          /\ profile'[d][i].role = profile[d][i].role
                                          /\ d # c \/ i \notin who => profile'[d][i].active = profile[d][i].active
    BY <1>1, <1>3, QuietStep
  <1>5. /\ access' \in [Companies -> [Phones -> D!Roles \cup {"none"}]]
        /\ \A d \in Companies, v \in Phones : access'[d][v] = IF d = c /\ v = u THEN "none" ELSE access[d][v]
    BY <1>1, DirectoryFacts
  <1>6. Others' /\ Shut'
    <2>1. Others'
      BY <1>1, <1>5 DEF DirectoryInv, Others
    <2>2. Shut'
      BY <1>1, <1>5, DirectoryFacts DEF DirectoryInv, Shut, D!ClosedStaysEmpty, D!Member
    <2> QED
      BY <2>1, <2>2
  <1>7. Attended(person', profile', access')
    <2> SUFFICES ASSUME NEW d \in Companies, NEW v \in Phones, access'[d][v] # "none"
                 PROVE  \E i \in D!Ids : person'[i] # None /\ person'[i].user = v /\ profile'[d][i] # None /\ profile'[d][i].active
      BY DEF Attended
    <2>1. access[d][v] # "none" /\ ~(d = c /\ v = u)
      BY <1>5
    <2>2. PICK i \in D!Ids : person[i] # None /\ person[i].user = v /\ profile[d][i] # None /\ profile[d][i].active
      BY <2>1 DEF DirectoryInv, Entries, Attended
    <2> QED
      BY <1>1, <1>2, <1>4, <2>1, <2>2
  <1>8. Entries(person, profile, access)'
    BY <1>1, <1>4, <1>7, QuietEntries
  <1>9. CASE "merge" \in ops
    <2>1. Uninvited'
      <3>1. \A d \in Companies, v \in Phones : promise'[d][v] = "none"
        BY <1>1, <1>9 DEF DirectoryInv, Uninvited
      <3> QED
        BY <1>1, <1>4, <1>9, <3>1, QuietNumbers DEF Uninvited
    <2> QED
      BY <1>1, <1>6, <1>8, <1>9, <2>1 DEF DirectoryInv
  <1>10. CASE "merge" \notin ops
    <2>1. Tracked
      BY <1>10 DEF DirectoryInv
    <2>2. ASSUME NEW i \in D!Ids PROVE Owned(person', profile', i) /\ Alike(i)'
      BY <1>1, <1>4, <1>10, QuietNumbers
    <2>3. \A d \in Companies, i \in D!Ids, v \in Phones :
              (Waits(d, i, v)' <=> Waits(d, i, v)) /\ (Waits(d, i, v) => profile'[d][i].role = profile[d][i].role)
      BY <1>4 DEF Waits
    <2>4. ASSUME NEW v \in Phones PROVE TakenUp(v)'
      BY <1>1, <2>1, <2>3 DEF Tracked, TakenUp
    <2>5. ASSUME NEW i \in who, NEW v \in Phones, Due(v) PROVE ~Waits(c, i, v)
      <3> SUFFICES ASSUME Waits(c, i, v) PROVE FALSE
        OBVIOUS
      <3>1. v = u
        BY <1>1, <1>2, <2>1, DirectoryFacts DEF Waits, Tracked, Owned
      <3>2. u \in account
        BY <1>1, <1>2 DEF DirectoryInv, Entries, Accounts
      <3> QED
        BY <1>1, <1>2, <2>1, <2>5, <3>1, <3>2 DEF Due, Tracked, TakenUp
    <2>6. ASSUME NEW d \in Companies, NEW v \in Phones, Due(v) PROVE Backed(d, v)' /\ Expected(d, v)'
      <3>1. Backed(d, v) /\ Expected(d, v)
        BY <2>1, <2>6 DEF Tracked
      <3>2. \A i \in D!Ids : Waits(d, i, v) => profile'[d][i].active = profile[d][i].active
        BY <1>4, <2>5, <2>6 DEF Waits
      <3> QED
        BY <1>1, <2>3, <3>1, <3>2 DEF Backed, Expected
    <2>7. Tracked'
      <3>1. \A v \in Phones : Due(v)' <=> Due(v)
        BY <1>1 DEF Due
      <3> QED
        BY <2>2, <2>4, <2>6, <3>1 DEF Tracked
    <2> QED
      BY <1>1, <1>6, <1>8, <1>10, <2>7 DEF DirectoryInv
  <1> QED
    BY <1>9, <1>10

LEMMA CloseStep ==
    ASSUME D!Constants, DirectoryInv, NEW c \in Companies, D!Close(c)
    PROVE  DirectoryInv'
  <1> DEFINE who == {i \in D!Listed(c) : profile[c][i].active /\ profile[c][i].pending # "no"}
  <1>1. /\ ops' = ops /\ person' = person /\ account' = account /\ access' = access
        /\ "close" \in ops /\ closed' = closed \cup {c}
        /\ \A v \in Phones : access[c][v] = "none"
        /\ promise' = [promise EXCEPT ![c] = [v \in Phones |-> "none"]]
        /\ profile' = [profile EXCEPT ![c] = [i \in D!Ids |-> IF i \in who THEN [@[i] EXCEPT !.active = FALSE] ELSE @[i]]]
    BY DirectoryFacts DEF D!Close, D!Member
  <1>2. who \in SUBSET D!Listed(c)
    OBVIOUS
  <1> HIDE DEF who
  <1>3. /\ profile' \in [Companies -> [D!Ids -> D!Profiles \cup {None}]]
        /\ \A d \in Companies, i \in D!Ids :
               /\ (profile'[d][i] = None) <=> (profile[d][i] = None)
               /\ profile[d][i] # None => /\ profile'[d][i].phone = profile[d][i].phone
                                          /\ profile'[d][i].pending = profile[d][i].pending
                                          /\ profile'[d][i].role = profile[d][i].role
                                          /\ d # c \/ i \notin who => profile'[d][i].active = profile[d][i].active
    BY <1>1, <1>2, QuietStep
  <1>4. /\ promise' \in [Companies -> [Phones -> D!Roles \cup {"none"}]]
        /\ \A d \in Companies, v \in Phones : promise'[d][v] = IF d = c THEN "none" ELSE promise[d][v]
    BY <1>1, DirectoryFacts
  <1>5. Others' /\ Shut'
    <2>1. Others'
      BY <1>1, <1>4 DEF DirectoryInv, Others
    <2>2. Shut'
      BY <1>1 DEF DirectoryInv, Shut, D!ClosedStaysEmpty, D!Member
    <2> QED
      BY <2>1, <2>2
  <1>6. Attended(person', profile', access')
    <2> SUFFICES ASSUME NEW d \in Companies, NEW v \in Phones, access'[d][v] # "none"
                 PROVE  \E i \in D!Ids : person'[i] # None /\ person'[i].user = v /\ profile'[d][i] # None /\ profile'[d][i].active
      BY DEF Attended
    <2>1. access[d][v] # "none" /\ d # c
      BY <1>1
    <2>2. PICK i \in D!Ids : person[i] # None /\ person[i].user = v /\ profile[d][i] # None /\ profile[d][i].active
      BY <2>1 DEF DirectoryInv, Entries, Attended
    <2> QED
      BY <1>1, <1>3, <2>1, <2>2
  <1>7. Entries(person, profile, access)'
    BY <1>1, <1>3, <1>6, QuietEntries
  <1>8. CASE "merge" \in ops
    <2>1. Uninvited'
      <3>1. \A d \in Companies, v \in Phones : promise'[d][v] = "none"
        BY <1>4, <1>8 DEF DirectoryInv, Uninvited
      <3> QED
        BY <1>1, <1>3, <1>8, <3>1, QuietNumbers DEF Uninvited
    <2> QED
      BY <1>1, <1>5, <1>7, <1>8, <2>1 DEF DirectoryInv
  <1>9. CASE "merge" \notin ops
    <2>1. Tracked
      BY <1>9 DEF DirectoryInv
    <2>2. ASSUME NEW i \in D!Ids PROVE Owned(person', profile', i) /\ Alike(i)'
      BY <1>1, <1>3, <1>9, QuietNumbers
    <2>3. \A d \in Companies, i \in D!Ids, v \in Phones :
              (Waits(d, i, v)' <=> Waits(d, i, v)) /\ (Waits(d, i, v) => profile'[d][i].role = profile[d][i].role)
      BY <1>3 DEF Waits
    <2>4. ASSUME NEW v \in Phones PROVE TakenUp(v)'
      BY <1>1, <2>1, <2>3 DEF Tracked, TakenUp
    <2>5. ASSUME NEW d \in Companies, NEW v \in Phones, Due(v) PROVE Backed(d, v)' /\ Expected(d, v)'
      <3>1. Backed(d, v) /\ Expected(d, v)
        BY <2>1, <2>5 DEF Tracked
      <3>2. CASE d = c
        BY <1>1, <1>4, <3>2 DEF Backed, Expected
      <3>3. CASE d # c
        <4>1. \A i \in D!Ids : Waits(d, i, v) => profile'[d][i].active = profile[d][i].active
          BY <1>3, <3>3 DEF Waits
        <4> QED
          BY <1>1, <1>4, <2>3, <3>1, <3>3, <4>1 DEF Backed, Expected
      <3> QED
        BY <3>2, <3>3
    <2>6. Tracked'
      <3>1. \A v \in Phones : Due(v)' <=> Due(v)
        BY <1>1 DEF Due
      <3> QED
        BY <2>2, <2>4, <2>5, <3>1 DEF Tracked
    <2> QED
      BY <1>1, <1>5, <1>7, <1>9, <2>6 DEF DirectoryInv
  <1> QED
    BY <1>8, <1>9

(* A person is merged into another. *)
LEMMA MergeStep ==
    ASSUME D!Constants, DirectoryInv, NEW i \in D!Ids, NEW j \in D!Ids, D!Merge(i, j)
    PROVE  DirectoryInv'
  <1> DEFINE merged(c) == D!MergedProfile(profile[c][i], profile[c][j])
  <1>1. /\ ops' = ops /\ closed' = closed /\ promise' = promise /\ access' = access /\ account' = account
        /\ "merge" \in ops /\ i # j /\ person[i] # None /\ person[j] # None
        /\ person[i].user = None \/ person[j].user = None
    BY DEF D!Merge, D!Known
  <1>2. person[i] \in D!Persons /\ person[j] \in D!Persons
    BY <1>1, DirectoryFacts
  <1>3. PICK p \in D!Persons :
            /\ person' = [person EXCEPT ![i] = None, ![j] = p]
            /\ p.user = IF person[j].user = None THEN person[i].user ELSE person[j].user
    <2> DEFINE p == D!NewPerson(IF person[j].user = None THEN person[i].user ELSE person[j].user,
                                IF person[j].phone = None THEN person[i].phone ELSE person[j].phone,
                                IF person[j].phone = None THEN person[i].normal ELSE person[j].normal,
                                person[j].worker \/ person[i].worker)
    <2>1. person' = [person EXCEPT ![i] = None, ![j] = p]
      BY <1>1, DirectoryFacts DEF D!Merge
    <2>2. p \in D!Persons /\ p.user = IF person[j].user = None THEN person[i].user ELSE person[j].user
      BY <1>2 DEF D!NewPerson, D!Persons
    <2> QED
      BY <2>1, <2>2
  <1>4. /\ person' \in [D!Ids -> D!Persons \cup {None}] /\ person'[i] = None /\ person'[j] = p /\ p # None
        /\ \A k \in D!Ids \ {i, j} : person'[k] = person[k]
    BY <1>1, <1>3, DirectoryFacts
  <1>5. \A c \in Companies :
            /\ merged(c) \in D!Profiles \cup {None}
            /\ merged(c) = None <=> profile[c][i] = None /\ profile[c][j] = None
            /\ profile[c][i] # None /\ profile[c][i].active => merged(c).active
            /\ profile[c][j] # None /\ profile[c][j].active => merged(c).active
            /\ merged(c) # None /\ merged(c).phone # None =>
                   \/ profile[c][i] # None /\ profile[c][i].phone = merged(c).phone
                   \/ profile[c][j] # None /\ profile[c][j].phone = merged(c).phone
    <2> SUFFICES ASSUME NEW c \in Companies
                 PROVE  /\ merged(c) \in D!Profiles \cup {None}
                        /\ merged(c) = None <=> profile[c][i] = None /\ profile[c][j] = None
                        /\ profile[c][i] # None /\ profile[c][i].active => merged(c).active
                        /\ profile[c][j] # None /\ profile[c][j].active => merged(c).active
                        /\ merged(c) # None /\ merged(c).phone # None =>
                               \/ profile[c][i] # None /\ profile[c][i].phone = merged(c).phone
                               \/ profile[c][j] # None /\ profile[c][j].phone = merged(c).phone
      OBVIOUS
    <2>1. profile[c][i] \in D!Profiles \cup {None} /\ profile[c][j] \in D!Profiles \cup {None} /\ None \notin D!Profiles
      BY DirectoryFacts
    <2>2. CASE profile[c][i] = None
      BY <2>1, <2>2 DEF D!MergedProfile
    <2>3. CASE profile[c][i] # None /\ profile[c][j] = None
      BY <2>1, <2>3 DEF D!MergedProfile
    <2>4. CASE profile[c][i] # None /\ profile[c][j] # None
      <3>1. merged(c) \in D!Profiles
        BY <2>1, <2>4 DEF D!MergedProfile, D!Profiles
      <3>2. /\ profile[c][i].active => merged(c).active
            /\ profile[c][j].active => merged(c).active
            /\ merged(c).phone = profile[c][i].phone \/ merged(c).phone = profile[c][j].phone
        BY <2>1, <2>4 DEF D!MergedProfile, D!Profiles
      <3> QED
        BY <2>1, <2>4, <3>1, <3>2
    <2> QED
      BY <2>2, <2>3, <2>4
  <1>6. \A c \in Companies : profile'[c] = [profile[c] EXCEPT ![i] = None, ![j] = merged(c)]
    BY DEF D!Merge
  <1>7. ASSUME NEW c \in Companies
        PROVE  /\ profile'[c] \in [D!Ids -> D!Profiles \cup {None}]
               /\ profile'[c][i] = None /\ profile'[c][j] = merged(c)
               /\ \A k \in D!Ids \ {i, j} : profile'[c][k] = profile[c][k]
    <2> DEFINE to == merged(c)
    <2>1. profile'[c] = [profile[c] EXCEPT ![i] = None, ![j] = to] /\ to \in D!Profiles \cup {None}
      BY <1>5, <1>6
    <2> HIDE DEF to
    <2>2. /\ profile'[c] \in [D!Ids -> D!Profiles \cup {None}]
          /\ profile'[c][i] = None /\ profile'[c][j] = to
          /\ \A k \in D!Ids \ {i, j} : profile'[c][k] = profile[c][k]
      BY <1>1, <2>1, DirectoryFacts
    <2> QED
      BY <2>2 DEF to
  <1>8. profile' \in [Companies -> [D!Ids -> D!Profiles \cup {None}]]
    <2>1. profile' = [c \in Companies |-> profile'[c]]
      BY DEF D!Merge
    <2> QED
      BY <1>7, <2>1
  <1>9. Uninvited
    BY <1>1 DEF DirectoryInv
  <1>10. ASSUME NEW c \in Companies, merged(c) # None, merged(c).phone # None
         PROVE  p.user # None /\ merged(c).pending = "no"
    <2>1. /\ profile[c][i] \in D!Profiles \cup {None} /\ profile[c][j] \in D!Profiles \cup {None} /\ None \notin D!Profiles
          /\ profile[c][i] # None /\ profile[c][i].phone # None => person[i].user # None /\ profile[c][i].pending = "no"
          /\ profile[c][j] # None /\ profile[c][j].phone # None => person[j].user # None /\ profile[c][j].pending = "no"
      BY <1>9, DirectoryFacts DEF Uninvited
    <2>2. p.user # None
      BY <1>1, <1>3, <1>5, <1>10, <2>1
    <2>3. merged(c).pending = "no"
      <3>1. CASE profile[c][i] = None
        BY <1>10, <2>1, <3>1 DEF D!MergedProfile
      <3>2. CASE profile[c][i] # None /\ profile[c][j] = None
        BY <1>10, <2>1, <3>2 DEF D!MergedProfile
      <3>3. CASE profile[c][i] # None /\ profile[c][j] # None
        <4>1. profile[c][i].pending = "no" \/ profile[c][j].pending = "no"
          BY <1>5, <1>10, <2>1, <3>3
        <4> QED
          BY <2>1, <3>3, <4>1 DEF D!MergedProfile
      <3> QED
        BY <3>1, <3>2, <3>3
    <2> QED
      BY <2>2, <2>3
  <1> HIDE DEF merged
  <1>11. Others' /\ Shut'
    <2>1. Others'
      BY <1>1 DEF DirectoryInv, Others
    <2>2. Shut'
      BY <1>1 DEF DirectoryInv, Shut, D!ClosedStaysEmpty, D!Member
    <2> QED
      BY <2>1, <2>2
  <1>12. Entries(person, profile, access)
    BY DEF DirectoryInv
  <1>13. OnlyKnown(person', profile')
    BY <1>4, <1>5, <1>7, <1>12 DEF Entries, OnlyKnown
  <1>14. Accounts(person)'
    BY <1>1, <1>2, <1>3, <1>4, <1>12 DEF Entries, Accounts
  <1>15. OnePerson(person')
    <2> SUFFICES ASSUME NEW k \in D!Ids, NEW m \in D!Ids, person'[k] # None, person'[m] # None,
                        person'[k].user # None, person'[k].user = person'[m].user
                 PROVE  k = m
      BY DEF OnePerson
    <2>1. k # i /\ m # i
      BY <1>4
    <2>2. ASSUME NEW n \in D!Ids \ {i, j}, person[n] # None PROVE person[n].user # p.user \/ p.user = None
      BY <1>1, <1>3, <1>12, <2>2 DEF Entries, OnePerson
    <2> QED
      BY <1>4, <1>12, <2>1, <2>2 DEF Entries, OnePerson
  <1>16. OneEntry(profile')
    <2> SUFFICES ASSUME NEW c \in Companies, NEW k \in D!Ids, NEW m \in D!Ids, profile'[c][k] # None, profile'[c][m] # None,
                        profile'[c][k].phone # None, profile'[c][k].phone = profile'[c][m].phone
                 PROVE  k = m
      BY DEF OneEntry
    <2>1. k # i /\ m # i
      BY <1>7
    <2>2. ASSUME NEW n \in D!Ids \ {i, j}, profile[c][n] # None, merged(c) # None, merged(c).phone # None
          PROVE  profile[c][n].phone # merged(c).phone
      BY <1>5, <1>12, <2>2 DEF Entries, OneEntry
    <2> QED
      BY <1>7, <1>12, <2>1, <2>2 DEF Entries, OneEntry
  <1>17. Attended(person', profile', access')
    <2> SUFFICES ASSUME NEW c \in Companies, NEW v \in Phones, access'[c][v] # "none"
                 PROVE  \E k \in D!Ids : person'[k] # None /\ person'[k].user = v /\ profile'[c][k] # None /\ profile'[c][k].active
      BY DEF Attended
    <2>1. PICK k \in D!Ids : person[k] # None /\ person[k].user = v /\ profile[c][k] # None /\ profile[c][k].active
      BY <1>1, <1>12 DEF Entries, Attended
    <2>2. CASE k \in {i, j}
      <3>1. p.user = v
        BY <1>1, <1>3, <2>1, <2>2, DirectoryFacts
      <3>2. merged(c) # None /\ merged(c).active
        BY <1>5, <2>1, <2>2
      <3> QED
        BY <1>4, <1>7, <3>1, <3>2
    <2>3. CASE k \notin {i, j}
      BY <1>4, <1>7, <2>1, <2>3
    <2> QED
      BY <2>2, <2>3
  <1>18. Entries(person, profile, access)'
    BY <1>4, <1>8, <1>13, <1>14, <1>15, <1>16, <1>17 DEF Entries, Shaped, Accounts, OnlyKnown, OnePerson, OneEntry, Attended
  <1>19. Uninvited'
    <2>1. \A c \in Companies, v \in Phones : promise'[c][v] = "none"
      BY <1>1, <1>9 DEF Uninvited
    <2>2. ASSUME NEW c \in Companies, NEW k \in D!Ids, profile'[c][k] # None, profile'[c][k].phone # None
          PROVE  person'[k].user # None /\ profile'[c][k].pending = "no"
      <3>1. k # i
        BY <1>7, <2>2
      <3>2. CASE k = j
        BY <1>4, <1>7, <1>10, <2>2, <3>2
      <3>3. CASE k # j
        BY <1>4, <1>7, <1>9, <2>2, <3>1, <3>3 DEF Uninvited
      <3> QED
        BY <3>2, <3>3
    <2> QED
      BY <2>1, <2>2 DEF Uninvited
  <1> QED
    BY <1>1, <1>11, <1>18, <1>19 DEF DirectoryInv

(* Somebody signs up, and takes up what is open. *)
LEMMA SignUpStep ==
    ASSUME D!Constants, DirectoryInv, NEW u \in Phones, D!SignUp(u)
    PROVE  DirectoryInv'
  <1>1. /\ ops' = ops /\ closed' = closed /\ closed = {} /\ account' = account \cup {u}
        /\ u \notin account /\ u # None
        /\ promise' = [c \in Companies |-> [promise[c] EXCEPT ![u] = "none"]]
    <2>1. "close" \notin ops
      BY DirectoryFacts DEF D!SignUp
    <2> QED
      BY <2>1, DirectoryFacts DEF D!SignUp, DirectoryInv, Shut
  <1>2. /\ promise' \in [Companies -> [Phones -> D!Roles \cup {"none"}]]
        /\ \A c \in Companies, v \in Phones : promise'[c][v] = IF v = u THEN "none" ELSE promise[c][v]
    BY <1>1, DirectoryFacts
  <1>3. \A c \in Companies, i \in D!Ids : <<c, i>> \in D!Eligible(u) => Waits(c, i, u)
    BY DEF D!Eligible, D!Holders, D!Listed, D!Known, Waits
  <1>4. Entries(person, profile, access)
    BY DEF DirectoryInv
  <1>5. ASSUME "merge" \notin ops, NEW c \in Companies, NEW i \in D!Ids, Waits(c, i, u)
        PROVE  /\ <<c, i>> \in D!Eligible(u)
               /\ person[i] # None /\ person[i].phone = u /\ person[i].user = None
               /\ profile[c][i].active /\ profile[c][i] \in D!Profiles
    <2>1. /\ person[i] # None /\ profile[c][i] # None /\ profile[c][i].phone = u /\ profile[c][i].pending = "open"
          /\ profile[c][i] \in D!Profiles
      BY <1>5, DirectoryFacts DEF Waits
    <2>2. Owned(person, profile, i) /\ Expected(c, u)
      BY <1>1, <1>5 DEF DirectoryInv, Tracked, Due
    <2>3. person[i].phone = u /\ person[i].user \in {u, None}
      BY <1>1, <2>1, <2>2 DEF Owned
    <2>4. person[i].user # u
      BY <1>1, <1>4, <2>1 DEF Entries, Accounts
    <2>5. <<c, i>> \in D!Eligible(u)
      BY <2>1, <2>3 DEF D!Eligible, D!Holders, D!Listed, D!Known
    <2> QED
      BY <1>1, <1>5, <2>1, <2>2, <2>3, <2>4, <2>5 DEF Expected
  <1>6. CASE D!Eligible(u) = {}
    <2>1. person' = person /\ profile' = profile /\ access' = access
      BY <1>6 DEF D!SignUp
    <2>2. Others' /\ Shut'
      <3>1. Others'
        BY <1>1, <1>2, <2>1 DEF DirectoryInv, Others
      <3>2. Shut'
        BY <1>1, <2>1 DEF DirectoryInv, Shut, D!ClosedStaysEmpty, D!Member
      <3> QED
        BY <3>1, <3>2
    <2>3. Entries(person, profile, access)'
      BY <1>1, <1>4, <2>1 DEF Entries, Accounts, Shaped, OnlyKnown, OnePerson, OneEntry, Attended
    <2>4. CASE "merge" \in ops
      <3>1. Uninvited'
        BY <1>2, <2>1, <2>4 DEF DirectoryInv, Uninvited
      <3> QED
        BY <1>1, <2>2, <2>3, <2>4, <3>1 DEF DirectoryInv
    <2>5. CASE "merge" \notin ops
      <3>1. Tracked
        BY <2>5 DEF DirectoryInv
      <3>2. \A c \in Companies, i \in D!Ids, v \in Phones : (Waits(c, i, v)' <=> Waits(c, i, v)) /\ ~Waits(c, i, u)
        BY <1>5, <1>6, <2>1, <2>5 DEF Waits
      <3>3. ASSUME NEW i \in D!Ids PROVE Owned(person', profile', i) /\ Alike(i)'
        BY <1>1, <2>1, <3>1 DEF Tracked, Owned, Alike
      <3>4. ASSUME NEW v \in Phones PROVE TakenUp(v)'
        BY <1>1, <3>1, <3>2 DEF Tracked, TakenUp
      <3>5. ASSUME NEW c \in Companies, NEW v \in Phones, Due(v)' PROVE Backed(c, v)' /\ Expected(c, v)'
        <4>1. CASE v = u
          BY <1>2, <3>2, <4>1, NobodyWaits
        <4>2. CASE v # u
          <5>1. Backed(c, v) /\ Expected(c, v)
            BY <1>1, <3>1, <3>5, <4>2 DEF Tracked, Due
          <5> QED
            BY <1>1, <1>2, <2>1, <4>2, <5>1, WaitsOn
        <4> QED
          BY <4>1, <4>2
      <3>6. Tracked'
        BY <3>3, <3>4, <3>5 DEF Tracked
      <3> QED
        BY <1>1, <2>2, <2>3, <2>5, <3>6 DEF DirectoryInv
    <2> QED
      BY <2>4, <2>5
  <1>7. CASE D!Eligible(u) # {}
    <2> DEFINE s == D!Survivor(u)
    <2>1. "merge" \notin ops
      <3>1. PICK x \in D!Eligible(u) : TRUE
        BY <1>7
      <3>2. x[1] \in Companies /\ x[2] \in D!Ids /\ x = <<x[1], x[2]>>
        BY DEF D!Eligible
      <3>3. Waits(x[1], x[2], u)
        BY <1>3, <3>2
      <3> QED
        BY <1>1, <3>2, <3>3 DEF DirectoryInv, Uninvited, Waits
    <2>2. PICK first \in Companies : s \in D!Ids /\ Waits(first, s, u)
      <3> DEFINE set == {x[2] : x \in D!Eligible(u)}
      <3>1. D!OfUser(u) = {}
        BY <1>1, <1>4 DEF D!OfUser, D!Known, Entries, Accounts
      <3>2. s = D!Least(set)
        BY <3>1 DEF D!Survivor
      <3>3. set \subseteq Nat /\ set # {}
        BY <1>7 DEF D!Eligible, D!Ids
      <3>4. s \in set
        BY <3>2, <3>3, LeastIsOne
      <3>5. PICK x \in D!Eligible(u) : s = x[2]
        BY <3>4
      <3>6. x[1] \in Companies /\ x[2] \in D!Ids /\ x = <<x[1], x[2]>>
        BY DEF D!Eligible
      <3> QED
        BY <1>3, <3>5, <3>6
    <2> HIDE DEF s
    <2>3. \A c \in Companies, i, k \in D!Ids : Waits(c, i, u) /\ Waits(c, k, u) => i = k
      BY <1>1, <1>4 DEF Entries, OneEntry, Waits
    <2>4. /\ profile' = D!LinkedProfiles(u) /\ person' = D!LinkedPersons(u)
          /\ access' = [c \in Companies |->
                   IF \E i \in D!Ids : <<c, i>> \in D!Eligible(u) /\ ~D!Member(c, u)
                   THEN [access[c] EXCEPT ![u] = profile[c][CHOOSE i \in D!Ids : <<c, i>> \in D!Eligible(u)].role]
                   ELSE access[c]]
      BY <1>7 DEF D!SignUp
    <2>5. ASSUME NEW c \in Companies, NEW k \in D!Ids, Waits(c, k, u)
          PROVE  /\ {x \in D!Eligible(u) : x[1] = c} = {<<c, k>>}
                 /\ profile'[c][s] = D!Linked(profile[c][k])
                 /\ \A i \in D!Ids \ {s} : profile'[c][i] = IF i = k THEN None ELSE profile[c][i]
      <3>1. {x \in D!Eligible(u) : x[1] = c} = {<<c, k>>}
        <4>1. ASSUME NEW x \in D!Eligible(u), x[1] = c PROVE x = <<c, k>>
          <5>1. x[2] \in D!Ids /\ x = <<c, x[2]>>
            BY <4>1 DEF D!Eligible
          <5>2. Waits(c, x[2], u)
            BY <1>3, <5>1
          <5> QED
            BY <2>3, <2>5, <5>1, <5>2
        <4> QED
          BY <1>5, <2>1, <2>5, <4>1
      <3> DEFINE taken == {x \in D!Eligible(u) : x[1] = c}
                 here  == CHOOSE x \in taken : TRUE
      <3>2. here = <<c, k>>
        BY <3>1
      <3>3. \A i \in D!Ids : profile'[c][i] = IF taken # {} /\ i = s THEN D!Linked(profile[c][here[2]])
                                              ELSE IF <<c, i>> \in taken THEN None ELSE profile[c][i]
        BY <2>4 DEF D!LinkedProfiles, s
      <3> HIDE DEF here, taken
      <3>4. taken = {<<c, k>>}
        BY <3>1 DEF taken
      <3>5. profile'[c][s] = D!Linked(profile[c][k])
        BY <2>2, <3>2, <3>3, <3>4
      <3>6. ASSUME NEW i \in D!Ids \ {s} PROVE profile'[c][i] = IF i = k THEN None ELSE profile[c][i]
        BY <3>3, <3>4
      <3> QED
        BY <3>1, <3>5, <3>6
    <2>6. ASSUME NEW c \in Companies, \A k \in D!Ids : ~Waits(c, k, u)
          PROVE  /\ {x \in D!Eligible(u) : x[1] = c} = {}
                 /\ \A i \in D!Ids : profile'[c][i] = profile[c][i]
      <3>1. {x \in D!Eligible(u) : x[1] = c} = {}
        <4>1. ASSUME NEW x \in D!Eligible(u), x[1] = c PROVE FALSE
          <5>1. x[2] \in D!Ids /\ x = <<c, x[2]>>
            BY <4>1 DEF D!Eligible
          <5> QED
            BY <1>3, <2>6, <5>1
        <4> QED
          BY <4>1
      <3>2. \A i \in D!Ids : <<c, i>> \notin {x \in D!Eligible(u) : x[1] = c}
        BY <3>1
      <3> QED
        BY <2>4, <3>1, <3>2 DEF D!LinkedProfiles
    <2>7. ASSUME NEW c \in Companies, NEW k \in D!Ids, Waits(c, k, u)
          PROVE  /\ profile'[c][s] \in D!Profiles /\ profile'[c][s] # None /\ profile'[c][s].phone = u
                 /\ profile'[c][s].active /\ profile'[c][s].pending = "no"
      <3>1. profile[c][k] \in D!Profiles /\ profile[c][k].active /\ profile[c][k].phone = u
        BY <1>5, <2>1, <2>7 DEF Waits
      <3>2. /\ D!Linked(profile[c][k]) \in D!Profiles
            /\ D!Linked(profile[c][k]).active /\ D!Linked(profile[c][k]).phone = u
            /\ D!Linked(profile[c][k]).pending = "no"
        BY <3>1 DEF D!Linked, D!Profiles, D!Roles
      <3> QED
        BY <2>5, <2>7, <3>2, DirectoryFacts
    <2> DEFINE Taken(c) == \E k \in D!Ids : Waits(c, k, u)
    <2>8. ASSUME NEW c \in Companies, NEW i \in D!Ids
          PROVE  /\ i # s => profile'[c][i] = IF Waits(c, i, u) THEN None ELSE profile[c][i]
                 /\ i = s /\ ~Taken(c) => profile'[c][i] = profile[c][i]
                 /\ i = s /\ Taken(c) => /\ profile'[c][i] \in D!Profiles /\ profile'[c][i] # None
                                         /\ profile'[c][i].phone = u /\ profile'[c][i].active
                                         /\ profile'[c][i].pending = "no"
      <3>1. CASE Taken(c)
        <4>1. PICK k \in D!Ids : Waits(c, k, u)
          BY <3>1
        <4>2. i # s => profile'[c][i] = IF i = k THEN None ELSE profile[c][i]
          BY <2>5, <4>1
        <4>3. Waits(c, i, u) <=> i = k
          BY <2>3, <4>1
        <4> QED
          BY <2>7, <3>1, <4>1, <4>2, <4>3
      <3>2. CASE ~Taken(c)
        BY <2>6, <3>2
      <3> QED
        BY <3>1, <3>2
    <2>9. profile' \in [Companies -> [D!Ids -> D!Profiles \cup {None}]]
      <3>1. profile' = [c \in Companies |-> [i \in D!Ids |-> profile'[c][i]]]
        BY <2>4 DEF D!LinkedProfiles
      <3>2. \A c \in Companies, i \in D!Ids : profile'[c][i] \in D!Profiles \cup {None}
        BY <2>8, DirectoryFacts
      <3> QED
        BY <3>1, <3>2
    <2>10. person[s] # None /\ person[s] \in D!Persons /\ person[s].phone = u /\ person[s].user = None
      BY <1>5, <2>1, <2>2, DirectoryFacts DEF Waits
    <2>11. person'[s] \in D!Persons /\ person'[s] # None /\ person'[s].phone = u /\ person'[s].user = u
      <3>1. person'[s] = [person[s] EXCEPT !.user = u]
        BY <2>2, <2>4 DEF D!LinkedPersons, s
      <3>2. [person[s] EXCEPT !.user = u] \in D!Persons
        BY <2>10 DEF D!Persons
      <3>3. [person[s] EXCEPT !.user = u].phone = u /\ [person[s] EXCEPT !.user = u].user = u
        BY <2>10 DEF D!Persons
      <3> QED
        BY <3>1, <3>2, <3>3, DirectoryFacts
    <2>12. ASSUME NEW i \in D!Ids \ {s}
           PROVE  \/ person'[i] = person[i]
                  \/ /\ person'[i] = None /\ \A c \in Companies : profile'[c][i] = None
                     /\ \E c \in Companies : Waits(c, i, u)
      <3>1. person'[i] = IF /\ \E c \in Companies : <<c, i>> \in D!Eligible(u)
                            /\ \A c \in Companies : profile'[c][i] = None
                            /\ ~person[i].worker
                         THEN None ELSE person[i]
        BY <2>4 DEF D!LinkedPersons, s
      <3> QED
        BY <1>3, <3>1
    <2>13. person' \in [D!Ids -> D!Persons \cup {None}]
      <3>1. person' = [i \in D!Ids |-> person'[i]]
        BY <2>4 DEF D!LinkedPersons
      <3>2. \A i \in D!Ids : person'[i] \in D!Persons \cup {None}
        BY <2>11, <2>12, DirectoryFacts
      <3> QED
        BY <3>1, <3>2
    <2>14. /\ access' \in [Companies -> [Phones -> D!Roles \cup {"none"}]]
           /\ \A c \in Companies, v \in Phones : access'[c][v] # "none" => access[c][v] # "none" \/ (v = u /\ Taken(c))
      <3>1. ASSUME NEW c \in Companies
            PROVE  /\ access'[c] \in [Phones -> D!Roles \cup {"none"}]
                   /\ \A v \in Phones : access'[c][v] # "none" => access[c][v] # "none" \/ (v = u /\ Taken(c))
        <4>1. CASE ~\E i \in D!Ids : <<c, i>> \in D!Eligible(u) /\ ~D!Member(c, u)
          <5>1. access'[c] = access[c]
            BY <2>4, <4>1
          <5> QED
            BY <5>1, DirectoryFacts
        <4>2. CASE \E i \in D!Ids : <<c, i>> \in D!Eligible(u) /\ ~D!Member(c, u)
          <5> DEFINE k == CHOOSE i \in D!Ids : <<c, i>> \in D!Eligible(u)
          <5>1. access'[c] = [access[c] EXCEPT ![u] = profile[c][k].role]
            BY <2>4, <4>2
          <5>2. k \in D!Ids /\ <<c, k>> \in D!Eligible(u)
            BY <4>2
          <5> HIDE DEF k
          <5>3. Waits(c, k, u) /\ profile[c][k] \in D!Profiles
            BY <1>3, <1>5, <2>1, <5>2
          <5>4. profile[c][k].role \in D!Roles
            BY <5>3 DEF D!Profiles
          <5> QED
            BY <5>1, <5>2, <5>3, <5>4, DirectoryFacts
        <4> QED
          BY <4>1, <4>2
      <3>2. access' = [c \in Companies |-> access'[c]]
        BY <2>4
      <3> QED
        BY <3>1, <3>2
    <2>15. Others' /\ Shut'
      <3>1. Others'
        BY <1>1, <1>2, <2>14 DEF DirectoryInv, Others
      <3>2. Shut'
        BY <1>1 DEF Shut, D!ClosedStaysEmpty
      <3> QED
        BY <3>1, <3>2
    <2> HIDE DEF Taken
    <2>16. Shaped(person', profile')
      BY <2>9, <2>13 DEF Shaped
    <2>17. OnlyKnown(person', profile')
      <3> SUFFICES ASSUME NEW c \in Companies, NEW i \in D!Ids, profile'[c][i] # None PROVE person'[i] # None
        BY DEF OnlyKnown
      <3>1. CASE i = s
        BY <2>11, <3>1
      <3>2. CASE i # s
        <4>1. profile[c][i] # None
          BY <2>8, <3>2
        <4> QED
          BY <2>12, <3>2, <4>1, DirectoryFacts
      <3> QED
        BY <3>1, <3>2
    <2>18. \A i \in D!Ids \ {s} : person[i] # None => person[i].user # u
      BY <1>1, <1>4 DEF Entries, Accounts
    <2>19. Accounts(person)' /\ OnePerson(person')
      <3>1. Accounts(person)'
        BY <1>1, <1>4, <2>11, <2>12 DEF Entries, Accounts
      <3>2. OnePerson(person')
        BY <1>4, <2>11, <2>12, <2>18 DEF Entries, OnePerson
      <3> QED
        BY <3>1, <3>2
    <2>20. OneEntry(profile')
      <3> SUFFICES ASSUME NEW c \in Companies, NEW i \in D!Ids, NEW j \in D!Ids, profile'[c][i] # None, profile'[c][j] # None,
                          profile'[c][i].phone # None, profile'[c][i].phone = profile'[c][j].phone
                   PROVE  i = j
        BY DEF OneEntry
      <3>1. CASE ~Taken(c)
        <4>1. profile'[c][i] = profile[c][i] /\ profile'[c][j] = profile[c][j]
          BY <2>6, <3>1 DEF Taken
        <4> QED
          BY <1>4, <4>1 DEF Entries, OneEntry
      <3>2. CASE Taken(c)
        <4>1. PICK k \in D!Ids : Waits(c, k, u)
          BY <3>2 DEF Taken
        <4>2. ASSUME NEW m \in D!Ids \ {s}, profile'[c][m] # None
              PROVE  profile'[c][m] = profile[c][m] /\ profile[c][m].phone # u
          <5>1. profile'[c][m] = profile[c][m] /\ ~Waits(c, m, u) /\ m # k
            BY <2>8, <4>1, <4>2
          <5> QED
            BY <1>1, <1>4, <4>1, <4>2, <5>1 DEF Waits, Entries, OneEntry
        <4>3. profile'[c][s].phone = u
          BY <2>2, <2>8, <3>2
        <4> QED
          BY <1>4, <4>2, <4>3 DEF Entries, OneEntry
      <3> QED
        BY <3>1, <3>2
    <2>21. \A i \in D!Ids : person[i] # None =>
               /\ person[i].user \in {person[i].phone, None}
               /\ \A c \in Companies : profile[c][i] # None => profile[c][i].phone \in {person[i].phone, None}
      BY <2>1 DEF DirectoryInv, Tracked, Owned
    <2>22. ASSUME NEW i \in D!Ids, person[i] # None, person[i].phone # u
           PROVE  /\ i # s /\ person'[i] = person[i] /\ \A c \in Companies : profile'[c][i] = profile[c][i]
      <3>1. i # s /\ \A c \in Companies : ~Waits(c, i, u)
        BY <1>5, <2>1, <2>10, <2>22
      <3> QED
        BY <2>8, <2>12, <3>1
    <2>23. Attended(person', profile', access')
      <3> SUFFICES ASSUME NEW c \in Companies, NEW v \in Phones, access'[c][v] # "none"
                   PROVE  \E i \in D!Ids : person'[i] # None /\ person'[i].user = v /\ profile'[c][i] # None /\ profile'[c][i].active
        BY DEF Attended
      <3>1. CASE v = u /\ Taken(c)
        BY <2>2, <2>8, <2>11, <3>1
      <3>2. CASE access[c][v] # "none"
        <4>1. PICK i \in D!Ids : person[i] # None /\ person[i].user = v /\ profile[c][i] # None /\ profile[c][i].active
          BY <1>4, <3>2 DEF Entries, Attended
        <4>2. v # u
          BY <1>1, <1>4, <4>1 DEF Entries, Accounts
        <4>3. person[i].phone # u
          BY <2>21, <4>1, <4>2, DirectoryFacts
        <4> QED
          BY <2>22, <4>1, <4>3
      <3> QED
        BY <2>14, <3>1, <3>2
    <2>24. Entries(person, profile, access)'
      BY <2>16, <2>17, <2>19, <2>20, <2>23 DEF Entries, Shaped, Accounts, OnlyKnown, OnePerson, OneEntry, Attended
    <2>25. \A c \in Companies, i \in D!Ids : ~Waits(c, i, u)'
      <3> SUFFICES ASSUME NEW c \in Companies, NEW i \in D!Ids, Waits(c, i, u)' PROVE FALSE
        OBVIOUS
      <3>1. profile'[c][i] # None /\ profile'[c][i].phone = u /\ profile'[c][i].pending = "open"
        BY DEF Waits
      <3>2. profile'[c][i] = profile[c][i]
        BY <2>8, <3>1
      <3>3. Waits(c, i, u)
        BY <3>1, <3>2 DEF Waits
      <3> QED
        BY <2>8, <3>1, <3>3 DEF Taken
    <2>26. ASSUME NEW c \in Companies, NEW i \in D!Ids, NEW v \in Phones, v # u, Waits(c, i, v) \/ Waits(c, i, v)'
           PROVE  profile'[c][i] = profile[c][i]
      <3>1. CASE Waits(c, i, v)
        <4>1. person[i] # None /\ person[i].phone = v
          BY <2>21, <3>1, DirectoryFacts DEF Waits
        <4> QED
          BY <2>22, <2>26, <4>1
      <3>2. CASE Waits(c, i, v)'
        BY <2>8, <2>26, <3>2 DEF Waits
      <3> QED
        BY <2>26, <3>1, <3>2
    <2>27. Tracked
      BY <2>1 DEF DirectoryInv
    <2>28. ASSUME NEW i \in D!Ids PROVE Owned(person', profile', i) /\ Alike(i)'
      <3>1. CASE person[i] # None /\ person[i].phone # u
        BY <1>1, <2>22, <2>27, <3>1 DEF Tracked, Owned, Alike
      <3>2. CASE i = s
        <4>1. \A c \in Companies : profile'[c][i] # None => profile'[c][i].phone \in {u, None}
          BY <2>8, <2>10, <2>21, <3>2
        <4> QED
          BY <1>1, <2>11, <3>2, <4>1 DEF Owned, Alike
      <3>3. CASE i # s /\ (person[i] = None \/ person[i].phone = u)
        <4>1. person'[i] = None \/ (person'[i] = person[i] /\ person[i].phone = u)
          BY <2>12, <3>3
        <4>2. Alike(i)'
          BY <1>1, <4>1 DEF Alike
        <4>3. Owned(person', profile', i)
          BY <2>8, <2>21, <3>3, <4>1 DEF Owned
        <4> QED
          BY <4>2, <4>3
      <3> QED
        BY <3>1, <3>2, <3>3
    <2>29. ASSUME NEW v \in Phones PROVE TakenUp(v)'
      <3>1. CASE v = u
        BY <2>25, <3>1 DEF TakenUp
      <3>2. CASE v # u
        <4> SUFFICES ASSUME "import" \notin ops, v \in account, NEW c \in Companies, NEW i \in D!Ids, Waits(c, i, v)' PROVE FALSE
          BY <1>1, <3>2 DEF TakenUp
        <4>1. Waits(c, i, v)
          BY <2>26, <3>2 DEF Waits
        <4> QED
          BY <2>27, <4>1 DEF Tracked, TakenUp
      <3> QED
        BY <3>1, <3>2
    <2>30. ASSUME NEW c \in Companies, NEW v \in Phones, Due(v)' PROVE Backed(c, v)' /\ Expected(c, v)'
      <3>1. CASE v = u
        BY <1>2, <2>25, <3>1, NobodyWaits
      <3>2. CASE v # u
        <4>1. Backed(c, v) /\ Expected(c, v)
          BY <1>1, <2>27, <2>30, <3>2 DEF Tracked, Due
        <4> QED
          BY <1>1, <1>2, <2>26, <3>2, <4>1, WaitsOn
      <3> QED
        BY <3>1, <3>2
    <2>31. Tracked'
      BY <2>28, <2>29, <2>30 DEF Tracked
    <2> QED
      BY <1>1, <2>1, <2>15, <2>24, <2>31 DEF DirectoryInv
  <1> QED
    BY <1>6, <1>7

LEMMA OneAtMost ==
    ASSUME NEW set, \A x, y \in set : x = y
    PROVE  Cardinality(set) <= 1
  <1>1. CASE set = {}
    BY <1>1, FS_EmptySet
  <1>2. CASE set # {}
    <2>1. PICK x : set = {x}
      BY <1>2
    <2> QED
      BY <2>1, FS_Singleton
  <1> QED
    BY <1>1, <1>2

--------------------------------------------------------------------------------
LEMMA DirectoryInit ==
    ASSUME D!Constants, \A m \in DirectoryMixes : Apart(m), D!Init
    PROVE  DirectoryInv
  <1>1. /\ \A i \in D!Ids : person[i] = None
        /\ \A c \in Companies, i \in D!Ids : profile[c][i] = None
        /\ \A c \in Companies, u \in Phones : access[c][u] = "none" /\ promise[c][u] = "none"
        /\ account = {} /\ closed = {}
    BY DEF D!Init
  <1>2. Others
    BY DEF D!Init, Others
  <1>3. Shut
    BY <1>1 DEF Shut, D!ClosedStaysEmpty
  <1>4. Shaped(person, profile)
    BY DEF D!Init, Shaped
  <1>5. Entries(person, profile, access)
    BY <1>1, <1>4 DEF Entries, OnlyKnown, Accounts, OnePerson, OneEntry, Attended
  <1>6. Uninvited
    BY <1>1 DEF Uninvited
  <1>7. Tracked
    BY <1>1 DEF Tracked, Owned, Alike, TakenUp, Backed, Expected, Waits
  <1> QED
    BY <1>2, <1>3, <1>5, <1>6, <1>7 DEF DirectoryInv

LEMMA DirectoryNext == D!Constants /\ DirectoryInv /\ [D!Next]_(D!vars) => DirectoryInv'
  <1> SUFFICES ASSUME D!Constants, DirectoryInv, [D!Next]_(D!vars) PROVE DirectoryInv'
    OBVIOUS
  <1>1. ASSUME NEW c \in Companies, NEW u \in Phones, NEW r \in D!Roles, NEW mine \in SUBSET Companies,
               D!AddMemberByPhone(c, u, r, mine)
        PROVE  DirectoryInv'
    <2>1. "add" \in ops /\ c \notin closed /\ c \in mine /\ (mine = {c} \/ "several" \in ops)
      BY <1>1 DEF D!AddMemberByPhone, D!Open
    <2>2. D!AddAccount(c, u, r) \/ D!AddPending(c, u, r, mine)
      BY <1>1 DEF D!AddMemberByPhone
    <2> QED
      BY <2>1, <2>2, AddStep, InviteStep
  <1>2. ASSUME NEW c \in Companies, NEW i \in D!Ids, D!CancelPending(c, i) \/ D!Expire(c, i) PROVE DirectoryInv'
    BY <1>2, ExpireStep
  <1>3. ASSUME NEW u \in Phones, D!SignUp(u) \/ D!Erase(u) PROVE DirectoryInv'
    BY <1>3, SignUpStep, EraseStep
  <1>4. ASSUME NEW c \in Companies, NEW u \in Phones, D!Join(c, u) \/ D!Leave(c, u) \/ D!AddWorker(c, u) PROVE DirectoryInv'
    BY <1>4, JoinStep, LeaveStep, WorkerStep
  <1>5. ASSUME NEW c \in Companies, NEW d \in Companies, NEW i \in D!Ids, D!Import(c, d, i) PROVE DirectoryInv'
    BY <1>5, ImportStep
  <1>6. ASSUME NEW c \in Companies, D!Close(c) PROVE DirectoryInv'
    BY <1>6, CloseStep
  <1>7. ASSUME NEW i \in D!Ids, NEW j \in D!Ids, D!Merge(i, j) PROVE DirectoryInv'
    BY <1>7, MergeStep
  <1>8. CASE UNCHANGED D!vars
    <2>1. /\ ops' = ops /\ account' = account /\ person' = person /\ profile' = profile
          /\ access' = access /\ closed' = closed /\ promise' = promise
      BY <1>8 DEF D!vars
    <2> QED
      BY <2>1 DEF DirectoryInv, Others, Shut, D!ClosedStaysEmpty, D!Member, Uninvited, Tracked, Owned, Alike, TakenUp,
                  Backed, Expected, Waits, Due, Entries, Shaped, OnlyKnown, Accounts, OnePerson, OneEntry, Attended
  <1> QED
    BY <1>1, <1>2, <1>3, <1>4, <1>5, <1>6, <1>7, <1>8 DEF D!Next

(* What holds of the directory whatever comes next, as long as what comes   *)
(* is Apart: for any companies, numbers and persons.                        *)
THEOREM DirectoryInvariant ==
    ASSUME D!Constants, \A m \in DirectoryMixes : Apart(m)
    PROVE  D!Spec => []DirectoryInv
  BY DirectoryInit, DirectoryNext, PTL DEF D!Spec

LEMMA SameCount == \A set : D!Cardinality(set) = Cardinality(set)
  BY DEF D!Cardinality, Cardinality

LEMMA DirectoryShows == ASSUME D!Constants, DirectoryInv PROVE DirectoryHolds
  <1>1. D!TypeOK
    BY DEF DirectoryInv, Others, Entries, Shaped, D!TypeOK
  <1>2. D!NoKeyTwice
    <2>1. ASSUME NEW u \in Phones PROVE D!Cardinality(D!OfUser(u)) <= 1
      <3>1. \A i, j \in D!OfUser(u) : i = j
        BY DirectoryFacts DEF DirectoryInv, Entries, OnePerson, D!OfUser, D!Known
      <3> QED
        BY <3>1, OneAtMost, SameCount
    <2>2. ASSUME NEW c \in Companies, NEW u \in Phones PROVE D!Cardinality(D!Holders(c, u)) <= 1
      <3>1. \A i, j \in D!Holders(c, u) : i = j
        BY DirectoryFacts DEF DirectoryInv, Entries, OneEntry, D!Holders, D!Listed, D!Known
      <3> QED
        BY <3>1, OneAtMost, SameCount
    <2> QED
      BY <2>1, <2>2 DEF D!NoKeyTwice
  <1>3. D!AttachedIsListed
    BY DEF DirectoryInv, Entries, Attended, D!AttachedIsListed, D!Member, D!OfUser, D!Listed, D!Known
  <1>4. D!ClosedStaysEmpty
    BY DEF DirectoryInv, Shut
  <1>5. CASE "merge" \in ops
    <2>1. D!InvitationsStand
      BY <1>5 DEF DirectoryInv, Uninvited, D!InvitationsStand
    <2>2. D!OnlyInvited
      <3> SUFFICES ASSUME NEW u \in Phones \ account, NEW x \in Companies \X D!Ids, x \in D!Eligible(u) PROVE FALSE
        BY DEF D!OnlyInvited
      <3>1. profile[x[1]][x[2]] # None /\ profile[x[1]][x[2]].phone = u /\ profile[x[1]][x[2]].pending = "open"
        BY DEF D!Eligible, D!Holders, D!Listed, D!Known
      <3> QED
        BY <1>5, <3>1, DirectoryFacts DEF DirectoryInv, Uninvited
    <2> QED
      BY <1>1, <1>2, <1>3, <1>4, <2>1, <2>2 DEF DirectoryHolds
  <1>6. CASE "merge" \notin ops
    <2>1. D!InvitationsStand
      <3> SUFFICES ASSUME NEW c \in Companies, NEW u \in Phones, promise[c][u] # "none", u \notin account
                   PROVE  \E x \in D!Eligible(u) : x[1] = c /\ profile[c][x[2]].role = promise[c][u]
        BY DEF D!InvitationsStand
      <3>1. Backed(c, u)
        BY <1>6 DEF DirectoryInv, Tracked, Due
      <3>2. PICK i \in D!Ids : Waits(c, i, u) /\ profile[c][i].role = promise[c][u]
        BY <3>1 DEF Backed
      <3>3. person[i] # None /\ person[i].user \in {None, u}
        BY <1>6, <3>2, DirectoryFacts DEF DirectoryInv, Tracked, Owned, Waits
      <3>4. <<c, i>> \in D!Eligible(u)
        BY <3>2, <3>3 DEF D!Eligible, D!Holders, D!Listed, D!Known, Waits
      <3> QED
        BY <3>2, <3>4
    <2>2. D!OnlyInvited
      <3> SUFFICES ASSUME NEW u \in Phones \ account, NEW x \in Companies \X D!Ids, x \in D!Eligible(u), x[1] \notin closed
                   PROVE  promise[x[1]][u] # "none"
        BY DEF D!OnlyInvited
      <3>1. Waits(x[1], x[2], u)
        BY DEF D!Eligible, D!Holders, D!Listed, D!Known, Waits
      <3>2. Expected(x[1], u)
        BY <1>6 DEF DirectoryInv, Tracked, Due
      <3> QED
        BY <3>1, <3>2 DEF Expected
    <2> QED
      BY <1>1, <1>2, <1>3, <1>4, <2>1, <2>2 DEF DirectoryHolds
  <1> QED
    BY <1>5, <1>6

(* What may be exercised together in the runs is Apart. *)
LEMMA EverydayApart == \A m \in Everyday : Apart(m)
  BY DEF Everyday, Inviting, Lapsing, Importing, Hiring, Closing, Merging, Apart

(* A directory lists every number and account once, whoever is attached is  *)
(* listed, a sign-up takes up every invitation that stands and no other,    *)
(* and nobody comes into a company that its last admin left: for any        *)
(* companies, numbers and persons, and whatever is exercised together that  *)
(* is Apart.                                                                *)
THEOREM DirectoryStands ==
    ASSUME D!Constants, \A m \in DirectoryMixes : Apart(m)
    PROVE  D!Spec => []DirectoryHolds
  BY DirectoryInvariant, DirectoryShows, PTL

--------------------------------------------------------------------------------
(* Sessions *)

Born(t) == issued[t][1]
Life(t) == issued[t][2]
SessionsTyped ==
    /\ now \in 0..Horizon /\ cutoff \in 0..now
    /\ issued \in [S!Ids -> {<<>>} \cup ((0..Horizon) \X {RefreshLife, S!Never})]
    /\ parent \in [S!Ids -> 0..MaxTokens]
    /\ blacklist \in [S!Ids -> Nat]
    /\ rotated \in [S!Ids -> {<<>>} \cup (Nat \X Nat)]
    /\ from \in [S!Ids -> {<<>>} \cup (S!Ids \X Nat)]
    /\ out \subseteq S!Tokens
    /\ \E n \in 0..MaxTokens : S!Tokens = 1..n

(* Tokens are signed in the order of their ids; what a token was rotated   *)
(* from is remembered for the grace.                                       *)
InOrder == /\ \A t \in S!Tokens : Born(t) <= now
           /\ \A s, t \in S!Tokens : s <= t => Born(s) <= Born(t)
Lineage(s) == IF parent[s] = 0 THEN from[s] = <<>>
              ELSE /\ s \in S!Tokens /\ parent[s] \in 1..(s - 1) /\ Life(parent[s]) = RefreshLife
                   /\ from[s] = <<parent[s], Born(s) + Grace>>
Children(t) == {s \in S!Ids : parent[s] = t}
Retired(t) == Children(t) # {} =>
    /\ rotated[t] # <<>>
    /\ \E s \in Children(t) : rotated[t] = <<Born(s) + Grace, Born(s) + RefreshLife + Grace>>
    /\ \A s \in Children(t) : rotated[t][1] <= Born(s) + Grace
Unrotated(t) == Children(t) = {} => rotated[t] = <<>>

(* Why a token that was signed out is refused: it is older than the        *)
(* number, Redis refuses it as long as it lives, or it was rotated away.   *)
RotatedAway(t) == \E s \in Children(t) : Born(s) + Grace <= now
Barred(t) == IF S!Persistent(t) THEN blacklist[t] = S!Never ELSE blacklist[t] >= Born(t) + RefreshLife
Dead(t) == Born(t) < cutoff \/ Barred(t) \/ RotatedAway(t)

SessionsInv ==
    /\ SessionsTyped /\ InOrder
    /\ \A t \in S!Ids : Lineage(t) /\ Retired(t) /\ Unrotated(t)
    /\ \A t \in out : Dead(t)

(* Induction and recursion up to a bound, for sets and functions. *)
LEMMA CountUp ==
    ASSUME NEW top \in Nat, NEW set, 0 \in set, \A n \in 1..top : n - 1 \in set => n \in set
    PROVE  0..top \subseteq set
  <1> DEFINE missing == {n \in Nat : n <= top /\ n \notin set}
  <1>1. ASSUME missing # {} PROVE FALSE
    <2>1. PICK n \in missing : \A m \in missing : ~(<<m, n>> \in OpToRel(<, Nat))
      BY <1>1, NatLessThanWellFounded, WFMin
    <2>2. n \in Nat /\ n <= top /\ n \notin set /\ n # 0
      BY <2>1
    <2>3. n \in 1..top /\ n - 1 \in Nat /\ n - 1 <= top /\ n - 1 < n
      BY <2>2
    <2>4. n - 1 \notin set
      BY <2>2, <2>3
    <2>5. n - 1 \in missing
      BY <2>3, <2>4
    <2> QED
      BY <2>1, <2>2, <2>3, <2>5 DEF OpToRel
  <1> QED
    BY <1>1

Iterations(top, values, after, first) ==
    {h \in [0..top -> values] : h[0] = first /\ \A n \in 1..top : h[n] = after[h[n - 1]]}

LEMMA Iterated ==
    ASSUME NEW top \in Nat, NEW values, NEW after \in [values -> values], NEW first \in values
    PROVE  Iterations(top, values, after, first) # {}
  <1> DEFINE upto(m) == \E h \in [0..m -> values] : h[0] = first /\ \A n \in 1..m : h[n] = after[h[n - 1]]
             done    == {m \in 0..top : upto(m)}
  <1>1. 0 \in done
    <2>1. [n \in 0..0 |-> first] \in [0..0 -> values]
      OBVIOUS
    <2>2. [n \in 0..0 |-> first][0] = first /\ \A n \in 1..0 : FALSE
      OBVIOUS
    <2> DEFINE one == [n \in 0..0 |-> first]
    <2> HIDE DEF one
    <2>3. upto(0)
      <3>1. one \in [0..0 -> values] /\ one[0] = first /\ \A n \in 1..0 : one[n] = after[one[n - 1]]
        BY <2>1, <2>2 DEF one
      <3> QED
        BY <3>1
    <2> QED
      BY <2>3
  <1>2. ASSUME NEW m \in 1..top, m - 1 \in done PROVE m \in done
    <2>1. PICK h \in [0..(m - 1) -> values] : h[0] = first /\ \A n \in 1..(m - 1) : h[n] = after[h[n - 1]]
      BY <1>2
    <2> DEFINE next == [n \in 0..m |-> IF n < m THEN h[n] ELSE after[h[m - 1]]]
    <2>2. next \in [0..m -> values]
      BY <2>1
    <2>3. next[0] = first
      BY <2>1
    <2>4. ASSUME NEW n \in 1..m PROVE next[n] = after[next[n - 1]]
      <3>1. CASE n = m
        BY <3>1
      <3>2. CASE n < m
        BY <2>1, <3>2
      <3> QED
        BY <3>1, <3>2
    <2> HIDE DEF next
    <2>5. upto(m)
      BY <2>2, <2>3, <2>4
    <2> QED
      BY <2>5
  <1>3. 0..top \subseteq done
    <2> HIDE DEF done
    <2> QED
      BY <1>1, <1>2, CountUp
  <1>4. upto(top)
    BY <1>3
  <1> QED
    BY <1>4 DEF Iterations

LEMMA Numbers0 == S!Constants => S!Never \in Nat /\ S!Never > RefreshLife /\ S!Never > Horizon
                                 /\ MaxTokens \in Nat /\ MaxChain \in Nat /\ Grace \in Nat /\ RefreshLife \in Nat /\ Horizon \in Nat
  BY DEF S!Constants, S!Never

(* What a token was rotated from, back to a bounded number of rotations.   *)
LEMMA ChainIs ==
    ASSUME S!Constants, SessionsTyped, NEW t \in S!Ids
    PROVE  \E back \in [0..MaxChain -> SUBSET S!Ids] :
               /\ S!Chain(t) = back[MaxChain] /\ back[0] = {t}
               /\ \A n \in 1..MaxChain : back[n] = back[n - 1] \cup UNION {S!PredecessorOf(x) : x \in back[n - 1]}
  <1> DEFINE after == [some \in SUBSET S!Ids |-> some \cup UNION {S!PredecessorOf(x) : x \in some}]
             body(g) == [n \in 0..MaxChain |->
                            IF n = 0 THEN {t} ELSE g[n - 1] \cup UNION {S!PredecessorOf(x) : x \in g[n - 1]}]
             back == CHOOSE g : g = body(g)
  <1>1. \A x \in S!Ids : S!PredecessorOf(x) \subseteq S!Ids
    BY DEF S!PredecessorOf, S!Kept, SessionsTyped
  <1>2. after \in [SUBSET S!Ids -> SUBSET S!Ids]
    BY <1>1
  <1>3. PICK h \in Iterations(MaxChain, SUBSET S!Ids, after, {t}) : TRUE
    <2> HIDE DEF after
    <2>1. {t} \in SUBSET S!Ids /\ MaxChain \in Nat
      BY Numbers0
    <2> QED
      BY <1>2, <2>1, Iterated
  <1>4. ASSUME NEW n \in 1..MaxChain PROVE h[n] = h[n - 1] \cup UNION {S!PredecessorOf(x) : x \in h[n - 1]}
    <2>1. n - 1 \in 0..MaxChain
      BY Numbers0
    <2>2. h[n - 1] \in SUBSET S!Ids
      BY <1>3, <2>1 DEF Iterations
    <2>3. h[n] = after[h[n - 1]]
      BY <1>3 DEF Iterations
    <2> QED
      BY <2>2, <2>3
  <1>5. h = body(h)
    BY <1>3, <1>4, Numbers0 DEF Iterations
  <1>6. back = body(back)
    BY <1>5, Zenon
  <1>7. S!Chain(t) = back[MaxChain]
    BY Zenon DEF S!Chain
  <1>8. back[0] = {t} /\ \A n \in 1..MaxChain : back[n] = back[n - 1] \cup UNION {S!PredecessorOf(x) : x \in back[n - 1]}
    <2> HIDE DEF back
    <2>1. 0 \in 0..MaxChain /\ \A n \in 1..MaxChain : n \in 0..MaxChain /\ n # 0
      BY Numbers0
    <2>2. \A n \in 0..MaxChain :
              back[n] = IF n = 0 THEN {t} ELSE back[n - 1] \cup UNION {S!PredecessorOf(x) : x \in back[n - 1]}
      BY <1>6
    <2> QED
      BY <2>1, <2>2
  <1>9. back \in [0..MaxChain -> SUBSET S!Ids]
    <2> DEFINE fine == {n \in 0..MaxChain : back[n] \subseteq S!Ids}
    <2> HIDE DEF back
    <2>1. 0 \in fine
      BY <1>8, Numbers0
    <2>2. ASSUME NEW n \in 1..MaxChain, n - 1 \in fine PROVE n \in fine
      BY <1>1, <1>8, <2>2
    <2>3. 0..MaxChain \subseteq fine
      <3> HIDE DEF fine
      <3> QED
        BY <2>1, <2>2, CountUp, Numbers0
    <2> QED
      BY <1>6, <2>3
  <1> HIDE DEF back
  <1> QED
    BY <1>7, <1>8, <1>9

(* The tokens that one was rotated from in as many rotations, whatever     *)
(* Redis remembers of them.                                               *)
LEMMA AncestorsAre ==
    ASSUME S!Constants, SessionsTyped, NEW t \in S!Ids
    PROVE  \E up \in [0..MaxChain -> SUBSET (0..MaxTokens)] :
               /\ S!Ancestors(t) = up[MaxChain] \ {0} /\ up[0] = {t}
               /\ \A n \in 1..MaxChain : up[n] = up[n - 1] \cup {parent[x] : x \in up[n - 1] \ {0}}
  <1> DEFINE after == [some \in SUBSET (0..MaxTokens) |-> some \cup {parent[x] : x \in some \ {0}}]
             body(g) == [n \in 0..MaxChain |->
                            IF n = 0 THEN {t} ELSE g[n - 1] \cup {parent[x] : x \in g[n - 1] \ {0}}]
             up == CHOOSE g : g = body(g)
  <1>1. \A x \in (0..MaxTokens) \ {0} : parent[x] \in 0..MaxTokens
    BY Numbers0 DEF SessionsTyped, S!Ids
  <1>2. after \in [SUBSET (0..MaxTokens) -> SUBSET (0..MaxTokens)]
    BY <1>1
  <1>3. PICK h \in Iterations(MaxChain, SUBSET (0..MaxTokens), after, {t}) : TRUE
    <2> HIDE DEF after
    <2>1. {t} \in SUBSET (0..MaxTokens) /\ MaxChain \in Nat
      BY Numbers0 DEF S!Ids
    <2> QED
      BY <1>2, <2>1, Iterated
  <1>4. ASSUME NEW n \in 1..MaxChain PROVE h[n] = h[n - 1] \cup {parent[x] : x \in h[n - 1] \ {0}}
    <2>1. n - 1 \in 0..MaxChain
      BY Numbers0
    <2>2. h[n - 1] \in SUBSET (0..MaxTokens)
      BY <1>3, <2>1 DEF Iterations
    <2>3. h[n] = after[h[n - 1]]
      BY <1>3 DEF Iterations
    <2> QED
      BY <2>2, <2>3
  <1>5. h = body(h)
    BY <1>3, <1>4, Numbers0 DEF Iterations
  <1>6. up = body(up)
    BY <1>5, Zenon
  <1>7. S!Ancestors(t) = up[MaxChain] \ {0}
    BY Zenon DEF S!Ancestors
  <1>8. up[0] = {t} /\ \A n \in 1..MaxChain : up[n] = up[n - 1] \cup {parent[x] : x \in up[n - 1] \ {0}}
    <2> HIDE DEF up
    <2>1. 0 \in 0..MaxChain /\ \A n \in 1..MaxChain : n \in 0..MaxChain /\ n # 0
      BY Numbers0
    <2>2. \A n \in 0..MaxChain : up[n] = IF n = 0 THEN {t} ELSE up[n - 1] \cup {parent[x] : x \in up[n - 1] \ {0}}
      BY <1>6
    <2> QED
      BY <2>1, <2>2
  <1>9. up \in [0..MaxChain -> SUBSET (0..MaxTokens)]
    <2> DEFINE fine == {n \in 0..MaxChain : up[n] \subseteq 0..MaxTokens}
    <2> HIDE DEF up
    <2>1. 0 \in fine
      BY <1>8, Numbers0 DEF S!Ids
    <2>2. ASSUME NEW n \in 1..MaxChain, n - 1 \in fine PROVE n \in fine
      BY <1>1, <1>8, <2>2
    <2>3. 0..MaxChain \subseteq fine
      <3> HIDE DEF fine
      <3> QED
        BY <2>1, <2>2, CountUp, Numbers0
    <2> QED
      BY <1>6, <2>3
  <1> HIDE DEF up
  <1> QED
    BY <1>7, <1>8, <1>9

LEMMA BornFacts ==
    ASSUME S!Constants, SessionsTyped, NEW t \in S!Tokens
    PROVE  /\ Born(t) \in 0..Horizon /\ Life(t) \in {RefreshLife, S!Never} /\ issued[t] = <<Born(t), Life(t)>>
           /\ t \in S!Ids /\ Born(t) \in Nat /\ now \in Nat /\ now <= Horizon
  <1>1. issued[t] \in (0..Horizon) \X {RefreshLife, S!Never} /\ t \in S!Ids
    BY DEF SessionsTyped, S!Tokens
  <1>2. Born(t) \in 0..Horizon /\ Life(t) \in {RefreshLife, S!Never} /\ issued[t] = <<Born(t), Life(t)>>
    BY <1>1 DEF Born, Life
  <1>3. now \in Nat /\ now <= Horizon
    BY Numbers0 DEF SessionsTyped
  <1>4. Born(t) \in Nat
    BY <1>2, Numbers0
  <1> QED
    BY <1>1, <1>2, <1>3, <1>4

(* A chain is the token and tokens that were rotated. *)
LEMMA ChainWithin ==
    ASSUME S!Constants, SessionsInv, NEW t \in S!Tokens
    PROVE  t \in S!Chain(t) /\ S!Chain(t) \subseteq S!Ids /\ \A x \in S!Chain(t) : x = t \/ Children(x) # {}
  <1>0. t \in S!Ids /\ SessionsTyped
    BY DEF SessionsInv, S!Tokens
  <1>1. PICK back \in [0..MaxChain -> SUBSET S!Ids] :
            /\ S!Chain(t) = back[MaxChain] /\ back[0] = {t}
            /\ \A n \in 1..MaxChain : back[n] = back[n - 1] \cup UNION {S!PredecessorOf(x) : x \in back[n - 1]}
    BY <1>0, ChainIs
  <1> DEFINE fine == {n \in 0..MaxChain : t \in back[n] /\ \A x \in back[n] : x = t \/ Children(x) # {}}
  <1>2. \A x \in S!Ids : \A y \in S!PredecessorOf(x) : x \in Children(y)
    BY <1>0, Numbers0 DEF SessionsInv, SessionsTyped, Lineage, S!PredecessorOf, S!Kept, Children
  <1>3. 0 \in fine
    BY <1>1, Numbers0
  <1>4. ASSUME NEW n \in 1..MaxChain, n - 1 \in fine PROVE n \in fine
    <2>1. n \in 0..MaxChain /\ n - 1 \in 0..MaxChain /\ back[n - 1] \subseteq S!Ids
      BY <1>1, Numbers0
    <2>2. back[n] = back[n - 1] \cup UNION {S!PredecessorOf(x) : x \in back[n - 1]}
      BY <1>1
    <2>3. t \in back[n] /\ \A x \in back[n] : x = t \/ Children(x) # {}
      BY <1>2, <1>4, <2>1, <2>2
    <2> QED
      BY <2>1, <2>3
  <1>5. MaxChain \in fine
    <2> HIDE DEF fine
    <2>1. 0..MaxChain \subseteq fine
      BY <1>3, <1>4, CountUp, Numbers0
    <2> QED
      BY <2>1, Numbers0
  <1> QED
    BY <1>1, <1>5

(* What a logout does not reach was rotated away. *)
LEMMA AncestorsReached ==
    ASSUME S!Constants, SessionsInv, NEW t \in S!Tokens
    PROVE  S!Ancestors(t) \subseteq S!Tokens /\ \A x \in S!Ancestors(t) : x \in S!Chain(t) \/ RotatedAway(x)
  <1>0. t \in S!Ids /\ SessionsTyped
    BY DEF SessionsInv, S!Tokens
  <1>1. PICK back \in [0..MaxChain -> SUBSET S!Ids] :
            /\ S!Chain(t) = back[MaxChain] /\ back[0] = {t}
            /\ \A n \in 1..MaxChain : back[n] = back[n - 1] \cup UNION {S!PredecessorOf(x) : x \in back[n - 1]}
    BY <1>0, ChainIs
  <1>2. PICK up \in [0..MaxChain -> SUBSET (0..MaxTokens)] :
            /\ S!Ancestors(t) = up[MaxChain] \ {0} /\ up[0] = {t}
            /\ \A n \in 1..MaxChain : up[n] = up[n - 1] \cup {parent[x] : x \in up[n - 1] \ {0}}
    BY <1>0, AncestorsAre
  <1> DEFINE reached(n) == \A x \in up[n] \ {0} : x \in S!Tokens /\ (x \in back[n] \/ RotatedAway(x))
             fine == {n \in 0..MaxChain : reached(n)}
  <1>3. 0 \in fine
    BY <1>1, <1>2, Numbers0
  <1>4. ASSUME NEW n \in 1..MaxChain, n - 1 \in fine PROVE n \in fine
    <2>1. n \in 0..MaxChain /\ n - 1 \in 0..MaxChain
      BY Numbers0
    <2>2. /\ back[n] = back[n - 1] \cup UNION {S!PredecessorOf(x) : x \in back[n - 1]}
          /\ up[n] = up[n - 1] \cup {parent[x] : x \in up[n - 1] \ {0}}
      BY <1>1, <1>2
    <2>3. ASSUME NEW x \in up[n - 1] \ {0}, parent[x] # 0
          PROVE  parent[x] \in S!Tokens /\ (parent[x] \in back[n] \/ RotatedAway(parent[x]))
      <3>1. x \in S!Tokens /\ (x \in back[n - 1] \/ RotatedAway(x)) /\ x \in S!Ids
        BY <1>4 DEF S!Tokens
      <3>2. parent[x] \in 1..(x - 1) /\ from[x] = <<parent[x], Born(x) + Grace>> /\ x \in Children(parent[x])
        BY <2>3, <3>1 DEF SessionsInv, Lineage, Children
      <3>3. parent[x] \in S!Tokens
        BY <3>1, <3>2, <1>0, Numbers0 DEF SessionsTyped
      <3>4. Born(x) \in Nat
        BY <1>0, <3>1, Numbers0 DEF SessionsTyped, S!Tokens, Born
      <3>5. CASE x \in back[n - 1] /\ Born(x) + Grace > now
        <4>1. S!PredecessorOf(x) = {parent[x]}
          BY <3>2, <3>5 DEF S!PredecessorOf, S!Kept
        <4> QED
          BY <2>2, <3>3, <3>5, <4>1
      <3>6. CASE Born(x) + Grace <= now
        BY <3>2, <3>3, <3>6 DEF RotatedAway
      <3>7. CASE RotatedAway(x)
        <4>1. PICK s \in Children(x) : Born(s) + Grace <= now
          BY <3>7 DEF RotatedAway
        <4>0. s \in S!Ids /\ parent[s] = x /\ parent[s] # 0
          BY <4>1 DEF Children
        <4>5. s \in S!Tokens /\ x \in 1..(s - 1)
          BY <4>0 DEF SessionsInv, Lineage
        <4>6. x \in Nat /\ s \in Nat
          BY <4>0, <3>1 DEF S!Ids
        <4>2. s \in S!Tokens /\ x < s /\ Born(s) \in Nat
          BY <1>0, <4>5, <4>6, BornFacts, Numbers0
        <4>3. Born(x) <= Born(s)
          BY <3>1, <4>2, Numbers0 DEF SessionsInv, InOrder, S!Ids
        <4>4. Born(x) + Grace <= now
          BY <1>0, <3>4, <4>1, <4>2, <4>3, Numbers0 DEF SessionsTyped
        <4> QED
          BY <3>6, <4>4
      <3> QED
        BY <1>0, <3>1, <3>4, <3>5, <3>6, <3>7, Numbers0 DEF SessionsTyped
    <2>4. ASSUME NEW x \in up[n - 1] \ {0} PROVE x \in S!Tokens /\ (x \in back[n] \/ RotatedAway(x))
      BY <1>4, <2>2
    <2>5. reached(n)
      BY <2>2, <2>3, <2>4
    <2> QED
      BY <2>1, <2>5
  <1>5. MaxChain \in fine
    <2> HIDE DEF fine
    <2>1. 0..MaxChain \subseteq fine
      BY <1>3, <1>4, CountUp, Numbers0
    <2> QED
      BY <2>1, Numbers0
  <1> QED
    BY <1>1, <1>2, <1>5

--------------------------------------------------------------------------------
LEMMA Rotation ==
    ASSUME S!Constants, SessionsInv, NEW t \in S!Ids, NEW s \in Children(t)
    PROVE  /\ s \in S!Tokens /\ t \in S!Tokens /\ t < s /\ Born(t) <= Born(s)
           /\ Life(t) = RefreshLife /\ ~S!Persistent(t)
  <1>0. SessionsTyped /\ s \in S!Ids /\ parent[s] = t /\ t # 0 /\ t \in Nat /\ s \in Nat
    BY DEF SessionsInv, Children, S!Ids
  <1>1. s \in S!Tokens /\ t \in 1..(s - 1) /\ Life(t) = RefreshLife
    BY <1>0 DEF SessionsInv, Lineage
  <1>2. t \in S!Tokens
    BY <1>0, <1>1, Numbers0 DEF SessionsTyped
  <1>3. t < s
    BY <1>0, <1>1
  <1>4. Born(t) <= Born(s)
    BY <1>0, <1>1, <1>2, <1>3 DEF SessionsInv, InOrder
  <1>5. ~S!Persistent(t)
    BY <1>1, Numbers0 DEF S!Persistent, Life
  <1> QED
    BY <1>1, <1>2, <1>3, <1>4, <1>5

LEMMA RotatedRefused ==
    ASSUME S!Constants, SessionsInv, NEW t \in S!Ids, RotatedAway(t)
    PROVE  ~S!Accepted(t)
  <1>0. SessionsTyped
    BY DEF SessionsInv
  <1>1. PICK s \in Children(t) : Born(s) + Grace <= now
    BY DEF RotatedAway
  <1>2. PICK first \in Children(t) : rotated[t] = <<Born(first) + Grace, Born(first) + RefreshLife + Grace>>
    BY <1>1 DEF SessionsInv, Retired
  <1>3. rotated[t][1] <= Born(s) + Grace
    BY <1>1 DEF SessionsInv, Retired
  <1>4. Born(s) \in Nat /\ Born(first) \in Nat /\ Born(t) \in Nat /\ now \in Nat
    <2>1. s \in S!Tokens /\ first \in S!Tokens /\ t \in S!Tokens
      BY <1>1, <1>2, Rotation
    <2> QED
      BY <1>0, <2>1, BornFacts
  <1>5. now >= rotated[t][1]
    BY <1>1, <1>2, <1>3, <1>4, Numbers0
  <1>6. CASE S!Kept(rotated[t])
    BY <1>5, <1>6 DEF S!Accepted, S!IsTokenRevoked
  <1>7. CASE ~S!Kept(rotated[t])
    <2>1. now >= Born(first) + RefreshLife + Grace
      BY <1>0, <1>2, <1>4, <1>7, Numbers0 DEF S!Kept
    <2>2. now >= Born(t) + RefreshLife
      BY <1>2, <1>4, <2>1, Rotation, Numbers0
    <2>3. S!Expired(t)
      BY <1>2, <2>2, Rotation DEF S!Expired, Born, Life
    <2> QED
      BY <2>3 DEF S!Accepted
  <1> QED
    BY <1>6, <1>7

LEMMA DeadRefused ==
    ASSUME S!Constants, SessionsInv, NEW t \in S!Tokens, Dead(t)
    PROVE  ~S!Accepted(t)
  <1>0. SessionsTyped /\ t \in S!Ids /\ now \in 0..Horizon /\ blacklist[t] \in Nat
    BY DEF SessionsInv, SessionsTyped, S!Tokens
  <1>1. CASE Born(t) < cutoff
    <2>0. Born(t) \in Nat /\ now \in Nat
      BY <1>0, BornFacts
    <2>1. cutoff \in Int
      BY <1>0, <2>0 DEF SessionsTyped
    <2>2. ~S!MaySignIn(t)
      BY <1>1, <2>0, <2>1 DEF S!MaySignIn, Born
    <2> QED
      BY <2>2 DEF S!Accepted
  <1>2. CASE Barred(t) /\ S!Persistent(t)
    BY <1>0, <1>2, Numbers0 DEF Barred, S!Accepted, S!IsTokenRevoked
  <1>3. CASE Barred(t) /\ ~S!Persistent(t)
    <2>1. Life(t) = RefreshLife /\ Born(t) \in Nat
      BY <1>0, <1>3, BornFacts, Numbers0 DEF S!Persistent, Life
    <2>2. blacklist[t] >= Born(t) + RefreshLife
      BY <1>3 DEF Barred
    <2>3. CASE now >= Born(t) + RefreshLife
      BY <1>3, <2>1, <2>3 DEF S!Accepted, S!Expired, Born, Life
    <2>4. CASE now < Born(t) + RefreshLife
      <3>1. blacklist[t] # 0 /\ blacklist[t] > now
        BY <1>0, <2>1, <2>2, <2>4, Numbers0
      <3> QED
        BY <3>1 DEF S!Accepted, S!IsTokenRevoked
    <2> QED
      BY <1>0, <2>1, <2>3, <2>4, Numbers0
  <1>4. CASE RotatedAway(t)
    BY <1>0, <1>4, RotatedRefused
  <1> QED
    BY <1>1, <1>2, <1>3, <1>4 DEF Dead

LEMMA SessionsShow ==
    ASSUME S!Constants, SessionsInv
    PROVE  S!SignedOutStaysOut /\ S!RotatedEnds /\ S!TabsRefreshTogether
  <1>0. SessionsTyped
    BY DEF SessionsInv
  <1>1. S!SignedOutStaysOut
    BY DeadRefused DEF SessionsInv, SessionsTyped, S!SignedOutStaysOut
  <1>2. S!RotatedEnds
    <2> SUFFICES ASSUME NEW s \in S!Tokens, parent[s] # 0, now >= issued[s][1] + Grace PROVE ~S!Accepted(parent[s])
      BY DEF S!RotatedEnds
    <2>1. s \in S!Ids /\ parent[s] \in S!Ids
      <3>1. s \in S!Ids
        BY DEF S!Tokens
      <3>2. parent[s] \in 0..MaxTokens
        BY <1>0, <3>1 DEF SessionsTyped
      <3> QED
        BY <3>1, <3>2, Numbers0 DEF S!Ids
    <2>2. s \in Children(parent[s])
      BY <2>1 DEF Children
    <2>3. RotatedAway(parent[s])
      <3>1. Born(s) \in Nat /\ now \in Nat
        BY <1>0, BornFacts
      <3>2. Born(s) + Grace <= now
        BY <3>1, Numbers0 DEF Born
      <3> QED
        BY <2>2, <3>2 DEF RotatedAway
    <2> QED
      BY <2>1, <2>3, RotatedRefused
  <1>3. S!TabsRefreshTogether
    <2> SUFFICES ASSUME NEW t \in S!Tokens, NEW s \in S!Tokens, parent[s] = t, now < Born(s) + Grace,
                        \A r \in S!Tokens : parent[r] = t => r >= s,
                        ~S!Expired(t), S!MaySignIn(t), blacklist[t] = 0
                 PROVE  S!Accepted(t)
      BY DEF S!TabsRefreshTogether, Born
    <2>1. t \in S!Ids /\ s \in S!Ids /\ s \in Children(t)
      BY <1>0, BornFacts DEF Children
    <2>2. PICK first \in Children(t) : rotated[t] = <<Born(first) + Grace, Born(first) + RefreshLife + Grace>>
      BY <2>1 DEF SessionsInv, Retired
    <2>3. first \in S!Tokens /\ first >= s
      BY <2>1, <2>2, Rotation DEF Children
    <2>4. Born(s) <= Born(first)
      BY <2>3 DEF SessionsInv, InOrder
    <2>5. Born(s) \in Nat /\ Born(first) \in Nat /\ now \in Nat
      BY <1>0, <2>3, BornFacts, Numbers0 DEF SessionsTyped
    <2>6. ~(now >= rotated[t][1])
      BY <2>2, <2>4, <2>5, Numbers0
    <2> QED
      BY <2>6 DEF S!Accepted, S!IsTokenRevoked
  <1> QED
    BY <1>1, <1>2, <1>3

--------------------------------------------------------------------------------
LEMMA SessionsInit == S!Constants /\ S!Init => SessionsInv
  <1> SUFFICES ASSUME S!Constants, S!Init PROVE SessionsInv
    OBVIOUS
  <1>1. S!Tokens = {}
    BY DEF S!Init, S!Tokens
  <1>2. SessionsTyped
    <2>1. S!Tokens = 1..0 /\ 0 \in 0..MaxTokens /\ out \subseteq S!Tokens
      BY <1>1, Numbers0 DEF S!Init
    <2>2. /\ now \in 0..Horizon /\ cutoff \in 0..now
          /\ issued \in [S!Ids -> {<<>>} \cup ((0..Horizon) \X {RefreshLife, S!Never})]
          /\ parent \in [S!Ids -> 0..MaxTokens] /\ blacklist \in [S!Ids -> Nat]
          /\ rotated \in [S!Ids -> {<<>>} \cup (Nat \X Nat)]
          /\ from \in [S!Ids -> {<<>>} \cup (S!Ids \X Nat)]
      BY Numbers0 DEF S!Init
    <2> QED
      BY <2>1, <2>2 DEF SessionsTyped
  <1>3. \A t \in S!Ids : Children(t) = {} /\ Lineage(t)
    BY DEF S!Init, Children, Lineage, S!Ids
  <1>4. \A t \in S!Ids : Retired(t) /\ Unrotated(t)
    BY <1>3 DEF S!Init, Retired, Unrotated
  <1> QED
    BY <1>1, <1>2, <1>3, <1>4 DEF SessionsInv, InOrder, S!Init

LEMMA SameTokenCount == \A set : S!Cardinality(set) = Cardinality(set)
  BY DEF S!Cardinality, Cardinality

LEMMA NewToken ==
    ASSUME S!Constants, SessionsTyped
    PROVE  /\ S!NewId \in 1..(MaxTokens + 1) /\ S!Tokens = 1..(S!NewId - 1) /\ S!NewId \notin S!Tokens
           /\ \A t \in S!Tokens : t < S!NewId /\ t \in Nat
  <1>1. PICK n \in 0..MaxTokens : S!Tokens = 1..n
    BY DEF SessionsTyped
  <1>2. Cardinality(1..n) = n
    BY <1>1, FS_Interval, Numbers0
  <1>3. S!NewId = n + 1
    BY <1>1, <1>2, SameTokenCount DEF S!NewId
  <1> QED
    BY <1>1, <1>3, Numbers0

(* A token is signed: the tokens, their order and who was rotated from whom. *)
LEMMA Signed ==
    ASSUME S!Constants, SessionsInv, NEW new \in S!Ids, new = S!NewId, NEW life \in {RefreshLife, S!Never}, NEW of \in 0..MaxTokens,
           S!Sign(new, life, of), now' = now
    PROVE  /\ issued' \in [S!Ids -> {<<>>} \cup ((0..Horizon) \X {RefreshLife, S!Never})]
           /\ parent' \in [S!Ids -> 0..MaxTokens]
           /\ S!Tokens' = S!Tokens \cup {new} /\ \E n \in 0..MaxTokens : S!Tokens' = 1..n
           /\ InOrder'
           /\ \A t \in S!Ids \ {new} : issued'[t] = issued[t] /\ parent'[t] = parent[t]
           /\ parent[new] = 0 /\ parent'[new] = of /\ issued'[new] = <<now, life>> /\ Born(new)' = now /\ Life(new)' = life
           /\ \A t \in S!Tokens : Born(t)' = Born(t) /\ Life(t)' = Life(t)
  <1>0. SessionsTyped
    BY DEF SessionsInv
  <1>1. issued' = [issued EXCEPT ![new] = <<now, life>>] /\ parent' = [parent EXCEPT ![new] = of]
    BY DEF S!Sign
  <1>2. /\ now \in 0..Horizon
        /\ issued \in [S!Ids -> {<<>>} \cup ((0..Horizon) \X {RefreshLife, S!Never})]
        /\ parent \in [S!Ids -> 0..MaxTokens]
    BY <1>0 DEF SessionsTyped
  <1>3. new \in S!Ids /\ new \notin S!Tokens /\ S!Tokens = 1..(new - 1) /\ \A t \in S!Tokens : t < new /\ t \in Nat
    BY <1>0, NewToken
  <1>4. /\ issued' \in [S!Ids -> {<<>>} \cup ((0..Horizon) \X {RefreshLife, S!Never})]
        /\ parent' \in [S!Ids -> 0..MaxTokens]
    BY <1>1, <1>2, <1>3
  <1>5. /\ \A t \in S!Ids \ {new} : issued'[t] = issued[t] /\ parent'[t] = parent[t]
        /\ parent'[new] = of /\ issued'[new] = <<now, life>>
    BY <1>1, <1>2, <1>3
  <1>6. parent[new] = 0
    BY <1>3 DEF SessionsInv, Lineage
  <1>7. S!Tokens' = S!Tokens \cup {new}
    <2>1. issued'[new] # <<>>
      BY <1>5
    <2>2. ASSUME NEW t \in S!Ids PROVE t \in S!Tokens' <=> t \in S!Tokens \cup {new}
      <3>1. CASE t = new
        BY <2>1, <3>1 DEF S!Tokens, S!Ids
      <3>2. CASE t # new
        BY <1>5, <3>2 DEF S!Tokens, S!Ids
      <3> QED
        BY <3>1, <3>2
    <2>3. S!Tokens \cup {new} \subseteq S!Ids /\ S!Tokens' \subseteq S!Ids
      BY DEF S!Tokens, S!Ids
    <2> QED
      BY <2>2, <2>3
  <1>8. \E n \in 0..MaxTokens : S!Tokens' = 1..n
    <2>1. S!Tokens' = 1..new /\ new \in 0..MaxTokens
      BY <1>3, <1>7, Numbers0 DEF S!Ids
    <2> QED
      BY <2>1
  <1>9. Born(new)' = now /\ Life(new)' = life /\ \A t \in S!Tokens : Born(t)' = Born(t) /\ Life(t)' = Life(t)
    BY <1>3, <1>5 DEF Born, Life, S!Tokens
  <1>10. InOrder'
    <2>1. \A t \in S!Tokens' : Born(t)' <= now'
      <3>1. \A t \in S!Tokens : Born(t) <= now
        BY DEF SessionsInv, InOrder
      <3>2. now <= now
        BY <1>2, Numbers0
      <3> QED
        BY <1>7, <1>9, <3>1, <3>2
    <2>2. ASSUME NEW s \in S!Tokens', NEW t \in S!Tokens', s <= t PROVE Born(s)' <= Born(t)'
      <3>1. CASE s \in S!Tokens /\ t \in S!Tokens
        <4>1. Born(s) <= Born(t)
          BY <2>2, <3>1 DEF SessionsInv, InOrder
        <4> QED
          BY <1>9, <3>1, <4>1
      <3>2. CASE t = new
        BY <1>9, <2>1, <3>2
      <3>3. CASE s = new /\ t \in S!Tokens
        BY <1>3, <2>2, <3>3 DEF S!Ids
      <3> QED
        BY <1>7, <3>1, <3>2, <3>3
    <2> QED
      BY <2>1, <2>2 DEF InOrder
  <1> QED
    BY <1>4, <1>5, <1>6, <1>7, <1>8, <1>9, <1>10

(* A token that was not rotated from another is signed: who was rotated    *)
(* from whom is as it was.                                                 *)
LEMMA SignedAlone ==
    ASSUME S!Constants, SessionsInv, NEW new \in S!Ids, new = S!NewId, NEW life \in {RefreshLife, S!Never},
           S!Sign(new, life, 0), now' = now, from' = from, rotated' = rotated
    PROVE  /\ \A t \in S!Ids : Children(t)' = Children(t) /\ Lineage(t)' /\ Retired(t)' /\ Unrotated(t)'
           /\ \A t \in S!Tokens : Born(t)' = Born(t) /\ Life(t)' = Life(t)
  <1>1. /\ S!Tokens' = S!Tokens \cup {new} /\ 0 \in 0..MaxTokens
        /\ \A t \in S!Ids \ {new} : parent'[t] = parent[t]
        /\ parent[new] = 0 /\ parent'[new] = 0
        /\ \A t \in S!Tokens : Born(t)' = Born(t) /\ Life(t)' = Life(t)
    <2>1. 0 \in 0..MaxTokens
      BY Numbers0
    <2> QED
      BY <2>1, Signed
  <1>2. \A t \in S!Ids : parent'[t] = parent[t]
    BY <1>1
  <1>3. \A t \in S!Ids : Children(t)' = Children(t)
    BY <1>2 DEF Children
  <1>4. \A t \in S!Ids : \A s \in Children(t) : Born(s)' = Born(s)
    BY <1>1, Rotation
  <1>5. ASSUME NEW t \in S!Ids PROVE Lineage(t)'
    <2>1. CASE parent[t] = 0
      BY <1>2, <2>1 DEF SessionsInv, Lineage
    <2>2. CASE parent[t] # 0
      <3>1. /\ t \in S!Tokens /\ parent[t] \in 1..(t - 1) /\ Life(parent[t]) = RefreshLife
            /\ from[t] = <<parent[t], Born(t) + Grace>>
        BY <2>2 DEF SessionsInv, Lineage
      <3>2. parent[t] \in S!Ids /\ t \in Children(parent[t])
        <4>1. parent[t] \in 0..MaxTokens /\ MaxTokens \in Nat
          BY Numbers0 DEF SessionsInv, SessionsTyped
        <4>2. parent[t] \in S!Ids
          BY <2>2, <4>1 DEF S!Ids
        <4> QED
          BY <4>2 DEF Children
      <3>3. parent[t] \in S!Tokens
        BY <3>2, Rotation
      <3>4. t \in S!Tokens' /\ Life(parent[t])' = RefreshLife /\ from'[t] = <<parent'[t], Born(t)' + Grace>>
        <4>1. issued'[parent[t]] = issued[parent[t]]
          <5>1. parent[t] # new
            BY <3>3, NewToken DEF SessionsInv
          <5> QED
            BY <3>2, <5>1 DEF S!Sign, SessionsInv, SessionsTyped
        <4>2. issued'[parent'[t]][2] = RefreshLife
          BY <1>2, <3>1, <4>1 DEF Life
        <4>3. t \in S!Tokens' /\ Born(t)' = Born(t) /\ from'[t] = from[t] /\ parent'[t] = parent[t]
          BY <1>1, <1>2, <3>1
        <4> QED
          BY <3>1, <4>2, <4>3 DEF Life
      <3> QED
        BY <1>2, <2>2, <3>1, <3>4 DEF Lineage
    <2> QED
      BY <2>1, <2>2
  <1>6. ASSUME NEW t \in S!Ids PROVE Retired(t)' /\ Unrotated(t)'
    BY <1>3, <1>4 DEF SessionsInv, Retired, Unrotated
  <1> QED
    BY <1>1, <1>3, <1>5, <1>6

(* Why a token is refused stays a reason. *)
LEMMA DeadStays ==
    ASSUME S!Constants, SessionsInv, NEW t \in S!Tokens, Dead(t),
           Born(t)' = Born(t), Life(t)' = Life(t), now' \in Nat, now' >= now, cutoff' \in Nat, cutoff' >= cutoff,
           blacklist'[t] = blacklist[t] \/ Barred(t)',
           \A s \in Children(t) : s \in Children(t)' /\ Born(s)' = Born(s)
    PROVE  Dead(t)'
  <1>0. SessionsTyped /\ t \in S!Ids /\ Born(t) \in Nat /\ now \in Nat
    BY BornFacts DEF SessionsInv
  <1>1. CASE Born(t) < cutoff
    <2>1. cutoff \in Int
      BY <1>0 DEF SessionsTyped
    <2> QED
      BY <1>0, <1>1, <2>1 DEF Dead
  <1>2. CASE Barred(t)
    <2>1. S!Persistent(t)' <=> S!Persistent(t)
      BY DEF S!Persistent, Life
    <2> QED
      BY <1>2, <2>1 DEF Barred, Dead
  <1>3. CASE RotatedAway(t)
    <2>1. PICK s \in Children(t) : Born(s) + Grace <= now
      BY <1>3 DEF RotatedAway
    <2>2. Born(s) \in Nat
      BY <1>0, <2>1, Rotation, BornFacts
    <2>3. Born(s)' + Grace <= now'
      BY <1>0, <2>1, <2>2, Numbers0
    <2> QED
      BY <2>1, <2>3 DEF RotatedAway, Dead
  <1> QED
    BY <1>1, <1>2, <1>3 DEF Dead

(* A logout bars the token and what Redis remembers it was rotated from. *)
LEMMA Revoked ==
    ASSUME S!Constants, SessionsInv, NEW t \in S!Tokens, S!RevokeToken(t),
           \A x \in S!Tokens : Born(x)' = Born(x) /\ Life(x)' = Life(x)
    PROVE  /\ blacklist' \in [S!Ids -> Nat]
           /\ \A x \in S!Tokens : IF x \in S!Chain(t) THEN Barred(x)' ELSE blacklist'[x] = blacklist[x]
  <1>0. SessionsTyped /\ now \in Nat /\ now + RefreshLife \in Nat
    BY BornFacts, Numbers0 DEF SessionsInv
  <1>1. \A x \in S!Ids, p \in BOOLEAN : S!Forgotten(x, p) \in Nat
    BY <1>0, Numbers0 DEF S!Forgotten
  <1>2. blacklist' = [x \in S!Ids |-> IF x = t THEN S!Forgotten(t, S!Persistent(t))
                                      ELSE IF x \in S!Chain(t) THEN S!Forgotten(x, FALSE) ELSE blacklist[x]]
    BY DEF S!RevokeToken
  <1>3. blacklist' \in [S!Ids -> Nat]
    <2>1. S!Persistent(t) \in BOOLEAN /\ t \in S!Ids
      BY BornFacts, <1>0 DEF S!Persistent
    <2> QED
      BY <1>0, <1>1, <1>2, <2>1 DEF SessionsTyped
  <1>4. ASSUME NEW x \in S!Tokens PROVE IF x \in S!Chain(t) THEN Barred(x)' ELSE blacklist'[x] = blacklist[x]
    <2>1. x \in S!Ids /\ Born(x) \in Nat /\ Born(x) <= now
      BY <1>0, BornFacts DEF SessionsInv, InOrder
    <2>2. S!Persistent(x)' <=> S!Persistent(x)
      BY DEF S!Persistent, Life
    <2>3. CASE x = t
      <3>1. blacklist'[x] = S!Forgotten(x, S!Persistent(x))
        BY <1>2, <2>1, <2>3
      <3>2. Barred(x)'
        <4>1. CASE S!Persistent(x)
          BY <2>2, <3>1, <4>1 DEF S!Forgotten, Barred
        <4>2. CASE ~S!Persistent(x)
          <5>1. blacklist'[x] = now + RefreshLife
            BY <3>1, <4>2 DEF S!Forgotten
          <5>2. blacklist'[x] >= Born(x) + RefreshLife
            BY <1>0, <2>1, <5>1, Numbers0
          <5> QED
            BY <2>2, <4>2, <5>2 DEF Barred
        <4> QED
          BY <4>1, <4>2
      <3> QED
        BY <2>3, <3>2, ChainWithin
    <2>4. CASE x # t /\ x \in S!Chain(t)
      <3>1. blacklist'[x] = now + RefreshLife
        BY <1>2, <2>1, <2>4 DEF S!Forgotten
      <3>2. ~S!Persistent(x)
        BY <2>1, <2>4, ChainWithin, Rotation
      <3>3. blacklist'[x] >= Born(x) + RefreshLife
        BY <1>0, <2>1, <3>1, Numbers0
      <3> QED
        BY <2>2, <2>4, <3>2, <3>3 DEF Barred
    <2>5. CASE x # t /\ x \notin S!Chain(t)
      BY <1>2, <2>1, <2>5
    <2> QED
      BY <2>3, <2>4, <2>5
  <1> QED
    BY <1>3, <1>4

(* A cookie is rotated: the first rotation sets its deadline. *)
LEMMA Rotated ==
    ASSUME S!Constants, SessionsInv, NEW t \in S!Tokens, S!Accepted(t), ~S!Persistent(t),
           NEW new \in S!Ids, new = S!NewId, S!Sign(new, RefreshLife, t), S!RetireRotatedToken(t, new), now' = now
    PROVE  /\ rotated' \in [S!Ids -> {<<>>} \cup (Nat \X Nat)] /\ from' \in [S!Ids -> {<<>>} \cup (S!Ids \X Nat)]
           /\ \A x \in S!Ids : Lineage(x)' /\ Retired(x)' /\ Unrotated(x)'
           /\ \A x \in S!Ids : \A s \in Children(x) : s \in Children(x)' /\ Born(s)' = Born(s)
  <1>0. /\ SessionsTyped /\ t \in S!Ids /\ t \in 0..MaxTokens /\ Born(t) \in Nat /\ now \in Nat
        /\ Life(t) = RefreshLife /\ t < new /\ t \in Nat /\ new \in Nat
    <2>1. SessionsTyped
      BY DEF SessionsInv
    <2>2. t < new /\ t \in Nat
      BY <2>1, NewToken
    <2>3. Life(t) = RefreshLife
      BY <2>1, BornFacts DEF S!Persistent, Life
    <2> QED
      BY <2>1, <2>2, <2>3, BornFacts, Numbers0 DEF S!Ids
  <1>1. /\ S!Tokens' = S!Tokens \cup {new}
        /\ \A x \in S!Ids \ {new} : issued'[x] = issued[x] /\ parent'[x] = parent[x]
        /\ parent[new] = 0 /\ parent'[new] = t /\ issued'[new] = <<now, RefreshLife>> /\ Born(new)' = now
        /\ \A x \in S!Tokens : Born(x)' = Born(x) /\ Life(x)' = Life(x)
    BY <1>0, Signed
  <1>2. new \notin S!Tokens /\ new # t
    BY <1>0, NewToken
  <1>3. /\ rotated' = IF S!Kept(rotated[t]) THEN rotated
                      ELSE [rotated EXCEPT ![t] = <<now + Grace, now + RefreshLife + Grace>>]
        /\ from' = [from EXCEPT ![new] = <<t, now + Grace>>]
    BY DEF S!RetireRotatedToken
  <1>4. rotated' \in [S!Ids -> {<<>>} \cup (Nat \X Nat)] /\ from' \in [S!Ids -> {<<>>} \cup (S!Ids \X Nat)]
    <2>1. now + Grace \in Nat /\ now + RefreshLife + Grace \in Nat
      BY <1>0, Numbers0
    <2> QED
      BY <1>0, <1>3, <2>1 DEF SessionsTyped
  <1>5. /\ \A x \in S!Ids \ {t} : Children(x)' = Children(x)
        /\ Children(t)' = Children(t) \cup {new}
    <2>1. \A s \in S!Ids \ {new} : parent'[s] = parent[s]
      BY <1>1
    <2>2. parent[new] = 0 /\ parent'[new] = t /\ t # 0 /\ \A x \in S!Ids : x # 0
      BY <1>0, <1>1, Numbers0 DEF S!Ids
    <2> QED
      BY <2>1, <2>2 DEF Children
  <1>6. \A x \in S!Ids : \A s \in Children(x) : s \in Children(x)' /\ Born(s)' = Born(s) /\ s \in S!Tokens
    BY <1>1, <1>5, Rotation
  <1>7. ASSUME NEW x \in S!Ids PROVE Lineage(x)'
    <2>1. CASE x = new
      <3>1. from'[x] = <<t, now + Grace>>
        BY <1>0, <1>3, <2>1 DEF SessionsTyped
      <3>2. parent'[x] = t /\ t # 0 /\ t \in 1..(x - 1) /\ x \in S!Tokens'
        BY <1>0, <1>1, <2>1 DEF S!Ids
      <3>3. issued'[parent'[x]][2] = RefreshLife
        BY <1>0, <1>1, <1>2, <3>2 DEF Life
      <3> QED
        BY <1>1, <2>1, <3>1, <3>2, <3>3 DEF Lineage, Life
    <2>2. CASE x # new /\ parent[x] = 0
      <3>1. parent'[x] = 0 /\ from'[x] = from[x]
        BY <1>0, <1>1, <1>3, <2>2 DEF SessionsTyped
      <3> QED
        BY <2>2, <3>1 DEF SessionsInv, Lineage
    <2>3. CASE x # new /\ parent[x] # 0
      <3>1. /\ x \in S!Tokens /\ parent[x] \in 1..(x - 1) /\ Life(parent[x]) = RefreshLife
            /\ from[x] = <<parent[x], Born(x) + Grace>>
        BY <2>3 DEF SessionsInv, Lineage
      <3>2. parent[x] \in S!Ids /\ x \in Children(parent[x])
        <4>1. parent[x] \in 0..MaxTokens
          BY <1>0 DEF SessionsTyped
        <4> QED
          BY <2>3, <4>1, Numbers0 DEF S!Ids, Children
      <3>3. parent[x] \in S!Tokens
        BY <3>2, Rotation
      <3>4. parent'[x] = parent[x] /\ from'[x] = from[x] /\ issued'[parent[x]] = issued[parent[x]]
        BY <1>0, <1>1, <1>2, <1>3, <2>3, <3>2, <3>3 DEF SessionsTyped
      <3>5. issued'[parent'[x]][2] = RefreshLife
        BY <3>1, <3>4 DEF Life
      <3> QED
        BY <1>1, <2>3, <3>1, <3>4, <3>5 DEF Lineage, Life
    <2> QED
      BY <2>1, <2>2, <2>3
  <1>8. ASSUME NEW x \in S!Ids, x # t PROVE Retired(x)' /\ Unrotated(x)'
    <2>1. rotated'[x] = rotated[x]
      BY <1>0, <1>3, <1>8 DEF SessionsTyped
    <2>2. Children(x)' = Children(x) /\ \A s \in Children(x) : Born(s)' = Born(s)
      BY <1>5, <1>6, <1>8
    <2> QED
      BY <2>1, <2>2 DEF SessionsInv, Retired, Unrotated
  <1>9. Retired(t)' /\ Unrotated(t)'
    <2>1. now < Born(t) + RefreshLife
      <3>1. ~(now >= Born(t) + RefreshLife)
        BY <1>0 DEF S!Accepted, S!Expired, Born, Life
      <3> QED
        BY <1>0, <3>1, Numbers0
    <2>2. CASE Children(t) = {}
      <3>1. rotated[t] = <<>>
        BY <1>0, <2>2 DEF SessionsInv, Unrotated
      <3>2. rotated'[t] = <<now + Grace, now + RefreshLife + Grace>>
        BY <1>0, <1>3, <3>1 DEF S!Kept, SessionsTyped
      <3>3. Children(t)' = {new} /\ Born(new)' = now
        BY <1>1, <1>5, <2>2
      <3>4. rotated'[t] # <<>> /\ rotated'[t][1] = now + Grace /\ now + Grace <= now + Grace
        BY <1>0, <3>2, Numbers0
      <3> QED
        BY <3>2, <3>3, <3>4 DEF Retired, Unrotated
    <2>3. CASE Children(t) # {}
      <3>1. PICK first \in Children(t) : rotated[t] = <<Born(first) + Grace, Born(first) + RefreshLife + Grace>>
        BY <1>0, <2>3 DEF SessionsInv, Retired
      <3>2. Born(first) \in Nat /\ Born(t) <= Born(first) /\ Born(first) <= now
        BY <1>0, <3>1, Rotation, BornFacts DEF SessionsInv, InOrder
      <3>3. S!Kept(rotated[t])
        <4>1. Born(first) + RefreshLife + Grace > now
          BY <1>0, <2>1, <3>2, Numbers0
        <4>2. rotated[t] # <<>> /\ rotated[t][2] = Born(first) + RefreshLife + Grace
          BY <3>1
        <4> QED
          BY <4>1, <4>2 DEF S!Kept
      <3>4. rotated'[t] = rotated[t]
        BY <1>3, <3>3
      <3>5. rotated'[t][1] <= now + Grace
        <4>1. rotated'[t][1] = Born(first) + Grace
          BY <3>1, <3>4
        <4> QED
          BY <1>0, <3>2, <4>1, Numbers0
      <3>6. \A s \in Children(t) : rotated[t][1] <= Born(s) + Grace
        BY <1>0, <2>3 DEF SessionsInv, Retired
      <3>7. \A s \in Children(t)' : rotated'[t][1] <= Born(s)' + Grace
        BY <1>1, <1>5, <1>0, <1>6, <3>4, <3>5, <3>6
      <3>8. first \in Children(t)' /\ rotated'[t] = <<Born(first)' + Grace, Born(first)' + RefreshLife + Grace>>
        BY <1>0, <1>6, <3>1, <3>4
      <3>9. rotated'[t] # <<>>
        BY <3>1, <3>4
      <3> QED
        BY <3>7, <3>8, <3>9 DEF Retired, Unrotated
    <2> QED
      BY <2>2, <2>3
  <1> QED
    BY <1>4, <1>6, <1>7, <1>8, <1>9

LEMMA SessionsNext == ASSUME S!Constants, SessionsInv, [S!Next]_(S!vars) PROVE SessionsInv'
  <1>0. SessionsTyped /\ now \in Nat /\ cutoff \in Nat /\ cutoff <= now
    <2>1. SessionsTyped
      BY DEF SessionsInv
    <2>2. now \in Nat
      BY <2>1, Numbers0 DEF SessionsTyped
    <2> QED
      BY <2>1, <2>2 DEF SessionsTyped
  <1>1. ASSUME NEW new \in S!Ids, new = S!NewId, NEW life \in {RefreshLife, S!Never}, S!Sign(new, life, 0),
               UNCHANGED <<now, blacklist, rotated, from, cutoff, out>>
        PROVE  SessionsInv'
    <2>1. 0 \in 0..MaxTokens /\ now <= now /\ cutoff <= cutoff
      BY <1>0, Numbers0
    <2>2. /\ issued' \in [S!Ids -> {<<>>} \cup ((0..Horizon) \X {RefreshLife, S!Never})]
          /\ parent' \in [S!Ids -> 0..MaxTokens]
          /\ S!Tokens' = S!Tokens \cup {new} /\ \E n \in 0..MaxTokens : S!Tokens' = 1..n
          /\ InOrder'
          /\ \A t \in S!Tokens : Born(t)' = Born(t) /\ Life(t)' = Life(t)
      BY <1>1, <2>1, Signed
    <2>3. \A t \in S!Ids : Children(t)' = Children(t) /\ Lineage(t)' /\ Retired(t)' /\ Unrotated(t)'
      BY <1>1, SignedAlone
    <2>4. SessionsTyped'
      BY <1>0, <1>1, <2>2 DEF SessionsTyped
    <2>5. ASSUME NEW t \in out PROVE Dead(t)'
      <3>1. t \in S!Tokens /\ t \in S!Ids /\ Dead(t)
        BY <1>0 DEF SessionsInv, SessionsTyped, S!Tokens
      <3>2. \A s \in Children(t) : s \in Children(t)' /\ Born(s)' = Born(s)
        BY <2>2, <2>3, <3>1, Rotation
      <3> QED
        BY <1>0, <1>1, <2>1, <2>2, <3>1, <3>2, DeadStays
    <2> QED
      BY <1>1, <2>2, <2>3, <2>4, <2>5 DEF SessionsInv
  <1>2. ASSUME NEW p \in BOOLEAN, S!SignIn(p) PROVE SessionsInv'
    <2>1. S!NewId \in S!Ids /\ (IF p THEN S!Never ELSE RefreshLife) \in {RefreshLife, S!Never}
      BY <1>2 DEF S!SignIn
    <2> QED
      BY <1>1, <1>2, <2>1 DEF S!SignIn
  <1>3. ASSUME NEW t \in S!Ids, S!Refresh(t, FALSE) PROVE SessionsInv'
    BY <1>1, <1>3 DEF S!Refresh
  <1>4. ASSUME NEW t \in S!Ids, S!Refresh(t, TRUE) PROVE SessionsInv'
    <2>1. /\ t \in S!Tokens /\ S!Accepted(t) /\ ~S!Persistent(t) /\ S!NewId \in S!Ids
          /\ S!Sign(S!NewId, RefreshLife, t) /\ S!RetireRotatedToken(t, S!NewId)
          /\ UNCHANGED <<now, blacklist, cutoff, out>>
      BY <1>4 DEF S!Refresh
    <2>2. PICK new \in S!Ids : new = S!NewId
      BY <2>1
    <2>3. t \in 0..MaxTokens /\ now <= now /\ cutoff <= cutoff
      BY <1>0, Numbers0 DEF S!Ids
    <2>4. /\ issued' \in [S!Ids -> {<<>>} \cup ((0..Horizon) \X {RefreshLife, S!Never})]
          /\ parent' \in [S!Ids -> 0..MaxTokens]
          /\ S!Tokens' = S!Tokens \cup {new} /\ \E n \in 0..MaxTokens : S!Tokens' = 1..n
          /\ InOrder'
          /\ \A x \in S!Tokens : Born(x)' = Born(x) /\ Life(x)' = Life(x)
      BY <2>1, <2>2, <2>3, Signed
    <2>5. /\ rotated' \in [S!Ids -> {<<>>} \cup (Nat \X Nat)] /\ from' \in [S!Ids -> {<<>>} \cup (S!Ids \X Nat)]
          /\ \A x \in S!Ids : Lineage(x)' /\ Retired(x)' /\ Unrotated(x)'
          /\ \A x \in S!Ids : \A s \in Children(x) : s \in Children(x)' /\ Born(s)' = Born(s)
      BY <2>1, <2>2, Rotated
    <2>6. SessionsTyped'
      BY <1>0, <2>1, <2>4, <2>5 DEF SessionsTyped
    <2>7. ASSUME NEW x \in out PROVE Dead(x)'
      <3>1. x \in S!Tokens /\ x \in S!Ids /\ Dead(x)
        BY <1>0 DEF SessionsInv, SessionsTyped, S!Tokens
      <3> QED
        BY <1>0, <2>1, <2>3, <2>4, <2>5, <3>1, DeadStays
    <2> QED
      BY <2>1, <2>4, <2>5, <2>6, <2>7 DEF SessionsInv
  <1>5. ASSUME NEW t \in S!Ids, S!Logout(t) PROVE SessionsInv'
    <2>1. /\ t \in S!Tokens /\ S!RevokeToken(t) /\ out' = out \cup S!Ancestors(t)
          /\ now' = now /\ issued' = issued /\ parent' = parent /\ rotated' = rotated /\ from' = from /\ cutoff' = cutoff
      BY <1>5 DEF S!Logout
    <2>2. /\ S!Tokens' = S!Tokens /\ \A x : Born(x)' = Born(x) /\ Life(x)' = Life(x) /\ Children(x)' = Children(x)
      BY <2>1 DEF S!Tokens, Born, Life, Children
    <2>3. /\ blacklist' \in [S!Ids -> Nat]
          /\ \A x \in S!Tokens : IF x \in S!Chain(t) THEN Barred(x)' ELSE blacklist'[x] = blacklist[x]
      BY <2>1, <2>2, Revoked
    <2>4. S!Ancestors(t) \subseteq S!Tokens /\ \A x \in S!Ancestors(t) : x \in S!Chain(t) \/ RotatedAway(x)
      BY <2>1, AncestorsReached
    <2>5. SessionsTyped'
      BY <1>0, <2>1, <2>2, <2>3, <2>4 DEF SessionsTyped
    <2>6. InOrder' /\ \A x \in S!Ids : Lineage(x)' /\ Retired(x)' /\ Unrotated(x)'
      BY <2>1, <2>2 DEF SessionsInv, InOrder, Lineage, Retired, Unrotated
    <2>7. ASSUME NEW x \in out' PROVE Dead(x)'
      <3>1. CASE x \in S!Chain(t) /\ x \in S!Tokens
        BY <2>3, <3>1 DEF Dead
      <3>2. CASE x \in S!Tokens /\ Dead(x)
        <4>1. now' \in Nat /\ now' >= now /\ cutoff' \in Nat /\ cutoff' >= cutoff
          BY <1>0, <2>1
        <4>2. blacklist'[x] = blacklist[x] \/ Barred(x)'
          BY <2>3, <3>2
        <4> QED
          BY <2>2, <3>2, <4>1, <4>2, DeadStays
      <3> QED
        BY <1>0, <2>1, <2>4, <3>1, <3>2 DEF SessionsInv, SessionsTyped, Dead
    <2> QED
      BY <2>5, <2>6, <2>7 DEF SessionsInv
  <1>6. ASSUME NEW t \in S!Ids, S!EndSessionsIssuedBefore(t) PROVE SessionsInv'
    <2>1. /\ t \in S!Tokens /\ S!NewId \in S!Ids /\ S!RevokeToken(t) /\ S!Sign(S!NewId, issued[t][2], 0)
          /\ cutoff' = now /\ now' = now /\ rotated' = rotated /\ from' = from
          /\ out' = out \cup {x \in S!Tokens : issued[x][1] < now} \cup S!Ancestors(t)
      BY <1>6 DEF S!EndSessionsIssuedBefore
    <2>2. PICK new \in S!Ids : new = S!NewId
      BY <2>1
    <2>3. 0 \in 0..MaxTokens /\ Life(t) \in {RefreshLife, S!Never} /\ S!Sign(new, Life(t), 0)
      BY <1>0, <2>1, <2>2, BornFacts, Numbers0 DEF Life
    <2>4. /\ issued' \in [S!Ids -> {<<>>} \cup ((0..Horizon) \X {RefreshLife, S!Never})]
          /\ parent' \in [S!Ids -> 0..MaxTokens]
          /\ S!Tokens' = S!Tokens \cup {new} /\ \E n \in 0..MaxTokens : S!Tokens' = 1..n
          /\ InOrder'
          /\ \A x \in S!Tokens : Born(x)' = Born(x) /\ Life(x)' = Life(x)
      BY <2>1, <2>2, <2>3, Signed
    <2>5. \A x \in S!Ids : Children(x)' = Children(x) /\ Lineage(x)' /\ Retired(x)' /\ Unrotated(x)'
      BY <2>1, <2>2, <2>3, SignedAlone
    <2>6. /\ blacklist' \in [S!Ids -> Nat]
          /\ \A x \in S!Tokens : IF x \in S!Chain(t) THEN Barred(x)' ELSE blacklist'[x] = blacklist[x]
      BY <2>1, <2>4, Revoked
    <2>7. S!Ancestors(t) \subseteq S!Tokens /\ \A x \in S!Ancestors(t) : x \in S!Chain(t) \/ RotatedAway(x)
      BY <2>1, AncestorsReached
    <2>8. SessionsTyped'
      <3>1. cutoff' \in 0..now'
        BY <1>0, <2>1
      <3>2. out' \subseteq S!Tokens'
        BY <1>0, <2>1, <2>4, <2>7 DEF SessionsTyped
      <3> QED
        BY <1>0, <2>1, <2>4, <2>6, <3>1, <3>2 DEF SessionsTyped
    <2>9. ASSUME NEW x \in out' PROVE Dead(x)'
      <3>1. CASE x \in S!Chain(t) /\ x \in S!Tokens
        BY <2>6, <3>1 DEF Dead
      <3>2. CASE x \in S!Tokens /\ Dead(x)
        <4>1. now' \in Nat /\ now' >= now /\ cutoff' \in Nat /\ cutoff' >= cutoff
          BY <1>0, <2>1
        <4>2. blacklist'[x] = blacklist[x] \/ Barred(x)'
          BY <2>6, <3>2
        <4>3. \A s \in Children(x) : s \in Children(x)' /\ Born(s)' = Born(s)
          BY <1>0, <2>4, <2>5, <3>2, Rotation, BornFacts
        <4> QED
          BY <2>4, <3>2, <4>1, <4>2, <4>3, DeadStays
      <3>3. CASE x \in S!Tokens /\ issued[x][1] < now
        BY <2>1, <2>4, <3>3 DEF Dead, Born
      <3> QED
        BY <1>0, <2>1, <2>7, <3>1, <3>2, <3>3 DEF SessionsInv, SessionsTyped, Dead
    <2> QED
      BY <2>4, <2>5, <2>8, <2>9 DEF SessionsInv
  <1>7. ASSUME S!Tick PROVE SessionsInv'
    <2>1. /\ now' = now + 1 /\ now < Horizon /\ issued' = issued /\ parent' = parent /\ blacklist' = blacklist
          /\ rotated' = rotated /\ from' = from /\ cutoff' = cutoff /\ out' = out
      BY <1>7 DEF S!Tick
    <2>2. /\ S!Tokens' = S!Tokens /\ \A x : Born(x)' = Born(x) /\ Life(x)' = Life(x) /\ Children(x)' = Children(x)
      BY <2>1 DEF S!Tokens, Born, Life, Children
    <2>3. now' \in 0..Horizon /\ now' \in Nat /\ now' >= now /\ cutoff' \in 0..now' /\ cutoff' >= cutoff
      BY <1>0, <2>1, Numbers0
    <2>4. SessionsTyped'
      BY <1>0, <2>1, <2>2, <2>3 DEF SessionsTyped
    <2>5. InOrder'
      <3>1. \A x \in S!Tokens : Born(x) <= now'
        BY <1>0, <2>3, BornFacts DEF SessionsInv, InOrder
      <3> QED
        BY <2>2, <3>1 DEF SessionsInv, InOrder
    <2>6. \A x \in S!Ids : Lineage(x)' /\ Retired(x)' /\ Unrotated(x)'
      BY <2>1, <2>2 DEF SessionsInv, Lineage, Retired, Unrotated
    <2>7. ASSUME NEW x \in out PROVE Dead(x)'
      <3>1. x \in S!Tokens /\ Dead(x)
        BY <1>0 DEF SessionsInv, SessionsTyped
      <3> QED
        BY <1>0, <2>1, <2>2, <2>3, <3>1, DeadStays
    <2> QED
      BY <2>1, <2>4, <2>5, <2>6, <2>7 DEF SessionsInv
  <1>8. CASE UNCHANGED S!vars
    <2>1. /\ now' = now /\ issued' = issued /\ parent' = parent /\ blacklist' = blacklist
          /\ rotated' = rotated /\ from' = from /\ cutoff' = cutoff /\ out' = out
      BY <1>8 DEF S!vars
    <2>2. S!Tokens' = S!Tokens /\ \A x : Children(x)' = Children(x) /\ Born(x)' = Born(x) /\ Life(x)' = Life(x)
      BY <2>1 DEF S!Tokens, Children, Born, Life
    <2>3. SessionsTyped'
      BY <1>0, <2>1, <2>2 DEF SessionsTyped
    <2>4. InOrder' /\ \A x \in S!Ids : Lineage(x)' /\ Retired(x)' /\ Unrotated(x)'
      BY <2>1, <2>2 DEF SessionsInv, InOrder, Lineage, Retired, Unrotated
    <2>5. \A x \in out' : Dead(x)'
      BY <2>1, <2>2 DEF SessionsInv, Dead, Barred, RotatedAway, S!Persistent
    <2> QED
      BY <2>3, <2>4, <2>5 DEF SessionsInv
  <1> QED
    BY <1>2, <1>3, <1>4, <1>5, <1>6, <1>7, <1>8 DEF S!Next

(* What holds of the refresh tokens whatever comes next: for any number of *)
(* them, any grace, any life of a token and any bound on the rotations a   *)
(* logout walks back.                                                      *)
THEOREM SessionsInvariant == ASSUME S!Constants PROVE S!Spec => []SessionsInv
  BY SessionsInit, SessionsNext, PTL DEF S!Spec

--------------------------------------------------------------------------------
(* Codes *)

Work == [op : {"none", "ask", "move", "verify", "signup", "confirm"}, phone : Numbers \cup {None},
         user : Users \cup {None}, purpose : C!Purposes \cup {None}, at : 0..LastClock,
         code : 0..MaxCodes, attempts : 0..MaxAttempts]
CodesTyped ==
    /\ plan \in Plans /\ clock \in 0..plan.till
    /\ number \in [Users -> Numbers \cup {None}]
    /\ code \in [C!Ids -> C!Codes \cup {None}]
    /\ at \in [Slots -> {"idle", "sending", "wrong", "accepted"}] /\ errand \in [Slots -> Work]
    /\ wrong \in [C!Ids -> Nat] /\ right \in [C!Ids -> Nat]

(* What a request for a code that is being sent knows of it. *)
Asking(w) == w.phone \in Numbers /\ w.purpose \in C!Purposes

(* The ids that were given out, and what each row was sent as. *)
SentAs(c, row) == \E x \in sent : x.id = c /\ x.phone = row.phone /\ x.user = row.user /\ x.purpose = row.purpose
NoneYet(c) == code[c] = None /\ wrong[c] = 0 /\ right[c] = 0
GivenOut(n) == /\ IsFiniteSet(sent) /\ n = Cardinality(sent) /\ n \in 0..MaxCodes
               /\ \A x \in sent : x.id \in 1..n
               /\ \A c \in C!Ids : /\ c > n => NoneYet(c)
                                   /\ code[c] # None => SentAs(c, code[c])

(* A row that is being judged is there, not used, as it was read, and      *)
(* locked by one request.                                                  *)
Judging(s) == at[s] \in {"wrong", "accepted"}
AsRead(w, row) ==
    /\ w.phone = row.phone /\ w.purpose = row.purpose /\ w.attempts = row.attempts
    /\ ~row.used /\ row.attempts < MaxAttempts
    /\ w.op = "signup" => w.purpose = "sign_in" /\ w.user \in Users
    /\ w.op = "confirm" => w.purpose = "phone_change" /\ w.user \in Users
Judged(s) == Judging(s) => errand[s].code \in C!Ids /\ code[errand[s].code] # None /\ AsRead(errand[s], code[errand[s].code])
OneJudge == \A s, t \in Slots : Judging(s) /\ Judging(t) /\ errand[s].code = errand[t].code => s = t

(* Attempts are the wrong guesses, but for one that is not counted yet.    *)
Tallied(c) ==
    /\ wrong[c] <= MaxAttempts /\ right[c] <= 1
    /\ code[c] # None /\ ~code[c].used /\ c \notin C!Locked => wrong[c] = code[c].attempts /\ right[c] = 0
Counting(s) ==
    /\ at[s] = "wrong" => wrong[errand[s].code] = errand[s].attempts + 1 /\ right[errand[s].code] = 0
    /\ at[s] = "accepted" => wrong[errand[s].code] = errand[s].attempts /\ right[errand[s].code] = 1

Proves(u, x) == /\ x.phone = number[u] /\ right[x.id] = 1 /\ x.id \notin C!Locked
               /\ <<x.user, x.purpose>> \in {<<None, "sign_in">>, <<u, "phone_change">>}
Proven(u) == number[u] \notin {None, plan.holds[u]} => \E x \in sent : Proves(u, x)

CodesInv ==
    /\ CodesTyped /\ \E n \in Nat : GivenOut(n)
    /\ \A s \in Slots : (at[s] = "sending" => Asking(errand[s])) /\ Judged(s) /\ Counting(s)
    /\ OneJudge
    /\ \A c \in C!Ids : Tallied(c)
    /\ \A u \in Users : Proven(u)
--------------------------------------------------------------------------------
LEMMA Greatest ==
    ASSUME NEW top \in Nat, NEW set, set \subseteq 0..top, set # {}
    PROVE  \E x \in set : \A y \in set : y <= x
  <1> DEFINE below == {n \in Nat : \E x \in set : x = top - n}
  <1>1. below # {}
    <2>1. PICK x \in set : TRUE
      OBVIOUS
    <2>2. x \in 0..top
      BY <2>1
    <2>3. top - x \in Nat /\ x = top - (top - x)
      BY <2>2
    <2> QED
      BY <2>1, <2>3
  <1>2. PICK n \in below : \A m \in below : ~(<<m, n>> \in OpToRel(<, Nat))
    BY <1>1, NatLessThanWellFounded, WFMin
  <1>3. n \in Nat /\ top - n \in set
    BY <1>2
  <1>4. ASSUME NEW y \in set PROVE y <= top - n
    <2>1. y \in 0..top /\ top - y \in Nat /\ y = top - (top - y)
      BY <1>4
    <2>2. top - y \in below
      BY <1>4, <2>1
    <2>3. ~(top - y < n)
      BY <1>2, <1>3, <2>1, <2>2 DEF OpToRel
    <2> QED
      BY <1>3, <2>1, <2>3
  <1> QED
    BY <1>3, <1>4

(* The latest of some rows is one of them. *)
LEMMA LatestIsOne ==
    ASSUME C!Constants, CodesTyped, NEW some, some \subseteq C!Rows, some # {}
    PROVE  C!Latest(some) \in some
  <1> DEFINE times == {code[c].created : c \in some}
  <1>0. /\ LastClock \in Nat /\ MaxCodes \in Nat /\ some \subseteq C!Ids
        /\ \A c \in some : code[c] \in C!Codes /\ code[c].created \in 0..LastClock
    BY DEF C!Constants, CodesTyped, C!Rows, C!Codes
  <1>1. PICK last \in times : \A time \in times : time <= last
    <2>1. times # {} /\ times \subseteq 0..LastClock
      BY <1>0
    <2> HIDE DEF times
    <2> QED
      BY <1>0, <2>1, Greatest
  <1> DEFINE newest == {c \in some : code[c].created = last}
  <1>2. PICK k \in newest : \A c \in newest : c <= k
    <2>1. newest # {}
      BY <1>1
    <2>2. newest \subseteq 0..MaxCodes
      <3>1. newest \subseteq 1..MaxCodes
        BY <1>0 DEF C!Ids
      <3>2. 1..MaxCodes \subseteq 0..MaxCodes
        BY <1>0
      <3> QED
        BY <3>1, <3>2
    <2> HIDE DEF newest
    <2> QED
      BY <1>0, <2>1, <2>2, Greatest
  <1>3. \A d \in some : code[d].created < code[k].created \/ (code[d].created = code[k].created /\ d <= k)
    <2> SUFFICES ASSUME NEW d \in some
                 PROVE  code[d].created < code[k].created \/ (code[d].created = code[k].created /\ d <= k)
      OBVIOUS
    <2>1. code[d].created \in times /\ code[k].created = last /\ code[d].created \in Nat /\ last \in Nat
      BY <1>0, <1>1, <1>2
    <2>2. code[d].created <= last
      BY <1>1, <2>1
    <2>3. CASE code[d].created = last
      BY <1>2, <2>1, <2>3
    <2>4. CASE code[d].created # last
      BY <2>1, <2>2, <2>4
    <2> QED
      BY <2>3, <2>4
  <1> QED
    BY <1>2, <1>3 DEF C!Latest

LEMMA CodesFacts ==
    ASSUME C!Constants, CodesTyped
    PROVE  /\ plan.till \in 0..LastClock /\ plan.codes \in 0..MaxCodes /\ clock \in 0..LastClock /\ clock \in Nat
           /\ LastClock \in Nat /\ MaxCodes \in Nat /\ MaxAttempts \in Nat
           /\ \A c \in C!Ids : code[c] # None => code[c] \in C!Codes
           /\ \A c \in C!Ids : code[c] \in C!Codes => code[c] # None
           /\ C!NoJob \in Work
  <1>1. plan.till \in 0..LastClock /\ plan.codes \in 0..MaxCodes /\ LastClock \in Nat /\ MaxCodes \in Nat /\ MaxAttempts \in Nat
    BY DEF C!Constants, CodesTyped
  <1>2. clock \in 0..LastClock /\ clock \in Nat
    BY <1>1 DEF CodesTyped
  <1>3. C!NoJob \in Work
    BY <1>1 DEF C!NoJob, Work
  <1> QED
    BY <1>1, <1>2, <1>3 DEF CodesTyped, C!Constants

LEMMA LockedIs == \A c : c \in C!Locked <=> \E s \in Slots : Judging(s) /\ errand[s].code = c
  BY DEF C!Locked, Judging

LEMMA CodesInit == C!Constants /\ C!Init => CodesInv
  <1> SUFFICES ASSUME C!Constants, C!Init PROVE CodesInv
    OBVIOUS
  <1>1. C!NoJob \in Work /\ plan \in Plans /\ 0 \in 0..plan.till /\ MaxCodes \in Nat /\ MaxAttempts \in Nat
    BY DEF C!Constants, C!Init, C!NoJob, Work
  <1>2. CodesTyped
    BY <1>1 DEF C!Init, C!Constants, CodesTyped
  <1>3. GivenOut(0)
    BY <1>1, FS_EmptySet DEF C!Init, GivenOut, NoneYet, C!Ids
  <1>4. \A s \in Slots : at[s] = "idle"
    BY DEF C!Init
  <1>5. \A c \in C!Ids : Tallied(c)
    BY <1>1 DEF C!Init, Tallied
  <1>6. \A u \in Users : Proven(u)
    BY DEF C!Init, Proven
  <1> QED
    BY <1>2, <1>3, <1>4, <1>5, <1>6 DEF CodesInv, Judged, Counting, OneJudge, Judging

(* A request ends, and releases the row it has judged. *)
LEMMA Released ==
    ASSUME C!Constants, CodesInv, NEW s \in Slots, C!End(s)
    PROVE  /\ at' \in [Slots -> {"idle", "sending", "wrong", "accepted"}] /\ errand' \in [Slots -> Work]
           /\ at'[s] = "idle" /\ ~Judging(s)'
           /\ \A t \in Slots \ {s} : at'[t] = at[t] /\ errand'[t] = errand[t] /\ (Judging(t)' <=> Judging(t))
           /\ C!Locked' = IF Judging(s) THEN C!Locked \ {errand[s].code} ELSE C!Locked
           /\ OneJudge'
  <1>1. /\ at' = [at EXCEPT ![s] = "idle"] /\ errand' = [errand EXCEPT ![s] = C!NoJob]
        /\ CodesTyped /\ C!NoJob \in Work
    BY CodesFacts DEF C!End, CodesInv
  <1>2. /\ at' \in [Slots -> {"idle", "sending", "wrong", "accepted"}] /\ errand' \in [Slots -> Work]
        /\ at'[s] = "idle"
        /\ \A t \in Slots \ {s} : at'[t] = at[t] /\ errand'[t] = errand[t]
    BY <1>1 DEF CodesTyped
  <1>3. ~Judging(s)' /\ \A t \in Slots \ {s} : Judging(t)' <=> Judging(t)
    BY <1>2 DEF Judging
  <1>4. OneJudge'
    BY <1>2, <1>3 DEF CodesInv, OneJudge
  <1>5. \A c : c \in C!Locked' <=> \E t \in Slots : Judging(t)' /\ errand'[t].code = c
    BY LockedIs, <1>1 DEF C!Locked, Judging
  <1>6. C!Locked' = IF Judging(s) THEN C!Locked \ {errand[s].code} ELSE C!Locked
    <2>1. \A c : c \in C!Locked' <=> \E t \in Slots \ {s} : Judging(t) /\ errand[t].code = c
      BY <1>2, <1>3, <1>5
    <2>2. \A t \in Slots \ {s} : Judging(s) /\ Judging(t) => errand[t].code # errand[s].code
      BY DEF CodesInv, OneJudge
    <2> QED
      BY <2>1, <2>2, LockedIs
  <1> QED
    BY <1>2, <1>3, <1>4, <1>6

(* A request ends with the row it has judged: the others are as they were. *)
LEMMA SettledRow ==
    ASSUME C!Constants, CodesInv, NEW s \in Slots, Judging(s), C!End(s),
           NEW c \in C!Ids, c = errand[s].code, NEW row \in C!Codes,
           row.phone = code[c].phone /\ row.user = code[c].user /\ row.purpose = code[c].purpose,
           code' = [code EXCEPT ![c] = row], UNCHANGED <<plan, clock, sent, wrong>>,
           right' \in [C!Ids -> Nat], \A d \in C!Ids \ {c} : right'[d] = right[d],
           Tallied(c)', number' \in [Users -> Numbers \cup {None}], \A u \in Users : Proven(u)'
    PROVE  CodesInv'
  <1>0. CodesTyped /\ code[c] # None /\ \A d \in C!Ids : code[d] \in C!Codes \cup {None}
    BY DEF CodesInv, CodesTyped, Judged
  <1>1. /\ at' \in [Slots -> {"idle", "sending", "wrong", "accepted"}] /\ errand' \in [Slots -> Work]
        /\ at'[s] = "idle" /\ ~Judging(s)'
        /\ \A t \in Slots \ {s} : at'[t] = at[t] /\ errand'[t] = errand[t] /\ (Judging(t)' <=> Judging(t))
        /\ C!Locked' = C!Locked \ {c} /\ OneJudge'
    BY Released
  <1>2. code' \in [C!Ids -> C!Codes \cup {None}] /\ code'[c] = row /\ \A d \in C!Ids \ {c} : code'[d] = code[d]
    BY <1>0 DEF CodesTyped
  <1>3. CodesTyped'
    BY <1>0, <1>1, <1>2 DEF CodesTyped
  <1>4. \E n \in Nat : GivenOut(n)'
    <2>1. PICK n \in Nat : GivenOut(n)
      BY DEF CodesInv
    <2>2. c <= n
      BY <1>0, <2>1 DEF GivenOut, NoneYet, C!Ids
    <2>3. \A d \in C!Ids : d > n => NoneYet(d)'
      BY <1>2, <2>1, <2>2 DEF GivenOut, NoneYet, C!Ids
    <2>4. ASSUME NEW d \in C!Ids, code'[d] # None PROVE SentAs(d, code[d])'
      <3>1. /\ code[d] # None /\ code'[d].phone = code[d].phone /\ code'[d].user = code[d].user
            /\ code'[d].purpose = code[d].purpose
        BY <1>0, <1>2, <2>4
      <3>2. SentAs(d, code[d])
        BY <2>1, <3>1 DEF GivenOut
      <3> QED
        BY <3>1, <3>2 DEF SentAs
    <2> QED
      BY <2>1, <2>3, <2>4 DEF GivenOut
  <1>5. ASSUME NEW t \in Slots PROVE (at'[t] = "sending" => Asking(errand'[t])) /\ Judged(t)' /\ Counting(t)'
    <2>1. CASE t = s
      BY <1>1, <2>1 DEF Judged, Counting, Judging
    <2>2. CASE t # s
      <3>1. at'[t] = at[t] /\ errand'[t] = errand[t] /\ (Judging(t)' <=> Judging(t))
        BY <1>1, <2>2
      <3>2. (at[t] = "sending" => Asking(errand[t])) /\ Judged(t) /\ Counting(t)
        BY DEF CodesInv
      <3>3. Judging(t) => errand[t].code \in C!Ids \ {c}
        BY <2>2, <3>2 DEF CodesInv, OneJudge, Judged
      <3>4. Judged(t)'
        BY <1>2, <3>1, <3>2, <3>3 DEF Judged
      <3>5. Counting(t)'
        BY <3>1, <3>2, <3>3 DEF Counting, Judging
      <3> QED
        BY <3>1, <3>2, <3>4, <3>5
    <2> QED
      BY <2>1, <2>2
  <1>6. ASSUME NEW d \in C!Ids PROVE Tallied(d)'
    <2>1. CASE d # c
      <3>1. Tallied(d) /\ (d \in C!Locked' <=> d \in C!Locked)
        BY <1>1, <2>1 DEF CodesInv
      <3> QED
        BY <1>2, <2>1, <3>1 DEF Tallied
    <2> QED
      BY <2>1
  <1> QED
    BY <1>1, <1>3, <1>4, <1>5, <1>6 DEF CodesInv

(* What a request that judges a row knows of it. *)
LEMMA JudgedRow ==
    ASSUME C!Constants, CodesInv, NEW s \in Slots, Judging(s), NEW c, c = errand[s].code
    PROVE  /\ c \in C!Ids /\ code[c] \in C!Codes /\ AsRead(errand[s], code[c]) /\ c \in C!Locked
           /\ code[c].attempts \in Nat /\ MaxAttempts \in Nat /\ SentAs(c, code[c])
           /\ wrong[c] \in Nat /\ right[c] \in Nat
  <1>1. c \in C!Ids /\ code[c] # None /\ AsRead(errand[s], code[c])
    BY DEF CodesInv, Judged
  <1>2. code[c] \in C!Codes /\ MaxAttempts \in Nat
    BY <1>1, CodesFacts DEF CodesInv
  <1>3. code[c].attempts \in Nat
    BY <1>2 DEF C!Codes
  <1>4. SentAs(c, code[c])
    BY <1>1 DEF CodesInv, GivenOut
  <1> QED
    BY <1>1, <1>2, <1>3, <1>4, LockedIs DEF CodesInv, CodesTyped

(* A number that was proven stays so as long as the code that proved it   *)
(* counts as accepted and nobody judges it.                                *)
LEMMA StillProven ==
    ASSUME CodesInv, NEW u \in Users, number'[u] = number[u] \/ number'[u] = None, plan' = plan,
           \A x \in sent : right[x.id] = 1 /\ x.id \notin C!Locked => x \in sent' /\ right'[x.id] = 1 /\ x.id \notin C!Locked'
    PROVE  Proven(u)'
  <1> SUFFICES ASSUME number'[u] \notin {None, plan'.holds[u]} PROVE \E x \in sent' : Proves(u, x)'
    BY DEF Proven
  <1>1. number'[u] = number[u]
    OBVIOUS
  <1>2. PICK x \in sent : Proves(u, x)
    BY <1>1 DEF CodesInv, Proven
  <1>3. x \in sent' /\ right'[x.id] = 1 /\ x.id \notin C!Locked'
    BY <1>2 DEF Proves
  <1> QED
    BY <1>1, <1>2, <1>3 DEF Proves

LEMMA CountGuessStep == ASSUME C!Constants, CodesInv, NEW s \in Slots, C!CountGuess(s) PROVE CodesInv'
  <1> DEFINE c == errand[s].code
             row == [code[c] EXCEPT !.attempts = errand[s].attempts + 1]
  <1>1. /\ at[s] = "wrong" /\ Judging(s) /\ C!End(s) /\ UNCHANGED <<plan, clock, number, sent, wrong, right>>
        /\ code' = [code EXCEPT ![c].attempts = errand[s].attempts + 1]
    BY DEF C!CountGuess, Judging
  <1>2. PICK d \in C!Ids : d = errand[s].code
    BY <1>1, JudgedRow
  <1>3. /\ code[d] \in C!Codes /\ AsRead(errand[s], code[d]) /\ code[d].attempts \in Nat /\ MaxAttempts \in Nat
        /\ d \in C!Locked /\ CodesTyped
    BY <1>1, <1>2, JudgedRow DEF CodesInv
  <1>4. row \in C!Codes /\ row.phone = code[d].phone /\ row.user = code[d].user /\ row.purpose = code[d].purpose
        /\ row.attempts = code[d].attempts + 1
    <2>1. code[d].attempts + 1 \in 0..MaxAttempts /\ errand[s].attempts = code[d].attempts
      BY <1>3 DEF AsRead
    <2> QED
      BY <1>2, <1>3, <2>1 DEF C!Codes
  <1>5. code' = [code EXCEPT ![d] = row]
    BY <1>1, <1>2
  <1>6. code'[d] = row
    BY <1>3, <1>5 DEF CodesTyped
  <1>7. Tallied(d)'
    <2>1. wrong[d] = errand[s].attempts + 1 /\ right[d] = 0
      BY <1>1, <1>2 DEF CodesInv, Counting
    <2>2. errand[s].attempts = code[d].attempts /\ code[d].attempts < MaxAttempts
      BY <1>3 DEF AsRead
    <2>3. wrong[d] <= MaxAttempts /\ wrong[d] = row.attempts
      BY <1>3, <1>4, <2>1, <2>2
    <2>4. 0 <= 1
      OBVIOUS
    <2> QED
      BY <1>1, <1>6, <2>1, <2>3, <2>4 DEF Tallied
  <1>8. right' \in [C!Ids -> Nat] /\ number' \in [Users -> Numbers \cup {None}] /\ right' = right
    BY <1>1, <1>3 DEF CodesTyped
  <1>9. \A u \in Users : Proven(u)'
    <2>1. C!Locked' \subseteq C!Locked
      BY <1>1, Released
    <2> QED
      BY <1>1, <2>1, StillProven
  <1> HIDE DEF row
  <1> QED
    BY <1>1, <1>2, <1>4, <1>5, <1>7, <1>8, <1>9, SettledRow

(* The account, if any, that a code that was judged good is entered for. *)
LEMMA CommitStep ==
    ASSUME C!Constants, CodesInv, NEW s \in Slots, at[s] = "accepted", NEW later, C!Commit(s, later),
           later \in [Users -> Numbers \cup {None}],
           \A u \in Users : \/ later[u] = number[u]
                            \/ /\ later[u] = errand[s].phone
                               /\ <<code[errand[s].code].user, code[errand[s].code].purpose>>
                                      \in {<<None, "sign_in">>, <<u, "phone_change">>}
    PROVE  CodesInv'
  <1> DEFINE c == errand[s].code
             row == [code[c] EXCEPT !.used = TRUE]
  <1>1. /\ Judging(s) /\ C!End(s) /\ UNCHANGED <<plan, clock, sent, wrong, right>>
        /\ number' = later /\ code' = [code EXCEPT ![c].used = TRUE]
    BY DEF C!Commit, Judging
  <1>2. PICK d \in C!Ids : d = errand[s].code
    BY <1>1, JudgedRow
  <1>3. /\ code[d] \in C!Codes /\ AsRead(errand[s], code[d]) /\ code[d].attempts \in Nat /\ MaxAttempts \in Nat
        /\ SentAs(d, code[d]) /\ CodesTyped
    BY <1>1, <1>2, JudgedRow DEF CodesInv
  <1>4. row \in C!Codes /\ row.phone = code[d].phone /\ row.user = code[d].user /\ row.purpose = code[d].purpose /\ row.used
    BY <1>2, <1>3 DEF C!Codes
  <1>5. code' = [code EXCEPT ![d] = row]
    BY <1>1, <1>2
  <1>6. code'[d] = row
    BY <1>3, <1>5 DEF CodesTyped
  <1>7. wrong[d] = errand[s].attempts /\ right[d] = 1
    BY <1>2 DEF CodesInv, Counting
  <1>8. Tallied(d)'
    <2>1. wrong[d] <= MaxAttempts /\ right[d] <= 1
      BY <1>3, <1>7 DEF AsRead
    <2> QED
      BY <1>1, <1>4, <1>6, <2>1 DEF Tallied
  <1>9. C!Locked' = C!Locked \ {d}
    BY <1>1, <1>2, Released
  <1>10. right' \in [C!Ids -> Nat] /\ number' \in [Users -> Numbers \cup {None}] /\ right' = right
    BY <1>1, <1>3 DEF CodesTyped
  <1>11. ASSUME NEW u \in Users PROVE Proven(u)'
    <2>1. CASE later[u] = number[u]
      BY <1>1, <1>9, <2>1, StillProven
    <2>2. CASE /\ later[u] = errand[s].phone
               /\ <<code[d].user, code[d].purpose>> \in {<<None, "sign_in">>, <<u, "phone_change">>}
      <3>1. PICK x \in sent : x.id = d /\ x.phone = code[d].phone /\ x.user = code[d].user /\ x.purpose = code[d].purpose
        BY <1>3 DEF SentAs
      <3>2. x.phone = number'[u] /\ right'[x.id] = 1 /\ x.id \notin C!Locked'
        BY <1>1, <1>3, <1>7, <1>9, <2>2, <3>1 DEF AsRead
      <3>3. Proves(u, x)'
        BY <2>2, <3>1, <3>2 DEF Proves
      <3> QED
        BY <1>1, <3>3 DEF Proven
    <2> QED
      BY <1>2, <2>1, <2>2
  <1> HIDE DEF row
  <1> QED
    BY <1>1, <1>2, <1>4, <1>5, <1>8, <1>10, <1>11, SettledRow

(* What neither codes, numbers nor the rows that are judged notice. *)
LEMMA QuietCodes ==
    ASSUME C!Constants, CodesInv, UNCHANGED <<plan, number, code, sent, wrong, right>>, clock' \in 0..plan.till,
           at' \in [Slots -> {"idle", "sending", "wrong", "accepted"}], errand' \in [Slots -> Work],
           \A t \in Slots : /\ Judging(t)' <=> Judging(t)
                            /\ Judging(t) => at'[t] = at[t] /\ errand'[t] = errand[t]
                            /\ at'[t] = "sending" => Asking(errand'[t])
    PROVE  CodesInv'
  <1>1. CodesTyped'
    BY DEF CodesInv, CodesTyped
  <1>2. C!Locked' = C!Locked
    <2>1. \A c : c \in C!Locked' <=> \E t \in Slots : Judging(t)' /\ errand'[t].code = c
      BY DEF C!Locked, Judging
    <2> QED
      BY <2>1, LockedIs
  <1>3. \A n \in Nat : GivenOut(n) => GivenOut(n)'
    BY DEF GivenOut, SentAs, NoneYet
  <1>4. \A t \in Slots : Judged(t)' /\ Counting(t)'
    <2>1. \A t \in Slots : Judged(t) /\ Counting(t)
      BY DEF CodesInv
    <2> QED
      BY <2>1 DEF Judged, Counting, Judging
  <1>5. OneJudge'
    BY DEF CodesInv, OneJudge
  <1>6. \A c \in C!Ids : Tallied(c)'
    BY <1>2 DEF CodesInv, Tallied
  <1>7. \A u \in Users : Proven(u)'
    BY <1>2 DEF CodesInv, Proven, Proves
  <1> QED
    BY <1>1, <1>3, <1>4, <1>5, <1>6, <1>7 DEF CodesInv

LEMMA IssueStep ==
    ASSUME C!Constants, CodesInv, NEW s \in Slots, NEW op \in {"ask", "move"}, NEW p \in Numbers,
           NEW u \in Users \cup {None}, NEW purpose \in C!Purposes, C!Issue(s, op, p, u, purpose)
    PROVE  CodesInv'
  <1> DEFINE w == [C!NoJob EXCEPT !.op = op, !.phone = p, !.user = u, !.purpose = purpose, !.at = clock]
  <1>1. /\ at[s] = "idle" /\ at' = [at EXCEPT ![s] = "sending"] /\ errand' = [errand EXCEPT ![s] = w]
        /\ UNCHANGED <<plan, clock, number, code, sent, wrong, right>>
    BY DEF C!Issue, C!Start
  <1>2. w \in Work /\ Asking(w)
    <2>1. clock \in 0..LastClock /\ MaxCodes \in Nat /\ MaxAttempts \in Nat
      BY CodesFacts DEF CodesInv
    <2>2. 0 \in 0..MaxCodes /\ 0 \in 0..MaxAttempts
      BY <2>1
    <2> DEFINE w1 == [C!NoJob EXCEPT !.op = op]
               w2 == [w1 EXCEPT !.phone = p]
               w3 == [w2 EXCEPT !.user = u]
               w4 == [w3 EXCEPT !.purpose = purpose]
               w5 == [w4 EXCEPT !.at = clock]
    <2>3. w = [op |-> op, phone |-> p, user |-> u, purpose |-> purpose, at |-> clock, code |-> 0, attempts |-> 0]
      <3>1. w1 = [op |-> op, phone |-> None, user |-> None, purpose |-> None, at |-> 0, code |-> 0, attempts |-> 0]
        BY DEF C!NoJob
      <3> HIDE DEF w1
      <3>2. w2 = [op |-> op, phone |-> p, user |-> None, purpose |-> None, at |-> 0, code |-> 0, attempts |-> 0]
        BY <3>1
      <3> HIDE DEF w2
      <3>3. w3 = [op |-> op, phone |-> p, user |-> u, purpose |-> None, at |-> 0, code |-> 0, attempts |-> 0]
        BY <3>2
      <3> HIDE DEF w3
      <3>4. w4 = [op |-> op, phone |-> p, user |-> u, purpose |-> purpose, at |-> 0, code |-> 0, attempts |-> 0]
        BY <3>3
      <3> HIDE DEF w4
      <3>5. w5 = [op |-> op, phone |-> p, user |-> u, purpose |-> purpose, at |-> clock, code |-> 0, attempts |-> 0]
        BY <3>4
      <3> QED
        BY <3>5, Zenon DEF w1, w2, w3, w4
    <2> QED
      BY <2>1, <2>2, <2>3 DEF Work, Asking
  <1> HIDE DEF w
  <1>3. CodesTyped
    BY DEF CodesInv
  <1>4. at' \in [Slots -> {"idle", "sending", "wrong", "accepted"}] /\ errand' \in [Slots -> Work]
    BY <1>1, <1>2, <1>3 DEF CodesTyped
  <1>5. ASSUME NEW t \in Slots
        PROVE  /\ Judging(t)' <=> Judging(t)
               /\ Judging(t) => at'[t] = at[t] /\ errand'[t] = errand[t]
               /\ at'[t] = "sending" => Asking(errand'[t])
    <2>1. CASE t = s
      BY <1>1, <1>2, <1>3, <2>1 DEF CodesTyped, Judging
    <2>2. CASE t # s
      BY <1>1, <1>3, <2>2 DEF CodesTyped, Judging, CodesInv
    <2> QED
      BY <2>1, <2>2
  <1>6. clock' \in 0..plan.till
    BY <1>1, <1>3 DEF CodesTyped
  <1> QED
    BY <1>1, <1>4, <1>5, <1>6, QuietCodes

LEMMA AskStep ==
    ASSUME C!Constants, CodesInv, NEW s \in Slots,
           \/ \E p \in Numbers : C!RequestOtp(s, p) \/ C!RequestSignupOtp(s, p)
           \/ \E u \in Users, p \in Numbers : C!RequestPhoneChange(s, u, p)
    PROVE  CodesInv'
  <1>1. {"sign_in", "phone_change"} = C!Purposes
    BY DEF C!Purposes
  <1>2. CASE \E p \in Numbers : C!RequestOtp(s, p)
    BY <1>1, <1>2, IssueStep DEF C!RequestOtp, C!Owner
  <1>3. CASE \E p \in Numbers : C!RequestSignupOtp(s, p)
    BY <1>1, <1>3, IssueStep DEF C!RequestSignupOtp
  <1>4. CASE \E u \in Users, p \in Numbers : C!RequestPhoneChange(s, u, p)
    BY <1>1, <1>4, IssueStep DEF C!RequestPhoneChange
  <1> QED
    BY <1>2, <1>3, <1>4

LEMMA SendFailsStep == ASSUME C!Constants, CodesInv, NEW s \in Slots, C!SendFails(s) PROVE CodesInv'
  <1>1. at[s] = "sending" /\ C!End(s) /\ UNCHANGED <<plan, clock, number, code, sent, wrong, right>>
    BY DEF C!SendFails
  <1>2. /\ at' \in [Slots -> {"idle", "sending", "wrong", "accepted"}] /\ errand' \in [Slots -> Work]
        /\ at'[s] = "idle" /\ ~Judging(s)'
        /\ \A t \in Slots \ {s} : at'[t] = at[t] /\ errand'[t] = errand[t] /\ (Judging(t)' <=> Judging(t))
    BY <1>1, Released
  <1>3. ~Judging(s)
    BY <1>1 DEF Judging
  <1>4. \A t \in Slots : /\ Judging(t)' <=> Judging(t)
                         /\ Judging(t) => at'[t] = at[t] /\ errand'[t] = errand[t]
                         /\ at'[t] = "sending" => Asking(errand'[t])
    BY <1>2, <1>3 DEF CodesInv
  <1>5. clock' \in 0..plan.till
    BY <1>1 DEF CodesInv, CodesTyped
  <1> QED
    BY <1>1, <1>2, <1>4, <1>5, QuietCodes

LEMMA ClockStep == ASSUME C!Constants, CodesInv, C!Tick \/ UNCHANGED C!vars PROVE CodesInv'
  <1>1. UNCHANGED <<plan, number, code, at, errand, sent, wrong, right>>
    BY DEF C!Tick, C!vars
  <1>2. clock' \in 0..plan.till
    <2>1. plan.till \in 0..LastClock /\ clock \in 0..plan.till /\ LastClock \in Nat
      BY CodesFacts DEF CodesInv, CodesTyped
    <2>2. CASE C!Tick
      BY <2>1, <2>2 DEF C!Tick
    <2>3. CASE UNCHANGED C!vars
      BY <2>1, <2>3 DEF C!vars
    <2> QED
      BY <2>2, <2>3
  <1>3. at' \in [Slots -> {"idle", "sending", "wrong", "accepted"}] /\ errand' \in [Slots -> Work]
    BY <1>1 DEF CodesInv, CodesTyped
  <1>4. \A t \in Slots : /\ Judging(t)' <=> Judging(t)
                         /\ Judging(t) => at'[t] = at[t] /\ errand'[t] = errand[t]
                         /\ at'[t] = "sending" => Asking(errand'[t])
    BY <1>1 DEF CodesInv, Judging
  <1> QED
    BY <1>1, <1>2, <1>3, <1>4, QuietCodes

LEMMA SentCount == C!Cardinality(sent) = Cardinality(sent)
  BY DEF C!Cardinality, Cardinality

(* What saving a code leaves of another row. *)
LEMMA RowKept ==
    ASSUME NEW d, NEW p, NEW purpose, NEW time, code[d] \in C!Codes \cup {None}, None \notin C!Codes,
           NEW row, row = IF d \in C!Locked THEN code[d] ELSE C!PurgeStale(C!VoidActive(d, p, purpose), time)
    PROVE  /\ row \in C!Codes \cup {None} /\ (d \in C!Locked => row = code[d])
           /\ row # None => /\ code[d] # None /\ row.phone = code[d].phone /\ row.user = code[d].user
                            /\ row.purpose = code[d].purpose /\ row.attempts = code[d].attempts
                            /\ ~row.used => ~code[d].used
  <1>1. CASE d \in C!Locked
    BY <1>1
  <1>2. CASE d \notin C!Locked /\ code[d] = None
    BY <1>2 DEF C!PurgeStale, C!VoidActive
  <1>3. CASE d \notin C!Locked /\ code[d] # None
    <2> DEFINE void == C!VoidActive(d, p, purpose)
    <2>1. /\ void \in C!Codes /\ void.phone = code[d].phone /\ void.user = code[d].user
          /\ void.purpose = code[d].purpose /\ void.attempts = code[d].attempts /\ (~void.used => ~code[d].used)
      BY <1>3 DEF C!VoidActive, C!Codes
    <2>2. row \in {None, void}
      BY <1>3 DEF C!PurgeStale
    <2> QED
      BY <1>3, <2>1, <2>2
  <1> QED
    BY <1>1, <1>2, <1>3

LEMMA SaveStep == ASSUME C!Constants, CodesInv, NEW s \in Slots, C!Save(s) PROVE CodesInv'
  <1> DEFINE j == errand[s]
             new == [phone |-> j.phone, user |-> j.user, purpose |-> j.purpose, created |-> j.at,
                     attempts |-> 0, used |-> FALSE]
             text(c) == [id |-> c, phone |-> j.phone, user |-> j.user, purpose |-> j.purpose, at |-> j.at]
  <1>1. PICK n \in Nat : GivenOut(n)
    BY DEF CodesInv
  <1>2. n + 1 = C!NextId
    BY <1>1, SentCount DEF C!NextId, GivenOut
  <1>3. /\ CodesTyped /\ n \in Nat /\ n + 1 \in C!Ids /\ j \in Work /\ at[s] = "sending" /\ Asking(j) /\ None \notin C!Codes
    <2>1. at[s] = "sending" /\ C!NextId <= plan.codes
      BY DEF C!Save
    <2>2. plan.codes \in 0..MaxCodes /\ MaxCodes \in Nat /\ CodesTyped
      BY CodesFacts DEF CodesInv
    <2>3. n + 1 \in C!Ids
      BY <1>1, <1>2, <2>1, <2>2 DEF C!Ids
    <2>4. Asking(j) /\ j \in Work
      BY <2>1, <2>2 DEF CodesInv, CodesTyped
    <2> QED
      BY <2>1, <2>2, <2>3, <2>4 DEF C!Constants
  <1>4. /\ code' = [c \in C!Ids |->
                      IF c = n + 1 THEN new
                      ELSE IF c \in C!Locked THEN code[c]
                      ELSE C!PurgeStale(C!VoidActive(c, j.phone, j.purpose), j.at)]
        /\ sent' = sent \cup {text(n + 1)} /\ C!End(s) /\ UNCHANGED <<plan, clock, number, wrong, right>>
    BY <1>2 DEF C!Save
  <1>5. /\ at' \in [Slots -> {"idle", "sending", "wrong", "accepted"}] /\ errand' \in [Slots -> Work]
        /\ at'[s] = "idle" /\ ~Judging(s)'
        /\ \A t \in Slots \ {s} : at'[t] = at[t] /\ errand'[t] = errand[t] /\ (Judging(t)' <=> Judging(t))
        /\ C!Locked' = C!Locked /\ OneJudge'
    BY <1>3, <1>4, Released DEF Judging
  <1>6. new \in C!Codes
    BY <1>3, CodesFacts DEF C!Codes, Work, Asking
  <1>7. ASSUME NEW d \in C!Ids, d # n + 1
        PROVE  /\ code'[d] \in C!Codes \cup {None} /\ (d \in C!Locked => code'[d] = code[d])
               /\ code'[d] # None => /\ code[d] # None /\ code'[d].phone = code[d].phone /\ code'[d].user = code[d].user
                                     /\ code'[d].purpose = code[d].purpose /\ code'[d].attempts = code[d].attempts
                                     /\ ~code'[d].used => ~code[d].used
    <2>1. code[d] \in C!Codes \cup {None}
      BY <1>3 DEF CodesTyped
    <2>2. code'[d] = IF d \in C!Locked THEN code[d] ELSE C!PurgeStale(C!VoidActive(d, j.phone, j.purpose), j.at)
      BY <1>4, <1>7
    <2> QED
      BY <1>3, <2>1, <2>2, RowKept
  <1>8. code'[n + 1] = new
    BY <1>3, <1>4
  <1>9. NoneYet(n + 1) /\ n + 1 \notin C!Locked
    <2>1. NoneYet(n + 1)
      BY <1>1, <1>3 DEF GivenOut
    <2> QED
      BY <2>1, LockedIs DEF NoneYet, CodesInv, Judged
  <1>10. CodesTyped'
    <2>1. \A d \in C!Ids : code'[d] \in C!Codes \cup {None}
      BY <1>6, <1>7, <1>8
    <2>2. code' = [d \in C!Ids |-> code'[d]]
      BY <1>4
    <2>3. code' \in [C!Ids -> C!Codes \cup {None}]
      BY <2>1, <2>2
    <2> QED
      BY <1>3, <1>4, <1>5, <2>3 DEF CodesTyped
  <1>11. GivenOut(n + 1)'
    <2>1. text(n + 1) \notin sent
      BY <1>1, <1>3 DEF GivenOut
    <2>2. IsFiniteSet(sent') /\ Cardinality(sent') = n + 1
      BY <1>1, <1>4, <2>1, FS_AddElement DEF GivenOut
    <2>3. n + 1 \in 0..MaxCodes
      BY <1>3, CodesFacts DEF C!Ids
    <2>4. \A x \in sent' : x.id \in 1..(n + 1)
      BY <1>1, <1>3, <1>4 DEF GivenOut
    <2>5. ASSUME NEW d \in C!Ids, d > n + 1 PROVE NoneYet(d)'
      <3>1. NoneYet(d) /\ d # n + 1
        BY <1>1, <1>3, <2>5 DEF GivenOut, C!Ids
      <3> QED
        BY <1>4, <1>7, <3>1 DEF NoneYet
    <2>6. ASSUME NEW d \in C!Ids, code'[d] # None PROVE SentAs(d, code[d])'
      <3>1. CASE d = n + 1
        <4>1. /\ text(n + 1).id = n + 1 /\ text(n + 1).phone = new.phone
              /\ text(n + 1).user = new.user /\ text(n + 1).purpose = new.purpose
          OBVIOUS
        <4>2. text(n + 1) \in sent' /\ code'[d] = new
          BY <1>4, <1>8, <3>1
        <4> HIDE DEF text, new
        <4> QED
          BY <3>1, <4>1, <4>2 DEF SentAs
      <3>2. CASE d # n + 1
        <4>1. SentAs(d, code[d])
          BY <1>1, <1>7, <2>6, <3>2 DEF GivenOut
        <4> QED
          BY <1>4, <1>7, <2>6, <3>2, <4>1 DEF SentAs
      <3> QED
        BY <3>1, <3>2
    <2> QED
      BY <2>2, <2>3, <2>4, <2>5, <2>6 DEF GivenOut
  <1>12. ASSUME NEW t \in Slots PROVE (at'[t] = "sending" => Asking(errand'[t])) /\ Judged(t)' /\ Counting(t)'
    <2>1. CASE t = s
      BY <1>5, <2>1 DEF Judged, Counting, Judging
    <2>2. CASE t # s
      <3>1. at'[t] = at[t] /\ errand'[t] = errand[t] /\ (Judging(t)' <=> Judging(t))
        BY <1>5, <2>2
      <3>2. (at[t] = "sending" => Asking(errand[t])) /\ Judged(t) /\ Counting(t)
        BY DEF CodesInv
      <3>3. Judging(t) => errand[t].code \in C!Ids /\ errand[t].code \in C!Locked /\ errand[t].code # n + 1
        BY <1>9, <3>2, LockedIs DEF Judged
      <3>4. Judging(t) => code'[errand[t].code] = code[errand[t].code]
        BY <1>7, <3>3
      <3>5. Judged(t)'
        BY <3>1, <3>2, <3>3, <3>4 DEF Judged
      <3>6. Counting(t)'
        BY <1>4, <3>1, <3>2 DEF Counting
      <3> QED
        BY <3>1, <3>2, <3>5, <3>6
    <2> QED
      BY <2>1, <2>2
  <1>13. ASSUME NEW d \in C!Ids PROVE Tallied(d)'
    <2>1. Tallied(d)
      BY DEF CodesInv
    <2>2. CASE d = n + 1
      BY <1>4, <1>8, <1>9, <2>1, <2>2 DEF Tallied, NoneYet
    <2>3. CASE d # n + 1
      BY <1>4, <1>5, <1>7, <2>1, <2>3 DEF Tallied
    <2> QED
      BY <2>2, <2>3
  <1>14. \A u \in Users : Proven(u)'
    BY <1>4, <1>5, StillProven
  <1> QED
    BY <1>5, <1>10, <1>11, <1>12, <1>13, <1>14, <1>3 DEF CodesInv

LEMMA SentIds == C!Constants /\ CodesInv => \A x \in sent : x.id \in C!Ids
  <1> SUFFICES ASSUME C!Constants, CodesInv, NEW x \in sent PROVE x.id \in C!Ids
    OBVIOUS
  <1>1. PICK n \in Nat : GivenOut(n)
    BY DEF CodesInv
  <1>2. x.id \in 1..n /\ n \in 0..MaxCodes /\ MaxCodes \in Nat
    BY <1>1 DEF GivenOut, C!Constants
  <1> QED
    BY <1>2 DEF C!Ids

(* A code is judged: its row is locked until the request ends. *)
LEMMA ConsumeStep ==
    ASSUME C!Constants, CodesInv, NEW s \in Slots, NEW op \in {"verify", "signup", "confirm"}, NEW p \in Numbers,
           NEW u \in Users \cup {None}, NEW purpose \in C!Purposes, NEW good \in BOOLEAN,
           op = "signup" => purpose = "sign_in" /\ u \in Users,
           op = "confirm" => purpose = "phone_change" /\ u \in Users,
           C!Consume(s, op, p, u, purpose, good)
    PROVE  CodesInv'
  <1> DEFINE mine == {d \in C!Of(p) : code[d].purpose = purpose}
             c == C!Latest(mine)
             w == [C!NoJob EXCEPT !.op = op, !.phone = p, !.user = u, !.purpose = purpose,
                                  !.code = c, !.attempts = code[c].attempts]
             next == IF good THEN "accepted" ELSE "wrong"
  <1>1. /\ at[s] = "idle" /\ mine # {} /\ c \notin C!Locked /\ C!Active(c) /\ code[c].attempts < MaxAttempts
        /\ at' = [at EXCEPT ![s] = next] /\ errand' = [errand EXCEPT ![s] = w]
        /\ IF good THEN right' = [right EXCEPT ![c] = @ + 1] /\ UNCHANGED wrong
           ELSE wrong' = [wrong EXCEPT ![c] = @ + 1] /\ UNCHANGED right
        /\ UNCHANGED <<plan, clock, number, code, sent>>
    BY DEF C!Consume, C!Start
  <1>2. c \in mine
    <2>1. mine \subseteq C!Rows /\ CodesTyped
      BY DEF C!Of, CodesInv
    <2> HIDE DEF mine
    <2> QED
      BY <1>1, <2>1, LatestIsOne
  <1>3. /\ CodesTyped /\ c \in C!Ids /\ code[c] \in C!Codes /\ code[c] # None /\ code[c].phone = p /\ code[c].purpose = purpose
        /\ ~code[c].used /\ code[c].attempts \in 0..MaxAttempts /\ MaxAttempts \in Nat /\ MaxCodes \in Nat /\ LastClock \in Nat
    <2>1. c \in C!Ids /\ code[c] # None /\ code[c].phone = p /\ code[c].purpose = purpose
      BY <1>2 DEF C!Of, C!Rows
    <2>2. code[c] \in C!Codes /\ CodesTyped /\ MaxAttempts \in Nat /\ MaxCodes \in Nat /\ LastClock \in Nat
      BY <2>1, CodesFacts DEF CodesInv
    <2> HIDE DEF c
    <2>3. code[c].attempts \in 0..MaxAttempts
      BY <2>2 DEF C!Codes
    <2> QED
      BY <1>1, <2>1, <2>2, <2>3 DEF C!Active
  <1> HIDE DEF c, mine
  <1>4. w = [op |-> op, phone |-> p, user |-> u, purpose |-> purpose, at |-> 0, code |-> c, attempts |-> code[c].attempts]
    <2> DEFINE w1 == [C!NoJob EXCEPT !.op = op]
               w2 == [w1 EXCEPT !.phone = p]
               w3 == [w2 EXCEPT !.user = u]
               w4 == [w3 EXCEPT !.purpose = purpose]
               w5 == [w4 EXCEPT !.code = c]
               w6 == [w5 EXCEPT !.attempts = code[c].attempts]
    <2>1. w1 = [op |-> op, phone |-> None, user |-> None, purpose |-> None, at |-> 0, code |-> 0, attempts |-> 0]
      BY DEF C!NoJob
    <2> HIDE DEF w1
    <2>2. w2 = [op |-> op, phone |-> p, user |-> None, purpose |-> None, at |-> 0, code |-> 0, attempts |-> 0]
      BY <2>1
    <2> HIDE DEF w2
    <2>3. w3 = [op |-> op, phone |-> p, user |-> u, purpose |-> None, at |-> 0, code |-> 0, attempts |-> 0]
      BY <2>2
    <2> HIDE DEF w3
    <2>4. w4 = [op |-> op, phone |-> p, user |-> u, purpose |-> purpose, at |-> 0, code |-> 0, attempts |-> 0]
      BY <2>3
    <2> HIDE DEF w4
    <2>5. w5 = [op |-> op, phone |-> p, user |-> u, purpose |-> purpose, at |-> 0, code |-> c, attempts |-> 0]
      BY <2>4
    <2> HIDE DEF w5
    <2>6. w6 = [op |-> op, phone |-> p, user |-> u, purpose |-> purpose, at |-> 0, code |-> c, attempts |-> code[c].attempts]
      BY <2>5
    <2> QED
      BY <2>6, Zenon DEF w1, w2, w3, w4, w5
  <1> HIDE DEF w
  <1>5. w \in Work /\ AsRead(w, code[c]) /\ w.code = c /\ w.attempts = code[c].attempts
    <2>1. 0 \in 0..LastClock /\ c \in 0..MaxCodes
      BY <1>3 DEF C!Ids
    <2>2. w \in Work
      BY <1>3, <1>4, <2>1 DEF Work
    <2> QED
      BY <1>1, <1>3, <1>4, <2>2 DEF AsRead
  <1>6. /\ at' \in [Slots -> {"idle", "sending", "wrong", "accepted"}] /\ errand' \in [Slots -> Work]
        /\ at'[s] = next /\ errand'[s] = w /\ ~Judging(s) /\ Judging(s)'
        /\ \A t \in Slots \ {s} : at'[t] = at[t] /\ errand'[t] = errand[t] /\ (Judging(t)' <=> Judging(t))
    <2>1. next \in {"wrong", "accepted"}
      OBVIOUS
    <2> HIDE DEF next
    <2> QED
      BY <1>1, <1>3, <1>5, <2>1 DEF CodesTyped, Judging
  <1>7. C!Locked' = C!Locked \cup {c}
    <2>1. \A d : d \in C!Locked' <=> \E t \in Slots : Judging(t)' /\ errand'[t].code = d
      BY DEF C!Locked, Judging
    <2>2. \A d : d \in C!Locked' <=> d = c \/ d \in C!Locked
      BY <1>5, <1>6, <2>1, LockedIs
    <2> QED
      BY <2>2
  <1>8. wrong[c] = code[c].attempts /\ right[c] = 0
    BY <1>1, <1>3 DEF CodesInv, Tallied
  <1>9. /\ wrong' \in [C!Ids -> Nat] /\ right' \in [C!Ids -> Nat]
        /\ wrong'[c] = IF good THEN wrong[c] ELSE wrong[c] + 1
        /\ right'[c] = IF good THEN 1 ELSE 0
        /\ \A d \in C!Ids \ {c} : wrong'[d] = wrong[d] /\ right'[d] = right[d]
    <2>1. CASE good
      BY <1>1, <1>3, <1>8, <2>1 DEF CodesTyped
    <2>2. CASE ~good
      BY <1>1, <1>3, <1>8, <2>2 DEF CodesTyped
    <2> QED
      BY <2>1, <2>2
  <1>10. CodesTyped'
    BY <1>1, <1>3, <1>6, <1>9 DEF CodesTyped
  <1>11. ASSUME NEW n \in Nat, GivenOut(n) PROVE GivenOut(n)'
    <2>1. c <= n
      BY <1>3, <1>11 DEF GivenOut, NoneYet, C!Ids
    <2>2. \A d \in C!Ids : d > n => NoneYet(d)'
      BY <1>1, <1>9, <1>11, <2>1 DEF GivenOut, NoneYet, C!Ids
    <2>3. \A d \in C!Ids : code[d] # None => SentAs(d, code[d])'
      BY <1>1, <1>11 DEF GivenOut, SentAs
    <2> QED
      BY <1>1, <1>11, <2>2, <2>3 DEF GivenOut
  <1>12. \A t \in Slots \ {s} : Judging(t) => errand[t].code \in C!Ids \ {c}
    BY <1>1, LockedIs DEF CodesInv, Judged
  <1>13. OneJudge'
    BY <1>5, <1>6, <1>12 DEF CodesInv, OneJudge
  <1>14. ASSUME NEW t \in Slots PROVE (at'[t] = "sending" => Asking(errand'[t])) /\ Judged(t)' /\ Counting(t)'
    <2>1. CASE t = s
      <3>1. at'[s] # "sending" /\ (at'[s] = "wrong" => ~good) /\ (at'[s] = "accepted" => good)
        BY <1>6
      <3>2. Judged(s)'
        BY <1>1, <1>3, <1>5, <1>6 DEF Judged
      <3>3. Counting(s)'
        BY <1>5, <1>6, <1>8, <1>9, <3>1 DEF Counting
      <3> QED
        BY <2>1, <3>1, <3>2, <3>3
    <2>2. CASE t # s
      <3>1. at'[t] = at[t] /\ errand'[t] = errand[t] /\ (Judging(t)' <=> Judging(t))
        BY <1>6, <2>2
      <3>2. (at[t] = "sending" => Asking(errand[t])) /\ Judged(t) /\ Counting(t)
        BY DEF CodesInv
      <3>3. Judged(t)'
        BY <1>1, <3>1, <3>2 DEF Judged
      <3>4. Counting(t)'
        BY <1>9, <1>12, <2>2, <3>1, <3>2 DEF Counting, Judging
      <3> QED
        BY <3>1, <3>2, <3>3, <3>4
    <2> QED
      BY <2>1, <2>2
  <1>15. ASSUME NEW d \in C!Ids PROVE Tallied(d)'
    <2>1. CASE d = c
      <3>1. wrong'[c] <= MaxAttempts /\ right'[c] <= 1
        <4>1. CASE good
          BY <1>1, <1>3, <1>8, <1>9, <4>1
        <4>2. CASE ~good
          BY <1>1, <1>3, <1>8, <1>9, <4>2
        <4> QED
          BY <4>1, <4>2
      <3> QED
        BY <1>7, <2>1, <3>1 DEF Tallied
    <2>2. CASE d # c
      <3>1. Tallied(d) /\ (d \in C!Locked' <=> d \in C!Locked)
        BY <1>7, <2>2 DEF CodesInv
      <3> QED
        BY <1>1, <1>9, <2>2, <3>1 DEF Tallied
    <2> QED
      BY <2>1, <2>2
  <1>16. ASSUME NEW a \in Users PROVE Proven(a)'
    <2>1. ASSUME NEW x \in sent, right[x.id] = 1, x.id \notin C!Locked
          PROVE  x \in sent' /\ right'[x.id] = 1 /\ x.id \notin C!Locked'
      <3>1. x.id \in C!Ids /\ x.id # c
        BY <1>8, <2>1, SentIds
      <3> QED
        BY <1>1, <1>7, <1>9, <2>1, <3>1
    <2> QED
      BY <1>1, <2>1, StillProven
  <1> QED
    BY <1>6, <1>10, <1>11, <1>13, <1>14, <1>15, <1>16 DEF CodesInv

(* A request that judged a code good ends. *)
LEMMA VerifyStep ==
    ASSUME C!Constants, CodesInv, NEW s \in Slots, C!VerifyOtp(s) \/ C!VerifySignupOtp(s) \/ C!ConfirmPhoneChange(s)
    PROVE  CodesInv'
  <1> DEFINE w == errand[s]
             c == errand[s].code
  <1>1. at[s] = "accepted" /\ Judging(s)
    BY DEF C!VerifyOtp, C!VerifySignupOtp, C!ConfirmPhoneChange, Judging
  <1>2. /\ AsRead(w, code[c]) /\ w.phone \in Numbers /\ number \in [Users -> Numbers \cup {None}]
    <2>1. c \in C!Ids /\ code[c] \in C!Codes /\ AsRead(w, code[c])
      BY <1>1, JudgedRow
    <2>2. code[c].phone \in Numbers
      BY <2>1 DEF C!Codes
    <2> QED
      BY <2>1, <2>2 DEF CodesInv, CodesTyped, AsRead
  <1>3. CASE C!Commit(s, number)
    BY <1>1, <1>2, <1>3, CommitStep
  <1>4. CASE w.op = "signup" /\ code[c].user = None /\ C!Commit(s, [number EXCEPT ![w.user] = w.phone])
    <2> DEFINE later == [number EXCEPT ![w.user] = w.phone]
    <2>1. w.user \in Users /\ code[c].purpose = "sign_in"
      BY <1>2, <1>4 DEF AsRead
    <2>2. later \in [Users -> Numbers \cup {None}] /\ later[w.user] = w.phone /\ \A u \in Users : u # w.user => later[u] = number[u]
      BY <1>2, <2>1
    <2> HIDE DEF later
    <2>3. \A u \in Users : \/ later[u] = number[u]
                           \/ /\ later[u] = w.phone
                              /\ <<code[c].user, code[c].purpose>> \in {<<None, "sign_in">>, <<u, "phone_change">>}
      BY <1>4, <2>1, <2>2
    <2> QED
      BY <1>1, <1>4, <2>2, <2>3, CommitStep DEF later
  <1>5. CASE w.op = "confirm" /\ code[c].user = w.user /\ C!Commit(s, [number EXCEPT ![w.user] = w.phone])
    <2> DEFINE later == [number EXCEPT ![w.user] = w.phone]
    <2>1. w.user \in Users /\ code[c].purpose = "phone_change"
      BY <1>2, <1>5 DEF AsRead
    <2>2. later \in [Users -> Numbers \cup {None}] /\ later[w.user] = w.phone /\ \A u \in Users : u # w.user => later[u] = number[u]
      BY <1>2, <2>1
    <2> HIDE DEF later
    <2>3. \A u \in Users : \/ later[u] = number[u]
                           \/ /\ later[u] = w.phone
                              /\ <<code[c].user, code[c].purpose>> \in {<<None, "sign_in">>, <<u, "phone_change">>}
      BY <1>5, <2>1, <2>2
    <2> QED
      BY <1>1, <1>5, <2>2, <2>3, CommitStep DEF later
  <1> QED
    BY <1>3, <1>4, <1>5 DEF C!VerifyOtp, C!VerifySignupOtp, C!ConfirmPhoneChange

LEMMA NumberTakenStep == ASSUME C!Constants, CodesInv, NEW s \in Slots, C!NumberTaken(s) PROVE CodesInv'
  <1>1. /\ at[s] = "accepted" /\ Judging(s) /\ C!End(s) /\ UNCHANGED <<plan, clock, number, code, sent, wrong>>
        /\ right' = [right EXCEPT ![errand[s].code] = @ - 1]
    BY DEF C!NumberTaken, Judging
  <1>2. PICK d \in C!Ids : d = errand[s].code
    BY <1>1, JudgedRow
  <1>3. /\ code[d] \in C!Codes /\ AsRead(errand[s], code[d]) /\ code[d].attempts \in Nat /\ MaxAttempts \in Nat
        /\ d \in C!Locked /\ CodesTyped
    BY <1>1, <1>2, JudgedRow DEF CodesInv
  <1>4. wrong[d] = errand[s].attempts /\ right[d] = 1
    BY <1>1, <1>2 DEF CodesInv, Counting
  <1>5. right' \in [C!Ids -> Nat] /\ right'[d] = 0 /\ \A e \in C!Ids \ {d} : right'[e] = right[e]
    BY <1>1, <1>2, <1>3, <1>4 DEF CodesTyped
  <1>6. Tallied(d)'
    <2>1. wrong[d] = code[d].attempts /\ wrong[d] <= MaxAttempts
      BY <1>3, <1>4 DEF AsRead
    <2> QED
      BY <1>1, <1>5, <2>1 DEF Tallied
  <1>7. code' = [code EXCEPT ![d] = code[d]]
    BY <1>1, <1>3 DEF CodesTyped
  <1>8. number' \in [Users -> Numbers \cup {None}]
    BY <1>1, <1>3 DEF CodesTyped
  <1>9. ASSUME NEW u \in Users PROVE Proven(u)'
    <2>1. C!Locked' \subseteq C!Locked
      BY <1>1, Released
    <2>2. \A x \in sent : x.id \notin C!Locked => right'[x.id] = right[x.id]
      BY <1>3, <1>5, SentIds
    <2> QED
      BY <1>1, <2>1, <2>2, StillProven
  <1> QED
    BY <1>1, <1>2, <1>3, <1>5, <1>6, <1>7, <1>8, <1>9, SettledRow

(* Nothing is erased of a row that is being judged, and no proof is needed *)
(* any more for the number that is given up.                               *)
LEMMA EraseCodes == ASSUME C!Constants, CodesInv, NEW u \in Users, C!EraseForUser(u) PROVE CodesInv'
  <1> DEFINE gone == {c \in C!Rows : code[c].user = u \/ code[c].phone = number[u]}
  <1>1. /\ gone \cap C!Locked = {} /\ code' = [c \in C!Ids |-> IF c \in gone THEN None ELSE code[c]]
        /\ number' = [number EXCEPT ![u] = None] /\ UNCHANGED <<plan, clock, at, errand, sent, wrong, right>>
    BY DEF C!EraseForUser
  <1> HIDE DEF gone
  <1>2. CodesTyped
    BY DEF CodesInv
  <1>3. \A d \in C!Ids : code'[d] = code[d] \/ (code'[d] = None /\ d \in gone)
    BY <1>1
  <1>4. CodesTyped'
    BY <1>1, <1>2 DEF CodesTyped
  <1>5. ASSUME NEW n \in Nat, GivenOut(n) PROVE GivenOut(n)'
    <2>1. \A d \in C!Ids : d > n => NoneYet(d)'
      BY <1>1, <1>3, <1>5 DEF GivenOut, NoneYet
    <2>2. ASSUME NEW d \in C!Ids, code'[d] # None PROVE SentAs(d, code[d])'
      <3>1. code'[d] = code[d] /\ SentAs(d, code[d])
        BY <1>3, <1>5, <2>2 DEF GivenOut
      <3> QED
        BY <1>1, <3>1 DEF SentAs
    <2> QED
      BY <1>1, <1>5, <2>1, <2>2 DEF GivenOut
  <1>6. C!Locked' = C!Locked /\ \A t \in Slots : Judging(t)' <=> Judging(t)
    BY <1>1 DEF C!Locked, Judging
  <1>7. ASSUME NEW t \in Slots PROVE (at'[t] = "sending" => Asking(errand'[t])) /\ Judged(t)' /\ Counting(t)'
    <2>1. (at[t] = "sending" => Asking(errand[t])) /\ Judged(t) /\ Counting(t)
      BY DEF CodesInv
    <2>2. Judging(t) => code'[errand[t].code] = code[errand[t].code]
      BY <1>1, <1>3, <2>1, LockedIs DEF Judged
    <2> QED
      BY <1>1, <1>6, <2>1, <2>2 DEF Judged, Counting
  <1>8. OneJudge'
    BY <1>1, <1>6 DEF CodesInv, OneJudge
  <1>9. \A d \in C!Ids : Tallied(d)'
    BY <1>1, <1>3, <1>6 DEF CodesInv, Tallied
  <1>10. \A a \in Users : Proven(a)'
    <2>1. \A a \in Users : number'[a] = number[a] \/ number'[a] = None
      BY <1>1, <1>2 DEF CodesTyped
    <2> QED
      BY <1>1, <1>6, <2>1, StillProven
  <1> QED
    BY <1>4, <1>5, <1>7, <1>8, <1>9, <1>10 DEF CodesInv

LEMMA CodesNext == C!Constants /\ CodesInv /\ [C!Next]_(C!vars) => CodesInv'
  <1> SUFFICES ASSUME C!Constants, CodesInv, [C!Next]_(C!vars) PROVE CodesInv'
    OBVIOUS
  <1>1. CASE C!Tick \/ UNCHANGED C!vars
    BY <1>1, ClockStep
  <1>2. CASE \E u \in Users : C!EraseForUser(u)
    BY <1>2, EraseCodes
  <1>3. ASSUME NEW s \in Slots, C!Step(s) PROVE CodesInv'
    <2>0. "sign_in" \in C!Purposes /\ "phone_change" \in C!Purposes
      BY DEF C!Purposes
    <2>1. CASE \/ \E p \in Numbers : C!RequestOtp(s, p) \/ C!RequestSignupOtp(s, p)
               \/ \E u \in Users, p \in Numbers : C!RequestPhoneChange(s, u, p)
      BY <2>1, AskStep
    <2>2. CASE C!SendFails(s)
      BY <2>2, SendFailsStep
    <2>3. CASE C!Save(s)
      BY <2>3, SaveStep
    <2>4. CASE \E p \in Numbers, good \in BOOLEAN : C!Consume(s, "verify", p, None, "sign_in", good)
      <3>1. PICK p \in Numbers, good \in BOOLEAN : C!Consume(s, "verify", p, None, "sign_in", good)
        BY <2>4
      <3> QED
        BY <2>0, <3>1, ConsumeStep
    <2>5. CASE \E p \in Numbers, good \in BOOLEAN, u \in Users :
                   number[u] = None /\ C!Consume(s, "signup", p, u, "sign_in", good)
      <3>1. PICK p \in Numbers, good \in BOOLEAN, u \in Users : C!Consume(s, "signup", p, u, "sign_in", good)
        BY <2>5
      <3> QED
        BY <2>0, <3>1, ConsumeStep
    <2>6. CASE \E p \in Numbers, good \in BOOLEAN, u \in Users :
                   C!MayMoveTo(u, p) /\ C!Consume(s, "confirm", p, u, "phone_change", good)
      <3>1. PICK p \in Numbers, good \in BOOLEAN, u \in Users : C!Consume(s, "confirm", p, u, "phone_change", good)
        BY <2>6
      <3> QED
        BY <2>0, <3>1, ConsumeStep
    <2>7. CASE C!CountGuess(s)
      BY <2>7, CountGuessStep
    <2>8. CASE C!VerifyOtp(s) \/ C!VerifySignupOtp(s) \/ C!ConfirmPhoneChange(s)
      BY <2>8, VerifyStep
    <2>9. CASE C!NumberTaken(s)
      BY <2>9, NumberTakenStep
    <2> QED
      BY <1>3, <2>1, <2>2, <2>3, <2>4, <2>5, <2>6, <2>7, <2>8, <2>9 DEF C!Step
  <1> QED
    BY <1>1, <1>2, <1>3 DEF C!Next

(* The row of a code that is judged stays as it was read until the request *)
(* ends, its attempts are the wrong guesses, and a number that changed     *)
(* hands was proven: for any requests at once, any numbers and any limits. *)
THEOREM CodesInvariant == ASSUME C!Constants PROVE C!Spec => []CodesInv
  BY CodesInit, CodesNext, PTL DEF C!Spec

LEMMA CodesShow ==
    ASSUME C!Constants, CodesInv
    PROVE  C!TypeOK /\ C!GuessesBounded /\ C!NumbersProven
  <1>1. C!TypeOK
    BY SentIds, CodesFacts DEF CodesInv, CodesTyped, C!TypeOK
  <1>2. C!GuessesBounded
    BY DEF CodesInv, Tallied, C!GuessesBounded
  <1>3. C!NumbersProven
    BY DEF CodesInv, Proven, Proves, C!NumbersProven
  <1> QED
    BY <1>1, <1>2, <1>3

(* Whichever part is exercised, its invariant holds. *)
SignInInv == /\ part = "codes" => CodesInv
             /\ part = "sessions" => SessionsInv

(* Guesses at a code stay within their bound, a code is used once and a    *)
(* number is only taken over by who was sent a code on it; what a logout    *)
(* reaches, at most MaxChain rotations back, and what was rotated away      *)
(* refreshes no more, and tabs rotate together within the grace: with any   *)
(* limits, times and numbers.                                               *)
THEOREM SignInStands ==
    ASSUME C!Constants, S!Constants
    PROVE  MCSpec => []SignInHolds
  <1>1. MCInit => SignInInv
    BY CodesInit, SessionsInit DEF MCInit, SignInInv
  <1>2. SignInInv /\ [MCNext]_allvars => SignInInv'
    <2> SUFFICES ASSUME SignInInv, [MCNext]_allvars PROVE SignInInv'
      OBVIOUS
    <2>1. part' = part
      BY DEF MCNext, allvars
    <2>2. part = "codes" => [C!Next]_(C!vars)
      BY DEF MCNext, allvars, cvars, C!vars
    <2>3. part = "sessions" => [S!Next]_(S!vars)
      BY DEF MCNext, allvars, svars, S!vars
    <2> QED
      BY <2>1, <2>2, <2>3, CodesNext, SessionsNext DEF SignInInv
  <1>3. SignInInv => SignInHolds
    BY CodesShow, SessionsShow DEF SignInInv, SignInHolds
  <1> QED
    BY <1>1, <1>2, <1>3, PTL DEF MCSpec

================================================================================
