------------------------------- MODULE LaborRoster -------------------------------
(***************************************************************************)
(* The workers of one company: a row per person and project, copied so     *)
(* that every project lists the company's whole crew.                      *)
(*                                                                         *)
(* Copying, stopping and restarting on other sites and the change of a     *)
(* role there each run under the company's advisory lock, in a transaction *)
(* of their own, after the request's first change is committed; when one   *)
(* of them fails the request answers as if it had not.  Creating and       *)
(* editing a row do not take that lock.                                    *)
(***************************************************************************)
EXTENDS Integers, FiniteSets

CONSTANTS
    Projects, Persons,
    Holders,      \* the persons with an account; an account is named by its person
    Roles,        \* labor roles of the company
    Slots,        \* requests served at the same time
    Mixes,        \* what a behaviour exercises: its operations, whether requests come one
                  \* after another, the persons they are about, the first sites and those the
                  \* callers manage, the directory's rate (0 for an empty one), the last edit
    None

VARIABLES
    sites,      \* projects of the company
    roles,      \* labor_roles
    members,    \* accounts with access to the company
    profile,    \* company_persons: listed or not, default rate and role
    row,        \* workers by project, person and number; two only by a race
    clock,      \* time of the last edit of a row
    pc, job,    \* per slot: the next step, and the request it serves
    mix         \* what this behaviour exercises

vars == <<sites, roles, members, profile, row, clock, pc, job, mix>>

--------------------------------------------------------------------------------
(* Rows *)

Keys  == Projects \X Persons \X {1, 2}
Rates == {1, 2}                  \* base rate and timeline of a row, as one value
RowsUntil(t) == [active : BOOLEAN, pay : Rates, role : Roles \cup {None},
                 user : Holders \cup {None}, at : 1..t]
Rows  == RowsUntil(mix.till)

(* What the theorems assume of the constants. *)
Constants ==
    /\ None \notin Projects \cup Roles \cup Holders
    /\ \A m \in Mixes :
           /\ m.alone \in BOOLEAN /\ m.sites \subseteq Projects /\ m.people \subseteq Persons
           /\ m.rate \in {0} \cup Rates /\ m.till \in Nat \ {0}
           /\ None \notin RowsUntil(m.till + 1)

Present      == {k \in Keys : row[k] # None}
OnSite(p)    == {k \in Present : k[1] = p}
RowsOf(x)    == {k \in Present : k[2] = x}
ActiveRows(x) == {k \in RowsOf(x) : row[k].active}
Taken(p, a)  == \E k \in OnSite(p) : row[k].user = a
Stopped(x)   == RowsOf(x) # {} /\ ActiveRows(x) = {}

(* uq_workers_project_user *)
SlotsUnique(r) ==
    \A k, l \in Keys : k # l /\ k[1] = l[1] /\ r[k] # None /\ r[l] # None =>
                       r[k].user = None \/ r[k].user # r[l].user

--------------------------------------------------------------------------------
(* The statements that run under the company's lock *)

AccountOf(x) == IF x \in Holders THEN x ELSE None
FromProfile(x) == [active |-> TRUE, pay |-> profile[x].rate, role |-> profile[x].role,
                   user |-> AccountOf(x), at |-> 1]

(* Mutant: a person stopped everywhere is copied from their last row. *)
SourcesStopped(x) ==
    IF RowsOf(x) = {}
    THEN IF profile[x].listed /\ profile[x].rate > 0 THEN {FromProfile(x)} ELSE {}
    ELSE {row[k] : k \in {a \in RowsOf(x) : \A b \in RowsOf(x) : row[b].at <= row[a].at}}

(* What a person is copied from: the active row edited last, or the        *)
(* directory's profile for someone without a row.                          *)
Sources(x) ==
    IF RowsOf(x) = {}
    THEN IF profile[x].listed /\ profile[x].rate > 0 THEN {FromProfile(x)} ELSE {}
    ELSE {row[k] : k \in {a \in ActiveRows(x) : \A b \in ActiveRows(x) : row[b].at <= row[a].at}}

CopyOf(source, p) ==
    [source EXCEPT !.active = TRUE, !.at = clock + 1,
                   !.role = IF @ \in roles THEN @ ELSE None,
                   !.user = IF Taken(p, @) THEN None ELSE @]

Lacks(p, x) == p \in sites /\ \A n \in {1, 2} : row[<<p, x, n>>] = None

(* The rosters the copy of some persons to some sites can lead to.         *)
Copied(ps, xs) ==
    LET ready == {x \in xs : Sources(x) # {}}
        picks == {f \in [ready -> UNION {Sources(x) : x \in ready}] : \A x \in ready : f[x] \in Sources(x)}
    IN  {[k \in Keys |-> IF k[1] \in ps /\ k[2] \in ready /\ k[3] = 1 /\ Lacks(k[1], k[2])
                         THEN CopyOf(f[k[2]], k[1])
                         ELSE row[k]] : f \in picks}

Tick == clock < mix.till /\ clock' = clock + 1

(* The copy; two new rows of one account on a site fail it as a whole.     *)
Enroll(ps, xs) ==
    \E new \in Copied(ps, xs) :
        IF new = row \/ ~SlotsUnique(new)
        THEN UNCHANGED <<row, clock>>
        ELSE row' = new /\ Tick

Relinked(k) ==
    LET x == k[2] IN
    IF row[k].user = None /\ x \in Holders \cap members /\ ~Taken(k[1], x) THEN x ELSE row[k].user

SetActive(x, ps, on) ==
    LET hit == {k \in RowsOf(x) : k[1] \in ps /\ row[k].active # on}
        new == [k \in Keys |-> IF k \in hit
                               THEN [row[k] EXCEPT !.active = on, !.at = clock + 1,
                                                   !.user = IF on THEN Relinked(k) ELSE @]
                               ELSE row[k]]
    IN  IF hit = {} \/ ~SlotsUnique(new) THEN UNCHANGED <<row, clock>> ELSE row' = new /\ Tick

SetRole(x, ps, r) ==
    LET hit == {k \in RowsOf(x) : k[1] \in ps /\ row[k].role # r}
    IN  /\ r \in roles \cup {None}
        /\ IF hit = {}
           THEN UNCHANGED <<row, clock>>
           ELSE /\ row' = [k \in Keys |-> IF k \in hit THEN [row[k] EXCEPT !.role = r, !.at = clock + 1]
                                          ELSE row[k]]
                /\ Tick
        /\ profile' = [profile EXCEPT ![x].role = r]

--------------------------------------------------------------------------------
(* Requests *)

Alone == mix.alone                   \* requests come one after another
NoJob == [op |-> "none", key |-> None, new |-> None, reach |-> {}]

Goto(s, step) == pc' = [pc EXCEPT ![s] = step]
End(s) == Goto(s, "idle") /\ job' = [job EXCEPT ![s] = NoJob]
Rest == UNCHANGED <<sites, roles, members, profile, mix>>
Same == Rest /\ UNCHANGED <<row, clock>>
Quiet == \A s \in Slots : pc[s] = "idle"

CanServe(s, op) == op \in mix.ops /\ pc[s] = "idle" /\ (Alone => Quiet)

Serve(s, op, step, k, new) ==
    /\ CanServe(s, op)
    /\ Goto(s, step)
    /\ job' = [job EXCEPT ![s] = [op |-> op, key |-> k, new |-> new, reach |-> {}]]

(* POST: the person is in the directory or new to it, and has no row on    *)
(* the project by now.                                                     *)
Create(s, p, x, rate, r) ==
    /\ p \in sites \cap mix.manages /\ r \in roles \cup {None}
    /\ profile[x].listed \/ profile[x].rate = 0
    /\ Lacks(p, x)
    /\ ~Taken(p, AccountOf(x)) \/ x \notin Holders
    /\ LET pay == IF rate > 0 THEN rate ELSE profile[x].rate
       IN  /\ pay > 0
           /\ Serve(s, "create", "insert", <<p, x, 1>>,
                    [active |-> TRUE, pay |-> pay, role |-> IF r = None THEN profile[x].role ELSE r,
                     user |-> AccountOf(x), at |-> 1])
    /\ profile' = [profile EXCEPT ![x].listed = TRUE]
    /\ UNCHANGED <<sites, roles, members, row, clock, mix>>

Insert(s) ==
    /\ pc[s] = "insert"
    /\ LET at  == job[s].key
           k   == IF row[at] = None THEN at ELSE <<at[1], at[2], 2>>
           new == [row EXCEPT ![k] = [job[s].new EXCEPT !.at = clock + 1]]
       IN  IF SlotsUnique(new) /\ job[s].new.role \in roles \cup {None}
           THEN row' = new /\ Tick /\ Goto(s, "copy") /\ UNCHANGED job
           ELSE End(s) /\ UNCHANGED <<row, clock>>
    /\ Rest

(* PUT: the row is read, changed on the copy and written back; what        *)
(* follows on the other sites depends on the request.                      *)
Read(s, op, k, new) ==
    /\ k \in Present /\ k[1] \in mix.manages
    /\ Serve(s, op, "write", k, new)
    /\ Same

Rename(s, k) == Read(s, "rename", k, row[k])
Restart(s, k) ==
    Read(s, "restart", k, [row[k] EXCEPT !.active = TRUE, !.user = IF row[k].active THEN @ ELSE Relinked(k)])
ChangeRole(s, k, r) == r \in roles \cup {None} /\ row[k].role # r /\ Read(s, "role", k, [row[k] EXCEPT !.role = r])
Link(s, k, a) ==
    /\ a # None => a \in members /\ ~Taken(k[1], a)
    /\ Read(s, "link", k, [row[k] EXCEPT !.user = a])

Write(s) ==
    /\ pc[s] = "write"
    /\ LET k   == job[s].key
           new == [row EXCEPT ![k] = [job[s].new EXCEPT !.pay = row[k].pay, !.at = clock + 1]]
       IN  IF SlotsUnique(new) /\ job[s].new.role \in roles \cup {None}
           THEN /\ row' = new /\ Tick
                /\ IF job[s].op \in {"restart", "role"} THEN Goto(s, "reach") /\ UNCHANGED job ELSE End(s)
           ELSE End(s) /\ UNCHANGED <<row, clock>>
    /\ Rest

(* DELETE: the row is stopped and its account freed.                       *)
Stop(s, k) ==
    /\ k \in Present /\ k[1] \in mix.manages
    /\ Serve(s, "stop", "reach", k, None)
    /\ row' = [row EXCEPT ![k].active = FALSE, ![k].user = None, ![k].at = clock + 1]
    /\ Tick
    /\ Rest

(* Mutant: a change stays on the site it was made on. *)
ReachOwn(s) ==
    /\ pc[s] = "reach"
    /\ job' = [job EXCEPT ![s].reach = {job[s].key[1]}]
    /\ Goto(s, "spread")
    /\ Same

(* The sites of the person where the caller manages labor.                 *)
Reach(s) ==
    /\ pc[s] = "reach"
    /\ job' = [job EXCEPT ![s].reach = {k[1] : k \in RowsOf(job[s].key[2])} \cap mix.manages]
    /\ Goto(s, "spread")
    /\ Same

Fails == "fail" \in mix.ops /\ UNCHANGED <<row, clock, profile>>

Spread(s) ==
    /\ pc[s] = "spread"
    /\ LET x == job[s].key[2]
       IN  \/ job[s].op = "stop" /\ SetActive(x, job[s].reach, FALSE) /\ UNCHANGED profile
           \/ job[s].op = "restart" /\ SetActive(x, job[s].reach, TRUE) /\ UNCHANGED profile
           \/ job[s].op = "role" /\ SetRole(x, job[s].reach, job[s].new.role)
           \/ job[s].op = "role" /\ job[s].new.role \notin roles \cup {None} /\ UNCHANGED <<row, clock, profile>>
           \/ Fails
    /\ IF job[s].op = "restart" THEN Goto(s, "copy") /\ UNCHANGED job ELSE End(s)
    /\ UNCHANGED <<sites, roles, members, mix>>

CopyToSites(s) ==
    /\ pc[s] = "copy"
    /\ (Enroll(sites, {job[s].key[2]}) /\ UNCHANGED profile) \/ Fails
    /\ End(s)
    /\ UNCHANGED <<sites, roles, members, mix>>

(* A new project, and the crew copied to it.                               *)
Open(s, p) ==
    /\ p \notin sites
    /\ Serve(s, "open", "fill", <<p, None, 1>>, None)
    /\ sites' = sites \cup {p}
    /\ UNCHANGED <<roles, members, profile, row, clock, mix>>

Fill(s) ==
    /\ pc[s] = "fill"
    /\ (Enroll({job[s].key[1]}, Persons) /\ UNCHANGED profile) \/ Fails
    /\ End(s)
    /\ UNCHANGED <<sites, roles, members, mix>>

(* GET: a project's list picks up who is missing.                          *)
List(s, p) ==
    /\ CanServe(s, "list") /\ p \in sites
    /\ Enroll({p}, Persons)
    /\ UNCHANGED <<sites, roles, members, profile, pc, job, mix>>

--------------------------------------------------------------------------------
(* What other parts of the company change *)

Meanwhile(op) == op \in mix.ops /\ (Alone => Quiet) /\ UNCHANGED <<sites, pc, job, mix>>

SetProfile(x, listed, rate) ==
    /\ Meanwhile("directory")
    /\ profile' = [profile EXCEPT ![x].listed = listed, ![x].rate = rate]
    /\ UNCHANGED <<roles, members, row, clock>>

SetRate(k, rate) ==
    /\ Meanwhile("rate") /\ k \in Present
    /\ row' = [row EXCEPT ![k].pay = rate, ![k].at = clock + 1]
    /\ Tick
    /\ UNCHANGED <<roles, members, profile>>

DropRole(r) ==
    /\ Meanwhile("drop role") /\ r \in roles
    /\ roles' = roles \ {r}
    /\ row' = [k \in Keys |-> IF k \in Present /\ row[k].role = r THEN [row[k] EXCEPT !.role = None] ELSE row[k]]
    /\ profile' = [x \in Persons |-> IF profile[x].role = r THEN [profile[x] EXCEPT !.role = None] ELSE profile[x]]
    /\ UNCHANGED <<members, clock>>

Unlinked(a) == [k \in Keys |-> IF k \in Present /\ row[k].user = a THEN [row[k] EXCEPT !.user = None] ELSE row[k]]

Leave(a) ==
    /\ Meanwhile("leave") /\ a \in members
    /\ members' = members \ {a}
    /\ row' = Unlinked(a)
    /\ profile' = [profile EXCEPT ![a].listed = FALSE]
    /\ UNCHANGED <<roles, clock>>

--------------------------------------------------------------------------------
Init ==
    /\ mix \in Mixes
    /\ sites = mix.sites
    /\ roles = Roles
    /\ members = Holders
    /\ profile = [x \in Persons |-> IF x \in mix.people
                                THEN [listed |-> mix.rate > 0, rate |-> mix.rate, role |-> None]
                                ELSE [listed |-> FALSE, rate |-> 0, role |-> None]]
    /\ row = [k \in Keys |-> None]
    /\ clock = 0
    /\ pc = [s \in Slots |-> "idle"]
    /\ job = [s \in Slots |-> NoJob]

Step(s) ==
    \/ \E p \in Projects, x \in mix.people, rate \in {0} \cup Rates, r \in Roles \cup {None} : Create(s, p, x, rate, r)
    \/ \E k \in Keys : Rename(s, k) \/ Restart(s, k) \/ Stop(s, k)
    \/ \E k \in Present, r \in Roles \cup {None} : ChangeRole(s, k, r)
    \/ \E k \in Present, a \in Holders \cup {None} : Link(s, k, a)
    \/ \E p \in Projects : Open(s, p) \/ List(s, p)
    \/ Insert(s) \/ Write(s) \/ Reach(s) \/ Spread(s) \/ CopyToSites(s) \/ Fill(s)

Next ==
    \/ \E s \in Slots : Step(s)
    \/ \E x \in mix.people, listed \in BOOLEAN, rate \in Rates : SetProfile(x, listed, rate)
    \/ \E k \in Keys, rate \in Rates : SetRate(k, rate)
    \/ \E r \in Roles : DropRole(r)
    \/ \E a \in Holders : Leave(a)

Spec == Init /\ [][Next]_vars

--------------------------------------------------------------------------------
(* Every variable keeps its type. *)
TypeOK ==
    /\ mix \in Mixes /\ sites \subseteq Projects /\ roles \subseteq Roles /\ members \subseteq Holders
    /\ profile \in [Persons -> [listed : BOOLEAN, rate : {0} \cup Rates, role : Roles \cup {None}]]
    /\ row \in [Keys -> Rows \cup {None}]
    /\ clock \in 0..mix.till
    /\ pc \in [Slots -> {"idle", "insert", "write", "reach", "spread", "copy", "fill"}]

(* "One person, one row on a project's roster: a second worker would pay   *)
(* their days twice."  The copies keep to it however requests overlap;     *)
(* rows added by hand only one after another.                              *)
OneRowPerSite ==
    Alone \/ "create" \notin mix.ops => \A p \in Projects, x \in Persons : row[<<p, x, 2>>] = None

(* The same, whatever overlaps: two requests that add one person at the    *)
(* same time both find no row.                                             *)
NeverTwice == \A p \in Projects, x \in Persons : row[<<p, x, 2>>] = None

(* Someone restarts the person, or adds them to one more site by hand.     *)
WantedBack(x) == \E s \in Slots : job[s].op \in {"restart", "create"} /\ job[s].key[2] = x

StayStopped == \A x \in Persons : Stopped(x) /\ ~Stopped(x)' => WantedBack(x)

(* One after another: "a person stopped on every site stays stopped on     *)
(* sites created later until restarted", though copying and listing go on. *)
StopHolds == [][Alone => StayStopped]_vars

Reliable == Alone /\ "fail" \notin mix.ops /\ Projects \subseteq mix.manages
Roster(x) == {k[1] : k \in RowsOf(x)}

(* One after another, as long as no copy fails and no account is linked to *)
(* two persons: whoever was added by hand and works on one site is listed  *)
(* on every site.  (Someone copied from the directory to a new site        *)
(* reaches an old one when its list is next opened.)                       *)
ByHand == mix.rate = 0 /\ "directory" \notin mix.ops
ListedEverywhere ==
    Reliable /\ Quiet /\ ByHand /\ "link" \notin mix.ops => \A x \in Persons : ActiveRows(x) # {} => Roster(x) = sites

(* And without rows added by hand a stop or a restart reaches all sites,   *)
(* and so does a change of role; the rates stay alike.                     *)
SitesAgree ==
    Reliable /\ Quiet /\ mix.ops \cap {"create", "link", "rate"} = {} =>
        \A x \in Persons : \A k, l \in RowsOf(x) :
            row[k].active = row[l].active /\ row[k].role = row[l].role /\ row[k].pay = row[l].pay

FilledUp ==
    \A s \in Slots, p \in Projects, x \in Persons :
        pc[s] = "fill" /\ pc'[s] = "idle" /\ job[s].key[1] = p /\ ActiveRows(x) # {} => RowsOf(x)' \cap OnSite(p)' # {}

(* "A new site starts with everyone", even when no copy fails by accident: *)
(* not when two persons are linked to one account on two sites, for then   *)
(* the copy violates the key of accounts and fails as a whole.             *)
NewSiteStartsFull == [][Reliable => FilledUp]_vars

(* "A worker row never links to someone of another tenant": a row copied   *)
(* from the directory does.                                                *)
LinkedAreMembers == \A k \in Present : row[k].user # None => row[k].user \in members
================================================================================
