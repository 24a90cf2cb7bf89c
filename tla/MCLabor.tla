-------------------------------- MODULE MCLabor --------------------------------
(***************************************************************************)
(* The parts of labor, checked side by side: a behaviour exercises one of  *)
(* them.  Attendance rests while another part is exercised, and what else   *)
(* is not exercised is None throughout.                                    *)
(***************************************************************************)
EXTENDS Attendance, KeyedRowHistory, TLC

CONSTANTS Parts, RosterMixes, Projects, Persons, LaborRoles, Holders, Texts, Users, MaxRows

VARIABLES
    part, row, at,
    plan, errand, sites, roles, members, profile, clock,  \* LaborRoster
    attended, change, base,                               \* LaborPay
    ids, req                                              \* KeyedRow

--------------------------------------------------------------------------------
(* Attendance: anna is a worker of two sites, ben of the first. *)
Crew   == {"anna1", "anna2", "ben1"}
SiteOf == [anna1 |-> 1, anna2 |-> 2, ben1 |-> 1]
Behind == [anna1 |-> "anna", anna2 |-> "anna", ben1 |-> "ben"]
Day(shift, hours, over) == [shift |-> shift, hours |-> hours, over |-> over]
Full  == Day("full", 0, FALSE)
Extra == Day("none", 1, FALSE)

Logging  == [ops |-> {"submit", "log", "log acknowledged", "bulk", "bulk acknowledged", "delete", "roster"},
             alone |-> TRUE, crew |-> Crew, room |-> 3, days |-> {Full}]
Deciding == [ops |-> {"submit", "log", "edit", "propose", "decide", "validate", "update", "reject"},
             alone |-> TRUE, crew |-> {"anna1"}, room |-> 2,
             days |-> {Full, Extra, Day("full", 1, FALSE), Day("full", 0, TRUE)}]
Race(does) == [ops |-> {"submit", "validate"} \cup does, alone |-> FALSE, crew |-> {"anna1"}, room |-> 1,
               days |-> {Full, Extra}]

Attending == {Logging, Deciding, Race({"edit", "update", "delete"}), Race({"propose", "decide", "reject"}),
              Race({"edit", "propose"})}

(* The hypothesis of the theorems about attendance. *)
ASSUME AttendanceConstants == Constants

--------------------------------------------------------------------------------
(* LaborRoster: two persons, and those of them who have an account. *)
Mix(does, alone, first, manages, people, rate, till) ==
    [ops |-> does, alone |-> alone, sites |-> first, manages |-> manages,
     people |-> people, rate |-> rate, till |-> till]
Everyday == {
    Mix({"create", "stop", "restart", "open", "list", "rename"}, TRUE, {"A"}, {"A", "B"}, {"x", "y"}, 0, 4),
    Mix({"stop", "restart", "role", "open", "list", "drop role", "directory"}, TRUE, {"A"}, {"A", "B"}, {"x"}, 1, 5),
    Mix({"stop", "restart", "open", "list", "fail", "leave", "rate"}, TRUE, {"A"}, {"A"}, {"x"}, 1, 4),
    Mix({"link", "stop", "restart", "list"}, TRUE, {"A", "B"}, {"A", "B"}, {"x"}, 1, 4),
    Mix({"open", "list", "stop", "restart", "rename"}, FALSE, {"A"}, {"A", "B"}, {"x", "y"}, 1, 4) }
Linking == {Mix({"list", "open", "link", "rename"}, TRUE, {"A", "B"}, {"A", "B", "C"}, {"x", "y"}, 1, 6)}
Adding  == {Mix({"create", "open"}, FALSE, {"A"}, {"A", "B"}, {"y"}, 0, 3)}

R == INSTANCE LaborRoster WITH
         Roles <- LaborRoles, Mixes <- RosterMixes, mix <- plan, pc <- at, job <- errand

(* The hypothesis of the theorems about the roster. *)
ASSUME RosterConstants == R!Constants

--------------------------------------------------------------------------------
(* LaborPay: months of two days, a half day of an odd rate. *)
Attended(shift, hours, override) == [shift |-> shift, hours |-> hours, override |-> override]

P == INSTANCE LaborPay WITH
         LastDay <- 4, MonthLength <- 2, Bases <- {3, 5}, Changes <- {5}, ChangeDays <- {2, 3},
         Given <- {Attended("half", 4, None), Attended("overtime", 0, 7), Attended(None, 9, None)},
         entry <- attended

K == INSTANCE KeyedRow WITH pc <- at

(* The hypothesis of the theorems about keyed rows. *)
ASSUME KeyedRowConstants == K!Constants

avars   == vars
rvars   == <<plan, errand, sites, roles, members, profile, clock>>
pvars   == <<attended, change, base>>
kvars   == <<ids, req, cleared, failed>>
allvars == <<part, row, at, avars, rvars, pvars, kvars>>

--------------------------------------------------------------------------------
MCInit ==
    /\ part \in Parts
    /\ Init /\ (part # "attendance" => mix = Logging)
    /\ CASE part = "attendance" -> row = None /\ at = None
         [] part = "roster"     -> R!Init
         [] part = "pay"        -> P!Init /\ row = None /\ at = None
         [] part = "row"        -> K!Init
    /\ part # "roster" =>
           /\ plan = None /\ errand = None /\ sites = None /\ roles = None /\ members = None
           /\ profile = None /\ clock = None
    /\ part # "pay" => attended = None /\ change = None /\ base = None
    /\ part # "row" => ids = None /\ req = None /\ cleared = {} /\ failed = {}

MCNext ==
    /\ UNCHANGED part
    /\ \/ part = "attendance" /\ Next /\ UNCHANGED <<row, at, rvars, pvars, kvars>>
       \/ part = "roster" /\ R!Next /\ UNCHANGED <<avars, pvars, kvars>>
       \/ part = "pay" /\ P!Next /\ UNCHANGED <<row, at, avars, rvars, kvars>>
       \/ part = "row" /\ K!Next /\ UNCHANGED <<avars, rvars, pvars>>

MCSpec == MCInit /\ [][MCNext]_allvars

Symmetry == Permutations(Slots) \cup Permutations(Texts) \cup Permutations(Users)

--------------------------------------------------------------------------------
(* The sites of a company have one crew: each person once on each site,     *)
(* and nobody listed on one, or known by a name there, and not on others.   *)
OneCrew == part = "roster" => R!TypeOK /\ R!OneRowPerSite /\ R!ListedEverywhere /\ R!SitesAgree

(* Who was stopped everywhere stays stopped until somebody restarts them.  *)
StopHolds == [][part = "roster" /\ R!Alone => R!StayStopped]_allvars

(* "a second worker would pay their days twice", and a new site "starts     *)
(* with everyone": violated, and in no run.                                *)
NeverTwice        == part = "roster" => R!NeverTwice
NewSiteStartsFull == [][part = "roster" /\ R!Reliable => R!FilledUp]_allvars

(* The summary, the project spend, the list of days and the export, each    *)
(* with roundings and bonus rules of its own, agree to the cent.            *)
SumsAgree == part = "pay" => P!TypeOK /\ P!SummaryAddsUp /\ P!SpendIsSalary /\ P!ListAgrees /\ P!PeriodsPrinted

(* A month that is over is not priced again by a later rate.                *)
PastIsSettled == [][part = "pay" => P!PastSettled]_allvars
================================================================================
