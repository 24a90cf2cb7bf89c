------------------------------- MODULE MCPeople -------------------------------
(***************************************************************************)
(* The parts that bring people in, checked side by side: a behaviour       *)
(* exercises one of them.  The permissions and the invitations rest while  *)
(* another part is exercised, and what else is not exercised is None.      *)
(***************************************************************************)
EXTENDS Permissions, InvitationLedger, TLC

CONSTANTS
    Parts,
    DirectoryMixes, Companies, Phones, MaxPersons,                          \* Directory
    Plans, Numbers, Reviewers, Users, LastClock, MaxCodes,                  \* SignInCodes
    MaxAttempts, HourlyMax, GuessBudget, ReviewerHourlyMax, Ttl, Resend, ReviewerResend, Hour, Retention,
    MaxTokens, Horizon, Grace, RefreshLife, MaxChain,                       \* Sessions
    Workers                                                                 \* SmsBudget

VARIABLES
    part,
    ops, account, person, profile, access, closed, promise,                 \* Directory
    plan, clock, number, code, at, errand, sent, wrong, right,              \* SignInCodes
    now, issued, parent, blacklist, rotated, from, cutoff, out,             \* Sessions
    overlap, tick, zset, expiry, adding, admitted, uncounted,               \* SmsBudget
    allowed, member, step, req                                              \* Invitations

--------------------------------------------------------------------------------
Inviting  == {"add", "cancel", "signup", "join", "leave", "erase"}
Lapsing   == {"add", "expire", "signup", "join", "erase"}
Importing == {"add", "signup", "join", "import", "erase"}
Hiring    == {"add", "cancel", "signup", "import", "worker"}
Closing   == {"add", "close", "join", "leave", "expire"}
Merging   == {"join", "leave", "import", "worker", "merge", "signup"}

Everyday  == {Inviting, Lapsing, Importing, Hiring, Closing, Merging}
Reopening == {{"add", "close", "signup"}}

D == INSTANCE Directory WITH Mixes <- DirectoryMixes

(* The hypothesis of the theorem about the directory. *)
ASSUME DirectoryConstants == D!Constants

Mix(does, alone, u1, phones, codes, till) ==
    [ops |-> does, alone |-> alone, holds |-> [u \in Users |-> IF u = "u1" THEN u1 ELSE None],
     phones |-> phones, codes |-> codes, till |-> till]
Guessing  == Mix({"ask", "verify", "erase"}, FALSE, "p1", {"p1"}, 2, 1)
Moving    == Mix({"ask", "move", "signup", "confirm"}, FALSE, "p1", {"p1", "p2"}, 2, 1)
Rivals    == [Mix({"move", "confirm"}, FALSE, "p1", {"p2"}, 2, 1) EXCEPT !.holds["u2"] = "r1"]
Capping   == Mix({"ask", "move", "signup"}, TRUE, None, {"p1"}, 4, 6)
Reviewing == Mix({"ask", "verify"}, TRUE, "r1", {"r1"}, 3, 4)

EverydayPlans == {Guessing, Moving, Rivals, Capping, Reviewing}

C == INSTANCE SignInCodes WITH
         Phones <- Numbers, Horizon <- LastClock, Mixes <- Plans, mix <- plan, pc <- at, job <- errand

S == INSTANCE Sessions

(* The hypotheses of the theorems about sign-in. *)
ASSUME CodeConstants == C!Constants
ASSUME SessionConstants == S!Constants

B == INSTANCE SmsBudget WITH
         ShortWindow <- 2, DayWindow <- 5, MaxShort <- 2, MaxDay <- 3, LastTick <- 9, MaxOpen <- 1,
         Overlaps <- BOOLEAN

V == INSTANCE Invitations WITH Serial <- BOOLEAN

(* The hypothesis of the theorems about invitations. *)
ASSUME InvitationConstants == V!Constants

(* Permissions: two projects; rows that overlap, and every request one after *)
(* the other, until the person becomes an admin or not.                      *)
On(perm, scope) == [perm |-> perm, scope |-> scope]
Deciding(does, one, on, given) == [ops |-> does, alone |-> one, keys |-> on, roles |-> given]
Update == {On("project:update", "p"), On("project:update", "wide")}
Pay    == {On("project:manage_labor", "p"), On("project:view_pay", "wide")}
Turns  == {"set", "remove", "assign", "unassign", "leave", "role", "join"}

Setting     == Deciding({"set"}, FALSE, {On("project:update", "p")}, {})
Withdrawing == Deciding({"set", "remove", "assign", "unassign", "role"}, FALSE,
                        {On("project:update", "p")}, {"member", "manager"})
Demoting    == Deciding(Turns, TRUE, {On("project:update", "p")}, {"member", "manager", "admin"})

EverydayPermissions ==
    {Setting, Withdrawing, Demoting,
     Deciding(Turns, TRUE, Update, {"manager"}), Deciding(Turns, TRUE, Pay, {"member"})}
Lingering == {Deciding({"set", "leave", "join"}, FALSE, {On("project:update", "p")}, {})}

(* The hypothesis of the theorems about permissions. *)
ASSUME PermissionConstants == Constants

dvars == <<ops, account, person, profile, access, closed, promise>>
cvars == <<plan, clock, number, code, at, errand, sent, wrong, right>>
svars == <<now, issued, parent, blacklist, rotated, from, cutoff, out>>
bvars == <<overlap, tick, zset, expiry, adding, admitted, uncounted>>
ivars == <<ledger, allowed, member, step, req>>
rvars == vars
allvars == <<part, dvars, cvars, svars, bvars, ivars, rvars>>

--------------------------------------------------------------------------------
MCInit ==
    /\ part \in Parts
    /\ IF part = "directory" THEN D!Init
       ELSE /\ ops = None /\ account = None /\ person = None /\ profile = None /\ access = None
            /\ closed = None /\ promise = None
    /\ IF part = "codes" THEN C!Init
       ELSE /\ plan = None /\ clock = None /\ number = None /\ code = None /\ at = None
            /\ errand = None /\ sent = None /\ wrong = None /\ right = None
    /\ IF part = "sessions" THEN S!Init
       ELSE /\ now = None /\ issued = None /\ parent = None /\ blacklist = None /\ rotated = None
            /\ from = None /\ cutoff = None /\ out = None
    /\ IF part = "budget" THEN B!Init
       ELSE /\ overlap = None /\ tick = None /\ zset = None /\ expiry = None /\ adding = None
            /\ admitted = None /\ uncounted = None
    /\ V!Init /\ (part # "invitations" => serial = TRUE /\ mailbox = [p \in People |-> Absent])
    /\ Init /\ (part # "permissions" => mix = Setting /\ role = "member" /\ assigned = {})

MCNext ==
    /\ UNCHANGED part
    /\ \/ part = "directory" /\ D!Next /\ UNCHANGED <<cvars, svars, bvars, ivars, rvars>>
       \/ part = "codes" /\ C!Next /\ UNCHANGED <<dvars, svars, bvars, ivars, rvars>>
       \/ part = "sessions" /\ S!Next /\ UNCHANGED <<dvars, cvars, bvars, ivars, rvars>>
       \/ part = "budget" /\ B!Next /\ UNCHANGED <<dvars, cvars, svars, ivars, rvars>>
       \/ part = "invitations" /\ V!Next /\ UNCHANGED <<dvars, cvars, svars, bvars, rvars>>
       \/ part = "permissions" /\ Next /\ UNCHANGED <<dvars, cvars, svars, bvars, ivars>>

MCSpec == MCInit /\ [][MCNext]_allvars

Symmetry == Permutations(Companies) \cup Permutations(Slots) \cup Permutations(Workers) \cup Permutations(People)

--------------------------------------------------------------------------------
(* A directory lists every number and account once, whoever is attached is  *)
(* listed, a sign-up takes up every invitation that stands and no other,    *)
(* and nobody comes into a company that its last admin left.                *)
DirectoryHolds ==
    part = "directory" => /\ D!TypeOK /\ D!NoKeyTwice /\ D!AttachedIsListed
                          /\ D!InvitationsStand /\ D!OnlyInvited /\ D!ClosedStaysEmpty

(* "every way in is closed" of a company that its last admin left.          *)
ClosedStaysEmpty == part = "directory" => D!ClosedStaysEmpty

(* Guesses at a code stay within their bound and it is used once, whatever  *)
(* requests overlap, and a number is only taken over by who received a code  *)
(* on it.  What a logout reaches, and what was rotated away, refreshes no    *)
(* more; but tabs that rotate one cookie within the grace all stay signed in.*)
SignInHolds ==
    /\ part = "codes" => C!TypeOK /\ C!GuessesBounded /\ C!NumbersProven
    /\ part = "sessions" => S!SignedOutStaysOut /\ S!RotatedEnds /\ S!TabsRefreshTogether

(* The caps on codes count what was purged too, the reviewer's code has a    *)
(* budget of guesses; the wait that is announced before the next text is the *)
(* true one, and no window takes more texts than its limit, but for those    *)
(* that an outage of Redis lets through.                                     *)
CapsHold ==
    /\ part = "codes" => C!CapHolds /\ C!ReviewerBudgeted
    /\ part = "budget" => B!WaitHonest /\ B!WindowsHold

(* "no-op if already non-pending", also when the revocation overlaps with   *)
(* the acceptance: violated, and in no run.                                 *)
RevokeSparesAccepted == V!RevokeSparesAccepted
================================================================================
