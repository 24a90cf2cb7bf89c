------------------------------ MODULE SignInCodes ------------------------------
(***************************************************************************)
(* The six-digit codes: asked for by number, sent by SMS, and given back   *)
(* to sign in, to sign up or to move an account to another number.         *)
(*                                                                         *)
(* Asking reads the throttles without a lock, sends the SMS, and commits   *)
(* the code after it; giving a code back locks the number's latest row of  *)
(* that purpose until the request commits.                                 *)
(***************************************************************************)
EXTENDS Integers, FiniteSets, FiniteSetsExt

CONSTANTS
    Phones, Reviewers,       \* numbers, and the store-review numbers among them
    Users,                   \* accounts
    Slots,                   \* requests served at the same time
    MaxAttempts, HourlyMax, GuessBudget,
    ReviewerHourlyMax,
    Ttl, Resend, ReviewerResend, Hour, Retention,   \* in ticks of the clock
    Horizon, MaxCodes,       \* bounds: the last tick, the codes that can be sent (a mix may say less)
    Mixes,                   \* what a behaviour exercises
    None

VARIABLES
    mix,          \* [ops, alone, holds: the numbers at first, phones, codes, till]
    clock,
    number,       \* users.phone; None before sign-up and after erasure
    code,         \* login_otps by id, None when there is no such row
    pc, job,      \* per slot: the step, and what it works on
    sent,         \* history: <<phone, user, purpose>> and the time of every code sent
    wrong, right  \* history: per code, the guesses judged wrong, the times accepted

vars == <<mix, clock, number, code, pc, job, sent, wrong, right>>

--------------------------------------------------------------------------------
Ids      == 1..MaxCodes
Purposes == {"sign_in", "phone_change"}
Codes    == [phone : Phones, user : Users \cup {None}, purpose : Purposes, created : 0..Horizon,
             attempts : 0..MaxAttempts, used : BOOLEAN]

(* What the theorems assume of the constants. *)
Constants ==
    /\ MaxAttempts \in Nat /\ Horizon \in Nat /\ MaxCodes \in Nat /\ None \notin Codes
    /\ \A m \in Mixes : m.till \in 0..Horizon /\ m.codes \in 0..MaxCodes /\ m.holds \in [Users -> Phones \cup {None}]

Rows    == {c \in Ids : code[c] # None}
NextId  == Cardinality(sent) + 1
Of(p)   == {c \in Rows : code[c].phone = p}
Owner(p) == {u \in Users : number[u] = p}
InHour(c) == code[c].created >= clock - Hour

NoJob == [op |-> "none", phone |-> None, user |-> None, purpose |-> None, at |-> 0, code |-> 0, attempts |-> 0]

(* Mutant: the row of a guess is not locked. *)
LockedNone == {}

Locked == {job[s].code : s \in {t \in Slots : pc[t] \in {"wrong", "accepted"}}}

Start(s, op) ==
    /\ op \in mix.ops /\ pc[s] = "idle"
    /\ mix.alone => \A t \in Slots : pc[t] = "idle"
End(s) == pc' = [pc EXCEPT ![s] = "idle"] /\ job' = [job EXCEPT ![s] = NoJob]

--------------------------------------------------------------------------------
(* Asking for a code *)

Latest(S) == CHOOSE c \in S : \A d \in S : code[d].created < code[c].created \/ (code[d].created = code[c].created /\ d <= c)

Throttled(p) ==
    LET resend == IF p \in Reviewers THEN ReviewerResend ELSE Resend
        most   == IF p \in Reviewers THEN ReviewerHourlyMax ELSE HourlyMax
    IN  \/ \E c \in Of(p) : clock - code[c].created < resend
        \/ Cardinality({c \in Of(p) : InHour(c)}) >= most

Issue(s, op, p, u, purpose) ==
    /\ Start(s, op) /\ ~Throttled(p) /\ p \in mix.phones
    /\ pc' = [pc EXCEPT ![s] = "sending"]
    /\ job' = [job EXCEPT ![s] = [NoJob EXCEPT !.op = op, !.phone = p, !.user = u, !.purpose = purpose, !.at = clock]]
    /\ UNCHANGED <<mix, clock, number, code, sent, wrong, right>>

(* For a number with an account, one without, and one to move to. *)
RequestOtp(s, p)       == \E u \in Owner(p) : Issue(s, "ask", p, u, "sign_in")
RequestSignupOtp(s, p) == Owner(p) = {} /\ Issue(s, "ask", p, None, "sign_in")

MayMoveTo(u, p) == number[u] # None /\ Owner(p) = {} /\ p \notin Reviewers
RequestPhoneChange(s, u, p) == MayMoveTo(u, p) /\ Issue(s, "move", p, u, "phone_change")

(* The SMS is refused: nothing is kept. *)
SendFails(s) ==
    /\ pc[s] = "sending" /\ job[s].phone \notin Reviewers
    /\ End(s)
    /\ UNCHANGED <<mix, clock, number, code, sent, wrong, right>>

VoidActive(c, p, purpose) ==
    IF code[c] # None /\ code[c].phone = p /\ code[c].purpose = purpose THEN [code[c] EXCEPT !.used = TRUE] ELSE code[c]

PurgeStale(r, now) == IF r # None /\ r.created < now - Retention THEN None ELSE r

(* Old rows are deleted, live codes of the purpose voided, and the new one *)
(* stored.  Deleting and voiding wait for a row of the number that a guess *)
(* has locked; the locked rows of other numbers are skipped.               *)
Save(s) ==
    LET j == job[s]
    IN  /\ pc[s] = "sending" /\ NextId <= mix.codes
        /\ \A c \in Of(j.phone) \cap Locked : /\ code[c].created >= j.at - Retention
                                              /\ code[c].purpose = j.purpose => code[c].used
        /\ code' = [c \in Ids |->
               IF c = NextId
               THEN [phone |-> j.phone, user |-> j.user, purpose |-> j.purpose, created |-> j.at,
                     attempts |-> 0, used |-> FALSE]
               ELSE IF c \in Locked THEN code[c]
               ELSE PurgeStale(VoidActive(c, j.phone, j.purpose), j.at)]
        /\ sent' = sent \cup {[id |-> NextId, phone |-> j.phone, user |-> j.user, purpose |-> j.purpose, at |-> j.at]}
        /\ End(s)
        /\ UNCHANGED <<mix, clock, number, wrong, right>>

--------------------------------------------------------------------------------
(* Giving a code back *)

Active(c) == ~code[c].used /\ clock < code[c].created + Ttl

OverBudget(p) ==
    p \in Reviewers /\ MapThenSumSet(LAMBDA c : code[c].attempts, {d \in Of(p) : InHour(d)}) >= GuessBudget

(* The latest row of the purpose is locked and judged as it is committed.  *)
Consume(s, op, p, u, purpose, good) ==
    /\ Start(s, op)
    /\ LET mine == {c \in Of(p) : code[c].purpose = purpose}
           c    == Latest(mine)
       IN  /\ mine # {} /\ c \notin Locked
           /\ Active(c) /\ code[c].attempts < MaxAttempts /\ ~OverBudget(p)
           /\ pc' = [pc EXCEPT ![s] = IF good THEN "accepted" ELSE "wrong"]
           /\ job' = [job EXCEPT ![s] = [NoJob EXCEPT !.op = op, !.phone = p, !.user = u, !.purpose = purpose,
                                                      !.code = c, !.attempts = code[c].attempts]]
           /\ IF good THEN right' = [right EXCEPT ![c] = @ + 1] /\ UNCHANGED wrong
              ELSE wrong' = [wrong EXCEPT ![c] = @ + 1] /\ UNCHANGED right
    /\ UNCHANGED <<mix, clock, number, code, sent>>

(* A wrong guess commits its count. *)
CountGuess(s) ==
    /\ pc[s] = "wrong"
    /\ code' = [code EXCEPT ![job[s].code].attempts = job[s].attempts + 1]
    /\ End(s)
    /\ UNCHANGED <<mix, clock, number, sent, wrong, right>>

Commit(s, newNumber) ==
    /\ number' = newNumber
    /\ code' = [code EXCEPT ![job[s].code].used = TRUE]
    /\ End(s)
    /\ UNCHANGED <<mix, clock, sent, wrong, right>>

(* The code is good.  A sign-in ends there, for a code with an account; a  *)
(* sign-up needs a code without one, and a number that is still free.      *)
VerifyOtp(s) == pc[s] = "accepted" /\ job[s].op = "verify" /\ Commit(s, number)

VerifySignupOtp(s) ==
    /\ pc[s] = "accepted" /\ job[s].op = "signup"
    /\ IF code[job[s].code].user # None \/ Owner(job[s].phone) # {}
       THEN Commit(s, number)
       ELSE Commit(s, [number EXCEPT ![job[s].user] = job[s].phone])

(* The number moves to the account that asked for the code. *)
ConfirmPhoneChange(s) ==
    /\ pc[s] = "accepted" /\ job[s].op = "confirm"
    /\ IF code[job[s].code].user # job[s].user THEN Commit(s, number)
       ELSE Owner(job[s].phone) = {} /\ Commit(s, [number EXCEPT ![job[s].user] = job[s].phone])

(* The number was taken meanwhile: the unique key rolls the request back.  *)
NumberTaken(s) ==
    /\ pc[s] = "accepted" /\ job[s].op \in {"signup", "confirm"} /\ Owner(job[s].phone) # {}
    /\ code[job[s].code].user \in {None, job[s].user}
    /\ right' = [right EXCEPT ![job[s].code] = @ - 1]
    /\ End(s)
    /\ UNCHANGED <<mix, clock, number, code, sent, wrong>>

--------------------------------------------------------------------------------
(* An account is erased, with the codes of the account and of its number.  *)
EraseForUser(u) ==
    /\ "erase" \in mix.ops /\ number[u] # None
    /\ mix.alone => \A t \in Slots : pc[t] = "idle"
    /\ LET gone == {c \in Rows : code[c].user = u \/ code[c].phone = number[u]}
       IN  /\ gone \cap Locked = {}
           /\ code' = [c \in Ids |-> IF c \in gone THEN None ELSE code[c]]
    /\ number' = [number EXCEPT ![u] = None]
    /\ UNCHANGED <<mix, clock, pc, job, sent, wrong, right>>

Tick == clock < mix.till /\ clock' = clock + 1 /\ UNCHANGED <<mix, number, code, pc, job, sent, wrong, right>>

Init ==
    /\ mix \in Mixes
    /\ clock = 0
    /\ number = [u \in Users |-> mix.holds[u]]
    /\ code = [c \in Ids |-> None]
    /\ pc = [s \in Slots |-> "idle"]
    /\ job = [s \in Slots |-> NoJob]
    /\ sent = {}
    /\ wrong = [c \in Ids |-> 0] /\ right = [c \in Ids |-> 0]

Step(s) ==
    \/ \E p \in Phones : RequestOtp(s, p) \/ RequestSignupOtp(s, p)
    \/ \E u \in Users, p \in Phones : RequestPhoneChange(s, u, p)
    \/ SendFails(s) \/ Save(s)
    \/ \E p \in Phones, good \in BOOLEAN : Consume(s, "verify", p, None, "sign_in", good)
    \/ \E p \in Phones, good \in BOOLEAN, u \in Users :
           number[u] = None /\ Consume(s, "signup", p, u, "sign_in", good)
    \/ \E p \in Phones, good \in BOOLEAN, u \in Users :
           MayMoveTo(u, p) /\ Consume(s, "confirm", p, u, "phone_change", good)
    \/ CountGuess(s) \/ VerifyOtp(s) \/ VerifySignupOtp(s) \/ ConfirmPhoneChange(s) \/ NumberTaken(s)

Next == Tick \/ (\E s \in Slots : Step(s)) \/ (\E u \in Users : EraseForUser(u))

Spec == Init /\ [][Next]_vars

--------------------------------------------------------------------------------
(* Every variable keeps its type. *)
TypeOK ==
    /\ clock \in 0..Horizon
    /\ number \in [Users -> Phones \cup {None}]
    /\ code \in [Ids -> Codes \cup {None}]
    /\ pc \in [Slots -> {"idle", "sending", "wrong", "accepted"}]
    /\ \A x \in sent : x.id \in Ids
    /\ wrong \in [Ids -> Nat] /\ right \in [Ids -> Nat]

(* "Concurrent guesses at one code are checked one after another, so       *)
(* max_attempts really bounds them and a code is used once."               *)
GuessesBounded == \A c \in Ids : wrong[c] <= MaxAttempts /\ right[c] <= 1

(* A number an account signs in with was proven by a code sent to it: a    *)
(* sign-up code, or a code that this account asked for to move there.      *)
NumbersProven ==
    \A u \in Users : number[u] \notin {None, mix.holds[u]} =>
        \E x \in sent : x.phone = number[u] /\ right[x.id] = 1
                        /\ <<x.user, x.purpose>> \in {<<None, "sign_in">>, <<u, "phone_change">>}

(* One after another, requests never get a number more codes in an hour    *)
(* than its cap, whatever is voided, purged or sent for another purpose.   *)
CapHolds ==
    mix.alone => \A p \in Phones \ Reviewers, t \in 0..clock :
        Cardinality({x \in sent : x.phone = p /\ x.at \in t..(t + Hour)}) <= HourlyMax

(* One after another, wrong guesses at a store-review number are bounded   *)
(* over all its codes of the last hour, however often it asks for a code.  *)
ReviewerBudgeted ==
    mix.alone => \A p \in Reviewers :
        MapThenSumSet(LAMBDA x : wrong[x.id], {x \in sent : x.phone = p /\ x.at >= clock - Hour}) <= GuessBudget
================================================================================
