-------------------------------- MODULE LaborPay --------------------------------
(***************************************************************************)
(* What one worker has earned.  The same money is computed by five readers *)
(* of the attendance: the summary of a period, the monthly rollup, the     *)
(* spend of the project, the list of entries and the periods printed on an *)
(* export.  Amounts are cents, so a half day of an odd rate is rounded.    *)
(***************************************************************************)
EXTENDS Integers, Sequences, FiniteSets, FiniteSetsExt, SequencesExt

CONSTANTS
    LastDay, MonthLength,     \* the calendar: days 1..LastDay, in months
    Bases, Changes,           \* rates a worker may have, and change to
    ChangeDays,               \* days a rate change may take effect
    Given,                    \* attendance a day may be given
    None

VARIABLES
    entry,       \* labor_entries of the worker, one a day
    change,      \* worker_rate_changes by effective date, 0 where there is none
    base         \* workers.daily_rate

vars == <<entry, change, base>>

--------------------------------------------------------------------------------
Days       == 1..LastDay
MonthOf(d) == (d - 1) \div MonthLength + 1
Months     == 1..MonthOf(LastDay)
MonthStart(m) == (m - 1) * MonthLength + 1
MonthEnd(m)   == m * MonthLength

SumOver(Amount(_), S) == MapThenSumSet(Amount, S)

(* Twice the days a shift is worth; a row of hours alone is worth none. *)
Multiplier(shift) == CASE shift = "half" -> 1 [] shift = "overtime" -> 3 [] OTHER -> 2
Cents(half) == (half + 1) \div 2                   \* ROUND_HALF_UP of half cents

(* LaborEntry.effective_cost *)
EffectiveCost(e, rate) ==
    IF e.shift = None THEN 0
    ELSE IF e.override # None THEN e.override
    ELSE Cents(rate * Multiplier(e.shift))

(* The latest change effective on the day, else the base rate. *)
RateOn(d) ==
    LET upTo == {x \in Days : x <= d /\ change[x] > 0}
    IN  IF upTo = {} THEN base ELSE change[Max(upTo)]

Validated(from, to) == {d \in from..to : entry[d] # None /\ entry[d].status = "validated"}
BankedHours(from, to)  == SumOver(LAMBDA d : entry[d].hours, Validated(from, to))
Priced(from, to) == SumOver(LAMBDA d : EffectiveCost(entry[d], RateOn(d)), Validated(from, to))

(* Eight banked hours are a day, a remainder of four is half a day. *)
BonusHalfDays(hours) == 2 * (hours \div 8) + (IF hours % 8 >= 4 THEN 1 ELSE 0)
BonusForBankedHours(hours, rate) == Cents(rate * BonusHalfDays(hours))

(* Mutant: banked hours are paid at the rate of today. *)
BonusRateNow(m) == RateOn(LastDay)

BonusRate(m) == RateOn(MonthEnd(m))

--------------------------------------------------------------------------------
(* The five readers. *)

LaterDay(a, b)   == IF a > b THEN a ELSE b
EarlierDay(a, b) == IF a < b THEN a ELSE b

BankedMonths(from, to) ==
    [m \in {MonthOf(d) : d \in Validated(from, to)} |->
        BankedHours(LaterDay(from, MonthStart(m)), EarlierDay(to, MonthEnd(m)))]

(* GetLaborSummary of a period *)
Summary(from, to) ==
    LET banked == BankedMonths(from, to)
    IN  Priced(from, to) + SumOver(LAMBDA m : BonusForBankedHours(banked[m], BonusRate(m)), DOMAIN banked)

(* GetMonthlyLaborSummary *)
MonthlySummary(m) ==
    Priced(MonthStart(m), MonthEnd(m)) + BonusForBankedHours(BankedHours(MonthStart(m), MonthEnd(m)), BonusRate(m))

(* Mutant: one bonus over the hours of all months. *)
AccruedAtOnce == Priced(1, LastDay) + BonusForBankedHours(BankedHours(1, LastDay), BonusRate(MonthOf(LastDay)))

(* The labor part of a project's spend *)
LaborAccrued ==
    LET banked == {m \in Months : BankedHours(MonthStart(m), MonthEnd(m)) > 0}
    IN  Priced(1, LastDay)
        + SumOver(LAMBDA m : BonusForBankedHours(BankedHours(MonthStart(m), MonthEnd(m)), BonusRate(m)), banked)

(* ListLaborEntries: what the list shows for a day *)
ListedCost(d) ==
    IF entry[d] = None \/ entry[d].status = "pending" THEN 0
    ELSE EffectiveCost(entry[d], RateOn(d))

(* The periods an export prints: the rate at its start, then each change *)
RatePeriods(from, to) ==
    LET starts == {x \in Days : x <= from /\ change[x] > 0}
        inside == SetToSortSeq({x \in from + 1 .. to : change[x] > 0}, <)
        AddPeriod(periods, x) ==
            IF Last(periods)[2] = change[x] THEN periods ELSE Append(periods, <<x, change[x]>>)
    IN  FoldLeft(AddPeriod, <<<<from, IF starts = {} THEN base ELSE change[Max(starts)]>>>>, inside)

--------------------------------------------------------------------------------
Row(given, status) ==
    [shift |-> given.shift, hours |-> given.hours, override |-> given.override, status |-> status]

Log(d, given) ==
    /\ entry[d] = None
    /\ entry' = [entry EXCEPT ![d] = Row(given, "validated")]
    /\ UNCHANGED <<change, base>>

Submit(d, given) ==
    /\ entry[d] = None /\ given.override = None
    /\ entry' = [entry EXCEPT ![d] = Row(given, "pending")]
    /\ UNCHANGED <<change, base>>

Validate(d) ==
    /\ entry[d] # None
    /\ entry' = [entry EXCEPT ![d].status = "validated"]
    /\ UNCHANGED <<change, base>>

(* A patch keeps the status of the day. *)
Update(d, given) ==
    /\ entry[d] # None
    /\ entry' = [entry EXCEPT ![d] = Row(given, entry[d].status)]
    /\ UNCHANGED <<change, base>>

Delete(d) ==
    /\ entry[d] # None
    /\ entry' = [entry EXCEPT ![d] = None]
    /\ UNCHANGED <<change, base>>

SetRateChange(d, rate) ==
    /\ rate > 0
    /\ change' = [change EXCEPT ![d] = rate]
    /\ UNCHANGED <<entry, base>>

DeleteRateChange(d) ==
    /\ change[d] > 0
    /\ change' = [change EXCEPT ![d] = 0]
    /\ UNCHANGED <<entry, base>>

UpdateBase(rate) ==
    /\ base' = rate
    /\ UNCHANGED <<entry, change>>

Init ==
    /\ entry = [d \in Days |-> None]
    /\ change = [d \in Days |-> 0]
    /\ base \in Bases

Next ==
    \/ \E d \in Days, given \in Given : Log(d, given) \/ Submit(d, given) \/ Update(d, given)
    \/ \E d \in Days : Validate(d) \/ Delete(d)
    \/ \E d \in ChangeDays : DeleteRateChange(d) \/ \E rate \in Changes : SetRateChange(d, rate)
    \/ \E rate \in Bases : UpdateBase(rate)

Spec == Init /\ [][Next]_vars

--------------------------------------------------------------------------------
(* A summary over several months equals the sum of its months.            *)
SummaryAddsUp ==
    \A first, last \in Months : first <= last =>
        Summary(MonthStart(first), MonthEnd(last)) = SumOver(MonthlySummary, first..last)

(* The labor a project has accrued is what its labor summary totals.      *)
SpendIsSalary == LaborAccrued = Summary(1, LastDay)

(* A reader of the list of days and a reader of the summary see the same  *)
(* money: the days listed plus the bonus of the month.                    *)
ListAgrees ==
    \A m \in Months :
        SumOver(ListedCost, MonthStart(m)..MonthEnd(m))
            = MonthlySummary(m) - BonusForBankedHours(BankedHours(MonthStart(m), MonthEnd(m)), BonusRate(m))

(* The periods printed on an export are the rates its days were priced at, *)
(* and each of them is a change of the rate.                               *)
PeriodsPrinted ==
    \A from, to \in Days : from <= to =>
        LET periods == RatePeriods(from, to)
        IN  /\ \A d \in from..to :
                   periods[Max({i \in DOMAIN periods : periods[i][1] <= d})][2] = RateOn(d)
            /\ \A i \in DOMAIN periods \ {1} : periods[i][2] # periods[i - 1][2]

(* What was earned before a rate change is settled: setting, moving or     *)
(* deleting a change, or editing the base rate under an older change,      *)
(* never reprices an earlier month.                                        *)
PastSettled ==
    entry' = entry =>
        \A m \in Months :
            (/\ \A d \in 1..MonthEnd(m) : change'[d] = change[d]
             /\ base' = base \/ \E d \in 1..MonthStart(m) : change[d] > 0)
            => MonthlySummary(m)' = MonthlySummary(m)
PastIsSettled == [][PastSettled]_vars

TypeOK ==
    /\ entry \in [Days -> {None} \cup {Row(given, status) : given \in Given, status \in {"pending", "validated"}}]
    /\ change \in [Days -> Changes \cup {0}]
    /\ base \in Bases
================================================================================
