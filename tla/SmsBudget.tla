------------------------------- MODULE SmsBudget -------------------------------
(***************************************************************************)
(* One pool of the SMS budget: the times of the SMS of the last day in a   *)
(* sorted set of Redis, and two sliding windows that must have room.       *)
(*                                                                         *)
(* A worker reads the counts in one pipeline, adds its own send with a     *)
(* second call and renews the life of the key with a third; workers overlap*)
(* unless `overlap` says otherwise.  The budget fails open: where Redis    *)
(* does not answer, the SMS is sent all the same.                          *)
(***************************************************************************)
EXTENDS Integers, Sequences, SequencesExt

CONSTANTS
    Workers,
    ShortWindow, DayWindow,      \* in ticks
    MaxShort, MaxDay,            \* sends per window; 0 switches it off
    LastTick,                    \* bound: the clock
    MaxOpen,                     \* bound: SMS of one day let through by a failed call
    Overlaps,                    \* whether workers may overlap: a set of Booleans
    None

VARIABLES
    overlap, tick,
    zset,        \* times of the sends, in order
    expiry,      \* when Redis forgets the key
    adding,      \* per worker: the time it was admitted at, not yet added
    admitted,    \* history: times of the SMS let through, of the last day
    uncounted    \* history: those among them that a failed call let through

vars == <<overlap, tick, zset, expiry, adding, admitted, uncounted>>

Never == LastTick + DayWindow + 1

After(times, t) == SelectSeq(times, LAMBDA x : x > t)

(* How long until the send that is `limit` places from the newest one      *)
(* leaves the window.                                                      *)
WaitFor(times, t, window, limit) ==
    LET inside == After(times, t - window)
    IN  IF limit = 0 \/ Len(inside) < limit THEN 0
        ELSE LET leaves == inside[Len(inside) - limit + 1] + window - t
             IN  IF leaves < 1 THEN 1 ELSE leaves

(* Mutant: the window of the day is forgotten. *)
WaitShort(times, t) == WaitFor(times, t, ShortWindow, MaxShort)

Wait(times, t) ==
    LET day   == WaitFor(times, t, DayWindow, MaxDay)
        short == WaitFor(times, t, ShortWindow, MaxShort)
    IN  IF day > short THEN day ELSE short

With(times, t) == SortSeq(Append(times, t), LAMBDA x, y : x < y)

Free(w) == adding[w] = None /\ (~overlap => \A v \in Workers : adding[v] = None)

(* The counts are read, and leave room or not.  An empty key is gone, and  *)
(* its life with it.                                                       *)
Acquire(w) ==
    /\ Free(w)
    /\ zset' = After(zset, tick - DayWindow)
    /\ expiry' = IF zset' = <<>> THEN Never ELSE expiry
    /\ IF Wait(zset', tick) = 0
       THEN adding' = [adding EXCEPT ![w] = tick] /\ admitted' = With(admitted, tick)
       ELSE UNCHANGED <<adding, admitted>>
    /\ UNCHANGED <<overlap, tick, uncounted>>

(* Redis does not answer what is read: the SMS goes out, room or not.      *)
FailOpen(w) ==
    /\ Free(w) /\ Len(uncounted) < MaxOpen
    /\ admitted' = With(admitted, tick) /\ uncounted' = With(uncounted, tick)
    /\ UNCHANGED <<overlap, tick, zset, expiry, adding>>

Add(w) ==
    /\ adding[w] # None
    /\ zset' = With(zset, adding[w])
    /\ expiry' = tick + DayWindow
    /\ adding' = [adding EXCEPT ![w] = None]
    /\ UNCHANGED <<overlap, tick, admitted, uncounted>>

(* Redis does not answer what is written: the SMS goes out all the same,   *)
(* not counted, or counted under a key whose life was not renewed.         *)
AddFails(w) ==
    /\ adding[w] # None /\ Len(uncounted) < MaxOpen
    /\ zset' \in {zset, With(zset, adding[w])}
    /\ uncounted' = With(uncounted, adding[w])
    /\ adding' = [adding EXCEPT ![w] = None]
    /\ UNCHANGED <<overlap, tick, expiry, admitted>>

Tick ==
    /\ tick < LastTick /\ tick' = tick + 1
    /\ IF tick' >= expiry THEN zset' = <<>> /\ expiry' = Never ELSE UNCHANGED <<zset, expiry>>
    /\ admitted' = After(admitted, tick' - DayWindow)
    /\ uncounted' = After(uncounted, tick' - DayWindow)
    /\ UNCHANGED <<overlap, adding>>

Init ==
    /\ overlap \in Overlaps
    /\ tick = 0 /\ zset = <<>> /\ expiry = Never /\ adding = [w \in Workers |-> None]
    /\ admitted = <<>> /\ uncounted = <<>>

Next == Tick \/ \E w \in Workers : Acquire(w) \/ FailOpen(w) \/ Add(w) \/ AddFails(w)

Spec == Init /\ [][Next]_vars

--------------------------------------------------------------------------------
(* The wait a refusal announces is the truth, even where overlapping       *)
(* workers sent more than the limit: as long as Redis keeps its entries,   *)
(* there is no room one tick sooner, and there is room then.               *)
WaitHonest ==
    LET w == Wait(zset, tick)
    IN  w > 0 => Wait(zset, tick + w) = 0 /\ \A k \in 1..(w - 1) : Wait(zset, tick + k) > 0

(* Workers that do not overlap never let more SMS through than the windows *)
(* allow, but for those that a failed call let through: an outage costs as *)
(* many SMS as it had failed calls, and no more once it is over.           *)
WithinWindow(window, limit) ==
    limit > 0 => Len(After(admitted, tick - window)) <= limit + Len(After(uncounted, tick - window))

WindowsHold == ~overlap => WithinWindow(ShortWindow, MaxShort) /\ WithinWindow(DayWindow, MaxDay)
================================================================================
