---------------------------------- MODULE Chat ----------------------------------
(***************************************************************************)
(* One chat channel: its messages, how far each member has read, the quiet *)
(* window of the pushes and the entries of the bell.  A message commits by *)
(* itself with its sender's marker; what it notifies comes after, in       *)
(* commits of its own.  Stamps are taken at the start of a request, and no *)
(* two are equal.                                                          *)
(***************************************************************************)
EXTENDS Integers, FiniteSets

CONSTANTS
    Slots, Users,   \* requests served at the same time, the members of the channel
    None,
    Window,         \* QUIET_WINDOW_SECONDS
    MaxTime,        \* bound on the clock
    Alones,         \* SUBSET BOOLEAN: whether requests come one at a time
    Blocking,       \* SUBSET Alones: and in which of the two members block each other
    Faults          \* SUBSET {"push fails"}

VARIABLES
    alone, now,
    messages,   \* [from, at]
    lastRead,   \* of a member, None without a marker
    bell,       \* unread entries of a member, by the instant they were recorded
    notified,   \* last_notified_at of a member, None without a marker
    blocks,     \* <<who, whom>>
    told,       \* history: the stamps of the messages a member was notified of
    seen,       \* history: the messages that were there at a member's last reading
    settled,    \* history: [at, owed], the messages whose notifying went through
    pc, job

Constants == Window \in Nat \ {0} /\ MaxTime \in Nat /\ None \notin Nat

vars == <<alone, now, messages, lastRead, bell, notified, blocks, told, seen, settled, pc, job>>

Times == 1..MaxTime
Idle  == [by |-> None, at |-> None, marker |-> None, sends |-> FALSE, owed |-> {}, due |-> {}, left |-> {}, rows |-> {}]

Init ==
    /\ alone \in Alones /\ now = 0 /\ messages = {} /\ blocks = {} /\ settled = {}
    /\ lastRead = [u \in Users |-> None] /\ notified = [u \in Users |-> None]
    /\ bell = [u \in Users |-> {}] /\ told = [u \in Users |-> {}] /\ seen = [u \in Users |-> {}]
    /\ pc = [s \in Slots |-> "idle"] /\ job = [s \in Slots |-> Idle]

Go(s, step, j) == pc' = [pc EXCEPT ![s] = step] /\ job' = [job EXCEPT ![s] = j]
Done(s) == Go(s, "idle", Idle)

--------------------------------------------------------------------------------
Tick ==
    /\ now < MaxTime /\ now' = now + 1
    /\ UNCHANGED <<alone, messages, lastRead, bell, notified, blocks, told, seen, settled, pc, job>>

(* A message, or a reading of the channel; both look up the marker.         *)
Start(s, u) ==
    /\ pc[s] = "idle"
    /\ alone => \A t \in Slots : pc[t] = "idle"
    /\ now < MaxTime /\ now' = now + 1
    /\ \E sends \in BOOLEAN :
        Go(s, "commit", [Idle EXCEPT !.by = u, !.at = now + 1, !.marker = lastRead[u], !.sends = sends])
    /\ UNCHANGED <<alone, messages, lastRead, bell, notified, blocks, told, seen, settled>>

(* The message and the marker together.  Two first markers of one member    *)
(* collide, and the second request fails with all it did.                   *)
Commit(s) ==
    LET j == job[s]
        collides == j.marker = None /\ lastRead[j.by] # None
    IN
    /\ pc[s] = "commit"
    /\ IF collides
       THEN Done(s) /\ UNCHANGED <<messages, lastRead, seen>>
       ELSE /\ Go(s, "clear", j)
            /\ messages' = IF j.sends THEN messages \cup {[from |-> j.by, at |-> j.at]} ELSE messages
            /\ lastRead' = [lastRead EXCEPT ![j.by] = IF j.marker = None \/ j.marker < j.at THEN j.at ELSE @]
            /\ seen' = [seen EXCEPT ![j.by] = messages]
    /\ UNCHANGED <<alone, now, bell, notified, blocks, told, settled>>

(* The bell's entries up to the stamp are read. *)
Clear(s) ==
    LET j == job[s] IN
    /\ pc[s] = "clear"
    /\ bell' = [bell EXCEPT ![j.by] = {e \in @ : e > j.at}]
    /\ IF j.sends THEN Go(s, "members", j) ELSE Done(s)
    /\ UNCHANGED <<alone, now, messages, lastRead, notified, blocks, told, seen, settled>>

(* The members who did not block the sender, and those of them out of their *)
(* quiet window; the variant measures it one moment longer.                 *)
DueLater(j, owed) == {u \in owed : notified[u] = None \/ notified[u] < j.at - Window}
Due(j, owed)      == {u \in owed : notified[u] = None \/ notified[u] <= j.at - Window}

Members(s) ==
    LET j    == job[s]
        owed == {u \in Users \ {j.by} : <<u, j.by>> \notin blocks}
        due  == Due(j, owed)
    IN
    /\ pc[s] = "members"
    /\ IF due = {}
       THEN Done(s) /\ settled' = settled \cup {[at |-> j.at, owed |-> owed]}
       ELSE Go(s, "push", [j EXCEPT !.owed = owed, !.due = due, !.left = due]) /\ UNCHANGED settled
    /\ UNCHANGED <<alone, now, messages, lastRead, bell, notified, blocks, told, seen>>

(* One member at a time; a failure ends it before any window opens.         *)
Push(s) ==
    LET j == job[s] IN
    /\ pc[s] = "push"
    /\ \/ \E u \in j.left :
            /\ bell' = [bell EXCEPT ![u] = @ \cup {now}] /\ told' = [told EXCEPT ![u] = @ \cup {j.at}]
            /\ Go(s, IF j.left = {u} THEN "windows" ELSE "push", [j EXCEPT !.left = @ \ {u}])
       \/ "push fails" \in Faults /\ Done(s) /\ UNCHANGED <<bell, told>>
    /\ UNCHANGED <<alone, now, messages, lastRead, notified, blocks, seen, settled>>

Windows(s) ==
    /\ pc[s] = "windows"
    /\ Go(s, "mark", [job[s] EXCEPT !.rows = {u \in job[s].due : notified[u] # None}])
    /\ UNCHANGED <<alone, now, messages, lastRead, bell, notified, blocks, told, seen, settled>>

(* The windows of those who were told open together; a collision leaves     *)
(* them all as they were.                                                   *)
Mark(s) ==
    LET j == job[s]
        collides == \E u \in j.due \ j.rows : notified[u] # None
    IN
    /\ pc[s] = "mark" /\ Done(s)
    /\ notified' = [u \in Users |-> IF u \in j.due /\ ~collides THEN j.at ELSE notified[u]]
    /\ settled' = settled \cup {[at |-> j.at, owed |-> j.owed]}
    /\ UNCHANGED <<alone, now, messages, lastRead, bell, blocks, told, seen>>

Block(u, v) ==
    /\ alone \in Blocking /\ u # v /\ blocks' \in {blocks \cup {<<u, v>>}, blocks \ {<<u, v>>}}
    /\ UNCHANGED <<alone, now, messages, lastRead, bell, notified, told, seen, settled, pc, job>>

Next ==
    \/ Tick \/ \E u, v \in Users : Block(u, v)
    \/ \E s \in Slots :
        \/ \E u \in Users : Start(s, u)
        \/ Commit(s) \/ Clear(s) \/ Members(s) \/ Push(s) \/ Windows(s) \/ Mark(s)

Spec == Init /\ [][Next]_vars

--------------------------------------------------------------------------------
TypeOK ==
    /\ alone \in Alones /\ now \in 0..MaxTime
    /\ messages \subseteq [from : Users, at : Times]
    /\ lastRead \in [Users -> Times \cup {None}] /\ notified \in [Users -> Times \cup {None}]
    /\ \A u \in Users : bell[u] \subseteq 0..MaxTime /\ told[u] \subseteq Times
    /\ pc \in [Slots -> {"idle", "commit", "clear", "members", "push", "windows", "mark"}]

(* The quiet window swallows no news: whoever was owed a message was told   *)
(* of it, or of another one less than a window before it, also when the     *)
(* messages overlap and the rows of their windows collide.                  *)
NobodyMissed ==
    \A m \in settled : \A u \in m.owed : \E t \in told[u] : t > m.at - Window

(* "at most once per window each": for messages one at a time. *)
Quiet == \A u \in Users : \A t, v \in told[u] : t < v => v - t >= Window

(* "the bell does not count again what the chat button already cleared",    *)
(* and a message nobody showed a member is unread: for requests one at a    *)
(* time.                                                                    *)
BellIsUnread ==
    \A u \in Users : (\A s \in Slots : ~(pc[s] = "clear" /\ job[s].by = u))
        => \A e \in bell[u] : lastRead[u] # None => e > lastRead[u]

NewsIsUnread ==
    \A u \in Users, m \in messages : m.from # u /\ m \notin seen[u] => lastRead[u] = None \/ m.at > lastRead[u]
================================================================================
