----------------------------- MODULE WorkspaceProofs -----------------------------
(***************************************************************************)
(* Theorems about the parts of MCWorkspace, for any number of members,     *)
(* overlapping requests, instants, files, warehouses, items and purchases. *)
(***************************************************************************)
EXTENDS MCWorkspace, FiniteSetTheorems, TLAPS

--------------------------------------------------------------------------------
(* The chat: types                                                         *)

Instants == (1..MaxTime) \cup {None}
ChatSteps == {"idle", "commit", "clear", "members", "push", "windows", "mark"}

(* A request that is served, and its first steps without a list of members. *)
IsNote(j) ==
    /\ j = [by |-> j.by, at |-> j.at, marker |-> j.marker, sends |-> j.sends, owed |-> j.owed, due |-> j.due,
            left |-> j.left, rows |-> j.rows]
    /\ j.owed \subseteq Users /\ j.due \subseteq Users /\ j.left \subseteq Users

Served(step, j) ==
    step # "idle" => j.by \in Users /\ j.at \in 1..now /\ j.marker \in Instants /\ j.sends \in BOOLEAN

ChatTyped ==
    /\ alone \in BOOLEAN /\ now \in 0..MaxTime
    /\ messages \subseteq [from : Users, at : 1..MaxTime]
    /\ lastRead \in [Users -> Instants] /\ notified \in [Users -> Instants]
    /\ bell \in [Users -> SUBSET (0..MaxTime)] /\ told \in [Users -> SUBSET (1..MaxTime)]
    /\ DOMAIN seen = Users /\ seen = [u \in Users |-> seen[u]]
    /\ settled \subseteq [at : 1..MaxTime, owed : SUBSET Users]
    /\ pc \in [Slots -> ChatSteps]
    /\ job = [s \in Slots |-> job[s]] /\ \A s \in Slots : IsNote(job[s]) /\ Served(pc[s], job[s])

(* A window opens with a message that was told.                            *)
Opened == \A u \in Users : notified[u] # None => notified[u] \in told[u]

(* Whoever is owed a message and not due is in a window that opened with   *)
(* one that was told; who is due and no longer left was told this one.     *)
Recent(u, t) == \E v \in told[u] : v > t - Window

Notifying(step, j) ==
    step \in {"push", "windows", "mark"} =>
        /\ j.left \subseteq j.due /\ j.due \subseteq j.owed
        /\ \A u \in j.owed \ j.due : Recent(u, j.at)
        /\ \A u \in j.due \ j.left : j.at \in told[u]
        /\ step # "push" => j.left = {}

ChatInv ==
    /\ ChatTyped /\ Opened
    /\ \A s \in Slots : Notifying(pc[s], job[s])
    /\ C!NobodyMissed

--------------------------------------------------------------------------------
LEMMA ChatInit == ASSUME Init, part = "chat" PROVE ChatInv
  <1>1. C!Init
    BY DEF Init
  <1>2. IsNote(C!Idle)
    BY DEF C!Idle, IsNote
  <1>3. ChatTyped
    <2>1. /\ alone \in BOOLEAN /\ now = 0 /\ messages = {} /\ settled = {}
          /\ lastRead = [u \in Users |-> None] /\ notified = [u \in Users |-> None]
          /\ bell = [u \in Users |-> {}] /\ told = [u \in Users |-> {}] /\ seen = [u \in Users |-> {}]
          /\ pc = [s \in Slots |-> "idle"] /\ job = [s \in Slots |-> C!Idle]
      BY <1>1 DEF C!Init
    <2>2. None \in Instants /\ now \in 0..MaxTime
      BY <2>1, ChatConstants DEF C!Constants, Instants
    <2>3. lastRead \in [Users -> Instants] /\ notified \in [Users -> Instants]
      BY <2>1, <2>2
    <2>4. \A s \in Slots : IsNote(job[s]) /\ Served(pc[s], job[s])
      BY <2>1, <1>2 DEF Served
    <2> QED
      BY <2>1, <2>2, <2>3, <2>4 DEF ChatTyped, ChatSteps
  <1> QED
    BY <1>1, <1>3 DEF C!Init, C!NobodyMissed, ChatInv, Opened, Notifying

(* A step that takes one request on, and leaves the others where they are. *)
LEMMA ChatGoes ==
    ASSUME ChatTyped, now' \in now..MaxTime, NEW s \in Slots, NEW step \in ChatSteps, NEW j,
           IsNote(j), Served(step, j)', C!Go(s, step, j)
    PROVE  /\ pc' \in [Slots -> ChatSteps] /\ job' = [t \in Slots |-> job'[t]]
           /\ \A t \in Slots : IsNote(job'[t]) /\ Served(pc[t], job[t])'
           /\ pc'[s] = step /\ job'[s] = j
           /\ \A t \in Slots \ {s} : pc'[t] = pc[t] /\ job'[t] = job[t]
  <1>1. /\ pc' \in [Slots -> ChatSteps] /\ job' = [t \in Slots |-> job'[t]]
        /\ pc'[s] = step /\ job'[s] = j
        /\ \A t \in Slots \ {s} : pc'[t] = pc[t] /\ job'[t] = job[t]
    BY DEF ChatTyped, C!Go
  <1>2. now \in Int /\ now \in 0..MaxTime
    BY DEF ChatTyped
  <1>3. \A t \in Slots \ {s} : Served(pc[t], job[t]) => Served(pc[t], job[t])'
    BY <1>1, <1>2 DEF Served, Instants
  <1>4. IsNote(job'[s]) /\ Served(pc[s], job[s])'
    BY <1>1 DEF Served
  <1>5. \A t \in Slots \ {s} : IsNote(job'[t]) /\ Served(pc[t], job[t])'
    BY <1>1, <1>3 DEF ChatTyped
  <1> QED
    BY <1>1, <1>4, <1>5

(* What a request knows of who was told stays true as more are told.       *)
LEMMA ToldStays ==
    ASSUME NEW step, NEW j, Notifying(step, j), \A u \in Users : told[u] \subseteq told'[u],
           j.owed \subseteq Users, j.due \subseteq Users
    PROVE  Notifying(step, j)'
  BY DEF Notifying, Recent

LEMMA NewsStays ==
    ASSUME C!NobodyMissed, settled' = settled, \A u \in Users : told[u] \subseteq told'[u], ChatTyped
    PROVE  C!NobodyMissed'
  BY DEF C!NobodyMissed, ChatTyped

LEMMA ChatTick == ASSUME ChatInv, C!Tick PROVE ChatInv'
  <1>1. ChatTyped'
    <2>1. now' \in 0..MaxTime /\ \A i \in 1..now : i \in 1..now'
      BY ChatConstants DEF C!Constants, C!Tick, ChatInv, ChatTyped
    <2>2. \A s \in Slots : Served(pc[s], job[s]) => Served(pc[s], job[s])'
      BY <2>1 DEF Served, C!Tick
    <2> QED
      BY <2>1, <2>2 DEF ChatInv, ChatTyped, C!Tick, IsNote
  <1> QED
    BY <1>1 DEF ChatInv, C!Tick, Opened, Notifying, Recent, C!NobodyMissed

LEMMA ChatStart == ASSUME ChatInv, NEW s \in Slots, NEW u \in Users, C!Start(s, u) PROVE ChatInv'
  <1>1. PICK sends \in BOOLEAN :
            C!Go(s, "commit", [C!Idle EXCEPT !.by = u, !.at = now + 1, !.marker = lastRead[u], !.sends = sends])
    BY DEF C!Start
  <1>2. PICK j : j = [C!Idle EXCEPT !.by = u, !.at = now + 1, !.marker = lastRead[u], !.sends = sends]
    OBVIOUS
  <1>3. ChatTyped /\ now' = now + 1 /\ now' \in now..MaxTime /\ now' \in 0..MaxTime
    BY ChatConstants DEF C!Constants, C!Start, ChatInv, ChatTyped
  <1>4. IsNote(j) /\ Served("commit", j)'
    <2>1. /\ j = [by |-> u, at |-> now + 1, marker |-> lastRead[u], sends |-> sends, owed |-> {}, due |-> {},
                  left |-> {}, rows |-> {}]
      BY <1>2 DEF C!Idle
    <2>2. lastRead[u] \in Instants /\ now + 1 \in 1..now'
      BY <1>3 DEF ChatTyped
    <2> QED
      BY <2>1, <2>2 DEF IsNote, Served
  <1>5. C!Go(s, "commit", j) /\ "commit" \in ChatSteps
    BY <1>1, <1>2 DEF ChatSteps
  <1>6. /\ pc' \in [Slots -> ChatSteps] /\ job' = [t \in Slots |-> job'[t]]
        /\ \A t \in Slots : IsNote(job'[t]) /\ Served(pc[t], job[t])'
        /\ pc'[s] = "commit" /\ job'[s] = j
        /\ \A t \in Slots \ {s} : pc'[t] = pc[t] /\ job'[t] = job[t]
    BY <1>3, <1>4, <1>5, ChatGoes
  <1>7. UNCHANGED <<alone, messages, lastRead, bell, notified, told, seen, settled>>
    BY DEF C!Start
  <1>8. ChatTyped'
    BY <1>3, <1>6, <1>7 DEF ChatTyped
  <1>9. \A t \in Slots : Notifying(pc[t], job[t])'
    BY <1>6, <1>7 DEF ChatInv, Notifying, Recent
  <1> QED
    BY <1>7, <1>8, <1>9 DEF ChatInv, Opened, C!NobodyMissed

(* The message and the marker: nobody is told yet.                         *)
LEMMA ChatCommit == ASSUME ChatInv, NEW s \in Slots, C!Commit(s) PROVE ChatInv'
  <1>1. PICK j : j = job[s]
    OBVIOUS
  <1>2. ChatTyped /\ IsNote(j) /\ Served("commit", j) /\ pc[s] = "commit"
    BY <1>1 DEF ChatInv, ChatTyped, C!Commit, Served
  <1>3. UNCHANGED <<alone, now, bell, notified, told, settled>> /\ now' \in now..MaxTime
    BY <1>2 DEF C!Commit, ChatTyped
  <1>4. j.by \in Users /\ j.at \in 1..MaxTime
    BY <1>2, ChatConstants DEF C!Constants, Served, ChatTyped
  <1>5. PICK step \in {"idle", "clear"} : \E k \in {j, C!Idle} : C!Go(s, step, k) /\ (step = "clear" => k = j)
    BY <1>1, <1>2 DEF C!Commit, C!Done
  <1>6. PICK k \in {j, C!Idle} : C!Go(s, step, k) /\ (step = "clear" => k = j)
    BY <1>5
  <1>7. IsNote(k) /\ Served(step, k)' /\ step \in ChatSteps
    <2>1. IsNote(C!Idle)
      BY DEF IsNote, C!Idle
    <2> QED
      BY <1>2, <1>3, <1>5, <1>6, <2>1 DEF Served, ChatSteps
  <1>8. /\ pc' \in [Slots -> ChatSteps] /\ job' = [t \in Slots |-> job'[t]]
        /\ \A t \in Slots : IsNote(job'[t]) /\ Served(pc[t], job[t])'
        /\ pc'[s] = step /\ job'[s] = k
        /\ \A t \in Slots \ {s} : pc'[t] = pc[t] /\ job'[t] = job[t]
    BY <1>2, <1>3, <1>6, <1>7, ChatGoes
  <1>9. messages' \subseteq [from : Users, at : 1..MaxTime]
    BY <1>1, <1>2, <1>4 DEF C!Commit, ChatTyped
  <1>10. lastRead' \in [Users -> Instants] /\ DOMAIN seen' = Users /\ seen' = [u \in Users |-> seen'[u]]
    <2>1. j.at \in Instants
      BY <1>4 DEF Instants
    <2> QED
      BY <1>1, <1>2, <1>4, <2>1 DEF C!Commit, ChatTyped
  <1>11. ChatTyped'
    BY <1>2, <1>3, <1>8, <1>9, <1>10 DEF ChatTyped
  <1>12. \A t \in Slots : Notifying(pc[t], job[t])'
    BY <1>3, <1>5, <1>8 DEF ChatInv, Notifying, Recent
  <1> QED
    BY <1>3, <1>11, <1>12 DEF ChatInv, Opened, C!NobodyMissed

LEMMA ChatClear == ASSUME ChatInv, NEW s \in Slots, C!Clear(s) PROVE ChatInv'
  <1>1. PICK j : j = job[s]
    OBVIOUS
  <1>2. ChatTyped /\ IsNote(j) /\ Served("clear", j) /\ pc[s] = "clear"
    BY <1>1 DEF ChatInv, ChatTyped, C!Clear, Served
  <1>3. UNCHANGED <<alone, now, messages, lastRead, notified, told, seen, settled>> /\ now' \in now..MaxTime
    BY <1>2 DEF C!Clear, ChatTyped
  <1>5. PICK step \in {"idle", "members"} : \E k \in {j, C!Idle} : C!Go(s, step, k) /\ (step = "members" => k = j)
    BY <1>1, <1>2 DEF C!Clear, C!Done
  <1>6. PICK k \in {j, C!Idle} : C!Go(s, step, k) /\ (step = "members" => k = j)
    BY <1>5
  <1>7. IsNote(k) /\ Served(step, k)' /\ step \in ChatSteps
    <2>1. IsNote(C!Idle)
      BY DEF IsNote, C!Idle
    <2> QED
      BY <1>2, <1>3, <1>5, <1>6, <2>1 DEF Served, ChatSteps
  <1>8. /\ pc' \in [Slots -> ChatSteps] /\ job' = [t \in Slots |-> job'[t]]
        /\ \A t \in Slots : IsNote(job'[t]) /\ Served(pc[t], job[t])'
        /\ pc'[s] = step /\ job'[s] = k
        /\ \A t \in Slots \ {s} : pc'[t] = pc[t] /\ job'[t] = job[t]
    BY <1>2, <1>3, <1>6, <1>7, ChatGoes
  <1>9. bell' \in [Users -> SUBSET (0..MaxTime)]
    BY <1>1, <1>2 DEF C!Clear, ChatTyped
  <1>11. ChatTyped'
    BY <1>2, <1>3, <1>8, <1>9 DEF ChatTyped
  <1>12. \A t \in Slots : Notifying(pc[t], job[t])'
    BY <1>3, <1>5, <1>8 DEF ChatInv, Notifying, Recent
  <1> QED
    BY <1>3, <1>11, <1>12 DEF ChatInv, Opened, C!NobodyMissed

(* Who is owed and not due was told within the window.                     *)
LEMMA ChatMembers == ASSUME ChatInv, NEW s \in Slots, C!Members(s) PROVE ChatInv'
  <1>1. PICK j : j = job[s]
    OBVIOUS
  <1> DEFINE owed == {u \in Users \ {j.by} : <<u, j.by>> \notin blocks}
             due  == {u \in owed : notified[u] = None \/ notified[u] <= j.at - Window}
             note == [j EXCEPT !.owed = owed, !.due = due, !.left = due]
  <1>2. ChatTyped /\ IsNote(j) /\ Served("members", j) /\ pc[s] = "members" /\ Opened
    BY <1>1 DEF ChatInv, ChatTyped, C!Members, Served
  <1>3. UNCHANGED <<alone, now, messages, lastRead, bell, notified, told, seen>> /\ now' \in now..MaxTime
    BY <1>2 DEF C!Members, ChatTyped
  <1>4. j.at \in 1..MaxTime /\ Window \in Nat \ {0} /\ None \notin Nat
    BY <1>2, ChatConstants DEF C!Constants, Served, ChatTyped
  <1>5. \A u \in owed \ due : Recent(u, j.at)
    <2> SUFFICES ASSUME NEW u \in owed \ due PROVE Recent(u, j.at)
      OBVIOUS
    <2>1. u \in Users /\ notified[u] \in Instants /\ notified[u] # None /\ ~(notified[u] <= j.at - Window)
      BY <1>2 DEF ChatTyped
    <2>2. notified[u] \in told[u] /\ notified[u] \in Int
      BY <1>2, <2>1 DEF Opened, Instants
    <2> QED
      BY <2>1, <2>2, <1>4 DEF Recent
  <1>6. CASE due = {}
    <2>1. C!Go(s, "idle", C!Idle) /\ settled' = settled \cup {[at |-> j.at, owed |-> owed]}
      BY <1>1, <1>6 DEF C!Members, C!Done, C!Due
    <2>2. IsNote(C!Idle) /\ Served("idle", C!Idle)' /\ "idle" \in ChatSteps
      BY DEF IsNote, C!Idle, Served, ChatSteps
    <2>3. /\ pc' \in [Slots -> ChatSteps] /\ job' = [t \in Slots |-> job'[t]]
          /\ \A t \in Slots : IsNote(job'[t]) /\ Served(pc[t], job[t])'
          /\ pc'[s] = "idle" /\ \A t \in Slots \ {s} : pc'[t] = pc[t] /\ job'[t] = job[t]
      BY <1>2, <1>3, <2>1, <2>2, ChatGoes
    <2>4. ChatTyped'
      <3>1. [at |-> j.at, owed |-> owed] \in [at : 1..MaxTime, owed : SUBSET Users]
        BY <1>4
      <3> QED
        BY <1>2, <1>3, <2>1, <2>3, <3>1 DEF ChatTyped
    <2>5. \A t \in Slots : Notifying(pc[t], job[t])'
      BY <1>3, <2>3 DEF ChatInv, Notifying, Recent
    <2>6. C!NobodyMissed'
      <3>1. \A u \in owed : Recent(u, j.at)
        BY <1>5, <1>6
      <3> HIDE DEF owed
      <3>2. PICK m : m = [at |-> j.at, owed |-> owed]
        OBVIOUS
      <3>3. m.at = j.at /\ m.owed = owed /\ settled' = settled \cup {m}
        BY <2>1, <3>2
      <3> QED
        BY <1>3, <3>1, <3>3 DEF ChatInv, C!NobodyMissed, Recent
    <2> QED
      BY <1>3, <2>4, <2>5, <2>6 DEF ChatInv, Opened
  <1>7. CASE due # {}
    <2>1. C!Go(s, "push", note) /\ settled' = settled
      BY <1>1, <1>7 DEF C!Members, C!Due
    <2>2. PICK k : k = note
      OBVIOUS
    <2>3. /\ k = [by |-> j.by, at |-> j.at, marker |-> j.marker, sends |-> j.sends, owed |-> owed, due |-> due,
                  left |-> due, rows |-> j.rows]
      BY <1>2, <2>2 DEF IsNote
    <2>4. owed \subseteq Users /\ due \subseteq owed
      OBVIOUS
    <2> HIDE DEF owed, due
    <2>5. IsNote(k) /\ Served("push", k)' /\ "push" \in ChatSteps
      BY <1>2, <1>3, <2>3, <2>4 DEF IsNote, Served, ChatSteps
    <2>6. /\ pc' \in [Slots -> ChatSteps] /\ job' = [t \in Slots |-> job'[t]]
          /\ \A t \in Slots : IsNote(job'[t]) /\ Served(pc[t], job[t])'
          /\ pc'[s] = "push" /\ job'[s] = k /\ \A t \in Slots \ {s} : pc'[t] = pc[t] /\ job'[t] = job[t]
      BY <1>2, <1>3, <2>1, <2>2, <2>5, ChatGoes
    <2>7. ChatTyped'
      BY <1>2, <1>3, <2>1, <2>6 DEF ChatTyped
    <2>8. Notifying("push", k)'
      BY <1>3, <1>5, <2>3, <2>4 DEF Notifying, Recent
    <2>9. \A t \in Slots : Notifying(pc[t], job[t])'
      BY <1>3, <2>6, <2>8 DEF ChatInv, Notifying, Recent
    <2> QED
      BY <1>3, <2>1, <2>7, <2>9 DEF ChatInv, Opened, C!NobodyMissed
  <1> QED
    BY <1>6, <1>7

LEMMA ChatPush == ASSUME ChatInv, NEW s \in Slots, C!Push(s) PROVE ChatInv'
  <1>1. PICK j : j = job[s]
    OBVIOUS
  <1>2. ChatTyped /\ IsNote(j) /\ Served("push", j) /\ pc[s] = "push" /\ Notifying("push", j)
    BY <1>1 DEF ChatInv, ChatTyped, C!Push, Served
  <1>3. UNCHANGED <<alone, now, messages, lastRead, notified, seen, settled>> /\ now' \in now..MaxTime
    <2>1. UNCHANGED <<alone, now, messages, lastRead, notified, seen, settled>>
      BY DEF C!Push
    <2> QED
      BY <1>2, <2>1 DEF ChatTyped
  <1>4. now \in 0..MaxTime /\ j.at \in 1..MaxTime
    BY <1>2, ChatConstants DEF C!Constants, Served, ChatTyped
  <1>5. ASSUME NEW u \in j.left, NEW step \in {"push", "windows"},
               step = "windows" => j.left = {u},
               bell' = [bell EXCEPT ![u] = @ \cup {now}], told' = [told EXCEPT ![u] = @ \cup {j.at}],
               C!Go(s, step, [j EXCEPT !.left = @ \ {u}])
        PROVE ChatInv'
    <2>1. PICK k : k = [j EXCEPT !.left = @ \ {u}]
      OBVIOUS
    <2>2. k = [by |-> j.by, at |-> j.at, marker |-> j.marker, sends |-> j.sends, owed |-> j.owed, due |-> j.due,
              left |-> j.left \ {u}, rows |-> j.rows]
      BY <1>2, <2>1 DEF IsNote
    <2>3. IsNote(k) /\ Served(step, k)' /\ step \in ChatSteps
      BY <1>2, <1>3, <2>2 DEF IsNote, Served, ChatSteps
    <2>4. /\ pc' \in [Slots -> ChatSteps] /\ job' = [t \in Slots |-> job'[t]]
          /\ \A t \in Slots : IsNote(job'[t]) /\ Served(pc[t], job[t])'
          /\ pc'[s] = step /\ job'[s] = k /\ \A t \in Slots \ {s} : pc'[t] = pc[t] /\ job'[t] = job[t]
      BY <1>2, <1>3, <1>5, <2>1, <2>3, ChatGoes
    <2>5. u \in Users /\ bell' \in [Users -> SUBSET (0..MaxTime)] /\ told' \in [Users -> SUBSET (1..MaxTime)]
      BY <1>2, <1>4, <1>5 DEF ChatTyped, IsNote
    <2>6. \A v \in Users : told'[v] = IF v = u THEN told[v] \cup {j.at} ELSE told[v]
      BY <1>2, <1>5 DEF ChatTyped
    <2>7. ChatTyped'
      BY <1>2, <1>3, <2>4, <2>5 DEF ChatTyped
    <2>8. Notifying("push", j)'
      BY <1>2, <2>6, ToldStays DEF IsNote
    <2>9. Notifying(step, k)'
      BY <1>5, <2>2, <2>5, <2>6, <2>8 DEF Notifying, Recent
    <2>10. \A t \in Slots \ {s} : Notifying(pc[t], job[t])'
      <3> SUFFICES ASSUME NEW t \in Slots \ {s} PROVE Notifying(pc[t], job[t])'
        OBVIOUS
      <3>1. Notifying(pc[t], job[t]) /\ job[t].owed \subseteq Users /\ job[t].due \subseteq Users
        BY <1>2 DEF ChatInv, ChatTyped, IsNote
      <3> QED
        BY <2>4, <2>6, <3>1 DEF Notifying, Recent
    <2>11. C!NobodyMissed' /\ Opened'
      BY <1>2, <1>3, <2>6, NewsStays DEF ChatInv, Opened
    <2> QED
      BY <2>4, <2>7, <2>9, <2>10, <2>11 DEF ChatInv
  <1>6. ASSUME C!Done(s), UNCHANGED <<bell, told>> PROVE ChatInv'
    <2>1. IsNote(C!Idle) /\ Served("idle", C!Idle)' /\ "idle" \in ChatSteps /\ C!Go(s, "idle", C!Idle)
      BY <1>6 DEF IsNote, C!Idle, Served, ChatSteps, C!Done
    <2>2. /\ pc' \in [Slots -> ChatSteps] /\ job' = [t \in Slots |-> job'[t]]
          /\ \A t \in Slots : IsNote(job'[t]) /\ Served(pc[t], job[t])'
          /\ pc'[s] = "idle" /\ \A t \in Slots \ {s} : pc'[t] = pc[t] /\ job'[t] = job[t]
      BY <1>2, <1>3, <2>1, ChatGoes
    <2>3. ChatTyped'
      BY <1>2, <1>3, <1>6, <2>2 DEF ChatTyped
    <2>4. \A t \in Slots : Notifying(pc[t], job[t])'
      BY <1>3, <1>6, <2>2 DEF ChatInv, Notifying, Recent
    <2> QED
      BY <1>3, <1>6, <2>3, <2>4 DEF ChatInv, Opened, C!NobodyMissed
  <1>7. \/ C!Done(s) /\ UNCHANGED <<bell, told>>
        \/ \E u \in j.left : \E step \in {"push", "windows"} :
               /\ step = "windows" => j.left = {u}
               /\ bell' = [bell EXCEPT ![u] = @ \cup {now}] /\ told' = [told EXCEPT ![u] = @ \cup {j.at}]
               /\ C!Go(s, step, [j EXCEPT !.left = @ \ {u}])
    BY <1>1 DEF C!Push
  <1> QED
    BY <1>5, <1>6, <1>7

LEMMA ChatWindows == ASSUME ChatInv, NEW s \in Slots, C!Windows(s) PROVE ChatInv'
  <1>1. PICK j : j = job[s]
    OBVIOUS
  <1>2. PICK k : k = [job[s] EXCEPT !.rows = {u \in job[s].due : notified[u] # None}]
    OBVIOUS
  <1>3. ChatTyped /\ IsNote(j) /\ Served("windows", j) /\ pc[s] = "windows" /\ Notifying("windows", j)
    BY <1>1 DEF ChatInv, ChatTyped, C!Windows, Served
  <1>4. UNCHANGED <<alone, now, messages, lastRead, bell, notified, told, seen, settled>> /\ C!Go(s, "mark", k)
    BY <1>2 DEF C!Windows
  <1>5. now' \in now..MaxTime
    BY <1>3, <1>4 DEF ChatTyped
  <1>6. k = [by |-> j.by, at |-> j.at, marker |-> j.marker, sends |-> j.sends, owed |-> j.owed, due |-> j.due,
              left |-> j.left, rows |-> k.rows]
    BY <1>1, <1>2, <1>3 DEF IsNote
  <1>7. /\ k.by = j.by /\ k.at = j.at /\ k.marker = j.marker /\ k.sends = j.sends /\ k.owed = j.owed
        /\ k.due = j.due /\ k.left = j.left
    BY <1>6
  <1>8. IsNote(k) /\ Served("mark", k)' /\ "mark" \in ChatSteps
    BY <1>3, <1>4, <1>6, <1>7 DEF IsNote, Served, ChatSteps
  <1>9. /\ pc' \in [Slots -> ChatSteps] /\ job' = [t \in Slots |-> job'[t]]
        /\ \A t \in Slots : IsNote(job'[t]) /\ Served(pc[t], job[t])'
        /\ pc'[s] = "mark" /\ job'[s] = k /\ \A t \in Slots \ {s} : pc'[t] = pc[t] /\ job'[t] = job[t]
    BY <1>3, <1>4, <1>5, <1>8, ChatGoes
  <1>10. ChatTyped'
    BY <1>3, <1>4, <1>9 DEF ChatTyped
  <1>11. \A t \in Slots : Notifying(pc[t], job[t])'
    BY <1>3, <1>4, <1>7, <1>9 DEF ChatInv, Notifying, Recent
  <1> QED
    BY <1>4, <1>10, <1>11 DEF ChatInv, Opened, C!NobodyMissed

LEMMA ChatMark == ASSUME ChatInv, NEW s \in Slots, C!Mark(s) PROVE ChatInv'
  <1>1. PICK j : j = job[s]
    OBVIOUS
  <1>2. ChatTyped /\ IsNote(j) /\ Served("mark", j) /\ pc[s] = "mark" /\ Notifying("mark", j)
    BY <1>1 DEF ChatInv, ChatTyped, C!Mark, Served
  <1>3. /\ UNCHANGED <<alone, now, messages, lastRead, bell, told, seen>> /\ C!Go(s, "idle", C!Idle)
        /\ settled' = settled \cup {[at |-> j.at, owed |-> j.owed]}
    BY <1>1 DEF C!Mark, C!Done
  <1>4. now' \in now..MaxTime /\ j.at \in 1..MaxTime
    BY <1>2, <1>3, ChatConstants DEF C!Constants, ChatTyped, Served
  <1>5. IsNote(C!Idle) /\ Served("idle", C!Idle)' /\ "idle" \in ChatSteps
    BY DEF IsNote, C!Idle, Served, ChatSteps
  <1>6. /\ pc' \in [Slots -> ChatSteps] /\ job' = [t \in Slots |-> job'[t]]
        /\ \A t \in Slots : IsNote(job'[t]) /\ Served(pc[t], job[t])'
        /\ pc'[s] = "idle" /\ \A t \in Slots \ {s} : pc'[t] = pc[t] /\ job'[t] = job[t]
    BY <1>2, <1>3, <1>4, <1>5, ChatGoes
  <1>7. \A u \in Users : notified'[u] = notified[u] \/ (u \in j.due /\ notified'[u] = j.at)
    BY <1>1 DEF C!Mark
  <1>8. notified' \in [Users -> Instants]
    <2>1. notified' = [u \in Users |-> notified'[u]] 
      BY DEF C!Mark
    <2>2. \A u \in Users : notified'[u] \in Instants
      BY <1>2, <1>4, <1>7 DEF ChatTyped, Instants
    <2> QED
      BY <2>1, <2>2
  <1>9. PICK m : m = [at |-> j.at, owed |-> j.owed]
    OBVIOUS
  <1>10. m \in [at : 1..MaxTime, owed : SUBSET Users] /\ settled' = settled \cup {m}
    BY <1>2, <1>3, <1>4, <1>9 DEF IsNote
  <1>11. ChatTyped'
    BY <1>2, <1>3, <1>6, <1>8, <1>10 DEF ChatTyped
  <1>12. \A t \in Slots : Notifying(pc[t], job[t])'
    BY <1>3, <1>6 DEF ChatInv, Notifying, Recent
  <1>13. Opened'
    BY <1>2, <1>3, <1>7 DEF ChatInv, Opened, Notifying
  <1>14. C!NobodyMissed'
    <2>1. \A u \in j.owed : Recent(u, j.at)
      <3> SUFFICES ASSUME NEW u \in j.due PROVE Recent(u, j.at)
        BY <1>2 DEF Notifying
      <3>1. j.at \in told[u] /\ j.at > j.at - Window
        BY <1>2, <1>4, ChatConstants DEF Notifying, C!Constants
      <3> QED
        BY <3>1 DEF Recent
    <2> QED
      BY <1>3, <1>9, <1>10, <2>1 DEF ChatInv, C!NobodyMissed, Recent
  <1> QED
    BY <1>11, <1>12, <1>13, <1>14 DEF ChatInv

LEMMA ChatNext == ASSUME ChatInv, [C!Next]_C!vars PROVE ChatInv'
  <1>1. ASSUME NEW u \in Users, NEW v \in Users, C!Block(u, v) PROVE ChatInv'
    BY <1>1 DEF C!Block, ChatInv, ChatTyped, Served, Opened, Notifying, Recent, C!NobodyMissed
  <1>2. CASE UNCHANGED C!vars
    BY <1>2 DEF C!vars, ChatInv, ChatTyped, Served, Opened, Notifying, Recent, C!NobodyMissed
  <1> QED
    BY <1>1, <1>2, ChatTick, ChatStart, ChatCommit, ChatClear, ChatMembers, ChatPush, ChatWindows, ChatMark
       DEF C!Next

(* In every state of a chat, whoever is owed a message and is in a quiet   *)
(* window was told of another one less than a window before.               *)
THEOREM ChatInvariant == Spec => [](part = "chat" => ChatInv)
  <1>1. Init => (part = "chat" => ChatInv)
    BY ChatInit
  <1>2. (part = "chat" => ChatInv) /\ [Next]_vars => (part = "chat" => ChatInv)'
    <2> SUFFICES ASSUME part = "chat" => ChatInv, [Next]_vars, part' = "chat" PROVE ChatInv'
      OBVIOUS
    <2>1. part = "chat"
      BY DEF Next, vars
    <2>2. C!Next \/ UNCHANGED C!vars
      BY <2>1 DEF Next, vars, C!vars, cvars
    <2> QED
      BY <2>1, <2>2, ChatNext
  <1> QED
    BY <1>1, <1>2, PTL DEF Spec

--------------------------------------------------------------------------------
(* The chat, one request after another                                     *)

ChatSingle == \A s, t \in Slots : pc[s] # "idle" /\ pc[t] # "idle" => s = t
ChatPast   == \A u \in Users : (lastRead[u] # None => lastRead[u] <= now) /\ \A t \in told[u] : t <= now

(* The request that is served is the last there was.                       *)
ChatTurn(step, j) ==
    step # "idle" =>
        /\ \A u \in Users \ {j.by} : lastRead[u] # None => lastRead[u] < j.at
        /\ step = "commit" => lastRead[j.by] = j.marker /\ (j.marker # None => j.marker < j.at)
        /\ step # "commit" => lastRead[j.by] = j.at
        /\ step \in {"push", "windows", "mark"} => j.by \notin j.owed
        /\ step \in {"commit", "clear", "members"} => \A u \in Users : \A t \in told[u] : t < j.at
        /\ step \in {"push", "windows", "mark"} =>
               \A u \in j.due : notified[u] = None \/ notified[u] <= j.at - Window
        /\ step = "mark" => j.rows = {u \in j.due : notified[u] # None}

(* Who was told is in the window it opened, or in line for one.            *)
InLine(u, t) ==
    \E s \in Slots : pc[s] \in {"push", "windows", "mark"} /\ t = job[s].at /\ u \in job[s].due
Opens == \A u \in Users : \A t \in told[u] : (notified[u] # None /\ t <= notified[u]) \/ InLine(u, t)

InTurns ==
    /\ ChatSingle /\ ChatPast
    /\ \A s \in Slots : ChatTurn(pc[s], job[s])
    /\ C!BellIsUnread /\ C!NewsIsUnread
    /\ Faults = {} => Opens /\ C!Quiet

LEMMA InTurnsInit == ASSUME Init, part = "chat" PROVE InTurns
  BY DEF Init, C!Init, InTurns, ChatSingle, ChatPast, ChatTurn, C!BellIsUnread, C!NewsIsUnread, Opens, C!Quiet

(* A step of the only request that is served.                              *)
LEMMA AloneGoes ==
    ASSUME ChatTyped, ChatSingle, NEW s \in Slots, pc[s] # "idle" \/ \A t \in Slots : pc[t] = "idle",
           NEW step, NEW j, C!Go(s, step, j)
    PROVE  /\ pc'[s] = step /\ job'[s] = j /\ \A t \in Slots \ {s} : pc[t] = "idle" /\ pc'[t] = "idle"
           /\ ChatSingle'
  BY DEF ChatTyped, ChatSingle, C!Go

LEMMA TurnTick == ASSUME ChatInv, InTurns, C!Tick PROVE InTurns'
  <1>1. now \in Int /\ now' = now + 1
    BY DEF C!Tick, ChatInv, ChatTyped
  <1>2. \A u \in Users : lastRead[u] \in Instants /\ told[u] \subseteq Int
    BY DEF ChatInv, ChatTyped
  <1>3. ChatPast'
    BY <1>1, <1>2 DEF InTurns, ChatPast, C!Tick, Instants
  <1> QED
    BY <1>3 DEF C!Tick, InTurns, ChatSingle, ChatTurn, C!BellIsUnread, C!NewsIsUnread, Opens, InLine, C!Quiet

LEMMA TurnStart ==
    ASSUME ChatInv, InTurns, alone, NEW s \in Slots, NEW u \in Users, C!Start(s, u)
    PROVE  InTurns'
  <1>1. PICK sends \in BOOLEAN :
            C!Go(s, "commit", [C!Idle EXCEPT !.by = u, !.at = now + 1, !.marker = lastRead[u], !.sends = sends])
    BY DEF C!Start
  <1>2. PICK j : j = [C!Idle EXCEPT !.by = u, !.at = now + 1, !.marker = lastRead[u], !.sends = sends]
    OBVIOUS
  <1>3. j.by = u /\ j.at = now + 1 /\ j.marker = lastRead[u]
    BY <1>2 DEF C!Idle
  <1>4. /\ UNCHANGED <<alone, messages, lastRead, bell, notified, told, seen, settled>>
        /\ now \in Int /\ now' = now + 1 /\ \A t \in Slots : pc[t] = "idle"
    BY DEF C!Start, ChatInv, ChatTyped
  <1>5. pc'[s] = "commit" /\ job'[s] = j /\ (\A t \in Slots \ {s} : pc'[t] = "idle") /\ ChatSingle'
    BY <1>1, <1>2, <1>4, AloneGoes DEF ChatInv, InTurns
  <1>6. \A v \in Users : lastRead[v] \in Instants /\ told[v] \subseteq Int
    BY DEF ChatInv, ChatTyped
  <1>7. ChatPast'
    BY <1>4, <1>6 DEF InTurns, ChatPast, Instants
  <1>8. ChatTurn("commit", j)'
    BY <1>3, <1>4, <1>6 DEF InTurns, ChatPast, ChatTurn, Instants
  <1>9. \A t \in Slots : ChatTurn(pc[t], job[t])'
    BY <1>5, <1>8 DEF ChatTurn
  <1>10. C!BellIsUnread' /\ C!NewsIsUnread'
    BY <1>4, <1>5 DEF InTurns, C!BellIsUnread, C!NewsIsUnread
  <1>11. Faults = {} => Opens' /\ C!Quiet'
    BY <1>4, <1>5 DEF InTurns, Opens, InLine, C!Quiet
  <1> QED
    BY <1>5, <1>7, <1>9, <1>10, <1>11 DEF InTurns

LEMMA TurnCommit == ASSUME ChatInv, InTurns, NEW s \in Slots, C!Commit(s) PROVE InTurns'
  <1>1. PICK j : j = job[s]
    OBVIOUS
  <1>2. ChatTyped /\ IsNote(j) /\ Served("commit", j) /\ pc[s] = "commit" /\ ChatTurn("commit", j)
    BY <1>1 DEF ChatInv, ChatTyped, C!Commit, Served, InTurns
  <1>3. lastRead[j.by] = j.marker /\ j.by \in Users /\ j.at \in 1..now /\ j.at \in Nat /\ now \in Nat
    BY <1>2 DEF ChatTurn, Served, ChatTyped
  <1>4. /\ UNCHANGED <<alone, now, bell, notified, told, settled>> /\ C!Go(s, "clear", j)
        /\ messages' = IF j.sends THEN messages \cup {[from |-> j.by, at |-> j.at]} ELSE messages
        /\ lastRead' = [lastRead EXCEPT ![j.by] = IF j.marker = None \/ j.marker < j.at THEN j.at ELSE @]
        /\ seen' = [seen EXCEPT ![j.by] = messages]
    BY <1>1, <1>3 DEF C!Commit
  <1>5. \A u \in Users : lastRead'[u] = IF u = j.by THEN j.at ELSE lastRead[u]
    BY <1>2, <1>3, <1>4 DEF ChatTurn, ChatTyped
  <1>6. \A u \in Users : seen'[u] = IF u = j.by THEN messages ELSE seen[u]
    BY <1>2, <1>4 DEF ChatTyped
  <1>7. pc'[s] = "clear" /\ job'[s] = j /\ (\A t \in Slots \ {s} : pc[t] = "idle" /\ pc'[t] = "idle") /\ ChatSingle'
    BY <1>2, <1>4, AloneGoes DEF InTurns
  <1>8. \A v \in Users : lastRead[v] \in Instants /\ told[v] \subseteq Int
    BY <1>2 DEF ChatTyped
  <1>9. ChatPast'
    BY <1>3, <1>4, <1>5 DEF InTurns, ChatPast
  <1>10. ChatTurn("clear", j)'
    BY <1>2, <1>3, <1>4, <1>5 DEF ChatTurn
  <1>11. \A t \in Slots : ChatTurn(pc[t], job[t])'
    BY <1>7, <1>10 DEF ChatTurn
  <1>12. C!BellIsUnread'
    <2> SUFFICES ASSUME NEW u \in Users, u # j.by, NEW e \in bell[u], lastRead'[u] # None PROVE e > lastRead'[u]
      BY <1>4, <1>7 DEF C!BellIsUnread
    <2>1. \A t \in Slots : ~(pc[t] = "clear" /\ job[t].by = u)
      BY <1>2, <1>7
    <2> QED
      BY <1>5, <2>1 DEF InTurns, C!BellIsUnread
  <1>13. C!NewsIsUnread'
    <2> SUFFICES ASSUME NEW u \in Users, NEW m \in messages', m.from # u, m \notin seen'[u]
                 PROVE  lastRead'[u] = None \/ m.at > lastRead'[u]
      BY DEF C!NewsIsUnread
    <2>1. CASE u = j.by
      BY <1>4, <1>6, <2>1
    <2>2. CASE u # j.by /\ m \in messages
      BY <1>5, <1>6, <2>2 DEF InTurns, C!NewsIsUnread
    <2>3. CASE u # j.by /\ m \notin messages
      <3>1. m.at = j.at
        BY <1>4, <2>3
      <3>2. lastRead'[u] = lastRead[u] /\ (lastRead[u] # None => lastRead[u] < j.at) /\ lastRead[u] \in Instants
        BY <1>2, <1>5, <1>8, <2>3 DEF ChatTurn
      <3> QED
        BY <1>3, <3>1, <3>2 DEF Instants
    <2> QED
      BY <2>1, <2>2, <2>3
  <1>14. Faults = {} => Opens' /\ C!Quiet'
    BY <1>2, <1>4, <1>7 DEF InTurns, Opens, InLine, C!Quiet
  <1> QED
    BY <1>7, <1>9, <1>11, <1>12, <1>13, <1>14 DEF InTurns

LEMMA TurnClear == ASSUME ChatInv, InTurns, NEW s \in Slots, C!Clear(s) PROVE InTurns'
  <1>1. PICK j : j = job[s]
    OBVIOUS
  <1>2. ChatTyped /\ IsNote(j) /\ Served("clear", j) /\ pc[s] = "clear" /\ ChatTurn("clear", j)
    BY <1>1 DEF ChatInv, ChatTyped, C!Clear, Served, InTurns
  <1>3. PICK step \in {"idle", "members"}, k \in {j, C!Idle} : C!Go(s, step, k) /\ (step = "members" => k = j)
    BY <1>1, <1>2 DEF C!Clear, C!Done
  <1>4. UNCHANGED <<alone, now, messages, lastRead, notified, told, seen, settled>>
    BY DEF C!Clear
  <1>5. /\ pc'[s] = step /\ job'[s] = k /\ (\A t \in Slots \ {s} : pc[t] = "idle" /\ pc'[t] = "idle")
        /\ ChatSingle'
    BY <1>2, <1>3, AloneGoes DEF InTurns
  <1>6. \A u \in Users : bell'[u] = IF u = j.by THEN {e \in bell[u] : e > j.at} ELSE bell[u]
    BY <1>1, <1>2 DEF C!Clear, ChatTyped
  <1>7. ChatTurn(step, k)'
    BY <1>2, <1>3, <1>4 DEF ChatTurn
  <1>8. \A t \in Slots : ChatTurn(pc[t], job[t])'
    BY <1>5, <1>7 DEF ChatTurn
  <1>9. C!BellIsUnread'
    <2> SUFFICES ASSUME NEW u \in Users, NEW e \in bell'[u], lastRead[u] # None PROVE e > lastRead[u]
      BY <1>4 DEF C!BellIsUnread
    <2>1. CASE u = j.by
      BY <1>2, <1>6, <2>1 DEF ChatTurn
    <2>2. CASE u # j.by
      <3>1. \A t \in Slots : ~(pc[t] = "clear" /\ job[t].by = u)
        BY <1>1, <1>5, <2>2
      <3> QED
        BY <1>6, <2>2, <3>1 DEF InTurns, C!BellIsUnread
    <2> QED
      BY <2>1, <2>2
  <1>10. Faults = {} => Opens' /\ C!Quiet'
    BY <1>2, <1>4, <1>5 DEF InTurns, Opens, InLine, C!Quiet
  <1> QED
    BY <1>4, <1>5, <1>8, <1>9, <1>10 DEF InTurns, ChatPast, C!NewsIsUnread

LEMMA TurnMembers == ASSUME ChatInv, InTurns, NEW s \in Slots, C!Members(s) PROVE InTurns'
  <1>1. PICK j : j = job[s]
    OBVIOUS
  <1> DEFINE owed == {u \in Users \ {j.by} : <<u, j.by>> \notin blocks}
             due  == {u \in owed : notified[u] = None \/ notified[u] <= j.at - Window}
             note == [j EXCEPT !.owed = owed, !.due = due, !.left = due]
  <1>2. ChatTyped /\ IsNote(j) /\ Served("members", j) /\ pc[s] = "members" /\ ChatTurn("members", j)
    BY <1>1 DEF ChatInv, ChatTyped, C!Members, Served, InTurns
  <1>3. UNCHANGED <<alone, now, messages, lastRead, bell, notified, told, seen>>
    BY DEF C!Members
  <1>4. PICK k : k = note
    OBVIOUS
  <1>5. k.by = j.by /\ k.at = j.at /\ k.owed = owed /\ k.due = due
    BY <1>2, <1>4 DEF IsNote
  <1>6. C!Go(s, "idle", C!Idle) \/ C!Go(s, "push", k)
    BY <1>1, <1>4 DEF C!Members, C!Due, C!Done
  <1>7. PICK step \in {"idle", "push"} : \E i \in {k, C!Idle} : C!Go(s, step, i) /\ (step = "push" => i = k)
    BY <1>6
  <1>8. PICK i \in {k, C!Idle} : C!Go(s, step, i) /\ (step = "push" => i = k)
    BY <1>7
  <1>9. /\ pc'[s] = step /\ job'[s] = i /\ (\A t \in Slots \ {s} : pc[t] = "idle" /\ pc'[t] = "idle")
        /\ ChatSingle'
    BY <1>2, <1>8, AloneGoes DEF InTurns
  <1>10. j.by \notin owed /\ \A u \in due : notified[u] = None \/ notified[u] <= j.at - Window
    OBVIOUS
  <1> HIDE DEF owed, due
  <1>11. ChatTurn("push", k)'
    BY <1>2, <1>3, <1>5, <1>10 DEF ChatTurn
  <1>12. \A t \in Slots : ChatTurn(pc[t], job[t])'
    BY <1>7, <1>8, <1>9, <1>11 DEF ChatTurn
  <1>13. C!BellIsUnread'
    BY <1>2, <1>3, <1>7, <1>9 DEF InTurns, C!BellIsUnread
  <1>14. Faults = {} => Opens' /\ C!Quiet'
    BY <1>2, <1>3, <1>9 DEF InTurns, Opens, InLine, C!Quiet
  <1> QED
    BY <1>3, <1>9, <1>12, <1>13, <1>14 DEF InTurns, ChatPast, C!NewsIsUnread

LEMMA TurnPush == ASSUME ChatInv, InTurns, NEW s \in Slots, C!Push(s) PROVE InTurns'
  <1>1. PICK j : j = job[s]
    OBVIOUS
  <1>2. /\ ChatTyped /\ IsNote(j) /\ Served("push", j) /\ pc[s] = "push" /\ ChatTurn("push", j)
        /\ Notifying("push", j)
    BY <1>1 DEF ChatInv, ChatTyped, C!Push, Served, InTurns
  <1>3. UNCHANGED <<alone, now, messages, lastRead, notified, seen, settled>>
    BY DEF C!Push
  <1>4. now \in Nat /\ j.at \in 1..now /\ j.at \in Nat /\ j.by \in Users
    BY <1>2 DEF ChatTyped, Served
  <1>5. ASSUME NEW u \in j.left, NEW step \in {"push", "windows"},
               bell' = [bell EXCEPT ![u] = @ \cup {now}], told' = [told EXCEPT ![u] = @ \cup {j.at}],
               C!Go(s, step, [j EXCEPT !.left = @ \ {u}])
        PROVE InTurns'
    <2>1. PICK k : k = [j EXCEPT !.left = @ \ {u}]
      OBVIOUS
    <2>2. k.by = j.by /\ k.at = j.at /\ k.owed = j.owed /\ k.due = j.due
      BY <1>2, <2>1 DEF IsNote
    <2>3. /\ pc'[s] = step /\ job'[s] = k /\ (\A t \in Slots \ {s} : pc[t] = "idle" /\ pc'[t] = "idle")
          /\ ChatSingle'
      BY <1>2, <1>5, <2>1, AloneGoes DEF InTurns
    <2>4. u \in Users /\ u \in j.due /\ u # j.by
      BY <1>2, <1>5 DEF IsNote, Notifying, ChatTurn
    <2>5. \A v \in Users : /\ told'[v] = (IF v = u THEN told[v] \cup {j.at} ELSE told[v])
                            /\ bell'[v] = (IF v = u THEN bell[v] \cup {now} ELSE bell[v])
      BY <1>2, <1>5 DEF ChatTyped
    <2>6. \A v \in Users : told[v] \subseteq Int /\ notified[v] \in Instants /\ lastRead[v] \in Instants
      BY <1>2 DEF ChatTyped
    <2>7. ChatPast'
      <3>1. j.at <= now /\ ChatPast
        BY <1>4 DEF InTurns
      <3>2. \A v \in Users : \A t \in told'[v] : t \in told[v] \/ t = j.at
        BY <2>5
      <3>3. \A v \in Users : \A t \in told'[v] : t <= now
        BY <3>1, <3>2 DEF ChatPast
      <3> QED
        BY <1>3, <3>1, <3>3 DEF ChatPast
    <2>8. ChatTurn(step, k)'
      BY <1>2, <1>3, <2>2 DEF ChatTurn
    <2>9. \A t \in Slots : ChatTurn(pc[t], job[t])'
      BY <2>3, <2>8 DEF ChatTurn
    <2>10. C!BellIsUnread'
      <3> SUFFICES ASSUME NEW v \in Users, NEW e \in bell'[v], lastRead[v] # None PROVE e > lastRead[v]
        BY <1>3 DEF C!BellIsUnread
      <3>1. \A t \in Slots : ~(pc[t] = "clear" /\ job[t].by = v)
        BY <1>2, <2>3
      <3>2. e \in bell[v] \/ (v = u /\ e = now)
        BY <2>5
      <3>3. e \in bell[v] => e > lastRead[v]
        BY <3>1 DEF InTurns, C!BellIsUnread
      <3>4. v = u => lastRead[v] < j.at /\ lastRead[v] \in Int
        BY <1>2, <2>4, <2>6 DEF ChatTurn, Instants
      <3> QED
        BY <1>4, <3>2, <3>3, <3>4
    <2>11. ASSUME Faults = {} PROVE Opens' /\ C!Quiet'
      <3>1. Opens /\ C!Quiet
        BY <2>11 DEF InTurns
      <3>2. \A v, t : InLine(v, t) <=> t = j.at /\ v \in j.due
        BY <1>1, <1>2, <2>3 DEF InLine
      <3>3. \A v, t : InLine(v, t)' <=> t = j.at /\ v \in j.due
        BY <2>2, <2>3 DEF InLine
      <3>4. Opens'
        BY <1>3, <2>4, <2>5, <3>1, <3>2, <3>3 DEF Opens
      <3>5. notified[u] = None \/ notified[u] <= j.at - Window
        BY <1>2, <2>4 DEF ChatTurn
      <3>6. \A t \in told[u] : t = j.at \/ t <= j.at - Window
        <4> SUFFICES ASSUME NEW t \in told[u], t # j.at PROVE t <= j.at - Window
          OBVIOUS
        <4>1. notified[u] # None /\ t <= notified[u] /\ notified[u] \in Int /\ t \in Int
          BY <2>4, <2>6, <3>1, <3>2 DEF Opens, Instants
        <4> QED
          BY <1>4, <3>5, <4>1, ChatConstants DEF C!Constants
      <3>7. C!Quiet'
        <4> SUFFICES ASSUME NEW v \in Users, NEW t \in told'[v], NEW w \in told'[v], t < w PROVE w - t >= Window
          BY DEF C!Quiet
        <4>1. CASE t \in told[v] /\ w \in told[v]
          BY <3>1, <4>1 DEF C!Quiet
        <4>2. CASE ~(t \in told[v] /\ w \in told[v])
          <5>1. v = u /\ (t = j.at \/ w = j.at) /\ t \in told[u] \cup {j.at} /\ w \in told[u] \cup {j.at}
            BY <2>5, <4>2
          <5> QED
            BY <1>4, <2>4, <2>6, <3>6, <5>1, ChatConstants DEF C!Constants
        <4> QED
          BY <4>1, <4>2
      <3> QED
        BY <3>4, <3>7
    <2> QED
      BY <1>3, <2>3, <2>7, <2>9, <2>10, <2>11 DEF InTurns, C!NewsIsUnread
  <1>6. ASSUME C!Done(s), UNCHANGED <<bell, told>>, Faults # {} PROVE InTurns'
    <2>1. C!Go(s, "idle", C!Idle)
      BY <1>6 DEF C!Done
    <2>2. /\ pc'[s] = "idle" /\ (\A t \in Slots \ {s} : pc[t] = "idle" /\ pc'[t] = "idle") /\ ChatSingle'
      BY <1>2, <2>1, AloneGoes DEF InTurns
    <2>3. C!BellIsUnread'
      BY <1>2, <1>3, <1>6, <2>2 DEF InTurns, C!BellIsUnread
    <2> QED
      BY <1>3, <1>6, <2>2, <2>3 DEF InTurns, ChatPast, ChatTurn, C!NewsIsUnread
  <1>7. \/ C!Done(s) /\ UNCHANGED <<bell, told>> /\ Faults # {}
        \/ \E u \in j.left : \E step \in {"push", "windows"} :
               /\ bell' = [bell EXCEPT ![u] = @ \cup {now}] /\ told' = [told EXCEPT ![u] = @ \cup {j.at}]
               /\ C!Go(s, step, [j EXCEPT !.left = @ \ {u}])
    BY <1>1 DEF C!Push
  <1> QED
    BY <1>5, <1>6, <1>7

LEMMA TurnWindows == ASSUME ChatInv, InTurns, NEW s \in Slots, C!Windows(s) PROVE InTurns'
  <1>1. PICK j : j = job[s]
    OBVIOUS
  <1>2. /\ ChatTyped /\ IsNote(j) /\ Served("windows", j) /\ pc[s] = "windows" /\ ChatTurn("windows", j)
    BY <1>1 DEF ChatInv, ChatTyped, C!Windows, Served, InTurns
  <1>3. UNCHANGED <<alone, now, messages, lastRead, bell, notified, told, seen, settled>>
    BY DEF C!Windows
  <1>4. PICK k : k = [j EXCEPT !.rows = {u \in j.due : notified[u] # None}]
    OBVIOUS
  <1>5. /\ k.by = j.by /\ k.at = j.at /\ k.owed = j.owed /\ k.due = j.due
        /\ k.rows = {u \in j.due : notified[u] # None}
    BY <1>2, <1>4 DEF IsNote
  <1>6. C!Go(s, "mark", k)
    BY <1>1, <1>4 DEF C!Windows
  <1>7. /\ pc'[s] = "mark" /\ job'[s] = k /\ (\A t \in Slots \ {s} : pc[t] = "idle" /\ pc'[t] = "idle")
        /\ ChatSingle'
    BY <1>2, <1>6, AloneGoes DEF InTurns
  <1>8. ChatTurn("mark", k)'
    BY <1>2, <1>3, <1>5 DEF ChatTurn
  <1>9. \A t \in Slots : ChatTurn(pc[t], job[t])'
    BY <1>7, <1>8 DEF ChatTurn
  <1>10. C!BellIsUnread'
    BY <1>2, <1>3, <1>7 DEF InTurns, C!BellIsUnread
  <1>11. \A v, t : InLine(v, t) => InLine(v, t)'
    BY <1>1, <1>5, <1>7 DEF InLine
  <1>12. Faults = {} => Opens' /\ C!Quiet'
    BY <1>3, <1>11 DEF InTurns, Opens, C!Quiet
  <1> QED
    BY <1>3, <1>7, <1>9, <1>10, <1>12 DEF InTurns, ChatPast, C!NewsIsUnread

(* No rows collide, and whoever was due is in the window that opens.       *)
LEMMA TurnMark == ASSUME ChatInv, InTurns, NEW s \in Slots, C!Mark(s) PROVE InTurns'
  <1>1. PICK j : j = job[s]
    OBVIOUS
  <1>2. /\ ChatTyped /\ IsNote(j) /\ Served("mark", j) /\ pc[s] = "mark" /\ ChatTurn("mark", j)
    BY <1>1 DEF ChatInv, ChatTyped, C!Mark, Served, InTurns
  <1>3. UNCHANGED <<alone, now, messages, lastRead, bell, told, seen>> /\ C!Go(s, "idle", C!Idle)
    BY DEF C!Mark, C!Done
  <1>4. j.rows = {u \in j.due : notified[u] # None}
    BY <1>2 DEF ChatTurn
  <1>5. \A u \in Users : notified'[u] = IF u \in j.due THEN j.at ELSE notified[u]
    BY <1>1, <1>4 DEF C!Mark
  <1>6. /\ pc'[s] = "idle" /\ (\A t \in Slots \ {s} : pc[t] = "idle" /\ pc'[t] = "idle") /\ ChatSingle'
    BY <1>2, <1>3, AloneGoes DEF InTurns
  <1>7. \A t \in Slots : ChatTurn(pc[t], job[t])'
    BY <1>6 DEF ChatTurn
  <1>8. C!BellIsUnread'
    BY <1>2, <1>3, <1>6 DEF InTurns, C!BellIsUnread
  <1>9. ASSUME Faults = {} PROVE Opens' /\ C!Quiet'
    <2>1. Opens /\ C!Quiet
      BY <1>9 DEF InTurns
    <2>2. \A v, t : InLine(v, t) => t = j.at /\ v \in j.due
      BY <1>1, <1>2, <1>6 DEF InLine
    <2>3. Window \in Nat \ {0} /\ j.at \in Nat /\ j.at # None
      BY <1>2, ChatConstants DEF C!Constants, Served
    <2>4. ASSUME NEW u \in Users, NEW t \in told[u] PROVE notified'[u] # None /\ t <= notified'[u]
      <3>1. (notified[u] # None /\ t <= notified[u]) \/ InLine(u, t)
        BY <2>1 DEF Opens
      <3>2. CASE u \notin j.due
        BY <1>5, <2>2, <3>1, <3>2
      <3>3. CASE u \in j.due
        <4>1. notified'[u] = j.at
          BY <1>5, <3>3
        <4>2. CASE InLine(u, t)
          BY <2>2, <2>3, <4>1, <4>2
        <4>3. CASE notified[u] # None /\ t <= notified[u]
          <5>1. notified[u] <= j.at - Window
            BY <1>2, <3>3, <4>3 DEF ChatTurn
          <5>2. t \in Int /\ notified[u] \in Int
            BY <1>2, <4>3 DEF ChatTyped, Instants
          <5> QED
            BY <2>3, <4>1, <4>3, <5>1, <5>2
        <4> QED
          BY <3>1, <4>2, <4>3
      <3> QED
        BY <3>2, <3>3
    <2>5. Opens'
      BY <1>3, <2>4 DEF Opens
    <2> QED
      BY <1>3, <2>1, <2>5 DEF C!Quiet
  <1> QED
    BY <1>3, <1>6, <1>7, <1>8, <1>9 DEF InTurns, ChatPast, C!NewsIsUnread

LEMMA TurnStays ==
    ASSUME InTurns, UNCHANGED <<now, messages, lastRead, bell, notified, told, seen, pc, job>>
    PROVE  InTurns'
  <1>1. ChatPast' /\ ChatSingle' /\ C!BellIsUnread' /\ C!NewsIsUnread'
    BY DEF InTurns, ChatSingle, ChatPast, C!BellIsUnread, C!NewsIsUnread
  <1>2. \A s \in Slots : ChatTurn(pc[s], job[s])'
    BY DEF InTurns, ChatTurn
  <1>3. Faults = {} => Opens' /\ C!Quiet'
    BY DEF InTurns, Opens, InLine, C!Quiet
  <1> QED
    BY <1>1, <1>2, <1>3 DEF InTurns

LEMMA TurnNext == ASSUME ChatInv, InTurns, alone, C!Next PROVE InTurns' /\ alone' = alone
  <1>1. alone' = alone
    BY DEF C!Next, C!Tick, C!Block, C!Start, C!Commit, C!Clear, C!Members, C!Push, C!Windows, C!Mark
  <1>2. CASE C!Tick
    BY <1>1, <1>2, TurnTick
  <1>3. CASE \E u, v \in Users : C!Block(u, v)
    BY <1>1, <1>3, TurnStays DEF C!Block
  <1>4. CASE \E s \in Slots : \E u \in Users : C!Start(s, u)
    BY <1>1, <1>4, TurnStart
  <1>5. CASE \E s \in Slots : C!Commit(s) \/ C!Clear(s) \/ C!Members(s) \/ C!Push(s) \/ C!Windows(s) \/ C!Mark(s)
    BY <1>1, <1>5, TurnCommit, TurnClear, TurnMembers, TurnPush, TurnWindows, TurnMark
  <1>6. \/ C!Tick \/ \E u, v \in Users : C!Block(u, v)
        \/ \E s \in Slots : \E u \in Users : C!Start(s, u)
        \/ \E s \in Slots : C!Commit(s) \/ C!Clear(s) \/ C!Members(s) \/ C!Push(s) \/ C!Windows(s) \/ C!Mark(s)
    BY DEF C!Next
  <1> QED
    BY <1>1, <1>2, <1>3, <1>4, <1>5, <1>6

(* No quiet window swallows news, and with requests one after another bell  *)
(* and unread messages agree and, where no push fails, no window is opened  *)
(* twice: for any number of members, of overlapping requests, of instants   *)
(* and any window.                                                          *)
THEOREM NoNewsSwallowed == Spec => []NobodyMissed
  <1> DEFINE TurnInv == part = "chat" /\ alone => InTurns
  <1>1. Init => TurnInv
    BY InTurnsInit
  <1>2. ASSUME part = "chat" => ChatInv, TurnInv, [Next]_vars PROVE TurnInv'
    <2>1. CASE part' # "chat" \/ ~alone'
      BY <2>1
    <2>2. CASE Next /\ part' = "chat" /\ alone'
      <3>1. part = "chat" /\ C!Next
        BY <2>2 DEF Next
      <3>2. alone' = alone
        BY <3>1 DEF C!Next, C!Tick, C!Block, C!Start, C!Commit, C!Clear, C!Members, C!Push, C!Windows, C!Mark
      <3> QED
        BY <1>2, <2>2, <3>1, <3>2, TurnNext
    <2>3. CASE UNCHANGED vars /\ part' = "chat" /\ alone'
      BY <1>2, <2>3, TurnStays DEF vars, cvars
    <2> QED
      BY <1>2, <2>1, <2>2, <2>3
  <1>3. ASSUME part = "chat" => ChatInv, TurnInv PROVE NobodyMissed
    <2> SUFFICES ASSUME part = "chat" PROVE NobodyMissed
      BY DEF NobodyMissed
    <2>1. C!TypeOK
      BY <1>3 DEF ChatInv, ChatTyped, C!TypeOK, Instants, C!Times, ChatSteps
    <2>2. C!NobodyMissed
      BY <1>3 DEF ChatInv
    <2>3. alone => InTurns
      BY <1>3
    <2> QED
      BY <2>1, <2>2, <2>3 DEF NobodyMissed, InTurns
  <1> QED
    BY <1>1, <1>2, <1>3, ChatInvariant, PTL DEF Spec

--------------------------------------------------------------------------------
(* The prices of an article                                                *)

QuoteSteps == {"idle", "lock", "clear", "commit", "write"}

QuoteTyped ==
    /\ mix \in QuoteMixes /\ typed \subseteq Q!Ids /\ locker \in Slots \cup {None}
    /\ quote \in [Q!Ids -> Q!Price \cup {None, Gone}] /\ shop \in [Shops -> ShopNames \cup {None}]
    /\ pc \in [Slots -> QuoteSteps] /\ job \in [Slots -> Q!Job]

(* What a request holds from the check of its input on. *)
Asked(step, j) ==
    /\ step = "idle" => j.op = "none"
    /\ step \in {"lock", "clear", "commit"} => j.op \in {"select", "unselect"}
    /\ step = "write" => j.op \in {"add", "edit", "delete", "open", "rename", "drop"}
    /\ step # "idle" => j.op \in mix.ops
    /\ j.op \in {"add", "edit", "delete", "select", "unselect"} =>
           j.copy \in Q!Price /\ (j.copy.shop # None \/ j.copy.name # None)
    /\ j.op \in {"edit", "delete", "select", "unselect"} => j.q \in Q!Ids
    /\ j.op = "add" => ~j.copy.retained
    /\ j.op \in {"open", "rename", "drop"} => j.at \in Shops /\ j.to \in ShopNames

(* The lock of the article: what is flagged while it is held was cleared.  *)
Holding  == \A s \in Slots : pc[s] \in {"clear", "commit"} => locker = s
Clearing == \A s \in Slots : pc[s] = "commit" /\ job[s].op = "select" => Q!Retained \subseteq job[s].cleared
Single   == \A q, r \in Q!Retained : q = r

(* There is an id for every price that waits to be recorded. *)
Adders == {s \in Slots : job[s].op = "add"}
Unused == {q \in Q!Ids : quote[q] = None}
Adding == Cardinality(Adders) <= Cardinality(Unused)

(* A price that was read is not an id to be given out. *)
Known == \A s \in Slots : job[s].op \in {"edit", "delete", "select", "unselect"} => job[s].q \notin Unused

(* Edits do not overlap with selections. *)
EditsApart == \A m \in QuoteMixes : m.alone \/ "edit" \notin m.ops \/ "select" \notin m.ops

(* Without selections only the first choice is ever retained. *)
Chosen == {q \in Q!Ids : mix.first[q] \notin {None, Gone} /\ mix.first[q].retained}
Kept ==
    ~mix.alone /\ "select" \notin mix.ops =>
        /\ Q!Retained \subseteq Chosen
        /\ \A s \in Slots : job[s].op = "edit" /\ job[s].copy.retained => job[s].q \in Chosen

(* One request after another, what was read is as it was. *)
Serial   == \A s, t \in Slots : pc[s] # "idle" /\ pc[t] # "idle" => s = t
Shows(p) == p.shop # None => p.name \in {None, shop[p.shop]}
Fits(j)  ==
    /\ j.op \in {"edit", "delete", "select", "unselect"} => j.q \in Q!Live
    /\ j.op = "select" => j.copy = quote[j.q]
    /\ j.op = "edit" => j.copy.retained = quote[j.q].retained
    /\ j.op = "edit" /\ j.name # Q!Own /\ (j.name = None \/ j.q \notin typed) => Shows(j.copy)
    /\ j.op = "add" /\ j.name # Q!Own => Shows(j.copy)
Sourced  == \A q \in Q!Live \ typed : quote[q].shop # None

OneByOne == Serial /\ (\A s \in Slots : Fits(job[s])) /\ Q!ShowsItsShop /\ Sourced

QuoteInv ==
    /\ QuoteTyped /\ (\A s \in Slots : Asked(pc[s], job[s]))
    /\ Holding /\ Clearing /\ Single /\ Adding /\ Known /\ Kept /\ Q!Attributed
    /\ mix.alone => OneByOne

--------------------------------------------------------------------------------
LEMMA PriceParts ==
    \A p \in Q!Price : /\ p.shop \in Shops \cup {None} /\ p.name \in ShopNames \cup {Q!Own, None}
                       /\ p.retained \in BOOLEAN
                       /\ p \notin {None, Gone}
  BY QuoteConstants DEF Q!Constants, Q!Price

(* A price with another name, shop or flag. *)
IsPrice(r, at, n, b) == r \in Q!Price /\ r.shop = at /\ r.name = n /\ r.retained = b

LEMMA PriceChanged ==
    ASSUME NEW p \in Q!Price, NEW at \in Shops \cup {None}, NEW n \in ShopNames \cup {Q!Own, None}, NEW b \in BOOLEAN
    PROVE  /\ IsPrice([p EXCEPT !.retained = b], p.shop, p.name, b)
           /\ IsPrice([p EXCEPT !.name = n], p.shop, n, p.retained)
           /\ IsPrice([p EXCEPT !.shop = at, !.name = n], at, n, p.retained)
  BY DEF Q!Price, IsPrice

LEMMA LivePrice ==
    ASSUME QuoteTyped
    PROVE  \A q \in Q!Ids : (q \in Q!Live <=> quote[q] \in Q!Price) /\ quote[q] \in Q!Price \cup {None, Gone}
  BY PriceParts DEF QuoteTyped, Q!Live

(* The sets that Quotes counts are counted as everywhere. *)
LEMMA SameCount == \A set : Q!Cardinality(set) = Cardinality(set) /\ (Q!IsFiniteSet(set) <=> IsFiniteSet(set))
  BY DEF Q!Cardinality, Cardinality, Q!IsFiniteSet, IsFiniteSet

LEMMA Counted ==
    ASSUME QuoteTyped
    PROVE  IsFiniteSet(Q!Ids) /\ IsFiniteSet(Adders) /\ IsFiniteSet(Unused)
  <1>1. IsFiniteSet(Q!Ids)
    BY FS_Interval, QuoteConstants DEF Q!Constants, Q!Ids
  <1>2. IsFiniteSet(Adders)
    <2>1. Adders \subseteq Slots
      BY DEF Adders
    <2>2. IsFiniteSet(Slots)
      BY QuoteConstants, SameCount DEF Q!Constants
    <2> QED
      BY <2>1, <2>2, FS_Subset
  <1>3. IsFiniteSet(Unused)
    <2>1. Unused \subseteq Q!Ids
      BY DEF Unused
    <2> QED
      BY <1>1, <2>1, FS_Subset
  <1> QED
    BY <1>1, <1>2, <1>3

LEMMA QuoteInit == ASSUME Init, part = "quotes" PROVE QuoteInv
  <1>1. Q!Init
    BY DEF Init
  <1>2. QuoteTyped
    <2>1. Q!Idle \in Q!Job
      BY DEF Q!Idle, Q!Job
    <2> QED
      BY <1>1, <2>1, QuoteConstants DEF Q!Init, Q!Constants, QuoteTyped, QuoteSteps, Q!Ids
  <1>3. \A s \in Slots : pc[s] = "idle" /\ job[s] = Q!Idle /\ job[s].op = "none"
    BY <1>1 DEF Q!Init, Q!Idle
  <1>4. quote = mix.first /\ mix \in QuoteMixes
    BY <1>1 DEF Q!Init
  <1>5. Adding
    <2>1. Adders = {}
      BY <1>3 DEF Adders
    <2> QED
      BY <2>1, <1>2, Counted, FS_EmptySet, FS_CardinalityType DEF Adding
  <1>6. \A q \in Q!Live : quote[q].name = Q!Own \/ (quote[q].name = None /\ quote[q].shop # None)
    BY <1>4, QuoteConstants DEF Q!Constants, Q!Live
  <1>7. \A q, r \in Q!Live : quote[q].retained /\ quote[r].retained => q = r
    BY <1>4, QuoteConstants DEF Q!Constants, Q!Live
  <1>8. Q!Attributed
    BY <1>6, QuoteConstants DEF Q!Attributed, Q!Constants
  <1>9. Single /\ Kept
    BY <1>3, <1>4, <1>7 DEF Single, Q!Retained, Kept, Chosen, Q!Live
  <1>10. OneByOne
    <2>1. \A q \in Q!Live \ typed : quote[q].name = None /\ quote[q].shop # None
      BY <1>1, <1>6 DEF Q!Init, Q!Live
    <2>2. \A x \in Shops : shop[x] # None
      BY <1>1, QuoteConstants DEF Q!Init, Q!Constants
    <2>3. \A q \in Q!Live : quote[q].shop \in Shops \cup {None}
      BY <1>2, LivePrice, PriceParts DEF Q!Live
    <2> QED
      BY <1>3, <2>1, <2>2, <2>3 DEF OneByOne, Serial, Fits, Q!ShowsItsShop, Sourced
  <1> QED
    BY <1>2, <1>3, <1>5, <1>8, <1>9, <1>10 DEF QuoteInv, Asked, Holding, Clearing, Known

(* A request reads and checks; no price changes. *)
LEMMA QuoteBegins ==
    ASSUME QuoteInv, NEW s \in Slots, NEW step \in QuoteSteps \ {"idle", "clear", "commit"}, NEW j \in Q!Job,
           NEW op, Q!Free(s, op), Q!Go(s, step, j), Asked(step, j), mix.alone => Fits(j),
           j.op = "add" => Cardinality(Adders) < Cardinality(Unused),
           j.op = "edit" /\ j.copy.retained => j.q \in Q!Retained,
           j.op \in {"edit", "delete", "select", "unselect"} => j.q \in Q!Live
    PROVE  QuoteInv'
  <1>1. QuoteTyped /\ pc[s] = "idle" /\ UNCHANGED <<mix, quote, shop, typed, locker>>
    BY DEF QuoteInv, Q!Free, Q!Go
  <1>2. /\ pc'[s] = step /\ job'[s] = j /\ pc' \in [Slots -> QuoteSteps] /\ job' \in [Slots -> Q!Job]
        /\ \A t \in Slots \ {s} : pc'[t] = pc[t] /\ job'[t] = job[t]
    BY <1>1 DEF Q!Go, QuoteTyped
  <1>3. QuoteTyped' /\ Q!Live' = Q!Live /\ Q!Retained' = Q!Retained /\ Unused' = Unused
    BY <1>1, <1>2 DEF QuoteTyped, Q!Live, Q!Retained, Unused
  <1>4. \A t \in Slots : Asked(pc[t], job[t])'
    BY <1>1, <1>2 DEF QuoteInv, Asked
  <1>5. Holding' /\ Clearing'
    BY <1>1, <1>2, <1>3 DEF QuoteInv, Holding, Clearing
  <1>6. Adding'
    <2>1. job[s].op # "add"
      BY <1>1 DEF QuoteInv, Asked
    <2>2. CASE j.op # "add"
      <3>1. Adders' = Adders
        BY <1>2, <2>1, <2>2 DEF Adders
      <3> QED
        BY <1>3, <3>1 DEF Adding, QuoteInv
    <2>3. CASE j.op = "add"
      <3>1. Adders' = Adders \cup {s} /\ s \notin Adders
        BY <1>2, <2>1, <2>3 DEF Adders
      <3>2. Cardinality(Adders') = Cardinality(Adders) + 1 /\ Cardinality(Adders) \in Nat
        BY <1>1, <3>1, Counted, FS_AddElement, FS_CardinalityType
      <3>3. Cardinality(Unused) \in Nat
        BY <1>1, Counted, FS_CardinalityType
      <3> QED
        BY <1>3, <2>3, <3>2, <3>3 DEF Adding
    <2> QED
      BY <2>2, <2>3
  <1>7. Kept'
    BY <1>1, <1>2, <1>3 DEF Kept, QuoteInv, Chosen
  <1>9. Known'
    BY <1>2, <1>3 DEF QuoteInv, Known, Unused, Q!Live
  <1>8. mix.alone => OneByOne'
    <2> SUFFICES ASSUME mix.alone PROVE OneByOne'
      OBVIOUS
    <2>1. \A t \in Slots : pc[t] = "idle"
      BY DEF Q!Free
    <2>2. \A t \in Slots : Fits(job[t])'
      BY <1>1, <1>2, <1>3 DEF QuoteInv, OneByOne, Fits, Shows
    <2> QED
      BY <1>1, <1>2, <1>3, <2>1, <2>2 DEF QuoteInv, OneByOne, Serial, Q!ShowsItsShop, Sourced
  <1> QED
    BY <1>1, <1>3, <1>4, <1>5, <1>6, <1>7, <1>8, <1>9 DEF QuoteInv, Single, Q!Attributed

LEMMA QuoteAdd == ASSUME QuoteInv, NEW s \in Slots, Q!Add(s) PROVE QuoteInv'
  <1>1. PICK at \in Shops \cup {None}, name \in {Q!Own, None} :
            /\ at # None \/ name # None
            /\ at # None => shop[at] # None
            /\ Q!Go(s, "write", [Q!Idle EXCEPT !.op = "add", !.name = name, !.copy =
                   [shop |-> at, name |-> IF name = None THEN shop[at] ELSE name, retained |-> FALSE]])
    BY DEF Q!Add
  <1>2. PICK price : price = [shop |-> at, name |-> IF name = None THEN shop[at] ELSE name, retained |-> FALSE]
    OBVIOUS
  <1>3. PICK j : j = [Q!Idle EXCEPT !.op = "add", !.name = name, !.copy = price]
    OBVIOUS
  <1>4. /\ price \in Q!Price /\ price.shop = at /\ price.retained = FALSE
        /\ price.name = (IF name = None THEN shop[at] ELSE name) /\ (at # None \/ price.name # None)
    <2>1. name = None => shop[at] \in ShopNames \cup {None}
      BY <1>1 DEF QuoteInv, QuoteTyped
    <2> QED
      BY <1>1, <1>2, <2>1 DEF Q!Price
  <1>5. j \in Q!Job /\ j.op = "add" /\ j.name = name /\ j.copy = price
    BY <1>3, <1>4 DEF Q!Idle, Q!Job
  <1>6. Q!Free(s, "add") /\ Q!Go(s, "write", j) /\ Cardinality(Adders) < Cardinality(Unused)
    <2>1. Q!Go(s, "write", j)
      BY <1>1, <1>2, <1>3
    <2>2. Q!Free(s, "add") /\ Cardinality(Adders) < Cardinality(Unused)
      BY SameCount DEF Q!Add, Adders, Unused
    <2> QED
      BY <2>1, <2>2
  <1>7. Asked("write", j) /\ Fits(j)
    BY <1>4, <1>5, <1>6 DEF Asked, Fits, Shows, Q!Free
  <1> QED
    BY <1>5, <1>6, <1>7, QuoteBegins DEF QuoteSteps

(* The name that an edited price ends up with is its shop's, where it is    *)
(* not typed.                                                               *)
LEMMA EditedShows ==
    ASSUME QuoteTyped, OneByOne, NEW q \in Q!Live, NEW at \in Shops \cup {None},
           NEW name \in {Q!Own, None, Keep}, name # Q!Own, name = None \/ q \notin typed, at # None
    PROVE  Q!Attribution(quote[q], at, name) \in {None, shop[at]}
  <1>1. CASE name = None
    BY <1>1, QuoteConstants DEF Q!Attribution, Q!Constants
  <1>2. CASE name = Keep /\ q \notin typed
    <2>1. quote[q].shop # None /\ quote[q].name \in {None, shop[quote[q].shop]}
      BY <1>2 DEF OneByOne, Sourced, Q!ShowsItsShop
    <2> QED
      BY <1>2, <2>1 DEF Q!Attribution
  <1> QED
    BY <1>1, <1>2

LEMMA QuoteEdit == ASSUME QuoteInv, NEW s \in Slots, Q!Edit(s) PROVE QuoteInv'
  <1> DEFINE At(q, to) == IF to = Keep THEN quote[q].shop ELSE to
  <1>0. PICK q \in Q!Live, to \in Shops \cup {None, Keep}, name \in {Q!Own, None, Keep} :
            /\ At(q, to) # None \/ (IF name = Keep THEN quote[q].name ELSE name) # None
            /\ At(q, to) # None => shop[At(q, to)] # None
            /\ Q!Go(s, "write", [Q!Idle EXCEPT !.op = "edit", !.q = q, !.name = name, !.copy =
                   [quote[q] EXCEPT !.shop = At(q, to), !.name = Q!Attribution(quote[q], At(q, to), name)]])
    BY DEF Q!Edit
  <1>1. PICK at : at = At(q, to)
    OBVIOUS
  <1>2. QuoteTyped /\ q \in Q!Ids /\ quote[q] \in Q!Price /\ at \in Shops \cup {None}
    BY <1>1, LivePrice, PriceParts DEF QuoteInv, Q!Live
  <1> HIDE DEF At
  <1>3. PICK n : n = Q!Attribution(quote[q], at, name)
    OBVIOUS
  <1>4. n \in ShopNames \cup {Q!Own, None} /\ (at # None \/ n # None)
    <2>1. at # None => shop[at] \in ShopNames \cup {None}
      BY <1>2 DEF QuoteTyped
    <2> QED
      BY <1>0, <1>1, <1>2, <1>3, <2>1, PriceParts DEF Q!Attribution
  <1>5. PICK price : price = [quote[q] EXCEPT !.shop = at, !.name = n]
    OBVIOUS
  <1>6. price \in Q!Price /\ price.shop = at /\ price.name = n /\ price.retained = quote[q].retained
    BY <1>2, <1>4, <1>5 DEF Q!Price
  <1>7. PICK j : j = [Q!Idle EXCEPT !.op = "edit", !.q = q, !.name = name, !.copy = price]
    OBVIOUS
  <1>8. j \in Q!Job /\ j.op = "edit" /\ j.q = q /\ j.name = name /\ j.copy = price
    BY <1>2, <1>6, <1>7 DEF Q!Idle, Q!Job
  <1>9. Q!Free(s, "edit") /\ Q!Go(s, "write", j)
    BY <1>0, <1>1, <1>3, <1>5, <1>7 DEF Q!Edit
  <1>10. Asked("write", j)
    BY <1>2, <1>4, <1>6, <1>8, <1>9 DEF Asked, Q!Free
  <1>11. ASSUME mix.alone PROVE Fits(j)
    <2>1. name # Q!Own /\ (name = None \/ q \notin typed) => Shows(price)
      BY <1>2, <1>3, <1>6, <1>11, EditedShows DEF Shows, QuoteInv
    <2> QED
      BY <1>6, <1>8, <2>1 DEF Fits
  <1>12. j.copy.retained => j.q \in Q!Retained
    BY <1>6, <1>8 DEF Q!Retained
  <1> QED
    BY <1>8, <1>9, <1>10, <1>11, <1>12, QuoteBegins DEF QuoteSteps

LEMMA QuoteRead == ASSUME QuoteInv, NEW s \in Slots, Q!Read(s) PROVE QuoteInv'
  <1>1. PICK q \in Q!Live, op \in {"delete", "select", "unselect"} :
            /\ Q!Free(s, op)
            /\ Q!Go(s, IF op = "delete" THEN "write" ELSE "lock",
                    [Q!Idle EXCEPT !.op = op, !.q = q, !.copy = quote[q]])
    BY DEF Q!Read
  <1>2. PICK j : j = [Q!Idle EXCEPT !.op = op, !.q = q, !.copy = quote[q]]
    OBVIOUS
  <1>3. q \in Q!Ids /\ quote[q] \in Q!Price
    BY LivePrice DEF QuoteInv, Q!Live
  <1>4. j \in Q!Job /\ j.op = op /\ j.q = q /\ j.copy = quote[q]
    BY <1>2, <1>3 DEF Q!Idle, Q!Job
  <1>5. quote[q].shop # None \/ quote[q].name # None
    BY DEF QuoteInv, Q!Attributed
  <1>6. PICK step : step = IF op = "delete" THEN "write" ELSE "lock"
    OBVIOUS
  <1>7. Asked(step, j) /\ Fits(j)
    BY <1>1, <1>3, <1>4, <1>5, <1>6 DEF Asked, Fits, Q!Free
  <1> QED
    BY <1>1, <1>2, <1>4, <1>6, <1>7, QuoteBegins DEF QuoteSteps

LEMMA QuoteShopkeeping ==
    ASSUME QuoteInv, NEW s \in Slots, Q!OpenShop(s) \/ Q!RenameShop(s) \/ Q!DropShop(s)
    PROVE  QuoteInv'
  <1>1. PICK x \in Shops, n \in ShopNames, op \in {"open", "rename", "drop"} :
            Q!Free(s, op) /\ Q!Go(s, "write", [Q!Idle EXCEPT !.op = op, !.at = x, !.to = n])
    <2>1. \A x \in Shops : shop[x] # None => shop[x] \in ShopNames
      BY DEF QuoteInv, QuoteTyped
    <2> QED
      BY <2>1 DEF Q!OpenShop, Q!RenameShop, Q!DropShop
  <1>2. PICK j : j = [Q!Idle EXCEPT !.op = op, !.at = x, !.to = n]
    OBVIOUS
  <1>3. j \in Q!Job /\ j.op = op /\ j.at = x /\ j.to = n
    BY <1>2 DEF Q!Idle, Q!Job
  <1>4. Asked("write", j) /\ Fits(j)
    BY <1>1, <1>3 DEF Asked, Fits, Q!Free
  <1> QED
    BY <1>1, <1>2, <1>3, <1>4, QuoteBegins DEF QuoteSteps

(* The last step of a request; what it leaves of the rows is to be seen.   *)
LEMMA QuoteEnds ==
    ASSUME QuoteInv, NEW s \in Slots, pc[s] # "idle", Q!Done(s), mix' = mix,
           quote' \in [Q!Ids -> Q!Price \cup {None, Gone}], shop' \in [Shops -> ShopNames \cup {None}],
           typed' \subseteq Q!Ids, locker' \in {locker, IF locker = s THEN None ELSE locker},
           ~mix.alone => \A t \in Slots \ {s} :
               pc[t] = "commit" /\ job[t].op = "select" => Q!Retained' \subseteq job[t].cleared,
           Cardinality(Adders \ {s}) <= Cardinality(Unused'), Unused' \subseteq Unused,
           Single', Q!Attributed',
           ~mix.alone /\ "select" \notin mix.ops => Q!Retained' \subseteq Chosen,
           mix.alone => Q!ShowsItsShop' /\ Sourced'
    PROVE  QuoteInv'
  <1>1. QuoteTyped /\ Q!Idle \in Q!Job /\ Q!Idle.op = "none"
    BY DEF QuoteInv, Q!Idle, Q!Job
  <1>2. /\ pc'[s] = "idle" /\ job'[s] = Q!Idle /\ pc' \in [Slots -> QuoteSteps] /\ job' \in [Slots -> Q!Job]
        /\ \A t \in Slots \ {s} : pc'[t] = pc[t] /\ job'[t] = job[t]
    BY <1>1 DEF Q!Done, QuoteTyped, QuoteSteps
  <1>3. QuoteTyped'
    BY <1>1, <1>2 DEF QuoteTyped
  <1>4. \A t \in Slots : Asked(pc[t], job[t])'
    BY <1>1, <1>2 DEF QuoteInv, Asked
  <1>5. Holding'
    BY <1>2 DEF QuoteInv, Holding
  <1>6. Adding'
    <2>1. Adders' = Adders \ {s}
      BY <1>1, <1>2 DEF Adders
    <2> QED
      BY <2>1 DEF Adding
  <1>7. Known'
    BY <1>1, <1>2 DEF QuoteInv, Known
  <1>8. Kept'
    BY <1>1, <1>2 DEF QuoteInv, Kept, Chosen
  <1>9. CASE mix.alone
    <2>1. \A t \in Slots : pc'[t] = "idle" /\ job'[t].op = "none"
      BY <1>1, <1>2, <1>4, <1>9 DEF QuoteInv, OneByOne, Serial, Asked
    <2> QED
      BY <1>3, <1>4, <1>5, <1>6, <1>7, <1>8, <1>9, <2>1 DEF QuoteInv, OneByOne, Serial, Fits, Clearing
  <1>10. CASE ~mix.alone
    <2>1. Clearing'
      BY <1>2, <1>10 DEF QuoteInv, Clearing
    <2> QED
      BY <1>3, <1>4, <1>5, <1>6, <1>7, <1>8, <1>10, <2>1 DEF QuoteInv
  <1> QED
    BY <1>9, <1>10

(* The same of a request that takes no id and retains nothing. *)
LEMMA QuoteLeaves ==
    ASSUME QuoteInv, NEW s \in Slots, pc[s] # "idle", Q!Done(s), mix' = mix,
           quote' \in [Q!Ids -> Q!Price \cup {None, Gone}], shop' \in [Shops -> ShopNames \cup {None}],
           typed' \subseteq Q!Ids, locker' \in {locker, IF locker = s THEN None ELSE locker},
           Unused' = Unused, Q!Retained' \subseteq Q!Retained,
           Q!Attributed', mix.alone => Q!ShowsItsShop' /\ Sourced'
    PROVE  QuoteInv'
  <1>1. ~mix.alone => \A t \in Slots \ {s} :
               pc[t] = "commit" /\ job[t].op = "select" => Q!Retained' \subseteq job[t].cleared
    BY DEF QuoteInv, Clearing
  <1>2. Cardinality(Adders \ {s}) <= Cardinality(Unused') /\ Unused' \subseteq Unused
    <2>1. Cardinality(Adders \ {s}) <= Cardinality(Adders)
      BY Counted, FS_Subset DEF QuoteInv
    <2>2. Cardinality(Adders \ {s}) \in Nat /\ Cardinality(Adders) \in Nat /\ Cardinality(Unused) \in Nat
      BY Counted, FS_Subset, FS_CardinalityType DEF QuoteInv
    <2> QED
      BY <2>1, <2>2 DEF QuoteInv, Adding
  <1>3. Single'
    <2>1. Single
      BY DEF QuoteInv
    <2> QED
      BY <2>1 DEF Single
  <1>4. ~mix.alone /\ "select" \notin mix.ops => Q!Retained' \subseteq Chosen
    BY DEF QuoteInv, Kept
  <1> QED
    BY <1>1, <1>2, <1>3, <1>4, QuoteEnds

(* A deletion, and a write that a shop which is gone refuses. *)
LEMMA QuoteDelete ==
    ASSUME QuoteInv, NEW s \in Slots, pc[s] = "write", job[s].op = "delete", Q!Done(s),
           quote' = [quote EXCEPT ![job[s].q] = Gone], UNCHANGED <<mix, typed, shop, locker>>
    PROVE  QuoteInv'
  <1>1. PICK q : q = job[s].q
    OBVIOUS
  <1>2. QuoteTyped /\ q \in Q!Ids /\ q \notin Unused /\ Gone # None /\ Gone \notin Q!Price
    BY <1>1, QuoteConstants DEF QuoteInv, Asked, Known, Q!Constants
  <1>3. quote' = [quote EXCEPT ![q] = Gone]
    BY <1>1
  <1>4. \A r \in Q!Ids : quote'[r] = IF r = q THEN Gone ELSE quote[r]
    BY <1>2, <1>3 DEF QuoteTyped
  <1>5. /\ quote' \in [Q!Ids -> Q!Price \cup {None, Gone}] /\ Unused' = Unused
        /\ Q!Live' \subseteq Q!Live /\ q \notin Q!Live' /\ Q!Retained' \subseteq Q!Retained
    BY <1>2, <1>3, <1>4 DEF QuoteTyped, Unused, Q!Live, Q!Retained
  <1>6. \A r \in Q!Live' : quote'[r] = quote[r]
    BY <1>4, <1>5 DEF Q!Live
  <1>7. Q!Attributed'
    BY <1>5, <1>6 DEF QuoteInv, Q!Attributed
  <1>8. mix.alone => Q!ShowsItsShop' /\ Sourced'
    BY <1>5, <1>6 DEF QuoteInv, OneByOne, Q!ShowsItsShop, Sourced
  <1>9. shop' \in [Shops -> ShopNames \cup {None}] /\ typed' \subseteq Q!Ids
    BY <1>2 DEF QuoteTyped
  <1> QED
    BY <1>5, <1>7, <1>8, <1>9, QuoteLeaves

LEMMA QuoteRefused ==
    ASSUME QuoteInv, NEW s \in Slots, pc[s] = "write", Q!Done(s), UNCHANGED <<mix, quote, typed, shop, locker>>
    PROVE  QuoteInv'
  <1>1. /\ quote' \in [Q!Ids -> Q!Price \cup {None, Gone}] /\ shop' \in [Shops -> ShopNames \cup {None}]
        /\ typed' \subseteq Q!Ids
    BY DEF QuoteInv, QuoteTyped
  <1>2. Unused' = Unused /\ Q!Live' = Q!Live /\ Q!Retained' = Q!Retained
    BY DEF Unused, Q!Live, Q!Retained
  <1>3. Q!Attributed' /\ (mix.alone => Q!ShowsItsShop' /\ Sourced')
    BY <1>2 DEF QuoteInv, OneByOne, Q!Attributed, Q!ShowsItsShop, Sourced
  <1> QED
    BY <1>1, <1>2, <1>3, QuoteLeaves

(* A price is put back as the request made it. *)
LEMMA PutShows ==
    ASSUME QuoteTyped, Q!ShowsItsShop, Sourced, NEW q \in Q!Ids, NEW price \in Q!Price, NEW name,
           ~Q!Refused(price), name # Q!Own /\ (name = None \/ q \notin typed) => Shows(price),
           quote' = [quote EXCEPT ![q] = price], typed' = Q!Typing(q, price, name), UNCHANGED shop
    PROVE  Q!ShowsItsShop' /\ Sourced'
  <1>1. \A r \in Q!Ids : quote'[r] = IF r = q THEN price ELSE quote[r]
    BY DEF QuoteTyped
  <1>2. \A r \in Q!Live' \ {q} : r \in Q!Live /\ quote'[r] = quote[r] /\ (r \in typed' <=> r \in typed)
    BY <1>1 DEF Q!Live, Q!Typing
  <1>3. q \notin typed' => price.shop # None /\ name # Q!Own /\ (name = None \/ q \notin typed)
    BY DEF Q!Typing
  <1>4. price.shop # None => shop[price.shop] # None
    BY DEF Q!Refused
  <1>5. q \notin typed' => price.shop # None /\ shop[price.shop] # None /\ price.name \in {None, shop[price.shop]}
    BY <1>3, <1>4 DEF Shows
  <1>6. \A r \in Q!Live' \ typed' : quote'[r].shop # None /\ shop[quote'[r].shop] # None
                                    /\ quote'[r].name \in {None, shop[quote'[r].shop]}
    BY <1>1, <1>2, <1>5 DEF Q!ShowsItsShop, Sourced, Q!Live
  <1> QED
    BY <1>6 DEF Q!ShowsItsShop, Sourced

LEMMA TypingIds ==
    ASSUME NEW q \in Q!Ids, NEW price, NEW name, typed \subseteq Q!Ids PROVE Q!Typing(q, price, name) \subseteq Q!Ids
  BY DEF Q!Typing

LEMMA QuoteRecord ==
    ASSUME QuoteInv, NEW s \in Slots, pc[s] = "write", job[s].op = "add", Q!Done(s), ~Q!Refused(job[s].copy),
           NEW q, q = (CHOOSE n \in Q!Ids : quote[n] = None), quote' = [quote EXCEPT ![q] = job[s].copy],
           typed' = Q!Typing(q, job[s].copy, job[s].name), UNCHANGED <<mix, shop, locker>>
    PROVE  QuoteInv'
  <1>1. PICK price : price = job[s].copy
    OBVIOUS
  <1>2. /\ QuoteTyped /\ price \in Q!Price /\ price \notin {None, Gone} /\ ~price.retained
        /\ price.shop # None \/ price.name # None
    BY <1>1, PriceParts DEF QuoteInv, Asked
  <1>3. IsFiniteSet(Adders) /\ IsFiniteSet(Unused) /\ s \in Adders
    BY <1>2, Counted DEF Adders
  <1>4. Cardinality(Adders) = Cardinality(Adders \ {s}) + 1 /\ Cardinality(Adders \ {s}) \in Nat
    <2>1. IsFiniteSet(Adders \ {s}) /\ Cardinality(Adders) \in Nat
      BY <1>3, FS_Subset, FS_CardinalityType
    <2>2. Cardinality(Adders \ {s}) = Cardinality(Adders) - 1 /\ Cardinality(Adders \ {s}) \in Nat
      BY <1>3, <2>1, FS_RemoveElement, FS_CardinalityType
    <2> QED
      BY <2>1, <2>2
  <1>5. Cardinality(Adders) <= Cardinality(Unused) /\ Cardinality(Unused) \in Nat
    BY <1>3, FS_CardinalityType DEF QuoteInv, Adding
  <1>6. Unused # {}
    BY <1>4, <1>5, FS_EmptySet
  <1>7. q \in Q!Ids /\ quote[q] = None
    BY <1>6 DEF Unused
  <1>8. quote' = [quote EXCEPT ![q] = price] /\ \A r \in Q!Ids : quote'[r] = IF r = q THEN price ELSE quote[r]
    BY <1>1, <1>2, <1>7 DEF QuoteTyped
  <1>9. Unused' = Unused \ {q} /\ q \in Unused
    BY <1>2, <1>7, <1>8 DEF Unused
  <1>10. Cardinality(Unused') = Cardinality(Unused) - 1
    BY <1>3, <1>9, FS_RemoveElement
  <1>11. Q!Retained' \subseteq Q!Retained
    BY <1>2, <1>8 DEF Q!Live, Q!Retained
  <1>12. Q!Attributed'
    BY <1>2, <1>8 DEF QuoteInv, Q!Attributed, Q!Live
  <1>13. mix.alone => Q!ShowsItsShop' /\ Sourced'
    <2>1. mix.alone => Q!ShowsItsShop /\ Sourced /\ (job[s].name # Q!Own => Shows(price))
      BY <1>1 DEF QuoteInv, OneByOne, Fits
    <2> QED
      BY <1>1, <1>2, <1>7, <1>8, <2>1, PutShows
  <1>14. /\ quote' \in [Q!Ids -> Q!Price \cup {None, Gone}] /\ shop' \in [Shops -> ShopNames \cup {None}]
         /\ typed' \subseteq Q!Ids
    BY <1>1, <1>2, <1>7, <1>8, TypingIds DEF QuoteTyped
  <1>15. Cardinality(Adders \ {s}) <= Cardinality(Unused') /\ Unused' \subseteq Unused
    BY <1>4, <1>5, <1>9, <1>10
  <1>16. Single' /\ (~mix.alone /\ "select" \notin mix.ops => Q!Retained' \subseteq Chosen)
    <2>1. Single /\ Kept
      BY DEF QuoteInv
    <2> QED
      BY <1>11, <2>1 DEF Single, Kept
  <1>17. ~mix.alone => \A t \in Slots \ {s} :
               pc[t] = "commit" /\ job[t].op = "select" => Q!Retained' \subseteq job[t].cleared
    BY <1>11 DEF QuoteInv, Clearing
  <1> QED
    BY <1>12, <1>13, <1>14, <1>15, <1>16, <1>17, QuoteEnds

LEMMA QuoteEdited ==
    ASSUME QuoteInv, EditsApart, NEW s \in Slots, pc[s] = "write", job[s].op = "edit", Q!Done(s),
           ~Q!Refused(job[s].copy), quote' = Q!Put(job[s].q, job[s].copy),
           typed' = Q!Typing(job[s].q, job[s].copy, job[s].name), UNCHANGED <<mix, shop, locker>>
    PROVE  QuoteInv'
  <1>1. PICK price : price = job[s].copy
    OBVIOUS
  <1>2. PICK q : q = job[s].q
    OBVIOUS
  <1>3. /\ QuoteTyped /\ price \in Q!Price /\ price \notin {None, Gone}
        /\ price.shop # None \/ price.name # None
        /\ q \in Q!Ids /\ q \notin Unused /\ "edit" \in mix.ops /\ mix \in QuoteMixes
    BY <1>1, <1>2, PriceParts DEF QuoteInv, QuoteTyped, Asked, Known
  <1>4. shop' \in [Shops -> ShopNames \cup {None}] /\ typed' \subseteq Q!Ids
    BY <1>2, <1>3, TypingIds DEF QuoteTyped
  <1>5. CASE q \notin Q!Live
    <2>1. ~mix.alone
      BY <1>2, <1>5 DEF QuoteInv, OneByOne, Fits
    <2>2. quote' = quote
      BY <1>2, <1>5 DEF Q!Put
    <2>3. Unused' = Unused /\ Q!Live' = Q!Live /\ Q!Retained' = Q!Retained
          /\ quote' \in [Q!Ids -> Q!Price \cup {None, Gone}]
      BY <1>3, <2>2 DEF Unused, Q!Live, Q!Retained, QuoteTyped
    <2>4. Q!Attributed'
      BY <2>2, <2>3 DEF QuoteInv, Q!Attributed
    <2> QED
      BY <1>4, <2>1, <2>3, <2>4, QuoteLeaves
  <1>6. CASE q \in Q!Live
    <2>1. quote' = [quote EXCEPT ![q] = price]
      BY <1>1, <1>2, <1>6 DEF Q!Put
    <2>2. \A r \in Q!Ids : quote'[r] = IF r = q THEN price ELSE quote[r]
      BY <1>3, <2>1 DEF QuoteTyped
    <2>3. quote' \in [Q!Ids -> Q!Price \cup {None, Gone}] /\ Unused' = Unused
      BY <1>3, <2>1, <2>2 DEF QuoteTyped, Unused
    <2>4. Q!Attributed'
      BY <1>3, <2>2 DEF QuoteInv, Q!Attributed, Q!Live
    <2>5. Q!Retained' \subseteq Q!Retained \cup {q} /\ (q \in Q!Retained' => price.retained)
      BY <1>3, <2>2 DEF Q!Live, Q!Retained
    <2>6. CASE mix.alone
      <3>1. price.retained = quote[q].retained
        BY <1>1, <1>2, <2>6 DEF QuoteInv, OneByOne, Fits
      <3>2. Q!Retained' \subseteq Q!Retained
        BY <1>6, <2>5, <3>1 DEF Q!Retained
      <3>3. /\ Q!ShowsItsShop /\ Sourced
            /\ job[s].name # Q!Own /\ (job[s].name = None \/ q \notin typed) => Shows(price)
        BY <1>1, <1>2, <2>6 DEF QuoteInv, OneByOne, Fits
      <3>4. Q!ShowsItsShop' /\ Sourced'
        BY <1>1, <1>2, <1>3, <2>1, <3>3, PutShows
      <3> QED
        BY <1>4, <2>3, <2>4, <3>2, <3>4, QuoteLeaves
    <2>7. CASE ~mix.alone
      <3>1. "select" \notin mix.ops
        BY <1>3, <2>7 DEF EditsApart
      <3>2. Q!Retained \subseteq Chosen /\ (price.retained => q \in Chosen)
        BY <1>1, <1>2, <2>7, <3>1 DEF QuoteInv, Kept
      <3>3. Q!Retained' \subseteq Chosen
        BY <2>5, <3>2
      <3>4. \A a, b \in Chosen : a = b
        BY <1>3, QuoteConstants DEF Q!Constants, Chosen
      <3>5. Single'
        BY <3>3, <3>4 DEF Single
      <3>6. \A t \in Slots \ {s} : ~(pc[t] = "commit" /\ job[t].op = "select")
        BY <3>1 DEF QuoteInv, Asked
      <3>7. Cardinality(Adders \ {s}) <= Cardinality(Unused') /\ Unused' \subseteq Unused
        <4>1. Adders \ {s} = Adders
          BY DEF Adders
        <4> QED
          BY <2>3, <4>1 DEF QuoteInv, Adding
      <3> QED
        BY <1>4, <2>3, <2>4, <2>7, <3>3, <3>5, <3>6, <3>7, QuoteEnds
    <2> QED
      BY <2>6, <2>7
  <1> QED
    BY <1>5, <1>6

LEMMA QuoteWriteRow == ASSUME QuoteInv, EditsApart, NEW s \in Slots, Q!WriteRow(s) PROVE QuoteInv'
  <1>1. pc[s] = "write" /\ job[s].op \in {"add", "edit", "delete"} /\ Q!Done(s) /\ UNCHANGED <<mix, shop, locker>>
    BY DEF Q!WriteRow
  <1>2. CASE job[s].op = "delete"
    BY <1>1, <1>2, QuoteDelete DEF Q!WriteRow
  <1>3. CASE job[s].op # "delete" /\ Q!Refused(job[s].copy)
    BY <1>1, <1>3, QuoteRefused DEF Q!WriteRow
  <1>4. CASE job[s].op = "add" /\ ~Q!Refused(job[s].copy)
    BY <1>1, <1>4, QuoteRecord DEF Q!WriteRow
  <1>5. CASE job[s].op = "edit" /\ ~Q!Refused(job[s].copy)
    BY <1>1, <1>5, QuoteEdited DEF Q!WriteRow
  <1> QED
    BY <1>1, <1>2, <1>3, <1>4, <1>5

LEMMA QuoteOpened == ASSUME QuoteInv, NEW s \in Slots, Q!WriteOpened(s) PROVE QuoteInv'
  <1>1. PICK x : x = job[s].at
    OBVIOUS
  <1>2. PICK n : n = job[s].to
    OBVIOUS
  <1>3. /\ QuoteTyped /\ pc[s] = "write" /\ Q!Done(s) /\ UNCHANGED <<mix, quote, typed, locker>>
        /\ x \in Shops /\ n \in ShopNames /\ None \notin ShopNames
    BY <1>1, <1>2, QuoteConstants DEF QuoteInv, Asked, Q!WriteOpened, Q!Constants
  <1>4. shop' = shop \/ (shop[x] = None /\ shop' = [shop EXCEPT ![x] = n])
    BY <1>1, <1>2 DEF Q!WriteOpened
  <1>5. /\ shop' \in [Shops -> ShopNames \cup {None}]
        /\ \A y \in Shops : shop[y] # None => shop'[y] = shop[y]
    BY <1>3, <1>4 DEF QuoteTyped
  <1>6. /\ quote' \in [Q!Ids -> Q!Price \cup {None, Gone}] /\ typed' \subseteq Q!Ids
        /\ Unused' = Unused /\ Q!Live' = Q!Live /\ Q!Retained' = Q!Retained
    BY <1>3 DEF QuoteTyped, Unused, Q!Live, Q!Retained
  <1>7. Q!Attributed'
    BY <1>3, <1>6 DEF QuoteInv, Q!Attributed
  <1>8. ASSUME mix.alone PROVE Q!ShowsItsShop' /\ Sourced'
    <2>1. Q!ShowsItsShop /\ Sourced
      BY <1>8 DEF QuoteInv, OneByOne
    <2>2. \A q \in Q!Live : quote[q].shop # None => quote[q].shop \in Shops
      BY <1>3, LivePrice, PriceParts DEF Q!Live
    <2> QED
      BY <1>3, <1>5, <1>6, <2>1, <2>2 DEF Q!ShowsItsShop, Sourced
  <1> QED
    BY <1>3, <1>5, <1>6, <1>7, <1>8, QuoteLeaves

LEMMA QuoteRenamed == ASSUME QuoteInv, NEW s \in Slots, Q!WriteRenamed(s) PROVE QuoteInv'
  <1>1. PICK x : x = job[s].at
    OBVIOUS
  <1>2. PICK n : n = job[s].to
    OBVIOUS
  <1>3. /\ QuoteTyped /\ pc[s] = "write" /\ Q!Done(s) /\ UNCHANGED <<mix, typed, locker>>
        /\ x \in Shops /\ n \in ShopNames /\ None \notin ShopNames
    BY <1>1, <1>2, QuoteConstants DEF QuoteInv, Asked, Q!WriteRenamed, Q!Constants
  <1>4. CASE UNCHANGED <<quote, shop>>
    BY <1>3, <1>4, QuoteRefused
  <1>5. CASE /\ shop[x] # None /\ shop' = [shop EXCEPT ![x] = n]
             /\ quote' = [q \in Q!Ids |-> IF q \in Q!From(x) /\ quote[q].name = shop[x]
                                          THEN [quote[q] EXCEPT !.name = n] ELSE quote[q]]
    <2>1. \A q \in Q!Live : quote[q] \in Q!Price
                            /\ IsPrice([quote[q] EXCEPT !.name = n], quote[q].shop, n, quote[q].retained)
      BY <1>3, LivePrice, PriceChanged DEF Q!Live
    <2>2. \A q \in Q!Ids :
              IF q \in Q!Live /\ quote[q].shop = x /\ quote[q].name = shop[x]
              THEN IsPrice(quote'[q], x, n, quote[q].retained)
              ELSE quote'[q] = quote[q]
      BY <1>5, <2>1 DEF Q!From
    <2> USE DEF IsPrice
    <2>3. \A q \in Q!Ids : quote'[q] \in Q!Price \cup {None, Gone}
                           /\ (quote'[q] \in {None, Gone} => quote'[q] = quote[q])
      BY <1>3, <2>2, PriceParts DEF QuoteTyped
    <2>4. \A q \in Q!Ids : quote[q] \in {None, Gone} => quote'[q] = quote[q]
      BY <2>2 DEF Q!Live
    <2>5. /\ quote' \in [Q!Ids -> Q!Price \cup {None, Gone}] /\ Unused' = Unused /\ Q!Live' = Q!Live
      BY <1>5, <2>3, <2>4 DEF Unused, Q!Live
    <2>6. Q!Retained' \subseteq Q!Retained
      BY <2>2, <2>5 DEF Q!Retained, Q!Live
    <2>7. Q!Attributed'
      BY <1>3, <2>2, <2>5 DEF QuoteInv, Q!Attributed, Q!Live
    <2>8. shop' \in [Shops -> ShopNames \cup {None}] /\ typed' \subseteq Q!Ids
          /\ \A y \in Shops : shop'[y] = IF y = x THEN n ELSE shop[y]
      BY <1>3, <1>5 DEF QuoteTyped
    <2>9. ASSUME mix.alone PROVE Q!ShowsItsShop' /\ Sourced'
      <3>1. Q!ShowsItsShop /\ Sourced
        BY <2>9 DEF QuoteInv, OneByOne
      <3>2. \A q \in Q!Live : quote[q].shop # None => quote[q].shop \in Shops
        BY <2>1, PriceParts
      <3> QED
        BY <1>3, <2>2, <2>5, <2>8, <3>1, <3>2 DEF Q!ShowsItsShop, Sourced, Q!Live
    <2> QED
      BY <1>3, <2>5, <2>6, <2>7, <2>8, <2>9, QuoteLeaves
  <1>6. (shop[x] # None /\ ~Q!Taken(n)) \/ ~(shop[x] # None /\ ~Q!Taken(n))
    OBVIOUS
  <1>7. quote = [q \in Q!Ids |-> quote[q]]
    BY <1>3 DEF QuoteTyped
  <1> QED
    BY <1>1, <1>2, <1>4, <1>5, <1>6, <1>7 DEF Q!WriteRenamed

LEMMA QuoteDropped == ASSUME QuoteInv, NEW s \in Slots, Q!WriteDropped(s) PROVE QuoteInv'
  <1>1. PICK x : x = job[s].at
    OBVIOUS
  <1>2. PICK n : n = job[s].to
    OBVIOUS
  <1>3. /\ QuoteTyped /\ pc[s] = "write" /\ Q!Done(s) /\ UNCHANGED <<mix, locker>>
        /\ x \in Shops /\ n \in ShopNames /\ None \notin ShopNames
    BY <1>1, <1>2, QuoteConstants DEF QuoteInv, Asked, Q!WriteDropped, Q!Constants
  <1>4. /\ shop' = [shop EXCEPT ![x] = None] /\ typed' = typed \cup Q!From(x)
        /\ quote' = [q \in Q!Ids |-> IF q \in Q!From(x)
              THEN [quote[q] EXCEPT !.shop = None, !.name = IF quote[q].name = None THEN n ELSE quote[q].name]
              ELSE quote[q]]
    BY <1>1, <1>2 DEF Q!WriteDropped
  <1>5. \A q \in Q!Live : quote[q] \in Q!Price
    BY <1>3, LivePrice DEF Q!Live
  <1>6. \A q \in Q!Ids :
            IF q \in Q!Live /\ quote[q].shop = x
            THEN \E name : name # None /\ IsPrice(quote'[q], None, name, quote[q].retained)
            ELSE quote'[q] = quote[q]
    <2> SUFFICES ASSUME NEW q \in Q!Live, quote[q].shop = x
                 PROVE  \E name : name # None /\ IsPrice(quote'[q], None, name, quote[q].retained)
      BY <1>4 DEF Q!From
    <2>1. PICK name : name = IF quote[q].name = None THEN n ELSE quote[q].name
      OBVIOUS
    <2>2. q \in Q!From(x) /\ q \in Q!Ids
      BY DEF Q!From, Q!Live
    <2>3. quote'[q] = [quote[q] EXCEPT !.shop = None, !.name = name]
      BY <1>4, <2>1, <2>2
    <2>4. name \in ShopNames \cup {Q!Own, None} /\ name # None
      BY <1>3, <1>5, <2>1, PriceParts
    <2>5. IsPrice([quote[q] EXCEPT !.shop = None, !.name = name], None, name, quote[q].retained)
      BY <1>5, <2>4, PriceChanged
    <2> QED
      BY <2>3, <2>4, <2>5
  <1>7. \A q \in Q!Ids : quote'[q] \in Q!Price \cup {None, Gone}
                           /\ (quote'[q] \in {None, Gone} => quote'[q] = quote[q])
    BY <1>3, <1>6, PriceParts DEF QuoteTyped, IsPrice
  <1>8. \A q \in Q!Ids : quote[q] \in {None, Gone} => quote'[q] = quote[q]
    BY <1>6 DEF Q!Live
  <1>9. quote' \in [Q!Ids -> Q!Price \cup {None, Gone}] /\ Unused' = Unused /\ Q!Live' = Q!Live
    BY <1>4, <1>7, <1>8 DEF Unused, Q!Live
  <1>10. Q!Retained' \subseteq Q!Retained
    BY <1>6, <1>9 DEF Q!Retained, Q!Live, IsPrice
  <1>11. Q!Attributed'
    BY <1>3, <1>6, <1>9 DEF QuoteInv, Q!Attributed, Q!Live, IsPrice
  <1>12. /\ shop' \in [Shops -> ShopNames \cup {None}] /\ typed' \subseteq Q!Ids
         /\ \A y \in Shops : y # x => shop'[y] = shop[y]
    BY <1>3, <1>4 DEF QuoteTyped, Q!From, Q!Live
  <1>13. ASSUME mix.alone PROVE Q!ShowsItsShop' /\ Sourced'
    <2>1. Q!ShowsItsShop /\ Sourced
      BY <1>13 DEF QuoteInv, OneByOne
    <2>2. \A q \in Q!Live : quote[q].shop # None => quote[q].shop \in Shops
      BY <1>5, PriceParts
    <2>3. \A q \in Q!Live' \ typed' : q \in Q!Live \ typed /\ quote'[q] = quote[q] /\ quote[q].shop # x
      BY <1>4, <1>6, <1>9 DEF Q!From, Q!Live
    <2> QED
      BY <1>12, <2>1, <2>2, <2>3 DEF Q!ShowsItsShop, Sourced
  <1> QED
    BY <1>3, <1>9, <1>10, <1>11, <1>12, <1>13, QuoteLeaves

LEMMA QuoteLock == ASSUME QuoteInv, NEW s \in Slots, Q!Lock(s) PROVE QuoteInv'
  <1>1. /\ QuoteTyped /\ pc[s] = "lock" /\ locker = None /\ locker' = s
        /\ pc' = [pc EXCEPT ![s] = "clear"] /\ UNCHANGED <<mix, quote, shop, typed, job>>
    BY DEF QuoteInv, Q!Lock
  <1>2. pc'[s] = "clear" /\ \A t \in Slots \ {s} : pc'[t] = pc[t]
    BY <1>1 DEF QuoteTyped
  <1>3. QuoteTyped'
    BY <1>1 DEF QuoteTyped, QuoteSteps
  <1>4. \A t \in Slots : Asked(pc[t], job[t])'
    BY <1>1, <1>2 DEF QuoteInv, Asked
  <1>5. Holding'
    BY <1>1, <1>2, QuoteConstants DEF QuoteInv, Holding, Q!Constants
  <1>6. Q!Retained' = Q!Retained /\ Q!Live' = Q!Live /\ Adders' = Adders /\ Unused' = Unused
    BY <1>1 DEF Q!Retained, Q!Live, Adders, Unused
  <1>7. Clearing' /\ Single' /\ Adding' /\ Known' /\ Kept' /\ Q!Attributed'
    BY <1>1, <1>2, <1>6 DEF QuoteInv, Clearing, Single, Adding, Known, Kept, Chosen, Q!Attributed
  <1>8. mix.alone => OneByOne'
    BY <1>1, <1>2, <1>6 DEF QuoteInv, OneByOne, Serial, Fits, Shows, Q!ShowsItsShop, Sourced
  <1> QED
    BY <1>1, <1>3, <1>4, <1>5, <1>7, <1>8 DEF QuoteInv

LEMMA QuoteClear == ASSUME QuoteInv, NEW s \in Slots, Q!Clear(s) PROVE QuoteInv'
  <1>1. /\ QuoteTyped /\ pc[s] = "clear" /\ pc' = [pc EXCEPT ![s] = "commit"]
        /\ UNCHANGED <<mix, quote, shop, typed, locker>>
    BY DEF QuoteInv, Q!Clear
  <1>2. PICK j : j = job[s]
    OBVIOUS
  <1>3. PICK cleared : cleared = IF Q!Clears(j) THEN Q!Retained ELSE {}
    OBVIOUS
  <1>4. PICK k : k = [j EXCEPT !.cleared = cleared]
    OBVIOUS
  <1>5. j \in Q!Job /\ cleared \subseteq Q!Ids
    BY <1>1, <1>2, <1>3 DEF QuoteTyped, Q!Retained, Q!Live
  <1>6. /\ k \in Q!Job /\ k.op = j.op /\ k.q = j.q /\ k.copy = j.copy /\ k.name = j.name /\ k.at = j.at /\ k.to = j.to
        /\ k.cleared = cleared
    BY <1>4, <1>5 DEF Q!Job
  <1>7. job' = [job EXCEPT ![s] = k]
    BY <1>2, <1>3, <1>4 DEF Q!Clear
  <1>8. pc'[s] = "commit" /\ job'[s] = k /\ \A t \in Slots \ {s} : pc'[t] = pc[t] /\ job'[t] = job[t]
    BY <1>1, <1>7 DEF QuoteTyped
  <1>9. QuoteTyped'
    BY <1>1, <1>6, <1>7 DEF QuoteTyped, QuoteSteps
  <1>10. \A t \in Slots : Asked(pc[t], job[t])'
    BY <1>1, <1>2, <1>6, <1>8 DEF QuoteInv, Asked
  <1>11. Holding'
    BY <1>1, <1>8 DEF QuoteInv, Holding
  <1>12. Q!Retained' = Q!Retained /\ Q!Live' = Q!Live /\ Unused' = Unused
    BY <1>1 DEF Q!Retained, Q!Live, Unused
  <1>13. Adders' = Adders
    BY <1>2, <1>6, <1>8 DEF Adders
  <1>14. k.op = "select" => Q!Retained \subseteq k.cleared
    BY <1>3, <1>6 DEF Q!Clears
  <1>15. Clearing'
    BY <1>8, <1>12, <1>14 DEF QuoteInv, Clearing
  <1>16. Single' /\ Adding' /\ Known' /\ Q!Attributed'
    BY <1>1, <1>2, <1>6, <1>8, <1>12, <1>13 DEF QuoteInv, Single, Adding, Known, Q!Attributed
  <1>17. Kept'
    BY <1>1, <1>2, <1>6, <1>8, <1>12 DEF QuoteInv, Kept, Chosen
  <1>18. ASSUME mix.alone PROVE OneByOne'
    <2>1. OneByOne
      BY <1>18 DEF QuoteInv
    <2>2. \A t \in Slots : Fits(job[t])'
      BY <1>1, <1>2, <1>6, <1>8, <1>12, <2>1 DEF OneByOne, Fits, Shows
    <2> QED
      BY <1>1, <1>8, <1>12, <2>1, <2>2 DEF OneByOne, Serial, Q!ShowsItsShop, Sourced
  <1> QED
    BY <1>1, <1>9, <1>10, <1>11, <1>15, <1>16, <1>17, <1>18 DEF QuoteInv

(* The choice: the flag goes everywhere else, and is set once. *)
LEMMA QuoteCommit == ASSUME QuoteInv, NEW s \in Slots, Q!Commit(s) PROVE QuoteInv'
  <1>1. PICK j : j = job[s]
    OBVIOUS
  <1> DEFINE none == [q \in Q!Ids |-> IF q \in j.cleared \cap Q!Live THEN [quote[q] EXCEPT !.retained = FALSE]
                                     ELSE quote[q]]
  <1>2. /\ QuoteTyped /\ pc[s] = "commit" /\ Asked("commit", j) /\ Q!Done(s) /\ UNCHANGED <<mix, shop, typed>>
        /\ locker' = IF locker = s THEN None ELSE locker
    BY <1>1 DEF QuoteInv, Q!Commit
  <1>3. j.op \in {"select", "unselect"} /\ j.copy \in Q!Price /\ j.q \in Q!Ids
        /\ (j.copy.shop # None \/ j.copy.name # None)
    BY <1>2 DEF Asked
  <1>4. shop' \in [Shops -> ShopNames \cup {None}] /\ typed' \subseteq Q!Ids
    BY <1>2 DEF QuoteTyped
  <1>5. \A q \in Q!Live : quote[q] \in Q!Price
    BY <1>2, LivePrice DEF Q!Live
  <1>6. \A q \in Q!Ids : IF q \in Q!Live
                         THEN \E b \in BOOLEAN : /\ IsPrice(none[q], quote[q].shop, quote[q].name, b)
                                                 /\ b => quote[q].retained /\ q \notin j.cleared
                         ELSE none[q] = quote[q]
    <2> SUFFICES ASSUME NEW q \in Q!Live
                 PROVE  \E b \in BOOLEAN : /\ IsPrice(none[q], quote[q].shop, quote[q].name, b)
                                           /\ b => quote[q].retained /\ q \notin j.cleared
      BY DEF Q!Live
    <2>1. q \in Q!Ids
      BY DEF Q!Live
    <2>2. CASE q \in j.cleared
      <3>1. none[q] = [quote[q] EXCEPT !.retained = FALSE]
        BY <2>1, <2>2
      <3>2. IsPrice([quote[q] EXCEPT !.retained = FALSE], quote[q].shop, quote[q].name, FALSE)
        BY <1>5, PriceChanged
      <3> QED
        BY <3>1, <3>2
    <2>3. CASE q \notin j.cleared
      <3>1. none[q] = quote[q]
        BY <2>1, <2>3
      <3>2. IsPrice(quote[q], quote[q].shop, quote[q].name, quote[q].retained) /\ quote[q].retained \in BOOLEAN
        BY <1>5, PriceParts DEF IsPrice
      <3> QED
        BY <2>3, <3>1, <3>2
    <2> QED
      BY <2>2, <2>3
  <1>7. none = [q \in Q!Ids |-> none[q]]
    OBVIOUS
  <1>8. PICK chosen : chosen = [j.copy EXCEPT !.retained = TRUE]
    OBVIOUS
  <1>9. IsPrice(chosen, j.copy.shop, j.copy.name, TRUE)
    BY <1>3, <1>8, PriceChanged
  <1>10. \/ j.op = "unselect" /\ quote' = none
         \/ j.op = "select" /\ j.q \notin Q!Live /\ quote' = none
         \/ j.op = "select" /\ quote' = quote
         \/ j.op = "select" /\ j.q \in Q!Live /\ quote' = [none EXCEPT ![j.q] = chosen]
    BY <1>1, <1>3, <1>8 DEF Q!Commit
  <1> HIDE DEF none
  <1>11. CASE quote' = quote
    <2>1. Unused' = Unused /\ Q!Live' = Q!Live /\ Q!Retained' = Q!Retained
          /\ quote' \in [Q!Ids -> Q!Price \cup {None, Gone}]
      BY <1>2, <1>11 DEF Unused, Q!Live, Q!Retained, QuoteTyped
    <2>2. Q!Attributed' /\ (mix.alone => Q!ShowsItsShop' /\ Sourced')
      BY <1>2, <1>11, <2>1 DEF QuoteInv, OneByOne, Q!Attributed, Q!ShowsItsShop, Sourced
    <2> QED
      BY <1>2, <1>4, <2>1, <2>2, QuoteLeaves
  <1>12. CASE quote' = none
    <2>1. \A q \in Q!Ids : none[q] \in Q!Price \cup {None, Gone} /\ (none[q] \in {None, Gone} => none[q] = quote[q])
      BY <1>2, <1>6, PriceParts DEF QuoteTyped, IsPrice
    <2>2. \A q \in Q!Ids : quote[q] \in {None, Gone} => none[q] = quote[q]
      BY <1>6 DEF Q!Live
    <2>3. quote' \in [Q!Ids -> Q!Price \cup {None, Gone}]
      BY <1>7, <1>12, <2>1
    <2>4. Unused' = Unused /\ Q!Live' = Q!Live
      BY <1>12, <2>1, <2>2 DEF Unused, Q!Live
    <2>5. \A q \in Q!Live : /\ quote'[q].shop = quote[q].shop /\ quote'[q].name = quote[q].name
                            /\ quote'[q].retained => quote[q].retained
      BY <1>6, <1>12 DEF Q!Live, IsPrice
    <2>6. Q!Retained' \subseteq Q!Retained /\ Q!Attributed' /\ (mix.alone => Q!ShowsItsShop' /\ Sourced')
      BY <1>2, <2>4, <2>5 DEF QuoteInv, OneByOne, Q!Retained, Q!Attributed, Q!ShowsItsShop, Sourced
    <2> QED
      BY <1>2, <1>4, <2>3, <2>4, <2>6, QuoteLeaves
  <1>13. CASE j.op = "select" /\ j.q \in Q!Live /\ quote' = [none EXCEPT ![j.q] = chosen]
    <2>1. \A q \in Q!Ids : quote'[q] = IF q = j.q THEN chosen ELSE none[q]
      BY <1>7, <1>13
    <2>2. \A q \in Q!Ids : none[q] \in Q!Price \cup {None, Gone} /\ (none[q] \in {None, Gone} => none[q] = quote[q])
      BY <1>2, <1>6, PriceParts DEF QuoteTyped, IsPrice
    <2>3. \A q \in Q!Ids : quote[q] \in {None, Gone} => none[q] = quote[q]
      BY <1>6 DEF Q!Live
    <2>4. chosen \in Q!Price /\ chosen \notin {None, Gone} /\ quote[j.q] \notin {None, Gone}
      BY <1>9, <1>13, PriceParts DEF IsPrice, Q!Live
    <2>5. quote' \in [Q!Ids -> Q!Price \cup {None, Gone}]
      BY <1>7, <1>13, <2>2, <2>4
    <2>6. Unused' = Unused /\ Q!Live' = Q!Live
      BY <2>1, <2>2, <2>3, <2>4 DEF Unused, Q!Live
    <2>7. \A q \in Q!Live \ {j.q} : /\ quote'[q].shop = quote[q].shop /\ quote'[q].name = quote[q].name
                                    /\ quote'[q].retained => quote[q].retained /\ q \notin j.cleared
      BY <1>6, <2>1 DEF Q!Live, IsPrice
    <2>8. quote'[j.q].shop = j.copy.shop /\ quote'[j.q].name = j.copy.name
      BY <1>3, <1>9, <2>1 DEF IsPrice
    <2>9. Q!Attributed'
      BY <1>3, <2>6, <2>7, <2>8 DEF QuoteInv, Q!Attributed
    <2>10. Q!Retained \subseteq j.cleared
      BY <1>1, <1>2, <1>13 DEF QuoteInv, Clearing
    <2>11. Q!Retained' \subseteq {j.q}
      BY <2>6, <2>7, <2>10 DEF Q!Retained
    <2>12. Single'
      BY <2>11 DEF Single
    <2>13. locker = s /\ \A t \in Slots \ {s} : pc[t] # "commit"
      BY <1>2 DEF QuoteInv, Holding
    <2>14. "select" \in mix.ops
      BY <1>2, <1>13 DEF Asked
    <2>15. ASSUME mix.alone PROVE Q!ShowsItsShop' /\ Sourced'
      <3>1. Q!ShowsItsShop /\ Sourced /\ j.copy = quote[j.q]
        BY <1>1, <1>13, <2>15 DEF QuoteInv, OneByOne, Fits
      <3>2. \A q \in Q!Live : quote'[q].shop = quote[q].shop /\ quote'[q].name = quote[q].name
        BY <2>7, <2>8, <3>1
      <3> QED
        BY <1>2, <2>6, <3>1, <3>2 DEF Q!ShowsItsShop, Sourced
    <2>16. Cardinality(Adders \ {s}) <= Cardinality(Unused') /\ Unused' \subseteq Unused
      <3>1. Adders \ {s} = Adders
        BY <1>1, <1>13 DEF Adders
      <3> QED
        BY <2>6, <3>1 DEF QuoteInv, Adding
    <2> QED
      BY <1>2, <1>4, <2>5, <2>9, <2>12, <2>13, <2>14, <2>15, <2>16, QuoteEnds
  <1> QED
    BY <1>10, <1>11, <1>12, <1>13

LEMMA QuoteNext == ASSUME QuoteInv, EditsApart, [Q!Next]_Q!vars PROVE QuoteInv'
  <1>1. CASE UNCHANGED Q!vars
    <2>1. Q!Retained' = Q!Retained /\ Q!Live' = Q!Live /\ Adders' = Adders /\ Unused' = Unused
      BY <1>1 DEF Q!vars, Q!Retained, Q!Live, Adders, Unused
    <2>2. QuoteTyped' /\ \A s \in Slots : Asked(pc[s], job[s])'
      BY <1>1 DEF Q!vars, QuoteInv, QuoteTyped, Asked
    <2>3. Holding' /\ Clearing' /\ Single' /\ Adding' /\ Known' /\ Kept' /\ Q!Attributed'
      BY <1>1, <2>1 DEF Q!vars, QuoteInv, Holding, Clearing, Single, Adding, Known, Kept, Chosen, Q!Attributed
    <2>4. mix.alone => OneByOne'
      BY <1>1, <2>1 DEF Q!vars, QuoteInv, OneByOne, Serial, Fits, Shows, Q!ShowsItsShop, Sourced
    <2> QED
      BY <1>1, <2>2, <2>3, <2>4 DEF QuoteInv, Q!vars
  <1>2. ASSUME NEW s \in Slots, Q!Add(s) \/ Q!Edit(s) \/ Q!Read(s) \/ Q!OpenShop(s) \/ Q!RenameShop(s) \/ Q!DropShop(s)
        PROVE  QuoteInv'
    BY <1>2, QuoteAdd, QuoteEdit, QuoteRead, QuoteShopkeeping
  <1>3. ASSUME NEW s \in Slots, Q!WriteRow(s) \/ Q!WriteOpened(s) \/ Q!WriteRenamed(s) \/ Q!WriteDropped(s)
        PROVE  QuoteInv'
    BY <1>3, QuoteWriteRow, QuoteOpened, QuoteRenamed, QuoteDropped
  <1>4. ASSUME NEW s \in Slots, Q!Lock(s) \/ Q!Clear(s) \/ Q!Commit(s) PROVE QuoteInv'
    BY <1>4, QuoteLock, QuoteClear, QuoteCommit
  <1> QED
    BY <1>1, <1>2, <1>3, <1>4 DEF Q!Next

(* While a request chooses a price, every flag there is waits to be cleared *)
(* by it, where no edit overlaps with a choice.                             *)
THEOREM QuoteInvariant == EditsApart => (Spec => [](part = "quotes" => QuoteInv))
  <1> SUFFICES ASSUME EditsApart PROVE Spec => [](part = "quotes" => QuoteInv)
    OBVIOUS
  <1>1. Init => (part = "quotes" => QuoteInv)
    BY QuoteInit
  <1>2. (part = "quotes" => QuoteInv) /\ [Next]_vars => (part = "quotes" => QuoteInv)'
    <2> SUFFICES ASSUME part = "quotes" => QuoteInv, [Next]_vars, part' = "quotes" PROVE QuoteInv'
      OBVIOUS
    <2>1. CASE Next
      BY <2>1, QuoteNext DEF Next
    <2>2. CASE UNCHANGED vars
      BY <2>2, QuoteNext DEF vars, qvars, Q!vars
    <2> QED
      BY <2>1, <2>2
  <1> QED
    BY <1>1, <1>2, PTL DEF Spec

(* Of the prices of an article one at most is retained and each says where  *)
(* it comes from, however choices, additions, deletions and changes of the  *)
(* shops overlap; and, with requests one after another, a price shows its   *)
(* shop's current name.                                                     *)
THEOREM OnePriceIsRetained == EditsApart => (Spec => []QuotesHold)
  <1> SUFFICES ASSUME EditsApart PROVE Spec => []QuotesHold
    OBVIOUS
  <1>1. (part = "quotes" => QuoteInv) => QuotesHold
    <2> SUFFICES ASSUME part = "quotes", QuoteInv PROVE QuotesHold
      BY DEF QuotesHold, OneRetained
    <2>1. Q!TypeOK
      BY DEF QuoteInv, QuoteTyped, Q!TypeOK, QuoteSteps
    <2>2. Q!OneRetained
      <3>1. Q!Retained = {} \/ \E q : Q!Retained = {q}
        BY DEF QuoteInv, Single
      <3>2. Cardinality(Q!Retained) <= 1
        BY <3>1, FS_EmptySet, FS_Singleton
      <3> QED
        BY <3>2, SameCount DEF Q!OneRetained
    <2>3. Q!Attributed /\ (mix.alone => Q!ShowsItsShop)
      BY DEF QuoteInv, OneByOne
    <2> QED
      BY <2>1, <2>2, <2>3 DEF QuotesHold, OneRetained
  <1> QED
    BY <1>1, QuoteInvariant, PTL

--------------------------------------------------------------------------------
(* The files of a project                                                  *)

FileSteps == {"idle", "put", "head", "name", "save", "owner", "discard", "delete", "rename"}
FileRow == [name : F!Names, deleted : (0..MaxDay) \cup {None}]
Days == (0..MaxDay) \cup {None}

IsFileJob(j) == j = [f |-> j.f, left |-> j.left, name |-> j.name]
IsJanitor(j) == j = [does |-> j.does, rows |-> j.rows, row |-> j.row, left |-> j.left, erased |-> j.erased]

FileTyped ==
    /\ mix \in FileMixes /\ now \in 0..MaxDay /\ unfit \subseteq Files /\ crossed \subseteq Files
    /\ row \in [Files -> FileRow \cup {None, Gone}]
    /\ stored \in [Files \X {"body", "thumb"} -> Days] /\ issued \in [Files -> Days]
    /\ pc \in [Slots -> FileSteps] /\ job = [s \in Slots |-> job[s]] /\ \A s \in Slots : IsFileJob(job[s])

(* An address comes before its object, its deletion and its end. *)
Dated ==
    \A f \in Files : issued[f] # None =>
        /\ mix.kind[f] = "direct" /\ issued[f] <= now
        /\ row[f] = Gone => issued[f] < now
        /\ F!HasRow(f) /\ row[f].deleted # None => row[f].deleted >= issued[f]
        /\ stored[<<f, "body">>] # None => stored[<<f, "body">>] >= issued[f]

(* An object that a browser put has an address, and a document whose        *)
(* confirmation met a sweep was issued before the grace.                    *)
Late(f) == mix.kind[f] = "direct" /\ issued[f] # None /\ issued[f] <= now - Grace
Crossing ==
    /\ \A f \in Files : mix.kind[f] = "direct" /\ stored[<<f, "body">>] # None => issued[f] # None
    /\ \A f \in crossed : Late(f)

(* What a request holds. *)
Handles(step, j) ==
    /\ step # "idle" => j.f \in Files
    /\ step \in {"save", "rename"} => j.name \in F!Names
    /\ step \in {"head", "name", "save"} => j.left = {}
    /\ step \in {"put", "owner", "discard"} => j.left \subseteq F!Of(j.f)
    /\ step = "put" => mix.kind[j.f] # "direct" /\ j.left # {}
    /\ step \in {"head", "owner"} => mix.kind[j.f] = "direct"

(* An upload through the server: there is no row, and objects of today. *)
Uploads(step, j) ==
    step \in {"put", "name", "save", "discard"} /\ mix.kind[j.f] # "direct" =>
        /\ row[j.f] = None /\ issued[j.f] = None
        /\ \A o \in F!Of(j.f) : stored[o] \in {None, now} /\ (step # "discard" /\ o \notin j.left => stored[o] = now)

(* A confirmation, of any age: a row it finds is of today, and unless a     *)
(* sweep crosses it the object is there and nobody throws it away.          *)
Confirms(step, j) ==
    step \in {"head", "name", "save", "owner", "discard"} /\ mix.kind[j.f] = "direct" =>
        /\ issued[j.f] # None
        /\ F!HasRow(j.f) => row[j.f].deleted \in {None, now}
        /\ step # "head" => row[j.f] # Gone
        /\ step \in {"name", "save"} /\ j.f \notin crossed => stored[<<j.f, "body">>] # None /\ ~F!Swept(j.f)
        /\ step = "owner" => mix.alone \/ F!HasRow(j.f)
        /\ step = "discard" => mix.alone
        /\ mix.alone => ~F!HasRow(j.f)

Owns(step, j) == step \in {"put", "name", "save", "discard"} /\ mix.kind[j.f] # "direct"
Apart == \A s, t \in Slots : s # t /\ Owns(pc[s], job[s]) => job[t].f # job[s].f

(* One request after another, a name that was free is free. *)
Named(step, j) ==
    /\ step = "save" => j.name \notin F!LiveNames
    /\ step = "rename" => /\ F!Live(j.f) /\ F!IsDocument(j.f)
                          /\ j.name = row[j.f].name \/ j.name \notin F!LiveNames

(* What the janitor is about to take: deleted long ago, or owned by nobody. *)
Overdue(f) == f \in Files /\ F!HasRow(f) /\ row[f].deleted # None /\ row[f].deleted < now - Retention
Purging ==
    janitor.does = "purge" =>
        /\ \A f \in janitor.rows \cup janitor.erased : Overdue(f)
        /\ \A f \in janitor.erased : \A o \in F!Of(f) : stored[o] = None
        /\ janitor.row # None => Overdue(janitor.row) /\ janitor.left \subseteq F!Of(janitor.row)
                                 /\ \A o \in F!Of(janitor.row) \ janitor.left : stored[o] = None
Sweeping ==
    janitor.does = "sweep" =>
        \A o \in janitor.left :
            /\ o \in F!Objects /\ F!IsDocument(o[1])
            /\ F!HasRow(o[1]) => o[1] \in crossed
            /\ IF mix.kind[o[1]] = "direct" THEN Late(o[1]) ELSE stored[o] # None /\ stored[o] <= now - Grace
Cleaning ==
    /\ IsJanitor(janitor) /\ janitor.does \in {"rest", "purge", "sweep"}
    /\ janitor.does # "purge" => janitor.row = None
    /\ Purging /\ Sweeping

FileInv ==
    /\ FileTyped /\ Dated /\ Crossing /\ Apart /\ Cleaning /\ F!FilesKept /\ F!NoTrace
    /\ \A s \in Slots : Handles(pc[s], job[s]) /\ Uploads(pc[s], job[s]) /\ Confirms(pc[s], job[s])
    /\ ~mix.alone => unfit = {}
    /\ mix.alone => Serial /\ F!NamesApart /\ \A s \in Slots : Named(pc[s], job[s])

(* A confirmation whose save fails does not overlap with another one. *)
SavesApart == \A m \in FileMixes : m.alone \/ "save fails" \notin m.faults

--------------------------------------------------------------------------------
LEMMA FileParts ==
    /\ \A r \in FileRow : r \notin {None, Gone}
    /\ \A d \in 0..MaxDay : d # None
    /\ None \notin Files /\ None # Gone /\ Retention \in Nat /\ Grace \in Nat \ {0} /\ MaxDay \in Nat
  <1>1. FileRow \subseteq [name : Nat, deleted : Nat \cup {None}]
    BY FileConstants DEF F!Constants, FileRow, F!Names
  <1> QED
    BY <1>1, FileConstants DEF F!Constants

LEMMA ObjectsOf ==
    /\ \A f \in Files : <<f, "body">> \in F!Of(f) /\ (mix.kind[f] = "direct" => F!Of(f) = {<<f, "body">>})
    /\ \A f \in Files : F!Of(f) \subseteq F!Objects /\ \A o \in F!Of(f) : o[1] = f
    /\ \A o \in F!Objects : o \in Files \X {"body", "thumb"} /\ o[1] \in Files /\ o \in F!Of(o[1])
  BY DEF F!Of, F!Objects, F!Pieces

LEMMA ObjectsStay ==
    ASSUME mix' = mix
    PROVE  /\ F!Objects' = F!Objects /\ \A f : F!Of(f)' = F!Of(f) /\ (F!IsDocument(f)' <=> F!IsDocument(f))
  BY DEF F!Of, F!Objects, F!Pieces, F!IsDocument

(* A step of a request, as far as the others see it. *)
LEMMA FileJobs ==
    ASSUME FileInv, mix' = mix, NEW s \in Slots, NEW step \in FileSteps, NEW j, IsFileJob(j),
           Handles(step, j), F!Go(s, step, j),
           Owns(step, j) => \A t \in Slots \ {s} : job[t].f # j.f,
           \A t \in Slots \ {s} : Owns(pc[t], job[t]) => j.f # job[t].f
    PROVE  /\ pc' \in [Slots -> FileSteps] /\ job' = [t \in Slots |-> job'[t]]
           /\ \A t \in Slots : IsFileJob(job'[t]) /\ Handles(pc[t], job[t])'
           /\ pc'[s] = step /\ job'[s] = j /\ \A t \in Slots \ {s} : pc'[t] = pc[t] /\ job'[t] = job[t]
           /\ Apart'
  <1>1. /\ pc' \in [Slots -> FileSteps] /\ job' = [t \in Slots |-> job'[t]]
        /\ pc'[s] = step /\ job'[s] = j /\ \A t \in Slots \ {s} : pc'[t] = pc[t] /\ job'[t] = job[t]
    BY DEF FileInv, FileTyped, F!Go
  <1>2. \A t \in Slots : IsFileJob(job'[t])
    BY <1>1 DEF FileInv, FileTyped
  <1>3. \A t \in Slots : Handles(pc[t], job[t])'
    BY <1>1, ObjectsStay DEF FileInv, Handles
  <1>4. Apart'
    BY <1>1 DEF FileInv, Apart, Owns
  <1> QED
    BY <1>1, <1>2, <1>3, <1>4

(* More confirmations have met a sweep than before. *)
Crosses == crossed \subseteq crossed' /\ crossed' \subseteq Files /\ \A f \in crossed' : Late(f)

LEMMA LateIsLate == ASSUME FileTyped, NEW f \in Files, Late(f) PROVE issued[f] # None /\ issued[f] + Grace <= now
  BY FileParts DEF FileTyped, Late, Days

LEMMA CrossesNot == ASSUME FileInv, crossed' = crossed PROVE Crosses
  BY DEF Crosses, FileInv, FileTyped, Crossing

LEMMA FilesCross ==
    ASSUME FileInv, Crosses, UNCHANGED <<mix, now, row, stored, issued>>
    PROVE  Dated' /\ Crossing' /\ F!FilesKept' /\ F!NoTrace'
  <1>1. Dated' /\ F!NoTrace'
    BY ObjectsStay DEF FileInv, Dated, F!NoTrace, F!HasRow
  <1>2. Crossing'
    BY DEF FileInv, Crossing, Crosses, Late
  <1>3. F!FilesKept'
    <2>1. \A f \in crossed' : issued[f] # None /\ issued[f] + Grace <= now
      BY LateIsLate DEF FileInv, Crosses
    <2>2. \A f \in Files \ crossed' : f \in Files \ crossed
      BY DEF Crosses
    <2> QED
      BY <2>1, <2>2, ObjectsStay DEF FileInv, F!FilesKept, F!HasRow, F!Live
  <1> QED
    BY <1>1, <1>2, <1>3

(* Nothing but a request changes, and what has met a sweep. *)
LEMMA FileGoesOn ==
    ASSUME FileInv, NEW s \in Slots, NEW step \in FileSteps, NEW j, IsFileJob(j), F!Go(s, step, j),
           UNCHANGED <<mix, now, row, stored, issued, unfit, janitor>>, Crosses,
           Handles(step, j), Uploads(step, j), Confirms(step, j)',
           Owns(step, j) => \A t \in Slots \ {s} : job[t].f # j.f,
           \A t \in Slots \ {s} : Owns(pc[t], job[t]) => j.f # job[t].f,
           mix.alone => Named(step, j) /\ (pc[s] # "idle" \/ step = "idle" \/ \A t \in Slots : pc[t] = "idle")
    PROVE  FileInv'
  <1>1. /\ pc' \in [Slots -> FileSteps] /\ job' = [t \in Slots |-> job'[t]]
        /\ \A t \in Slots : IsFileJob(job'[t]) /\ Handles(pc[t], job[t])'
        /\ pc'[s] = step /\ job'[s] = j /\ \A t \in Slots \ {s} : pc'[t] = pc[t] /\ job'[t] = job[t]
        /\ Apart'
    BY FileJobs
  <1>2. FileTyped'
    BY <1>1 DEF FileInv, FileTyped, Crosses
  <1>3. Dated' /\ Crossing' /\ F!FilesKept' /\ F!NoTrace'
    BY FilesCross
  <1>4. Cleaning'
    BY ObjectsStay DEF FileInv, Cleaning, IsJanitor, Purging, Sweeping, Overdue, F!HasRow, Late, Crosses
  <1>5. \A t \in Slots : Uploads(pc[t], job[t])' /\ Confirms(pc[t], job[t])'
    <2>1. \A t \in Slots : Uploads(pc[t], job[t])'
      BY <1>1, ObjectsStay DEF FileInv, Uploads
    <2>2. ASSUME NEW t \in Slots PROVE Confirms(pc[t], job[t])'
      <3>1. CASE t = s
        BY <1>1, <3>1 DEF Confirms
      <3>2. CASE t # s
        <4>1. Confirms(pc[t], job[t]) /\ pc'[t] = pc[t] /\ job'[t] = job[t]
          BY <1>1, <3>2 DEF FileInv
        <4> QED
          BY <4>1 DEF Confirms, Crosses, F!HasRow, F!Swept
      <3> QED
        BY <3>1, <3>2
    <2> QED
      BY <2>1, <2>2
  <1>6. F!LiveNames' = F!LiveNames /\ (\A f : F!Live(f)' <=> F!Live(f))
    BY DEF F!LiveNames, F!Live, F!HasRow, F!IsDocument
  <1>7. mix.alone => Serial' /\ F!NamesApart' /\ \A t \in Slots : Named(pc[t], job[t])'
    <2>1. mix.alone => Serial'
      BY <1>1 DEF FileInv, Serial
    <2>2. mix.alone => F!NamesApart'
      BY <1>6, ObjectsStay DEF FileInv, F!NamesApart
    <2>3. mix.alone => \A t \in Slots : Named(pc[t], job[t])'
      BY <1>1, <1>6, ObjectsStay DEF FileInv, Named
    <2> QED
      BY <2>1, <2>2, <2>3
  <1> QED
    BY <1>1, <1>2, <1>3, <1>4, <1>5, <1>7 DEF FileInv

LEMMA FileGoes ==
    ASSUME FileInv, NEW s \in Slots, NEW step \in FileSteps, NEW j, IsFileJob(j), F!Go(s, step, j),
           UNCHANGED <<mix, now, row, stored, issued, unfit, crossed, janitor>>,
           Handles(step, j), Uploads(step, j), Confirms(step, j),
           Owns(step, j) => \A t \in Slots \ {s} : job[t].f # j.f,
           \A t \in Slots \ {s} : Owns(pc[t], job[t]) => j.f # job[t].f,
           mix.alone => Named(step, j) /\ (pc[s] # "idle" \/ step = "idle" \/ \A t \in Slots : pc[t] = "idle")
    PROVE  FileInv'
  <1>1. Confirms(step, j)'
    BY DEF Confirms, F!HasRow, F!Swept
  <1> QED
    BY <1>1, CrossesNot, FileGoesOn

LEMMA FileEnds ==
    ASSUME FileInv, NEW s \in Slots, F!Done(s), UNCHANGED <<mix, now, row, stored, issued, unfit, crossed, janitor>>
    PROVE  FileInv'
  <1>1. F!Go(s, "idle", F!Idle) /\ IsFileJob(F!Idle) /\ F!Idle.f = None /\ "idle" \in FileSteps
    BY DEF F!Done, F!Idle, IsFileJob, FileSteps
  <1>2. \A t \in Slots \ {s} : Owns(pc[t], job[t]) => F!Idle.f # job[t].f
    BY <1>1, FileParts DEF FileInv, Owns, Handles
  <1>3. Handles("idle", F!Idle) /\ Uploads("idle", F!Idle) /\ Confirms("idle", F!Idle) /\ ~Owns("idle", F!Idle)
        /\ Named("idle", F!Idle)
    BY DEF Handles, Uploads, Confirms, Owns, Named
  <1> QED
    BY <1>1, <1>2, <1>3, FileGoes

LEMMA FileUpload == ASSUME FileInv, NEW s \in Slots, NEW f \in Files, F!Upload(s, f) PROVE FileInv'
  <1>1. PICK j : j = [F!Idle EXCEPT !.f = f, !.left = F!Of(f)]
    OBVIOUS
  <1>2. IsFileJob(j) /\ j.f = f /\ j.left = F!Of(f)
    BY <1>1 DEF F!Idle, IsFileJob
  <1>3. F!Go(s, "put", j) /\ UNCHANGED <<mix, now, row, stored, issued, unfit, crossed, janitor>>
    BY <1>1 DEF F!Upload
  <1>4. /\ mix.kind[f] # "direct" /\ row[f] = None /\ issued[f] = None
        /\ (\A t \in Slots : job[t].f # f) /\ \A o \in F!Of(f) : stored[o] = None
        /\ mix.alone => \A t \in Slots : pc[t] = "idle"
    BY DEF F!Upload, F!New, F!Free
  <1>5. Handles("put", j)
    <2>1. j.left # {}
      <3>1. <<f, "body">> \in j.left
        BY <1>2, ObjectsOf
      <3> QED
        BY <3>1
    <2> QED
      BY <1>2, <1>4, <2>1 DEF Handles
  <1>6. Uploads("put", j)
    BY <1>2, <1>4 DEF Uploads
  <1>7. Confirms("put", j) /\ Named("put", j)
    BY DEF Confirms, Named
  <1> QED
    BY <1>2, <1>3, <1>4, <1>5, <1>6, <1>7, FileGoes DEF FileSteps

LEMMA FileConfirm == ASSUME FileInv, NEW s \in Slots, NEW f \in Files, F!Confirm(s, f) PROVE FileInv'
  <1>1. PICK j : j = [F!Idle EXCEPT !.f = f]
    OBVIOUS
  <1>2. IsFileJob(j) /\ j.f = f /\ j.left = {}
    BY <1>1 DEF F!Idle, IsFileJob
  <1>3. F!Go(s, "head", j) /\ UNCHANGED <<mix, now, row, stored, issued, unfit, crossed, janitor>>
    BY <1>1 DEF F!Confirm
  <1>4. issued[f] # None /\ ~F!HasRow(f) /\ (mix.alone => \A t \in Slots : pc[t] = "idle")
    BY DEF F!Confirm, F!Free
  <1>5. mix.kind[f] = "direct"
    BY <1>4 DEF FileInv, Dated
  <1>6. Handles("head", j) /\ Uploads("head", j) /\ Confirms("head", j) /\ Named("head", j) /\ ~Owns("head", j)
    BY <1>2, <1>4, <1>5 DEF Handles, Uploads, Confirms, Named, Owns
  <1>7. \A t \in Slots \ {s} : Owns(pc[t], job[t]) => j.f # job[t].f
    BY <1>2, <1>5 DEF Owns
  <1> QED
    BY <1>2, <1>3, <1>4, <1>6, <1>7, FileGoes DEF FileSteps

LEMMA FileHead == ASSUME FileInv, NEW s \in Slots, F!Head(s) PROVE FileInv'
  <1>1. PICK j : j = job[s]
    OBVIOUS
  <1>2. PICK f : f = job[s].f
    OBVIOUS
  <1>3. pc[s] = "head" /\ UNCHANGED <<mix, now, row, stored, issued, unfit, janitor>>
    BY DEF F!Head
  <1>4. f \in Files /\ mix.kind[f] = "direct" /\ j.f = f /\ j.left = {} /\ IsFileJob(j) /\ Confirms("head", j)
    BY <1>1, <1>2, <1>3 DEF FileInv, FileTyped, Handles
  <1>5. \A t \in Slots \ {s} : Owns(pc[t], job[t]) => f # job[t].f
    BY <1>2 DEF FileInv, Apart
  <1>6. s \in DOMAIN pc
    BY DEF FileInv, FileTyped
  <1>7. \/ F!Done(s) /\ crossed' = crossed
        \/ /\ stored[<<f, "body">>] # None /\ f \in unfit /\ F!Go(s, "discard", [job[s] EXCEPT !.left = F!Of(f)])
           /\ crossed' = crossed
        \/ /\ stored[<<f, "body">>] # None /\ F!Go(s, "name", j)
           /\ crossed' = IF F!Swept(f) THEN crossed \cup {f} ELSE crossed
    BY <1>1, <1>2, <1>6 DEF F!Head, F!Done, F!Go
  <1>8. stored[<<f, "body">>] # None => row[f] # Gone
    BY <1>4, ObjectsOf DEF FileInv, F!NoTrace
  <1>9. CASE F!Done(s) /\ crossed' = crossed
    BY <1>3, <1>9, FileEnds
  <1>10. CASE /\ stored[<<f, "body">>] # None /\ f \in unfit /\ F!Go(s, "discard", [job[s] EXCEPT !.left = F!Of(f)])
              /\ crossed' = crossed
    <2>1. PICK k : k = [job[s] EXCEPT !.left = F!Of(f)]
      OBVIOUS
    <2>2. IsFileJob(k) /\ k.f = f /\ k.left = F!Of(f) /\ F!Go(s, "discard", k)
      BY <1>1, <1>2, <1>4, <1>10, <2>1 DEF IsFileJob
    <2>3. mix.alone
      BY <1>10, FileConstants DEF FileInv, FileTyped, F!Constants
    <2>4. Handles("discard", k) /\ Uploads("discard", k) /\ ~Owns("discard", k) /\ Named("discard", k)
      BY <1>4, <2>2 DEF Handles, Uploads, Owns, Named
    <2>5. Confirms("discard", k)
      BY <1>4, <1>8, <1>10, <2>2, <2>3 DEF Confirms
    <2> QED
      BY <1>3, <1>5, <1>10, <2>2, <2>4, <2>5, FileGoes DEF FileSteps
  <1>11. CASE /\ stored[<<f, "body">>] # None /\ F!Go(s, "name", j)
              /\ crossed' = IF F!Swept(f) THEN crossed \cup {f} ELSE crossed
    <2>1. Handles("name", j) /\ Uploads("name", j) /\ ~Owns("name", j) /\ Named("name", j)
      BY <1>4 DEF Handles, Uploads, Owns, Named
    <2>2. F!Swept(f) => Late(f)
      BY <1>4 DEF FileInv, Cleaning, Sweeping, F!Swept
    <2>3. Crosses
      BY <1>4, <1>11, <2>2 DEF FileInv, FileTyped, Crossing, Crosses
    <2>4. f \notin crossed' => ~F!Swept(f)
      BY <1>11
    <2>5. Confirms("name", j)'
      BY <1>3, <1>4, <1>8, <1>11, <2>4 DEF Confirms, F!HasRow, F!Swept
    <2> QED
      BY <1>3, <1>4, <1>5, <1>11, <2>1, <2>3, <2>5, FileGoesOn DEF FileSteps
  <1> QED
    BY <1>7, <1>9, <1>10, <1>11

(* A request that goes on with its file, for the ones that own it. *)
LEMMA StillOwns ==
    ASSUME FileInv, NEW s \in Slots, NEW step, NEW j, j.f = job[s].f, Owns(step, j) => Owns(pc[s], job[s])
    PROVE  /\ Owns(step, j) => \A t \in Slots \ {s} : job[t].f # j.f
           /\ \A t \in Slots \ {s} : Owns(pc[t], job[t]) => j.f # job[t].f
  BY DEF FileInv, Apart

LEMMA FileName == ASSUME FileInv, NEW s \in Slots, F!Name(s) PROVE FileInv'
  <1>1. PICK n \in F!Names : n \notin F!LiveNames /\ F!Go(s, "save", [job[s] EXCEPT !.name = n])
    BY DEF F!Name
  <1>2. PICK j : j = [job[s] EXCEPT !.name = n]
    OBVIOUS
  <1>3. pc[s] = "name" /\ UNCHANGED <<mix, now, row, stored, issued, unfit, crossed, janitor>>
    BY DEF F!Name
  <1>4. IsFileJob(j) /\ j.f = job[s].f /\ j.left = job[s].left /\ j.name = n /\ F!Go(s, "save", j)
    BY <1>1, <1>2 DEF FileInv, FileTyped, IsFileJob
  <1>5. Handles("name", job[s]) /\ Uploads("name", job[s]) /\ Confirms("name", job[s])
    BY <1>3 DEF FileInv
  <1>6. Handles("save", j)
    BY <1>1, <1>4, <1>5 DEF Handles
  <1>7. Uploads("save", j)
    BY <1>4, <1>5 DEF Uploads
  <1>8. Confirms("save", j)
    BY <1>4, <1>5 DEF Confirms
  <1>9. Named("save", j) /\ (Owns("save", j) => Owns(pc[s], job[s]))
    BY <1>1, <1>3, <1>4 DEF Named, Owns
  <1>10. "save" \in FileSteps /\ pc[s] # "idle"
    BY <1>3 DEF FileSteps
  <1>11. /\ Owns("save", j) => \A t \in Slots \ {s} : job[t].f # j.f
         /\ \A t \in Slots \ {s} : Owns(pc[t], job[t]) => j.f # job[t].f
    BY <1>4, <1>9, StillOwns
  <1> QED
    BY <1>3, <1>4, <1>6, <1>7, <1>8, <1>9, <1>10, <1>11, FileGoes

LEMMA FileOwner == ASSUME FileInv, NEW s \in Slots, F!Owner(s) PROVE FileInv'
  <1>1. PICK j : j = job[s]
    OBVIOUS
  <1>2. pc[s] = "owner" /\ UNCHANGED <<mix, now, row, stored, issued, unfit, crossed, janitor>>
        /\ (F!Done(s) \/ (~F!HasRow(j.f) /\ F!Go(s, "discard", j)))
    BY <1>1 DEF F!Owner
  <1>3. CASE F!Done(s)
    BY <1>2, <1>3, FileEnds
  <1>4. CASE ~F!HasRow(j.f) /\ F!Go(s, "discard", j)
    <2>1. Handles("owner", j) /\ Confirms("owner", j) /\ IsFileJob(j)
      BY <1>1, <1>2 DEF FileInv, FileTyped
    <2>2. Handles("discard", j) /\ Uploads("discard", j) /\ ~Owns("discard", j) /\ Named("discard", j)
      BY <2>1 DEF Handles, Uploads, Owns, Named
    <2>3. Confirms("discard", j)
      BY <1>4, <2>1 DEF Confirms, Handles
    <2>4. "discard" \in FileSteps /\ pc[s] # "idle"
      BY <1>2 DEF FileSteps
    <2>5. \A t \in Slots \ {s} : Owns(pc[t], job[t]) => j.f # job[t].f
      BY <1>1, <2>2, StillOwns
    <2> QED
      BY <1>2, <1>4, <2>1, <2>2, <2>3, <2>4, <2>5, FileGoes
  <1> QED
    BY <1>2, <1>3, <1>4

LEMMA FileCrash == ASSUME FileInv, NEW s \in Slots, F!Crash(s) PROVE FileInv'
  BY FileEnds DEF F!Crash

LEMMA FileRead == ASSUME FileInv, NEW s \in Slots, NEW f \in Files, F!Read(s, f) PROVE FileInv'
  <1>1. F!Live(f) /\ UNCHANGED <<mix, now, row, stored, issued, unfit, crossed, janitor>>
        /\ (mix.alone => \A t \in Slots : pc[t] = "idle")
    BY DEF F!Read, F!Free
  <1>2. \A t \in Slots \ {s} : Owns(pc[t], job[t]) => f # job[t].f
    <2>1. row[f] # None
      BY <1>1 DEF F!Live, F!HasRow
    <2> QED
      BY <2>1 DEF FileInv, Owns, Uploads
  <1>3. CASE F!Go(s, "delete", [F!Idle EXCEPT !.f = f])
    <2>1. PICK j : j = [F!Idle EXCEPT !.f = f]
      OBVIOUS
    <2>2. IsFileJob(j) /\ j.f = f /\ F!Go(s, "delete", j)
      BY <1>3, <2>1 DEF F!Idle, IsFileJob
    <2>3. Handles("delete", j) /\ Uploads("delete", j) /\ Confirms("delete", j) /\ ~Owns("delete", j)
          /\ Named("delete", j) /\ "delete" \in FileSteps
      BY <2>2 DEF Handles, Uploads, Confirms, Owns, Named, FileSteps
    <2> QED
      BY <1>1, <1>2, <2>2, <2>3, FileGoes
  <1>4. CASE F!IsDocument(f) /\ \E n \in F!Names : (n = row[f].name \/ n \notin F!LiveNames)
                                  /\ F!Go(s, "rename", [F!Idle EXCEPT !.f = f, !.name = n])
    <2>1. PICK n \in F!Names : (n = row[f].name \/ n \notin F!LiveNames)
                              /\ F!Go(s, "rename", [F!Idle EXCEPT !.f = f, !.name = n])
      BY <1>4
    <2>2. PICK j : j = [F!Idle EXCEPT !.f = f, !.name = n]
      OBVIOUS
    <2>3. IsFileJob(j) /\ j.f = f /\ j.name = n /\ F!Go(s, "rename", j)
      BY <2>1, <2>2 DEF F!Idle, IsFileJob
    <2>4. Handles("rename", j) /\ Uploads("rename", j) /\ Confirms("rename", j) /\ ~Owns("rename", j)
          /\ "rename" \in FileSteps
      BY <2>1, <2>3 DEF Handles, Uploads, Confirms, Owns, FileSteps
    <2>5. Named("rename", j)
      BY <1>1, <1>4, <2>1, <2>3 DEF Named
    <2> QED
      BY <1>1, <1>2, <2>3, <2>4, <2>5, FileGoes
  <1> QED
    BY <1>3, <1>4 DEF F!Read

(* A step that only moves the janitor. *)
LEMMA FileCleans ==
    ASSUME FileInv, UNCHANGED <<mix, now, row, stored, issued, unfit, pc, job>>, Crosses, Cleaning',
           \A s \in Slots : pc[s] \in {"name", "save"} /\ F!Swept(job[s].f)' => F!Swept(job[s].f) \/ job[s].f \in crossed'
    PROVE  FileInv'
  <1>1. FileTyped' /\ Apart'
    BY DEF FileInv, FileTyped, Apart, Owns, Crosses
  <1>2. Dated' /\ Crossing' /\ F!FilesKept' /\ F!NoTrace'
    BY FilesCross
  <1>3. \A s \in Slots : Handles(pc[s], job[s])' /\ Uploads(pc[s], job[s])'
    BY ObjectsStay DEF FileInv, Handles, Uploads
  <1>4. \A s \in Slots : Confirms(pc[s], job[s])'
    <2> SUFFICES ASSUME NEW s \in Slots PROVE Confirms(pc[s], job[s])'
      OBVIOUS
    <2>1. Confirms(pc[s], job[s]) /\ (F!HasRow(job[s].f)' <=> F!HasRow(job[s].f))
      BY DEF FileInv, F!HasRow
    <2>2. pc[s] \in {"name", "save"} /\ job[s].f \notin crossed' /\ ~F!Swept(job[s].f) => ~F!Swept(job[s].f)'
      OBVIOUS
    <2>3. job[s].f \notin crossed' => job[s].f \notin crossed
      BY DEF Crosses
    <2> QED
      BY <2>1, <2>2, <2>3 DEF Confirms
  <1>5. F!LiveNames' = F!LiveNames /\ (\A f : F!Live(f)' <=> F!Live(f))
    BY DEF F!LiveNames, F!Live, F!HasRow, F!IsDocument
  <1>6. mix.alone => Serial' /\ F!NamesApart' /\ \A s \in Slots : Named(pc[s], job[s])'
    <2>1. mix.alone => Serial'
      BY DEF FileInv, Serial
    <2>2. mix.alone => F!NamesApart'
      BY <1>5, ObjectsStay DEF FileInv, F!NamesApart
    <2>3. mix.alone => \A s \in Slots : Named(pc[s], job[s])'
      BY <1>5, ObjectsStay DEF FileInv, Named
    <2> QED
      BY <2>1, <2>2, <2>3
  <1> QED
    BY <1>1, <1>2, <1>3, <1>4, <1>6 DEF FileInv

LEMMA AtRest == F!Rest.does = "rest" /\ F!Rest.row = None /\ F!Rest.rows = {} /\ F!Rest.left = {} /\ F!Rest.erased = {}
                /\ IsJanitor(F!Rest)
  BY DEF F!Rest, IsJanitor

LEMMA RestIsClean == ASSUME janitor' = F!Rest PROVE Cleaning' /\ \A f : ~F!Swept(f)'
  BY AtRest DEF Cleaning, Purging, Sweeping, F!Swept

LEMMA PurgeSweepsNot == ASSUME janitor'.does = "purge" PROVE \A f : ~F!Swept(f)'
  BY DEF F!Swept

LEMMA FileKilled == ASSUME FileInv, F!Killed PROVE FileInv'
  BY FileCleans, RestIsClean, CrossesNot DEF F!Killed

LEMMA FilePurge == ASSUME FileInv, F!Purge PROVE FileInv'
  <1>1. PICK due : /\ janitor' = [F!Rest EXCEPT !.does = "purge", !.rows = due]
                   /\ \A f \in due : f \in Files /\ F!HasRow(f) /\ ~F!Live(f) /\ row[f].deleted < now - Retention
    BY DEF F!Purge
  <1>2. janitor = F!Rest /\ UNCHANGED <<mix, now, row, stored, issued, unfit, crossed, pc, job>>
    BY DEF F!Purge
  <1>3. janitor'.does = "purge" /\ janitor'.rows = due /\ janitor'.row = None /\ janitor'.left = {}
        /\ janitor'.erased = {} /\ IsJanitor(janitor')
    BY <1>1 DEF F!Rest, IsJanitor
  <1>4. \A f \in due : Overdue(f)'
    BY <1>1, <1>2 DEF Overdue, F!Live, F!HasRow
  <1>5. Cleaning'
    BY <1>3, <1>4 DEF Cleaning, Purging, Sweeping
  <1> QED
    BY <1>2, <1>3, <1>5, PurgeSweepsNot, CrossesNot, FileCleans

LEMMA FilePurgeRow == ASSUME FileInv, F!PurgeRow PROVE FileInv'
  <1>1. PICK f \in janitor.rows : janitor' = [janitor EXCEPT !.row = f, !.rows = @ \ {f}, !.left = F!Of(f)]
    BY DEF F!PurgeRow
  <1>2. janitor.does = "purge" /\ UNCHANGED <<mix, now, row, stored, issued, unfit, crossed, pc, job>>
    BY DEF F!PurgeRow
  <1>3. janitor'.does = "purge" /\ janitor'.rows = janitor.rows \ {f} /\ janitor'.row = f /\ janitor'.left = F!Of(f)
        /\ janitor'.erased = janitor.erased /\ IsJanitor(janitor')
    BY <1>1, <1>2 DEF FileInv, Cleaning, IsJanitor
  <1>4. \A g : Overdue(g)' <=> Overdue(g)
    BY <1>2 DEF Overdue, F!HasRow
  <1>5. Cleaning'
    BY <1>2, <1>3, <1>4, ObjectsStay DEF FileInv, Cleaning, Purging, Sweeping
  <1> QED
    BY <1>2, <1>3, <1>5, PurgeSweepsNot, CrossesNot, FileCleans

LEMMA FilePurgeErase == ASSUME FileInv, F!PurgeErase PROVE FileInv'
  <1>1. janitor' = [janitor EXCEPT !.erased = @ \cup {janitor.row}, !.row = None]
        /\ janitor.row # None /\ janitor.left = {} /\ UNCHANGED <<mix, now, row, stored, issued, unfit, crossed, pc, job>>
    BY DEF F!PurgeErase
  <1>2. janitor.does = "purge" /\ Purging
    BY <1>1 DEF FileInv, Cleaning
  <1>3. janitor'.does = "purge" /\ janitor'.rows = janitor.rows /\ janitor'.row = None /\ janitor'.left = {}
        /\ janitor'.erased = janitor.erased \cup {janitor.row} /\ IsJanitor(janitor')
    BY <1>1, <1>2 DEF FileInv, Cleaning, IsJanitor
  <1>4. \A g : Overdue(g)' <=> Overdue(g)
    BY <1>1 DEF Overdue, F!HasRow
  <1>5. Purging'
    BY <1>1, <1>2, <1>3, <1>4, ObjectsStay DEF Purging
  <1>6. Cleaning'
    BY <1>3, <1>5 DEF Cleaning, Sweeping
  <1> QED
    BY <1>1, <1>3, <1>6, PurgeSweepsNot, CrossesNot, FileCleans

LEMMA FileSweep == ASSUME FileInv, F!Sweep PROVE FileInv'
  <1>1. janitor' = [F!Rest EXCEPT !.does = "sweep", !.left = F!Orphans]
        /\ crossed' = crossed \cup {o[1] : o \in {p \in F!Orphans :
                          \E s \in Slots : pc[s] \in {"name", "save"} /\ job[s].f = p[1]}}
        /\ UNCHANGED <<mix, now, row, stored, issued, unfit, pc, job>>
    BY DEF F!Sweep
  <1>2. janitor'.does = "sweep" /\ janitor'.left = F!Orphans /\ janitor'.row = None /\ IsJanitor(janitor')
    BY <1>1 DEF F!Rest, IsJanitor
  <1>3. \A o \in F!Orphans : o \in F!Objects /\ F!IsDocument(o[1]) /\ ~F!HasRow(o[1])
                              /\ stored[o] # None /\ stored[o] <= now - Grace
    BY DEF F!Orphans, F!Old
  <1>4. now \in Int /\ now # None
    BY FileParts DEF FileInv, FileTyped
  <1>5. ASSUME NEW o \in F!Orphans, mix.kind[o[1]] = "direct" PROVE Late(o[1])
    <2>1. PICK f : f = o[1]
      OBVIOUS
    <2>2. f \in Files /\ o = <<f, "body">>
      <3>1. o[1] \in Files /\ o \in F!Of(o[1])
        BY <1>3, ObjectsOf
      <3>2. F!Of(o[1]) = {<<o[1], "body">>}
        BY <1>5, <3>1, ObjectsOf
      <3> QED
        BY <2>1, <3>1, <3>2
    <2>3. issued[f] # None
      BY <1>3, <1>5, <2>1, <2>2 DEF FileInv, Crossing
    <2>4. stored[o] >= issued[f] /\ stored[o] <= now - Grace
      BY <1>3, <2>2, <2>3 DEF FileInv, Dated
    <2>5. stored[o] \in Int /\ issued[f] \in Int
      BY <1>3, <2>2, <2>3, FileParts DEF FileInv, FileTyped, Days
    <2>6. issued[f] <= now - Grace
      BY <1>4, <2>4, <2>5, FileParts
    <2> QED
      BY <1>5, <2>1, <2>3, <2>6 DEF Late
  <1>6. ASSUME NEW o \in F!Orphans, NEW s \in Slots, pc[s] \in {"name", "save"}, job[s].f = o[1]
        PROVE  mix.kind[o[1]] = "direct"
    <2> SUFFICES ASSUME mix.kind[o[1]] # "direct" PROVE FALSE
      OBVIOUS
    <2>1. o \in F!Of(o[1])
      BY <1>3, ObjectsOf
    <2>2. stored[o] = now
      BY <1>3, <1>6, <2>1 DEF FileInv, Uploads
    <2> QED
      BY <1>3, <1>4, <2>2, FileParts
  <1>7. Crosses
    <2>1. \A o \in F!Orphans : o[1] \in Files
      BY <1>3, ObjectsOf
    <2> QED
      BY <1>1, <1>5, <1>6, <2>1 DEF FileInv, FileTyped, Crossing, Crosses
  <1>8. Sweeping'
    <2>1. \A f : (F!HasRow(f)' <=> F!HasRow(f)) /\ (Late(f)' <=> Late(f))
      BY <1>1 DEF F!HasRow, Late
    <2> QED
      BY <1>1, <1>2, <1>3, <1>5, <2>1, ObjectsStay DEF Sweeping
  <1>9. Cleaning'
    BY <1>2, <1>8 DEF Cleaning, Purging
  <1>10. \A s \in Slots : pc[s] \in {"name", "save"} /\ F!Swept(job[s].f)' => job[s].f \in crossed'
    <2> SUFFICES ASSUME NEW s \in Slots, pc[s] \in {"name", "save"}, F!Swept(job[s].f)' PROVE job[s].f \in crossed'
      OBVIOUS
    <2>1. PICK o : o = <<job[s].f, "body">>
      OBVIOUS
    <2>2. o \in F!Orphans /\ o[1] = job[s].f
      BY <1>1, <1>2, <2>1 DEF F!Swept
    <2> QED
      BY <1>1, <2>2
  <1> QED
    BY <1>1, <1>7, <1>9, <1>10, FileCleans

(* An object appears or goes: what the rows and the names say of it. *)
LEMMA FileStores ==
    ASSUME FileInv, NEW o \in F!Objects, NEW x \in {now, None}, stored' = [stored EXCEPT ![o] = x],
           UNCHANGED <<mix, now, row, issued, crossed>>, unfit' \subseteq Files, ~mix.alone => unfit' = {},
           x # None => row[o[1]] # Gone /\ (mix.kind[o[1]] = "direct" => issued[o[1]] # None),
           x = None /\ F!HasRow(o[1]) => Overdue(o[1]) \/ o[1] \in crossed
    PROVE  /\ stored' \in [Files \X {"body", "thumb"} -> Days] /\ stored'[o] = x /\ \A p : p # o => stored'[p] = stored[p]
           /\ Dated' /\ Crossing' /\ F!FilesKept' /\ F!NoTrace' /\ (mix.alone => F!NamesApart')
           /\ F!LiveNames' = F!LiveNames /\ \A f : (F!Live(f)' <=> F!Live(f)) /\ (F!HasRow(f)' <=> F!HasRow(f))
  <1>1. now \in 0..MaxDay /\ now \in Int /\ o \in Files \X {"body", "thumb"} /\ o[1] \in Files /\ o \in F!Of(o[1])
    BY ObjectsOf, FileParts DEF FileInv, FileTyped
  <1>2. stored' \in [Files \X {"body", "thumb"} -> Days] /\ stored'[o] = x /\ \A p : p # o => stored'[p] = stored[p]
    BY <1>1 DEF FileInv, FileTyped, Days
  <1>3. F!LiveNames' = F!LiveNames /\ \A f : (F!Live(f)' <=> F!Live(f)) /\ (F!HasRow(f)' <=> F!HasRow(f))
    BY DEF F!LiveNames, F!Live, F!HasRow, F!IsDocument
  <1>4. Dated'
    <2>1. \A f \in Files : issued[f] # None /\ stored'[<<f, "body">>] # None => stored'[<<f, "body">>] >= issued[f]
      <3> SUFFICES ASSUME NEW f \in Files, issued[f] # None, stored'[<<f, "body">>] # None
                   PROVE  stored'[<<f, "body">>] >= issued[f]
        OBVIOUS
      <3>1. CASE <<f, "body">> = o
        BY <1>2, <3>1 DEF FileInv, Dated
      <3>2. CASE <<f, "body">> # o
        BY <1>2, <3>2 DEF FileInv, Dated
      <3> QED
        BY <3>1, <3>2
    <2> QED
      BY <1>3, <2>1 DEF FileInv, Dated
  <1>5. F!FilesKept'
    <2> SUFFICES ASSUME NEW f \in Files \ crossed, F!HasRow(f), F!Live(f) \/ now <= row[f].deleted + Retention,
                        NEW p \in F!Of(f)
                 PROVE  stored'[p] # None
      BY <1>3, ObjectsStay DEF FileInv, F!FilesKept
    <2>1. stored[p] # None /\ p[1] = f
      BY ObjectsOf DEF FileInv, F!FilesKept
    <2>2. CASE p = o
      <3>1. CASE x = None
        <4>1. Overdue(f)
          BY <2>1, <2>2, <3>1
        <4>2. row[f].deleted \in Int /\ row[f].deleted < now - Retention /\ ~F!Live(f)
          BY <4>1, FileParts DEF Overdue, FileInv, FileTyped, FileRow, F!Live, F!HasRow
        <4> QED
          BY <1>1, <4>2, FileParts
      <3> QED
        BY <1>2, <2>2, <3>1
    <2> QED
      BY <1>2, <2>1, <2>2
  <1>6. F!NoTrace'
    <2> SUFFICES ASSUME NEW f \in Files, row[f] = Gone, NEW p \in F!Of(f) PROVE stored'[p] = None
      BY ObjectsStay DEF F!NoTrace
    <2>1. stored[p] = None /\ p[1] = f
      BY ObjectsOf DEF FileInv, F!NoTrace
    <2> QED
      BY <1>2, <2>1
  <1>7. mix.alone => F!NamesApart'
    BY <1>3, ObjectsStay DEF FileInv, F!NamesApart
  <1>8. Crossing'
    <2>1. \A f \in Files : mix.kind[f] = "direct" /\ stored'[<<f, "body">>] # None => issued[f] # None
      <3> SUFFICES ASSUME NEW f \in Files, mix.kind[f] = "direct", stored'[<<f, "body">>] # None PROVE issued[f] # None
        OBVIOUS
      <3>1. CASE <<f, "body">> = o
        BY <1>2, <3>1
      <3>2. CASE <<f, "body">> # o
        BY <1>2, <3>2 DEF FileInv, Crossing
      <3> QED
        BY <3>1, <3>2
    <2> QED
      BY <2>1 DEF FileInv, Crossing, Late
  <1> QED
    BY <1>2, <1>3, <1>4, <1>5, <1>6, <1>7, <1>8

(* The same, with the requests where they are. *)
LEMMA FileStoresAside ==
    ASSUME FileInv, NEW o \in F!Objects, NEW x \in {now, None}, stored' = [stored EXCEPT ![o] = x],
           UNCHANGED <<mix, now, row, issued, crossed, pc, job>>, unfit' \subseteq Files, ~mix.alone => unfit' = {},
           x # None => row[o[1]] # Gone /\ mix.kind[o[1]] = "direct" /\ issued[o[1]] # None,
           x = None /\ F!HasRow(o[1]) => Overdue(o[1]) \/ o[1] \in crossed,
           x = None => \A s \in Slots : /\ Owns(pc[s], job[s]) => job[s].f # o[1]
                                        /\ pc[s] \in {"name", "save"} => job[s].f # o[1] \/ o[1] \in crossed,
           \A f : F!Swept(f)' => F!Swept(f), Cleaning'
    PROVE  FileInv'
  <1>1. /\ stored' \in [Files \X {"body", "thumb"} -> Days] /\ stored'[o] = x /\ \A p : p # o => stored'[p] = stored[p]
        /\ Dated' /\ Crossing' /\ F!FilesKept' /\ F!NoTrace' /\ (mix.alone => F!NamesApart')
        /\ F!LiveNames' = F!LiveNames /\ \A f : (F!Live(f)' <=> F!Live(f)) /\ (F!HasRow(f)' <=> F!HasRow(f))
    BY FileStores
  <1>2. FileTyped' /\ Apart'
    BY <1>1 DEF FileInv, FileTyped, Apart, Owns
  <1>3. \A s \in Slots : Handles(pc[s], job[s])'
    BY ObjectsStay DEF FileInv, Handles
  <1>4. \A s \in Slots : Uploads(pc[s], job[s])'
    <2> SUFFICES ASSUME NEW s \in Slots PROVE Uploads(pc[s], job[s])'
      OBVIOUS
    <2>1. PICK f : f = job[s].f
      OBVIOUS
    <2>2. f = job'[s].f /\ F!Of(f)' = F!Of(f) /\ mix' = mix /\ row' = row /\ issued' = issued /\ now' = now /\ pc' = pc
          /\ job' = job
      BY <2>1, ObjectsStay
    <2>3. pc[s] \in {"put", "name", "save", "discard"} /\ mix.kind[f] # "direct"
            => \A p \in F!Of(f) : stored'[p] = stored[p]
      <3> SUFFICES ASSUME pc[s] \in {"put", "name", "save", "discard"}, mix.kind[f] # "direct", NEW p \in F!Of(f)
                   PROVE  stored'[p] = stored[p]
        OBVIOUS
      <3>1. f \in Files /\ p[1] = f
        BY <2>1, ObjectsOf DEF FileInv, Handles
      <3>2. p # o
        <4>1. CASE x = None
          BY <2>1, <3>1, <4>1 DEF Owns
        <4>2. CASE x # None
          BY <3>1, <4>2
        <4> QED
          BY <4>1, <4>2
      <3> QED
        BY <1>1, <3>2
    <2>4. Uploads(pc[s], job[s])
      BY DEF FileInv
    <2> QED
      BY <2>1, <2>2, <2>3, <2>4 DEF Uploads
  <1>5. \A s \in Slots : Confirms(pc[s], job[s])'
    <2>0. now # None
      BY FileParts DEF FileInv, FileTyped
    <2> SUFFICES ASSUME NEW s \in Slots PROVE Confirms(pc[s], job[s])'
      OBVIOUS
    <2>1. Confirms(pc[s], job[s])
      BY DEF FileInv
    <2>2. pc[s] \in {"name", "save"} /\ job[s].f \notin crossed /\ stored[<<job[s].f, "body">>] # None
              => stored'[<<job[s].f, "body">>] # None
      <3> SUFFICES ASSUME pc[s] \in {"name", "save"}, job[s].f \notin crossed, stored[<<job[s].f, "body">>] # None
                   PROVE  stored'[<<job[s].f, "body">>] # None
        OBVIOUS
      <3>1. CASE <<job[s].f, "body">> = o
        BY <1>1, <2>0, <3>1
      <3>2. CASE <<job[s].f, "body">> # o
        BY <1>1, <3>2
      <3> QED
        BY <3>1, <3>2
    <2>3. ~F!Swept(job[s].f) => ~F!Swept(job[s].f)'
      OBVIOUS
    <2> QED
      BY <1>1, <2>1, <2>2, <2>3 DEF Confirms
  <1>6. mix.alone => Serial' /\ \A s \in Slots : Named(pc[s], job[s])'
    <2>1. mix.alone => Serial'
      BY DEF FileInv, Serial
    <2>2. mix.alone => \A s \in Slots : Named(pc[s], job[s])'
      BY <1>1, ObjectsStay DEF FileInv, Named
    <2> QED
      BY <2>1, <2>2
  <1> QED
    BY <1>1, <1>2, <1>3, <1>4, <1>5, <1>6 DEF FileInv

LEMMA FilePutDirectly == ASSUME FileInv, NEW f \in Files, F!PutDirectly(f) PROVE FileInv'
  <1>1. PICK o : o = <<f, "body">>
    OBVIOUS
  <1>2. issued[f] = now /\ stored' = [stored EXCEPT ![o] = now] /\ UNCHANGED <<mix, now, row, issued, crossed, pc, job, janitor>>
    BY <1>1 DEF F!PutDirectly
  <1>3. unfit' \subseteq Files /\ (~mix.alone => unfit' = {})
    <2>1. unfit' = unfit \ {f} \/ (mix.alone /\ unfit' = unfit \cup {f})
      BY DEF F!PutDirectly
    <2> QED
      BY <2>1 DEF FileInv, FileTyped
  <1>4. now \in 0..MaxDay /\ now \in Int /\ now # None
    BY FileParts DEF FileInv, FileTyped
  <1>5. mix.kind[f] = "direct" /\ (row[f] = Gone => now < now) /\ (stored[o] # None => stored[o] >= now)
        /\ (F!HasRow(f) /\ row[f].deleted # None => row[f].deleted >= now)
    BY <1>1, <1>2, <1>4 DEF FileInv, Dated
  <1>6. row[f] # Gone
    BY <1>4, <1>5
  <1>7. o \in F!Objects /\ o[1] = f /\ o \in F!Of(f)
    BY <1>1, ObjectsOf
  <1>8. stored'[o] = now /\ \A p : p # o => stored'[p] = stored[p]
    BY <1>2, <1>7 DEF FileInv, FileTyped, F!Objects
  <1>9. ~Overdue(f)
    <2> SUFFICES ASSUME Overdue(f) PROVE FALSE
      OBVIOUS
    <2>1. row[f].deleted \in Int /\ row[f].deleted < now - Retention /\ row[f].deleted >= now
      BY <1>5, FileParts DEF Overdue, FileInv, FileTyped, FileRow, F!HasRow
    <2> QED
      BY <1>4, <2>1, FileParts
  <1>10. janitor.does = "sweep" => o \notin janitor.left
    <2> SUFFICES ASSUME janitor.does = "sweep", o \in janitor.left PROVE FALSE
      OBVIOUS
    <2>1. Late(f)
      BY <1>5, <1>7 DEF FileInv, Cleaning, Sweeping
    <2> QED
      BY <1>2, <1>4, <2>1, FileParts DEF Late
  <1>11. Cleaning'
    <2>1. \A g : (F!HasRow(g)' <=> F!HasRow(g)) /\ (Overdue(g)' <=> Overdue(g))
      BY <1>2 DEF Overdue, F!HasRow
    <2>2. Purging'
      <3> SUFFICES ASSUME janitor.does = "purge" PROVE Purging'
        BY <1>2 DEF Purging
      <3>1. \A g \in Files : Overdue(g) => \A p \in F!Of(g) : stored'[p] = stored[p]
        BY <1>7, <1>8, <1>9, ObjectsOf
      <3> QED
        BY <1>2, <2>1, <3>1, ObjectsStay DEF FileInv, Cleaning, Purging, Overdue
    <2>3. Sweeping'
      BY <1>2, <1>8, <1>10, <2>1, ObjectsStay DEF FileInv, Cleaning, Sweeping, Late
    <2> QED
      BY <1>2, <2>2, <2>3 DEF FileInv, Cleaning
  <1>12. \A g : F!Swept(g)' => F!Swept(g)
    BY <1>2 DEF F!Swept
  <1> QED
    BY <1>2, <1>3, <1>4, <1>5, <1>6, <1>7, <1>11, <1>12, FileStoresAside

(* A file that a request works with is not due for the purge, and its       *)
(* objects are none of a sweep's unless the two have crossed.               *)
LEMMA BusyIsKept ==
    ASSUME FileInv, NEW s \in Slots, pc[s] \in {"put", "name", "save", "discard"}
    PROVE  /\ ~Overdue(job[s].f)
           /\ Owns(pc[s], job[s]) => \A o \in F!Of(job[s].f) : janitor.does = "sweep" => o \notin janitor.left
           /\ pc[s] \in {"name", "save"} /\ job[s].f \notin crossed
                => \A o \in F!Of(job[s].f) : janitor.does = "sweep" => o \notin janitor.left
  <1>1. PICK f : f = job[s].f
    OBVIOUS
  <1>2. f \in Files /\ Handles(pc[s], job[s]) /\ Uploads(pc[s], job[s]) /\ Confirms(pc[s], job[s])
    BY <1>1 DEF FileInv, Handles
  <1>3. now \in 0..MaxDay /\ now \in Int /\ now # None
    BY FileParts DEF FileInv, FileTyped
  <1>4. mix.kind[f] # "direct" => row[f] = None /\ \A o \in F!Of(f) : stored[o] \in {None, now}
    BY <1>1, <1>2 DEF Uploads
  <1>5. ~Overdue(f)
    <2> SUFFICES ASSUME Overdue(f) PROVE FALSE
      OBVIOUS
    <2>1. F!HasRow(f) /\ row[f].deleted # None /\ row[f].deleted \in Int /\ row[f].deleted < now - Retention
      BY FileParts DEF Overdue, FileInv, FileTyped, FileRow, F!HasRow
    <2>2. mix.kind[f] = "direct"
      BY <1>4, <2>1 DEF F!HasRow
    <2>3. row[f].deleted = now
      BY <1>1, <1>2, <2>1, <2>2 DEF Confirms, Handles
    <2> QED
      BY <1>3, <2>1, <2>3, FileParts
  <1>6. ASSUME mix.kind[f] # "direct", NEW o \in F!Of(f), janitor.does = "sweep", o \in janitor.left PROVE FALSE
    <2>1. o[1] = f
      BY <1>2, ObjectsOf
    <2>2. stored[o] # None /\ stored[o] <= now - Grace
      BY <1>6, <2>1 DEF FileInv, Cleaning, Sweeping
    <2>3. stored[o] = now
      BY <1>4, <1>6, <2>2
    <2> QED
      BY <1>3, <2>2, <2>3, FileParts
  <1>7. ASSUME mix.kind[f] = "direct", pc[s] \in {"name", "save"}, f \notin crossed
        PROVE  \A o \in F!Of(f) : janitor.does = "sweep" => o \notin janitor.left
    <2>1. F!Of(f) = {<<f, "body">>}
      BY <1>2, <1>7, ObjectsOf
    <2>2. ~F!Swept(f)
      BY <1>1, <1>2, <1>7 DEF Confirms
    <2> QED
      BY <2>1, <2>2 DEF F!Swept
  <1> QED
    BY <1>1, <1>5, <1>6, <1>7 DEF Owns

LEMMA FilePurgeObject == ASSUME FileInv, F!PurgeObject PROVE FileInv'
  <1>1. janitor.row # None /\ UNCHANGED <<mix, now, row, issued, unfit, crossed, pc, job>>
    BY DEF F!PurgeObject
  <1>2. PICK o \in janitor.left :
            \/ stored' = [stored EXCEPT ![o] = None] /\ janitor' = [janitor EXCEPT !.left = @ \ {o}]
            \/ UNCHANGED stored /\ janitor' = [janitor EXCEPT !.row = None, !.left = {}]
    BY DEF F!PurgeObject
  <1>3. PICK f : f = janitor.row
    OBVIOUS
  <1>4. janitor.does = "purge" /\ IsJanitor(janitor) /\ Overdue(f) /\ f \in Files /\ janitor.left \subseteq F!Of(f) /\ Purging
    BY <1>1, <1>3 DEF FileInv, Cleaning, Purging, Overdue
  <1>5. o \in F!Objects /\ o[1] = f /\ o \in F!Of(f)
    BY <1>2, <1>4, ObjectsOf
  <1>6. \A g : (Overdue(g)' <=> Overdue(g)) /\ F!Of(g)' = F!Of(g)
    BY <1>1, ObjectsStay DEF Overdue, F!HasRow
  <1>7. CASE UNCHANGED stored /\ janitor' = [janitor EXCEPT !.row = None, !.left = {}]
    <2>1. janitor'.does = "purge" /\ janitor'.rows = janitor.rows /\ janitor'.row = None /\ janitor'.left = {}
          /\ janitor'.erased = janitor.erased /\ IsJanitor(janitor')
      BY <1>4, <1>7 DEF IsJanitor
    <2>2. Purging'
      BY <1>4, <1>6, <1>7, <2>1 DEF Purging
    <2>3. Cleaning'
      BY <2>1, <2>2 DEF Cleaning, Sweeping
    <2> QED
      BY <1>1, <1>7, <2>1, <2>3, PurgeSweepsNot, CrossesNot, FileCleans
  <1>8. CASE stored' = [stored EXCEPT ![o] = None] /\ janitor' = [janitor EXCEPT !.left = @ \ {o}]
    <2>1. janitor'.does = "purge" /\ janitor'.rows = janitor.rows /\ janitor'.row = f /\ janitor'.left = janitor.left \ {o}
          /\ janitor'.erased = janitor.erased /\ IsJanitor(janitor')
      BY <1>3, <1>4, <1>8 DEF IsJanitor
    <2>2. stored'[o] = None /\ \A p : p # o => stored'[p] = stored[p]
      BY <1>5, <1>8 DEF FileInv, FileTyped, F!Objects
    <2>3. Purging'
      BY <1>3, <1>4, <1>6, <2>1, <2>2 DEF Purging
    <2>4. Cleaning'
      BY <1>1, <2>1, <2>3 DEF Cleaning, Sweeping
    <2>5. \A s \in Slots : pc[s] \in {"put", "name", "save", "discard"} => job[s].f # o[1]
      BY <1>4, <1>5, BusyIsKept
    <2>6. unfit' \subseteq Files /\ (~mix.alone => unfit' = {})
      BY <1>1 DEF FileInv, FileTyped
    <2> QED
      BY <1>1, <1>4, <1>5, <1>8, <2>1, <2>4, <2>5, <2>6, PurgeSweepsNot, FileStoresAside DEF Owns
  <1> QED
    BY <1>2, <1>7, <1>8

LEMMA FileSweepObject == ASSUME FileInv, F!SweepObject PROVE FileInv'
  <1>1. janitor.does = "sweep" /\ UNCHANGED <<mix, now, row, issued, unfit, crossed, pc, job>>
    BY DEF F!SweepObject
  <1>2. PICK o \in janitor.left :
            /\ stored' = [stored EXCEPT ![o] = None] \/ UNCHANGED stored
            /\ janitor' = IF janitor.left = {o} THEN F!Rest ELSE [janitor EXCEPT !.left = @ \ {o}]
    BY DEF F!SweepObject
  <1>3. o \in F!Objects /\ (F!HasRow(o[1]) => o[1] \in crossed) /\ o \in F!Of(o[1]) /\ IsJanitor(janitor) /\ janitor.row = None
        /\ Sweeping
    BY <1>1, ObjectsOf DEF FileInv, Cleaning, Sweeping
  <1>4. stored' = stored \/ (stored'[o] = None /\ \A p : p # o => stored'[p] = stored[p])
    <2>1. stored \in [Files \X {"body", "thumb"} -> Days] /\ o \in Files \X {"body", "thumb"}
      BY <1>3 DEF FileInv, FileTyped, F!Objects
    <2>2. CASE UNCHANGED stored
      BY <2>2
    <2>3. CASE stored' = [stored EXCEPT ![o] = None]
      BY <2>1, <2>3
    <2> QED
      BY <1>2, <2>2, <2>3
  <1>5. Cleaning'
    <2>1. CASE janitor' = F!Rest
      BY <2>1, RestIsClean
    <2>2. CASE janitor' = [janitor EXCEPT !.left = @ \ {o}]
      <3>1. janitor'.does = "sweep" /\ janitor'.row = None /\ janitor'.left = janitor.left \ {o} /\ IsJanitor(janitor')
        BY <1>1, <1>3, <2>2 DEF IsJanitor
      <3>2. F!Objects' = F!Objects /\ \A g : (F!HasRow(g)' <=> F!HasRow(g)) /\ (F!IsDocument(g)' <=> F!IsDocument(g))
        BY <1>1, ObjectsStay DEF F!HasRow
      <3>3. Sweeping'
        <4>1. \A p \in janitor'.left : p \in janitor.left /\ stored'[p] = stored[p]
          BY <1>4, <3>1
        <4> QED
          BY <1>1, <1>3, <3>1, <3>2, <4>1 DEF Sweeping, Late
      <3> QED
        BY <3>1, <3>3 DEF Cleaning, Purging
    <2> QED
      BY <1>2, <2>1, <2>2
  <1>6. \A f : F!Swept(f)' => F!Swept(f)
    <2>1. CASE janitor' = F!Rest
      BY <2>1, RestIsClean
    <2>2. CASE janitor' = [janitor EXCEPT !.left = @ \ {o}]
      <3>1. janitor'.does = "sweep" /\ janitor'.left = janitor.left \ {o}
        BY <1>1, <1>3, <2>2 DEF IsJanitor
      <3> QED
        BY <1>1, <3>1 DEF F!Swept
    <2> QED
      BY <1>2, <2>1, <2>2
  <1>7. CASE UNCHANGED stored
    BY <1>1, <1>5, <1>7, <1>6, CrossesNot, FileCleans
  <1>8. CASE stored' = [stored EXCEPT ![o] = None]
    <2>1. \A s \in Slots : /\ Owns(pc[s], job[s]) => job[s].f # o[1]
                           /\ pc[s] \in {"name", "save"} => job[s].f # o[1] \/ o[1] \in crossed
      BY <1>1, <1>2, <1>3, BusyIsKept DEF Owns
    <2>2. unfit' \subseteq Files /\ (~mix.alone => unfit' = {})
      BY <1>1 DEF FileInv, FileTyped
    <2> QED
      BY <1>1, <1>3, <1>5, <1>8, <1>6, <2>1, <2>2, FileStoresAside
  <1> QED
    BY <1>2, <1>7, <1>8

(* A request stores an object of its file, or takes it back. *)
LEMMA FileStoresFor ==
    ASSUME FileInv, NEW s \in Slots, pc[s] \in {"put", "discard"}, NEW o \in F!Of(job[s].f), NEW x \in {now, None},
           stored' = [stored EXCEPT ![o] = x], UNCHANGED <<mix, now, row, issued, unfit, crossed, janitor>>,
           NEW step \in FileSteps, NEW j, IsFileJob(j), F!Go(s, step, j),
           Handles(step, j), Uploads(step, j)', Confirms(step, j)', Named(step, j),
           pc[s] = "put" \/ x = None,
           Owns(step, j) => \A t \in Slots \ {s} : job[t].f # j.f,
           \A t \in Slots \ {s} : Owns(pc[t], job[t]) => j.f # job[t].f
    PROVE  FileInv'
  <1>1. PICK f : f = job[s].f
    OBVIOUS
  <1>2. f \in Files /\ Handles(pc[s], job[s]) /\ Uploads(pc[s], job[s]) /\ Confirms(pc[s], job[s])
    BY <1>1 DEF FileInv, Handles
  <1>3. ~F!HasRow(f) /\ row[f] # Gone /\ (mix.kind[f] = "direct" => mix.alone /\ x = None)
    BY <1>1, <1>2, FileParts DEF Handles, Uploads, Confirms, F!HasRow
  <1>4. o \in F!Objects /\ o[1] = f
    BY <1>1, <1>2, ObjectsOf
  <1>5. \A t \in Slots \ {s} : pc[t] = "idle" \/ job[t].f # f
    <2>1. CASE mix.alone
      BY <2>1 DEF FileInv, Serial
    <2>2. CASE mix.kind[f] # "direct"
      BY <1>1, <2>2 DEF FileInv, Apart, Owns
    <2> QED
      BY <1>3, <2>1, <2>2
  <1>6. /\ stored' \in [Files \X {"body", "thumb"} -> Days] /\ stored'[o] = x /\ \A p : p # o => stored'[p] = stored[p]
        /\ Dated' /\ Crossing' /\ F!FilesKept' /\ F!NoTrace' /\ (mix.alone => F!NamesApart')
        /\ F!LiveNames' = F!LiveNames /\ \A g : (F!Live(g)' <=> F!Live(g)) /\ (F!HasRow(g)' <=> F!HasRow(g))
    <2>1. row[o[1]] # Gone /\ ~F!HasRow(o[1])
      BY <1>3, <1>4
    <2>2. unfit' \subseteq Files /\ (~mix.alone => unfit' = {})
      BY DEF FileInv, FileTyped
    <2> QED
      BY <1>3, <1>4, <2>1, <2>2, FileStores
  <1>7. /\ pc' \in [Slots -> FileSteps] /\ job' = [t \in Slots |-> job'[t]]
        /\ \A t \in Slots : IsFileJob(job'[t]) /\ Handles(pc[t], job[t])'
        /\ pc'[s] = step /\ job'[s] = j /\ \A t \in Slots \ {s} : pc'[t] = pc[t] /\ job'[t] = job[t]
        /\ Apart'
    BY FileJobs
  <1>8. FileTyped'
    BY <1>6, <1>7 DEF FileInv, FileTyped
  <1>9. \A t \in Slots : Uploads(pc[t], job[t])' /\ Confirms(pc[t], job[t])'
    <2> SUFFICES ASSUME NEW t \in Slots PROVE Uploads(pc[t], job[t])' /\ Confirms(pc[t], job[t])'
      OBVIOUS
    <2>1. CASE t = s
      BY <1>7, <2>1 DEF Uploads, Confirms
    <2>2. CASE t # s /\ pc[t] = "idle"
      BY <1>7, <2>2 DEF Uploads, Confirms
    <2>3. CASE t # s /\ job[t].f # f /\ pc[t] # "idle"
      <3>1. PICK g : g = job[t].f
        OBVIOUS
      <3>2. pc'[t] = pc[t] /\ job'[t] = job[t] /\ g # f /\ g \in Files /\ Uploads(pc[t], job[t]) /\ Confirms(pc[t], job[t])
        BY <1>7, <2>3, <3>1 DEF FileInv, Handles
      <3>3. \A p \in F!Of(g) : stored'[p] = stored[p]
        BY <1>4, <1>6, <3>2, ObjectsOf
      <3>4. stored'[<<g, "body">>] = stored[<<g, "body">>]
        BY <3>2, <3>3, ObjectsOf
      <3>5. g = job'[t].f /\ F!Of(g)' = F!Of(g) /\ mix' = mix /\ row' = row /\ issued' = issued /\ now' = now
        BY <3>1, <3>2, ObjectsStay
      <3>6. Uploads(pc[t], job[t])'
        BY <3>1, <3>2, <3>3, <3>5 DEF Uploads
      <3>7. Confirms(pc[t], job[t])'
        BY <1>6, <3>1, <3>2, <3>4, <3>5 DEF Confirms, F!Swept
      <3> QED
        BY <3>6, <3>7
    <2> QED
      BY <1>5, <2>1, <2>2, <2>3
  <1>10. Cleaning'
    <2>1. \A g : (Overdue(g)' <=> Overdue(g)) /\ F!Of(g)' = F!Of(g)
      BY ObjectsStay DEF Overdue, F!HasRow
    <2>2. Purging'
      <3>1. \A g \in Files : Overdue(g) => \A p \in F!Of(g) : stored'[p] = stored[p]
        BY <1>3, <1>4, <1>6, ObjectsOf DEF Overdue
      <3> QED
        BY <2>1, <3>1 DEF FileInv, Cleaning, Purging, Overdue
    <2>3. janitor.does = "sweep" /\ o \in janitor.left => mix.kind[f] = "direct"
      BY <1>1, BusyIsKept DEF Owns
    <2>4. Sweeping'
      BY <1>4, <1>6, <2>3, ObjectsStay DEF FileInv, Cleaning, Sweeping, Late
    <2> QED
      BY <2>2, <2>4 DEF FileInv, Cleaning, IsJanitor
  <1>11. mix.alone => Serial' /\ \A t \in Slots : Named(pc[t], job[t])'
    <2>1. mix.alone => Serial'
      BY <1>7 DEF FileInv, Serial
    <2>2. mix.alone => \A t \in Slots : Named(pc[t], job[t])'
      BY <1>6, <1>7, ObjectsStay DEF FileInv, Named
    <2> QED
      BY <2>1, <2>2
  <1>12. ~mix.alone => unfit' = {}
    BY DEF FileInv
  <1> QED
    BY <1>6, <1>7, <1>8, <1>9, <1>10, <1>11, <1>12 DEF FileInv

LEMMA FilePut == ASSUME FileInv, NEW s \in Slots, F!Put(s) PROVE FileInv'
  <1>1. PICK f : f = job[s].f
    OBVIOUS
  <1>2. PICK o : o = IF <<f, "body">> \in job[s].left THEN <<f, "body">> ELSE <<f, "thumb">>
    OBVIOUS
  <1>3. pc[s] = "put" /\ UNCHANGED <<mix, now, row, issued, unfit, crossed, janitor>>
    BY DEF F!Put
  <1>4. \/ /\ stored' = [stored EXCEPT ![o] = now]
           /\ F!Go(s, IF job[s].left = {o} THEN "name" ELSE "put", [job[s] EXCEPT !.left = @ \ {o}])
        \/ F!Done(s) /\ UNCHANGED stored
    BY <1>1, <1>2 DEF F!Put
  <1>5. CASE F!Done(s) /\ UNCHANGED stored
    BY <1>3, <1>5, FileEnds
  <1>6. CASE /\ stored' = [stored EXCEPT ![o] = now]
             /\ F!Go(s, IF job[s].left = {o} THEN "name" ELSE "put", [job[s] EXCEPT !.left = @ \ {o}])
    <2>1. PICK j : j = [job[s] EXCEPT !.left = @ \ {o}]
      OBVIOUS
    <2>2. PICK step : step = IF job[s].left = {o} THEN "name" ELSE "put"
      OBVIOUS
    <2>3. Handles("put", job[s]) /\ Uploads("put", job[s]) /\ IsFileJob(job[s])
      BY <1>3 DEF FileInv, FileTyped
    <2>4. f \in Files /\ mix.kind[f] # "direct" /\ job[s].left # {} /\ job[s].left \subseteq F!Of(f)
      BY <1>1, <2>3 DEF Handles
    <2>5. o \in job[s].left /\ o \in F!Of(f)
      <3>1. \A p \in job[s].left : p = <<f, "body">> \/ p = <<f, "thumb">>
        BY <2>4 DEF F!Of, F!Objects
      <3> QED
        BY <1>2, <2>4, <3>1
    <2>6. IsFileJob(j) /\ j.f = f /\ j.left = job[s].left \ {o}
      BY <1>1, <2>1, <2>3 DEF IsFileJob
    <2>7. F!Go(s, step, j) /\ step \in FileSteps
      BY <1>6, <2>1, <2>2 DEF FileSteps
    <2>8. Handles(step, j)
      <3>1. CASE job[s].left = {o}
        BY <2>2, <2>4, <2>6, <3>1 DEF Handles
      <3>2. CASE job[s].left # {o}
        <4>1. j.left # {}
          BY <2>4, <2>5, <2>6, <3>2
        <4> QED
          BY <2>2, <2>4, <2>6, <3>2, <4>1 DEF Handles
      <3> QED
        BY <3>1, <3>2
    <2>9. stored'[o] = now /\ \A p : p # o => stored'[p] = stored[p]
      BY <1>6, <2>4, <2>5 DEF FileInv, FileTyped, F!Of, F!Objects
    <2>10. Uploads(step, j)'
      <3>1. row'[f] = None /\ issued'[f] = None /\ F!Of(f)' = F!Of(f) /\ now' = now
        BY <1>1, <1>3, <2>3, <2>4, ObjectsStay DEF Uploads
      <3>2. \A p \in F!Of(f) : stored'[p] \in {None, now} /\ (p \notin j.left => stored'[p] = now)
        BY <1>1, <2>3, <2>4, <2>6, <2>9 DEF Uploads
      <3> QED
        BY <2>6, <3>1, <3>2 DEF Uploads
    <2>11. Confirms(step, j)' /\ Named(step, j)
      BY <1>3, <2>2, <2>4, <2>6 DEF Confirms, Named
    <2>12. /\ Owns(step, j) => \A t \in Slots \ {s} : job[t].f # j.f
           /\ \A t \in Slots \ {s} : Owns(pc[t], job[t]) => j.f # job[t].f
      <3>1. Owns(pc[s], job[s])
        BY <1>1, <1>3, <2>4 DEF Owns
      <3> QED
        BY <1>1, <2>6, <3>1, StillOwns
    <2> QED
      BY <1>1, <1>3, <1>6, <2>5, <2>6, <2>7, <2>8, <2>10, <2>11, <2>12, FileStoresFor
  <1> QED
    BY <1>4, <1>5, <1>6

LEMMA FileDiscard == ASSUME FileInv, NEW s \in Slots, F!Discard(s) PROVE FileInv'
  <1>1. PICK f : f = job[s].f
    OBVIOUS
  <1>2. pc[s] = "discard" /\ UNCHANGED <<mix, now, row, issued, unfit, crossed, janitor>>
    BY DEF F!Discard
  <1>3. PICK o \in job[s].left :
            /\ stored' = [stored EXCEPT ![o] = None] \/ UNCHANGED stored
            /\ F!Done(s) \/ F!Go(s, "discard", [job[s] EXCEPT !.left = @ \ {o}])
    BY DEF F!Discard
  <1>4. Handles("discard", job[s]) /\ Uploads("discard", job[s]) /\ Confirms("discard", job[s]) /\ IsFileJob(job[s])
    BY <1>2 DEF FileInv, FileTyped
  <1>5. f \in Files /\ o \in F!Of(f) /\ o \in Files \X {"body", "thumb"}
    BY <1>1, <1>3, <1>4, ObjectsOf DEF Handles
  <1>6. PICK step, j :
            /\ F!Go(s, step, j) /\ step \in FileSteps /\ IsFileJob(j) /\ Handles(step, j)
            /\ step = "idle" \/ (step = "discard" /\ j.f = f /\ j.left \subseteq job[s].left)
            /\ step = "idle" => j = F!Idle
    <2>1. CASE F!Done(s)
      <3>1. F!Go(s, "idle", F!Idle) /\ IsFileJob(F!Idle) /\ Handles("idle", F!Idle) /\ "idle" \in FileSteps
        BY <2>1 DEF F!Done, F!Idle, IsFileJob, Handles, FileSteps
      <3> QED
        BY <3>1
    <2>2. CASE F!Go(s, "discard", [job[s] EXCEPT !.left = @ \ {o}])
      <3>1. PICK k : k = [job[s] EXCEPT !.left = @ \ {o}]
        OBVIOUS
      <3>2. IsFileJob(k) /\ k.f = f /\ k.left = job[s].left \ {o} /\ F!Go(s, "discard", k) /\ "discard" \in FileSteps
        BY <1>1, <1>4, <2>2, <3>1 DEF IsFileJob, FileSteps
      <3>3. Handles("discard", k)
        BY <1>1, <1>4, <3>2 DEF Handles
      <3> QED
        BY <3>2, <3>3
    <2> QED
      BY <1>3, <2>1, <2>2
  <1>7. Named(step, j)
    BY <1>6 DEF Named
  <1>8. /\ Owns(step, j) => \A t \in Slots \ {s} : job[t].f # j.f
        /\ \A t \in Slots \ {s} : Owns(pc[t], job[t]) => j.f # job[t].f
    <2>1. CASE step = "idle"
      <3>1. j.f = None /\ ~Owns(step, j)
        BY <1>6, <2>1 DEF F!Idle, Owns
      <3>2. \A t \in Slots : Owns(pc[t], job[t]) => job[t].f # None
        BY FileParts DEF FileInv, Owns, Handles
      <3> QED
        BY <3>1, <3>2
    <2>2. CASE step = "discard" /\ j.f = f
      <3>1. Owns(step, j) => Owns(pc[s], job[s])
        BY <1>1, <1>2, <2>2 DEF Owns
      <3> QED
        BY <1>1, <2>2, <3>1, StillOwns
    <2> QED
      BY <1>6, <2>1, <2>2
  <1>9. CASE UNCHANGED stored
    <2>1. Uploads(step, j) /\ Confirms(step, j)
      BY <1>1, <1>4, <1>6 DEF Uploads, Confirms
    <2> QED
      BY <1>2, <1>6, <1>7, <1>8, <1>9, <2>1, FileGoes
  <1>10. CASE stored' = [stored EXCEPT ![o] = None]
    <2>1. stored'[o] = None /\ \A p : p # o => stored'[p] = stored[p]
      BY <1>5, <1>10 DEF FileInv, FileTyped
    <2>2. mix' = mix /\ row' = row /\ issued' = issued /\ now' = now /\ F!Of(f)' = F!Of(f)
      BY <1>2, ObjectsStay
    <2>3. Uploads(step, j)'
      BY <1>1, <1>4, <1>6, <2>1, <2>2 DEF Uploads
    <2>4. Confirms(step, j)'
      BY <1>1, <1>2, <1>4, <1>6, <2>2 DEF Confirms, F!HasRow
    <2> QED
      BY <1>1, <1>2, <1>5, <1>6, <1>7, <1>8, <1>10, <2>3, <2>4, FileStoresFor
  <1> QED
    BY <1>3, <1>9, <1>10

LEMMA FilePresign == ASSUME FileInv, NEW f \in Files, F!Presign(f) PROVE FileInv'
  <1>1. issued' = [issued EXCEPT ![f] = now] /\ UNCHANGED <<mix, now, row, stored, unfit, crossed, pc, job, janitor>>
        /\ mix.kind[f] = "direct" /\ row[f] = None /\ (\A s \in Slots : job[s].f # f) /\ stored[<<f, "body">>] = None
    BY ObjectsOf DEF F!Presign, F!New
  <1>2. now \in 0..MaxDay /\ now \in Int /\ now # None /\ issued' \in [Files -> Days] /\ issued'[f] = now
        /\ \A g : g # f => issued'[g] = issued[g]
    BY <1>1, FileParts DEF FileInv, FileTyped, Days
  <1>3. FileTyped' /\ Apart'
    BY <1>1, <1>2 DEF FileInv, FileTyped, Apart, Owns
  <1>4. \A g : (F!HasRow(g)' <=> F!HasRow(g)) /\ (F!Live(g)' <=> F!Live(g)) /\ (Overdue(g)' <=> Overdue(g))
               /\ F!Of(g)' = F!Of(g) /\ (F!IsDocument(g)' <=> F!IsDocument(g))
    BY <1>1, ObjectsStay DEF F!HasRow, F!Live, Overdue
  <1>5. F!LiveNames' = F!LiveNames /\ F!Objects' = F!Objects
    BY <1>1, ObjectsStay DEF F!LiveNames, F!Live, F!HasRow, F!IsDocument
  <1>6. Dated'
    <2> SUFFICES ASSUME NEW g \in Files, issued'[g] # None
                 PROVE  /\ mix'.kind[g] = "direct" /\ issued'[g] <= now'
                        /\ row'[g] = Gone => issued'[g] < now'
                        /\ F!HasRow(g)' /\ row'[g].deleted # None => row'[g].deleted >= issued'[g]
                        /\ stored'[<<g, "body">>] # None => stored'[<<g, "body">>] >= issued'[g]
      BY DEF Dated
    <2>1. CASE g = f
      BY <1>1, <1>2, <1>4, <2>1, FileParts DEF F!HasRow
    <2>2. CASE g # f
      BY <1>1, <1>2, <1>4, <2>2 DEF FileInv, Dated
    <2> QED
      BY <2>1, <2>2
  <1>7. Crossing' /\ F!FilesKept' /\ F!NoTrace' /\ Cleaning'
    <2>1. ~Late(f) /\ \A g \in Files : Late(g) => Late(g)' /\ issued'[g] = issued[g]
      <3>1. issued[f] = None
        BY DEF F!Presign, F!New
      <3> QED
        BY <1>1, <1>2, <3>1 DEF Late
    <2>2. Crossing'
      BY <1>1, <1>2, <2>1 DEF FileInv, FileTyped, Crossing
    <2>3. F!FilesKept' /\ F!NoTrace'
      <3>1. \A g \in crossed : issued'[g] = issued[g]
        BY <2>1 DEF FileInv, FileTyped, Crossing
      <3> QED
        BY <1>1, <1>4, <3>1 DEF FileInv, F!FilesKept, F!NoTrace
    <2>4. Purging'
      BY <1>1, <1>4 DEF FileInv, Cleaning, Purging
    <2>5. Sweeping'
      BY <1>1, <1>4, <1>5, <2>1, ObjectsOf DEF FileInv, Cleaning, Sweeping
    <2> QED
      BY <1>1, <2>2, <2>3, <2>4, <2>5 DEF FileInv, Cleaning, IsJanitor
  <1>8. \A s \in Slots : Handles(pc[s], job[s])'
    BY <1>1, <1>4 DEF FileInv, Handles
  <1>9. \A s \in Slots : Uploads(pc[s], job[s])'
    BY <1>1, <1>2, <1>4 DEF FileInv, Uploads
  <1>10. \A s \in Slots : Confirms(pc[s], job[s])'
    <2>1. \A g : issued[g] # None => issued'[g] # None
      BY <1>2
    <2> QED
      BY <1>1, <1>4, <2>1 DEF FileInv, Confirms, F!Swept
  <1>11. mix.alone => Serial' /\ F!NamesApart' /\ \A s \in Slots : Named(pc[s], job[s])'
    <2>1. mix.alone => Serial'
      BY <1>1 DEF FileInv, Serial
    <2>2. mix.alone => F!NamesApart'
      BY <1>1, <1>4 DEF FileInv, F!NamesApart
    <2>3. mix.alone => \A s \in Slots : Named(pc[s], job[s])'
      BY <1>1, <1>4, <1>5 DEF FileInv, Named
    <2> QED
      BY <2>1, <2>2, <2>3
  <1> QED
    BY <1>1, <1>3, <1>6, <1>7, <1>8, <1>9, <1>10, <1>11 DEF FileInv

LEMMA FileTick == ASSUME FileInv, F!Tick PROVE FileInv'
  <1>1. now < MaxDay /\ now' = now + 1 /\ UNCHANGED <<mix, row, stored, issued, unfit, crossed, pc, job, janitor>>
        /\ \A s \in Slots : pc[s] = "idle"
    BY DEF F!Tick
  <1>2. now \in 0..MaxDay /\ now' \in 0..MaxDay /\ now \in Int
    BY <1>1, FileParts DEF FileInv, FileTyped
  <1>3. FileTyped' /\ Apart'
    BY <1>1, <1>2 DEF FileInv, FileTyped, Apart, Owns
  <1>4. \A g : (F!HasRow(g)' <=> F!HasRow(g)) /\ (F!Live(g)' <=> F!Live(g))
               /\ F!Of(g)' = F!Of(g) /\ (F!IsDocument(g)' <=> F!IsDocument(g))
    BY <1>1, ObjectsStay DEF F!HasRow, F!Live
  <1>5. F!LiveNames' = F!LiveNames /\ F!Objects' = F!Objects
    BY <1>1, ObjectsStay DEF F!LiveNames, F!Live, F!HasRow, F!IsDocument
  <1>6. \A g \in Files : issued[g] # None => issued[g] \in Int
    BY FileParts DEF FileInv, FileTyped, Days
  <1>7. \A g \in Files : F!HasRow(g) /\ row[g].deleted # None => row[g].deleted \in Int
    BY FileParts DEF FileInv, FileTyped, FileRow, F!HasRow
  <1>8. \A o \in F!Objects : stored[o] # None => stored[o] \in Int
    BY ObjectsOf, FileParts DEF FileInv, FileTyped, Days
  <1>9. Dated'
    BY <1>1, <1>2, <1>4, <1>6 DEF FileInv, Dated
  <1>10. \A g \in Files : Late(g) => Late(g)'
    BY <1>1, <1>2, <1>6, FileParts DEF Late
  <1>11. Crossing'
    BY <1>1, <1>10 DEF FileInv, FileTyped, Crossing
  <1>12. F!FilesKept' /\ F!NoTrace'
    <2>1. F!FilesKept'
      <3>0. \A f \in crossed : issued'[f] # None /\ issued'[f] + Grace <= now'
        BY <1>1, <1>2, <1>6, FileParts DEF FileInv, FileTyped, Crossing, Late, F!FilesKept
      <3> SUFFICES ASSUME NEW f \in Files \ crossed, F!HasRow(f), F!Live(f) \/ now' <= row[f].deleted + Retention
                   PROVE  \A o \in F!Of(f) : stored[o] # None
        BY <1>1, <1>4, <3>0 DEF F!FilesKept
      <3>1. F!Live(f) \/ now <= row[f].deleted + Retention
        <4>1. CASE F!Live(f)
          BY <4>1
        <4>2. CASE ~F!Live(f)
          <5>1. row[f].deleted \in Int
            BY <1>7, <4>2 DEF F!Live
          <5>2. now' <= row[f].deleted + Retention
            BY <4>2
          <5> QED
            BY <1>1, <1>2, <5>1, <5>2, FileParts
        <4> QED
          BY <4>1, <4>2
      <3> QED
        BY <3>1 DEF FileInv, F!FilesKept
    <2>2. F!NoTrace'
      BY <1>1, <1>4 DEF FileInv, F!NoTrace
    <2> QED
      BY <2>1, <2>2
  <1>13. \A g : Overdue(g) => Overdue(g)'
    <2> SUFFICES ASSUME NEW g, Overdue(g) PROVE Overdue(g)'
      OBVIOUS
    <2>1. g \in Files /\ F!HasRow(g) /\ row[g].deleted # None /\ row[g].deleted \in Int /\ row[g].deleted < now - Retention
      BY <1>7 DEF Overdue
    <2>2. row[g].deleted < now' - Retention
      BY <1>1, <1>2, <2>1, FileParts
    <2> QED
      BY <1>1, <1>4, <2>1, <2>2 DEF Overdue
  <1>14. Cleaning'
    <2>1. Purging'
      BY <1>1, <1>4, <1>13 DEF FileInv, Cleaning, Purging
    <2>2. Sweeping'
      <3>1. \A o \in F!Objects : stored[o] # None /\ stored[o] <= now - Grace => stored[o] <= now' - Grace
        BY <1>1, <1>2, <1>8, FileParts
      <3> QED
        BY <1>1, <1>4, <1>5, <1>10, <3>1, ObjectsOf DEF FileInv, Cleaning, Sweeping
    <2> QED
      BY <1>1, <2>1, <2>2 DEF FileInv, Cleaning
  <1>15. \A s \in Slots : Handles(pc[s], job[s])' /\ Uploads(pc[s], job[s])' /\ Confirms(pc[s], job[s])'
                           /\ Named(pc[s], job[s])'
    BY <1>1 DEF Handles, Uploads, Confirms, Named
  <1>16. mix.alone => Serial' /\ F!NamesApart'
    BY <1>1, <1>4 DEF FileInv, Serial, F!NamesApart
  <1> QED
    BY <1>1, <1>3, <1>9, <1>12, <1>14, <1>15, <1>16, <1>11 DEF FileInv

(* A request writes the row of a file that has all its objects. *)
LEMMA FileWrites ==
    ASSUME FileInv, NEW s \in Slots, pc[s] # "idle", F!Done(s), NEW f \in Files, NEW r \in FileRow,
           row' = [row EXCEPT ![f] = r], UNCHANGED <<mix, now, stored, issued, unfit, crossed, janitor>>,
           row[f] # Gone, r.deleted \in {None, now}, ~Overdue(f),
           f \notin crossed => \A o \in F!Of(f) : stored[o] # None /\ (janitor.does = "sweep" => o \notin janitor.left),
           \A t \in Slots \ {s} : Owns(pc[t], job[t]) => job[t].f # f,
           mix.alone /\ r.deleted = None /\ F!IsDocument(f) =>
               \A g \in Files \ {f} : F!Live(g) /\ F!IsDocument(g) => row[g].name # r.name
    PROVE  FileInv'
  <1>1. /\ pc' \in [Slots -> FileSteps] /\ job' = [t \in Slots |-> job'[t]] /\ pc'[s] = "idle" /\ job'[s] = F!Idle
        /\ \A t \in Slots \ {s} : pc'[t] = pc[t] /\ job'[t] = job[t]
        /\ \A t \in Slots : IsFileJob(job'[t])
    BY DEF FileInv, FileTyped, F!Done, F!Go, FileSteps, IsFileJob, F!Idle
  <1>2. now \in 0..MaxDay /\ now \in Int /\ now # None
    BY FileParts DEF FileInv, FileTyped
  <1>3. /\ row' \in [Files -> FileRow \cup {None, Gone}] /\ row'[f] = r /\ \A g : g # f => row'[g] = row[g]
        /\ r \notin {None, Gone}
    BY FileParts DEF FileInv, FileTyped
  <1>4. F!HasRow(f)' /\ \A g : g # f => (F!HasRow(g)' <=> F!HasRow(g)) /\ (F!Live(g)' <=> F!Live(g)) /\ (Overdue(g)' <=> Overdue(g))
    BY <1>3 DEF F!HasRow, F!Live, Overdue
  <1>5. \A g : F!Of(g)' = F!Of(g) /\ (F!IsDocument(g)' <=> F!IsDocument(g))
    BY ObjectsStay
  <1>6. FileTyped'
    BY <1>1, <1>3 DEF FileInv, FileTyped
  <1>7. Apart'
    <2>1. \A t \in Slots : Owns(pc[t], job[t]) => job[t].f # None
      BY FileParts DEF FileInv, Owns, Handles
    <2>2. F!Idle.f = None /\ ~Owns("idle", F!Idle)
      BY DEF F!Idle, Owns
    <2>3. \A t \in Slots \ {s} : (Owns(pc[t], job[t])' <=> Owns(pc[t], job[t]))
      BY <1>1 DEF Owns
    <2>4. ~Owns(pc[s], job[s])'
      BY <1>1 DEF Owns
    <2> QED
      BY <1>1, <2>1, <2>2, <2>3, <2>4 DEF FileInv, Apart
  <1>8. Dated'
    <2> SUFFICES ASSUME NEW g \in Files, issued[g] # None
                 PROVE  /\ mix.kind[g] = "direct" /\ issued[g] <= now
                        /\ row'[g] = Gone => issued[g] < now
                        /\ F!HasRow(g)' /\ row'[g].deleted # None => row'[g].deleted >= issued[g]
                        /\ stored[<<g, "body">>] # None => stored[<<g, "body">>] >= issued[g]
      BY DEF Dated
    <2>1. mix.kind[g] = "direct" /\ issued[g] <= now /\ issued[g] \in Int
          /\ (stored[<<g, "body">>] # None => stored[<<g, "body">>] >= issued[g])
      BY FileParts DEF FileInv, FileTyped, Dated, Days
    <2>2. CASE g = f
      BY <1>2, <1>3, <2>1, <2>2
    <2>3. CASE g # f
      BY <1>3, <1>4, <2>1, <2>3 DEF FileInv, Dated
    <2> QED
      BY <2>2, <2>3
  <1>9. Crossing'
    BY DEF FileInv, Crossing, Late
  <1>10. F!FilesKept'
    BY <1>3, <1>4, <1>5 DEF FileInv, F!FilesKept
  <1>11. F!NoTrace'
    BY <1>3, <1>5 DEF FileInv, F!NoTrace
  <1>12. Cleaning'
    <2>1. Purging'
      BY <1>4, <1>5 DEF FileInv, Cleaning, Purging
    <2>2. janitor.does = "sweep" => \A o \in janitor.left : o \in F!Objects /\ (o[1] = f => f \in crossed)
      BY ObjectsOf DEF FileInv, Cleaning, Sweeping
    <2>3. Sweeping'
      BY <1>4, <2>2, ObjectsStay DEF FileInv, Cleaning, Sweeping, Late
    <2> QED
      BY <2>1, <2>3 DEF FileInv, Cleaning, IsJanitor
  <1>13. \A t \in Slots : Handles(pc[t], job[t])' /\ Uploads(pc[t], job[t])' /\ Confirms(pc[t], job[t])'
    <2> SUFFICES ASSUME NEW t \in Slots
                 PROVE  Handles(pc[t], job[t])' /\ Uploads(pc[t], job[t])' /\ Confirms(pc[t], job[t])'
      OBVIOUS
    <2>1. CASE t = s
      BY <1>1, <2>1 DEF Handles, Uploads, Confirms
    <2>2. CASE t # s
      <3>1. pc'[t] = pc[t] /\ job'[t] = job[t] /\ Handles(pc[t], job[t]) /\ Uploads(pc[t], job[t]) /\ Confirms(pc[t], job[t])
        BY <1>1, <2>2 DEF FileInv
      <3>2. PICK g : g = job[t].f
        OBVIOUS
      <3>3. g = job'[t].f /\ F!Of(g)' = F!Of(g) /\ mix' = mix /\ stored' = stored /\ issued' = issued /\ now' = now
        BY <1>5, <3>1, <3>2
      <3>4. Handles(pc[t], job[t])'
        BY <3>1, <3>2, <3>3 DEF Handles
      <3>5. Uploads(pc[t], job[t])'
        <4>1. Owns(pc[t], job[t]) => row'[g] = row[g]
          BY <1>3, <2>2, <3>2
        <4> QED
          BY <3>1, <3>2, <3>3, <4>1 DEF Uploads, Owns
      <3>6. Confirms(pc[t], job[t])'
        <4>1. mix.alone => pc[t] = "idle"
          BY <2>2 DEF FileInv, Serial
        <4>2. F!HasRow(g) => F!HasRow(g)'
          BY <1>4
        <4>3. /\ (F!HasRow(g) => row[g].deleted \in {None, now}) => (F!HasRow(g)' => row'[g].deleted \in {None, now})
              /\ row'[g] = Gone => row[g] = Gone
          BY <1>3, <1>4
        <4> QED
          BY <3>1, <3>2, <3>3, <4>1, <4>2, <4>3 DEF Confirms, F!Swept
      <3> QED
        BY <3>4, <3>5, <3>6
    <2> QED
      BY <2>1, <2>2
  <1>14. mix.alone => Serial' /\ F!NamesApart' /\ \A t \in Slots : Named(pc[t], job[t])'
    <2> SUFFICES ASSUME mix.alone PROVE Serial' /\ F!NamesApart' /\ \A t \in Slots : Named(pc[t], job[t])'
      OBVIOUS
    <2>1. \A t \in Slots : pc'[t] = "idle"
      BY <1>1 DEF FileInv, Serial
    <2>2. Serial' /\ \A t \in Slots : Named(pc[t], job[t])'
      BY <2>1 DEF Serial, Named
    <2>3. F!NamesApart'
      <3> SUFFICES ASSUME NEW g \in Files, NEW h \in Files, g # h, F!Live(g)', F!Live(h)', F!IsDocument(g)', F!IsDocument(h)'
                   PROVE  row'[g].name # row'[h].name
        BY DEF F!NamesApart
      <3>1. F!IsDocument(g) /\ F!IsDocument(h)
        BY <1>5
      <3>2. CASE g = f
        <4>1. F!Live(h) /\ row'[h] = row[h] /\ r.deleted = None
          BY <1>3, <1>4, <3>2 DEF F!Live
        <4> QED
          BY <1>3, <3>1, <3>2, <4>1
      <3>3. CASE h = f
        <4>1. F!Live(g) /\ row'[g] = row[g] /\ r.deleted = None
          BY <1>3, <1>4, <3>3 DEF F!Live
        <4> QED
          BY <1>3, <3>1, <3>3, <4>1
      <3>4. CASE g # f /\ h # f
        BY <1>3, <1>4, <3>1, <3>4 DEF FileInv, F!NamesApart
      <3> QED
        BY <3>2, <3>3, <3>4
    <2> QED
      BY <2>2, <2>3
  <1>15. ~mix.alone => unfit' = {}
    BY DEF FileInv
  <1> QED
    BY <1>6, <1>7, <1>8, <1>10, <1>11, <1>12, <1>13, <1>14, <1>15, <1>9 DEF FileInv

LEMMA FileWrite == ASSUME FileInv, NEW s \in Slots, F!Write(s) PROVE FileInv'
  <1>1. PICK f : f = job[s].f
    OBVIOUS
  <1>2. pc[s] \in {"delete", "rename"} /\ F!Done(s) /\ UNCHANGED <<mix, now, stored, issued, unfit, crossed, janitor>>
    BY DEF F!Write
  <1>3. \/ F!Live(f) /\ pc[s] = "delete" /\ row' = [row EXCEPT ![f].deleted = now]
        \/ F!Live(f) /\ pc[s] = "rename" /\ row' = [row EXCEPT ![f].name = job[s].name]
        \/ row' = row
    BY <1>1 DEF F!Write
  <1>4. f \in Files /\ Handles(pc[s], job[s]) /\ now \in 0..MaxDay
    BY <1>1, <1>2 DEF FileInv, FileTyped, Handles
  <1>5. CASE row' = row
    BY <1>2, <1>5, FileEnds
  <1>6. ASSUME F!Live(f)
        PROVE  /\ row[f] \in FileRow /\ row[f] # Gone /\ ~Overdue(f) /\ row[f].deleted = None
               /\ f \notin crossed => \A o \in F!Of(f) : stored[o] # None /\ (janitor.does = "sweep" => o \notin janitor.left)
               /\ \A t \in Slots \ {s} : Owns(pc[t], job[t]) => job[t].f # f
    <2>1. row[f] \in FileRow /\ row[f] # Gone /\ row[f] # None /\ ~Overdue(f) /\ row[f].deleted = None /\ F!HasRow(f)
      BY <1>4, <1>6 DEF FileInv, FileTyped, F!Live, F!HasRow, Overdue
    <2>2. f \notin crossed => \A o \in F!Of(f) : stored[o] # None
      BY <1>4, <1>6, <2>1 DEF FileInv, F!FilesKept
    <2>3. f \notin crossed => \A o \in F!Of(f) : janitor.does = "sweep" => o \notin janitor.left
      BY <1>4, <2>1, ObjectsOf DEF FileInv, Cleaning, Sweeping
    <2>4. \A t \in Slots \ {s} : Owns(pc[t], job[t]) => job[t].f # f
      BY <2>1 DEF FileInv, Owns, Uploads
    <2> QED
      BY <2>1, <2>2, <2>3, <2>4
  <1>7. CASE F!Live(f) /\ pc[s] = "delete" /\ row' = [row EXCEPT ![f].deleted = now]
    <2>1. PICK r : r = [row[f] EXCEPT !.deleted = now]
      OBVIOUS
    <2>2. r \in FileRow /\ r.deleted = now
      BY <1>4, <1>6, <1>7, <2>1 DEF FileRow
    <2>3. row' = [row EXCEPT ![f] = r]
      BY <1>7, <2>1
    <2>4. r.deleted \in {None, now} /\ r.deleted # None /\ pc[s] # "idle"
      BY <1>4, <1>7, <2>2, FileParts
    <2>5. row[f] # Gone /\ ~Overdue(f)
      BY <1>6, <1>7
    <2>6. f \notin crossed => \A o \in F!Of(f) : stored[o] # None /\ (janitor.does = "sweep" => o \notin janitor.left)
      BY <1>6, <1>7
    <2>7. \A t \in Slots \ {s} : Owns(pc[t], job[t]) => job[t].f # f
      BY <1>6, <1>7
    <2> QED
      BY <1>2, <1>4, <2>2, <2>3, <2>4, <2>5, <2>6, <2>7, FileWrites
  <1>8. CASE F!Live(f) /\ pc[s] = "rename" /\ row' = [row EXCEPT ![f].name = job[s].name]
    <2>1. PICK r : r = [row[f] EXCEPT !.name = job[s].name]
      OBVIOUS
    <2>2. r \in FileRow /\ r.deleted = None /\ r.name = job[s].name
      BY <1>4, <1>6, <1>8, <2>1 DEF FileRow, Handles
    <2>3. row' = [row EXCEPT ![f] = r]
      BY <1>8, <2>1
    <2>4. mix.alone /\ r.deleted = None /\ F!IsDocument(f) =>
              \A g \in Files \ {f} : F!Live(g) /\ F!IsDocument(g) => row[g].name # r.name
      <3> SUFFICES ASSUME mix.alone, NEW g \in Files \ {f}, F!Live(g), F!IsDocument(g) PROVE row[g].name # r.name
        OBVIOUS
      <3>1. Named("rename", job[s])
        BY <1>8 DEF FileInv
      <3>2. F!Live(f) /\ F!IsDocument(f) /\ (r.name = row[f].name \/ r.name \notin F!LiveNames)
        BY <1>1, <2>2, <3>1 DEF Named
      <3>3. row[g].name \in F!LiveNames
        BY DEF F!LiveNames
      <3>4. row[g].name # row[f].name
        BY <1>4, <3>2 DEF FileInv, F!NamesApart
      <3> QED
        BY <3>2, <3>3, <3>4
    <2>5. row[f] # Gone /\ ~Overdue(f) /\ r.deleted \in {None, now} /\ pc[s] # "idle"
      BY <1>6, <1>8, <2>2
    <2>6. f \notin crossed => \A o \in F!Of(f) : stored[o] # None /\ (janitor.does = "sweep" => o \notin janitor.left)
      BY <1>6, <1>8
    <2>7. \A t \in Slots \ {s} : Owns(pc[t], job[t]) => job[t].f # f
      BY <1>6, <1>8
    <2> QED
      BY <1>2, <1>4, <2>2, <2>3, <2>4, <2>5, <2>6, <2>7, FileWrites
  <1> QED
    BY <1>3, <1>5, <1>7, <1>8

LEMMA FileSave == ASSUME FileInv, SavesApart, NEW s \in Slots, F!Save(s) PROVE FileInv'
  <1>1. PICK f : f = job[s].f
    OBVIOUS
  <1>2. pc[s] = "save" /\ UNCHANGED <<mix, now, stored, issued, unfit, crossed, janitor>>
    BY DEF F!Save
  <1>3. \/ ~F!HasRow(f) /\ row' = [row EXCEPT ![f] = [name |-> job[s].name, deleted |-> None]] /\ F!Done(s)
        \/ /\ F!HasRow(f) \/ "save fails" \in mix.faults
           /\ F!Go(s, IF mix.kind[f] = "direct" THEN "owner" ELSE "discard", [job[s] EXCEPT !.left = F!Of(f)])
           /\ UNCHANGED row
    BY <1>1 DEF F!Save
  <1>4. f \in Files /\ Handles("save", job[s]) /\ Uploads("save", job[s]) /\ Confirms("save", job[s]) /\ IsFileJob(job[s])
        /\ (mix.alone => Named("save", job[s]))
    BY <1>1, <1>2 DEF FileInv, FileTyped, Handles
  <1>5. now \in 0..MaxDay /\ now \in Int /\ now # None
    BY FileParts DEF FileInv, FileTyped
  <1>6. CASE ~F!HasRow(f) /\ row' = [row EXCEPT ![f] = [name |-> job[s].name, deleted |-> None]] /\ F!Done(s)
    <2>1. PICK r : r = [name |-> job[s].name, deleted |-> None]
      OBVIOUS
    <2>2. r \in FileRow /\ r.deleted = None /\ r.name = job[s].name
      BY <1>4, <2>1 DEF FileRow, Handles
    <2>3. f \notin crossed => \A o \in F!Of(f) : stored[o] # None
      <3>1. CASE mix.kind[f] = "direct"
        <4>1. (f \notin crossed => stored[<<f, "body">>] # None) /\ F!Of(f) = {<<f, "body">>}
          BY <1>1, <1>4, <3>1, ObjectsOf DEF Confirms
        <4> QED
          BY <4>1
      <3>2. CASE mix.kind[f] # "direct"
        BY <1>1, <1>4, <1>5, <3>2 DEF Uploads, Handles
      <3> QED
        BY <3>1, <3>2
    <2>4. row[f] # Gone
      BY <1>1, <1>4, FileParts DEF Uploads, Confirms
    <2>5. ~Overdue(f) /\ (f \notin crossed => \A o \in F!Of(f) : janitor.does = "sweep" => o \notin janitor.left)
      BY <1>1, <1>2, BusyIsKept
    <2>6. \A t \in Slots \ {s} : Owns(pc[t], job[t]) => job[t].f # f
      BY <1>1 DEF FileInv, Apart
    <2>7. mix.alone /\ r.deleted = None /\ F!IsDocument(f) =>
              \A g \in Files \ {f} : F!Live(g) /\ F!IsDocument(g) => row[g].name # r.name
      BY <1>4, <2>2 DEF Named, F!LiveNames
    <2>8. row' = [row EXCEPT ![f] = r] /\ F!Done(s)
      BY <1>6, <2>1
    <2>9. pc[s] # "idle" /\ r.deleted \in {None, now}
      BY <1>2, <2>2
    <2> QED
      BY <1>2, <1>4, <2>2, <2>3, <2>4, <2>5, <2>6, <2>7, <2>8, <2>9, FileWrites
  <1>7. CASE /\ F!HasRow(f) \/ "save fails" \in mix.faults
             /\ F!Go(s, IF mix.kind[f] = "direct" THEN "owner" ELSE "discard", [job[s] EXCEPT !.left = F!Of(f)])
             /\ UNCHANGED row
    <2>1. PICK j : j = [job[s] EXCEPT !.left = F!Of(f)]
      OBVIOUS
    <2>2. PICK step : step = IF mix.kind[f] = "direct" THEN "owner" ELSE "discard"
      OBVIOUS
    <2>3. IsFileJob(j) /\ j.f = f /\ j.left = F!Of(f) /\ F!Go(s, step, j) /\ step \in FileSteps
      BY <1>1, <1>4, <1>7, <2>1, <2>2 DEF IsFileJob, FileSteps
    <2>4. Handles(step, j) /\ Named(step, j)
      BY <1>4, <2>2, <2>3 DEF Handles, Named
    <2>5. Uploads(step, j)
      BY <1>1, <1>4, <2>2, <2>3 DEF Uploads
    <2>6. mix.alone \/ F!HasRow(f)
      BY <1>7 DEF SavesApart, FileInv, FileTyped
    <2>7. Confirms(step, j)
      BY <1>1, <1>4, <2>2, <2>3, <2>6 DEF Confirms, F!HasRow
    <2>8. /\ Owns(step, j) => \A t \in Slots \ {s} : job[t].f # j.f
          /\ \A t \in Slots \ {s} : Owns(pc[t], job[t]) => j.f # job[t].f
      <3>1. Owns(step, j) => Owns(pc[s], job[s])
        BY <1>1, <1>2, <2>3 DEF Owns
      <3> QED
        BY <1>1, <2>3, <3>1, StillOwns
    <2>9. pc[s] # "idle"
      BY <1>2
    <2> QED
      BY <1>2, <1>7, <2>3, <2>4, <2>5, <2>7, <2>8, <2>9, FileGoes
  <1> QED
    BY <1>3, <1>6, <1>7

LEMMA FilePurgeCommit == ASSUME FileInv, F!PurgeCommit PROVE FileInv'
  <1>1. /\ row' = [f \in Files |-> IF f \in janitor.erased THEN Gone ELSE row[f]] /\ janitor' = F!Rest
        /\ UNCHANGED <<mix, now, stored, issued, unfit, crossed, pc, job>> /\ janitor.does = "purge"
    BY DEF F!PurgeCommit
  <1>2. now \in 0..MaxDay /\ now \in Int /\ now # None
    BY FileParts DEF FileInv, FileTyped
  <1>3. \A f \in janitor.erased : Overdue(f) /\ f \in Files /\ \A o \in F!Of(f) : stored[o] = None
    BY <1>1 DEF FileInv, Cleaning, Purging, Overdue
  <1>4. \A f \in janitor.erased : row'[f] = Gone /\ row[f] # None /\ ~F!Live(f)
    BY <1>1, <1>3 DEF Overdue, F!HasRow, F!Live
  <1>5. \A f \in Files \ janitor.erased : row'[f] = row[f]
    BY <1>1
  <1>6. \A f \in janitor.erased : issued[f] # None => issued[f] < now
    <2> SUFFICES ASSUME NEW f \in janitor.erased, issued[f] # None PROVE issued[f] < now
      OBVIOUS
    <2>1. f \in Files /\ F!HasRow(f) /\ row[f].deleted # None /\ row[f].deleted \in Int /\ row[f].deleted < now - Retention
      BY <1>3, FileParts DEF Overdue, FileInv, FileTyped, FileRow, F!HasRow
    <2>2. issued[f] \in Int /\ row[f].deleted >= issued[f]
      <3>1. row[f].deleted >= issued[f]
        BY <2>1 DEF FileInv, Dated
      <3>2. issued[f] \in Days
        BY <2>1 DEF FileInv, FileTyped
      <3> QED
        BY <3>1, <3>2, FileParts DEF Days
    <2> QED
      BY <1>2, <2>1, <2>2, FileParts
  <1>7. \A f \in Files : (F!HasRow(f)' <=> F!HasRow(f) /\ f \notin janitor.erased) /\ (F!Live(f)' <=> F!Live(f))
    BY <1>4, <1>5 DEF F!HasRow, F!Live
  <1>8. \A f : F!Of(f)' = F!Of(f) /\ (F!IsDocument(f)' <=> F!IsDocument(f))
    BY <1>1, ObjectsStay
  <1>9. F!LiveNames' = F!LiveNames
    <2>1. \A f \in Files : F!Live(f) => row'[f] = row[f]
      BY <1>4, <1>5
    <2> QED
      BY <1>7, <1>8, <2>1 DEF F!LiveNames
  <1>10. FileTyped' /\ Apart'
    BY <1>1 DEF FileInv, FileTyped, Apart, Owns
  <1>11. Dated'
    <2> SUFFICES ASSUME NEW f \in Files, issued[f] # None
                 PROVE  /\ mix.kind[f] = "direct" /\ issued[f] <= now
                        /\ row'[f] = Gone => issued[f] < now
                        /\ F!HasRow(f)' /\ row'[f].deleted # None => row'[f].deleted >= issued[f]
                        /\ stored[<<f, "body">>] # None => stored[<<f, "body">>] >= issued[f]
      BY <1>1 DEF Dated
    <2>1. CASE f \in janitor.erased
      BY <1>6, <1>7, <2>1 DEF FileInv, Dated
    <2>2. CASE f \notin janitor.erased
      BY <1>5, <1>7, <2>2 DEF FileInv, Dated
    <2> QED
      BY <2>1, <2>2
  <1>12. Crossing'
    BY <1>1 DEF FileInv, Crossing, Late
  <1>13. F!FilesKept' /\ F!NoTrace'
    BY <1>1, <1>3, <1>5, <1>7, <1>8 DEF FileInv, F!FilesKept, F!NoTrace
  <1>14. Cleaning'
    BY <1>1, RestIsClean
  <1>15. \A s \in Slots : Handles(pc[s], job[s])'
    BY <1>1, <1>8 DEF FileInv, Handles
  <1>16. \A s \in Slots : Uploads(pc[s], job[s])'
    <2>1. \A s \in Slots : Owns(pc[s], job[s]) => row'[job[s].f] = row[job[s].f]
      BY <1>4, <1>5 DEF FileInv, Owns, Uploads, Handles
    <2> QED
      BY <1>1, <1>8, <2>1 DEF FileInv, Uploads, Owns
  <1>17. \A s \in Slots : Confirms(pc[s], job[s])'
    <2> SUFFICES ASSUME NEW s \in Slots PROVE Confirms(pc[s], job[s])'
      OBVIOUS
    <2>1. PICK f : f = job[s].f
      OBVIOUS
    <2>2. Confirms(pc[s], job[s]) /\ Handles(pc[s], job[s]) /\ f = job'[s].f
      BY <1>1, <2>1 DEF FileInv
    <2>3. pc[s] \in {"head", "name", "save", "owner", "discard"} /\ mix.kind[f] = "direct" =>
              f \in Files /\ (F!HasRow(f) => row[f].deleted \in {None, now})
      BY <2>1, <2>2 DEF Confirms, Handles
    <2>4. pc[s] \in {"head", "name", "save", "owner", "discard"} /\ mix.kind[f] = "direct" =>
              f \in Files \ janitor.erased
      <3>1. f \in janitor.erased => row[f].deleted # None /\ row[f].deleted < now /\ F!HasRow(f)
        BY <1>2, <1>3, FileParts DEF Overdue, FileInv, FileTyped, FileRow, F!HasRow
      <3> QED
        BY <1>2, <2>3, <3>1
    <2>5. ~F!Swept(f)'
      BY <1>1, RestIsClean
    <2> QED
      BY <1>1, <1>5, <1>7, <2>1, <2>2, <2>4, <2>5 DEF Confirms
  <1>18. mix.alone => Serial' /\ F!NamesApart' /\ \A s \in Slots : Named(pc[s], job[s])'
    <2>1. mix.alone => Serial'
      BY <1>1 DEF FileInv, Serial
    <2>2. mix.alone => F!NamesApart'
      BY <1>1, <1>4, <1>5, <1>7, <1>8 DEF FileInv, F!NamesApart
    <2>3. mix.alone => \A s \in Slots : Named(pc[s], job[s])'
      <3>1. \A s \in Slots : pc[s] = "rename" => job[s].f \in Files
        BY DEF FileInv, Handles
      <3> QED
        BY <1>1, <1>4, <1>5, <1>7, <1>8, <1>9, <3>1 DEF FileInv, Named
    <2> QED
      BY <2>1, <2>2, <2>3
  <1> QED
    BY <1>1, <1>10, <1>11, <1>13, <1>14, <1>15, <1>16, <1>17, <1>18, <1>12 DEF FileInv

--------------------------------------------------------------------------------
LEMMA FileInit == ASSUME Init, part = "files" PROVE FileInv
  <1>1. F!Init
    BY DEF Init
  <1>2. IsFileJob(F!Idle) /\ "idle" \in FileSteps
    BY DEF F!Idle, IsFileJob, FileSteps
  <1>3. FileTyped
    <2>1. now \in 0..MaxDay
      BY <1>1, FileParts DEF F!Init
    <2>2. \A s \in Slots : job[s] = F!Idle
      BY <1>1 DEF F!Init
    <2> QED
      BY <1>1, <1>2, <2>1, <2>2 DEF F!Init, FileTyped, Days
  <1>4. Cleaning
    BY <1>1, AtRest DEF F!Init, Cleaning, Purging, Sweeping
  <1>5. Dated /\ Crossing /\ F!FilesKept /\ F!NoTrace
    BY <1>1, FileParts DEF F!Init, Dated, Crossing, F!FilesKept, F!NoTrace, F!HasRow
  <1>6. Serial /\ Apart
    BY <1>1 DEF F!Init, Serial, Apart, Owns
  <1>7. F!NamesApart
    BY <1>1 DEF F!Init, F!NamesApart, F!Live, F!HasRow
  <1>8. \A s \in Slots : Handles(pc[s], job[s]) /\ Uploads(pc[s], job[s]) /\ Confirms(pc[s], job[s]) /\ Named(pc[s], job[s])
    BY <1>1 DEF F!Init, Handles, Uploads, Confirms, Named
  <1> QED
    BY <1>1, <1>3, <1>4, <1>5, <1>6, <1>7, <1>8 DEF FileInv, F!Init

LEMMA FileStutter == ASSUME FileInv, UNCHANGED F!vars PROVE FileInv'
  <1>1. UNCHANGED <<mix, now, row, stored, issued, unfit, crossed, pc, job>> /\ janitor' = janitor
    BY DEF F!vars
  <1>2. Cleaning'
    BY <1>1, ObjectsStay DEF FileInv, Cleaning, IsJanitor, Purging, Sweeping, Overdue, F!HasRow, Late
  <1>3. crossed' = crossed /\ \A f : F!Swept(f)' => F!Swept(f)
    BY <1>1 DEF F!vars, F!Swept
  <1> QED
    BY <1>1, <1>2, <1>3, CrossesNot, FileCleans

LEMMA FileNext == ASSUME FileInv, SavesApart, F!Next PROVE FileInv'
  <1>1. CASE \E s \in Slots, f \in Files : F!Upload(s, f) \/ F!Confirm(s, f) \/ F!Read(s, f)
    BY <1>1, FileUpload, FileConfirm, FileRead
  <1>2. CASE \E s \in Slots : F!Put(s) \/ F!Head(s) \/ F!Name(s) \/ F!Save(s)
    BY <1>2, FilePut, FileHead, FileName, FileSave
  <1>3. CASE \E s \in Slots : F!Owner(s) \/ F!Discard(s) \/ F!Crash(s) \/ F!Write(s)
    BY <1>3, FileOwner, FileDiscard, FileCrash, FileWrite
  <1>4. CASE \E f \in Files : F!Presign(f) \/ F!PutDirectly(f)
    BY <1>4, FilePresign, FilePutDirectly
  <1>5. CASE F!Tick \/ F!Purge \/ F!PurgeRow \/ F!PurgeObject
    BY <1>5, FileTick, FilePurge, FilePurgeRow, FilePurgeObject
  <1>6. CASE F!PurgeErase \/ F!PurgeCommit \/ F!Sweep \/ F!SweepObject \/ F!Killed
    BY <1>6, FilePurgeErase, FilePurgeCommit, FileSweep, FileSweepObject, FileKilled
  <1> QED
    BY <1>1, <1>2, <1>3, <1>4, <1>5, <1>6 DEF F!Next

(* What the requests and the janitor hold: no file some request works with  *)
(* is overdue, what the janitor is about to erase was deleted before the    *)
(* retention, and what it is about to sweep is owned by no row, or belongs  *)
(* to a document that was issued before the grace and whose confirmation    *)
(* has met the sweep; where no save of a confirmation fails next to another *)
(* one.                                                                     *)
THEOREM FileInvariant == SavesApart => (Spec => [](part = "files" => FileInv))
  <1> SUFFICES ASSUME SavesApart PROVE Spec => [](part = "files" => FileInv)
    OBVIOUS
  <1>1. Init => (part = "files" => FileInv)
    BY FileInit
  <1>2. (part = "files" => FileInv) /\ [Next]_vars => (part = "files" => FileInv)'
    <2> SUFFICES ASSUME part = "files" => FileInv, [Next]_vars, part' = "files" PROVE FileInv'
      OBVIOUS
    <2>1. CASE Next
      BY <2>1, FileNext DEF Next
    <2>2. CASE UNCHANGED vars
      BY <2>2, FileStutter DEF vars, fvars, F!vars
    <2> QED
      BY <2>1, <2>2
  <1> QED
    BY <1>1, <1>2, PTL DEF Spec

(* A file is there for as long as its row says so and is erased for good,   *)
(* whatever uploads, confirmations, deletions, purges and sweeps overlap or *)
(* stop half-way, but for one case: a confirmation may come at any age, and *)
(* one that meets a sweep of its object may be left without it, never       *)
(* before the grace is over since the address was given out.  And, with     *)
(* requests one after another, no two live documents of a project have one  *)
(* name.                                                                    *)
THEOREM NoFileIsLost == SavesApart => (Spec => []FilesKept)
  <1> SUFFICES ASSUME SavesApart PROVE Spec => []FilesKept
    OBVIOUS
  <1>1. (part = "files" => FileInv) => FilesKept
    <2> SUFFICES ASSUME part = "files", FileInv PROVE FilesKept
      BY DEF FilesKept
    <2>1. F!TypeOK
      BY DEF FileInv, FileTyped, FileRow, Days, FileSteps, F!TypeOK
    <2> QED
      BY <2>1 DEF FileInv, FilesKept
  <1> QED
    BY <1>1, FileInvariant, PTL

--------------------------------------------------------------------------------
(***************************************************************************)
(* The stock.                                                              *)
(*                                                                         *)
(* Two warehouses never share a name because whoever checks a name holds   *)
(* the row of the company until it has written it, so that the name it     *)
(* found free stays free (Claims); an address writes back the name that it *)
(* read, so that it must not run next to a renaming (AddressesApart).      *)
(***************************************************************************)
AddressesApart == \A m \in StockMixes : m.alone \/ "address" \notin m.ops

IsTask(j) == j = [op |-> j.op, w |-> j.w, i |-> j.i, name |-> j.name, place |-> j.place]

OnWarehouse(j) ==
    /\ j.op \in {"create", "rename", "address", "remove"} /\ j.w \in Warehouses /\ j.i = None
    /\ j.op # "remove" => j.name \in StockNames
OnItem(j) ==
    /\ j.w = None /\ j.i \in Items
    /\ \/ j.op \in {"add", "move", "count"} /\ j.place \in S!Places
       \/ j.op = "delete" /\ j.place = None

Working(step, j) ==
    /\ step = "idle" => j = S!Idle
    /\ step # "idle" => j.op \in mix.ops
    /\ step \in {"lock", "check"} => OnWarehouse(j) /\ j.op \in {"create", "rename"}
    /\ step = "write" => OnWarehouse(j) \/ OnItem(j)

(* Whoever checks a name holds the company's row, and nobody else has the  *)
(* name it is about to write.                                              *)
Claims(s) ==
    /\ pc[s] = "check" \/ (pc[s] = "write" /\ job[s].op \in {"create", "rename"}) => locker = s
    /\ pc[s] = "write" /\ job[s].op \in {"create", "rename", "address"} =>
         \A w \in Warehouses \ {job[s].w} : warehouse[w] # job[s].name

(* One at a time, nothing that is gone is about to be written. *)
Returning(s) == pc[s] = "write" /\ job[s].i # None /\ job[s].op # "delete" => job[s].i \notin gone
StockTurns   == mix.alone => S!GoneStays /\ \A s \in Slots : Returning(s)

OneStocks == \A s, t \in Slots : mix.alone /\ s # t => pc[s] = "idle" \/ pc[t] = "idle"

StockInv ==
    /\ S!TypeOK /\ job = [s \in Slots |-> job[s]]
    /\ \A s \in Slots : IsTask(job[s]) /\ Working(pc[s], job[s]) /\ Claims(s)
    /\ OneStocks /\ S!NamesApart /\ S!Placed /\ StockTurns

LEMMA StockInit == ASSUME Init, part = "stock" PROVE StockInv
  <1>1. /\ mix \in StockMixes
        /\ warehouse = [w \in Warehouses |-> None] /\ item = [i \in Items |-> None]
        /\ site = Sites /\ locker = None /\ gone = {}
        /\ pc = [s \in Slots |-> "idle"] /\ job = [s \in Slots |-> S!Idle]
    BY DEF Init, S!Init
  <1>2. IsTask(S!Idle) /\ S!Idle.i = None
    BY DEF S!Idle, IsTask
  <1>3. S!TypeOK
    BY <1>1 DEF S!TypeOK
  <1>4. ASSUME NEW s \in Slots PROVE IsTask(job[s]) /\ Working(pc[s], job[s]) /\ Claims(s) /\ Returning(s)
    <2>1. pc[s] = "idle" /\ job[s] = S!Idle
      BY <1>1
    <2> QED
      BY <1>2, <2>1 DEF Working, Claims, Returning
  <1>5. S!NamesApart /\ S!Placed /\ S!GoneStays /\ OneStocks
    BY <1>1 DEF S!NamesApart, S!Placed, S!GoneStays, OneStocks
  <1> QED
    BY <1>1, <1>3, <1>4, <1>5 DEF StockInv, StockTurns

(* A request that is taken on, or taken further, without a write. *)
LEMMA StockGoes ==
    ASSUME StockInv, NEW s \in Slots, NEW step \in {"lock", "check", "write"}, NEW j,
           IsTask(j), Working(step, j),
           pc' = [pc EXCEPT ![s] = step], job' = [job EXCEPT ![s] = j],
           UNCHANGED <<mix, warehouse, item, site, gone>>,
           locker' \in {locker, s}, locker' # locker => locker = None,
           Claims(s)', Returning(s)' \/ ~mix.alone,
           mix.alone => \A t \in Slots \ {s} : pc[t] = "idle"
    PROVE  StockInv'
  <1>1. S!TypeOK' /\ S!NamesApart' /\ S!Placed' /\ (S!GoneStays => S!GoneStays')
    BY DEF StockInv, S!TypeOK, S!NamesApart, S!Placed, S!GoneStays
  <1>2. /\ pc'[s] = step /\ job'[s] = j
        /\ \A t \in Slots : t # s => pc'[t] = pc[t] /\ job'[t] = job[t]
        /\ job' = [t \in Slots |-> job'[t]]
    BY DEF StockInv, S!TypeOK
  <1>3. ASSUME NEW t \in Slots
        PROVE  IsTask(job'[t]) /\ Working(pc[t], job[t])' /\ Claims(t)'
    <2>1. CASE t = s
      BY <1>2, <2>1 DEF Working
    <2>2. CASE t # s
      <3>1. IsTask(job[t]) /\ Working(pc[t], job[t]) /\ Claims(t)
        BY DEF StockInv
      <3>2. locker = t => locker' = t
        BY StockConstants DEF S!Constants
      <3> QED
        BY <1>2, <2>2, <3>1, <3>2 DEF Working, Claims
    <2> QED
      BY <2>1, <2>2
  <1>4. OneStocks'
    BY <1>2 DEF OneStocks
  <1>5. StockTurns'
    <2> SUFFICES ASSUME mix.alone, NEW t \in Slots PROVE S!GoneStays' /\ Returning(t)'
      BY DEF StockTurns
    <2>1. S!GoneStays
      BY DEF StockInv, StockTurns
    <2>2. CASE t # s
      BY <1>1, <1>2, <2>1, <2>2 DEF Returning
    <2>3. CASE t = s
      <3>1. Returning(t)'
        BY <1>1, <2>3 DEF Returning
      <3>2. S!GoneStays'
        BY <1>1, <2>1
      <3> QED
        BY <3>1, <3>2
    <2> QED
      BY <2>2, <2>3
  <1> QED
    BY <1>1, <1>2, <1>3, <1>4, <1>5 DEF StockInv

(* A request that ends, with or without a write. *)
LEMMA StockRests ==
    ASSUME StockInv, NEW s \in Slots, pc[s] # "idle", S!Done(s), UNCHANGED mix,
           site' \subseteq Sites, gone' \subseteq Items,
           warehouse' \in [Warehouses -> StockNames \cup {None}],
           item' \in [Items -> S!Places \cup {None}],
           S!NamesApart', S!Placed', mix.alone => S!GoneStays',
           \A t \in Slots \ {s} :
               pc[t] = "write" /\ job[t].op \in {"create", "rename", "address"} =>
                   \A w \in Warehouses \ {job[t].w} : warehouse'[w] # job[t].name
    PROVE  StockInv'
  <1>1. /\ pc'[s] = "idle" /\ job'[s] = S!Idle
        /\ \A t \in Slots : t # s => pc'[t] = pc[t] /\ job'[t] = job[t]
        /\ job' = [t \in Slots |-> job'[t]]
        /\ locker' = IF locker = s THEN None ELSE locker
    BY DEF StockInv, S!TypeOK, S!Done
  <1>2. S!TypeOK'
    BY DEF StockInv, S!TypeOK, S!Done
  <1>3. IsTask(S!Idle)
    BY DEF S!Idle, IsTask
  <1>4. ASSUME NEW t \in Slots
        PROVE  IsTask(job'[t]) /\ Working(pc[t], job[t])' /\ Claims(t)'
    <2>1. CASE t = s
      BY <1>1, <1>3, <2>1 DEF Working, Claims
    <2>2. CASE t # s
      <3>1. IsTask(job[t]) /\ Working(pc[t], job[t]) /\ Claims(t)
        BY DEF StockInv
      <3> QED
        BY <1>1, <2>2, <3>1 DEF Working, Claims
    <2> QED
      BY <2>1, <2>2
  <1>5. OneStocks'
    BY <1>1 DEF StockInv, OneStocks
  <1>6. StockTurns'
    <2> SUFFICES ASSUME mix.alone, NEW t \in Slots PROVE S!GoneStays' /\ Returning(t)'
      BY DEF StockTurns
    <2>1. CASE t = s
      BY <1>1, <2>1 DEF Returning
    <2>2. CASE t # s
      <3>1. pc[s] = "idle" \/ pc[t] = "idle"
        BY <2>2 DEF StockInv, OneStocks
      <3> QED
        BY <1>1, <2>2, <3>1 DEF Returning
    <2> QED
      BY <2>1, <2>2
  <1> QED
    BY <1>1, <1>2, <1>4, <1>5, <1>6 DEF StockInv

(* The requests that are taken on. *)
LEMMA StockReads ==
    ASSUME StockInv, NEW s \in Slots, NEW step \in {"lock", "write"}, NEW j, IsTask(j),
           S!Free(s, j.op), S!Go(s, step, j), Working(step, j),
           step = "write" => j.op \notin {"create", "rename"},
           j.op = "address" => \A v \in Warehouses \ {j.w} : warehouse[v] # j.name,
           mix.alone /\ j.i # None /\ j.op # "delete" => j.i \notin gone
    PROVE  StockInv'
  <1>1. pc'[s] = step /\ job'[s] = j /\ UNCHANGED <<mix, warehouse, item, site, locker, gone>>
    BY DEF S!Go, StockInv, S!TypeOK
  <1>2. Claims(s)' /\ (Returning(s)' \/ ~mix.alone)
    BY <1>1 DEF Claims, Returning
  <1>3. mix.alone => \A t \in Slots \ {s} : pc[t] = "idle"
    BY DEF S!Free
  <1>4. pc' = [pc EXCEPT ![s] = step] /\ job' = [job EXCEPT ![s] = j] /\ step \in {"lock", "check", "write"}
    BY DEF S!Go
  <1> QED
    BY <1>1, <1>2, <1>3, <1>4, StockGoes

LEMMA StockReadWarehouse == ASSUME StockInv, NEW s \in Slots, S!ReadWarehouse(s) PROVE StockInv'
  <1>1. PICK w \in Warehouses, n \in StockNames :
        \/ /\ S!Free(s, "create")
           /\ S!Go(s, "lock", [S!Idle EXCEPT !.op = "create", !.w = w, !.name = n])
        \/ S!Free(s, "rename") /\ S!Go(s, "lock", [S!Idle EXCEPT !.op = "rename", !.w = w, !.name = n])
        \/ S!Free(s, "address") /\ warehouse[w] = n /\ S!Go(s, "write", [S!Idle EXCEPT !.op = "address", !.w = w, !.name = n])
        \/ S!Free(s, "remove") /\ S!Go(s, "write", [S!Idle EXCEPT !.op = "remove", !.w = w])
    BY DEF S!ReadWarehouse
  <1>2. n # None
    BY StockConstants DEF S!Constants
  <1>3. CASE S!Free(s, "create") /\ S!Go(s, "lock", [S!Idle EXCEPT !.op = "create", !.w = w, !.name = n])
    <2>0. PICK j : j = [S!Idle EXCEPT !.op = "create", !.w = w, !.name = n]
      OBVIOUS
    <2>1. S!Go(s, "lock", j) /\ j = [op |-> "create", w |-> w, i |-> None, name |-> n, place |-> None]
      BY <1>3, <2>0 DEF S!Idle
    <2>2. IsTask(j) /\ Working("lock", j)
      BY <1>3, <2>1 DEF IsTask, S!Free, Working, OnWarehouse
    <2> QED
      BY <1>3, <2>1, <2>2, StockReads
  <1>4. CASE S!Free(s, "rename") /\ S!Go(s, "lock", [S!Idle EXCEPT !.op = "rename", !.w = w, !.name = n])
    <2>0. PICK j : j = [S!Idle EXCEPT !.op = "rename", !.w = w, !.name = n]
      OBVIOUS
    <2>1. S!Go(s, "lock", j) /\ j = [op |-> "rename", w |-> w, i |-> None, name |-> n, place |-> None]
      BY <1>4, <2>0 DEF S!Idle
    <2>2. IsTask(j) /\ Working("lock", j)
      BY <1>4, <2>1 DEF IsTask, S!Free, Working, OnWarehouse
    <2> QED
      BY <1>4, <2>1, <2>2, StockReads
  <1>5. CASE S!Free(s, "address") /\ warehouse[w] = n /\ S!Go(s, "write", [S!Idle EXCEPT !.op = "address", !.w = w, !.name = n])
    <2>0. PICK j : j = [S!Idle EXCEPT !.op = "address", !.w = w, !.name = n]
      OBVIOUS
    <2>1. S!Go(s, "write", j) /\ j = [op |-> "address", w |-> w, i |-> None, name |-> n, place |-> None]
      BY <1>5, <2>0 DEF S!Idle
    <2>2. IsTask(j) /\ Working("write", j)
      BY <1>5, <2>1 DEF IsTask, S!Free, Working, OnWarehouse
    <2>3. \A v \in Warehouses \ {w} : warehouse[v] # n
      BY <1>2, <1>5 DEF StockInv, S!NamesApart
    <2> QED
      BY <1>5, <2>1, <2>2, <2>3, StockReads
  <1>6. CASE S!Free(s, "remove") /\ S!Go(s, "write", [S!Idle EXCEPT !.op = "remove", !.w = w])
    <2>0. PICK j : j = [S!Idle EXCEPT !.op = "remove", !.w = w]
      OBVIOUS
    <2>1. S!Go(s, "write", j) /\ j = [op |-> "remove", w |-> w, i |-> None, name |-> None, place |-> None]
      BY <1>6, <2>0 DEF S!Idle
    <2>2. IsTask(j) /\ Working("write", j)
      BY <1>6, <2>1 DEF IsTask, S!Free, Working, OnWarehouse
    <2> QED
      BY <1>6, <2>1, <2>2, StockReads
  <1> QED
    BY <1>1, <1>3, <1>4, <1>5, <1>6

LEMMA StockReadItem == ASSUME StockInv, NEW s \in Slots, S!ReadItem(s) PROVE StockInv'
  <1>0. item \in [Items -> S!Places \cup {None}] /\ (mix.alone => S!GoneStays)
    BY DEF StockInv, StockTurns, S!TypeOK
  <1>1. ASSUME NEW o \in {"add", "move", "count"}, NEW i \in Items, NEW p \in S!Places, S!Free(s, o),
               S!Go(s, "write", [S!Idle EXCEPT !.op = o, !.i = i, !.place = p]),
               i \notin gone \/ item[i] # None
        PROVE  StockInv'
    <2>0. PICK j : j = [S!Idle EXCEPT !.op = o, !.i = i, !.place = p]
      OBVIOUS
    <2>1. S!Go(s, "write", j) /\ j = [op |-> o, w |-> None, i |-> i, name |-> None, place |-> p]
      BY <1>1, <2>0 DEF S!Idle
    <2>2. IsTask(j) /\ Working("write", j)
      BY <1>1, <2>1 DEF IsTask, S!Free, Working, OnItem
    <2>3. mix.alone => i \notin gone
      BY <1>0, <1>1 DEF S!GoneStays
    <2> QED
      BY <1>1, <2>1, <2>2, <2>3, StockReads
  <1>2. ASSUME NEW i \in Items, S!Free(s, "delete"), S!Go(s, "write", [S!Idle EXCEPT !.op = "delete", !.i = i])
        PROVE  StockInv'
    <2>0. PICK j : j = [S!Idle EXCEPT !.op = "delete", !.i = i]
      OBVIOUS
    <2>1. S!Go(s, "write", j) /\ j = [op |-> "delete", w |-> None, i |-> i, name |-> None, place |-> None]
      BY <1>2, <2>0 DEF S!Idle
    <2>2. IsTask(j) /\ Working("write", j)
      BY <1>2, <2>1 DEF IsTask, S!Free, Working, OnItem
    <2> QED
      BY <1>2, <2>1, <2>2, StockReads
  <1> QED
    BY <1>0, <1>1, <1>2 DEF S!ReadItem

LEMMA StockLock == ASSUME StockInv, NEW s \in Slots, S!Lock(s) PROVE StockInv'
  <1>1. /\ S!TypeOK /\ IsTask(job[s]) /\ Working(pc[s], job[s]) /\ pc[s] = "lock" /\ job = [t \in Slots |-> job[t]]
    BY DEF StockInv, S!Lock
  <1>2. /\ pc' = [pc EXCEPT ![s] = "check"] /\ job' = [job EXCEPT ![s] = job[s]]
        /\ pc'[s] = "check" /\ job'[s] = job[s]
    BY <1>1 DEF S!Lock, S!TypeOK
  <1>3. Working("check", job[s])
    BY <1>1 DEF Working
  <1>4. mix.alone => \A t \in Slots \ {s} : pc[t] = "idle"
    BY <1>1 DEF StockInv, OneStocks
  <1>5. UNCHANGED <<mix, warehouse, item, site, gone>> /\ locker = None /\ locker' = s
    BY DEF S!Lock
  <1>6. Claims(s)' /\ Returning(s)'
    BY <1>2, <1>5 DEF Claims, Returning
  <1> QED
    BY <1>1, <1>2, <1>3, <1>4, <1>5, <1>6, StockGoes

LEMMA StockSame ==
    ASSUME StockInv, NEW s \in Slots, pc[s] # "idle", S!Done(s), UNCHANGED <<mix, warehouse, item, site, gone>>
    PROVE  StockInv'
  <1>1. S!NamesApart' /\ S!Placed' /\ (mix.alone => S!GoneStays')
    BY DEF StockInv, StockTurns, S!NamesApart, S!Placed, S!GoneStays
  <1>2. \A t \in Slots \ {s} :
            pc[t] = "write" /\ job[t].op \in {"create", "rename", "address"} =>
                   \A w \in Warehouses \ {job[t].w} : warehouse'[w] # job[t].name
    BY DEF StockInv, Claims
  <1> QED
    BY <1>1, <1>2, StockRests DEF StockInv, S!TypeOK

LEMMA StockCheck == ASSUME StockInv, NEW s \in Slots, S!Check(s) PROVE StockInv'
  <1>1. /\ S!TypeOK /\ IsTask(job[s]) /\ Working(pc[s], job[s]) /\ Claims(s) /\ pc[s] = "check"
        /\ job = [t \in Slots |-> job[t]] /\ UNCHANGED <<mix, warehouse, item, site, gone>>
    BY DEF StockInv, S!Check
  <1>2. CASE S!Done(s)
    BY <1>1, <1>2, StockSame
  <1>3. CASE /\ ~ \E w \in Warehouses \ {job[s].w} : warehouse[w] = job[s].name
             /\ pc' = [pc EXCEPT ![s] = "write"] /\ UNCHANGED <<job, locker>>
    <2>1. job' = [job EXCEPT ![s] = job[s]] /\ pc'[s] = "write"
      BY <1>1, <1>3 DEF S!TypeOK
    <2>2. Working("write", job[s])
      BY <1>1 DEF Working
    <2>3. Claims(s)' /\ Returning(s)'
      BY <1>1, <1>3, <2>1 DEF Claims, Returning, Working, OnWarehouse
    <2>4. mix.alone => \A t \in Slots \ {s} : pc[t] = "idle"
      BY <1>1 DEF StockInv, OneStocks
    <2> QED
      BY <1>1, <1>3, <2>1, <2>2, <2>3, <2>4, StockGoes
  <1> QED
    BY <1>2, <1>3 DEF S!Check

LEMMA StockWriteWarehouse ==
    ASSUME StockInv, AddressesApart, NEW s \in Slots, S!WriteWarehouse(s) PROVE StockInv'
  <1>1. /\ S!TypeOK /\ Working(pc[s], job[s]) /\ Claims(s) /\ pc[s] = "write" /\ job[s].w # None
        /\ S!Done(s) /\ UNCHANGED <<mix, item, site, gone>>
        /\ warehouse' = CASE job[s].op # "remove" -> [warehouse EXCEPT ![job[s].w] = job[s].name]
                          [] job[s].op = "remove" /\ S!Empty(job[s].w) -> [warehouse EXCEPT ![job[s].w] = None]
                          [] OTHER -> warehouse
    BY DEF StockInv, S!WriteWarehouse
  <1>2. OnWarehouse(job[s]) /\ job[s].op \in mix.ops
    BY <1>1 DEF Working, OnItem
  <1>3. PICK j : j = job[s]
    OBVIOUS
  <1>4. j.w \in Warehouses /\ j.op \in {"create", "rename", "address", "remove"} /\ (j.op # "remove" => j.name \in StockNames)
    BY <1>2, <1>3 DEF OnWarehouse
  <1>5. None \notin StockNames
    BY StockConstants DEF S!Constants
  <1>6. mix.alone => S!GoneStays'
    BY <1>1 DEF StockInv, StockTurns, S!GoneStays
  <1>7. CASE j.op # "remove"
    <2>1. warehouse' = [warehouse EXCEPT ![j.w] = j.name]
      BY <1>1, <1>3, <1>7
    <2>2. \A w \in Warehouses \ {j.w} : warehouse[w] # j.name
      BY <1>1, <1>3, <1>4, <1>7 DEF Claims
    <2>3. warehouse' \in [Warehouses -> StockNames \cup {None}]
      BY <1>1, <1>4, <1>7, <2>1 DEF S!TypeOK
    <2>4. S!NamesApart'
      BY <1>1, <1>4, <1>5, <1>7, <2>1, <2>2 DEF StockInv, S!NamesApart, S!TypeOK
    <2>5. S!Placed'
      BY <1>1, <1>4, <1>5, <1>7, <2>1 DEF StockInv, S!Placed, S!TypeOK, S!Places
    <2>6. ASSUME NEW t \in Slots \ {s}, pc[t] = "write", job[t].op \in {"create", "rename", "address"},
                 NEW w \in Warehouses \ {job[t].w}
          PROVE  warehouse'[w] # job[t].name
      <3>1. CASE mix.alone
        BY <1>1, <2>6, <3>1 DEF StockInv, OneStocks
      <3>2. CASE ~mix.alone
        <4>1. mix \in StockMixes /\ Working(pc[t], job[t])
          BY DEF StockInv, S!TypeOK
        <4>2. "address" \notin mix.ops
          BY <3>2, <4>1 DEF AddressesApart
        <4>3. job[t].op # "address" /\ job[s].op # "address"
          BY <1>2, <2>6, <4>1, <4>2 DEF Working
        <4>4. locker = s /\ locker = t
          BY <1>1, <1>3, <1>4, <1>7, <2>6, <4>3 DEF StockInv, Claims
        <4> QED
          BY <2>6, <4>4
      <3> QED
        BY <3>1, <3>2
    <2> QED
      BY <1>1, <1>6, <2>3, <2>4, <2>5, <2>6, StockRests DEF S!TypeOK
  <1>8. CASE j.op = "remove"
    <2>1. \/ warehouse' = [warehouse EXCEPT ![j.w] = None] /\ S!Empty(j.w)
          \/ warehouse' = warehouse
      BY <1>1, <1>3, <1>8
    <2>2. warehouse' \in [Warehouses -> StockNames \cup {None}]
      BY <1>1, <1>4, <2>1 DEF S!TypeOK
    <2>3. \A w \in Warehouses : warehouse'[w] \in {warehouse[w], None}
      BY <1>1, <1>4, <2>1 DEF S!TypeOK
    <2>4. S!NamesApart'
      BY <2>3 DEF StockInv, S!NamesApart
    <2>5. S!Placed'
      <3>1. CASE warehouse' = warehouse
        BY <1>1, <3>1 DEF StockInv, S!Placed
      <3>2. CASE warehouse' = [warehouse EXCEPT ![j.w] = None] /\ S!Empty(j.w)
        BY <1>1, <1>4, <3>2 DEF StockInv, S!Placed, S!TypeOK, S!Places, S!Empty
      <3> QED
        BY <2>1, <3>1, <3>2
    <2>6. \A t \in Slots \ {s} :
              pc[t] = "write" /\ job[t].op \in {"create", "rename", "address"} =>
                   \A w \in Warehouses \ {job[t].w} : warehouse'[w] # job[t].name
      <3> SUFFICES ASSUME NEW t \in Slots \ {s}, pc[t] = "write", job[t].op \in {"create", "rename", "address"},
                          NEW w \in Warehouses \ {job[t].w}
                   PROVE  warehouse'[w] # job[t].name
        OBVIOUS
      <3>1. Claims(t) /\ Working(pc[t], job[t])
        BY DEF StockInv
      <3>2. job[t].name # None
        BY <1>5, <3>1 DEF Working, OnWarehouse, OnItem
      <3> QED
        BY <2>3, <3>1, <3>2 DEF Claims
    <2> QED
      BY <1>1, <1>6, <2>2, <2>4, <2>5, <2>6, StockRests DEF S!TypeOK
  <1> QED
    BY <1>7, <1>8

LEMMA StockWriteItem == ASSUME StockInv, NEW s \in Slots, S!WriteItem(s) PROVE StockInv'
  <1>1. PICK j : j = job[s]
    OBVIOUS
  <1>2. PICK fits \in BOOLEAN : fits = (j.op = "delete" \/ S!Exists(j.place) \/ (j.place.kind = "site" /\ j.place.site = None))
    OBVIOUS
  <1>3. /\ S!TypeOK /\ Working(pc[s], j) /\ pc[s] = "write" /\ j.i # None
        /\ S!Done(s) /\ UNCHANGED <<mix, warehouse, site>>
        /\ item' = IF fits THEN [item EXCEPT ![j.i] = j.place] ELSE item
        /\ gone' = IF j.op = "delete" THEN gone \cup {j.i} ELSE gone
    BY <1>1, <1>2 DEF StockInv, S!WriteItem
  <1>4. OnItem(j)
    BY <1>3 DEF Working, OnWarehouse
  <1>5. None \notin S!Places /\ None \notin Items /\ j.i \in Items /\ j.place \in S!Places \cup {None}
    BY <1>4, StockConstants DEF S!Constants, OnItem
  <1>6. gone' \subseteq Items /\ item' \in [Items -> S!Places \cup {None}]
    BY <1>3, <1>5 DEF S!TypeOK
  <1>7. S!NamesApart'
    BY <1>3 DEF StockInv, S!NamesApart
  <1>8. S!Placed'
    <2> SUFFICES ASSUME NEW i \in Items, item'[i] # None
                 PROVE  IF item'[i].kind = "warehouse" THEN warehouse[item'[i].warehouse] # None ELSE item'[i].site \in site \cup {None}
      BY <1>3 DEF S!Placed
    <2>1. CASE item'[i] = item[i]
      BY <2>1 DEF StockInv, S!Placed
    <2>2. CASE item'[i] # item[i]
      <3>1. fits /\ item'[i] = j.place
        BY <1>3, <1>5, <2>2 DEF S!TypeOK
      <3>2. j.op # "delete" /\ j.place \in S!Places
        BY <1>4, <3>1 DEF OnItem
      <3>3. S!Exists(j.place) \/ (j.place.kind = "site" /\ j.place.site = None)
        BY <1>2, <3>1, <3>2
      <3> QED
        BY <3>1, <3>3 DEF S!Exists
    <2> QED
      BY <2>1, <2>2
  <1>9. ASSUME mix.alone PROVE S!GoneStays'
    <2>1. S!GoneStays /\ Returning(s)
      BY <1>9 DEF StockInv, StockTurns
    <2>2. CASE j.op = "delete"
      <3>1. item' = [item EXCEPT ![j.i] = None]
        BY <1>2, <1>3, <1>4, <2>2 DEF OnItem
      <3> QED
        BY <1>3, <1>5, <2>1, <2>2, <3>1 DEF S!GoneStays, S!TypeOK
    <2>3. CASE j.op # "delete"
      <3>1. j.i \notin gone /\ gone' = gone
        BY <1>1, <1>3, <2>1, <2>3 DEF Returning
      <3> QED
        BY <1>3, <2>1, <3>1 DEF S!GoneStays, S!TypeOK
    <2> QED
      BY <2>2, <2>3
  <1>10. \A t \in Slots \ {s} :
            pc[t] = "write" /\ job[t].op \in {"create", "rename", "address"} =>
                   \A w \in Warehouses \ {job[t].w} : warehouse'[w] # job[t].name
    BY <1>3 DEF StockInv, Claims
  <1> QED
    BY <1>3, <1>6, <1>7, <1>8, <1>9, <1>10, StockRests DEF S!TypeOK

LEMMA StockDeleteProject == ASSUME StockInv, NEW p \in Sites, S!DeleteProject(p) PROVE StockInv'
  <1>1. /\ S!TypeOK /\ site' = site \ {p} /\ UNCHANGED <<mix, warehouse, locker, gone, pc, job>>
        /\ item' = [i \in Items |-> IF item[i] # None /\ item[i].site = p THEN [item[i] EXCEPT !.site = None] ELSE item[i]]
    BY DEF StockInv, S!DeleteProject
  <1>2. None \notin S!Places /\ None \notin Sites
    BY StockConstants DEF S!Constants
  <1>3. ASSUME NEW i \in Items
        PROVE  \/ item'[i] = item[i] /\ (item[i] # None => item[i].site # p)
               \/ item[i] # None /\ item'[i] = [kind |-> "site", warehouse |-> None, site |-> None]
    <2>1. CASE item[i] # None /\ item[i].site = p
      <3>1. item[i] \in S!Places
        BY <1>1, <2>1 DEF S!TypeOK
      <3>2. item[i] = [kind |-> "site", warehouse |-> None, site |-> p]
        BY <1>2, <2>1, <3>1 DEF S!Places
      <3>3. item'[i] = [item[i] EXCEPT !.site = None]
        BY <1>1, <2>1
      <3> QED
        BY <2>1, <3>2, <3>3
    <2>2. CASE ~(item[i] # None /\ item[i].site = p)
      BY <1>1, <2>2
    <2> QED
      BY <2>1, <2>2
  <1>4. item' \in [Items -> S!Places \cup {None}]
    <2>1. [kind |-> "site", warehouse |-> None, site |-> None] \in S!Places
      BY DEF S!Places
    <2>2. \A i \in Items : item'[i] \in S!Places \cup {None}
      BY <1>1, <1>3, <2>1 DEF S!TypeOK
    <2> QED
      BY <1>1, <2>2
  <1>5. S!TypeOK'
    BY <1>1, <1>4 DEF S!TypeOK
  <1>6. S!Placed'
    <2> SUFFICES ASSUME NEW i \in Items, item'[i] # None
                 PROVE  IF item'[i].kind = "warehouse" THEN warehouse[item'[i].warehouse] # None ELSE item'[i].site \in site' \cup {None}
      BY <1>1 DEF S!Placed
    <2>1. CASE item'[i] = item[i] /\ (item[i] # None => item[i].site # p)
      BY <1>1, <2>1 DEF StockInv, S!Placed
    <2>2. CASE item'[i] = [kind |-> "site", warehouse |-> None, site |-> None]
      BY <2>2
    <2> QED
      BY <1>3, <2>1, <2>2
  <1>7. S!NamesApart' /\ StockTurns' /\ OneStocks'
    BY <1>1, <1>3 DEF StockInv, S!NamesApart, StockTurns, S!GoneStays, Returning, OneStocks, S!TypeOK
  <1>8. ASSUME NEW s \in Slots PROVE IsTask(job'[s]) /\ Working(pc[s], job[s])' /\ Claims(s)'
    BY <1>1 DEF StockInv, Working, Claims
  <1> QED
    BY <1>1, <1>5, <1>6, <1>7, <1>8 DEF StockInv

LEMMA StockNext == ASSUME StockInv, AddressesApart, S!Next PROVE StockInv'
  BY StockReadWarehouse, StockLock, StockCheck, StockWriteWarehouse, StockReadItem, StockWriteItem,
     StockDeleteProject DEF S!Next

LEMMA StockStutter == ASSUME StockInv, UNCHANGED S!vars PROVE StockInv'
  <1>1. UNCHANGED <<mix, warehouse, item, site, locker, gone, pc, job>>
    BY DEF S!vars
  <1>2. ASSUME NEW s \in Slots PROVE IsTask(job'[s]) /\ Working(pc[s], job[s])' /\ Claims(s)'
    BY <1>1 DEF StockInv, Working, Claims
  <1> QED
    BY <1>1, <1>2 DEF StockInv, S!TypeOK, S!NamesApart, S!Placed, StockTurns, S!GoneStays, Returning, OneStocks

(* What a request holds while it writes a name, and that items lie in       *)
(* places that exist, in every reachable state of the inventory.            *)
THEOREM StockInvariant == AddressesApart => (Spec => [](part = "stock" => StockInv))
  <1> SUFFICES ASSUME AddressesApart PROVE Spec => [](part = "stock" => StockInv)
    OBVIOUS
  <1>1. Init => (part = "stock" => StockInv)
    BY StockInit
  <1>2. (part = "stock" => StockInv) /\ [Next]_vars => (part = "stock" => StockInv)'
    <2> SUFFICES ASSUME part = "stock" => StockInv, [Next]_vars, part' = "stock" PROVE StockInv'
      OBVIOUS
    <2>1. CASE Next
      BY <2>1, StockNext DEF Next
    <2>2. CASE UNCHANGED vars
      BY <2>2, StockStutter DEF vars, svars, S!vars
    <2> QED
      BY <2>1, <2>2
  <1> QED
    BY <1>1, <1>2, PTL DEF Spec

--------------------------------------------------------------------------------
(***************************************************************************)
(* The library.                                                            *)
(*                                                                         *)
(* The totals that a request writes are those of the purchases committed   *)
(* and of the ones that it has written and counted (Applied).  They still  *)
(* are when it commits, because whoever has counted one holds the row for  *)
(* itself, and whoever is about to count one keeps it (Locked, Excluding). *)
(* Requests other than imports write all columns of what they read, so     *)
(* that they must come one after the other (InTurn): then a request finds  *)
(* what it read (Unmoved).  First imports that overlap write a row with no *)
(* totals over the one that the first of them made (Importing), so that    *)
(* theirs are exact for a known product only.                              *)
(***************************************************************************)
InTurn == \A m \in LibraryMixes : m = Doubling \/ m.alone \/ (m.ops = {"import"} /\ m.known)

LibrarySteps == {"idle", "find", "get", "insert", "update", "buy", "apply", "put", "drop", "commit", "unstore"}

IsEdit(j) ==
    /\ j = [op |-> j.op, all |-> j.all, todo |-> j.todo, seen |-> j.seen, differs |-> j.differs, wrote |-> j.wrote,
            added |-> j.added, lock |-> j.lock]
    /\ j.todo \in L!Seqs \cup {<<>>} /\ j.all \subseteq Lines /\ j.added \subseteq j.all /\ IsFiniteSet(j.added)
    /\ \A i \in DOMAIN j.todo : j.todo[i] \in j.all
    /\ j.seen \in L!Rows \cup {None} /\ j.wrote \in L!Rows \cup {None, Keep} /\ j.differs \subseteq L!Fields
    /\ j.lock \in {"none", "share", "write", "all"}

(* What a request is about at each of its steps. *)
Editing(step, j) ==
    /\ step = "idle" => j = L!Idle
    /\ step # "idle" => j.op \in mix.ops
    /\ step \in {"find", "buy", "apply"} => j.op = "import" /\ j.todo # <<>>
    /\ step \in {"get", "insert", "update"} => (j.op = "import" <=> j.todo # <<>>)
    /\ step \notin {"idle", "find"} => j.seen # None
    /\ step = "apply" => Head(j.todo) \in j.added
    /\ step = "insert" => j.wrote = Keep
    /\ step \notin {"commit", "idle"} => j.wrote # None
    /\ step = "put" => j.op \in {"upload", "fetch"} /\ j.todo = <<>>
    /\ step = "drop" => j.op = "delete"
    /\ step = "unstore" => j.wrote = Keep

(* The row as a request sees it, and the purchases it has counted. *)
Seen(j) == IF j.wrote = Keep THEN product ELSE j.wrote
Applied(step, j) == IF step = "apply" THEN j.added \ {Head(j.todo)} ELSE j.added

(* A request locks what it writes. *)
Locked(step, j) ==
    /\ j.added # {} => j.lock # "none"
    /\ Applied(step, j) # {} => j.lock = "all" /\ j.wrote # Keep
    /\ j.wrote # Keep => j.lock \in {"write", "all"}
    /\ j.wrote = None => j.lock = "all" /\ j.op = "delete"
    /\ step = "apply" => Seen(j) # None
    /\ j.wrote = Keep /\ j.lock # "none" => product # None
    /\ j.added \cap bought = {}

Exact == mix.alone \/ (mix.ops = {"import"} /\ mix.known)
IsLast(l, set) == IF set = {} THEN l = 0 ELSE l \in set /\ \A m \in set : m <= l
Tells(r, set) ==
    /\ Exact => r.count = Cardinality(set) /\ IsLast(r.last, set)
    /\ mix.ops = {"import"} => r.count <= Cardinality(set) /\ r.text = "imported"
    /\ mix.alone => (r.image => r.id \in stored)

(* One at a time, what a request writes back is still as it read it, but   *)
(* for the text and the image.                                             *)
Unmoved(step, j) ==
    /\ step \in {"get", "update", "put"} =>
         /\ Seen(j) # None /\ j.seen.id = Seen(j).id
         /\ j.seen.count = Seen(j).count /\ j.seen.last = Seen(j).last
    /\ step \in {"get", "update"} => (j.seen.image => j.seen.id \in stored)
    /\ step = "update" => j.differs = L!Differing(Seen(j), j)
    /\ step = "insert" => (product = None \/ j.op = "create") /\ j.seen.count = 0 /\ j.seen.last = 0 /\ ~j.seen.image
    /\ j.op = "remove" =>
         /\ step \in {"get", "update", "commit", "unstore"}
         /\ step \in {"get", "update"} => ~j.seen.image
         /\ step \in {"commit", "unstore"} => Seen(j) # None /\ ~Seen(j).image
    /\ j.op = "delete" =>
         /\ step \in {"drop", "commit", "unstore"}
         /\ step = "drop" => product = j.seen
         /\ step = "commit" => j.wrote = None
         /\ step = "unstore" => product = None
    /\ step = "unstore" => j.op \in {"remove", "delete"}

Importing(step, j) ==
    /\ step \in {"idle", "find", "insert", "update", "buy", "apply", "commit"}
    /\ step \in {"insert", "update"} => ~mix.known /\ j.seen.count = 0 /\ j.seen.text = "imported"

Serves(step, j) ==
    /\ IsEdit(j) /\ Editing(step, j) /\ Locked(step, j)
    /\ j.wrote \notin {Keep, None} => Tells(j.wrote, bought \cup Applied(step, j))
    /\ mix.alone => Unmoved(step, j)
    /\ mix.ops = {"import"} => Importing(step, j)

(* Locks and purchases of two requests. *)
Compatible(j, k) ==
    /\ j.lock = "all" => k.lock = "none"
    /\ j.lock = "write" => k.lock \in {"none", "share"}
    /\ j.added \cap k.added = {}

LibraryTyped ==
    /\ mix \in LibraryMixes /\ (mix.alone \/ mix.ops = {"import"})
    /\ product \in L!Rows \cup {None}
    /\ bought \subseteq Lines /\ IsFiniteSet(bought) /\ stored \subseteq 1..MaxMade /\ made \in 0..MaxMade
    /\ pc \in [Slots -> LibrarySteps] /\ job = [s \in Slots |-> job[s]]

Shelf ==
    /\ IF product = None THEN bought = {} ELSE Tells(product, bought)
    /\ mix.ops = {"import"} /\ mix.known => product # None

Excluding == \A s, t \in Slots : s # t => Compatible(job[s], job[t])
OneEdits  == \A s, t \in Slots : mix.alone /\ s # t => pc[s] = "idle" \/ pc[t] = "idle"

LibraryInv ==
    /\ LibraryTyped /\ Shelf /\ Excluding /\ OneEdits
    /\ \A s \in Slots : Serves(pc[s], job[s])


--------------------------------------------------------------------------------
LEMMA LibraryFacts ==
    /\ None \notin L!Rows /\ Keep \notin L!Rows /\ None # Keep /\ None \notin {"imported", "typed"}
    /\ Lines \subseteq Nat \ {0} /\ MaxMade \in Nat \ {0}
    /\ \A m \in LibraryMixes : m.alone \in BOOLEAN /\ m.known \in BOOLEAN
    /\ \A set : L!Cardinality(set) = Cardinality(set)
  BY LibraryConstants DEF L!Constants, L!Cardinality, Cardinality, L!IsFiniteSet, IsFiniteSet

LEMMA IdleServes ==
    /\ IsEdit(L!Idle) /\ L!Idle.wrote = Keep /\ L!Idle.lock = "none" /\ L!Idle.added = {} /\ L!Idle.op = "none"
    /\ LibraryTyped => Serves("idle", L!Idle)
  <1>1. /\ IsEdit(L!Idle) /\ L!Idle.wrote = Keep /\ L!Idle.lock = "none" /\ L!Idle.added = {} /\ L!Idle.op = "none"
    BY FS_EmptySet DEF L!Idle, IsEdit
  <1>2. Editing("idle", L!Idle) /\ Locked("idle", L!Idle) /\ Unmoved("idle", L!Idle) /\ Importing("idle", L!Idle)
    BY <1>1, LibraryFacts DEF Editing, Locked, Applied, Unmoved, Importing
  <1> QED
    BY <1>1, <1>2 DEF Serves

(* The lines of an import, one after the other. *)
LEMMA LineSteps ==
    ASSUME NEW j, IsEdit(j), j.todo # <<>>
    PROVE  /\ Head(j.todo) \in j.all /\ Head(j.todo) \in Lines
           /\ Tail(j.todo) \in L!Seqs \cup {<<>>}
           /\ \A i \in DOMAIN Tail(j.todo) : Tail(j.todo)[i] \in j.all
           /\ Len(j.todo) # 1 => Tail(j.todo) # <<>>
  <1>1. j.todo \in L!Seqs
    BY DEF IsEdit
  <1>2. CASE \E l \in Lines : j.todo = <<l>>
    <2>1. PICK l \in Lines : j.todo = <<l>>
      BY <1>2
    <2>2. j.todo[1] \in j.all
      BY <2>1 DEF IsEdit
    <2> QED
      BY <2>1, <2>2
  <1>3. CASE \E l \in Lines, m \in Lines : j.todo = <<l, m>>
    <2>1. PICK l \in Lines, m \in Lines : j.todo = <<l, m>>
      BY <1>3
    <2>2. j.todo[1] \in j.all /\ j.todo[2] \in j.all
      BY <2>1 DEF IsEdit
    <2>3. Tail(j.todo) = <<m>> /\ Head(j.todo) = l /\ <<m>> \in L!Seqs
      BY <2>1 DEF L!Seqs
    <2> QED
      BY <2>1, <2>2, <2>3
  <1> QED
    BY <1>1, <1>2, <1>3 DEF L!Seqs

(* One more purchase. *)
LEMMA OneMore ==
    ASSUME NEW set, IsFiniteSet(set), set \subseteq Lines, NEW line \in Lines \ set, NEW r \in L!Rows
    PROVE  /\ L!WithPurchase(r, line) \in L!Rows
           /\ L!WithPurchase(r, line).id = r.id /\ L!WithPurchase(r, line).text = r.text
           /\ L!WithPurchase(r, line).image = r.image
           /\ r.count = Cardinality(set) => L!WithPurchase(r, line).count = Cardinality(set \cup {line})
           /\ r.count <= Cardinality(set) => L!WithPurchase(r, line).count <= Cardinality(set \cup {line})
           /\ IsLast(r.last, set) => IsLast(L!WithPurchase(r, line).last, set \cup {line})
  <1>1. Cardinality(set) \in Nat /\ Cardinality(set \cup {line}) = Cardinality(set) + 1
    BY FS_AddElement, FS_CardinalityType
  <1>2. PICK w : w = L!WithPurchase(r, line)
    OBVIOUS
  <1>3. line \in Nat \ {0} /\ set \subseteq Nat
    BY LibraryFacts
  <1>4. /\ w = [r EXCEPT !.count = r.count + 1, !.last = IF line > r.last THEN line ELSE r.last]
        /\ r = [id |-> r.id, text |-> r.text, image |-> r.image, count |-> r.count, last |-> r.last]
        /\ r.count \in Nat /\ r.last \in Nat
    BY <1>2 DEF L!WithPurchase, L!Rows
  <1>5. w = [id |-> r.id, text |-> r.text, image |-> r.image, count |-> r.count + 1,
             last |-> IF line > r.last THEN line ELSE r.last]
    BY <1>4
  <1>6. w \in L!Rows
    <2>1. /\ r.id \in 1..MaxMade /\ r.text \in {None, "imported", "typed"} /\ r.image \in BOOLEAN
          /\ r.count + 1 \in Nat
      BY <1>4 DEF L!Rows
    <2>2. PICK last : last = IF line > r.last THEN line ELSE r.last
      OBVIOUS
    <2>3. last \in Nat
      BY <1>3, <1>4, <2>2
    <2>4. w = [id |-> r.id, text |-> r.text, image |-> r.image, count |-> r.count + 1, last |-> last]
      BY <1>5, <2>2
    <2> QED
      BY <2>1, <2>3, <2>4 DEF L!Rows
  <1>7. IsLast(r.last, set) => IsLast(w.last, set \cup {line})
    BY <1>3, <1>4, <1>5 DEF IsLast
  <1> QED
    BY <1>1, <1>2, <1>4, <1>5, <1>6, <1>7

(* What a request sees has the totals of what is committed and of what it  *)
(* has counted.                                                            *)
LEMMA SeenTells ==
    ASSUME LibraryInv, NEW s \in Slots, Seen(job[s]) # None
    PROVE  Seen(job[s]) \in L!Rows /\ Tells(Seen(job[s]), bought \cup Applied(pc[s], job[s]))
  <1>1. Serves(pc[s], job[s]) /\ Shelf /\ LibraryTyped
    BY DEF LibraryInv
  <1>2. CASE job[s].wrote = Keep
    <2>1. Applied(pc[s], job[s]) = {} /\ Seen(job[s]) = product
      BY <1>1, <1>2 DEF Serves, Locked, Seen
    <2> QED
      BY <1>1, <2>1 DEF Shelf, LibraryTyped
  <1>3. CASE job[s].wrote # Keep
    BY <1>1, <1>3 DEF Serves, Seen, IsEdit
  <1> QED
    BY <1>2, <1>3

(* What a request is depends on its step, its data and the tables. *)
LEMMA ServesThen ==
    ASSUME NEW t \in Slots, NEW at, NEW m, pc'[t] = at, job'[t] = m, Serves(at, m)'
    PROVE  Serves(pc[t], job[t])'
  BY DEF Serves, Editing, Locked, Applied, Seen, Tells, Exact, Unmoved, Importing

LEMMA ServesOn ==
    ASSUME NEW at, NEW m, UNCHANGED <<mix, product, bought, stored>>, Serves(at, m)
    PROVE  Serves(at, m)'
  <1>1. Editing(at, m)' /\ Locked(at, m)'
    BY DEF Serves, Editing, Locked, Applied, Seen
  <1>2. mix.alone => Unmoved(at, m)'
    BY DEF Serves, Unmoved, Seen
  <1>3. mix.ops = {"import"} => Importing(at, m)'
    BY DEF Serves, Importing
  <1>4. m.wrote \notin {Keep, None} => Tells(m.wrote, bought \cup Applied(at, m))'
    BY DEF Serves, Tells, Exact, Applied
  <1> QED
    BY <1>1, <1>2, <1>3, <1>4 DEF Serves

(* A step that commits nothing. *)
LEMMA LibraryGoes ==
    ASSUME LibraryInv, NEW s \in Slots, NEW step \in LibrarySteps, NEW j, L!Go(s, step, j),
           UNCHANGED <<mix, product, bought>>, made' \in 0..MaxMade,
           stored \subseteq stored', stored' \subseteq 1..MaxMade,
           Serves(step, j)',
           \A t \in Slots \ {s} : Compatible(j, job[t]) /\ Compatible(job[t], j),
           mix.alone => pc[s] # "idle" \/ step = "idle" \/ \A t \in Slots : pc[t] = "idle"
    PROVE  LibraryInv'
  <1>1. /\ pc' \in [Slots -> LibrarySteps] /\ job' = [t \in Slots |-> job'[t]]
        /\ pc'[s] = step /\ job'[s] = j /\ \A t \in Slots \ {s} : pc'[t] = pc[t] /\ job'[t] = job[t]
    BY DEF LibraryInv, LibraryTyped, L!Go
  <1>2. LibraryTyped'
    BY <1>1 DEF LibraryInv, LibraryTyped
  <1>3. Shelf'
    BY DEF LibraryInv, Shelf, Tells, Exact
  <1>4. Excluding'
    BY <1>1 DEF LibraryInv, Excluding
  <1>5. OneEdits'
    BY <1>1 DEF LibraryInv, OneEdits
  <1>6. ASSUME NEW t \in Slots PROVE Serves(pc[t], job[t])'
    <2>1. CASE t = s
      BY <1>1, <2>1, ServesThen
    <2>2. CASE t # s
      <3>1. Serves(pc[t], job[t]) /\ pc'[t] = pc[t] /\ job'[t] = job[t]
        BY <1>1, <2>2 DEF LibraryInv
      <3>2. Editing(pc[t], job[t])' /\ Locked(pc[t], job[t])'
        BY <3>1 DEF Serves, Editing, Locked, Applied, Seen
      <3>3. mix.alone => Unmoved(pc[t], job[t])'
        BY <3>1 DEF Serves, Unmoved, Seen
      <3>4. mix.ops = {"import"} => Importing(pc[t], job[t])'
        BY <3>1 DEF Serves, Importing
      <3>5. job[t].wrote \notin {Keep, None} => Tells(job[t].wrote, bought \cup Applied(pc[t], job[t]))'
        BY <3>1 DEF Serves, Tells, Exact, Applied
      <3> QED
        BY <3>1, <3>2, <3>3, <3>4, <3>5 DEF Serves
    <2> QED
      BY <2>1, <2>2
  <1> QED
    BY <1>2, <1>3, <1>4, <1>5, <1>6 DEF LibraryInv

(* The same, of what is not primed. *)
LEMMA LibraryStays ==
    ASSUME LibraryInv, NEW s \in Slots, NEW step \in LibrarySteps, NEW j, L!Go(s, step, j),
           UNCHANGED <<mix, product, bought, stored>>, made' \in 0..MaxMade, Serves(step, j),
           \A t \in Slots \ {s} : Compatible(j, job[t]) /\ Compatible(job[t], j),
           mix.alone => pc[s] # "idle" \/ step = "idle" \/ \A t \in Slots : pc[t] = "idle"
    PROVE  LibraryInv'
  <1>1. Serves(step, j)'
    BY ServesOn
  <1> QED
    BY <1>1, LibraryGoes DEF LibraryInv, LibraryTyped

(* A request that keeps its locks and purchases. *)
LEMMA LibrarySame ==
    ASSUME LibraryInv, NEW s \in Slots, NEW j, j.lock = job[s].lock, j.added = job[s].added
    PROVE  \A t \in Slots \ {s} : Compatible(j, job[t]) /\ Compatible(job[t], j)
  BY DEF LibraryInv, Excluding, Compatible

LEMMA LibraryLeaves == ASSUME LibraryInv, NEW s \in Slots, L!Leave(s) PROVE LibraryInv'
  <1>1. \A t \in Slots \ {s} : Compatible(L!Idle, job[t]) /\ Compatible(job[t], L!Idle)
    BY IdleServes DEF Compatible, LibraryInv, Serves, IsEdit
  <1>2. PICK k : k = L!Idle
    OBVIOUS
  <1>3. Serves("idle", k) /\ L!Go(s, "idle", k)
    BY <1>2, IdleServes DEF LibraryInv, L!Leave, L!Done
  <1>4. UNCHANGED <<mix, product, bought, stored, made>> /\ made \in 0..MaxMade
    BY DEF L!Leave, L!tables, LibraryInv, LibraryTyped
  <1> QED
    BY <1>1, <1>2, <1>3, <1>4, LibraryStays DEF LibrarySteps

LEMMA LibraryInit == ASSUME InTurn, Init, part = "library" PROVE LibraryInv
  <1>1. L!Init
    BY DEF Init
  <1>2. pc = [s \in Slots |-> "idle"] /\ job = [s \in Slots |-> L!Idle] /\ mix \in LibraryMixes
    BY <1>1 DEF L!Init
  <1>3. bought = {} /\ stored = {} /\ IsFiniteSet({}) /\ Cardinality({}) = 0
    BY <1>1, FS_EmptySet DEF L!Init
  <1>4. PICK r : r = [id |-> 1, text |-> "imported", image |-> FALSE, count |-> 0, last |-> 0]
    OBVIOUS
  <1>5. r \in L!Rows /\ made \in 0..MaxMade /\ product = (IF mix.known THEN r ELSE None)
    BY <1>1, <1>4, LibraryFacts DEF L!Init, L!Row, L!Rows
  <1>6. mix.alone \/ mix.ops = {"import"}
    BY <1>2 DEF InTurn, Doubling, Shelving
  <1>7. LibraryTyped
    BY <1>2, <1>3, <1>5, <1>6 DEF LibraryTyped, LibrarySteps
  <1>8. Shelf
    <2>1. Tells(r, bought)
      BY <1>3, <1>4 DEF Tells, IsLast
    <2> QED
      BY <1>3, <1>5, <2>1, LibraryFacts DEF Shelf
  <1>9. Excluding /\ OneEdits
    BY <1>2, IdleServes DEF Excluding, OneEdits, Compatible
  <1> QED
    BY <1>2, <1>7, <1>8, <1>9, IdleServes DEF LibraryInv


(* A request that begins has written nothing and locked nothing. *)
LEMMA LibraryBegins ==
    ASSUME LibraryInv, NEW s \in Slots, NEW op, L!Begin(s, op), made' \in 0..MaxMade,
           NEW step \in LibrarySteps \ {"idle", "apply"}, NEW k, L!Go(s, step, k),
           IsEdit(k), k.wrote = Keep, k.lock = "none", k.added = {}, Editing(step, k),
           mix.alone => Unmoved(step, k), mix.ops = {"import"} => Importing(step, k)
    PROVE  LibraryInv'
  <1>1. /\ UNCHANGED <<mix, product, bought, stored>>
        /\ mix.alone => \A t \in Slots : pc[t] = "idle"
    BY DEF L!Begin
  <1>2. Locked(step, k)
    BY LibraryFacts DEF Locked, Applied
  <1>3. Serves(step, k)
    BY <1>2 DEF Serves
  <1>4. \A t \in Slots \ {s} : Compatible(k, job[t]) /\ Compatible(job[t], k)
    BY DEF Compatible, LibraryInv, Serves, IsEdit
  <1> QED
    BY <1>1, <1>3, <1>4, LibraryStays

LEMMA LibraryImport == ASSUME LibraryInv, NEW s \in Slots, L!Import(s) PROVE LibraryInv'
  <1>1. PICK q \in L!Seqs : L!Go(s, "find", [L!Idle EXCEPT !.op = "import", !.todo = q, !.all = {q[i] : i \in DOMAIN q}])
    BY DEF L!Import
  <1>2. PICK all : all = {q[i] : i \in DOMAIN q}
    OBVIOUS
  <1>3. PICK k : k = [L!Idle EXCEPT !.op = "import", !.todo = q, !.all = all]
    OBVIOUS
  <1>4. k = [op |-> "import", all |-> all, todo |-> q, seen |-> None, differs |-> {}, wrote |-> Keep,
             added |-> {}, lock |-> "none"]
    BY <1>3 DEF L!Idle
  <1>5. q # <<>> /\ all \subseteq Lines /\ \A i \in DOMAIN q : q[i] \in all
    BY <1>2 DEF L!Seqs
  <1>6. IsEdit(k)
    BY <1>4, <1>5, FS_EmptySet DEF IsEdit
  <1>7. Editing("find", k) /\ Unmoved("find", k) /\ Importing("find", k)
    BY <1>4, <1>5, LibraryFacts DEF Editing, Unmoved, Importing, L!Import, L!Begin
  <1>8. L!Begin(s, "import") /\ made' \in 0..MaxMade /\ L!Go(s, "find", k)
    BY <1>1, <1>2, <1>3 DEF L!Import, LibraryInv, LibraryTyped
  <1> QED
    BY <1>4, <1>6, <1>7, <1>8, LibraryBegins DEF LibrarySteps

LEMMA LibraryCreate == ASSUME LibraryInv, NEW s \in Slots, L!CreateProduct(s) PROVE LibraryInv'
  <1>1. PICK r : r = [id |-> made + 1, text |-> None, image |-> FALSE, count |-> 0, last |-> 0]
    OBVIOUS
  <1>2. made \in 0..MaxMade /\ made < MaxMade /\ made' = made + 1 /\ L!Begin(s, "create") /\ "create" \in mix.ops
    BY DEF L!CreateProduct, L!Begin, LibraryInv, LibraryTyped
  <1>3. r \in L!Rows /\ r # None
    <2>1. made + 1 \in 1..MaxMade
      BY <1>2, LibraryFacts
    <2>2. r \in L!Rows
      BY <1>1, <2>1 DEF L!Rows
    <2> QED
      BY <2>2, LibraryFacts
  <1>4. PICK j : j = [L!Idle EXCEPT !.op = "create", !.seen = r]
    OBVIOUS
  <1>5. PICK k : k = j /\ k = [op |-> "create", all |-> {}, todo |-> <<>>, seen |-> r, differs |-> {}, wrote |-> Keep,
                      added |-> {}, lock |-> "none"]
    BY <1>4 DEF L!Idle
  <1>6. L!Go(s, "insert", k)
    BY <1>1, <1>4, <1>5 DEF L!CreateProduct, L!Row
  <1>7. IsEdit(k)
    BY <1>3, <1>5, FS_EmptySet DEF IsEdit
  <1>8. Editing("insert", k) /\ Unmoved("insert", k) /\ (mix.ops = {"import"} => Importing("insert", k))
    BY <1>1, <1>2, <1>3, <1>5, LibraryFacts DEF Editing, Unmoved, Importing
  <1>9. made' \in 0..MaxMade
    BY <1>2, LibraryFacts
  <1> QED
    BY <1>2, <1>5, <1>6, <1>7, <1>8, <1>9, LibraryBegins DEF LibrarySteps

(* What a request other than an import means to write back. *)
LEMMA LibraryChange ==
    ASSUME LibraryInv, NEW s \in Slots, product # None, NEW r \in L!Rows,
           NEW op \in {"edit", "upload", "fetch", "remove", "delete"}, NEW step, L!Change(s, op, step, r),
           r.id = product.id, r.count = product.count, r.last = product.last,
           \/ step = "get" /\ op = "edit" /\ r.image = product.image
           \/ step = "get" /\ op = "remove" /\ ~r.image
           \/ step = "put" /\ op \in {"upload", "fetch"}
           \/ step = "drop" /\ op = "delete" /\ product = r
    PROVE  LibraryInv'
  <1>1. /\ L!Begin(s, op) /\ op \in mix.ops /\ mix.alone /\ mix.ops # {"import"}
        /\ made' \in 0..MaxMade
    BY DEF L!Change, L!Begin, LibraryInv, LibraryTyped
  <1>2. PICK k : k = [L!Idle EXCEPT !.op = op, !.seen = r]
    OBVIOUS
  <1>3. k = [op |-> op, all |-> {}, todo |-> <<>>, seen |-> r, differs |-> {}, wrote |-> Keep,
             added |-> {}, lock |-> "none"]
    BY <1>2 DEF L!Idle
  <1>4. L!Go(s, step, k)
    BY <1>2 DEF L!Change
  <1>5. IsEdit(k)
    BY <1>3, FS_EmptySet DEF IsEdit
  <1>6. Editing(step, k)
    BY <1>1, <1>3, LibraryFacts DEF Editing
  <1>7. product.image => product.id \in stored
    BY <1>1 DEF LibraryInv, Shelf, Tells
  <1>8. Seen(k) = product
    BY <1>3 DEF Seen
  <1>9. Unmoved(step, k)
    BY <1>3, <1>7, <1>8 DEF Unmoved
  <1> QED
    BY <1>1, <1>3, <1>4, <1>5, <1>6, <1>9, LibraryBegins DEF LibrarySteps

LEMMA LibraryRequests ==
    ASSUME LibraryInv, NEW s \in Slots,
           L!UpdateProduct(s) \/ L!UploadImage(s) \/ L!FetchImage(s) \/ L!RemoveImage(s) \/ L!DeleteProduct(s)
    PROVE  LibraryInv'
  <1>1. product # None /\ product \in L!Rows
    BY DEF L!UpdateProduct, L!UploadImage, L!FetchImage, L!RemoveImage, L!DeleteProduct, LibraryInv, LibraryTyped
  <1>2. CASE L!UpdateProduct(s)
    <2>1. PICK text \in {None, "typed"} : L!Change(s, "edit", "get", [product EXCEPT !.text = text])
      BY <1>2 DEF L!UpdateProduct
    <2>2. PICK r : r = [product EXCEPT !.text = text]
      OBVIOUS
    <2>3. r \in L!Rows /\ r.id = product.id /\ r.count = product.count /\ r.last = product.last /\ r.image = product.image
      BY <1>1, <2>2 DEF L!Rows
    <2>4. L!Change(s, "edit", "get", r)
      BY <2>1, <2>2
    <2> QED
      BY <1>1, <2>3, <2>4, LibraryChange
  <1>3. CASE L!UploadImage(s) \/ L!FetchImage(s)
    <2>1. PICK r : r = [product EXCEPT !.image = TRUE]
      OBVIOUS
    <2>2. r \in L!Rows /\ r.id = product.id /\ r.count = product.count /\ r.last = product.last
      BY <1>1, <2>1 DEF L!Rows
    <2>3. L!Change(s, "upload", "put", r) \/ L!Change(s, "fetch", "put", r)
      BY <1>3, <2>1 DEF L!UploadImage, L!FetchImage
    <2> QED
      BY <1>1, <2>2, <2>3, LibraryChange
  <1>4. CASE L!RemoveImage(s)
    <2>1. PICK r : r = [product EXCEPT !.image = FALSE]
      OBVIOUS
    <2>2. r \in L!Rows /\ r.id = product.id /\ r.count = product.count /\ r.last = product.last /\ ~r.image
      BY <1>1, <2>1 DEF L!Rows
    <2>3. L!Change(s, "remove", "get", r)
      BY <1>4, <2>1 DEF L!RemoveImage
    <2> QED
      BY <1>1, <2>2, <2>3, LibraryChange
  <1>5. CASE L!DeleteProduct(s)
    <2>1. PICK r : r = product
      OBVIOUS
    <2>2. L!Change(s, "delete", "drop", r)
      BY <1>5, <2>1 DEF L!DeleteProduct
    <2> QED
      BY <1>1, <2>1, <2>2, LibraryChange
  <1> QED
    BY <1>2, <1>3, <1>4, <1>5

(* What a request that is served is. *)
LEMMA LibraryServed ==
    ASSUME LibraryInv, NEW s \in Slots
    PROVE  /\ IsEdit(job[s]) /\ Editing(pc[s], job[s]) /\ Locked(pc[s], job[s])
           /\ job[s].wrote \notin {Keep, None} => Tells(job[s].wrote, bought \cup Applied(pc[s], job[s]))
           /\ mix.alone => Unmoved(pc[s], job[s])
           /\ mix.ops = {"import"} => Importing(pc[s], job[s])
           /\ L!Current(s) = Seen(job[s])
           /\ product \in L!Rows \cup {None} /\ made \in 0..MaxMade
           /\ mix.alone \/ mix.ops = {"import"}
  BY DEF LibraryInv, LibraryTyped, Serves, L!Current, Seen


LEMMA LibraryFind == ASSUME LibraryInv, NEW s \in Slots, L!ImportFind(s) PROVE LibraryInv'
  <1>1. PICK j : j = job[s]
    OBVIOUS
  <1>2. /\ pc[s] = "find" /\ IsEdit(j) /\ Editing("find", j) /\ Locked("find", j) /\ L!Current(s) = Seen(j)
        /\ j.wrote \notin {Keep, None} => Tells(j.wrote, bought \cup Applied("find", j))
        /\ mix.alone \/ mix.ops = {"import"}
        /\ product \in L!Rows \cup {None} /\ made \in 0..MaxMade
        /\ UNCHANGED <<mix, product, bought, stored>>
    BY <1>1, LibraryServed DEF L!ImportFind
  <1>3. j = [op |-> j.op, all |-> j.all, todo |-> j.todo, seen |-> j.seen, differs |-> j.differs, wrote |-> j.wrote,
             added |-> j.added, lock |-> j.lock]
    BY <1>2 DEF IsEdit
  <1>4. j.op = "import" /\ j.todo # <<>> /\ j.wrote # None /\ j.op \in mix.ops
    BY <1>2 DEF Editing
  <1>5. CASE Seen(j) = None
    <2>1. product = None /\ j.wrote = Keep /\ made < MaxMade /\ made' = made + 1
      BY <1>2, <1>4, <1>5 DEF Seen, L!ImportFind
    <2>2. PICK r : r = L!Row(made + 1, "imported")
      OBVIOUS
    <2>3. r = [id |-> made + 1, text |-> "imported", image |-> FALSE, count |-> 0, last |-> 0]
      BY <2>2 DEF L!Row
    <2>4. made + 1 \in 1..MaxMade
      BY <1>2, <2>1, LibraryFacts
    <2>5. r \in L!Rows
      BY <2>3, <2>4 DEF L!Rows
    <2>6. PICK k : k = [j EXCEPT !.seen = r]
      OBVIOUS
    <2>7. k = [op |-> j.op, all |-> j.all, todo |-> j.todo, seen |-> r, differs |-> j.differs, wrote |-> j.wrote,
               added |-> j.added, lock |-> j.lock]
      BY <1>3, <2>6
    <2>8. L!Go(s, "insert", k)
      BY <1>1, <1>2, <1>5, <2>2, <2>6 DEF L!ImportFind
    <2>9. IsEdit(k)
      BY <1>2, <2>5, <2>7 DEF IsEdit
    <2>10. Editing("insert", k)
      BY <1>4, <2>1, <2>5, <2>7, LibraryFacts DEF Editing
    <2>11. Locked("insert", k)
      BY <1>2, <2>7 DEF Locked, Applied, Seen
    <2>12. Unmoved("insert", k) /\ ((mix.ops = {"import"}) => Importing("insert", k))
      BY <1>4, <2>1, <2>3, <2>7 DEF Unmoved, Importing, LibraryInv, Shelf, LibraryTyped
    <2>13. Serves("insert", k)
      BY <2>1, <2>7, <2>9, <2>10, <2>11, <2>12 DEF Serves
    <2> QED
      BY <1>1, <1>2, <2>1, <2>4, <2>7, <2>8, <2>13, LibrarySame, LibraryStays DEF LibrarySteps
  <1>6. CASE Seen(j) # None
    <2>1. PICK r : r = Seen(j)
      OBVIOUS
    <2>2. r \in L!Rows /\ Tells(r, bought \cup Applied("find", j))
      BY <1>1, <1>2, <1>6, <2>1, SeenTells
    <2>3. PICK more : more = L!WithEnrichment(r)
      OBVIOUS
    <2>4. PICK m : m = [r EXCEPT !.text = "imported"]
      OBVIOUS
    <2>5. m \in L!Rows /\ m.id = r.id /\ m.image = r.image /\ m.count = r.count /\ m.last = r.last
      BY <2>2, <2>4 DEF L!Rows
    <2>6. more \in L!Rows /\ more.id = r.id /\ more.image = r.image /\ more.count = r.count /\ more.last = r.last
      BY <2>2, <2>3, <2>4, <2>5 DEF L!WithEnrichment
    <2>7. mix.ops = {"import"} => more = r
      BY <2>2, <2>3, LibraryFacts DEF Tells, L!WithEnrichment
    <2>8. PICK k : k = [j EXCEPT !.seen = more]
      OBVIOUS
    <2>9. k = [op |-> j.op, all |-> j.all, todo |-> j.todo, seen |-> more, differs |-> j.differs, wrote |-> j.wrote,
               added |-> j.added, lock |-> j.lock]
      BY <1>3, <2>8
    <2>10. PICK step \in {"get", "buy"} : step = IF more # r THEN "get" ELSE "buy"
      OBVIOUS
    <2>11. L!Go(s, step, k) /\ made' = made
      BY <1>1, <1>2, <1>6, <2>1, <2>3, <2>8, <2>10 DEF L!ImportFind
    <2>12. IsEdit(k)
      BY <1>2, <2>6, <2>9 DEF IsEdit
    <2>13. Editing(step, k)
      BY <1>4, <2>6, <2>9, <2>10, LibraryFacts DEF Editing
    <2>14. Locked(step, k) /\ Applied(step, k) = Applied("find", j)
      BY <1>2, <2>9, <2>10 DEF Locked, Applied, Seen
    <2>15. Seen(k) = r
      BY <2>1, <2>9 DEF Seen
    <2>16. mix.alone => Unmoved(step, k)
      BY <1>4, <1>6, <2>1, <2>2, <2>6, <2>9, <2>10, <2>15 DEF Unmoved, Tells
    <2>17. mix.ops = {"import"} => Importing(step, k)
      BY <2>7, <2>10 DEF Importing
    <2>18. Serves(step, k)
      BY <1>2, <2>9, <2>12, <2>13, <2>14, <2>16, <2>17 DEF Serves
    <2> QED
      BY <1>1, <1>2, <2>9, <2>10, <2>11, <2>18, LibrarySame, LibraryStays DEF LibrarySteps
  <1> QED
    BY <1>5, <1>6

LEMMA LibraryPut == ASSUME LibraryInv, NEW s \in Slots, L!PutImage(s) PROVE LibraryInv'
  <1>1. PICK j : j = job[s]
    OBVIOUS
  <1>2. /\ pc[s] = "put" /\ IsEdit(j) /\ Editing("put", j) /\ Locked("put", j)
        /\ j.wrote \notin {Keep, None} => Tells(j.wrote, bought \cup Applied("put", j))
        /\ mix.alone => Unmoved("put", j)
        /\ mix.ops = {"import"} => Importing("put", j)
        /\ made \in 0..MaxMade /\ UNCHANGED <<mix, product, bought, made>>
        /\ stored' = stored \cup {j.seen.id} /\ stored \subseteq 1..MaxMade
        /\ L!Go(s, "get", j)
    BY <1>1, LibraryServed DEF L!PutImage, LibraryInv, LibraryTyped
  <1>3. j.op \in {"upload", "fetch"} /\ j.seen \in L!Rows /\ j.wrote # None
    BY <1>2 DEF Editing, IsEdit
  <1>4. stored' \subseteq 1..MaxMade /\ stored \subseteq stored' /\ j.seen.id \in stored'
    BY <1>2, <1>3 DEF L!Rows
  <1>5. Editing("get", j)' /\ Locked("get", j)'
    BY <1>2, <1>3 DEF Editing, Locked, Applied, Seen
  <1>6. j.wrote \notin {Keep, None} => Tells(j.wrote, bought \cup Applied("get", j))'
    BY <1>2, <1>4 DEF Tells, Exact, Applied
  <1>7. mix.alone => Unmoved("get", j)'
    BY <1>2, <1>3, <1>4 DEF Unmoved, Seen
  <1>8. mix.ops # {"import"}
    BY <1>2 DEF Importing
  <1>9. Serves("get", j)'
    BY <1>2, <1>5, <1>6, <1>7, <1>8 DEF Serves
  <1> QED
    BY <1>1, <1>2, <1>4, <1>9, LibrarySame, LibraryGoes DEF LibrarySteps


LEMMA LibraryGet == ASSUME LibraryInv, NEW s \in Slots, L!UpsertGet(s) PROVE LibraryInv'
  <1>1. PICK j : j = job[s]
    OBVIOUS
  <1>2. /\ pc[s] = "get" /\ IsEdit(j) /\ Editing("get", j) /\ Locked("get", j) /\ L!Current(s) = Seen(j)
        /\ j.wrote \notin {Keep, None} => Tells(j.wrote, bought \cup Applied("get", j))
        /\ mix.alone => Unmoved("get", j)
        /\ mix.ops = {"import"} => Importing("get", j)
        /\ mix.alone \/ mix.ops = {"import"}
        /\ made \in 0..MaxMade /\ UNCHANGED <<mix, product, bought, stored, made>>
    BY <1>1, LibraryServed DEF L!UpsertGet, L!tables
  <1>3. mix.alone /\ mix.ops # {"import"}
    BY <1>2 DEF Importing
  <1>4. Seen(j) # None /\ j.seen.id = Seen(j).id /\ (j.op = "import" <=> j.todo # <<>>) /\ j.seen # None /\ j.op # "delete"
    BY <1>2, <1>3 DEF Unmoved, Editing
  <1>5. CASE L!Differing(Seen(j), j) = {}
    <2>1. PICK step : step = L!Afterwards(s)
      OBVIOUS
    <2>2. step = (IF j.op = "import" THEN "buy" ELSE "commit") /\ L!Go(s, step, j)
      BY <1>1, <1>2, <1>4, <1>5, <2>1 DEF L!UpsertGet, L!Afterwards
    <2>3. Seen(j).image = j.seen.image
      BY <1>5 DEF L!Differing, L!Fields
    <2>4. Editing(step, j) /\ Locked(step, j)
      BY <1>2, <1>4, <2>2 DEF Editing, Locked, Applied
    <2>5. Unmoved(step, j)
      BY <1>2, <1>3, <1>4, <2>2, <2>3 DEF Unmoved
    <2>6. Serves(step, j)
      BY <1>2, <1>3, <2>2, <2>4, <2>5 DEF Serves, Applied
    <2> QED
      BY <1>1, <1>2, <2>2, <2>6, LibrarySame, LibraryStays DEF LibrarySteps
  <1>6. CASE L!Differing(Seen(j), j) # {}
    <2>1. PICK k : k = [j EXCEPT !.differs = L!Differing(Seen(j), j)]
      OBVIOUS
    <2>2. k = [op |-> j.op, all |-> j.all, todo |-> j.todo, seen |-> j.seen, differs |-> L!Differing(Seen(j), j),
               wrote |-> j.wrote, added |-> j.added, lock |-> j.lock]
      BY <1>2, <2>1 DEF IsEdit
    <2>3. L!Go(s, "update", k)
      BY <1>1, <1>2, <1>4, <1>6, <2>1 DEF L!UpsertGet
    <2>4. Seen(k) = Seen(j) /\ L!Differing(Seen(k), k) = k.differs /\ k.differs \subseteq L!Fields
      BY <2>2 DEF Seen, L!Differing
    <2>5. IsEdit(k)
      BY <1>2, <2>2, <2>4 DEF IsEdit
    <2>6. Editing("update", k) /\ Locked("update", k)
      BY <1>2, <2>2, <2>4 DEF Editing, Locked, Applied
    <2>7. Unmoved("update", k)
      BY <1>2, <1>3, <2>2, <2>4 DEF Unmoved
    <2>8. Serves("update", k)
      BY <1>2, <1>3, <2>2, <2>5, <2>6, <2>7 DEF Serves, Applied
    <2> QED
      BY <1>1, <1>2, <2>2, <2>3, <2>8, LibrarySame, LibraryStays DEF LibrarySteps
  <1> QED
    BY <1>5, <1>6

(* While nobody else has written a row that nobody has committed, nobody    *)
(* else holds a lock.                                                       *)
LEMMA LibraryInsert == ASSUME LibraryInv, NEW s \in Slots, L!UpsertInsert(s) PROVE LibraryInv'
  <1>1. PICK j : j = job[s]
    OBVIOUS
  <1>2. /\ pc[s] = "insert" /\ IsEdit(j) /\ Editing("insert", j) /\ Locked("insert", j)
        /\ mix.alone => Unmoved("insert", j)
        /\ mix.ops = {"import"} => Importing("insert", j)
        /\ mix.alone \/ mix.ops = {"import"}
        /\ made \in 0..MaxMade /\ UNCHANGED <<mix, product, bought, stored, made>>
        /\ product \in L!Rows \cup {None}
    BY <1>1, LibraryServed DEF L!UpsertInsert, L!tables
  <1>3. /\ (j.op = "import" <=> j.todo # <<>>) /\ j.wrote = Keep /\ j.op \in mix.ops
        /\ j.seen \in L!Rows /\ j.seen # None /\ j.seen # Keep
    BY <1>2, LibraryFacts DEF Editing, IsEdit
  <1>4. j = [op |-> j.op, all |-> j.all, todo |-> j.todo, seen |-> j.seen, differs |-> j.differs, wrote |-> j.wrote,
             added |-> j.added, lock |-> j.lock]
    BY <1>2 DEF IsEdit
  <1>5. CASE product = None
    <2>1. PICK k : k = [j EXCEPT !.wrote = j.seen, !.lock = "all"]
      OBVIOUS
    <2>2. k = [op |-> j.op, all |-> j.all, todo |-> j.todo, seen |-> j.seen, differs |-> j.differs, wrote |-> j.seen,
               added |-> j.added, lock |-> "all"]
      BY <1>4, <2>1
    <2>3. PICK step : step = L!Afterwards(s)
      OBVIOUS
    <2>4. step = (IF j.op = "import" THEN "buy" ELSE "commit") /\ L!Go(s, step, k)
      BY <1>1, <1>5, <2>1, <2>3 DEF L!UpsertInsert, L!Afterwards
    <2>5. j.added = {} /\ bought = {}
      BY <1>2, <1>3, <1>5 DEF Locked, LibraryInv, Shelf
    <2>6. ASSUME NEW t \in Slots \ {s} PROVE Compatible(k, job[t]) /\ Compatible(job[t], k)
      <3>1. ~L!Pending(t)
        BY <1>2 DEF L!UpsertInsert, L!Free, L!Others, L!Blocks
      <3>2. job[t].lock = "none"
        BY <1>5, <3>1, LibraryServed DEF L!Pending, Locked
      <3> QED
        BY <2>2, <2>5, <3>2 DEF Compatible
    <2>7. IsEdit(k)
      BY <1>2, <1>3, <2>2 DEF IsEdit
    <2>8. Editing(step, k)
      BY <1>2, <1>3, <2>2, <2>4 DEF Editing
    <2>9. Locked(step, k)
      BY <1>3, <2>2, <2>4, <2>5 DEF Locked, Applied
    <2>10. Tells(k.wrote, bought \cup Applied(step, k))
      <3>1. bought \cup Applied(step, k) = {} /\ Cardinality({}) = 0 /\ k.wrote = j.seen
        BY <2>2, <2>4, <2>5, FS_EmptySet DEF Applied
      <3>2. j.seen.count = 0
        BY <1>2 DEF Unmoved, Importing
      <3>3. mix.ops = {"import"} => j.seen.text = "imported" /\ ~mix.known
        BY <1>2 DEF Importing
      <3>4. mix.alone => j.seen.last = 0 /\ ~j.seen.image
        BY <1>2 DEF Unmoved
      <3>5. Exact => j.seen.last = 0
        BY <3>3, <3>4 DEF Exact
      <3>6. Tells(j.seen, {})
        BY <3>1, <3>2, <3>3, <3>4, <3>5 DEF Tells, IsLast
      <3> QED
        BY <3>1, <3>6
    <2>11. mix.alone => Unmoved(step, k)
      BY <1>2, <1>3, <2>2, <2>4 DEF Unmoved
    <2>12. mix.ops = {"import"} => Importing(step, k)
      BY <2>4 DEF Importing
    <2>13. Serves(step, k)
      BY <2>7, <2>8, <2>9, <2>10, <2>11, <2>12 DEF Serves
    <2> QED
      BY <1>2, <2>4, <2>6, <2>13, LibraryStays DEF LibrarySteps
  <1>6. CASE product # None /\ j.op = "create"
    BY <1>1, <1>2, <1>6, LibraryLeaves DEF L!UpsertInsert, L!Leave
  <1>7. CASE product # None /\ j.op # "create"
    <2>1. ~mix.alone /\ mix.ops = {"import"}
      BY <1>2, <1>7 DEF Unmoved
    <2>2. PICK r : r = [j.seen EXCEPT !.id = product.id]
      OBVIOUS
    <2>3. r \in L!Rows /\ r.count = j.seen.count /\ r.text = j.seen.text
      BY <1>2, <1>3, <1>7, <2>2 DEF L!Rows
    <2>4. PICK k : k = [j EXCEPT !.seen = r, !.differs = L!Differing(product, j)]
      OBVIOUS
    <2>5. k = [op |-> j.op, all |-> j.all, todo |-> j.todo, seen |-> r, differs |-> L!Differing(product, j),
               wrote |-> j.wrote, added |-> j.added, lock |-> j.lock]
      BY <1>4, <2>4
    <2>6. L!Go(s, "update", k)
      <3>1. L!Go(s, "update", [j EXCEPT !.seen.id = product.id, !.differs = L!Differing(product, j)])
        BY <1>1, <1>7 DEF L!UpsertInsert
      <3> QED
        BY <2>2, <2>4, <3>1
    <2>7. IsEdit(k)
      BY <1>2, <2>3, <2>5 DEF IsEdit, L!Differing
    <2>8. Editing("update", k) /\ Locked("update", k)
      BY <1>2, <1>3, <2>3, <2>5, LibraryFacts DEF Editing, Locked, Applied, Seen
    <2>9. Importing("update", k)
      BY <1>2, <2>1, <2>3, <2>5 DEF Importing
    <2>10. Serves("update", k)
      BY <1>3, <2>1, <2>5, <2>7, <2>8, <2>9 DEF Serves
    <2> QED
      BY <1>1, <1>2, <2>5, <2>6, <2>10, LibrarySame, LibraryStays DEF LibrarySteps
  <1> QED
    BY <1>5, <1>6, <1>7

(* The locks of others, while s holds the row for writing. *)
LEMMA LibraryUpdate == ASSUME LibraryInv, NEW s \in Slots, L!UpsertUpdate(s) PROVE LibraryInv'
  <1>1. PICK j : j = job[s]
    OBVIOUS
  <1>2. /\ pc[s] = "update" /\ IsEdit(j) /\ Editing("update", j) /\ Locked("update", j) /\ L!Current(s) = Seen(j)
        /\ mix.alone => Unmoved("update", j)
        /\ mix.ops = {"import"} => Importing("update", j)
        /\ mix.alone \/ mix.ops = {"import"}
        /\ made \in 0..MaxMade /\ UNCHANGED <<mix, product, bought, stored, made>>
    BY <1>1, LibraryServed DEF L!UpsertUpdate, L!tables
  <1>3. (j.op = "import" <=> j.todo # <<>>) /\ j.op \in mix.ops /\ j.seen \in L!Rows
    BY <1>2 DEF Editing, IsEdit
  <1>4. CASE Seen(j) = None \/ Seen(j).id # j.seen.id
    BY <1>1, <1>2, <1>4, LibraryLeaves DEF L!UpsertUpdate, L!Leave
  <1>5. CASE ~(Seen(j) = None \/ Seen(j).id # j.seen.id)
    <2>1. PICK r : r = Seen(j)
      OBVIOUS
    <2>2. r \in L!Rows /\ r # None /\ r.id = j.seen.id /\ Tells(r, bought \cup Applied("update", j))
      BY <1>1, <1>2, <1>5, <2>1, SeenTells
    <2>3. PICK w : w = [f \in L!Fields \cup {"id"} |-> IF f \in j.differs THEN j.seen[f] ELSE r[f]]
      OBVIOUS
    <2>4. /\ w.text \in {j.seen.text, r.text} /\ w.image \in {j.seen.image, r.image} /\ w.count \in {j.seen.count, r.count}
          /\ w.last \in {j.seen.last, r.last} /\ w.id = r.id
      BY <1>2, <2>3 DEF L!Fields, IsEdit
    <2>5. w \in L!Rows
      <3>1. w = [id |-> w.id, text |-> w.text, image |-> w.image, count |-> w.count, last |-> w.last]
        BY <2>3 DEF L!Fields
      <3>2. /\ w.id \in 1..MaxMade /\ w.text \in {None, "imported", "typed"} /\ w.image \in BOOLEAN
            /\ w.count \in Nat /\ w.last \in Nat
        BY <1>3, <2>2, <2>4 DEF L!Rows
      <3> QED
        BY <3>1, <3>2 DEF L!Rows
    <2>6. w # Keep /\ w # None
      BY <2>5, LibraryFacts
    <2>7. PICK lock : lock = L!Strongest(j.lock, "write")
      OBVIOUS
    <2>8. lock = IF j.lock = "all" THEN "all" ELSE "write"
      BY <2>7 DEF L!Strongest
    <2>9. PICK k : k = [j EXCEPT !.wrote = w, !.lock = lock]
      OBVIOUS
    <2>10. k = [op |-> j.op, all |-> j.all, todo |-> j.todo, seen |-> j.seen, differs |-> j.differs, wrote |-> w,
                added |-> j.added, lock |-> lock]
      BY <1>2, <2>9 DEF IsEdit
    <2>11. PICK step : step = L!Afterwards(s)
      OBVIOUS
    <2>12. step = (IF j.op = "import" THEN "buy" ELSE "commit") /\ L!Go(s, step, k)
      BY <1>1, <1>2, <1>5, <2>1, <2>3, <2>7, <2>9, <2>11 DEF L!UpsertUpdate, L!Afterwards
    <2>13. ASSUME NEW t \in Slots \ {s} PROVE Compatible(k, job[t]) /\ Compatible(job[t], k)
      <3>1. job[t].lock \notin {"write", "all"} /\ job[t].lock \in {"none", "share", "write", "all"}
        BY <1>2, LibraryServed DEF L!UpsertUpdate, L!Free, L!Others, L!Blocks, L!Against, IsEdit
      <3>2. Compatible(j, job[t]) /\ Compatible(job[t], j)
        BY <1>1 DEF LibraryInv, Excluding
      <3> QED
        BY <2>8, <2>10, <3>1, <3>2 DEF Compatible
    <2>14. IsEdit(k)
      BY <1>2, <2>5, <2>8, <2>10 DEF IsEdit
    <2>15. Editing(step, k)
      BY <1>2, <1>3, <2>6, <2>10, <2>12 DEF Editing
    <2>16. Locked(step, k) /\ Applied(step, k) = Applied("update", j)
      BY <1>2, <2>6, <2>8, <2>10, <2>12 DEF Locked, Applied
    <2>17. mix.alone => w.count = r.count /\ w.last = r.last /\ w.image = j.seen.image /\ (w.image => w.id \in stored)
      BY <1>2, <2>1, <2>2, <2>3, <2>4 DEF Unmoved, L!Differing, L!Fields
    <2>18. Tells(w, bought \cup Applied(step, k))
      <3>1. mix.ops = {"import"} => ~mix.known /\ j.seen.count = 0 /\ j.seen.text = "imported"
        BY <1>2 DEF Importing
      <3>2. mix.ops = {"import"} => r.count <= Cardinality(bought \cup Applied(step, k)) /\ r.text = "imported" /\ r.count \in Nat
        BY <2>2, <2>16 DEF Tells, L!Rows
      <3>3. mix.ops = {"import"} => w.count <= Cardinality(bought \cup Applied(step, k)) /\ w.text = "imported"
        <4>1. Cardinality(bought \cup Applied(step, k)) \in Nat
          <5>1. IsFiniteSet(bought) /\ IsFiniteSet(j.added)
            BY <1>2 DEF IsEdit, LibraryInv, LibraryTyped
          <5>2. Applied(step, k) = j.added
            BY <2>10, <2>12 DEF Applied
          <5> QED
            BY <5>1, <5>2, FS_Union, FS_CardinalityType
        <4> QED
          BY <2>4, <3>1, <3>2, <4>1
      <3> QED
        BY <2>2, <2>16, <2>17, <3>1, <3>3 DEF Tells, Exact
    <2>19. mix.alone => Unmoved(step, k)
      <3>1. Seen(k) = w
        BY <2>6, <2>10 DEF Seen
      <3> QED
        BY <1>2, <1>3, <2>6, <2>10, <2>12, <2>17, <3>1 DEF Unmoved
    <2>20. mix.ops = {"import"} => Importing(step, k)
      BY <2>12 DEF Importing
    <2>21. Serves(step, k)
      BY <2>10, <2>14, <2>15, <2>16, <2>18, <2>19, <2>20 DEF Serves
    <2> QED
      BY <1>2, <2>12, <2>13, <2>21, LibraryStays DEF LibrarySteps
  <1> QED
    BY <1>4, <1>5


LEMMA LibraryAdd == ASSUME LibraryInv, NEW s \in Slots, L!AddIfAbsent(s) PROVE LibraryInv'
  <1>1. PICK j : j = job[s]
    OBVIOUS
  <1>2. /\ pc[s] = "buy" /\ IsEdit(j) /\ Editing("buy", j) /\ Locked("buy", j) /\ L!Current(s) = Seen(j)
        /\ j.wrote \notin {Keep, None} => Tells(j.wrote, bought \cup Applied("buy", j))
        /\ mix.alone => Unmoved("buy", j)
        /\ made \in 0..MaxMade /\ UNCHANGED <<mix, product, bought, stored, made>>
    BY <1>1, LibraryServed DEF L!AddIfAbsent, L!tables
  <1>3. j.op = "import" /\ j.todo # <<>> /\ j.op \in mix.ops /\ j.seen # None /\ j.wrote # None
    BY <1>2 DEF Editing
  <1>4. j = [op |-> j.op, all |-> j.all, todo |-> j.todo, seen |-> j.seen, differs |-> j.differs, wrote |-> j.wrote,
             added |-> j.added, lock |-> j.lock]
    BY <1>2 DEF IsEdit
  <1>5. PICK line : line = Head(j.todo)
    OBVIOUS
  <1>6. line \in j.all /\ line \in Lines
    BY <1>2, <1>3, <1>5, LineSteps
  <1>7. CASE line \in bought \cup j.added \/ Seen(j) = None \/ Seen(j).id # j.seen.id
    <2>1. PICK todo : todo = Tail(j.todo)
      OBVIOUS
    <2>2. /\ todo \in L!Seqs \cup {<<>>} /\ \A i \in DOMAIN todo : todo[i] \in j.all
          /\ Len(j.todo) # 1 => todo # <<>>
      BY <1>2, <1>3, <2>1, LineSteps
    <2>3. PICK k : k = [j EXCEPT !.todo = todo]
      OBVIOUS
    <2>4. k = [op |-> j.op, all |-> j.all, todo |-> todo, seen |-> j.seen, differs |-> j.differs, wrote |-> j.wrote,
               added |-> j.added, lock |-> j.lock]
      BY <1>4, <2>3
    <2>5. PICK step \in {"commit", "find"} : step = L!AfterLine(j)
      BY DEF L!AfterLine
    <2>6. L!Go(s, step, k) /\ (step = "find" => todo # <<>>)
      BY <1>1, <1>2, <1>5, <1>7, <2>1, <2>2, <2>3, <2>5 DEF L!AddIfAbsent, L!NextLine, L!AfterLine
    <2>7. IsEdit(k)
      BY <1>2, <2>2, <2>4 DEF IsEdit
    <2>8. Editing(step, k)
      BY <1>2, <1>3, <2>4, <2>5, <2>6 DEF Editing
    <2>9. Locked(step, k) /\ Applied(step, k) = Applied("buy", j)
      BY <1>2, <2>4, <2>5 DEF Locked, Applied, Seen
    <2>10. Unmoved(step, k) /\ Importing(step, k)
      BY <1>3, <2>4, <2>5 DEF Unmoved, Importing
    <2>11. Serves(step, k)
      BY <1>2, <2>4, <2>7, <2>8, <2>9, <2>10 DEF Serves
    <2> QED
      BY <1>1, <1>2, <2>4, <2>5, <2>6, <2>11, LibrarySame, LibraryStays DEF LibrarySteps
  <1>8. CASE ~(line \in bought \cup j.added \/ Seen(j) = None \/ Seen(j).id # j.seen.id)
    <2>1. PICK lock : lock = L!Strongest(j.lock, "share")
      OBVIOUS
    <2>2. lock = IF j.lock \in {"all", "write"} THEN j.lock ELSE "share"
      BY <2>1 DEF L!Strongest
    <2>3. PICK added : added = j.added \cup {line}
      OBVIOUS
    <2>4. PICK k : k = [j EXCEPT !.added = added, !.lock = lock]
      OBVIOUS
    <2>5. k = [op |-> j.op, all |-> j.all, todo |-> j.todo, seen |-> j.seen, differs |-> j.differs, wrote |-> j.wrote,
               added |-> added, lock |-> lock]
      BY <1>4, <2>4
    <2>6. L!Go(s, "apply", k)
      BY <1>1, <1>2, <1>5, <1>8, <2>1, <2>3, <2>4 DEF L!AddIfAbsent
    <2>7. Applied("apply", k) = j.added /\ Applied("buy", j) = j.added
      BY <1>5, <1>8, <2>3, <2>5 DEF Applied
    <2>8. ASSUME NEW t \in Slots \ {s} PROVE Compatible(k, job[t]) /\ Compatible(job[t], k)
      <3>1. job[t].lock # "all" /\ line \notin job[t].added
        BY <1>1, <1>2, <1>3, <1>5 DEF L!AddIfAbsent, L!Free, L!Others, L!Blocks, L!Against
      <3>2. Compatible(j, job[t]) /\ Compatible(job[t], j)
        BY <1>1 DEF LibraryInv, Excluding
      <3> QED
        BY <2>2, <2>3, <2>5, <3>1, <3>2 DEF Compatible
    <2>9. IsEdit(k)
      <3>1. IsFiniteSet(added) /\ added \subseteq j.all
        BY <1>2, <1>6, <2>3, FS_AddElement DEF IsEdit
      <3> QED
        BY <1>2, <2>2, <2>5, <3>1 DEF IsEdit
    <2>10. Editing("apply", k)
      BY <1>2, <1>3, <1>5, <2>3, <2>5 DEF Editing
    <2>11. Seen(k) = Seen(j)
      BY <2>5 DEF Seen
    <2>12. Locked("apply", k)
      BY <1>2, <1>8, <2>2, <2>3, <2>5, <2>7, <2>11 DEF Locked, Seen
    <2>13. Unmoved("apply", k) /\ Importing("apply", k)
      BY <1>3, <2>5 DEF Unmoved, Importing
    <2>14. Serves("apply", k)
      BY <1>2, <2>5, <2>7, <2>9, <2>10, <2>12, <2>13 DEF Serves
    <2> QED
      BY <1>2, <2>6, <2>8, <2>14, LibraryStays DEF LibrarySteps
  <1> QED
    BY <1>7, <1>8

LEMMA LibraryApply == ASSUME LibraryInv, NEW s \in Slots, L!ApplyPurchase(s) PROVE LibraryInv'
  <1>1. PICK j : j = job[s]
    OBVIOUS
  <1>2. /\ pc[s] = "apply" /\ IsEdit(j) /\ Editing("apply", j) /\ Locked("apply", j) /\ L!Current(s) = Seen(j)
        /\ made \in 0..MaxMade /\ UNCHANGED <<mix, product, bought, stored, made>>
        /\ bought \subseteq Lines /\ IsFiniteSet(bought)
    BY <1>1, LibraryServed DEF L!ApplyPurchase, L!tables, LibraryInv, LibraryTyped
  <1>3. /\ j.op = "import" /\ j.todo # <<>> /\ j.op \in mix.ops /\ j.seen # None /\ Head(j.todo) \in j.added
        /\ Seen(j) # None
    BY <1>2 DEF Editing, Locked
  <1>4. PICK line : line = Head(j.todo)
    OBVIOUS
  <1>5. PICK r : r = Seen(j)
    OBVIOUS
  <1>6. PICK set : set = bought \cup (j.added \ {line})
    OBVIOUS
  <1>7. r \in L!Rows /\ Tells(r, set)
    BY <1>1, <1>2, <1>3, <1>4, <1>5, <1>6, SeenTells DEF Applied
  <1>8. IsFiniteSet(set) /\ set \subseteq Lines /\ line \in Lines \ set /\ set \cup {line} = bought \cup j.added
    <2>1. IsFiniteSet(j.added \ {line})
      BY <1>2, FS_Subset DEF IsEdit
    <2>2. IsFiniteSet(set)
      BY <1>2, <1>6, <2>1, FS_Union
    <2> QED
      BY <1>2, <1>3, <1>4, <1>6, <2>2, LineSteps DEF IsEdit, Locked
  <1>9. PICK w : w = L!WithPurchase(r, line)
    OBVIOUS
  <1>10. /\ w \in L!Rows /\ w.id = r.id /\ w.text = r.text /\ w.image = r.image
         /\ r.count = Cardinality(set) => w.count = Cardinality(set \cup {line})
         /\ r.count <= Cardinality(set) => w.count <= Cardinality(set \cup {line})
         /\ IsLast(r.last, set) => IsLast(w.last, set \cup {line})
    <2>1. set \subseteq Lines /\ IsFiniteSet(set) /\ line \in Lines \ set /\ r \in L!Rows
      BY <1>7, <1>8
    <2>2. /\ L!WithPurchase(r, line) \in L!Rows
          /\ L!WithPurchase(r, line).id = r.id /\ L!WithPurchase(r, line).text = r.text
          /\ L!WithPurchase(r, line).image = r.image
          /\ r.count = Cardinality(set) => L!WithPurchase(r, line).count = Cardinality(set \cup {line})
          /\ r.count <= Cardinality(set) => L!WithPurchase(r, line).count <= Cardinality(set \cup {line})
          /\ IsLast(r.last, set) => IsLast(L!WithPurchase(r, line).last, set \cup {line})
      BY <2>1, OneMore
    <2> QED
      BY <1>9, <2>2
  <1>11. Tells(w, set \cup {line})
    BY <1>7, <1>10 DEF Tells
  <1>12. w # Keep /\ w # None
    BY <1>10, LibraryFacts
  <1>13. PICK todo : todo = Tail(j.todo)
    OBVIOUS
  <1>14. /\ todo \in L!Seqs \cup {<<>>} /\ \A i \in DOMAIN todo : todo[i] \in j.all
         /\ Len(j.todo) # 1 => todo # <<>>
    BY <1>2, <1>3, <1>13, LineSteps
  <1>15. PICK k : k = [op |-> j.op, all |-> j.all, todo |-> todo, seen |-> j.seen, differs |-> j.differs, wrote |-> w,
                       added |-> j.added, lock |-> "all"]
    OBVIOUS
  <1>16. PICK step \in {"commit", "find"} : step = L!AfterLine(j)
    BY DEF L!AfterLine
  <1>17. L!Go(s, step, k) /\ (step = "find" => todo # <<>>)
    <2>1. PICK m : m = [j EXCEPT !.wrote = w, !.lock = "all"]
      OBVIOUS
    <2>2. m = [op |-> j.op, all |-> j.all, todo |-> j.todo, seen |-> j.seen, differs |-> j.differs, wrote |-> w,
               added |-> j.added, lock |-> "all"]
      BY <1>2, <2>1 DEF IsEdit
    <2>3. PICK n : n = L!NextLine(m)
      OBVIOUS
    <2>4. n = k
      <3>1. n = [m EXCEPT !.todo = Tail(m.todo)] /\ Tail(m.todo) = todo
        BY <1>13, <2>2, <2>3 DEF L!NextLine
      <3>2. n = [m EXCEPT !.todo = todo]
        BY <3>1
      <3> QED
        BY <1>15, <2>2, <3>2
    <2>5. L!Go(s, step, L!NextLine(m))
      BY <1>1, <1>2, <1>4, <1>5, <1>9, <1>16, <2>1 DEF L!ApplyPurchase
    <2> QED
      BY <1>14, <1>16, <2>3, <2>4, <2>5 DEF L!AfterLine
  <1>18. ASSUME NEW t \in Slots \ {s} PROVE Compatible(k, job[t]) /\ Compatible(job[t], k)
    <2>1. job[t].lock = "none"
      BY <1>2, LibraryServed DEF L!ApplyPurchase, L!Free, L!Others, L!Blocks, L!Against, IsEdit
    <2>2. Compatible(j, job[t]) /\ Compatible(job[t], j)
      BY <1>1 DEF LibraryInv, Excluding
    <2> QED
      BY <1>15, <2>1, <2>2 DEF Compatible
  <1>19. IsEdit(k)
    BY <1>2, <1>10, <1>14, <1>15 DEF IsEdit
  <1>20. Editing(step, k)
    BY <1>2, <1>3, <1>12, <1>15, <1>16, <1>17 DEF Editing
  <1>21. Locked(step, k) /\ Applied(step, k) = j.added
    BY <1>2, <1>12, <1>15, <1>16 DEF Locked, Applied
  <1>22. Unmoved(step, k) /\ Importing(step, k)
    BY <1>3, <1>15, <1>16 DEF Unmoved, Importing
  <1>23. Serves(step, k)
    BY <1>8, <1>11, <1>15, <1>19, <1>20, <1>21, <1>22 DEF Serves
  <1> QED
    BY <1>2, <1>16, <1>17, <1>18, <1>23, LibraryStays DEF LibrarySteps

LEMMA LibraryDrop == ASSUME LibraryInv, NEW s \in Slots, L!DropProduct(s) PROVE LibraryInv'
  <1>1. PICK j : j = job[s]
    OBVIOUS
  <1>2. /\ pc[s] = "drop" /\ IsEdit(j) /\ Editing("drop", j) /\ Locked("drop", j)
        /\ mix.alone => Unmoved("drop", j)
        /\ mix.ops = {"import"} => Importing("drop", j)
        /\ mix.alone \/ mix.ops = {"import"}
        /\ made \in 0..MaxMade /\ UNCHANGED <<mix, product, bought, stored, made>>
    BY <1>1, LibraryServed DEF L!DropProduct, L!tables
  <1>3. mix.alone /\ mix.ops # {"import"}
    BY <1>2 DEF Importing
  <1>4. j.op = "delete" /\ j.seen # None /\ product = j.seen /\ j.op \in mix.ops
    BY <1>2, <1>3 DEF Editing, Unmoved
  <1>5. PICK k : k = [j EXCEPT !.wrote = None, !.lock = "all"]
    OBVIOUS
  <1>6. k = [op |-> j.op, all |-> j.all, todo |-> j.todo, seen |-> j.seen, differs |-> j.differs, wrote |-> None,
             added |-> j.added, lock |-> "all"]
    BY <1>2, <1>5 DEF IsEdit
  <1>7. L!Go(s, "commit", k)
    BY <1>1, <1>4, <1>5 DEF L!DropProduct
  <1>8. ASSUME NEW t \in Slots \ {s} PROVE Compatible(k, job[t]) /\ Compatible(job[t], k)
    <2>1. job[t].lock = "none"
      BY <1>2, LibraryServed DEF L!DropProduct, L!Free, L!Others, L!Blocks, L!Against, IsEdit
    <2>2. Compatible(j, job[t]) /\ Compatible(job[t], j)
      BY <1>1 DEF LibraryInv, Excluding
    <2> QED
      BY <1>6, <2>1, <2>2 DEF Compatible
  <1>9. IsEdit(k)
    BY <1>2, <1>6 DEF IsEdit
  <1>10. Editing("commit", k) /\ Locked("commit", k) /\ Unmoved("commit", k)
    BY <1>2, <1>4, <1>6, LibraryFacts DEF Editing, Locked, Applied, Unmoved
  <1>11. Serves("commit", k)
    BY <1>3, <1>6, <1>9, <1>10 DEF Serves
  <1> QED
    BY <1>2, <1>7, <1>8, <1>11, LibraryStays DEF LibrarySteps


(* With nothing written and nothing counted a request commits nothing, and  *)
(* while one commits a row the others have written none.                    *)
LEMMA LibraryCommit == ASSUME LibraryInv, NEW s \in Slots, L!Commit(s) PROVE LibraryInv'
  <1>1. PICK j : j = job[s]
    OBVIOUS
  <1>2. /\ pc[s] = "commit" /\ IsEdit(j) /\ Editing("commit", j) /\ Locked("commit", j) /\ L!Current(s) = Seen(j)
        /\ mix.alone => Unmoved("commit", j)
        /\ mix.alone \/ mix.ops = {"import"}
        /\ UNCHANGED <<mix, stored, made>> /\ product' = Seen(j)
        /\ bought' = IF j.wrote = None THEN {} ELSE bought \cup j.added
    BY <1>1, LibraryServed DEF L!Commit
  <1>3. j.op \in mix.ops /\ j.seen # None
    BY <1>2 DEF Editing
  <1>4. PICK i : i = L!Idle
    OBVIOUS
  <1>5. PICK u : u = [i EXCEPT !.op = j.op, !.seen = j.seen]
    OBVIOUS
  <1>6. /\ i = [op |-> "none", all |-> {}, todo |-> <<>>, seen |-> None, differs |-> {}, wrote |-> Keep,
                added |-> {}, lock |-> "none"]
        /\ u = [op |-> j.op, all |-> {}, todo |-> <<>>, seen |-> j.seen, differs |-> {}, wrote |-> Keep,
                added |-> {}, lock |-> "none"]
    BY <1>4, <1>5 DEF L!Idle
  <1>7. \/ L!Go(s, "idle", i)
        \/ L!Go(s, "unstore", u) /\ j.op \in {"remove", "delete"}
    BY <1>1, <1>4, <1>5 DEF L!Commit, L!Done
  <1>8. PICK k :
           \/ L!Go(s, "idle", k) /\ k = i
           \/ L!Go(s, "unstore", k) /\ k = u /\ j.op \in {"remove", "delete"}
    BY <1>7
  <1>9. PICK step \in {"idle", "unstore"} :
           /\ L!Go(s, step, k)
           /\ \/ k = i /\ step = "idle"
              \/ k = u /\ step = "unstore" /\ j.op \in {"remove", "delete"}
    BY <1>8
  <1>10. /\ pc' \in [Slots -> LibrarySteps] /\ job' = [t \in Slots |-> job'[t]]
         /\ pc'[s] = step /\ job'[s] = k /\ \A t \in Slots \ {s} : pc'[t] = pc[t] /\ job'[t] = job[t]
    BY <1>9 DEF LibraryInv, LibraryTyped, L!Go, LibrarySteps
  <1>11. k.wrote = Keep /\ k.added = {} /\ k.lock = "none" /\ k.todo = <<>> /\ IsEdit(k)
    <2>1. IsEdit(i)
      BY <1>4, IdleServes
    <2>2. IsEdit(u)
      BY <1>2, <1>6, FS_EmptySet DEF IsEdit
    <2>3. k = i \/ k = u
      BY <1>9
    <2>4. CASE k = i
      BY <1>6, <2>1, <2>4
    <2>5. CASE k = u
      BY <1>6, <2>2, <2>5
    <2> QED
      BY <2>3, <2>4, <2>5
  <1>12. Applied("commit", j) = j.added
    BY DEF Applied
  <1>13. CASE j.wrote = Keep
    <2>1. product' = product /\ bought' = bought
      BY <1>2, <1>12, <1>13, LibraryFacts DEF Locked, Seen
    <2>2. \A t \in Slots \ {s} : Compatible(k, job[t]) /\ Compatible(job[t], k)
      BY <1>11, LibraryServed DEF Compatible, IsEdit
    <2>3. Editing(step, k)
      BY <1>3, <1>4, <1>6, <1>9, <1>11, LibraryFacts DEF Editing
    <2>4. Locked(step, k)
      BY <1>9, <1>11, LibraryFacts DEF Locked, Applied
    <2>5. mix.alone => Unmoved(step, k)
      BY <1>2, <1>6, <1>9, <1>11, <1>13, LibraryFacts DEF Unmoved, Seen
    <2>6. mix.ops = {"import"} => Importing(step, k)
      BY <1>3, <1>9 DEF Importing
    <2>7. Serves(step, k)
      BY <1>11, <2>3, <2>4, <2>5, <2>6 DEF Serves
    <2> QED
      BY <1>2, <1>9, <2>1, <2>2, <2>7, LibraryStays, LibraryServed DEF LibrarySteps
  <1>14. CASE j.wrote # Keep
    <2>1. product' = j.wrote /\ product' \in L!Rows \cup {None}
      BY <1>2, <1>14 DEF Seen, IsEdit
    <2>2. bought' \subseteq Lines /\ IsFiniteSet(bought')
      BY <1>2, FS_EmptySet, FS_Union DEF IsEdit, LibraryInv, LibraryTyped
    <2>3. LibraryTyped'
      BY <1>2, <1>10, <2>1, <2>2 DEF LibraryInv, LibraryTyped
    <2>4. mix.ops = {"import"} => j.wrote # None
      BY <1>2, <1>3 DEF Locked
    <2>5. j.wrote # None => Tells(j.wrote, bought \cup j.added)
      BY <1>1, <1>2, <1>12, <1>14, LibraryServed
    <2>6. Shelf'
      <3>1. j.wrote # None => Tells(product, bought)'
        BY <1>2, <2>1, <2>5 DEF Tells, Exact
      <3> QED
        BY <1>2, <2>1, <2>4, <3>1 DEF Shelf
    <2>7. \A t \in Slots : IsEdit(job'[t])
      BY <1>10, <1>11, LibraryServed
    <2>8. Excluding'
      <3>1. \A t \in Slots \ {s} : Compatible(k, job[t]) /\ Compatible(job[t], k)
        BY <1>11, LibraryServed DEF Compatible, IsEdit
      <3> QED
        BY <1>10, <3>1 DEF LibraryInv, Excluding
    <2>9. OneEdits'
      BY <1>2, <1>10 DEF LibraryInv, OneEdits
    <2>10. Serves(pc[s], job[s])'
      <3>1. Editing(pc[s], job[s])'
        BY <1>2, <1>3, <1>4, <1>6, <1>9, <1>10, <1>11, LibraryFacts DEF Editing
      <3>2. Locked(pc[s], job[s])'
        BY <1>9, <1>10, <1>11, LibraryFacts DEF Locked, Applied
      <3>3. mix.alone => Unmoved(pc[s], job[s])'
        BY <1>2, <1>6, <1>9, <1>10, <1>11, <2>1, LibraryFacts DEF Unmoved, Seen
      <3>4. mix.ops = {"import"} => Importing(pc[s], job[s])'
        BY <1>3, <1>9, <1>10 DEF Importing
      <3> QED
        BY <1>2, <1>10, <1>11, <2>7, <3>1, <3>2, <3>3, <3>4 DEF Serves
    <2>11. ASSUME NEW t \in Slots \ {s} PROVE Serves(pc[t], job[t])'
      <3>1. CASE mix.alone
        <4>1. pc[t] = "idle" /\ job[t] = i
          BY <1>2, <1>4, <3>1, LibraryServed DEF LibraryInv, OneEdits, Editing
        <4>2. Editing("idle", i)' /\ Locked("idle", i)' /\ Unmoved("idle", i)' /\ Importing("idle", i)'
          BY <1>4, <1>6, LibraryFacts DEF Editing, Locked, Applied, Unmoved, Importing
        <4> QED
          <5>1. Serves("idle", i)'
            BY <1>6, <2>7, <1>10, <4>1, <4>2 DEF Serves
          <5> QED
            BY <1>10, <4>1, <5>1, ServesThen
      <3>2. CASE ~mix.alone
        <4>1. PICK m : m = job[t]
          OBVIOUS
        <4>2. PICK at : at = pc[t]
          OBVIOUS
        <4>3. mix.ops = {"import"} /\ j.wrote # None /\ product' # None /\ bought' = bought \cup j.added
          BY <1>2, <2>1, <2>4, <3>2
        <4>4. Compatible(j, m) /\ j.lock \in {"write", "all"} /\ Editing(at, m) /\ Locked(at, m) /\ Importing(at, m)
          BY <1>1, <1>2, <1>14, <4>1, <4>2, <4>3, LibraryServed DEF LibraryInv, Excluding, Locked
        <4>5. m.wrote = Keep /\ Applied(at, m) = {}
          BY <4>4, LibraryFacts DEF Compatible, Locked
        <4>6. Editing(at, m)' /\ Importing(at, m)'
          BY <1>2, <1>4, <4>4 DEF Editing, Importing
        <4>7. Locked(at, m)'
          BY <4>3, <4>4, <4>5, LibraryFacts DEF Locked, Applied, Seen, Compatible
        <4>8. Serves(at, m)'
          BY <1>2, <1>10, <2>7, <3>2, <4>1, <4>5, <4>6, <4>7 DEF Serves
        <4> QED
          BY <1>10, <4>1, <4>2, <4>8, ServesThen
      <3> QED
        BY <3>1, <3>2
    <2> QED
      BY <2>3, <2>6, <2>8, <2>9, <2>10, <2>11 DEF LibraryInv
  <1> QED
    BY <1>13, <1>14

(* The image goes when the row no longer tells of it. *)
LEMMA LibraryDeleteImage == ASSUME LibraryInv, NEW s \in Slots, L!DeleteImage(s) PROVE LibraryInv'
  <1>1. PICK i : i = L!Idle
    OBVIOUS
  <1>2. /\ pc[s] = "unstore" /\ L!Go(s, "idle", i) /\ UNCHANGED <<mix, product, bought, made>>
        /\ stored' \subseteq stored
    BY <1>1 DEF L!DeleteImage, L!Done
  <1>3. mix.alone /\ mix.ops # {"import"} /\ Unmoved("unstore", job[s]) /\ job[s].wrote = Keep
    BY <1>2, LibraryServed DEF Importing, Editing
  <1>4. product # None => ~product.image
    BY <1>3 DEF Unmoved, Seen
  <1>5. /\ i = [op |-> "none", all |-> {}, todo |-> <<>>, seen |-> None, differs |-> {}, wrote |-> Keep,
                added |-> {}, lock |-> "none"]
        /\ IsEdit(i)
    BY <1>1, IdleServes DEF L!Idle
  <1>6. /\ pc' \in [Slots -> LibrarySteps] /\ job' = [t \in Slots |-> job'[t]]
        /\ pc'[s] = "idle" /\ job'[s] = i /\ \A t \in Slots \ {s} : pc'[t] = pc[t] /\ job'[t] = job[t]
    BY <1>2 DEF LibraryInv, LibraryTyped, L!Go, LibrarySteps
  <1>7. \A t \in Slots : pc'[t] = "idle" /\ job'[t] = i
    BY <1>1, <1>2, <1>3, <1>6, LibraryServed DEF LibraryInv, OneEdits, Editing
  <1>8. LibraryTyped'
    BY <1>2, <1>6 DEF LibraryInv, LibraryTyped
  <1>9. Shelf'
    BY <1>2, <1>4 DEF LibraryInv, Shelf, Tells, Exact
  <1>10. Excluding' /\ OneEdits'
    BY <1>5, <1>7 DEF Excluding, OneEdits, Compatible
  <1>11. ASSUME NEW t \in Slots PROVE Serves(pc[t], job[t])'
    <2>1. Editing("idle", i)' /\ Locked("idle", i)' /\ Unmoved("idle", i)' /\ Importing("idle", i)'
      BY <1>1, <1>5, LibraryFacts DEF Editing, Locked, Applied, Unmoved, Importing
    <2>2. Serves("idle", i)'
      BY <1>5, <2>1 DEF Serves
    <2> QED
      BY <1>7, <2>2, ServesThen
  <1> QED
    BY <1>8, <1>9, <1>10, <1>11 DEF LibraryInv

LEMMA LibraryNext == ASSUME LibraryInv, L!Next PROVE LibraryInv'
  BY LibraryImport, LibraryCreate, LibraryRequests, LibraryFind, LibraryPut, LibraryGet, LibraryInsert, LibraryUpdate,
     LibraryAdd, LibraryApply, LibraryDrop, LibraryCommit, LibraryDeleteImage, LibraryLeaves
     DEF L!Next, L!Killed, L!Victim

LEMMA LibraryStutter == ASSUME LibraryInv, UNCHANGED L!vars PROVE LibraryInv'
  <1>1. UNCHANGED <<mix, product, bought, stored, made, pc, job>>
    BY DEF L!vars
  <1>2. LibraryTyped' /\ Shelf' /\ Excluding' /\ OneEdits'
    BY <1>1 DEF LibraryInv, LibraryTyped, Shelf, Tells, Exact, Excluding, OneEdits
  <1>3. ASSUME NEW s \in Slots PROVE Serves(pc[s], job[s])'
    <2>1. PICK at, m : at = pc[s] /\ m = job[s]
      OBVIOUS
    <2>2. Serves(at, m)
      BY <2>1 DEF LibraryInv
    <2>3. Serves(at, m)' /\ pc'[s] = at /\ job'[s] = m
      BY <1>1, <2>1, <2>2, ServesOn
    <2> QED
      BY <2>3, ServesThen
  <1> QED
    BY <1>2, <1>3 DEF LibraryInv

(* Whose totals a row has, and what the requests that are under way hold    *)
(* and have written, in every reachable state of the library.               *)
THEOREM LibraryInvariant == InTurn => (Spec => [](part = "library" => LibraryInv))
  <1> SUFFICES ASSUME InTurn PROVE Spec => [](part = "library" => LibraryInv)
    OBVIOUS
  <1>1. Init => (part = "library" => LibraryInv)
    BY LibraryInit
  <1>2. (part = "library" => LibraryInv) /\ [Next]_vars => (part = "library" => LibraryInv)'
    <2> SUFFICES ASSUME part = "library" => LibraryInv, [Next]_vars, part' = "library" PROVE LibraryInv'
      OBVIOUS
    <2>1. CASE Next
      BY <2>1, LibraryNext DEF Next
    <2>2. CASE UNCHANGED vars
      BY <2>2, LibraryStutter DEF vars, lvars, fvars, L!vars
    <2> QED
      BY <2>1, <2>2
  <1> QED
    BY <1>1, <1>2, PTL DEF Spec


--------------------------------------------------------------------------------
(* What the shelves of a company hold.                                     *)

LEMMA LastIsOne ==
    ASSUME NEW set, set \subseteq Nat, NEW l, IsLast(l, set), NEW m, IsLast(m, set)
    PROVE  l = m /\ l = IF set = {} THEN 0 ELSE CHOOSE n \in set : \A k \in set : k <= n
  <1>1. ASSUME NEW k, IsLast(k, set), set # {} PROVE k = l
    <2>1. k \in set /\ l \in set /\ k <= l /\ l <= k
      BY <1>1 DEF IsLast
    <2> QED
      BY <2>1
  <1>2. CASE set = {}
    BY <1>2 DEF IsLast
  <1>3. CASE set # {}
    <2>1. PICK n : n = CHOOSE o \in set : \A k \in set : k <= o
      OBVIOUS
    <2>2. l \in set /\ \A k \in set : k <= l
      BY <1>3 DEF IsLast
    <2>3. n \in set /\ \A k \in set : k <= n
      BY <2>1, <2>2
    <2> QED
      BY <1>1, <1>3, <2>1, <2>3 DEF IsLast
  <1> QED
    BY <1>2, <1>3

(* Names of warehouses, places of items, and the totals and images of the  *)
(* library are right in every reachable state, for any number of requests, *)
(* warehouses, items and purchase lines, if addresses are edited and       *)
(* products are curated one request at a time.                             *)
THEOREM ShelvesAreRight == AddressesApart /\ InTurn => (Spec => []ShelvesHold)
  <1> SUFFICES ASSUME AddressesApart, InTurn PROVE Spec => []ShelvesHold
    OBVIOUS
  <1>1. StockInv => S!TypeOK /\ S!NamesApart /\ S!Placed /\ (mix.alone => S!GoneStays)
    BY DEF StockInv, StockTurns
  <1>2. ASSUME LibraryInv
        PROVE  /\ L!TypeOK
               /\ (mix # Doubling => L!TotalsHold)
               /\ (mix.ops = {"import"} => L!NeverTwice)
               /\ (mix.alone => L!ImagesShown)
    <2>1. LibraryTyped /\ Shelf
      BY <1>2 DEF LibraryInv
    <2>2. L!TypeOK
      BY <2>1 DEF LibraryTyped, L!TypeOK, L!Rows
    <2>3. mix # Doubling => Exact
      BY <1>2, <2>1 DEF LibraryTyped, InTurn, Exact
    <2>4. ASSUME Exact PROVE L!TotalsHold
      <3>1. CASE product = None
        BY <2>1, <3>1 DEF Shelf, L!TotalsHold
      <3>2. CASE product # None
        <4>1. product.count = Cardinality(bought) /\ IsLast(product.last, bought) /\ bought \subseteq Nat
          BY <2>1, <2>4, <3>2, LibraryFacts DEF Shelf, Tells, LibraryTyped
        <4>2. product.last = IF bought = {} THEN 0 ELSE CHOOSE n \in bought : \A k \in bought : k <= n
          BY <4>1, LastIsOne
        <4> QED
          BY <3>2, <4>1, <4>2, LibraryFacts DEF L!TotalsHold
      <3> QED
        BY <3>1, <3>2
    <2>5. mix.ops = {"import"} => L!NeverTwice
      BY <2>1, LibraryFacts DEF Shelf, Tells, L!NeverTwice
    <2>6. mix.alone => L!ImagesShown
      BY <2>1 DEF Shelf, Tells, L!ImagesShown
    <2> QED
      BY <2>2, <2>3, <2>4, <2>5, <2>6
  <1>3. (part = "stock" => StockInv) /\ (part = "library" => LibraryInv) => ShelvesHold
    BY <1>1, <1>2 DEF ShelvesHold
  <1>4. Spec => [](part = "stock" => StockInv) /\ [](part = "library" => LibraryInv)
    BY StockInvariant, LibraryInvariant
  <1> QED
    BY <1>3, <1>4, PTL

(* Who ends at its commit has committed, or left. *)
LEMMA LibraryEnds ==
    ASSUME LibraryInv, L!Next, NEW s \in Slots, pc[s] = "commit", pc'[s] = "idle"
    PROVE  L!Commit(s) \/ L!Leave(s)
  <1>1. PICK t \in Slots :
           \/ L!Import(t) \/ L!CreateProduct(t) \/ L!UpdateProduct(t) \/ L!DeleteProduct(t)
           \/ L!UploadImage(t) \/ L!FetchImage(t) \/ L!RemoveImage(t)
           \/ L!ImportFind(t) \/ L!PutImage(t)
           \/ L!UpsertGet(t) \/ L!UpsertInsert(t) \/ L!UpsertUpdate(t)
           \/ L!AddIfAbsent(t) \/ L!ApplyPurchase(t) \/ L!DropProduct(t)
           \/ L!Commit(t) \/ L!DeleteImage(t) \/ L!Leave(t)
    BY DEF L!Next, L!Killed, L!Victim
  <1>2. CASE t = s
    BY <1>1, <1>2 DEF L!Import, L!CreateProduct, L!UpdateProduct, L!DeleteProduct, L!UploadImage, L!FetchImage,
       L!RemoveImage, L!Change, L!Begin, L!ImportFind, L!PutImage, L!UpsertGet, L!UpsertInsert, L!UpsertUpdate,
       L!AddIfAbsent, L!ApplyPurchase, L!DropProduct, L!DeleteImage
  <1>3. CASE t # s
    <2>1. \E step, j : L!Go(t, step, j)
      BY <1>1 DEF L!Import, L!CreateProduct, L!UpdateProduct, L!DeleteProduct, L!UploadImage, L!FetchImage,
         L!RemoveImage, L!Change, L!ImportFind, L!PutImage, L!UpsertGet, L!UpsertInsert, L!UpsertUpdate,
         L!AddIfAbsent, L!ApplyPurchase, L!DropProduct, L!Commit, L!DeleteImage, L!Leave, L!Done
    <2> QED
      BY <1>3, <2>1 DEF L!Go, LibraryInv, LibraryTyped
  <1> QED
    BY <1>2, <1>3

(* An import whose lines are all there leaves purchases and totals as they  *)
(* are, whatever imports of the product overlap with it.                    *)
THEOREM ImportsAreIdempotent == InTurn => (Spec => ImportsOnce)
  <1> SUFFICES ASSUME InTurn PROVE Spec => ImportsOnce
    OBVIOUS
  <1>1. ASSUME part = "library" => LibraryInv, [Next]_vars
        PROVE  [part = "library" /\ mix # Doubling => L!ImportsOnce]_vars
    <2> SUFFICES ASSUME Next, part = "library", mix # Doubling, LibraryInv, NEW s \in Slots,
                        pc[s] = "commit", job[s].op = "import", product # None, job[s].all \subseteq bought,
                        pc'[s] = "idle", product' # None
                 PROVE  bought' = bought /\ product'.count = product.count /\ product'.last = product.last
      BY <1>1 DEF L!ImportsOnce
    <2>1. L!Commit(s) \/ L!Leave(s)
      BY LibraryEnds DEF Next
    <2>2. CASE L!Leave(s)
      BY <2>2 DEF L!Leave, L!tables
    <2>3. CASE L!Commit(s)
      <3>1. PICK j : j = job[s]
        OBVIOUS
      <3>2. /\ IsEdit(j) /\ Locked("commit", j) /\ j.all \subseteq bought /\ product' = Seen(j)
            /\ bought' = (IF j.wrote = None THEN {} ELSE bought \cup j.added)
            /\ j.wrote \notin {Keep, None} => Tells(j.wrote, bought \cup Applied("commit", j))
        BY <2>3, <3>1, LibraryServed DEF L!Commit
      <3>3. j.added = {} /\ Applied("commit", j) = {}
        BY <3>2 DEF IsEdit, Locked, Applied
      <3>4. CASE j.wrote = Keep
        BY <3>2, <3>3, <3>4, LibraryFacts DEF Seen
      <3>5. CASE j.wrote # Keep
        <4>1. product' = j.wrote /\ j.wrote # None /\ bought' = bought /\ Tells(j.wrote, bought)
          BY <3>2, <3>3, <3>5 DEF Seen
        <4>2. Exact /\ Tells(product, bought) /\ bought \subseteq Nat
          BY LibraryFacts DEF LibraryInv, LibraryTyped, Shelf, InTurn, Exact
        <4>3. /\ j.wrote.count = Cardinality(bought) /\ IsLast(j.wrote.last, bought)
              /\ product.count = Cardinality(bought) /\ IsLast(product.last, bought)
          BY <4>1, <4>2 DEF Tells
        <4> QED
          BY <4>1, <4>2, <4>3, LastIsOne
      <3> QED
        BY <3>4, <3>5
    <2> QED
      BY <2>1, <2>2, <2>3
  <1> QED
    BY <1>1, LibraryInvariant, PTL DEF Spec, ImportsOnce
================================================================================
