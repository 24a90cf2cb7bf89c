-------------------------- MODULE BillingNumberingProofs --------------------------
(***************************************************************************)
(* The numbering of billing documents, for any number of requests,         *)
(* documents and prefixes: the counter never goes back, the numbers of a   *)
(* year that knows no import and no deletion are consecutive and, provided *)
(* the company's own prefix has no digit, a new document is never refused  *)
(* for its number.                                                         *)
(*                                                                         *)
(* The three need the lock of the row.  What a transaction wrote is not    *)
(* older than the committed counter (Ahead), because nobody else commits   *)
(* to the row while it is held; the number it claimed is still the         *)
(* counter's (Claimed); and an imported number that the counter could      *)
(* reach pushed it first (Pushed), so all such documents are behind it     *)
(* (Behind).  With what an import has written (Absorbing), every commit is *)
(* an operation of the abstract register.                                  *)
(***************************************************************************)
EXTENDS BillingNumbering, TLAPS

(* The layout in which the counter will write the company's numbers. *)
OwnLayout(n) == n.prefix = Own /\ n.folio

Ahead == \A s \in Slots : took[s] # 0 => owner = s /\ took[s] >= counter

Claimed == \A s \in Slots : pc[s] = "insert" =>
               owner = s /\ want[s] = Number(counter) /\ took[s] = counter + 1

Pushed == Own \notin Digits => \A s \in Slots :
              /\ pc[s] = "store" /\ OwnLayout(want[s]) => took[s] > want[s].seq
              /\ pc[s] = "bump" => want[s].seq <= MaxSeq

Behind == Own \notin Digits => \A n \in docs : OwnLayout(n) => n.seq < counter

NumberingInv == TypeOK /\ Ahead /\ Claimed /\ Pushed /\ Behind /\ Continuous

--------------------------------------------------------------------------------
(* A number of the company's own layout is one.                            *)
LEMMA NumberIsNumber ==
    ASSUME NEW n \in Seqs
    PROVE  Number(n) \in Numbers /\ OwnLayout(Number(n)) /\ Number(n).seq = n
BY NumberingConstants DEF Number, Numbers, OwnLayout

(* The initial states satisfy the invariant.                               *)
LEMMA InitInv == Init => NumberingInv
<1>. SUFFICES ASSUME Init PROVE NumberingInv
  OBVIOUS
<1>1. NotWanted \in Numbers
  BY NumberingConstants, NumberIsNumber, 1 \in Seqs DEF NotWanted, Seqs
<1>2. TypeOK
  <2>1. counter \in Nat \ {0} /\ docs \subseteq Numbers /\ owner \in Slots \cup {None}
    BY DEF Init
  <2>4. disturbed \in BOOLEAN
    BY DEF Init
  <2>2. pc \in [Slots -> PCs] /\ want \in [Slots -> Numbers]
    BY <1>1 DEF Init, PCs
  <2>3. took \in [Slots -> Nat]
    BY DEF Init
  <2>. QED
    BY <2>1, <2>2, <2>3, <2>4 DEF TypeOK
<1>3. Ahead /\ Claimed /\ Pushed /\ Behind
  BY DEF Init, Ahead, Claimed, Pushed, Behind
<1>4. Continuous
  <2>1. 1..(counter - 1) = {}
    BY DEF Init
  <2>. QED
    BY <2>1 DEF Init, Continuous
<1>. QED
  BY <1>2, <1>3, <1>4 DEF NumberingInv

(* A transaction that leaves no trace keeps the invariant.                 *)
LEMMA LeaveStep ==
    ASSUME NEW s \in Slots, NumberingInv, Leave(s)
    PROVE  NumberingInv'
<1>. USE DEF NumberingInv, Leave, tables
<1>1. NotWanted \in Numbers
  BY NumberingConstants, NumberIsNumber, 1 \in Seqs DEF NotWanted, Seqs
<1>2. TypeOK'
  BY <1>1 DEF TypeOK, PCs, End
<1>3. Ahead'
  BY NumberingConstants DEF Ahead, End, TypeOK
<1>4. Claimed'
  BY NumberingConstants DEF Claimed, End, TypeOK
<1>5. Pushed'
  BY DEF Pushed, End, TypeOK
<1>6. Behind' /\ Continuous'
  BY DEF Behind, Continuous
<1>. QED
  BY <1>2, <1>3, <1>4, <1>5, <1>6

(* A commit keeps the invariant, if the counter it writes is ahead of the  *)
(* number it inserts and, as long as nothing was imported or deleted, the  *)
(* number is the next one.                                                 *)
LEMMA CommitStep ==
    ASSUME NEW s \in Slots, NumberingInv, Commit(s), disturbed' \in BOOLEAN,
           Own \notin Digits /\ OwnLayout(want[s]) => took[s] > want[s].seq,
           ~disturbed' => /\ ~disturbed
                          /\ took[s] = counter + 1
                          /\ want[s] = Number(counter)
    PROVE  NumberingInv'
<1>. USE DEF NumberingInv
<1>1. NotWanted \in Numbers
  BY NumberingConstants, NumberIsNumber, 1 \in Seqs DEF NotWanted, Seqs
<1>2. counter \in Nat /\ counter' \in Nat \ {0} /\ counter' >= counter /\ took[s] \in Nat
  BY DEF TypeOK, Commit, Ahead
<1>3. TypeOK'
  BY <1>1, <1>2 DEF TypeOK, PCs, End, Commit
<1>4. Ahead'
  <2>. SUFFICES ASSUME NEW t \in Slots, took'[t] # 0
                PROVE  owner' = t /\ took'[t] >= counter'
    BY DEF Ahead
  <2>1. t # s /\ took'[t] = took[t]
    BY DEF TypeOK, Commit, End
  <2>2. owner = t /\ took[t] >= counter
    BY <2>1 DEF Ahead
  <2>3. took[s] = 0
    BY <2>1, <2>2 DEF Ahead
  <2>. QED
    BY <2>1, <2>2, <2>3 DEF Commit, End
<1>5. Claimed'
  <2>. SUFFICES ASSUME NEW t \in Slots, pc'[t] = "insert"
                PROVE  owner' = t /\ want'[t] = Number(counter') /\ took'[t] = counter' + 1
    BY DEF Claimed
  <2>1. t # s /\ pc[t] = "insert" /\ want'[t] = want[t] /\ took'[t] = took[t]
    BY DEF TypeOK, Commit, End
  <2>2. owner = t /\ want[t] = Number(counter) /\ took[t] = counter + 1
    BY <2>1 DEF Claimed
  <2>3. took[s] = 0
    BY <2>1, <2>2 DEF Ahead
  <2>. QED
    BY <2>1, <2>2, <2>3 DEF Commit, End
<1>6. Pushed'
  BY DEF Pushed, Commit, End, TypeOK
<1>7. Behind'
  <2>. SUFFICES ASSUME Own \notin Digits, NEW n \in docs', OwnLayout(n)
                PROVE  n.seq < counter'
    BY DEF Behind
  <2>0. n.seq \in Nat
    BY <1>3 DEF TypeOK, Numbers, Seqs
  <2>1. CASE n \in docs
    BY <1>2, <2>0, <2>1 DEF Behind
  <2>2. CASE n = want[s]
    BY <1>2, <2>0, <2>2 DEF Commit
  <2>. QED
    BY <2>1, <2>2 DEF Commit
<1>8. Continuous'
  <2>. SUFFICES ASSUME ~disturbed'
                PROVE  docs' = {Number(n) : n \in 1..(counter' - 1)}
    BY DEF Continuous
  <2>1. counter' = counter + 1
    BY <1>2 DEF Commit
  <2>2. 1..(counter' - 1) = 1..(counter - 1) \cup {counter}
    <3>1. counter \in Nat \ {0} /\ counter' - 1 = counter
      BY <1>2, <2>1 DEF TypeOK
    <3>2. ASSUME NEW n PROVE n \in 1..counter <=> n \in 1..(counter - 1) \/ n = counter
      BY <3>1
    <3>. QED
      BY <3>1, <3>2
  <2>3. docs = {Number(n) : n \in 1..(counter - 1)}
    BY DEF Continuous
  <2>. QED
    BY <2>2, <2>3 DEF Commit
<1>. QED
  BY <1>3, <1>4, <1>5, <1>6, <1>7, <1>8

(* Waiting for the row and keeping it disturbs nothing that holds of the   *)
(* other requests: whoever holds the row is the only one to have written.  *)
LEMMA HoldStep ==
    ASSUME NEW s \in Slots, NEW next \in Nat, NEW n \in Numbers, NEW p \in PCs,
           NumberingInv, HoldCounter(s, next), next >= counter,
           want' = [want EXCEPT ![s] = n], pc' = [pc EXCEPT ![s] = p],
           p = "insert" => n = Number(counter) /\ next = counter + 1,
           p = "store" /\ Own \notin Digits /\ OwnLayout(n) => next > n.seq,
           p # "bump"
    PROVE  NumberingInv'
<1>. USE DEF NumberingInv, HoldCounter, tables
<1>1. TypeOK'
  BY DEF TypeOK
<1>2. \A t \in Slots : took[t] = 0
  BY NumberingConstants DEF Ahead, TypeOK
<1>3. Ahead'
  BY <1>2 DEF Ahead, TypeOK
<1>4. Claimed'
  <2>1. \A t \in Slots : pc[t] # "insert"
    BY NumberingConstants DEF Claimed
  <2>. QED
    BY <2>1 DEF Claimed, TypeOK
<1>5. Pushed'
  <2>. SUFFICES ASSUME Own \notin Digits, NEW t \in Slots
                PROVE  /\ pc'[t] = "store" /\ OwnLayout(want'[t]) => took'[t] > want'[t].seq
                       /\ pc'[t] = "bump" => want'[t].seq <= MaxSeq
    BY DEF Pushed
  <2>1. CASE t = s
    BY <2>1 DEF TypeOK
  <2>2. CASE t # s
    BY <2>2 DEF TypeOK, Pushed
  <2>. QED
    BY <2>1, <2>2
<1>6. Behind' /\ Continuous'
  BY DEF Behind, Continuous
<1>. QED
  BY <1>1, <1>3, <1>4, <1>5, <1>6

(* A step that moves a request on, without writing anything.               *)
LEMMA MoveStep ==
    ASSUME NEW s \in Slots, NEW n \in Numbers, NEW p \in PCs, NumberingInv,
           UNCHANGED <<tables, owner, took>>,
           want' = [want EXCEPT ![s] = n], pc' = [pc EXCEPT ![s] = p],
           p # "insert",
           Own \notin Digits => /\ ~(p = "store" /\ OwnLayout(n))
                                /\ p = "bump" => n.seq <= MaxSeq
    PROVE  NumberingInv'
<1>. USE DEF NumberingInv, tables
<1>1. TypeOK'
  BY DEF TypeOK
<1>2. Ahead' /\ Claimed'
  BY DEF Ahead, Claimed, TypeOK
<1>3. Pushed'
  <2>. SUFFICES ASSUME Own \notin Digits, NEW t \in Slots
                PROVE  /\ pc'[t] = "store" /\ OwnLayout(want'[t]) => took'[t] > want'[t].seq
                       /\ pc'[t] = "bump" => want'[t].seq <= MaxSeq
    BY DEF Pushed
  <2>1. CASE t = s
    BY <2>1 DEF TypeOK
  <2>2. CASE t # s
    BY <2>2 DEF TypeOK, Pushed
  <2>. QED
    BY <2>1, <2>2
<1>4. Behind' /\ Continuous'
  BY DEF Behind, Continuous
<1>. QED
  BY <1>1, <1>2, <1>3, <1>4

(* Every step keeps the invariant.                                         *)
LEMMA NextInv == NumberingInv /\ [Next]_vars => NumberingInv'
<1>. SUFFICES ASSUME NumberingInv, [Next]_vars
              PROVE  NumberingInv'
  OBVIOUS
<1>. USE DEF NumberingInv
<1>1. ASSUME NEW s \in Slots, Create(s) PROVE NumberingInv'
  <2>1. want[s] \in Numbers /\ want' = [want EXCEPT ![s] = want[s]]
    BY <1>1 DEF Create, TypeOK
  <2>2. "claim" \in PCs
    BY DEF PCs
  <2>. QED
    BY <1>1, <2>1, <2>2, MoveStep DEF Create
<1>2. ASSUME NEW s \in Slots, Claim(s) PROVE NumberingInv'
  <2>1. counter \in Seqs /\ counter + 1 \in Nat /\ counter + 1 >= counter
    BY <1>2, NumberingConstants DEF Claim, TypeOK, Seqs
  <2>2. Number(counter) \in Numbers /\ "insert" \in PCs
    BY <2>1, NumberIsNumber DEF PCs
  <2>. QED
    BY <1>2, <2>1, <2>2, HoldStep DEF Claim
<1>3. ASSUME NEW s \in Slots, Insert(s) PROVE NumberingInv'
  <2>1. CASE Leave(s)
    BY <2>1, LeaveStep
  <2>2. CASE Commit(s) /\ UNCHANGED disturbed
    <3>1. owner = s /\ want[s] = Number(counter) /\ took[s] = counter + 1
      BY <1>3 DEF Insert, Claimed
    <3>2. took[s] > want[s].seq
      BY <3>1 DEF Number, TypeOK
    <3>3. disturbed' \in BOOLEAN
      BY <2>2 DEF TypeOK
    <3>. QED
      BY <2>2, <3>1, <3>2, <3>3, CommitStep
  <2>. QED
    BY <1>3, <2>1, <2>2 DEF Insert
<1>4. ASSUME NEW s \in Slots, NEW n \in Numbers, Import(s, n) PROVE NumberingInv'
  <2>. DEFINE p == IF Taken(n) # 0 THEN "bump" ELSE "store"
  <2>1. p \in PCs /\ p # "insert"
    BY DEF PCs
  <2>2. p = "bump" => n.seq <= MaxSeq
    BY DEF Taken
  <2>3. Own \notin Digits /\ OwnLayout(n) => p = "bump"
    BY <1>4, NumberingConstants DEF Import, Refused, Parsed, OwnLayout, Numbers, Seqs, Taken
  <2>4. UNCHANGED <<tables, owner, took>> /\ want' = [want EXCEPT ![s] = n] /\ pc' = [pc EXCEPT ![s] = p]
    BY <1>4 DEF Import
  <2>. HIDE DEF p
  <2>. QED
    BY <2>1, <2>2, <2>3, <2>4, MoveStep
<1>5. ASSUME NEW s \in Slots, Bump(s) PROVE NumberingInv'
  <2>. DEFINE next == BumpToAtLeast(want[s].seq)
  <2>1. want[s] \in Numbers /\ want' = [want EXCEPT ![s] = want[s]]
    BY <1>5 DEF Bump, TypeOK
  <2>2. next \in Nat /\ next >= counter /\ next > want[s].seq
    BY <2>1 DEF BumpToAtLeast, TypeOK, Numbers, Seqs
  <2>3. HoldCounter(s, next) /\ pc' = [pc EXCEPT ![s] = "store"] /\ "store" \in PCs
    BY <1>5 DEF Bump, PCs
  <2>. HIDE DEF next
  <2>. QED
    BY <2>1, <2>2, <2>3, HoldStep
<1>6. ASSUME NEW s \in Slots, Store(s) PROVE NumberingInv'
  <2>1. CASE Leave(s)
    BY <2>1, LeaveStep
  <2>2. CASE Commit(s) /\ disturbed' = TRUE
    <3>1. Own \notin Digits /\ OwnLayout(want[s]) => took[s] > want[s].seq
      BY <1>6 DEF Store, Pushed
    <3>. QED
      BY <2>2, <3>1, CommitStep
  <2>. QED
    BY <1>6, <2>1, <2>2 DEF Store
<1>7. ASSUME NEW n \in docs, Delete(n) PROVE NumberingInv'
  BY <1>7 DEF Delete, TypeOK, Ahead, Claimed, Pushed, Behind, Continuous
<1>8. ASSUME NEW s \in Slots, Killed(s) PROVE NumberingInv'
  BY <1>8, LeaveStep DEF Killed
<1>9. CASE UNCHANGED vars
  BY <1>9 DEF vars, TypeOK, Ahead, Claimed, Pushed, Behind, Continuous
<1>. QED
  BY <1>1, <1>2, <1>3, <1>4, <1>5, <1>6, <1>7, <1>8, <1>9 DEF Next

(* The invariant holds of every behaviour.                                 *)
THEOREM NumberingInvariant == Spec => []NumberingInv
<1>. QED
  BY InitInv, NextInv, PTL DEF Spec

--------------------------------------------------------------------------------
(* The state is always of its type.                                        *)
THEOREM TypeCorrect == Spec => []TypeOK
<1>1. NumberingInv => TypeOK
  BY DEF NumberingInv
<1>. QED
  BY <1>1, NumberingInvariant, PTL

(* Whatever requests overlap, fail or are killed, a year without imports   *)
(* and deletions is numbered 1, 2, 3, ... (CreateBillingDocumentUseCase).  *)
THEOREM YearIsContinuous == Spec => []Continuous
<1>1. NumberingInv => Continuous
  BY DEF NumberingInv
<1>. QED
  BY <1>1, NumberingInvariant, PTL

(* If the import recognises the company's own prefix (it has no digit), a  *)
(* new document is never refused because its number exists.                *)
THEOREM NewNumbersAreFree == ASSUME Own \notin Digits PROVE Spec => []NeverBlocked
<1>1. NumberingInv => NeverBlocked
  <2>. SUFFICES ASSUME NumberingInv, NEW s \in Slots, pc[s] = "insert", want[s] \in docs
                PROVE  FALSE
    BY DEF NeverBlocked
  <2>1. want[s] = Number(counter) /\ counter \in Nat
    BY DEF NumberingInv, Claimed, TypeOK
  <2>2. OwnLayout(Number(counter)) /\ Number(counter).seq = counter
    BY DEF OwnLayout, Number
  <2>. QED
    BY <2>1, <2>2 DEF NumberingInv, Behind
<1>. QED
  BY <1>1, NumberingInvariant, PTL

(* No commit, of a creation or of an import, takes the counter back to a   *)
(* number it has already handed out (bump_to_at_least).                    *)
THEOREM NoRewind == Spec => CounterNeverRewinds
<1>1. NumberingInv /\ [Next]_vars => [counter' >= counter]_vars
  <2>. SUFFICES ASSUME NumberingInv, Next PROVE counter' >= counter
    OBVIOUS
  <2>1. counter \in Nat
    BY DEF NumberingInv, TypeOK
  <2>2. ASSUME NEW s \in Slots, Commit(s) PROVE counter' >= counter
    BY <2>1, <2>2 DEF NumberingInv, Ahead, Commit
  <2>3. CASE UNCHANGED counter
    BY <2>1, <2>3
  <2>. QED
    BY <2>2, <2>3 DEF Next, Create, Claim, HoldCounter, Insert, Leave, Import, Bump,
                      Store, Delete, Killed, tables
<1>. QED
  BY <1>1, NumberingInvariant, PTL DEF Spec, CounterNeverRewinds

--------------------------------------------------------------------------------
(* An import that has to move the counter has written where to, and one    *)
(* that has not, has written nothing; so has a request that only begins.   *)
Absorbing(s) ==
    /\ pc[s] \in {"idle", "claim", "bump"} => took[s] = 0
    /\ pc[s] = "bump" => Taken(want[s]) # 0
    /\ pc[s] = "store" => took[s] = IF Taken(want[s]) # 0 THEN BumpToAtLeast(want[s].seq) ELSE 0

AbsorbInv == NumberingInv /\ \A s \in Slots : Absorbing(s)

(* A number that moves the counter is a sequence. *)
LEMMA TakenIsSeq ==
    ASSUME NEW n \in Numbers
    PROVE  Taken(n) \in Nat /\ (Taken(n) # 0 => Taken(n) = n.seq) /\ n.seq \in Nat \ {0}
BY DEF Taken, Numbers, Seqs

(* A step that leaves a request alone, and the counter if it wrote it.     *)
LEMMA OtherAbsorbing ==
    ASSUME NEW t \in Slots, Absorbing(t), pc'[t] = pc[t], want'[t] = want[t], took'[t] = took[t],
           took[t] # 0 => counter' = counter,
           Taken(want[t]) # 0 => BumpToAtLeast(want[t].seq) # 0
    PROVE  Absorbing(t)'
BY DEF Absorbing, BumpToAtLeast

(* The invariant is kept by every step.                                    *)
LEMMA NextAbsorb == AbsorbInv /\ [Next]_vars => AbsorbInv'
<1>. SUFFICES ASSUME AbsorbInv, [Next]_vars PROVE AbsorbInv'
  OBVIOUS
<1>0. NumberingInv /\ NumberingInv' /\ TypeOK
  BY NextInv DEF AbsorbInv, NumberingInv
<1>. SUFFICES ASSUME NEW t \in Slots PROVE Absorbing(t)'
  BY <1>0 DEF AbsorbInv
<1>1. Absorbing(t)
  BY DEF AbsorbInv
<1>2. Taken(want[t]) # 0 => BumpToAtLeast(want[t].seq) # 0
  BY <1>0, TakenIsSeq DEF TypeOK, BumpToAtLeast
<1>3. ASSUME pc'[t] = pc[t], want'[t] = want[t], took'[t] = took[t],
             took[t] # 0 => counter' = counter
      PROVE  Absorbing(t)'
  BY <1>1, <1>2, <1>3, OtherAbsorbing
<1>4. ASSUME NEW s \in Slots, End(s), UNCHANGED counter \/ counter' = IF took[s] = 0 THEN counter ELSE took[s]
      PROVE  Absorbing(t)'
  <2>1. CASE t = s
    BY <1>0, <1>4, <2>1 DEF End, TypeOK, Absorbing
  <2>2. CASE t # s
    <3>1. took[t] # 0 => took[s] = 0
      BY <1>0, <2>2 DEF NumberingInv, Ahead
    <3>. QED
      BY <1>0, <1>3, <1>4, <2>2, <3>1 DEF End, TypeOK
  <2>. QED
    BY <2>1, <2>2
<1>5. ASSUME NEW s \in Slots, Create(s) \/ Claim(s) PROVE Absorbing(t)'
  <2>1. CASE t = s
    BY <1>0, <1>1, <1>5, <2>1 DEF Create, Claim, TypeOK, Absorbing
  <2>2. CASE t # s
    BY <1>0, <1>3, <1>5, <2>2 DEF Create, Claim, HoldCounter, TypeOK, tables
  <2>. QED
    BY <2>1, <2>2
<1>6. ASSUME NEW s \in Slots, NEW n \in Numbers, Import(s, n) PROVE Absorbing(t)'
  <2>1. CASE t = s
    <3>1. took[s] = 0
      BY <1>1, <1>6, <2>1 DEF Import, Absorbing
    <3>. QED
      BY <1>0, <1>6, <2>1, <3>1 DEF Import, TypeOK, Absorbing
  <2>2. CASE t # s
    BY <1>0, <1>3, <1>6, <2>2 DEF Import, TypeOK, tables
  <2>. QED
    BY <2>1, <2>2
<1>7. ASSUME NEW s \in Slots, Bump(s) PROVE Absorbing(t)'
  <2>1. CASE t = s
    BY <1>0, <1>1, <1>7, <2>1 DEF Bump, HoldCounter, TypeOK, Absorbing, BumpToAtLeast, tables
  <2>2. CASE t # s
    BY <1>0, <1>3, <1>7, <2>2 DEF Bump, HoldCounter, TypeOK, tables
  <2>. QED
    BY <2>1, <2>2
<1>8. CASE \E n \in docs : Delete(n)
  BY <1>3, <1>8 DEF Delete
<1>9. CASE UNCHANGED vars
  BY <1>3, <1>9 DEF vars
<1>. QED
  BY <1>4, <1>5, <1>6, <1>7, <1>8, <1>9
     DEF Next, Insert, Store, Killed, Leave, Commit, tables

LEMMA InitAbsorb == Init => AbsorbInv
<1>1. Init => \A s \in Slots : pc[s] = "idle" /\ took[s] = 0
  BY DEF Init
<1>. QED
  BY <1>1, InitInv DEF AbsorbInv, Absorbing

--------------------------------------------------------------------------------
(* A commit of a creation issues the next number, one of an import absorbs *)
(* its own, a deletion discards one, and nothing else is seen.             *)
LEMMA RegisterStep == AbsorbInv /\ [Next]_vars => [Register!Next]_<<counter, docs>>
<1>. SUFFICES ASSUME AbsorbInv, [Next]_vars PROVE [Register!Next]_<<counter, docs>>
  OBVIOUS
<1>0. NumberingInv /\ TypeOK
  BY DEF AbsorbInv, NumberingInv
<1>1. ASSUME UNCHANGED <<counter, docs>> PROVE [Register!Next]_<<counter, docs>>
  BY <1>1
<1>2. ASSUME NEW s \in Slots, Insert(s) PROVE [Register!Next]_<<counter, docs>>
  <2>1. CASE Leave(s)
    BY <1>1, <2>1 DEF Leave, tables
  <2>2. CASE want[s] \notin docs /\ Commit(s)
    <3>1. want[s] = Number(counter) /\ took[s] = counter + 1 /\ want[s] \in Numbers
      BY <1>0, <1>2 DEF Insert, NumberingInv, Claimed, TypeOK
    <3>2. counter' = counter + 1 /\ docs' = docs \cup {Number(counter)}
      BY <1>0, <2>2, <3>1 DEF Commit, TypeOK
    <3>. QED
      BY <2>2, <3>1, <3>2 DEF Register!Next, Register!Issue
  <2>. QED
    BY <1>2, <2>1, <2>2 DEF Insert
<1>3. ASSUME NEW s \in Slots, Store(s) PROVE [Register!Next]_<<counter, docs>>
  <2>1. CASE Leave(s)
    BY <1>1, <2>1 DEF Leave, tables
  <2>2. CASE want[s] \notin docs /\ Commit(s)
    <3>. DEFINE n == want[s]
    <3>1. n \in Numbers /\ counter \in Nat \ {0}
      BY <1>0 DEF TypeOK
    <3>2. took[s] = IF Taken(n) # 0 THEN BumpToAtLeast(n.seq) ELSE 0
      BY <1>3 DEF Store, AbsorbInv, Absorbing
    <3>3. counter' = IF Taken(n) < counter THEN counter ELSE Taken(n) + 1
      BY <2>2, <3>1, <3>2, TakenIsSeq DEF Commit, BumpToAtLeast
    <3>4. Register!Absorb(n)
      BY <2>2, <3>3 DEF Register!Absorb, Commit
    <3>. QED
      BY <3>1, <3>4 DEF Register!Next
  <2>. QED
    BY <1>3, <2>1, <2>2 DEF Store
<1>4. ASSUME NEW n \in docs, Delete(n) PROVE [Register!Next]_<<counter, docs>>
  BY <1>0, <1>4 DEF Delete, TypeOK, Register!Next, Register!Discard
<1>. QED
  BY <1>1, <1>2, <1>3, <1>4
     DEF Next, vars, Create, Claim, HoldCounter, Import, Bump, Killed, Leave, tables

(* Whatever requests overlap, fail or are killed, the numbering is seen    *)
(* from outside as a register whose operations happen at once or not at    *)
(* all (SqlAlchemyBillingNumberCounterRepository and its callers).         *)
THEOREM RegisterRefinement == Spec => ImplementsRegister
<1>1. Init => Register!Init
  BY DEF Init, Register!Init
<1>. QED
  BY <1>1, InitAbsorb, NextAbsorb, RegisterStep, PTL DEF Spec, ImplementsRegister, Register!Spec
================================================================================
