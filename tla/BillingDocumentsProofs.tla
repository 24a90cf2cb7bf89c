------------------------- MODULE BillingDocumentsProofs -------------------------
(***************************************************************************)
(* Devis, factures and released funds, for any documents, projects and     *)
(* overlapping requests: a facture stands on an accepted devis that does   *)
(* not change under it; and the money that counts as released is the money *)
(* that was paid.                                                          *)
(*                                                                         *)
(* The first two rest on the row lock: a request that writes a document    *)
(* holds its row since it looked whether a facture stands on it (Unbound), *)
(* a conversion holds its devis since it saw it accepted (Converts), and a *)
(* cancelled facture comes back for no request.  The third rests, besides, *)
(* on what a request saw of the release (Found).                           *)
(***************************************************************************)
EXTENDS BillingDocuments, TLAPS

Ops     == {"none", "status", "update", "convert", "delete"}
Writing == {"commit", "sync", "apply"}
Holding == Writing \cup {"insert"}

Requests == [op : Ops, doc : Docs \cup {None}, to : mix.targets \cup {"none"},
             place : mix.places \cup {None}, lines : Lines]
Versions == [status : Statuses \cup {"none"}, project : mix.places \cup {None}, lines : Lines]

TypedSlots ==
    /\ holder \in [Docs -> Slots \cup {None}]
    /\ pc \in [Slots -> PCs] /\ req \in [Slots -> Requests]
    /\ saved \in [Slots -> Versions] /\ seen \in [Slots -> Releases]
TypedDocs ==
    /\ kind \in [Docs -> Kinds]
    /\ status \in [Docs -> Statuses \cup {"unused", "deleted"}]
    /\ source \in [Docs -> Docs \cup {None}]
    /\ project \in [Docs -> mix.places \cup {None}] /\ lines \in [Docs -> Lines]
TypedReleases == release \in [Docs -> Releases] /\ stray \subseteq Docs
Typed == mix \in Mixes /\ TypedSlots /\ TypedDocs /\ TypedReleases

(* A request is about a document; one that writes or converts it holds its *)
(* row; ...                                                                *)
Aimed(s) == pc[s] # "idle" => Doc(s) \in Docs
Holds(s) == pc[s] \in Holding => holder[Doc(s)] = s /\ Live(Doc(s))

(* ... what it writes has no facture standing on it, and is not a cancelled *)
(* facture that would come back; ...                                       *)
Unbound(s) == pc[s] \in Writing =>
    /\ ~Locked(Doc(s))
    /\ saved[s].status \in Statuses
    /\ kind[Doc(s)] = "facture" /\ status[Doc(s)] = "cancelled" => saved[s].status = "cancelled"

(* ... it goes to the release if it pays a facture, and not otherwise; and *)
(* what it converts is an accepted devis.                                  *)
Paying(s) ==
    /\ pc[s] \in {"sync", "apply"} => kind[Doc(s)] = "facture" /\ saved[s].status = "paid"
    /\ pc[s] = "commit" => ~(kind[Doc(s)] = "facture" /\ saved[s].status = "paid")
    /\ pc[s] = "create" => saved[s].project # None
Converts(s) == pc[s] = "insert" => kind[Doc(s)] = "devis" /\ status[Doc(s)] = "accepted"

Slot(s) == Aimed(s) /\ Holds(s) /\ Unbound(s) /\ Paying(s) /\ Converts(s)

(* Only a facture is made from a devis. *)
Made == \A f \in Docs : source[f] # None => kind[f] = "facture"

IInv == Typed /\ Made /\ BasisAccepted /\ \A s \in Slots : Slot(s)

--------------------------------------------------------------------------------
(* The ways in which a step leaves the slots. *)
Same(t) == pc'[t] = pc[t] /\ req'[t] = req[t] /\ saved'[t] = saved[t] /\ seen'[t] = seen[t]

LEMMA Ended ==
    ASSUME Typed, NEW s \in Slots, End(s), UNCHANGED mix
    PROVE  /\ TypedSlots' /\ pc'[s] = "idle"
           /\ \A t \in Slots \ {s} : Same(t)
           /\ \A d \in Docs : holder[d] # s => holder'[d] = holder[d]
  <1>1. NoReq \in Requests /\ NotSaved \in Versions /\ NoRelease \in Releases /\ "idle" \in PCs
    BY DEF NoReq, Requests, Ops, Lines, NotSaved, Versions, NoRelease, Releases, PCs
  <1>2. holder' \in [Docs -> Slots \cup {None}] /\ \A d \in Docs : holder[d] # s => holder'[d] = holder[d]
    BY DEF End, LetGo, Typed, TypedSlots
  <1>3. pc' \in [Slots -> PCs] /\ req' \in [Slots -> Requests]
        /\ saved' \in [Slots -> Versions] /\ seen' \in [Slots -> Releases]
    BY <1>1 DEF End, Goto, Typed, TypedSlots
  <1>4. Requests' = Requests /\ Versions' = Versions
    BY DEF Requests, Versions
  <1>5. pc'[s] = "idle" /\ \A t \in Slots \ {s} : Same(t)
    BY DEF End, Goto, Typed, TypedSlots, Same
  <1> QED
    BY <1>2, <1>3, <1>4, <1>5 DEF TypedSlots

LEMMA Gone ==
    ASSUME Typed, NEW s \in Slots, NEW step \in PCs, Goto(s, step)
    PROVE  /\ pc' \in [Slots -> PCs] /\ pc'[s] = step
           /\ \A t \in Slots \ {s} : pc'[t] = pc[t]
  BY DEF Goto, Typed, TypedSlots

(* A slot that the step does not serve, if the row that it holds is not    *)
(* touched either.                                                         *)
LEMMA OtherSlot ==
    ASSUME IInv, NEW t \in Slots, Same(t),
           \A d \in Docs : holder[d] = t /\ Live(d) =>
               /\ holder'[d] = t /\ kind'[d] = kind[d] /\ status'[d] = status[d]
               /\ (~Locked(d) => ~Locked(d)')
    PROVE  Slot(t)'
  <1>1. Aimed(t)'
    BY DEF IInv, Slot, Aimed, Same, Doc
  <1>2. CASE pc[t] \notin Holding
    BY <1>1, <1>2 DEF IInv, Same, Slot, Holds, Unbound, Paying, Converts, Holding, Writing
  <1>3. CASE pc[t] \in Holding
    <2>1. PICK d \in Docs : d = Doc(t)
      BY <1>3 DEF IInv, Slot, Aimed, Holding, Writing
    <2>2. Doc(t)' = d /\ holder[d] = t /\ Live(d)
      BY <1>3, <2>1 DEF IInv, Slot, Holds, Same, Doc
    <2>3. holder'[d] = t /\ kind'[d] = kind[d] /\ status'[d] = status[d] /\ Live(d)'
      BY <2>2 DEF Live
    <2>4. ~Locked(d) => ~Locked(d)'
      BY <2>2
    <2>5. Holds(t)' /\ Paying(t)' /\ Converts(t)'
      BY <2>1, <2>2, <2>3 DEF IInv, Slot, Holds, Paying, Converts, Same, Live
    <2>6. Unbound(t)'
      <3>1. pc[t] \in Writing => ~Locked(d) /\ saved[t].status \in Statuses
                /\ (kind[d] = "facture" /\ status[d] = "cancelled" => saved[t].status = "cancelled")
        BY <2>1 DEF IInv, Slot, Unbound
      <3>2. pc[t] \in Writing => ~Locked(d)'
        BY <2>4, <3>1
      <3> QED
        BY <2>2, <2>3, <3>1, <3>2 DEF Unbound, Same, Locked, Factures, Live
    <2> QED
      BY <1>1, <2>5, <2>6 DEF Slot
  <1> QED
    BY <1>2, <1>3

--------------------------------------------------------------------------------
(* The ways in which a step leaves the documents. *)
Unmarked == UNCHANGED <<kind, status, source>>

LEMMA UnmarkedKeeps ==
    ASSUME IInv, Unmarked
    PROVE  /\ Made' /\ BasisAccepted'
           /\ \A d : (Locked(d)' <=> Locked(d)) /\ (Live(d)' <=> Live(d))
  <1>1. \A d : (Locked(d)' <=> Locked(d)) /\ (Live(d)' <=> Live(d))
    BY DEF Unmarked, Locked, Factures, Live
  <1>2. Made' /\ BasisAccepted'
    BY <1>1 DEF IInv, Made, BasisAccepted, Unmarked
  <1> QED
    BY <1>1, <1>2

(* What a facture stands on is an accepted devis. *)
LEMMA LockedIsAccepted ==
    ASSUME IInv, NEW d \in Docs, Locked(d)
    PROVE  kind[d] = "devis" /\ status[d] = "accepted"
  BY BillingConstants DEF IInv, BasisAccepted, Locked, Factures

(* The commit of a request that holds the row. *)
LEMMA Saves ==
    ASSUME IInv, NEW s \in Slots, pc[s] \in {"commit", "apply"}, NEW r \in Releases, Save(s, r), UNCHANGED mix
    PROVE  /\ TypedDocs' /\ TypedReleases' /\ Made' /\ BasisAccepted'
           /\ \A d \in Docs : /\ ~Locked(d) => ~Locked(d)'
                              /\ Locked(d) => lines'[d] = lines[d] /\ project'[d] = project[d]
                              /\ holder[d] # s => kind'[d] = kind[d] /\ status'[d] = status[d]
  <1>1. PICK c \in Docs : c = Doc(s)
    BY DEF IInv, Slot, Aimed
  <1> DEFINE v == saved[s].status
  <1>2. /\ holder[c] = s /\ Live(c) /\ ~Locked(c) /\ v \in Statuses
        /\ kind[c] = "facture" /\ status[c] = "cancelled" => v = "cancelled"
    BY <1>1 DEF IInv, Slot, Holds, Unbound, Holding, Writing
  <1>3. saved[s].project \in mix.places \cup {None} /\ saved[s].lines \in Lines
    BY DEF IInv, Typed, TypedSlots, Versions
  <1>4. TypedDocs
    BY DEF IInv, Typed
  <1> HIDE DEF v
  <1>5. /\ status' = [status EXCEPT ![c] = v] /\ UNCHANGED <<kind, source, stray>>
        /\ project' = [project EXCEPT ![c] = saved[s].project]
        /\ lines' = [lines EXCEPT ![c] = saved[s].lines] /\ release' = [release EXCEPT ![c] = r]
    BY <1>1 DEF Save, v
  <1>6. TypedDocs' /\ TypedReleases'
    BY <1>2, <1>3, <1>4, <1>5 DEF TypedDocs, IInv, Typed, TypedReleases
  <1>7. Made'
    BY <1>5 DEF IInv, Made
  <1>8. \A d \in Docs : status'[d] = IF d = c THEN v ELSE status[d]
    BY <1>4, <1>5 DEF TypedDocs
  <1>9. \A f \in Docs : Live(f)' => Live(f)
    BY <1>2, <1>8 DEF Live
  <1>10. \A f \in Docs : source[f] # None /\ status[f] = "cancelled" => status'[f] = "cancelled"
    BY <1>2, <1>8 DEF IInv, Made
  <1>11. \A d \in Docs : ~Locked(d) => ~Locked(d)'
    <2> SUFFICES ASSUME NEW d \in Docs, Locked(d)' PROVE Locked(d)
      OBVIOUS
    <2>1. PICK f \in Docs : Live(f)' /\ source[f] = d /\ status'[f] # "cancelled" /\ kind[d] = "devis"
      BY <1>5 DEF Locked, Factures
    <2>2. Live(f) /\ status[f] # "cancelled"
      BY <1>9, <1>10, <2>1, BillingConstants
    <2> QED
      BY <2>1, <2>2 DEF Locked, Factures
  <1>12. BasisAccepted'
    <2> SUFFICES ASSUME NEW f \in Docs, Live(f)', source[f] # None, status'[f] # "cancelled"
                 PROVE  kind[source[f]] = "devis" /\ status'[source[f]] = "accepted"
      BY <1>5 DEF BasisAccepted
    <2>1. Live(f) /\ status[f] # "cancelled" /\ source[f] \in Docs
      BY <1>4, <1>9, <1>10 DEF TypedDocs
    <2>2. kind[source[f]] = "devis" /\ status[source[f]] = "accepted"
      BY <2>1 DEF IInv, BasisAccepted
    <2>3. Locked(source[f])
      BY <2>1, <2>2 DEF Locked, Factures
    <2> QED
      BY <1>2, <1>8, <2>1, <2>2, <2>3
  <1>13. \A d \in Docs : Locked(d) => lines'[d] = lines[d] /\ project'[d] = project[d]
    BY <1>2, <1>4, <1>5 DEF TypedDocs
  <1>14. \A d \in Docs : holder[d] # s => kind'[d] = kind[d] /\ status'[d] = status[d]
    BY <1>2, <1>5, <1>8
  <1> QED
    BY <1>6, <1>7, <1>11, <1>12, <1>13, <1>14

(* A new document: a draft of its own, an import, or the facture of a devis *)
(* that is accepted.                                                       *)
LEMMA Writes ==
    ASSUME IInv, NEW d \in Docs, status[d] = "unused", NEW k \in Kinds, NEW st \in Statuses,
           NEW from \in Docs \cup {None}, NEW p \in mix.places \cup {None}, NEW v \in Lines,
           Write(d, k, st, from, p, v), UNCHANGED mix,
           from # None => k = "facture" /\ Live(from) /\ kind[from] = "devis" /\ status[from] = "accepted"
    PROVE  /\ TypedDocs' /\ Made' /\ BasisAccepted' /\ UNCHANGED <<release, stray>>
           /\ \A x \in Docs : /\ Live(x) => kind'[x] = kind[x] /\ status'[x] = status[x]
                              /\ Live(x) /\ x # from /\ ~Locked(x) => ~Locked(x)'
                              /\ Locked(x) => lines'[x] = lines[x] /\ project'[x] = project[x]
  <1>1. TypedDocs
    BY DEF IInv, Typed
  <1>2. \A x \in Docs : /\ kind'[x] = IF x = d THEN k ELSE kind[x]
                        /\ status'[x] = IF x = d THEN st ELSE status[x]
                        /\ source'[x] = IF x = d THEN from ELSE source[x]
                        /\ project'[x] = IF x = d THEN p ELSE project[x]
                        /\ lines'[x] = IF x = d THEN v ELSE lines[x]
    BY <1>1 DEF Write, TypedDocs
  <1>3. TypedDocs'
    BY <1>1 DEF Write, TypedDocs
  <1>4. ~Live(d) /\ \A x \in Docs : Live(x) => x # d
    BY DEF Live, Statuses
  <1>5. \A x \in Docs : Live(x) => kind'[x] = kind[x] /\ status'[x] = status[x]
    BY <1>2, <1>4
  <1>6. Made'
    BY <1>2 DEF IInv, Made
  <1>7. \A f \in Docs : f # d /\ Live(f)' => Live(f)
    BY <1>2 DEF Live
  <1>8. BasisAccepted'
    <2> SUFFICES ASSUME NEW f \in Docs, Live(f)', source'[f] # None, status'[f] # "cancelled"
                 PROVE  kind'[source'[f]] = "devis" /\ status'[source'[f]] = "accepted"
      BY DEF BasisAccepted
    <2>1. CASE f = d
      BY <1>2, <1>5, <2>1
    <2>2. CASE f # d
      <3>1. source'[f] = source[f] /\ source[f] \in Docs /\ Live(f) /\ status[f] # "cancelled"
        BY <1>1, <1>2, <1>7, <2>2 DEF TypedDocs
      <3>2. kind[source[f]] = "devis" /\ status[source[f]] = "accepted"
        BY <3>1 DEF IInv, BasisAccepted
      <3>3. Live(source[f])
        BY <3>2 DEF Live, Statuses
      <3> QED
        BY <1>5, <3>1, <3>2, <3>3
    <2> QED
      BY <2>1, <2>2
  <1>9. \A x \in Docs : Live(x) /\ x # from /\ ~Locked(x) => ~Locked(x)'
    <2> SUFFICES ASSUME NEW x \in Docs, Live(x), x # from, Locked(x)' PROVE Locked(x)
      OBVIOUS
    <2>1. PICK f \in Docs : Live(f)' /\ source'[f] = x /\ status'[f] # "cancelled" /\ kind'[x] = "devis"
      BY DEF Locked, Factures
    <2>2. f # d /\ source[f] = x /\ status[f] # "cancelled" /\ Live(f) /\ kind[x] = "devis"
      BY <1>2, <1>5, <1>7, <2>1
    <2> QED
      BY <2>2 DEF Locked, Factures
  <1>10. \A x \in Docs : Locked(x) => lines'[x] = lines[x] /\ project'[x] = project[x]
    BY <1>2, LockedIsAccepted
  <1> QED
    BY <1>3, <1>5, <1>6, <1>8, <1>9, <1>10 DEF Write

(* A document is deleted: only what nobody holds. *)
LEMMA Drops ==
    ASSUME IInv, NEW s \in Slots, DropDoc(s), Live(Doc(s)), UNCHANGED mix
    PROVE  /\ TypedDocs' /\ TypedReleases' /\ Made' /\ BasisAccepted' /\ UNCHANGED <<lines, project>>
           /\ \A d \in Docs : /\ ~Locked(d) => ~Locked(d)'
                              /\ holder[d] # None => kind'[d] = kind[d] /\ status'[d] = status[d]
  <1>1. PICK c \in Docs : c = Doc(s)
    BY DEF IInv, Slot, Aimed, DropDoc
  <1>2. TypedDocs /\ TypedReleases
    BY DEF IInv, Typed
  <1>3. /\ status' = [status EXCEPT ![c] = "deleted"] /\ UNCHANGED <<kind, project, lines>>
        /\ source' = [d \in Docs |-> IF d = c \/ source[d] = c THEN None ELSE source[d]]
        /\ stray' = IF release[c] = NoRelease THEN stray ELSE stray \cup {c}
        /\ release' = [release EXCEPT ![c] = NoRelease] /\ holder[c] = None
    BY <1>1 DEF DropDoc
  <1>4. TypedDocs' /\ TypedReleases'
    BY <1>2, <1>3 DEF TypedDocs, TypedReleases, Releases
  <1>5. Made'
    BY <1>3 DEF IInv, Made
  <1>6. \A d \in Docs : /\ status'[d] = IF d = c THEN "deleted" ELSE status[d]
                        /\ source'[d] = IF d = c \/ source[d] = c THEN None ELSE source[d]
    BY <1>2, <1>3 DEF TypedDocs
  <1>7. \A f \in Docs : Live(f)' => Live(f) /\ f # c
    BY <1>6 DEF Live, Statuses
  <1>8. BasisAccepted'
    <2> SUFFICES ASSUME NEW f \in Docs, Live(f)', source'[f] # None, status'[f] # "cancelled"
                 PROVE  kind[source'[f]] = "devis" /\ status'[source'[f]] = "accepted"
      BY <1>3 DEF BasisAccepted
    <2>1. Live(f) /\ f # c /\ source'[f] = source[f] /\ source[f] # c /\ status[f] # "cancelled" /\ source[f] \in Docs
      BY <1>2, <1>6, <1>7 DEF TypedDocs
    <2>2. kind[source[f]] = "devis" /\ status[source[f]] = "accepted"
      BY <2>1 DEF IInv, BasisAccepted
    <2> QED
      BY <1>6, <2>1, <2>2
  <1>9. \A d \in Docs : ~Locked(d) => ~Locked(d)'
    <2> SUFFICES ASSUME NEW d \in Docs, Locked(d)' PROVE Locked(d)
      OBVIOUS
    <2>1. PICK f \in Docs : Live(f)' /\ source'[f] = d /\ status'[f] # "cancelled" /\ kind[d] = "devis"
      BY <1>3 DEF Locked, Factures
    <2>2. f # c /\ Live(f) /\ source[f] = d /\ status[f] # "cancelled"
      BY <1>6, <1>7, <2>1, BillingConstants
    <2> QED
      BY <2>1, <2>2 DEF Locked, Factures
  <1>10. \A d \in Docs : holder[d] # None => kind'[d] = kind[d] /\ status'[d] = status[d]
    BY <1>3, <1>6
  <1> QED
    BY <1>3, <1>4, <1>5, <1>8, <1>9, <1>10

--------------------------------------------------------------------------------
(* The steps, by how they leave the slot that they serve. *)
LEMMA EndStep ==
    ASSUME IInv, NEW s \in Slots, End(s), UNCHANGED mix,
           TypedDocs', TypedReleases', Made', BasisAccepted',
           \A d \in Docs : holder[d] \notin {s, None} /\ Live(d) =>
               kind'[d] = kind[d] /\ status'[d] = status[d] /\ (~Locked(d) => ~Locked(d)')
    PROVE  IInv'
  <1>1. Typed /\ None \notin Slots
    BY BillingConstants DEF IInv
  <1>2. /\ TypedSlots' /\ pc'[s] = "idle" /\ \A t \in Slots \ {s} : Same(t)
        /\ \A d \in Docs : holder[d] # s => holder'[d] = holder[d]
    BY <1>1, Ended
  <1>3. Slot(s)'
    BY <1>2 DEF Slot, Aimed, Holds, Unbound, Paying, Converts, Holding, Writing
  <1>4. ASSUME NEW t \in Slots \ {s} PROVE Slot(t)'
    BY <1>1, <1>2, OtherSlot
  <1>5. Typed'
    BY <1>1, <1>2 DEF Typed
  <1> QED
    BY <1>3, <1>4, <1>5 DEF IInv

(* A step that goes on to a place where it holds no row. *)
LEMMA LooseStep ==
    ASSUME IInv, NEW s \in Slots, UNCHANGED mix, TypedSlots',
           TypedDocs', TypedReleases', Made', BasisAccepted',
           pc'[s] \notin Holding, Doc(s)' \in Docs, pc'[s] = "create" => saved'[s].project # None,
           \A t \in Slots \ {s} : Same(t),
           \A d \in Docs : holder[d] # s => holder'[d] = holder[d],
           \A d \in Docs : holder[d] \notin {s, None} /\ Live(d) =>
               kind'[d] = kind[d] /\ status'[d] = status[d] /\ (~Locked(d) => ~Locked(d)')
    PROVE  IInv'
  <1>1. Slot(s)'
    BY DEF Slot, Aimed, Holds, Unbound, Paying, Converts, Holding, Writing
  <1>2. ASSUME NEW t \in Slots \ {s} PROVE Slot(t)'
    BY OtherSlot, BillingConstants
  <1>3. Typed'
    BY DEF Typed, IInv
  <1> QED
    BY <1>1, <1>2, <1>3 DEF IInv

(* A step that holds the row from now on. *)
LEMMA LockStep ==
    ASSUME IInv, NEW s \in Slots, UNCHANGED mix, UNCHANGED tables, HoldDoc(s), UNCHANGED req,
           TypedSlots', \A t \in Slots \ {s} : Same(t), Slot(s)'
    PROVE  IInv'
  <1>1. Unmarked /\ UNCHANGED <<project, lines, release, stray>>
    BY DEF tables, Unmarked
  <1>2. Typed'
    BY <1>1 DEF Typed, IInv, TypedDocs, TypedReleases, Unmarked
  <1>3. \A d \in Docs : holder[d] # None => holder'[d] = holder[d]
    BY DEF HoldDoc, IInv, Typed, TypedSlots
  <1>4. \A d : (Locked(d)' <=> Locked(d)) /\ (Live(d)' <=> Live(d))
    BY <1>1, UnmarkedKeeps
  <1>5. ASSUME NEW t \in Slots \ {s} PROVE Slot(t)'
    <2>1. t # None
      BY BillingConstants
    <2>2. \A d \in Docs : holder[d] = t /\ Live(d) => holder'[d] = t /\ kind'[d] = kind[d] /\ status'[d] = status[d]
                                                       /\ (~Locked(d) => ~Locked(d)')
      BY <1>1, <1>3, <1>4, <2>1 DEF Unmarked
    <2> QED
      BY <2>2, OtherSlot
  <1> QED
    BY <1>1, <1>2, <1>5, UnmarkedKeeps DEF IInv

LEMMA Leaves ==
    ASSUME IInv, NEW s \in Slots, Leave(s), UNCHANGED mix
    PROVE  IInv'
  <1>1. Unmarked /\ UNCHANGED <<project, lines, release, stray>>
    BY DEF Leave, tables, Unmarked
  <1>2. TypedDocs' /\ TypedReleases'
    BY <1>1 DEF IInv, Typed, TypedDocs, TypedReleases, Unmarked
  <1> QED
    BY <1>1, <1>2, UnmarkedKeeps, EndStep DEF Leave, Unmarked

--------------------------------------------------------------------------------
(* The actions, one by one. *)
LEMMA InitInv == Init => IInv
  <1> SUFFICES ASSUME Init PROVE IInv
    OBVIOUS
  <1>1. NoReq \in Requests /\ NotSaved \in Versions /\ NoRelease \in Releases /\ "idle" \in PCs
    BY DEF NoReq, Requests, Ops, Lines, NotSaved, Versions, NoRelease, Releases, PCs
  <1>2. Typed
    BY <1>1 DEF Init, Typed, TypedSlots, TypedDocs, TypedReleases, Kinds, Lines
  <1>3. Made /\ BasisAccepted
    BY DEF Init, Made, BasisAccepted
  <1>4. \A s \in Slots : Slot(s)
    BY DEF Init, Slot, Aimed, Holds, Unbound, Paying, Converts, Holding, Writing
  <1> QED
    BY <1>2, <1>3, <1>4 DEF IInv

LEMMA CreateStep ==
    ASSUME IInv, UNCHANGED mix, NEW d \in Docs, NEW k \in Kinds, NEW st \in Statuses, NEW p \in mix.places,
           Create(d, k, st, p)
    PROVE  IInv'
  <1>1. /\ TypedDocs' /\ Made' /\ BasisAccepted' /\ UNCHANGED <<release, stray>>
        /\ \A x \in Docs : Live(x) => /\ kind'[x] = kind[x] /\ status'[x] = status[x]
                                      /\ ~Locked(x) => ~Locked(x)'
    <2>1. status[d] = "unused" /\ Write(d, k, st, None, p, 0) /\ 0 \in Lines
      BY DEF Create, Lines
    <2>2. /\ TypedDocs' /\ Made' /\ BasisAccepted' /\ UNCHANGED <<release, stray>>
          /\ \A x \in Docs : /\ Live(x) => kind'[x] = kind[x] /\ status'[x] = status[x]
                             /\ Live(x) /\ x # None /\ ~Locked(x) => ~Locked(x)'
      BY <2>1, Writes
    <2> QED
      BY <2>2, BillingConstants
  <1>2. UNCHANGED <<holder, pc, req, saved, seen>>
    BY DEF Create
  <1>3. Typed'
    <2>1. Requests' = Requests /\ Versions' = Versions
      BY DEF Requests, Versions
    <2> QED
      BY <1>1, <1>2, <2>1 DEF IInv, Typed, TypedSlots, TypedReleases
  <1>4. ASSUME NEW t \in Slots PROVE Slot(t)'
    <2>1. Same(t)
      BY <1>2 DEF Same
    <2> QED
      BY <1>1, <1>2, <2>1, OtherSlot
  <1> QED
    BY <1>1, <1>3, <1>4 DEF IInv

(* A step that leaves the documents, and a release of one at most. *)
Quiet == Unmarked /\ UNCHANGED <<mix, project, lines>> /\ TypedReleases'

LEMMA QuietLoose ==
    ASSUME IInv, NEW s \in Slots, Quiet, TypedSlots', pc'[s] \notin Holding \cup {"create"}, Doc(s)' \in Docs,
           \A t \in Slots \ {s} : Same(t), UNCHANGED holder
    PROVE  IInv'
  <1>1. TypedDocs'
    BY DEF Quiet, Unmarked, IInv, Typed, TypedDocs
  <1> QED
    BY <1>1, UnmarkedKeeps, LooseStep DEF Quiet, Unmarked

LEMMA RequestStep ==
    ASSUME IInv, UNCHANGED mix, NEW s \in Slots, NEW op \in mix.ops \cap {"status", "update", "convert", "delete"},
           NEW d \in Docs, NEW to \in mix.targets \cup {"none"}, NEW p \in mix.places, NEW v \in Lines,
           Request(s, op, d, to, p, v)
    PROVE  IInv'
  <1> DEFINE r == [op |-> op, doc |-> d, to |-> to, place |-> p, lines |-> v]
  <1>1. r \in Requests /\ FirstStep(op) \in PCs /\ FirstStep(op) \notin Holding \cup {"create"}
    BY DEF Requests, Ops, FirstStep, PCs, Holding, Writing
  <1> HIDE DEF r
  <1>2. req' = [req EXCEPT ![s] = r] /\ Goto(s, FirstStep(op)) /\ UNCHANGED <<tables, holder, saved, seen>>
    BY DEF Request, r
  <1>3. /\ pc' \in [Slots -> PCs] /\ pc'[s] = FirstStep(op) /\ \A t \in Slots \ {s} : pc'[t] = pc[t]
    BY <1>1, <1>2, Gone DEF IInv
  <1>4. req' \in [Slots -> Requests] /\ req'[s] = r /\ \A t \in Slots \ {s} : req'[t] = req[t]
    BY <1>1, <1>2 DEF IInv, Typed, TypedSlots
  <1>5. Quiet
    BY <1>2 DEF Quiet, Unmarked, tables, IInv, Typed, TypedReleases
  <1>6. TypedSlots'
    <2>1. Requests' = Requests /\ Versions' = Versions
      BY DEF Requests, Versions
    <2> QED
      BY <1>2, <1>3, <1>4, <2>1 DEF IInv, Typed, TypedSlots
  <1>7. Doc(s)' \in Docs
    BY <1>4 DEF Doc, r
  <1> QED
    BY <1>1, <1>2, <1>3, <1>4, <1>5, <1>6, <1>7, QuietLoose DEF Same

LEMMA LockDocStep ==
    ASSUME IInv, UNCHANGED mix, NEW s \in Slots, LockDoc(s)
    PROVE  IInv'
  <1>1. CASE ~Permitted(s)
    BY <1>1, Leaves DEF LockDoc
  <1>2. CASE Permitted(s)
    <2>1. PICK c \in Docs : c = Doc(s)
      BY DEF IInv, Slot, Aimed, LockDoc
    <2> DEFINE v == Edited(s)
               next == IF kind[c] = "facture" /\ v.status = "paid" THEN "sync" ELSE "commit"
    <2>2. /\ HoldDoc(s) /\ saved' = [saved EXCEPT ![s] = v] /\ Goto(s, next) /\ UNCHANGED <<tables, req, seen>>
      BY <1>2, <2>1 DEF LockDoc
    <2>3. Live(c) /\ ~Locked(c) /\ (req[s].op = "status" => req[s].to \in Moves(kind[c], status[c]))
      BY <1>2, <2>1 DEF Permitted
    <2>4. v \in Versions /\ v.status \in Statuses /\ (kind[c] = "facture" /\ status[c] = "cancelled" => v.status = "cancelled")
      <3>1. kind[c] \in Kinds /\ status[c] \in Statuses /\ project[c] \in mix.places \cup {None} /\ lines[c] \in Lines
        BY <2>3 DEF IInv, Typed, TypedDocs, Live
      <3>2. req[s].place \in mix.places \cup {None} /\ req[s].lines \in Lines
        BY DEF IInv, Typed, TypedSlots, Requests
      <3>3. Moves(kind[c], status[c]) \subseteq Statuses /\ (kind[c] = "facture" /\ status[c] = "cancelled" => Moves(kind[c], status[c]) = {})
        BY <3>1 DEF Moves, Kinds, Statuses
      <3> QED
        BY <2>1, <2>3, <3>1, <3>2, <3>3 DEF Edited, Versions
    <2> HIDE DEF v
    <2>5. next \in {"sync", "commit"} /\ next \in PCs
      BY DEF PCs
    <2>6. (next = "sync" => kind[c] = "facture" /\ v.status = "paid")
          /\ (next = "commit" => ~(kind[c] = "facture" /\ v.status = "paid"))
      OBVIOUS
    <2> HIDE DEF next
    <2>7. pc' \in [Slots -> PCs] /\ pc'[s] = next /\ \A t \in Slots \ {s} : pc'[t] = pc[t]
      BY <2>2, <2>5, Gone DEF IInv
    <2>8. saved' \in [Slots -> Versions] /\ saved'[s] = v /\ \A t \in Slots \ {s} : saved'[t] = saved[t]
      BY <2>2, <2>4 DEF IInv, Typed, TypedSlots
    <2>9. holder' \in [Docs -> Slots \cup {None}] /\ holder'[c] = s
      BY <2>1, <2>2 DEF HoldDoc, IInv, Typed, TypedSlots
    <2>10. TypedSlots'
      <3>1. Requests' = Requests /\ Versions' = Versions
        BY DEF Requests, Versions
      <3> QED
        BY <2>2, <2>7, <2>8, <2>9, <3>1 DEF IInv, Typed, TypedSlots
    <2>11. Doc(s)' = c /\ Unmarked
      BY <2>1, <2>2 DEF Doc, tables, Unmarked
    <2>12. Live(c)' /\ ~Locked(c)'
      BY <2>3, <2>11, UnmarkedKeeps
    <2>13. Slot(s)'
      <3>1. Aimed(s)' /\ Holds(s)' /\ Paying(s)' /\ Converts(s)'
        BY <2>5, <2>6, <2>7, <2>8, <2>9, <2>11, <2>12 DEF Aimed, Holds, Paying, Converts, Live, Unmarked
      <3>2. Unbound(s)'
        BY <2>4, <2>8, <2>11, <2>12 DEF Unbound, Locked, Factures, Live, Unmarked
      <3> QED
        BY <3>1, <3>2 DEF Slot
    <2> QED
      BY <2>2, <2>7, <2>8, <2>10, <2>13, LockStep DEF Same
  <1> QED
    BY <1>1, <1>2

LEMMA SaveAndEnd ==
    ASSUME IInv, UNCHANGED mix, NEW s \in Slots, pc[s] \in {"commit", "apply"}, NEW r \in Releases,
           Save(s, r), End(s)
    PROVE  IInv'
  BY Saves, EndStep

(* The release that a request leaves behind is a release. *)
LEMMA MirrorIsRelease ==
    ASSUME IInv, NEW s \in Slots
    PROVE  /\ saved[s].project # None => Mirror(s) \in Releases /\ Mirror(s) # NoRelease
           /\ NoRelease \in Releases /\ \A d \in Docs : release[d] \in Releases
           /\ seen[s] \in Releases /\ (seen[s] # NoRelease => seen[s].project \in Projects)
  <1>1. saved[s].project \in mix.places \cup {None} /\ saved[s].lines \in Lines /\ mix \in Mixes
    BY DEF IInv, Typed, TypedSlots, Versions
  <1>2. saved[s].project # None => saved[s].project \in Projects
    BY <1>1, BillingConstants
  <1>3. saved[s].project # None => Mirror(s) \in Releases /\ Mirror(s) # NoRelease
    BY <1>1, <1>2 DEF Mirror, Releases, NoRelease
  <1>4. \A d \in Docs : release[d] \in Releases
    BY DEF IInv, Typed, TypedReleases
  <1>5. seen[s] \in Releases
    BY DEF IInv, Typed, TypedSlots
  <1> QED
    BY <1>3, <1>4, <1>5 DEF Releases, NoRelease

LEMMA CommitStep ==
    ASSUME IInv, UNCHANGED mix, NEW s \in Slots, CommitDoc(s)
    PROVE  IInv'
  <1>1. Doc(s) \in Docs
    BY DEF CommitDoc, IInv, Slot, Aimed
  <1> DEFINE r == IF kind[Doc(s)] = "facture" /\ status[Doc(s)] = "paid" /\ saved[s].status # "paid"
                  THEN NoRelease ELSE release[Doc(s)]
  <1>2. r \in Releases
    BY <1>1, MirrorIsRelease
  <1>3. Save(s, r) /\ End(s) /\ pc[s] = "commit"
    BY DEF CommitDoc
  <1> QED
    BY <1>2, <1>3, SaveAndEnd

LEMMA ApplySteps ==
    ASSUME IInv, UNCHANGED mix, NEW s \in Slots, UpdateRelease(s) \/ InsertRelease(s)
    PROVE  IInv'
  <1>1. pc[s] = "apply" /\ Doc(s) \in Docs
    BY DEF UpdateRelease, InsertRelease, IInv, Slot, Aimed
  <1>2. CASE Leave(s)
    BY <1>2, Leaves
  <1>3. CASE UpdateRelease(s) /\ ~Leave(s)
    <2>1. Save(s, Mirror(s)) /\ End(s) /\ saved[s].project # None
      BY <1>3, MirrorIsRelease, BillingConstants DEF UpdateRelease
    <2> QED
      BY <1>1, <2>1, MirrorIsRelease, SaveAndEnd
  <1>4. CASE InsertRelease(s) /\ ~Leave(s)
    <2> DEFINE r == IF saved[s].project = None THEN release[Doc(s)] ELSE Mirror(s)
    <2>1. Save(s, r) /\ End(s)
      BY <1>4 DEF InsertRelease
    <2>2. r \in Releases
      BY <1>1, MirrorIsRelease
    <2> QED
      BY <1>1, <2>1, <2>2, SaveAndEnd
  <1> QED
    BY <1>2, <1>3, <1>4

LEMMA MoveStep ==
    ASSUME IInv, UNCHANGED mix, NEW s \in Slots, MoveRelease(s)
    PROVE  IInv'
  <1>1. pc[s] = "apply" /\ Save(s, NoRelease) /\ Doc(s) \in Docs
    BY DEF MoveRelease, IInv, Slot, Aimed
  <1>2. CASE End(s)
    BY <1>1, <1>2, MirrorIsRelease, SaveAndEnd
  <1>3. CASE LetGo(s) /\ Goto(s, "create") /\ UNCHANGED <<req, saved, seen>>
    <2>1. /\ pc' \in [Slots -> PCs] /\ pc'[s] = "create" /\ \A t \in Slots \ {s} : pc'[t] = pc[t]
      BY <1>3, Gone DEF IInv, PCs
    <2>2. holder' \in [Docs -> Slots \cup {None}] /\ \A d \in Docs : holder[d] # s => holder'[d] = holder[d]
      BY <1>3 DEF LetGo, IInv, Typed, TypedSlots
    <2>3. TypedSlots'
      <3>1. Requests' = Requests /\ Versions' = Versions
        BY DEF Requests, Versions
      <3> QED
        BY <1>3, <2>1, <2>2, <3>1 DEF IInv, Typed, TypedSlots
    <2>4. /\ TypedDocs' /\ TypedReleases' /\ Made' /\ BasisAccepted'
          /\ \A d \in Docs : /\ ~Locked(d) => ~Locked(d)'
                             /\ holder[d] # s => kind'[d] = kind[d] /\ status'[d] = status[d]
      BY <1>1, MirrorIsRelease, Saves
    <2>5. pc'[s] \notin Holding /\ Doc(s)' \in Docs /\ \A t \in Slots \ {s} : Same(t)
      BY <1>1, <1>3, <2>1 DEF Holding, Writing, Doc, Same
    <2>6. CASE saved[s].project # None
      BY <1>3, <2>2, <2>3, <2>4, <2>5, <2>6, LooseStep
    <2> QED
      BY <1>2, <2>6 DEF MoveRelease
  <1> QED
    BY <1>2, <1>3 DEF MoveRelease

LEMMA FindStep ==
    ASSUME IInv, UNCHANGED mix, NEW s \in Slots, FindRelease(s)
    PROVE  IInv'
  <1>1. PICK c \in Docs : c = Doc(s)
    BY DEF FindRelease, IInv, Slot, Aimed
  <1>2. /\ pc[s] = "sync" /\ seen' = [seen EXCEPT ![s] = release[c]] /\ Goto(s, "apply")
        /\ UNCHANGED <<tables, holder, req, saved>>
    BY <1>1 DEF FindRelease
  <1>3. /\ pc' \in [Slots -> PCs] /\ pc'[s] = "apply" /\ \A t \in Slots \ {s} : pc'[t] = pc[t]
    BY <1>2, Gone DEF IInv, PCs
  <1>4. seen' \in [Slots -> Releases] /\ \A t \in Slots \ {s} : seen'[t] = seen[t]
    BY <1>2, MirrorIsRelease DEF IInv, Typed, TypedSlots
  <1>5. Unmarked /\ UNCHANGED <<project, lines, release, stray, holder, req, saved>>
    BY <1>2 DEF tables, Unmarked
  <1>6. Typed'
    <2>1. Requests' = Requests /\ Versions' = Versions
      BY DEF Requests, Versions
    <2> QED
      BY <1>3, <1>4, <1>5, <2>1 DEF IInv, Typed, TypedSlots, TypedDocs, TypedReleases, Unmarked
  <1>7. \A d : (Locked(d)' <=> Locked(d)) /\ (Live(d)' <=> Live(d))
    BY <1>5, UnmarkedKeeps
  <1>8. Slot(s)'
    <2>1. Doc(s)' = c
      BY <1>1, <1>5 DEF Doc
    <2>2. Slot(s)
      BY DEF IInv
    <2>3. Aimed(s)' /\ Holds(s)' /\ Paying(s)' /\ Converts(s)'
      BY <1>1, <1>2, <1>3, <1>5, <1>7, <2>1, <2>2
         DEF Slot, Aimed, Holds, Paying, Converts, Unmarked, Live, Holding, Writing
    <2>4. ~Locked(c)' /\ saved[s].status \in Statuses /\ (kind[c] = "facture" /\ status[c] = "cancelled" => saved[s].status = "cancelled")
      BY <1>1, <1>2, <1>7, <2>2 DEF Slot, Unbound, Writing
    <2>5. Unbound(s)'
      BY <1>5, <2>1, <2>4 DEF Unbound, Unmarked, Locked, Factures, Live
    <2> QED
      BY <2>3, <2>5 DEF Slot
  <1>9. ASSUME NEW t \in Slots \ {s} PROVE Slot(t)'
    BY <1>3, <1>4, <1>5, <1>7, OtherSlot DEF Same, Unmarked
  <1> QED
    BY <1>5, <1>6, <1>8, <1>9, UnmarkedKeeps DEF IInv

LEMMA RecreateStep ==
    ASSUME IInv, UNCHANGED mix, NEW s \in Slots, CreateRelease(s)
    PROVE  IInv'
  <1>1. CASE Leave(s)
    BY <1>1, Leaves
  <1>2. CASE ~Leave(s)
    <2>1. /\ End(s) /\ pc[s] = "create" /\ release' = [release EXCEPT ![Doc(s)] = Mirror(s)]
          /\ UNCHANGED <<kind, status, source, project, lines, stray>>
      BY <1>2 DEF CreateRelease
    <2>2. Mirror(s) \in Releases
      BY <2>1, MirrorIsRelease DEF IInv, Slot, Paying
    <2>3. TypedDocs' /\ TypedReleases' /\ Unmarked
      BY <2>1, <2>2 DEF IInv, Typed, TypedDocs, TypedReleases, Unmarked
    <2> QED
      BY <2>1, <2>3, UnmarkedKeeps, EndStep DEF Unmarked
  <1> QED
    BY <1>1, <1>2

LEMMA LockDevisStep ==
    ASSUME IInv, UNCHANGED mix, NEW s \in Slots, LockDevis(s)
    PROVE  IInv'
  <1>1. CASE Leave(s)
    BY <1>1, Leaves
  <1>2. CASE ~Leave(s)
    <2>1. PICK c \in Docs : c = Doc(s)
      BY DEF IInv, Slot, Aimed, LockDevis
    <2> DEFINE v == [status |-> "draft", project |-> project[c], lines |-> lines[c]]
    <2>2. /\ HoldDoc(s) /\ saved' = [saved EXCEPT ![s] = v] /\ Goto(s, "insert") /\ UNCHANGED <<tables, req, seen>>
          /\ Live(c) /\ kind[c] = "devis" /\ status[c] = "accepted"
      BY <1>2, <2>1 DEF LockDevis
    <2>3. v \in Versions
      BY DEF IInv, Typed, TypedDocs, Versions, Statuses
    <2> HIDE DEF v
    <2>4. pc' \in [Slots -> PCs] /\ pc'[s] = "insert" /\ \A t \in Slots \ {s} : pc'[t] = pc[t]
      BY <2>2, Gone DEF IInv, PCs
    <2>5. saved' \in [Slots -> Versions] /\ saved'[s] = v /\ \A t \in Slots \ {s} : saved'[t] = saved[t]
      BY <2>2, <2>3 DEF IInv, Typed, TypedSlots
    <2>6. holder' \in [Docs -> Slots \cup {None}] /\ holder'[c] = s
      BY <2>1, <2>2 DEF HoldDoc, IInv, Typed, TypedSlots
    <2>7. TypedSlots'
      <3>1. Requests' = Requests /\ Versions' = Versions
        BY DEF Requests, Versions
      <3> QED
        BY <2>2, <2>4, <2>5, <2>6, <3>1 DEF IInv, Typed, TypedSlots
    <2>8. Doc(s)' = c /\ Unmarked
      BY <2>1, <2>2 DEF Doc, tables, Unmarked
    <2>9. Slot(s)'
      BY <2>2, <2>4, <2>6, <2>8
         DEF Slot, Aimed, Holds, Unbound, Paying, Converts, Holding, Writing, Live, Unmarked, Statuses
    <2> QED
      BY <2>2, <2>4, <2>5, <2>7, <2>9, LockStep DEF Same
  <1> QED
    BY <1>1, <1>2

LEMMA InsertStep ==
    ASSUME IInv, UNCHANGED mix, NEW s \in Slots, InsertFacture(s)
    PROVE  IInv'
  <1>1. CASE Leave(s)
    BY <1>1, Leaves
  <1>2. CASE ~Leave(s)
    <2>1. PICK c \in Docs : c = Doc(s)
      BY DEF IInv, Slot, Aimed, InsertFacture
    <2>2. pc[s] = "insert" /\ End(s) /\ Live(c)
      BY <1>2, <2>1 DEF InsertFacture
    <2>3. PICK f \in Unused : Write(f, "facture", "draft", c, saved[s].project, saved[s].lines)
      BY <1>2, <2>1 DEF InsertFacture
    <2>4. kind[c] = "devis" /\ status[c] = "accepted" /\ holder[c] = s
      BY <2>1, <2>2 DEF IInv, Slot, Converts, Holds, Holding
    <2>5. saved[s].project \in mix.places \cup {None} /\ saved[s].lines \in Lines
      BY DEF IInv, Typed, TypedSlots, Versions
    <2>6. f \in Docs /\ status[f] = "unused" /\ "facture" \in Kinds /\ "draft" \in Statuses
      BY DEF Unused, Kinds, Statuses
    <2>7. /\ TypedDocs' /\ Made' /\ BasisAccepted' /\ UNCHANGED <<release, stray>>
          /\ \A x \in Docs : /\ Live(x) => kind'[x] = kind[x] /\ status'[x] = status[x]
                             /\ Live(x) /\ x # c /\ ~Locked(x) => ~Locked(x)'
      <3>1. PICK p \in mix.places \cup {None}, v \in Lines : p = saved[s].project /\ v = saved[s].lines
        BY <2>5
      <3>2. Write(f, "facture", "draft", c, p, v)
        BY <2>3, <3>1
      <3> QED
        BY <2>2, <2>4, <2>6, <3>2, Writes
    <2>8. TypedReleases'
      BY <2>7 DEF IInv, Typed, TypedReleases
    <2> QED
      BY <2>2, <2>4, <2>7, <2>8, EndStep
  <1> QED
    BY <1>1, <1>2

(* Deleting, in its three steps. *)
LEMMA DeleteSteps ==
    ASSUME IInv, UNCHANGED mix, NEW s \in Slots, ReadToDelete(s) \/ DeleteRelease(s)
    PROVE  IInv'
  <1>1. CASE Leave(s)
    BY <1>1, Leaves
  <1>2. CASE ~Leave(s)
    <2>1. PICK c \in Docs : c = Doc(s)
      BY DEF IInv, Slot, Aimed, ReadToDelete, DeleteRelease
    <2>2. PICK next \in {"unrelease", "drop"} : Goto(s, next)
      BY <1>2 DEF ReadToDelete, DeleteRelease
    <2>3. UNCHANGED <<kind, status, source, project, lines, stray, holder, req, saved, seen>>
          /\ (UNCHANGED release \/ release' = [release EXCEPT ![c] = NoRelease])
      BY <1>2, <2>1 DEF ReadToDelete, DeleteRelease, tables
    <2>4. pc' \in [Slots -> PCs] /\ pc'[s] = next /\ \A t \in Slots \ {s} : pc'[t] = pc[t]
      BY <2>2, Gone DEF IInv, PCs
    <2>5. TypedSlots'
      <3>1. Requests' = Requests /\ Versions' = Versions
        BY DEF Requests, Versions
      <3> QED
        BY <2>3, <2>4, <3>1 DEF IInv, Typed, TypedSlots
    <2>6. Quiet
      BY <2>3, MirrorIsRelease DEF Quiet, Unmarked, IInv, Typed, TypedReleases
    <2> QED
      BY <2>1, <2>3, <2>4, <2>5, <2>6, QuietLoose DEF Doc, Same, Holding, Writing
  <1> QED
    BY <1>1, <1>2

LEMMA DropStep ==
    ASSUME IInv, UNCHANGED mix, NEW s \in Slots, DropDoc(s)
    PROVE  IInv'
  <1>1. CASE ~Live(Doc(s))
    BY <1>1, Leaves DEF DropDoc
  <1>2. CASE Live(Doc(s))
    <2>1. End(s)
      BY <1>2 DEF DropDoc
    <2> QED
      BY <1>2, <2>1, Drops, EndStep
  <1> QED
    BY <1>1, <1>2

LEMMA NextInv == IInv /\ [Next]_vars => IInv'
  <1> SUFFICES ASSUME IInv, [Next]_vars PROVE IInv'
    OBVIOUS
  <1>1. CASE UNCHANGED vars
    <2>1. Unmarked /\ UNCHANGED <<mix, project, lines, release, stray, holder, pc, req, saved, seen>>
      BY <1>1 DEF vars, Unmarked
    <2>2. Typed'
      <3>1. Requests' = Requests /\ Versions' = Versions
        BY <2>1 DEF Requests, Versions
      <3> QED
        BY <2>1, <3>1 DEF IInv, Typed, TypedSlots, TypedDocs, TypedReleases, Unmarked
    <2>3. ASSUME NEW t \in Slots PROVE Slot(t)'
      BY <2>1, UnmarkedKeeps, OtherSlot DEF Same, Unmarked
    <2> QED
      BY <2>1, <2>2, <2>3, UnmarkedKeeps DEF IInv
  <1>2. CASE Next
    <2>1. UNCHANGED mix
      BY <1>2 DEF Next
    <2>2. CASE \E d \in Docs, k \in Kinds, st \in Statuses, p \in mix.places : Create(d, k, st, p)
      BY <2>1, <2>2, CreateStep
    <2>3. CASE \E s \in Slots, op \in mix.ops \cap {"status", "update", "convert", "delete"}, d \in Docs,
                  to \in mix.targets \cup {"none"}, p \in mix.places, v \in Lines : Request(s, op, d, to, p, v)
      BY <2>1, <2>3, RequestStep
    <2>4. ASSUME NEW s \in Slots, Killed(s) PROVE IInv'
      BY <2>1, <2>4, Leaves DEF Killed
    <2>5. ASSUME NEW s \in Slots, Step(s) PROVE IInv'
      BY <2>1, <2>5, LockDocStep, CommitStep, FindStep, ApplySteps, MoveStep, RecreateStep, LockDevisStep,
         InsertStep, DeleteSteps, DropStep DEF Step
    <2> QED
      BY <1>2, <2>2, <2>3, <2>4, <2>5 DEF Next
  <1> QED
    BY <1>1, <1>2

(* The inductive invariant: what a request holds, what it will write, and   *)
(* what stands on it.                                                       *)
THEOREM DocumentsInvariant == Spec => []IInv
  BY InitInv, NextInv, PTL DEF Spec

(* Every document and request is of its type. *)
THEOREM TypeCorrect == Spec => []TypeOK
  <1>1. IInv => TypeOK
    <2> SUFFICES ASSUME IInv PROVE TypeOK
      OBVIOUS
    <2>1. mix.places \cup {None} \subseteq Places
      BY BillingConstants DEF IInv, Typed, Places
    <2> QED
      BY <2>1 DEF IInv, Typed, TypedSlots, TypedDocs, TypedReleases, TypeOK
  <1> QED
    BY <1>1, DocumentsInvariant, PTL

(* A facture that is not cancelled stands on the accepted devis it was made *)
(* from, whatever requests overlap, fail or die.                            *)
THEOREM FactureStandsOnAccepted == Spec => []BasisAccepted
  <1>1. IInv => BasisAccepted
    BY DEF IInv
  <1> QED
    BY <1>1, DocumentsInvariant, PTL

(* What a facture stands on is written by nobody. *)
LEMMA UnchangedStep ==
    ASSUME IInv, [Next]_vars
    PROVE  \A d \in Docs : Locked(d) => lines'[d] = lines[d] /\ project'[d] = project[d]
  <1> DEFINE Kept == \A d \in Docs : Locked(d) => lines'[d] = lines[d] /\ project'[d] = project[d]
  <1>1. CASE UNCHANGED <<lines, project>>
    BY <1>1
  <1>2. ASSUME UNCHANGED mix, NEW s \in Slots, pc[s] \in {"commit", "apply"}, NEW r \in Releases, Save(s, r)
        PROVE  Kept
    BY <1>2, Saves
  <1>3. ASSUME UNCHANGED mix, NEW d \in Docs, NEW k \in Kinds, NEW st \in Statuses, NEW p \in mix.places,
               Create(d, k, st, p)
        PROVE  Kept
    BY <1>3, Writes DEF Create, Lines
  <1>4. ASSUME NEW s \in Slots, InsertFacture(s) PROVE Kept
    <2>1. CASE Leave(s)
      BY <1>1, <2>1 DEF Leave, tables
    <2>2. CASE ~Leave(s)
      <3>1. PICK f \in Docs : status[f] = "unused"
                /\ Write(f, "facture", "draft", Doc(s), saved[s].project, saved[s].lines)
        BY <1>4, <2>2 DEF InsertFacture, Unused
      <3>2. \A d \in Docs : d # f => lines'[d] = lines[d] /\ project'[d] = project[d]
        BY <3>1 DEF Write, IInv, Typed, TypedDocs
      <3> QED
        BY <3>1, <3>2, LockedIsAccepted
    <2> QED
      BY <2>1, <2>2
  <1>5. ASSUME UNCHANGED mix, NEW s \in Slots, Step(s) PROVE Kept
    <2>0. Doc(s) \in Docs
      BY <1>5 DEF Step, LockDoc, CommitDoc, FindRelease, UpdateRelease, InsertRelease, MoveRelease, CreateRelease,
                  LockDevis, InsertFacture, ReadToDelete, DeleteRelease, DropDoc, IInv, Slot, Aimed
    <2>1. CASE Leave(s)
      BY <1>1, <2>1 DEF Leave, tables
    <2>2. CASE CommitDoc(s)
      <3>1. \E r \in {NoRelease, release[Doc(s)]} : Save(s, r)
        BY <2>2 DEF CommitDoc
      <3> QED
        BY <1>2, <1>5, <2>0, <2>2, <3>1, MirrorIsRelease DEF CommitDoc
    <2>3. CASE UpdateRelease(s) /\ ~Leave(s)
      <3>1. Save(s, Mirror(s)) /\ saved[s].project # None
        BY <2>3, MirrorIsRelease, BillingConstants DEF UpdateRelease
      <3> QED
        BY <1>2, <1>5, <2>3, <3>1, MirrorIsRelease DEF UpdateRelease
    <2>4. CASE InsertRelease(s) /\ ~Leave(s)
      <3>1. Save(s, IF saved[s].project = None THEN release[Doc(s)] ELSE Mirror(s))
        BY <2>4 DEF InsertRelease
      <3> QED
        BY <1>2, <1>5, <2>0, <2>4, <3>1, MirrorIsRelease DEF InsertRelease
    <2>5. CASE MoveRelease(s)
      BY <1>2, <1>5, <2>5, MirrorIsRelease DEF MoveRelease
    <2>6. CASE LockDoc(s) \/ LockDevis(s) \/ FindRelease(s) \/ ReadToDelete(s) \/ DeleteRelease(s)
      BY <1>1, <2>1, <2>6 DEF LockDoc, LockDevis, FindRelease, ReadToDelete, DeleteRelease, tables
    <2>7. CASE CreateRelease(s) \/ DropDoc(s)
      BY <1>1, <2>1, <2>7 DEF CreateRelease, DropDoc
    <2> QED
      BY <1>4, <1>5, <2>1, <2>2, <2>3, <2>4, <2>5, <2>6, <2>7 DEF Step
  <1>6. ASSUME NEW s \in Slots, Killed(s) PROVE Kept
    BY <1>1, <1>6 DEF Killed, Leave, tables
  <1>7. CASE \E s \in Slots, op \in mix.ops \cap {"status", "update", "convert", "delete"}, d \in Docs,
                to \in mix.targets \cup {"none"}, p \in mix.places, v \in Lines : Request(s, op, d, to, p, v)
    BY <1>1, <1>7 DEF Request, tables
  <1>8. CASE UNCHANGED vars
    BY <1>1, <1>8 DEF vars
  <1> QED
    BY <1>3, <1>5, <1>6, <1>7, <1>8 DEF Next

(* No edit changes a devis under the facture that was made from it. *)
THEOREM DevisKeepsWhatWasInvoiced == Spec => BasisUnchanged
  <1>1. IInv /\ [Next]_vars => [\A d \in Docs : Locked(d) => lines'[d] = lines[d] /\ project'[d] = project[d]]_vars
    BY UnchangedStep
  <1> QED
    BY <1>1, DocumentsInvariant, PTL DEF Spec, BasisUnchanged

--------------------------------------------------------------------------------
(* The releases: as long as nothing is cut short or in two places, or one  *)
(* request after another.                                                  *)
Covered == Uncut \/ mix.alone

(* A release is of a paid facture, as it stands; with nothing cut short,   *)
(* every paid facture of a project has one.                                *)
Sound == \A d \in Docs : release[d] # NoRelease =>
    kind[d] = "facture" /\ status[d] = "paid" /\ release[d] = [project |-> project[d], lines |-> lines[d]]
Complete == \A d \in Docs : kind[d] = "facture" /\ status[d] = "paid" /\ project[d] # None => release[d] # NoRelease

(* The release a request has seen is the one there is. *)
Found(s) == pc[s] = "apply" => seen[s] = release[Doc(s)]

(* With nothing cut short, no request has let its row go to finish later;  *)
(* one after another, what one that has comes back to is as it left it.    *)
Whole(s) == pc[s] \notin {"create", "read", "unrelease", "drop"}
Single   == \A s, t \in Slots : pc[s] # "idle" /\ pc[t] # "idle" => s = t
Resumes(s) ==
    /\ pc[s] = "create" => /\ kind[Doc(s)] = "facture" /\ status[Doc(s)] = "paid"
                           /\ project[Doc(s)] = saved[s].project /\ lines[Doc(s)] = saved[s].lines
    /\ pc[s] = "drop" => release[Doc(s)] = NoRelease

FundsInv ==
    /\ Covered => Sound /\ stray = {} /\ \A s \in Slots : Found(s)
    /\ Uncut => Complete /\ \A s \in Slots : Whole(s)
    /\ mix.alone => Single /\ \A s \in Slots : Resumes(s)

LEMMA CoveredKept == ASSUME UNCHANGED mix PROVE (Covered' <=> Covered) /\ (Uncut' <=> Uncut)
  BY DEF Covered, Uncut

LEMMA FundsInit == Init => FundsInv
  BY DEF Init, FundsInv, Sound, Complete, Found, Whole, Single, Resumes

(* A step that ends the request of s and does no harm to the releases.     *)
LEMMA FundsEnd ==
    ASSUME IInv, FundsInv, UNCHANGED mix, NEW s \in Slots, pc[s] # "idle", End(s), UNCHANGED stray,
           Covered => Sound', Uncut => Complete',
           mix.alone \/ pc[s] \in Holding \/ UNCHANGED release,
           \A d \in Docs : d # Doc(s) => release'[d] = release[d]
    PROVE  FundsInv'
  <1>1. pc'[s] = "idle" /\ \A t \in Slots \ {s} : Same(t)
    BY Ended DEF IInv
  <1>2. mix.alone => \A t \in Slots \ {s} : pc[t] = "idle"
    BY DEF FundsInv, Single
  <1>3. ASSUME Covered, NEW t \in Slots PROVE Found(t)'
    <2>1. CASE t = s
      BY <1>1, <2>1 DEF Found
    <2>2. CASE t # s /\ mix.alone
      BY <1>1, <1>2, <2>2 DEF Found, Same
    <2>3. CASE t # s /\ pc[t] = "apply" /\ pc[s] \in Holding
      <3>1. Doc(t) # Doc(s) /\ Doc(t) \in Docs
        BY <2>3 DEF IInv, Slot, Holds, Aimed, Holding, Writing
      <3> QED
        BY <1>1, <1>3, <2>3, <3>1 DEF FundsInv, Found, Same, Doc
    <2>4. CASE t # s /\ UNCHANGED release
      BY <1>1, <1>3, <2>4 DEF FundsInv, Found, Same, Doc
    <2>5. CASE t # s /\ pc[t] # "apply"
      BY <1>1, <2>5 DEF Found, Same
    <2> QED
      BY <2>1, <2>2, <2>3, <2>4, <2>5
  <1>4. ASSUME Uncut, NEW t \in Slots PROVE Whole(t)'
    BY <1>1, <1>4 DEF FundsInv, Whole, Same
  <1>5. ASSUME mix.alone PROVE Single' /\ \A t \in Slots : Resumes(t)'
    BY <1>1, <1>2, <1>5 DEF Single, Resumes, Same
  <1> QED
    BY <1>3, <1>4, <1>5, CoveredKept DEF FundsInv

(* A step of s that goes on, and one that begins. *)
LEMMA FundsGoOn ==
    ASSUME IInv, FundsInv, UNCHANGED mix, NEW s \in Slots, UNCHANGED tables,
           \A t \in Slots \ {s} : Same(t),
           pc[s] # "idle" \/ (mix.alone => \A t \in Slots : pc[t] = "idle"),
           Covered => Found(s)', Uncut => Whole(s)', mix.alone => Resumes(s)'
    PROVE  FundsInv'
  <1>1. UNCHANGED <<kind, status, source, project, lines, release, stray>>
    BY DEF tables
  <1>2. mix.alone => \A t \in Slots \ {s} : pc[t] = "idle"
    BY DEF FundsInv, Single
  <1>3. ASSUME Covered, NEW t \in Slots PROVE Found(t)'
    BY <1>1, <1>3 DEF FundsInv, Found, Same, Doc
  <1>4. ASSUME Uncut, NEW t \in Slots PROVE Whole(t)'
    BY <1>4 DEF FundsInv, Whole, Same
  <1>5. ASSUME mix.alone PROVE Single' /\ \A t \in Slots : Resumes(t)'
    BY <1>2, <1>5 DEF Single, Resumes, Same
  <1>6. (Sound => Sound') /\ (Complete => Complete') /\ (stray = {} => stray' = {})
    BY <1>1 DEF Sound, Complete
  <1> QED
    BY <1>3, <1>4, <1>5, <1>6, CoveredKept DEF FundsInv

LEMMA FundsLeave ==
    ASSUME IInv, FundsInv, UNCHANGED mix, NEW s \in Slots, pc[s] # "idle", Leave(s)
    PROVE  FundsInv'
  <1>1. UNCHANGED <<kind, status, project, lines, release, stray>> /\ End(s)
    BY DEF Leave, tables
  <1>2. (Sound => Sound') /\ (Complete => Complete')
    BY <1>1 DEF Sound, Complete
  <1> QED
    BY <1>1, <1>2, FundsEnd DEF FundsInv, Covered

(* The release that is due to what a request writes. *)
Due(s) == IF kind[Doc(s)] = "facture" /\ saved[s].status = "paid" /\ saved[s].project # None
          THEN Mirror(s) ELSE NoRelease

LEMMA FundsSave ==
    ASSUME IInv, FundsInv, UNCHANGED mix, NEW s \in Slots, pc[s] \in {"commit", "apply"},
           Covered, Save(s, Due(s)), End(s)
    PROVE  FundsInv'
  <1>1. PICK c \in Docs : c = Doc(s)
    BY DEF IInv, Slot, Aimed
  <1> DEFINE r == Due(s)
             v == saved[s]
  <1>2. /\ (r # NoRelease => kind[c] = "facture" /\ v.status = "paid" /\ r = [project |-> v.project, lines |-> v.lines])
        /\ (kind[c] = "facture" /\ v.status = "paid" /\ v.project # None => r # NoRelease)
    BY <1>1, MirrorIsRelease DEF Due, Mirror
  <1> HIDE DEF r, v
  <1>3. /\ status' = [status EXCEPT ![c] = v.status] /\ UNCHANGED <<kind, source, stray>>
        /\ project' = [project EXCEPT ![c] = v.project]
        /\ lines' = [lines EXCEPT ![c] = v.lines] /\ release' = [release EXCEPT ![c] = r]
    BY <1>1 DEF Save, r, v
  <1>4. TypedDocs /\ TypedReleases
    BY DEF IInv, Typed
  <1>5. \A d \in Docs : /\ status'[d] = IF d = c THEN v.status ELSE status[d]
                        /\ project'[d] = IF d = c THEN v.project ELSE project[d]
                        /\ lines'[d] = IF d = c THEN v.lines ELSE lines[d]
                        /\ release'[d] = IF d = c THEN r ELSE release[d]
    BY <1>3, <1>4 DEF TypedDocs, TypedReleases
  <1>6. Sound'
    <2> SUFFICES ASSUME NEW d \in Docs, release'[d] # NoRelease
                 PROVE  kind[d] = "facture" /\ status'[d] = "paid"
                        /\ release'[d] = [project |-> project'[d], lines |-> lines'[d]]
      BY <1>3 DEF Sound
    <2>1. CASE d = c
      BY <1>2, <1>5, <2>1
    <2>2. CASE d # c
      BY <1>5, <2>2 DEF FundsInv, Sound
    <2> QED
      BY <2>1, <2>2
  <1>7. Uncut => Complete'
    <2> SUFFICES ASSUME Uncut, NEW d \in Docs, kind[d] = "facture", status'[d] = "paid", project'[d] # None
                 PROVE  release'[d] # NoRelease
      BY <1>3 DEF Complete
    <2>1. CASE d = c
      BY <1>2, <1>5, <2>1
    <2>2. CASE d # c
      BY <1>5, <2>2 DEF FundsInv, Complete
    <2> QED
      BY <2>1, <2>2
  <1>8. pc[s] \in Holding /\ pc[s] # "idle"
    BY DEF Holding, Writing
  <1> QED
    BY <1>1, <1>3, <1>5, <1>6, <1>7, <1>8, FundsEnd

LEMMA FundsCommit ==
    ASSUME IInv, FundsInv, UNCHANGED mix, NEW s \in Slots, CommitDoc(s), Covered
    PROVE  FundsInv'
  <1>1. pc[s] = "commit" /\ End(s) /\ Doc(s) \in Docs
    BY DEF CommitDoc, IInv, Slot, Aimed
  <1>2. ~(kind[Doc(s)] = "facture" /\ saved[s].status = "paid")
    BY <1>1 DEF IInv, Slot, Paying
  <1>3. Due(s) = NoRelease
    BY <1>2 DEF Due
  <1>4. Save(s, NoRelease)
    <2>1. release[Doc(s)] # NoRelease => kind[Doc(s)] = "facture" /\ status[Doc(s)] = "paid"
      BY <1>1 DEF FundsInv, Sound
    <2> QED
      BY <1>2, <2>1 DEF CommitDoc
  <1> QED
    BY <1>1, <1>3, <1>4, FundsSave

LEMMA FundsApply ==
    ASSUME IInv, FundsInv, UNCHANGED mix, NEW s \in Slots, Covered,
           UpdateRelease(s) \/ InsertRelease(s) \/ MoveRelease(s)
    PROVE  FundsInv'
  <1>1. pc[s] = "apply" /\ Doc(s) \in Docs
    BY DEF UpdateRelease, InsertRelease, MoveRelease, IInv, Slot, Aimed
  <1>2. kind[Doc(s)] = "facture" /\ saved[s].status = "paid" /\ seen[s] = release[Doc(s)]
    BY <1>1 DEF IInv, Slot, Paying, FundsInv, Found
  <1>3. Due(s) = IF saved[s].project # None THEN Mirror(s) ELSE NoRelease
    BY <1>2 DEF Due
  <1>4. CASE Leave(s)
    BY <1>1, <1>4, FundsLeave
  <1>5. CASE UpdateRelease(s) /\ ~Leave(s)
    <2>1. Save(s, Mirror(s)) /\ End(s) /\ saved[s].project # None
      BY <1>5, MirrorIsRelease, BillingConstants DEF UpdateRelease
    <2> QED
      BY <1>1, <1>3, <2>1, FundsSave
  <1>6. CASE InsertRelease(s) /\ ~Leave(s)
    <2>1. Save(s, IF saved[s].project = None THEN release[Doc(s)] ELSE Mirror(s)) /\ End(s)
          /\ release[Doc(s)] = NoRelease
      BY <1>2, <1>6 DEF InsertRelease
    <2> QED
      BY <1>1, <1>3, <2>1, FundsSave
  <1>7. CASE MoveRelease(s) /\ saved[s].project = None
    <2>1. Save(s, NoRelease) /\ End(s)
      BY <1>7 DEF MoveRelease
    <2> QED
      BY <1>1, <1>3, <1>7, <2>1, FundsSave
  <1>8. CASE MoveRelease(s) /\ saved[s].project # None
    <2>1. PICK c \in Docs : c = Doc(s)
      BY <1>1
    <2>2. /\ Save(s, NoRelease) /\ LetGo(s) /\ Goto(s, "create") /\ UNCHANGED <<req, saved, seen>>
          /\ seen[s] # NoRelease /\ seen[s].project # saved[s].project
      BY <1>8 DEF MoveRelease
    <2>3. ~Uncut
      <3>1. release[c] # NoRelease /\ release[c] = [project |-> project[c], lines |-> lines[c]]
        BY <1>2, <2>1, <2>2 DEF FundsInv, Sound
      <3>2. project[c] = seen[s].project /\ project[c] # None
        BY <1>2, <2>1, <2>2, <3>1, MirrorIsRelease, BillingConstants
      <3>3. project[c] \in mix.places \cup {None} /\ saved[s].project \in mix.places \cup {None}
        BY DEF IInv, Typed, TypedDocs, TypedSlots, Versions
      <3> QED
        BY <1>8, <2>2, <3>2, <3>3 DEF Uncut
    <2>4. /\ pc'[s] = "create" /\ \A t \in Slots \ {s} : Same(t)
      BY <2>2, Gone DEF IInv, PCs, Same
    <2>5. mix.alone /\ \A t \in Slots \ {s} : pc[t] = "idle"
      BY <1>1, <2>3 DEF Covered, FundsInv, Single
    <2>6. /\ status' = [status EXCEPT ![c] = saved[s].status] /\ UNCHANGED <<kind, source, stray>>
          /\ project' = [project EXCEPT ![c] = saved[s].project]
          /\ lines' = [lines EXCEPT ![c] = saved[s].lines] /\ release' = [release EXCEPT ![c] = NoRelease]
      BY <2>1, <2>2 DEF Save
    <2>7. TypedDocs /\ TypedReleases
      BY DEF IInv, Typed
    <2>8. \A d \in Docs : /\ status'[d] = IF d = c THEN saved[s].status ELSE status[d]
                          /\ project'[d] = IF d = c THEN saved[s].project ELSE project[d]
                          /\ lines'[d] = IF d = c THEN saved[s].lines ELSE lines[d]
                          /\ release'[d] = IF d = c THEN NoRelease ELSE release[d]
      BY <2>6, <2>7 DEF TypedDocs, TypedReleases
    <2>9. Sound'
      BY <2>6, <2>8 DEF FundsInv, Sound
    <2>10. Doc(s)' = c
      BY <2>1, <2>2 DEF Doc
    <2>11. Resumes(s)' /\ Found(s)'
      BY <1>2, <2>1, <2>2, <2>4, <2>6, <2>8, <2>10 DEF Resumes, Found
    <2>12. \A t \in Slots \ {s} : Resumes(t)' /\ Found(t)'
      BY <2>4, <2>5 DEF Resumes, Found, Same
    <2>13. Single'
      BY <2>4, <2>5 DEF Single, Same
    <2> QED
      BY <2>3, <2>6, <2>9, <2>11, <2>12, <2>13, CoveredKept DEF FundsInv
  <1> QED
    BY <1>4, <1>5, <1>6, <1>7, <1>8

LEMMA FundsRecreate ==
    ASSUME IInv, FundsInv, UNCHANGED mix, NEW s \in Slots, Covered, CreateRelease(s)
    PROVE  FundsInv'
  <1>1. pc[s] = "create" /\ ~Uncut /\ mix.alone
    BY DEF CreateRelease, FundsInv, Whole, Covered
  <1>2. CASE Leave(s)
    BY <1>1, <1>2, FundsLeave
  <1>3. CASE ~Leave(s)
    <2>1. PICK c \in Docs : c = Doc(s)
      BY <1>1 DEF IInv, Slot, Aimed
    <2>2. /\ release' = [release EXCEPT ![c] = Mirror(s)] /\ End(s)
          /\ UNCHANGED <<kind, status, source, project, lines, stray>>
      BY <1>3, <2>1 DEF CreateRelease
    <2>3. \A d \in Docs : release'[d] = IF d = c THEN Mirror(s) ELSE release[d]
      BY <2>2 DEF IInv, Typed, TypedReleases
    <2>4. kind[c] = "facture" /\ status[c] = "paid" /\ Mirror(s) = [project |-> project[c], lines |-> lines[c]]
      BY <1>1, <2>1 DEF FundsInv, Resumes, Mirror
    <2>5. Sound'
      BY <2>2, <2>3, <2>4 DEF FundsInv, Sound
    <2> QED
      BY <1>1, <2>1, <2>2, <2>3, <2>5, FundsEnd
  <1> QED
    BY <1>2, <1>3

(* A document that is written was unused, and is no paid facture unless     *)
(* imports are served.                                                      *)
LEMMA FundsWrite ==
    ASSUME IInv, FundsInv, Covered, NEW d \in Docs, status[d] = "unused", NEW k, NEW st, NEW from, NEW p, NEW v,
           Write(d, k, st, from, p, v), Uncut => st = "draft"
    PROVE  Sound' /\ (Uncut => Complete')
  <1>1. \A x \in Docs : /\ x # d => kind'[x] = kind[x] /\ status'[x] = status[x]
                                    /\ project'[x] = project[x] /\ lines'[x] = lines[x]
                        /\ status'[d] = st /\ release'[x] = release[x]
    BY DEF Write, IInv, Typed, TypedDocs
  <1>2. release[d] = NoRelease
    BY DEF FundsInv, Sound
  <1> QED
    BY <1>1, <1>2 DEF FundsInv, Sound, Complete

LEMMA FundsCreate ==
    ASSUME IInv, FundsInv, UNCHANGED mix, Covered,
           NEW d \in Docs, NEW k \in Kinds, NEW st \in Statuses, NEW p \in mix.places, Create(d, k, st, p)
    PROVE  FundsInv'
  <1>1. /\ status[d] = "unused" /\ Write(d, k, st, None, p, 0) /\ UNCHANGED <<holder, pc, req, saved, seen>>
        /\ (Uncut => st = "draft")
    BY DEF Create, Uncut
  <1>2. Sound' /\ (Uncut => Complete')
    BY <1>1, FundsWrite
  <1>3. ASSUME NEW t \in Slots PROVE Found(t)' /\ (Uncut => Whole(t)')
    BY <1>1 DEF FundsInv, Found, Whole, Write, Doc
  <1>4. ASSUME mix.alone, NEW t \in Slots PROVE Resumes(t)'
    <2>1. pc[t] = "create" => Doc(t) # d /\ Doc(t) \in Docs
      BY <1>1, <1>4 DEF FundsInv, Resumes, IInv, Slot, Aimed
    <2>2. \A x \in Docs \ {d} : kind'[x] = kind[x] /\ status'[x] = status[x]
                                /\ project'[x] = project[x] /\ lines'[x] = lines[x]
      BY <1>1 DEF Write, IInv, Typed, TypedDocs
    <2>3. pc'[t] = pc[t] /\ saved'[t] = saved[t] /\ Doc(t)' = Doc(t) /\ release' = release
      BY <1>1 DEF Write, Doc
    <2> QED
      BY <1>4, <2>1, <2>2, <2>3 DEF FundsInv, Resumes
  <1>5. mix.alone => Single'
    BY <1>1 DEF FundsInv, Single
  <1>6. UNCHANGED stray
    BY <1>1 DEF Write
  <1> QED
    BY <1>2, <1>3, <1>4, <1>5, <1>6, CoveredKept DEF FundsInv

LEMMA FundsInsert ==
    ASSUME IInv, FundsInv, UNCHANGED mix, NEW s \in Slots, Covered, InsertFacture(s)
    PROVE  FundsInv'
  <1>1. pc[s] = "insert"
    BY DEF InsertFacture
  <1>2. CASE Leave(s)
    BY <1>1, <1>2, FundsLeave
  <1>3. CASE ~Leave(s)
    <2>1. PICK f \in Docs : status[f] = "unused"
              /\ Write(f, "facture", "draft", Doc(s), saved[s].project, saved[s].lines)
      BY <1>3 DEF InsertFacture, Unused
    <2>2. Sound' /\ (Uncut => Complete')
      BY <2>1, FundsWrite
    <2>3. End(s) /\ UNCHANGED <<release, stray>>
      BY <1>3, <2>1 DEF InsertFacture, Write
    <2> QED
      BY <1>1, <2>2, <2>3, FundsEnd
  <1> QED
    BY <1>2, <1>3

LEMMA FundsDelete ==
    ASSUME IInv, FundsInv, UNCHANGED mix, NEW s \in Slots, Covered, ReadToDelete(s) \/ DeleteRelease(s)
    PROVE  FundsInv'
  <1>1. pc[s] \in {"read", "unrelease"} /\ ~Uncut /\ mix.alone
    BY DEF ReadToDelete, DeleteRelease, FundsInv, Whole, Covered
  <1>2. PICK c \in Docs : c = Doc(s)
    BY <1>1 DEF IInv, Slot, Aimed
  <1>3. CASE Leave(s)
    BY <1>1, <1>3, FundsLeave
  <1>4. CASE ReadToDelete(s) /\ ~Leave(s)
    <2>1. /\ Goto(s, IF kind[c] = "facture" THEN "unrelease" ELSE "drop")
          /\ UNCHANGED <<tables, holder, req, saved, seen>>
      BY <1>2, <1>4 DEF ReadToDelete
    <2>2. pc'[s] = (IF kind[c] = "facture" THEN "unrelease" ELSE "drop") /\ \A t \in Slots \ {s} : Same(t)
      BY <2>1, Gone DEF IInv, PCs, Same
    <2>3. Doc(s)' = c /\ release' = release
      BY <1>2, <2>1 DEF Doc, tables
    <2>4. Found(s)' /\ Resumes(s)'
      BY <2>2, <2>3 DEF Found, Resumes, FundsInv, Sound
    <2> QED
      BY <1>1, <2>1, <2>2, <2>4, FundsGoOn
  <1>5. CASE DeleteRelease(s)
    <2>1. /\ release' = [release EXCEPT ![c] = NoRelease] /\ Goto(s, "drop")
          /\ UNCHANGED <<kind, status, source, project, lines, stray, holder, req, saved, seen>>
      BY <1>2, <1>5 DEF DeleteRelease
    <2>2. pc'[s] = "drop" /\ \A t \in Slots \ {s} : Same(t)
      BY <2>1, Gone DEF IInv, PCs, Same
    <2>3. \A d \in Docs : release'[d] = IF d = c THEN NoRelease ELSE release[d]
      BY <2>1 DEF IInv, Typed, TypedReleases
    <2>4. Sound'
      BY <2>1, <2>3 DEF FundsInv, Sound
    <2>5. Found(s)' /\ Resumes(s)'
      BY <1>2, <2>1, <2>2, <2>3 DEF Found, Resumes, Doc
    <2>6. \A t \in Slots \ {s} : pc[t] = "idle"
      BY <1>1 DEF FundsInv, Single
    <2>7. \A t \in Slots \ {s} : Found(t)' /\ Resumes(t)'
      BY <2>2, <2>6 DEF Found, Resumes, Same
    <2>8. Single'
      BY <2>2, <2>6 DEF Single, Same
    <2> QED
      BY <1>1, <2>1, <2>4, <2>5, <2>7, <2>8, CoveredKept DEF FundsInv
  <1> QED
    BY <1>3, <1>4, <1>5

LEMMA FundsDrop ==
    ASSUME IInv, FundsInv, UNCHANGED mix, NEW s \in Slots, Covered, DropDoc(s)
    PROVE  FundsInv'
  <1>1. pc[s] = "drop" /\ ~Uncut /\ mix.alone
    BY DEF DropDoc, FundsInv, Whole, Covered
  <1>2. CASE Leave(s)
    BY <1>1, <1>2, FundsLeave
  <1>3. CASE ~Leave(s)
    <2>1. PICK c \in Docs : c = Doc(s)
      BY <1>1 DEF IInv, Slot, Aimed
    <2>2. release[c] = NoRelease
      BY <1>1, <2>1 DEF FundsInv, Resumes
    <2>3. /\ End(s) /\ UNCHANGED <<kind, project, lines, stray>>
          /\ status' = [status EXCEPT ![c] = "deleted"] /\ release' = [release EXCEPT ![c] = NoRelease]
      BY <1>3, <2>1, <2>2 DEF DropDoc
    <2>4. \A d \in Docs : /\ release'[d] = release[d]
                          /\ status'[d] = IF d = c THEN "deleted" ELSE status[d]
      BY <2>2, <2>3 DEF IInv, Typed, TypedReleases, TypedDocs
    <2>5. Sound'
      BY <2>2, <2>3, <2>4 DEF FundsInv, Sound
    <2> QED
      BY <1>1, <2>3, <2>4, <2>5, FundsEnd
  <1> QED
    BY <1>2, <1>3

(* The steps that look, lock or begin. *)
LEMMA FundsLook ==
    ASSUME IInv, FundsInv, UNCHANGED mix, NEW s \in Slots, Covered,
           LockDoc(s) \/ LockDevis(s) \/ FindRelease(s)
    PROVE  FundsInv'
  <1>1. pc[s] # "idle" /\ Doc(s) \in Docs
    BY DEF LockDoc, LockDevis, FindRelease, IInv, Slot, Aimed
  <1>2. CASE Leave(s)
    BY <1>1, <1>2, FundsLeave
  <1>3. CASE (LockDoc(s) \/ LockDevis(s)) /\ ~Leave(s)
    <2>1. PICK next \in {"sync", "commit", "insert"} : Goto(s, next)
      BY <1>3 DEF LockDoc, LockDevis
    <2>2. UNCHANGED <<tables, req, seen>> /\ \A t \in Slots \ {s} : saved'[t] = saved[t]
      BY <1>3 DEF LockDoc, LockDevis, IInv, Typed, TypedSlots
    <2>3. pc'[s] = next /\ \A t \in Slots \ {s} : Same(t)
      BY <2>1, <2>2, Gone DEF IInv, PCs, Same
    <2>4. Found(s)' /\ Whole(s)' /\ Resumes(s)'
      BY <2>3 DEF Found, Whole, Resumes
    <2> QED
      BY <1>1, <2>2, <2>3, <2>4, FundsGoOn
  <1>4. CASE FindRelease(s)
    <2>1. /\ seen' = [seen EXCEPT ![s] = release[Doc(s)]] /\ Goto(s, "apply")
          /\ UNCHANGED <<tables, holder, req, saved>>
      BY <1>4 DEF FindRelease
    <2>2. pc'[s] = "apply" /\ seen'[s] = release[Doc(s)] /\ \A t \in Slots \ {s} : Same(t)
      BY <2>1, Gone DEF IInv, Typed, TypedSlots, PCs, Same
    <2>3. Found(s)' /\ Whole(s)' /\ Resumes(s)'
      BY <2>1, <2>2 DEF Found, Whole, Resumes, Doc, tables
    <2> QED
      BY <1>1, <2>1, <2>2, <2>3, FundsGoOn
  <1> QED
    BY <1>2, <1>3, <1>4

LEMMA FundsRequest ==
    ASSUME IInv, FundsInv, UNCHANGED mix, Covered, NEW s \in Slots,
           NEW op \in mix.ops \cap {"status", "update", "convert", "delete"},
           NEW d \in Docs, NEW to \in mix.targets \cup {"none"}, NEW p \in mix.places, NEW v \in Lines,
           Request(s, op, d, to, p, v)
    PROVE  FundsInv'
  <1>1. /\ Goto(s, FirstStep(op)) /\ UNCHANGED <<tables, holder, saved, seen>>
        /\ pc[s] = "idle" /\ (mix.alone => \A t \in Slots : pc[t] = "idle")
        /\ \A t \in Slots \ {s} : req'[t] = req[t]
    BY DEF Request, IInv, Typed, TypedSlots
  <1>2. /\ FirstStep(op) \in PCs /\ FirstStep(op) \notin {"apply", "create", "drop", "unrelease"}
        /\ (Uncut => FirstStep(op) # "read")
    BY DEF FirstStep, PCs, Uncut
  <1>3. pc'[s] = FirstStep(op) /\ \A t \in Slots \ {s} : Same(t)
    BY <1>1, <1>2, Gone DEF IInv, Same
  <1>4. Found(s)' /\ (Uncut => Whole(s)') /\ Resumes(s)'
    BY <1>2, <1>3 DEF Found, Whole, Resumes
  <1> QED
    BY <1>1, <1>3, <1>4, FundsGoOn

LEMMA FundsNext == IInv /\ FundsInv /\ [Next]_vars => FundsInv'
  <1> SUFFICES ASSUME IInv, FundsInv, [Next]_vars PROVE FundsInv'
    OBVIOUS
  <1>1. UNCHANGED mix
    BY DEF Next, vars
  <1>2. CASE ~Covered
    <2>1. ~Covered' /\ ~Uncut' /\ ~mix'.alone
      BY <1>1, <1>2, CoveredKept DEF Covered
    <2> QED
      BY <2>1 DEF FundsInv
  <1>3. CASE Covered /\ UNCHANGED vars
    BY <1>3 DEF vars, FundsInv, Covered, Uncut, Sound, Complete, Found, Whole, Single, Resumes, Doc
  <1>4. CASE Covered /\ Next
    <2>1. CASE \E d \in Docs, k \in Kinds, st \in Statuses, p \in mix.places : Create(d, k, st, p)
      BY <1>1, <1>4, <2>1, FundsCreate
    <2>2. CASE \E s \in Slots, op \in mix.ops \cap {"status", "update", "convert", "delete"}, d \in Docs,
                  to \in mix.targets \cup {"none"}, p \in mix.places, v \in Lines : Request(s, op, d, to, p, v)
      BY <1>1, <1>4, <2>2, FundsRequest
    <2>3. ASSUME NEW s \in Slots, Killed(s) PROVE FundsInv'
      BY <1>1, <2>3, FundsLeave DEF Killed
    <2>4. ASSUME NEW s \in Slots, Step(s) PROVE FundsInv'
      BY <1>1, <1>4, <2>4, FundsLook, FundsCommit, FundsApply, FundsRecreate, FundsInsert, FundsDelete, FundsDrop
         DEF Step
    <2> QED
      BY <1>4, <2>1, <2>2, <2>3, <2>4 DEF Next
  <1> QED
    BY <1>2, <1>3, <1>4

(* The inductive invariant of the releases: what a request saw of a release *)
(* is still so, and what one has let go to finish later is as it left it.   *)
THEOREM FundsInvariant == Spec => []FundsInv
  BY FundsInit, FundsNext, DocumentsInvariant, PTL DEF Spec

(* The money that counts as released is the money that was paid.            *)
THEOREM ReleasedIsPaid == Spec => []ReleaseHolds
  <1>1. IInv /\ FundsInv => ReleaseHolds
    <2> SUFFICES ASSUME IInv, FundsInv PROVE ReleaseHolds
      OBVIOUS
    <2>1. mix.alone => ReleaseMirrors
      BY DEF FundsInv, Covered, Sound, ReleaseMirrors
    <2>2. Uncut => ReleaseMatchesPaid
      <3> SUFFICES ASSUME Uncut, NEW d \in Docs
                   PROVE  release[d] = IF Live(d) /\ kind[d] = "facture" /\ status[d] = "paid" /\ project[d] # None
                                       THEN [project |-> project[d], lines |-> lines[d]] ELSE NoRelease
        BY DEF ReleaseMatchesPaid
      <3>1. CASE release[d] = NoRelease
        BY <3>1 DEF FundsInv, Complete
      <3>2. CASE release[d] # NoRelease
        <4>1. kind[d] = "facture" /\ status[d] = "paid" /\ release[d] = [project |-> project[d], lines |-> lines[d]]
          BY <3>2 DEF FundsInv, Covered, Sound
        <4>2. project[d] # None
          <5>1. release[d] \in [project : Projects, lines : Lines]
            BY <3>2 DEF IInv, Typed, TypedReleases, Releases
          <5> QED
            BY <4>1, <5>1, BillingConstants
        <4>3. Live(d)
          BY <4>1 DEF Live, Statuses
        <4> QED
          BY <4>1, <4>2, <4>3
      <3> QED
        BY <3>1, <3>2
    <2> QED
      BY <2>1, <2>2 DEF ReleaseHolds
  <1> QED
    BY <1>1, DocumentsInvariant, FundsInvariant, PTL
================================================================================
