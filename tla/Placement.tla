-------------------------------- MODULE Placement --------------------------------
(***************************************************************************)
(* The order of the cards of a task board and of the rows of a chiffrage   *)
(* (postes, articles, rooms): both keep an integer per row, drop a row at  *)
(* a free integer between its new neighbours, and renumber when none is    *)
(* left.  The board commits every card it renumbers by itself; a chiffrage *)
(* commits them together and has one lane.                                 *)
(***************************************************************************)
EXTENDS Integers, Sequences, SequencesExt

CONSTANTS
    Rows,      \* numbers, in the order of creation
    Lanes, None,
    Step,      \* POSITION_STEP
    Given,     \* positions rows can have at first, ties included
    MaxPos,    \* bound: positions handed out
    Mixes      \* [kind : {"board", "chiffrage"}, stops : BOOLEAN, lanes : SUBSET Lanes]

VARIABLES
    mix,
    lane, pos,   \* of a row, None without it
    writes,      \* rows a drop has still to save
    wanted       \* history: the order of every lane as the users made it

vars == <<mix, lane, pos, writes, wanted>>

In(l)    == {r \in Rows : lane[r] = l}
Shown(l) == SetToSortSeq(In(l), LAMBDA a, b : pos[a] < pos[b] \/ (pos[a] = pos[b] /\ a < b))
Save(row, to, at) == [row |-> row, lane |-> to, pos |-> at]

Init ==
    /\ mix \in Mixes
    /\ lane \in [Rows -> mix.lanes \cup {None}]
    /\ pos \in [Rows -> Given \cup {None}] /\ \A r \in Rows : (pos[r] = None) <=> (lane[r] = None)
    /\ writes = <<>>
    /\ wanted = [l \in mix.lanes |-> Shown(l)]

--------------------------------------------------------------------------------
Largest(S) == CHOOSE n \in S : \A m \in S : m <= n
Bottom(l) == IF In(l) = {} THEN 0 ELSE Largest({pos[r] : r \in In(l)})

(* A new row goes to the end of its lane. *)
Create(r, l) ==
    /\ writes = <<>> /\ lane[r] = None /\ Bottom(l) + Step <= MaxPos
    /\ lane' = [lane EXCEPT ![r] = l]
    /\ pos' = [pos EXCEPT ![r] = Bottom(l) + Step]
    /\ wanted' = [wanted EXCEPT ![l] = Append(@, r)]
    /\ UNCHANGED <<mix, writes>>

Delete(r) ==
    /\ writes = <<>> /\ lane[r] # None
    /\ wanted' = [wanted EXCEPT ![lane[r]] = SelectSeq(@, LAMBDA x : x # r)]
    /\ lane' = [lane EXCEPT ![r] = None] /\ pos' = [pos EXCEPT ![r] = None]
    /\ UNCHANGED <<mix, writes>>

(* Where a row is dropped in a lane that does not hold it: under the        *)
(* neighbour above, else over the one below, else at the end.               *)
Index(others, above, below) ==
    CASE above \in ToSet(others) -> SelectInSeq(others, LAMBDA x : x = above)
      [] above \notin ToSet(others) /\ below \in ToSet(others) -> SelectInSeq(others, LAMBDA x : x = below) - 1
      [] OTHER -> Len(others)

Spread(others, i, l) ==
    SelectSeq([k \in DOMAIN others |-> Save(others[k], l, (IF k <= i THEN k ELSE k + 1) * Step)],
              LAMBDA w : pos[w.row] # w.pos)

(* A card takes the middle of its neighbours as the lane is stored, and the *)
(* lane is renumbered when the middle is one of them or the head is zero.   *)
BoardDrop(r, l, others, i) ==
    LET above == IF i = 0 THEN None ELSE pos[others[i]]
        below == IF i = Len(others) THEN None ELSE pos[others[i + 1]]
        at    == CASE above # None /\ below # None -> (above + below) \div 2
                   [] above # None /\ below = None -> above + Step
                   [] above = None /\ below # None -> below - Step
                   [] OTHER -> Step
        tight == IF above # None /\ below # None THEN ~(above < at /\ at < below) ELSE at < 0
    IN  IF tight THEN Append(Spread(others, i, l), Save(r, l, (i + 1) * Step)) ELSE <<Save(r, l, at)>>

(* A row of a chiffrage goes by the neighbours the client names; positions  *)
(* may go below zero.  The variant takes a gap of one for a free slot.      *)
SlotOnTie(above, below, l) ==
    CASE above # None /\ below # None -> IF pos[below] - pos[above] < 1 THEN None ELSE (pos[above] + pos[below]) \div 2
      [] above # None /\ below = None -> pos[above] + Step
      [] above = None /\ below # None -> pos[below] - Step
      [] OTHER -> Bottom(l) + Step
Slot(above, below, l) ==
    CASE above # None /\ below # None -> IF pos[below] - pos[above] < 2 THEN None ELSE (pos[above] + pos[below]) \div 2
      [] above # None /\ below = None -> pos[above] + Step
      [] above = None /\ below # None -> pos[below] - Step
      [] OTHER -> Bottom(l) + Step

RowDrop(r, l, others, above, below) ==
    LET at == Slot(above, below, l)
        i  == Index(others, above, below)
    IN  IF at = None THEN Append(Spread(others, i, l), Save(r, l, (i + 1) * Step)) ELSE <<Save(r, l, at)>>

(* What one commit saves: the board's commits hold one card each, a         *)
(* chiffrage's the whole drop.                                              *)
Write(now) ==
    LET Of(r) == CHOOSE w \in now : w.row = r
        Saved == {w.row : w \in now}
    IN  /\ lane' = [r \in Rows |-> IF r \in Saved THEN Of(r).lane ELSE lane[r]]
        /\ pos' = [r \in Rows |-> IF r \in Saved THEN Of(r).pos ELSE pos[r]]

(* The client names the neighbours it sees; on the board they may have left *)
(* the lane since.                                                          *)
Neighbours(others) ==
    {<<IF i = 0 THEN None ELSE others[i], IF i = Len(others) THEN None ELSE others[i + 1]>> : i \in 0..Len(others)}

Drop(r, l) ==
    LET others == SelectSeq(Shown(l), LAMBDA x : x # r)
        stale  == IF mix.kind = "board" THEN {<<x, None>> : x \in Rows \ (In(l) \cup {r})} ELSE {}
    IN
    /\ writes = <<>> /\ lane[r] # None
    /\ mix.kind = "chiffrage" => lane[r] = l
    /\ \E n \in Neighbours(others) \cup stale :
        LET i  == Index(others, n[1], n[2])
            ws == IF mix.kind = "board" THEN BoardDrop(r, l, others, i) ELSE RowDrop(r, l, others, n[1], n[2])
        IN  /\ \A k \in DOMAIN ws : ws[k].pos \in -MaxPos..MaxPos
            /\ IF mix.kind = "board" THEN Write({Head(ws)}) /\ writes' = Tail(ws)
                                     ELSE Write(ToSet(ws)) /\ writes' = <<>>
            /\ wanted' = [[wanted EXCEPT ![lane[r]] = SelectSeq(@, LAMBDA x : x # r)]
                             EXCEPT ![l] = InsertAt(others, i + 1, r)]
    /\ UNCHANGED mix

Commit ==
    /\ writes # <<>>
    /\ Write({Head(writes)}) /\ writes' = Tail(writes)
    /\ UNCHANGED <<mix, wanted>>

(* The request dies between two commits. *)
Stop == mix.stops /\ writes # <<>> /\ writes' = <<>> /\ UNCHANGED <<mix, lane, pos, wanted>>

Next ==
    \/ \E r \in Rows, l \in mix.lanes : Create(r, l) \/ Drop(r, l)
    \/ \E r \in Rows : Delete(r)
    \/ Commit \/ Stop

Spec == Init /\ [][Next]_vars

--------------------------------------------------------------------------------
TypeOK ==
    /\ mix \in Mixes
    /\ lane \in [Rows -> Lanes \cup {None}]
    /\ \A r \in Rows : pos[r] \in (-MaxPos..MaxPos) \cup {None}
    /\ \A k \in DOMAIN writes : writes[k].row \in Rows /\ writes[k].lane \in mix.lanes

(* A drop puts the row where the user put it and leaves the others in their *)
(* order, whatever gaps and ties the drops before it left ("handing out a   *)
(* duplicate position would leave the order to the creation date and lose   *)
(* the drop").  "Drag-drop atomic update": also when the request dies half  *)
(* way, which is violated on the board.                                     *)
DropHolds == writes = <<>> => \A l \in mix.lanes : Shown(l) = wanted[l]
================================================================================
