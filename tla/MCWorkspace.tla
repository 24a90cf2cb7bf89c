------------------------------- MODULE MCWorkspace -------------------------------
(***************************************************************************)
(* What the people of a company work on together, side by side: the prices *)
(* of a chiffrage, the order of boards and lists, files, a chat, and the   *)
(* stock.  A behaviour exercises one of them; what it does not have is     *)
(* None throughout.                                                        *)
(***************************************************************************)
EXTENDS Integers, Sequences, FiniteSets, TLC

CONSTANTS
    Parts, QuoteMixes, BoardMixes, FileMixes, StockMixes, LibraryMixes,
    Slots, Users, None, Keep, Gone,
    Shops, ShopNames, MaxQuotes,        \* of Quotes
    Files, Retention, Grace, MaxDay, MaxName, \* of ProjectFiles
    Window, MaxTime, Blocking, Faults,  \* of Chat
    Warehouses, Items, Sites, StockNames, \* of Stock
    Lines, MaxMade                      \* of Library

VARIABLES
    part, mix, now, locker, pc, job,
    quote, shop, typed,                                              \* Quotes
    lane, pos, writes, wanted,                                       \* Placement
    row, stored, issued, unfit, crossed, janitor,                    \* ProjectFiles
    alone, messages, lastRead, bell, notified, blocks, told, seen, settled, \* Chat
    warehouse, item, site, gone,                                     \* Stock
    product, bought, made                                            \* Library

--------------------------------------------------------------------------------
(* Quotes: three prices at most, of two shops. *)
From(at, name) == [shop |-> at, name |-> name, retained |-> FALSE]
Prices(a, b, c) == [q \in 1..3 |-> CASE q = 1 -> a [] q = 2 -> b [] q = 3 -> c]
Quoting(does, one, first) == [ops |-> does, alone |-> one, first |-> first]

Choosing  == Quoting({"add", "select", "unselect", "delete"}, FALSE, Prices(From(None, "own"), From(None, "own"), None))
Shopping  == Quoting({"add", "edit", "drop"}, FALSE, Prices(None, Gone, Gone))
Unnamed   == Quoting({"edit", "rename", "drop"}, TRUE, Prices(From("x", None), Gone, Gone))
Comparing == Quoting({"add", "edit", "delete", "select", "unselect", "rename", "drop", "open"}, TRUE, Prices(None, None, Gone))

EverydayQuotes == {Choosing, Shopping, Unnamed, Comparing}
Repricing      == {Quoting({"select", "edit"}, FALSE, Prices(From(None, "own"), From(None, "own"), Gone))}

Q == INSTANCE Quotes WITH Names <- ShopNames, Mixes <- QuoteMixes
ASSUME QuoteConstants == Q!Constants

--------------------------------------------------------------------------------
(* Placement: three rows, and positions with ties and gaps of one. *)
Board(stops) == [kind |-> "board", stops |-> stops, lanes |-> {"l1", "l2"}]
EverydayBoards == {Board(FALSE), [kind |-> "chiffrage", stops |-> FALSE, lanes |-> {"l1"}]}
Interrupted    == {Board(TRUE)}

P == INSTANCE Placement WITH
         Rows <- 1..3, Lanes <- {"l1", "l2"}, Step <- 4, Given <- {4, 5}, MaxPos <- 24, Mixes <- BoardMixes

--------------------------------------------------------------------------------
(* ProjectFiles: two files, a retention and a grace of a day. *)
Filing(a, b, does, one, faults) ==
    [kind |-> [f \in 1..2 |-> IF f = 1 THEN a ELSE b], ops |-> does, alone |-> one, faults |-> faults]
Keeping == {"upload", "delete", "purge", "sweep"}

Confirming == Filing("direct", "document", Keeping, FALSE, {})
Failing    == Filing("photo", "direct", Keeping, TRUE, {"put fails", "save fails", "delete fails", "crash"})
Naming     == Filing("document", "direct", {"upload", "rename", "delete"}, TRUE, {})
Reporting  == Filing("analysis", "photo", {"upload", "delete", "purge", "sweep"}, FALSE, {"delete fails"})

EverydayFiles == {Confirming, Failing, Naming, Reporting}
Colliding     == {[Confirming EXCEPT !.faults = {"save fails"}]}

F == INSTANCE ProjectFiles WITH Mixes <- FileMixes
ASSUME FileConstants == F!Constants

--------------------------------------------------------------------------------
C == INSTANCE Chat WITH Alones <- BOOLEAN
ASSUME ChatConstants == C!Constants

(* Stock. *)
Stocking(does, one) == [ops |-> does, alone |-> one]
Claiming == Stocking({"create", "rename", "remove", "add"}, FALSE)
Moving   == Stocking({"create", "remove", "add", "move", "count", "delete", "project"}, FALSE)
Running  == Stocking({"create", "rename", "address", "remove", "add", "move", "count", "delete", "project"}, TRUE)

EverydayStock == {Claiming, Moving, Running}
Addressing    == {Stocking({"create", "rename", "address"}, FALSE)}

S == INSTANCE Stock WITH Names <- StockNames, Mixes <- StockMixes
ASSUME StockConstants == S!Constants

(* The library: imports that overlap, of a product that is known or not;    *)
(* and every request, one at a time and cut short.                          *)
Shelving(does, one, known) == [ops |-> does, alone |-> one, known |-> known]
Doubling == Shelving({"import"}, FALSE, FALSE)
EverydayLibrary ==
    {Shelving({"import"}, FALSE, TRUE), Doubling,
     Shelving({"import", "create", "edit", "upload", "fetch", "remove", "delete", "kill"}, TRUE, FALSE)}
Curated == {Shelving({"import", "edit"}, FALSE, TRUE)}

L == INSTANCE Library WITH Mixes <- LibraryMixes
ASSUME LibraryConstants == L!Constants

qvars == <<quote, shop, typed>>
pvars == <<lane, pos, writes, wanted>>
fvars == <<row, stored, issued, unfit, crossed, janitor>>
cvars == <<alone, messages, lastRead, bell, notified, blocks, told, settled>>
svars == <<warehouse, item, site, gone>>
lvars == <<product, bought, made>>
vars  == <<part, mix, now, locker, pc, job, seen, qvars, pvars, fvars, cvars, svars, lvars>>

--------------------------------------------------------------------------------
Init ==
    /\ part \in Parts
    /\ CASE part = "quotes"    -> Q!Init /\ now = None /\ seen = None
         [] part = "boards"    -> P!Init /\ now = None /\ seen = None /\ locker = None /\ pc = None /\ job = None
         [] part = "files"     -> F!Init /\ seen = None /\ locker = None
         [] part = "chat"      -> C!Init /\ mix = None /\ locker = None
         [] part = "stock"     -> S!Init /\ now = None /\ seen = None
         [] part = "library"   -> L!Init /\ now = None /\ seen = None /\ locker = None
    /\ part # "quotes" => quote = None /\ shop = None /\ typed = None
    /\ part # "boards" => lane = None /\ pos = None /\ writes = None /\ wanted = None
    /\ part # "files"  => row = None /\ issued = None /\ unfit = None /\ crossed = None /\ janitor = None
    /\ part \notin {"files", "library"} => stored = None
    /\ part # "chat"   =>
           /\ alone = None /\ messages = None /\ lastRead = None /\ bell = None /\ notified = None
           /\ blocks = None /\ told = None /\ settled = None
    /\ part # "stock"  => warehouse = None /\ item = None /\ site = None /\ gone = None
    /\ part # "library" => product = None /\ bought = None /\ made = None

Next ==
    /\ UNCHANGED part
    /\ \/ part = "quotes" /\ Q!Next /\ UNCHANGED <<now, seen, pvars, fvars, cvars, svars, lvars>>
       \/ part = "boards" /\ P!Next /\ UNCHANGED <<now, locker, pc, job, seen, qvars, fvars, cvars, svars, lvars>>
       \/ part = "files" /\ F!Next /\ UNCHANGED <<locker, seen, qvars, pvars, cvars, svars, lvars>>
       \/ part = "chat" /\ C!Next /\ UNCHANGED <<mix, locker, qvars, pvars, fvars, svars, lvars>>
       \/ part = "stock" /\ S!Next /\ UNCHANGED <<now, seen, qvars, pvars, fvars, cvars, lvars>>
       \/ part = "library" /\ L!Next /\ UNCHANGED <<now, locker, seen, row, issued, unfit, crossed, janitor, qvars, pvars, cvars, svars>>

Spec == Init /\ [][Next]_vars

Symmetry == Permutations(Slots) \cup Permutations(Users)

--------------------------------------------------------------------------------
(* "otherwise both could clear-then-set and leave two quotes flagged, which *)
(* would make the budget total depend on row order": no choices, deletions  *)
(* or additions that overlap leave two prices of an article retained; with  *)
(* an edit that overlaps (QuoteMixes <- Repricing) two are.                 *)
OneRetained == part = "quotes" => Q!OneRetained

(* With that, a price says where it comes from whatever happens to its      *)
(* shop, and, one request after another, "shows the shop's current name".   *)
QuotesHold ==
    /\ OneRetained
    /\ part = "quotes" => Q!TypeOK /\ Q!Attributed /\ (mix.alone => Q!ShowsItsShop)

(* A drop puts a row where the user put it, whatever ties and gaps earlier  *)
(* drops left; one that is interrupted (BoardMixes <- Interrupted) may not. *)
DropHolds == part = "boards" => P!TypeOK /\ P!DropHolds

(* A file is there for as long as its row says so, and is erased for good;  *)
(* with a confirmation that fails while another one goes through            *)
(* (FileMixes <- Colliding) it may not be there.                            *)
FilesKept == part = "files" => F!TypeOK /\ F!FilesKept /\ F!NoTrace /\ (mix.alone => F!NamesApart)

(* No quiet window swallows news; one request after another, bell and       *)
(* unread messages agree, and nobody is told twice in a window unless a     *)
(* push failed.                                                             *)
NobodyMissed ==
    part = "chat" => /\ C!TypeOK /\ C!NobodyMissed
                     /\ alone => C!BellIsUnread /\ C!NewsIsUnread /\ (Faults = {} => C!Quiet)

(* No two warehouses share a name and every item has a place that exists;   *)
(* an address edited next to a renaming (StockMixes <- Addressing) puts an  *)
(* old name back.  And a product of the library has the totals of its       *)
(* purchases, whatever imports overlap, and the image it tells of; while    *)
(* two first imports, or an edit next to one (LibraryMixes <- Curated),     *)
(* lose some, though none is counted twice.                                 *)
ShelvesHold ==
    /\ part = "stock" => S!TypeOK /\ S!NamesApart /\ S!Placed /\ (mix.alone => S!GoneStays)
    /\ part = "library" => /\ L!TypeOK
                           /\ (mix # Doubling => L!TotalsHold)
                           /\ (mix.ops = {"import"} => L!NeverTwice)
                           /\ (mix.alone => L!ImagesShown)

(* "Re-posting the same payload must produce exactly 0 new purchase rows     *)
(* and leave all product aggregates unchanged", also when it overlaps with  *)
(* other imports of a known product; not so with other first imports.       *)
ImportsOnce == [][part = "library" /\ mix # Doubling => L!ImportsOnce]_vars
================================================================================
