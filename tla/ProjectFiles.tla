------------------------------ MODULE ProjectFiles ------------------------------
(***************************************************************************)
(* The files of a project: documents sent through the server or put        *)
(* straight into the storage and confirmed, photos with their thumbnail,   *)
(* analyses.  A row owns objects of the storage; a deleted row keeps them  *)
(* for the retention, then the janitor erases both, and it sweeps document *)
(* uploads nobody confirmed.  Time counts days.                            *)
(***************************************************************************)
EXTENDS Integers, FiniteSets

CONSTANTS
    Slots, Files, None, Gone,
    Retention, Grace,   \* in days
    MaxDay, MaxName,    \* bounds: days, and the numbers that tell names apart
    Mixes               \* [kind, ops, alone, faults]

Constants ==
    /\ MaxDay \in Nat /\ MaxName \in Nat /\ Retention \in Nat /\ Grace \in Nat \ {0}
    /\ None \notin Files \cup Nat \cup {Gone} \cup [name : Nat, deleted : Nat \cup {None}]
    /\ Gone \notin [name : Nat, deleted : Nat \cup {None}]
    /\ \A m \in Mixes : m.alone \in BOOLEAN

Names == 1..MaxName     \* 1 is the name as given, n the one with " (n)"

VARIABLES
    mix, now,
    row,      \* of a file, None before it is saved, Gone once erased
    stored,   \* the day an object was put into the storage, None without it
    issued,   \* the day the address for a direct upload was given out
    unfit,    \* objects that are empty or too large
    crossed,  \* history: documents whose confirmation met a sweep of their object
    pc, job,
    janitor

vars == <<mix, now, row, stored, issued, unfit, crossed, pc, job, janitor>>

Pieces(f) == IF mix.kind[f] = "photo" THEN {"body", "thumb"} ELSE {"body"}
Objects  == {o \in Files \X {"body", "thumb"} : o[2] \in Pieces(o[1])}
Of(f)    == {o \in Objects : o[1] = f}
HasRow(f) == row[f] \notin {None, Gone}
Live(f)   == HasRow(f) /\ row[f].deleted = None
IsDocument(f) == mix.kind[f] \in {"document", "direct"}
LiveNames == {row[f].name : f \in {g \in Files : Live(g) /\ IsDocument(g)}}

Idle == [f |-> None, left |-> {}, name |-> None]
Rest == [does |-> "rest", rows |-> {}, row |-> None, left |-> {}, erased |-> {}]

Init ==
    /\ mix \in Mixes /\ now = 0
    /\ row = [f \in Files |-> None]
    /\ stored = [o \in Files \X {"body", "thumb"} |-> None]
    /\ issued = [f \in Files |-> None] /\ unfit = {} /\ crossed = {}
    /\ pc = [s \in Slots |-> "idle"] /\ job = [s \in Slots |-> Idle] /\ janitor = Rest

--------------------------------------------------------------------------------
Free(s, op) ==
    /\ pc[s] = "idle" /\ op \in mix.ops
    /\ mix.alone => \A t \in Slots : pc[t] = "idle"

Go(s, step, j) == pc' = [pc EXCEPT ![s] = step] /\ job' = [job EXCEPT ![s] = j]
Done(s) == Go(s, "idle", Idle)

(* A file is new until some request names it. *)
New(f) == row[f] = None /\ issued[f] = None /\ (\A s \in Slots : job[s].f # f) /\ \A o \in Of(f) : stored[o] = None

Upload(s, f) ==
    /\ Free(s, "upload") /\ New(f) /\ mix.kind[f] # "direct"
    /\ Go(s, "put", [Idle EXCEPT !.f = f, !.left = Of(f)])
    /\ UNCHANGED <<mix, now, row, stored, issued, unfit, crossed, janitor>>

(* The original first, then the thumbnail; an object that cannot be stored  *)
(* ends the request and leaves what was stored before it.                   *)
Put(s) ==
    LET j == job[s]
        o == IF <<j.f, "body">> \in j.left THEN <<j.f, "body">> ELSE <<j.f, "thumb">>
    IN
    /\ pc[s] = "put"
    /\ \/ /\ stored' = [stored EXCEPT ![o] = now]
          /\ Go(s, IF j.left = {o} THEN "name" ELSE "put", [j EXCEPT !.left = @ \ {o}])
       \/ "put fails" \in mix.faults /\ Done(s) /\ UNCHANGED stored
    /\ UNCHANGED <<mix, now, row, issued, unfit, crossed, janitor>>

(* The browser is given an address, and puts the file there while it lives. *)
Presign(f) ==
    /\ "upload" \in mix.ops /\ New(f) /\ mix.kind[f] = "direct"
    /\ issued' = [issued EXCEPT ![f] = now]
    /\ UNCHANGED <<mix, now, row, stored, unfit, crossed, pc, job, janitor>>

PutDirectly(f) ==
    /\ issued[f] = now
    /\ stored' = [stored EXCEPT ![<<f, "body">>] = now]
    /\ unfit' \in {unfit \ {f}} \cup (IF mix.alone THEN {unfit \cup {f}} ELSE {})
    /\ UNCHANGED <<mix, now, row, issued, crossed, pc, job, janitor>>

(* A confirmation comes whenever it comes; one of a document that has a     *)
(* row, live or deleted, ends here.                                         *)
Confirm(s, f) ==
    /\ Free(s, "upload") /\ issued[f] # None /\ ~HasRow(f)
    /\ Go(s, "head", [Idle EXCEPT !.f = f])
    /\ UNCHANGED <<mix, now, row, stored, issued, unfit, crossed, janitor>>

(* The sweep holds the object for one that no row owns.                     *)
Swept(f) == janitor.does = "sweep" /\ <<f, "body">> \in janitor.left

Head(s) ==
    LET f == job[s].f IN
    /\ pc[s] = "head"
    /\ CASE stored[<<f, "body">>] = None -> Done(s)
         [] stored[<<f, "body">>] # None /\ f \in unfit -> Go(s, "discard", [job[s] EXCEPT !.left = Of(f)])
         [] OTHER -> Go(s, "name", job[s])
    /\ crossed' = IF pc'[s] = "name" /\ Swept(f) THEN crossed \cup {f} ELSE crossed
    /\ UNCHANGED <<mix, now, row, stored, issued, unfit, janitor>>

(* The first free number under the live names of the project. *)
Name(s) ==
    /\ pc[s] = "name"
    /\ \E n \in Names \ LiveNames :
        /\ \A m \in Names : m < n => m \in LiveNames
        /\ Go(s, "save", [job[s] EXCEPT !.name = n])
    /\ UNCHANGED <<mix, now, row, stored, issued, unfit, crossed, janitor>>

(* The row is inserted and committed.  A second confirmation finds the key  *)
(* taken; after a failure an upload takes its objects back, a confirmation  *)
(* only when it sees no row.                                                *)
Save(s) ==
    LET f == job[s].f
        direct == mix.kind[f] = "direct"
    IN
    /\ pc[s] = "save"
    /\ \/ /\ ~HasRow(f) /\ row' = [row EXCEPT ![f] = [name |-> job[s].name, deleted |-> None]] /\ Done(s)
       \/ /\ HasRow(f) \/ "save fails" \in mix.faults
          /\ Go(s, IF direct THEN "owner" ELSE "discard", [job[s] EXCEPT !.left = Of(f)]) /\ UNCHANGED row
    /\ UNCHANGED <<mix, now, stored, issued, unfit, crossed, janitor>>

(* A check that fails itself keeps the object. *)
Owner(s) ==
    /\ pc[s] = "owner"
    /\ \/ ~HasRow(job[s].f) /\ Go(s, "discard", job[s])
       \/ (HasRow(job[s].f) \/ "save fails" \in mix.faults) /\ Done(s)
    /\ UNCHANGED <<mix, now, row, stored, issued, unfit, crossed, janitor>>

Discard(s) ==
    /\ pc[s] = "discard"
    /\ \E o \in job[s].left :
        /\ stored' = [stored EXCEPT ![o] = None] \/ ("delete fails" \in mix.faults /\ UNCHANGED stored)
        /\ IF job[s].left = {o} THEN Done(s) ELSE Go(s, "discard", [job[s] EXCEPT !.left = @ \ {o}])
    /\ UNCHANGED <<mix, now, row, issued, unfit, crossed, janitor>>

Crash(s) ==
    /\ "crash" \in mix.faults /\ pc[s] # "idle" /\ Done(s)
    /\ UNCHANGED <<mix, now, row, stored, issued, unfit, crossed, janitor>>

--------------------------------------------------------------------------------
(* A name in use is refused when the row is read; the row is written later, *)
(* if it is live still.                                                     *)
Read(s, f) ==
    /\ Live(f)
    /\ \/ Free(s, "delete") /\ Go(s, "delete", [Idle EXCEPT !.f = f])
       \/ /\ Free(s, "rename") /\ IsDocument(f)
          /\ \E n \in Names : (n = row[f].name \/ n \notin LiveNames) /\ Go(s, "rename", [Idle EXCEPT !.f = f, !.name = n])
    /\ UNCHANGED <<mix, now, row, stored, issued, unfit, crossed, janitor>>

Write(s) ==
    LET f == job[s].f IN
    /\ pc[s] \in {"delete", "rename"} /\ Done(s)
    /\ row' = CASE Live(f) /\ pc[s] = "delete" -> [row EXCEPT ![f].deleted = now]
                [] Live(f) /\ pc[s] = "rename" -> [row EXCEPT ![f].name = job[s].name]
                [] OTHER -> row
    /\ UNCHANGED <<mix, now, stored, issued, unfit, crossed, janitor>>

(* No request lasts a day. *)
Tick ==
    /\ now < MaxDay /\ \A s \in Slots : pc[s] = "idle"
    /\ now' = now + 1 /\ UNCHANGED <<mix, row, stored, issued, unfit, crossed, pc, job, janitor>>

--------------------------------------------------------------------------------
(* One table at a time: the rows deleted before the retention, each with    *)
(* its objects first; what is erased is committed at the end.               *)
Purge ==
    /\ janitor = Rest /\ "purge" \in mix.ops
    /\ \E table \in {"document", "photo", "analysis"} :
        LET due == {f \in Files : HasRow(f) /\ ~Live(f) /\ row[f].deleted < now - Retention
                                  /\ table = IF IsDocument(f) THEN "document" ELSE mix.kind[f]}
        IN  due # {} /\ janitor' = [Rest EXCEPT !.does = "purge", !.rows = due]
    /\ UNCHANGED <<mix, now, row, stored, issued, unfit, crossed, pc, job>>

PurgeRow ==
    /\ janitor.does = "purge" /\ janitor.row = None
    /\ \E f \in janitor.rows : janitor' = [janitor EXCEPT !.row = f, !.rows = @ \ {f}, !.left = Of(f)]
    /\ UNCHANGED <<mix, now, row, stored, issued, unfit, crossed, pc, job>>

(* Storage first: a failure keeps the row. *)
PurgeObject ==
    /\ janitor.row # None /\ janitor.left # {}
    /\ \E o \in janitor.left :
        \/ /\ stored' = [stored EXCEPT ![o] = None] /\ janitor' = [janitor EXCEPT !.left = @ \ {o}]
        \/ /\ "delete fails" \in mix.faults
           /\ janitor' = [janitor EXCEPT !.row = None, !.left = {}] /\ UNCHANGED stored
    /\ UNCHANGED <<mix, now, row, issued, unfit, crossed, pc, job>>

PurgeErase ==
    /\ janitor.row # None /\ janitor.left = {}
    /\ janitor' = [janitor EXCEPT !.erased = @ \cup {janitor.row}, !.row = None]
    /\ UNCHANGED <<mix, now, row, stored, issued, unfit, crossed, pc, job>>

PurgeCommit ==
    /\ janitor.does = "purge" /\ janitor.rows = {} /\ janitor.row = None
    /\ row' = [f \in Files |-> IF f \in janitor.erased THEN Gone ELSE row[f]] /\ janitor' = Rest
    /\ UNCHANGED <<mix, now, stored, issued, unfit, crossed, pc, job>>

(* Objects of documents, older than the grace (the first variant forgets    *)
(* it), that no row owns, live or deleted; the second asks for a live one.  *)
OldToday(o) == IsDocument(o[1]) /\ stored[o] # None /\ stored[o] <= now

Old(o) == IsDocument(o[1]) /\ stored[o] # None /\ stored[o] <= now - Grace

OrphansOfLive == {o \in Objects : Old(o) /\ ~Live(o[1])}
Orphans       == {o \in Objects : Old(o) /\ ~HasRow(o[1])}

Sweep ==
    /\ janitor = Rest /\ "sweep" \in mix.ops /\ Orphans # {}
    /\ janitor' = [Rest EXCEPT !.does = "sweep", !.left = Orphans]
    /\ crossed' = crossed \cup {o[1] : o \in {p \in Orphans :
           \E s \in Slots : pc[s] \in {"name", "save"} /\ job[s].f = p[1]}}
    /\ UNCHANGED <<mix, now, row, stored, issued, unfit, pc, job>>

SweepObject ==
    /\ janitor.does = "sweep"
    /\ \E o \in janitor.left :
        /\ stored' = [stored EXCEPT ![o] = None] \/ ("delete fails" \in mix.faults /\ UNCHANGED stored)
        /\ janitor' = IF janitor.left = {o} THEN Rest ELSE [janitor EXCEPT !.left = @ \ {o}]
    /\ UNCHANGED <<mix, now, row, issued, unfit, crossed, pc, job>>

Killed ==
    /\ "crash" \in mix.faults /\ janitor # Rest /\ janitor' = Rest
    /\ UNCHANGED <<mix, now, row, stored, issued, unfit, crossed, pc, job>>

Next ==
    \/ \E s \in Slots :
        \/ \E f \in Files : Upload(s, f) \/ Confirm(s, f) \/ Read(s, f)
        \/ Put(s) \/ Head(s) \/ Name(s) \/ Save(s) \/ Owner(s) \/ Discard(s) \/ Crash(s) \/ Write(s)
    \/ \E f \in Files : Presign(f) \/ PutDirectly(f)
    \/ Tick \/ Purge \/ PurgeRow \/ PurgeObject \/ PurgeErase \/ PurgeCommit \/ Sweep \/ SweepObject \/ Killed

Spec == Init /\ [][Next]_vars

--------------------------------------------------------------------------------
TypeOK ==
    /\ mix \in Mixes /\ now \in 0..MaxDay /\ unfit \subseteq Files /\ crossed \subseteq Files
    /\ row \in [Files -> [name : Names, deleted : (0..MaxDay) \cup {None}] \cup {None, Gone}]
    /\ stored \in [Files \X {"body", "thumb"} -> (0..MaxDay) \cup {None}]
    /\ issued \in [Files -> (0..MaxDay) \cup {None}]
    /\ pc \in [Slots -> {"idle", "put", "head", "name", "save", "owner", "discard", "delete", "rename"}]

(* A row has all its objects for as long as it is live, and a deleted one   *)
(* until the retention is over: "its file must survive" a confirmation that *)
(* runs twice, and a sweep takes no object a row owns.  Only a confirmation *)
(* that comes as long after the address as the grace can meet a sweep of    *)
(* its object, and be left without it.                                      *)
FilesKept ==
    /\ \A f \in Files \ crossed : HasRow(f) /\ (Live(f) \/ now <= row[f].deleted + Retention)
           => \A o \in Of(f) : stored[o] # None
    /\ \A f \in crossed : issued[f] # None /\ issued[f] + Grace <= now

(* A file that was erased is erased for good: "Storage first -- if it       *)
(* fails, the DB row stays", for each of a photo's objects, and a late      *)
(* upload or confirmation never brings an object or a row back.             *)
NoTrace == \A f \in Files : row[f] = Gone => \A o \in Of(f) : stored[o] = None

(* The live documents of a project have different names, for one request at *)
(* a time.                                                                  *)
NamesApart ==
    \A f, g \in Files : f # g /\ Live(f) /\ Live(g) /\ IsDocument(f) /\ IsDocument(g) => row[f].name # row[g].name
================================================================================
