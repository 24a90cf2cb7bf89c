---------------------------------- MODULE Stock ---------------------------------
(***************************************************************************)
(* The inventory of a company: its warehouses, the items in them or on its *)
(* sites, and the names two warehouses may not share.  A request reads,    *)
(* and writes back the whole row it read in a later step; whoever claims a *)
(* name holds the row of the company from the check on.                    *)
(***************************************************************************)
EXTENDS Integers, FiniteSets

CONSTANTS
    Slots, Warehouses, Items, Sites, Names, None,
    Mixes   \* [ops, alone]

Places == [kind : {"warehouse"}, warehouse : Warehouses, site : {None}]
          \cup [kind : {"site"}, warehouse : {None}, site : Sites \cup {None}]

VARIABLES
    mix,
    warehouse,  \* the name of a warehouse, None without one
    item,       \* where an item is, None without it
    site,       \* the projects of the company
    locker,     \* the request that holds the company's row
    gone,       \* history: items that were deleted
    pc, job

Constants ==
    /\ None \notin Slots \cup Warehouses \cup Items \cup Sites \cup Names \cup Places
    /\ \A m \in Mixes : m.alone \in BOOLEAN

vars == <<mix, warehouse, item, site, locker, gone, pc, job>>

Idle == [op |-> "none", w |-> None, i |-> None, name |-> None, place |-> None]

Init ==
    /\ mix \in Mixes
    /\ warehouse = [w \in Warehouses |-> None] /\ item = [i \in Items |-> None]
    /\ site = Sites /\ locker = None /\ gone = {}
    /\ pc = [s \in Slots |-> "idle"] /\ job = [s \in Slots |-> Idle]

Free(s, op) ==
    /\ pc[s] = "idle" /\ op \in mix.ops
    /\ mix.alone => \A t \in Slots : pc[t] = "idle"

Go(s, step, j) ==
    /\ pc' = [pc EXCEPT ![s] = step] /\ job' = [job EXCEPT ![s] = j]
    /\ UNCHANGED <<mix, warehouse, item, site, locker, gone>>

Done(s) ==
    /\ pc' = [pc EXCEPT ![s] = "idle"] /\ job' = [job EXCEPT ![s] = Idle]
    /\ locker' = IF locker = s THEN None ELSE locker

--------------------------------------------------------------------------------
Empty(w) == ~ \E i \in Items : item[i] # None /\ item[i].warehouse = w

(* A new name waits for the company's row (its variant does not); an        *)
(* address does not.                                                        *)
ReadWarehouse(s) ==
    \E w \in Warehouses, n \in Names :
        \/ /\ Free(s, "create") /\ warehouse[w] = None /\ \A t \in Slots : ~(job[t].op = "create" /\ job[t].w = w)
           /\ Go(s, "lock", [Idle EXCEPT !.op = "create", !.w = w, !.name = n])
        \/ Free(s, "rename") /\ warehouse[w] \notin {None, n} /\ Go(s, "lock", [Idle EXCEPT !.op = "rename", !.w = w, !.name = n])
        \/ Free(s, "address") /\ warehouse[w] = n /\ Go(s, "write", [Idle EXCEPT !.op = "address", !.w = w, !.name = n])
        \/ Free(s, "remove") /\ warehouse[w] = n /\ Empty(w) /\ Go(s, "write", [Idle EXCEPT !.op = "remove", !.w = w])

LockNothing(s) ==
    /\ pc[s] = "lock"
    /\ pc' = [pc EXCEPT ![s] = "check"] /\ UNCHANGED <<mix, warehouse, item, site, locker, gone, job>>

Lock(s) ==
    /\ pc[s] = "lock" /\ locker = None /\ locker' = s
    /\ pc' = [pc EXCEPT ![s] = "check"] /\ UNCHANGED <<mix, warehouse, item, site, gone, job>>

Check(s) ==
    LET j == job[s]
        taken == \E w \in Warehouses \ {j.w} : warehouse[w] = j.name
    IN
    /\ pc[s] = "check"
    /\ IF taken THEN Done(s) ELSE pc' = [pc EXCEPT ![s] = "write"] /\ UNCHANGED <<job, locker>>
    /\ UNCHANGED <<mix, warehouse, item, site, gone>>

(* A row that is gone meanwhile is added again; the foreign key of the      *)
(* items keeps a warehouse that holds some.                                 *)
WriteWarehouse(s) ==
    LET j == job[s] IN
    /\ pc[s] = "write" /\ j.w # None /\ Done(s)
    /\ warehouse' = CASE j.op # "remove" -> [warehouse EXCEPT ![j.w] = j.name]
                      [] j.op = "remove" /\ Empty(j.w) -> [warehouse EXCEPT ![j.w] = None]
                      [] OTHER -> warehouse
    /\ UNCHANGED <<mix, item, site, gone>>

--------------------------------------------------------------------------------
Exists(p) == IF p.kind = "warehouse" THEN warehouse[p.warehouse] # None ELSE p.site \in site

(* A place the row comes to is checked, one it keeps is not.                *)
ReadItem(s) ==
    \E i \in Items :
        \/ /\ Free(s, "add") /\ item[i] = None /\ i \notin gone /\ \A t \in Slots : job[t].i # i
           /\ \E p \in Places : Exists(p) /\ Go(s, "write", [Idle EXCEPT !.op = "add", !.i = i, !.place = p])
        \/ /\ Free(s, "move") /\ item[i] # None
           /\ \E p \in Places : p # item[i] /\ Exists(p) /\ Go(s, "write", [Idle EXCEPT !.op = "move", !.i = i, !.place = p])
        \/ /\ Free(s, "count") /\ item[i] # None
           /\ Go(s, "write", [Idle EXCEPT !.op = "count", !.i = i, !.place = item[i]])
        \/ /\ Free(s, "delete") /\ item[i] # None
           /\ Go(s, "write", [Idle EXCEPT !.op = "delete", !.i = i])

(* The foreign keys refuse a warehouse or a site that is gone.              *)
WriteItem(s) ==
    LET j == job[s]
        fits == j.op = "delete" \/ Exists(j.place) \/ (j.place.kind = "site" /\ j.place.site = None)
    IN
    /\ pc[s] = "write" /\ j.i # None /\ Done(s)
    /\ item' = IF fits THEN [item EXCEPT ![j.i] = j.place] ELSE item
    /\ gone' = IF j.op = "delete" THEN gone \cup {j.i} ELSE gone
    /\ UNCHANGED <<mix, warehouse, site>>

(* The rows of a deleted project stay, without a site.                      *)
DeleteProject(p) ==
    /\ "project" \in mix.ops /\ p \in site
    /\ site' = site \ {p}
    /\ item' = [i \in Items |-> IF item[i] # None /\ item[i].site = p THEN [item[i] EXCEPT !.site = None] ELSE item[i]]
    /\ UNCHANGED <<mix, warehouse, locker, gone, pc, job>>

Next ==
    \/ \E s \in Slots : ReadWarehouse(s) \/ Lock(s) \/ Check(s) \/ WriteWarehouse(s) \/ ReadItem(s) \/ WriteItem(s)
    \/ \E p \in Sites : DeleteProject(p)

Spec == Init /\ [][Next]_vars

--------------------------------------------------------------------------------
TypeOK ==
    /\ mix \in Mixes /\ site \subseteq Sites /\ locker \in Slots \cup {None} /\ gone \subseteq Items
    /\ warehouse \in [Warehouses -> Names \cup {None}]
    /\ item \in [Items -> Places \cup {None}]
    /\ pc \in [Slots -> {"idle", "lock", "check", "write"}]

(* "Two warehouses of one company with the same name cannot be told apart   *)
(* in the pickers": also when they are created, renamed and removed at the  *)
(* same time, or edited one after another.                                  *)
NamesApart == \A v, w \in Warehouses : v # w /\ warehouse[v] # None => warehouse[v] # warehouse[w]

(* An item is in a warehouse that exists, or on a site, or where a site     *)
(* was, whatever was moved, recounted, removed and deleted around it.       *)
Placed ==
    \A i \in Items : item[i] # None =>
        IF item[i].kind = "warehouse" THEN warehouse[item[i].warehouse] # None ELSE item[i].site \in site \cup {None}

(* What was deleted stays deleted, for one request at a time.               *)
GoneStays == \A i \in gone : item[i] = None
================================================================================
