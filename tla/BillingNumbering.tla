---------------------------- MODULE BillingNumbering ----------------------------
(***************************************************************************)
(* How a company numbers its devis, or its factures, of a year: a counter  *)
(* taken in the transaction that inserts the document, and pushed forward  *)
(* by the import of documents that other software numbered.  The counters  *)
(* of other companies, kinds and years are other rows.                     *)
(*                                                                         *)
(* A request is a PostgreSQL transaction at READ COMMITTED.  The upsert of *)
(* the counter locks its row until the transaction ends, so what it wrote  *)
(* is kept in `took' and reaches `counter' at the commit.                  *)
(***************************************************************************)
EXTENDS Integers, FiniteSets

CONSTANTS
    Slots,      \* requests the workers can serve at the same time
    Prefixes,   \* prefixes of document numbers
    Digits,     \* those of them that hold a digit
    Own,        \* the company's own prefix
    MaxSeq,     \* _MAX_COUNTER_SEQ
    LastSeq,    \* bound: the largest sequence considered
    MaxDocs,    \* bound: documents that exist at the same time
    Ops,        \* what the run exercises
    None        \* "no slot"

ASSUME NumberingConstants ==
    /\ Own \in Prefixes /\ Digits \subseteq Prefixes
    /\ MaxSeq \in Nat /\ LastSeq \in Nat \ {0} /\ MaxDocs \in Nat
    /\ None \notin Slots

VARIABLES
    counter,    \* next_value, 1 while there is no row
    docs,       \* the numbers of the documents
    owner,      \* the slot that holds the row of the counter
    pc, want,   \* per slot: the next step, and the number its request is about
    took,       \* per slot: the next_value its transaction has written, or 0
    disturbed   \* history: a document was imported or deleted

tables == <<counter, docs, disturbed>>
vars   == <<counter, docs, owner, pc, want, took, disturbed>>

--------------------------------------------------------------------------------
(* Numbers *)

Seqs == 1..LastSeq

(* PREFIX-FAC-YEAR-SEQ as Folio writes it, or in another layout. *)
Numbers == [prefix : Prefixes, seq : Seqs, folio : BOOLEAN]
Number(n) == [prefix |-> Own, seq |-> n, folio |-> TRUE]

(* _DOC_NUMBER_PATTERN takes letters and dashes before the year. *)
Parsed(n) == n.prefix \notin Digits

(* The sequence that an imported number takes from the counter, or 0.      *)
Taken(n) == IF Parsed(n) /\ n.seq <= MaxSeq THEN n.seq ELSE 0

NotWanted == Number(1)
PCs == {"idle", "claim", "insert", "bump", "store"}

(* The transaction of s is over ...                                        *)
End(s) ==
    /\ pc' = [pc EXCEPT ![s] = "idle"]
    /\ want' = [want EXCEPT ![s] = NotWanted]
    /\ took' = [took EXCEPT ![s] = 0]
    /\ owner' = IF owner = s THEN None ELSE owner

(* ... without a trace in the tables (the variant keeps the number it     *)
(* claimed, as a sequence would) ...                                       *)
LeaveKeepingCounter(s) ==
    /\ counter' = IF took[s] = 0 THEN counter ELSE took[s]
    /\ UNCHANGED <<docs, disturbed>>
    /\ End(s)

Leave(s) == End(s) /\ UNCHANGED tables

(* ... or with a document and the counter it wrote; the variant writes the *)
(* counter even if the transaction did not take it.                        *)
CommitAlways(s) ==
    /\ docs' = docs \cup {want[s]}
    /\ counter' = took[s]
    /\ End(s)

Commit(s) ==
    /\ Cardinality(docs) < MaxDocs
    /\ docs' = docs \cup {want[s]}
    /\ counter' = IF took[s] = 0 THEN counter ELSE took[s]
    /\ End(s)

(* The upsert: it waits for the row, and keeps it.  The variant only reads *)
(* the row (SELECT without FOR UPDATE).                                    *)
ReadCounter(s, next) ==
    /\ took' = [took EXCEPT ![s] = next]
    /\ UNCHANGED <<tables, owner>>
HoldCounter(s, next) ==
    /\ owner = None
    /\ owner' = s
    /\ took' = [took EXCEPT ![s] = next]
    /\ UNCHANGED tables

--------------------------------------------------------------------------------
(* New documents: create, clone, a template, the conversion of a devis *)

Create(s) ==
    /\ "create" \in Ops /\ pc[s] = "idle"
    /\ pc' = [pc EXCEPT ![s] = "claim"]
    /\ UNCHANGED <<tables, owner, want, took>>

(* next_value *)
Claim(s) ==
    /\ pc[s] = "claim"
    /\ counter <= LastSeq
    /\ HoldCounter(s, counter + 1)
    /\ want' = [want EXCEPT ![s] = Number(counter)]
    /\ pc' = [pc EXCEPT ![s] = "insert"]

(* A number that exists already is an IntegrityError. *)
Insert(s) ==
    /\ pc[s] = "insert"
    /\ IF want[s] \in docs THEN Leave(s) ELSE Commit(s) /\ UNCHANGED disturbed

--------------------------------------------------------------------------------
(* Imports *)

(* A number of the company's own, that the counter could reach but that is *)
(* too large to move it; the variant has no such rule.                     *)
NeverRefused(n) == FALSE
Refused(n) == Parsed(n) /\ n.seq > MaxSeq /\ n.folio /\ n.prefix = Own

Import(s, n) ==
    /\ "import" \in Ops /\ pc[s] = "idle"
    /\ ~Refused(n)
    /\ pc' = [pc EXCEPT ![s] = IF Taken(n) # 0 THEN "bump" ELSE "store"]
    /\ want' = [want EXCEPT ![s] = n]
    /\ UNCHANGED <<tables, owner, took>>

(* bump_to_at_least; the variant forgets GREATEST. *)
BumpTo(seq) == seq + 1
BumpToAtLeast(seq) == IF counter > seq + 1 THEN counter ELSE seq + 1

(* The variant commits the counter before the document is stored.          *)
BumpAtOnce(s) ==
    /\ pc[s] = "bump" /\ owner = None
    /\ counter' = BumpToAtLeast(want[s].seq)
    /\ pc' = [pc EXCEPT ![s] = "store"]
    /\ UNCHANGED <<docs, disturbed, owner, took, want>>

Bump(s) ==
    /\ pc[s] = "bump"
    /\ HoldCounter(s, BumpToAtLeast(want[s].seq))
    /\ pc' = [pc EXCEPT ![s] = "store"]
    /\ UNCHANGED want

(* BillingDocumentAlreadyExistsError rolls the counter back with the rest. *)
Store(s) ==
    /\ pc[s] = "store"
    /\ IF want[s] \in docs THEN Leave(s) ELSE Commit(s) /\ disturbed' = TRUE

--------------------------------------------------------------------------------
(* Deletions and crashes *)

Delete(n) ==
    /\ "delete" \in Ops
    /\ docs' = docs \ {n}
    /\ disturbed' = TRUE
    /\ UNCHANGED <<counter, owner, pc, want, took>>

(* The worker dies: PostgreSQL rolls its transaction back. *)
Killed(s) == "kill" \in Ops /\ pc[s] # "idle" /\ Leave(s)

--------------------------------------------------------------------------------
(* Specification *)

Init ==
    /\ counter = 1
    /\ docs = {}
    /\ owner = None
    /\ pc = [s \in Slots |-> "idle"]
    /\ want = [s \in Slots |-> NotWanted]
    /\ took = [s \in Slots |-> 0]
    /\ disturbed = FALSE

Next ==
    \/ \E s \in Slots : \/ Create(s) \/ Claim(s) \/ Insert(s)
                        \/ \E n \in Numbers : Import(s, n)
                        \/ Bump(s) \/ Store(s)
                        \/ Killed(s)
    \/ \E n \in docs : Delete(n)

Spec == Init /\ [][Next]_vars

--------------------------------------------------------------------------------
(* Properties *)

TypeOK ==
    /\ counter \in Nat \ {0}
    /\ docs \subseteq Numbers
    /\ owner \in Slots \cup {None}
    /\ pc \in [Slots -> PCs] /\ want \in [Slots -> Numbers] /\ took \in [Slots -> Nat]
    /\ disturbed \in BOOLEAN

(* As long as nothing is imported or deleted, the documents are numbered   *)
(* 1, 2, 3, ... without a gap, whichever requests overlap or fail: the     *)
(* "continuous billing sequence" of BillingNumberCounterModel.             *)
Continuous == ~disturbed => docs = {Number(n) : n \in 1..(counter - 1)}

(* A new document is never refused because the number the counter handed   *)
(* out exists already, imported or not (next_value, bump_to_at_least).     *)
NeverBlocked == \A s \in Slots : pc[s] = "insert" => want[s] \notin docs

(* The counter never goes back: the number of a deleted document is not    *)
(* handed out a second time.                                               *)
CounterNeverRewinds == [][counter' >= counter]_vars

(* However requests overlap, fail or die, they are seen as if each had     *)
(* happened at once or not at all: a number is spent only by a document    *)
(* that is stored, and an import moves the counter just past its own       *)
(* number, in the same commit (next_value and bump_to_at_least, which are  *)
(* not committed on their own).                                            *)
Register == INSTANCE NumberRegister WITH next <- counter, Issued <- Number, Reach <- Taken
ImplementsRegister == Register!Spec
================================================================================
