# Verification of the Folio back-end

This directory holds TLA+ models of the concurrent core of the Folio back-end (`src/app`), the TLC
configurations that check them on small instances, and TLAPS proofs about them.

## The system

Folio is the server of a construction company's application: Flask, SQLAlchemy and PostgreSQL at
READ COMMITTED, Redis for rate limits and budgets, gunicorn with four workers of four threads each.
Every request has a database session of its own, rolled back at the end of the request unless a
repository or a use case committed it. Nothing else serialises two requests: whatever one request
reads and another writes is decided by row locks (`SELECT ... FOR UPDATE`), by unique indexes, by
advisory locks and by the order of the commits. The tests run on SQLite, one request at a time, where
none of these locks exists. That is what the models are about.

The code is in layers: routes (`app/api/v1`) call use cases (`app/application`), which work on
entities (`app/domain`) through repositories and adapters (`app/infrastructure`) that `wiring.py`
puts together. Two habits decide most of what follows:

* some repositories commit by themselves (`SQLAlchemyInvoiceRepository`, the attendance
  repository), others only flush and leave the commit to the use case or the route (billing,
  companies). A use case that mixes them has more than one transaction;
* an entity is a copy of its row. A use case reads, computes, and hands the entity to `update()`,
  which reads the row once more and writes the columns that differ.

## Inventory

| Component | State | Operations | What is hard | What makes it correct |
|---|---|---|---|---|
| Company membership | `user_company_access` (role, primary flag), `user_projects`, linked `company_persons`, `companies.join_code` | set role, boot, detach, attach, join by code, switch primary, assign and unassign, delete account | last-admin guards that lock the admins' rows; a promotion when a primary row goes; lock cycles between account deletions | an admin stays; one primary row; members have a profile; requests end |
| Authorisation | `company_member_grants`, role, assignments | resolve, set, withdraw, with whatever changes the role or the assignment | checked first and written later, without a lock; several tables decide one answer | refusals stand; a grant ends with what it was given for; outsiders change nothing |
| Invitations | `invitations` | send, re-send, revoke, accept, lapse | an acceptance locks the row, revoking writes back a copy | one person per link; a link taken back lets nobody in |
| Persons and company directory | `persons`, `company_persons` | create, import, merge, link, expire, close | several keys (number, account, person) for one human being, merged later | one profile per human and company; who is attached is listed; nothing else lets somebody in |
| Login codes, tokens, accounts | `login_otps`, Redis budgets and revocations | request and verify a code, change the number, rotate, log out | throttle read before the insert; message sent before the commit; rotation with a grace | bounded guesses, proven numbers, budgets kept, logout ends a session |
| Billing documents | `billing_documents`, their `released_funds` invoices | create, import, clone, edit, change of status, devis to facture, delete | the release adapter commits in the middle of the request; deletion takes no lock | a paid facture has exactly one release, equal to it; a facture stands on an accepted, unchanged devis |
| Billing numbers | `billing_number_counters` | claim on creation, bump on import | two upserts of one row, roll-backs, foreign numbers | consecutive numbers, never one twice |
| Invoices: returns and credits | `invoices`, `invoice_number_counters` | create, edit, delete purchases, expenses, returns | caps that add up other rows, links that cross, a row that is not locked | caps hold, links suit, no deadlock, numbers once |
| Invoices: refunds and purses | `refundable_status`, bank refund releases, sums of a project | mark refundable, pending, refunded; purses, wages paid and owed | two transactions with a best-effort compensation; two readers of one sum | status and release agree; the parts add up; paying one worker settles no other |
| Payment methods | `payment_methods` | change of the company flag | expenses use a method while it changes | no expense is owed back and paid by the company |
| Attendance | `labor_entries` | log, bulk log, submit, edit own, request and decide a change, validate, reject, delete | no row lock at all: read, decide, write the columns | a validated day was checked by a manager; one site per shift; entries stay loadable |
| Labor: workers, rates, roles, reports | `workers`, `worker_rate_changes`, notes of days and months | hire, stop, restart, copy to other sites, change a rate | a roster copied under an advisory lock, in transactions after the first; five readers of one salary | one crew on all sites; the past is not repriced; the sums agree |
| Bibliotheque | products, purchases, images | import, create, edit, upload, fetch, delete | savepoints and three strengths of row lock; totals kept in the row | totals are those of the purchases; posting again adds nothing |
| Inventory | warehouses, items | create, rename, remove, add, move, recount | a name claimed under the company's lock; an emptiness check | names unique, every item in a place that exists |
| Chiffrage and tasks | quotes, positions | add, edit, select a price; drop a row or a card | whole rows written back; a renumbering in several commits | one price retained; a drop lands where it was made |
| Chat, push, bell | messages, markers, windows, bell entries | send, read, notify | what is notified commits after the message, window by window | no quiet window swallows news |
| Documents, photos, analyses, janitor | rows and objects of a store | upload, presign, confirm, rename, delete, purge, sweep | the object and its row are two systems | no row without its object; no trace of what was erased |
| Notes, projects, API keys, templates, bulk add, start-up, migrations | one row each, or none | edits | little: single rows | not modelled |

`PROJECT.json` lists these with their files and status, and the places where the code can go wrong
("hazards"), each at its line, with the properties that watch over it.

How the components meet: a paid facture makes an invoice (`FundsReleaseAdapter`); membership keeps the
directory profile and the assignments in step (`ensure_company_person`, `assignments.py`), and they
decide what grants apply; an invitation ends in membership and assignments; a worker may be linked to an
account, whose leaving a company unlinks it; attendance is priced by the rates of the roster and summed up
in the spend of the project next to its invoices; invoices point to workers, payment methods and each
other with foreign keys that are set to NULL; notifications follow commits.

## How requests are modelled

The variables are the committed tables, the holder of each row lock that matters, and per slot
(a request that some worker thread is serving) a program counter, the request and what it has read.
The writes of a transaction appear when it commits, in the action that ends the request. An action is
a stretch of code between two points at which another request can be seen or have to be waited for: a
lock, a read that is used later, a commit. A statement that waited for a lock sees the rows as they are
when it gets it. Where workers die half way, that is an action too (`kill`, `crash`, `stops`), and PostgreSQL turns it
into a roll-back of what was not committed.

Most modules have a variable `mix`: what a behaviour exercises. It names the kinds of requests, whether
they overlap or come one at a time (`alone`), and sometimes the first rows. It never changes. It is how one run asks several
questions of a module (`Mixes` is a set of such records), and how a property says that it holds for requests that do not overlap:
`mix.alone => ...`. Where a property is restricted in that way the code has no lock to offer, and the
section on disagreements says what happens with overlap.

Four `MC...` modules (`MCLabor`, `MCPeople`, `MCMoney`, `MCWorkspace`) put parts of the system side by side:
`part` says which of them a behaviour exercises, and the others rest. The parts do not
share state; they share a run.

## Modules

| Module | Models | Proofs |
|---|---|---|
| `CompanyMembership` | the membership endpoints and use cases, `SqlAlchemyUserCompanyAccessRepository`, `assignments.py`, `delete_account.py` | `CompanyMembershipProofs` |
| `Permissions` | the matrix, the resolver, the gates of the routes, setting and withdrawing grants and denials | `PeopleProofs` |
| `Invitations`, `InvitationLedger` | invitations by e-mail, with the row lock of an acceptance; the ledger is the table with its history and its promises | `InvitationsProofs` |
| `Directory` | persons and profiles under invitations by number, sign-ups, imports, merges, erasures and closing | `PeopleProofs` |
| `SignInCodes`, `Sessions`, `SmsBudget` | one-time codes; refresh tokens; the sliding windows of texts | `PeopleProofs` (codes, tokens) |
| `BillingDocuments` | the use cases of `app/application/billing`, `FundsReleaseAdapter`, the document repository | `BillingDocumentsProofs` |
| `BillingNumbering` | the counter repository, `numbering.py`, creation and import | `BillingNumberingProofs` |
| `NumberRegister` | what the numbering promises (abstract): each creation, import or deletion at once or not at all | `BillingNumberingProofs` |
| `InvoiceReturns` | `create_invoice.py`, `update_invoice.py`, `delete_invoice.py`, the invoice repository | `MoneyProofs` (no deadlock) |
| `Refunds` | `set_refundable_status_usecase.py`, bank refund releases, the flag of a payment method | `MoneyProofs` |
| `ProjectSpent` | the sums of `sqlalchemy_project_spent_reader.py` and the purses | |
| `Attendance` | the use cases and the repository of labor entries | `LaborProofs` |
| `LaborRoster` | workers of a company on all its sites, the copying use cases and their advisory lock | `LaborProofs` |
| `LaborPay` | the five readers of a salary, rate changes, bank hours | |
| `KeyedRow`, `KeyedRowHistory` | the rows keyed by a day, a month or a date; the history is what is remembered of the requests | `LaborProofs` |
| `Quotes`, `Placement` | the prices of an article and the retained one; positions on boards and lists | `WorkspaceProofs` (the prices) |
| `ProjectFiles` | documents, photos, analyses, their objects, the janitor | `WorkspaceProofs` (the files) |
| `Chat` | a channel, its markers, its quiet windows and the bell | `WorkspaceProofs` |
| `Stock` | warehouses and items | `WorkspaceProofs` |
| `Library` | a product, its purchases and its image | `WorkspaceProofs` |

How state and actions correspond to the code, module by module. Each definition's lines are in
`PROJECT.json` under `map`.

### Members, permissions, people

**CompanyMembership.** `access` is the table: a role and a rank per user and company. A request for a
role (`set_role`) locks its target (`LockTarget`: `find_for_update`), takes the snapshot of the admins
when the guard applies and locks them one at a time (`SnapshotAdmins`, `LockAdmin`:
`list_admins_for_update`), counts what it got (`LastAdminGuard`) and commits (`FinishSetRole`). A
detach reads its row first and without a lock (`DetachRead`), as the code does; a removal of a primary
row picks the row that becomes primary next (`PickHeir`, `GetHeir`); attach and join insert
(`FinishInsert`, where the partial unique index `uq_user_company_access_primary` may refuse); a switch
of primary sweeps the user's rows (`SnapshotRows`, `SweepRow`); an account deletion goes through the
companies in the order of their ids (`DeleteAccountNext`, `DeleteAccountGuard`). `DeadlockVictim` is
PostgreSQL's deadlock detector. Modelling choices: the caller is authorised; `attached_at`, which
orders the candidates for promotion, is left open (any candidate may come first); companies are fixed;
assigning adds the project row and then promotes, in one transaction; a role written again is the same
as the fast path that does not write it.

**Permissions.** `rows` are the grants and denials of one person, by permission and scope (a project, or the
whole company); `role` and `assigned` are what the person is and where. A request checks (`SetGrant`,
`RemoveGrant`, `Unassign`, `SetRole`, ...), may look its row up (`FindRow`), and writes in a last step; no
lock is held between. An insert that meets another one's row looks again and updates it (`InsertGrant`).
Leaving and unassigning delete the rows that go with them. `Effect`, `CanMutate` and `MayCall` are the
resolver and the gates of the routes. `decided` is history: what an admin said last about a key since the
person came, or was last on the project.

**Invitations.** `inv` is the table, `mailbox` who reads which address, `took` (history) who came in through
an invitation. `CreateInvitation` and `SendInvitation` are the two steps of sending and of sending again (the older
link is replaced), `RevokeInvitation` and `SaveRevoked` read and write back without a lock,
`AcceptInvitation` checks without a lock, `LockInvitation` checks again with it and `JoinProject` commits.
`Lapse` is the end of its time; an inviter may lose the right to invite in between.

**Directory.** Persons and profiles by id, accounts by the number that signs in. Every operation is one step: its requests
overlap in one way that matters (the unique keys), and `NoKeyTwice` says that no operation meets one it did
not look for, but for the key of a company and a person: a sign-up moves the profiles of the other persons with its number to the one
that stays, and may find a profile of the company there (`Collides`). The refused flush leaves the database session unusable; the
`except` around the linking goes on (`otp_login.py:501-507`), the next query fails, and nothing of the sign-up is committed, so `SignUp`
has no step there. Merging moves a profile's rows to the person that stays.

**SignInCodes, Sessions, SmsBudget.** A code is asked for in two steps (throttles, then the commit after
the text was sent) and given back in two (the lock and the guess, then the commit). Saving a code deletes and voids rows: it
waits for a locked row of its number and passes by the locked rows of others. A session is a tree of refresh
tokens; Redis keeps revocations and rotations for a time to live, and forgets. A logout walks back `MaxChain` rotations (16 in the
code, `jwt_issuer.py:25`); tokens that are older end with their grace. The budget is a sorted
set and two sliding windows; a worker counts in one call (`Acquire`), adds in another and renews the life of the key in a third (`Add`). It
fails open: a call that finds no Redis lets the text go, not counted (`FailOpen`), or half counted (`AddFails`); `uncounted` (history)
holds those, `admitted` (history) all that were let go. `MaxOpen` bounds the uncounted ones of a day.

### Documents and money

**BillingDocuments.** A document is a kind, a status, a source devis, a project and a version of its
lines; `release` is the invoice that `sync_funds_release` keeps for a paid facture. `LockDoc` is
`find_by_id_for_update` with the checks of the use case; `CommitDoc` ends a request that needs no
release; `FindRelease` then `UpdateRelease`, `InsertRelease`, or `MoveRelease` and `CreateRelease` are
the three ways of the adapter, the last one being two transactions with nothing locked in between.
Deletion is `ReadToDelete` (no lock), `DeleteRelease` (which commits) and `DropDoc`. All projects belong to the
company of the documents, and a conflict of invoice numbers in `CreateRelease` ends the request as a
crash would.

**BillingNumbering.** `counter` is the committed `next_value`, `took` what a transaction has written to
it, `owner` the transaction that holds its row. `Claim` is the upsert of `next_value`, `Insert` the
document, `Bump` and `Store` the two halves of an import. One company, one kind, one year (the others
are other rows of the same table); the company keeps its prefix. `NumberRegister` is the abstract
specification: `Issue` hands out the next number, `Absorb` takes in a number and moves the next one just
past it, `Discard` drops one. `ImplementsRegister` maps the register's `next` to the committed counter
and its documents to the table; claims, bumps, failures and deaths are stuttering steps.

**InvoiceReturns.** `inv` is the table of one project; a deleted row keeps its number so that the
property can speak of it. `Lock` is one call of `find_by_id_for_update` inside
`lock_invoices_in_id_order`, over `ToLock`, the links that the request has to check again; `Check` is the
validation of the use case (`RefundAccepted`, `ApplyAccepted`, and `OwnReturnsAllow` and
`OwnCreditsAllow` for the returns of the invoice itself) and the second read of `update()`; `Insert`,
`Write` and `Drop` are the three commits of the repository. `Write` writes the columns that differ from
the second read, waits for the row's lock, and is refused when a link no longer exists (foreign keys);
`Drop` sets the links of the returns to NULL (`ON DELETE SET NULL`). The claim of the invoice's number
is part of `Insert`, because its counter is locked from the claim to the commit and nobody else reads it
in between; that protocol is `BillingNumbering`'s. Every credit that is applied is an avoir
(`settled_via`), totals are never zero, and payment methods, labor fields, the refund lifecycle and
releases of funds are left out. A request with a wrong sign is refused before it touches anything and
is not a step.

**Refunds.** One expense, the bank release made for it, and the flag of its payment method. A change of
status is a reconciliation of the release (its own commit), the persistence of the status (another), and on
failure a compensation that may be skipped or fail; a worker may die between any two of them.

**ProjectSpent.** Invoices of the kinds that count, refunds, and the wages a project accrued; the sums are
operators, one per query of the reader and one per query of the expense page.

### Labor

**Attendance.** `entry` are the days of workers on two sites or more; a request reads an entry, decides on its
copy (`conflicts`: the check for another site), reads again (`reread`) and writes the columns that
differ (`write`), or deletes (`erase`). A bulk log commits entry after entry. `signed` (history) are the
entries a manager logged, validated or decided, `loose` those somebody insisted on.

**LaborRoster.** `row` is the table of workers by site and person (a third component numbers rows beyond the
first, which must not exist), `profile` the directory's view of the person. The first change of a request commits
(`insert`, `write`), what it brings to other sites comes in a transaction under the advisory lock
(`reach`, `spread`, `copy`, `fill`), which may fail.

**LaborPay.** Days with hours and rates of one worker; `Summary`, `MonthlySummary`, `LaborAccrued`, `ListedCost` and `RatePeriods` are the
five readers, in cents, with their roundings and the bonus for banked hours.

**KeyedRow.** One key, its row, and the four ways to set it and to clear it that three repositories share:
upsert, insert that converges on a conflict, update of what was found, delete of what was found.

### Workspace

**Quotes.** A request reads, and puts the whole row back in a second step (`WriteRow`); selecting and
unselecting lock the article (`Lock`), clear what is flagged (`Clear`) and commit (`Commit`). Shops are opened, renamed and
removed in two steps as well.

**Placement.** Positions of a board (every renumbered card commits by itself: `writes` are those still to
come) and of a chiffrage (they commit together). `wanted` (history) is the order the user saw after the
drop.

**ProjectFiles.** `row` and `stored` are the database and the object store. Uploads through the server put,
name, save and own; direct ones are presigned, put by the browser and confirmed; a failed request
discards what it had put. The janitor purges rows past their retention, objects first, and sweeps uploads nobody confirmed.
An address lives less than a day and a request ends within one, but a confirmation comes at any age, as in the code, so that it can meet the
sweep of its object: the sweep asks for the rows, the confirmation finds the object and saves its row, the sweep deletes. `crossed` (history)
are the documents whose confirmation went on while the sweep held their object; `FilesKept` promises the objects of all others, and
that only confirmations the grace after their address get there.

**Chat.** A message and its sender's marker commit together (`Commit`); then come the bell's clearing, the
list of members out of their quiet window (`Members`), their bell entries one by one (`Push`), and the opening of all
windows in one commit (`Windows`, `Mark`), which a collision undoes. `told` and `settled` are history.

**Stock, Library.** Warehouses and items: read, and write the whole row back; whoever claims a name holds the
company's row. A product: three strengths of row lock (`share`, `write`, `all`), an import with its savepoint, and a
deadlock detector (`Victim`).

## Runs

| Run | Question | Properties | Bounds | Outcome |
|---|---|---|---|---|
| `membership_guard` | Can overlapping role changes, boots, joins, detaches, assignments and switches get past the last-admin guard, make two primary rows, or leave a member without a profile? | `TypeOK`, `StaysListed`, `OnePrimary`, `GuardKeepsAnAdmin` | 2 users, 2 companies, 2 requests, four mixes | holds |
| `membership_erasure` | Do account deletions, and role changes and removals, that lock each other's rows end, and leave no members without admin? | `NoOneStranded`, `EveryRequestEnds` | 3 users, 1 company, 2 requests, two mixes, fairness | holds |
| `detach_stale_role` | Does a company that has an admin keep one? | `CompanyKeepsAdmin` | 2 users, 1 company, 2 requests | violated |
| `billing_documents` | Do paid factures and releases, devis and factures, stay in step? | `ReleaseHolds`, `BasisAccepted`, `BasisUnchanged` | 2 documents; 2 requests in 1 project, or 1 request at a time in 2 projects, cut short anywhere | holds |
| `billing_numbering` | Are numbers consecutive, free, and never handed out twice, and is each request seen as one operation of the register? | `TypeOK`, `Continuous`, `NeverBlocked`, `CounterNeverRewinds`, `ImplementsRegister` | 2 requests, 3 documents, sequences up to 4, counter limit 2 | holds |
| `digit_prefix_blocks` | The same for a company whose prefix has a digit | `NeverBlocked` | 2 requests, 4 documents | violated |
| `labor` | Are days, rosters, salaries and keyed rows consistent in every order? | `AttendanceHolds`, `DaysKept`, `OneCrew`, `StopHolds`, `SumsAgree`, `PastIsSettled`, `FailsOnlyOverClear` | 2 requests; 3 workers of 2 persons on 2 sites, 3 entries; 2 persons, 3 sites; 2 months of 2 days | holds |
| `people` | Who comes into a company, with which powers, and by which code, token or link? | `DirectoryHolds`, `PermissionsHold`, `SignInHolds`, `CapsHold`, `OneTakesItUp`, `AcceptedStays` | 2 requests; 2 companies, 3 persons; 2 projects; 4 codes, 3 tokens, 9 ticks; 2 invitations of 1 address to 2 people | holds |
| `company_closed` | Is every way into a company closed that its last admin left? | `ClosedStaysEmpty` | 2 companies, 1 number | violated |
| `money` | Do returns, refunds and sums of a project hold? | `ReturnsHold`, `NoDeadlock`, `NeverUnlinked`, `RefundsHold`, `Converges`, `SpentAddsUp`, `OwedEach` | 2 requests; 4 invoices, totals up to 2; one expense; 3 invoices of 12 kinds | holds |
| `workspace` | Do quotes, orders, files, chats, stock and library hold? | `QuotesHold`, `DropHolds`, `FilesKept`, `NobodyMissed`, `ShelvesHold`, `ImportsOnce` | 2 requests; 3 prices of 2 shops; 3 rows; 2 files, 4 days; 2 members, 4 instants; 2 warehouses, 1 item; 2 lines of 1 product | holds |
| `two_retained` | Is one price of an article retained, edits included? | `OneRetained` | 2 requests, 2 prices | violated |

What the properties say is in a comment before each of them. Why the bounds are enough: two overlapping
requests are what every hazard listed needs; the third user of `membership_erasure` is there so that a
deletion can leave somebody behind. Two documents are a devis and its facture, or two factures that
compete. The counter's limit (`MaxSeq`, 999999 in the code) lies inside the range of sequences, so that
imports on both sides of it happen, and `LastSeq` and `MaxDocs` bound what would otherwise grow for ever.
Four invoices with two purchases let two returns cross, each refunding what the other is spent on;
totals up to 2 let returns fill a purchase exactly, fall short of it and exceed it. A person with
workers on two sites is what the site check is about, and entries are few because ids never come
back. Times to live, windows, graces and caps are a few ticks, with the clock past each of them at least
once; a logout walks back one rotation of two (`MaxChain = 1`), and one text of a day goes uncounted (`MaxOpen = 1`). Three prices and three rows are the fewest with something between, and two lines the fewest that an
import can post in two orders. The theorems lift the bounds where there is one.

`labor`, `people`, `money` and `workspace` say `CHECK_DEADLOCK FALSE`: their histories are bounded (ids,
clocks, documents that are never freed), so a behaviour may end, as `membership_erasure` does when all
accounts are gone. Elsewhere deadlock is checked.

Fairness is assumed in `membership_erasure` only (`MixFairSpec`): strong fairness of each request's steps,
because a thread is scheduled as long as it can go on and PostgreSQL queues the waiters of a row lock, and
weak fairness of the deadlock detector, which runs after `deadlock_timeout`. Strong fairness is needed since
a waiter's step is enabled and disabled again by other requests that come first. Nothing is assumed of
arrivals or deaths.

## Disagreements between the code and what it says

Four runs are counterexamples; `PROJECT.json` quotes the lines.

* `detach_stale_role`: a detach decides on the role it read without a lock. Promoted in between, it
  removes the last admin without asking the guard.
* `digit_prefix_blocks`: the pattern of imported numbers takes letters only, company prefixes may hold
  digits, so the counter is not pushed and later runs into the import.
* `company_closed`: closing a company deactivates the pending profiles, but a sign-up looks for an open
  window only, and attaches the new account to the closed company.
* `two_retained`: an edit of a price writes back the whole row it read, its flag included, next to a
  selection of another price.

The next ones are violated too and stated in the modules; a run shows them when the definition takes the place
of the properties of the `.cfg`, with the mix named in brackets.

* `BillingDocuments.ReleaseOnlyIfPaid`: moving a release commits the edit and gives the lock back before the new
  release is inserted; a facture that is cancelled in between gets one all the same.
* `MCMoney.RefundsWithinPurchase` [`ReturnMixes <- Lowering`]: an edit of a purchase sums its returns
  without locking the purchase, so that a return recorded meanwhile is not counted; its deletion races in the same way.
* `MCMoney.AddsUp`: "by_credits + personal + unassigned + labor_unpaid == total" is broken by a purse that was
  refunded more than it spent, because purses are floored one by one.
* `MCMoney.TakesBackItsOwn`: the compensation of a failed status deletes a release even when the
  reconciliation had not created one.
* `MCPeople.RevokeSparesAccepted`: revoking is a "no-op if already non-pending", but it writes back the row it
  read and overwrites an acceptance that committed in between.
* `Permissions.NothingInherited` [`Mixes <- Lingering` or `Demoting`]: "the grants are not silently
  restored" (`src/tests/api/test_member_grants.py:405`) fails for a grant that is set while its person leaves, and for grants
  from before a promotion: a demotion removes the assignments but not the grants, so an assignment restores them.
* `Attendance.ValidatedKeepsPrice`: an edit of a pending day that overlaps its validation changes the
  price of a validated one.
* `MCLabor.NeverTwice` [`RosterMixes <- Adding`] and `NewSiteStartsFull` [`Linking`]: a worker added by hand while a copy reaches
  the same site is there twice; two persons linked to one account on two sites make the copy to a new site
  fail as a whole.
* `CompanyMembership.AssignedIsAttached`: a boot that commits between the membership check of an assignment
  and its insert leaves a stranger assigned.
* `LaborRoster.LinkedAreMembers`: a row copied from the directory may link to somebody who left the
  company. `Quotes.UnselectsItsOwn`: an unselection clears a price that was selected between its read and its lock.
* In `MCWorkspace`: `QuoteMixes <- Repricing`, `BoardMixes <- Interrupted` (a renumbering that dies half way
  scrambles a lane), `FileMixes <- Colliding` (a confirmation that fails discards the file of the one that went through),
  `StockMixes <- Addressing` (an edit of an address puts an old name back), `LibraryMixes <- Curated` (an
  edit next to an import puts old totals back; two first imports of one product, `Doubling`, lose totals as well).

### Seen while modelling

Kept here as a list, each read in the code and within reach of the module named.

* Membership: an attach or promotion that overlaps a removal leaves a profile inactive or a role
  overwritten; a target promoted between the read and the insert of an assignment is demoted by it; an
  erasure after a promotion in between strands members.
* Permissions: a promoted admin keeps old denials, which apply to admins, and nobody can remove them
  without demoting them first; an update of a row that was deleted meanwhile answers 500.
* Directory and sign-in: a sign-up that would move a profile onto a person with one of the same company is refused as a whole, although its comment says that a broken
  pending row never blocks it (`otp_login.py:495-500`; invited in two companies, one cancelled, signed up, joined, erased, both renewed); a logout
  after more than 16 rotations within the grace leaves the older tokens to it; an invitation by number that was renewed on a profile without the number never links;
  an invitation that an import copied for a number that joined, left and joined again does not link after an erasure;
  a merge can lose an invitation or link a non-member's profile; joining by code leaves an active pending
  profile pending; erasing an account restarts its caps; overlapping requests for a code pass the throttle together; a code
  sent to the old number still signs in; tokens that two tabs got from one cookie are not ended by the
  logout of the other; Redis workers that overlap may exceed the budget, and so do calls that find no Redis (its docstring says so).
* Billing and invoices: a deletion of a paid facture or of a converted devis that overlaps a change of
  status (an orphaned release, a dangling link); a document created around midnight whose number and date
  are of different years; the amount of a release is stale after a crash between reconciliation and persistence followed by an
  edit; overlapping changes of status leave release and status apart; two relinks that overlap may
  wait for each other (foreign key checks of links they keep and have not locked).
* Labor: someone copied from the directory onto a new site reaches old sites at their next list; a copy
  that fails while a row is added elsewhere leaves different rates; a stop next to a list leaves the person
  active on a third site.
* Library: an upsert of a product deleted meanwhile inserts it again with totals and no purchases; a late
  deletion of an image (its key is fixed) takes the new one; imports of different lines of one product deadlock, and one is rolled back.
* Chat: a read between a message's commit and its bell entry leaves the entry unread; two overlapping messages push
  twice in a window, and the loser's roll-back loses the windows of others; two first markers collide and a send fails; a
  promoted admin counts the past as unread; paging with a strict `before` skips ties.
* Files: a confirmation that comes a day after its address or later, next to a sweep of its object, saves a row
  without it; an upload whose commit is acknowledged to nobody deletes the file of a saved row; two overlapping
  uploads take one name; objects of photos and analyses left by a crash are never swept.
* Chiffrage, tasks, inventory: a task edit that overlaps a move undoes it; a save adds a row again that was
  deleted; a recount that overlaps a move undoes it; a price detached from its shop and recorded at another keeps the old name.

## Proofs

The theorems hold for every value of the constants: any number of overlapping requests, users,
documents, days, texts. Each module's proofs rest on an inductive invariant, which TLC checked on the
instance of a run before it was proved. `PROJECT.json` lists the theorems; the rest are lemmas.

**Assumptions.** `MembershipConstants`, `NumberingConstants` and `BillingConstants` are assumptions of
their modules, `ChatConstants`, `QuoteConstants`, `FileConstants`, `StockConstants` and `LibraryConstants` are some of
`MCWorkspace`, `RefundConstants` and `ReturnConstants` of `MCMoney`, `RosterConstants` of `MCLabor`; where an assumption would only serve the proofs it is a hypothesis of the theorems, `Constants`,
which `MCPeople` and `MCLabor` assert of the values that the runs use. They say that bounds are
natural numbers, that sets of users are finite, that a null value lies outside the sets it stands beside, that a mix is
well formed, and of a day what the request schemas and the entity ensure: it is not empty, and a price set by
hand has a shift.

**Membership.** `CompanyMembershipProofs` proves `TypeCorrect` (inductive as it stands because it includes
`Serving`: a busy slot has a request, and one that writes a role names it) and `PrimaryIsOne`: an account has at most
one primary row, because the unique index refuses a second insert and every other write of the flag holds the rows it
clears.

It also proves `LastAdminStays`, `Spec => GuardKeepsAnAdmin`: a role change, a boot, or a detach that
saw itself as an admin leaves its company an admin if it had one. The property says nothing of what a
request remembers, so it is not inductive; `GuardInv` says it for each request. Every row the request has
counted is locked by it and still an admin of its company (`Counted`); a request past the guard that is
about to take the role from an admin has counted at least two (`Passed`); the row that a role change or a
boot has locked is as it was read (`Aimed`); `Idle`, `Routed` and `Listing` say where a request can be and
what it is about to lock. Another request's step keeps all of this because a role changes only in a row
that was free, the writer's own, or absent (`Keeps`: `OtherReads`, `OtherFinish`); so at the commit one of
the counted rows is not the target and stays. A detach that saw itself as a member is outside the
theorem, and `detach_stale_role` shows that it has to be.

**Permissions.** Nothing locks a row between the check and the write, so the invariant says what stays true of a row
however late the write comes: a row only holds what may be set (`OnlySettable`), decisions are dropped with the person
(`Away`), and under requests that only set, a row that was seen is still there (`Stays`). `Fresh` adds, where nobody leaves
under a request and nobody is made an admin (`Settled`), that a grant that applies was decided on since the person came.
`Settled` is needed: TLC shows `NothingInherited` violated without either half.
`PermissionsStand` puts them together as `PermissionsHold`.

**Directory.** `DirectoryStands` is `DirectoryHolds` for any companies, numbers and persons. Nothing in the tables says which
invitations were made and which are over, so the invariant ties the history of promises to the profiles. The entries are sound by
themselves (`Entries`): an account is one person, a company lists a number once, and whoever is attached is listed. Without merges
a person has one number, the account's and every profile's that has one (`Owned`); then an invitation that was promised is
open (`Backed`), and one that is open was promised (`Expected`). Whoever has an account has taken up what was open, unless it was copied by an import
(`TakenUp`), and as long as no account is erased, a number without one is in every profile of its person or in none (`Alike`). With
merges a number comes with an account, and nobody is invited (`Uninvited`). A sign-up that collides leaves everything as it was, so its invitations
stand, and are taken up by one that does not.

The hypothesis `Apart` names what may be exercised together, and every line of it is needed: TLC finds `DirectoryHolds` violated
without it. A company that its last admin left lets people in by the invitations that stand (`company_closed`); a renewal on a profile
without the number, which an erasure leaves behind, never links; an invitation that an import copied for somebody who joins, leaves and joins
again is not taken up after an erasure; a merge of somebody who is invited, or whose numbers an erasure cleared, loses the invitation or links another
profile. The mixes of the run are `Apart` (`EverydayApart`).

**Sign-in.** `SignInStands` is `SignInHolds`, for any limits, times, numbers, accounts and overlapping requests. The property of
the codes counts guesses that no variable of the code holds together, so the invariant (`CodesInv`) says where each count
is: a row that is being judged is locked by one request (`OneJudge`) and is as it was read (`Judged`), because whatever would void,
delete or erase it waits or passes it by; its attempts are the wrong guesses, but for the one that is not committed yet (`Tallied`,
`Counting`); and a number that changed hands has a code, sent to it, that was accepted and is no longer judged (`Proven`), so a request
that is rolled back takes nobody's proof away.
For the refresh tokens (`SessionsInv`) tokens are signed in the order of their ids, and what a token was rotated from is remembered for the
grace (`Lineage`); whatever barred a token once, its own entry, its rotation, a logout of a token at most `MaxChain` rotations younger, or the end of all sessions,
bars it for as long as it lives, and so does a clock that moves on (`Dead`, `DeadStays`). How far back a logout follows the chain is a recursive
function: what it reaches is proved by taking the least length at which it would not (`CountUp`, `Iterated`).

**Invitations.** An invitation somebody is joining through is pending and locked by that request alone (`Locked`), whoever
came in left it other than pending (`Taken`), and no id is given out twice (`Counted`). From these
`FirstCommitWins` (`OneTakesItUp`) and, with a second invariant for requests one at a time
(`SerialInv`), `AcceptedStaysAccepted` (`AcceptedStays`).

**Billing documents.** A request that writes a document has held its row since it saw that no
facture stands on it; a conversion holds the devis it saw accepted; no request brings a cancelled facture back. That gives
`FactureStandsOnAccepted` and `DevisKeepsWhatWasInvoiced` for any mix, deletions, imports and
deaths included. `FundsInvariant` adds what a request knows of a release when it applies it, and what it has let go of to
finish later, and gives `ReleasedIsPaid`.

**Billing numbers.** Five theorems, for any limit and any set of prefixes: `TypeCorrect`,
`YearIsContinuous`, `NewNumbersAreFree` (assuming that the company's own prefix has no digit;
`digit_prefix_blocks` shows that the assumption is needed), `NoRewind`, and `RegisterRefinement`: every behaviour is
one of `NumberRegister`. They rest on `NumberingInv`. `Continuous` alone is not inductive: an insert
commits the number a claim took several steps earlier. The strengthening says that only the holder of the row
has written to it and never less than what is committed (`Ahead`), that a number waiting to be inserted is
the counter's (`Claimed`), that an import has pushed the counter past its number before it stores it
(`Pushed`), and that every document of the company's layout is behind the counter (`Behind`). The
refinement needs one fact more, `Absorbing`: an import that waits to be stored has written exactly what its
number asks of the counter, or nothing if its number is of another kind.

**Attendance.** With overlap, the invariant is about copies (`Brings`): a copy that says validated was validated when it was
read by a manager's request, and an id that is gone is never given out again, so a late write finds nothing.
One after another (`InTurn`), what a request writes is what its copy of the present entry was made into (`Fits`, `Steady`),
and no two days of one person that were kept apart are on different sites. `ManagersDecideWhatIsPaid` is `AttendanceHolds`, and
`GoneAndPricedForGood` is `DaysKept`.

**Keyed rows.** `DoubleSubmitIsBenign` (`FailsOnlyOverClear`): whoever sets the row while another clears it is marked (`Marked`),
and the row that everybody else counts on is there (`Undisturbed`). `AuthorStays`: a row that is there keeps its identity and its author.

**Chat.** `WorkspaceProofs` proves `NobodyMissed`. With overlap (`ChatInv`), a quiet window opens only with a message its member was
told of (`Opened`), so whoever a request owes its message and does not push to was told of another one less than a window
before, and whoever it has pushed to was told of this one (`Notifying`). None of this is lost when the rows of two windows
collide, because nothing is ever untold. With requests one after another (`InTurns`) the request that is served is the last there
was (`ChatTurn`), and whoever was told is in the window that opened with it or in line for one (`Opens`): no window opens twice, but where
a push fails its window stays closed, which is why `Quiet` asks for none.

**Prices.** `WorkspaceProofs` proves `QuotesHold` under the hypothesis `EditsApart`: in every mix that overlaps there are no edits or no
choices. `two_retained` shows that it has to be assumed. While a request is past the lock of the article it alone is (`Holding`), and every price that is
flagged then is one that it clears (`Clearing`), so it leaves one flag (`Single`); where nothing is chosen, an edit can only bring
back the flag of the first choice (`Kept`). What a request has read says where the price comes from (`Asked`), so a late write does too,
and one after another what it read is as it was (`OneByOne`).

**Files.** The invariant says what each side may count on when the other works at the same time. A file some request works with is
not overdue, and no sweep holds it unless a late confirmation crossed it (`BusyIsKept`): an address comes before its object, its deletion
and its end (`Dated`), and a request lives within a day. An object that was put directly has an address, and what was crossed has one that is
as old as the grace (`Crossing`, `Late`). A purge has left nothing of what it is about to erase (`Purging`), and what a
sweep has listed has no row, or was crossed (`Sweeping`). `NoFileIsLost` is `FilesKept` under `SavesApart`: no save of a
confirmation fails next to another request. `EverydayFiles` satisfies it, and `Colliding` shows that it is needed.

**Refunds.** `RefundsMirrored` and `StatusConverges` rest on `RefundInv`. One request after another, a request finds the expense as it
read it, and the release is there or not as its new status says it should be at that step (`Knowing`); where nothing fails either,
the release has the amount of the expense, and its being there differs from what the status says only between the two transactions
of one request (`Mirrored`). Without changes of status, whatever overlaps, a request's copy has the status of the row (`Tracking`); so
the flag, which counts the tracked expenses of a method it holds, and a move onto a method, which locks it, cannot both go through.
`StatusConverges` needs no more than `Knowing`: it holds whatever failed or died before.

**Returns.** `ReturnsQueue` is `NoDeadlock` under `CrossingOnly`: in every mix that overlaps the requests only create and amend. A relink or a
change of type may have to wait for an invoice it keeps a link to and has not locked (the foreign key is checked), and two of them can wait for each other. Under the
hypothesis a row that is held is one that the return of its holder is linked to, and is no return itself (`Holds`), so who holds a row and waits for another is still
at its locks; and the rows still
to lock come after those that are locked (`InOrder`). Of finitely many held rows that somebody waits for, one is the largest; its holder waits for a
larger one, which is a contradiction.

**Lists and erasures.** `AttachedStayListed` is `StaysListed` under the hypothesis that the mixes are `Steady`: no account is
erased and boots are of one company, unless there are detaches, of which the property says nothing. A boot takes the profile away together with the row it holds
and makes another row the primary one by `save()`; had that row gone since it was chosen, it would be inserted anew without a profile.
In a steady mix it lies in a company that nobody is removed from (`Chosen` in `ListInv`). `ErasureStrandsNoOne` is `NoOneStranded` where nobody is let in
or gets a role (`OnlyErasing`). An erasure decides about one company after the other and deletes its rows much later, so the invariant
says that what it decided stays true: another admin is a row that it has locked, or the company has no other member (`Settled`), for
every company of its user's that is no longer in its queue (`Visiting`). The mixes of `membership_guard` are steady (`EverydayIsSteady`) and the mix of account deletions only erases (`ErasingOnlyErases`);
in the other mix of `membership_erasure`, role changes and removals, `NoOneStranded` is model-checked.

**Roster.** Copies run in a transaction after the first commit, so `OneCrew` is false in between and holds only when all
is quiet. `RosterInv` says what is owed meanwhile: whoever works and is missing on a site is about to be copied there by a request under
way (`Listing`), and two rows of a person differ only while a request that spreads the difference is (`Agreeing`); the first needs
that rows are their own person's (`Own`), the second that no request gives a row a pay of its own. One after another a request finds what it
read (`OneByOne`). This gives `EverySiteHasOneCrew` and `StoppedStayStopped`.

**Stock.** `StockInvariant`: whoever checks a name holds the row of the company until the name is written, so that the name it found free
stays free (`Claims`). A site that is deleted leaves its items at no site, never at one that is gone. An edit of an address writes the
name back that it read, so the hypothesis `AddressesApart` asks that addresses are edited one request at a time; `Addressing` shows why.

**Library.** `LibraryInvariant`: what a request writes has the totals of the purchases committed and of those it has counted (`Tells`).
They still are the right ones when it commits, because whoever has counted a purchase holds the row for itself, whoever has inserted one and not yet counted it
shares the row, and nobody writes it then (`Locked`, `Excluding`). `InTurn` is the hypothesis that other requests than imports come one after the
other; then what a request read is as it was, but for the text and the image (`Unmoved`). Two first imports that overlap write a row without totals
over one that has some (`Importing`), so they only count no purchase twice. `ShelvesAreRight` is `ShelvesHold` under both hypotheses, and
`ImportsAreIdempotent` is `ImportsOnce`: an import whose lines are all there has inserted none of them.

**Only model-checked.** `EveryRequestEnds`, because liveness under fairness is out of this prover's reach.
`SumsAgree`, `SpentAddsUp`, `OwedEach`, `PastIsSettled`, `NeverUnlinked`, and the caps in `ReturnsHold`, because they are sums and
folds over rows, and what a fold computes for every input needs an induction over data that no installed prover
can instantiate; `DropHolds` for the same reason (orders of rows).
`CapsHold` is sums and counts over windows of time. The links and numbers in `ReturnsHold` stay with TLC: nothing about them is
out of reach, they have not been proved.

## Not modelled

The components without a module are in `PROJECT.json` with the reason: notes, projects, API keys, templates and
rendering, bulk add, start-up and dependency injection, migrations and scripts. Left out everywhere: the
authorisation of the caller (except in `Permissions`, which is about it), formats and wording, pagination
and search, the bytes of files, what PostgreSQL and Redis do beyond the locks, keys and times to live that the code relies on.

What would come next: the caps of `InvoiceReturns` by an invariant on sums that is stated step by step instead of by a fold; tasks, notes and channels of the chat as modules of their own.
