# A verification development for Yinglima ERP

TLA+ modules, TLC runs and TLAPS proofs about the back end of Yinglima ERP
(`src/backend/app`, FastAPI, SQLAlchemy and PostgreSQL). `PROJECT.json` lists the
components, runs, mutants, hazards and theorems in machine-readable form; `map`
there gives the source lines behind every definition.

## 1. The system

One process (or several) serves HTTP with asyncio. Every request gets one
`AsyncSession` (`database/session.py`); its first statement opens a transaction at
READ COMMITTED, which commits once, either when a route publishes its live event
(`events/dispatcher.py`) or when the dependency ends, and is rolled back by any
exception. Hardly any handler takes `SELECT ... FOR UPDATE`. So two requests
interleave at every statement, each sees what the other committed between its own
statements, and only row locks and unique indexes order them. Beside the requests
run four background tasks: the queue worker, the cache sweeper, the trash purge and
the mail poller.

| Component | State it keeps | What makes it correct | What is hard | Module |
| --- | --- | --- | --- | --- |
| Inquiries (`inquiries/`) | codes, consignments with a denormalised rollup, lines, quotations | a header says what its lines add up to; a line is approved when a quotation is; no change is undone by another | two requests on one consignment; loaded rows that are stale when written | `Inquiries` over `RowStore` |
| Mail intake and pushes (`email_inbound_worker.py`, webhook, WeChat, public form) | timeline rows, quotations, ids of handled mails in memory and in a file | a text is logged once; the AI writes a supplier's first quotation only; no mail is left over | three commits for one mail, a death between them, overlapping readers | `Correspondence` |
| Planning grid (`planning/`) | columns, rows, cells that store what they compute | positions are `0..n-1`; computed cells are those of now; what was typed stays | range shifts, concurrent edits, writers that must find dependents | `GridOrder`, `GridCells` |
| Masters, suppliers, buyers (`masters/`, `suppliers/`, `buyers/`), trash (`trash/`) | fifteen kinds of records with references, a primary contact, a dropdown cache | references lead to live records, names differ, dropdowns are current | checks before inserts, a purge over tables that refer to each other, the cache | `Masters` |
| Auth, users, roles (`auth/`, `users/`, `rbac/`) | accounts, sessions, revoked tokens, roles, overrides, cached permissions, marks of forced logouts | a refresh token is used once; who is shut out stays out; cached permissions follow grants; an administrator is left | database beside cache, overlapping rotation and logout | `Accounts` |
| Organisation (`org_structure/`, hierarchy of `rbac/`) | reporting lines, departments and their links (kept twice), positions, leaderships | no loops; one primary manager and position; handovers are complete | check then insert; ended rows that are revived | `Organisation` with `Paths` |
| Queue (`queue/`) | `queue_jobs`, one worker task for each process | a job ends; attempts are bounded | crashes, lost connections, an admin's retry beside the worker | `JobQueue`, `JobLedger` |
| Cache (`cache/`) | keys with expiry and last use | a value is not older than the last invalidation | a load that overlaps an invalidation | in `Masters` and `Accounts` |
| Repository base, session (`common/`, `database/`) | columns changed since a row was loaded | only those reach the database | two writers of one row | `RowStore`, and `Changed`/`Merged` elsewhere |
| Live events, API client and store (`events/`, `frontend/lib`) | sockets; the client's list | the client converges to the server | order, duplicates, reconnects | commit before publishing only |
| Audit, search, notifications, configuration, migrations, pages | none that others read | - | - | not modelled |

Routes call a service, a service its repositories, all in one session; services
invalidate the cache and publish events by direct calls; the trash changes rows of
every other component without calling its service.

## 2. Modules

Each component has one module; an `MC...` module beside it gives TLC its instance
and a `..._proofs` module its theorems. Two grains occur:

* *Statement by statement* (`Inquiries`, `JobQueue`, `Correspondence`): every point
  where the event loop or the database lets another actor in is between two actions.
* *Read, then commit* (`GridOrder`, `Masters`, `Accounts`, `Organisation`): a request
  reads, checks and calls the cache in its first action and commits in a second one,
  where constraints of the database may refuse it. Whatever two overlapping requests
  do to each other because each checked before the other committed happens here.
  The flag `alone` of a request falls when another one begins or is open; the
  properties named `Solo...` are about requests that kept it, *from any state the
  overlaps before left behind*.

`GridCells` serves one request at a time: its hazard is a forgotten dependent, not
an overlap.

### RowStore, Inquiries

`committed[r]` is what every transaction reads of row `r`, `working[r]` the newest
version, `owner[r]` the transaction holding its lock. `Read(t, r)` is what a
statement of `t` sees, so two reads in one transaction may differ. `Write` is one
flushed UPDATE or INSERT, disabled while another transaction owns the row;
`CommitTxn` publishes, `RollbackTxn` discards.

`Inquiries` adds `req[t]`, the request transaction `t` serves: the next statement
(`pc`), the arguments, the ORM instances it has loaded (`seen`, `seenInq`,
`seenQuote`, `seenCode`) and its locals. *Arrival* has one action per route (`Add`,
`Import`, `Edit`, `Shift`, `Approve`, `Revert`, `Delete`, `Tally`,
`DeleteConsignment`, `NewCode`, `Quote`, `Decide`, `Unquote`, `RestoreLine`,
`RestoreHeader`, `PurgeLine`); *statements* have one each, in the handler's order (`FindItem`,
`WriteItem`, `LoadHeader`, `Aggregate`, `StoreHeader`, `CountApproved`, ...,
`Commit`). An UPDATE writes only the columns the ORM finds changed since it loaded
the row (`Column`, `Merge`). `Abort` is an exception, `Fail` a lost client or
process, `DeadlockVictim` the transaction PostgreSQL picks from a cycle of waits.
A line that the trash deletes for good becomes "purged", and its quotations with it:
the live ones one by one before it, as the ORM does (`PurgeQuote`), the line
(`PurgeItem`, which waits for quotations that others are inserting), then those in the
trash by the cascade of their foreign key. An UPDATE that then finds its row gone
raises (`Gone`). A consignment is one (buyer, code) pair; unit weight and volume are 1;
bulk lines of a request share status and quantity; a request to the trash names one row.

### JobQueue, JobLedger

Rows are jobs, transactions the workers' and the requests'; `proc[p]` is what `p`
does next, `runs` and `lost` count handler calls for the properties. A worker goes
round `Recover`, `Claim` or `FindNothing`, `Handle` or `NoHandler`, `Return` or
`Raise`, `Commit`; the claim, the handler and the outcome are one transaction, so
RUNNING is never committed and an attempt whose transaction is lost is forgotten.
Failures are `Crash`, `Start`, `Disconnect`, `Fail`; `Die` is the record logged with
the reserved key `module`, which ends the worker's task in a process whose log level
lets INFO through (`Verbose`). `run_at` and priority only choose which job is claimed
when, so any may be. `JobLedger` is what the queue promises: one entry per job, one
atomic change at a time; `JobQueue` instances it with `entry <- committed`.

### GridOrder

`col[c]` and `row[w]` are [role or link, pos, live]; a request lists the sheet
(`Ask`) and then writes (`Apply`), so its shifts are computed from what it listed
while the range UPDATEs act on what is there; rows that appeared in between are the
ones an UPDATE misses. `Ask...` has one operator for each route: adding, renaming,
moving, deleting, relabelling, normalizing, "+Next" groups, moving, deleting, linking
and filling in rows, and the read of the grid that removes orphans and appends rows.
The trash (`RestoreColumn`, `RestoreRow`) and Product Master (`DeleteProduct`,
`AddProduct`) act beside them. Reduced: few parts of a group; ties go by slot; a
request that fails leaves no trace and is no step.

### GridCells

`cell[w][c]` is [value, link, colour] and `source[c]` where column `c` takes its
values from. An operation maps the sheet to the next one: typing, colouring,
linking, configuring, saving or deleting a product, deleting and restoring rows. The
free column stands for those that clients configure; the formula column adds one to
it; a package count keeps the pair it is computed from. `byHand` marks rows with a
cell that was linked by hand or fetched from the trash: lookups there are
followed by hand too (`recompute_and_store_row` takes them from the row's link).

### Masters

`row[x]` is a record with its life, name, references, contacts; `cache[k]` the
dropdown of kind `k`, read through by `StoreLookup` after the query of another
action, so that a load may store what an invalidation has already cleared. The trash
restores, deletes permanently, empties, and purges kind after kind; a foreign key
that still refers to a purged row fails the whole purge. `Scene` picks which small
population a behaviour is about: no two share rows. Six kinds have cached lists.

### Accounts

`user`, `held`, `role`, `override`, `session` are tables; `perms` (effective
permissions), `mark` (forced logouts) and `attempts` (the rate limiter) live in the
cache, which `Flush` may empty. `session[s].access` is the access token given with the
session: a forced logout marks the live ones instead of comparing times, and the mark
in the cache is what refuses them, so a later login, which clears the mark, makes them
acceptable again. No account is ever locked: the counter of failed logins is rolled
back with the request that raises (`auth/service.py:152`). "act" stands for the
permission each administrative route asks for.

### Organisation, Paths

`line[l]` is a reporting line, ended ones included; `links` is `department_hierarchy`
and `parent` the older column that shadows it; `post` and `lead` say who holds and
leads what. A request keeps what it will write (`put`, `add`, `cut`, ...); `Commit`
merges the changed columns, `Rollback` is a unique constraint that was filled in the
meantime (a line without a department escapes it, NULL being distinct). The areas
(reporting, structure, staffing, leading) share no row, and a behaviour is about
one. `Paths` has the cycle search of both repositories: what lies above a node, and
relations no set of nodes can be walked in for ever.

### Correspondence

One consignment, whose quotation is its line and its supplier; texts stand for
bodies. The worker polls a folder (`Start`, then the statements under `Works`): it
skips what it remembers or cannot place, logs, asks the AI (`Answered`), looks
whether the supplier has quoted the line, writes, and saves the id in memory and in
the file, each a commit of its own. `Crash` may come anywhere, also in the middle of
the file. Requests run beside it: the mail webhook, the WeChat callback, the public
form, RFQs, and staff who trash lines or delete quotations. `sole` is the last actor
if nobody else has acted since it began to read.

## 3. Runs

Bounds are small because the interesting cases are. Two requests at once show every
race between a statement of one and the commit of another; a budget of three lets
two overlap and a third run alone on what they left.

| Run | Instance | Question |
| --- | --- | --- |
| `alone` | 1 request, 2 lines, 2 quotations, the trash with restoring and deleting for good | one request at a time: does an approval date go with an approval, do quotation numbers differ until a line is deleted for good? |
| `one_line_overlap` | 2 requests, 1 line, 2 consignments, quantities 1 and 2 | is a committed column ever undone; does an undisturbed request repair its headers? |
| `quotes_overlap` | 2 requests, 1 line, 1 quotation; consignment and code deleted, revived, restored; line restored, deleted for good | does the next undisturbed decision repair the line; does an undisturbed request make a header stale? |
| `requests_finish` | 2 requests, 2 lines, bulk of 2, with fairness | do waits always end? |
| `queue` | 2 workers, one logging INFO, 1 request, jobs with and without handler, budgets 0 and 2, 1 loss, with fairness | is a job with one worker, are attempts bounded, does the table follow the ledger, does every job end? |
| `grid_order` | 2 requests at once, 3 in all, 7 columns, 4 rows, 2 products | does a request that runs alone re-sequence, lay out, number and fill the sheet, whatever was left? |
| `grid_cells` | 7 operations, 2 rows, 2 products | is every stored lookup, sum and formula the one of now where the code undertakes it? |
| `masters` | 2 requests at once, 3 in all, seven populations of fifteen kinds | references, agreement of columns, dropdowns, names, primary contacts |
| `accounts` | 2 requests at once, 3 in all, an administrator, a clerk, a slot, 4 sessions | rotation, cached permissions, forced logout, suspension, the last administrator |
| `organisation` | 2 requests at once, 3 in all, 3 people, 3 lines, 3 departments, 2 positions | loops, second primaries, handovers |
| `handover` | 1 request at a time, 4 in all, from empty tables | a violation: does a handover leave somebody without a manager? |
| `correspondence` | 2 mails of five kinds, 2 lines, 1 supplier, 1 request, 1 crash, with fairness | is a text logged once, a quotation the first, no mail left over? |

`CHECK_DEADLOCK FALSE` appears where the budget ends a behaviour or where an
instance has no operation that creates rows. Symmetry is used in safety runs only.
Every passing run's properties have mutants, marked `(mutant)` in the modules: plausible
slips in the code that the property catches.

Why the bounds suffice, where it is not plain: 7 columns hold the base group, one
added group and columns of clients; 3 lines make a loop of three people and leave a
line for a twin; 4 sessions are two people's and two rotations; the queue's budget of
0 and 2 reach a boundary, a retry and giving up, and one loss separates a recorded
attempt from one that is not; two mails, one with each worker outcome, show a mail
that pushes another out of the window (`Window` is 1 here, 10 in the code).

### Fairness

* Requests (`Inquiries`): strong fairness on a request's next statement, since
  PostgreSQL grants locks in order of arrival and the event loop runs every ready
  task; weak fairness on the deadlock detector. Clients and failures owe nothing.
* Queue: weak fairness on a worker's next step (handlers are taken to end, which no
  timeout enforces) and on starting a process that went down; strong fairness on
  claiming a job (its `run_at` comes and the query orders the others) and on a
  request's statement, which may wait for a lock. `JobsEnd` speaks of behaviours in
  which requests do not go on for ever: whoever enqueues a job again and again owes
  it no end.
* Correspondence: the server is started again, the worker's loop goes on, and the AI
  service answers at times (strong fairness: a failed call is made again at the next
  poll). `NoMailWaits` speaks of mails that stay in view.

## 4. What the models show of the code

Properties named `Solo...` hold for requests that ran alone because, in these
models, they fail for two that overlap. What TLC shows beyond the runs, in instances
as small, is worth knowing beside the code:

* *Inquiries.* Class `Inquiry` says that its rollup is recomputed "whenever an item
  underneath changes" (`models.py:119`; `RollupFresh`). Two approvals at once leave a
  rollup of neither state, which the next undisturbed request repairs (`SoloRefresh`).
  One request suffices in the trash: restoring a line (`trash/service.py:179`) or
  deleting a live one for good recomputes nothing; `SoloStale`, which leaves these two
  operations out, says that no other does this. A quotation's number is one more than
  the count of all rows (`repository.py:540`), so after a line was deleted for good with
  its quotations, by hand or by the daily purge, new numbers repeat old ones;
  `QuoteNumbersDiffer` is about the time before. Adding a line
  under a trashed code is refused, since the code is looked up by the text of its id
  (`service.py:160`). An approval of an approved line reports success and stores
  nothing when a revert overlaps it (`service.py:596`). Two decisions at once leave an
  approved quotation under a line that is not approved.
* *Queue.* Two retries of one failed job can run it again after it completed
  (`service.py:222`); a lost connection lets two workers call one handler; a job
  without handler is retried although its comment says it fails at once; with INFO
  logged the worker dies on its first claim, and a request that enqueues loses its job.
* *Grid.* A move towards the end shifts its neighbours once too many, against its
  docstring (`planning/service.py:1520`), and leaves two at one position. Removing
  orphans leaves gaps. Two "+Next" requests make the same group, and columns of one
  name hide each other. `duplicate_sheet` always raises. Configuring, renaming or
  deleting a column leaves the formulas that depend on it stale; deleting a product
  leaves the sums; a cell that was a lookup loses a typed value with the old product.
* *Masters.* Cities never check their country; a state, city or sub-category moved
  without a new name may meet a namesake; a plain import checks live exact names only,
  so one row fails the whole file; an emptied or purged trash deletes parents before
  children and fails, every day again, once something refers to a purged row; restoring
  checks neither parents nor names; two updates at once leave two primary contacts,
  after which every update of that party fails.
* *Accounts.* A login makes the tokens of an earlier forced logout acceptable again;
  flushing the cache does too. A refresh that overlaps a forced logout leaves a live
  session. An invalidation precedes its commit, so an overlapping read caches the old
  permissions for an hour. A forgotten password re-enables a suspended account once an
  administrator unlocks it. Reassigning the holders of a deleted role may hand out
  `super_admin`, and an account can be left without roles
  (against `users/service.py:517`).
* *Organisation.* Two requests, each free of loops, close one together. A handover
  that finds a line of the same shape to the new manager, even one that ended long ago,
  only ends the old one (`reporting_service.py:201`): the report has no manager left,
  although the handover is there "so no reporting relationship is left dangling". The
  run `handover` shows it (`HandoverLosesNobody`), the one finding in `PROJECT.json`;
  `SoloHandover` is about everybody else. Two active primary lines make every later look
  at the employee's manager raise. `check_safe_to_deactivate` is called nowhere.
* *Correspondence.* Overlapping readers write two quotations for one supplier and
  line; retried webhook and WeChat deliveries are logged twice, and the webhook quotes
  trashed lines; the public form has no check for an earlier quotation. Mails without a
  Message-ID, and those an early return leaves, are read again at every poll, and a
  quotation that staff deleted may come back from one. The token match of a decoded RFQ
  never succeeds: the token has no `inquiry_item_id` and the KeyError is swallowed.

## 5. Proofs

Every theorem holds for all values of the constants (quotations of `Inquiries`, users
of `Accounts` and mails finite, as they are counted), under the named assumptions of its
module, which TLC evaluates on the instances.

**`Inquiries_proofs`**: `Invariance`, `TypeCorrect` (`TypeOK`), `NoUpdateIsLost`
(`NoLostUpdate`), whatever overlaps. Neither property is inductive. A statement is
type-correct only if the request names the rows it needs (`Refers`) and rows that were
committed (`KnownFor`). A commit changes a line only as its operation may if the
uncommitted version already differs only so (`Rights`), which needs every unlocked row
to have no uncommitted version (`UnlockedIsCommitted`) and rows never to return to
never having existed (`Kept`). The argument goes by kinds of step (`Moves`, `Writes`,
`Ends`, `Commits`, `Begins`), each action's lemma showing what its kind needs.

A second invariant is about requests that have run alone since they began:
`SoloInvariance`, from which `SoloRefreshHolds` (`SoloRefresh`), `SoloStaleHolds`
(`SoloStale`) and `SoloQuoteSyncHolds` (`SoloQuoteSync`). It says that what such a request has read is
still so (`Undisturbed`), that for what it changed it still owes a recomputation, the
statement for which lies ahead of it (`Owes`, `Pending`), and that once it is past that
statement the header agrees with the lines, the line with its quotations (`Refreshed`,
`Synced`). One lemma for each statement carries this along.

`ApprovalsAreStamped` (`ApprovalIsStamped`), `QuoteNumbersStayApart`
(`QuoteNumbersDiffer`) and `RollupsStayFresh` (`RollupFresh`, which no run checks) then
follow for requests that come one at a time, `OneAtATime`: with two requests that
overlap each is false, as both may count before either writes. The second says, as its
property does, that numbers differ as long as no quotation was deleted for good; the
third supposes that no line is restored from the trash or deleted there for good.

**`JobQueue_proofs`**: `Invariance`, `TypeCorrect`, `RunsAlone` (`OneRunner`),
`LocksAreReleased` (`NothingLeftLocked`), `AttemptsAreBounded` (`WithinBudget`), and
`Implementation` (`ImplementsLedger`) for requests that come one at a time. The
invariant adds where every attempt is (in the row, lost, or under way in a transaction
that holds the row), that locks are held exactly by who has the job in hand, and that
an uncommitted row is a change its holder may make.

**`Correspondence_proofs`**: `Invariance`, `TypesHold` (`TypeOK`), `TimelineHolds`
(`TimelineAgrees`), `FirstQuotesHold` (`SoloFirstQuote`). That a text is logged once
needs that between the worker's look at the timeline and its row nobody else writes
rows of that kind (`Worker`, `Timeline`); that a quotation is a first one needs that
what an undisturbed actor read is still so (`Served`, `Undisturbed`).

**`Organisation_proofs`**: `Invariance`, `NoLoopsAlone` (`SoloAcyclic`),
`OnePrimaryAlone` (`SoloOnePrimary`), `HandoverAlone` (`SoloHandover`). The properties
(the last without those who have an ended line to the new manager) relate the state in which a request checked to the one in which it commits; the
invariant carries the check across: of each request still alone, what it will write is
harmless to the rows as they are (`Keeps`). Its first step establishes that, one lemma
for each operation, and no other step has come between. The mathematics is
`EdgesBelow`: new edges to one node close no loop if none starts above it. A new
department needs that no link leads to one that was never made (`Made`), a handover
that the table obeys its unique constraint.

**`Accounts_proofs`**: `Invariance`, `SessionsHold` (`SessionsAreSound`),
`ShutOutHolds` (`StaysShutOut`), `SoloInvariance`, `SoloPermissionsHold`
(`SoloPermissions`), `SoloShutOutHolds` (`SoloShutOut`), `SoloAdminHolds` (`SoloAdmin`).
The invariant says of every open request that the rows
it will change are there and what it writes fits them (`Fits`), that the session it
makes is pending and no other request's (`Rotates`, `Apart`), and that whatever came
from a session that was exchanged found it unspent (`Spent`, `Once`): the unique index
that `Admitted` stands for then lets one of two refreshes through. Every request is
shown to open with these facts (`Opening`, one lemma each), and no commit, rollback or
flush takes them from the others (`EndsWell`). Who is shut out stays out because a
commit writes the columns its request changed and no others (`UserIs`). A second
invariant (`SoloInv`) says of a request still alone that what its first step arranged
still stands when it ends (`Ready`): the user it forces out has a mark and no session
but those it revokes (`Refuses`), the cache knows nobody whose permissions it changes
(`Forgets`), what it read is in effect (`ReadsTrue`), and it leaves another active super
administrator (`Spares`). Whatever overlaps did to the cache before is allowed for: the
cache need not be right when such a request begins. That a new account has no cached
permissions to fall behind needs that the cache knows accounts that exist only
(`Cached`); that another administrator is left when the count exceeds one, that there
are finitely many users.

**`GridCells_proofs`**: `Invariance`, `CellsHold` (`CellsAreSound`), `FreshnessHolds`
(`LookupsAreFresh`), `WritesRefreshAll` (`WritesRefresh`), `TypedStaysHold`
(`TypedStays`). The core is that one recomputation of a row is enough: what a computed
cell shows depends on typed cells and on product links but on no computed cell (`Frame`,
`Near`, `Recomputes`), hence recomputing a recomputed row changes nothing
(`ComputedAlike`). That a row stays fresh while others are written needs what lookups
and package counts read of the rest of the grid (`ViewAlike`, `StaysFresh`); an update
of a product is two such passes. The invariant adds that rows never made are blank,
that a live row not filled by hand shows a live product, and that links sit only in
columns that look something up (`RowsFit`).

**`Masters_proofs`**: `Invariance`, `TypesHold` (`TypeOK`), `ParentsStay`
(`SoloParents`), `AgreementStays` (`SoloAgreement`), `DropdownsStayRight`
(`SoloDropdown`), `NamesStayApart` (`SoloNames`), `PrimaryStaysSingle` (`SoloPrimary`).
The invariant says of every open request what it is about (`Shape`: unused slots for
what it adds, records once made for the rest, and no slot for two, `Apart`), and of one
still alone that what it will write is harmless to rows and dropdowns as they are
(`Harmless`). Primary contacts are bounded by counting: each has used up an update that
found none (`Counted`). The argument has two halves. What the checks of the fifteen
kinds amount to is one predicate for saving, one for a file's row and one for deletion
(`Checked`, `Filable`, `Spared`; three lemmas for each kind). That a write which passed
is harmless depends on its kind alone: adding, revising, trashing, removing, or changing
columns nobody refers to. The scenes a behaviour may start from are assumed to be rows
the database would take, with at most one primary contact each (`ScenesAssumption`).

Model-checked only: liveness (`RequestsFinish`, `JobsEnd`, `NoMailWaits`), which the
prover cannot do; and the four properties of `GridOrder`, which speak of positions as
counts of lines and rest on facts about counting that are not stated here yet.

## 6. Not modelled

* *Front end*: API client, live store, pages. The server's side (rotation, commit
  before publishing) is modelled; nothing the server keeps depends on the client.
* *Audit, search, notifications, reports, product prices*: logs and queries no other
  part reads, or empty packages.
* *HTTP stack, configuration, migrations, scripts, tests*: no state the parts share.
* *Inquiries*: procurement remarks, the terms of a quotation, updates of a code. Of the
  trash, deleting consignments and codes for good, and emptying or purging the tables of
  inquiries in bulk (`trash/service.py:229-310`), which deletes as `PurgeLine` does, many
  rows at once, and lowers the count quotation numbers come from just as well. The
  numbers of quotations that callbacks and mails bring (`QT-AUTO-...`,
  `routes.py:1575`, `email_inbound_worker.py:800`), which count the live quotations of
  a line and repeat after a deletion: `QuoteNumbersDiffer` is about `create_quotation`.
* *Correspondence*: reading of bodies and attachments, sending, partial IMAP failures,
  the second commit of `create_bulk_rfqs`, several processes polling one mailbox, lines
  deleted for good.
* *Grid*: sheets as such, widths, descriptions, role locks, the change log. The branch
  search adds missing rows and removes no orphans (`planning/service.py:1381`); it is an
  `AskPopulate` of all products. Rows and columns deleted for good.
* *Masters*: statuses of masters other than products, columns no rule reads, further
  contacts, visit remarks; the version check of the repository base is used by their
  updates, but refused versions change nothing and are no step.
* *Accounts*: password contents and history, the lockout that never commits,
  assignment dates, sockets closed at a forced logout.
* *Organisation*: names and codes, dates, whether a person still works here; a role
  deleted for good, which takes the department from reporting lines and removes its
  leaderships and links with it.
