# AYROVI Warehouse Core: formal models

TLA+ models of the warehouse system (the backend under `backend/src/modules`,
the web terminal, the display page and the worker's handheld application that
call it, and the scripts that bring it up or empty it), the TLC
runs that check them and the TLAPS proofs about them.

The backend is a NestJS service over PostgreSQL (Prisma, READ COMMITTED).
Workers with handhelds, station displays, supervisors, administrators and the
CRM call it at the same time.  There is no message broker and, besides the login
throttle, no in-memory state worth modelling: **all state is rows, and all
concurrency is HTTP handlers that interleave at every `await`**.  A handler
reads rows, decides, and then runs a transaction; what it read may be stale when
the transaction commits, and a guard protects the write only if it is in the
WHERE of the statement that writes.  The handheld is one more source of
concurrency: coroutines of one thread that interleave at every suspension, and
answers that are late or lost.  The models keep exactly this structure.

## 1. Inventory

| Component | State | Operations that change it | Hard behaviour |
|---|---|---|---|
| Receiving, `receiving/receiving.service.ts` | arrival, session, product lines, cartons, receipt rows, scan events, discrepancies, worker log | start, confirmProduct, confirmCarton, pause, resume, flag, resolveDiscrepancy, complete, recoverStuckSession, home variants | many workers on one card; retries with an operation id; closing while scans are in flight |
| Corrections, `operations/corrections.service.ts` | the same rows, plus correction records | reverseCarton, correctQuantity, resolveException, reopenSession, reopenCustomerBin | rewrites rows other calls have read |
| Verification report, `receiving/receiving-reports.service.ts` | report row, report lines, damage | saveDraft, markDamage, submitReport, reviewReport, closeReport | a long transaction whose statements see different moments |
| Workflow, `workflow/workflow.service.ts` | product moves between stations | handoffReceivingToStaging, acceptAtStaging | goods handed over twice or not at all |
| Batches, `batches/*` | batch, items, units | create, addUnit, submit, accept, send, startReceiving, receiveUnit, completeReceiving, voidBatch, hardDelete | generated codes, idempotency keys, counters shared by devices |
| Temporary storage, `temporary-storage/*` | containers, placed items, budgets of moves, shift reports | place, sendToReview, submitReport, setCapacity; acceptAtStaging of the workflow | one confirmed unit placed once; containers with a capacity shared by several products |
| Fulfillment, `fulfillment/*` | totes, customer bins, articles, outbound shipments, verifications | scan, close, stage, store, assign, pack, verify, ship, reopen | checks made before the transaction that relies on them |
| Assignments and dispatch, `assignments/*` | worker tasks | assign, block, cancel, complete, dispatch of the next task | a task dispatched twice, or never after a crash; closed tasks written again |
| Putaway, `putaway/*` | putaway sessions, carton placements | start, claim, place, complete, cancel | a carton in one place; one active session; claims that expire |
| Intake of cards, `shipments`, `carton-cards`, `expected-arrivals` | shipments, cartons, arrivals, manifest lines | idempotent upserts | duplicated, overlapping and failing calls of the CRM; deletions meanwhile |
| Authentication, `auth`, `users`, `devices`, `common/guards` | sessions, refresh tokens, throttle, devices | login, refresh, logout, revoke, block, remove | rotation under concurrent refresh; access that is ended during a login |
| Displays and print jobs, `displays`, `frontend/src/display` | displays, print jobs, actions, help requests, messages | request, claim, report, retry; configure, act, acknowledge | claim and report by several bridges; screens that show an old snapshot |
| Label printing of the handheld, `mobile/.../printer` | printer link, window of printed labels | poll, claim, print, report; the local bridge | a lost report, a restart, two threads with one label |
| Worker application, `mobile/worker-core`, view models of `mobile/app` | token store, transport, session view model, one workflow object per screen | sign in, renew, sign out, scan, confirm, retry, refresh | answers that arrive after the screen, the batch or the worker has changed |
| Web terminal, `frontend/src/terminal`, `frontend/src/modules/receiving-terminal` | the page of a task: what was scanned first, one busy flag; the scanner: a state machine, decode loops, an uncertain text; the page of the verification report: its heading and its manual fields | scan, confirm, cancel, retry; open, exit, flip, hold, rescan; write, add photos, save, declare damage, submit | answers that are lost or come late; a loop that is still reading when the scanner is closed; one page for every report |
| Reset scripts, `tools/test-data-reset*.ts` | every table | audit, plan, delete, create the worker | the floor works on between the audit and the deletion |
| Start of an installation, `start.sh`, `prisma/seed.ts`, `bootstrap-schema-repair.ts` | schema, permissions, roles, first users | migrate, repair, seed | two containers at once, kills, statements that fail |
| Operations, `operations/operations.service.ts`, `stations.service.ts` | stations, Worker Control, Data Control | assign, block, void, force delete, reset | dashboards mostly; deletions across tables |
| Warehouse structure, orders, categories, users, roles, devices, audit, notifications | single rows | administration | none beyond one guarded write, except where access is ended |
| Workers' page of the administration, `frontend/src/admin/pages/Workers.tsx` | forms: which requests are still to be sent, what the administrator was told | hire, assign, block, unblock, remove, cancel a task | a form is a sequence of requests that nothing holds together; a request that was given up and is served later |
| Other admin pages, other `tools` | screens | calls of the above | callers of the API |

How they interact: a batch or a CRM card makes an *arrival*; receiving opens a
*session* on it and counts products and cartons; the *report* closes the
session and writes *moves* to staging; temporary storage accepts and places
them; totes, customer bins, packing and shipping follow, and every transition
dispatches the *task* of the next worker.  Cartons are stowed by putaway.
Corrections and Data Control rewrite or delete rows of all of them.  Handhelds
and displays see the backend through its answers only.

What makes each part correct, in one line each:

- Receiving: no receipt is lost or counted twice; a session closed clean holds
  what was expected; a received carton has a receipt.
- Report: goods are handed over once and only if confirmed.
- Batches: counters are their items, terminal states are terminal, the last
  unit completes the batch.
- Temporary storage, putaway, fulfillment: a unit is in one place; a place
  holds what it can; what is shipped was verified as it is.
- Assignments: work is offered to somebody, and not again while it is or once it
  is done.  Authentication: a login has
  one live session, and access that was ended stays ended.  Print jobs: every
  job gets a result, no label comes out twice while it is remembered.
- Handheld: a scan counts once, a screen shows its own batch and its own
  worker, signing out is final.
- Web terminal: a unit is counted for a scan that was accepted, what is
  committed is what was scanned last, a text goes to the page it was read for,
  and what a worker found is stored with the session it was written under.
- Workers' page: a form whose administrator was told that it is done has made
  the tasks that were asked for, each once.
- Scripts: a reset does its plan and leaves one worker of its list; seeds that take each
  other's rows end where a single one ends; a repair leaves no hole.

`PROJECT.json` lists every component with its sources and every hazard with the
line where it bites.

## 2. Modules

| Module | Models | Run |
|---|---|---|
| `Receiving` | one expected arrival: sessions, scans, closing, corrections | `rcv_calls`, `floor_live` |
| `ReceivingReport` | the report of one session and the handoff to staging | `goods_day` |
| `Batch` | batches and the batch branch of the receiving home | `terminal` |
| `TemporaryStorage` | accepting and placing handed-over moves at the staging stations | `goods_day` |
| `GoodsDay` | composes `CartonFlow`, `ReceivingReport` and `TemporaryStorage` | `goods_day` |
| `Fulfillment` | articles from the tote to the carrier | `out_flow`, `scan_lost` |
| `FloorDay` | composes `Receiving`, `TaskDispatch` and `StationScreens` | `rcv_calls`, `task_day`, `floor_live`, `screens` |
| `TaskDispatch` | worker tasks and the dispatch after each transition | `task_day`, `floor_live` |
| `PrintQueue` | print jobs from the page of a display to the printer of a handheld | `prints` |
| `LabelLedger` | abstract: what a printer with a memory promises | `prints` (refinement) |
| `CartonFlow` | carton records: cards, receipts, putaway, deletion | `goods_day` |
| `Access` | logins, renewals, requests and the ending of access | `access_day` |
| `WorkerSession` | the session of the handheld | `worker_app` |
| `WorkerLanes` | the work screens of the handheld over `WorkerSession` | `worker_app` |
| `StationScreens` | the screens at the stations: configuration, streams, polls, messages, actions | `screens` |
| `TaskScreens` | the task pages of the web terminal and their calls | `terminal` |
| `Scanner` | the scanner overlay over `TaskScreens`: camera, loops, state machine, hardware panel | `terminal` |
| `ReportPage` | the page of the verification report and the requests it sends | `terminal` |
| `TerminalDay` | composes `Batch`, `Scanner` and `ReportPage` | `terminal` |
| `DataReset` | the two scripts that empty an installation | `maintenance` |
| `Deployment` | migration, schema repair, seed and start of the containers | `maintenance` |
| `StaffPage` | the forms of the workers' page and the requests they send | `maintenance` |
| `Maintenance` | composes `DataReset`, `Deployment` and `StaffPage` | `maintenance` |
| `ReceivingProofs`, `GoodsProofs`, `FulfillmentProofs`, `AccessProofs`, `PrintProofs`, `TerminalDayProofs`, `MaintenanceProofs`, `HandheldProofs` | theorems about `FloorDay`, `GoodsDay`, `Fulfillment`, `Access`, `PrintQueue`, `TerminalDay`, `Maintenance`, `WorkerLanes`, with the modules these compose | |
| `MC...` | values of constants and symmetry, one for each module that a run checks | |

Common conventions:

- A handler call is a *request* (or a *worker*, or `call[r]`, with a call in
  flight).  It has the place it is at and the locals it keeps across awaits.
  The action named like the handler does the reads and the early refusals; the
  commit is a step of its own.
- A refused call changes nothing, so a refusal is the absence of a step or a
  step to `Done` / `Idle`.
- A transaction of one guarded statement is one step.  Where several statements
  see different moments (submitReport, addUnit, completeReceiving,
  orderSortingAssign, refresh) each is a step of its own, and what is not
  committed stays in the call.
- `Abort` / `Fail` / `Stop` ends a call at any await: a stopped process, a lost
  connection, a transaction that is rolled back.
- A *workload* is the set of handlers that are called in one behaviour.  It is
  chosen in `Init` and never changes.  TLC checks every workload of the
  constant; together they fire every action.  Workloads keep apart operations
  that share no row, or that meet in another workload.
- History variables are named in the modules.  Most count audit rows that the
  code really writes; the others (`overlap`, `root`, `era`, `asked`, ...) only
  remember which calls have met, so that a property can say *except by this
  overlap* and nothing else.
- Operators with a comment `Mutant:` are plausible bugs, named in
  `PROJECT.json`; nothing uses them but the mutation runs.

### Receiving

`session`, `line`, `carton`, `receipt`, `scanEvent`, `openDisc` are the tables
of the same name; a receipt row is identified by the call that inserted it.
`confirmProduct` is four steps: check session and operation id
(`ConfirmProduct`), read the card (`ReadCard`), write under the optimistic
guard (`WriteProduct`) or, when the guard fails, run again without the
operation id (`ProductRaced`, `Rescan`).  The arrival has no session at first, or
one that has just been started (`Openings`).  `complete` reads the tally (`Tally`)
before it closes (`WriteCompletion`).  pause, resume and reopen check and then
write without a guard.  Left out: worker-log rows, the unit-level duplicate
check (a match requires the identifier to be the model code, so that branch
cannot be reached), and the four parallel reads of `reconcile`, which are one
step.

### ReceivingReport

The statements of `submitReport` are the steps `ComputeLive` (snapshot),
`WriteReport` (takes the lock of the report row, or fails on the unique
session id), `Tally` (another connection) and `CommitSubmit`.  Receipts, pauses
and corrections of the session appear as committed writes.  `handoff` writes a
move for every confirmed line of the rows just created: their ids are new, so
the duplicate check by line id never finds anything.

### Batch

Each operation is a reading step and a committing step whose guards are those
of the WHERE clauses.  `CommitMove` is the shared form of the status
transitions; `submit` and `accept` chain the following transitions in the same
transaction, so the intermediate states are never visible.  `create` and
`addUnit` read the last code and compete for it through unique indexes.
`HomeScan` .. `HomeReceive` are the calls of `confirmBatchUnit`, each with its
own commit.

### FloorDay

The floor at which goods arrive in three scenes: receiving, the tasks of the
workers, the screens at the stations.  Each part runs in tables of its own and
reads of the others no more than its module says (a job that is due, an event at
the station), so a behaviour shows one of them.  The scene lemmas of
`ReceivingProofs` show that a day of a scene is a behaviour of its module.

### GoodsDay

The way of goods in three scenes: cartons, a report, the storage stations.  Each
part runs in tables of its own; what one leaves to the next (an arrival, a move)
is a row that the next only reads, so a behaviour shows one of them and the
others stand still.  The parts keep their own specifications, and the scene
lemmas of `GoodsProofs` show that a day of a scene is a behaviour of its module.

### TemporaryStorage

`place` is four steps.  `Place` is what it reads outside its transaction: the
moves in the station's scope, their budgets, the first with a unit left.
`Begin` looks for the operation id, `Claim` updates the move under its guard
and holds the row from then on, `Store` (or `AnswerWrongContainer`) writes and
commits.  The lock is not a variable: a move is locked while a call that names
it is in its storing stage.  `found` is the copy of the container the
transaction read; the guarded increment looks at the row as it is.
`nextContainerCode` runs on another connection, so `NextCode` sees committed
containers only.  All customers share one section letter.  A clash of generated
article or exception codes, and a station taken from its worker, are `Abort`.

### Fulfillment

`article`, `tote`, `bin`, `shipment`, `verification` are rows.  Every handler is
a reading step that keeps what it decided on in `call[r]`, and a transaction
that, in most handlers, does not look again.  The completeness checks of
`orderSortingAssign` and `pack` are a further step, because two of them can miss
each other's rows.  `scan` writes the count
of its line as the copy it has read plus one: two that overlap lose a unit, which
is the finding of `scan_lost`.  An order has one line per code; destinations, unexpected
articles and printed documents are left out.

### TaskDispatch

A *job* is a task key with the entity it is about; `work[j]` says whether it is
to come, due or done (a customer bin: ACTIVE, READY_FOR_PACKING, packed or
closed), `task` are the rows of WorkerTaskAssignment.  A workflow service that
finishes a job completes the worker's tasks and dispatches the job that follows:
in its transaction (card intake, staging) or, everywhere else, after the commit
in a call that may be stopped in between (`Abort`).  Users, roles and stations
decide who is eligible and change while tasks are open; a task may name a
station, at which its worker must stand (`AtItsStation`).  The choice among
eligible workers by load is left open.

A bin goes back and forth.  `FillBin` reads it open, `WriteFill` locks it and
dispatches it from that copy - also when another call has locked, packed or
shipped it meanwhile - and `ReopenBin` opens it again, from a copy too.  So a bin
is packed several times, and each packing makes a shipment of its own
(`Parcels`), which is due and dispatched; when a shipment leaves, its bin is
closed whatever it is by then.  The tasks of a job done stay what they are.

`Following` ties the other jobs together: the tote of an arrival, the sorting of
a tote.  A tote is closed when it is full or by hand, while its arrival is still
being received or after (`CloseContainer`), and may hold articles of several
arrivals; each arrival is reduced to one of its totes.  The end of a receiving
commits, then reads the tote and skips it when it is staged already
(`FindTotes`), then dispatches it.  So `WorkIsOffered` speaks of a closed tote
only once its arrivals are received.

### PrintQueue and LabelLedger

`job`, `display`, `post` are the backend; `page` and `bridged` the page of the
display and the bridge it uses; `agent`, `printer`, `known` and `disk` the
handheld: its polling agent, the link to its printer, the window of labels it
remembers, in memory and on disk.  A report to the server travels on `wire` and
may be lost or arrive after the handheld has stopped waiting.  `print` holds the
threads that are between the claim of a label and the paper.  `LedgerKept`
maps this state to `LabelLedger`: an entry is a label on a handheld, held while
the window remembers it, due once for each thread that is about to print it,
counted once for each sheet.  The ledger states what the memory must do; the
window, its write to disk, its overflow and a restart must be steps of it.

### CartonFlow

`arrival`, `shipment`, `items` are what the cards of the CRM write, `carton` the
row that receiving, putaway and Data Control share, `receipts` and `placements`
its history.  `placements` are appended without a look at the row, the row is
overwritten: the module is about the two staying together.  `overlap` records
which call committed under which.

`items[c][a]` counts the manifest lines that carton `c` has made on arrival `a`:
those that are linked to it, and those that its deletion has left without a
carton.  `declared` are the products of the customer card, whose lines have no
carton from the start.  A line without a carton stands for every manifest line of
its product that comes later (`Mirrored`).  No handler of the backend writes the
lines of a customer card any more (`carton-content.ts` and the schema still speak
of them), so `declared` is chosen in `Init` and changed by no card.  A carton has
one manifest line.

### Access

A token is the id of its session.  Login, refresh and the request check are
sequences of database statements; refresh is the only transaction, and an
UPDATE of many sessions waits for its row lock and misses the session that it
inserts.  `root` is the login a session comes from.  Signatures, hashes and the
clock are abstracted to ids and to the flag `expired`.

### WorkerSession and WorkerLanes

A job is a coroutine of the main thread: from one suspension to the next it
runs without interruption.  `store` is the token store with its two version
counters, `app` the state of the view model, `session` the server's rows.  The
transport sends a request with a snapshot of the store, takes the renewal lock
on a 401, and applies the new token only if the snapshot is still current.
`WorkerLanes` adds the workflows: `home`, `storage`, `build`, `intake` and
`report` are the states of the five screens, `counted`, `placed`, `done`,
`batches`, `got`, `filed` the part of the server that their answers depend on,
`scans` and `told` what the worker did and was told.  A request there has four
ends: an answer, *failed* (nothing was recorded and the device knows), *lost*
(the device does not know), *401*.  The server is the abstraction of the modules
above that the screens can tell apart.

### StationScreens

`display`, `issued`, `message` are rows, `floor` the one receiving session a
station is reduced to.  A snapshot is read in one step and reaches the page
later: as the answer of a poll, the first event of a stream or a push.  Each is
a slot of `read[p]`, and they overtake each other.  `page` is what is shown and
the event source with its retries, `stream` the server's side of it, which a
restart (`up`) ends.  Administrators' calls read and write back in two steps.

### TaskScreens, Scanner and TerminalDay

`screen` is the state of the one page the worker stands at, `calls` the requests
in flight, `server` how many units of each item are handled.  Each page has its
handler of a scanned value, its handler of an answer, and `...Offers`, the
controls that its rendering enables: a control that is disabled while the page
is busy is not there, but a scanner calls the handler at any time, and the
handler tests `busy` itself.  A request may fail, or be served and its answer
lost; the page cannot tell which.  What the server decides is the part of the
modules above that the pages can tell apart.

`Scanner` puts the overlay on top.  `cam` is the state machine of
`scanner-state.ts`, which ignores an event that its state does not allow;
`loop[n]` a decode loop, with the frame it has, its votes and the code it handed
over last; `held` the uncertain text.  A loop that is torn down finishes what
it awaits.  `PageBelow` is every step of `TaskScreens` with the effects that
follow from it (`Follow`): a verdict moves the machine, and for receiving the
scanner is mounted and unmounted with the lane.  A barcode is decoded within one
frame, so the worker does nothing meanwhile (`Quiet`); a text takes long.

### ReportPage

One component serves the list of sessions and the report of every session: the
route keeps it when the session in the address changes, and what it shows of the
last report stays, and can be edited, until another is loaded.  `asked` are its
requests in the order they were sent, each with who still listens (`heard`) and
what the server answered (`got`); `findings` are the sessions for which the
manual fields hold something, `stored` and `sent` the server's side.  Nothing
orders the answers.  `hurried` is a history variable: a report was loaded while
another step of the page was running.  A worker who hurries can store the
findings of one session under another, which is why the property excepts it.

`TerminalDay` shows batches, a day at the terminal, or the report page; the three
share no row that two of them look at.

### DataReset, Deployment, StaffPage and Maintenance

`db` is a set of rows, `Table` and `Parent` say where a row lives and what it
refers to.  Each script is a sequence: audit, plan, (for the pg script) the
operator's answer, the statements of one transaction, and the creation of the
test worker; others insert rows at any moment.  A foreign key that refuses rolls
the transaction back.  `Deployment` has the steps of `start.sh` and of the
direct start with its repair for each container: what is migrated, repaired and
seeded, statement by statement where two containers can meet.  `lacks` are the
objects of the schema that are missing, in any combination: the repair is written
for a database that has drifted, so the models assume no order in which the
migrations were applied (only that a label or a column is of a type that is
there, `Whole`).  A statement runs when what it needs is there and is skipped
when not (`Runs`); a probe that fails lets the boot go on unrepaired
(`ProbeFault`).  One drift is out of the repair's reach (`BeyondRepair`): where
the states of a task have their new labels and the table of the tasks is gone,
its CREATE TABLE has a default of the old labels and fails at every boot
(`bootstrap-schema-repair.ts:380`).

`form` are the forms of `StaffPage`, each with the request it waits for and the
tasks it has still to ask for; `account`, `bound`, `tasks` and `cancelled` are
rows, a task with the submission that made it.  A request fails before it was
served, or its answer is lost; then it may be served while the form is already
told of the failure, or later (`late`).  Each request is one step of the server,
because `Access` and `TaskDispatch` have its interleavings.  `unsure` are the
forms that were told of a failure and cannot know of what.

`Maintenance` shows one of the three: a container that starts and a reset meet
only in rows that both leave alone, and nobody uses the page of an installation
that is down or being emptied.

What these modules follow as it is: the reset knows the operational roles by a
list of eight that lacks two of the roles `seed.ts` calls operational
(TEMP_STORAGE_WORKER and BATCH_WORKER), so their workers stay and its report of
one test worker does not count them - `OneTestWorker` speaks of the script's
list, and the warehouse of the run has such a worker; it deletes an
administrator who also holds one; the tables of temporary storage and of
batches are not cleaned; the pg script reports cascaded rows from the audit.  A
second container may come up while the first still repairs; migrations are
recorded as applied whatever the repair could not make; a seed takes
`locations.view` from custom roles at every start after the first, and
reactivates a demo worker that was disabled.

## 3. Runs

Passing runs:

| Run | Question | Bound |
|---|---|---|
| `rcv_calls` | From an arrival without session, or with one just started, to its reopening: is no receipt lost or counted twice, does a session that is closed clean hold on its uncorrected lines what was expected, does a received carton have a receipt? | 2 sessions, 2 cards (2 units; 1 without identifier), 1 carton, 5 calls, 1 operation id of two units; corrections to 1 |
| `terminal` | Do the counters of a batch match its items through building, receiving, voids, crashes and deletes? At the terminal: is nothing counted that was not scanned, nothing committed but what was scanned last, and no text handed to a page it was not read for? Does the report page keep findings under the session they were written for? | 1 batch of at most 2 units, new or of an older release, 2 workers, any number of calls; 2 items, 1 place, 2 units where an item has several, 1 verified shipment; each page with the keyboard, 3 requests (storage also 4), 1 lost, 1 leaving; the scanner over sorting, packing and receiving, 2 loops, at most 2 requests, views and leavings as in `DaysHere`; the report page with 2 sessions and 3 requests |
| `out_flow` | Does nothing ship that was not verified, does a sorted article stay with its order, is no unit counted that was not scanned? | 2 articles of 1 code, 2 orders (2 units and 1), 1 tote of capacity 1, 2 bins, 2 stations, 2 shipments, 2 operation ids, 2 calls |
| `task_day` | Is no task made of a job that has one, or stays done, however often its bin is locked, reopened and packed? | 8 jobs (an arrival, its tote, the sorting; a bin and 2 shipments; a carton; an instruction), at most 4 task rows, 2 workers, 2 stations, 2 calls, nine workloads |
| `floor_live` | Does every receiving call return, and is every piece of work offered to somebody when no call fails? | as `rcv_calls` with 3 calls and a session just started, as `task_day` with the two workloads without incidents; fairness |
| `prints` | Is what was reported on paper, is the memory of labels a ledger, does every job get a result? | 2 jobs of at most 2 copies, 2 handhelds, 2 bridge threads, a window of 2, 1 job per poll, 1 lost report, 1 restart, 1 reassignment; fairness |
| `goods_day` | Cartons: is a carton that is located placed there, does it lose its arrival only to a deletion that its card overtook, is no manifest line counted twice, with a customer card or without? The report: is the handoff of a session that was not drafted single? Storage: do containers separate the customers, does an operation make one row, does a placement leave a move to its station? | 2 cartons of one product, 1 shipment card, 1 arrival reference with 2 rows, customer card or none, 2 locations, 2 workers, 2 putaway sessions, 2 receipts and 3 placements per carton, 2 calls, seven workloads; 1 line of 2, 3 calls, all handlers; 2 stations, 3 moves (4, 1 and 1 units) of 2 products and 2 customers, 2 container numbers, capacity 1 or 2, 3 calls, 2 operation ids |
| `access_day` | Has a login one live session, and does ended access stay ended? | 2 users, 1 device, 1 station, 3 sessions, 2 failures to lock, access ended once, 2 calls, ten workloads |
| `worker_app` | Does a scan count once, does a screen show its own batch, is signing out final? | 2 users, 2 sessions, 2 coroutines, 2 scans and 2 product scans, 1 lost answer, 1 death of the process, eight workloads |
| `screens` | Does a quiet station end up on its screen, does a dead link end in its notice, do roles change only when asked? | 1 station, 1 page, 2 administrators, 3 displays, 3 links, 2 events of the floor, 2 messages of which a snapshot carries 1, 1 action, 1 outage, 2 changes, six workloads; fairness |
| `maintenance` | Does a reset of a quiet floor do its plan and leave one worker of its list, do seeds that meet end whole, does a repair leave no hole, are the others left alone, do all containers come up? Does a form that was told it is done leave the tasks it asked for? | 2 scripts, 2 runs, 2 floors, 1 row of others; 2 containers, 6 worlds (new, broken, four for the repair), 1 kill, failing statement or failing probe, 1 edit; 2 forms of at most 2 submissions, 1 employee code, 1 station, 1 task key; fairness |

One run shows a violation, in the module of `out_flow`:

| Run | Claim | Bound |
|---|---|---|
| `scan_lost` | `EveryScanCounted`: `assignments.service.ts:402` says of two workers who scan the same product that their concurrency "is enforced at the write path". `scanArticleAtReceiving` writes the count it read before its transaction plus one (`fulfillment.service.ts:302`): two scans that overlap make two articles and count one. | 2 articles of 1 code, 1 tote of capacity 2, 2 operation ids, 2 calls |

Why these bounds are enough for what they show: every race in this code is
between one call that read and calls that write before it does. Two calls give a
reader and an overtaker that commits any number of times while the reader waits;
a third or fourth adds one that reacts to the result (a resume after a late
pause, an accept after a second submit). A card of two units has all of:
untouched, partial, complete and over; the card of one unit is corrected to what
was expected, so that a session can be closed clean by five calls. In the storage scene the moves of one unit
are exhausted by a single call, the move of four makes a full container want a
successor, and the two moves of one customer meet in one container. In `prints`
the window is as small as the two labels that compete for it, so it overflows.
Three requests of the report page fill the fields under one heading and load
another session; what more requests can mix is for the theorem. One task key is
enough for the workers' page to lose, repeat or postpone a request; that a form
with several keys loses none is for the theorem. Each fault (a lost answer, a
restart, a change of worker) happens at most once in a behaviour, at every
possible point of it.

`CHECK_DEADLOCK FALSE` everywhere: a behaviour with a bounded number of calls,
rows or sessions ends when all of them are used up, and a batch that was deleted
is gone.  `rcv_calls`, `task_day` and `screens` check one scene of `FloorDay` each,
because the scenes do not meet; the smaller ones of `GoodsDay` are in one run.

Fairness.  In `floor_live` (`FairFloorSpec`) a call whose next
database operation is possible makes it or fails
(`WF(Continue(r) \/ Abort(r))`): the event loop of Node resumes every settled
promise and Prisma settles every query with a result, an error or a timeout.  It
is stated for the calls of both modules; in another scene no call runs, and it
says nothing.  In `prints` the agent loop of a handheld runs again and again
(`WF(Agent(h) \/ Printing(h))`), the server answers or the client times out
(`WF(Server(r))`), and the reconnection, which is tried at every round and is
interrupted by scans, succeeds if it can infinitely often
(`SF(EnsureConnected(h))`).  In `screens` (`FairScreenSpec`) the timers and the
event source of the browser fire, the server answers what was asked, and it
comes back after a restart.  In `maintenance` a container that is down or on its
way goes on (`WF(GoesOn(b))`): the platform starts it again, and what it calls
returns.  Nothing is assumed of the people who call, except that faults are
finitely many.

### Claims that do not hold

Each module states, beside what holds, what a comment, a message or a test of
the source says and what TLC finds violated.  They are labelled in the modules
and, but for the first, are not part of a run.

| Definition | Source | What happens |
|---|---|---|
| `Fulfillment.EveryScanCounted` | `assignments.service.ts:402` | two scans of one product overlap and count one unit (`scan_lost`) |
| `Receiving.OperationAppliedOnce` | `receiving.service.ts:378` | the re-run of a raced scan drops its operation id, and a repetition of it counts again |
| `Receiving.CleanMeansAllCartons` | `receiving.service.ts:663` | two receipt rows of one carton hide a missing one from the tally |
| `ReceivingReport.OneHandoffPerSession` | `receiving-reports.service.ts:492` | two submits of one draft both hand over |
| `Batch.AddedWhileCreated` | `batches.service.ts:252`, `:258` | an add that read CREATED commits after the submit |
| `Batch.ReceivedMeansCompleted` | `receiving.service.ts:1580` | a stop between the last receipt and the completion |
| `TemporaryStorage.PlacedAtMostOnce` | `temporary-storage.service.ts:63`, `:573` | two scans that read the last unit both store it |
| `Fulfillment.CompletionLocks` | `fulfillment.service.ts:868` | the lock of a complete bin is written from a stale copy, or not at all |
| `TaskDispatch.OneOpenTask` | `dispatch.service.ts:29` | two dispatches of one job look for a task before either has made it |
| `TaskDispatch.OneStation` | `stations.service.ts:180` | two assignments of one worker overlap |
| `PrintQueue.OneActionOneLabel` | `StationDisplay.tsx:177`, `JobIdWindow.kt:11` | the page and the handheld both print one job |
| `CartonFlow.EachCartonCounts` | `carton-content.ts:22` | the line that a deleted carton has left stands for every carton of its product that comes later |
| `CartonFlow.ReceivedAwaits` | `putaway.service.ts:123` | a carton that is received again keeps its place and is in no queue |
| `CartonFlow.ResetStartsClean` | `operations.service.ts:1662` | the reset leaves records behind |
| `Access.RemovedIsPermanent` | `operations.service.ts:1945` | a block or unblock in flight writes over the removal |
| `Access.GoneDeviceEnds` | `jwt.strategy.ts:94` | a session inserted during the removal of its device is never checked again |
| `WorkerLanes.RetryNeverDoubles` | `ReceivingHomeWorkflow.kt:331` | a retry after a lost answer carries a new operation id |
| `WorkerLanes.RememberedWasReceived` | `ReceivingHomeWorkflow.kt:108` | the code of the last scan is remembered, not of the confirmed one |
| `WorkerLanes.FinishedStaysGone` | `ReceivingReportWorkflow.kt:194` | a draft in flight brings the finished report back |
| `WorkerLanes.BoardIsOfSection` | `TsStorageWorkflow.kt:348` | a quiet reload shows the board of a section that was left |

At the web terminal the model shows, without a definition of their own: after an
answer of kind *info* the machine stays in SUBMITTING until the timer resumes
it, and if the page says nothing more it waits there (`ContinuousScanner.tsx:278`);
`confirmPending` notes no submission, so a label that stays in view during a slow
answer is handed over again (`dedupe.ts:12`); a read of the hardware panel sees
the cards and the busy flag of its first render (`HardwareScannerPanel.tsx:83`);
a barcode found while the scanner closes is handed over all the same, and a flip
while the camera starts may end in ERROR or READY of the camera that was left;
each press of CONFIRM in the receiving home draws a new operation id, so a lost
answer and a second press count twice (`ReceivingHome.tsx:236`), which is why
`CountedAsHandled` leaves receiving out; after a lost answer of a store the
sorting page waits for a location until CANCEL; the shipping page offers CONFIRM
DISPATCH for a shipment nobody verified, which the server refuses; a finished
putaway session still lets a waiting carton be picked, and its page then waits
for a location that cannot be typed (`PutawayTask.tsx:287`).

Notes on code that the models follow as it is, without a definition of their
own: two sessions of one arrival; a move accepted while units of it are being
placed; the claim that a WRONG_CONTAINER answer commits; the successor container
that is not opened when one unit is left (and cannot be opened at capacity 1); a
batch code that is used again after a hard delete; a printer that stays recorded
as connected after a failed connection to another one; a job of which only some
copies came out, which is reported FAILED and not retried
(`PrintAgentRunner.kt:150`); a shipment card that lists an arrived carton and
fails for ever; a VOIDED arrival that can be started; VOIDED and STORED cartons
that can be scanned again; pause and resume of a putaway session without a guard;
manifest lines of deleted cartons that stay; a failed reload of the handheld that
offers RETRY where `OperationalMessage.kt` says not to receive the item again.

## 4. Proofs

Eight modules hold the theorems, one for each specification that is proved
about.  Every theorem holds for all values of the constants that satisfy the
named assumptions of its specification: the constants have the evident types,
and `None` is not a value of the other sets.

| Proofs | Assumptions |
|---|---|
| `ReceivingProofs` | `ReceivingAssumption`, `FloorAssumption` (with `DispatchAssumption` and `ScreensAssumption`) |
| `GoodsProofs` | `CartonAssumption`, `GoodsAssumption` (with `ReportAssumption` and `StorageAssumption`) |
| `FulfillmentProofs` | `FulfillmentAssumption` |
| `AccessProofs` | `AccessAssumption` |
| `PrintProofs` | `PrintAssumption` |
| `TerminalDayProofs` | `BatchAssumption`, `TerminalAssumption` (with that of the report page) |
| `MaintenanceProofs` | `ResetAssumption`, `SchemaAssumption`, `DeploymentAssumption`, `MaintenanceAssumption` (with that of the workers' page) |
| `HandheldProofs` | `WorkerAssumption`, `LanesAssumption`, `CodesAssumption` |

No theorem has another hypothesis.  `PROJECT.json` lists them; TLC checked each
property on the small instance before it was proved.

**The floor** (`ReceivingProofs`).  `ReceivingScene`, `TaskScene` and
`ScreenScene` put the three parts together: in its scene, `FloorSpec` implies the
specification of the module, and in the others the part stays at its initial
state.  The theorems of the next three headings are ones of `FloorSpec`.

**Receiving** (`ReceivingProofs`).

- `TypeCorrect`: `FloorSpec => []TypeOK`.
- `ReceiptsNotLost`: `[]NoLostReceipt`.  `CountInv` adds that every call in
  flight works on a session that exists (`CallsHaveSession`) and that nothing is
  counted on a session before it is created (`NothingBeforeStart`), because
  `CreateSession` resets the lines.  The heart is `CountStep`: under the
  optimistic guard the stored quantity is the one the new quantity was computed
  from, so line and audit trail grow by the same amount.
- `CleanCompletionExact`: `[]CleanMeansExact`.  `ExactInv` adds three facts: a
  scan in its writing stage saw an incomplete card (`MatchSawIncomplete`), a
  line above its expected quantity reads OVERAGE (`ExcessIsOverage`), and once a
  tally was clean the uncorrected lines stay at exactly the expected quantity
  until the closing write (`CleanTallyStaysExact`): a scan cannot pass its guard
  on a complete line, because it saw less.
- `CartonsStandOnReceipts`: `[]ReceivedCartonHasReceipt`, from the type
  invariant and the stage of the call that writes the card.

**Dispatch** (`ReceivingProofs`).  `TasksAreNeeded`: `NoNeedlessTask`, an
action property.  `DispatchInv` has two parts beside the types.  `CallStands`:
what a call relies on when it writes is still so (a bin that is filled or
reopened is a bin, a staged tote is closed).  `NextWaits`: the sorting of a tote
waits until the tote is staged; without it, the job that a staging opens might be
done already.  It needs that only arrivals share what follows on them: a sorting
task is of one tote (`dispatch.service.ts:274`), as a shipment is of one bin
(`fulfillment.service.ts:1017`).  Of bins and shipments nothing is assumed to go
forward: a done job that is dispatched again has first become due again, in the
same step as the call that dispatches it (`BinSteps`), and the theorem excepts
that step and nothing else.

**The screens at the stations** (`ReceivingProofs`).  `RolesStayAsAsked`:
`RolesAsAsked`, an action property.  `ScreenInv` says what an administration call
relies on when it writes (`ReadStands`): the role that `update` read, and the
configurations that SET_INTERACTIVE read, are as they were, but for the rows that
somebody else wrote in between; a screen set still to be made has roles that the
station lacks, each once.  The last part is what lets the set be inserted row by
row: the row just made is a screen of the station too.

**A day of goods** (`GoodsProofs`).  `CartonScene`, `ReportScene` and
`StorageScene` are the lemmas by which the three parts are put together: in its
scene, `GoodsSpec` implies the specification of the module, and in the others the
part stays at its initial state.  Every theorem below is then one of `GoodsSpec`.

**Temporary storage** (`GoodsProofs`).  `StorageTypeCorrect`,
`OperationStoredOnce` (`[]OneItemPerOperation`) and `CustomersKeptApart`
(`[]StoredWithItsCustomer`) share `StorageInv`.  What makes it inductive is
`FoundStands`: a container that a call in flight has found is still there and
still its customer's.  It rests on `Grows`, the one thing every step does to the
stored rows: containers stand, items are only added, and under a free operation
id.  `ClaimsNeverSteal` (`PlaceNeverSteals`, an action property) needs `Locks`: a
call in its storing stage holds a move its station may have, and no two calls
hold the same move.

**Fulfillment** (`FulfillmentProofs`).  `FulfillmentTypeCorrect` carries
`RowsStand` along: the rows a call has read are there when it writes.  On top:

- `ShippedWasVerified`: `[]NothingShipsUnverified`.  `VerifiedInv` says that
  what was seen of a shipment, by a verification that is still to be written and
  by the latest, is at least what the shipment holds now.  It is inductive
  because the content of a packed shipment can only shrink, and a verification
  is replaced by another, never by none; so a hash compared before the
  transaction is still good in it.
- `SortedGoesForward`: `SortedStaysSorted`, action by action: an article in a
  customer's bin is written by no call but one that already aims at it.
- `NeverOvercounted`: `[]CountedWasScanned`.  It needs that the copy of a count that a scan
  writes back was at most what is scanned by now (`CountInv`), with cardinalities
  of the sets of scanned articles.

**Access** (`AccessProofs`).

- `AccessTypeCorrect` and `OneLiveSession` (`[]OneLivePerLogin`).  `AccessInv`
  adds `RotationHolds` (a renewal between its two statements has ended the
  session it renews, holds its row, and no other call does) and `RootsKnown`
  (every session, and every renewal, carries the login it comes from).
- `EndedAccessStaysEnded`: `[]EndedStaysEnded`.  `EraInv` counts the endings of
  a user and of a device as eras: a session that is alive and did not overlap an
  ending is of the present era (`RowTold`), a request that has been checked knows
  the era of its session, and a revocation that has looked at the sessions leaves
  none alive but those it is about to revoke and those that were opened under it
  (`CallTold`).

**Print queue** (`PrintProofs`).

- `PrintTypeCorrect`, with `RowsStand` again, and the lemma that the window of
  claimed labels never outgrows its capacity.
- `PrinterKeepsLedger`: `LedgerKept`, the refinement of `LabelLedger`.  The
  initial states are mapped, and each step of a print call is shown to be the
  claim, the sheet, or the loss of an entry; every other step is a stutter.  A
  step may forget several entries (a restart), which is one step of the ledger.
- `PrintedMeansPaper`: `[]PrintedIsOnPaper`.  The property speaks of behaviours
  in which no link breaks and no application dies.  `PaperInv` follows a label
  from the socket to the report: a call that may write is linked, a label the
  window knows as printed is on a sheet, an agent that reports has all copies
  out, and so have its report on the wire and the call that settles it.

**Carton flow** (`GoodsProofs`).  `CartonTypeCorrect`, `CartonIsWherePlaced`
(`[]LocatedIsPlaced`), `OrphansCameLate` (`[]NoOrphanCarton`) and
`ManifestCountsOnce` (`[]CountedOnce`) share `FlowInv`: what a call has read is
there, or the call has failed (`CallStands`); what came to an arrival after its
deletion had looked is remembered in `overlap`; every carton is on a shipment
(`CartonStands`); and `LinesStand`: what `CountedOnce` says, and that a linked
line is of a carton that is there, in the arrival the carton is of.  The last is
what lets a carton be announced again: it has no linked line, and it gets one only
if no line of its product is without a carton, its own old one among them.

**Verification report** (`GoodsProofs`).  `ReportTypeCorrect`: `[]TypeOK`, where
the interesting part is that no quantity goes below zero.
`UndraftedHandedOffOnce`: `[]HandedOffOnce`.  `HandoffInv` adds that a submit
between its writes holds the lock, and that without a draft no call has found a
row, so the submit that holds the lock creates it and nothing is submitted
before that submit commits.

**Batches** (`TerminalDayProofs`).  `BatchTypeCorrect`, with the lemma that a
transition was decided on a status that the table lets it leave, and
`CountersAreItems`: `[]CountsMatchItems`.  `BatchInv` adds that a unit which was
given out belongs to a batch that exists or to none (`OwnedItems`) and that a
batch that exists has a code (`CodedBatches`).

**The terminal** (`TerminalDayProofs`).  `PageInv` is about the task pages.  Its
root is `OneAtATime`: of the calls that a page has not disowned, one at most is
awaited, and the page is busy until it has the answer.

- `TerminalTypeCorrect`: `[]T!TasksTypeOK`.
- `CommitsTheLast`: `CommitsWhatWasScanned`.  What the page holds is what it took
  last, or the next one is being looked up (`HandIsLast`), and then nothing can
  be committed, because the page is busy or (where a scan is a pair) holds
  nothing (`ScansAsTaken`).
- `AcceptedBeforeCounted`: `[]CountedAsHandled`.  Where an item has one unit, it
  is held or committed only after it was accepted (`HandledOnce`).  In temporary
  storage the units counted, plus the operation ids that may still place one,
  are at most what was accepted (`StoredOnce`): a repeated commit has the id of
  the first, a served one is no longer pending, so the sum never grows without
  an acceptance.  The proof is with the cardinality of the set of these ids.
- `TextStays`: `TextStaysInItsLoop`.  `CameraInv` says that a loop that nobody
  wants any more has no votes; a text is handed over or offered only on votes, so
  only by a loop that is wanted.  Any other loop that ends leaves the page and
  the held text as they were, or the page is mounted anew in the same step.

**The report page** (`TerminalDayProofs`).  `FindingsStay`:
`[]WrittenUnderItsHeading`.  `ReportInv` adds to the types, for a worker who did
not hurry, that operations come one at a time and are of the report that is
displayed, and that a report is loaded only while nothing else goes on (`Alone`);
and that fields, rows and requests hold findings of their own session only
(`Apart`).  The second is not inductive without the first: a load that is
answered between the reading of photos and their arrival puts them under another
heading.

**Maintenance** (`MaintenanceProofs`).  `MaintenanceInv` joins `StaffInv`,
`DeployInv` and, in the scene of the reset, `ResetInv`; elsewhere no script runs.

- `TasksAreAsAsked`: `[]TasksAsAsked`, for any number of task keys.  `StaffInv`
  says what a form knows of the server (`FormKept`), what a request that was
  given up can still do (`LateKept`), and what every task row comes from
  (`RowKept`).  The heart are two facts about hiring: a form that is past its
  first request has made the account (`HirerMade`), and what it has to ask for
  and what is in the table are together what was asked for (`HireGoesOn`).
- `QuietRunsDoTheirPlan`, `TestWorkerAlone` and `OthersAreSpared`
  (`QuietRunDoesItsPlan`, `OneTestWorker`, `OthersStay`).  `ResetInv`: rows stand
  on their parents, for the script as for everybody else (`DatabaseWhole`), and
  only rows that it may delete go (`OwnRowsGo`).  Where nothing was inserted since
  the audit, the plan is still that of the database (`AsAudited`), the tables of
  the statements that ran are empty (`TablesEmptied`), so no foreign key refuses;
  what was planned is removed, and nothing but what hangs on it (`PlanDone`); and
  the workers are gone, then there is the one (`HandsLeft`).
- `SeedsEndWhole`: `[]SeedIsWhole`, and `RepairsEndWhole`:
  `[]RepairLeavesNoHole`.  `DeployInv` says that what is missing or left over is
  still owed by some container: a key of a role by one that has not compared that
  role yet, or has and is about to write the difference (`RolesWhole`), the role
  of an administrator (`PeopleWhole`), an old key that is still granted and the new
  keys in its place (`OldKeys`, `NewKeys`), an object by a repair that has not
  come to it (`RepairOK`).  The repair needs more than that, because it starts from
  any drift: what comes before the statement that a pass has reached is there or
  out of reach, and so is what comes before anything a pass has made that the probe
  names; therefore a probe that finds nothing missing, after a kill half way, finds
  no hole in what came before.  When all containers are up, nobody owes anything.  A
  container that loses a race for a row stops, starts again and owes everything;
  one that is *killed* between the old key it took from a role and the new ones in
  its place loses them, and both properties say so: what they claim after a kill
  is less (the worker's role, the objects the probe names).

**The handheld** (`HandheldProofs`).

- `SignedOutIsFinal`: `SignedOutStaysOut`.  `SessionInv` is about what a request
  captured of the store: it is not newer than the store, and as long as the
  identity is the one it captured, somebody is signed in (`SnapStands`).  A
  renewed token is applied only while the version is the captured one, so only a
  login, which raises the identity, fills a store that was emptied.
- `ScansCountOnce`: `[]CountedOncePerScan`.  A screen has one request at most that
  claims it, and only while it is busy (`Claims`).  As long as every outcome is
  known to the device, what is counted is covered by scans, and strictly while a
  confirmation is under way or can be tried again (`ScansCover`).  A placement
  carries the operation id of its product scan to the last try, and the server
  takes an id once (`StoredOnce`).
- `ScreensShowTheirBatch`: `[]ShownIsOfTheBatch`.  The rows of the building
  screen are items of its batch at the server (`RowsAreItems`), the count of the
  receiving screen is at most the server's (`CountShown`); both rest on what every
  step of the server does: items and units of a batch only grow.

The invariants of the screens of the handheld are joined in `LanesInv`.  Each
screen has a frame lemma (what a step elsewhere leaves alone of it), so a step
of one screen is proved once, for its own conjunct.

How the proofs go.  `CallFields` says, for each component, which locals a call
has in which stage; `...Keeps` lemmas say what a group of steps leaves alone; a
lemma for each action, or group of actions that write the same rows, gives the
step; the theorem puts them together.  Greatest and least elements of finite
sets, which the models pick with CHOOSE (`Max`, `First`), come from the
well-founded order of finite subsets.

Model-checked only: the liveness properties under fairness (`EveryCallReturns`,
`WorkIsOffered`, `LabelSettles`, `ScreenCatchesUp`, `DeadLinkGoesDark`,
`AllComeUp`), which with ENABLED are out of the reach of the prover. No theorem
is about what a fold or a recursive definition computes for every input, which
needs induction over data.

The type invariants are no property of a run.  Those of `TaskDispatch`,
`StationScreens`, `WorkerLanes`, `DataReset` and `Deployment` hold on the
instances of their runs and are not theorems: the inductive invariants above
carry the types that their proofs need.

## 5. Not modelled

- *Screens*: the admin web except the forms of the workers' page, the page of
  reported issues, the Compose screens.  They call the API that the other modules model.
- *Images*: targeting, preprocessing, OCR and the confidence of a text.  They
  decide whether a frame yields a text; `Scanner` leaves that open.
- *Read models*: dashboards, lists, station snapshots, traceability.  They
  compute and write nothing.
- *Operations*: most of `operations.service.ts` are such dashboards.  Worker
  Control is in `Access`, deletion, voiding and reset of cartons and arrivals in
  `CartonFlow`, stations in `TaskDispatch` and `Access`.
- *Single-row administration* (orders, categories, locations, roles, settings):
  one guarded write per call, no protocol.
- *The end-of-shift report* of a storage station: its window is a matter of
  clock times.
- *The dispatch of order sorting*: `onOrderCreated` and `onArticleReceived`
  (`dispatch.service.ts:306`) read whether goods for an open order are there and
  then make the same `dispatch`, which is modelled, for the order.
- *Other tools*: acceptance chains, demo data, smoke checks, compose files.

## 6. Plan

1. Done: the modules, the runs and the proofs above.
2. The other admin forms that write back what they have read (Data Control, the
   forms of arrivals and orders), and the decision between a user who is kept and
   one who is deleted when the reset meets an administrator with two roles.
