# Emarath backend: verification project

TLA+ models of the backend under `src/` (NestJS services over one PostgreSQL
database through Prisma), the TLC configurations that check them on small
instances, and proofs of the main results for every instance.

The program keeps all its state in database rows. Its hard behaviour is that many
HTTP requests read, decide and write at once, at READ COMMITTED, each with its own
mix of unlocked reads, `SELECT ... FOR UPDATE`, conditional updates and cascades.
That is what most of the models are about. The rest are about its reads: the same
leads are counted under many headings, by queries written one by one.

## Inventory

| Part | State | Operations | Meets | Must hold |
|---|---|---|---|---|
| Logistics orders (`logistics/`) | `logistics_orders`: status, delivery day, tracking number | qcVerify, qcReject, resubmit, dispatch, deliver, cancel, rto; edit, correct AWB, set / correct delivery date | writes the lead's status back, opens Accounts records, writes audit events | one move per status; an edit only in its window; tracking numbers unique; dated before QC |
| Lead writes (`leads/lead-audit.ts` and its callers) | `leads`: status, pipeline, archived, existence | set status, edit, change pipeline, drag, archive, restore, delete, create | makes the order when a lead becomes WON, in the same transaction | the lead of an order is never moved, deleted or unconverted; events tell the truth |
| Accounts records (`accounts/`) | `accounts_records.status`, their events | open (by a delivery), move, correct | Logistics opens them | one per delivered order; history without gaps; backward only by correction |
| Stages, pipelines (`stages/`, `pipelines/`) | names, positions, the default flag | create, rename, reorder, set default, delete | leads, stages and grants join by name; renames cascade | a lead's status is a stage of its pipeline; one default; WON and QC NOT APPROVED stay |
| Audit events (`audit/`) | `audit_events`, append-only | recordAuditEvents, recordStateChange | called in every write's transaction | before and after of an event are the change's |
| Sessions, password reset (`auth/`) | refresh tokens in families, reset tokens | login, refresh (rotate), logout, revoke all, issue, consume | removal, deactivation and a new password revoke | an ended session stays ended; a link works once |
| Requests and routes (every controller, `auth/guards`, `pipeline-access.ts`) | the cookie's claims | origin check, authentication, roles, closed pipelines | the account changes meanwhile | served only as the account allows |
| Activities (`activities/`) | follow-ups, assignees, completion | create, edit, complete, delete, duplicate | a hand-over takes the open follow-ups along | an assignee can open the lead; completed once |
| Documents, storage (`documents/`, `storage/`) | rows and stored objects, avatars | upload, edit, remove, bulk remove, set avatar | object store outside the transaction | a row has its bytes; no bytes without a row |
| Lead import, duplicates (`leads/import`, `leads/lead-duplicates.ts`) | `import_jobs`, `leads.duplicate_of` | preview, start, batches, progress, finish | runs behind its request; leads are created, copied, edited, archived and deleted meanwhile | totals match the rows written; duplicates name an original |
| Assignment (`assignment-rules/`, lead create and reassign) | rules; nothing stored per pick | pick, assign, save and remove a rule | users log in, go inactive | round robin over eligible agents, stamped when assigned |
| Teams, tag permissions, tags | labels on users, policies with grants | rename, move, save a policy, create and retire a tag | a policy is of a team's label | a rename costs nobody his access |
| Roles, categories | two trees | create, update, move, remove | users hold a role, leads carry a category's name | acyclic, in order, nothing dangles |
| Lead forms, custom fields | forms with a default, the fields they arrange, values of leads | create, update, remove, make default, assign, fill | removal of a field takes values and places along | one default; everything named is there |
| Settings (`settings/`) | one JSON row per screen, with a log or a list | save, read, seed | every reader falls back field by field | an event tells what was replaced |
| Lead visibility (`leads/lead-where.ts`, filters) | none | scope, search, conditions | every list and report | `is not` completes `is`, NULL included |
| Reports, dashboard, calls | none | seventeen reports, boards, counters, panels | leads, follow-ups, calls, history | one fact, one figure, wherever shown |
| Exports | none | batches to a file | the list changes while it is read | the list that was asked for |
| Notes, complaints, lookups, delivery dates, audit log reads, integrations, config, health | one row each, or none | one-row edits, reads | | |

What is hard here: checks made on unlocked reads before a transaction; row locks
taken in different orders; unique indexes that decide after an application check;
joins by name that renames must carry; counts that guard deletes; two stores that no
transaction spans; a background run behind a request; figures computed in two places.
`PROJECT.json` lists each such place, with the property that would notice it going wrong.

## Modules

| Module | What it is |
|---|---|
| `Lifecycle` | the won-lead workflow as promised: every move one step |
| `Logistics`, `LogisticsProofs` | orders and the lead columns they depend on, statement by statement |
| `Accounts` | payment records and their journey |
| `Catalogue`, `CatalogueProofs` | pipelines, stages, the leads and grants that join them by name; the composition of what is asked of it, and the theorems |
| `Sessions`, `AccessProofs` | accounts, families of refresh tokens, reset links |
| `FollowUps` | follow-ups, their assignees, the hand-over |
| `Documents` | rows and stored objects |
| `Imports` | duplicates, the background import |
| `Rotation` | who a lead is assigned to |
| `Work` | composes `Accounts`, `FollowUps`, `Documents`, `Imports`, `Rotation`; theorems of the whole, and the proofs about its parts |
| `Forms` | lead forms, custom fields, the values leads hold |
| `Trees`, `TreesProofs` | what both trees share, and lemmas about trees of any shape |
| `Roles`; `Categories` | each tree with its rows |
| `Teams` | labels, policies, tags |
| `Permissions` | composes `Teams` and `Roles`; theorems of the whole, and the proofs about both |
| `Settings` | the JSON rows and their logs |
| `Screens` | composes `Forms`, `Settings`, `Categories`; theorems of the whole, and the proofs about its parts |
| `Routes`, `Access` | every route in registration order; a request on its way through the guards |
| `LeadWhere` | scope, search and conditions as SQL evaluates them |
| `Queries` | what each endpoint's query class accepts |
| `Reports` -> `Worklist` -> `Revenue` -> `Calls` | what the reports, tabs, boards and panels answer, each extending the one before |
| `Funnel` | the sales funnel told from the audit log, while names change |
| `Exports` | files read a batch at a time |
| `Reads`, `AccessProofs`, `ReadsProofs` | composes `Calls` (with all it extends), `Funnel`, `Exports` and `Access`; what the reads promise each other, and the theorems |
| `MCLogistics`, `MCProgress`, `MCCatalogue`, `MCWork`, `MCSessions`, `MCMembers`, `MCScreens`, `MCReports` | constants, bounds and compositions of the TLC instances |

### How a request is modelled

A request is a process. Its steps are the statements between which another
transaction can commit: the reads it decides on (without a lock), a `FOR UPDATE` it
waits for, its last write with COMMIT. What follows the last wait only touches rows
the request holds, so it is one step with the commit. A 4xx rolls back, so a refused
request just ends. A crash ends a request at any point: a dead process, a lost client,
Prisma's transaction timeout, or PostgreSQL aborting a deadlock.

Roles and visibility decide who may send a request. The models of writes let any
request be sent, the superset, unless a property is about who may (`FollowUps`,
`Documents`, `Access`).

### How parts are composed

Parts that write no common row are put in one instance, and a behaviour is of one of
them, chosen at its start (`part`, in `Work`, `Screens`, `Permissions`, `Reads` and `MCProgress`). This keeps the runs
few and loses nothing: with no shared row, a property of one part cannot depend on
the steps of another. Where parts do share a row, it is modelled in the module of the
property: a lead's owners in `FollowUps`, its status in `Logistics` and `Catalogue`.
Properties of a composition say `part = "..." =>` what the part states. An action
property needs no such guard: the variables of the other parts do not change.
A theorem of a composition is that of its part, carried over: the composition's
behaviours keep the part's invariant, trivially while another part runs.

`CatalogueProofs` composes differently. Both its parts run `Catalogue`'s own actions:
`alone` has every operation, one request at a time; `renames` has any number of the
requests that meet the rename of a stage, at once, with one pipeline renamed at a time.

### History variables

A variable or field called history in its comment is read by no guard:
`late` (a write overtaken by another between its check and its commit), `fresh` (nothing was
written since the request read), `lost` (a crash cut off the last step), `stray`
(objects a failure left), `disturbed` (contacts of leads changed since they were created), `edited`,
`orphan`, `ranked` (what happened to a lead, and what its original was chosen among), `before` (the reset
links there were when another was asked for), `passed`
(whom the round robin passed over), `visited`, `crossed`, `settled`, `vacated` (the funnel's
truth), `entered`, `left`, `kept` (rows that moved under an export), `was` (what the
account has been while a request is under way). Most properties of unlocked writes are of the form "it
holds unless both ends overlapped"; these say which.

### `Logistics`

`lead`, `order`, `accounts` are the committed rows, one order per lead because
`lead_id` is unique. `leadLock` and `orderLock` are row locks. `pc`, `call`,
`sawOrder`, `sawLead` are a request's position, inputs and reads. `logged` holds the
audit events of the last committed transaction.

- Order moves (`run`, `runWithLead`, `move`): `LoadState` reads without a lock;
  `CheckAwb` is `assertAwbFree`; `LockLead` is the lead's lock of QC reject and
  resubmit; `Move` is the conditional `updateMany` and all that commits with it.
- Edits: `LockForEdit`, then `CheckAwb` for a corrected number, then `Edit`.
- Lead writes (`auditLeadChanges` -> `applyLeadChanges`): `CheckLead` is the service's
  own checks before the lock, `LockLead` the lock and before-state, `ApplyLead` the
  write with `guardConvertedLeads` and `convertLeadsToOrders`, `DeleteLead`
  the bulk delete with `retainedLeads`. `CreateLead` is one insert.

The stage catalogue is constant here (`Stages`, `FirstStage`); `Catalogue` changes it.
The unique-index wait on a tracking number another open transaction has written is
merged with the writer's commit: the second writer then sees the index. Columns of
EDIT other than the two that other parts read are left out, so EDIT changes an
order's day as its representative column.

### `Accounts`

`record` is the row's status, `journey` its ACCOUNTS_RECORD events in commit order.
`Begin` is the read and its checks, `Commit` the update on `expectedStatus` with its
event, `Refused` the 409. The moves table is the repository's provisional one.

### `Catalogue`

`stage`, `pipeline`, `lead`, `grants` are rows; `rowLock` are the pipelines an open
set-default has written. Every operation is a check and a commit; `REMOVE_*` also
counts in between, and set-default clears the other defaults as its own statement:
the rows the UPDATE saw, minus those that lost the flag before it got their lock.
A rename of a pipeline runs several statements in one transaction and is one step;
a write that lands between two of its statements is, for the properties checked,
the same as one before or after it. A stage rename that waits for leads another
transaction holds, and the reverse, is aborted by PostgreSQL: `Crash`.
Not in it: short codes, access modes, step-3 settings (foreign keys with SetNull) and
template cloning (its templates are empty).

### `Sessions`

`account`, `token`, `link` are the rows, `call` a request between two awaits. Each
await of `AuthService` and of the users' service is a step: verify a password and then
insert the session, read a token and check it (`verify`, which revokes the family of a token
that was revoked) and then rotate it (an update without a condition, so a token revoked between the two
is rotated all the same), consume a link, write the password, revoke everything. `late` marks a session whose writer was overtaken by the revocation, `lost`
an account whose revocation a crash cut off.

### `FollowUps`, `Documents`, `Imports`, `Rotation`

`FollowUps`: `owners`, `followUp` and `write`, a write past its checks. A create or edit
checks that its assignees can open the lead, then writes; a reassign reads the open
follow-ups of the departing owners under the lead's lock and then hands them over.

`Documents`: `document`, `picture`, `object` (the storage: free, stored, removed),
`request`. Upload stores, inserts and undoes when the insert fails; removal erases
the object and then deletes the row; a new avatar is stored, written, and the one read
before is dropped. The storage may fail at each step.

`Imports`: `leads`, `job`, `run` (the background work: batch, position, what it looked up),
`form` (New Lead requests past their lookup). A batch looks duplicates up, then writes in a
transaction; progress is a write of its own; an error settles the job as failed;
a crash leaves it PROCESSING. Every lookup reads the setting "check archived leads" (`wide`), which may have
been saved since the last one; the form's lookup reads the oldest `MaxCandidates` matches (50 in the code); a
copy makes none and takes its source's original. Later a lead is archived, restored, edited (its contacts change,
its original is not chosen again) or deleted (its duplicates lose their link). Two simplifications: the
lookups of a batch (`LOOKUP_CHUNK` values per query) are one read, so a lead created between two of them counts as
created after; and a contact is one value, though a phone is compared with phones and an address with addresses.

`Rotation`: `active`, `loggedIn`, `config`, `rule`, `created`, `rows` (assignments in the order
of their stamps, each visible to others from its commit), `request`. The pick reads settings, rule, users
and their latest assignments statement by statement, and the lead is written later. `passed`
counts the leads one user got in turn while another waited.

### `Forms`, `Teams`, `Roles`, `Categories`, `Settings`

`Forms`: `form` (default, active, fields), `field` (options), `value` of a lead and a field,
`uses` of a member, `change` of a request. Every save locks the row it changes and
the others that lose the default; what it named was read before. The removal of a field is two steps: it
takes the field off the forms it sees (`SweepForms`, which waits for the saves that hold such a row and does
not see the rows they write) and then marks it removed and commits (`RemoveField`).

`Teams`: `team` of a user, `policy` of a team or user, `tag`; a rename moves labels and
policy in one transaction. `Roles` and `Categories` keep rows of parent and position; each
request reads the whole tree, judges its change with `Trees`' operators, then writes.

`Settings`: `stored` by key, `event`, `used`, `request`; `saveSetting` locks the row if there is
one, writes, and records the difference. Three screens stand for the others: one saved whole,
one with a log, one that is a list with a seed.

### `Routes`, `Access`

`Routes` lists every handler with its verb, path and roles, in the order the framework
registers them. In `Access` a request arrives, is checked for its origin, authenticated
against the account behind its cookie, authorised by the roles of the route and handled with the
pipelines closed to the caller; between two of these the account may change.

### The reads

A behaviour of `Reports` fixes a table of leads and asks one question of it; `answer` is what
the endpoint returns. `LeadWhere` evaluates conditions in three truth values. Each list
is what its WHERE returns, its ORDER BY leaves ties open, and pages are read one by one.
`Worklist` adds follow-ups and the overdue rule, `Revenue` deals, targets and boards, `Calls` the
call dashboard. A sum is the library's sum of a function, so that it has the lemmas of that one;
a query is a record with every parameter, a parameter that was not sent at its default. `Funnel` and `Exports` have state of their own, because what they
read changes while they read it.


## Runs

Every `expect: pass` run finishes; `Next` of each module is covered by the passing runs.

| Run | Bounds | Shows |
|---|---|---|
| `workflow` | 1 lead, 3 requests, 2 boards (the first stage of one is WON, the other has no WON), 1 day, 2 numbers; three at once only for the operations of Sales and QC before dispatch, two for any | lead and order stay together, journey truthful, conversions sound, write-backs on the board; refinement of `Lifecycle` |
| `shipment` | 2 leads, 2 requests, 2 days, 2 numbers; moves and edits | exactly the delivered are billed, no number on two orders, edits in their window, dated past QC |
| `progress` | 1 lead, 2 requests, the operations that take locks; 2 jobs, 2 contacts, 3 leads; fairness, no symmetry | every request ends, every import that keeps its process ends |
| `catalogue` | 3 stages, 2 pipelines, 1 lead, 1 user, 2 boards, names New, Hot, WON, 2 requests | alone: leads in a column, one default; together: a rename carries its leads, reserved stages stay, positions apart |
| `work` | payment records: 1 order, 3 requests, journeys begun below 4 events. Follow-ups: 2 agents and a manager, 1 lead, 1 follow-up, 2 requests. Documents: 2 of them, 2 keys, 2 users. Imports: 2 jobs of 2 files (up to 4 rows, batches of 2), 4 leads, a form that reads 2 matches, 1 lead edited, archived or deleted, of at most 3 leads and under at most one import. Rotation: 2 users, 4 leads, 2 requests, 1 rule; 4 rows where all come from the round robin | history connected; assignees can open their leads; rows and bytes agree; totals match rows; turns kept |
| `sessions` | 1 user, 2 passwords, 3 tokens, 2 links, 2 requests; no step from more than 2 rows | a change of the account ends its sessions, an ended one stays ended, a link works once |
| `members` | 2 users, teams in two spellings and another, 1 tag, 3 roles, 2 requests; few policies at a time, trees that are sound still | one spelling, a rename keeps access, a creator may use his tag, the role tree stays sound |
| `screens` | 2 forms, 1 field of 2 options, 1 lead, 1 user; three settings rows of 2 fields, a log of 2; 2 categories of 3 names; 2 requests | everything named is there, the default is kept, events tell what was replaced |
| `reports` | 63 tables of up to 6 leads, 17 queries and the conditions of every kind of field, 6 askers; a funnel of 3 stages and 3 events; files of 4 rows in batches of 2, 3 changes; one route of each sort, 3 roles, 2 changes of the account | one fact, one figure; scope; `is not`; the funnel; exports; guards |
| `board_race`, `renamed_twice`, `export_skips` | two requests; two renames of one of three names; an export while its list changes | three sentences that do not hold, below |

Why these are enough:

- A property relates one or two rows, and a race needs a reader, a writer and at most one
  more to restore what the first read. So one or two rows and two or three requests.
- `Leads = {l1}` where no property relates two leads. Three stages let a board have two
  and another board one. Three names let a rename have an old, a new and a reserved one.
- A file of two batches has a row that repeats one of the same batch and one that
  repeats a row of the batch before.
- The tables of `reports` are the subsets a bug would tell apart: each lead of the pool
  differs from another in one column a WHERE or a heading reads, NULL included.
- `JourneyMax` bounds only when a change may begin: with three in flight a journey
  reaches 6 events.
- The constraints (`RequestsBound`, `RowsBound`, `FewPolicies`, `SoundTree`, `OneScreen`,
  `RotationBounds`, `ImportBounds`, `FunnelBounds`) prune states that only repeat a smaller one; each is
  commented where it stands. `ImportBounds` lets a lead be changed among three leads and under one import:
  a lookup or a batch meets a changed lead the same way whoever wrote it, and a changed original, its
  duplicate and a new lead are three. With four leads and a form that reads two
  matches, the limit is met by a third match. `SoundTree` stops at the first unsound tree, because
  nothing is promised from there on. Constraints with symmetry are symmetric too.
- Ids are symmetric: no definition tells them apart, and no run with symmetry checks liveness.

Deadlock checking is off because the systems really stop: without a usable lead or order
nothing is asked, a journey at its bound takes no change, an answered query is the end.
Waiting for ever is what `RequestsEnd` and `ImportEnds` are about.

## Fairness

`Logistics!Fairness`: weak fairness of the steps that never wait, because the server runs a
request it has begun; strong fairness of those that wait for a row lock, because
PostgreSQL queues the waiters of a row, so whoever waits for a row that is freed again
and again gets it. Starting a request is not fair, and neither is `Crash`. `RequestsEnd`
says that no two requests hold what the other wants, although QC moves lock the lead
before the order and corrections the order only: it rests on audit events having
no foreign key to leads (its mutant adds one).

`Imports!Fairness`: weak fairness of each job's own steps, because the event loop runs a
promise that can go on. Nothing resumes a job whose process died, and `ImportEnds`
excepts exactly that.

## What is proved

TLAPS checks these for any constants that satisfy the assumptions.

| Module | Theorem | What it states |
|---|---|---|
| `LogisticsProofs` | `TypeCorrect`, `LockedReadsHold`, `LeadNeverLeavesOrder`, `NothingElseBilled`, `AwbsUnique` | TypeOK, ReadsHold, LeadFollowsOrder, BilledIffDelivered, OneOrderPerAwb always hold |
| | `OrdersKeepTheirLead`, `JourneysTellTheTruth`, `CorrectionsInWindow`, `VerifiedOrdersAreDated`, `ConversionsAreSound`, `WriteBacksOnBoard` | the action properties OrderKeepsLead, JourneyTruthful, EditsInWindow, DatedPastQC, ConversionSound, WriteBackOnBoard |
| | `Refinement` | Logistics implements Lifecycle |
| `AccessProofs` | `SessionsTyped`, `SessionsEnd`, `EndedStaysEnded`, `ResetLinksSpent` | TypeOK, ChangeEndsSessions, EndedSessionsStay, LinksSpent |
| | `AnswersWithinScope`, `RequestsServedAsAllowed`, `SeenOnlyAsAllowed` | WithinScope of the answers, ServedAsAllowed of the requests, and SeenAsAllowed of both |
| | `NegationsComplete` | NegationCompletes |
| | `ExportsKeepTheList` | ExportKeeps of the files |
| | `FunnelCountsExactly` | FunnelExact |
| `ReadsProofs` | `ListsAreWhole` | DealsInGroups of the pages and with ExportKeeps ListsWhole |
| | `ReportsAgreeWithEachOther`, `FiguresAddUpEverywhere` | ReportsAgree, FiguresAddUp |
| `CatalogueProofs` | `CatalogueStaysSound`, `LeadsStayKept` | CatalogueSound, LeadsKept of the composition |
| | `RenamesTakeTheirLeads` | RenameCarriesLeads of `Catalogue!Spec`, where every operation crosses every other |
| `Work` | `TypeCorrect`, `HistoryKept`, `CorrectionsAlone`, `CurrentAllowed` | payment records: types, JourneyConnected, BackwardIsCorrection, each change starts from the current status |
| | `FollowUpsStaySound`, `DocumentsStaySound`, `SettledJobsTellTheTruth`, `CustomersStayLinked`, `WorkStaysKept`, `RotationStaysKept` | FollowUpsSound, DocumentsSound, ReportMatchesTable, DuplicatesLinked, WorkKept, RotationKept of the composition |
| | `DuplicatesStayLinked` | TypeOK, SharedIsLinked, StarWhenMatched and PreviewHolds of `Imports`, for any files, batches, jobs and forms |
| | `AssignedInTurn`, `AssignmentsStand` | TypeOK with InTurn, DateKept with RemovedStays, of `Rotation` |
| | `CompletionsStand`, `OwnersTakeOver`, `DocumentRowsStay` | what WorkKept says of follow-ups and of documents |
| `Screens` | `FormsAreSound`, `DefaultStaysKept` | FormsSound, DefaultKept |
| | `ScreensStaySound`, `ScreensStayKept` | ScreensSound, ScreensKept of the composition |
| `Permissions` | `RolesSound`, `HierarchyStays`, `DraggedAlone` | TypeOK with RemovedIsUnheld, SoundKept, OnlyDraggedMoves, of `Roles` |
| | `TeamsSound`, `RenamesKeepAccess`, `CreatorsMayUse` | TypeOK with OneSpelling, RenameKeepsAccess, CreatorMayUse, of `Teams` |
| | `MembersStaySound`, `MembersStayKept` | MembersSound, MembersKept of the composition |
| | `CategoriesSound`, `TreeStays`, `RenamesCarry` | what these say of categories |
| `TreesProofs` | `Reparented` and the lemmas before it | a row that goes beneath another makes no loop, and its branch gets no deeper than the depth there and the branch's height add up to, in rows of any number and shape |

Assumptions, all in the modules that declare the constants and evaluated by TLC: `Constants` of
Logistics (stage tables are functions, a board's first stage is on it); `NoneIs...`
(NULL is none of the values); `Roles` of FollowUps (agents and organisation-wide roles
are disjoint, an agent sees only himself); `Sizes` and `Inputs` of Imports (a batch is not empty, what
a file may hold); `Sizes` of Rotation (there are users, each once in the name order, and finitely many requests); of `Screens` `FormsAssumptions` (a form and a field may be written at all), `SettingsAssumptions` (no more
follow-up types are shipped than there may be) and `CategoriesAssumptions`; `Sizes` of Catalogue
(there are finitely many ids); of `Permissions` `RolesAssumptions` (a depth limit of at least one, finitely
many roles) and `TeamsAssumptions` (a policy is of a team or of a user, never of both).
None restricts how many requests run at once.

Of the reads: `PoolAssumption` and `RowsAssumption` (a row is found under its id, a NOT NULL column is filled,
instants are numbers, an assignment is to a member, a follow-up has an id of its own and a due date, a call an
outcome and a direction: the columns of schema.prisma, its enums and foreign keys), `TablesAssumption` (a table is finite),
`AskedAssumption` (a query has every parameter, its window and its edges are instants), `StaffAssumption` (members are
finitely many, NULL is none of them and no direction of a call), `ClockAssumption`, `GroupsAssumption` (the labels of groups can be sorted),
`StagesAssumption` (schema.prisma:988, a board has one stage of a name), `ColumnsAssumption` (the summary shows a day at least),
and `ReadsConstants` (of the funnel, the exports and the requests: NULL is no row, a batch is not empty, the
stages shipped on a board have names of their own).

### The inductive invariants

No property above is inductive alone; each rests on what requests in flight hold.

- **Logistics**, `IInv`: a QC rejection writes order and lead from reads made earlier, so that
  they stay together rests on `ReadsHold` (what was read under a lock is still the row).
  That rests on every writer taking the lock, and this on `InFlight` (which operation is
  at which statement with which inputs). `ReleaseLemma` (a finishing request gives its locks
  back and touches no other), `QuietLemma` (a step that leaves the tables alone) and
  `TablesLemma` (the table invariants from the effect of a commit) carry what the actions share.
  The action properties and the refinement follow from `IInv`, a case per action.
- **Accounts** (in `Work`), `CallsAllowed`: a change in flight goes where its kind may go from the
  status it expects; the conditional update makes that status the current one.
- **Sessions**, `IInv` with `CallsFilled` and `CallsStand`: a request about to write a session
  either still stands on the account it verified, or was overtaken, and then the
  row it writes is marked. For the action properties: `Rooted` (every token descends from the login
  of its family) and `LinksMarked` (a consumed link is spent). That a link ends those there were when it was asked
  for rests on the request: what it read as unused is still among what it spends.
- **Access**, `AccessIInv`: at each guard, some account in `was` explains what the request has passed so
  far; the answer is explained by one of them, except the parts the code reads anew.
- **FollowUps**, `IInv`: besides FollowUpsSound, `WritesPlaced` (the assignees of a write in flight
  have the lead, or a hand-over came in between and the write is late), `OneHolder` (the
  lead's lock has one holder), `HoldersRead` (who hands over has the open follow-ups it read).
- **Documents**, `IInv`: every stored object is owned by one row, picture or request, or was left
  behind by a failure (`OwnedAlone`, `PicturesApart`, `StoredIsHeld`); a deletion is in step with
  its row (`DeletionsInStep`).
- **Imports**, `IInv`: the run's counters match the leads stored under the job, also between the
  batch's transaction and the write of its progress (`RunsMatch`, `JobsMatch`).
  For the duplicates `LinksIInv` says how long a lookup's answer holds: until a lead is created it has seen every
  lead that stands as it was created and was never archived, and every such lead at all when it looked at
  archived ones (`Judged`). A lead that is edited, archived or deleted only leaves what `Judged` speaks of, and
  its contacts are `disturbed`; so one relation (`LinksStand`) says what all four changes leave standing. The rows of a batch that
  match each other are found by a recursive function over the file, `InBatch`; `Upward` gives
  induction up to a number from the library's well-founded order of finite subsets, and `LinksExist`
  with it that the function has the values its equations name. From there a batch is two steps: each of its
  rows is linked as it was judged (`BatchWritten`), and what stood before stands.
- **Rotation** (in `Work`), `TurnIInv`: that nobody waits long rests on `Turns`, a bound on what can still be owed
  as well as on what was counted. For two users, the leads counted, the requests about to commit a row stamped
  before the latest one of who waits (`Ahead`) and those that picked the other, or will pick
  without regard to who waits (`Owed`), are together below twice the requests. `RowsPlaced` and `LeadsApart` say which
  rows of an open transaction are in the table, `CallsPlaced` what a request holds. TLC first refuted the
  bound the module stated before, once per request: two requests can each take two
  turns, one with a row stamped early and committed late and one with a pick made before it. The run
  reaches three leads with two requests, so the bound that is proved is sharp.
- **Forms** (in `Screens`), `FormsIInv`: what a request in flight names is there, or its call is late (`CallsPlaced`). For a
  removal under way, a form that still has the field is one whose rows it holds or waits for, or one that is late.
- **Settings** (in `Screens`), `SetInv`: the whole row a save is about to write is a good one, whoever saved
  meanwhile; the before-state it locked is the row still, because one save holds a row (`OneHolds`);
  and while nobody saved since its read, its log continues the stored one (`ReadLog`).
- **Categories** (in `Screens`), `IInv`: while nobody has written, what a request read of the tree is true of it (`Read`):
  its place is free, its parent is not beneath it, its order names all siblings.
- **Roles** (in `Permissions`), `IInv`: as for categories, what a request read is true of the roles while nobody
  has written (`Read`); what is true of a call whatever was written since is `Placed`. That a branch fits
  beneath its new parent, the depth of the one plus the height of the other, needs the depth of every row
  of the branch in the new tree: `DeeperBy`, by counting the rows between it and the top of the branch.
- **Teams** (in `Permissions`), `TeamsIInv`: who is about to write a label holds the one lock of the labels
  (`OneRelabel`), so the spellings it read are the spellings still (`TeamCallsPlaced`), while policies and tags
  change under it; a policy that a rename carries or a grant waits for is there still. Without the lock
  OneSpelling fails, and that is its mutant.
- **Trees**: what is above a row is what a walk up meets in as many steps as there are rows, a recursive
  function. `Climb` gives induction up to a number from the library's well-founded order of finite subsets,
  `AboveClosed` that the walk has then met everything, by counting, and `AboveLeast` that it has met
  nothing else. From there `Above` is the least set closed under parents, and the lemmas
  about new rows, new parents and deleted rows need no recursion.
- **The reads** (in `AccessProofs` and `ReadsProofs`): an answer is given in one step and never changed, so its invariant is what the
  step said, in terms of the table and the query (`Sound`, `DealsTold`, `StatusTold` and its like): the work is in showing that what was said is
  what the property compares. `SumsCross` and `SumOfParts` are what reports rest on: a sum over the groups of a
  finite set is the sum over the set, whichever column groups it. For the deals: their order is total (`LatestFirst` ends with
  the id), the place of a deal is how many come before it, and the pages cut the places into intervals.
  `FiguresIInv` is the Told predicates of the screens that count: revenue, conversion, calls, tabs, counters, days. Each screen then
  has its own reason. Periods that adjoin add up (`Adjoining`), so a trend adds up to its whole; a lead with several owners
  is counted with each, so an owners' board only covers (`OwnersCover`); a follow-up is known by its lead and its id, so tabs are
  compared by keys (`KeysOf`); a day of the summary is a quotient that time only raises (`DaysGrow`), so a lead of
  the period falls on a column unless the columns were cut short (`DaysHold`).
- **Exports** (in `AccessProofs`), `ExportIInv`: what the file holds is the rows before the place it has come to, but for as many as entered or
  left before that place; each change of the list moves one row at most across it (`InsertShifts`, `RemoveShifts`).
- **Funnel** (in `AccessProofs`), `FunnelIInv`: the log, read with the names of now, tells of every lead exactly the stages it was in
  (`History`), because no two stages of a board never renamed share a name (`NamesDiffer`) and a name used again is marked
  (`Remembered`); what a report under way has read is still so, or the report is late (`ReportRead`).
- **Catalogue**, `PartsInv`: rows and calls are typed, a free id is not promised twice (`IdsFree`),
  pipelines have distinct names. Alone: a call's checks still hold when it commits (`Standing`, `Fits`),
  and a removal's count (`Emptied`). Meeting: what stays true of a call whatever the others
  commit is only `Standing`, and with one pipeline rename that is enough for positions,
  because every stage is of a board that exists. That the highest position is one
  of a finite set (`MaxOfSet`) is proved from the library's well-founded order of finite
  subsets: a minimal set without a maximum cannot be.

### What is only model-checked

- Liveness (`RequestsEnd`, `ImportEnds`): fairness and ENABLED are out of the provers' reach.
- `RoutesSound`: it is of constant tables, which a recursive fold puts in order; TLC computes it.

## Sentences that do not hold

Three runs end in a violation, each of one sentence of the repository:

| Run | Sentence | What happens |
|---|---|---|
| `board_race` | Convert is refused on a pipeline without WON (`LeadsRowActionsService.setStatus`) | the board is checked before the lock; the lead moves meanwhile and converts |
| `renamed_twice` | name and leads "must never end up out of step" (pipelines.service.ts:230-231) | two renames cascade from one old name |
| `export_skips` | "the pages never repeat or skip a row" (logistics-orders.service.ts:359) | an order joins the list between two batches, before the rows already written |

### Not kept

Further departures, most of them two requests at the same moment. Those with an operator
name in brackets are stated in their module; a reader can put the operator in the run's cfg
and see the trace. No run is spent on them.

Pipelines and stages:
- stages.service.ts:352, a delete "can never orphan a lead's status": a drag lands between the count and the delete.
- stages.service.ts:392, "a lead's pipeline must exist": a move looks for a stage under the name only,
  and a stage can be created under any name.
- stages.service.ts:267, the new order "must be exactly the pipeline's stages": compared with the set read
  before the write. Two creates at once share a position.
- leads.service.ts:574-578: an edit that names neither Status nor Pipeline writes back those it read before the lock.
- pipelines.service.ts:520, "can never hold two defaults": neither UPDATE sees the other's row.
- pipelines.service.ts:554, "something must always be the default": a pipeline is removed while it is made the default.
- pipelines.service.ts:150, nothing "can orphan ... a team member's pipeline access": a delete leaves `users.pipelines` as it is.
- Two renames at once can give two pipelines' stages one board, with equal positions; a rename that meets a
  creation under the old name can take a lead out of a reserved stage (`ReservedStay` holds of
  the composition only).

Members and screens:
- roles.service.ts:361, "rejects the three moves that would corrupt the tree": two moves at once make a loop (`NoLoop`).
- lead-form.dto.ts:107, "a module always has a default": a form is removed while it is made the default
  (`AlwaysADefault`), and two creates at once leave two defaults.
- lead-custom-fields.service.ts:304-308, a removal takes the field off every form, so that none is left
  "referencing a key that no longer exists": a form saved while the field is being removed keeps the key, and cannot be
  saved again as it is. `FormsKnowFields` excepts a form during whose save the field went or was being removed.
- password-reset.service.ts:12-13, "at most one link is ever live": two links asked for at the same moment
  both work, because neither request sees the other's. `OneLiveLink` says that nothing else leaves two.
- teams.service.ts:162, a rename "moves the team's Tag Permissions policy with it": the first policy of a
  team, saved while it is renamed, stays under the old name or comes under the new one (`RenameKeepsAccess` excepts it).
- tag-access.service.ts:132-133, a creator can use the tag he just made: not when his policy is reset or
  replaced between its lookup and the grant, or he changes team (`CreatorMayUse` excepts it).
- tag-permissions.service.ts:264, "grants exist only for LISTED": a new tag is granted to a policy that leaves
  LISTED meanwhile (`GrantsAreListed`).
- settings.service.ts:645-649: the first read of the follow-up types can write the seed over a list saved
  meanwhile (`SeededOnce`), and of two changes of a list the first is lost.

Leads:
- leads-bulk.service.ts:51, "none is left on a worklist that can no longer see its lead": a manager's
  follow-ups on a lead that leaves his team stay his (`NoneOutOfSight`).
- lead-duplicates.ts:97, "every duplicate points at the same original": there are chains when every match is a
  duplicate itself, when leads are created between a lookup and its insert, when the New Lead form has more than 50
  matches (leads.service.ts:714-719), when the original is archived and "check archived leads" is off, and when
  a lead in a chain is copied; and there are several originals once the one was deleted.
- An edit of a lead's contacts (leads.service.ts:602-607) leaves its `duplicateOf` and that of others as they are:
  leads that come to share a contact are not linked, and linked ones may share none. No sentence promises it;
  `SharedIsLinked` and `StarWhenMatched` speak of leads whose contacts were not edited, and of archived ones as
  far as the lookup read them.
- lead-assignment.engine.ts:21-24, "the same sequence a stored cursor would produce": two leads created at once
  take one turn.

Reads:
- dashboard-kpis.ts:113-116, the counter of today "equals the Activities worklist's Today tab exactly":
  not under a custom span, whose cut-off moves the start of the tab's today (`TodayCounterIsTab`).
- call-analytics.service.ts:72-73, "both panels sum to the same total": not when two stages have one label,
  which counts their calls twice (`PanelsSum`).
- call-log.service.ts:117-119, "the page order is stable": calls of one instant may be on two pages (`PagesStable`).
- sales-funnel-progression.ts:4, "in every stage it has ever been in": not when the name was reused, the
  lead changed board or the board was renamed (`EveryStageCounted`); a stage of another board counts under the same name.
- overdue-follow-ups-where.ts:65-66, "reconcile with the Activities module's overdue tab": not under a custom
  span, where the tab has another cut-off; between that cut-off and the start of today the tabs leave a gap.
- dashboard/sales-pipeline.service.ts:27: `total` counts all leads, not those "across the listed stages".
- The leaderboard's calls default to today where its other columns have no window; the aging report names
  co-owners to an agent who sees only himself.
- Lists read page and count in one transaction so that they agree (call-log.service.ts:111), but at READ
  COMMITTED a commit can fall between the two.
- leads-export.service.ts:117, "a row never repeats or vanishes across batches": as for the orders' export, when the
  list changes between two batches. `ListsWhole` bounds by how many rows that may be.
- A report export that fails while it streams ends like a whole file, unlike leads-export.service.ts:92-94.
- roles.decorator.ts:9-10: "reachable by any authenticated user" is no longer so for operational roles (roles.guard.ts).

## Not modelled

`PROJECT.json` has every part with its reason. In short:

- Audit log reads, delivery-date buckets, integrations, configuration and health: no state of their own.
- Small catalogues (notes, complaints, lookups, targets): one-row edits under a row lock with
  one event, the pattern `Settings` has.
- Of lead writes: notes, tags, call flags. Of pipelines: short codes, access modes, step-3
  settings, templates. Of users: names, colours, goals, the permission matrix. Of storage: providers and
  links. Of calls: ingestion. Of tags: renames. Of settings: the screens whose save is that of a modelled one.
- Layout: PDF, CSV and XLSX, wording, mail.

## Plan

1. Done: the modules above, their runs, and the theorems listed.
2. Not begun: what the list above leaves out of lead writes, pipelines and calls, each as a module that joins the composition its rows are in.
