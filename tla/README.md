# A TLA+ model of Moresocial

Moresocial imports a person's e-mail, calendar and WhatsApp messages, cuts them
into searchable chunks, lets a language model extract claims about people from
them, and answers questions with citations. One web process, one background
worker, PostgreSQL, and one WhatsApp connector per user, kept running by a
provisioner on the host. This directory holds TLA+ modules of the parts where
those processes meet, the TLC configurations that check them, and TLAPS proofs.

Run everything inside this directory:

    tlc -workers 2 -config Memory_gmail.cfg MCMemory
    tlapm MemoryProofs.tla

## 1. Inventory of the system

| part | state it keeps | operations | talks to | what is hard | what makes it correct |
|---|---|---|---|---|---|
| **Job queue and worker loop** (`app/jobs.py`, `worker/main.py`) | rows of `jobs`: status, attempts, run_after, lease | enqueue, claim, renew, complete, fail, defer, cancel, run_one, schedule | everyone enqueues, the worker runs | crashes, leases, late endings, keys that are used once for ever | attempts bound the work, no job is stranded, outcomes stand, crashed jobs come back |
| **Ingestion and removal** (`app/ingest.py`) | sources, exclusions, people | upsert, invalidate, exclude, delete data, link and unlink people | Gmail, Calendar and WhatsApp imports; the user | removals racing imports and rebuilds | what is removed is gone, with all that was derived from it, and stays out |
| **Chunks, embeddings, claims** (`app/memory.py`) | chunks, embeddings, claims, citations, rejections | rebuild_conversation, embed_chunk, extract_chunk, confirm, reject, reword | jobs, the model, the user | the model answers long after its input was read | chunks are those of the messages; claims have live evidence; the user's word is final |
| **Gmail synchronisation** (`app/google_sync.py`) | cursor, progress, truncated, next_run_at | run, import, resume, history, failure | Gmail, ingestion, the grant | pages, crashes, a mailbox that moves, expired cursors | the cursor covers only what was processed; polling never stops silently |
| **Calendar synchronisation** (`app/google_sync.py`) | the same, with a window and the time of its refresh | window, incremental | Calendar | days that move the window, truncation, refused tokens, resumes | never a cursor from a truncated window; the window of today is held in the end |
| **Google grants** (`app/accounts.py`) | connection, tokens, scopes | store_grant, access_token, mark_reconnect, disconnect | OAuth, both streams | refresh races, partial consent, revocation | marked for reconnection exactly when the grant is gone |
| **AI budgets** (`app/ai.py`) | tokens per scope and day, usage rows, slots | reserve, reconcile, slots | jobs, answers | unknown costs, midnight, crashes | counters agree with the usage rows; limits hold |
| **Operator settings** (`app/operator_settings.py`, `admin.py`) | provider, models, pending embedding space | test, save, stage, cancel, disable, cut over | worker, ai | a cut-over while content arrives, candidates tested for seconds | the space of queries is complete; a candidate replaces what it was tested on |
| **Answers and gatherings** (`app/retrieval.py`, `gatherings.py`) | answers, drafts, suggestions, citations | ask, draft, rewrite, check replies, set a status, save | the model, removals | evidence removed during the model call | what is written rests on what messages say, or is marked |
| **WhatsApp lifecycle** (`app/whatsapp.py`, `internal.py`, `deploy/provisioner.py`) | desired and observed state, containers, clean-up outbox | connect, stop, reconcile, sweep, delete account | host, connector | stale listings, late reports, half-deleted accounts | containers converge to what is desired, within the cap; no session is deleted unasked |
| **WhatsApp connector** (`connector/`) | outbox file, watermarks | push, flush, clear, sync, link | WhatsApp Web, `/internal` | clearing during a post, refused packets, watermarks ahead of deliveries | every packet is delivered, in order; no message is skipped |
| **Sign-in and sessions** (`app/auth_routes.py`, `accounts.py`) | OAuth flows, sessions | start, callback, logout | Google | a callback used twice, an account deleted meanwhile | a flow is used once |
| **Pages, configuration, deployment, synthetic providers** | none of their own | | | backup against provisioner | |

The rows but the last two are modelled here: they decide what the application
believes about its user's data, and they are where the processes interleave.
`PROJECT.json` lists every component with its status, and under `hazards` each
place in the code that is hard to test, with the properties that watch it, or
why none does.

## 2. Modules

| module | models | abstracts |
|---|---|---|
| `JobQueue` | `jobs.py` and `run_one` for any number of jobs and workers | what the jobs do; time, to "due" and "lease expired" |
| `Memory` | one conversation: sources, exclusions, chunks, indexing jobs, claims | text, to a content per message; the queue, to unfinished jobs |
| `AiBudget` | reservations and their settlement | providers, to the bills they send |
| `GoogleSync` | one Gmail stream, its grant, scheduler, worker and user | messages, to ids; history, to which message came or went |
| `Calendar` | the calendar stream: window refreshes and increments | events, to a day and live or cancelled; grant and scheduler, to on and due |
| `Channel` | abstract: what the connector's outbox promises | how |
| `Outbox` | the connector: outbox, watermarks, events, synchronisation, link | messages, to a number and a version |
| `Provisioning` | what workspaces want, the listing, the provisioner's cycle, containers and sessions | commands, to their effect or a prefix of it |
| `Answers` | answers, drafts and suggested replies, next to edits and removals | text, to the messages it was written from |
| `Cutover` | settings, candidates, embedding spaces, their jobs and the cut-over | a space, to a name |
| `MC*` | instances for TLC of the modules whose constants need definitions; the other modules are checked directly | |
| `*Proofs` | theorems; `AiProofs` has those of `AiBudget` and `Cutover` | |

The modules meet at the interfaces of the code. A worker interrupted in
`Memory` or `Cutover` is tried again because `JobQueue` says so; a page
`GoogleSync` applies is a series of `Memory`'s imports, from `Look` to `Insert`,
`Edit` or `Delete`;
`Outbox` ends with a packet that `Memory` takes in; `Invalidate` in `Answers` is
the part of `ingest.invalidate` that `Memory` leaves out; the row `Outbox`
disconnects is the row `Provisioning` lists; `Cutover` decides which spaces
`Memory`'s embedding jobs are for.

### JobQueue

A job is named by its idempotency key; the row for a key exists for ever, which
is why `Enqueue` needs `"absent"`. Every SQL statement that commits on its own is
one action. `fail` is two (`FailRead`, `FailWrite`), since it reads the row
without a lock and writes it by id at commit. `Workers` are OWNER strings: a
worker that restarts has a new one, so a crashed one is `"gone"`, and at most
`Concurrency` run at a time. The families of jobs differ in what the code lets
them do: sync jobs renew their lease and fail without retry, AI jobs are
deferred, and their invalid output is retried once.

### Memory

A row of `sources` is `<<message, row number, content>>`, and a chunk is its
number with the rows it was cut from, exactly what `chunk_key` hashes. A
transaction is one action, except where another can commit between what it reads
and what it writes. A rebuild plans and writes; an indexing job reads, asks the
provider and publishes. An import looks the exclusions up (`Look`), and then either
adds a row (`Insert`), without looking again, or locks the one that is there and
judges which claims lose their last citation (`JudgeImport`), and commits (`Edit`,
`Delete`). A removal selects the sources and their chunks (`BeginRemoval`), judges
the claims (`JudgeRemoval`) and commits (`FinishRemoval`). What a transaction has
deleted and not committed is still there for the others, and locked (`Locked`,
`Doomed`, `Contend`). `torn` (history) holds the claims of which an import and a
removal took evidence at the same time: each saw the other's citation, neither
deleted the claim, and the properties about support except them. `FreshKeys` says
whether the key of a rebuild job holds a token that no other change has (Gmail) or
only the change itself (WhatsApp).

Simplifications: one import and one removal of the conversation run at a time; a
claim that is published anew in the instant its last citation is deleted may be
deleted with the new one; a message is never split across chunks; conflicts between
single-valued claims and the merging of people are left out; a job that fails as
often as it may is `JobQueue`'s matter.

### AiBudget

A call looks at the date, reserves (one transaction on the budgets of the
workspace and of all), waits for a slot, is answered, and reconciles on the day
of its reservation. It may die anywhere, and midnight may fall anywhere.

### GoogleSync

The mailbox and its history are external. Every transaction of a run is a step
and so is every request to Google; a fetched page and its application are
separate, with everything in between (the mailbox moves, the user acts, the
token expires, the worker dies). `run` is what the run holds in memory and
loses in a crash: its token, progress and page. What happens between the listing of a
page and the fetching of its messages is in `Found`: a message that did not
change since is found as it is, any other may or may not be. `keyed` says that
the due time's idempotency key has a row. Simplifications: the scheduler is
atomic; a page is applied in one batch; the change `_load` makes when the scope
is missing rolls back with its exception, so it is no change; exclusions are in
`Memory`; the access token expires at any time once a run has read it, which
the code reaches when a run outlives the margin of `expiry`; the renewal of an
access token (`accounts.py:105`: read the grant, ask Google, store the answer) is
one step.

### Calendar

The calendar is external, with the semantics the code relies on: a listing with
time bounds (and `showDeleted`) shows an event where it is now, cancelled ones
too; its pages may be shorter than asked for; its last page brings a sync token,
which covers what changes after the listing's first page; a listing by sync
token names what changed, wherever it is; a token may be refused (410). `Day`
lets hours go by (the window is due again) and days (the window moves).
`run` is what a run holds in memory: its progress, the records of the page or,
in an increment, of all pages so far, and what the last page brought. Requests,
transactions (`StorePage`, `Advance`, `Forget`, `Done`) and the heartbeat behind
them are steps of their own. `DeleteData` is the deletion of the imported data
(`pages.py:494`), at any time: a run goes on with what it holds in memory and may
store its token over pages that are gone. `emptied` (history) holds the events such
a deletion took under a run and no run has read since; `WindowCovered` excepts
them. A stored page token that Google refuses would be
sent again at each attempt (`google_sync.py:443`); the model assumes that Google
honours page tokens. Two refreshes of one access token are not modelled.

### Channel and Outbox

`Channel` is the abstract specification: while the link is wanted, packets are
stored in the order they were pushed, each at least once, and none leaves before
it was stored; between a disconnection and the next connection it promises
nothing. `Outbox` implements it under the mapping `pending <- queue`,
`held <- stored`, `taken <- reply`, `open <- Open` (property `IsChannel`).

JavaScript runs to the next `await`, and so does an action. `queue` is the array
and the file, which are written in the same turn; `mark` is in memory and
`saved` in the file, which is written at the end of a synchronisation only.
`posting` is the packet a flush posts: it is read before the request, and what
`shift` takes away afterwards is whatever is first by then, the hazard of
clearing the outbox meanwhile. `handling` holds events whose handler awaits the
chat and contacts. `row` is what the web application wants of the connector.

### Provisioning

A transaction of the web application is an action, except `request_connect`,
which counts under an advisory lock and then commits. A cycle of the provisioner
is a fetch, one action per row, the report of each removal, the count of
orphans, their deletion. A row of the listing names its workspace, what is wanted,
its key, and whether its image is that of the current release or of an older one:
a release may come after the fetch, and the container is then made from the older
image until the next cycle. What a failing command or a stop of the service leaves
of a row is a prefix of what the row does. `late` is a report the provisioner
gave up after fifteen seconds and the web application carries out afterwards;
`Timely` excludes from the promises the workspaces that had one. `FetchEmpty`
is a listing that misses the rows it should have, with or without a
`workspace_count` of zero. `asked` is history: the user asked for the removal of
what the directory holds.

### Answers

A request keeps one transaction open while the model answers; `call` holds what
it read. Citations are pairs of a message and its version, `cites` those of the
rows and `used` (history) those the text was written from. An exclusion is two
steps (`Leave` looks up who cites the message, `Gone` marks them and deletes it),
an upsert one. `raced` (history) says that evidence changed while the request
ran: the code does not look again, and the properties are about all other text.

### Cutover

A space is a model with its dimension. A candidate is tested (`Submit`), its
revision compared (`CheckRevision`), then written (`WriteSave`); staging a
different space leaves the active one serving queries until `CheckCoverage` finds
it complete and `Promote` makes it active, in a transaction of its own. `job` is
the state per idempotency key of an embedding, so a key that is spent stays so; it
is `"gone"` when the job is queued for a chunk that was removed since, though one
with the same key may be there again. Each of the `Admins` has a form of their own,
loaded when they will.
`snapshot` is the worker's copy of the settings. `raced` (history) says that two
of these writes overlapped.

## 3. Runs

`CHECK_DEADLOCK FALSE` is in most configurations because every module bounds
what its environment does: when those bounds are used up and all is settled the
system rests. Counters that bound a model are named in the modules (all the
constants `Max*`, and the last worker of `JobQueue` that does not crash).

| run | instance | shows |
|---|---|---|
| `JobQueue_one_worker` | 2 jobs, 3 workers in turn, fair | `TypeOK`, `AttemptsAccounted`, `QueuedIsClaimable`, `OutcomeStands`, `Settles`, `CrashedIsRecovered` |
| `Memory_gmail` | 2 messages, 2 contents, 2 rows each, 4 changes, 1 worker, fair | `IdleMeansCurrent`, `CatchesUp` |
| `Memory_claims` | 2 messages, 1 content, 2 rows each, 4 changes, 2 claims, 1 worker, colliding keys, a user who decides | `RemovedIsForgotten`, `ClaimsSupported`, `UserDecisionsStand` |
| `AiBudget_day` | 3 calls, 2 workspaces, 1 slot, 1 midnight, bills below and above the estimate, fair | `WithinLimit`, `BudgetMatchesUsage`, `ReservationSettles` |
| `GoogleSync_cursor` | 2 messages, pages of 1, 2 changes, 1 crash, 1 request, fair | `CursorCovered`, `ResumeSafe`, `CatchesUp` |
| `GoogleSync_polling` | every request, 2 of them, cursors that expire, 2 crashes for 3 attempts | `KeepsPolling` |
| `Calendar_window` | 2 events on 2 days, a window of 2 days that moves by one, pages of 1 or 2, 2 changes, 1 crash, deletion of the data or switching off, refused tokens, fair | `WindowCovered`, `CatchesUp` |
| `Outbox_delivery` | 1 chat, 2 messages, 1 edit, 2 packets, 1 fault, 1 disconnection, fair | `TypeOK`, `MarkCovered`, `IsChannel`, `Arrives` |
| `Provisioning_lifecycle` | 3 workspaces (1 deleted long ago) for 1 slot, 3 requests, 1 fault, 2 wrong listings, 1 late report, fair | `TypeOK`, `CapHolds`, `NothingForgotten`, `KeyCurrent`, `SessionSafe`, `Converges`, `Cleaned` |
| `Answers_evidence` | 2 messages, 1 of them a reply, 2 changes, 2 requests, 1 act of the user | `TypeOK`, `WrittenSound`, `SuggestionSound`, `Forgotten` |
| `Cutover_staged` | 2 chunks, 2 spaces, 2 administrators, 2 saves, 1 failure, cancellation or crash, fair | `TypeOK`, `CompleteCutover`, `SaveFresh`, `CutsOver`, `Searchable` |
| `Calendar_moved` | 2 events, 1 change, no faults | ends in a counterexample to `NothingStale` |

Why these bounds are enough to be interesting: two attempts have a retry and a
last attempt; three workers in turn have every hand-over of a lease; two
messages have a chunk with two members, a neighbour that survives a removal,
and two pages of size one; two rows per message have a removal and a
readmission; two changes of a mailbox have a message that comes and goes during
one import; two events have a page and a next one, a window that is cut between
pages and within one, and a day that brings one of them in; two packets have one
that is pushed while another is posted; three workspaces have a slot that is
full, a removal next to a start, and an orphan; two wrong listings in a row are
one less than the sweep needs; two administrators have a form that was loaded
before the other's was saved; two requests have a draft and its rewriting, two
changes an edit and a deletion; two chunks have one in a space and one still
missing; three calls have two in one workspace and one in another, at limits
that any two together exceed. Every property of a passing run has a mutant (in
`PROJECT.json`) that breaks it within the same bounds.

Four histories mark what the code does not protect, and a property of a passing run is
about all but that: claims that are `torn` (`ClaimsSupported`), events that are
`emptied` (`WindowCovered`), texts and settings that are `raced` (`WrittenSound`,
`SuggestionSound`, `CompleteCutover`, `SaveFresh`), and keys that are spent
(`CutsOver`, `Searchable`). The counterexamples below show what happens then, but for
two saves that overlap, of which the second replaces settings it was not tested on.
`Memory_claims` has one content, so that a message there comes and goes and comes
back; `Memory_support` edits messages that claims rest on, and `EvidenceCorrect` holds
for any contents and workers.

`TypeOK` of the modules whose run does not name it (`Memory`, `AiBudget`,
`GoogleSync`, `Calendar`) is a theorem.

### Counterexamples

`Calendar_moved`: an event moves out of the window after the last increment; the
window is due, so a refresh takes the place of the next increment; it does not
list the event, and its new token does not cover the change. The event stays at
its old date (`google_sync.py:465`), against "Honor updates, cancellations and
provider deletions" (`EXECUTION-PLAN.md:210`). `NothingIsStale` proves the property
when no refresh takes the place of an increment that would have named an event.

More configurations are kept for the discussion of a fix; TLC refutes each
property they name. The last column names the theorem that proves the
property under a condition that rules this out: what a fix has to establish.

| configuration | property | what happens | where | holds under |
|---|---|---|---|---|
| `JobQueue_stranded` | `QueuedIsClaimable` | a late failure overwrites another worker's claim (two workers; `deploy/compose.yaml` starts one) | `jobs.py:80` | `OneWorkerClaimable` |
| `Memory_whatsapp` | `IdleMeansCurrent` | a message edited and edited back gets no rebuild: its key is used | `jobs.py:31` | `ChunksCurrent` |
| `Memory_restored` | `MissingHasJob` | a chunk made again is never embedded: its job's key is used | `memory.py:181` | `MissingServed` |
| `Memory_delete_data` | `RemovedIsForgotten` | a chunk committed during "delete imported data" keeps the text | `ingest.py:253`, against `EXECUTION-PLAN.md:148` | `RemovalsForget` |
| `Memory_tombstone` | `ExcludedStaysOut` | an import that looked the exclusions up before one was committed finds no row, and adds the message again | `ingest.py:130`, against `models.py:485` | `ExclusionsHold` |
| `Memory_support` | `NoneUnsupported` | an import and a removal take the last two citations of a claim: each still sees the other's, and neither deletes the claim | `ingest.py:208`, against `ingest.py:200` | `NoClaimUnsupported` |
| `Calendar_delete_data` | `WindowComplete` | a window run goes on while the imported data are deleted, and stores its token over the deleted pages | `google_sync.py:465`, `pages.py:494` | `WindowWhole` |
| `GoogleSync_delete_data` | `CursorCovered` | an import in flight stores a cursor over deleted pages | `google_sync.py:338` | `CursorHolds` |
| `GoogleSync_deleted` | `DeletedStaysDeleted` | a page in flight is stored after the deletion | `pages.py:494`, against `EXECUTION-PLAN.md:467` | `DeletionsStand` |
| `GoogleSync_stuck` | `KeepsPolling` | after as many crashes as attempts the stream is never scheduled again | `worker/main.py:125`, against `EXECUTION-PLAN.md:211` | `StreamsPolled` |
| `GoogleSync_reconnect` | `ReconnectMeansRevoked` | a token that expires during a run is taken for a revoked grant | `google_sync.py:270`, against `accounts.py:106` | `ReconnectsRevoked` |
| `GoogleSync_truncated` | `TruncatedIsTrue` | a crash after the last page makes an import count its messages twice | `google_sync.py:322`, against `templates/connections.html:23` | `TruncationTrue` |
| `Outbox_hurried` | `Linked` | connected again before the provisioner removed the container: the client was logged out and nothing makes a new one | `whatsapp.py:59`, against `static/app.js:27`, `EXECUTION-PLAN.md:255` | (liveness) |
| `Outbox_refused` | `Arrives` | a packet the application refuses stays at the head of the outbox for ever | `queue.js:21` | (liveness) |
| `Outbox_edited` | `LastVersion` | a synchronisation that read a message before its edit pushes it after the event of the edit | `connector/index.js:65` | `LastVersionArrives` |
| `Provisioning_requick` | `RemovalDone` | a removal is taken back by the next connection before the provisioner saw it: the old session is linked again | `whatsapp.py:59` | (liveness) |
| `Answers_deleted` | `DeletedMarked` | a message deleted during the model call is quoted by an answer that is not marked | `retrieval.py:140`, against `EXECUTION-PLAN.md:148` | `DeletionMarks` |
| | `SuggestionLive` | the same for a suggested reply (`tlc -continue` shows both) | `gatherings.py:143`, against `models.py:376` | `DeletionMarks` |
| `Answers_saved` | `SavesKept` | a rewritten draft replaces a text saved meanwhile | `gatherings.py:113` | `SavesStand` |
| `Cutover_restaged` | `CutsOverAlways` | a space that is staged again finds the keys of its jobs spent, and is never complete | `worker/main.py:132`, against `docs/openrouter-execution-plan.md:136` | (liveness) |
| `Cutover_failed` | `SearchableAlways` | an embedding that failed at its last attempt is not tried again | `memory.py:181` | (liveness) |
| `Cutover_replaced` | `CompleteAlways` | a candidate saved between the check of coverage and the promotion is made active at once | `worker/main.py:155` | `CutoverComplete` |
| `Cutover_stale` | `EditsKept` | a candidate tested while AI was disabled enables it again | `docs/openrouter-execution-plan.md:78` | `EditsStand` |

### Fairness

* `JobQueue`: the clock runs, a stopped container is restarted (`restart:
  unless-stopped`), handlers end because every provider call has a timeout, the
  loop keeps polling. A claim is strongly fair per job, since `ORDER BY
  run_after` never passes over a due job for ever. Nothing is assumed of
  enqueuing, cancelling, crashing or renewing.
* `Memory`: imports and removals end, committed or rolled back, a call to a provider
  ends or times out, a worker claims the job that has been due longest (so a rebuild
  is strongly fair), and a rebuild, which calls nothing outside the database, is not
  interrupted for ever.
* `AiBudget`: calls have timeouts and every exit reconciles; the semaphore wakes
  its waiters in turn.
* `GoogleSync`: the clock runs, the worker goes on, and a request that is made
  again and again is at last answered, granted or refused. Tokens may expire
  and requests may fail any number of times before that.
* `Calendar`: the clock runs and days go by, the worker goes on, and a page that
  is asked for again and again is at last answered (strong fairness per page
  position). `CatchesUp` is promised to streams that stay on, of windows that fit.
* `Outbox`: containers are restarted, the client becomes ready again, timers
  fire, requests end (`AbortSignal.timeout`). A chat is read in the end, since
  every synchronisation tries each. Nothing is assumed of events and the user.
* `Provisioning`: the service is restarted and polls, commands have timeouts,
  transactions end. Faults, wrong listings and late reports are bounded, not fair.
* `Cutover`: what the worker began it ends, settings are read again every thirty
  seconds, the loop comes by the reconciliation and takes the oldest job.
* `Answers` promises safety only.

## 4. Proofs

All proofs are checked by `tlapm` to the last leaf and assume only the named
assumptions on the constants in the modules, and what each theorem states.

* `JobQueueProofs`. `TypeCorrect` and `AttemptsCorrect` are proved together:
  `TypeOK /\ AttemptsAccounted` is inductive, and each half needs the other (a
  deferral leaves a natural number only because its owner paid an attempt).
  `OneWorkerOutcomes` and `OneWorkerClaimable` (`Concurrency = 1`) rest on
  `OneAtATime`: at most one process is up, the job it works on is running in its
  name or was cancelled (so that its ending never goes over an outcome), one it
  is about to queue again has attempts left, and a key without a row has none.
* `MemoryProofs`. `EvidenceCorrect` (`ClaimsSupported`) and `DecisionsStand` share the
  invariant `SupportInv`: beliefs are typed, active claims that are not `torn` are
  cited, one that keeps no citation once a transaction under way has taken its own is
  among those the transaction found lost (`SparedInv`), cited rows are live, the
  user's claims are confirmed or rejected, rejected keys have no active claim. The one
  delicate step is publishing: the evidence was read long before, and only
  `_still_valid` makes its rows live again. `ChunksCurrent` (`IdleMeansCurrent`, one
  worker, fresh keys, exclusions) strengthens to `CurrentInv`: with no rebuild owed
  the chunks are the plan of the live messages, and when the last one owed is running,
  what it planned is. `TypeCorrect` (`TypeOK`) needs that at least as many rebuilds
  are owed as workers are at one (`Owed`), or the count would go below zero. The
  removals: `ExclusionsHold` (`ExcludedStaysOut`) assumes that no import is past its
  look at the exclusions when one commits that names its message, and that no message
  of a conversation arrives while the conversation is being excluded: then whatever is
  there was selected. `NoClaimUnsupported` (`NoneUnsupported`) assumes that no two
  transactions take evidence of one claim at the same time. `ExclusionsForget` and
  `RemovalsForget` (`RemovedIsForgotten`; for data that is deleted with its provider
  only if no chunk of it is written meanwhile) rest on a count, `Outnumbered`: while a
  chunk quotes what is gone, more rebuilds are owed than workers hold a plan that
  would keep it, so one is left that has seen the removal. `MissingServed`
  (`MissingHasJob`, one worker) assumes that no chunk is made again whose jobs have
  rows: then every chunk whose rows are live has jobs, done or to be done
  (`ServedInv`), since a row number that is gone does not come back.
* `AiProofs`, on `AiBudget`. `TypeCorrect`; and `LimitsHold`: `WithinLimit` says
  nothing once a bill has exceeded its estimate, and such a row stays
  (`OverbillingStays`, from an invariant on the rows of calls still under way), so
  that before it no settlement raises a counter. `BooksBalance`
  (`BudgetMatchesUsage`, for a finite set of calls): a counter is `MapThenSumSet`
  over the calls of its day and scope. The section on sums shows that this fold
  exists for every finite set, that it does not matter which member is added
  first, and what one member changes (`SumExists`, `SumWithout`, `SumChanges`),
  each by a least counterexample, since the induction theorems of the library
  cannot be instantiated. A step then moves a counter and its sum alike; that
  cutting at zero never happens is because the sum is at least the charge of the
  call that is settled.
* `AiProofs`, on `Cutover`, which it instantiates. `SettingsTypeCorrect` (`TypeOK`):
  a save that races another takes the revision back, so that a candidate may hold a
  revision above the present one; only the number of edits bounds both.
  `CutoverComplete` (`CompleteCutover`) and `SavesFresh` (`SaveFresh`) share `Serial`:
  either settings were written at the same moment (`raced`), or every candidate
  about to be written was checked against the settings there are (`Checked`) and the
  space about to be cut over to is complete (`Covered`: between the check of coverage
  and the promotion the one worker adds no chunk). `EditsStand` (`EditsKept`) adds
  that AI is not turned off, nor a rebuild cancelled, while a candidate is under test:
  then the revision moves with every edit (`Apace`), and the comparison of revisions
  before the write sees each of them.
* `GoogleSyncProofs`. `TypeCorrect`: `TypeOK` becomes inductive with `HistoryStarts`
  (a run that reads the history knows from where), and needs that a page of an import
  that ends before the mailbox does has an oldest message (`PageIsNotEmpty`,
  `OldestIsListed`). `StreamsPolled` (`KeepsPolling`) assumes that fewer crashes
  happen than a job has attempts, the bound `GoogleSync_stuck.cfg` shows to be exact.
  The invariant `KeyServed`: once the key of a due time is used, its job is live and
  each of its attempts but the running one ended in a crash. `CursorHolds` and
  `ResumesSafely` (`CursorCovered`, `ResumeSafe`) assume that the imported data is
  deleted only while no run is under way; `GoogleSync_delete_data.cfg` shows what one
  under way does. The invariant `Kept`: the last record of a message in the history
  says whether it is there (`Told`); what stored progress has passed agrees with the
  mailbox but for what changed since it began (`Stored`); the progress a run holds
  while it imports is the stored one, and its page has all there is between two
  positions or two records (`HeldImport`, `HeldHistory`). Unlike the run, they hold
  for expiring cursors, any number of crashes and any page size. `DeletionsStand`
  (`DeletedStaysDeleted`) assumes that no job of the stream is waiting or at work at
  the deletion, and that the worker does not die between recording a refusal and
  ending its job: a stream in order that is not to be polled has no run (`OffInv`).
  `TruncationTrue` (`TruncatedIsTrue`) assumes that no attempt begins with progress
  that had stored its last page: in a mailbox that does not change the messages
  counted are exactly those the position has passed (`Counted`), which are the newest,
  so that a limit that is reached leaves one out. `ReconnectsRevoked`
  (`ReconnectMeansRevoked`) assumes that no token expires in the hands of a run and no
  grant is stored under one: a run without a token, or with one that is refused, then
  has a grant that is gone (`RefusedInv`).
* `OutboxProofs`. `Types`. `Refinement` (`IsChannel`): each step of the connector
  is a step of `Channel` or a stutter, from the invariant that a post whose answer
  is in is the first packet of the outbox while the link is wanted, or was cleared
  with it; it holds whenever the user connects again. `NothingLost` (`MarkCovered`)
  assumes that the user connects again only once the session of a removal is gone
  (`Reconnects \subseteq {"none"}`): what a synchronisation has read and not marked
  is in the outbox or was stored before the watermark moves. `LastVersionArrives`
  (`LastVersion`) assumes `Orderly`: an edit comes when no handler of its message is at
  work and no synchronisation has read it without pushing it, and its event is seen if
  the message was pushed before; no process ends with a handler of an edit in it; an
  outbox is cleared only when it is empty. The invariant says of every version but the
  last (`Following`) that wherever it is, stored or waiting, the last one is behind it
  in the outbox.
* `CalendarProofs`. `TypeCorrect`; and `WindowHeld` (`WindowCovered`), with the
  invariant `WInv`; `WindowWhole` (`WindowComplete`) has no exemption, if imported
  data are deleted only while no run is under way: then `emptied` stays empty. A
  refresh that is resumed has stored every page before its position: `Behind` says
  that what such a page lists is here, but for what changed since the listing began,
  which the token it ends with still names. `AsRead` and `Bridges` carry this over a
  page in memory, which may be stored after its events changed, and `Gathered` over
  increments in memory. That pages up to a position and those after it miss no event
  (`LargestIsLast`) comes from the well-foundedness of the order of events.
  `NothingIsStale` (`NothingStale`) assumes that when a window is listed from its
  start, what it will not list is here as it is at Google, if it is here. `FreshInv`
  carries that through the pages (`Outside`): what such a listing does not show and
  has not changed since it began is as it is at Google.

* `ProvisioningProofs`. `TypeCorrect`. `SlotsHold` (`CapHolds`): `Counting`, while a
  request is between its count and its commit it is the only one, and the slot it
  found is free. `ForgottenIsGone` and `KeysAgree` (`NothingForgotten`, `KeyCurrent`)
  from `Agreement`: a workspace nobody wants is clean unless it is still on the list
  of the cycle or the clean-up, and the key a container read is that of its row, for
  every workspace without a late report. `SessionsSafe` (`SessionSafe`) from
  `Sessions`, with fewer wrong listings than the three in a row the sweep of orphans
  waits for (`MaxBroken <= 2`).
* `AnswersProofs`. `TypeCorrect`. `WrittenHolds` and `ForgottenHolds` (`WrittenSound`,
  `Forgotten`) from `Evidence`: a request that is not raced has read what messages
  say now, and an exclusion under way has found every row written from its message
  that is neither marked nor raced. `SuggestionHolds` (`SuggestionSound`) from
  `Suggestion`: a check compares the invitee with what it loaded and stores only the
  columns that differ, so the invitee must be what it loaded, or have lost a
  suggestion that the check's own evidence does not restore. `DeletionMarks`
  (`DeletedMarked`, `SuggestionLive`) assumes that nothing a request has read changes or
  is excluded before it ends, and that the user sets no status during a check: then
  nothing that is written is raced (`NoneRaced`). `SavesStand` (`SavesKept`) assumes that
  nothing is saved while a draft is rewritten: ids are unique (`OwnIds`) and a rewriting
  holds the last text of its draft (`RewritesLast`).

Every safety property of the passing runs is a theorem, some under a condition that
the theorem states, and so is every safety property that section 3 refutes, under a
condition on the steps (`[][...]_vars`) or on the constants that rules the
counterexample out. Each of these conditions is sufficient; that something of the
kind is needed is what the counterexample shows.

Only model-checked: everything under fairness (`Settles`, `CrashedIsRecovered`,
`CatchesUp` of three modules, `ReservationSettles`, `Arrives`, `Converges`, `Cleaned`,
`CutsOver`, `Searchable`, and the refuted `Linked`, `RemovalDone`, `CutsOverAlways`,
`SearchableAlways`), since liveness and ENABLED are beyond the prover.

## 5. Not modelled, and what is left

What would say most next: the removals as a correction of the code would have them (a
deletion that waits for the run under way, a tombstone written before the selection),
so that the conditions of `RemovalsForget`, `DeletionsStand`, `CursorHolds`,
`WindowWhole`, `NoClaimUnsupported` and `ExclusionsHold` become properties; and the
merging of people with the conflicts of single-valued claims.

Not modelled, and why:

* Single-valued conflicts and the merging of people (`memory.resolve_conflicts`,
  `ingest.link_people`): they need identities, keys and rejections of several
  people at once; the hazards are listed.
* Sign-in and sessions: a flow is used up by one UPDATE, and a session is looked
  up by every request; there is no protocol of several steps. `store_grant`,
  `disconnect_google` and `delete_account` are in `GoogleSync` and `Provisioning`.
* The race of two refreshes of one grant, row locks and the deadlocks PostgreSQL
  breaks by aborting one of two transactions.
* Several conversations, messages cut into segments, the ranking of results,
  contacts, diagnostics and pairing codes.
* Rendering and routing, provider adapters and their JSON, normalisation of
  messages, encryption, throttling counters, migrations and shell scripts,
  synthetic providers. They hold no state of the protocols above, or are pure
  conversions whose content no property here distinguishes.
