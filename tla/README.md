# Harness Forge: a verification project

TLA+ models of the Harness Forge control plane and of the Runtime it drives,
the TLC configurations that check them, and theorems about them checked by
TLAPS.

    tlc -workers 2 -config MCDocker.cfg MCRunLifecycle         # model-check
    tlapm RunStoreProofs.tla                                   # check proofs

`PROJECT.json` lists the components, runs, mutants, source map, hazards and
theorems; this file explains them.

## 1. The system

A user posts a message; the control plane (Go) turns it into a *run*, hands the
run to an agent *Runtime* (Python, inside a sandbox), publishes what the agent
produced, and promotes the agent's SDK session so that the next message of the
conversation continues it. V0 executes **one run at a time**: the slot is
occupied from the claim until `finalized_at`, which is set only when the
Runtime has taken a commit or abort decision and the lease is released.

### Components

| Component | State it keeps | Operations | Correct when | Module |
|---|---|---|---|---|
| run rows (`runs/state.go`, `store.go`, `coordinator_store.go`) | `runs` table: status, phase, `finalized_at`, source and candidate session, sandbox columns | `ClaimNext`, `RefreshSource`, `BeginSandboxAcquire`, `AttachSandboxRef`, `SetPhase`, `RecordRuntimeEvent`, `RecordFailure`, `CommitProducts`, `AcknowledgeFinalized`, `Finish`, consistency mark | one slot; a terminal outcome is never replaced; the sessions of a conversation form a line | RunStore |
| scheduler (`runs/scheduler.go`) | start-up flag | loop of `Reconcile`, `ClaimNext`, `Execute` | an unowned running row is always found again, and an owned one is never taken for residue | RunLifecycle |
| coordinator (`runs/coordinator.go`) | active map of cancel functions, locals of `Execute` | `Execute`, `pump`, `fail`, `Cancel` | outcome first, then the cleanup that outcome calls for | RunLifecycle, Execution |
| reconciler (`runs/reconcile.go`) | a listing and rows read at the start of the pass | `Reconcile`, `finishLease`, `abortLease`, `finalizeAbsent` | stale reads never lead to the wrong cleanup; absence is proved before a run is settled | RunLifecycle |
| canceller (`runs/cancel.go`) | none | `Cancel`, `CancelQueued` | cancellation wins or loses as a whole; a recorded one is carried out | RunLifecycle |
| sandbox providers (`sandbox/*.go`) | fake: leases, executions, sessions in memory | `Acquire`, `Recover`, `List`, `Release` | idempotent; never takes a timeout for absence | RunLifecycle |
| Runtime client (`agentexec/`) | one connection per request | execute stream, cancel, list, finalize, HEAD session | an error after sending is outcome-unknown; a terminal event counts only after a clean end | Execution, RunLifecycle |
| Runtime execution store, process manager, API (`agent-runtime/.../execution_store.py`, `processes.py`, `api.py`) | a record per execution: lifecycle, candidate, baseline, decision; a journal; a worker process with its pipes | reserve, control messages, publish, cancel, recover, finalize | at most one unfinalized record; decisions are idempotent and survive restarts; a cancelled worker is gone | Execution, RunLifecycle |
| worker and agent adapter (`runner.py`, `claude.py`) | event numbers, candidate session | SDK turn, control messages, artifacts, outcome | completes only with a durable transcript and valid outputs | Execution |
| runtime contracts (`contracts.go`, `manifest.go`; `models.py`, `artifacts.py`) | none | parse and validate payloads and outputs | what the Runtime lets through the control plane takes, except where section 5 says | Contracts |
| session files (`sessions.py`) | transcripts, staging copies, ownership markers | baseline, commit, abort | abort deletes what the run created and nothing else | RunLifecycle |
| events, broker, SSE (`runs/events.go`, `broker.go`, `httpapi/run_events.go`, web `sse.ts`) | `run_events` sequence, wake-up channels, cursors | append, notify, stream from a cursor, reconnect | no event lost, repeated or reordered; the terminal one last | RunEvents, Feed |
| conversations, projects, inputs | rows and deletion marks, uploaded objects | submit, delete, upload | no deletion under an unsettled run; a listed input has its object | RunStore, Storage |
| artifact publication (`artifacts/`) | uploaded objects, advisory lock | prepare, commit, release, withdraw | a visible artifact always has its objects | Storage |
| cleanup command (`cleanup/`, `cmd/purge-deleted`) | none, re-reads everything | preflight, orphan scan, purge | repeatable after a stop anywhere; rows last | Storage |
| workspaces (`materializer.go`) | run directories | prepare, remove | never overwrites an older one | Storage |
| profiles, postgres access, HTTP translation, model gateway, the rest of the web application | see section 7 | | | |

### How they interact

One scheduler goroutine does everything that drives a run. HTTP handlers write
to the same database (submission, deletion, cancellation, upload) and reach the
goroutine through one thing only, the active map: `Coordinator.Cancel` looks the
run up there and cancels the context of its `Execute`. The goroutine calls the
Runtime over HTTP; the execute response is a stream of NDJSON events that ends
with a terminal event, each of which was written by a worker process to a pipe,
read and renumbered by the process manager, and appended to a journal file the
response is served from. Neither side shares a transaction with the other, so
database and Runtime agree only because of the order in which outcome, decision
and acknowledgement are written, and because each of them may be repeated.

Every transaction that changes a run wakes the event-stream handlers of that
run, which read `run_events` from their own cursor. The purge command is a
process of its own beside a running control plane; the two share the database,
the object store, the Runtime and one advisory lock.

### What is hard

* A **cancellation** can be recorded between any two steps of `Execute`, before
  the run is in the active map, while `Reconcile` works from older reads, and in
  the Runtime before, during or after the worker is spawned.
* A **lost acknowledgement**: a COMMIT or a finalize took effect and its answer
  did not arrive. Code then runs that believes in failure for a run that
  succeeded, or for an upload that is visible.
* A **crash** at any point leaves a row, perhaps a record and a session, and no
  memory. The restart must choose commit or abort from what it finds.
* The **start-up flag** decides whether running rows are crash residue. It has
  to be set again after every error that may have left one behind.
* `abort` deletes **every session newer than the reservation**, so everything
  depends on no other run's session being among them.
* Worker, manager, client and coordinator **wait for each other** through full
  pipes, acknowledgements, withheld terminal events and a stream that ends only
  when the task has.
* The purge **deletes what other parties may still use**: objects not yet
  committed, sessions another run continues, rows that are the only trace.

The full list, each at its line, is `hazards` in `PROJECT.json`.

## 2. The modules

    Feed ─(implemented by)─ RunEvents ── MCRunEvents, RunEventsProofs
                               │
    RunStore ──────────────────┼──────── MCRunStore, RunStoreProofs
       │                    Storage ──── MCStorage, StorageProofs
    RunLifecycle ─────────────────────── MCRunLifecycle, RunLifecycleProofs,
                                         RunAgreementProofs
    Contracts ────────────────────────── ContractsProofs
       └─ Execution ──────────────────── MCExecution, ExecutionProofs, BelievedProofs

RunEvents, Storage and RunLifecycle each extend RunStore, so the run rows behave
the same in all three, and each adds what its own question needs. Execution looks
inside what RunLifecycle takes as single steps (the worker, the stream, `pump`).
RunEvents and Execution filter sequences with `Selected` of **Selection**, which
takes the elements at a set of places in their order: the result of `SelectSeq`,
in a form that proofs can use for sequences of any length.

**RunStore** is the abstract level: one action per PostgreSQL transaction at the
moment it commits, callable by anybody in any order. Its state is `rows` (the
`runs` table, reduced to the columns that decide anything), `head`
(`conversations.active_sdk_session_id`) and `deleted`. A guard `Can...` is the
transaction's condition; where the code answers success without writing (a
repeated phase, a terminal row handed back by `RecordFailure`), the action is a
stutter.

**RunLifecycle** extends it with the processes. `pc`, `run`, `startup`,
`stopping`, `rec` and `fin` are the scheduler goroutine: its program counter,
the run it works on, the start-up flag, whether the current `Execute` context is
cancelled, and the locals of `Reconcile` and `finishLease`. `cancel` is one
cancellation request. `exec`, `sessions`, `leases` and `inflight` are the
Runtime: its records, the transcripts on disk, the fake provider's lease map,
and the execute request on the wire. Each action is one call to another process,
with the local decision that follows it, because those are the points where
others can intervene. The program counter names the call that comes next:

| pc | code |
|---|---|
| `list`, `snapshot`, `visit`, `attachFound`, `absentRecord`, `absentAck`, `recover` | `Reconcile`, `finalizeAbsent` |
| `claim`, `register`, `paused` | `Scheduler.Run`, `ClaimNext`, the entry of `Execute` |
| `prepare` ... `promoted` | `Execute` from `LoadContext` to the success path; `pump` and `drain` are `pump` before and after its first error |
| `failAbsent`, `failLease`, `failBare`, `failAck`, `failRead` | `fail`, by whether the sandbox is absent, its lease known, or neither |
| `finish`, `commitSession`, `headSession`, `abort*`, `acknowledge` | `finishLease` and `abortLease` |

`fin.caller` says where `finishLease` was called from, hence where it returns to.

**Contracts** holds the pure checks of both sides as operators. A JSON object is
a function from its fields to classes of values. Null, a wrong type and a blank
are what the parsers look for. Three classes of text pass both parsers and matter
behind them: a *labelled* one is rewritten by the redaction, an *unstorable* one
holds a U+0000, an *unwieldy* one is so long or so deeply nested that it may
exceed what a reader of its line takes. A run's outputs are files by path,
the manifest (`MANIFEST_NAME`) among them if there is one, and what it lists. A
path that is *undecodable* (not UTF-8) and a file that is *barred* (the Runtime
resolves it to a regular output, and the control plane does not read it) are
where the two sides differ. `ParseEventPayload` and `ValidateManifest` are the Go
side, `PayloadModel` and `AcceptsOutputs` the Python side, `Redact` what
`_publish` does to strings, `Storable` what an insert takes and `Handy` what every
line reader takes.

**Execution** is one execution: `worker`, `pipe`, `control`, `outputs` are the
worker process and its channels (`worker.turns` the SDK events it has passed on); `manager`, `record`, `journal` the process
manager's `_run` with its reader tasks, the execution record and the event log;
`canceller` a user's cancellation; `client` the goroutine of `HTTPExecutor.Execute`;
`pump`, `row`, `recorded` the coordinator. One action is one await or one
blocking call of a task. `record.stored` is the store's `initialized` flag, which
a failed write clears.

**RunEvents** adds to RunStore's transactions, for one watched run, the
`run_events` and `messages` rows each appends; then the broker's one-place
channels, the stream handler with its cursor, the connection, and a client that
reconnects from the last sequence it handled. **Feed** says what that is for: a
log closed by a terminal event, and readers who each get all of it once, in
order.

**Storage** is one project with its rows and everything they name outside the
database. `ex` is the scheduler, reduced to what it leaves in storage; `upload`
the uploads; `pm` the purge command; `lock` the advisory lock.

The definitions whose comment begins with *Slip* are mistakes one could make in
the definition that follows; `PROJECT.json` pairs each with the property that
catches it, and nothing else refers to them.

### Failures

*RunLifecycle.* Every call may fail while `budget` lasts. A failed transaction
either committed or did not (`Unacknowledged`), a failed Runtime call either took
effect or did not, and `finalize(abort)` may have deleted sessions without
reaching the record. A call under a cancelled `Execute` context fails at no cost,
since the code will have it so. Timeouts are such failures. `Crash` restarts the
control plane (`main.go` installs no signal handler, so every stop is one), and
`RuntimeRestarts` restarts the Runtime, whose `recover` turns unfinished records
into records awaiting a decision. The fake provider lives in the control plane's
memory: its calls never fail and a crash wipes it.

*Execution.* Journal, process creation, control messages and record writes may
fail, the worker may be killed, the connection may break at any point, a
transaction's acknowledgement may be lost. A Runtime restart is RunLifecycle's.

*RunEvents.* A COMMIT given up may become durable after its wake-up; connections
drop; the control plane restarts.

*Storage.* Any call may fail with its effect or without, `DeletePrefix` may stop
half-way, either process may be killed, and the acknowledgement of `SaveInput` or
the session that holds the lock may be lost.

### What the abstraction leaves out

* Runs are numbered in `(created_at, id)` order and may be submitted in any
  order, which covers clocks that disagree. The session a run's worker creates is
  named by the run; 0 is SQL NULL.
* `FOR UPDATE SKIP LOCKED` is the set `locked` of rows another transaction holds.
* One configured provider: the provider-mismatch check before `Reconcile` and in
  the purge is not modelled. In RunLifecycle rows are never removed, so executions
  without a row do not occur, and the last loop of `Reconcile` has nothing to do;
  in Storage `RowsLast` says that the record goes before the row.
* `Acquire` never reports outcome-unknown with either provider, and `Release` and
  `SyncBack` do nothing for Docker.
* One cancellation request at a time, repeated at will.
* Of the fake, "created" stands for its phase event and "durable" for its
  completed candidate. It keeps a session from its commit on, so
  `HeadSessionKept` and `CommitAccepted` are stated of the Docker provider.
* Execution has no byte counts: whoever reads an *unwieldy* text may take it or
  not. It has no torn last line of a killed worker, and no diagnostics on stderr.
  Outputs have no directories (an empty one with a name that is not UTF-8 stops
  the control plane's walk of them as a file of that name does).
* Storage has one purge command at a time, which runs with `--apply` (without it
  nothing changes), and the Docker provider. The cleanup of a finished run is one
  step there. The roots are loaded at once: what a deleted and quiescent root owns
  does not change. An object left by an upload whose compensation failed is never
  removed while its project lives, which the code does not claim.

## 3. What the runs check

| Run | Configuration, instance | Question |
|---|---|---|
| `store` | MCRunStore: 2 runs, 2 conversations | Do the transactions alone, called by anyone in any order, keep the rows right? |
| `docker` | MCDocker: 2 runs of 1 conversation, 1 fault and 1 crash | Two failures in one behaviour, the second run continuing the first one's session: do database, Runtime and scheduler agree throughout? |
| `fake` | MCFake: 2 runs, 2 conversations (symmetric), 1 failing transaction and 1 crash | The in-memory provider; also whether RunLifecycle implements RunStore. |
| `liveness` | MCLive: 2 runs, 1 fault or 1 crash, fair | Is every run settled, and a cancelled one although its worker hangs? |
| `events` | MCRunEvents: 1 run, 1 reader, 2 Runtime events, 1 artifact, 1 drop | Does a reader who loses connections and wake-ups get the whole history once, in order, to its end? |
| `storage` | MCStorage: 2 runs, 2 conversations, 1 input, 1 artifact of 1 file, 1 failure of any kind | Do visible rows keep what they name while uploads, publication, orphan scan, deletion and purge run at once? |
| `purge` | MCPurge: 2 runs, 2 conversations, 1 artifact, 1 fault, fair | Is everything deleted purged, and every orphan collected? |
| `execution` | MCExecution: 1 turn, pipes of one place, 1 fault or 1 event of a newer Runtime, fair | Is what is accepted proven and what completed believed, does a cancellation stop the worker, and does nobody wait for ever? |
| `late_execute`, `inputs`, `names`, `titles` | MCLate, MCInputs, MCNames, MCTitles | Section 5. |

The properties, by what they protect:

* **Outcome.** `OutcomeImmutable`: no terminal status is replaced and no
  finalization withdrawn. `DecisionAgreement`: a session is committed only for a
  succeeded run and aborted only for another. `StaleViewSafe`: rows read at the
  start of a pass or of a cleanup still tell the truth about the outcome.
* **Slot.** `SingleSlot` in the database; `SettledIsClean`: nothing of a
  finalized run is left in the Runtime, on its way there or leased;
  `ExecuteAdmitted`: so the Runtime never refuses the next run.
* **History.** `LinearHistory`, `HeadSucceeded`: no two succeeded runs continue
  the same session, and the active session is that of a succeeded run of the
  conversation. `PromotedUntilSettled`: it stays active until its run is settled.
  `HeadSessionKept`: its transcript exists. `NoOrphanSession`: an aborted run's
  does not.
* **Cleanup.** `CommitAccepted`: a published run's commit is never refused,
  however often repeated. `NoStrandedRun`: a running row is owned by `Execute`,
  or the next pass will look at it. `NeverPaused`: no interleaving, lost answer or
  crash by itself makes the scheduler stop for manual inspection.
  `DeletedQuiescent`: a deleted conversation has nothing left to run or clean.
* **Event history.** `LogGapless`: sequences have no gap and no repetition,
  whatever is replayed, so a cursor is enough. `LogTellsOutcome`: the terminal
  event is there exactly when the run is finalized, is the last one, agrees with
  the row, and follows the announcement of every artifact.
* **Execution.** `AcceptedIsProven`: a run is published only if its worker left
  of itself, the Runtime awaits the decision with a durable candidate and every
  journalled event is in the run's history. `WorkerBelieved`: conversely, only a
  failure, the user or one of the differences listed in `Divergent` makes the
  control plane give up a run whose worker completed. `CancelStops`: once a cancellation is answered no worker runs or
  will. `ExecutionEnds`: no ring of full pipes and withheld answers.
* **Storage.** `ArtifactsIntact`, `InputsKept`: visible artifacts and inputs keep
  their objects. `RowsLast`: rows outlive everything they name, so a purge that
  stopped anywhere can be repeated. `DeletedArePurged`, `OrphansCollected`: it
  comes to an end.
* **Progress.** `EveryRunSettles`, `CancelledRunSettles`.
* **Refinement.** `ImplementsStore`: every step of RunLifecycle is a RunStore
  transaction or leaves the rows alone. TLC checks it where it is cheapest, in
  `fake`; the theorem covers both providers. `ImplementsFeed`: RunEvents
  implements Feed, liveness included.

### Bounds, and why they are enough

*Two runs* are one in the slot and one that waits, or that was settled and whose
session may be destroyed; the slot serialises everything else, and what a third
run could meet is the state one of two leaves. *One conversation* lets the second
run continue the first, where `abort` could reach too far; *two* let the runs have
different heads, and one of them be deleted while the other is used. *One fault
and one crash* in the same behaviour reach every error path of the code, since
each path handles one error and returns to the loop. `liveness` and `storage` have
one failure of any kind, since with several the graph no longer fits a check of a
few minutes.

In RunEvents *two Runtime events* are one that is replayed and one that is new, and
*one drop* is one broken connection or restart at any point; a second reader shares nothing with the first but the log, and
the module's reader actions do not mention other readers. In Execution *pipes of
one place* are the tightest, so whoever can block does. The turns and outputs
named in MCExecution hold a sample of each class, each of those that may differ
between the two sides alone, so that a run cannot be excused by another; that the
two sides agree on every payload and set of outputs is a theorem. One event of a newer Runtime, of a type this control plane does not
know, stands for all. In Storage *one file per artifact* suffices, since an
artifact is whole or not, except in `inputs` and `names`, which have two. `purge`
has one failing call and no stop, crash or upload, which `storage` has.

The store run has no bound besides its constants and is proved for all values of
them. Deadlock is checked in the runs of RunLifecycle. In the others the system
may stop: when all runs are settled and all conversations deleted (`store`), the
history is closed and read (`events`), everything is purged (`storage`), the
execution has ended (`execution`); their configurations say so.

### Fairness

*RunLifecycle* assumes weak fairness of three things. The scheduler: its loop has
no exit besides process end, each of its steps is a call with a time limit or
local code, and no step needs another's permission. The cancel handler: the same,
under the request's context. The arrival of a request that was sent. That a worker
ends is not assumed: `EveryRunSettles` has it as its premise, and
`CancelledRunSettles` does without. *RunEvents*: a client reconnects
(`docs/architecture/runtime-protocol.md:40`), and a handler with something to send
or a ticker that is due is scheduled. *Execution*: each process is scheduled, takes its
steps without a failure having to help (`/\ NoFault`), and an SDK turn ends; nobody
has to cancel. *Storage*: the scheduler is scheduled, an
upload that has begun comes to an end, the purge command is run again. The waits
for the advisory lock are strongly fair, since PostgreSQL serves its queue first
come first served; with weak fairness alone a busy scheduler could keep the
scanner waiting for ever. Failures are never owed; they are bounded, as no system
settles anything under calls that fail for ever.

Three things are not promised by the code and are therefore not claimed. When
both the acknowledgement of a cancellation and the read that should confirm it
fail, nobody is signalled, and a hanging worker goes on until the user cancels
again; `liveness` has one failure. After a crash with the fake provider, a run
that was published and not yet finalized cannot be settled, because the session it
would commit is gone; the fake has no liveness run. When the database session that
holds the advisory lock dies, the publisher does not notice and the scanner may
take its objects; `docs/development/troubleshooting.md:42` only says that both share
the lock, and `ArtifactsIntact` and `InputsKept` are conditional on `Undisturbed`.

## 4. What is proved

Every safety property that a passing run checks is also a theorem, for any set of
runs, conversations, artifacts, inputs and readers, either provider, any pipe
size and any number of failures and crashes. What a theorem assumes beyond the
named assumptions of the modules stands in its row.

| Theorem | Statement |
|---|---|
| **The run rows** | |
| `StoreTypeCorrect`, `RowShapeCorrect` | the columns have their types and agree with each other |
| `SingleSlotCorrect` | one slot |
| `LinearHistoryCorrect`, `HeadSucceededCorrect` | the sessions of a conversation form a line, and the head is the last of it |
| `PromotedCorrect` | a published run is its conversation's head until finalized |
| `DeletedCorrect` | a deleted conversation keeps only settled runs |
| `OutcomeImmutableCorrect` | outcomes are final |
| **Scheduler, coordinator, Runtime** | |
| `TypeCorrect` | types of RunLifecycle |
| `LifecycleImplementsStore` | RunLifecycle implements RunStore |
| `LifecycleKeepsStore` | so all of the above holds of RunLifecycle |
| `DecisionAgreementCorrect` | the Runtime commits only what the database calls succeeded, and aborts only what it does not |
| `NoStrandedRunCorrect` | a running row is owned by the scheduler or will be looked at by its next pass |
| `StaleViewSafeCorrect` | rows and listings read earlier still tell the outcome that is acted on |
| `NeverPausedCorrect` | the scheduler is never stopped for manual inspection |
| `CommitAcceptedCorrect` | no commit of a published run is refused (Docker) |
| `HeadSessionKeptCorrect` | no abort takes the transcript of a head (Docker) |
| `SettledIsCleanCorrect` | a finalized run has left no execution and no lease (no late delivery) |
| `ExecuteAdmittedCorrect` | the Runtime is free when a request arrives (no late delivery) |
| `NoOrphanSessionCorrect` | no session outlives a run that did not succeed (no late delivery) |
| **Event history** | |
| `EventsTypeCorrect` | types of RunEvents |
| `LogGaplessCorrect` | sequences have no gap, and a Runtime event is recorded once |
| `LogTellsOutcomeCorrect` | the last event says how the run ended |
| `FeedSafety` | RunEvents implements the safety half of Feed |
| **Execution** | |
| `ExecutionTypeCorrect` | types of Execution, pipes within their bounds |
| `AcceptedIsProvenCorrect` | what is accepted ended well, is durable and is recorded in full |
| `CancelStopsCorrect` | after an answered cancellation no worker runs |
| `WorkerBelievedCorrect` | only a failure, the user or a difference in `Divergent` makes the control plane give up a run that completed |
| `PayloadsAgree` | every payload the Runtime's models accept the control plane's parser accepts |
| `OutputsAgree` | of the outputs the Runtime accepts, the control plane refuses exactly those with an undecodable name or a barred file |
| **Storage** | |
| `StorageTypeCorrect` | types of Storage |
| `ArtifactsIntactCorrect`, `InputsKeptCorrect` | what is listed has its objects, as long as nothing of `Undisturbed` happened |
| `RowsLastCorrect` | a purge removes rows after everything they name |

**RunStoreProofs.** `StoreBase` (types and `RowShape`) is inductive alone; it is
one invariant because a row has a conversation only if it exists. `SingleSlot`
then needs only that a claim is the one way into the slot (`SlotEntered`) and
requires it empty. `LinearHistory` and `HeadSucceeded` are inductive together
over `StoreBase`: the head moves only in `CommitProducts`, which compares the
source with the head it replaces, and the first clause of `LinearHistory` says
that sources are settled history, so no later run can share one. `HistoryWriters`
reduces the other transactions to *leaves history alone*. `PromotedUntilSettled`
needs both: two runs of a conversation could only disagree about the head if both
were in the slot.

**RunLifecycleProofs.** The inductive invariant is
`LifecycleBase == StoreBase /\ TypeOK`. `TypeOK` says more than types: wherever
`pc` is at a step that works on a run, `run` is one, and so is `cancel.run` while a
request is in progress. That is what lets a step's transaction be read as a step of
`StoreNext`; without it, `rows'` would be an update at an index outside the
table. `SchedulerImplements` and `StepImplements` go through the actions one by
one, and the store theorems transfer by PTL.

**RunAgreementProofs.** The nine properties that relate the database and the
Runtime support each other and are proved from one invariant,
`Agreement == LifecycleBase /\ StoreRight /\ DataRight /\ ControlRight`.

`DataRight` holds of every run. What the Runtime has of a run is of the run in
the slot, a late execution aside (`RuntimeInSlot`); it works on one execution at a time
(`AloneInRuntime`); a request under way is for a started run that has no
execution yet (`RequestsRight`); a published run can be committed
(`CommitsRight`); and every session belongs to a record that names it, with the
head in the baseline of whoever could abort (`SessionsRight`). The last one is
why `abort`, which deletes every session newer than the baseline, never reaches
another run's.

`ControlRight` holds of the scheduler. At every call that works on a run that run
is in the slot (`WorkInSlot`), the start-up flag is set whenever a row may be
residue (`ModeRight`), a request under way is its own unless late (`InflightRight`), what it
has just learnt of the Runtime is so (`RuntimeAtWork`, `ListingRight`), and the
views it carries through `finishLease` agree with the rows in what is decided by
them (`ViewsRight`, `DecisionAtWork`). The parts lean on each other in a circle:
`DecisionAgreement` needs `ViewsRight`, since `finishLease` decides by a row it
read earlier; that row is still right because the run is in the slot and in
nobody else's hands; and it stays in the slot because nothing acknowledges a run
before the Runtime has carried the decision out.

Most transactions (a message, an intent, a sandbox reference, a phase, a recorded
failure) are *quiet*: no run enters or leaves the slot, and none starts or stops
being a success. `Quiet` states it, and `QuietTx` shows it of all of them at
once. The steps that matter are then a claim, a reservation, a publication, the
decision in the Runtime, an acknowledgement, a crash and a late request.

Three of the theorems need that no abandoned request is served later
(`~Late`; with the fake provider none can be): the run `late_execute` refutes
`SettledIsClean` without it, and `ExecuteAdmitted` and `NoOrphanSession` fail in
the same way. The other six, `DecisionAgreement` and `NeverPaused` among them,
hold with late delivery: what such a request leaves behind blocks later runs, but
never leads to a wrong decision. Two need Docker, because the fake provider's crash forgets the
record and the session of a published run.

**RunEventsProofs.** `EventsRight` says what the log contains, given the row
(`LogRight`), and of each reader that it has a prefix of the log, that the bytes on
the wire continue it, and that the handler's `after` is where the wire ends
(`Follows`). A reconnection resumes at the cursor, which is the length of what was
received, so what was lost with its connection is sent again, and nothing is
handled twice. `FeedSafety` maps each step to one of Feed or to a stutter; the
acknowledgement, which appends the artifacts and the outcome in one transaction,
is a single `Publish`.

**ExecutionProofs.** `ExecutionRight == RuntimeRight /\ PlaneRight` follows an
exit from the worker to the verdict. On the Runtime's side: what the worker's
place implies for its status, what the manager concluded from it, when the record has a durable candidate and
awaits a decision, and that the journal is in order. On the control plane's side: the
client withholds the terminal event until the stream has ended, and what is
recorded is what the journal holds up to the client's offset, newer types left out
(`HistoryRight`). `AcceptedIsProven` is where the two meet.

**BelievedProofs** proves the converse: as long as nothing has failed and nobody
cancels, the pipeline of a worker on its way to completion has nothing in it that
anyone refuses (`RunSmooth`, `ClientGood`, `PumpGood`). It rests on the contract
theorems and on the fact that redaction turns no accepted payload into a refused
one, nor a `Clean` text into another kind. The theorem has no hypothesis: what the
worker said that someone behind its own checks may refuse is named in the property
(`Divergent`), and the invariant speaks of the behaviours without it (`Plain`).
`Plain` can only be lost: turns are never taken back and outputs are left alone
once they are offered (`PlainBefore`). None of the five clauses of `Divergent` can
be dropped; without any one of them TLC finds a run that is given up for it alone.

**StorageProofs.** `StorageRight` has one part per party: the rows, the executor
with its lock and publication, the Runtime's directories, the uploads, who may
hold the advisory lock, and how far the purge has got (`PurgeRight`: the runs
behind it are cleared). `ArtifactsIntact` is part of it and depends on the lock: a
scanner may delete what it listed because no publication can commit in between.
Both it and `InputsKept` speak of an `Undisturbed` system, one in which no lock
session and no acknowledgement of an input was lost; the run `inputs` shows
what the second does. `RowsLast` is an action property and follows from `PurgeRight` at the
one step that removes rows.

**ContractsProofs** compares two validators written in different languages. For
any object, a function from any set of fields to the classes of values, and any
list of artifacts, acceptance by `PayloadModel` is taken apart by event type and
each of the parser's conditions is found among the model's. The converse is
false, and need not hold: only the Runtime produces what the control plane
parses. `OutputsAgree` says where the two validators of outputs part: of what the
Runtime accepts, `ValidateManifest` refuses exactly the undecodable names and the
barred files.

The modules name these assumptions on their constants, and nothing else is
assumed: runs are positive naturals (identifiers, and the order of claims);
`NoConversation` is not a conversation, nor the project one; the provider is one of
two; `Artifacts` and `Inputs` are finite; the watched run is a run; a worker's
turns are of the types an agent may emit; a list of outputs exists only with a
manifest; bounds and budgets are naturals.

**Only model-checked:** liveness, which is outside the prover's reach:
`EveryRunSettles`, `CancelledRunSettles`, `ExecutionEnds`, `DeletedArePurged`,
`OrphansCollected`, and the liveness half of `ImplementsFeed`.

## 5. Findings

**`late_execute`** lets an execute request that the control plane has given up
arrive after all (`LateDelivery`; every other run drops it). A cancellation right
after the request is sent ends the stream with an error; `fail` records the
outcome, `abortLease` lists executions, finds none, releases, and
`AcknowledgeFinalized` settles the run. Then the Runtime serves the request and
reserves a live execution for a finalized run. `Reconcile` skips finalized rows
and known run ids, so nothing aborts it, and every later run is refused with
`runtime_busy`. The comment above `AcknowledgeFinalized` says it is called *only
after authoritative Runtime finalization and lease release*
(`coordinator_store.go:195`), and `docs/architecture/sandbox-provider.md:20` says a
network timeout must not be taken for absence. It depends on the Runtime serving
the abandoned request later than a listing sent after it on another connection,
which HTTP does not exclude. The damage is bounded: `RunAgreementProofs` shows that
even then the Runtime and the database never decide differently, no committed
session is lost (with Docker) and the scheduler does not pause.

In the other three, `design.md` is
`docs/superpowers/specs/2026-07-19-harness-forge-design.md`.

**`inputs`**: `UploadInput` deletes the object whenever `SaveInput` returns an
error (`projects/service.go:126`), also when the COMMIT took effect and only its
acknowledgement was lost. The input is then listed, its object is gone, and
`Materializer.Prepare` fails for every later run of the project; `design.md:539`
says that every input not deleted is materialized. `InputsKept` shows that it
takes such a loss.

**`names`**: the upload accepts a name with a backslash (`projects/service.go:108`)
and puts it into the object key; the purge refuses the key
(`cleanup/purge.go:123`). Once that project is deleted, the preflight of every
purge fails, and nothing of any project is purged any more. `design.md:333`
promises an idempotent command for which purging a project covers its children.

**`titles`**: `_publish` redacts every string of an event that looks like a
labelled value (`processes.py:277`), the artifact titles in the summary of
`agent.completed` included. The coordinator compares the summary with the
manifest on disk (`coordinator.go:135`) and fails the successful run with
`manifest_mismatch`, although `design.md:401` says that the event contains the
validated summary. No title of the `execution` run looks labelled.

### Where a completed run may be given up

The repository promises nowhere that both sides accept the same, so these are no
violated claims. They are what `WorkerBelieved` has to except (`Divergent`), and
each may fail a run whose worker completed although no call failed and nobody
cancelled:

* **A name that is not UTF-8.** `ValidRelativePath` begins with `fs.ValidPath`
  (`manifest.go:123`), which refuses it; `_valid_relative_path` looks at the
  spelling only, and `os.walk` returns such a name like any other. The run fails
  with `manifest_invalid`.
* **A file the control plane does not read.** `validate_artifacts` resolves a link
  by whatever way and accepts a regular file inside the outputs
  (`artifacts.py:38-42`), and looks at it without opening it. `ValidateManifest`
  opens everything under an `os.Root` (`manifest.go:42,60`), which refuses a link
  that is absolute, that leaves the outputs and comes back (`../outputs/x`) or that
  goes through more than eight others, and a file without read permission. A
  manifest that repeats a field, the first time with another JSON type, is the same
  kind of case: the Runtime's parser looks at the last one, `decodeStrict` at each.
* **A text with a U+0000.** Both parsers accept it, in a tool's input or an
  assistant's message as in a title; `run_events.payload` is jsonb and
  `messages.content` text (`00001_initial.sql:36,63`), which hold none, so the
  insert of `events.go:89` or `coordinator_store.go:110` fails and with it `pump`.
* **A labelled summary**: the finding `titles`.
* **A text near a limit.** The worker's line may be 4 MiB long
  (`processes.py:333`) and grows when redacted and numbered, while the client's
  scanner holds 4 MiB (`http.go:74`); deep nesting may exceed a parser or the
  recursion of `redact_payload`. The model lets each reader refuse it.

## 6. Plan

1. **RunEvents and Storage as users of the store**: that their steps are RunStore
   transactions too, which the lemmas of RunEventsProofs and StorageProofs say of
   single actions, as theorems `Spec => StoreSpec`. The purge of Storage also
   removes rows, which no action of RunStore does.
2. **SessionFiles**: buckets, staging copies and ownership markers of one execution,
   implementing RunLifecycle's `sessions`.
3. **Execution** as a refinement of the single steps that stand for it in
   RunLifecycle (`pump`, `drain`, the Runtime's record).

## 7. Not modelled

* **Profiles, start-up, postgres access and migrations**: read-only or over before
  any run exists. The allowed artifact types are a constant of Execution.
* **HTTP API and artifact gateway**: translation of requests into the services that
  are modelled; no state of its own. The event stream is in RunEvents.
* **Model gateway**: configuration of and call-backs into a third-party proxy.
* **Web application** besides the run-event client: display.
* **Session files** below *present or absent*: see the plan.
* **Projects** besides upload and deletion, **conversations** besides submission
  and deletion: creation, titles and listings touch nothing else.
* **Fake provider's** fixtures, scenarios and delays: a test double's data.
* **Sizes** in bytes of lines, bodies and files: a line that may be too long is the
  class *unwieldy*, a file that is the class *large*.
* **A second configured provider**: the refusal of rows recorded by another one is
  a check before anything happens.
