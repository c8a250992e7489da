---------------------------- MODULE RunLifecycle ----------------------------
(***************************************************************************)
(* The control plane driving runs to a settled outcome: the scheduler      *)
(* goroutine (Reconcile, ClaimNext, Execute and the lease cleanup they     *)
(* share), the HTTP cancellation of a run, the sandbox provider with the   *)
(* Runtime behind it, and the failures between them: calls that fail with  *)
(* or without having taken effect, a control plane that crashes at any     *)
(* step, a Runtime that restarts.  The database transactions are           *)
(* RunStore's; every step here is one call to another process, or the      *)
(* local decision that follows one.                                        *)
(***************************************************************************)
EXTENDS RunStore

CONSTANTS
    Provider,      \* "docker" or "fake": config.SandboxProvider
    LateDelivery,  \* may an abandoned execute request still reach the Runtime?
    MaxFaults,     \* calls that may fail over a behaviour
    MaxCrashes,    \* control-plane crashes and Runtime restarts over a behaviour
    MaxFailures    \* the two together

ASSUME ProviderAssumption == Provider \in {"docker", "fake"}
ASSUME LateDeliveryAssumption == LateDelivery \in BOOLEAN
ASSUME BudgetAssumption ==
    MaxFaults \in Nat /\ MaxCrashes \in Nat /\ MaxFailures \in 0 .. (MaxFaults + MaxCrashes)

VARIABLES
    exec,      \* [Runs -> Execution], the Runtime's execution records
    sessions,  \* the session transcripts the Runtime holds
    leases,    \* [Runs -> {"none", "held", "released"}], the fake provider's map
    inflight,  \* runs whose execute request is on its way
    pc,        \* where the scheduler goroutine is
    run,       \* the run it works on
    startup,   \* Scheduler.Run's flag: may the next Reconcile see crash residue?
    stopping,  \* has the context of the current Execute been cancelled?
    rec,       \* Reconcile's locals
    fin,       \* finishLease's locals
    cancel,    \* the one cancellation request in progress
    budget     \* faults and crashes still allowed

runtimeVars == <<exec, sessions, leases, inflight>>
schedVars == <<pc, run, startup, stopping, rec, fin>>
vars == <<storeVars, runtimeVars, schedVars, cancel, budget>>

(* lifecycle: "none" is no record and "live" is starting or running.       *)
(* candidate: how far the worker's session is acknowledged.  outcome: the  *)
(* terminal event of the event stream, "lost" once nobody can read it.     *)
Execution == [lifecycle : {"none", "live", "awaiting", "committed", "aborted"},
              candidate : {"none", "created", "durable"},
              outcome : {"none", "completed", "failed", "lost"},
              baseline : SUBSET Runs, source : Sessions]

NoExecution == [lifecycle |-> "none", candidate |-> "none", outcome |-> "none",
                baseline |-> {}, source |-> NoSession]

NoReconcile == [listed |-> {}, seen |-> [r \in Runs |-> NoRow], todo |-> {}, failed |-> FALSE]
NoFinish == [view |-> NoRow, caller |-> "nobody", found |-> "none"]
NoCancel == [at |-> "idle", run |-> NoRun]

Unfinalized(r) == exec[r].lifecycle \in {"live", "awaiting"}

ReconcilePcs == {"list", "snapshot", "visit", "attachFound", "absentRecord", "absentAck", "recover"}
FinishPcs == {"finish", "commitSession", "headSession", "abortList", "abortRecord", "abortCancel",
              "abortRelist", "abortSession", "acknowledge"}
ExecutePcs == {"prepare", "refresh", "intent", "acquire", "attach", "check", "send", "pump", "drain",
               "recheck", "validate", "publishing", "publish", "products", "promoted",
               "failAbsent", "failLease", "failBare", "failAck", "failRead"}
SchedulerPcs == {"claim", "register", "paused"}

(* Where the scheduler works on a particular run. *)
WorkingPcs ==
    FinishPcs \cup ExecutePcs \cup {"register", "attachFound", "absentRecord", "absentAck", "recover"}

Init ==
    /\ StoreInit
    /\ exec = [r \in Runs |-> NoExecution]
    /\ sessions = {}
    /\ leases = [r \in Runs |-> "none"]
    /\ inflight = {}
    /\ pc = "list" /\ run = NoRun /\ startup = TRUE /\ stopping = FALSE
    /\ rec = NoReconcile /\ fin = NoFinish
    /\ cancel = NoCancel
    /\ budget \in [faults : 0 .. MaxFaults, crashes : 0 .. MaxCrashes]
    /\ budget.faults + budget.crashes = MaxFailures

-----------------------------------------------------------------------------
(* Failing calls. *)

(* A call whose answer is an error although nothing refused it. *)
Fault == budget.faults > 0 /\ budget' = [budget EXCEPT !.faults = @ - 1]

(* The fake's leases and executions are in memory: those calls never fail. *)
RuntimeFault == Provider = "docker" /\ Fault

(* The same under Execute's context, where cancellation needs no fault. *)
ContextFault == IF stopping THEN UNCHANGED budget ELSE Fault

(* A transaction whose acknowledgement is lost may or may not be durable. *)
Unacknowledged(Tx) == Tx \/ UNCHANGED storeVars

-----------------------------------------------------------------------------
(* The Runtime: what the control plane can ask of it. *)

(* reserve of the execution store, and the fake provider's lease and       *)
(* source checks.                                                          *)
CanReserve(r) ==
    /\ \A q \in Runs : ~Unfinalized(q)
    /\ exec[r].lifecycle = "none"
    /\ Provider = "fake" =>
          /\ leases[r] = "held"
          /\ rows[r].source # NoSession => rows[r].source \in sessions

(* Slip: a source that may be absent is put into the baseline. *)
ReservedWithSource(r) ==
    [NoExecution EXCEPT !.lifecycle = "live", !.source = rows[r].source,
                        !.baseline = sessions \cup {rows[r].source}]

Reserved(r) ==
    [NoExecution EXCEPT !.lifecycle = "live", !.source = rows[r].source,
                        !.baseline = sessions]

(* The execute request arrives: a record is reserved, or 409 goes back. *)
ExecuteArrives(r) ==
    /\ r \in inflight
    /\ inflight' = inflight \ {r}
    /\ exec' = IF CanReserve(r) THEN [exec EXCEPT ![r] = Reserved(r)] ELSE exec
    /\ UNCHANGED <<storeVars, schedVars, sessions, leases, cancel, budget>>

(* The worker's transcript appears on disk, continuing the source's if     *)
(* there is one; the fake keeps the sessions it has committed only.        *)
SessionOpened(r) ==
    /\ Provider = "docker" /\ exec[r].lifecycle = "live" /\ r \notin sessions
    /\ exec[r].source # NoSession => exec[r].source \in sessions
    /\ sessions' = sessions \cup {r}
    /\ UNCHANGED <<storeVars, schedVars, exec, leases, inflight, cancel, budget>>

(* The worker's control messages, each recorded before it is acknowledged. *)
(* Of the fake, "created" is the phase event and "durable" the completed   *)
(* candidate.                                                              *)
CandidateCreated(r) ==
    /\ exec[r].lifecycle = "live" /\ exec[r].candidate = "none"
    /\ Provider = "docker" => r \in sessions
    /\ exec' = [exec EXCEPT ![r].candidate = "created"]
    /\ UNCHANGED <<storeVars, schedVars, sessions, leases, inflight, cancel, budget>>

CandidateDurable(r) ==
    /\ exec[r].lifecycle = "live" /\ exec[r].candidate = "created"
    /\ Provider = "docker" => r \in sessions
    /\ exec' = [exec EXCEPT ![r].candidate = "durable"]
    /\ UNCHANGED <<storeVars, schedVars, sessions, leases, inflight, cancel, budget>>

(* The worker's process group is gone: its terminal event is published,    *)
(* then the record awaits a decision.                                      *)
WorkerEnds(r) ==
    /\ exec[r].lifecycle = "live"
    /\ \E outcome \in {"completed", "failed"} :
          /\ outcome = "completed" => exec[r].candidate = "durable"
          /\ exec' = [exec EXCEPT ![r].lifecycle = "awaiting", ![r].outcome = outcome]
    /\ UNCHANGED <<storeVars, schedVars, sessions, leases, inflight, cancel, budget>>

(* POST cancel: stop the worker and wait for its record to await. *)
Stopped(r) ==
    IF exec[r].lifecycle = "live"
    THEN [exec EXCEPT ![r].lifecycle = "awaiting", ![r].outcome = "failed"]
    ELSE exec

(* finalize(commit) needs a candidate that is durable and still there. *)
CommitReady(r) ==
    exec[r].candidate = "durable" /\ (Provider = "docker" => r \in sessions)

(* What finalize(decision) answers: 204, 404 or 409. *)
FinalizeAnswer(r, decided) ==
    CASE exec[r].lifecycle = "none" -> "notFound"
      [] exec[r].lifecycle = decided -> "ok"
      [] exec[r].lifecycle = "awaiting" /\ (decided = "committed" => CommitReady(r)) -> "ok"
      [] OTHER -> "conflict"

Decided(r, decided) == [exec EXCEPT ![r].lifecycle = decided]

SessionsAfterCommit(r) == IF Provider = "docker" THEN sessions ELSE sessions \cup {r}

(* Slip: the resumed session is taken for the run's own. *)
SessionsAfterAbortOfSource(r) == sessions \ {r, exec[r].source}

(* Slip: abort deletes an acknowledged durable candidate only. *)
SessionsAfterAbortOfDurable(r) ==
    IF exec[r].candidate = "durable" THEN sessions \ {r} ELSE sessions

(* abort deletes whatever appeared since the reservation. *)
SessionsAfterAbort(r) ==
    IF Provider = "docker"
    THEN sessions \cap (exec[r].baseline \cup {exec[r].source})
    ELSE sessions \ {r}

(* Provider.List: the Docker provider lists unfinalized executions, the    *)
(* fake its leases that are not released.                                  *)
Listed == {r \in Runs : IF Provider = "docker" THEN Unfinalized(r) ELSE leases[r] = "held"}

Release(r) ==
    leases' = IF Provider = "docker" THEN leases ELSE [leases EXCEPT ![r] = "released"]

-----------------------------------------------------------------------------
(* The scheduler goroutine: where control goes next. *)

Goto(label) == pc' = label /\ UNCHANGED <<run, startup, stopping, rec, fin>>

(* Back to the top of Scheduler.Run, Execute's locals and its entry in the *)
(* coordinator's active map gone.                                          *)
LoopAgain(residue) ==
    /\ pc' = "list" /\ run' = NoRun /\ startup' = residue /\ stopping' = FALSE
    /\ rec' = NoReconcile /\ fin' = NoFinish

(* ErrConsistency: wait for the end of the process. *)
Pause ==
    /\ pc' = "paused" /\ run' = NoRun /\ startup' = TRUE /\ stopping' = FALSE
    /\ rec' = NoReconcile /\ fin' = NoFinish

(* Reconcile goes on to the next retained run, remembering an error. *)
NextVisit(failed) ==
    /\ pc' = "visit" /\ run' = NoRun /\ fin' = NoFinish
    /\ rec' = [rec EXCEPT !.seen[run] = NoRow, !.todo = @ \ {run}, !.failed = @ \/ failed]
    /\ UNCHANGED <<startup, stopping>>

FinishLease(row, caller) ==
    /\ pc' = "finish" /\ fin' = [view |-> row, caller |-> caller, found |-> "none"]
    /\ UNCHANGED <<run, startup, stopping, rec>>

(* finishLease returns to Execute (its success path, or fail, which        *)
(* returns an error whatever cleanup says) or to Reconcile.                *)
FinishReturns(failed) ==
    CASE fin.caller = "reconcile" -> NextVisit(failed)
      [] fin.caller = "unpromoted" -> Pause
      [] OTHER -> LoopAgain(failed \/ fin.caller = "failure")

-----------------------------------------------------------------------------
(* finishLease and abortLease of reconcile.go. *)

(* A run whose products are published can only be committed. *)
Published(view) == view.status = "succeeded"

Finish ==
    /\ pc = "finish"
    /\ IF fin.view.conflict \/ fin.view.status \in {"none", "queued"}
       THEN Pause /\ UNCHANGED budget
       ELSE IF ~Published(fin.view)
       THEN Goto("abortList") /\ UNCHANGED budget
       ELSE \/ /\ IF rows[run].candidate = head[rows[run].conv]
                  THEN Goto("commitSession")
                  ELSE /\ pc' = "abortList" /\ fin' = [fin EXCEPT !.caller = "unpromoted"]
                       /\ UNCHANGED <<run, startup, stopping, rec>>
               /\ UNCHANGED budget
            \/ Fault /\ FinishReturns(TRUE)
    /\ UNCHANGED <<storeVars, runtimeVars, cancel>>

CommitSession ==
    /\ pc = "commitSession"
    /\ LET answer == FinalizeAnswer(run, "committed")
           commits == /\ exec' = Decided(run, "committed")
                      /\ sessions' = IF exec[run].lifecycle = "awaiting"
                                     THEN SessionsAfterCommit(run) ELSE sessions
       IN  \/ answer = "ok" /\ commits /\ Goto("headSession") /\ UNCHANGED budget
           \/ answer = "notFound" /\ FinishReturns(TRUE) /\ UNCHANGED <<exec, sessions, budget>>
           \/ answer = "conflict" /\ Pause /\ UNCHANGED <<exec, sessions, budget>>
           \/ /\ RuntimeFault /\ FinishReturns(TRUE)
              /\ (answer = "ok" /\ commits) \/ UNCHANGED <<exec, sessions>>
    /\ UNCHANGED <<storeVars, leases, inflight, cancel>>

HeadSession ==
    /\ pc = "headSession"
    /\ \/ /\ fin.view.candidate \in sessions
          /\ Release(run) /\ Goto("acknowledge") /\ UNCHANGED budget
       \/ /\ fin.view.candidate \notin sessions
          /\ FinishReturns(TRUE) /\ UNCHANGED <<leases, budget>>
       \/ RuntimeFault /\ FinishReturns(TRUE) /\ UNCHANGED leases
    /\ UNCHANGED <<storeVars, exec, sessions, inflight, cancel>>

(* Slip: an execution that still works is not taken for one. *)
FoundAwaiting(r) == IF exec[r].lifecycle = "awaiting" THEN "awaiting" ELSE "none"

(* Slip: every execution is taken to await a decision. *)
FoundStopped(r) == IF Unfinalized(r) THEN "awaiting" ELSE "none"

(* Slip: an execution that awaits its decision is not listed. *)
FoundRunning(r) == IF exec[r].lifecycle = "live" THEN "live" ELSE "none"

(* The execution as ListExecutions shows it. *)
FoundExecution(r) == IF Unfinalized(r) THEN exec[r].lifecycle ELSE "none"

(* What abortLease does once the worker is known to have stopped: finalize *)
(* a record it found, or release and acknowledge.                          *)
AfterStop(found) == IF found = "none" THEN "acknowledge" ELSE "abortSession"

AbortList ==
    /\ pc = "abortList"
    /\ LET found == FoundExecution(run)
           next == IF fin.view.status = "running" THEN "abortRecord"
                   ELSE IF found = "live" THEN "abortCancel" ELSE AfterStop(found)
       IN  \/ /\ pc' = next /\ fin' = [fin EXCEPT !.found = found]
              /\ IF next = "acknowledge" THEN Release(run) ELSE UNCHANGED leases
              /\ UNCHANGED <<run, startup, stopping, rec, budget>>
           \/ RuntimeFault /\ FinishReturns(TRUE) /\ UNCHANGED leases
    /\ UNCHANGED <<storeVars, exec, sessions, inflight, cancel>>

AbortRecord ==
    /\ pc = "abortRecord"
    /\ LET next == IF fin.found = "live" THEN "abortCancel" ELSE AfterStop(fin.found)
       IN  \/ /\ RecordFailure(run, "interrupted") /\ Goto(next)
              /\ IF next = "acknowledge" THEN Release(run) ELSE UNCHANGED leases
              /\ UNCHANGED budget
           \/ /\ ~CanRecordFailure(run, "interrupted") /\ FinishReturns(TRUE)
              /\ UNCHANGED <<storeVars, leases, budget>>
           \/ /\ Fault /\ FinishReturns(TRUE)
              /\ Unacknowledged(RecordFailure(run, "interrupted")) /\ UNCHANGED leases
    /\ UNCHANGED <<exec, sessions, inflight, cancel>>

AbortCancel ==
    /\ pc = "abortCancel"
    /\ \/ exec' = Stopped(run) /\ Goto("abortRelist") /\ UNCHANGED budget
       \/ exec' \in {exec, Stopped(run)} /\ Fault /\ FinishReturns(TRUE)
    /\ UNCHANGED <<storeVars, sessions, leases, inflight, cancel>>

AbortRelist ==
    /\ pc = "abortRelist"
    /\ \/ exec[run].lifecycle # "live" /\ Goto("abortSession") /\ UNCHANGED budget
       \/ exec[run].lifecycle = "live" /\ FinishReturns(TRUE) /\ UNCHANGED budget
       \/ RuntimeFault /\ FinishReturns(TRUE)
    /\ UNCHANGED <<storeVars, runtimeVars, cancel>>

(* finalize(abort): the sessions go first, then the record, and a failure  *)
(* may fall between the two.                                               *)
AbortSession ==
    /\ pc = "abortSession"
    /\ LET answer == FinalizeAnswer(run, "aborted")
           prune == sessions' = IF exec[run].lifecycle = "awaiting"
                                THEN SessionsAfterAbort(run) ELSE sessions
       IN  \/ /\ answer = "ok" /\ exec' = Decided(run, "aborted") /\ prune
              /\ Release(run) /\ Goto("acknowledge")
              /\ UNCHANGED <<storeVars, budget>>
           \/ /\ answer = "notFound" /\ FinishReturns(TRUE)
              /\ UNCHANGED <<storeVars, exec, sessions, leases, budget>>
           \/ /\ answer = "conflict" /\ Pause
              /\ \/ MarkConsistency(run) /\ UNCHANGED budget
                 \/ Fault /\ Unacknowledged(MarkConsistency(run))
              /\ UNCHANGED <<exec, sessions, leases>>
           \/ /\ RuntimeFault /\ FinishReturns(TRUE)
              /\ \/ UNCHANGED <<exec, sessions>>
                 \/ answer = "ok" /\ prune /\ exec' \in {exec, Decided(run, "aborted")}
              /\ UNCHANGED <<storeVars, leases>>
    /\ UNCHANGED <<inflight, cancel>>

Acknowledge ==
    /\ pc = "acknowledge"
    /\ IF fin.caller = "unpromoted"
       THEN Pause /\ UNCHANGED <<storeVars, budget>>
       ELSE \/ AcknowledgeFinalized(run) /\ FinishReturns(FALSE) /\ UNCHANGED budget
            \/ /\ ~CanAcknowledge(run) /\ FinishReturns(TRUE)
               /\ UNCHANGED <<storeVars, budget>>
            \/ /\ Fault /\ FinishReturns(TRUE)
               /\ Unacknowledged(AcknowledgeFinalized(run))
    /\ UNCHANGED <<runtimeVars, cancel>>

FinishLeaseNext ==
    \/ Finish \/ CommitSession \/ HeadSession
    \/ AbortList \/ AbortRecord \/ AbortCancel \/ AbortRelist \/ AbortSession
    \/ Acknowledge
-----------------------------------------------------------------------------
(* Execute of coordinator.go.  A step under Execute's own context cannot   *)
(* succeed once that context is cancelled.                                 *)

(* One transaction under Execute's context: it commits and control goes on *)
(* to ok, it is refused, or its error hides whether it committed; the last *)
(* two end in the named arm of fail.                                       *)
ContextTx(at, Tx, refused, ok, failure) ==
    /\ pc = at
    /\ \/ ~stopping /\ Tx /\ Goto(ok) /\ UNCHANGED budget
       \/ refused /\ Goto(failure) /\ UNCHANGED <<storeVars, budget>>
       \/ ContextFault /\ Unacknowledged(Tx) /\ Goto(failure)
    /\ UNCHANGED <<runtimeVars, cancel>>

(* A step under Execute's context that reads, or writes elsewhere.         *)
ContextRead(at, holds, ok, failure) ==
    /\ pc = at
    /\ \/ ~stopping /\ holds /\ Goto(ok) /\ UNCHANGED budget
       \/ ~holds /\ Goto(failure) /\ UNCHANGED budget
       \/ ContextFault /\ Goto(failure)
    /\ UNCHANGED <<storeVars, runtimeVars, cancel>>

(* The run enters the active map; only now can a cancellation reach it.    *)
Register ==
    /\ pc = "register" /\ Goto("prepare")
    /\ UNCHANGED <<storeVars, runtimeVars, cancel, budget>>

(* LoadContext, ResolveVersion, ListInputs and Prepare: any of them may    *)
(* find the run unfit to start.                                            *)
Prepare ==
    \E fit \in BOOLEAN :
        ContextRead("prepare", fit /\ ~deleted[rows[run].conv], "refresh", "failAbsent")

Refresh == ContextTx("refresh", RefreshSource(run), ~CanRefreshSource(run), "intent", "failAbsent")

Intent ==
    ContextTx("intent", BeginSandboxAcquire(run), ~CanBeginSandboxAcquire(run),
              "acquire", "failAbsent")

(* Neither provider ever answers outcome-unknown: a failed Acquire is      *)
(* definite, and the sandbox absent.                                       *)
Acquire ==
    /\ pc = "acquire"
    /\ \/ /\ ~stopping /\ Goto("attach") /\ UNCHANGED budget
          /\ leases' = IF Provider = "fake" /\ leases[run] = "none"
                       THEN [leases EXCEPT ![run] = "held"] ELSE leases
       \/ /\ stopping \/ Provider = "docker"
          /\ ContextFault /\ Goto("failAbsent") /\ UNCHANGED leases
    /\ UNCHANGED <<storeVars, exec, sessions, inflight, cancel>>

Attach ==
    ContextTx("attach", AttachSandboxRef(run), ~CanAttachSandboxRef(run), "check", "failBare")

Check == ContextRead("check", rows[run].status = "running", "send", "failLease")

Send ==
    /\ pc = "send" /\ Goto("pump")
    /\ inflight' = inflight \cup {run}
    /\ UNCHANGED <<storeVars, exec, sessions, leases, cancel, budget>>

(* The phase.changed event the worker emits with its candidate is still to *)
(* be recorded; an outcome recorded meanwhile makes it void.               *)
PhaseDue ==
    /\ pc = "pump" /\ exec[run].candidate # "none"
    /\ rows[run].status = "running" /\ rows[run].phase = "preparing"

PumpPhase ==
    /\ PhaseDue
    /\ \/ RecordPhase(run, "agent") /\ UNCHANGED <<schedVars, budget>>
       \/ Fault /\ Unacknowledged(RecordPhase(run, "agent")) /\ Goto("drain")
    /\ UNCHANGED <<runtimeVars, cancel>>

(* Any other event of a working agent that cannot be parsed or recorded.   *)
PumpEventLost ==
    /\ pc = "pump" /\ exec[run].candidate # "none" /\ ~PhaseDue
    /\ Fault /\ Goto("drain")
    /\ UNCHANGED <<storeVars, runtimeVars, cancel>>

(* The terminal event, delivered after a clean end of the stream; after an *)
(* earlier error the stream is drained and the execution has failed.       *)
PumpTerminal ==
    /\ pc \in {"pump", "drain"} /\ ~PhaseDue
    /\ exec[run].lifecycle = "awaiting"
    /\ \/ /\ exec[run].outcome = "completed" /\ UNCHANGED storeVars
          /\ \/ Goto(IF pc = "pump" THEN "recheck" ELSE "failLease") /\ UNCHANGED budget
             \/ Fault /\ Goto("failLease")
       \/ /\ exec[run].outcome = "failed" /\ Goto("failLease")
          /\ \/ RecordAgentFailed(run) /\ UNCHANGED budget
             \/ Fault /\ Unacknowledged(RecordAgentFailed(run))
    /\ UNCHANGED <<runtimeVars, cancel>>

(* No terminal event can come any more. *)
StreamBroken ==
    \/ run \notin inflight /\ exec[run].lifecycle = "none"
    \/ exec[run].outcome = "lost"

(* The stream ends without one: refused, broken, or given up because the   *)
(* context was cancelled.  A request still on its way then is lost, unless *)
(* it may arrive late.  The fake's stream ends after its goroutine has.    *)
PumpError ==
    /\ pc \in {"pump", "drain"}
    /\ IF StreamBroken THEN UNCHANGED budget ELSE ContextFault
    /\ Provider = "fake" => exec[run].lifecycle # "live"
    /\ inflight' = IF LateDelivery /\ Provider = "docker" THEN inflight ELSE inflight \ {run}
    /\ Goto("failLease")
    /\ UNCHANGED <<storeVars, exec, sessions, leases, cancel>>

Recheck == ContextRead("recheck", rows[run].status = "running", "validate", "failLease")

(* SyncBack, ValidateManifest and the comparison with what was declared. *)
Validate == \E valid \in BOOLEAN : ContextRead("validate", valid, "publishing", "failLease")

Publishing ==
    ContextTx("publishing", SetPhase(run, "publishing"), ~CanSetPhase(run, "publishing"),
              "publish", "failLease")

(* publisher.Prepare: the upload of the outputs. *)
Publish == ContextRead("publish", TRUE, "products", "failLease")

(* Slip: the session is promoted by a later transaction. *)
ProductsUnpromoted ==
    ContextTx("products", CommitProductsUnpromoted(run), ~CanCommitProducts(run),
              "promoted", "failLease")

Products ==
    ContextTx("products", CommitProducts(run), ~CanCommitProducts(run), "promoted", "failLease")

Promoted ==
    /\ pc = "promoted"
    /\ \/ FinishLease(rows[run], "success") /\ UNCHANGED budget
       \/ Fault /\ LoopAgain(TRUE)
    /\ UNCHANGED <<storeVars, runtimeVars, cancel>>

(* fail: the outcome is recorded first, under a context of its own; then   *)
(* the absent sandbox is acknowledged, or the lease finished, or nothing.  *)
AfterFailure == [failAbsent |-> "failAck", failLease |-> "failRead", failBare |-> "list"]

Fail ==
    /\ pc \in DOMAIN AfterFailure
    /\ \/ /\ RecordFailure(run, "failed") /\ UNCHANGED budget
          /\ IF AfterFailure[pc] = "list" THEN LoopAgain(TRUE) ELSE Goto(AfterFailure[pc])
       \/ /\ ~CanRecordFailure(run, "failed") /\ LoopAgain(TRUE)
          /\ UNCHANGED <<storeVars, budget>>
       \/ /\ Fault /\ LoopAgain(TRUE)
          /\ Unacknowledged(RecordFailure(run, "failed"))
    /\ UNCHANGED <<runtimeVars, cancel>>

FailAcknowledge ==
    /\ pc = "failAck" /\ LoopAgain(TRUE)
    /\ \/ AcknowledgeFinalized(run) /\ UNCHANGED budget
       \/ Fault /\ Unacknowledged(AcknowledgeFinalized(run))
    /\ UNCHANGED <<runtimeVars, cancel>>

(* Slip: cleanup goes by the outcome fail meant to record. *)
FailReadAssumed ==
    /\ pc = "failRead"
    /\ FinishLease([rows[run] EXCEPT !.status = "failed"], "failure")
    /\ UNCHANGED <<storeVars, runtimeVars, cancel, budget>>

FailRead ==
    /\ pc = "failRead"
    /\ \/ FinishLease(rows[run], "failure") /\ UNCHANGED budget
       \/ Fault /\ LoopAgain(TRUE)
    /\ UNCHANGED <<storeVars, runtimeVars, cancel>>

ExecuteNext ==
    \/ Register \/ Prepare \/ Refresh \/ Intent \/ Acquire \/ Attach \/ Check \/ Send
    \/ PumpPhase \/ PumpEventLost \/ PumpTerminal \/ PumpError \/ Recheck \/ Validate \/ Publishing
    \/ Publish \/ Products \/ Promoted \/ Fail \/ FailAcknowledge \/ FailRead

-----------------------------------------------------------------------------
(* Reconcile of reconcile.go.  Its queries precede everything it does, so  *)
(* it works on a listing and on rows that may have changed since.          *)

List ==
    /\ pc = "list"
    /\ \/ /\ pc' = "snapshot" /\ rec' = [rec EXCEPT !.listed = Listed]
          /\ UNCHANGED <<run, startup, stopping, fin, budget>>
       \/ RuntimeFault /\ UNCHANGED schedVars
    /\ UNCHANGED <<storeVars, runtimeVars, cancel>>

(* Slip: running rows are skipped on the first pass too. *)
RetainedTerminal(terminalOnly) ==
    {r \in Runs : InSlot(r) /\ terminalOnly \in BOOLEAN /\ rows[r].status \in Terminal}

Retained(terminalOnly) ==
    {r \in Runs : InSlot(r) /\ (terminalOnly => rows[r].status \in Terminal)}

Snapshot ==
    /\ pc = "snapshot"
    /\ \/ /\ pc' = "visit"
          /\ LET retained == Retained(~startup)
             IN  rec' = [rec EXCEPT !.todo = retained,
                                    !.seen = [r \in Runs |-> IF r \in retained THEN rows[r]
                                                             ELSE NoRow]]
          /\ UNCHANGED <<run, startup, stopping, fin, budget>>
       \/ Fault /\ LoopAgain(startup)
    /\ UNCHANGED <<storeVars, runtimeVars, cancel>>

(* Slip: a resource without a ref is a conflict, whatever was intended. *)
FirstStepUnadopted(r) ==
    LET seen == rec.seen[r]
    IN  CASE seen.ref /\ ~seen.conflict -> "recover"
          [] ~seen.ref /\ r \notin rec.listed /\ seen.status = "running" -> "absentRecord"
          [] ~seen.ref /\ r \notin rec.listed /\ seen.status \notin {"running", "succeeded"} ->
                "absentAck"
          [] OTHER -> "paused"

(* What Reconcile does first with a retained run, from its stale view. *)
FirstStep(r) ==
    LET seen == rec.seen[r]
    IN  IF seen.conflict THEN "paused"
        ELSE IF seen.ref THEN "recover"
        ELSE IF r \in rec.listed THEN IF seen.provider THEN "attachFound" ELSE "paused"
        ELSE CASE seen.status = "succeeded" -> "paused"
               [] seen.status = "running" -> "absentRecord"
               [] OTHER -> "absentAck"

Visit ==
    /\ pc = "visit" /\ rec.todo # {}
    /\ \E r \in rec.todo :
          /\ \A q \in rec.todo : r <= q
          /\ IF FirstStep(r) = "paused"
             THEN Pause
             ELSE /\ run' = r /\ pc' = FirstStep(r)
                  /\ UNCHANGED <<startup, stopping, rec, fin>>
    /\ UNCHANGED <<storeVars, runtimeVars, cancel, budget>>

(* An error of any run keeps the scheduler reconciling; a clean pass lets  *)
(* it claim, and ends the start-up mode.                                   *)
ReconcileReturns ==
    /\ pc = "visit" /\ rec.todo = {}
    /\ IF rec.failed
       THEN LoopAgain(startup)
       ELSE /\ pc' = "claim" /\ startup' = FALSE /\ rec' = NoReconcile
            /\ UNCHANGED <<run, stopping, fin>>
    /\ UNCHANGED <<storeVars, runtimeVars, cancel, budget>>

AttachFound ==
    /\ pc = "attachFound"
    /\ \/ AttachSandboxRef(run) /\ Goto("recover") /\ UNCHANGED budget
       \/ /\ ~CanAttachSandboxRef(run) /\ LoopAgain(startup)
          /\ UNCHANGED <<storeVars, budget>>
       \/ Fault /\ LoopAgain(startup) /\ Unacknowledged(AttachSandboxRef(run))
    /\ UNCHANGED <<runtimeVars, cancel>>

(* A recovered lease is finished; one the provider has never heard of is   *)
(* evidence of absence, except for a run whose products are published.     *)
AfterAbsence(r) == IF rec.seen[r].status = "running" THEN "absentRecord" ELSE "absentAck"

Recover ==
    /\ pc = "recover"
    /\ \/ /\ Provider = "docker" \/ leases[run] # "none"
          /\ FinishLease([rec.seen[run] EXCEPT !.ref = TRUE], "reconcile") /\ UNCHANGED budget
       \/ /\ Provider = "fake" /\ leases[run] = "none"
          /\ IF run \notin rec.listed /\ rec.seen[run].status # "succeeded"
             THEN Goto(AfterAbsence(run)) ELSE NextVisit(TRUE)
          /\ UNCHANGED budget
       \/ RuntimeFault /\ NextVisit(TRUE)
    /\ UNCHANGED <<storeVars, runtimeVars, cancel>>

AbsentRecord ==
    /\ pc = "absentRecord"
    /\ \/ RecordFailure(run, "interrupted") /\ Goto("absentAck") /\ UNCHANGED budget
       \/ /\ ~CanRecordFailure(run, "interrupted") /\ NextVisit(TRUE)
          /\ UNCHANGED <<storeVars, budget>>
       \/ Fault /\ NextVisit(TRUE) /\ Unacknowledged(RecordFailure(run, "interrupted"))
    /\ UNCHANGED <<runtimeVars, cancel>>

AbsentAcknowledge ==
    /\ pc = "absentAck"
    /\ \/ AcknowledgeFinalized(run) /\ NextVisit(FALSE) /\ UNCHANGED budget
       \/ /\ ~CanAcknowledge(run) /\ NextVisit(TRUE) /\ UNCHANGED <<storeVars, budget>>
       \/ Fault /\ NextVisit(TRUE) /\ Unacknowledged(AcknowledgeFinalized(run))
    /\ UNCHANGED <<runtimeVars, cancel>>

ReconcileNext ==
    \/ List \/ Snapshot \/ Visit \/ ReconcileReturns \/ AttachFound \/ Recover
    \/ AbsentRecord \/ AbsentAcknowledge

-----------------------------------------------------------------------------
(* ClaimNext as the scheduler calls it.  A queued row that a cancellation  *)
(* is writing is locked, and skipped.                                      *)

LockedRows == IF cancel.at = "queued" THEN {{}, {cancel.run}} ELSE {{}}

(* Slip: a failed claim leaves the start-up flag alone. *)
ClaimKeepingMode ==
    /\ pc = "claim"
    /\ \E locked \in LockedRows, r \in Runs :
          \/ /\ ClaimNext(r, locked) /\ run' = r /\ pc' = "register"
             /\ UNCHANGED <<startup, stopping, rec, fin, budget>>
          \/ (\A q \in Runs : ~CanClaim(q, locked)) /\ LoopAgain(FALSE)
             /\ UNCHANGED <<storeVars, budget>>
          \/ Fault /\ LoopAgain(FALSE) /\ Unacknowledged(ClaimNext(r, locked))
    /\ UNCHANGED <<runtimeVars, cancel>>

Claim ==
    /\ pc = "claim"
    /\ \E locked \in LockedRows, r \in Runs :
          \/ /\ ClaimNext(r, locked) /\ run' = r /\ pc' = "register"
             /\ UNCHANGED <<startup, stopping, rec, fin, budget>>
          \/ /\ \A q \in Runs : ~CanClaim(q, locked)
             /\ LoopAgain(FALSE) /\ UNCHANGED <<storeVars, budget>>
          \/ Fault /\ LoopAgain(TRUE) /\ Unacknowledged(ClaimNext(r, locked))
    /\ UNCHANGED <<runtimeVars, cancel>>

SchedulerNext == ReconcileNext \/ Claim \/ ExecuteNext \/ FinishLeaseNext

-----------------------------------------------------------------------------
(* Cancellation over HTTP: Canceller.Cancel, then Coordinator.Cancel.  One *)
(* request at a time; a request may be repeated at will.                   *)

Reads(r) ==
    CASE rows[r].status = "queued" -> "queued"
      [] rows[r].status = "cancelled" /\ ~rows[r].finalized -> "record"
      [] rows[r].status = "running" /\ rows[r].phase # "publishing" /\ ~rows[r].finalized -> "record"
      [] OTHER -> "idle"

CancelGoes(r, at) == cancel' = IF at = "idle" THEN NoCancel ELSE [at |-> at, run |-> r]

CancelRequested(r) ==
    /\ cancel.at = "idle" /\ Reads(r) # "idle"
    /\ CancelGoes(r, Reads(r))
    /\ UNCHANGED <<storeVars, runtimeVars, schedVars, budget>>

(* CancelQueued, or the second Read if the scheduler has claimed the row. *)
CancelQueuedRow ==
    /\ cancel.at = "queued"
    /\ \/ CancelQueued(cancel.run) /\ cancel' = NoCancel /\ UNCHANGED budget
       \/ /\ ~CanCancelQueued(cancel.run)
          /\ CancelGoes(cancel.run, IF Reads(cancel.run) = "record" THEN "record" ELSE "idle")
          /\ UNCHANGED <<storeVars, budget>>
       \/ Fault /\ cancel' = NoCancel /\ Unacknowledged(CancelQueued(cancel.run))
    /\ UNCHANGED <<runtimeVars, schedVars>>

(* The outcome is recorded before anything is stopped; an error there is   *)
(* settled by reading the row again.                                       *)
CancelRecorded ==
    /\ cancel.at = "record"
    /\ \/ /\ RecordFailure(cancel.run, "cancelled") /\ UNCHANGED budget
          /\ CancelGoes(cancel.run,
                        IF rows'[cancel.run].status = "cancelled" THEN "signal" ELSE "idle")
       \/ /\ ~CanRecordFailure(cancel.run, "cancelled") /\ CancelGoes(cancel.run, "confirm")
          /\ UNCHANGED <<storeVars, budget>>
       \/ /\ Fault /\ CancelGoes(cancel.run, "confirm")
          /\ Unacknowledged(RecordFailure(cancel.run, "cancelled"))
    /\ UNCHANGED <<runtimeVars, schedVars>>

CancelConfirmed ==
    /\ cancel.at = "confirm"
    /\ \/ /\ CancelGoes(cancel.run, IF rows[cancel.run].status = "cancelled" THEN "signal" ELSE "idle")
          /\ UNCHANGED budget
       \/ Fault /\ cancel' = NoCancel
    /\ UNCHANGED <<storeVars, runtimeVars, schedVars>>

(* The coordinator's active map holds the run Execute works on. *)
Active(r) ==
    /\ run = r
    /\ pc \in ExecutePcs \/ (pc \in FinishPcs /\ fin.caller \in {"success", "failure"})

(* Slip: the cancel function is looked up and never called. *)
CancelSignalledNoOne ==
    /\ cancel.at = "signal" /\ cancel' = NoCancel
    /\ UNCHANGED <<storeVars, runtimeVars, schedVars, budget>>

CancelSignalled ==
    /\ cancel.at = "signal" /\ cancel' = NoCancel
    /\ stopping' = (stopping \/ Active(cancel.run))
    /\ UNCHANGED <<storeVars, runtimeVars, pc, run, startup, rec, fin, budget>>

CancelNext == CancelQueuedRow \/ CancelRecorded \/ CancelConfirmed \/ CancelSignalled

-----------------------------------------------------------------------------
(* Crashes. *)

CrashBudget == budget.crashes > 0 /\ budget' = [budget EXCEPT !.crashes = @ - 1]

(* The control plane dies and starts again.  The fake Runtime lives in its *)
(* memory; a request to a real one is dropped, unless it may arrive late.  *)
Crash ==
    /\ CrashBudget
    /\ LoopAgain(TRUE) /\ cancel' = NoCancel
    /\ inflight' = IF LateDelivery /\ Provider = "docker" THEN inflight ELSE {}
    /\ IF Provider = "docker"
       THEN UNCHANGED <<exec, sessions, leases>>
       ELSE /\ exec' = [r \in Runs |-> NoExecution] /\ sessions' = {}
            /\ leases' = [r \in Runs |-> "none"]
    /\ UNCHANGED storeVars

(* Slip: the records of unfinished executions are not persisted. *)
RuntimeForgets ==
    /\ Provider = "docker" /\ CrashBudget
    /\ exec' = [r \in Runs |-> IF Unfinalized(r) THEN NoExecution ELSE exec[r]]
    /\ inflight' = {}
    /\ UNCHANGED <<storeVars, schedVars, sessions, leases, cancel>>

(* The Runtime restarts: records survive, workers do not, nor do streams. *)
RuntimeRestarts ==
    /\ Provider = "docker" /\ CrashBudget
    /\ exec' = [r \in Runs |->
                  IF Unfinalized(r)
                  THEN [exec[r] EXCEPT !.lifecycle = "awaiting", !.outcome = "lost"]
                  ELSE exec[r]]
    /\ inflight' = {}
    /\ UNCHANGED <<storeVars, schedVars, sessions, leases, cancel>>

-----------------------------------------------------------------------------
RuntimeNext(r) ==
    \/ ExecuteArrives(r) \/ SessionOpened(r) \/ CandidateCreated(r) \/ CandidateDurable(r)
    \/ WorkerEnds(r)

UserNext ==
    \/ \E r \in Runs, c \in Conversations :
          SubmitMessage(r, c) /\ UNCHANGED <<runtimeVars, schedVars, cancel, budget>>
    \/ \E c \in Conversations :
          DeleteConversation(c) /\ UNCHANGED <<runtimeVars, schedVars, cancel, budget>>
    \/ \E r \in Runs : CancelRequested(r)

Next ==
    \/ SchedulerNext
    \/ CancelNext
    \/ \E r \in Runs : RuntimeNext(r)
    \/ UserNext
    \/ Crash \/ RuntimeRestarts

Spec == Init /\ [][Next]_vars

(* The scheduler never stops for good and the Runtime answers the requests *)
(* that reach it; a worker may hang for ever, and the failures are bounded *)
(* and never owed.                                                         *)
Fairness ==
    /\ WF_vars(SchedulerNext)
    /\ WF_vars(CancelNext)
    /\ \A r \in Runs : WF_vars(ExecuteArrives(r))

FairSpec == Spec /\ Fairness

-----------------------------------------------------------------------------
(* Properties. *)

RuntimeTypeOK ==
    /\ exec \in [Runs -> Execution]
    /\ sessions \in SUBSET Runs
    /\ leases \in [Runs -> {"none", "held", "released"}]
    /\ inflight \in SUBSET Runs

SchedTypeOK ==
    /\ pc \in ReconcilePcs \cup FinishPcs \cup ExecutePcs \cup SchedulerPcs
    /\ run \in IF pc \in WorkingPcs THEN Runs ELSE Runs \cup {NoRun}
    /\ startup \in BOOLEAN /\ stopping \in BOOLEAN
    /\ rec \in [listed : SUBSET Runs, seen : [Runs -> Row], todo : SUBSET Runs, failed : BOOLEAN]
    /\ fin \in [view : Row, caller : {"nobody", "success", "failure", "reconcile", "unpromoted"},
                found : {"none", "live", "awaiting"}]

CancelTypeOK ==
    \/ cancel = NoCancel
    \/ cancel \in [at : {"queued", "record", "confirm", "signal"}, run : Runs]

(* Types, and wherever the scheduler or a cancellation works on a run it   *)
(* names one (the loop variable and locals of Execute and Reconcile).      *)
TypeOK ==
    /\ StoreTypeOK /\ RuntimeTypeOK /\ SchedTypeOK /\ CancelTypeOK
    /\ budget \in [faults : Nat, crashes : Nat]

(* The Runtime's decision and the database's outcome are one: a session is *)
(* committed only for a run that succeeded and aborted only for one that   *)
(* did not, whichever acknowledgements were lost in between.               *)
DecisionAgreement ==
    \A r \in Runs :
        /\ exec[r].lifecycle = "committed" => rows[r].status = "succeeded"
        /\ exec[r].lifecycle = "aborted" => rows[r].status \in Terminal \ {"succeeded"}

(* AcknowledgeFinalized "is called only after authoritative Runtime        *)
(* finalization and lease release": nothing of a finalized run is left in  *)
(* the Runtime, on its way to it, or held by the provider.                 *)
SettledIsClean ==
    \A r \in Runs : rows[r].finalized =>
        ~Unfinalized(r) /\ r \notin inflight /\ leases[r] # "held"

(* The Runtime never refuses the scheduler's next run: the slot is free    *)
(* there whenever the database says it is.                                 *)
ExecuteAdmitted ==
    \A r \in inflight :
        exec[r].lifecycle = "none" /\ \A q \in Runs : ~Unfinalized(q)

(* Once products are published, finalize(commit) is bound to be accepted,  *)
(* however often the cleanup is interrupted and repeated.                  *)
CommitAccepted ==
    \A r \in Runs : rows[r].status = "succeeded" /\ ~rows[r].finalized =>
        FinalizeAnswer(r, "committed") = "ok"

(* The active session of a conversation is never deleted by the abort of   *)
(* another run, nor before its own commit.                                 *)
HeadSessionKept == \A c \in Conversations : head[c] # NoSession => head[c] \in sessions

(* An aborted run leaves no session behind: what the Runtime holds belongs *)
(* to a succeeded run or to the one in the slot.                           *)
NoOrphanSession == \A s \in sessions : rows[s].status = "succeeded" \/ InSlot(s)

(* Scheduler.Run's start-up flag is right: outside start-up mode a running *)
(* row is the one Execute owns, so a pass that skips running rows strands  *)
(* none ("periodic repair cannot mistake this process's live execution for *)
(* a crash residue").                                                      *)
NoStrandedRun ==
    \A r \in Runs : rows[r].status = "running" =>
        startup \/ (run = r /\ (pc = "register" \/ Active(r)))

(* A row as it was read still tells the truth about the outcome: what was  *)
(* unpublished when Reconcile or finishLease looked stays unpublished, and *)
(* an outcome it saw is the outcome, though a cancellation may have been   *)
(* recorded since.                                                         *)
Agrees(view, r) ==
    /\ view.status \in Terminal => rows[r].status = view.status
    /\ view.status = "running" => rows[r].status # "succeeded"
    /\ view.candidate = rows[r].candidate

StaleViewSafe ==
    /\ \A r \in rec.todo : Agrees(rec.seen[r], r)
    /\ pc \in FinishPcs => Agrees(fin.view, run)

(* No interleaving, lost answer or crash by itself makes the scheduler     *)
(* pause for manual inspection.                                            *)
NeverPaused == pc # "paused"

(* The rows only ever change by the transactions of RunStore, so what      *)
(* holds of those holds here.                                              *)
ImplementsStore == StoreSpec

(* Every submitted run is eventually settled, if no worker hangs for ever. *)
EveryRunSettles ==
    (\A q \in Runs : []<>(exec[q].lifecycle # "live")) =>
        \A r \in Runs : Exists(r) ~> Settled(r)

(* A cancelled run is settled although its worker would never end.         *)
CancelledRunSettles ==
    \A r \in Runs : rows[r].status = "cancelled" ~> rows[r].finalized

=============================================================================
