------------------------------ MODULE Execution ------------------------------
(***************************************************************************)
(* One execution, from the worker's first byte to the coordinator's        *)
(* verdict on it: the worker process (runner.py, claude.py), the Runtime's *)
(* process manager with its journal (processes.py), the control plane's    *)
(* HTTP client (http.go) and the coordinator that reads from it            *)
(* (coordinator.go), with a user who may cancel.  Pipes are bounded, calls *)
(* fail, the connection may break and a newer Runtime may say more.        *)
(***************************************************************************)
EXTENDS Contracts, Selection

CONSTANTS
    Turns,        \* <<type, payload>> of the events the SDK may cause
    MaxTurns,     \* how many of them in a run
    Results,      \* the outputs a run may leave
    Allowed,      \* the artifact types its profile allows
    PipeSize,     \* events the worker's stdout pipe holds
    MaxFaults,    \* calls that fail, processes that die, connections that break
    MaxNewer,     \* events of a newer Runtime
    MaxOddities   \* the two together

ASSUME TurnsAssumption ==
    \A t \in Turns : t[1] \in KnownTypes \ {"phase.changed", "artifact.candidate",
                                            "agent.completed", "agent.failed"}
(* Without a manifest there is no list. *)
ASSUME ResultsAssumption == \A r \in Results : Written(r) \/ r.list = <<>>
ASSUME ExecutionBounds ==
    /\ MaxTurns \in Nat /\ PipeSize \in Nat \ {0} /\ MaxFaults \in Nat /\ MaxNewer \in Nat
    /\ MaxOddities \in Nat

VARIABLES
    worker,    \* the worker process: where it is, the turns it passed on, how it ended
    outputs,   \* what it left in its outputs directory
    pipe,      \* its stdout
    control,   \* the control pipe: the message waiting for its acknowledgement
    manager,   \* ProcessManager._run and the handle it works on
    record,    \* the execution record
    journal,   \* the event log of the run
    canceller, \* the user's cancellation
    row,       \* runs.status
    client,    \* HTTPExecutor.Execute's goroutine
    pump,      \* Coordinator.pump and what follows it
    recorded,  \* the Runtime events in run_events
    used       \* faults and newer events so far

vars == <<worker, outputs, pipe, control, manager, record, journal, canceller, row, client, pump,
          recorded, used>>

runtimeVars == <<worker, outputs, pipe, control, manager, record, journal>>
planeVars == <<row, client, pump, recorded>>

Event(seq, type, payload, list) == [seq |-> seq, type |-> type, payload |-> payload, list |-> list]
NoEvent == Event(0, "none", <<>>, <<>>)

PhasePayload == [phase |-> "agent"]
FailedPayload(code) == [code |-> code, message |-> "text", retryable |-> "text"]
CandidatePayload == [artifacts |-> "text"]
CompletedPayload == [candidate_sdk_session_id |-> "text", artifacts |-> "text"]

Init ==
    /\ worker = [at |-> "none", seq |-> 0, turns |-> <<>>, status |-> "none"]
    /\ outputs = NoManifest(<<>>)
    /\ pipe = <<>>
    /\ control = "idle"
    /\ manager = [at |-> "open", cancelled |-> FALSE, ready |-> FALSE, stdout |-> "none",
                  controls |-> "none", last |-> 0, candidate |-> NoEvent, terminal |-> NoEvent,
                  judged |-> FALSE, success |-> FALSE, raised |-> FALSE, seq |-> 0]
    /\ record = [lifecycle |-> "starting", candidate |-> "none", stored |-> TRUE]
    /\ journal = <<>>
    /\ canceller = "idle"
    /\ row = "running"
    /\ client = [at |-> "reading", offset |-> 0, last |-> 0, candidate |-> NoEvent,
                 terminal |-> NoEvent, offer |-> NoEvent]
    /\ pump = [at |-> "pumping", last |-> 0, candidate |-> NoEvent, completed |-> NoEvent,
               terminal |-> FALSE, failed |-> FALSE, verdict |-> "none"]
    /\ recorded = <<>>
    /\ used = [faults |-> 0, newer |-> 0]

Uses(what, limit) ==
    /\ used[what] < limit /\ used.faults + used.newer < MaxOddities
    /\ used' = [used EXCEPT ![what] = @ + 1]

Fault == Uses("faults", MaxFaults)
NoFault == UNCHANGED used

Active == record.lifecycle \in {"starting", "running"}
Alive == worker.at \notin {"none", "exited"}
Exit(status) == worker' = [worker EXCEPT !.at = "exited", !.status = status]

(* stop_group: SIGTERM, then SIGKILL, until the process group is gone. *)
StopGroup == IF Alive THEN Exit("killed") ELSE UNCHANGED worker

-----------------------------------------------------------------------------
(* The worker: runner.py, and the SDK behind claude.py. *)

WorkerUnchanged == UNCHANGED <<manager, record, journal, canceller, planeVars>>

(* emit: it blocks while the pipe is full. *)
Emit(type, payload, list, at) ==
    /\ Len(pipe) < PipeSize
    /\ pipe' = Append(pipe, Event(worker.seq + 1, type, payload, list))
    /\ worker' = [worker EXCEPT !.seq = @ + 1, !.at = at]

(* control: the message, whose acknowledgement the worker then awaits. *)
Ask(kind) ==
    /\ control' = kind
    /\ worker' = [worker EXCEPT !.at = kind]
    /\ UNCHANGED <<outputs, pipe>>

(* The parent never wrote the start byte: no SDK work. *)
Dismissed ==
    /\ worker.at = "dismissed"
    /\ Exit("0")
    /\ UNCHANGED <<outputs, pipe, control>>

OnCandidate == worker.at = "setup" /\ Ask("created")

CandidateAcknowledged ==
    /\ worker.at = "created" /\ control = "acked"
    /\ control' = "idle"
    /\ Emit("phase.changed", PhasePayload, <<>>, "turn")
    /\ UNCHANGED outputs

(* A payload its model refuses ends the turn with an exception. *)
StreamTurn ==
    /\ worker.at = "turn" /\ Len(worker.turns) < MaxTurns
    /\ \E t \in Turns :
          IF PayloadModel(t[1], t[2], <<>>)
          THEN /\ Len(pipe) < PipeSize
               /\ pipe' = Append(pipe, Event(worker.seq + 1, t[1], t[2], <<>>))
               /\ worker' = [worker EXCEPT !.seq = @ + 1, !.turns = Append(@, t)]
          ELSE worker' = [worker EXCEPT !.at = "failing"] /\ UNCHANGED pipe
    /\ UNCHANGED <<outputs, control>>

TurnEnds == worker.at = "turn" /\ Ask("durable")

ValidateArtifactsOf(result) ==
    /\ worker.at = "durable" /\ control = "acked"
    /\ control' = "idle"
    /\ IF AcceptsOutputs(result, Allowed)
       THEN outputs' = result /\ worker' = [worker EXCEPT !.at = "offer"]
       ELSE worker' = [worker EXCEPT !.at = "failing"] /\ UNCHANGED outputs
    /\ UNCHANGED pipe

OfferArtifacts ==
    /\ worker.at = "offer"
    /\ Emit("artifact.candidate", CandidatePayload, outputs.list, "complete")
    /\ UNCHANGED <<outputs, control>>

Complete ==
    /\ worker.at = "complete"
    /\ Emit("agent.completed", CompletedPayload, outputs.list, "leaving")
    /\ UNCHANGED <<outputs, control>>

(* The workspace is invalid, or the SDK reports an error or stops short. *)
TurnFails ==
    /\ worker.at \in {"setup", "turn"}
    /\ worker' = [worker EXCEPT !.at = "failing"]
    /\ UNCHANGED <<outputs, pipe, control>>

FailTurn ==
    /\ worker.at = "failing"
    /\ Emit("agent.failed", FailedPayload("text"), <<>>, "failed")
    /\ UNCHANGED <<outputs, control>>

WorkerExits ==
    /\ worker.at \in {"leaving", "failed"}
    /\ Exit(IF worker.at = "leaving" THEN "0" ELSE "1")
    /\ UNCHANGED <<outputs, pipe, control>>

(* The worker is killed by something else than its manager. *)
WorkerDies == Alive /\ Fault /\ Exit("killed") /\ UNCHANGED <<outputs, pipe, control>>

WorkerNext ==
    /\ \/ /\ \/ Dismissed \/ OnCandidate \/ CandidateAcknowledged \/ StreamTurn \/ TurnEnds
             \/ OfferArtifacts \/ Complete \/ TurnFails \/ FailTurn \/ WorkerExits
             \/ \E result \in Results : ValidateArtifactsOf(result)
          /\ NoFault
       \/ WorkerDies
    /\ WorkerUnchanged

-----------------------------------------------------------------------------
(* The process manager: ProcessManager._run and its reader tasks. *)

Goto(at) == manager' = [manager EXCEPT !.at = at]

(* Slip: events keep the worker's numbers. *)
PublishedAsNumbered(e) == Append(journal, Event(e.seq, e.type, Redact(e.payload), RedactAll(e.list)))

(* _publish: the next sequence number, the strings redacted. *)
Published(e) == Append(journal, Event(manager.seq + 1, e.type, Redact(e.payload), RedactAll(e.list)))

OpenJournal ==
    /\ manager.at = "open"
    /\ \/ manager' = [manager EXCEPT !.at = "locked", !.ready = TRUE] /\ NoFault
       \/ Goto("publish") /\ Fault
    /\ UNCHANGED <<worker, outputs, pipe, control, record, journal>>

CheckCancelled ==
    /\ manager.at = "locked"
    /\ Goto(IF manager.cancelled THEN "publish" ELSE "spawn")
    /\ NoFault
    /\ UNCHANGED <<worker, outputs, pipe, control, record, journal>>

(* Popen: the worker waits for its start byte. *)
Spawn ==
    /\ manager.at = "spawn"
    /\ \/ Goto("register") /\ worker' = [worker EXCEPT !.at = "held"] /\ NoFault
       \/ Goto("publish") /\ Fault /\ UNCHANGED worker
    /\ UNCHANGED <<outputs, pipe, control, record, journal>>

(* mark_running, then the start byte unless a cancellation came meanwhile. *)
Register ==
    /\ manager.at = "register"
    /\ \/ /\ record' = [record EXCEPT !.lifecycle = "running"]
          /\ manager' = [manager EXCEPT !.at = "reading", !.stdout = "open", !.controls = "open"]
          /\ IF manager.cancelled THEN StopGroup
             ELSE worker' = IF Alive THEN [worker EXCEPT !.at = "setup"] ELSE worker
          /\ NoFault
       \/ /\ record' = [record EXCEPT !.stored = FALSE]
          /\ Goto("stopping")
          /\ worker' = IF Alive THEN [worker EXCEPT !.at = "dismissed"] ELSE worker
          /\ Fault
    /\ UNCHANGED <<outputs, pipe, control, journal>>

Reading == manager.at \in {"reading", "stopping", "gather"}

Acceptable(e) ==
    /\ record.stored
    /\ e.type \in KnownTypes /\ PayloadModel(e.type, e.payload, e.list)
    /\ e.seq > manager.last /\ manager.terminal = NoEvent
    /\ e.type # "agent.failed" => record.candidate # "none"
    /\ e.type \in {"artifact.candidate", "agent.completed"} => record.candidate = "durable"
    /\ e.type = "artifact.candidate" => manager.candidate = NoEvent
    /\ e.type = "agent.completed" =>
           manager.candidate # NoEvent /\ manager.candidate.list = e.list

(* _stdout, one line: a terminal event is withheld, others are published.  *)
(* An unwieldy line may be longer than the manager reads or deeper than    *)
(* its parser goes, or make the recursion of the redaction give up.        *)
ReadLine ==
    /\ Reading /\ manager.stdout = "open" /\ pipe # <<>>
    /\ pipe' = Tail(pipe)
    /\ LET e == Head(pipe)
           seen == [manager EXCEPT !.last = e.seq,
                                   !.candidate = IF e.type = "artifact.candidate" THEN e ELSE @]
       IN  \/ /\ ~Acceptable(e) \/ ~Handy(e.payload, e.list)
              /\ manager' = [manager EXCEPT !.stdout = "failed"] /\ NoFault /\ UNCHANGED journal
           \/ /\ Acceptable(e) /\ IsTerminal(e.type)
              /\ manager' = [seen EXCEPT !.terminal = e] /\ NoFault /\ UNCHANGED journal
           \/ /\ Acceptable(e) /\ ~IsTerminal(e.type)
              /\ \/ /\ manager' = [seen EXCEPT !.seq = @ + 1]
                    /\ journal' = Published(e) /\ NoFault
                 \/ /\ manager' = [seen EXCEPT !.seq = @ + 1, !.stdout = "failed"]
                    /\ \/ ~Handy(e.payload, e.list) /\ NoFault /\ UNCHANGED journal
                       \/ journal' \in {journal, Published(e)} /\ Fault
    /\ UNCHANGED <<worker, outputs, control, record>>

StdoutEnds ==
    /\ Reading /\ manager.stdout = "open" /\ pipe = <<>> /\ ~Alive
    /\ manager' = [manager EXCEPT !.stdout = "eof"]
    /\ NoFault
    /\ UNCHANGED <<worker, outputs, pipe, control, record, journal>>

(* _control, one message.  It fails when the candidate is refused (is not  *)
(* durable, say) or the record cannot be written, and when nobody is left  *)
(* to read the acknowledgement.                                            *)
ReadControl ==
    /\ Reading /\ manager.controls = "open" /\ control \in {"created", "durable"}
    /\ LET fails == manager' = [manager EXCEPT !.controls = "failed"] /\ control' = "idle"
       IN  \/ /\ record.stored /\ ~manager.cancelled
              /\ record' = [record EXCEPT !.candidate = control]
              /\ IF Alive THEN control' = "acked" /\ UNCHANGED manager ELSE fails
              /\ NoFault
           \/ /\ ~record.stored \/ manager.cancelled
              /\ fails /\ NoFault /\ UNCHANGED record
           \/ /\ fails /\ Fault
              /\ record' \in {record, [record EXCEPT !.stored = FALSE]}
    /\ UNCHANGED <<worker, outputs, pipe, journal>>

ControlEnds ==
    /\ Reading /\ manager.controls = "open" /\ control \in {"idle", "acked"} /\ ~Alive
    /\ manager' = [manager EXCEPT !.controls = "eof"]
    /\ NoFault
    /\ UNCHANGED <<worker, outputs, pipe, control, record, journal>>

ReaderFails ==
    /\ manager.at = "reading" /\ "failed" \in {manager.stdout, manager.controls}
    /\ Goto("stopping")
    /\ NoFault
    /\ UNCHANGED <<worker, outputs, pipe, control, record, journal>>

(* Every reader has ended: what the run amounts to. *)
Judge ==
    /\ manager.at = "reading" /\ manager.stdout = "eof" /\ manager.controls = "eof"
    /\ manager' = [manager EXCEPT !.at = "publish", !.judged = TRUE,
                                  !.success = /\ worker.status = "0" /\ manager.terminal # NoEvent
                                              /\ ~manager.cancelled]
    /\ NoFault
    /\ UNCHANGED <<worker, outputs, pipe, control, record, journal>>

(* Slip: the readers are awaited while the worker lives. *)
StopWorkerNot ==
    /\ manager.at = "stopping"
    /\ Goto("gather")
    /\ NoFault
    /\ UNCHANGED <<worker, outputs, pipe, control, record, journal>>

StopWorker ==
    /\ manager.at = "stopping"
    /\ StopGroup
    /\ Goto("gather")
    /\ NoFault
    /\ UNCHANGED <<outputs, pipe, control, record, journal>>

Gather ==
    /\ manager.at = "gather" /\ "open" \notin {manager.stdout, manager.controls}
    /\ Goto("publish")
    /\ NoFault
    /\ UNCHANGED <<worker, outputs, pipe, control, record, journal>>

Outcome ==
    IF /\ manager.judged /\ ~manager.cancelled
       /\ manager.success \/ manager.terminal.type = "agent.failed"
    THEN manager.terminal
    ELSE Event(0, "agent.failed",
               FailedPayload(IF manager.cancelled THEN "execution_cancelled" ELSE "worker_failed"), <<>>)

(* The outcome is the last line; a journal, or a redaction, that fails is  *)
(* no excuse to keep a stopped run active.                                 *)
Publish ==
    /\ manager.at = "publish"
    /\ \/ /\ manager.ready
          /\ journal' = Published(Outcome)
          /\ manager' = [manager EXCEPT !.at = "mark", !.seq = @ + 1]
          /\ NoFault
       \/ /\ manager.ready
          /\ manager' = [manager EXCEPT !.at = "mark", !.seq = @ + 1, !.raised = TRUE]
          /\ \/ journal' \in {journal, Published(Outcome)} /\ Fault
             \/ ~Handy(Outcome.payload, Outcome.list) /\ NoFault /\ UNCHANGED journal
       \/ /\ ~manager.ready
          /\ manager' = [manager EXCEPT !.at = "mark", !.raised = TRUE]
          /\ NoFault /\ UNCHANGED journal
    /\ UNCHANGED <<worker, outputs, pipe, control, record>>

MarkAwaitingFinalize ==
    /\ manager.at = "mark"
    /\ \/ /\ record.stored
          /\ record' = [record EXCEPT !.lifecycle = "awaiting"]
          /\ Goto(IF manager.raised THEN "raised" ELSE "done")
          /\ NoFault
       \/ ~record.stored /\ Goto("raised") /\ NoFault /\ UNCHANGED record
       \/ record' = [record EXCEPT !.stored = FALSE] /\ Goto("raised") /\ Fault
    /\ UNCHANGED <<worker, outputs, pipe, control, journal>>

(* A newer Runtime logs events of a type this control plane does not know. *)
NewerEvent ==
    /\ Uses("newer", MaxNewer)
    /\ manager.ready /\ manager.at \in {"reading", "mark"}
    /\ journal' = Append(journal, Event(manager.seq + 1, "newer", <<>>, <<>>))
    /\ manager' = [manager EXCEPT !.seq = @ + 1]
    /\ UNCHANGED <<worker, outputs, pipe, control, record>>

ManagerNext ==
    /\ \/ OpenJournal \/ CheckCancelled \/ Spawn \/ Register \/ ReadLine \/ StdoutEnds
       \/ ReadControl \/ ControlEnds \/ ReaderFails \/ Judge \/ StopWorker \/ Gather
       \/ Publish \/ MarkAwaitingFinalize
    /\ UNCHANGED <<canceller, planeVars>>

-----------------------------------------------------------------------------
(* The user's cancellation: Coordinator.Cancel, then ProcessManager.cancel. *)

CancelRecorded ==
    /\ canceller = "idle" /\ row = "running"
    /\ row' = "cancelled" /\ canceller' = "recorded"
    /\ UNCHANGED <<worker, manager>>

(* The intent is set before the lock of the spawn section is asked for.    *)
CancelRequested ==
    /\ canceller = "recorded"
    /\ IF ~record.stored THEN canceller' = "error" /\ UNCHANGED manager
       ELSE IF ~Active THEN canceller' = "returned" /\ UNCHANGED manager
       ELSE canceller' = "flagged" /\ manager' = [manager EXCEPT !.cancelled = TRUE]
    /\ UNCHANGED <<row, worker>>

(* Slip: the task of the stopped worker is not awaited. *)
CancelLockedReturns ==
    /\ canceller = "flagged" /\ manager.at \notin {"spawn", "register"}
    /\ IF ~record.stored THEN canceller' = "error" /\ UNCHANGED worker
       ELSE canceller' = "returned" /\ StopGroup
    /\ UNCHANGED <<row, manager>>

CancelLocked ==
    /\ canceller = "flagged" /\ manager.at \notin {"spawn", "register"}
    /\ IF ~record.stored THEN canceller' = "error" /\ UNCHANGED worker
       ELSE IF ~Active THEN canceller' = "returned" /\ UNCHANGED worker
       ELSE canceller' = "waiting" /\ StopGroup
    /\ UNCHANGED <<row, manager>>

CancelAwaits ==
    /\ canceller = "waiting" /\ manager.at \in {"done", "raised"}
    /\ canceller' = IF manager.at = "done" THEN "returned" ELSE "error"
    /\ UNCHANGED <<row, manager, worker>>

CancelNext ==
    /\ CancelRequested \/ CancelLocked \/ CancelAwaits
    /\ UNCHANGED <<outputs, pipe, control, record, journal, client, pump, recorded, used>>

-----------------------------------------------------------------------------
(* The HTTP client: HTTPExecutor.Execute's goroutine. *)

ClientFails == client' = [client EXCEPT !.at = "failed", !.offer = NoEvent]

(* The next line of the response, which may be more than the scanner       *)
(* holds.                                                                  *)
Scan ==
    /\ client.at = "reading" /\ client.offset < Len(journal)
    /\ LET e == journal[client.offset + 1]
           known == e.type \in KnownTypes
           read == [client EXCEPT !.offset = @ + 1, !.last = e.seq,
                                  !.candidate = IF e.type = "artifact.candidate" THEN e ELSE @]
       IN  \/ ~Handy(e.payload, e.list) /\ ClientFails
           \/ IF \/ ~ParseEventPayload(e.type, e.payload, e.list) \/ e.seq <= client.last
                 \/ client.terminal # NoEvent /\ known
                 \/ /\ e.type = "agent.completed"
                    /\ client.candidate = NoEvent \/ client.candidate.list # e.list
              THEN ClientFails
              ELSE IF client.terminal # NoEvent THEN client' = read
              ELSE IF IsTerminal(e.type) THEN client' = [read EXCEPT !.terminal = e]
              ELSE client' = [read EXCEPT !.at = "offering", !.offer = e]
    /\ NoFault

(* Slip: a response broken off ends like any other. *)
EndOfStreamAnyhow ==
    /\ client.at = "reading" /\ client.offset = Len(journal) /\ manager.at \in {"done", "raised"}
    /\ IF client.terminal # NoEvent
       THEN client' = [client EXCEPT !.at = "last", !.offer = client.terminal]
       ELSE ClientFails
    /\ NoFault

(* ProcessManager.stream returns once the task is done and every line has  *)
(* been sent; a task that raised breaks the response off instead.          *)
EndOfStream ==
    /\ client.at = "reading" /\ client.offset = Len(journal) /\ manager.at \in {"done", "raised"}
    /\ IF manager.at = "done" /\ client.terminal # NoEvent
       THEN client' = [client EXCEPT !.at = "last", !.offer = client.terminal]
       ELSE ClientFails
    /\ NoFault

(* The connection breaks, a line is damaged, or the context is cancelled.  *)
Interrupted ==
    /\ client.at \in {"reading", "offering", "last"}
    /\ ClientFails
    /\ Fault

ClientNext ==
    /\ Scan \/ EndOfStream \/ Interrupted
    /\ UNCHANGED <<runtimeVars, canceller, row, pump, recorded>>

-----------------------------------------------------------------------------
(* The coordinator: pump, and Execute up to the comparison of manifests. *)

(* RecordRuntimeEvent, when its transaction goes through: nothing once the *)
(* run is no longer running, and else an insert that jsonb must take.      *)
RecordRuntimeEvent(e) ==
    IF row = "running"
    THEN /\ Storable(e.payload, e.list)
         /\ recorded' = Append(recorded, e)
         /\ row' = IF e.type = "agent.failed" THEN "failed" ELSE row
    ELSE UNCHANGED <<row, recorded>>

(* What pump makes of an event before it records it. *)
Handled(e) ==
    [pump EXCEPT
        !.last = e.seq,
        !.candidate = IF e.type = "artifact.candidate" THEN e ELSE @,
        !.completed = IF e.type = "agent.completed" THEN e ELSE @,
        !.terminal = @ \/ IsTerminal(e.type),
        !.failed = \/ @ \/ e.type = "agent.failed"
                   \/ /\ e.type = "agent.completed"
                      /\ pump.candidate = NoEvent \/ pump.candidate.list # e.list]

(* An event handed over by the client: both go on, whatever came before.   *)
TakeEvent ==
    /\ pump.at = "pumping" /\ client.at \in {"offering", "last"}
    /\ client' = [client EXCEPT !.at = IF @ = "last" THEN "closed" ELSE "reading", !.offer = NoEvent]
    /\ LET e == client.offer
       IN  IF e.seq <= pump.last
           THEN pump' = [pump EXCEPT !.failed = TRUE] /\ NoFault /\ UNCHANGED <<row, recorded>>
           ELSE IF e.type \notin KnownTypes
           THEN pump' = [pump EXCEPT !.last = e.seq] /\ NoFault /\ UNCHANGED <<row, recorded>>
           ELSE IF pump.terminal
           THEN pump' = [pump EXCEPT !.last = e.seq, !.failed = TRUE] /\ NoFault /\ UNCHANGED <<row, recorded>>
           ELSE \/ pump' = Handled(e) /\ RecordRuntimeEvent(e) /\ NoFault
                \/ /\ pump' = [Handled(e) EXCEPT !.failed = TRUE]
                   /\ \/ RecordRuntimeEvent(e) /\ Fault
                      \/ UNCHANGED <<row, recorded>> /\ Fault
                      \/ /\ row = "running" /\ ~Storable(e.payload, e.list)
                         /\ UNCHANGED <<row, recorded>> /\ NoFault

PumpReturns ==
    /\ pump.at = "pumping" /\ client.at \in {"closed", "failed"}
    /\ pump' = [pump EXCEPT !.at = "returned",
                            !.failed = @ \/ client.at = "failed" \/ ~pump.terminal]
    /\ NoFault
    /\ UNCHANGED <<client, row, recorded>>

(* The status is read again, the outputs validated, the summary compared.  *)
Decide ==
    /\ pump.at = "returned"
    /\ pump' = [pump EXCEPT
                   !.at = "decided",
                   !.verdict = IF /\ ~pump.failed /\ row = "running"
                                  /\ ValidateManifest(outputs, Allowed)
                                  /\ outputs.list = pump.completed.list
                               THEN "accepted" ELSE "failed"]
    /\ NoFault
    /\ UNCHANGED <<client, row, recorded>>

PumpNext ==
    /\ TakeEvent \/ PumpReturns \/ Decide
    /\ UNCHANGED <<runtimeVars, canceller>>

-----------------------------------------------------------------------------

Cancel == CancelRecorded /\ UNCHANGED <<outputs, pipe, control, record, journal, client, pump,
                                        recorded, used>>
Newer == NewerEvent /\ UNCHANGED <<canceller, planeVars>>

Next == WorkerNext \/ ManagerNext \/ CancelNext \/ ClientNext \/ PumpNext \/ Cancel \/ Newer

Spec == Init /\ [][Next]_vars

(* Every process goes on while it can, without a failure having to help    *)
(* it; a turn of the SDK ends.  Nobody has to cancel.                      *)
FairSpec == Spec /\ WF_vars(WorkerNext /\ NoFault) /\ WF_vars(ManagerNext /\ NoFault)
                 /\ WF_vars(CancelNext) /\ WF_vars(ClientNext /\ NoFault)
                 /\ WF_vars(PumpNext /\ NoFault)

-----------------------------------------------------------------------------
(* Properties. *)

(* Types, and the journal's own numbering: it increases whatever numbers   *)
(* the worker used and whatever was lost (processes.py, _publish).         *)
TypeOK ==
    /\ worker.at \in {"none", "held", "dismissed", "setup", "created", "turn", "durable", "offer",
                      "complete", "leaving", "failing", "failed", "exited"}
    /\ worker.status \in {"none", "0", "1", "killed"}
    /\ Len(pipe) <= PipeSize
    /\ control \in {"idle", "created", "durable", "acked"}
    /\ record.lifecycle \in {"starting", "running", "awaiting"}
    /\ record.candidate \in {"none", "created", "durable"}
    /\ row \in {"running", "cancelled", "failed"}
    /\ canceller \in {"idle", "recorded", "flagged", "waiting", "returned", "error"}
    /\ client.at \in {"reading", "offering", "last", "closed", "failed"}
    /\ pump.verdict \in {"none", "accepted", "failed"}
    /\ \A i, j \in DOMAIN journal : i < j => journal[i].seq < journal[j].seq

(* A run goes on to publication only when its worker ran to the end and    *)
(* left of itself, the Runtime awaits the decision with a durable          *)
(* candidate, and every event the Runtime logged is in the run's history:  *)
(* whatever broke, was cancelled or was lost on the way (http.go withholds *)
(* the terminal event until a clean end, pump drains both channels).       *)
AcceptedIsProven ==
    pump.verdict = "accepted" =>
        /\ worker.status = "0" /\ manager.terminal.type = "agent.completed"
        /\ record.lifecycle = "awaiting" /\ record.candidate = "durable"
        /\ recorded = Selected(journal, {i \in 1..Len(journal) : journal[i].type \in KnownTypes})

(* What a worker may produce that its own checks let through and someone   *)
(* behind it refuses: an output whose name fs.ValidPath or whose way       *)
(* os.Root does not take (manifest.go), a summary that redaction changes   *)
(* (processes.py, coordinator.go), a U+0000 in any text (events.go), and a *)
(* text at the limits of the lines, parsers and recursions in between      *)
(* (processes.py, http.go).                                                *)
Divergent ==
    \/ \E path \in DOMAIN outputs.files : path = "undecodable" \/ outputs.files[path] = "barred"
    \/ RedactAll(outputs.list) # outputs.list
    \/ \E class \in {"unstorable", "unwieldy"} :
          \/ Holds(<<>>, outputs.list, class)
          \/ \E i \in DOMAIN worker.turns : Holds(worker.turns[i][2], <<>>, class)

(* Nothing but a failure, the user or one of these divergences makes the   *)
(* control plane give up a run whose worker completed: whatever else the   *)
(* Runtime's models accept its own parser accepts, and a newer Runtime's   *)
(* events are ignored (contracts.go, manifest.go against models.py,        *)
(* artifacts.py).                                                          *)
WorkerBelieved ==
    pump.verdict = "failed" /\ used.faults = 0 /\ canceller = "idle" /\ worker.status = "0" =>
        Divergent

(* Once a cancellation is acknowledged no worker runs, none will, and the  *)
(* Runtime awaits the decision, even if the request came while the worker  *)
(* was being spawned (processes.py, cancel and _run).                      *)
CancelStops ==
    canceller = "returned" => ~Alive /\ record.lifecycle = "awaiting"

(* An execution comes to a verdict and a cancellation to an answer: no     *)
(* full pipe, unread acknowledgement or withheld event keeps the worker,   *)
(* its manager, the client and the coordinator waiting on each other.      *)
ExecutionEnds ==
    /\ <>(pump.verdict # "none")
    /\ canceller = "recorded" ~> canceller \in {"returned", "error"}

(* design.md: agent.completed "contains candidate_sdk_session_id and the   *)
(* validated Artifact candidate summary".                                  *)
SummaryCarried ==
    \A i \in DOMAIN journal : journal[i].type = "agent.completed" => journal[i].list = outputs.list

=============================================================================
