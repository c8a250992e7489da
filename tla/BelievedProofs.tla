--------------------------- MODULE BelievedProofs ---------------------------
(***************************************************************************)
(* The converse of AcceptedIsProven: a worker that completed is believed.  *)
(* As long as nothing fails, nobody cancels and nothing the worker passed  *)
(* on is Divergent, every line of a worker that gets to its end is         *)
(* accepted by the process manager, logged, accepted again by the HTTP     *)
(* client, handed to the coordinator, recorded, and in the end believed -  *)
(* for any SDK turns, outputs, pipe and events of a newer Runtime.         *)
(***************************************************************************)
EXTENDS ExecutionProofs, ContractsProofs

-----------------------------------------------------------------------------
(* The invariant of an execution in which nothing has failed so far and    *)
(* whose worker is on its way to completion.                               *)

Quiet == used.faults = 0 /\ canceller = "idle"

Offered == worker.at \in {"complete", "leaving", "exited"}
Finished == worker.at \in {"leaving", "exited"}
WellWorker ==
    \/ worker.at \in {"none", "held", "setup", "created", "turn", "durable", "offer"}
    \/ worker.at \in {"complete", "leaving"}
    \/ worker.status = "0"

Closing == {"artifact.candidate", "agent.completed"}

(* Nothing in a payload is more than what is behind the contract takes.    *)
Clean(payload, list) == Storable(payload, list) /\ Handy(payload, list)

(* A worker none of whose turns, and none of whose outputs once they are   *)
(* there, is one of the divergences: they are what Divergent leaves.       *)
PlainOutputs(o) ==
    /\ \A path \in DOMAIN o.files : path # "undecodable" /\ o.files[path] # "barred"
    /\ RedactAll(o.list) = o.list
    /\ Clean(<< >>, o.list)

CleanTurns(turns) == \A i \in DOMAIN turns : Clean(turns[i][2], << >>)

Settled == worker.at = "offer" \/ Offered
Plain == CleanTurns(worker.turns) /\ (Settled => PlainOutputs(outputs))

(* An event of the end of a run has the summary of its outputs. *)
Carries(e) == Offered /\ e.list = outputs.list

(* The manager takes the straight way, and no reader of it fails. *)
RunWell ==
    /\ record.stored /\ ~manager.cancelled /\ ~manager.raised
    /\ manager.at \notin {"stopping", "gather", "raised"}
    /\ manager.stdout # "failed" /\ manager.controls # "failed"
    /\ manager.at # "open" => manager.ready
    /\ manager.at \in {"publish", "mark", "done"} => manager.success
    /\ manager.at \in {"open", "locked", "spawn"} <=> worker.at = "none"
    /\ manager.at = "register" <=> worker.at = "held"

(* The candidate goes from created to durable under the worker's eyes. *)
Handshake ==
    /\ worker.at \in {"none", "held", "setup"} => control = "idle"
    /\ worker.at = "created" => \/ control = "created"
                                \/ control = "acked" /\ record.candidate = "created"
    /\ worker.at = "turn" => control = "idle" /\ record.candidate = "created"
    /\ worker.at = "durable" => \/ control = "durable" /\ record.candidate = "created"
                                \/ control = "acked" /\ record.candidate = "durable"
    /\ worker.at = "offer" \/ Offered => control = "idle" /\ record.candidate = "durable"

OutputsRight ==
    Settled => outputs \in Results /\ AcceptsOutputs(outputs, Allowed) /\ PlainOutputs(outputs)

(* What is in the pipe will be accepted when its turn comes. *)
Readable(e) ==
    /\ e.type \in KnownTypes \ {"agent.failed"} /\ PayloadModel(e.type, e.payload, e.list)
    /\ Clean(e.payload, e.list)
    /\ manager.last < e.seq /\ e.seq <= worker.seq
    /\ e.type \in Closing => Carries(e)
    /\ e.type = "artifact.candidate" => manager.candidate = NoEvent
    /\ e.type = "agent.completed" => Finished

PipeRight ==
    /\ \A i \in 1..Len(pipe) :
          Readable(pipe[i]) /\ (pipe[i].type = "agent.completed" => i = Len(pipe))
    /\ \A i, j \in 1..Len(pipe) : i < j =>
          /\ pipe[i].seq < pipe[j].seq
          /\ ~(pipe[i].type = "artifact.candidate" /\ pipe[j].type = "artifact.candidate")
    /\ manager.last <= worker.seq
    /\ pipe # << >> => record.candidate # "none"
    /\ manager.stdout = "eof" => pipe = << >>

(* Offer and completion are in the pipe or have been read. *)
HeardRight ==
    /\ manager.candidate # NoEvent => Carries(manager.candidate)
    /\ manager.terminal # NoEvent =>
          /\ Finished /\ pipe = << >> /\ Carries(manager.terminal)
          /\ manager.terminal.type = "agent.completed"
          /\ PayloadModel("agent.completed", manager.terminal.payload, manager.terminal.list)
          /\ Clean(manager.terminal.payload, manager.terminal.list)
    /\ Offered => \/ manager.candidate # NoEvent
                  \/ \E i \in 1..Len(pipe) : pipe[i].type = "artifact.candidate"
    /\ Finished => \/ manager.terminal # NoEvent
                   \/ \E i \in 1..Len(pipe) : pipe[i].type = "agent.completed"

Announced(n) == \E k \in 1..n : journal[k].type = "artifact.candidate"
Closed(n) == \E k \in 1..n : journal[k].type = "agent.completed"
Told == manager.at \in {"mark", "done"}

(* A line of the journal that the control plane can parse and expects. *)
Parsable(e) ==
    /\ e.seq > 0 /\ e.type # "agent.failed" /\ ParseEventPayload(e.type, e.payload, e.list)
    /\ Clean(e.payload, e.list)
    /\ e.type \in Closing => Carries(e)

JournalGood ==
    /\ \A i \in 1..Len(journal) :
          /\ Parsable(journal[i])
          /\ journal[i].type = "artifact.candidate" => manager.candidate # NoEvent
          /\ journal[i].type = "agent.completed" =>
                /\ Told /\ Announced(i - 1)
                /\ \A j \in 1..Len(journal) : i < j => journal[j].type \notin KnownTypes
    /\ manager.candidate # NoEvent => Announced(Len(journal))
    /\ Told => Closed(Len(journal))

RunSmooth == RunWell /\ Handshake /\ OutputsRight /\ PipeRight /\ HeardRight /\ JournalGood

(* What the client has read, and still expects. *)
ClientGood ==
    /\ client.at # "failed"
    /\ client.last = IF client.offset = 0 THEN 0 ELSE journal[client.offset].seq
    /\ Announced(client.offset) => client.candidate # NoEvent
    /\ client.candidate # NoEvent => Carries(client.candidate)
    /\ Closed(client.offset) <=> client.terminal # NoEvent
    /\ client.terminal # NoEvent =>
          /\ client.terminal.type = "agent.completed" /\ Carries(client.terminal)
          /\ Clean(client.terminal.payload, client.terminal.list)

(* What the coordinator has taken from the client. *)
PumpGood ==
    /\ row = "running" /\ ~pump.failed
    /\ client.at = "reading" /\ client.terminal = NoEvent => pump.last <= client.last
    /\ client.at = "offering" => pump.last < client.offer.seq
    /\ client.at \in {"reading", "last"} /\ client.terminal # NoEvent =>
          pump.last < client.terminal.seq
    /\ pump.candidate # NoEvent => Carries(pump.candidate)
    /\ Announced(client.offset) =>
          \/ pump.candidate # NoEvent
          \/ client.at = "offering" /\ client.offer.type = "artifact.candidate"
    /\ client.terminal # NoEvent => Announced(client.offset)
    /\ pump.terminal <=> client.at = "closed"
    /\ pump.at # "pumping" => client.at = "closed"
    /\ pump.terminal => Carries(pump.completed)
    /\ pump.verdict # "failed"

UsedTyped == used \in [faults : Nat, newer : Nat]

BelievedRight ==
    /\ UsedTyped
    /\ Quiet => worker.at # "dismissed"
    /\ Quiet /\ WellWorker /\ Plain => RunSmooth /\ ClientGood /\ PumpGood

-----------------------------------------------------------------------------
(* What the contract says of the events on their way. *)

(* Redaction changes no payload from accepted to refused. *)
LEMMA RedactedModel ==
    ASSUME NEW a, ArtifactModel(a)
    PROVE  ArtifactModel(Redact(a))
<1>1. /\ ContractModel(a, ArtifactFields, ArtifactFields)
      /\ a.name # "blank" /\ a.title # "blank" /\ a.type \in ArtifactTypes
      /\ a.entry \notin {"blank", "outside"}
  BY DEF ArtifactModel
<1>2. /\ DOMAIN Redact(a) = DOMAIN a
      /\ \A f \in DOMAIN a : Redact(a)[f] = IF a[f] = "labelled" THEN "redacted" ELSE a[f]
  BY DEF Redact
<1>3. ContractModel(Redact(a), ArtifactFields, ArtifactFields)
  BY <1>1, <1>2 DEF ContractModel
<1>4. {"name", "title", "type", "entry"} \subseteq DOMAIN a
  BY <1>1 DEF ContractModel, ArtifactFields
<1>5. a.type # "labelled"
  BY <1>1 DEF ArtifactTypes
<1> QED
  BY <1>1, <1>2, <1>3, <1>4, <1>5 DEF ArtifactModel

LEMMA RedactedParses ==
    ASSUME NEW type, NEW payload, NEW list, PayloadModel(type, payload, list)
    PROVE  ParseEventPayload(type, Redact(payload), RedactAll(list))
<1> SUFFICES ASSUME type \in KnownTypes
             PROVE  PayloadModel(type, Redact(payload), RedactAll(list))
  BY PayloadsAgree DEF ParseEventPayload
<1>1. /\ ContractModel(payload, Required[type], Required[type] \cup Optional(type))
      /\ type = "phase.changed" => payload.phase \in {"preparing", "agent"}
      /\ \A f \in DOMAIN payload \cap {"tool_call_id", "name", "candidate_sdk_session_id",
                                       "code", "message"} : payload[f] # "blank"
      /\ type = "tool.completed" => ToolCompletedModel(payload)
      /\ type \in Closing => \A i \in DOMAIN list : ArtifactModel(list[i])
  BY DEF PayloadModel, Closing
<1>2. /\ DOMAIN Redact(payload) = DOMAIN payload
      /\ \A f \in DOMAIN payload :
            Redact(payload)[f] = IF payload[f] = "labelled" THEN "redacted" ELSE payload[f]
  BY DEF Redact
<1>3. ContractModel(Redact(payload), Required[type], Required[type] \cup Optional(type))
  BY <1>1, <1>2 DEF ContractModel
<1>4. Required[type] \subseteq DOMAIN payload
  BY <1>1 DEF ContractModel
<1>5. type = "phase.changed" => Redact(payload).phase \in {"preparing", "agent"}
  <2>1. type = "phase.changed" => "phase" \in Required[type]
    BY DEF Required
  <2> QED
    BY <1>1, <1>2, <1>4, <2>1
<1>6. type = "tool.completed" => ToolCompletedModel(Redact(payload))
  <2>1. type = "tool.completed" => "outcome" \in Required[type]
    BY DEF Required
  <2> QED
    BY <1>1, <1>2, <1>4, <2>1 DEF ToolCompletedModel
<1>7. type \in Closing => \A i \in DOMAIN RedactAll(list) : ArtifactModel(RedactAll(list)[i])
  BY <1>1, RedactedModel DEF RedactAll
<1>8. \A f \in DOMAIN Redact(payload) \cap {"tool_call_id", "name", "candidate_sdk_session_id",
                                            "code", "message"} : Redact(payload)[f] # "blank"
  BY <1>1, <1>2
<1> QED
  BY <1>3, <1>5, <1>6, <1>7, <1>8 DEF PayloadModel, Closing

(* What the worker says of itself is accepted by its own models. *)
LEMMA OwnPayloads ==
    ASSUME NEW list, \A i \in DOMAIN list : ArtifactModel(list[i])
    PROVE  /\ PayloadModel("phase.changed", PhasePayload, << >>)
           /\ PayloadModel("artifact.candidate", CandidatePayload, list)
           /\ PayloadModel("agent.completed", CompletedPayload, list)
<1>1. PayloadModel("phase.changed", PhasePayload, << >>)
  BY DEF PayloadModel, ContractModel, Required, Optional, PhasePayload
<1>2. PayloadModel("artifact.candidate", CandidatePayload, list)
  BY DEF PayloadModel, ContractModel, Required, Optional, CandidatePayload
<1>3. PayloadModel("agent.completed", CompletedPayload, list)
  BY DEF PayloadModel, ContractModel, Required, Optional, CompletedPayload
<1> QED
  BY <1>1, <1>2, <1>3

(* Redaction adds nothing that cannot be stored or handled. *)
LEMMA RedactedClean ==
    ASSUME NEW payload, NEW list, Clean(payload, list)
    PROVE  Clean(Redact(payload), RedactAll(list))
<1> SUFFICES ASSUME NEW class \in {"unstorable", "unwieldy"},
                    Holds(Redact(payload), RedactAll(list), class)
             PROVE  Holds(payload, list, class)
  BY DEF Clean, Storable, Handy
<1>1. CASE \E f \in DOMAIN Redact(payload) : Redact(payload)[f] = class
  BY <1>1 DEF Redact, Holds
<1>2. CASE \E i \in DOMAIN RedactAll(list) : \E f \in DOMAIN RedactAll(list)[i] :
             RedactAll(list)[i][f] = class
  BY <1>2 DEF RedactAll, Redact, Holds
<1> QED
  BY <1>1, <1>2 DEF Holds

(* What the worker says of itself is no trouble, a clean summary with it. *)
LEMMA OwnClean ==
    ASSUME NEW list, Clean(<< >>, list)
    PROVE  /\ Clean(<< >>, << >>) /\ Clean(PhasePayload, << >>)
           /\ Clean(CandidatePayload, list) /\ Clean(CompletedPayload, list)
<1>1. ASSUME NEW class \in {"unstorable", "unwieldy"}
      PROVE  /\ ~Holds(<< >>, << >>, class) /\ ~Holds(PhasePayload, << >>, class)
             /\ \A i \in DOMAIN list : \A f \in DOMAIN list[i] : list[i][f] # class
             /\ \A f \in DOMAIN CandidatePayload : CandidatePayload[f] # class
             /\ \A f \in DOMAIN CompletedPayload : CompletedPayload[f] # class
  BY DEF Clean, Storable, Handy, Holds, PhasePayload, CandidatePayload, CompletedPayload
<1>2. \A class \in {"unstorable", "unwieldy"} :
          ~Holds(CandidatePayload, list, class) /\ ~Holds(CompletedPayload, list, class)
  BY <1>1 DEF Holds
<1> QED
  BY <1>1, <1>2 DEF Clean, Storable, Handy

LEMMA OutputsModel ==
    ASSUME outputs \in Results, AcceptsOutputs(outputs, Allowed)
    PROVE  \A i \in DOMAIN outputs.list : ArtifactModel(outputs.list[i])
<1>1. CASE Written(outputs)
  BY <1>1 DEF AcceptsOutputs, ManifestModel
<1>2. CASE ~Written(outputs)
  BY <1>2, ResultsAssumption
<1> QED
  BY <1>1, <1>2

-----------------------------------------------------------------------------
(* Nothing fails while nothing has failed. *)

LEMMA NoFaults ==
    ASSUME UsedTyped, used'.faults = 0
    PROVE  ~Fault
<1> SUFFICES ASSUME Fault PROVE FALSE
  OBVIOUS
<1>1. used.faults \in Nat /\ used'.faults = used.faults + 1
  BY DEF Fault, Uses, UsedTyped
<1> QED
  BY <1>1

LEMMA UsedMoves ==
    ASSUME UsedTyped, Next
    PROVE  UsedTyped' /\ (used'.faults = 0 => used.faults = 0)
<1>1. UNCHANGED used \/ Fault \/ Uses("newer", MaxNewer)
  <2>1. CASE WorkerNext
    BY <2>1 DEF WorkerNext, WorkerDies, NoFault
  <2>2. CASE ManagerNext
    BY <2>2 DEF ManagerNext, OpenJournal, CheckCancelled, Spawn, Register, ReadLine, StdoutEnds,
                ReadControl, ControlEnds, ReaderFails, Judge, StopWorker, Gather, Publish,
                MarkAwaitingFinalize, NoFault
  <2>3. CASE CancelNext \/ Cancel
    BY <2>3 DEF CancelNext, Cancel
  <2>4. CASE ClientNext
    BY <2>4 DEF ClientNext, Scan, EndOfStream, Interrupted, NoFault
  <2>5. CASE PumpNext
    BY <2>5 DEF PumpNext, TakeEvent, PumpReturns, Decide, NoFault
  <2>6. CASE Newer
    BY <2>6 DEF Newer, NewerEvent
  <2> QED
    BY <2>1, <2>2, <2>3, <2>4, <2>5, <2>6 DEF Next
<1>2. used.faults \in Nat /\ used.newer \in Nat
  BY DEF UsedTyped
<1>3. CASE UNCHANGED used
  BY <1>3 DEF UsedTyped
<1>4. CASE Fault
  BY <1>2, <1>4 DEF Fault, Uses, UsedTyped
<1>5. CASE Uses("newer", MaxNewer)
  BY <1>2, <1>5 DEF Uses, UsedTyped
<1> QED
  BY <1>1, <1>3, <1>4, <1>5

(* A cancellation is never taken back. *)
LEMMA IdleBefore ==
    ASSUME Next, canceller' = "idle"
    PROVE  canceller = "idle" /\ ~CancelNext /\ ~Cancel
<1>1. ~CancelNext /\ ~Cancel
  BY DEF CancelNext, CancelRequested, CancelLocked, CancelAwaits, Cancel, CancelRecorded
<1>2. CASE WorkerNext
  BY <1>1, <1>2 DEF WorkerNext, WorkerUnchanged
<1>3. CASE ManagerNext
  BY <1>1, <1>3 DEF ManagerNext
<1>4. CASE ClientNext \/ PumpNext
  BY <1>1, <1>4 DEF ClientNext, PumpNext
<1>5. CASE Newer
  BY <1>1, <1>5 DEF Newer
<1> QED
  BY <1>1, <1>2, <1>3, <1>4, <1>5 DEF Next

(* A worker that has left the way to completion does not come back to it.  *)
LEMMA WellBefore ==
    ASSUME RuntimeRight, UsedTyped, Next, used'.faults = 0, canceller' = "idle",
           worker.at # "dismissed", WellWorker'
    PROVE  WellWorker /\ worker'.at # "dismissed"
<1>0. worker \in Worker /\ WorkerRight /\ ~Fault
  BY RuntimeFacts, NoFaults
<1>1. CASE UNCHANGED worker
  BY <1>1 DEF WellWorker
<1>2. ASSUME Alive, Exit("killed")
      PROVE  FALSE
  BY <1>0, <1>2 DEF Exit, WellWorker, Worker
<1>3. CASE WorkerNext
  <2>1. ASSUME NEW x, NEW y, NEW z, NEW at \in WorkerAt, Emit(x, y, z, at)
        PROVE  worker'.at = at /\ worker'.status = worker.status
    BY <1>0, <2>1 DEF Emit, Worker
  <2>2. ASSUME NEW kind \in {"created", "durable"}, Ask(kind)
        PROVE  worker'.at = kind /\ worker'.status = worker.status
    BY <1>0, <2>2 DEF Ask, Worker
  <2>3. CASE OnCandidate
    BY <2>2, <2>3 DEF OnCandidate, WellWorker
  <2>4. CASE CandidateAcknowledged
    BY <2>1, <2>4 DEF CandidateAcknowledged, WellWorker, WorkerAt
  <2>5. CASE StreamTurn
    <3>1. worker.at = "turn" /\ worker'.at \in {"turn", "failing"}
      BY <1>0, <2>5 DEF StreamTurn, Worker
    <3> QED
      BY <3>1 DEF WellWorker
  <2>6. CASE TurnEnds
    BY <2>2, <2>6 DEF TurnEnds, WellWorker
  <2>7. CASE OfferArtifacts
    BY <2>1, <2>7 DEF OfferArtifacts, WellWorker, WorkerAt
  <2>8. CASE Complete
    BY <2>1, <2>8 DEF Complete, WellWorker, WorkerAt
  <2>9. CASE TurnFails
    BY <1>0, <2>9 DEF TurnFails, WellWorker, Worker
  <2>10. CASE FailTurn
    <3>1. worker'.at = "failed" /\ worker'.status = worker.status /\ worker.at = "failing"
      BY <2>1, <2>10 DEF FailTurn, WorkerAt
    <3> QED
      BY <1>0, <3>1 DEF WellWorker, WorkerRight
  <2>11. CASE WorkerExits
    BY <1>0, <2>11 DEF WorkerExits, Exit, WellWorker, Worker
  <2>12. ASSUME NEW result \in Results, ValidateArtifactsOf(result)
         PROVE  WellWorker /\ worker'.at # "dismissed"
    <3>1. worker.at = "durable" /\ worker'.at \in {"offer", "failing"}
      BY <1>0, <2>12 DEF ValidateArtifactsOf, Worker
    <3> QED
      BY <3>1 DEF WellWorker
  <2> QED
    BY <1>0, <1>3, <2>3, <2>4, <2>5, <2>6, <2>7, <2>8, <2>9, <2>10, <2>11, <2>12
       DEF WorkerNext, WorkerDies, Dismissed
<1>4. CASE Spawn
  <2>1. worker.at = "none"
    BY <1>0, <1>4 DEF Spawn, WorkerRight
  <2> QED
    BY <1>0, <1>4, <2>1 DEF Spawn, WellWorker, Worker
<1>5. CASE Register
  <2>1. worker.at \in {"held", "exited"}
    BY <1>0, <1>5 DEF Register, WorkerRight
  <2>2. \/ UNCHANGED worker \/ (Alive /\ Exit("killed"))
        \/ Alive /\ worker' = [worker EXCEPT !.at = "setup"]
    BY <1>0, <1>5 DEF Register, StopGroup
  <2> QED
    BY <1>0, <1>1, <1>2, <2>1, <2>2 DEF WellWorker, Alive, Worker
<1>6. CASE StopWorker
  BY <1>1, <1>2, <1>6 DEF StopWorker, StopGroup
<1>7. CASE ManagerNext
  <2>1. Spawn \/ Register \/ StopWorker \/ UNCHANGED worker
    BY <1>7 DEF ManagerNext, OpenJournal, CheckCancelled, ReadLine, StdoutEnds, ReadControl,
                ControlEnds, ReaderFails, Judge, Gather, Publish, MarkAwaitingFinalize
  <2> QED
    BY <1>1, <1>4, <1>5, <1>6, <2>1
<1>8. CASE ClientNext \/ PumpNext \/ Newer
  <2>1. UNCHANGED worker
    BY <1>8 DEF ClientNext, PumpNext, Newer, NewerEvent, runtimeVars
  <2> QED
    BY <1>1, <2>1
<1> QED
  BY <1>3, <1>7, <1>8, IdleBefore DEF Next

(* A turn is never taken back, and the outputs are left alone once the     *)
(* worker offers them.                                                     *)
LEMMA TurnsKept ==
    ASSUME RuntimeRight, Next
    PROVE  /\ worker'.turns = worker.turns \/ \E t \in Turns : worker'.turns = Append(worker.turns, t)
           /\ Settled => Settled' /\ outputs' = outputs
<1> DEFINE Kept == worker'.turns = worker.turns /\ (Settled => Settled' /\ outputs' = outputs)
<1>0. worker \in Worker /\ WorkerRight
  BY RuntimeFacts
<1>1. CASE UNCHANGED <<worker, outputs>>
  BY <1>1 DEF Settled, Offered
<1>2. CASE StopGroup /\ UNCHANGED outputs
  BY <1>0, <1>1, <1>2 DEF StopGroup, Exit, Worker, Settled, Offered
<1>3. CASE WorkerNext
  <2>1. ASSUME NEW x, NEW y, NEW z, NEW at \in WorkerAt, Emit(x, y, z, at)
        PROVE  worker'.turns = worker.turns /\ worker'.at = at
    BY <1>0, <2>1 DEF Emit, Worker
  <2>2. CASE OnCandidate \/ TurnEnds
    BY <1>0, <2>2 DEF OnCandidate, TurnEnds, Ask, Worker, Settled, Offered
  <2>3. CASE CandidateAcknowledged
    <3>1. worker.at = "created" /\ worker'.turns = worker.turns
      BY <2>1, <2>3 DEF CandidateAcknowledged, WorkerAt
    <3> QED
      BY <3>1 DEF Settled, Offered
  <2>4. CASE OfferArtifacts \/ Complete
    <3>1. /\ worker'.at \in {"complete", "leaving"} /\ worker'.turns = worker.turns
          /\ UNCHANGED outputs
      BY <2>1, <2>4 DEF OfferArtifacts, Complete, WorkerAt
    <3> QED
      BY <3>1 DEF Settled, Offered
  <2>5. CASE FailTurn
    <3>1. worker.at = "failing" /\ worker'.turns = worker.turns
      BY <2>1, <2>5 DEF FailTurn, WorkerAt
    <3> QED
      BY <3>1 DEF Settled, Offered
  <2>6. CASE StreamTurn
    <3>1. worker.at = "turn"
      BY <2>6 DEF StreamTurn
    <3>2. PICK t \in Turns :
             \/ worker' = [worker EXCEPT !.seq = worker.seq + 1, !.turns = Append(worker.turns, t)]
             \/ worker' = [worker EXCEPT !.at = "failing"]
      BY <2>6 DEF StreamTurn
    <3>3. worker'.turns = worker.turns \/ worker'.turns = Append(worker.turns, t)
      BY <1>0, <3>2 DEF Worker
    <3> QED
      BY <3>1, <3>3 DEF Settled, Offered
  <2>7. CASE TurnFails
    BY <1>0, <2>7 DEF TurnFails, Worker, Settled, Offered
  <2>8. CASE WorkerExits \/ Dismissed \/ WorkerDies
    BY <1>0, <2>8 DEF WorkerExits, Dismissed, WorkerDies, Exit, Worker, Settled, Offered
  <2>9. ASSUME NEW result \in Results, ValidateArtifactsOf(result)
        PROVE  Kept
    BY <1>0, <2>9 DEF ValidateArtifactsOf, Worker, Settled, Offered
  <2> QED
    BY <1>3, <2>2, <2>3, <2>4, <2>5, <2>6, <2>7, <2>8, <2>9 DEF WorkerNext
<1>4. CASE Spawn
  BY <1>0, <1>1, <1>4 DEF Spawn, Worker, WorkerRight, Settled, Offered
<1>5. CASE Register
  <2>1. /\ UNCHANGED outputs
        /\ \/ StopGroup \/ UNCHANGED worker
           \/ /\ Alive
              /\ \E at \in {"setup", "dismissed"} : worker' = [worker EXCEPT !.at = at]
    BY <1>5 DEF Register
  <2>2. worker.at \in {"held", "exited"}
    BY <1>0, <1>5 DEF Register, WorkerRight
  <2> QED
    BY <1>0, <1>1, <1>2, <2>1, <2>2 DEF Alive, Worker, Settled, Offered
<1>6. CASE ManagerNext
  <2>1. \/ Spawn \/ Register
        \/ UNCHANGED outputs /\ (StopGroup \/ UNCHANGED worker)
    BY <1>6 DEF ManagerNext, OpenJournal, CheckCancelled, ReadLine, StdoutEnds, ReadControl,
                ControlEnds, ReaderFails, Judge, StopWorker, Gather, Publish, MarkAwaitingFinalize
  <2> QED
    BY <1>1, <1>2, <1>4, <1>5, <2>1
<1>7. CASE CancelNext \/ Cancel
  <2>1. UNCHANGED outputs /\ (StopGroup \/ UNCHANGED worker)
    BY <1>7 DEF CancelNext, CancelRequested, CancelLocked, CancelAwaits, Cancel, CancelRecorded
  <2> QED
    BY <1>1, <1>2, <2>1
<1>8. CASE ClientNext \/ PumpNext \/ Newer
  <2>1. UNCHANGED <<worker, outputs>>
    BY <1>8 DEF ClientNext, PumpNext, Newer, NewerEvent, runtimeVars
  <2> QED
    BY <1>1, <2>1
<1> QED
  BY <1>3, <1>6, <1>7, <1>8 DEF Next

LEMMA PlainBefore ==
    ASSUME RuntimeRight, Next, Plain'
    PROVE  Plain
<1>1. CleanTurns(worker.turns)
  <2>1. worker.turns \in Seq(Turns)
    BY RuntimeFacts DEF Worker
  <2>2. \A i \in DOMAIN worker.turns : i \in DOMAIN worker'.turns /\ worker'.turns[i] = worker.turns[i]
    BY <2>1, TurnsKept
  <2> QED
    BY <2>2 DEF Plain, CleanTurns
<1>2. Settled => PlainOutputs(outputs)
  BY TurnsKept DEF Plain
<1> QED
  BY <1>1, <1>2 DEF Plain

-----------------------------------------------------------------------------
(* The worker's steps. *)

(* What a worker on its way leaves alone, whatever it does. *)
LEMMA WorkerKept ==
    ASSUME RunSmooth, worker.at \notin {"none", "held"}, worker'.at \notin {"none", "held"},
           UNCHANGED <<manager, record, journal>>,
           Offered => Offered' /\ outputs' = outputs
    PROVE  RunWell' /\ JournalGood'
<1>1. RunWell'
  BY DEF RunSmooth, RunWell
<1>2. JournalGood'
  <2>1. \A i \in 1..Len(journal) : Parsable(journal[i])'
    <3>1. \A i \in 1..Len(journal) : Parsable(journal[i])
      BY DEF RunSmooth, JournalGood
    <3> QED
      BY <3>1 DEF Parsable, Carries
  <2> QED
    BY <2>1 DEF RunSmooth, JournalGood, Told, Announced, Closed
<1> QED
  BY <1>1, <1>2

(* A step that writes nothing, and takes the worker neither to its offer   *)
(* nor to its completion.                                                  *)
LEMMA PipeKept ==
    ASSUME RunSmooth, UNCHANGED <<manager, record, pipe>>, worker'.seq = worker.seq,
           Offered <=> Offered', Finished <=> Finished', Offered => outputs' = outputs
    PROVE  PipeRight' /\ HeardRight'
<1>1. PipeRight /\ HeardRight
  BY DEF RunSmooth
<1>2. \A i \in 1..Len(pipe) : Readable(pipe[i])'
  <2>1. \A i \in 1..Len(pipe) : Readable(pipe[i])
    BY <1>1 DEF PipeRight
  <2> QED
    BY <2>1 DEF Readable, Carries
<1>3. PipeRight'
  BY <1>1, <1>2 DEF PipeRight
<1>4. HeardRight'
  BY <1>1 DEF HeardRight, Carries
<1> QED
  BY <1>3, <1>4

(* A step that writes an event. *)
LEMMA PipeGrown ==
    ASSUME RuntimeRight, RunSmooth, ~Finished, UNCHANGED <<manager, record>>,
           NEW e \in RawEvent, pipe' = Append(pipe, e), manager.stdout # "eof",
           e.seq = worker.seq + 1, worker'.seq = worker.seq + 1,
           e.type \in KnownTypes \ {"agent.failed"}, PayloadModel(e.type, e.payload, e.list),
           Clean(e.payload, e.list),
           record.candidate # "none", Offered => Offered' /\ outputs' = outputs,
           e.type \in Closing => Carries(e)',
           e.type = "artifact.candidate" => ~Offered,
           e.type = "agent.completed" => Finished'
    PROVE  PipeRight'
<1> DEFINE n == Len(pipe)
<1>0. /\ pipe \in Seq(RawEvent) /\ n \in Nat /\ worker \in Worker /\ manager \in Manager
      /\ PipeRight /\ HeardRight
  BY RuntimeFacts DEF RunSmooth
<1>1. /\ Len(pipe') = n + 1 /\ \A i \in 1..n : pipe'[i] = pipe[i]
      /\ pipe'[n + 1] = e
  BY <1>0, Grown
<1>2. worker.seq \in Nat /\ manager.last \in Nat /\ \A i \in 1..n : pipe[i].seq \in Nat
  <2>1. \A i \in 1..n : pipe[i] \in RawEvent
    BY <1>0, LenProperties
  <2> QED
    BY <1>0, <2>1 DEF Worker, Manager, RawEvent
<1>3. /\ \A i \in 1..n : Readable(pipe[i])
      /\ manager.last <= worker.seq
  BY <1>0 DEF PipeRight
<1>4. \A i \in 1..n : pipe[i].seq <= worker.seq /\ pipe[i].type # "agent.completed"
  BY <1>3 DEF Readable
<1>5. \A i \in 1..n : Readable(pipe[i])'
  <2> SUFFICES ASSUME NEW i \in 1..n PROVE Readable(pipe[i])'
    OBVIOUS
  <2>1. Readable(pipe[i]) /\ pipe'[i] = pipe[i]
    BY <1>1, <1>3
  <2>2. pipe[i].seq <= worker'.seq
    BY <1>2, <1>4
  <2>3. pipe[i].type \in Closing => Carries(pipe[i])'
    BY <2>1 DEF Readable, Carries
  <2>4. pipe[i].type # "agent.completed"
    BY <1>4
  <2> QED
    BY <2>1, <2>2, <2>3, <2>4 DEF Readable
<1>6. Readable(e)'
  <2>1. manager.last < e.seq /\ e.seq <= worker'.seq
    BY <1>2, <1>3
  <2>2. e.type = "artifact.candidate" => manager.candidate = NoEvent
    BY <1>0 DEF HeardRight, Carries
  <2> QED
    BY <2>1, <2>2 DEF Readable
<1>7. \A i, j \in 1..n : i < j =>
          /\ pipe[i].seq < pipe[j].seq
          /\ ~(pipe[i].type = "artifact.candidate" /\ pipe[j].type = "artifact.candidate")
  BY <1>0 DEF PipeRight
<1>8. \A i \in 1..n : pipe[i].type = "artifact.candidate" => e.type # "artifact.candidate"
  BY <1>3 DEF Readable, Carries, Closing
<1> HIDE DEF n
<1>9. \A i \in 1..(n + 1) : i \in 1..n \/ i = n + 1
  BY <1>0
<1>10. ASSUME NEW i \in 1..(n + 1)
       PROVE  Readable(pipe[i])' /\ (pipe'[i].type = "agent.completed" => i = n + 1)
  <2>1. CASE i \in 1..n
    BY <1>1, <1>4, <1>5, <2>1
  <2>2. CASE i = n + 1
    <3>1. pipe'[i] = e
      BY <1>1, <2>2
    <3> QED
      BY <1>6, <2>2, <3>1 DEF Readable, Carries
  <2> QED
    BY <1>9, <2>1, <2>2
<1>11. ASSUME NEW i \in 1..(n + 1), NEW j \in 1..(n + 1), i < j
       PROVE  /\ pipe'[i].seq < pipe'[j].seq
              /\ ~(pipe'[i].type = "artifact.candidate" /\ pipe'[j].type = "artifact.candidate")
  <2>1. i \in 1..n
    BY <1>0, <1>11
  <2>2. CASE j \in 1..n
    BY <1>1, <1>7, <1>11, <2>1, <2>2
  <2>3. CASE j = n + 1
    <3>1. pipe[i].seq < e.seq
      BY <1>2, <1>4, <2>1
    <3> QED
      BY <1>1, <1>8, <2>1, <2>3, <3>1
  <2> QED
    BY <1>9, <2>2, <2>3
<1>12. manager.last <= worker'.seq
  BY <1>2, <1>3
<1> QED
  BY <1>1, <1>10, <1>11, <1>12 DEF PipeRight

(* The worker asks, and waits for an answer. *)
LEMMA AskSmooth ==
    ASSUME RuntimeRight, RunSmooth, OnCandidate \/ TurnEnds, WorkerUnchanged
    PROVE  RunSmooth'
<1>0. worker \in Worker /\ Handshake /\ UNCHANGED <<manager, record, journal>>
  BY RuntimeFacts DEF RunSmooth, WorkerUnchanged
<1>1. /\ UNCHANGED <<outputs, pipe>> /\ worker'.seq = worker.seq
      /\ \/ worker.at = "setup" /\ worker'.at = "created" /\ control' = "created"
         \/ worker.at = "turn" /\ worker'.at = "durable" /\ control' = "durable"
  BY <1>0 DEF OnCandidate, TurnEnds, Ask, Worker
<1>2. ~Offered /\ ~Offered' /\ ~Finished /\ ~Finished'
  BY <1>1 DEF Offered, Finished
<1>3. RunWell' /\ JournalGood'
  BY <1>0, <1>1, <1>2, WorkerKept
<1>4. PipeRight' /\ HeardRight'
  BY <1>0, <1>1, <1>2, PipeKept
<1>5. Handshake'
  BY <1>0, <1>1, <1>2 DEF Handshake
<1>6. OutputsRight'
  BY <1>1, <1>2 DEF OutputsRight, Settled
<1> QED
  BY <1>3, <1>4, <1>5, <1>6 DEF RunSmooth

(* What Emit writes, as an event of its own. *)
LEMMA EmittedEvent ==
    ASSUME RuntimeRight, NEW type \in KnownTypes, NEW payload \in RawPayload, NEW list \in RawList,
           pipe' = Append(pipe, Event(worker.seq + 1, type, payload, list))
    PROVE  \E e \in RawEvent : /\ pipe' = Append(pipe, e) /\ e.seq = worker.seq + 1
                               /\ e.type = type /\ e.payload = payload /\ e.list = list
<1> DEFINE n == worker.seq + 1
<1>1. n \in Nat
  BY RuntimeFacts DEF Worker
<1> HIDE DEF n
<1>2. Event(n, type, payload, list) \in RawEvent
  BY <1>1, RawTyped
<1>3. /\ Event(n, type, payload, list).seq = n /\ Event(n, type, payload, list).type = type
      /\ Event(n, type, payload, list).payload = payload
      /\ Event(n, type, payload, list).list = list
  BY DEF Event
<1> QED
  BY <1>2, <1>3 DEF n

LEMMA Constants ==
    /\ {PhasePayload, CandidatePayload, CompletedPayload} \subseteq RawPayload
    /\ \A t \in Turns : t[2] \in RawPayload
    /\ << >> \in RawList /\ \A r \in Results : r.list \in RawList
  BY DEF RawPayload, RawList

(* An event of the turn: the phase, or what the SDK causes. *)
LEMMA TurnEventSmooth ==
    ASSUME RuntimeRight, RunSmooth, WorkerUnchanged, WellWorker', Plain',
           CandidateAcknowledged \/ StreamTurn
    PROVE  RunSmooth'
<1>0. /\ worker \in Worker /\ Handshake /\ WorkerRight /\ UNCHANGED <<manager, record, journal>>
      /\ PipeRight /\ HeardRight
  BY RuntimeFacts DEF RunSmooth, WorkerUnchanged
<1>1. /\ worker.at \in {"created", "turn"} /\ worker'.at = "turn" /\ worker'.seq = worker.seq + 1
      /\ UNCHANGED outputs /\ control' = "idle" /\ record.candidate = "created"
      /\ \E type \in KnownTypes \ (Closing \cup {"agent.failed"}), payload \in RawPayload :
            /\ PayloadModel(type, payload, << >>) /\ Clean(payload, << >>)
            /\ pipe' = Append(pipe, Event(worker.seq + 1, type, payload, << >>))
  <2>1. CASE CandidateAcknowledged
    <3>1. /\ PayloadModel("phase.changed", PhasePayload, << >>) /\ PhasePayload \in RawPayload
          /\ Clean(PhasePayload, << >>)
      <4>1. \A i \in DOMAIN << >> : ArtifactModel(<< >>[i])
        OBVIOUS
      <4>2. Clean(<< >>, << >>)
        BY DEF Clean, Storable, Handy, Holds
      <4> QED
        BY <4>1, <4>2, OwnPayloads, OwnClean, Constants
    <3>2. "phase.changed" \in KnownTypes \ (Closing \cup {"agent.failed"})
      BY KnownAre DEF Closing
    <3>3. /\ worker.at = "created" /\ control = "acked" /\ control' = "idle" /\ UNCHANGED outputs
          /\ pipe' = Append(pipe, Event(worker.seq + 1, "phase.changed", PhasePayload, << >>))
          /\ worker' = [worker EXCEPT !.seq = worker.seq + 1, !.at = "turn"]
      BY <2>1 DEF CandidateAcknowledged, Emit
    <3>4. worker'.at = "turn" /\ worker'.seq = worker.seq + 1
      BY <1>0, <3>3 DEF Worker
    <3>5. record.candidate = "created"
      BY <1>0, <3>3 DEF Handshake
    <3> QED
      BY <3>1, <3>2, <3>3, <3>4, <3>5
  <2>2. CASE StreamTurn
    <3>1. PICK t \in Turns :
             IF PayloadModel(t[1], t[2], << >>)
             THEN /\ pipe' = Append(pipe, Event(worker.seq + 1, t[1], t[2], << >>))
                  /\ worker' = [worker EXCEPT !.seq = worker.seq + 1,
                                              !.turns = Append(worker.turns, t)]
             ELSE worker' = [worker EXCEPT !.at = "failing"]
      BY <2>2 DEF StreamTurn
    <3>2. worker.at = "turn" /\ UNCHANGED <<outputs, control>>
      BY <2>2 DEF StreamTurn
    <3>3. PayloadModel(t[1], t[2], << >>)
      <4>1. worker'.at # "failing"
        <5>1. ASSUME worker'.at = "failing" PROVE worker.status = worker'.status
          BY <1>0, <3>1, <3>2, <5>1 DEF Worker
        <5> QED
          BY <1>0, <3>2, <5>1 DEF WellWorker, WorkerRight
      <4> QED
        BY <1>0, <3>1, <4>1 DEF Worker
    <3>4. worker'.at = "turn" /\ worker'.seq = worker.seq + 1
      BY <1>0, <3>1, <3>2, <3>3 DEF Worker
    <3>5. t[1] \in KnownTypes \ (Closing \cup {"agent.failed"}) /\ t[2] \in RawPayload
      BY TurnsAssumption, Constants DEF Closing
    <3>6. control' = "idle" /\ record.candidate = "created"
      BY <1>0, <3>2 DEF Handshake
    <3>7. Clean(t[2], << >>)
      <4>1. worker'.turns = Append(worker.turns, t) /\ worker.turns \in Seq(Turns)
        BY <1>0, <3>1, <3>3 DEF Worker
      <4>2. Len(worker.turns) + 1 \in DOMAIN worker'.turns /\ worker'.turns[Len(worker.turns) + 1] = t
        BY <4>1
      <4> QED
        BY <4>2 DEF Plain, CleanTurns
    <3> QED
      BY <3>1, <3>2, <3>3, <3>4, <3>5, <3>6, <3>7
  <2> QED
    BY <2>1, <2>2
<1>2. PICK type \in KnownTypes \ (Closing \cup {"agent.failed"}), payload \in RawPayload :
          /\ PayloadModel(type, payload, << >>) /\ Clean(payload, << >>)
          /\ pipe' = Append(pipe, Event(worker.seq + 1, type, payload, << >>))
  BY <1>1
<1>3. PICK e \in RawEvent : /\ pipe' = Append(pipe, e) /\ e.seq = worker.seq + 1
                            /\ e.type = type /\ e.payload = payload /\ e.list = << >>
  BY <1>2, EmittedEvent, Constants
<1>4. ~Offered /\ ~Offered' /\ ~Finished /\ ~Finished'
  BY <1>1 DEF Offered, Finished
<1>5. manager.stdout # "eof"
  BY <1>0, <1>1 DEF WorkerRight, Alive
<1>6. PipeRight'
  <2>1. e.type \notin Closing
    BY <1>2, <1>3
  <2>2. /\ record.candidate # "none" /\ PayloadModel(e.type, e.payload, e.list)
        /\ Clean(e.payload, e.list)
    BY <1>1, <1>2, <1>3
  <2>3. e.type # "artifact.candidate" /\ e.type # "agent.completed"
    BY <2>1 DEF Closing
  <2>4. e.type \in KnownTypes \ {"agent.failed"}
    BY <1>2, <1>3
  <2> QED
    BY <1>0, <1>1, <1>3, <1>4, <1>5, <2>1, <2>2, <2>3, <2>4, PipeGrown
<1>7. HeardRight'
  BY <1>0, <1>4 DEF HeardRight, Carries
<1>8. RunWell' /\ JournalGood'
  BY <1>0, <1>1, <1>4, WorkerKept
<1>9. Handshake' /\ OutputsRight'
  BY <1>0, <1>1, <1>4 DEF Handshake, OutputsRight, Settled
<1> QED
  BY <1>6, <1>7, <1>8, <1>9 DEF RunSmooth

(* The outputs are accepted by the Runtime's own rules. *)
LEMMA ValidatedSmooth ==
    ASSUME RuntimeRight, RunSmooth, WorkerUnchanged, WellWorker', Plain',
           NEW result \in Results, ValidateArtifactsOf(result)
    PROVE  RunSmooth'
<1>0. worker \in Worker /\ Handshake /\ WorkerRight /\ UNCHANGED <<manager, record, journal>>
  BY RuntimeFacts DEF RunSmooth, WorkerUnchanged
<1>1. /\ worker.at = "durable" /\ control = "acked" /\ control' = "idle" /\ UNCHANGED pipe
      /\ worker'.seq = worker.seq /\ worker'.status = worker.status
      /\ IF AcceptsOutputs(result, Allowed) THEN outputs' = result /\ worker'.at = "offer"
         ELSE worker'.at = "failing"
  BY <1>0 DEF ValidateArtifactsOf, Worker
<1>2. AcceptsOutputs(result, Allowed) /\ outputs' = result /\ worker'.at = "offer"
  <2>1. worker.status = "none"
    BY <1>0, <1>1 DEF WorkerRight
  <2> QED
    BY <1>1, <2>1 DEF WellWorker
<1>3. ~Offered /\ ~Offered' /\ ~Finished /\ ~Finished'
  BY <1>1, <1>2 DEF Offered, Finished
<1>4. RunWell' /\ JournalGood'
  BY <1>0, <1>1, <1>2, <1>3, WorkerKept
<1>5. PipeRight' /\ HeardRight'
  BY <1>0, <1>1, <1>3, PipeKept
<1>6. Handshake' /\ OutputsRight'
  BY <1>0, <1>1, <1>2, <1>3 DEF Handshake, OutputsRight, Settled, Plain
<1> QED
  BY <1>4, <1>5, <1>6 DEF RunSmooth

(* The offer and the completion, each with the summary of the outputs. *)
LEMMA ClosingSmooth ==
    ASSUME RuntimeRight, RunSmooth, WorkerUnchanged, OfferArtifacts \/ Complete
    PROVE  RunSmooth'
<1>0. /\ worker \in Worker /\ Handshake /\ OutputsRight /\ WorkerRight /\ PipeRight /\ HeardRight
      /\ UNCHANGED <<manager, record, journal>>
      /\ UNCHANGED <<outputs, control>>
  BY RuntimeFacts DEF RunSmooth, WorkerUnchanged, OfferArtifacts, Complete
<1>1. \E type \in Closing, payload \in RawPayload :
          /\ type = "artifact.candidate" => worker.at = "offer" /\ worker'.at = "complete"
          /\ type = "agent.completed" => worker.at = "complete" /\ worker'.at = "leaving"
          /\ worker'.seq = worker.seq + 1
          /\ PayloadModel(type, payload, outputs.list) /\ Clean(payload, outputs.list)
          /\ pipe' = Append(pipe, Event(worker.seq + 1, type, payload, outputs.list))
  <2>1. worker.at \in {"offer", "complete"}
    BY DEF OfferArtifacts, Complete
  <2>2. \A i \in DOMAIN outputs.list : ArtifactModel(outputs.list[i])
    BY <1>0, <2>1, OutputsModel DEF OutputsRight, Settled, Offered
  <2>3. /\ PayloadModel("artifact.candidate", CandidatePayload, outputs.list)
        /\ PayloadModel("agent.completed", CompletedPayload, outputs.list)
        /\ CandidatePayload \in RawPayload /\ CompletedPayload \in RawPayload
        /\ Clean(CandidatePayload, outputs.list) /\ Clean(CompletedPayload, outputs.list)
    <3>1. Clean(<< >>, outputs.list)
      BY <1>0, <2>1 DEF OutputsRight, Settled, Offered, PlainOutputs
    <3> QED
      BY <2>2, <3>1, OwnPayloads, OwnClean, Constants
  <2>4. CASE OfferArtifacts
    <3>1. /\ worker.at = "offer" /\ worker'.at = "complete" /\ worker'.seq = worker.seq + 1
          /\ pipe' = Append(pipe, Event(worker.seq + 1, "artifact.candidate", CandidatePayload,
                                        outputs.list))
      BY <1>0, <2>4 DEF OfferArtifacts, Emit, Worker
    <3>2. "artifact.candidate" \in Closing
      BY DEF Closing
    <3> QED
      BY <2>3, <3>1, <3>2
  <2>5. CASE Complete
    <3>1. /\ worker.at = "complete" /\ worker'.at = "leaving" /\ worker'.seq = worker.seq + 1
          /\ pipe' = Append(pipe, Event(worker.seq + 1, "agent.completed", CompletedPayload,
                                        outputs.list))
      BY <1>0, <2>5 DEF Complete, Emit, Worker
    <3>2. "agent.completed" \in Closing
      BY DEF Closing
    <3> QED
      BY <2>3, <3>1, <3>2
  <2> QED
    BY <2>4, <2>5
<1>2. PICK type \in Closing, payload \in RawPayload :
          /\ type = "artifact.candidate" => worker.at = "offer" /\ worker'.at = "complete"
          /\ type = "agent.completed" => worker.at = "complete" /\ worker'.at = "leaving"
          /\ worker'.seq = worker.seq + 1
          /\ PayloadModel(type, payload, outputs.list) /\ Clean(payload, outputs.list)
          /\ pipe' = Append(pipe, Event(worker.seq + 1, type, payload, outputs.list))
  BY <1>1
<1>3. type \in KnownTypes \ {"agent.failed"} /\ type \in {"artifact.candidate", "agent.completed"}
  BY <1>2, KnownAre DEF Closing
<1>4. PICK e \in RawEvent : /\ pipe' = Append(pipe, e) /\ e.seq = worker.seq + 1
                            /\ e.type = type /\ e.payload = payload /\ e.list = outputs.list
  <2>1. outputs.list \in RawList
    BY RuntimeFacts
  <2> QED
    BY <1>2, <1>3, <2>1, EmittedEvent
<1>5. /\ worker.at \in {"offer", "complete"} /\ worker'.at \in {"complete", "leaving"}
      /\ ~Finished /\ Offered' /\ (Offered <=> type = "agent.completed")
      /\ (Finished' <=> type = "agent.completed")
  BY <1>2, <1>3 DEF Offered, Finished
<1>6. Carries(e)' /\ record.candidate = "durable" /\ control = "idle"
  BY <1>0, <1>4, <1>5 DEF Carries, Handshake, Offered
<1>7. PipeRight'
  <2>1. manager.stdout # "eof" /\ record.candidate # "none"
    BY <1>0, <1>5, <1>6 DEF WorkerRight, Alive
  <2>2. PayloadModel(e.type, e.payload, e.list) /\ Clean(e.payload, e.list)
    BY <1>2, <1>4
  <2> QED
    BY <1>0, <1>2, <1>3, <1>4, <1>5, <1>6, <2>1, <2>2, PipeGrown
<1>8. HeardRight'
  <2>1. /\ Len(pipe) \in Nat /\ Len(pipe') = Len(pipe) + 1
        /\ \A i \in 1..Len(pipe) : pipe'[i] = pipe[i]
        /\ pipe'[Len(pipe) + 1] = e
    BY <1>4, RuntimeFacts, Grown
  <2>2. \E i \in 1..Len(pipe') : pipe'[i].type = type
    BY <1>4, <2>1
  <2>3. (\E i \in 1..Len(pipe) : pipe[i].type = "artifact.candidate") =>
            \E i \in 1..Len(pipe') : pipe'[i].type = "artifact.candidate"
    BY <2>1
  <2>4. manager.terminal = NoEvent /\ (manager.candidate # NoEvent => Carries(manager.candidate)')
    BY <1>0, <1>5 DEF HeardRight, Carries
  <2>5. type = "agent.completed" => \/ manager.candidate # NoEvent
                                    \/ \E i \in 1..Len(pipe) : pipe[i].type = "artifact.candidate"
    BY <1>0, <1>5 DEF HeardRight
  <2> QED
    BY <1>0, <1>3, <1>5, <2>2, <2>3, <2>4, <2>5 DEF HeardRight
<1>9. RunWell' /\ JournalGood'
  BY <1>0, <1>5, WorkerKept
<1>10. Handshake' /\ OutputsRight'
  <2>1. outputs \in Results /\ AcceptsOutputs(outputs, Allowed) /\ PlainOutputs(outputs)
    BY <1>0, <1>5 DEF OutputsRight, Settled, Offered
  <2> QED
    BY <1>0, <1>5, <1>6, <2>1 DEF Handshake, OutputsRight, Settled
<1> QED
  BY <1>7, <1>8, <1>9, <1>10 DEF RunSmooth

LEMMA WorkerExitsSmooth ==
    ASSUME RuntimeRight, RunSmooth, WorkerUnchanged, WorkerExits, WellWorker'
    PROVE  RunSmooth'
<1>0. /\ worker \in Worker /\ Handshake /\ OutputsRight /\ UNCHANGED <<manager, record, journal>>
      /\ UNCHANGED <<outputs, pipe, control>>
  BY RuntimeFacts DEF RunSmooth, WorkerUnchanged, WorkerExits
<1>1. worker.at = "leaving" /\ worker'.at = "exited" /\ worker'.seq = worker.seq
  BY <1>0 DEF WorkerExits, Exit, WellWorker, Worker
<1>2. Offered /\ Offered' /\ Finished /\ Finished'
  BY <1>1 DEF Offered, Finished
<1>3. RunWell' /\ JournalGood'
  BY <1>0, <1>1, <1>2, WorkerKept
<1>4. PipeRight' /\ HeardRight'
  BY <1>0, <1>1, <1>2, PipeKept
<1>5. Handshake' /\ OutputsRight'
  BY <1>0, <1>1, <1>2 DEF Handshake, OutputsRight, Settled
<1> QED
  BY <1>3, <1>4, <1>5 DEF RunSmooth

LEMMA WorkerSmooth ==
    ASSUME RuntimeRight, RunSmooth, WorkerNext, ~Fault, worker.at # "dismissed",
           WellWorker, WellWorker', Plain'
    PROVE  /\ RunSmooth' /\ UNCHANGED <<journal, manager, row, client, pump>>
           /\ Offered => Offered' /\ outputs' = outputs
<1>0. worker \in Worker /\ WorkerRight /\ WorkerUnchanged
  BY RuntimeFacts DEF WorkerNext
<1>1. UNCHANGED <<journal, manager, row, client, pump>>
  BY <1>0 DEF WorkerUnchanged, planeVars
<1>2. ~TurnFails /\ ~FailTurn
  <2>1. ASSUME TurnFails PROVE FALSE
    <3>1. worker'.at = "failing" /\ worker'.status = worker.status /\ worker.at \in {"setup", "turn"}
      BY <1>0, <2>1 DEF TurnFails, Worker
    <3> QED
      BY <1>0, <3>1 DEF WellWorker, WorkerRight
  <2>2. ASSUME FailTurn PROVE FALSE
    BY <1>0, <2>2 DEF FailTurn, WellWorker, WorkerRight
  <2> QED
    BY <2>1, <2>2
<1>3. \/ OnCandidate \/ TurnEnds \/ CandidateAcknowledged \/ StreamTurn \/ OfferArtifacts
      \/ Complete \/ WorkerExits \/ \E result \in Results : ValidateArtifactsOf(result)
  BY <1>2 DEF WorkerNext, WorkerDies, Dismissed
<1>4. RunSmooth'
  BY <1>0, <1>3, AskSmooth, TurnEventSmooth, ClosingSmooth, WorkerExitsSmooth, ValidatedSmooth
<1>5. ASSUME Offered PROVE Offered' /\ outputs' = outputs
  <2>1. OfferArtifacts \/ Complete \/ WorkerExits
    BY <1>3, <1>5 DEF Offered, OnCandidate, TurnEnds, CandidateAcknowledged, StreamTurn,
                      ValidateArtifactsOf
  <2>2. Complete \/ WorkerExits
    BY <1>5, <2>1 DEF OfferArtifacts, Offered
  <2>3. UNCHANGED outputs /\ worker'.at \in {"leaving", "exited"}
    BY <1>0, <2>2 DEF Complete, Emit, WorkerExits, Exit, Worker
  <2> QED
    BY <2>3 DEF Offered
<1> QED
  BY <1>1, <1>4, <1>5

-----------------------------------------------------------------------------
(* The manager's steps. *)

LEMMA StartSmooth ==
    ASSUME RuntimeRight, RunSmooth, ~Fault, OpenJournal \/ CheckCancelled \/ Spawn \/ Register
    PROVE  RunSmooth' /\ UNCHANGED journal
<1>0. /\ worker \in Worker /\ manager \in Manager /\ record \in Record
      /\ WorkerRight /\ CandidateRight /\ RunWell /\ Handshake /\ OutputsRight /\ PipeRight
  BY RuntimeFacts DEF RunSmooth
<1>1. /\ UNCHANGED <<outputs, pipe, control, journal>>
      /\ record'.stored = record.stored /\ record'.candidate = record.candidate
      /\ manager'.last = manager.last /\ manager'.candidate = manager.candidate
      /\ manager'.terminal = manager.terminal /\ manager'.cancelled = manager.cancelled
      /\ manager'.raised = manager.raised /\ manager'.success = manager.success
      /\ worker'.seq = worker.seq
      /\ \/ /\ manager.at = "open" /\ manager'.at = "locked" /\ manager'.ready
            /\ UNCHANGED worker /\ manager'.stdout = manager.stdout
            /\ manager'.controls = manager.controls /\ UNCHANGED record
         \/ /\ manager.at = "locked" /\ manager'.at = "spawn" /\ manager'.ready = manager.ready
            /\ UNCHANGED worker /\ manager'.stdout = manager.stdout
            /\ manager'.controls = manager.controls /\ UNCHANGED record
         \/ /\ manager.at = "spawn" /\ manager'.at = "register" /\ manager'.ready = manager.ready
            /\ worker'.at = "held" /\ manager'.stdout = manager.stdout
            /\ manager'.controls = manager.controls /\ UNCHANGED record
         \/ /\ manager.at = "register" /\ manager'.at = "reading" /\ manager'.ready = manager.ready
            /\ worker'.at = "setup" /\ manager'.stdout = "open" /\ manager'.controls = "open"
  <2>1. CASE OpenJournal
    BY <1>0, <2>1 DEF OpenJournal, Manager
  <2>2. CASE CheckCancelled
    BY <1>0, <2>2 DEF CheckCancelled, Goto, Manager, RunWell
  <2>3. CASE Spawn
    BY <1>0, <2>3 DEF Spawn, Goto, Manager, Worker
  <2>4. CASE Register
    <3>1. Alive
      BY <1>0, <2>4 DEF Register, RunWell, Alive
    <3>2. /\ manager.at = "register" /\ record' = [record EXCEPT !.lifecycle = "running"]
          /\ manager' = [manager EXCEPT !.at = "reading", !.stdout = "open", !.controls = "open"]
          /\ worker' = [worker EXCEPT !.at = "setup"]
          /\ UNCHANGED <<outputs, pipe, control, journal>>
      BY <1>0, <2>4, <3>1 DEF Register, RunWell
    <3> QED
      BY <1>0, <3>2 DEF Manager, Worker, Record
  <2> QED
    BY <2>1, <2>2, <2>3, <2>4
<1>2. /\ worker.at \in {"none", "held"} /\ worker'.at \in {"none", "held", "setup"}
      /\ ~Told /\ ~Told'
  BY <1>0, <1>1 DEF RunWell, Told
<1>3. ~Offered /\ ~Offered' /\ ~Finished /\ ~Finished' /\ worker.at # "offer"
  BY <1>2 DEF Offered, Finished
<1>4. RunWell'
  BY <1>0, <1>1 DEF RunWell
<1>5. Handshake' /\ OutputsRight'
  BY <1>0, <1>1, <1>2, <1>3 DEF Handshake, OutputsRight, Settled
<1>6. manager'.stdout = "eof" => pipe = << >>
  BY <1>0, <1>1 DEF PipeRight
<1>7. PipeRight' /\ HeardRight' /\ JournalGood'
  <2>1. /\ \A i \in 1..Len(pipe) : Readable(pipe[i])
        /\ \A i \in 1..Len(journal) : Parsable(journal[i])
        /\ HeardRight /\ JournalGood
    BY <1>0 DEF PipeRight, JournalGood, RunSmooth
  <2>2. /\ \A i \in 1..Len(pipe) : Readable(pipe[i])'
        /\ \A i \in 1..Len(journal) : Parsable(journal[i])'
    BY <1>1, <1>3, <2>1 DEF Readable, Parsable, Carries
  <2>3. PipeRight'
    BY <1>0, <1>1, <1>6, <2>2 DEF PipeRight
  <2>4. HeardRight'
    BY <1>1, <1>3, <2>1 DEF HeardRight, Carries
  <2>5. JournalGood'
    BY <1>1, <1>2, <2>1, <2>2 DEF JournalGood, Announced, Closed
  <2> QED
    BY <2>3, <2>4, <2>5
<1> QED
  BY <1>1, <1>4, <1>5, <1>7 DEF RunSmooth

(* The readers come to the end of what a finished worker wrote, and the    *)
(* run is judged a success.                                                *)
LEMMA EndSmooth ==
    ASSUME RuntimeRight, RunSmooth, WellWorker, ~Fault,
           StdoutEnds \/ ControlEnds \/ Judge \/ MarkAwaitingFinalize
    PROVE  RunSmooth' /\ UNCHANGED journal
<1>0. /\ manager \in Manager /\ record \in Record /\ WorkerRight /\ RunWell /\ Handshake
      /\ OutputsRight /\ PipeRight /\ HeardRight /\ JudgementRight
  BY RuntimeFacts DEF RunSmooth
<1>1. /\ UNCHANGED <<worker, outputs, pipe, control, journal>>
      /\ record'.stored = record.stored /\ record'.candidate = record.candidate
      /\ manager'.last = manager.last /\ manager'.candidate = manager.candidate
      /\ manager'.terminal = manager.terminal /\ manager'.cancelled = manager.cancelled
      /\ manager'.raised = manager.raised /\ manager'.ready = manager.ready
      /\ manager'.stdout \in {manager.stdout, "eof"} /\ manager'.controls \in {manager.controls, "eof"}
      /\ \/ /\ StdoutEnds /\ pipe = << >> /\ manager'.at = manager.at
            /\ manager'.success = manager.success
         \/ /\ ControlEnds /\ manager'.at = manager.at /\ manager'.stdout = manager.stdout
            /\ manager'.success = manager.success
         \/ /\ Judge /\ manager.at = "reading" /\ manager'.at = "publish"
            /\ manager'.stdout = manager.stdout /\ manager.stdout = "eof"
            /\ manager'.success = (worker.status = "0" /\ manager.terminal # NoEvent)
         \/ /\ MarkAwaitingFinalize /\ manager.at = "mark" /\ manager'.at = "done"
            /\ manager'.stdout = manager.stdout /\ manager'.success = manager.success
  <2>1. CASE StdoutEnds
    BY <1>0, <2>1 DEF StdoutEnds, Manager
  <2>2. CASE ControlEnds
    BY <1>0, <2>2 DEF ControlEnds, Manager
  <2>3. CASE Judge
    BY <1>0, <2>3 DEF Judge, Manager, RunWell
  <2>4. CASE MarkAwaitingFinalize
    BY <1>0, <2>4 DEF MarkAwaitingFinalize, Goto, Manager, Record, RunWell
  <2> QED
    BY <2>1, <2>2, <2>3, <2>4
<1>2. Judge => manager'.success
  <2> SUFFICES ASSUME Judge PROVE worker.status = "0" /\ manager.terminal # NoEvent
    BY <1>1 DEF Judge, StdoutEnds, ControlEnds, MarkAwaitingFinalize
  <2>1. manager.at = "reading" /\ manager.stdout = "eof"
    BY DEF Judge
  <2>2. ~Alive /\ pipe = << >> /\ worker.at # "none"
    BY <1>0, <2>1 DEF WorkerRight, PipeRight, RunWell
  <2>3. worker.at = "exited"
    BY <2>2 DEF Alive
  <2>4. worker.status = "0"
    BY <2>3 DEF WellWorker
  <2>5. Len(pipe) = 0
    BY <2>2
  <2>6. manager.terminal # NoEvent
    BY <1>0, <2>3, <2>5 DEF HeardRight, Finished
  <2> QED
    BY <2>4, <2>6
<1>3. RunWell'
  <2>1. manager'.at \in {"publish", "mark", "done"} => manager'.success
    BY <1>0, <1>1, <1>2 DEF RunWell
  <2> QED
    BY <1>0, <1>1, <2>1 DEF RunWell
<1>4. Handshake' /\ OutputsRight'
  BY <1>0, <1>1 DEF Handshake, OutputsRight, Settled, Offered
<1>5. manager'.stdout = "eof" => pipe = << >>
  BY <1>0, <1>1 DEF PipeRight
<1>6. Told <=> Told'
  BY <1>1 DEF Told
<1>7. PipeRight' /\ HeardRight' /\ JournalGood'
  <2>1. /\ \A i \in 1..Len(pipe) : Readable(pipe[i])
        /\ \A i \in 1..Len(journal) : Parsable(journal[i])
        /\ JournalGood
    BY <1>0 DEF PipeRight, JournalGood, RunSmooth
  <2>2. /\ \A i \in 1..Len(pipe) : Readable(pipe[i])'
        /\ \A i \in 1..Len(journal) : Parsable(journal[i])'
    BY <1>1, <2>1 DEF Readable, Parsable, Carries, Offered, Finished
  <2>3. PipeRight'
    BY <1>0, <1>1, <1>5, <2>2 DEF PipeRight
  <2>4. HeardRight'
    BY <1>0, <1>1 DEF HeardRight, Carries, Offered, Finished
  <2>5. JournalGood'
    BY <1>1, <1>6, <2>1, <2>2, SMTT(30) DEF JournalGood, Announced, Closed
  <2> QED
    BY <2>3, <2>4, <2>5
<1> QED
  BY <1>1, <1>3, <1>4, <1>7 DEF RunSmooth

(* The candidate is recorded, and the worker told. *)
LEMMA ControlSmooth ==
    ASSUME RuntimeRight, RunSmooth, WellWorker, ~Fault, ReadControl
    PROVE  RunSmooth' /\ UNCHANGED journal
<1>0. /\ worker \in Worker /\ record \in Record /\ WorkerRight /\ RunWell /\ Handshake
      /\ OutputsRight /\ CandidateRight
  BY RuntimeFacts DEF RunSmooth
<1>1. /\ control \in {"created", "durable"} /\ UNCHANGED <<worker, outputs, pipe, journal>>
      /\ record' = [record EXCEPT !.candidate = control]
      /\ IF Alive THEN control' = "acked" /\ UNCHANGED manager
         ELSE manager' = [manager EXCEPT !.controls = "failed"]
  BY <1>0 DEF ReadControl, RunWell
<1>2. Alive /\ worker.at \in {"created", "durable"} /\ worker.at = control
  <2>1. worker.at \in {"created", "durable"} /\ worker.at = control
    BY <1>0, <1>1 DEF Handshake, WellWorker, Offered, WorkerRight
  <2> QED
    BY <2>1 DEF Alive
<1>3. /\ control' = "acked" /\ UNCHANGED manager /\ record'.stored = record.stored
      /\ record'.candidate = worker.at
  BY <1>0, <1>1, <1>2 DEF Record
<1>4. ~Offered /\ ~Offered' /\ ~Finished /\ ~Finished'
  BY <1>1, <1>2 DEF Offered, Finished
<1>5. RunWell' /\ OutputsRight' /\ Handshake'
  BY <1>0, <1>1, <1>2, <1>3, <1>4 DEF RunWell, OutputsRight, Settled, Handshake
<1>6. PipeRight' /\ HeardRight' /\ JournalGood'
  <2>1. /\ \A i \in 1..Len(pipe) : Readable(pipe[i])
        /\ \A i \in 1..Len(journal) : Parsable(journal[i])
        /\ PipeRight /\ HeardRight /\ JournalGood
    BY <1>0 DEF PipeRight, JournalGood, RunSmooth
  <2>2. /\ \A i \in 1..Len(pipe) : Readable(pipe[i])'
        /\ \A i \in 1..Len(journal) : Parsable(journal[i])'
    BY <1>1, <1>3, <1>4, <2>1 DEF Readable, Parsable, Carries
  <2>3. PipeRight'
    <3>1. record'.candidate # "none"
      BY <1>2, <1>3
    <3> QED
      BY <1>1, <1>3, <2>1, <2>2, <3>1 DEF PipeRight
  <2>4. HeardRight'
    BY <1>1, <1>3, <1>4, <2>1 DEF HeardRight, Carries
  <2>5. JournalGood'
    BY <1>1, <1>3, <2>1, <2>2 DEF JournalGood, Announced, Closed, Told
  <2> QED
    BY <2>3, <2>4, <2>5
<1> QED
  BY <1>1, <1>5, <1>6 DEF RunSmooth

(* A line with the next number, after which nothing known comes once the   *)
(* outcome is there.                                                       *)
LEMMA JournalGrown ==
    ASSUME RuntimeRight, RunSmooth, UNCHANGED <<worker, outputs>>,
           NEW e \in LogEvent, journal' = Append(journal, e), Parsable(e),
           e.type \in KnownTypes => ~Told,
           e.type = "artifact.candidate" => manager'.candidate # NoEvent,
           e.type = "agent.completed" => Told' /\ manager.candidate # NoEvent,
           Told => Told', Told' => Told \/ e.type = "agent.completed",
           manager.candidate # NoEvent => manager'.candidate # NoEvent,
           manager'.candidate # NoEvent =>
               manager.candidate # NoEvent \/ e.type = "artifact.candidate"
    PROVE  JournalGood'
<1> DEFINE n == Len(journal)
<1>0. /\ JournalGood /\ n \in Nat /\ Len(journal') = n + 1 /\ journal'[n + 1] = e
      /\ \A i \in 1..n : journal'[i] = journal[i]
  BY RuntimeFacts, Grown DEF RunSmooth
<1>1. /\ \A i \in 1..n : Parsable(journal[i])
      /\ \A i \in 1..n : journal[i].type = "artifact.candidate" => manager.candidate # NoEvent
      /\ \A i \in 1..n : journal[i].type = "agent.completed" =>
            /\ Told /\ \E k \in 1..(i - 1) : journal[k].type = "artifact.candidate"
            /\ \A j \in 1..n : i < j => journal[j].type \notin KnownTypes
      /\ manager.candidate # NoEvent => \E k \in 1..n : journal[k].type = "artifact.candidate"
      /\ Told => \E k \in 1..n : journal[k].type = "agent.completed"
  BY <1>0 DEF JournalGood, Announced, Closed
<1> HIDE DEF n
<1>2. \A i \in 1..(n + 1) : i \in 1..n \/ i = n + 1
  BY <1>0
<1>3. \A i \in 1..n : i \in 1..(n + 1)
  BY <1>0
<1>4. n + 1 \in 1..(n + 1)
  BY <1>0
<1>5. ASSUME NEW i \in 1..(n + 1)
      PROVE  /\ Parsable(journal[i])'
             /\ journal'[i].type = "artifact.candidate" => manager'.candidate # NoEvent
  <2>1. CASE i \in 1..n
    BY <1>0, <1>1, <2>1 DEF Parsable, Carries, Offered
  <2>2. CASE i = n + 1
    BY <1>0, <2>2 DEF Parsable, Carries, Offered
  <2> QED
    BY <1>2, <2>1, <2>2
<1>6. ASSUME NEW i \in 1..(n + 1), journal'[i].type = "agent.completed"
      PROVE  /\ Told' /\ \E k \in 1..(i - 1) : journal'[k].type = "artifact.candidate"
             /\ \A j \in 1..(n + 1) : i < j => journal'[j].type \notin KnownTypes
  <2>1. CASE i \in 1..n
    <3>1. /\ Told /\ \A j \in 1..n : i < j => journal[j].type \notin KnownTypes
      BY <1>0, <1>1, <1>6, <2>1
    <3>2. PICK k \in 1..(i - 1) : journal[k].type = "artifact.candidate"
      BY <1>0, <1>1, <1>6, <2>1
    <3>3. k \in 1..n
      BY <1>0, <2>1
    <3>4. e.type \notin KnownTypes
      BY <3>1
    <3> QED
      BY <1>0, <1>2, <3>1, <3>2, <3>3, <3>4
  <2>2. CASE i = n + 1
    <3>1. e.type = "agent.completed"
      BY <1>0, <1>6, <2>2
    <3>2. PICK k \in 1..n : journal[k].type = "artifact.candidate"
      BY <1>1, <3>1
    <3>3. k \in 1..(i - 1) /\ journal'[k].type = "artifact.candidate"
      BY <1>0, <2>2, <3>2
    <3>4. \A j \in 1..(n + 1) : ~(i < j)
      BY <1>0, <2>2
    <3> QED
      BY <3>1, <3>3, <3>4
  <2> QED
    BY <1>2, <2>1, <2>2
<1>7. manager'.candidate # NoEvent =>
          \E k \in 1..(n + 1) : journal'[k].type = "artifact.candidate"
  <2>1. CASE manager.candidate # NoEvent
    BY <1>0, <1>1, <1>3, <2>1
  <2>2. CASE e.type = "artifact.candidate"
    BY <1>0, <1>4, <2>2
  <2> QED
    BY <2>1, <2>2
<1>8. Told' => \E k \in 1..(n + 1) : journal'[k].type = "agent.completed"
  <2>1. CASE Told
    BY <1>0, <1>1, <1>3, <2>1
  <2>2. CASE e.type = "agent.completed"
    BY <1>0, <1>4, <2>2
  <2> QED
    BY <2>1, <2>2
<1> QED
  BY <1>0, <1>5, <1>6, <1>7, <1>8, SMTT(30) DEF JournalGood, Announced, Closed

(* What _publish makes of an event the worker was allowed to send. *)
LEMMA PublishedParses ==
    ASSUME RuntimeRight, RunSmooth, NEW x \in RawEvent,
           x.type # "agent.failed", PayloadModel(x.type, x.payload, x.list),
           Clean(x.payload, x.list), x.type \in Closing => Carries(x)
    PROVE  \E e \in LogEvent : /\ Published(x) = Append(journal, e)
                               /\ e.type = x.type /\ Parsable(e)
<1>1. manager \in Manager /\ OutputsRight
  BY RuntimeFacts DEF RunSmooth
<1> DEFINE n == manager.seq + 1
           p == Redact(x.payload)
           l == RedactAll(x.list)
<1>2. /\ x.type \in KnownTypes \cup {"none"} /\ p \in {Redact(q) : q \in RawPayload}
      /\ l \in {RedactAll(q) : q \in RawList}
  BY DEF RawEvent
<1>3. n \in Nat /\ n > 0
  BY <1>1 DEF Manager
<1>4. ParseEventPayload(x.type, p, l) /\ Clean(p, l)
  BY RedactedParses, RedactedClean
<1>5. x.type \in Closing => Offered /\ l = outputs.list
  <2> SUFFICES ASSUME x.type \in Closing PROVE Offered /\ l = outputs.list
    OBVIOUS
  <2>1. Offered /\ x.list = outputs.list
    BY DEF Carries
  <2> QED
    BY <1>1, <2>1 DEF OutputsRight, Settled, PlainOutputs
<1>6. Published(x) = Append(journal, Event(n, x.type, p, l))
  BY DEF Published
<1> HIDE DEF n, p, l
<1>7. /\ Event(n, x.type, p, l).seq = n /\ Event(n, x.type, p, l).type = x.type
      /\ Event(n, x.type, p, l).payload = p /\ Event(n, x.type, p, l).list = l
  BY DEF Event
<1>8. Event(n, x.type, p, l) \in LogEvent
  BY <1>2, <1>3 DEF Event, LogEvent
<1>9. PICK e \in LogEvent : /\ Published(x) = Append(journal, e) /\ e.seq = n /\ e.type = x.type
                            /\ e.payload = p /\ e.list = l
  BY <1>6, <1>7, <1>8
<1>10. Parsable(e)
  BY <1>3, <1>4, <1>5, <1>9 DEF Parsable, Carries
<1> QED
  BY <1>9, <1>10

(* Whatever comes out of the pipe is accepted. *)
LEMMA HeadAcceptable ==
    ASSUME RuntimeRight, RunSmooth, pipe # << >>, NEW x \in RawEvent, x = Head(pipe)
    PROVE  /\ Acceptable(x) /\ Readable(x)
           /\ x.type = "agent.completed" => Len(pipe) = 1
<1>0. /\ pipe \in Seq(RawEvent) /\ Len(pipe) \in Nat /\ PipeRight /\ HeardRight /\ RunWell
      /\ Handshake /\ CandidateRight /\ NoEvent.type = "none"
  BY RuntimeFacts, NoEventTyped DEF RunSmooth
<1>1. Len(pipe) >= 1 /\ x = pipe[1] /\ 1 \in 1..Len(pipe)
  BY <1>0, HeadTailProperties, EmptySeq
<1>2. Readable(x) /\ (x.type = "agent.completed" => Len(pipe) = 1)
  BY <1>0, <1>1 DEF PipeRight
<1>3. manager.terminal = NoEvent /\ record.candidate # "none"
  BY <1>0 DEF HeardRight, PipeRight
<1>4. x.type \in Closing => record.candidate = "durable" /\ x.list = outputs.list
  BY <1>0, <1>2 DEF Readable, Carries, Handshake
<1>5. x.type = "agent.completed" =>
          manager.candidate # NoEvent /\ manager.candidate.list = x.list
  <2> SUFFICES ASSUME x.type = "agent.completed"
               PROVE  manager.candidate # NoEvent /\ manager.candidate.list = x.list
    OBVIOUS
  <2>1. Carries(x) /\ Offered
    BY <1>2 DEF Readable, Closing, Carries
  <2>2. \A i \in 1..Len(pipe) : pipe[i].type # "artifact.candidate"
    BY <1>0, <1>1, <1>2
  <2>3. manager.candidate # NoEvent
    BY <1>0, <2>1, <2>2 DEF HeardRight
  <2> QED
    BY <1>0, <2>1, <2>3 DEF HeardRight, Carries
<1>6. Acceptable(x)
  <2>1. /\ record.stored /\ x.type \in KnownTypes /\ PayloadModel(x.type, x.payload, x.list)
        /\ x.seq > manager.last
        /\ x.type = "artifact.candidate" => manager.candidate = NoEvent
    <3>1. x.seq \in Nat /\ manager.last \in Nat
      BY RuntimeFacts DEF RawEvent, Manager
    <3> QED
      BY <1>0, <1>2, <3>1 DEF Readable, RunWell
  <2> QED
    BY <1>3, <1>4, <1>5, <2>1 DEF Acceptable, Closing
<1> QED
  BY <1>2, <1>6

LEMMA ReadLineSmooth ==
    ASSUME RuntimeRight, RunSmooth, ~Fault, ReadLine
    PROVE  /\ RunSmooth'
           /\ UNCHANGED journal \/ \E e \in LogEvent : journal' = Append(journal, e)
<1>0. /\ pipe \in Seq(RawEvent) /\ Len(pipe) \in Nat /\ PipeRight /\ HeardRight /\ RunWell
      /\ Handshake /\ OutputsRight /\ JournalGood /\ manager \in Manager /\ worker \in Worker
      /\ NoEvent.type = "none"
  BY RuntimeFacts, NoEventTyped DEF RunSmooth
<1>1. /\ Reading /\ manager.stdout = "open" /\ pipe # << >> /\ pipe' = Tail(pipe)
      /\ UNCHANGED <<worker, outputs, control, record>>
  BY DEF ReadLine
<1>2. PICK x \in RawEvent : x = Head(pipe)
  BY <1>0, <1>1, HeadTailProperties
<1>3. /\ Acceptable(x) /\ Readable(x)
      /\ x.type = "agent.completed" => Len(pipe) = 1
  BY <1>1, <1>2, HeadAcceptable
<1>4. /\ Len(pipe) >= 1 /\ Len(pipe') = Len(pipe) - 1 /\ pipe[1] = x
      /\ \A i \in 1..Len(pipe') : pipe'[i] = pipe[i + 1]
  <2>1. Len(pipe) # 0
    BY <1>0, <1>1, EmptySeq
  <2> QED
    BY <1>0, <1>1, <1>2, <2>1, HeadTailProperties
<1>5. /\ manager'.at = manager.at /\ manager'.cancelled = manager.cancelled
      /\ manager'.raised = manager.raised /\ manager'.ready = manager.ready
      /\ manager'.success = manager.success /\ manager'.stdout = "open"
      /\ manager'.controls = manager.controls /\ manager'.last = x.seq
      /\ manager'.candidate = IF x.type = "artifact.candidate" THEN x ELSE manager.candidate
      /\ manager'.terminal = IF x.type = "agent.completed" THEN x ELSE manager.terminal
      /\ IF x.type = "agent.completed" THEN UNCHANGED journal ELSE journal' = Published(x)
  <2> DEFINE c == IF x.type = "artifact.candidate" THEN x ELSE manager.candidate
             n == manager.seq + 1
             seen == [manager EXCEPT !.last = x.seq, !.candidate = c]
  <2>1. IF IsTerminal(x.type)
        THEN manager' = [seen EXCEPT !.terminal = x] /\ UNCHANGED journal
        ELSE manager' = [seen EXCEPT !.seq = n] /\ journal' = Published(x)
    <3>1. Handy(x.payload, x.list)
      BY <1>3 DEF Readable, Clean
    <3> QED
      BY <1>0, <1>2, <1>3, <3>1 DEF ReadLine, Manager
  <2>2. IsTerminal(x.type) <=> x.type = "agent.completed"
    BY <1>3 DEF Readable, IsTerminal
  <2> HIDE DEF c, n
  <2>3. CASE x.type = "agent.completed"
    BY <1>0, <1>1, <2>1, <2>2, <2>3 DEF Manager, c
  <2>4. CASE x.type # "agent.completed"
    BY <1>0, <1>1, <2>1, <2>2, <2>4 DEF Manager, c
  <2> QED
    BY <2>3, <2>4
<1>6. ~Told /\ ~Told' /\ manager.at = "reading"
  BY <1>0, <1>1, <1>5 DEF Reading, Told, RunWell
<1>7. RunWell' /\ Handshake' /\ OutputsRight'
  BY <1>0, <1>1, <1>5 DEF RunWell, Handshake, OutputsRight, Settled, Offered
<1>8. x \in RawEvent /\ x.type # "none" /\ x # NoEvent /\ x.type \in KnownTypes
  BY <1>0, <1>3, KnownAre DEF Readable
<1>9. PipeRight'
  <2> DEFINE m == Len(pipe)
             k == Len(pipe')
  <2>1. m \in Nat /\ k \in Nat /\ m = k + 1 /\ \A i \in 1..k : pipe'[i] = pipe[i + 1]
    BY <1>0, <1>4
  <2>2. /\ \A i \in 1..m : Readable(pipe[i]) /\ (pipe[i].type = "agent.completed" => i = m)
        /\ \A i, j \in 1..m : i < j =>
              /\ pipe[i].seq < pipe[j].seq
              /\ ~(pipe[i].type = "artifact.candidate" /\ pipe[j].type = "artifact.candidate")
    BY <1>0 DEF PipeRight
  <2>3. k > 0 => pipe # << >>
    BY <1>1
  <2>4. pipe' # << >> => record'.candidate # "none"
    BY <1>0, <1>1 DEF PipeRight
  <2>5. x.seq <= worker.seq
    BY <1>3 DEF Readable
  <2>6. pipe[1] = x
    BY <1>4
  <2> HIDE DEF m, k
  <2>7. \A i \in 1..k : i + 1 \in 1..m /\ 1 \in 1..m /\ 1 < i + 1
    BY <2>1
  <2>8. ASSUME NEW i \in 1..k
        PROVE  Readable(pipe[i])' /\ (pipe'[i].type = "agent.completed" => i = k)
    <3>1. PICK j \in 1..m : j = i + 1 /\ pipe'[i] = pipe[j] /\ 1 < j
      BY <2>1, <2>7
    <3>2. /\ Readable(pipe[j]) /\ (pipe[j].type = "agent.completed" => j = m)
          /\ x.seq < pipe[j].seq
          /\ ~(x.type = "artifact.candidate" /\ pipe[j].type = "artifact.candidate")
      BY <2>2, <2>6, <2>7, <3>1
    <3>3. pipe[j].type = "artifact.candidate" => manager'.candidate = NoEvent
      BY <1>5, <3>2 DEF Readable
    <3>4. Readable(pipe[i])'
      BY <1>1, <1>5, <3>1, <3>2, <3>3 DEF Readable, Carries, Offered, Finished
    <3>5. pipe'[i].type = "agent.completed" => i = k
      BY <2>1, <3>1, <3>2
    <3> QED
      BY <3>4, <3>5
  <2>9. ASSUME NEW i \in 1..k, NEW j \in 1..k, i < j
        PROVE  /\ pipe'[i].seq < pipe'[j].seq
               /\ ~(pipe'[i].type = "artifact.candidate" /\ pipe'[j].type = "artifact.candidate")
    <3>1. i + 1 \in 1..m /\ j + 1 \in 1..m /\ i + 1 < j + 1
      BY <2>1, <2>9
    <3>2. /\ pipe[i + 1].seq < pipe[j + 1].seq
          /\ ~(pipe[i + 1].type = "artifact.candidate" /\ pipe[j + 1].type = "artifact.candidate")
      BY <2>2, <3>1
    <3> QED
      BY <2>1, <3>2
  <2> QED
    BY <1>1, <1>5, <2>4, <2>5, <2>8, <2>9 DEF PipeRight, k
<1>10. HeardRight'
  <2>1. manager'.candidate # NoEvent => Carries(manager.candidate)'
    <3>1. manager'.candidate # NoEvent => Carries(manager'.candidate)
      BY <1>0, <1>3, <1>5 DEF HeardRight, Readable, Closing
    <3> QED
      BY <1>1, <3>1 DEF Carries, Offered
  <2>2. manager.terminal = NoEvent
    BY <1>3 DEF Acceptable
  <2>3. ASSUME NEW type \in {"artifact.candidate", "agent.completed"}, x.type # type,
               NEW i \in 1..Len(pipe), pipe[i].type = type
        PROVE  \E j \in 1..Len(pipe') : pipe'[j].type = type
    <3>1. i # 1
      BY <1>4, <2>3
    <3>2. i - 1 \in 1..Len(pipe') /\ (i - 1) + 1 = i
      BY <1>0, <1>4, <3>1
    <3> QED
      BY <1>4, <2>3, <3>2
  <2>4. Offered' => \/ manager'.candidate # NoEvent
                    \/ \E i \in 1..Len(pipe') : pipe'[i].type = "artifact.candidate"
    <3>1. Offered' => Offered
      BY <1>1 DEF Offered
    <3> QED
      BY <1>0, <1>5, <1>8, <2>3, <3>1 DEF HeardRight
  <2>5. Finished' => \/ manager'.terminal # NoEvent
                     \/ \E i \in 1..Len(pipe') : pipe'[i].type = "agent.completed"
    <3>1. Finished' => Finished
      BY <1>1 DEF Finished
    <3> QED
      BY <1>0, <1>5, <1>8, <2>2, <2>3, <3>1 DEF HeardRight
  <2>6. x.type = "agent.completed" =>
            /\ Finished' /\ pipe' = << >> /\ Carries(x)'
            /\ PayloadModel("agent.completed", x.payload, x.list) /\ Clean(x.payload, x.list)
    <3> SUFFICES ASSUME x.type = "agent.completed"
                 PROVE  /\ Finished' /\ pipe' = << >> /\ Carries(x)'
                        /\ PayloadModel("agent.completed", x.payload, x.list)
                        /\ Clean(x.payload, x.list)
      OBVIOUS
    <3>1. /\ Finished /\ Carries(x) /\ PayloadModel("agent.completed", x.payload, x.list)
          /\ Clean(x.payload, x.list)
      BY <1>3 DEF Readable, Closing
    <3>2. pipe' \in Seq(RawEvent) /\ Len(pipe') = 0
      BY <1>0, <1>1, <1>3, <1>4, HeadTailProperties
    <3>3. pipe' = << >>
      BY <3>2, EmptySeq
    <3> QED
      BY <1>1, <3>1, <3>3 DEF Finished, Carries, Offered
  <2> QED
    BY <1>5, <2>1, <2>2, <2>4, <2>5, <2>6 DEF HeardRight, Carries
<1>11. CASE x.type = "agent.completed"
  <2>1. UNCHANGED journal /\ manager'.candidate = manager.candidate
    BY <1>5, <1>11
  <2>2. \A i \in 1..Len(journal) : Parsable(journal[i])'
    <3>1. \A i \in 1..Len(journal) : Parsable(journal[i])
      BY <1>0 DEF JournalGood
    <3> QED
      BY <1>1, <2>1, <3>1 DEF Parsable, Carries, Offered
  <2>3. JournalGood'
    BY <1>0, <1>6, <2>1, <2>2 DEF JournalGood, Announced, Closed
  <2> QED
    BY <1>7, <1>9, <1>10, <2>1, <2>3 DEF RunSmooth
<1>12. CASE x.type # "agent.completed"
  <2>1. PICK e \in LogEvent : Published(x) = Append(journal, e) /\ e.type = x.type /\ Parsable(e)
    BY <1>3, PublishedParses DEF Readable
  <2>2. journal' = Append(journal, e)
    BY <1>5, <1>12, <2>1
  <2>3. e.type = "artifact.candidate" => manager'.candidate # NoEvent
    BY <1>5, <1>8, <2>1
  <2>4. JournalGood'
    BY <1>1, <1>5, <1>6, <1>8, <1>12, <2>1, <2>2, <2>3, JournalGrown
  <2> QED
    BY <1>7, <1>9, <1>10, <2>2, <2>4 DEF RunSmooth
<1> QED
  BY <1>11, <1>12

LEMMA PublishSmooth ==
    ASSUME RuntimeRight, RunSmooth, WellWorker, ~Fault, Publish
    PROVE  /\ RunSmooth'
           /\ \E e \in LogEvent : journal' = Append(journal, e)
<1>0. /\ manager \in Manager /\ JudgementRight /\ WorkerRight /\ RunWell /\ Handshake
      /\ OutputsRight /\ PipeRight /\ HeardRight
  BY RuntimeFacts DEF RunSmooth
<1>1. manager.at = "publish" /\ manager.success /\ manager.judged /\ manager.ready
  BY <1>0 DEF Publish, RunWell, JudgementRight
<1>2. manager.terminal # NoEvent /\ Outcome = manager.terminal
  BY <1>0, <1>1 DEF JudgementRight, RunWell, Outcome
<1>3. PICK x \in RawEvent : x = manager.terminal /\ Handy(x.payload, x.list)
  BY <1>0, <1>2 DEF Manager, HeardRight, Clean
<1>4. /\ UNCHANGED <<worker, outputs, pipe, control, record>>
      /\ journal' = Published(x)
      /\ manager' = [manager EXCEPT !.at = "mark", !.seq = manager.seq + 1]
  BY <1>1, <1>2, <1>3 DEF Publish
<1>5. /\ manager'.at = "mark" /\ manager'.cancelled = manager.cancelled
      /\ manager'.raised = manager.raised /\ manager'.ready = manager.ready
      /\ manager'.success = manager.success /\ manager'.stdout = manager.stdout
      /\ manager'.controls = manager.controls /\ manager'.last = manager.last
      /\ manager'.candidate = manager.candidate /\ manager'.terminal = manager.terminal
  BY <1>0, <1>4 DEF Manager
<1>6. /\ Finished /\ pipe = << >> /\ Carries(x) /\ x.type = "agent.completed"
      /\ PayloadModel("agent.completed", x.payload, x.list) /\ Clean(x.payload, x.list)
  BY <1>0, <1>2, <1>3 DEF HeardRight
<1>7. manager.candidate # NoEvent
  <2>1. Offered
    BY <1>6 DEF Offered, Finished
  <2>2. Len(pipe) = 0
    BY <1>6
  <2> QED
    BY <1>0, <2>1, <2>2 DEF HeardRight
<1>8. RunWell' /\ Handshake' /\ OutputsRight'
  BY <1>0, <1>1, <1>4, <1>5 DEF RunWell, Handshake, OutputsRight, Settled, Offered
<1>9. PipeRight' /\ HeardRight'
  <2>1. PipeRight'
    <3>1. Len(pipe') = 0 /\ pipe' = << >>
      BY <1>4, <1>6
    <3> QED
      BY <1>0, <1>4, <1>5, <3>1 DEF PipeRight
  <2>2. HeardRight'
    BY <1>0, <1>4, <1>5 DEF HeardRight, Carries, Offered, Finished
  <2> QED
    BY <2>1, <2>2
<1>10. PICK e \in LogEvent : Published(x) = Append(journal, e) /\ e.type = x.type /\ Parsable(e)
  BY <1>6, PublishedParses
<1>11. ~Told /\ Told'
  BY <1>1, <1>5 DEF Told
<1>12. JournalGood'
  <2>1. journal' = Append(journal, e)
    BY <1>4, <1>10
  <2>2. e.type = "agent.completed"
    BY <1>6, <1>10
  <2> QED
    BY <1>4, <1>5, <1>7, <1>10, <1>11, <2>1, <2>2, JournalGrown
<1> QED
  BY <1>4, <1>8, <1>9, <1>10, <1>12 DEF RunSmooth

(* What a newer Runtime adds is parsed as something unknown. *)
LEMMA NewerSmooth ==
    ASSUME RuntimeRight, RunSmooth, NewerEvent
    PROVE  /\ RunSmooth'
           /\ \E e \in LogEvent : journal' = Append(journal, e)
<1>0. /\ manager \in Manager /\ RunWell /\ Handshake /\ OutputsRight /\ PipeRight /\ HeardRight
  BY RuntimeFacts DEF RunSmooth
<1> DEFINE n == manager.seq + 1
<1>1. n \in Nat /\ n > 0
  BY <1>0 DEF Manager
<1>2. /\ UNCHANGED <<worker, outputs, pipe, control, record>>
      /\ journal' = Append(journal, Event(n, "newer", << >>, << >>))
      /\ manager' = [manager EXCEPT !.seq = n]
  BY DEF NewerEvent
<1> HIDE DEF n
<1>3. PICK e \in LogEvent : /\ e = Event(n, "newer", << >>, << >>) /\ e.seq = n
                            /\ e.type = "newer" /\ e.payload = << >> /\ e.list = << >>
  <2>1. Event(n, "newer", << >>, << >>) \in LogEvent
    BY <1>1 DEF Event, LogEvent
  <2>2. /\ Event(n, "newer", << >>, << >>).seq = n /\ Event(n, "newer", << >>, << >>).type = "newer"
        /\ Event(n, "newer", << >>, << >>).payload = << >>
        /\ Event(n, "newer", << >>, << >>).list = << >>
    BY DEF Event
  <2> QED
    BY <2>1, <2>2
<1>4. e.type \notin KnownTypes /\ Parsable(e)
  <2>1. e.type \notin KnownTypes
    BY <1>3, KnownAre
  <2>2. ParseEventPayload(e.type, e.payload, e.list)
    BY <2>1 DEF ParseEventPayload
  <2>3. Clean(<< >>, << >>)
    BY DEF Clean, Storable, Handy, Holds
  <2> QED
    BY <1>1, <1>3, <2>1, <2>2, <2>3 DEF Parsable, Closing
<1>5. /\ manager'.at = manager.at /\ manager'.cancelled = manager.cancelled
      /\ manager'.raised = manager.raised /\ manager'.ready = manager.ready
      /\ manager'.success = manager.success /\ manager'.stdout = manager.stdout
      /\ manager'.controls = manager.controls /\ manager'.last = manager.last
      /\ manager'.candidate = manager.candidate /\ manager'.terminal = manager.terminal
  BY <1>0, <1>2 DEF Manager
<1>6. RunWell' /\ Handshake' /\ OutputsRight'
  BY <1>0, <1>2, <1>5 DEF RunWell, Handshake, OutputsRight, Settled, Offered
<1>7. PipeRight'
  <2>1. \A i \in 1..Len(pipe) : Readable(pipe[i])
    BY <1>0 DEF PipeRight
  <2>2. \A i \in 1..Len(pipe) : Readable(pipe[i])'
    BY <1>2, <1>5, <2>1 DEF Readable, Carries, Offered, Finished
  <2> QED
    BY <1>0, <1>2, <1>5, <2>2 DEF PipeRight
<1>8. HeardRight'
  BY <1>0, <1>2, <1>5 DEF HeardRight, Carries, Offered, Finished
<1>9. JournalGood'
  <2>1. Told <=> Told'
    BY <1>5 DEF Told
  <2>2. e.type # "artifact.candidate" /\ e.type # "agent.completed"
    BY <1>3
  <2>3. journal' = Append(journal, e)
    BY <1>2, <1>3
  <2> QED
    BY <1>2, <1>4, <1>5, <2>1, <2>2, <2>3, JournalGrown
<1> QED
  BY <1>2, <1>3, <1>6, <1>7, <1>8, <1>9 DEF RunSmooth

LEMMA ManagerSmooth ==
    ASSUME RuntimeRight, RunSmooth, WellWorker, ~Fault, ManagerNext \/ Newer
    PROVE  /\ RunSmooth' /\ UNCHANGED <<row, client, pump, outputs>>
           /\ UNCHANGED journal \/ \E e \in LogEvent : journal' = Append(journal, e)
           /\ Offered => Offered'
<1>0. /\ manager \in Manager /\ RunWell /\ WorkerRight
  BY RuntimeFacts DEF RunSmooth
<1>1. UNCHANGED <<row, client, pump, outputs>>
  BY DEF ManagerNext, Newer, planeVars, OpenJournal, CheckCancelled, Spawn, Register, ReadLine,
         StdoutEnds, ReadControl, ControlEnds, ReaderFails, Judge, StopWorker, Gather, Publish,
         MarkAwaitingFinalize, NewerEvent
<1>2. ~ReaderFails /\ ~StopWorker /\ ~Gather
  BY <1>0 DEF ReaderFails, StopWorker, Gather, RunWell
<1>3. Offered => Offered'
  <2>1. UNCHANGED worker \/ Spawn \/ Register
    BY <1>2 DEF ManagerNext, Newer, OpenJournal, CheckCancelled, ReadLine, StdoutEnds, ReadControl,
                ControlEnds, Judge, Publish, MarkAwaitingFinalize, NewerEvent
  <2>2. Spawn \/ Register => ~Offered
    BY <1>0 DEF Spawn, Register, RunWell, Offered
  <2> QED
    BY <2>1, <2>2 DEF Offered
<1>4. CASE OpenJournal \/ CheckCancelled \/ Spawn \/ Register
  BY <1>1, <1>3, <1>4, StartSmooth
<1>5. CASE StdoutEnds \/ ControlEnds \/ Judge \/ MarkAwaitingFinalize
  BY <1>1, <1>3, <1>5, EndSmooth
<1>6. CASE ReadControl
  BY <1>1, <1>3, <1>6, ControlSmooth
<1>7. CASE ReadLine
  BY <1>1, <1>3, <1>7, ReadLineSmooth
<1>8. CASE Publish
  BY <1>1, <1>3, <1>8, PublishSmooth
<1>9. CASE Newer
  BY <1>1, <1>3, <1>9, NewerSmooth DEF Newer
<1> QED
  BY <1>2, <1>4, <1>5, <1>6, <1>7, <1>8, <1>9 DEF ManagerNext

-----------------------------------------------------------------------------
(* The control plane. *)

(* The log grows under the client, and the worker goes on. *)
LEMMA PlaneUnmoved ==
    ASSUME RuntimeRight, PlaneRight, ClientGood, PumpGood, UNCHANGED <<row, client, pump>>,
           UNCHANGED journal \/ \E e \in LogEvent : journal' = Append(journal, e),
           Offered => Offered' /\ outputs' = outputs
    PROVE  ClientGood' /\ PumpGood'
<1>0. client.offset \in Nat /\ Len(journal) \in Nat /\ client.offset <= Len(journal)
  BY PlaneFacts DEF ClientRight
<1>1. \A i \in 1..Len(journal) : journal'[i] = journal[i]
  <2>1. CASE UNCHANGED journal
    BY <2>1
  <2>2. ASSUME NEW e \in LogEvent, journal' = Append(journal, e)
        PROVE  \A i \in 1..Len(journal) : journal'[i] = journal[i]
    BY <2>2, RuntimeFacts, Grown
  <2> QED
    BY <2>1, <2>2
<1>2. PICK n \in Nat : n = client.offset
  BY <1>0
<1>3. \A i \in 1..n : journal'[i] = journal[i]
  BY <1>0, <1>1, <1>2
<1>4. n # 0 => n \in 1..n
  BY <1>2
<1>5. (Announced(n) <=> Announced(n)') /\ (Closed(n) <=> Closed(n)')
  BY <1>3 DEF Announced, Closed
<1>6. /\ Announced(client.offset) <=> Announced(client.offset)'
      /\ Closed(client.offset) <=> Closed(client.offset)'
  BY <1>2, <1>5 DEF Announced, Closed
<1>7. n # 0 => journal'[n] = journal[n]
  BY <1>3, <1>4
<1>8. ASSUME NEW e, Carries(e) PROVE Carries(e)'
  BY <1>8 DEF Carries
<1>9. ClientGood'
  <2>1. client.last = IF client.offset = 0 THEN 0 ELSE journal'[client.offset].seq
    BY <1>2, <1>7 DEF ClientGood
  <2>2. client.candidate # NoEvent => Carries(client.candidate)'
    BY DEF ClientGood, Carries
  <2>3. client.terminal # NoEvent => Carries(client.terminal)'
    BY DEF ClientGood, Carries
  <2> QED
    BY <1>6, <2>1, <2>2, <2>3 DEF ClientGood
<1>10. PumpGood'
  <2>1. pump.candidate # NoEvent => Carries(pump.candidate)'
    BY DEF PumpGood, Carries
  <2>2. pump.terminal => Carries(pump.completed)'
    BY DEF PumpGood, Carries
  <2> QED
    BY <1>6, <2>1, <2>2 DEF PumpGood
<1> QED
  BY <1>9, <1>10

(* What the client and the coordinator do leaves the Runtime alone. *)
LEMMA RunSmoothKept ==
    ASSUME RunSmooth, UNCHANGED runtimeVars
    PROVE  RunSmooth'
<1>1. UNCHANGED <<worker, outputs, pipe, control, manager, record, journal>>
  BY DEF runtimeVars
<1>2. PipeRight'
  <2>1. \A i \in 1..Len(pipe) : Readable(pipe[i])
    BY DEF RunSmooth, PipeRight
  <2>2. \A i \in 1..Len(pipe) : Readable(pipe[i])'
    BY <1>1, <2>1 DEF Readable, Carries, Offered, Finished
  <2> QED
    BY <1>1, <2>2 DEF RunSmooth, PipeRight
<1>3. JournalGood'
  <2>1. \A i \in 1..Len(journal) : Parsable(journal[i])
    BY DEF RunSmooth, JournalGood
  <2>2. \A i \in 1..Len(journal) : Parsable(journal[i])'
    BY <1>1, <2>1 DEF Parsable, Carries, Offered
  <2> QED
    BY <1>1, <2>2 DEF RunSmooth, JournalGood, Announced, Closed, Told
<1>4. HeardRight'
  BY <1>1 DEF RunSmooth, HeardRight, Carries, Offered, Finished
<1>5. RunWell' /\ Handshake' /\ OutputsRight'
  BY <1>1 DEF RunSmooth, RunWell, Handshake, OutputsRight, Settled, Offered
<1> QED
  BY <1>2, <1>3, <1>4, <1>5 DEF RunSmooth

(* One line further. *)
LEMMA OneMore ==
    ASSUME NEW n \in Nat
    PROVE  /\ Announced(n + 1) <=> Announced(n) \/ journal[n + 1].type = "artifact.candidate"
           /\ Closed(n + 1) <=> Closed(n) \/ journal[n + 1].type = "agent.completed"
<1>1. \A k \in 1..(n + 1) : k \in 1..n \/ k = n + 1
  OBVIOUS
<1>2. n + 1 \in 1..(n + 1) /\ \A k \in 1..n : k \in 1..(n + 1)
  OBVIOUS
<1>3. Announced(n + 1) <=> Announced(n) \/ journal[n + 1].type = "artifact.candidate"
  BY <1>1, <1>2 DEF Announced
<1>4. Closed(n + 1) <=> Closed(n) \/ journal[n + 1].type = "agent.completed"
  BY <1>1, <1>2 DEF Closed
<1> QED
  BY <1>3, <1>4

(* The client accepts the next line. *)
LEMMA NextLine ==
    ASSUME RuntimeRight, PlaneRight, JournalGood, ClientGood, client.offset < Len(journal),
           NEW e, e = journal[client.offset + 1]
    PROVE  /\ e \in LogEvent /\ Parsable(e) /\ e.seq > client.last /\ client.last \in Nat
           /\ client.terminal # NoEvent => e.type \notin KnownTypes
           /\ e.type = "agent.completed" =>
                 /\ client.candidate # NoEvent /\ client.candidate.list = e.list
                 /\ Announced(client.offset)
<1>0. /\ client \in Client /\ client.offset \in Nat /\ Len(journal) \in Nat /\ JournalRight
      /\ \A i \in 1..Len(journal) : journal[i] \in LogEvent
  BY PlaneFacts, RuntimeFacts
<1>1. PICK n \in Nat : n = client.offset
  BY <1>0
<1>2. n + 1 \in 1..Len(journal) /\ e = journal[n + 1] /\ (n # 0 => n \in 1..Len(journal))
  BY <1>0, <1>1
<1>3. e \in LogEvent /\ Parsable(e)
  BY <1>0, <1>2 DEF JournalGood
<1>4. e.seq > client.last /\ client.last \in Nat
  <2>1. client.last \in Nat
    BY <1>0 DEF Client
  <2>2. CASE n = 0
    BY <1>1, <1>3, <2>1, <2>2 DEF ClientGood, Parsable
  <2>3. CASE n # 0
    <3>1. client.last = journal[n].seq
      BY <1>1, <2>3 DEF ClientGood
    <3>2. n \in 1..Len(journal) /\ n < n + 1
      BY <1>2, <2>3
    <3>3. journal[n].seq < journal[n + 1].seq
      BY <1>0, <1>2, <3>2 DEF JournalRight
    <3>4. e.seq \in Nat
      BY <1>3 DEF LogEvent
    <3> QED
      BY <1>2, <2>1, <3>1, <3>3, <3>4
  <2> QED
    BY <2>2, <2>3
<1>5. client.terminal # NoEvent => e.type \notin KnownTypes
  <2> SUFFICES ASSUME client.terminal # NoEvent PROVE e.type \notin KnownTypes
    OBVIOUS
  <2>1. PICK k \in 1..n : journal[k].type = "agent.completed"
    BY <1>1 DEF ClientGood, Closed
  <2>2. k \in 1..Len(journal) /\ k < n + 1
    BY <1>0, <1>2
  <2> QED
    BY <1>2, <2>1, <2>2 DEF JournalGood
<1>6. e.type = "agent.completed" => Announced(n)
  <2>1. (n + 1) - 1 = n
    OBVIOUS
  <2> QED
    BY <1>2, <2>1 DEF JournalGood
<1>7. e.type = "agent.completed" =>
          client.candidate # NoEvent /\ client.candidate.list = e.list
  BY <1>1, <1>3, <1>6 DEF ClientGood, Parsable, Carries, Closing
<1> QED
  BY <1>1, <1>3, <1>4, <1>5, <1>6, <1>7

LEMMA ScanGood ==
    ASSUME RuntimeRight, PlaneRight, RunSmooth, ClientGood, PumpGood,
           Scan, UNCHANGED <<runtimeVars, canceller, row, pump, recorded>>
    PROVE  ClientGood' /\ PumpGood'
<1>0. /\ client \in Client /\ client.offset \in Nat /\ Len(journal) \in Nat /\ JournalGood
      /\ UNCHANGED <<journal, outputs, worker>> /\ pump \in Pump /\ ClientRight
      /\ NoEvent.type = "none" /\ NoEvent \in LogEvent
  BY PlaneFacts, NoEventTyped DEF RunSmooth, runtimeVars
<1>1. client.at = "reading" /\ client.offset < Len(journal)
  BY DEF Scan
<1>2. PICK n \in Nat : n = client.offset
  BY <1>0
<1>3. PICK e : e = journal[n + 1]
  OBVIOUS
<1>4. /\ e \in LogEvent /\ Parsable(e) /\ e.seq > client.last /\ client.last \in Nat
      /\ client.terminal # NoEvent => e.type \notin KnownTypes
      /\ e.type = "agent.completed" =>
            /\ client.candidate # NoEvent /\ client.candidate.list = e.list
            /\ Announced(n)
  BY <1>0, <1>1, <1>2, <1>3, NextLine
<1> DEFINE c == IF e.type = "artifact.candidate" THEN e ELSE client.candidate
           m == n + 1
           read == [client EXCEPT !.offset = m, !.last = e.seq, !.candidate = c]
<1>5. IF client.terminal # NoEvent THEN client' = read
      ELSE IF IsTerminal(e.type) THEN client' = [read EXCEPT !.terminal = e]
      ELSE client' = [read EXCEPT !.at = "offering", !.offer = e]
  <2>1. /\ ParseEventPayload(e.type, e.payload, e.list) /\ ~(e.seq <= client.last)
        /\ Handy(e.payload, e.list)
        /\ ~(client.terminal # NoEvent /\ e.type \in KnownTypes)
        /\ ~(/\ e.type = "agent.completed"
             /\ client.candidate = NoEvent \/ client.candidate.list # e.list)
    <3>1. e.seq \in Nat
      BY <1>4 DEF LogEvent
    <3> QED
      BY <1>4, <3>1 DEF Parsable, Clean
  <2> QED
    BY <1>2, <1>3, <2>1 DEF Scan
<1>6. IsTerminal(e.type) <=> e.type = "agent.completed"
  BY <1>4 DEF Parsable, IsTerminal
<1> HIDE DEF c, m
<1>7. /\ client'.offset = m /\ client'.last = e.seq /\ client'.candidate = c
      /\ \/ /\ client.terminal # NoEvent /\ client'.at = "reading"
            /\ client'.terminal = client.terminal
         \/ /\ client.terminal = NoEvent /\ e.type = "agent.completed" /\ client'.at = "reading"
            /\ client'.terminal = e
         \/ /\ client.terminal = NoEvent /\ e.type # "agent.completed" /\ client'.at = "offering"
            /\ client'.terminal = NoEvent /\ client'.offer = e
  BY <1>0, <1>1, <1>5, <1>6 DEF Client
<1>8. /\ Announced(m) <=> Announced(n) \/ e.type = "artifact.candidate"
      /\ Closed(m) <=> Closed(n) \/ e.type = "agent.completed"
  BY <1>3, OneMore DEF m
<1>9. /\ Announced(client.offset)' <=> Announced(m)
      /\ Closed(client.offset)' <=> Closed(m)
  BY <1>0, <1>7 DEF Announced, Closed
<1>10. (e.type \in Closing => Carries(e)) /\ Clean(e.payload, e.list)
  BY <1>4 DEF Parsable
<1>11. m # 0 /\ journal'[m] = e
  BY <1>0, <1>3 DEF m
<1>12. e.type # "none" => e # NoEvent
  BY <1>0
<1>13. c # NoEvent => Carries(c)
  BY <1>10 DEF c, ClientGood, Closing
<1>14. ClientGood'
  <2>1. Announced(m) => c # NoEvent
    BY <1>2, <1>8, <1>12 DEF c, ClientGood
  <2>2. Closed(m) <=> client'.terminal # NoEvent
    BY <1>2, <1>7, <1>8, <1>12 DEF ClientGood
  <2>3. client'.terminal # NoEvent =>
            /\ client'.terminal.type = "agent.completed" /\ Carries(client'.terminal)
            /\ Clean(client'.terminal.payload, client'.terminal.list)
    BY <1>7, <1>10 DEF ClientGood, Closing
  <2>4. (client.candidate # NoEvent => Carries(client.candidate))'
    BY <1>0, <1>7, <1>13 DEF Carries, Offered
  <2>5. (client.terminal # NoEvent =>
            /\ client.terminal.type = "agent.completed" /\ Carries(client.terminal)
            /\ Clean(client.terminal.payload, client.terminal.list))'
    BY <1>0, <2>3 DEF Carries, Offered
  <2>6. client'.last = IF client'.offset = 0 THEN 0 ELSE journal'[client'.offset].seq
    BY <1>7, <1>11
  <2>7. client'.at # "failed"
    BY <1>7
  <2> QED
    BY <1>7, <1>9, <2>1, <2>2, <2>4, <2>5, <2>6, <2>7 DEF ClientGood
<1>15. PumpGood'
  <2>1. e.seq \in Nat /\ pump.last \in Nat
    BY <1>0, <1>4 DEF LogEvent, Pump
  <2>2. client.terminal = NoEvent => pump.last < e.seq
    BY <1>1, <1>4, <2>1 DEF PumpGood
  <2>3. /\ client'.at = "reading" /\ client'.terminal = NoEvent => pump.last <= client'.last
        /\ client'.at = "offering" => pump.last < client'.offer.seq
        /\ client'.at \in {"reading", "last"} /\ client'.terminal # NoEvent =>
              pump.last < client'.terminal.seq
    BY <1>1, <1>7, <1>12, <2>2 DEF PumpGood
  <2>4. Announced(m) => \/ pump.candidate # NoEvent
                        \/ client'.at = "offering" /\ client'.offer.type = "artifact.candidate"
    <3>1. Announced(n) => pump.candidate # NoEvent
      BY <1>1, <1>2 DEF PumpGood
    <3>2. e.type = "artifact.candidate" => client.terminal = NoEvent
      BY <1>4, KnownAre
    <3> QED
      BY <1>7, <1>8, <3>1, <3>2
  <2>5. client'.terminal # NoEvent => Announced(m)
    BY <1>2, <1>4, <1>7, <1>8 DEF PumpGood
  <2>6. pump.candidate # NoEvent => Carries(pump.candidate)'
    BY <1>0 DEF PumpGood, Carries, Offered
  <2>7. ~pump.terminal /\ pump.at = "pumping" /\ client'.at # "closed"
    BY <1>1, <1>7 DEF PumpGood
  <2> QED
    BY <1>9, <2>3, <2>4, <2>5, <2>6, <2>7 DEF PumpGood
<1> QED
  BY <1>14, <1>15

LEMMA EndOfStreamGood ==
    ASSUME RuntimeRight, PlaneRight, RunSmooth, ClientGood, PumpGood,
           EndOfStream, UNCHANGED <<runtimeVars, canceller, row, pump, recorded>>
    PROVE  ClientGood' /\ PumpGood'
<1>0. /\ client \in Client /\ UNCHANGED <<journal, outputs, worker>> /\ JournalGood /\ RunWell
  BY PlaneFacts DEF RunSmooth, runtimeVars
<1>1. client.at = "reading" /\ manager.at = "done" /\ client.offset = Len(journal)
  BY <1>0 DEF EndOfStream, RunWell
<1>2. client.terminal # NoEvent
  BY <1>0, <1>1 DEF JournalGood, Told, ClientGood
<1>3. client' = [client EXCEPT !.at = "last", !.offer = client.terminal]
  BY <1>1, <1>2 DEF EndOfStream
<1>4. /\ client'.at = "last" /\ client'.offset = client.offset /\ client'.last = client.last
      /\ client'.candidate = client.candidate /\ client'.terminal = client.terminal
  BY <1>0, <1>3 DEF Client
<1>5. /\ Announced(client.offset)' <=> Announced(client.offset)
      /\ Closed(client.offset)' <=> Closed(client.offset)
  BY <1>0, <1>4 DEF Announced, Closed
<1>6. ClientGood'
  BY <1>0, <1>4, <1>5 DEF ClientGood, Carries, Offered
<1>7. PumpGood'
  <2>1. Announced(client.offset) => pump.candidate # NoEvent
    BY <1>1 DEF PumpGood
  <2> QED
    BY <1>0, <1>1, <1>2, <1>4, <1>5, <2>1 DEF PumpGood, Carries, Offered
<1> QED
  BY <1>6, <1>7

LEMMA TakeEventGood ==
    ASSUME RuntimeRight, PlaneRight, RunSmooth, ClientGood, PumpGood, ~Fault,
           TakeEvent, UNCHANGED <<runtimeVars, canceller>>
    PROVE  ClientGood' /\ PumpGood'
<1>0. /\ client \in Client /\ client.offset \in Nat /\ JournalGood /\ ClientRight /\ pump \in Pump
      /\ UNCHANGED <<journal, outputs, worker>> /\ NoEvent.type = "none"
      /\ \A i \in 1..Len(journal) : journal[i] \in LogEvent
  BY PlaneFacts, NoEventTyped DEF RunSmooth, runtimeVars
<1>1. pump.at = "pumping" /\ client.at \in {"offering", "last"}
  BY DEF TakeEvent
<1>2. PICK e \in LogEvent : e = client.offer
  BY <1>0 DEF Client
<1>3. /\ client'.at = IF client.at = "last" THEN "closed" ELSE "reading"
      /\ client'.offset = client.offset /\ client'.last = client.last
      /\ client'.candidate = client.candidate /\ client'.terminal = client.terminal
  BY <1>0 DEF TakeEvent, Client
<1>4. /\ Announced(client.offset)' <=> Announced(client.offset)
      /\ Closed(client.offset)' <=> Closed(client.offset)
  BY <1>0, <1>3 DEF Announced, Closed
<1>5. ClientGood'
  BY <1>0, <1>3, <1>4 DEF ClientGood, Carries, Offered
<1>6. client.at = "offering" =>
          /\ client.terminal = NoEvent /\ e.seq = client.last /\ e.type # "agent.completed"
          /\ e.type # "agent.failed" /\ (e.type = "artifact.candidate" => Carries(e))
          /\ Clean(e.payload, e.list)
  <2> SUFFICES ASSUME client.at = "offering"
               PROVE  /\ client.terminal = NoEvent /\ e.seq = client.last
                      /\ e.type # "agent.completed" /\ e.type # "agent.failed"
                      /\ (e.type = "artifact.candidate" => Carries(e))
                      /\ Clean(e.payload, e.list)
    OBVIOUS
  <2>1. PICK n \in Nat : n = client.offset
    BY <1>0
  <2>2. /\ client.terminal = NoEvent /\ n # 0 /\ e = journal[n]
        /\ e.type # "agent.completed" /\ e.type # "agent.failed"
    BY <1>0, <1>2, <2>1 DEF ClientRight
  <2>3. n \in 1..Len(journal)
    BY <1>0, <2>1, <2>2 DEF ClientRight
  <2>4. e.seq = client.last
    BY <2>1, <2>2 DEF ClientGood
  <2>5. Parsable(e)
    BY <1>0, <2>2, <2>3 DEF JournalGood
  <2> QED
    BY <2>2, <2>4, <2>5 DEF Parsable, Closing
<1>7. client.at = "last" =>
          /\ client.terminal # NoEvent /\ e = client.terminal /\ e.type = "agent.completed"
          /\ Carries(e) /\ pump.candidate # NoEvent /\ Clean(e.payload, e.list)
  BY <1>0, <1>2 DEF ClientRight, ClientGood, PumpGood
<1>8. e.seq \in Nat /\ pump.last \in Nat /\ pump.last < e.seq
  <2>1. e.seq \in Nat /\ pump.last \in Nat
    BY <1>0 DEF LogEvent, Pump
  <2>2. CASE client.at = "offering"
    BY <1>2, <2>1, <2>2 DEF PumpGood
  <2>3. CASE client.at = "last"
    BY <1>7, <2>1, <2>3 DEF PumpGood
  <2> QED
    BY <1>1, <2>1, <2>2, <2>3
<1>9. ~pump.terminal /\ ~pump.failed /\ row = "running" /\ pump.verdict # "failed"
  BY <1>1 DEF PumpGood
<1>10. ~(e.seq <= pump.last)
  BY <1>8
<1>11. \/ e.type \notin KnownTypes /\ pump' = [pump EXCEPT !.last = e.seq] /\ row' = row
       \/ e.type \in KnownTypes /\ pump' = Handled(e) /\ RecordRuntimeEvent(e)
  <2>1. Storable(e.payload, e.list)
    BY <1>1, <1>6, <1>7 DEF Clean
  <2> QED
    BY <1>2, <1>9, <1>10, <2>1 DEF TakeEvent
<1> DEFINE c == IF e.type = "artifact.candidate" THEN e ELSE pump.candidate
           d == IF e.type = "agent.completed" THEN e ELSE pump.completed
           t == pump.terminal \/ IsTerminal(e.type)
           f == \/ pump.failed \/ e.type = "agent.failed"
                \/ /\ e.type = "agent.completed"
                   /\ pump.candidate = NoEvent \/ pump.candidate.list # e.list
<1>12. row' = "running"
  <2>1. e.type # "agent.failed"
    BY <1>1, <1>6, <1>7
  <2> QED
    BY <1>9, <1>11, <2>1 DEF RecordRuntimeEvent
<1>13. pump.candidate # NoEvent => Carries(pump.candidate)
  BY DEF PumpGood
<1>14. ~f
  <2>1. e.type = "agent.completed" => pump.candidate # NoEvent /\ pump.candidate.list = e.list
    BY <1>1, <1>6, <1>7, <1>13 DEF Carries
  <2> QED
    BY <1>1, <1>6, <1>7, <1>9, <2>1
<1>15. t <=> client.at = "last"
  BY <1>1, <1>6, <1>7, <1>9 DEF IsTerminal
<1>16. (c # NoEvent => Carries(c)) /\ (t => Carries(d))
  BY <1>1, <1>6, <1>7, <1>13, <1>15
<1>17. Announced(client.offset) => c # NoEvent
  BY <1>0, <1>1, <1>2, <1>7 DEF PumpGood
<1>18. ASSUME e.type \notin KnownTypes
       PROVE  c = pump.candidate /\ client.at = "offering"
  BY <1>1, <1>7, <1>18, KnownAre
<1>19. /\ pump'.at = "pumping" /\ pump'.last = e.seq /\ pump'.verdict = pump.verdict /\ ~pump'.failed
       /\ pump'.candidate = c /\ (pump'.terminal <=> t) /\ (t => pump'.completed = d)
  <2>1. CASE e.type \notin KnownTypes /\ pump' = [pump EXCEPT !.last = e.seq]
    <3>1. /\ pump'.at = pump.at /\ pump'.last = e.seq /\ pump'.verdict = pump.verdict
          /\ pump'.failed = pump.failed /\ pump'.candidate = pump.candidate
          /\ pump'.terminal = pump.terminal
      BY <1>0, <2>1 DEF Pump
    <3>2. ~t /\ c = pump.candidate
      BY <1>15, <1>18, <2>1
    <3> HIDE DEF c, t, d
    <3> QED
      BY <1>1, <1>9, <3>1, <3>2
  <2>2. CASE pump' = Handled(e)
    <3>1. pump' = [pump EXCEPT !.last = e.seq, !.candidate = c, !.completed = d,
                               !.terminal = t, !.failed = f]
      BY <1>0, <2>2 DEF Handled, Pump
    <3> HIDE DEF c, t, d, f
    <3>2. /\ pump'.at = pump.at /\ pump'.last = e.seq /\ pump'.verdict = pump.verdict
          /\ pump'.failed = f /\ pump'.candidate = c /\ pump'.completed = d /\ pump'.terminal = t
      BY <1>0, <3>1 DEF Pump
    <3> QED
      BY <1>1, <1>14, <3>2
  <2> QED
    BY <1>11, <2>1, <2>2
<1> HIDE DEF c, d, t, f
<1>20. PumpGood'
  <2>1. client'.at = "reading" /\ client'.terminal = NoEvent => pump'.last <= client'.last
    BY <1>1, <1>3, <1>6, <1>8, <1>19
  <2>2. client'.at # "offering" /\ client'.at # "last"
    BY <1>3
  <2>3. client'.at = "reading" => client'.terminal = NoEvent
    BY <1>1, <1>3, <1>6
  <2>4. (pump.candidate # NoEvent => Carries(pump.candidate))'
    BY <1>0, <1>16, <1>19 DEF Carries, Offered
  <2>5. (pump.terminal => Carries(pump.completed))'
    BY <1>0, <1>16, <1>19 DEF Carries, Offered
  <2>6. client'.terminal # NoEvent => Announced(client.offset)
    BY <1>3 DEF PumpGood
  <2>7. pump'.terminal <=> client'.at = "closed"
    BY <1>3, <1>15, <1>19
  <2> QED
    BY <1>4, <1>9, <1>12, <1>17, <1>19, <2>1, <2>2, <2>3, <2>4, <2>5, <2>6, <2>7 DEF PumpGood
<1> QED
  BY <1>5, <1>20

LEMMA PumpReturnsGood ==
    ASSUME PlaneRight, RuntimeRight, ClientGood, PumpGood,
           PumpReturns, UNCHANGED <<runtimeVars, canceller>>
    PROVE  ClientGood' /\ PumpGood'
<1>1. pump \in Pump /\ UNCHANGED <<journal, outputs, worker, client, row>>
  BY PlaneFacts DEF PumpReturns, runtimeVars
<1>2. client.at = "closed" /\ pump.terminal /\ ~pump.failed
  BY DEF PumpReturns, ClientGood, PumpGood
<1>3. /\ pump'.at = "returned" /\ pump'.last = pump.last /\ pump'.verdict = pump.verdict
      /\ ~pump'.failed /\ pump'.candidate = pump.candidate /\ pump'.terminal
      /\ pump'.completed = pump.completed
  BY <1>1, <1>2 DEF PumpReturns, Pump
<1>4. ClientGood'
  BY <1>1 DEF ClientGood, Carries, Offered, Announced, Closed
<1>5. PumpGood'
  BY <1>1, <1>2, <1>3 DEF PumpGood, Carries, Offered, Announced
<1> QED
  BY <1>4, <1>5

(* What the Runtime accepted the control plane accepts, and it is what the *)
(* worker announced.                                                       *)
LEMMA DecideGood ==
    ASSUME RuntimeRight, PlaneRight, RunSmooth, ClientGood, PumpGood, Decide,
           UNCHANGED <<runtimeVars, canceller>>
    PROVE  ClientGood' /\ PumpGood'
<1>1. pump \in Pump /\ UNCHANGED <<journal, outputs, worker, client, row>>
  BY PlaneFacts DEF Decide, runtimeVars
<1>2. client.at = "closed" /\ pump.terminal /\ ~pump.failed /\ row = "running"
  BY DEF Decide, PumpGood
<1>3. Carries(pump.completed)
  BY <1>2 DEF PumpGood
<1>4. /\ AcceptsOutputs(outputs, Allowed) /\ PlainOutputs(outputs)
      /\ outputs.list = pump.completed.list
  BY <1>3 DEF Carries, RunSmooth, OutputsRight, Settled
<1>5. ValidateManifest(outputs, Allowed)
  BY <1>4, OutputsAgree DEF PlainOutputs
<1>6. /\ pump'.at = "decided" /\ pump'.last = pump.last /\ pump'.verdict = "accepted"
      /\ pump'.failed = pump.failed /\ pump'.candidate = pump.candidate
      /\ pump'.terminal = pump.terminal /\ pump'.completed = pump.completed
  BY <1>1, <1>2, <1>4, <1>5 DEF Decide, Pump
<1>7. ClientGood'
  BY <1>1 DEF ClientGood, Carries, Offered, Announced, Closed
<1>8. PumpGood'
  BY <1>1, <1>2, <1>6 DEF PumpGood, Carries, Offered, Announced
<1> QED
  BY <1>7, <1>8

-----------------------------------------------------------------------------
(* The whole execution. *)

LEMMA BelievedInit == Init => BelievedRight
<1> SUFFICES ASSUME Init PROVE BelievedRight
  OBVIOUS
<1>1. journal = << >> /\ pipe = << >> /\ Len(journal) = 0 /\ Len(pipe) = 0
  BY EmptySeq DEF Init
<1>2. /\ worker.at = "none" /\ worker.seq = 0 /\ control = "idle" /\ record.candidate = "none"
      /\ record.stored /\ manager.at = "open" /\ ~manager.cancelled /\ ~manager.raised
      /\ manager.stdout = "none" /\ manager.controls = "none" /\ manager.last = 0
      /\ manager.candidate = NoEvent /\ manager.terminal = NoEvent
  BY DEF Init
<1>3. UsedTyped
  BY DEF Init, UsedTyped
<1>4. RunWell /\ Handshake /\ OutputsRight
  BY <1>2 DEF RunWell, Handshake, OutputsRight, Settled, Offered
<1>5. PipeRight /\ HeardRight /\ JournalGood
  <2>1. PipeRight
    BY <1>1, <1>2 DEF PipeRight
  <2>2. HeardRight
    BY <1>2 DEF HeardRight, Offered, Finished
  <2>3. JournalGood
    BY <1>1, <1>2 DEF JournalGood, Told
  <2> QED
    BY <2>1, <2>2, <2>3
<1>6. ~Announced(0) /\ ~Closed(0)
  BY DEF Announced, Closed
<1>7. /\ client.at = "reading" /\ client.offset = 0 /\ client.last = 0
      /\ client.candidate = NoEvent /\ client.terminal = NoEvent
  BY DEF Init
<1>8. ClientGood
  BY <1>6, <1>7 DEF ClientGood
<1>9. /\ pump.at = "pumping" /\ pump.last = 0 /\ pump.candidate = NoEvent /\ ~pump.terminal
      /\ ~pump.failed /\ pump.verdict = "none" /\ row = "running"
  BY DEF Init
<1>10. PumpGood
  BY <1>6, <1>7, <1>9 DEF PumpGood
<1> QED
  BY <1>2, <1>3, <1>4, <1>5, <1>8, <1>10 DEF BelievedRight, RunSmooth

(* Only a failure has the manager dismiss a worker it has spawned. *)
LEMMA NobodyDismissed ==
    ASSUME RuntimeRight, Next, ~Fault, worker.at # "dismissed"
    PROVE  worker'.at # "dismissed"
<1>0. worker \in Worker
  BY RuntimeFacts
<1>1. CASE UNCHANGED worker
  BY <1>1
<1>2. CASE WorkerNext
  <2>1. ASSUME NEW x, NEW y, NEW z, NEW at \in WorkerAt \ {"dismissed"}, Emit(x, y, z, at)
        PROVE  worker'.at # "dismissed"
    BY <1>0, <2>1 DEF Emit, Worker
  <2>2. ASSUME NEW kind \in {"created", "durable"}, Ask(kind)
        PROVE  worker'.at # "dismissed"
    BY <1>0, <2>2 DEF Ask, Worker
  <2>3. CASE OnCandidate \/ TurnEnds
    BY <2>2, <2>3 DEF OnCandidate, TurnEnds
  <2>4. CASE CandidateAcknowledged \/ OfferArtifacts \/ Complete \/ FailTurn
    BY <2>1, <2>4 DEF CandidateAcknowledged, OfferArtifacts, Complete, FailTurn, WorkerAt
  <2>5. CASE StreamTurn
    BY <1>0, <2>5 DEF StreamTurn, Worker
  <2>6. CASE TurnFails
    BY <1>0, <2>6 DEF TurnFails, Worker
  <2>7. CASE WorkerExits \/ Dismissed \/ WorkerDies
    BY <1>0, <2>7 DEF WorkerExits, Dismissed, WorkerDies, Exit, Worker
  <2>8. ASSUME NEW result \in Results, ValidateArtifactsOf(result)
        PROVE  worker'.at # "dismissed"
    BY <1>0, <2>8 DEF ValidateArtifactsOf, Worker
  <2> QED
    BY <1>2, <2>3, <2>4, <2>5, <2>6, <2>7, <2>8 DEF WorkerNext
<1>3. CASE Spawn
  BY <1>0, <1>1, <1>3 DEF Spawn, Worker
<1>4. CASE StopGroup
  BY <1>0, <1>1, <1>4 DEF StopGroup, Exit, Worker
<1>5. CASE Register
  BY <1>0, <1>1, <1>4, <1>5 DEF Register, Worker
<1>6. CASE ManagerNext
  <2>1. Spawn \/ Register \/ StopGroup \/ UNCHANGED worker
    BY <1>6 DEF ManagerNext, OpenJournal, CheckCancelled, ReadLine, StdoutEnds, ReadControl,
                ControlEnds, ReaderFails, Judge, StopWorker, Gather, Publish, MarkAwaitingFinalize
  <2> QED
    BY <1>1, <1>3, <1>4, <1>5, <2>1
<1>7. CASE CancelNext \/ Cancel
  <2>1. StopGroup \/ UNCHANGED worker
    BY <1>7 DEF CancelNext, CancelRequested, CancelLocked, CancelAwaits, Cancel, CancelRecorded
  <2> QED
    BY <1>1, <1>4, <2>1
<1>8. CASE ClientNext \/ PumpNext \/ Newer
  <2>1. UNCHANGED worker
    BY <1>8 DEF ClientNext, PumpNext, Newer, NewerEvent, runtimeVars
  <2> QED
    BY <1>1, <2>1
<1> QED
  BY <1>2, <1>6, <1>7, <1>8 DEF Next

LEMMA GoodStep ==
    ASSUME RuntimeRight, PlaneRight, RunSmooth, ClientGood, PumpGood,
           WorkerNext \/ ManagerNext \/ ClientNext \/ PumpNext \/ Newer, ~Fault,
           worker.at # "dismissed", WellWorker, WellWorker', Plain'
    PROVE  RunSmooth' /\ ClientGood' /\ PumpGood'
<1>1. CASE WorkerNext
  BY <1>1, WorkerSmooth, PlaneUnmoved
<1>2. CASE ManagerNext \/ Newer
  BY <1>2, ManagerSmooth, PlaneUnmoved
<1>3. CASE ClientNext
  <2>1. /\ Scan \/ EndOfStream
        /\ UNCHANGED <<runtimeVars, canceller, row, pump, recorded>>
    BY <1>3 DEF ClientNext, Interrupted
  <2> QED
    BY <2>1, RunSmoothKept, ScanGood, EndOfStreamGood
<1>4. CASE PumpNext
  BY <1>4, RunSmoothKept, TakeEventGood, PumpReturnsGood, DecideGood DEF PumpNext
<1> QED
  BY <1>1, <1>2, <1>3, <1>4

LEMMA BelievedStep == ExecutionRight /\ BelievedRight /\ [Next]_vars => BelievedRight'
<1> SUFFICES ASSUME ExecutionRight, BelievedRight, [Next]_vars PROVE BelievedRight'
  OBVIOUS
<1>0. RuntimeRight /\ PlaneRight /\ UsedTyped
  BY DEF ExecutionRight, BelievedRight
<1>1. CASE Next
  <2>1. UsedTyped' /\ (used'.faults = 0 => used.faults = 0)
    BY <1>0, <1>1, UsedMoves
  <2>2. ASSUME Quiet'
        PROVE  Quiet /\ ~Fault /\ ~CancelNext /\ ~Cancel /\ worker.at # "dismissed"
    <3>1. used'.faults = 0 /\ canceller' = "idle"
      BY <2>2 DEF Quiet
    <3>2. used.faults = 0 /\ ~Fault
      BY <1>0, <2>1, <3>1, NoFaults
    <3>3. canceller = "idle" /\ ~CancelNext /\ ~Cancel
      BY <1>1, <3>1, IdleBefore
    <3> QED
      BY <3>2, <3>3 DEF Quiet, BelievedRight
  <2>3. Quiet' => worker'.at # "dismissed"
    BY <1>0, <1>1, <2>2, NobodyDismissed
  <2>4. ASSUME Quiet', WellWorker', Plain' PROVE (RunSmooth /\ ClientGood /\ PumpGood)'
    <3>1. used'.faults = 0 /\ canceller' = "idle"
      BY <2>4 DEF Quiet
    <3>2. WellWorker
      BY <1>0, <1>1, <2>2, <2>4, <3>1, WellBefore
    <3>3. RunSmooth /\ ClientGood /\ PumpGood
      BY <1>0, <1>1, <2>2, <2>4, <3>2, PlainBefore DEF BelievedRight
    <3>4. WorkerNext \/ ManagerNext \/ ClientNext \/ PumpNext \/ Newer
      BY <1>1, <2>2, <2>4 DEF Next
    <3> QED
      BY <1>0, <2>2, <2>4, <3>2, <3>3, <3>4, GoodStep
  <2> QED
    BY <2>1, <2>3, <2>4 DEF BelievedRight
<1>2. CASE UNCHANGED vars
  <2>1. /\ UNCHANGED runtimeVars /\ UNCHANGED <<worker, outputs, journal>>
        /\ UNCHANGED <<row, client, pump, canceller, used>>
    BY <1>2 DEF vars, runtimeVars
  <2>2. /\ (Quiet <=> Quiet') /\ (WellWorker <=> WellWorker') /\ UsedTyped'
        /\ (Offered => Offered' /\ outputs' = outputs) /\ (Plain <=> Plain')
    BY <1>0, <2>1 DEF Quiet, WellWorker, UsedTyped, Offered, Plain, Settled
  <2>3. RunSmooth => RunSmooth'
    BY <2>1, RunSmoothKept
  <2>4. ClientGood /\ PumpGood => ClientGood' /\ PumpGood'
    BY <1>0, <2>1, <2>2, PlaneUnmoved
  <2> QED
    BY <2>1, <2>2, <2>3, <2>4 DEF BelievedRight
<1> QED
  BY <1>1, <1>2

(* A run whose worker completed is given up only after a failure, by the   *)
(* user, or for one of the named divergences - for any turns of the SDK,   *)
(* any outputs, any pipe and any events of a newer Runtime: all else that  *)
(* the worker said is accepted four times over, by its own models, by the  *)
(* manager, by the client and by the coordinator (contracts.go,            *)
(* manifest.go, http.go and coordinator.go against models.py, artifacts.py *)
(* and processes.py).                                                      *)
THEOREM WorkerBelievedCorrect == Spec => []WorkerBelieved
<1>1. BelievedRight => WorkerBelieved
  <2>1. ~Divergent => Plain
    BY DEF Divergent, Plain, PlainOutputs, CleanTurns, Clean, Storable, Handy
  <2> QED
    BY <2>1 DEF BelievedRight, WorkerBelieved, Quiet, WellWorker, PumpGood
<1>2. Init => BelievedRight
  BY BelievedInit
<1>3. ExecutionRight /\ BelievedRight /\ [Next]_vars => BelievedRight'
  BY BelievedStep
<1> QED
  BY <1>1, <1>2, <1>3, ExecutionRightCorrect, PTL DEF Spec

=============================================================================
