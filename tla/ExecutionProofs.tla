--------------------------- MODULE ExecutionProofs ---------------------------
(***************************************************************************)
(* What one execution guarantees, for any SDK turns, outputs, pipe size    *)
(* and number of failures: a run is accepted only when its worker ended    *)
(* well and all it said is recorded, and an acknowledged cancellation      *)
(* leaves no worker.  BelievedProofs has the converse: a worker that       *)
(* completed is believed.  That everything ends is left to TLC.            *)
(***************************************************************************)
EXTENDS Execution, TLAPS, SequenceTheorems, FiniteSetTheorems

-----------------------------------------------------------------------------
(* Selecting by place. *)

(* Every rank is taken: ranks grow with the places, so they are as many. *)
LEMMA RankTaken ==
    ASSUME NEW keep \in SUBSET Nat, IsFiniteSet(keep), NEW k \in 1..Cardinality(keep)
    PROVE  \E i \in keep : Cardinality({j \in keep : j <= i}) = k
<1> DEFINE upto(i) == {j \in keep : j <= i}
           rank == [i \in keep |-> Cardinality(upto(i))]
           n == Cardinality(keep)
<1>1. n \in Nat
  BY FS_CardinalityType
<1>2. ASSUME NEW i \in keep
      PROVE  IsFiniteSet(upto(i)) /\ Cardinality(upto(i)) \in 1..n
  <2>1. upto(i) \subseteq keep
    OBVIOUS
  <2>2. IsFiniteSet(upto(i)) /\ Cardinality(upto(i)) <= n
    BY <2>1, FS_Subset
  <2>3. upto(i) # {}
    OBVIOUS
  <2>4. Cardinality(upto(i)) \in Nat /\ Cardinality(upto(i)) # 0
    BY <2>2, <2>3, FS_CardinalityType, FS_EmptySet
  <2> QED
    BY <1>1, <2>2, <2>4
<1>3. ASSUME NEW i \in keep, NEW j \in keep, i < j
      PROVE  Cardinality(upto(i)) # Cardinality(upto(j))
  <2>0. i \in Nat /\ j \in Nat
    OBVIOUS
  <2>1. upto(i) \subseteq upto(j)
    <3> SUFFICES ASSUME NEW x \in keep, x <= i PROVE x <= j
      OBVIOUS
    <3>1. x \in Nat
      OBVIOUS
    <3> QED
      BY <1>3, <2>0, <3>1
  <2>2. j \in upto(j) /\ j \notin upto(i)
    BY <1>3, <2>0
  <2>3. IsFiniteSet(upto(j)) /\ upto(i) # upto(j)
    BY <1>2, <2>2
  <2> HIDE DEF upto
  <2> QED
    BY <2>1, <2>3, FS_Subset
<1>4. rank \in Injection(keep, 1..n)
  <2>1. rank \in [keep -> 1..n]
    BY <1>2
  <2>2. ASSUME NEW i \in keep, NEW j \in keep, rank[i] = rank[j]
        PROVE  i = j
    <3>1. Cardinality(upto(i)) = Cardinality(upto(j))
      BY <2>2
    <3>2. i < j \/ j < i \/ i = j
      OBVIOUS
    <3> HIDE DEF upto, rank
    <3> QED
      BY <1>3, <3>1, <3>2
  <2> HIDE DEF rank
  <2> QED
    BY <2>1, <2>2 DEF Injection, IsInjective
<1>5. IsFiniteSet(1..n) /\ Cardinality(1..n) = n
  BY <1>1, FS_Interval
<1>6. rank \in Surjection(keep, 1..n)
  <2> HIDE DEF rank
  <2> QED
    BY <1>4, <1>5, FS_Injection
<1>7. \E i \in keep : rank[i] = k
  <2> HIDE DEF rank
  <2> QED
    BY <1>6 DEF Surjection
<1> QED
  BY <1>7

LEMMA PlaceOfRank ==
    ASSUME NEW keep \in SUBSET Nat, IsFiniteSet(keep), NEW k \in 1..Cardinality(keep)
    PROVE  (CHOOSE i \in keep : Cardinality({j \in keep : j <= i}) = k) \in keep
<1> DEFINE P(i) == Cardinality({j \in keep : j <= i}) = k
<1>1. \E i \in keep : P(i)
  BY RankTaken
<1>2. (CHOOSE i \in keep : P(i)) \in keep
  <2> HIDE DEF P
  <2> QED
    BY <1>1
<1> QED
  BY <1>2

LEMMA SelectedTyped ==
    ASSUME NEW S, NEW s \in Seq(S), NEW keep \in SUBSET (1..Len(s))
    PROVE  /\ Selected(s, keep) \in Seq(S) /\ Len(Selected(s, keep)) = Cardinality(keep)
           /\ IsFiniteSet(keep) /\ keep \in SUBSET Nat
<1> DEFINE place(k) == CHOOSE i \in keep : Cardinality({j \in keep : j <= i}) = k
           n == Cardinality(keep)
<1>1. IsFiniteSet(keep) /\ n \in Nat /\ keep \in SUBSET Nat
  <2>1. IsFiniteSet(1..Len(s))
    BY LenProperties, FS_Interval
  <2>2. IsFiniteSet(keep)
    BY <2>1, FS_Subset
  <2>3. keep \in SUBSET Nat
    OBVIOUS
  <2> QED
    BY <2>2, <2>3, FS_CardinalityType
<1>2. \A k \in 1..n : place(k) \in keep
  BY <1>1, PlaceOfRank
<1>3. Selected(s, keep) = [k \in 1..n |-> s[place(k)]]
  BY DEF Selected
<1> HIDE DEF place
<1>4. \A k \in 1..n : s[place(k)] \in S
  BY <1>2, ElementOfSeq
<1>5. Selected(s, keep) \in [1..n -> S]
  BY <1>3, <1>4
<1> HIDE DEF n
<1>6. Selected(s, keep) \in Seq(S) /\ Len(Selected(s, keep)) = n
  BY <1>1, <1>5
<1> QED
  BY <1>1, <1>6 DEF n

(* A sequence that goes on as before is selected from as before. *)
LEMMA SelectedKept ==
    ASSUME NEW S, NEW s \in Seq(S), NEW t, NEW keep \in SUBSET (1..Len(s)),
           \A i \in 1..Len(s) : t[i] = s[i]
    PROVE  Selected(t, keep) = Selected(s, keep)
<1> DEFINE place(k) == CHOOSE i \in keep : Cardinality({j \in keep : j <= i}) = k
           n == Cardinality(keep)
<1>1. \A k \in 1..n : place(k) \in keep
  BY SelectedTyped, PlaceOfRank
<1>2. /\ Selected(s, keep) = [k \in 1..n |-> s[place(k)]]
      /\ Selected(t, keep) = [k \in 1..n |-> t[place(k)]]
  BY DEF Selected
<1> HIDE DEF place, n
<1> QED
  BY <1>1, <1>2

(* Selecting one place more, after all the others. *)
LEMMA SelectedMore ==
    ASSUME NEW S, NEW s \in Seq(S), NEW m \in 1..Len(s), NEW keep \in SUBSET (1..Len(s)),
           \A i \in keep : i < m
    PROVE  Selected(s, keep \cup {m}) = Append(Selected(s, keep), s[m])
<1> DEFINE both == keep \cup {m}
           rank(i) == Cardinality({j \in keep : j <= i})
           rankBoth(i) == Cardinality({j \in both : j <= i})
           n == Cardinality(keep)
<1>0. m \in Nat /\ both \in SUBSET (1..Len(s)) /\ m \notin keep
  OBVIOUS
<1>1. IsFiniteSet(keep) /\ n \in Nat /\ keep \in SUBSET Nat
  BY SelectedTyped, FS_CardinalityType
<1>2. Cardinality(both) = n + 1
  BY <1>0, <1>1, FS_AddElement
<1>3. \A i \in keep : rankBoth(i) = rank(i)
  <2> SUFFICES ASSUME NEW i \in keep PROVE {j \in both : j <= i} = {j \in keep : j <= i}
    OBVIOUS
  <2> QED
    BY <1>0, <1>1
<1>4. rankBoth(m) = n + 1
  <2>1. \A j \in both : j <= m
    BY <1>0, <1>1
  <2>2. {j \in both : j <= m} = both
    BY <2>1
  <2> QED
    BY <1>2, <2>2
<1>5. \A i \in keep : rank(i) \in Nat /\ rank(i) <= n
  <2> SUFFICES ASSUME NEW i \in keep
               PROVE  rank(i) \in Nat /\ rank(i) <= n
    OBVIOUS
  <2>1. {j \in keep : j <= i} \subseteq keep
    OBVIOUS
  <2> QED
    BY <1>1, <2>1, FS_Subset, FS_CardinalityType
<1> DEFINE place(k) == CHOOSE i \in keep : rank(i) = k
           placeBoth(k) == CHOOSE i \in both : rankBoth(i) = k
           chosen == Selected(s, keep)
           more == Selected(s, both)
<1>6. /\ chosen = [k \in 1..n |-> s[place(k)]]
      /\ more = [k \in 1..Cardinality(both) |-> s[placeBoth(k)]]
  BY DEF Selected
<1>7. /\ chosen \in Seq(S) /\ Len(chosen) = n /\ more \in Seq(S) /\ Len(more) = n + 1
      /\ s[m] \in S
  BY <1>0, <1>2, SelectedTyped, ElementOfSeq
<1> HIDE DEF rank, rankBoth, n
<1>8. ASSUME NEW k \in 1..n PROVE placeBoth(k) = place(k)
  <2>1. k # n + 1
    BY <1>1
  <2>2. \A i : (i \in both /\ rankBoth(i) = k) <=> (i \in keep /\ rank(i) = k)
    BY <1>3, <1>4, <2>1
  <2> HIDE DEF both
  <2> QED
    BY <2>2
<1>9. placeBoth(n + 1) = m
  <2>1. \A i \in both : rankBoth(i) = n + 1 => i = m
    BY <1>1, <1>3, <1>5
  <2>2. m \in both /\ rankBoth(m) = n + 1
    BY <1>4
  <2> HIDE DEF both
  <2> QED
    BY <2>1, <2>2
<1> HIDE DEF both, place, placeBoth, chosen, more
<1>10. /\ \A k \in 1..n : more[k] = chosen[k]
       /\ more[n + 1] = s[m]
  BY <1>1, <1>2, <1>6, <1>8, <1>9
<1>11. /\ Append(chosen, s[m]) \in Seq(S) /\ Len(Append(chosen, s[m])) = n + 1
       /\ \A k \in 1..n : Append(chosen, s[m])[k] = chosen[k]
       /\ Append(chosen, s[m])[n + 1] = s[m]
  BY <1>7, AppendProperties
<1>12. \A k \in 1..n + 1 : more[k] = Append(chosen, s[m])[k]
  <2>1. \A k \in 1..n + 1 : k \in 1..n \/ k = n + 1
    BY <1>1
  <2> QED
    BY <1>10, <1>11, <2>1
<1>13. more = Append(chosen, s[m])
  BY <1>7, <1>11, <1>12, SeqEqual
<1> QED
  BY <1>13 DEF more, chosen, both

-----------------------------------------------------------------------------
(* Types. *)

RawPayload ==
    {t[2] : t \in Turns}
      \cup {PhasePayload, CandidatePayload, CompletedPayload, FailedPayload("text"),
            FailedPayload("execution_cancelled"), FailedPayload("worker_failed"), << >>}
RawList == {r.list : r \in Results} \cup {<< >>}

RawEvent == [seq : Nat, type : KnownTypes \cup {"none"}, payload : RawPayload, list : RawList]
LogEvent == [seq : Nat, type : KnownTypes \cup {"none", "newer"},
             payload : {Redact(p) : p \in RawPayload} \cup {<< >>},
             list : {RedactAll(l) : l \in RawList} \cup {<< >>}]

WorkerAt == {"none", "held", "dismissed", "setup", "created", "turn", "durable", "offer",
             "complete", "leaving", "failing", "failed", "exited"}
ManagerAt == {"open", "locked", "spawn", "register", "reading", "stopping", "gather", "publish",
              "mark", "done", "raised"}
Reader == {"none", "open", "failed", "eof"}

Worker == [at : WorkerAt, seq : Nat, turns : Seq(Turns), status : {"none", "0", "1", "killed"}]
Manager == [at : ManagerAt, cancelled : BOOLEAN, ready : BOOLEAN, stdout : Reader,
            controls : Reader, last : Nat, candidate : RawEvent, terminal : RawEvent,
            judged : BOOLEAN, success : BOOLEAN, raised : BOOLEAN, seq : Nat]
Record == [lifecycle : {"starting", "running", "awaiting"},
           candidate : {"none", "created", "durable"}, stored : BOOLEAN]
Client == [at : {"reading", "offering", "last", "closed", "failed"}, offset : Nat, last : Nat,
           candidate : LogEvent, terminal : LogEvent, offer : LogEvent]
Pump == [at : {"pumping", "returned", "decided"}, last : Nat, candidate : LogEvent,
         completed : LogEvent, terminal : BOOLEAN, failed : BOOLEAN,
         verdict : {"none", "accepted", "failed"}]

RuntimeTyped ==
    /\ worker \in Worker /\ outputs.list \in RawList
    /\ pipe \in Seq(RawEvent) /\ Len(pipe) <= PipeSize
    /\ control \in {"idle", "created", "durable", "acked"}
    /\ manager \in Manager /\ record \in Record /\ journal \in Seq(LogEvent)
    /\ canceller \in {"idle", "recorded", "flagged", "waiting", "returned", "error"}

PlaneTyped ==
    /\ row \in {"running", "cancelled", "failed"}
    /\ client \in Client /\ pump \in Pump /\ recorded \in Seq(LogEvent)

(* The manager's tasks are over: what it says of the run no longer changes. *)
Over == manager.at \in {"gather", "publish", "mark", "done", "raised"}

WorkerRight ==
    /\ worker.status # "none" <=> worker.at = "exited"
    /\ manager.at \in {"open", "locked", "spawn"} => worker.at = "none"
    /\ manager.at = "register" => worker.at \in {"held", "exited"}
    /\ manager.stdout = "eof" =>
           ~Alive /\ manager.at \notin {"open", "locked", "spawn", "register"}
    /\ Over => ~Alive

CandidateRight ==
    /\ control = "created" => record.candidate = "none"
    /\ worker.at \in {"none", "held", "dismissed", "setup"} =>
           control = "idle" /\ record.candidate = "none"
    /\ manager.terminal.type \in {"none", "agent.completed", "agent.failed"}
    /\ manager.terminal.type = "agent.completed" => record.candidate = "durable"

Successful == manager.success /\ manager.terminal.type = "agent.completed"

JudgementRight ==
    /\ manager.judged => manager.at \in {"publish", "mark", "done", "raised"}
    /\ manager.success => /\ manager.judged /\ worker.status = "0"
                          /\ manager.terminal # NoEvent
    /\ \A i \in 1..Len(journal) : journal[i].type = "agent.completed" => Successful

RecordRight ==
    /\ record.lifecycle = "awaiting" => manager.at \in {"done", "raised"}
    /\ manager.at = "done" => record.lifecycle = "awaiting"
    /\ canceller = "returned" => record.lifecycle = "awaiting"

JournalRight ==
    /\ \A i \in 1..Len(journal) : journal[i].seq <= manager.seq
    /\ \A i, j \in 1..Len(journal) : i < j => journal[i].seq < journal[j].seq

RuntimeRight ==
    RuntimeTyped /\ WorkerRight /\ CandidateRight /\ JudgementRight /\ RecordRight /\ JournalRight

(* The known events among the first n of the journal. *)
Heard(n) == Selected(journal, {i \in 1..n : journal[i].type \in KnownTypes})

ClientRight ==
    /\ client.offset <= Len(journal)
    /\ client.at \in {"last", "closed"} => manager.at = "done" /\ client.offset = Len(journal)
    /\ client.terminal # NoEvent =>
           /\ client.terminal.type \in {"agent.completed", "agent.failed"}
           /\ \E i \in 1..Len(journal) : journal[i] = client.terminal
    /\ client.at = "offering" =>
           /\ client.terminal = NoEvent /\ client.offset > 0
           /\ client.offer = journal[client.offset]
           /\ client.offer.type \notin {"agent.completed", "agent.failed"}
    /\ client.at = "last" => client.offer = client.terminal /\ client.terminal # NoEvent

PumpRight ==
    /\ pump.terminal /\ ~pump.failed =>
           \E i \in 1..Len(journal) : journal[i].type = "agent.completed"
    /\ pump.at \in {"returned", "decided"} /\ ~pump.failed => client.at = "closed" /\ pump.terminal
    /\ pump.verdict = "accepted" =>
           pump.at = "decided" /\ ~pump.failed /\ recorded = Heard(Len(journal))

(* What is recorded is what was read, short of what is still being handed over. *)
Withheld(e) == Heard(client.offset) = Append(recorded, e)
HistoryRight ==
    row = "running" /\ ~pump.failed =>
        /\ client.at = "reading" => IF client.terminal = NoEvent THEN Heard(client.offset) = recorded
                                    ELSE Withheld(client.terminal)
        /\ client.at = "offering" => IF client.offer.type \in KnownTypes THEN Withheld(client.offer)
                                     ELSE Heard(client.offset) = recorded
        /\ client.at = "last" => Withheld(client.terminal)
        /\ client.at = "closed" => Heard(client.offset) = recorded

PlaneRight == PlaneTyped /\ ClientRight /\ PumpRight /\ HistoryRight

-----------------------------------------------------------------------------
(* The worker's steps.  None of them touches what the manager has decided, *)
(* and none is taken by a worker that is not alive.                        *)

LEMMA KnownAre ==
    KnownTypes = {"phase.changed", "assistant.delta", "assistant.message", "tool.started",
                  "tool.completed", "artifact.candidate", "agent.completed", "agent.failed"}
  BY DEF KnownTypes, Required

LEMMA RawTyped ==
    ASSUME NEW n \in Nat, NEW type \in KnownTypes \cup {"none"}, NEW payload \in RawPayload,
           NEW list \in RawList
    PROVE  Event(n, type, payload, list) \in RawEvent
  BY DEF Event, RawEvent

LEMMA NoEventTyped ==
    NoEvent \in RawEvent /\ NoEvent \in LogEvent /\ NoEvent.type = "none"
<1>1. << >> \in RawPayload /\ << >> \in RawList
  BY DEF RawPayload, RawList
<1>2. NoEvent \in RawEvent
  BY <1>1, RawTyped DEF NoEvent
<1>3. NoEvent \in LogEvent
  BY DEF NoEvent, Event, LogEvent
<1> QED
  BY <1>2, <1>3 DEF NoEvent, Event

LEMMA RuntimeFacts ==
    ASSUME RuntimeRight
    PROVE  /\ worker \in Worker /\ outputs.list \in RawList
           /\ pipe \in Seq(RawEvent) /\ Len(pipe) \in Nat /\ Len(pipe) <= PipeSize
           /\ control \in {"idle", "created", "durable", "acked"}
           /\ manager \in Manager /\ record \in Record
           /\ journal \in Seq(LogEvent) /\ Len(journal) \in Nat
           /\ WorkerRight /\ CandidateRight /\ JudgementRight /\ RecordRight /\ JournalRight
<1>1. RuntimeTyped
  BY DEF RuntimeRight
<1>2. Len(pipe) \in Nat /\ Len(journal) \in Nat
  BY <1>1, LenProperties DEF RuntimeTyped
<1> QED
  BY <1>1, <1>2 DEF RuntimeRight, RuntimeTyped

WorkerMove ==
    /\ Alive /\ worker' \in Worker
    /\ worker'.at \notin {"none", "held", "dismissed", "setup"}
    /\ worker.at = "held" => worker'.at = "exited"
    /\ worker'.status # "none" <=> worker'.at = "exited"
    /\ outputs'.list \in RawList
    /\ pipe' \in Seq(RawEvent) /\ Len(pipe') <= PipeSize
    /\ control' \in {"idle", "created", "durable", "acked"}
    /\ control' = "created" => control = "created" \/ worker.at = "setup"
    /\ UNCHANGED <<manager, record, journal, canceller>>

LEMMA WorkerMoveRight ==
    ASSUME RuntimeRight, WorkerMove
    PROVE  RuntimeRight'
<1>0. /\ UNCHANGED <<manager, record, journal, canceller>>
      /\ ~Over /\ worker.at # "none"
  <2>1. WorkerRight /\ Alive
    BY RuntimeFacts DEF WorkerMove
  <2> QED
    BY <2>1 DEF WorkerMove, WorkerRight, Alive
<1>1. RuntimeTyped'
  <2>1. /\ manager \in Manager /\ record \in Record /\ journal \in Seq(LogEvent)
        /\ canceller \in {"idle", "recorded", "flagged", "waiting", "returned", "error"}
    BY DEF RuntimeRight, RuntimeTyped
  <2>2. /\ worker' \in Worker /\ outputs'.list \in RawList
        /\ pipe' \in Seq(RawEvent) /\ Len(pipe') <= PipeSize
        /\ control' \in {"idle", "created", "durable", "acked"}
    BY DEF WorkerMove
  <2> QED
    BY <1>0, <2>1, <2>2 DEF RuntimeTyped
<1>2. WorkerRight'
  <2>1. WorkerRight
    BY RuntimeFacts
  <2>2. Alive
    BY DEF WorkerMove
  <2> QED
    BY <1>0, <2>1, <2>2 DEF WorkerRight, WorkerMove, Over, Alive
<1>3. CandidateRight'
  BY <1>0, RuntimeFacts DEF CandidateRight, WorkerMove
<1>4. JudgementRight'
  <2>1. ~manager.success
    BY <1>0, RuntimeFacts DEF JudgementRight, Over
  <2> QED
    BY <1>0, <2>1, RuntimeFacts DEF JudgementRight, Successful
<1>5. RecordRight' /\ JournalRight'
  BY <1>0, RuntimeFacts DEF RecordRight, JournalRight
<1> QED
  BY <1>1, <1>2, <1>3, <1>4, <1>5 DEF RuntimeRight

LEMMA EmitTyped ==
    ASSUME RuntimeRight, Len(pipe) < PipeSize, NEW e \in RawEvent, pipe' = Append(pipe, e)
    PROVE  pipe' \in Seq(RawEvent) /\ Len(pipe') <= PipeSize
<1>1. pipe \in Seq(RawEvent) /\ Len(pipe) \in Nat /\ PipeSize \in Nat
  BY RuntimeFacts, ExecutionBounds
<1>2. pipe' \in Seq(RawEvent) /\ Len(pipe') = Len(pipe) + 1
  BY <1>1, AppendProperties
<1> QED
  BY <1>1, <1>2

(* What is emitted is typed, and the worker goes on where it should. *)
LEMMA Emits ==
    ASSUME RuntimeRight, NEW type \in KnownTypes, NEW payload \in RawPayload, NEW list \in RawList,
           NEW at \in WorkerAt, Emit(type, payload, list, at)
    PROVE  /\ pipe' \in Seq(RawEvent) /\ Len(pipe') <= PipeSize
           /\ worker' \in Worker /\ worker'.at = at /\ worker'.status = worker.status
<1>1. worker \in Worker
  BY RuntimeFacts
<1>2. worker' \in Worker /\ worker'.at = at /\ worker'.status = worker.status
  <2>1. worker.seq + 1 \in Nat
    BY <1>1 DEF Worker
  <2>2. worker' = [[worker EXCEPT !.seq = worker.seq + 1] EXCEPT !.at = at]
    BY DEF Emit
  <2> QED
    BY <1>1, <2>1, <2>2 DEF Worker
<1>3. worker.seq + 1 \in Nat
  BY <1>1 DEF Worker
<1>4. PICK e \in RawEvent : e = Event(worker.seq + 1, type, payload, list)
  BY <1>3, RawTyped
<1>5. pipe' = Append(pipe, e) /\ Len(pipe) < PipeSize
  BY <1>4 DEF Emit
<1> QED
  BY <1>2, <1>5, EmitTyped

LEMMA WorkerMoves ==
    ASSUME RuntimeRight, WorkerNext
    PROVE  WorkerMove
<1>0. /\ worker \in Worker /\ outputs.list \in RawList
      /\ pipe \in Seq(RawEvent) /\ Len(pipe) <= PipeSize
      /\ control \in {"idle", "created", "durable", "acked"}
      /\ worker.status # "none" <=> worker.at = "exited"
  BY RuntimeFacts DEF WorkerRight
<1>1. UNCHANGED <<manager, record, journal, canceller>>
  BY DEF WorkerNext, WorkerUnchanged
<1> USE DEF Worker, WorkerAt, Alive
<1>2. CASE Dismissed
  BY <1>0, <1>1, <1>2 DEF Dismissed, Exit, WorkerMove
<1>3. CASE OnCandidate
  BY <1>0, <1>1, <1>3 DEF OnCandidate, Ask, WorkerMove
<1>4. CASE CandidateAcknowledged
  <2>1. /\ worker.at = "created" /\ control' = "idle" /\ UNCHANGED outputs
        /\ Emit("phase.changed", PhasePayload, << >>, "turn")
    BY <1>4 DEF CandidateAcknowledged
  <2>2. PhasePayload \in RawPayload /\ << >> \in RawList /\ "phase.changed" \in KnownTypes
    BY KnownAre DEF RawPayload, RawList
  <2>3. /\ pipe' \in Seq(RawEvent) /\ Len(pipe') <= PipeSize
        /\ worker' \in Worker /\ worker'.at = "turn" /\ worker'.status = worker.status
    BY <2>1, <2>2, Emits
  <2> QED
    BY <1>0, <1>1, <2>1, <2>3 DEF WorkerMove
<1>5. CASE StreamTurn
  <2>1. worker.at = "turn" /\ UNCHANGED <<outputs, control>>
    BY <1>5 DEF StreamTurn
  <2>2. CASE worker' = [worker EXCEPT !.at = "failing"] /\ UNCHANGED pipe
    BY <1>0, <1>1, <2>1, <2>2 DEF WorkerMove
  <2>3. ASSUME NEW t \in Turns, Len(pipe) < PipeSize,
               pipe' = Append(pipe, Event(worker.seq + 1, t[1], t[2], << >>)),
               worker' = [worker EXCEPT !.seq = @ + 1, !.turns = Append(@, t)]
        PROVE  WorkerMove
    <3>1. /\ t[1] \in KnownTypes /\ t[2] \in RawPayload /\ << >> \in RawList
          /\ worker.seq + 1 \in Nat
      BY <1>0, TurnsAssumption DEF RawPayload, RawList
    <3>2. PICK e \in RawEvent : e = Event(worker.seq + 1, t[1], t[2], << >>)
      BY <3>1, RawTyped
    <3>3. pipe' \in Seq(RawEvent) /\ Len(pipe') <= PipeSize
      BY <2>3, <3>2, EmitTyped
    <3>4. worker' \in Worker /\ worker'.at = "turn" /\ worker'.status = worker.status
      <4>1. worker.seq + 1 \in Nat /\ Append(worker.turns, t) \in Seq(Turns)
        BY <1>0
      <4> HIDE DEF Worker, WorkerAt
      <4> DEFINE m == worker.seq + 1
                 n == Append(worker.turns, t)
      <4>2. m \in Nat /\ n \in Seq(Turns) /\ worker' = [worker EXCEPT !.seq = m, !.turns = n]
        BY <4>1, <2>3
      <4> HIDE DEF m, n
      <4> QED
        BY <1>0, <2>1, <4>2 DEF Worker
    <3> QED
      BY <1>0, <1>1, <2>1, <3>3, <3>4 DEF WorkerMove
  <2> QED
    BY <1>5, <2>2, <2>3 DEF StreamTurn
<1>6. CASE TurnEnds
  BY <1>0, <1>1, <1>6 DEF TurnEnds, Ask, WorkerMove
<1>7. ASSUME NEW result \in Results, ValidateArtifactsOf(result) PROVE WorkerMove
  <2>1. result.list \in RawList
    BY DEF RawList
  <2>2. /\ worker.at = "durable" /\ control' = "idle" /\ UNCHANGED pipe
        /\ outputs' = result \/ outputs' = outputs
        /\ \/ worker' = [worker EXCEPT !.at = "offer"]
           \/ worker' = [worker EXCEPT !.at = "failing"]
    BY <1>7 DEF ValidateArtifactsOf
  <2> QED
    BY <1>0, <1>1, <2>1, <2>2 DEF WorkerMove
<1>8. CASE OfferArtifacts
  <2>1. /\ worker.at = "offer" /\ UNCHANGED <<outputs, control>>
        /\ Emit("artifact.candidate", CandidatePayload, outputs.list, "complete")
    BY <1>8 DEF OfferArtifacts
  <2>2. CandidatePayload \in RawPayload /\ "artifact.candidate" \in KnownTypes
    BY KnownAre DEF RawPayload
  <2>3. PICK l \in RawList : l = outputs.list
    BY <1>0
  <2>4. Emit("artifact.candidate", CandidatePayload, l, "complete")
    BY <2>1, <2>3 DEF Emit
  <2>5. /\ pipe' \in Seq(RawEvent) /\ Len(pipe') <= PipeSize
        /\ worker' \in Worker /\ worker'.at = "complete" /\ worker'.status = worker.status
    BY <2>2, <2>4, Emits
  <2> QED
    BY <1>0, <1>1, <2>1, <2>5 DEF WorkerMove
<1>9. CASE Complete
  <2>1. /\ worker.at = "complete" /\ UNCHANGED <<outputs, control>>
        /\ Emit("agent.completed", CompletedPayload, outputs.list, "leaving")
    BY <1>9 DEF Complete
  <2>2. CompletedPayload \in RawPayload /\ "agent.completed" \in KnownTypes
    BY KnownAre DEF RawPayload
  <2>3. PICK l \in RawList : l = outputs.list
    BY <1>0
  <2>4. Emit("agent.completed", CompletedPayload, l, "leaving")
    BY <2>1, <2>3 DEF Emit
  <2>5. /\ pipe' \in Seq(RawEvent) /\ Len(pipe') <= PipeSize
        /\ worker' \in Worker /\ worker'.at = "leaving" /\ worker'.status = worker.status
    BY <2>2, <2>4, Emits
  <2> QED
    BY <1>0, <1>1, <2>1, <2>5 DEF WorkerMove
<1>10. CASE TurnFails
  BY <1>0, <1>1, <1>10 DEF TurnFails, WorkerMove
<1>11. CASE FailTurn
  <2>1. /\ worker.at = "failing" /\ UNCHANGED <<outputs, control>>
        /\ Emit("agent.failed", FailedPayload("text"), << >>, "failed")
    BY <1>11 DEF FailTurn
  <2>2. FailedPayload("text") \in RawPayload /\ << >> \in RawList /\ "agent.failed" \in KnownTypes
    BY KnownAre DEF RawPayload, RawList
  <2>3. /\ pipe' \in Seq(RawEvent) /\ Len(pipe') <= PipeSize
        /\ worker' \in Worker /\ worker'.at = "failed" /\ worker'.status = worker.status
    BY <2>1, <2>2, Emits
  <2> QED
    BY <1>0, <1>1, <2>1, <2>3 DEF WorkerMove
<1>12. CASE WorkerExits
  BY <1>0, <1>1, <1>12 DEF WorkerExits, Exit, WorkerMove
<1>13. CASE WorkerDies
  BY <1>0, <1>1, <1>13 DEF WorkerDies, Exit, WorkerMove
<1> QED
  BY <1>2, <1>3, <1>4, <1>5, <1>6, <1>7, <1>8, <1>9, <1>10, <1>11, <1>12, <1>13 DEF WorkerNext

-----------------------------------------------------------------------------
(* The manager's steps that leave the journal alone. *)

LEMMA OpenJournalRight ==
    ASSUME RuntimeRight, OpenJournal, UNCHANGED canceller
    PROVE  RuntimeRight'
<1> USE DEF OpenJournal, Goto, Reading, Alive
<1>1. RuntimeTyped'
  <2>1. manager' \in Manager
    BY RuntimeFacts DEF Manager, ManagerAt, Reader
  <2>2. worker' \in Worker
    BY RuntimeFacts DEF Worker, WorkerAt
  <2>3. record' \in Record
    BY RuntimeFacts DEF Record
  <2> QED
    BY <2>1, <2>2, <2>3 DEF RuntimeRight, RuntimeTyped
<1>2. WorkerRight'
  BY RuntimeFacts DEF WorkerRight, Over, Worker, WorkerAt, Manager, ManagerAt
<1>3. CandidateRight'
  BY RuntimeFacts DEF CandidateRight, WorkerRight, Worker, Manager, Record
<1>4. JudgementRight'
  BY RuntimeFacts DEF JudgementRight, Successful, WorkerRight, Over, Worker, Manager
<1>5. RecordRight'
  BY RuntimeFacts DEF RecordRight, Manager, Record
<1>6. JournalRight'
  BY RuntimeFacts DEF JournalRight, Manager
<1> QED
  BY <1>1, <1>2, <1>3, <1>4, <1>5, <1>6 DEF RuntimeRight

LEMMA CheckCancelledRight ==
    ASSUME RuntimeRight, CheckCancelled, UNCHANGED canceller
    PROVE  RuntimeRight'
<1> USE DEF CheckCancelled, Goto, Reading, Alive
<1>1. RuntimeTyped'
  <2>1. manager' \in Manager
    BY RuntimeFacts DEF Manager, ManagerAt, Reader
  <2>2. worker' \in Worker
    BY RuntimeFacts DEF Worker, WorkerAt
  <2>3. record' \in Record
    BY RuntimeFacts DEF Record
  <2> QED
    BY <2>1, <2>2, <2>3 DEF RuntimeRight, RuntimeTyped
<1>2. WorkerRight'
  BY RuntimeFacts DEF WorkerRight, Over, Worker, WorkerAt, Manager, ManagerAt
<1>3. CandidateRight'
  BY RuntimeFacts DEF CandidateRight, WorkerRight, Worker, Manager, Record
<1>4. JudgementRight'
  BY RuntimeFacts DEF JudgementRight, Successful, WorkerRight, Over, Worker, Manager
<1>5. RecordRight'
  BY RuntimeFacts DEF RecordRight, Manager, Record
<1>6. JournalRight'
  BY RuntimeFacts DEF JournalRight, Manager
<1> QED
  BY <1>1, <1>2, <1>3, <1>4, <1>5, <1>6 DEF RuntimeRight

LEMMA SpawnRight ==
    ASSUME RuntimeRight, Spawn, UNCHANGED canceller
    PROVE  RuntimeRight'
<1> USE DEF Spawn, Goto, Reading, Alive
<1>1. RuntimeTyped'
  <2>1. manager' \in Manager
    BY RuntimeFacts DEF Manager, ManagerAt, Reader
  <2>2. worker' \in Worker
    BY RuntimeFacts DEF Worker, WorkerAt
  <2>3. record' \in Record
    BY RuntimeFacts DEF Record
  <2> QED
    BY <2>1, <2>2, <2>3 DEF RuntimeRight, RuntimeTyped
<1>2. WorkerRight'
  BY RuntimeFacts DEF WorkerRight, Over, Worker, WorkerAt, Manager, ManagerAt
<1>3. CandidateRight'
  BY RuntimeFacts DEF CandidateRight, WorkerRight, Worker, Manager, Record
<1>4. JudgementRight'
  BY RuntimeFacts DEF JudgementRight, Successful, WorkerRight, Over, Worker, Manager
<1>5. RecordRight'
  BY RuntimeFacts DEF RecordRight, Manager, Record
<1>6. JournalRight'
  BY RuntimeFacts DEF JournalRight, Manager
<1> QED
  BY <1>1, <1>2, <1>3, <1>4, <1>5, <1>6 DEF RuntimeRight

LEMMA RegisterRight ==
    ASSUME RuntimeRight, Register, UNCHANGED canceller
    PROVE  RuntimeRight'
<1> USE DEF Register, Goto, Reading, Alive, StopGroup, Exit
<1>1. RuntimeTyped'
  <2>1. manager' \in Manager
    BY RuntimeFacts DEF Manager, ManagerAt, Reader
  <2>2. worker' \in Worker
    BY RuntimeFacts DEF Worker, WorkerAt
  <2>3. record' \in Record
    BY RuntimeFacts DEF Record
  <2> QED
    BY <2>1, <2>2, <2>3 DEF RuntimeRight, RuntimeTyped
<1>2. WorkerRight'
  BY RuntimeFacts, ZenonT(40) DEF WorkerRight, Over, Worker, WorkerAt, Manager, ManagerAt
<1>3. CandidateRight'
  BY RuntimeFacts DEF CandidateRight, WorkerRight, Worker, Manager, Record
<1>4. JudgementRight'
  BY RuntimeFacts DEF JudgementRight, Successful, WorkerRight, Over, Worker, Manager
<1>5. RecordRight'
  BY RuntimeFacts DEF RecordRight, Manager, Record
<1>6. JournalRight'
  BY RuntimeFacts DEF JournalRight, Manager
<1> QED
  BY <1>1, <1>2, <1>3, <1>4, <1>5, <1>6 DEF RuntimeRight

LEMMA StdoutEndsRight ==
    ASSUME RuntimeRight, StdoutEnds, UNCHANGED canceller
    PROVE  RuntimeRight'
<1> USE DEF StdoutEnds, Goto, Reading, Alive
<1>1. RuntimeTyped'
  <2>1. manager' \in Manager
    BY RuntimeFacts DEF Manager, ManagerAt, Reader
  <2>2. worker' \in Worker
    BY RuntimeFacts DEF Worker, WorkerAt
  <2>3. record' \in Record
    BY RuntimeFacts DEF Record
  <2> QED
    BY <2>1, <2>2, <2>3 DEF RuntimeRight, RuntimeTyped
<1>2. WorkerRight'
  BY RuntimeFacts DEF WorkerRight, Over, Worker, WorkerAt, Manager, ManagerAt
<1>3. CandidateRight'
  BY RuntimeFacts DEF CandidateRight, WorkerRight, Worker, Manager, Record
<1>4. JudgementRight'
  BY RuntimeFacts DEF JudgementRight, Successful, WorkerRight, Over, Worker, Manager
<1>5. RecordRight'
  BY RuntimeFacts DEF RecordRight, Manager, Record
<1>6. JournalRight'
  BY RuntimeFacts DEF JournalRight, Manager
<1> QED
  BY <1>1, <1>2, <1>3, <1>4, <1>5, <1>6 DEF RuntimeRight

LEMMA ReadControlRight ==
    ASSUME RuntimeRight, ReadControl, UNCHANGED canceller
    PROVE  RuntimeRight'
<1> USE DEF ReadControl, Goto, Reading, Alive
<1>1. RuntimeTyped'
  <2>1. manager' \in Manager
    BY RuntimeFacts DEF Manager, ManagerAt, Reader
  <2>2. worker' \in Worker
    BY RuntimeFacts DEF Worker, WorkerAt
  <2>3. record' \in Record
    BY RuntimeFacts DEF Record
  <2> QED
    BY <2>1, <2>2, <2>3 DEF RuntimeRight, RuntimeTyped
<1>2. WorkerRight'
  BY RuntimeFacts DEF WorkerRight, Over, Worker, WorkerAt, Manager, ManagerAt
<1>3. CandidateRight'
  BY RuntimeFacts DEF CandidateRight, WorkerRight, Worker, Manager, Record
<1>4. JudgementRight'
  BY RuntimeFacts DEF JudgementRight, Successful, WorkerRight, Over, Worker, Manager
<1>5. RecordRight'
  BY RuntimeFacts DEF RecordRight, Manager, Record
<1>6. JournalRight'
  BY RuntimeFacts DEF JournalRight, Manager
<1> QED
  BY <1>1, <1>2, <1>3, <1>4, <1>5, <1>6 DEF RuntimeRight

LEMMA ControlEndsRight ==
    ASSUME RuntimeRight, ControlEnds, UNCHANGED canceller
    PROVE  RuntimeRight'
<1> USE DEF ControlEnds, Goto, Reading, Alive
<1>1. RuntimeTyped'
  <2>1. manager' \in Manager
    BY RuntimeFacts DEF Manager, ManagerAt, Reader
  <2>2. worker' \in Worker
    BY RuntimeFacts DEF Worker, WorkerAt
  <2>3. record' \in Record
    BY RuntimeFacts DEF Record
  <2> QED
    BY <2>1, <2>2, <2>3 DEF RuntimeRight, RuntimeTyped
<1>2. WorkerRight'
  BY RuntimeFacts DEF WorkerRight, Over, Worker, WorkerAt, Manager, ManagerAt
<1>3. CandidateRight'
  BY RuntimeFacts DEF CandidateRight, WorkerRight, Worker, Manager, Record
<1>4. JudgementRight'
  BY RuntimeFacts DEF JudgementRight, Successful, WorkerRight, Over, Worker, Manager
<1>5. RecordRight'
  BY RuntimeFacts DEF RecordRight, Manager, Record
<1>6. JournalRight'
  BY RuntimeFacts DEF JournalRight, Manager
<1> QED
  BY <1>1, <1>2, <1>3, <1>4, <1>5, <1>6 DEF RuntimeRight

LEMMA ReaderFailsRight ==
    ASSUME RuntimeRight, ReaderFails, UNCHANGED canceller
    PROVE  RuntimeRight'
<1> USE DEF ReaderFails, Goto, Reading, Alive
<1>1. RuntimeTyped'
  <2>1. manager' \in Manager
    BY RuntimeFacts DEF Manager, ManagerAt, Reader
  <2>2. worker' \in Worker
    BY RuntimeFacts DEF Worker, WorkerAt
  <2>3. record' \in Record
    BY RuntimeFacts DEF Record
  <2> QED
    BY <2>1, <2>2, <2>3 DEF RuntimeRight, RuntimeTyped
<1>2. WorkerRight'
  BY RuntimeFacts DEF WorkerRight, Over, Worker, WorkerAt, Manager, ManagerAt
<1>3. CandidateRight'
  BY RuntimeFacts DEF CandidateRight, WorkerRight, Worker, Manager, Record
<1>4. JudgementRight'
  BY RuntimeFacts DEF JudgementRight, Successful, WorkerRight, Over, Worker, Manager
<1>5. RecordRight'
  BY RuntimeFacts DEF RecordRight, Manager, Record
<1>6. JournalRight'
  BY RuntimeFacts DEF JournalRight, Manager
<1> QED
  BY <1>1, <1>2, <1>3, <1>4, <1>5, <1>6 DEF RuntimeRight

LEMMA JudgeRight ==
    ASSUME RuntimeRight, Judge, UNCHANGED canceller
    PROVE  RuntimeRight'
<1> USE DEF Judge, Goto, Reading, Alive
<1>1. RuntimeTyped'
  <2>1. manager' \in Manager
    BY RuntimeFacts DEF Manager, ManagerAt, Reader
  <2>2. worker' \in Worker
    BY RuntimeFacts DEF Worker, WorkerAt
  <2>3. record' \in Record
    BY RuntimeFacts DEF Record
  <2> QED
    BY <2>1, <2>2, <2>3 DEF RuntimeRight, RuntimeTyped
<1>2. WorkerRight'
  BY RuntimeFacts DEF WorkerRight, Over, Worker, WorkerAt, Manager, ManagerAt
<1>3. CandidateRight'
  BY RuntimeFacts DEF CandidateRight, WorkerRight, Worker, Manager, Record
<1>4. JudgementRight'
  BY RuntimeFacts DEF JudgementRight, Successful, WorkerRight, Over, Worker, Manager
<1>5. RecordRight'
  BY RuntimeFacts DEF RecordRight, Manager, Record
<1>6. JournalRight'
  BY RuntimeFacts DEF JournalRight, Manager
<1> QED
  BY <1>1, <1>2, <1>3, <1>4, <1>5, <1>6 DEF RuntimeRight

LEMMA StopWorkerRight ==
    ASSUME RuntimeRight, StopWorker, UNCHANGED canceller
    PROVE  RuntimeRight'
<1> USE DEF StopWorker, Goto, Reading, Alive, StopGroup, Exit
<1>1. RuntimeTyped'
  <2>1. manager' \in Manager
    BY RuntimeFacts DEF Manager, ManagerAt, Reader
  <2>2. worker' \in Worker
    BY RuntimeFacts DEF Worker, WorkerAt
  <2>3. record' \in Record
    BY RuntimeFacts DEF Record
  <2> QED
    BY <2>1, <2>2, <2>3 DEF RuntimeRight, RuntimeTyped
<1>2. WorkerRight'
  BY RuntimeFacts, ZenonT(40) DEF WorkerRight, Over, Worker, WorkerAt, Manager, ManagerAt
<1>3. CandidateRight'
  BY RuntimeFacts, ZenonT(40) DEF CandidateRight, WorkerRight, Worker, Manager, Record
<1>4. JudgementRight'
  BY RuntimeFacts DEF JudgementRight, Successful, WorkerRight, Over, Worker, Manager
<1>5. RecordRight'
  BY RuntimeFacts DEF RecordRight, Manager, Record
<1>6. JournalRight'
  BY RuntimeFacts DEF JournalRight, Manager
<1> QED
  BY <1>1, <1>2, <1>3, <1>4, <1>5, <1>6 DEF RuntimeRight

LEMMA GatherRight ==
    ASSUME RuntimeRight, Gather, UNCHANGED canceller
    PROVE  RuntimeRight'
<1> USE DEF Gather, Goto, Reading, Alive
<1>1. RuntimeTyped'
  <2>1. manager' \in Manager
    BY RuntimeFacts DEF Manager, ManagerAt, Reader
  <2>2. worker' \in Worker
    BY RuntimeFacts DEF Worker, WorkerAt
  <2>3. record' \in Record
    BY RuntimeFacts DEF Record
  <2> QED
    BY <2>1, <2>2, <2>3 DEF RuntimeRight, RuntimeTyped
<1>2. WorkerRight'
  BY RuntimeFacts DEF WorkerRight, Over, Worker, WorkerAt, Manager, ManagerAt
<1>3. CandidateRight'
  BY RuntimeFacts DEF CandidateRight, WorkerRight, Worker, Manager, Record
<1>4. JudgementRight'
  BY RuntimeFacts DEF JudgementRight, Successful, WorkerRight, Over, Worker, Manager
<1>5. RecordRight'
  BY RuntimeFacts DEF RecordRight, Manager, Record
<1>6. JournalRight'
  BY RuntimeFacts DEF JournalRight, Manager
<1> QED
  BY <1>1, <1>2, <1>3, <1>4, <1>5, <1>6 DEF RuntimeRight

LEMMA MarkAwaitingFinalizeRight ==
    ASSUME RuntimeRight, MarkAwaitingFinalize, UNCHANGED canceller
    PROVE  RuntimeRight'
<1> USE DEF MarkAwaitingFinalize, Goto, Reading, Alive
<1>1. RuntimeTyped'
  <2>1. manager' \in Manager
    BY RuntimeFacts DEF Manager, ManagerAt, Reader
  <2>2. worker' \in Worker
    BY RuntimeFacts DEF Worker, WorkerAt
  <2>3. record' \in Record
    BY RuntimeFacts DEF Record
  <2> QED
    BY <2>1, <2>2, <2>3 DEF RuntimeRight, RuntimeTyped
<1>2. WorkerRight'
  BY RuntimeFacts DEF WorkerRight, Over, Worker, WorkerAt, Manager, ManagerAt
<1>3. CandidateRight'
  BY RuntimeFacts DEF CandidateRight, WorkerRight, Worker, Manager, Record
<1>4. JudgementRight'
  BY RuntimeFacts DEF JudgementRight, Successful, WorkerRight, Over, Worker, Manager
<1>5. RecordRight'
  BY RuntimeFacts DEF RecordRight, Manager, Record
<1>6. JournalRight'
  BY RuntimeFacts DEF JournalRight, Manager
<1> QED
  BY <1>1, <1>2, <1>3, <1>4, <1>5, <1>6 DEF RuntimeRight

-----------------------------------------------------------------------------
(* The manager's steps that write to the journal. *)

LEMMA Grown ==
    ASSUME NEW S, NEW s \in Seq(S), NEW e \in S, NEW t, t = Append(s, e)
    PROVE  /\ t \in Seq(S) /\ Len(s) \in Nat /\ Len(t) = Len(s) + 1
           /\ \A i \in 1..Len(s) : t[i] = s[i]
           /\ t[Len(s) + 1] = e
  BY AppendProperties, LenProperties

LEMMA PublishedTyped ==
    ASSUME manager \in Manager, NEW x \in RawEvent
    PROVE  \E e \in LogEvent : /\ Published(x) = Append(journal, e)
                               /\ e.seq = manager.seq + 1 /\ e.type = x.type
<1> DEFINE n == manager.seq + 1
           e == [seq |-> n, type |-> x.type, payload |-> Redact(x.payload),
                 list |-> RedactAll(x.list)]
<1>1. n \in Nat
  BY DEF Manager
<1>2. /\ x.type \in KnownTypes \cup {"none"} /\ Redact(x.payload) \in {Redact(p) : p \in RawPayload}
      /\ RedactAll(x.list) \in {RedactAll(l) : l \in RawList}
  BY DEF RawEvent
<1>3. Published(x) = Append(journal, e)
  BY DEF Published, Event
<1> HIDE DEF n
<1>4. e \in LogEvent /\ e.seq = n /\ e.type = x.type
  BY <1>1, <1>2 DEF LogEvent
<1> QED
  BY <1>3, <1>4 DEF n

(* A line with the next number keeps the journal in order. *)
LEMMA LoggedRight ==
    ASSUME RuntimeRight, NEW e \in LogEvent, e.seq = manager.seq + 1, journal' = Append(journal, e),
           manager'.seq = manager.seq + 1,
           e.type = "agent.completed" => Successful, Successful => Successful'
    PROVE  /\ journal' \in Seq(LogEvent) /\ JournalRight'
           /\ \A i \in 1..Len(journal') : journal'[i].type = "agent.completed" => Successful'
<1> DEFINE n == Len(journal)
<1>1. /\ journal \in Seq(LogEvent) /\ n \in Nat /\ manager.seq \in Nat
      /\ \A i \in 1..n : journal[i].seq <= manager.seq
      /\ \A i, j \in 1..n : i < j => journal[i].seq < journal[j].seq
      /\ \A i \in 1..n : journal[i].type = "agent.completed" => Successful
  BY RuntimeFacts DEF JournalRight, JudgementRight, Manager
<1>2. /\ journal' \in Seq(LogEvent) /\ Len(journal') = n + 1
      /\ \A i \in 1..n : journal'[i] = journal[i]
      /\ journal'[n + 1] = e
  BY <1>1, Grown
<1>3. \A i \in 1..n : journal[i].seq \in Nat
  <2>1. \A i \in 1..n : journal[i] \in LogEvent
    BY <1>1, LenProperties
  <2> QED
    BY <2>1 DEF LogEvent
<1> HIDE DEF n
<1>4. \A i \in 1..(n + 1) : i \in 1..n \/ i = n + 1
  BY <1>1
<1>5. JournalRight'
  <2>1. \A i \in 1..(n + 1) : journal'[i].seq <= manager.seq + 1
    BY <1>1, <1>2, <1>3, <1>4
  <2>2. ASSUME NEW i \in 1..(n + 1), NEW j \in 1..(n + 1), i < j
        PROVE  journal'[i].seq < journal'[j].seq
    <3>1. i \in 1..n
      BY <1>1, <2>2
    <3>2. CASE j \in 1..n
      BY <1>1, <1>2, <3>1, <3>2, <2>2
    <3>3. CASE j = n + 1
      BY <1>1, <1>2, <1>3, <3>1, <3>3
    <3> QED
      BY <1>4, <3>2, <3>3
  <2> QED
    BY <1>2, <2>1, <2>2 DEF JournalRight
<1>6. \A i \in 1..(n + 1) : journal'[i].type = "agent.completed" => Successful'
  BY <1>1, <1>2, <1>4
<1> QED
  BY <1>2, <1>5, <1>6

(* A line read from the worker is refused, withheld or published. *)
LEMMA ReadLineRight ==
    ASSUME RuntimeRight, ReadLine, UNCHANGED canceller
    PROVE  RuntimeRight'
<1>0. /\ manager \in Manager /\ WorkerRight /\ CandidateRight /\ JudgementRight /\ RecordRight
      /\ JournalRight /\ journal \in Seq(LogEvent)
      /\ pipe \in Seq(RawEvent) /\ Len(pipe) \in Nat /\ Len(pipe) <= PipeSize /\ PipeSize \in Nat
  BY RuntimeFacts, ExecutionBounds
<1>1. /\ Reading /\ manager.stdout = "open" /\ pipe # << >> /\ pipe' = Tail(pipe)
      /\ UNCHANGED <<worker, outputs, control, record>>
  BY DEF ReadLine
<1>2. PICK x \in RawEvent : x = Head(pipe)
  BY <1>0, <1>1, HeadTailProperties
<1>3. pipe' \in Seq(RawEvent) /\ Len(pipe') <= PipeSize
  <2>1. pipe' \in Seq(RawEvent) /\ Len(pipe') = Len(pipe) - 1
    BY <1>0, <1>1, HeadTailProperties
  <2> QED
    BY <1>0, <2>1
<1>4. ~manager.success /\ ~Successful
  BY <1>0, <1>1 DEF Reading, JudgementRight, Successful
<1> DEFINE c == IF x.type = "artifact.candidate" THEN x ELSE manager.candidate
           n == manager.seq + 1
           seen == [manager EXCEPT !.last = x.seq, !.candidate = c]
           Refused == manager' = [manager EXCEPT !.stdout = "failed"] /\ UNCHANGED journal
           Withholds == /\ IsTerminal(x.type)
                        /\ x.type = "agent.completed" => record.candidate = "durable"
                        /\ manager' = [seen EXCEPT !.terminal = x]
                        /\ UNCHANGED journal
           Publishes == /\ ~IsTerminal(x.type)
                        /\ \/ manager' = [seen EXCEPT !.seq = n]
                           \/ manager' = [seen EXCEPT !.seq = n, !.stdout = "failed"]
                        /\ journal' \in {journal, Published(x)}
<1>5. Refused \/ Withholds \/ Publishes
  <2>1. CASE Refused
    BY <2>1
  <2>2. CASE Acceptable(x) /\ IsTerminal(x.type) /\ ~Refused
    <3>1. x.type = "agent.completed" => record.candidate = "durable"
      BY <2>2 DEF Acceptable
    <3>2. manager' = [seen EXCEPT !.terminal = x] /\ UNCHANGED journal
      BY <1>0, <1>2, <2>2 DEF ReadLine, Manager
    <3> QED
      BY <2>2, <3>1, <3>2
  <2>3. CASE Acceptable(x) /\ ~IsTerminal(x.type) /\ ~Refused
    <3>1. /\ \/ manager' = [seen EXCEPT !.seq = n]
             \/ manager' = [seen EXCEPT !.seq = n, !.stdout = "failed"]
          /\ journal' \in {journal, Published(x)}
      BY <1>0, <1>2, <2>3 DEF ReadLine, Manager
    <3> QED
      BY <2>3, <3>1
  <2>4. Refused \/ Acceptable(x)
    BY <1>2 DEF ReadLine
  <2> QED
    BY <2>1, <2>2, <2>3, <2>4
<1>6. /\ manager' \in Manager /\ manager'.at = manager.at /\ manager'.success = manager.success
      /\ manager'.judged = manager.judged /\ manager'.stdout \in {"open", "failed"}
      /\ manager'.seq \in {manager.seq, n} /\ ~Successful'
  <2>1. c \in RawEvent /\ x.seq \in Nat /\ n \in Nat
    BY <1>0 DEF Manager, RawEvent
  <2> HIDE DEF c, n
  <2>2. CASE Refused
    BY <1>0, <1>4, <2>2 DEF Manager, Reader, Successful
  <2>3. CASE Withholds
    BY <1>0, <1>1, <1>4, <2>1, <2>3 DEF Manager, Reader, Successful
  <2>4. CASE Publishes
    BY <1>0, <1>1, <1>4, <2>1, <2>4, ZenonT(40) DEF Manager, Reader, Successful
  <2> QED
    BY <1>5, <2>2, <2>3, <2>4
<1>7. \/ UNCHANGED journal
      \/ \E e \in LogEvent : /\ e.seq = manager.seq + 1 /\ journal' = Append(journal, e)
                             /\ manager'.seq = manager.seq + 1 /\ e.type # "agent.completed"
  <2>1. CASE Publishes /\ journal' = Published(x)
    <3>1. PICK e \in LogEvent : /\ Published(x) = Append(journal, e)
                                /\ e.seq = manager.seq + 1 /\ e.type = x.type
      BY <1>0, PublishedTyped
    <3>2. manager'.seq = manager.seq + 1 /\ x.type # "agent.completed"
      BY <1>0, <2>1 DEF Manager, IsTerminal
    <3> QED
      BY <2>1, <3>1, <3>2
  <2> QED
    BY <1>5, <2>1
<1>8. /\ journal' \in Seq(LogEvent) /\ JournalRight'
      /\ \A i \in 1..Len(journal') : journal'[i].type = "agent.completed" => Successful'
  <2>1. CASE UNCHANGED journal
    <3>1. \A i \in 1..Len(journal) : journal[i].seq \in Nat
      <4>1. \A i \in 1..Len(journal) : journal[i] \in LogEvent
        BY <1>0, LenProperties
      <4> QED
        BY <4>1 DEF LogEvent
    <3>2. manager.seq \in Nat /\ manager'.seq \in Nat
      BY <1>0, <1>6 DEF Manager
    <3>3. JournalRight'
      BY <1>0, <1>6, <2>1, <3>1, <3>2 DEF JournalRight
    <3> QED
      BY <1>0, <1>4, <2>1, <3>3 DEF JudgementRight
  <2> QED
    BY <1>4, <1>7, <2>1, LoggedRight
<1>9. CandidateRight'
  <2>1. /\ manager'.terminal = manager.terminal
        \/ /\ IsTerminal(manager'.terminal.type)
           /\ manager'.terminal.type = "agent.completed" => record.candidate = "durable"
    BY <1>0, <1>5 DEF Manager
  <2> QED
    BY <1>0, <1>1, <2>1 DEF CandidateRight, IsTerminal
<1>10. RuntimeTyped'
  BY <1>1, <1>3, <1>6, <1>8 DEF RuntimeTyped, RuntimeRight
<1>11. WorkerRight'
  BY <1>0, <1>1, <1>6 DEF WorkerRight, Over, Alive
<1>12. JudgementRight'
  BY <1>0, <1>4, <1>6, <1>8 DEF JudgementRight
<1>13. RecordRight'
  BY <1>0, <1>1, <1>6 DEF RecordRight
<1> QED
  BY <1>8, <1>9, <1>10, <1>11, <1>12, <1>13 DEF RuntimeRight

(* The outcome says the worker completed only if the run was a success.    *)
LEMMA OutcomeTyped ==
    ASSUME RuntimeRight
    PROVE  Outcome \in RawEvent /\ (Outcome.type = "agent.completed" => Successful)
<1>1. manager \in Manager
  BY RuntimeFacts
<1>2. CASE Outcome = manager.terminal /\ (manager.success \/ manager.terminal.type = "agent.failed")
  BY <1>1, <1>2 DEF Manager, Successful
<1>3. ASSUME NEW code \in {"execution_cancelled", "worker_failed"},
             Outcome = Event(0, "agent.failed", FailedPayload(code), << >>)
      PROVE  Outcome \in RawEvent /\ Outcome.type # "agent.completed"
  <2>1. FailedPayload(code) \in RawPayload /\ << >> \in RawList /\ "agent.failed" \in KnownTypes
    BY <1>3, KnownAre DEF RawPayload, RawList
  <2> QED
    BY <1>3, <2>1, RawTyped DEF Event
<1> QED
  BY <1>2, <1>3 DEF Outcome

LEMMA PublishRight ==
    ASSUME RuntimeRight, Publish, UNCHANGED canceller
    PROVE  RuntimeRight'
<1>0. /\ manager \in Manager /\ WorkerRight /\ CandidateRight /\ JudgementRight /\ RecordRight
      /\ JournalRight /\ journal \in Seq(LogEvent)
  BY RuntimeFacts
<1>1. /\ manager.at = "publish" /\ UNCHANGED <<worker, outputs, pipe, control, record>>
  BY DEF Publish
<1>2. /\ manager' \in Manager /\ manager'.at = "mark" /\ manager'.success = manager.success
      /\ manager'.stdout = manager.stdout /\ manager'.terminal = manager.terminal
      /\ manager'.seq \in {manager.seq, manager.seq + 1}
      /\ journal' # journal => manager'.seq = manager.seq + 1
      /\ journal' \in {journal, Published(Outcome)}
  <2> DEFINE n == manager.seq + 1
  <2>1. n \in Nat
    BY <1>0 DEF Manager
  <2>2. \/ manager' = [manager EXCEPT !.at = "mark", !.seq = n]
        \/ manager' = [manager EXCEPT !.at = "mark", !.seq = n, !.raised = TRUE]
        \/ manager' = [manager EXCEPT !.at = "mark", !.raised = TRUE] /\ UNCHANGED journal
    BY DEF Publish
  <2>3. journal' \in {journal, Published(Outcome)}
    BY DEF Publish
  <2> HIDE DEF n
  <2>4. /\ manager' \in Manager /\ manager'.at = "mark" /\ manager'.success = manager.success
        /\ manager'.stdout = manager.stdout /\ manager'.terminal = manager.terminal
        /\ manager'.seq \in {manager.seq, n}
        /\ journal' # journal => manager'.seq = n
    BY <1>0, <2>1, <2>2, ZenonT(40) DEF Manager, ManagerAt
  <2> QED
    BY <2>3, <2>4 DEF n
<1>3. Successful' <=> Successful
  BY <1>2 DEF Successful
<1>4. /\ journal' \in Seq(LogEvent) /\ JournalRight'
      /\ \A i \in 1..Len(journal') : journal'[i].type = "agent.completed" => Successful'
  <2>1. CASE UNCHANGED journal
    <3>1. \A i \in 1..Len(journal) : journal[i].seq \in Nat
      <4>1. \A i \in 1..Len(journal) : journal[i] \in LogEvent
        BY <1>0, LenProperties
      <4> QED
        BY <4>1 DEF LogEvent
    <3>2. manager.seq \in Nat
      BY <1>0 DEF Manager
    <3>3. JournalRight'
      BY <1>0, <1>2, <2>1, <3>1, <3>2 DEF JournalRight
    <3> QED
      BY <1>0, <1>3, <2>1, <3>3 DEF JudgementRight
  <2>2. CASE journal' # journal
    <3>1. PICK x \in RawEvent : x = Outcome /\ (x.type = "agent.completed" => Successful)
      BY OutcomeTyped
    <3>2. PICK e \in LogEvent : /\ Published(x) = Append(journal, e)
                                /\ e.seq = manager.seq + 1 /\ e.type = x.type
      BY <1>0, PublishedTyped
    <3> QED
      BY <1>2, <1>3, <2>2, <3>1, <3>2, LoggedRight
  <2> QED
    BY <2>1, <2>2
<1>5. RuntimeTyped'
  BY <1>1, <1>2, <1>4 DEF RuntimeTyped, RuntimeRight
<1>6. WorkerRight'
  BY <1>0, <1>1, <1>2 DEF WorkerRight, Over, Alive
<1>7. CandidateRight'
  BY <1>0, <1>1, <1>2 DEF CandidateRight
<1>8. JudgementRight'
  <2>1. manager'.success => manager'.judged /\ worker.status = "0" /\ manager.terminal # NoEvent
    BY <1>0 DEF Publish, JudgementRight, Manager
  <2> QED
    BY <1>1, <1>2, <1>4, <2>1 DEF JudgementRight
<1>9. RecordRight'
  BY <1>0, <1>1, <1>2 DEF RecordRight
<1> QED
  BY <1>4, <1>5, <1>6, <1>7, <1>8, <1>9 DEF RuntimeRight

LEMMA NewerEventRight ==
    ASSUME RuntimeRight, NewerEvent, UNCHANGED canceller
    PROVE  RuntimeRight'
<1>0. /\ manager \in Manager /\ WorkerRight /\ CandidateRight /\ JudgementRight /\ RecordRight
      /\ JournalRight /\ journal \in Seq(LogEvent)
  BY RuntimeFacts
<1> DEFINE n == manager.seq + 1
           e == Event(n, "newer", << >>, << >>)
<1>1. /\ manager.at \in {"reading", "mark"} /\ journal' = Append(journal, e)
      /\ manager' = [manager EXCEPT !.seq = n]
      /\ UNCHANGED <<worker, outputs, pipe, control, record>>
  BY DEF NewerEvent
<1>2. n \in Nat
  BY <1>0 DEF Manager
<1> HIDE DEF n
<1>3. manager' \in Manager /\ manager'.seq = n
      /\ manager'.at = manager.at /\ manager'.success = manager.success
      /\ manager'.judged = manager.judged
      /\ manager'.stdout = manager.stdout /\ manager'.terminal = manager.terminal
  BY <1>0, <1>1, <1>2 DEF Manager
<1>4. e \in LogEvent /\ e.seq = n /\ e.type = "newer"
  BY <1>2 DEF Event, LogEvent
<1>5. Successful => Successful'
  BY <1>3 DEF Successful
<1>6. /\ journal' \in Seq(LogEvent) /\ JournalRight'
      /\ \A i \in 1..Len(journal') : journal'[i].type = "agent.completed" => Successful'
  <2>1. PICK x \in LogEvent : x = e
    BY <1>4
  <2>2. x.seq = manager.seq + 1 /\ manager'.seq = manager.seq + 1
    BY <1>3, <1>4, <2>1 DEF n
  <2> HIDE DEF e
  <2> QED
    BY <1>1, <1>4, <1>5, <2>1, <2>2, LoggedRight
<1>7. RuntimeTyped'
  BY <1>1, <1>3, <1>6 DEF RuntimeTyped, RuntimeRight
<1>8. WorkerRight'
  BY <1>0, <1>1, <1>3 DEF WorkerRight, Over, Alive
<1>9. CandidateRight'
  BY <1>0, <1>1, <1>3 DEF CandidateRight
<1>10. JudgementRight'
  BY <1>0, <1>1, <1>3, <1>6 DEF JudgementRight
<1>11. RecordRight'
  BY <1>0, <1>1, <1>3 DEF RecordRight
<1> QED
  BY <1>6, <1>7, <1>8, <1>9, <1>10, <1>11 DEF RuntimeRight

-----------------------------------------------------------------------------
(* The user's cancellation, and the steps the Runtime does not see. *)

(* The process group is gone, whoever stops it: the Runtime's state is     *)
(* right before and after, but for the success of a run not yet judged.    *)
LEMMA StoppedRight ==
    ASSUME RuntimeRight, StopGroup, manager.at \notin {"spawn", "register"}
    PROVE  /\ ~Alive' /\ worker' \in Worker /\ (worker'.status # "none" <=> worker'.at = "exited")
           /\ manager.success => worker'.status = "0"
           /\ worker'.at \in {"none", "exited"} /\ (worker'.at = "none" => worker.at = "none")
           /\ manager.at \in {"open", "locked", "spawn"} => worker'.at = "none"
<1>1. worker \in Worker /\ WorkerRight /\ JudgementRight
  BY RuntimeFacts
<1>2. CASE Alive
  <2>1. ~manager.success
    BY <1>1, <1>2 DEF WorkerRight, JudgementRight, Over
  <2>2. manager.at \notin {"open", "locked", "spawn"}
    BY <1>1, <1>2 DEF WorkerRight, Alive
  <2> QED
    BY <1>1, <1>2, <2>1, <2>2 DEF StopGroup, Exit, Alive, Worker, WorkerAt
<1>3. CASE ~Alive
  BY <1>1, <1>3 DEF StopGroup, Alive, WorkerRight, JudgementRight
<1> QED
  BY <1>2, <1>3

LEMMA CancellerMoves ==
    ASSUME RuntimeRight, CancelNext
    PROVE  RuntimeRight'
<1>0. /\ worker \in Worker /\ manager \in Manager /\ record \in Record
      /\ WorkerRight /\ CandidateRight /\ JudgementRight /\ RecordRight /\ JournalRight
      /\ RuntimeTyped
  BY RuntimeFacts DEF RuntimeRight
<1>1. UNCHANGED <<outputs, pipe, control, record, journal>>
  BY DEF CancelNext
<1>2. ~Active => record.lifecycle = "awaiting"
  BY <1>0 DEF Active, Record
<1>3. CASE CancelRequested
  <2>1. /\ UNCHANGED worker
        /\ \/ canceller' = "error" /\ UNCHANGED manager
           \/ canceller' = "returned" /\ record.lifecycle = "awaiting" /\ UNCHANGED manager
           \/ canceller' = "flagged" /\ manager' = [manager EXCEPT !.cancelled = TRUE]
    BY <1>2, <1>3 DEF CancelRequested
  <2>2. /\ manager' \in Manager /\ manager'.at = manager.at /\ manager'.stdout = manager.stdout
        /\ manager'.terminal = manager.terminal /\ manager'.judged = manager.judged
        /\ manager'.success = manager.success /\ manager'.seq = manager.seq
    BY <1>0, <2>1 DEF Manager
  <2>3. RuntimeTyped'
    BY <1>0, <1>1, <2>1, <2>2 DEF RuntimeTyped
  <2>4. WorkerRight' /\ CandidateRight'
    BY <1>0, <1>1, <2>1, <2>2 DEF WorkerRight, CandidateRight, Over, Alive
  <2>5. JudgementRight'
    BY <1>0, <1>1, <2>1, <2>2 DEF JudgementRight, Successful
  <2>6. RecordRight' /\ JournalRight'
    BY <1>0, <1>1, <2>1, <2>2 DEF RecordRight, JournalRight
  <2> QED
    BY <2>3, <2>4, <2>5, <2>6 DEF RuntimeRight
<1>4. CASE CancelLocked
  <2>1. /\ manager.at \notin {"spawn", "register"} /\ UNCHANGED manager
        /\ \/ canceller' = "error" /\ UNCHANGED worker
           \/ canceller' = "returned" /\ record.lifecycle = "awaiting" /\ UNCHANGED worker
           \/ canceller' = "waiting" /\ StopGroup
    BY <1>2, <1>4 DEF CancelLocked
  <2>2. CASE UNCHANGED worker
    <3>1. RuntimeTyped'
      BY <1>0, <1>1, <2>1, <2>2 DEF RuntimeTyped
    <3>2. WorkerRight' /\ CandidateRight'
      BY <1>0, <1>1, <2>1, <2>2 DEF WorkerRight, CandidateRight, Over, Alive
    <3>3. JudgementRight'
      BY <1>0, <1>1, <2>1, <2>2 DEF JudgementRight, Successful
    <3>4. RecordRight' /\ JournalRight'
      BY <1>0, <1>1, <2>1, <2>2 DEF RecordRight, JournalRight
    <3> QED
      BY <3>1, <3>2, <3>3, <3>4 DEF RuntimeRight
  <2>3. CASE canceller' = "waiting" /\ StopGroup
    <3>1. /\ ~Alive' /\ worker' \in Worker /\ (worker'.status # "none" <=> worker'.at = "exited")
          /\ manager.success => worker'.status = "0"
          /\ worker'.at \in {"none", "exited"} /\ (worker'.at = "none" => worker.at = "none")
          /\ manager.at \in {"open", "locked", "spawn"} => worker'.at = "none"
      BY <2>1, <2>3, StoppedRight
    <3>2. RuntimeTyped'
      BY <1>0, <1>1, <2>1, <2>3, <3>1 DEF RuntimeTyped
    <3>3. WorkerRight'
      BY <1>0, <2>1, <3>1 DEF WorkerRight, Over
    <3>4. CandidateRight'
      BY <1>0, <1>1, <2>1, <3>1 DEF CandidateRight
    <3>5. JudgementRight'
      BY <1>0, <1>1, <2>1, <3>1 DEF JudgementRight, Successful
    <3>6. RecordRight' /\ JournalRight'
      BY <1>0, <1>1, <2>1, <2>3 DEF RecordRight, JournalRight
    <3> QED
      BY <3>2, <3>3, <3>4, <3>5, <3>6 DEF RuntimeRight
  <2> QED
    BY <2>1, <2>2, <2>3
<1>5. CASE CancelAwaits
  <2>1. /\ UNCHANGED <<manager, worker>> /\ canceller' \in {"returned", "error"}
        /\ canceller' = "returned" => manager.at = "done"
    BY <1>5 DEF CancelAwaits
  <2>2. RuntimeTyped'
    BY <1>0, <1>1, <2>1 DEF RuntimeTyped
  <2>3. WorkerRight' /\ CandidateRight'
    BY <1>0, <1>1, <2>1 DEF WorkerRight, CandidateRight, Over, Alive
  <2>4. JudgementRight'
    BY <1>0, <1>1, <2>1 DEF JudgementRight, Successful
  <2>5. RecordRight' /\ JournalRight'
    BY <1>0, <1>1, <2>1 DEF RecordRight, JournalRight
  <2> QED
    BY <2>2, <2>3, <2>4, <2>5 DEF RuntimeRight
<1> QED
  BY <1>3, <1>4, <1>5 DEF CancelNext

(* The Runtime's state is right while nothing in it changes, even if the   *)
(* user decides to cancel.                                                 *)
LEMMA RuntimeUntouched ==
    ASSUME RuntimeRight, UNCHANGED runtimeVars, canceller' \in {canceller, "recorded"}
    PROVE  RuntimeRight'
<1>1. /\ RuntimeTyped /\ WorkerRight /\ CandidateRight /\ JudgementRight /\ RecordRight
      /\ JournalRight
  BY DEF RuntimeRight
<1>2. UNCHANGED <<worker, outputs, pipe, control, manager, record, journal>>
  BY DEF runtimeVars
<1>3. RuntimeTyped'
  BY <1>1, <1>2 DEF RuntimeTyped
<1>4. WorkerRight' /\ CandidateRight'
  BY <1>1, <1>2 DEF WorkerRight, CandidateRight, Over, Alive
<1>5. JudgementRight'
  BY <1>1, <1>2 DEF JudgementRight, Successful
<1>6. RecordRight' /\ JournalRight'
  BY <1>1, <1>2 DEF RecordRight, JournalRight
<1> QED
  BY <1>3, <1>4, <1>5, <1>6 DEF RuntimeRight

LEMMA ManagerMoves ==
    ASSUME RuntimeRight, ManagerNext
    PROVE  RuntimeRight'
<1>1. UNCHANGED canceller
  BY DEF ManagerNext
<1> QED
  BY <1>1, OpenJournalRight, CheckCancelledRight, SpawnRight, RegisterRight, ReadLineRight,
     StdoutEndsRight, ReadControlRight, ControlEndsRight, ReaderFailsRight, JudgeRight,
     StopWorkerRight, GatherRight, PublishRight, MarkAwaitingFinalizeRight DEF ManagerNext

LEMMA RuntimeInit == Init => RuntimeRight
<1> SUFFICES ASSUME Init PROVE RuntimeRight
  OBVIOUS
<1>1. NoEvent \in RawEvent /\ NoEvent.type = "none" /\ << >> \in RawList
  BY NoEventTyped DEF RawList
<1>2. outputs.list \in RawList
  BY <1>1 DEF Init, NoManifest, Outputs
<1>3. pipe = << >> /\ journal = << >> /\ PipeSize \in Nat
  BY ExecutionBounds DEF Init
<1>4. pipe \in Seq(RawEvent) /\ Len(pipe) <= PipeSize /\ journal \in Seq(LogEvent)
      /\ Len(journal) = 0
  BY <1>3, EmptySeq
<1>5. manager \in Manager
  BY <1>1 DEF Init, Manager, ManagerAt, Reader
<1>6. worker \in Worker /\ record \in Record
  BY DEF Init, Worker, WorkerAt, Record
<1>7. RuntimeTyped
  BY <1>2, <1>4, <1>5, <1>6 DEF Init, RuntimeTyped
<1>8. WorkerRight /\ RecordRight
  BY DEF Init, WorkerRight, RecordRight, Over, Alive
<1>9. CandidateRight
  BY <1>1 DEF Init, CandidateRight
<1>10. JudgementRight
  BY <1>4 DEF Init, JudgementRight
<1>11. JournalRight
  BY <1>4 DEF JournalRight
<1> QED
  BY <1>7, <1>8, <1>9, <1>10, <1>11 DEF RuntimeRight

LEMMA RuntimeStep == RuntimeRight /\ [Next]_vars => RuntimeRight'
<1> SUFFICES ASSUME RuntimeRight, [Next]_vars PROVE RuntimeRight'
  OBVIOUS
<1>1. CASE WorkerNext
  BY <1>1, WorkerMoves, WorkerMoveRight
<1>2. CASE ManagerNext
  BY <1>2, ManagerMoves
<1>3. CASE CancelNext
  BY <1>3, CancellerMoves
<1>4. CASE ClientNext \/ PumpNext
  BY <1>4, RuntimeUntouched DEF ClientNext, PumpNext
<1>5. CASE Cancel
  BY <1>5, RuntimeUntouched DEF Cancel, CancelRecorded, runtimeVars
<1>6. CASE Newer
  BY <1>6, NewerEventRight DEF Newer
<1>7. CASE UNCHANGED vars
  BY <1>7, RuntimeUntouched DEF vars, runtimeVars
<1> QED
  BY <1>1, <1>2, <1>3, <1>4, <1>5, <1>6, <1>7 DEF Next

-----------------------------------------------------------------------------
(* What the client and the coordinator have heard. *)

LEMMA HeardKept ==
    ASSUME journal \in Seq(LogEvent), NEW n \in 0..Len(journal),
           \A i \in 1..Len(journal) : journal'[i] = journal[i]
    PROVE  Heard(n)' = Heard(n)
<1> DEFINE keep == {i \in 1..n : journal[i].type \in KnownTypes}
<1>1. Len(journal) \in Nat
  BY LenProperties
<1>2. \A i \in 1..n : i \in 1..Len(journal)
  BY <1>1
<1>3. keep = {i \in 1..n : journal'[i].type \in KnownTypes} /\ keep \in SUBSET (1..Len(journal))
  BY <1>2
<1> HIDE DEF keep
<1>4. Selected(journal', keep) = Selected(journal, keep)
  BY <1>3, SelectedKept
<1> QED
  BY <1>3, <1>4 DEF Heard, keep

LEMMA HeardMore ==
    ASSUME journal \in Seq(LogEvent), NEW n \in Nat, n < Len(journal)
    PROVE  Heard(n + 1) = IF journal[n + 1].type \in KnownTypes
                          THEN Append(Heard(n), journal[n + 1]) ELSE Heard(n)
<1> DEFINE m == n + 1
           keep == {i \in 1..n : journal[i].type \in KnownTypes}
           more == {i \in 1..m : journal[i].type \in KnownTypes}
<1>1. Len(journal) \in Nat
  BY LenProperties
<1>2. /\ m \in 1..Len(journal) /\ keep \in SUBSET (1..Len(journal))
      /\ \A i \in keep : i < m
      /\ \A i : i \in 1..m <=> i \in 1..n \/ i = m
  BY <1>1
<1> HIDE DEF m
<1>3. more = IF journal[m].type \in KnownTypes THEN keep \cup {m} ELSE keep
  BY <1>2
<1> HIDE DEF keep, more
<1>4. Selected(journal, keep \cup {m}) = Append(Selected(journal, keep), journal[m])
  BY <1>2, SelectedMore
<1>5. Selected(journal, more) = IF journal[m].type \in KnownTypes
                                THEN Append(Selected(journal, keep), journal[m])
                                ELSE Selected(journal, keep)
  BY <1>3, <1>4
<1>6. Heard(n) = Selected(journal, keep) /\ Heard(m) = Selected(journal, more)
  BY DEF Heard, keep, more
<1> QED
  BY <1>5, <1>6 DEF m

LEMMA PlaneFacts ==
    ASSUME RuntimeRight, PlaneRight
    PROVE  /\ row \in {"running", "cancelled", "failed"} /\ client \in Client /\ pump \in Pump
           /\ recorded \in Seq(LogEvent) /\ client.offset \in Nat
           /\ ClientRight /\ PumpRight /\ HistoryRight
           /\ journal \in Seq(LogEvent) /\ Len(journal) \in Nat
           /\ \A i \in 1..Len(journal) : journal[i] \in LogEvent
<1>1. client \in Client /\ journal \in Seq(LogEvent) /\ Len(journal) \in Nat
  BY RuntimeFacts DEF PlaneRight, PlaneTyped
<1>2. client.offset \in Nat
  BY <1>1 DEF Client
<1>3. \A i \in 1..Len(journal) : journal[i] \in LogEvent
  BY <1>1, LenProperties
<1> QED
  BY <1>1, <1>2, <1>3 DEF PlaneRight, PlaneTyped

(* The journal only grows, and not after the stream has ended. *)
LogMove ==
    /\ \/ UNCHANGED journal
       \/ \E e \in LogEvent : journal' = Append(journal, e)
    /\ manager.at = "done" => UNCHANGED journal /\ manager'.at = "done"

LEMMA PlaneKept ==
    ASSUME RuntimeRight, PlaneRight, LogMove, UNCHANGED <<client, pump, recorded>>,
           row' \in {row, "cancelled"}
    PROVE  PlaneRight'
<1>0. /\ row \in {"running", "cancelled", "failed"} /\ client \in Client /\ pump \in Pump
      /\ recorded \in Seq(LogEvent) /\ client.offset \in Nat
      /\ ClientRight /\ PumpRight /\ HistoryRight
      /\ journal \in Seq(LogEvent) /\ Len(journal) \in Nat
  BY PlaneFacts
<1>1. /\ Len(journal') \in Nat /\ Len(journal) <= Len(journal')
      /\ \A i \in 1..Len(journal) : journal'[i] = journal[i] /\ i \in 1..Len(journal')
  <2>1. CASE UNCHANGED journal
    BY <1>0, <2>1
  <2>2. ASSUME NEW e \in LogEvent, journal' = Append(journal, e)
        PROVE  /\ Len(journal') \in Nat /\ Len(journal) <= Len(journal')
               /\ \A i \in 1..Len(journal) : journal'[i] = journal[i] /\ i \in 1..Len(journal')
    <3>1. Len(journal') = Len(journal) + 1 /\ \A i \in 1..Len(journal) : journal'[i] = journal[i]
      BY <1>0, <2>2, Grown
    <3> QED
      BY <1>0, <3>1
  <2> QED
    BY <2>1, <2>2 DEF LogMove
<1>2. PlaneTyped'
  BY <1>0 DEF PlaneTyped
<1>3. PICK n \in 0..Len(journal) : n = client.offset
  BY <1>0 DEF ClientRight
<1>4. Heard(n)' = Heard(n)
  BY <1>0, <1>1, HeardKept
<1>5. Heard(client.offset)' = Heard(client.offset)
  BY <1>3, <1>4 DEF Heard
<1>6. ClientRight'
  <2>1. client.offset <= Len(journal')
    BY <1>0, <1>1 DEF ClientRight
  <2>2. client.at \in {"last", "closed"} => manager'.at = "done" /\ client.offset = Len(journal')
    BY <1>0 DEF ClientRight, LogMove
  <2>3. client.terminal # NoEvent => \E i \in 1..Len(journal') : journal'[i] = client.terminal
    BY <1>0, <1>1 DEF ClientRight
  <2>4. client.at = "offering" => journal'[client.offset] = journal[client.offset]
    BY <1>0, <1>1 DEF ClientRight
  <2> QED
    BY <1>0, <2>1, <2>2, <2>3, <2>4 DEF ClientRight
<1>7. PumpRight'
  <2>1. pump.terminal /\ ~pump.failed =>
            \E i \in 1..Len(journal') : journal'[i].type = "agent.completed"
    BY <1>0, <1>1 DEF PumpRight
  <2>2. ASSUME pump.verdict = "accepted" PROVE recorded = Heard(Len(journal))'
    <3>1. UNCHANGED journal /\ recorded = Heard(Len(journal))
      BY <1>0, <2>2 DEF PumpRight, ClientRight, LogMove
    <3> QED
      BY <3>1 DEF Heard
  <2> QED
    BY <1>0, <2>1, <2>2 DEF PumpRight
<1>8. HistoryRight'
  BY <1>0, <1>5 DEF HistoryRight, Withheld
<1> QED
  BY <1>2, <1>6, <1>7, <1>8 DEF PlaneRight

(* Once a manager is done it does nothing. *)
LEMMA LogMoves ==
    ASSUME RuntimeRight,
           WorkerNext \/ ManagerNext \/ CancelNext \/ Cancel \/ Newer
    PROVE  LogMove /\ UNCHANGED <<client, pump, recorded>> /\ row' \in {row, "cancelled"}
<1>0. manager \in Manager /\ pipe \in Seq(RawEvent)
  BY RuntimeFacts
<1>1. CASE WorkerNext
  BY <1>1 DEF WorkerNext, WorkerUnchanged, planeVars, LogMove
<1>2. CASE ManagerNext
  <2>1. UNCHANGED planeVars /\ manager.at # "done"
    BY <1>2 DEF ManagerNext, OpenJournal, CheckCancelled, Spawn, Register, ReadLine, StdoutEnds,
       ReadControl, ControlEnds, ReaderFails, Judge, StopWorker, Gather, Publish,
       MarkAwaitingFinalize, Reading
  <2>2. UNCHANGED journal \/ \E x \in RawEvent : journal' = Published(x)
    <3>1. CASE ReadLine
      BY <1>0, <3>1, HeadTailProperties DEF ReadLine
    <3>2. CASE Publish
      BY <3>2, OutcomeTyped DEF Publish
    <3> QED
      BY <1>2, <3>1, <3>2 DEF ManagerNext, OpenJournal, CheckCancelled, Spawn, Register,
         StdoutEnds, ReadControl, ControlEnds, ReaderFails, Judge, StopWorker, Gather,
         MarkAwaitingFinalize
  <2> QED
    BY <1>0, <2>1, <2>2, PublishedTyped DEF planeVars, LogMove
<1>3. CASE CancelNext
  <2>1. UNCHANGED <<journal, client, pump, recorded, row>>
    BY <1>3 DEF CancelNext, CancelRequested, CancelLocked, CancelAwaits
  <2>2. manager'.at = manager.at
    BY <1>0, <1>3 DEF CancelNext, CancelRequested, CancelLocked, CancelAwaits, Manager
  <2> QED
    BY <2>1, <2>2 DEF LogMove
<1>4. CASE Cancel
  BY <1>4 DEF Cancel, CancelRecorded, LogMove
<1>5. CASE Newer
  <2> DEFINE n == manager.seq + 1
             e == Event(n, "newer", << >>, << >>)
  <2>1. manager.at # "done" /\ journal' = Append(journal, e) /\ UNCHANGED planeVars
    BY <1>5 DEF Newer, NewerEvent
  <2>2. n \in Nat
    BY <1>0 DEF Manager
  <2> HIDE DEF n
  <2>3. e \in LogEvent
    BY <2>2 DEF Event, LogEvent
  <2> QED
    BY <2>1, <2>3 DEF planeVars, LogMove
<1> QED
  BY <1>1, <1>2, <1>3, <1>4, <1>5

-----------------------------------------------------------------------------
(* The client's steps. *)

ClientStill == UNCHANGED <<runtimeVars, canceller, row, pump, recorded>>

LEMMA ClientFailsRight ==
    ASSUME RuntimeRight, PlaneRight, ClientStill, ClientFails, client.at \notin {"closed", "failed"}
    PROVE  PlaneRight'
<1>0. /\ row \in {"running", "cancelled", "failed"} /\ client \in Client /\ pump \in Pump
      /\ recorded \in Seq(LogEvent) /\ ClientRight /\ PumpRight
  BY PlaneFacts
<1>1. UNCHANGED <<journal, manager, row, pump, recorded>>
  BY DEF ClientStill, runtimeVars
<1>2. NoEvent \in LogEvent
  BY NoEventTyped
<1>3. /\ client' \in Client /\ client'.at = "failed" /\ client'.offset = client.offset
      /\ client'.terminal = client.terminal
  BY <1>0, <1>2 DEF ClientFails, Client
<1>4. PlaneTyped'
  BY <1>0, <1>1, <1>3 DEF PlaneTyped
<1>5. ClientRight'
  BY <1>0, <1>1, <1>3 DEF ClientRight
<1>6. PumpRight'
  BY <1>0, <1>1 DEF PumpRight, Heard
<1>7. HistoryRight'
  BY <1>3 DEF HistoryRight
<1> QED
  BY <1>4, <1>5, <1>6, <1>7 DEF PlaneRight

LEMMA ScanRight ==
    ASSUME RuntimeRight, PlaneRight, ClientStill, Scan
    PROVE  PlaneRight'
<1>0. /\ row \in {"running", "cancelled", "failed"} /\ client \in Client /\ pump \in Pump
      /\ recorded \in Seq(LogEvent) /\ client.offset \in Nat
      /\ ClientRight /\ PumpRight /\ HistoryRight
      /\ journal \in Seq(LogEvent) /\ Len(journal) \in Nat
      /\ \A i \in 1..Len(journal) : journal[i] \in LogEvent
  BY PlaneFacts
<1>1. UNCHANGED <<journal, manager, row, pump, recorded>>
  BY DEF ClientStill, runtimeVars
<1>2. client.at = "reading" /\ client.offset < Len(journal)
  BY DEF Scan
<1>3. CASE ClientFails
  BY <1>2, <1>3, ClientFailsRight
<1>4. PICK n \in Nat : n = client.offset
  BY <1>0
<1> DEFINE m == n + 1
<1>5. m \in 1..Len(journal) /\ m \in Nat /\ m > 0 /\ m <= Len(journal)
  BY <1>0, <1>2, <1>4
<1>6. PICK e \in LogEvent : e = journal[m]
  BY <1>0, <1>5
<1>7. Heard(m) = IF e.type \in KnownTypes THEN Append(Heard(n), e) ELSE Heard(n)
  BY <1>0, <1>2, <1>4, <1>6, HeardMore
<1> HIDE DEF m
<1> DEFINE c == IF e.type = "artifact.candidate" THEN e ELSE client.candidate
           read == [client EXCEPT !.offset = m, !.last = e.seq, !.candidate = c]
           Skips == /\ client.terminal # NoEvent /\ e.type \notin KnownTypes
                    /\ client' = read
           Withholds == /\ client.terminal = NoEvent /\ IsTerminal(e.type)
                        /\ client' = [read EXCEPT !.terminal = e]
           Offers == /\ client.terminal = NoEvent /\ ~IsTerminal(e.type)
                     /\ client' = [read EXCEPT !.at = "offering", !.offer = e]
<1>8. ClientFails \/ Skips \/ Withholds \/ Offers
  BY <1>4, <1>6 DEF Scan, m
<1>9. c \in LogEvent /\ e.seq \in Nat
  BY <1>0 DEF Client, LogEvent
<1>10. HistoryRight /\ client.at = "reading" =>
           (row = "running" /\ ~pump.failed =>
                IF client.terminal = NoEvent THEN Heard(n) = recorded
                ELSE Heard(n) = Append(recorded, client.terminal))
  BY <1>4 DEF HistoryRight, Withheld
<1>11. ASSUME client'.offset = m PROVE Heard(client.offset)' = Heard(m)
  BY <1>1, <1>11 DEF Heard
<1>12. PumpRight'
  BY <1>0, <1>1, <1>2 DEF PumpRight, Heard
<1>13. IsTerminal(e.type) => e.type \in KnownTypes /\ e # NoEvent
  BY KnownAre, NoEventTyped DEF IsTerminal
<1> HIDE DEF c
<1>14. CASE Skips
  <2>1. /\ client' \in Client /\ client'.at = "reading" /\ client'.offset = m
        /\ client'.terminal = client.terminal
    BY <1>0, <1>2, <1>5, <1>9, <1>14 DEF Client
  <2>2. PlaneTyped'
    BY <1>0, <1>1, <2>1 DEF PlaneTyped
  <2>3. ClientRight'
    BY <1>0, <1>1, <1>5, <2>1 DEF ClientRight
  <2>4. HistoryRight'
    BY <1>0, <1>1, <1>2, <1>7, <1>10, <1>11, <1>14, <2>1 DEF HistoryRight, Withheld
  <2> QED
    BY <1>12, <2>2, <2>3, <2>4 DEF PlaneRight
<1>15. CASE Withholds
  <2>1. /\ client' \in Client /\ client'.at = "reading" /\ client'.offset = m
        /\ client'.terminal = e
    BY <1>0, <1>2, <1>5, <1>9, <1>15 DEF Client
  <2>2. PlaneTyped'
    BY <1>0, <1>1, <2>1 DEF PlaneTyped
  <2>3. ClientRight'
    BY <1>0, <1>1, <1>5, <1>6, <1>15, <2>1 DEF ClientRight, IsTerminal
  <2>4. HistoryRight'
    BY <1>0, <1>1, <1>2, <1>7, <1>10, <1>11, <1>13, <1>15, <2>1 DEF HistoryRight, Withheld
  <2> QED
    BY <1>12, <2>2, <2>3, <2>4 DEF PlaneRight
<1>16. CASE Offers
  <2>1. /\ client' \in Client /\ client'.at = "offering" /\ client'.offset = m
        /\ client'.terminal = NoEvent /\ client'.offer = e
    BY <1>0, <1>2, <1>5, <1>9, <1>16 DEF Client
  <2>2. PlaneTyped'
    BY <1>0, <1>1, <2>1 DEF PlaneTyped
  <2>3. ClientRight'
    BY <1>0, <1>1, <1>5, <1>6, <1>16, <2>1 DEF ClientRight, IsTerminal
  <2>4. HistoryRight'
    BY <1>0, <1>1, <1>2, <1>7, <1>10, <1>11, <1>16, <2>1 DEF HistoryRight, Withheld
  <2> QED
    BY <1>12, <2>2, <2>3, <2>4 DEF PlaneRight
<1> QED
  BY <1>3, <1>8, <1>14, <1>15, <1>16

LEMMA EndOfStreamRight ==
    ASSUME RuntimeRight, PlaneRight, ClientStill, EndOfStream
    PROVE  PlaneRight'
<1>0. /\ row \in {"running", "cancelled", "failed"} /\ client \in Client /\ pump \in Pump
      /\ recorded \in Seq(LogEvent) /\ ClientRight /\ PumpRight /\ HistoryRight
  BY PlaneFacts
<1>1. UNCHANGED <<journal, manager, row, pump, recorded>>
  BY DEF ClientStill, runtimeVars
<1>2. CASE ClientFails
  BY <1>2, ClientFailsRight DEF EndOfStream
<1>3. CASE /\ manager.at = "done" /\ client.terminal # NoEvent
           /\ client' = [client EXCEPT !.at = "last", !.offer = client.terminal]
  <2>0. client.at = "reading" /\ client.offset = Len(journal)
    BY DEF EndOfStream
  <2>1. /\ client' \in Client /\ client'.at = "last" /\ client'.offset = client.offset
        /\ client'.terminal = client.terminal /\ client'.offer = client.terminal
    BY <1>0, <1>3 DEF Client
  <2>2. PlaneTyped'
    BY <1>0, <1>1, <2>1 DEF PlaneTyped
  <2>3. ClientRight'
    BY <1>0, <1>1, <1>3, <2>0, <2>1 DEF ClientRight
  <2>4. PumpRight'
    BY <1>0, <1>1, <2>0 DEF PumpRight, Heard
  <2>5. Heard(client.offset)' = Heard(client.offset)
    BY <1>1, <2>1 DEF Heard
  <2>6. HistoryRight'
    BY <1>0, <1>1, <1>3, <2>0, <2>1, <2>5 DEF HistoryRight, Withheld
  <2> QED
    BY <2>2, <2>3, <2>4, <2>6 DEF PlaneRight
<1> QED
  BY <1>2, <1>3 DEF EndOfStream

-----------------------------------------------------------------------------
(* The coordinator's steps. *)

PumpStill == UNCHANGED <<runtimeVars, canceller>>

LEMMA TakeEventRight ==
    ASSUME RuntimeRight, PlaneRight, PumpStill, TakeEvent
    PROVE  PlaneRight'
<1>0. /\ row \in {"running", "cancelled", "failed"} /\ client \in Client /\ pump \in Pump
      /\ recorded \in Seq(LogEvent) /\ ClientRight /\ PumpRight /\ HistoryRight
  BY PlaneFacts
<1>1. UNCHANGED <<journal, manager>>
  BY DEF PumpStill, runtimeVars
<1>2. pump.at = "pumping" /\ client.at \in {"offering", "last"}
  BY DEF TakeEvent
<1>3. /\ client' \in Client
      /\ client'.at = IF client.at = "last" THEN "closed" ELSE "reading"
      /\ client'.offset = client.offset /\ client'.terminal = client.terminal
  <2>1. NoEvent \in LogEvent
    BY NoEventTyped
  <2> QED
    BY <1>0, <2>1 DEF TakeEvent, Client
<1>4. ClientRight'
  BY <1>0, <1>1, <1>2, <1>3 DEF ClientRight
<1>5. PICK e \in LogEvent : e = client.offer
  BY <1>0 DEF Client
<1> DEFINE c == IF e.type = "artifact.candidate" THEN e ELSE pump.candidate
           d == IF e.type = "agent.completed" THEN e ELSE pump.completed
           t == pump.terminal \/ IsTerminal(e.type)
           fails == \/ pump.failed \/ e.type = "agent.failed"
                    \/ /\ e.type = "agent.completed"
                       /\ pump.candidate = NoEvent \/ pump.candidate.list # e.list
           Fails == /\ pump' \in Pump /\ pump'.failed /\ pump'.at = "pumping"
                    /\ row' \in {row, "failed"} /\ recorded' \in {recorded, Append(recorded, e)}
           Ignores == /\ e.type \notin KnownTypes /\ UNCHANGED <<row, recorded>>
                      /\ pump' \in Pump /\ pump'.at = "pumping"
                      /\ pump'.terminal = pump.terminal /\ pump'.failed = pump.failed
           Records == /\ e.type \in KnownTypes /\ RecordRuntimeEvent(e)
                      /\ pump' \in Pump /\ pump'.at = "pumping"
                      /\ pump'.terminal => pump.terminal \/ IsTerminal(e.type)
                      /\ ~pump'.failed => ~pump.failed /\ e.type # "agent.failed"
                      /\ ~pump.terminal
<1>6. /\ pump'.verdict # "accepted"
      /\ Fails \/ Ignores \/ Records
  <2>1. /\ e.seq \in Nat /\ c \in LogEvent /\ d \in LogEvent /\ t \in BOOLEAN
        /\ fails \in BOOLEAN
    BY <1>0 DEF Pump, LogEvent
  <2>2. pump.verdict # "accepted"
    BY <1>0, <1>2 DEF PumpRight
  <2>3. Handled(e) = [pump EXCEPT !.last = e.seq, !.candidate = c, !.completed = d,
                                  !.terminal = t, !.failed = fails]
    BY <1>0 DEF Handled, Pump
  <2>4. /\ t => pump.terminal \/ IsTerminal(e.type)
        /\ ~fails => ~pump.failed /\ e.type # "agent.failed"
    OBVIOUS
  <2> HIDE DEF c, d, t, fails
  <2>5. /\ Handled(e) \in Pump /\ Handled(e).at = "pumping" /\ Handled(e).verdict = pump.verdict
        /\ Handled(e).terminal = t /\ Handled(e).failed = fails
    BY <1>0, <1>2, <2>1, <2>3 DEF Pump
  <2>6. CASE pump' = [pump EXCEPT !.failed = TRUE] /\ UNCHANGED <<row, recorded>>
    BY <1>0, <1>2, <2>2, <2>6 DEF Pump
  <2>7. CASE /\ e.type \notin KnownTypes /\ pump' = [pump EXCEPT !.last = e.seq]
             /\ UNCHANGED <<row, recorded>>
    BY <1>0, <1>2, <2>1, <2>2, <2>7 DEF Pump
  <2>8. CASE /\ pump' = [pump EXCEPT !.last = e.seq, !.failed = TRUE]
             /\ UNCHANGED <<row, recorded>>
    BY <1>0, <1>2, <2>1, <2>2, <2>8 DEF Pump
  <2>9. CASE /\ e.type \in KnownTypes /\ ~pump.terminal /\ pump' = Handled(e)
             /\ RecordRuntimeEvent(e)
    BY <2>2, <2>4, <2>5, <2>9
  <2>10. CASE /\ pump' = [Handled(e) EXCEPT !.failed = TRUE]
              /\ RecordRuntimeEvent(e) \/ UNCHANGED <<row, recorded>>
    <3>1. pump' \in Pump /\ pump'.failed /\ pump'.at = "pumping" /\ pump'.verdict = pump.verdict
      BY <2>5, <2>10 DEF Pump
    <3>2. row' \in {row, "failed"} /\ recorded' \in {recorded, Append(recorded, e)}
      BY <2>10 DEF RecordRuntimeEvent
    <3> QED
      BY <2>2, <3>1, <3>2
  <2> QED
    BY <1>5, <2>6, <2>7, <2>8, <2>9, <2>10 DEF TakeEvent
<1>7. recorded' \in Seq(LogEvent) /\ row' \in {"running", "cancelled", "failed"}
  <2>1. Append(recorded, e) \in Seq(LogEvent)
    BY <1>0, AppendProperties
  <2>2. recorded' \in {recorded, Append(recorded, e)} /\ row' \in {row, "failed"}
    BY <1>6 DEF RecordRuntimeEvent
  <2> QED
    BY <1>0, <2>1, <2>2
<1>8. PlaneTyped'
  BY <1>3, <1>6, <1>7 DEF PlaneTyped
<1>9. PumpRight'
  <2>1. ASSUME pump'.terminal, ~pump'.failed
        PROVE  \E i \in 1..Len(journal) : journal[i].type = "agent.completed"
    <3>1. CASE Ignores
      BY <1>0, <2>1, <3>1 DEF PumpRight
    <3>2. CASE Records
      <4>1. e.type = "agent.completed"
        BY <2>1, <3>2 DEF IsTerminal
      <4>2. client.at = "last" /\ client.terminal # NoEvent /\ e = client.terminal
        BY <1>0, <1>2, <1>5, <4>1 DEF ClientRight
      <4> QED
        BY <1>0, <4>1, <4>2 DEF ClientRight
    <3> QED
      BY <1>6, <2>1, <3>1, <3>2
  <2> QED
    BY <1>1, <1>6, <2>1 DEF PumpRight
<1>10. HistoryRight'
  <2>1. Heard(client.offset)' = Heard(client.offset)
    BY <1>1, <1>3 DEF Heard
  <2>2. CASE Fails
    BY <2>2 DEF HistoryRight
  <2>3. CASE Ignores
    <3>1. client.at = "offering" /\ client.terminal = NoEvent
      BY <1>0, <1>2, <1>5, <2>3, KnownAre DEF ClientRight
    <3> QED
      BY <1>0, <1>3, <1>5, <2>1, <2>3, <3>1 DEF HistoryRight
  <2>4. CASE Records
    <3>1. ASSUME row' = "running", ~pump'.failed
          PROVE  row = "running" /\ ~pump.failed /\ recorded' = Append(recorded, e)
      BY <2>4, <3>1 DEF RecordRuntimeEvent
    <3>2. CASE client.at = "offering"
      <4>1. client.terminal = NoEvent
        BY <1>0, <3>2 DEF ClientRight
      <4> QED
        BY <1>0, <1>3, <1>5, <2>1, <2>4, <3>1, <3>2, <4>1 DEF HistoryRight, Withheld
    <3>3. CASE client.at = "last"
      <4>1. client.terminal = e
        BY <1>0, <1>5, <3>3 DEF ClientRight
      <4> QED
        BY <1>0, <1>3, <2>1, <3>1, <3>3, <4>1 DEF HistoryRight, Withheld
    <3> QED
      BY <1>2, <3>2, <3>3
  <2> QED
    BY <1>6, <2>2, <2>3, <2>4
<1> QED
  BY <1>4, <1>8, <1>9, <1>10 DEF PlaneRight

LEMMA PumpReturnsRight ==
    ASSUME RuntimeRight, PlaneRight, PumpStill, PumpReturns
    PROVE  PlaneRight'
<1>0. /\ row \in {"running", "cancelled", "failed"} /\ client \in Client /\ pump \in Pump
      /\ recorded \in Seq(LogEvent) /\ ClientRight /\ PumpRight /\ HistoryRight
  BY PlaneFacts
<1>1. UNCHANGED <<journal, manager, client, row, recorded>>
  BY DEF PumpStill, PumpReturns, runtimeVars
<1> DEFINE f == pump.failed \/ client.at = "failed" \/ ~pump.terminal
<1>2. pump.at = "pumping" /\ client.at \in {"closed", "failed"}
  BY DEF PumpReturns
<1>3. pump' = [pump EXCEPT !.at = "returned", !.failed = f]
  BY <1>0 DEF PumpReturns, Pump
<1>4. f \in BOOLEAN /\ (~f => ~pump.failed /\ client.at = "closed" /\ pump.terminal)
  BY <1>0, <1>2 DEF Pump
<1> HIDE DEF f
<1>5. /\ pump' \in Pump /\ pump'.at = "returned" /\ pump'.failed = f
      /\ pump'.terminal = pump.terminal /\ pump'.verdict = pump.verdict
  BY <1>0, <1>3, <1>4 DEF Pump
<1>6. PlaneTyped'
  BY <1>0, <1>1, <1>5 DEF PlaneTyped
<1>7. ClientRight'
  BY <1>0, <1>1 DEF ClientRight
<1>8. PumpRight'
  BY <1>0, <1>1, <1>2, <1>4, <1>5 DEF PumpRight
<1>9. HistoryRight'
  BY <1>0, <1>1, <1>4, <1>5 DEF HistoryRight, Withheld, Heard
<1> QED
  BY <1>6, <1>7, <1>8, <1>9 DEF PlaneRight

LEMMA DecideRight ==
    ASSUME RuntimeRight, PlaneRight, PumpStill, Decide
    PROVE  PlaneRight'
<1>0. /\ row \in {"running", "cancelled", "failed"} /\ client \in Client /\ pump \in Pump
      /\ recorded \in Seq(LogEvent) /\ ClientRight /\ PumpRight /\ HistoryRight
  BY PlaneFacts
<1>1. UNCHANGED <<journal, manager, client, row, recorded>>
  BY DEF PumpStill, Decide, runtimeVars
<1>2. pump.at = "returned"
  BY DEF Decide
<1>3. PICK v \in {"accepted", "failed"} :
          /\ pump' = [pump EXCEPT !.at = "decided", !.verdict = v]
          /\ v = "accepted" => ~pump.failed /\ row = "running"
  BY DEF Decide
<1>4. /\ pump' \in Pump /\ pump'.at = "decided" /\ pump'.failed = pump.failed
      /\ pump'.terminal = pump.terminal /\ pump'.verdict = v
  BY <1>0, <1>3 DEF Pump
<1>5. PlaneTyped'
  BY <1>0, <1>1, <1>4 DEF PlaneTyped
<1>6. ClientRight'
  BY <1>0, <1>1 DEF ClientRight
<1>7. PumpRight'
  <2>1. ASSUME v = "accepted" PROVE recorded = Heard(Len(journal))
    <3>1. ~pump.failed /\ row = "running" /\ client.at = "closed"
      BY <1>0, <1>2, <1>3, <2>1 DEF PumpRight
    <3>2. Heard(client.offset) = recorded /\ client.offset = Len(journal)
      BY <1>0, <3>1 DEF HistoryRight, ClientRight
    <3> QED
      BY <3>2
  <2>2. v = "accepted" => recorded' = Heard(Len(journal))'
    BY <1>1, <2>1 DEF Heard
  <2> QED
    BY <1>0, <1>1, <1>2, <1>3, <1>4, <2>2 DEF PumpRight
<1>8. HistoryRight'
  BY <1>0, <1>1, <1>4 DEF HistoryRight, Withheld, Heard
<1> QED
  BY <1>5, <1>6, <1>7, <1>8 DEF PlaneRight

-----------------------------------------------------------------------------
(* The whole execution. *)

ExecutionRight == RuntimeRight /\ PlaneRight

LEMMA ExecutionInit == Init => ExecutionRight
<1> SUFFICES ASSUME Init PROVE ExecutionRight
  OBVIOUS
<1>1. NoEvent \in LogEvent
  BY NoEventTyped
<1>2. journal = << >> /\ recorded = << >>
  BY DEF Init
<1>3. Len(journal) = 0 /\ journal \in Seq(LogEvent) /\ recorded \in Seq(LogEvent)
  BY <1>2, EmptySeq
<1>4. client \in Client /\ pump \in Pump
  BY <1>1 DEF Init, Client, Pump
<1>5. PlaneTyped
  BY <1>3, <1>4 DEF Init, PlaneTyped
<1>6. ClientRight
  BY <1>3 DEF Init, ClientRight
<1>7. PumpRight
  BY DEF Init, PumpRight
<1>8. Heard(0) = << >>
  <2>1. {i \in 1..0 : journal[i].type \in KnownTypes} = {}
    OBVIOUS
  <2>2. {} \in SUBSET (1..Len(journal)) /\ Cardinality({}) = 0
    BY FS_EmptySet
  <2>3. Selected(journal, {}) \in Seq(LogEvent) /\ Len(Selected(journal, {})) = 0
    BY <1>3, <2>2, SelectedTyped
  <2>4. Selected(journal, {}) = << >>
    BY <2>3, EmptySeq
  <2> QED
    BY <2>1, <2>4 DEF Heard
<1>9. HistoryRight
  BY <1>2, <1>8 DEF Init, HistoryRight
<1> QED
  BY RuntimeInit, <1>5, <1>6, <1>7, <1>9 DEF ExecutionRight, PlaneRight

LEMMA ExecutionStep == ExecutionRight /\ [Next]_vars => ExecutionRight'
<1> SUFFICES ASSUME ExecutionRight, [Next]_vars PROVE ExecutionRight'
  OBVIOUS
<1>0. RuntimeRight /\ PlaneRight /\ RuntimeRight'
  BY RuntimeStep DEF ExecutionRight
<1>1. CASE WorkerNext \/ ManagerNext \/ CancelNext \/ Cancel \/ Newer
  BY <1>0, <1>1, LogMoves, PlaneKept DEF ExecutionRight
<1>2. CASE ClientNext
  <2>1. ClientStill
    BY <1>2 DEF ClientNext, ClientStill
  <2>2. CASE Interrupted
    BY <1>0, <2>1, <2>2, ClientFailsRight DEF Interrupted, ExecutionRight
  <2> QED
    BY <1>0, <1>2, <2>1, <2>2, ScanRight, EndOfStreamRight DEF ClientNext, ExecutionRight
<1>3. CASE PumpNext
  BY <1>0, <1>3, TakeEventRight, PumpReturnsRight, DecideRight
  DEF PumpNext, PumpStill, ExecutionRight
<1>4. CASE UNCHANGED vars
  <2>1. LogMove /\ UNCHANGED <<client, pump, recorded, row>>
    BY <1>4 DEF vars, LogMove
  <2> QED
    BY <1>0, <2>1, PlaneKept DEF ExecutionRight
<1> QED
  BY <1>1, <1>2, <1>3, <1>4 DEF Next

LEMMA ExecutionRightCorrect == Spec => []ExecutionRight
  BY ExecutionInit, ExecutionStep, PTL DEF Spec

(* Every state is typed, and the numbers in the journal increase, whatever *)
(* the worker numbered and whatever was lost (processes.py, _publish).     *)
THEOREM ExecutionTypeCorrect == Spec => []TypeOK
<1>1. ExecutionRight => TypeOK
  <2> SUFFICES ASSUME ExecutionRight PROVE TypeOK
    OBVIOUS
  <2>1. /\ worker \in Worker /\ Len(pipe) <= PipeSize
        /\ control \in {"idle", "created", "durable", "acked"}
        /\ record \in Record /\ RuntimeTyped /\ JournalRight
        /\ DOMAIN journal = 1..Len(journal)
    BY RuntimeFacts, LenProperties DEF ExecutionRight, RuntimeRight
  <2>2. PlaneTyped
    BY DEF ExecutionRight, PlaneRight
  <2> QED
    BY <2>1, <2>2 DEF TypeOK, RuntimeTyped, PlaneTyped, JournalRight, Worker, WorkerAt, Record,
       Client, Pump
<1> QED
  BY <1>1, ExecutionRightCorrect, PTL

(* A run goes on to publication only when its worker ran to the end and    *)
(* left of itself, the Runtime awaits the decision with a durable          *)
(* candidate, and every event the Runtime logged is in the history, in the *)
(* Runtime's order, whatever broke or was cancelled on the way (http.go    *)
(* and coordinator.go, Execute and pump).                                  *)
THEOREM AcceptedIsProvenCorrect == Spec => []AcceptedIsProven
<1>1. ExecutionRight => AcceptedIsProven
  <2> SUFFICES ASSUME ExecutionRight, pump.verdict = "accepted"
               PROVE  /\ worker.status = "0" /\ manager.terminal.type = "agent.completed"
                      /\ record.lifecycle = "awaiting" /\ record.candidate = "durable"
                      /\ recorded = Heard(Len(journal))
    BY DEF AcceptedIsProven, Heard
  <2>1. /\ CandidateRight /\ JudgementRight /\ RecordRight /\ ClientRight /\ PumpRight
    BY DEF ExecutionRight, RuntimeRight, PlaneRight
  <2>2. /\ client.at = "closed" /\ recorded = Heard(Len(journal))
        /\ \E i \in 1..Len(journal) : journal[i].type = "agent.completed"
    BY <2>1 DEF PumpRight
  <2>3. Successful /\ manager.at = "done"
    BY <2>1, <2>2 DEF JudgementRight, ClientRight
  <2> QED
    BY <2>1, <2>2, <2>3 DEF CandidateRight, JudgementRight, RecordRight, Successful
<1> QED
  BY <1>1, ExecutionRightCorrect, PTL

(* Once a cancellation is acknowledged no worker runs, none will, and the  *)
(* Runtime awaits the decision, even if the request came while the worker  *)
(* was being spawned (processes.py, cancel and _run).                      *)
THEOREM CancelStopsCorrect == Spec => []CancelStops
<1>1. ExecutionRight => CancelStops
  BY DEF ExecutionRight, RuntimeRight, RecordRight, WorkerRight, Over, CancelStops
<1> QED
  BY <1>1, ExecutionRightCorrect, PTL

=============================================================================
