------------------------------ MODULE RunEvents ------------------------------
(***************************************************************************)
(* The event history of one run and its delivery: the transactions of      *)
(* RunStore with the run_events and messages rows they append, the broker  *)
(* that wakes the server-sent-event handlers, the handlers themselves, and *)
(* the browser clients that reconnect with the last sequence they handled. *)
(* A COMMIT whose acknowledgement is lost may become durable after its     *)
(* wake-up was sent; a connection, or the control plane, may go at any     *)
(* moment.                                                                 *)
(***************************************************************************)
EXTENDS RunStore, Sequences, Selection

CONSTANTS
    Watched,     \* the run whose events these are
    Readers,     \* browser clients that follow it
    Artifacts,   \* the artifacts it may publish
    MaxRuntime,  \* bound on the Runtime's own event sequence
    MaxDrops     \* lost connections, failed handlers and crashes

ASSUME WatchedAssumption == Watched \in Runs
ASSUME ArtifactsAssumption == IsFiniteSet(Artifacts)
ASSUME EventBounds == MaxRuntime \in Nat /\ MaxDrops \in Nat

VARIABLES
    log,       \* run_events of the run, in sequence order
    next,      \* runs.next_event_sequence
    messages,  \* runtime_sequence of its assistant messages
    records,   \* its artifacts rows
    owed,      \* a committed transaction has not called Notify yet
    early,     \* a COMMIT was given up and notified; it may still land
    conn,      \* [Readers -> state of the stream handler]
    hint,      \* [Readers -> is a wake-up pending in the channel?]
    after,     \* [Readers -> the handler's cursor]
    wire,      \* [Readers -> events written, not yet handled]
    cursor,    \* [Readers -> the client's cursor]
    received,  \* [Readers -> Seq(Event)], the events the client handled
    drops

logVars == <<log, next, messages, records>>
readerVars == <<conn, hint, after, wire, cursor, received>>
vars == <<storeVars, logVars, owed, early, readerVars, drops>>

(* The Runtime's event types; "assistant.message" also stands for those    *)
(* that do nothing besides being appended.                                 *)
RuntimeTypes == {"phase.changed", "assistant.message", "agent.failed"}

(* runtime is 0 for an event of the control plane's own, whose type and    *)
(* arg then make its dedupe_key.                                           *)
Event == [seq : Nat \ {0}, runtime : Nat,
          type : RuntimeTypes \cup {"artifact.published", "run"},
          arg : Phase \cup Terminal \cup Artifacts]

RuntimeEvent(n, type, arg) == [seq |-> 1, runtime |-> n, type |-> type, arg |-> arg]
ProductEvent(type, arg) == RuntimeEvent(0, type, arg)

Init ==
    /\ StoreInit
    /\ log = <<>> /\ next = 1 /\ messages = {} /\ records = {}
    /\ owed = FALSE /\ early = FALSE
    /\ conn = [c \in Readers |-> "off"]
    /\ hint = [c \in Readers |-> FALSE]
    /\ after = [c \in Readers |-> 0]
    /\ wire = [c \in Readers |-> <<>>]
    /\ cursor = [c \in Readers |-> 0]
    /\ received = [c \in Readers |-> <<>>]
    /\ drops = MaxDrops

-----------------------------------------------------------------------------
(* Appending. *)

(* Slip: an event is recognised by its dedupe_key only. *)
RecordedByKey(e) ==
    \E i \in 1..Len(log) :
        e.runtime = 0 /\ log[i].runtime = 0 /\ log[i].type = e.type /\ log[i].arg = e.arg

(* runtime_sequence or dedupe_key is in the table already. *)
Recorded(e) ==
    \E i \in 1..Len(log) :
        /\ log[i].runtime = e.runtime
        /\ e.runtime = 0 => log[i].type = e.type /\ log[i].arg = e.arg

Fresh(events) == Selected(events, {i \in 1..Len(events) : ~Recorded(events[i])})

(* A terminal product event agrees with the row as it is being written.    *)
Valid(e) == e.type = "run" => rows'[Watched].finalized /\ rows'[Watched].status = e.arg

(* Slip: next_event_sequence is taken for the last sequence handed out.    *)
AppendsFromZero(events) ==
    LET fresh == Fresh(events)
    IN  /\ \A i \in 1..Len(fresh) : Valid(fresh[i])
        /\ log' = log \o [i \in 1..Len(fresh) |-> [fresh[i] EXCEPT !.seq = next + i - 2]]
        /\ next' = next + Len(fresh)

(* AppendEventTx for each of the events, under the run's row lock.         *)
Appends(events) ==
    LET fresh == Fresh(events)
    IN  /\ \A i \in 1..Len(fresh) : Valid(fresh[i])
        /\ log' = log \o [i \in 1..Len(fresh) |-> [fresh[i] EXCEPT !.seq = next + i - 1]]
        /\ next' = next + Len(fresh)

(* A transaction that was given up and lands now was notified beforehand;  *)
(* any other is notified after its COMMIT returns.                         *)
Commits ==
    /\ IF early THEN early' = FALSE /\ UNCHANGED owed ELSE owed' = TRUE /\ UNCHANGED early
    /\ UNCHANGED <<readerVars, drops>>

-----------------------------------------------------------------------------
(* The transactions on the run. *)

Orders(S) == {s \in [1..Cardinality(S) -> S] : \A i, j \in DOMAIN s : s[i] = s[j] => i = j}

SetsPhase ==
    /\ \E p \in {"agent", "publishing"} :
          SetPhase(Watched, p) /\ Appends(<<ProductEvent("phase.changed", p)>>)
    /\ Commits /\ UNCHANGED <<messages, records>>

(* What RecordRuntimeEvent does to the row besides appending. *)
RuntimeUpdate(type, arg) ==
    CASE type = "phase.changed" -> RecordPhase(Watched, arg)
      [] type = "agent.failed" -> RecordAgentFailed(Watched)
      [] OTHER -> UNCHANGED storeVars

(* RecordRuntimeEvent: of a run that is not running, or of an event        *)
(* already there, nothing is recorded.                                     *)
RecordsRuntimeEvent ==
    \E n \in 1..MaxRuntime, type \in RuntimeTypes :
        LET arg == IF type = "phase.changed" THEN "agent" ELSE "null"
            e == RuntimeEvent(n, type, arg)
        IN  /\ rows[Watched].status = "running" /\ ~Recorded(e)
            /\ RuntimeUpdate(type, arg)
            /\ Appends(<<e>>)
            /\ messages' = IF type = "assistant.message" THEN messages \cup {n} ELSE messages
            /\ Commits /\ UNCHANGED records

RecordsOutcome ==
    /\ \E s \in {"failed", "cancelled", "interrupted"} : RecordFailure(Watched, s)
    /\ Commits /\ UNCHANGED logVars

CommitsProducts ==
    /\ CommitProducts(Watched)
    /\ records' \in SUBSET Artifacts
    /\ Commits /\ UNCHANGED <<log, next, messages>>

(* Slip: the terminal event is appended before the artifacts are listed. *)
AcknowledgesTerminalFirst ==
    /\ AcknowledgeFinalized(Watched) /\ ~Settled(Watched)
    /\ \E order \in Orders(records) :
          Appends(<<ProductEvent("run", rows[Watched].status)>>
                  \o [i \in DOMAIN order |-> ProductEvent("artifact.published", order[i])])
    /\ Commits /\ UNCHANGED <<messages, records>>

(* The finalization, the published artifacts and the terminal event become *)
(* visible together.                                                       *)
Acknowledges ==
    /\ AcknowledgeFinalized(Watched) /\ ~Settled(Watched)
    /\ \E order \in Orders(records) :
          Appends([i \in DOMAIN order |-> ProductEvent("artifact.published", order[i])]
                  \o <<ProductEvent("run", rows[Watched].status)>>)
    /\ Commits /\ UNCHANGED <<messages, records>>

CancelsQueued ==
    /\ CancelQueued(Watched)
    /\ Appends(<<ProductEvent("run", "cancelled")>>)
    /\ Commits /\ UNCHANGED <<messages, records>>

(* Transactions that notify without having changed anything: a repeated    *)
(* outcome, acknowledgement or event, and late Runtime data.               *)
CommitsNothing ==
    /\ Exists(Watched) /\ ~owed
    /\ Commits /\ UNCHANGED <<storeVars, logVars>>

(* What else happens to the rows appends nothing here; the sandbox, source *)
(* and consistency columns of the watched run have no part in its history. *)
CommitsElsewhere ==
    /\ \/ \E q \in Runs \ {Watched} : RunTx(q)
       \/ \E c \in Conversations : SubmitMessage(Watched, c) \/ DeleteConversation(c)
       \/ \E locked \in SUBSET Runs : ClaimNext(Watched, locked)
    /\ UNCHANGED <<logVars, owed, early, readerVars, drops>>

Transaction ==
    \/ SetsPhase \/ RecordsRuntimeEvent \/ RecordsOutcome \/ CommitsProducts
    \/ Acknowledges \/ CancelsQueued \/ CommitsNothing \/ CommitsElsewhere

-----------------------------------------------------------------------------
(* The broker. *)

(* One pending wake-up per subscriber; further ones are dropped.           *)
Notified == hint' = [c \in Readers |-> hint[c] \/ conn[c] # "off"]

Notify ==
    /\ owed /\ owed' = FALSE
    /\ Notified
    /\ UNCHANGED <<storeVars, logVars, early, conn, after, wire, cursor, received, drops>>

(* The acknowledgement of a COMMIT is lost: its caller notifies and goes   *)
(* away, while the transaction, holding the row, lands later or never.     *)
GiveUp ==
    /\ Exists(Watched) /\ ~early /\ early' = TRUE
    /\ Notified
    /\ UNCHANGED <<storeVars, logVars, owed, conn, after, wire, cursor, received, drops>>

RollsBack ==
    /\ early /\ early' = FALSE
    /\ UNCHANGED <<storeVars, logVars, owed, readerVars, drops>>

BrokerNext == Notify \/ GiveUp \/ RollsBack

-----------------------------------------------------------------------------
(* A stream handler and its client. *)

Done(c) == received[c] # <<>> /\ received[c][Len(received[c])].type = "run"

(* The handler takes its cursor from Last-Event-ID and subscribes before   *)
(* it reads.                                                               *)
Connect(c) ==
    /\ conn[c] = "off" /\ ~Done(c) /\ Exists(Watched)
    /\ conn' = [conn EXCEPT ![c] = "reading"]
    /\ after' = [after EXCEPT ![c] = cursor[c]]
    /\ UNCHANGED <<storeVars, logVars, owed, early, hint, wire, cursor, received, drops>>

(* ListEvents(after), and all of it written to the connection. *)
List(c) ==
    /\ conn[c] = "reading"
    /\ LET events == Selected(log, {i \in 1..Len(log) : log[i].seq > after[c]})
       IN  /\ wire' = [wire EXCEPT ![c] = @ \o events]
           /\ after' = [after EXCEPT ![c] = IF events = <<>> THEN @ ELSE events[Len(events)].seq]
    /\ conn' = [conn EXCEPT ![c] = "waiting"]
    /\ UNCHANGED <<storeVars, logVars, owed, early, hint, cursor, received, drops>>

(* Slip: the handler relies on wake-ups. *)
WakeOnHint(c) ==
    /\ conn[c] = "waiting" /\ hint[c]
    /\ hint' = [hint EXCEPT ![c] = FALSE]
    /\ conn' = [conn EXCEPT ![c] = "reading"]
    /\ UNCHANGED <<storeVars, logVars, owed, early, after, wire, cursor, received, drops>>

(* A wake-up or the poll ticker. *)
Wake(c) ==
    /\ conn[c] = "waiting"
    /\ hint' \in {[hint EXCEPT ![c] = FALSE], hint}
    /\ conn' = [conn EXCEPT ![c] = "reading"]
    /\ UNCHANGED <<storeVars, logVars, owed, early, after, wire, cursor, received, drops>>

Disconnected(c) ==
    /\ conn' = [conn EXCEPT ![c] = "off"]
    /\ hint' = [hint EXCEPT ![c] = FALSE]
    /\ after' = [after EXCEPT ![c] = 0]
    /\ wire' = [wire EXCEPT ![c] = <<>>]

(* The client handles the next frame, then moves its cursor; it stops at a *)
(* terminal product event.                                                 *)
Handle(c) ==
    /\ wire[c] # <<>>
    /\ LET e == Head(wire[c])
       IN  /\ IF e.seq > cursor[c]
              THEN /\ received' = [received EXCEPT ![c] = Append(@, e)]
                   /\ cursor' = [cursor EXCEPT ![c] = e.seq]
              ELSE UNCHANGED <<received, cursor>>
           /\ IF e.seq > cursor[c] /\ e.type = "run"
              THEN Disconnected(c)
              ELSE wire' = [wire EXCEPT ![c] = Tail(@)] /\ UNCHANGED <<conn, hint, after>>
    /\ UNCHANGED <<storeVars, logVars, owed, early, drops>>

(* The connection breaks, or the client's handler of an event throws. *)
Drop(c) ==
    /\ conn[c] # "off" /\ drops > 0 /\ drops' = drops - 1
    /\ Disconnected(c)
    /\ UNCHANGED <<storeVars, logVars, owed, early, cursor, received>>

(* The control plane restarts: every stream breaks and the broker is new. *)
Crash ==
    /\ drops > 0 /\ drops' = drops - 1
    /\ owed' = FALSE
    /\ conn' = [c \in Readers |-> "off"]
    /\ hint' = [c \in Readers |-> FALSE]
    /\ after' = [c \in Readers |-> 0]
    /\ wire' = [c \in Readers |-> <<>>]
    /\ UNCHANGED <<storeVars, logVars, early, cursor, received>>

ReaderNext(c) == Connect(c) \/ List(c) \/ Wake(c) \/ Handle(c) \/ Drop(c)

-----------------------------------------------------------------------------
Next == Transaction \/ BrokerNext \/ Crash \/ \E c \in Readers : ReaderNext(c)

(* The ticker ticks, the network carries what is written, and a client     *)
(* that has not seen the terminal event connects again.                    *)
Spec ==
    /\ Init /\ [][Next]_vars
    /\ \A c \in Readers :
          WF_vars(Connect(c)) /\ WF_vars(List(c)) /\ WF_vars(Wake(c)) /\ WF_vars(Handle(c))

-----------------------------------------------------------------------------
(* Properties. *)

(* Types of the log, the broker's hints and the readers' connections.      *)
TypeOK ==
    /\ StoreTypeOK
    /\ log \in Seq(Event) /\ next \in Nat \ {0}
    /\ messages \in SUBSET Nat /\ records \in SUBSET Artifacts
    /\ owed \in BOOLEAN /\ early \in BOOLEAN
    /\ conn \in [Readers -> {"off", "reading", "waiting"}]
    /\ hint \in [Readers -> BOOLEAN]
    /\ after \in [Readers -> Nat] /\ cursor \in [Readers -> Nat]
    /\ wire \in [Readers -> Seq(Event)] /\ received \in [Readers -> Seq(Event)]
    /\ drops \in Nat

(* Sequences are handed out without gaps or repetitions, whatever is       *)
(* replayed, so "greater than my cursor" is "not seen yet"; a Runtime      *)
(* event has one row, and one message if it carries one.                   *)
LogGapless ==
    /\ next = Len(log) + 1
    /\ \A i \in 1..Len(log) : log[i].seq = i
    /\ \A i, j \in 1..Len(log) :
          log[i].runtime # 0 /\ log[i].runtime = log[j].runtime => i = j
    /\ messages = {log[i].runtime : i \in {j \in 1..Len(log) : log[j].type = "assistant.message"}}

(* The history ends with the outcome: a terminal product event is there    *)
(* exactly when the run is finalized, it is the last event and names the   *)
(* row's status, and before it every artifact of a succeeded run has been  *)
(* announced once, and no artifact of any other.                           *)
LogTellsOutcome ==
    LET Published == {i \in 1..Len(log) : log[i].type = "artifact.published"}
        Final == {i \in 1..Len(log) : log[i].type = "run"}
    IN  /\ Final = IF Settled(Watched) THEN {Len(log)} ELSE {}
        /\ \A i \in Final : log[i].arg = rows[Watched].status
        /\ {log[i].arg : i \in Published} = IF Settled(Watched) THEN records ELSE {}
        /\ \A i, j \in Published : log[i].arg = log[j].arg => i = j
        /\ records # {} => rows[Watched].status = "succeeded"

(* Whatever is lost on the way, a reader gets the whole log once and in    *)
(* order, up to and including the terminal event: the abstract Feed, with  *)
(* its fairness, is implemented.                                           *)
TheFeed == INSTANCE Feed WITH Readers <- Readers, log <- log, received <- received

ImplementsFeed == TheFeed!Spec

=============================================================================
