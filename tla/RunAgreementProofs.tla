------------------------- MODULE RunAgreementProofs -------------------------
(***************************************************************************)
(* Database, Runtime and scheduler agree: the decision the Runtime takes   *)
(* is the outcome the database records, a settled run leaves nothing       *)
(* behind, and nothing the scheduler can meet makes it pause.  Each of the *)
(* properties needs the others, so they are proved together, from one      *)
(* invariant: what holds of every run whatever the scheduler does          *)
(* (DataRight), and what the scheduler may rely on at each of its steps    *)
(* (ControlRight).  An execute request that was given up may still reach a *)
(* Runtime behind the Docker provider (Late).  Then a settled run need not *)
(* be clean, the next request may be refused and a session be left behind: *)
(* those three are proved for ~Late, the others whatever arrives.          *)
(***************************************************************************)
EXTENDS RunLifecycleProofs

Started(r) == rows[r].status \notin {"none", "queued"}
Failing(r) == rows[r].status \in Terminal \ {"succeeded"}

(* May an execute request outlive the connection that carried it?          *)
Late == LateDelivery /\ Provider = "docker"

(* Nothing holds the run any more, but a request that is still to arrive.  *)
Free(r) == leases[r] # "held" /\ (~Late => ~Unfinalized(r))

-----------------------------------------------------------------------------
(* What holds of every run. *)

(* Nothing has provoked a consistency mark, and what is published has a    *)
(* lease to clean up.                                                      *)
RowsClean ==
    \A r \in Runs : ~rows[r].conflict /\ (rows[r].status = "succeeded" => rows[r].ref)

(* The Runtime and the provider hold something only for the run in the     *)
(* slot, or for one whose request arrived late, and its row says that it   *)
(* may be there.                                                           *)
RuntimeInSlot ==
    \A r \in Runs :
        /\ exec[r].lifecycle # "none" \/ leases[r] # "none" => Started(r)
        /\ exec[r].lifecycle # "none" \/ leases[r] = "held" => rows[r].provider
        /\ leases[r] = "held" => InSlot(r)
        /\ Unfinalized(r) => InSlot(r) \/ Late
        /\ Provider = "docker" => leases[r] = "none"
        /\ Provider = "fake" /\ Unfinalized(r) => leases[r] = "held"

(* The Runtime works on one execution at a time. *)
AloneInRuntime == \A p, q \in Runs : Unfinalized(p) /\ Unfinalized(q) => p = q

(* A request on its way is for a run that has been started, has had no     *)
(* execution yet, and so cannot have succeeded.                            *)
RequestsRight ==
    \A r \in inflight :
        /\ Started(r) /\ rows[r].provider /\ rows[r].status # "succeeded"
        /\ exec[r].lifecycle = "none"

(* A published run can be committed; a crash of the fake takes its record. *)
CommitsRight ==
    \A r \in Runs :
        /\ rows[r].status = "succeeded" /\ InSlot(r) =>
              \/ FinalizeAnswer(r, "committed") = "ok"
              \/ Provider = "fake" /\ exec[r].lifecycle = "none"
        /\ exec[r].outcome = "completed" => exec[r].candidate = "durable"

(* A session belongs to an execution that has not been aborted, and the    *)
(* abort of an execution spares what it found: the heads among it.         *)
SessionsRight ==
    /\ \A r \in sessions : exec[r].lifecycle \notin {"none", "aborted"}
    /\ \A r \in Runs : exec[r].lifecycle # "none" =>
          r \notin exec[r].baseline /\ exec[r].source # r
    /\ Provider = "docker" =>
          /\ HeadSessionKept
          /\ \A r \in Runs : Unfinalized(r) =>
                /\ exec[r].candidate # "none" /\ ~Failing(r) => r \in sessions
                /\ \A c \in Conversations : head[c] \in exec[r].baseline \cup {NoSession, r}

DataRight ==
    /\ RowsClean /\ RuntimeInSlot /\ AloneInRuntime /\ RequestsRight
    /\ DecisionAgreement /\ CommitsRight /\ SessionsRight

-----------------------------------------------------------------------------
(* What the scheduler may rely on. *)

EarlyPcs == {"register", "prepare", "refresh", "intent", "acquire", "failAbsent", "failAck"}
UnsentPcs == EarlyPcs \cup {"attach", "failBare", "check", "send"}
AttachedPcs == {"check", "send", "pump", "drain", "recheck", "validate", "publishing", "publish",
                "products", "promoted", "failLease", "failRead"}
CompletedPcs == {"recheck", "validate", "publishing", "publish", "products"}
VisitPcs == {"attachFound", "absentRecord", "absentAck", "recover"}
AbortPcs == {"abortList", "abortRecord", "abortCancel", "abortRelist", "abortSession"}

(* Reconcile works on a run it has retained, or is about to. *)
Visiting == pc \in VisitPcs \/ (pc \in FinishPcs /\ fin.caller = "reconcile")
InPass == pc = "visit" \/ Visiting

(* A run stays in the slot for as long as the scheduler works on it or has *)
(* it on its list.                                                         *)
WorkInSlot ==
    /\ pc \in WorkingPcs => InSlot(run)
    /\ \A r \in rec.todo : InSlot(r)
    /\ Visiting => run \in rec.todo
    /\ ~InPass => rec.todo = {}

(* The start-up flag is down wherever runs are claimed and executed, and a *)
(* start-up pass without an error so far has the running rows on its list. *)
ModeRight ==
    /\ NoStrandedRun
    /\ pc \in ExecutePcs \cup {"claim", "register"} => ~startup
    /\ pc \in FinishPcs /\ fin.caller # "reconcile" => ~startup
    /\ InPass /\ startup /\ ~rec.failed =>
          \A r \in Runs : rows[r].status = "running" => r \in rec.todo

(* An execute request is on its way while its answer is waited for only,   *)
(* unless it is late; and never before it was sent.                        *)
InflightRight ==
    /\ ~Late => \A r \in inflight : run = r /\ pc \in {"pump", "drain"}
    /\ pc \in UnsentPcs => run \notin inflight

(* What the Runtime and the row are like at each step. *)
RuntimeAtWork ==
    /\ pc \in EarlyPcs => leases[run] = "none"
    /\ pc \in UnsentPcs => exec[run].lifecycle = "none"
    /\ pc \in UnsentPcs \cup {"pump", "drain"} => rows[run].status # "succeeded"
    /\ pc \in {"acquire", "attach", "failBare"} \cup AttachedPcs => rows[run].provider
    /\ pc \in AttachedPcs => rows[run].ref
    /\ pc \in CompletedPcs =>
          exec[run].lifecycle = "awaiting" /\ exec[run].candidate = "durable"
    /\ pc = "abortRecord" =>
          /\ fin.found = "none" /\ ~Late => ~Unfinalized(run)
          /\ fin.found = "awaiting" => exec[run].lifecycle \notin {"none", "live"}
          /\ fin.found = "live" => exec[run].lifecycle # "none"
    /\ pc \in {"abortCancel", "abortRelist"} => exec[run].lifecycle # "none"
    /\ pc = "abortSession" => exec[run].lifecycle \notin {"none", "live"}
    /\ pc = "headSession" => exec[run].lifecycle = "committed"
    /\ pc \in {"acknowledge", "absentRecord", "absentAck"} => Free(run)

(* What was not listed is still not there, unless it arrived late; what    *)
(* was listed was intended.                                                *)
ListingRight ==
    pc = "snapshot" \/ InPass =>
        /\ ~Late => \A r \in Runs : r \notin rec.listed => r \notin Listed
        /\ \A r \in rec.listed : rows[r].provider
        /\ \A r \in rec.todo : r \in rec.listed => rec.seen[r].provider

Sound(row) ==
    row.status \notin {"none", "queued"} /\ ~row.conflict /\ (row.status = "succeeded" => row.ref)

(* Rows read earlier, by Reconcile and by finishLease. *)
ViewsRight ==
    /\ StaleViewSafe
    /\ \A r \in rec.todo : Sound(rec.seen[r])
    /\ pc \in FinishPcs => Sound(fin.view) /\ fin.caller \in {"success", "failure", "reconcile"}

(* Commit and abort are what the outcome calls for. *)
DecisionAtWork ==
    /\ pc \in {"commitSession", "headSession"} => fin.view.status = "succeeded"
    /\ pc \in AbortPcs => fin.view.status # "succeeded"
    /\ pc = "abortRecord" => fin.view.status = "running"
    /\ pc \in {"abortCancel", "abortRelist", "abortSession"} => Failing(run)

ControlRight ==
    WorkInSlot /\ ModeRight /\ InflightRight /\ RuntimeAtWork /\ ListingRight /\ ViewsRight
    /\ DecisionAtWork /\ NeverPaused

StoreRight == StoreBase /\ SingleSlot /\ PromotedUntilSettled /\ History

Agreement == LifecycleBase /\ StoreRight /\ DataRight /\ ControlRight

-----------------------------------------------------------------------------
(* What the transactions do to a row, as far as the agreement depends on   *)
(* it.  Nothing a row says of itself is taken back; and, with the          *)
(* exception of a claim, a publication and an acknowledgement, no run      *)
(* starts, succeeds, enters the slot or leaves it.                         *)

KeptOn(q) ==
    /\ Started(q) => Started(q)'
    /\ rows[q].status \in Terminal => rows'[q].status = rows[q].status
    /\ rows[q].provider => rows'[q].provider
    /\ rows[q].ref => rows'[q].ref
    /\ ~rows[q].conflict => ~rows'[q].conflict

QuietOn(q) ==
    /\ KeptOn(q)
    /\ InSlot(q)' <=> InSlot(q)
    /\ rows'[q].status = "running" => rows[q].status = "running"
    /\ rows'[q].status = "succeeded" <=> rows[q].status = "succeeded"
    /\ rows'[q].candidate = rows[q].candidate

Quiet == head' = head /\ \A q \in Runs : QuietOn(q)

LEMMA QuietFrame ==
    ASSUME UNCHANGED <<rows, head>>
    PROVE  Quiet
  BY DEF Quiet, QuietOn, KeptOn, Started, InSlot

LEMMA QuietTx ==
    ASSUME StoreBase, NEW r \in Runs,
           \/ UNCHANGED storeVars
           \/ \E c \in Conversations : SubmitMessage(r, c)
           \/ RefreshSource(r) \/ BeginSandboxAcquire(r) \/ AttachSandboxRef(r)
           \/ \E p \in Phase : SetPhase(r, p)
           \/ RecordAgentFailed(r)
           \/ \E s \in {"failed", "cancelled", "interrupted"} : RecordFailure(r, s)
           \/ CancelQueued(r)
    PROVE  Quiet
<1> USE DEF QuietOn, KeptOn, Started, InSlot, Terminal
<1>0. rows \in [Runs -> Row] /\ \A q \in Runs : Shaped(rows[q], q)
  BY RowFacts DEF StoreBase, StoreTypeOK
<1> SUFFICES ASSUME NEW q \in Runs
             PROVE  head' = head /\ QuietOn(q)
  BY DEF Quiet
<1>1. CASE UNCHANGED storeVars
  BY <1>0, <1>1 DEF storeVars
<1>2. ASSUME NEW c \in Conversations, SubmitMessage(r, c)
      PROVE  head' = head /\ QuietOn(q)
  BY <1>0, <1>2 DEF SubmitMessage, NoRow, Exists, Shaped
<1>3. CASE RefreshSource(r) \/ BeginSandboxAcquire(r) \/ AttachSandboxRef(r)
  <2>1. rows[r] \in Row
    BY <1>0
  <2> QED
    BY <1>0, <1>3, <2>1 DEF RefreshSource, BeginSandboxAcquire, AttachSandboxRef, Row
<1>4. ASSUME NEW p \in Phase, SetPhase(r, p)
      PROVE  head' = head /\ QuietOn(q)
  BY <1>0, <1>4 DEF SetPhase
<1>5. CASE RecordAgentFailed(r)
  BY <1>0, <1>5 DEF RecordAgentFailed
<1>6. ASSUME NEW s \in {"failed", "cancelled", "interrupted"}, RecordFailure(r, s)
      PROVE  head' = head /\ QuietOn(q)
  BY <1>0, <1>6 DEF RecordFailure, CanRecordFailure
<1>7. CASE CancelQueued(r)
  BY <1>0, <1>7 DEF CancelQueued, CanCancelQueued, Shaped
<1> QED
  BY <1>1, <1>2, <1>3, <1>4, <1>5, <1>6, <1>7

(* An acknowledgement ends the cleanup of its run and leaves all else.     *)
LEMMA AcknowledgeEffect ==
    ASSUME StoreBase, NEW r \in Runs, AcknowledgeFinalized(r)
    PROVE  /\ head' = head
           /\ rows[r].status \in Terminal /\ rows'[r] = [rows[r] EXCEPT !.finalized = TRUE]
           /\ \A q \in Runs \ {r} : rows'[q] = rows[q] /\ QuietOn(q)
           /\ ~InSlot(r)'
<1>0. rows \in [Runs -> Row] /\ \A q \in Runs : Shaped(rows[q], q)
  BY RowFacts DEF StoreBase, StoreTypeOK
<1> QED
  BY <1>0 DEF AcknowledgeFinalized, CanAcknowledge, QuietOn, KeptOn, Started, InSlot, Row

(* A claim starts its run in an empty slot. *)
LEMMA ClaimEffect ==
    ASSUME StoreBase, NEW r \in Runs, NEW k \in SUBSET Runs, ClaimNext(r, k)
    PROVE  /\ head' = head
           /\ rows[r].status = "queued" /\ ~rows[r].provider
           /\ rows'[r] = [rows[r] EXCEPT !.status = "running", !.phase = "preparing"]
           /\ \A q \in Runs \ {r} : rows'[q] = rows[q] /\ QuietOn(q)
           /\ InSlot(r)' /\ \A q \in Runs : ~InSlot(q)
<1>0. rows \in [Runs -> Row] /\ \A q \in Runs : Shaped(rows[q], q)
  BY RowFacts DEF StoreBase, StoreTypeOK
<1> QED
  BY <1>0 DEF ClaimNext, CanClaim, SlotFree, QuietOn, KeptOn, Started, InSlot, Row, Shaped, Terminal

(* A publication makes its run succeed, and its session the active one.    *)
LEMMA CommitEffect ==
    ASSUME StoreBase, NEW r \in Runs, CommitProducts(r)
    PROVE  /\ rows[r].status = "running"
           /\ rows'[r] = [rows[r] EXCEPT !.status = "succeeded", !.candidate = r]
           /\ head' = [head EXCEPT ![rows[r].conv] = r]
           /\ \A q \in Runs \ {r} : rows'[q] = rows[q] /\ QuietOn(q)
           /\ InSlot(r) /\ InSlot(r)'
<1>0. rows \in [Runs -> Row] /\ \A q \in Runs : Shaped(rows[q], q)
  BY RowFacts DEF StoreBase, StoreTypeOK
<1> QED
  BY <1>0 DEF CommitProducts, CanCommitProducts, QuietOn, KeptOn, Started, InSlot, Row

-----------------------------------------------------------------------------
(* The data.  A transaction that is quiet disturbs nothing of it. *)

LEMMA Facts ==
    ASSUME Agreement
    PROVE  /\ StoreBase /\ TypeOK /\ StoreRight /\ DataRight /\ ControlRight
           /\ rows \in [Runs -> Row] /\ head \in [Conversations -> Sessions]
           /\ exec \in [Runs -> Execution] /\ sessions \in SUBSET Runs /\ inflight \in SUBSET Runs
           /\ leases \in [Runs -> {"none", "held", "released"}]
           /\ pc \in WorkingPcs => run \in Runs /\ InSlot(run)
           /\ \A p, q \in Runs : InSlot(p) /\ InSlot(q) => p = q
  BY ControlFacts DEF Agreement, LifecycleBase, TypeOK, StoreTypeOK, RuntimeTypeOK, ControlRight,
     WorkInSlot, StoreRight, SingleSlot

LEMMA DataFrame ==
    ASSUME DataRight, Quiet, inflight \subseteq Runs, inflight' \subseteq inflight,
           UNCHANGED <<exec, sessions, leases>>
    PROVE  DataRight'
<1>1. head' = head /\ \A q \in Runs : QuietOn(q)
  BY DEF Quiet
<1>2. RowsClean'
  BY <1>1 DEF DataRight, RowsClean, QuietOn, KeptOn
<1>3. RuntimeInSlot'
  BY <1>1 DEF DataRight, RuntimeInSlot, QuietOn, KeptOn, Unfinalized
<1>4. DecisionAgreement'
  BY <1>1 DEF DataRight, DecisionAgreement, QuietOn, KeptOn, Terminal
<1>5. CommitsRight'
  BY <1>1 DEF DataRight, CommitsRight, QuietOn, FinalizeAnswer, CommitReady
<1>6. SessionsRight'
  BY <1>1 DEF DataRight, SessionsRight, HeadSessionKept, QuietOn, KeptOn, Failing, Unfinalized
<1>7. AloneInRuntime' /\ RequestsRight'
  BY <1>1 DEF DataRight, AloneInRuntime, RequestsRight, QuietOn, KeptOn, Unfinalized
<1> QED
  BY <1>2, <1>3, <1>4, <1>5, <1>6, <1>7 DEF DataRight

(* The request meets an empty slot at the Runtime, whenever it arrives.    *)
LEMMA ArrivesData ==
    ASSUME Agreement, NEW r \in Runs, ExecuteArrives(r)
    PROVE  DataRight'
<1>0. /\ UNCHANGED <<rows, head, sessions, leases>> /\ inflight' = inflight \ {r}
      /\ exec' = exec \/ (CanReserve(r) /\ exec' = [exec EXCEPT ![r] = Reserved(r)])
  BY DEF ExecuteArrives, storeVars
<1>1. /\ Started(r) /\ rows[r].provider /\ rows[r].status # "succeeded"
      /\ exec[r].lifecycle = "none"
      /\ InSlot(r) \/ Late
  <2>1. r \in inflight
    BY DEF ExecuteArrives
  <2>2. ~Late => r = run /\ pc \in WorkingPcs
    BY <2>1, Facts DEF ControlRight, InflightRight, WorkingPcs, ExecutePcs
  <2> QED
    BY <2>1, <2>2, Facts DEF DataRight, RequestsRight
<1>2. CASE exec' = exec
  <2>1. Quiet
    BY <1>0, QuietFrame
  <2> QED
    BY <1>0, <1>2, <2>1, DataFrame, Facts
<1>3. CASE CanReserve(r) /\ exec' = [exec EXCEPT ![r] = Reserved(r)]
  <2>1. /\ exec'[r].lifecycle = "live" /\ exec'[r].candidate = "none"
        /\ exec'[r].outcome = "none" /\ exec'[r].baseline = sessions
        /\ exec'[r].source = rows[r].source
        /\ \A q \in Runs \ {r} : exec'[q] = exec[q]
    BY <1>3, Facts DEF Reserved, NoExecution
  <2>2. /\ Provider = "fake" => leases[r] = "held"
        /\ \A q \in Runs : ~Unfinalized(q)
    BY <1>3 DEF CanReserve
  <2>3. RuntimeInSlot'
    BY <1>0, <1>1, <2>1, <2>2, Facts DEF DataRight, RuntimeInSlot, Started, InSlot, Late,
       Unfinalized
  <2>4. DecisionAgreement'
    BY <1>0, <2>1, Facts DEF DataRight, DecisionAgreement
  <2>5. CommitsRight'
    BY <1>0, <1>1, <2>1, Facts DEF DataRight, CommitsRight, InSlot, FinalizeAnswer, CommitReady
  <2>6. r \notin sessions /\ rows[r].source # r
    <3>1. r \notin sessions
      BY <1>1, Facts DEF DataRight, SessionsRight
    <3>2. rows[r].source = r => rows[r].status = "succeeded"
      BY RunsAssumption, Facts DEF StoreRight, History, LinearHistory, NoSession
    <3> QED
      BY <1>1, <3>1, <3>2
  <2>7. SessionsRight'
    BY <1>0, <2>1, <2>2, <2>6, Facts DEF DataRight, SessionsRight, HeadSessionKept, Failing,
       Unfinalized
  <2>8. AloneInRuntime'
    BY <2>1, <2>2 DEF AloneInRuntime, Unfinalized
  <2>9. RequestsRight'
    BY <1>0, <2>1, Facts DEF DataRight, RequestsRight, Started
  <2> QED
    BY <1>0, <2>3, <2>4, <2>5, <2>7, <2>8, <2>9, Facts DEF DataRight, RowsClean
<1> QED
  BY <1>0, <1>2, <1>3

(* The worker's own steps. *)
LEMMA WorkerData ==
    ASSUME Agreement, NEW r \in Runs,
           SessionOpened(r) \/ CandidateCreated(r) \/ CandidateDurable(r) \/ WorkerEnds(r)
    PROVE  DataRight'
<1>0. /\ UNCHANGED <<rows, head, leases>> /\ exec[r].lifecycle = "live"
      /\ sessions \subseteq sessions' /\ sessions' \subseteq sessions \cup {r}
      /\ inflight' = inflight
  BY DEF SessionOpened, CandidateCreated, CandidateDurable, WorkerEnds, storeVars
<1>1. /\ \A q \in Runs \ {r} : exec'[q] = exec[q]
      /\ exec'[r].lifecycle \in {"live", "awaiting"}
      /\ exec'[r].baseline = exec[r].baseline /\ exec'[r].source = exec[r].source
      /\ exec'[r].outcome = "completed" => exec'[r].candidate = "durable"
      /\ Provider = "docker" /\ exec'[r].candidate # "none" /\ ~Failing(r) => r \in sessions'
  <2>1. exec[r] \in Execution
    BY Facts
  <2>2. /\ exec[r].outcome = "completed" => exec[r].candidate = "durable"
        /\ Provider = "docker" /\ exec[r].candidate # "none" /\ ~Failing(r) => r \in sessions
    BY <1>0, Facts DEF DataRight, CommitsRight, SessionsRight, Unfinalized
  <2>3. CASE SessionOpened(r)
    BY <1>0, <2>2, <2>3 DEF SessionOpened
  <2>4. CASE CandidateCreated(r)
    BY <2>1, <2>2, <2>4, Facts DEF CandidateCreated, Execution
  <2>5. CASE CandidateDurable(r)
    BY <2>1, <2>2, <2>5, Facts DEF CandidateDurable, Execution
  <2>6. CASE WorkerEnds(r)
    BY <2>1, <2>2, <2>6, Facts DEF WorkerEnds, Execution
  <2> QED
    BY <2>3, <2>4, <2>5, <2>6
<1>2. RuntimeInSlot'
  BY <1>0, <1>1, Facts DEF DataRight, RuntimeInSlot, Started, InSlot, Unfinalized
<1>3. DecisionAgreement'
  BY <1>0, <1>1, Facts DEF DataRight, DecisionAgreement
<1>4. CommitsRight'
  <2>1. ~(rows[r].status = "succeeded" /\ InSlot(r))
    BY <1>0, Facts DEF DataRight, CommitsRight, FinalizeAnswer
  <2> QED
    BY <1>0, <1>1, <2>1, Facts DEF DataRight, CommitsRight, InSlot, FinalizeAnswer, CommitReady
<1>5. SessionsRight'
  BY <1>0, <1>1, Facts DEF DataRight, SessionsRight, HeadSessionKept, Failing, Unfinalized
<1>6. AloneInRuntime' /\ RequestsRight'
  BY <1>0, <1>1, Facts DEF DataRight, AloneInRuntime, RequestsRight, Started, Unfinalized
<1> QED
  BY <1>0, <1>2, <1>3, <1>4, <1>5, <1>6, Facts DEF DataRight, RowsClean

(* A crash of the control plane takes the fake Runtime with it; a Runtime  *)
(* that restarts has nothing live any more.                                *)
LEMMA CrashData ==
    ASSUME Agreement, Crash
    PROVE  DataRight' /\ (~Late => inflight' = {})
<1>0. UNCHANGED <<rows, head>> /\ inflight' = IF Late THEN inflight ELSE {}
  BY DEF Crash, storeVars, Late
<1>1. CASE Provider = "docker"
  <2>1. Quiet /\ UNCHANGED <<exec, sessions, leases>>
    BY <1>0, <1>1, QuietFrame DEF Crash
  <2> QED
    BY <1>0, <2>1, DataFrame, Facts
<1>2. CASE Provider = "fake"
  <2>1. /\ sessions' = {} /\ \A r \in Runs : exec'[r] = NoExecution /\ leases'[r] = "none"
    BY <1>2 DEF Crash
  <2>2. inflight' = {}
    BY <1>0, <1>2 DEF Late
  <2> QED
    BY <1>0, <1>2, <2>1, <2>2, Facts DEF DataRight, RowsClean, RuntimeInSlot, AloneInRuntime,
       RequestsRight, DecisionAgreement, CommitsRight, SessionsRight, InSlot, Started, Unfinalized,
       NoExecution
<1> QED
  BY <1>1, <1>2, ProviderAssumption

LEMMA RestartData ==
    ASSUME Agreement, RuntimeRestarts
    PROVE  DataRight'
<1>0. UNCHANGED <<rows, head, sessions, leases>> /\ Provider = "docker"
      /\ inflight' = {}
  BY DEF RuntimeRestarts, storeVars
<1>1. ASSUME NEW r \in Runs
      PROVE  /\ exec'[r].baseline = exec[r].baseline /\ exec'[r].source = exec[r].source
             /\ exec'[r].candidate = exec[r].candidate
             /\ exec'[r].outcome = "completed" => exec[r].outcome = "completed"
             /\ exec'[r].lifecycle = IF Unfinalized(r) THEN "awaiting" ELSE exec[r].lifecycle
  <2>1. exec[r] \in Execution
    BY Facts
  <2> QED
    BY <2>1 DEF RuntimeRestarts, Execution
<1>2. RuntimeInSlot'
  BY <1>0, <1>1, Facts DEF DataRight, RuntimeInSlot, Started, InSlot, Unfinalized
<1>3. DecisionAgreement'
  BY <1>0, <1>1, Facts DEF DataRight, DecisionAgreement, Unfinalized
<1>4. CommitsRight'
  BY <1>0, <1>1, Facts DEF DataRight, CommitsRight, InSlot, FinalizeAnswer, CommitReady,
     Unfinalized
<1>5. SessionsRight'
  BY <1>0, <1>1, Facts DEF DataRight, SessionsRight, HeadSessionKept, Failing, Unfinalized
<1>6. AloneInRuntime' /\ RequestsRight'
  BY <1>0, <1>1, Facts DEF DataRight, AloneInRuntime, RequestsRight, Unfinalized
<1> QED
  BY <1>0, <1>2, <1>3, <1>4, <1>5, <1>6, Facts DEF DataRight, RowsClean

(* finalize(commit) is never refused: the row says that the run succeeded, *)
(* so its execution can be committed, or was lost with the fake.           *)
LEMMA CommitAnswered ==
    ASSUME Agreement, pc = "commitSession"
    PROVE  /\ run \in Runs /\ InSlot(run) /\ rows[run].status = "succeeded"
           /\ FinalizeAnswer(run, "committed") \in {"ok", "notFound"}
           /\ FinalizeAnswer(run, "committed") = "notFound" => Provider = "fake"
<1>1. run \in Runs /\ InSlot(run) /\ rows[run].status = "succeeded"
  BY Facts DEF ControlRight, DecisionAtWork, ViewsRight, StaleViewSafe, Agrees, WorkingPcs,
     FinishPcs, Terminal
<1> QED
  BY <1>1, ProviderAssumption, Facts DEF DataRight, CommitsRight, FinalizeAnswer

LEMMA CommitData ==
    ASSUME Agreement, CommitSession
    PROVE  DataRight' /\ pc' # "paused"
<1> DEFINE commits == /\ FinalizeAnswer(run, "committed") = "ok"
                      /\ exec' = Decided(run, "committed")
                      /\ sessions' = IF exec[run].lifecycle = "awaiting"
                                     THEN SessionsAfterCommit(run) ELSE sessions
<1>0. /\ UNCHANGED <<rows, head, leases, inflight, storeVars>> /\ pc = "commitSession"
      /\ run \in Runs /\ InSlot(run) /\ rows[run].status = "succeeded"
  BY CommitAnswered DEF CommitSession, storeVars
<1>1. (commits \/ UNCHANGED <<exec, sessions>>) /\ pc' # "paused"
  <2>1. fin.caller # "unpromoted"
    BY <1>0, Facts DEF ControlRight, ViewsRight, FinishPcs
  <2> QED
    BY CommitAnswered, <2>1 DEF CommitSession, Goto, FinishReturns, NextVisit, LoopAgain
<1>2. CASE UNCHANGED <<exec, sessions>>
  BY <1>0, <1>1, <1>2, QuietFrame, DataFrame, Facts
<1>3. CASE commits
  <2>1. /\ exec[run].lifecycle \in {"awaiting", "committed"}
        /\ \A q \in Runs \ {run} : exec'[q] = exec[q]
        /\ exec'[run] = [exec[run] EXCEPT !.lifecycle = "committed"]
        /\ exec[run] \in Execution
    BY <1>0, <1>3, Facts DEF Decided, FinalizeAnswer
  <2>2. /\ exec'[run].lifecycle = "committed" /\ exec'[run].source = exec[run].source
        /\ exec'[run].baseline = exec[run].baseline /\ exec'[run].outcome = exec[run].outcome
        /\ exec'[run].candidate = exec[run].candidate
        /\ exec[run].lifecycle \in {"awaiting", "committed"}
        /\ \A q \in Runs \ {run} : exec'[q] = exec[q]
    BY <2>1 DEF Execution
  <2>3. sessions \subseteq sessions' /\ sessions' \subseteq sessions \cup {run}
    BY <1>3 DEF SessionsAfterCommit
  <2> HIDE DEF commits
  <2>4. RuntimeInSlot'
    BY <1>0, <2>2, Facts DEF DataRight, RuntimeInSlot, Started, InSlot, Unfinalized
  <2>5. DecisionAgreement'
    BY <1>0, <2>2, Facts DEF DataRight, DecisionAgreement
  <2>6. CommitsRight'
    <3>1. CommitsRight
      BY Facts DEF DataRight
    <3> QED
      BY <1>0, <2>2, <2>3, <3>1 DEF CommitsRight, InSlot, FinalizeAnswer, CommitReady
  <2>7. SessionsRight'
    <3>1. SessionsRight /\ sessions \subseteq Runs
      BY Facts DEF DataRight
    <3>2. ASSUME Provider = "docker"
          PROVE  HeadSessionKept'
      BY <1>0, <2>3, <3>1, <3>2 DEF SessionsRight, HeadSessionKept
    <3>3. ASSUME NEW q \in Runs, Provider = "docker", Unfinalized(q)'
          PROVE  /\ exec'[q].candidate # "none" /\ ~Failing(q)' => q \in sessions'
                 /\ \A c \in Conversations :
                       head'[c] \in exec'[q].baseline \cup {NoSession, q}
      <4>1. q # run /\ exec'[q] = exec[q] /\ Unfinalized(q)
        BY <2>2, <3>3 DEF Unfinalized
      <4> QED
        BY <1>0, <2>3, <3>1, <3>3, <4>1 DEF SessionsRight, Failing
    <3> QED
      BY <1>0, <2>2, <2>3, <3>1, <3>2, <3>3 DEF SessionsRight
  <2>8. AloneInRuntime' /\ RequestsRight'
    BY <1>0, <2>2, Facts DEF DataRight, AloneInRuntime, RequestsRight, Started, Unfinalized
  <2> QED
    BY <1>0, <1>1, <2>4, <2>5, <2>6, <2>7, <2>8, Facts DEF DataRight, RowsClean
<1> QED
  BY <1>1, <1>2, <1>3

(* Leases taken and released. *)
LEMMA LeaseData ==
    ASSUME Agreement, Quiet, UNCHANGED <<exec, sessions, inflight>>, run \in Runs, InSlot(run),
           \/ Release(run) /\ (~Late => ~Unfinalized(run))
           \/ UNCHANGED leases
           \/ /\ Provider = "fake" /\ rows[run].provider
              /\ leases' = [leases EXCEPT ![run] = "held"]
    PROVE  DataRight'
<1>1. head' = head /\ \A q \in Runs : QuietOn(q)
  BY DEF Quiet
<1>2. RowsClean'
  BY <1>1, Facts DEF DataRight, RowsClean, QuietOn, KeptOn
<1>3. RuntimeInSlot'
  <2>1. RuntimeInSlot /\ leases \in [Runs -> {"none", "held", "released"}]
    BY Facts DEF DataRight
  <2>2. /\ \A q \in Runs : Unfinalized(q)' = Unfinalized(q)
        /\ \A q \in Runs \ {run} : leases'[q] = leases[q]
        /\ \/ leases'[run] = leases[run]
           \/ Provider # "docker" /\ ~Unfinalized(run) /\ leases'[run] = "released"
           \/ Provider = "fake" /\ rows[run].provider /\ leases'[run] = "held"
    BY <2>1 DEF Unfinalized, Release, Late
  <2>3. Started(run)
    BY DEF InSlot, Started
  <2> QED
    BY <1>1, <2>1, <2>2, <2>3 DEF RuntimeInSlot, QuietOn, KeptOn
<1>4. DecisionAgreement'
  BY <1>1, Facts DEF DataRight, DecisionAgreement, QuietOn, KeptOn, Terminal
<1>5. CommitsRight'
  BY <1>1, Facts DEF DataRight, CommitsRight, QuietOn, FinalizeAnswer, CommitReady
<1>6. SessionsRight'
  BY <1>1, Facts DEF DataRight, SessionsRight, HeadSessionKept, QuietOn, KeptOn, Failing, Unfinalized
<1>7. AloneInRuntime' /\ RequestsRight'
  BY <1>1, Facts DEF DataRight, AloneInRuntime, RequestsRight, QuietOn, KeptOn, Unfinalized
<1> QED
  BY <1>2, <1>3, <1>4, <1>5, <1>6, <1>7 DEF DataRight

(* The worker is stopped: nothing but its lifecycle changes. *)
LEMMA StoppedData ==
    ASSUME Agreement, AbortCancel
    PROVE  DataRight'
<1>0. /\ UNCHANGED <<rows, head, leases, sessions, inflight, storeVars>>
      /\ run \in Runs /\ exec' \in {exec, Stopped(run)}
  BY Facts DEF AbortCancel, storeVars, WorkingPcs, FinishPcs
<1>1. CASE exec' = exec
  BY <1>0, <1>1, QuietFrame, DataFrame, Facts
<1>2. CASE exec' # exec
  <2>1. /\ exec[run].lifecycle = "live" /\ exec'[run].lifecycle = "awaiting"
        /\ exec'[run].outcome = "failed" /\ exec'[run].candidate = exec[run].candidate
        /\ exec'[run].baseline = exec[run].baseline /\ exec'[run].source = exec[run].source
        /\ \A q \in Runs \ {run} : exec'[q] = exec[q]
    <3>1. exec[run] \in Execution
      BY <1>0, Facts
    <3> QED
      BY <1>0, <1>2, <3>1, Facts DEF Stopped, Execution
  <2>2. RuntimeInSlot'
    BY <1>0, <2>1, Facts DEF DataRight, RuntimeInSlot, Started, InSlot, Unfinalized
  <2>3. DecisionAgreement'
    BY <1>0, <2>1, Facts DEF DataRight, DecisionAgreement
  <2>4. CommitsRight'
    BY <1>0, <2>1, Facts DEF DataRight, CommitsRight, InSlot, FinalizeAnswer, CommitReady
  <2>5. SessionsRight'
    BY <1>0, <2>1, Facts DEF DataRight, SessionsRight, HeadSessionKept, Failing, Unfinalized
  <2>6. AloneInRuntime' /\ RequestsRight'
    BY <1>0, <2>1, Facts DEF DataRight, AloneInRuntime, RequestsRight, Started, Unfinalized
  <2> QED
    BY <1>0, <2>2, <2>3, <2>4, <2>5, <2>6, Facts DEF DataRight, RowsClean
<1> QED
  BY <1>1, <1>2

(* finalize(abort) is never refused either, and what it prunes is no       *)
(* conversation's head: the head is not the failing run's own session, and *)
(* every other session was there before the run began.                     *)
LEMMA AbortData ==
    ASSUME Agreement, AbortSession
    PROVE  DataRight' /\ pc' # "paused" /\ UNCHANGED <<storeVars, inflight>>
<1> DEFINE prune == sessions' = IF exec[run].lifecycle = "awaiting"
                                THEN SessionsAfterAbort(run) ELSE sessions
<1>0. /\ run \in Runs /\ InSlot(run) /\ Failing(run) /\ fin.caller # "unpromoted"
      /\ exec[run].lifecycle \in {"awaiting", "aborted"} /\ exec[run] \in Execution
  <2>1. /\ pc = "abortSession" /\ run \in Runs /\ InSlot(run) /\ Failing(run)
        /\ fin.caller # "unpromoted" /\ exec[run].lifecycle \notin {"none", "live"}
    BY Facts DEF AbortSession, ControlRight, DecisionAtWork, AbortPcs, RuntimeAtWork, ViewsRight,
       WorkingPcs, FinishPcs
  <2>2. exec[run].lifecycle # "committed" /\ exec[run] \in Execution
    BY <2>1, Facts DEF DataRight, DecisionAgreement, Failing
  <2> QED
    BY <2>1, <2>2 DEF Execution
<1>1. /\ UNCHANGED <<storeVars, inflight>> /\ pc' # "paused"
      /\ \/ UNCHANGED <<exec, sessions, leases>>
         \/ /\ FinalizeAnswer(run, "aborted") = "ok" /\ prune /\ exec' = Decided(run, "aborted")
            /\ Release(run)
         \/ /\ FinalizeAnswer(run, "aborted") = "ok" /\ prune /\ UNCHANGED leases
            /\ exec' \in {exec, Decided(run, "aborted")}
  BY <1>0 DEF AbortSession, FinalizeAnswer, Goto, FinishReturns, NextVisit, LoopAgain
<1>2. CASE UNCHANGED <<exec, sessions, leases>>
  BY <1>0, <1>1, <1>2, QuietFrame, DataFrame, Facts DEF storeVars
<1>3. CASE /\ FinalizeAnswer(run, "aborted") = "ok" /\ prune
           /\ \/ exec' = Decided(run, "aborted") /\ (Release(run) \/ UNCHANGED leases)
              \/ exec' = exec /\ UNCHANGED leases
  <2>0. UNCHANGED <<rows, head, inflight>>
    BY <1>1 DEF storeVars
  <2>1. /\ exec[run].lifecycle \in {"awaiting", "aborted"}
        /\ exec'[run].lifecycle \in {exec[run].lifecycle, "aborted"}
        /\ exec'[run].candidate = exec[run].candidate
        /\ exec'[run].outcome = exec[run].outcome
        /\ exec'[run].baseline = exec[run].baseline /\ exec'[run].source = exec[run].source
        /\ \A q \in Runs \ {run} : exec'[q] = exec[q]
    BY <1>0, <1>3, Facts DEF FinalizeAnswer, Decided, Execution
  <2>2. /\ Provider = "docker" => leases' = leases
        /\ \A q \in Runs \ {run} : leases'[q] = leases[q]
        /\ leases'[run] \in {leases[run], "released"}
        /\ exec'[run].lifecycle # "aborted" => leases' = leases
    BY <1>0, <1>3, <2>1, Facts DEF Release, Decided, Execution
  <2>3. sessions' \subseteq sessions \ {run}
    <3>1. /\ \A q \in sessions : exec[q].lifecycle \notin {"none", "aborted"}
          /\ run \notin exec[run].baseline /\ exec[run].source # run
      BY <1>0, <2>1, Facts DEF DataRight, SessionsRight
    <3> QED
      <4>1. CASE exec[run].lifecycle = "awaiting"
        BY <1>3, <3>1, <4>1 DEF SessionsAfterAbort
      <4>2. CASE exec[run].lifecycle = "aborted"
        BY <1>3, <3>1, <4>2 DEF SessionsAfterAbort
      <4> QED
        BY <2>1, <4>1, <4>2
  <2>4. ASSUME Provider = "docker"
        PROVE  HeadSessionKept'
    <3>1. CASE exec[run].lifecycle = "aborted"
      BY <1>3, <2>0, <2>4, <3>1, Facts DEF DataRight, SessionsRight, HeadSessionKept
    <3>2. ASSUME exec[run].lifecycle = "awaiting", NEW c \in Conversations, head[c] # NoSession
          PROVE  head[c] \in sessions'
      <4>1. head[c] # run
        BY <1>0, <3>2, Facts DEF StoreRight, History, HeadSucceeded, Failing
      <4>2. head[c] \in sessions /\ head[c] \in exec[run].baseline
        BY <1>0, <2>4, <3>2, <4>1, Facts DEF DataRight, SessionsRight, HeadSessionKept, Unfinalized
      <4> QED
        BY <1>3, <2>4, <3>2, <4>2 DEF SessionsAfterAbort
    <3> QED
      BY <2>0, <2>1, <3>1, <3>2 DEF HeadSessionKept
  <2> HIDE DEF prune
  <2>5. RuntimeInSlot'
    BY <1>0, <2>0, <2>1, <2>2, Facts DEF DataRight, RuntimeInSlot, Started, InSlot,
       Unfinalized
  <2>6. DecisionAgreement'
    BY <1>0, <2>0, <2>1, Facts DEF DataRight, DecisionAgreement, Failing
  <2>7. CommitsRight'
    BY <1>0, <2>0, <2>1, Facts DEF DataRight, CommitsRight, InSlot, FinalizeAnswer, CommitReady,
       Failing
  <2>8. SessionsRight'
    <3>1. ASSUME NEW q \in Runs, Unfinalized(q)'
          PROVE  q = run \/ (sessions' = sessions /\ exec'[q] = exec[q] /\ Unfinalized(q))
      <4>1. CASE exec[run].lifecycle = "awaiting"
        BY <1>0, <2>1, <3>1, <4>1, Facts DEF DataRight, AloneInRuntime, Unfinalized
      <4>2. CASE exec[run].lifecycle = "aborted"
        BY <1>0, <1>3, <2>1, <3>1, <4>2 DEF prune, Unfinalized
      <4> QED
        BY <2>1, <4>1, <4>2
    <3>2. /\ \A q \in sessions' : exec'[q].lifecycle \notin {"none", "aborted"}
          /\ \A q \in Runs : exec'[q].lifecycle # "none" =>
                q \notin exec'[q].baseline /\ exec'[q].source # q
      BY <1>0, <2>1, <2>3, Facts DEF DataRight, SessionsRight
    <3>3. ASSUME NEW q \in Runs, Provider = "docker", Unfinalized(q)'
          PROVE  /\ exec'[q].candidate # "none" /\ ~Failing(q)' => q \in sessions'
                 /\ \A c \in Conversations :
                       head'[c] \in exec'[q].baseline \cup {NoSession, q}
      <4>1. CASE q = run
        BY <1>0, <2>0, <2>1, <3>3, <4>1, Facts DEF DataRight, SessionsRight, Failing, Unfinalized
      <4>2. CASE sessions' = sessions /\ exec'[q] = exec[q] /\ Unfinalized(q)
        BY <2>0, <3>3, <4>2, Facts DEF DataRight, SessionsRight, Failing
      <4> QED
        BY <3>1, <3>3, <4>1, <4>2
    <3> QED
      BY <2>4, <3>2, <3>3 DEF SessionsRight
  <2>9. AloneInRuntime' /\ RequestsRight'
    BY <1>0, <2>0, <2>1, Facts DEF DataRight, AloneInRuntime, RequestsRight, Started, Unfinalized
  <2> QED
    BY <1>1, <2>0, <2>5, <2>6, <2>7, <2>8, <2>9, Facts DEF DataRight, RowsClean
<1> QED
  BY <1>1, <1>2, <1>3

(* The transactions that put a run into the slot, publish it and take it   *)
(* out.                                                                    *)
LEMMA ClaimData ==
    ASSUME Agreement, NEW r \in Runs, NEW k \in SUBSET Runs, ClaimNext(r, k),
           UNCHANGED <<exec, sessions, leases, inflight>>
    PROVE  DataRight'
<1>0. /\ head' = head /\ rows[r].status = "queued"
      /\ rows'[r].status = "running" /\ rows'[r].conflict = rows[r].conflict
      /\ rows'[r].provider = rows[r].provider
      /\ \A q \in Runs \ {r} : rows'[q] = rows[q]
      /\ \A q \in Runs : ~InSlot(q)
  <2>1. rows[r] \in Row /\ StoreBase
    BY Facts
  <2>2. /\ head' = head /\ rows[r].status = "queued"
        /\ rows'[r] = [rows[r] EXCEPT !.status = "running", !.phase = "preparing"]
        /\ \A q \in Runs \ {r} : rows'[q] = rows[q]
        /\ \A q \in Runs : ~InSlot(q)
    BY <2>1, ClaimEffect
  <2> QED
    BY <2>1, <2>2 DEF Row
<1>1. DataRight
  BY Facts
<1>2. RuntimeInSlot'
  BY <1>0, <1>1 DEF DataRight, RuntimeInSlot, Started, Unfinalized
<1>3. DecisionAgreement'
  BY <1>0, <1>1 DEF DataRight, DecisionAgreement, Terminal
<1>4. CommitsRight'
  BY <1>0, <1>1 DEF DataRight, CommitsRight, InSlot, FinalizeAnswer, CommitReady
<1>5. SessionsRight'
  BY <1>0, <1>1 DEF DataRight, SessionsRight, RuntimeInSlot, HeadSessionKept, Started, Failing,
     Unfinalized, Terminal
<1>6. AloneInRuntime' /\ RequestsRight'
  BY <1>0, <1>1, Facts DEF DataRight, AloneInRuntime, RequestsRight, Started, Unfinalized
<1> QED
  BY <1>0, <1>1, <1>2, <1>3, <1>4, <1>5, <1>6 DEF DataRight, RowsClean

LEMMA ProductsData ==
    ASSUME Agreement, NEW r \in Runs, r = run, pc = "products", CommitProducts(r),
           UNCHANGED <<exec, sessions, leases, inflight>>
    PROVE  DataRight'
<1>0. /\ rows[r].ref /\ rows[r].status = "running" /\ InSlot(r)
      /\ exec[r].lifecycle = "awaiting" /\ exec[r].candidate = "durable"
  BY Facts, CommitEffect DEF ControlRight, RuntimeAtWork, AttachedPcs, CompletedPcs, WorkingPcs,
     ExecutePcs
<1>1. /\ rows'[r].status = "succeeded" /\ rows'[r].conflict = rows[r].conflict
      /\ rows'[r].provider = rows[r].provider /\ rows'[r].ref = rows[r].ref
      /\ \A c \in Conversations : head'[c] \in {head[c], r}
      /\ \A q \in Runs \ {r} : rows'[q] = rows[q]
      /\ InSlot(r)'
  <2>1. rows[r] \in Row /\ StoreBase /\ head \in [Conversations -> Sessions]
    BY <1>0, Facts
  <2>2. /\ rows'[r] = [rows[r] EXCEPT !.status = "succeeded", !.candidate = r]
        /\ head' = [head EXCEPT ![rows[r].conv] = r]
        /\ \A q \in Runs \ {r} : rows'[q] = rows[q]
        /\ InSlot(r)'
    BY <1>0, <2>1, CommitEffect
  <2> QED
    BY <2>1, <2>2 DEF Row
<1>2. DataRight
  BY Facts
<1>3. RuntimeInSlot'
  BY <1>0, <1>1, <1>2 DEF DataRight, RuntimeInSlot, Started, Unfinalized, InSlot
<1>4. DecisionAgreement'
  BY <1>0, <1>1, <1>2 DEF DataRight, DecisionAgreement
<1>5. Provider = "docker" => r \in sessions
  BY <1>0, <1>2 DEF DataRight, SessionsRight, Unfinalized, Failing, Terminal
<1>6. CommitsRight'
  BY <1>0, <1>1, <1>2, <1>5 DEF DataRight, CommitsRight, InSlot, FinalizeAnswer, CommitReady
<1>7. SessionsRight'
  <2>1. ASSUME Provider = "docker"
        PROVE  HeadSessionKept'
    BY <1>1, <1>2, <1>5, <2>1 DEF DataRight, SessionsRight, HeadSessionKept
  <2>2. ASSUME NEW q \in Runs, Provider = "docker", Unfinalized(q)
        PROVE  q = r
    BY <1>0, <1>2, <2>2 DEF DataRight, AloneInRuntime, Unfinalized
  <2> QED
    BY <1>1, <1>2, <1>5, <2>1, <2>2 DEF DataRight, SessionsRight, Unfinalized
<1>8. AloneInRuntime' /\ RequestsRight'
  BY <1>0, <1>1, <1>2, Facts DEF DataRight, AloneInRuntime, RequestsRight, Started, Unfinalized
<1> QED
  BY <1>0, <1>1, <1>2, <1>3, <1>4, <1>6, <1>7, <1>8 DEF DataRight, RowsClean

LEMMA AcknowledgeData ==
    ASSUME Agreement, NEW r \in Runs, AcknowledgeFinalized(r), Free(r),
           UNCHANGED <<exec, sessions, leases, inflight>>
    PROVE  DataRight'
<1>0. /\ head' = head /\ rows'[r].status = rows[r].status
      /\ rows'[r].conflict = rows[r].conflict
      /\ rows'[r].provider = rows[r].provider /\ rows'[r].ref = rows[r].ref
      /\ \A q \in Runs \ {r} : rows'[q] = rows[q]
      /\ ~InSlot(r)'
  <2>1. rows[r] \in Row
    BY Facts
  <2> QED
    BY <2>1, AcknowledgeEffect, Facts DEF Row
<1>1. DataRight
  BY Facts
<1>2. RuntimeInSlot'
  BY <1>0, <1>1 DEF DataRight, RuntimeInSlot, Started, Free, Unfinalized, InSlot
<1>3. DecisionAgreement'
  BY <1>0, <1>1 DEF DataRight, DecisionAgreement
<1>4. CommitsRight'
  BY <1>0, <1>1 DEF DataRight, CommitsRight, InSlot, FinalizeAnswer, CommitReady
<1>5. SessionsRight'
  BY <1>0, <1>1 DEF DataRight, SessionsRight, HeadSessionKept, Failing, Unfinalized
<1>6. AloneInRuntime' /\ RequestsRight'
  BY <1>0, <1>1, Facts DEF DataRight, AloneInRuntime, RequestsRight, Started, Unfinalized
<1> QED
  BY <1>0, <1>1, <1>2, <1>3, <1>4, <1>5, <1>6 DEF DataRight, RowsClean

-----------------------------------------------------------------------------
(* The scheduler.  First what happens around it while it stands still:     *)
(* rows change quietly, a request arrives, a worker works and ends.        *)

LEMMA ControlFrame ==
    ASSUME Agreement, Quiet, UNCHANGED <<pc, run, startup, rec, fin, leases>>,
           inflight' \subseteq inflight,
           \A q \in Runs :
              /\ \/ exec'[q].lifecycle = exec[q].lifecycle
                 \/ exec[q].lifecycle = "live" /\ exec'[q].lifecycle = "awaiting"
                 \/ /\ exec[q].lifecycle = "none" /\ exec'[q].lifecycle = "live"
                    /\ q \in inflight /\ q \notin inflight'
              /\ exec[q].lifecycle # "none" /\ exec[q].candidate = "durable" =>
                    exec'[q].candidate = "durable"
    PROVE  ControlRight'
<1>0. ControlRight /\ inflight \subseteq Runs /\ \A q \in Runs : QuietOn(q)
  BY Facts DEF Quiet
<1>1. pc \in WorkingPcs => run \in Runs
  BY Facts
<1>2. ASSUME NEW q \in Runs
      PROVE  /\ exec[q].lifecycle \notin {"none", "live"} => exec'[q].lifecycle = exec[q].lifecycle
             /\ exec[q].lifecycle = "live" => exec'[q].lifecycle \in {"live", "awaiting"}
             /\ q \notin inflight /\ exec[q].lifecycle = "none" => exec'[q].lifecycle = "none"
             /\ q \notin inflight /\ Unfinalized(q)' => Unfinalized(q)
             /\ ~Late /\ pc \notin {"pump", "drain"} => (Unfinalized(q)' => Unfinalized(q))
  BY <1>0, <1>2 DEF ControlRight, InflightRight, Unfinalized
<1>3. WorkInSlot'
  <2>1. rec.todo \subseteq Runs
    BY Facts DEF TypeOK, SchedTypeOK
  <2> QED
    BY <1>0, <1>1, <2>1 DEF ControlRight, WorkInSlot, QuietOn, InSlot, Visiting, InPass
<1>4. ModeRight'
  BY <1>0 DEF ControlRight, ModeRight, NoStrandedRun, Active, QuietOn, Visiting, InPass
<1>5. InflightRight'
  BY <1>0 DEF ControlRight, InflightRight, UnsentPcs
<1>6. RuntimeAtWork'
  <2>1. /\ pc \in EarlyPcs \cup UnsentPcs \cup AttachedPcs \cup {"pump", "drain", "abortRecord",
              "abortSession", "headSession", "acknowledge", "absentRecord", "absentAck", "acquire",
              "attach", "failBare"} => pc \in WorkingPcs
        /\ {"pump", "drain"} \cap (EarlyPcs \cup UnsentPcs \cup CompletedPcs) = {}
    BY DEF EarlyPcs, UnsentPcs, AttachedPcs, CompletedPcs, WorkingPcs, FinishPcs, ExecutePcs
  <2>2. CompletedPcs \subseteq AttachedPcs
    BY DEF CompletedPcs, AttachedPcs
  <2>3. RuntimeAtWork /\ (pc \in UnsentPcs => run \notin inflight)
    BY <1>0 DEF ControlRight, InflightRight
  <2>4. pc \in {"acknowledge", "absentRecord", "absentAck"} => Free(run)'
    BY <1>1, <1>2, <2>1, <2>3 DEF RuntimeAtWork, Free
  <2>5. pc \in UnsentPcs => exec'[run].lifecycle = "none"
    BY <1>1, <1>2, <2>1, <2>3 DEF RuntimeAtWork
  <2>6. /\ pc = "abortRecord" =>
              /\ fin.found = "none" /\ ~Late => ~Unfinalized(run)'
              /\ fin.found = "awaiting" => exec'[run].lifecycle \notin {"none", "live"}
              /\ fin.found = "live" => exec'[run].lifecycle # "none"
        /\ pc \in {"abortCancel", "abortRelist"} => exec'[run].lifecycle # "none"
        /\ pc = "abortSession" => exec'[run].lifecycle \notin {"none", "live"}
        /\ pc = "headSession" => exec'[run].lifecycle = "committed"
    <3>1. pc \in {"abortRecord", "abortCancel", "abortRelist", "abortSession", "headSession"} =>
             run \in Runs
      BY <1>1 DEF WorkingPcs, FinishPcs
    <3> QED
      BY <1>2, <2>3, <3>1 DEF RuntimeAtWork
  <2>7. pc \in CompletedPcs => exec'[run].lifecycle = "awaiting" /\ exec'[run].candidate = "durable"
    BY <1>1, <1>2, <2>1, <2>2, <2>3 DEF RuntimeAtWork
  <2> QED
    BY <1>0, <1>1, <2>1, <2>2, <2>3, <2>4, <2>5, <2>6, <2>7 DEF RuntimeAtWork, QuietOn, KeptOn
<1>7. ListingRight'
  <2>1. ListingRight /\ rec.listed \subseteq Runs
    BY <1>0, Facts DEF ControlRight, TypeOK, SchedTypeOK
  <2>2. ~Late /\ (pc = "snapshot" \/ InPass) => Listed' \subseteq Listed
    BY <1>2 DEF Listed, InPass, Visiting, VisitPcs, FinishPcs
  <2> QED
    BY <1>0, <2>1, <2>2 DEF ListingRight, InPass, Visiting, QuietOn, KeptOn
<1>8. ViewsRight'
  <2>1. ViewsRight /\ rec.todo \subseteq Runs
    BY <1>0, Facts DEF ControlRight, TypeOK, SchedTypeOK
  <2>2. pc \in FinishPcs => run \in Runs
    BY <1>1 DEF WorkingPcs
  <2> QED
    BY <1>0, <2>1, <2>2 DEF ViewsRight, StaleViewSafe, Agrees, QuietOn, KeptOn
<1>9. DecisionAtWork'
  <2>1. pc \in AbortPcs => run \in Runs
    BY <1>1 DEF WorkingPcs, AbortPcs, FinishPcs
  <2> QED
    BY <1>0, <2>1 DEF ControlRight, DecisionAtWork, QuietOn, KeptOn, Failing, AbortPcs
<1> QED
  BY <1>0, <1>3, <1>4, <1>5, <1>6, <1>7, <1>8, <1>9 DEF ControlRight, NeverPaused

(* Then where control may go, whichever action takes it there.  QuietBut   *)
(* leaves one run free to leave the slot.                                  *)

QuietBut(r) ==
    \A q \in Runs :
        /\ KeptOn(q)
        /\ q # r => (InSlot(q)' <=> InSlot(q))
        /\ rows'[q].status = "running" => rows[q].status = "running"
        /\ rows'[q].status = "succeeded" <=> rows[q].status = "succeeded"
        /\ rows'[q].candidate = rows[q].candidate

LEMMA QuietIsQuietBut == ASSUME Quiet, NEW r \in Runs PROVE QuietBut(r)
  BY DEF Quiet, QuietOn, QuietBut

LEMMA AcknowledgeIsQuietBut ==
    ASSUME StoreBase, NEW r \in Runs, AcknowledgeFinalized(r)
    PROVE  QuietBut(r) /\ rows'[r].status # "running"
<1>1. rows[r] \in Row /\ rows'[r] = [rows[r] EXCEPT !.finalized = TRUE]
      /\ rows[r].status \in Terminal /\ \A q \in Runs \ {r} : rows'[q] = rows[q] /\ QuietOn(q)
  BY RowFacts, AcknowledgeEffect
<1> QED
  BY <1>1 DEF QuietBut, QuietOn, KeptOn, Started, Row, Terminal

LEMMA NothingInflight ==
    ASSUME Agreement, pc \notin {"pump", "drain"}
    PROVE  ~Late => inflight = {}
  BY Facts DEF ControlRight, InflightRight

(* Once start-up is over, a running row is in the hands of Execute. *)
LEMMA NobodyRuns ==
    ASSUME Agreement, ~startup, pc \notin ExecutePcs \cup {"register"},
           pc \in FinishPcs => fin.caller = "reconcile"
    PROVE  \A q \in Runs : rows[q].status # "running"
  BY Facts DEF ControlRight, ModeRight, NoStrandedRun, Active

LEMMA LoopAgainRight ==
    ASSUME NEW b \in BOOLEAN, LoopAgain(b), ~Late => inflight' = {},
           b \/ \A q \in Runs : rows'[q].status # "running"
    PROVE  ControlRight'
<1>0. pc' = "list" /\ startup' = b /\ rec' = NoReconcile
  BY DEF LoopAgain
<1>1. WorkInSlot' /\ ModeRight' /\ InflightRight'
  BY <1>0 DEF WorkInSlot, ModeRight, NoStrandedRun, InflightRight, Visiting, InPass, WorkingPcs,
     VisitPcs, FinishPcs, ExecutePcs, NoReconcile, EarlyPcs, UnsentPcs
<1>2. RuntimeAtWork'
  BY <1>0 DEF RuntimeAtWork, EarlyPcs, UnsentPcs, AttachedPcs, CompletedPcs
<1>3. ListingRight' /\ ViewsRight' /\ DecisionAtWork' /\ NeverPaused'
  BY <1>0 DEF ListingRight, ViewsRight, StaleViewSafe, DecisionAtWork, NeverPaused, AbortPcs,
     Visiting, InPass, VisitPcs, FinishPcs, NoReconcile
<1> QED
  BY <1>1, <1>2, <1>3 DEF ControlRight

LEMMA NextVisitRight ==
    ASSUME Agreement, NEW r \in Runs, r = run, NEW b \in BOOLEAN, NextVisit(b), Visiting,
           QuietBut(r), inflight' = inflight, Listed' \subseteq Listed,
           b \/ rows'[r].status # "running"
    PROVE  ControlRight'
<1>0. /\ pc' = "visit" /\ startup' = startup /\ rec'.todo = rec.todo \ {r}
      /\ rec'.listed = rec.listed /\ (~rec'.failed => ~rec.failed /\ ~b)
      /\ \A q \in Runs \ {r} : rec'.seen[q] = rec.seen[q]
      /\ rec.todo \subseteq Runs /\ rec.listed \subseteq Runs
  <2>1. rec \in [listed : SUBSET Runs, seen : [Runs -> Row], todo : SUBSET Runs, failed : BOOLEAN]
    BY Facts DEF TypeOK, SchedTypeOK
  <2> QED
    BY <2>1 DEF NextVisit
<1>1. /\ ControlRight /\ InPass /\ (~Late => inflight = {}) /\ pc \notin {"register"}
      /\ \A q \in Runs : ~Active(q)
  BY Facts, NothingInflight DEF Visiting, InPass, VisitPcs, FinishPcs, ExecutePcs, Active
<1>2. WorkInSlot' /\ InflightRight'
  BY <1>0, <1>1 DEF ControlRight, WorkInSlot, InflightRight, QuietBut, Visiting, InPass, WorkingPcs,
     VisitPcs, FinishPcs, ExecutePcs, EarlyPcs, UnsentPcs
<1>3. ModeRight'
  BY <1>0, <1>1 DEF ControlRight, ModeRight, NoStrandedRun, QuietBut, InPass, FinishPcs, ExecutePcs
<1>4. RuntimeAtWork'
  BY <1>0 DEF RuntimeAtWork, EarlyPcs, UnsentPcs, AttachedPcs, CompletedPcs
<1>5. ListingRight'
  BY <1>0, <1>1 DEF ControlRight, ListingRight, QuietBut, KeptOn
<1>6. ViewsRight' /\ DecisionAtWork' /\ NeverPaused'
  BY <1>0, <1>1 DEF ControlRight, ViewsRight, StaleViewSafe, Agrees, QuietBut, KeptOn,
     DecisionAtWork, NeverPaused, AbortPcs, FinishPcs
<1> QED
  BY <1>2, <1>3, <1>4, <1>5, <1>6 DEF ControlRight

LEMMA FinishReturnsRight ==
    ASSUME Agreement, NEW r \in Runs, r = run, pc \in FinishPcs, NEW b \in BOOLEAN,
           FinishReturns(b), QuietBut(r), inflight' = inflight, Listed' \subseteq Listed,
           b \/ rows'[r].status # "running"
    PROVE  ControlRight' /\ pc' # "paused"
<1>0. fin.caller \in {"success", "failure", "reconcile"} /\ (~Late => inflight' = {})
  BY Facts, NothingInflight DEF ControlRight, ViewsRight, FinishPcs
<1>1. CASE fin.caller = "reconcile"
  BY <1>1, NextVisitRight DEF FinishReturns, Visiting, NextVisit
<1>2. CASE fin.caller = "failure"
  BY <1>0, <1>2, LoopAgainRight DEF FinishReturns, LoopAgain
<1>3. CASE fin.caller = "success"
  <2>1. \A q \in Runs \ {r} : rows'[q].status # "running"
    BY <1>3, Facts DEF ControlRight, ModeRight, NoStrandedRun, QuietBut
  <2>2. LoopAgain(b)
    BY <1>3 DEF FinishReturns
  <2> QED
    BY <1>0, <2>1, <2>2, LoopAgainRight DEF LoopAgain
<1> QED
  BY <1>0, <1>1, <1>2, <1>3

(* A step of finishLease to the next. *)
LEMMA FinishGoes ==
    ASSUME Agreement, Quiet, pc \in FinishPcs, pc' \in FinishPcs, UNCHANGED <<run, startup, rec>>,
           fin'.view = fin.view, fin'.caller = fin.caller, inflight' = inflight,
           Listed' \subseteq Listed, RuntimeAtWork', DecisionAtWork'
    PROVE  ControlRight'
<1>0. /\ ControlRight /\ run \in Runs /\ (~Late => inflight = {}) /\ \A q \in Runs : QuietOn(q)
      /\ rec.todo \subseteq Runs /\ rec.listed \subseteq Runs
  BY Facts, NothingInflight DEF Quiet, FinishPcs, WorkingPcs, TypeOK, SchedTypeOK
<1>1. /\ pc' \in WorkingPcs /\ pc \in WorkingPcs
      /\ pc' \notin ExecutePcs \cup UnsentPcs \cup {"claim", "register"}
  BY DEF FinishPcs, WorkingPcs, ExecutePcs, EarlyPcs, UnsentPcs
<1>2. InPass' = InPass /\ Visiting' = Visiting
  BY DEF InPass, Visiting, VisitPcs, FinishPcs
<1>3. WorkInSlot' /\ InflightRight'
  BY <1>0, <1>1, <1>2 DEF ControlRight, WorkInSlot, InflightRight, QuietOn, InSlot
<1>4. ModeRight'
  <2>1. \A q \in Runs : Active(q) => Active(q)'
    BY DEF Active, FinishPcs, ExecutePcs
  <2> QED
    BY <1>0, <1>1, <1>2, <2>1 DEF ControlRight, ModeRight, NoStrandedRun, QuietOn, FinishPcs
<1>5. ListingRight'
  <2>1. pc # "snapshot" /\ pc' # "snapshot"
    BY DEF FinishPcs
  <2> QED
    BY <1>0, <1>2, <2>1 DEF ControlRight, ListingRight, QuietOn, KeptOn
<1>6. ViewsRight'
  BY <1>0 DEF ControlRight, ViewsRight, StaleViewSafe, Agrees, QuietOn, KeptOn
<1> QED
  BY <1>3, <1>4, <1>5, <1>6 DEF ControlRight, NeverPaused, FinishPcs

(* A step of Execute to the next. *)
LEMMA ExecuteGoes ==
    ASSUME Agreement, NEW r \in Runs, r = run, pc \in ExecutePcs \cup {"register"},
           pc' \in ExecutePcs, UNCHANGED <<run, startup, rec>>, InSlot(r)',
           \A q \in Runs : rows'[q].status = "running" => rows[q].status = "running",
           InflightRight', RuntimeAtWork'
    PROVE  ControlRight'
<1>0. ControlRight /\ ~startup /\ rec.todo = {}
  BY Facts DEF ControlRight, ModeRight, WorkInSlot, InPass, Visiting, VisitPcs, FinishPcs,
     ExecutePcs
<1>1. /\ pc' \notin FinishPcs \cup VisitPcs \cup AbortPcs
      /\ pc' \notin {"visit", "snapshot", "paused", "commitSession", "headSession", "register"}
      /\ pc \notin FinishPcs
  BY DEF ExecutePcs, FinishPcs, VisitPcs, AbortPcs
<1>2. ~InPass' /\ ~Visiting'
  BY <1>1 DEF InPass, Visiting
<1>3. WorkInSlot'
  BY <1>0, <1>2 DEF WorkInSlot, InSlot
<1>4. ModeRight'
  BY <1>0, <1>1, <1>2 DEF ControlRight, ModeRight, NoStrandedRun, Active
<1>5. ListingRight' /\ ViewsRight' /\ DecisionAtWork'
  BY <1>0, <1>1, <1>2 DEF ListingRight, ViewsRight, StaleViewSafe, DecisionAtWork, AbortPcs
<1> QED
  BY <1>1, <1>3, <1>4, <1>5 DEF ControlRight, NeverPaused

-----------------------------------------------------------------------------
(* Execute. *)

ProvidedPcs == {"acquire", "attach", "failBare"} \cup AttachedPcs

(* A quiet step of Execute that calls nobody, or nobody who remembers.     *)
LEMMA ExecuteMoves ==
    ASSUME Agreement, Quiet, UNCHANGED <<exec, leases, inflight>>, NEW r \in Runs, r = run,
           pc \in ExecutePcs \cup {"register"}, pc' \in ExecutePcs,
           UNCHANGED <<run, startup, rec, fin>>,
           pc' \in EarlyPcs => pc \in EarlyPcs,
           pc' \in UnsentPcs => pc \in UnsentPcs,
           pc' \in {"pump", "drain"} => pc \in {"pump", "drain"},
           pc' \notin {"pump", "drain"} => (~Late => inflight = {}),
           pc' \in ProvidedPcs => pc \in ProvidedPcs \/ rows'[r].provider,
           pc' \in AttachedPcs => pc \in AttachedPcs \/ rows'[r].ref,
           pc' \in CompletedPcs => \/ pc \in CompletedPcs
                                   \/ /\ exec[r].lifecycle = "awaiting"
                                      /\ exec[r].candidate = "durable"
    PROVE  ControlRight'
<1>0. /\ ControlRight /\ QuietOn(r) /\ InSlot(r)
      /\ \A q \in Runs : rows'[q].status = "running" => rows[q].status = "running"
  BY Facts DEF Quiet, QuietOn, WorkingPcs
<1>1. pc' \notin FinishPcs \cup VisitPcs
  BY DEF ExecutePcs, FinishPcs, VisitPcs
<1>2. RuntimeAtWork'
  BY <1>0, <1>1 DEF ControlRight, RuntimeAtWork, ProvidedPcs, QuietOn, KeptOn, FinishPcs, VisitPcs
<1>3. InflightRight'
  BY <1>0 DEF ControlRight, InflightRight
<1> QED
  BY <1>0, <1>2, <1>3, ExecuteGoes DEF QuietOn, InSlot

LEMMA PrepareControl ==
    ASSUME Agreement, Register \/ Prepare \/ Check \/ Recheck \/ Validate \/ Publish
    PROVE  ControlRight' /\ DataRight'
<1> USE DEF EarlyPcs, UnsentPcs, AttachedPcs, ProvidedPcs, CompletedPcs, ExecutePcs
<1>0. /\ UNCHANGED <<rows, head, exec, sessions, leases, inflight, run, startup, rec, fin>>
      /\ <<pc, pc'>> \in {<<"register", "prepare">>, <<"prepare", "refresh">>,
                          <<"prepare", "failAbsent">>, <<"check", "send">>, <<"check", "failLease">>,
                          <<"recheck", "validate">>, <<"recheck", "failLease">>,
                          <<"validate", "publishing">>, <<"validate", "failLease">>,
                          <<"publish", "products">>, <<"publish", "failLease">>}
  BY DEF Register, Prepare, Check, Recheck, Validate, Publish, ContextRead, Goto, storeVars,
     runtimeVars
<1>1. Quiet /\ run \in Runs /\ pc \in ExecutePcs \cup {"register"} /\ (~Late => inflight = {})
  BY <1>0, QuietFrame, NothingInflight, Facts DEF WorkingPcs
<1>2. DataRight'
  BY <1>0, <1>1, DataFrame, Facts
<1> QED
  BY <1>0, <1>1, <1>2, ExecuteMoves

LEMMA TransactionControl ==
    ASSUME Agreement, Refresh \/ Intent \/ Attach \/ Publishing
    PROVE  ControlRight' /\ DataRight'
<1> USE DEF EarlyPcs, UnsentPcs, AttachedPcs, ProvidedPcs, CompletedPcs, ExecutePcs
<1>0. /\ UNCHANGED <<exec, sessions, leases, inflight, run, startup, rec, fin>>
      /\ <<pc, pc'>> \in {<<"refresh", "intent">>, <<"refresh", "failAbsent">>,
                          <<"intent", "acquire">>, <<"intent", "failAbsent">>,
                          <<"attach", "check">>, <<"attach", "failBare">>,
                          <<"publishing", "publish">>, <<"publishing", "failLease">>}
      /\ \/ UNCHANGED storeVars \/ RefreshSource(run) \/ BeginSandboxAcquire(run)
         \/ AttachSandboxRef(run) \/ SetPhase(run, "publishing")
      /\ pc' = "acquire" => BeginSandboxAcquire(run)
      /\ pc' = "check" => AttachSandboxRef(run)
  BY DEF Refresh, Intent, Attach, Publishing, ContextTx, Goto, runtimeVars, Unacknowledged
<1>1. run \in Runs /\ StoreBase /\ pc \in ExecutePcs \cup {"register"} /\ (~Late => inflight = {})
  BY <1>0, NothingInflight, Facts DEF WorkingPcs
<1>2. Quiet
  BY <1>0, <1>1, QuietTx DEF Phase
<1>3. /\ pc' = "acquire" => rows'[run].provider
      /\ pc' = "check" => rows'[run].ref /\ rows'[run].provider
  BY <1>0, <1>1, RowFacts, Facts DEF BeginSandboxAcquire, AttachSandboxRef, CanAttachSandboxRef, Row
<1>4. DataRight'
  BY <1>0, <1>2, DataFrame, Facts
<1> QED
  BY <1>0, <1>1, <1>2, <1>3, <1>4, ExecuteMoves

LEMMA AcquireControl ==
    ASSUME Agreement, Acquire
    PROVE  ControlRight' /\ DataRight'
<1> USE DEF EarlyPcs, UnsentPcs, AttachedPcs, ProvidedPcs, CompletedPcs, ExecutePcs
<1>0. /\ UNCHANGED <<rows, head, exec, sessions, inflight, run, startup, rec, fin>>
      /\ pc = "acquire"
      /\ \/ pc' = "failAbsent" /\ leases' = leases
         \/ /\ pc' = "attach"
            /\ leases' = IF Provider = "fake" /\ leases[run] = "none"
                         THEN [leases EXCEPT ![run] = "held"] ELSE leases
  BY DEF Acquire, Goto, storeVars
<1>1. /\ Quiet /\ run \in Runs /\ InSlot(run) /\ (~Late => inflight = {})
      /\ rows[run].provider /\ exec[run].lifecycle = "none" /\ rows[run].status # "succeeded"
      /\ run \notin inflight
  BY <1>0, QuietFrame, NothingInflight, Facts DEF WorkingPcs, ControlRight, RuntimeAtWork,
     InflightRight
<1>2. DataRight'
  BY <1>0, <1>1, LeaseData
<1>3. CASE leases' = leases
  BY <1>0, <1>1, <1>2, <1>3, ExecuteMoves
<1>4. CASE pc' = "attach"
  <2>1. RuntimeAtWork' /\ InflightRight' /\ InSlot(run)'
    BY <1>0, <1>1, <1>4 DEF RuntimeAtWork, InflightRight, InSlot, FinishPcs, VisitPcs
  <2> QED
    BY <1>0, <1>1, <1>2, <1>4, <2>1, ExecuteGoes
<1> QED
  BY <1>0, <1>3, <1>4

LEMMA SendControl ==
    ASSUME Agreement, Send
    PROVE  ControlRight' /\ DataRight'
<1> USE DEF EarlyPcs, UnsentPcs, AttachedPcs, CompletedPcs, ExecutePcs
<1>0. /\ UNCHANGED <<rows, head, exec, sessions, leases, run, startup, rec, fin>>
      /\ pc = "send" /\ pc' = "pump" /\ inflight' = inflight \cup {run}
  BY DEF Send, Goto, storeVars
<1>1. /\ Quiet /\ run \in Runs /\ InSlot(run) /\ (~Late => inflight = {})
      /\ rows[run].provider /\ rows[run].ref /\ exec[run].lifecycle = "none"
      /\ rows[run].status # "succeeded"
  BY <1>0, QuietFrame, NothingInflight, Facts DEF WorkingPcs, ControlRight, RuntimeAtWork
<1>2. DataRight'
  <2>1. DataRight /\ Started(run)
    BY <1>1, Facts DEF InSlot, Started
  <2> QED
    BY <1>0, <1>1, <2>1 DEF DataRight, RowsClean, RuntimeInSlot, AloneInRuntime, RequestsRight,
       DecisionAgreement, CommitsRight, SessionsRight, HeadSessionKept, InSlot, Started, Failing,
       Unfinalized, FinalizeAnswer, CommitReady
<1>3. RuntimeAtWork' /\ InflightRight' /\ InSlot(run)'
  BY <1>0, <1>1 DEF RuntimeAtWork, InflightRight, InSlot, FinishPcs, VisitPcs
<1> QED
  BY <1>0, <1>1, <1>2, <1>3, ExecuteGoes

LEMMA PumpControl ==
    ASSUME Agreement, PumpPhase \/ PumpEventLost \/ PumpTerminal
    PROVE  ControlRight' /\ DataRight'
<1> USE DEF EarlyPcs, UnsentPcs, AttachedPcs, ProvidedPcs, CompletedPcs, ExecutePcs
<1>0. /\ UNCHANGED <<exec, sessions, leases, inflight, run, startup, rec, fin>>
      /\ pc \in {"pump", "drain"} /\ pc' \in {"pump", "drain", "recheck", "failLease"}
      /\ \/ UNCHANGED storeVars \/ SetPhase(run, "agent") \/ RecordAgentFailed(run)
      /\ pc' \in {"recheck", "failLease"} => exec[run].lifecycle = "awaiting"
      /\ pc' = "recheck" => exec[run].outcome = "completed"
  BY DEF PumpPhase, PumpEventLost, PumpTerminal, PhaseDue, RecordPhase, Goto, runtimeVars,
     schedVars, Unacknowledged
<1>1. run \in Runs /\ StoreBase
  BY <1>0, Facts DEF WorkingPcs
<1>2. Quiet
  BY <1>0, <1>1, QuietTx DEF Phase
<1>3. DataRight'
  BY <1>0, <1>2, DataFrame, Facts
<1>4. /\ pc' \in {"recheck", "failLease"} => (~Late => inflight = {})
      /\ pc' = "recheck" => exec[run].candidate = "durable"
  BY <1>0, <1>1, Facts DEF ControlRight, InflightRight, DataRight, CommitsRight,
     RequestsRight
<1> QED
  BY <1>0, <1>1, <1>2, <1>3, <1>4, ExecuteMoves

(* The request is given up together with its stream, unless it is late.    *)
LEMMA PumpErrorControl ==
    ASSUME Agreement, PumpError
    PROVE  ControlRight' /\ DataRight'
<1> USE DEF EarlyPcs, UnsentPcs, AttachedPcs, CompletedPcs, ExecutePcs
<1>0. /\ UNCHANGED <<rows, head, exec, sessions, leases, run, startup, rec, fin>>
      /\ pc \in {"pump", "drain"} /\ pc' = "failLease"
      /\ inflight' = IF Late THEN inflight ELSE inflight \ {run}
  BY DEF PumpError, Goto, storeVars, Late
<1>1. /\ Quiet /\ run \in Runs /\ InSlot(run) /\ (~Late => inflight' = {})
      /\ inflight' \subseteq inflight
      /\ rows[run].provider /\ rows[run].ref
  BY <1>0, QuietFrame, Facts DEF WorkingPcs, ControlRight, RuntimeAtWork, InflightRight
<1>2. DataRight'
  BY <1>0, <1>1, DataFrame, Facts
<1>3. RuntimeAtWork' /\ InflightRight' /\ InSlot(run)'
  BY <1>0, <1>1 DEF RuntimeAtWork, InflightRight, InSlot, FinishPcs, VisitPcs
<1> QED
  BY <1>0, <1>1, <1>2, <1>3, ExecuteGoes

LEMMA ProductsControl ==
    ASSUME Agreement, Products
    PROVE  ControlRight' /\ DataRight'
<1> USE DEF EarlyPcs, UnsentPcs, AttachedPcs, CompletedPcs, ExecutePcs
<1>0. /\ UNCHANGED <<exec, sessions, leases, inflight, run, startup, rec, fin>>
      /\ pc = "products" /\ pc' \in {"promoted", "failLease"}
      /\ UNCHANGED <<rows, head>> \/ CommitProducts(run)
  BY DEF Products, ContextTx, Goto, runtimeVars, Unacknowledged, storeVars
<1>1. PICK r \in Runs : r = run
  BY <1>0, Facts DEF WorkingPcs
<1>2. /\ InSlot(r) /\ rows[r].provider /\ rows[r].ref /\ (~Late => inflight = {}) /\ StoreBase
      /\ rows[r] \in Row
  BY <1>0, <1>1, NothingInflight, Facts DEF WorkingPcs, ControlRight, RuntimeAtWork
<1>3. DataRight' /\ InSlot(r)' /\ rows'[r].provider /\ rows'[r].ref
      /\ \A q \in Runs : rows'[q].status = "running" => rows[q].status = "running"
  <2>1. CASE UNCHANGED <<rows, head>>
    BY <1>0, <1>2, <2>1, QuietFrame, DataFrame, Facts DEF InSlot
  <2>2. CASE CommitProducts(r)
    <3>1. DataRight'
      BY <1>0, <1>1, <2>2, ProductsData
    <3>2. /\ rows'[r] = [rows[r] EXCEPT !.status = "succeeded", !.candidate = r]
          /\ InSlot(r)' /\ \A q \in Runs \ {r} : rows'[q] = rows[q]
      BY <1>2, <2>2, CommitEffect
    <3> QED
      BY <1>2, <3>1, <3>2, ZenonT(40) DEF Row
  <2> QED
    BY <1>0, <1>1, <2>1, <2>2
<1>4. RuntimeAtWork' /\ InflightRight'
  BY <1>0, <1>1, <1>2, <1>3 DEF RuntimeAtWork, InflightRight, FinishPcs, VisitPcs
<1> QED
  BY <1>0, <1>1, <1>3, <1>4, ExecuteGoes

(* Cleanup starts from the row as it is. *)
LEMMA FinishStarts ==
    ASSUME Agreement, NEW r \in Runs, r = run, NEW caller \in {"success", "failure"},
           FinishLease(rows[r], caller), pc \in {"promoted", "failRead"}, UNCHANGED rows,
           ~Late => inflight' = {}
    PROVE  ControlRight'
<1>0. /\ pc' = "finish" /\ fin'.view = rows[r] /\ fin'.caller = caller
      /\ UNCHANGED <<run, startup, rec>>
  BY DEF FinishLease
<1>1. /\ ControlRight /\ InSlot(r) /\ ~startup /\ rec.todo = {}
      /\ ~rows[r].conflict /\ (rows[r].status = "succeeded" => rows[r].ref)
  BY Facts DEF DataRight, RowsClean, ControlRight, ModeRight, WorkInSlot, InPass, Visiting,
     VisitPcs, FinishPcs, ExecutePcs, WorkingPcs
<1>2. ~InPass' /\ ~Visiting'
  BY <1>0 DEF InPass, Visiting, VisitPcs
<1>3. WorkInSlot' /\ InflightRight'
  BY <1>0, <1>1, <1>2 DEF WorkInSlot, InflightRight, InSlot, EarlyPcs, UnsentPcs
<1>4. ModeRight'
  BY <1>0, <1>1, <1>2 DEF ControlRight, ModeRight, NoStrandedRun, Active, FinishPcs, ExecutePcs
<1>5. RuntimeAtWork' /\ DecisionAtWork' /\ NeverPaused'
  BY <1>0 DEF RuntimeAtWork, DecisionAtWork, NeverPaused, EarlyPcs, UnsentPcs, AttachedPcs,
     CompletedPcs, AbortPcs
<1>6. ListingRight' /\ ViewsRight'
  BY <1>0, <1>1, <1>2 DEF ListingRight, ViewsRight, StaleViewSafe, Agrees, Sound, InSlot, FinishPcs
<1> QED
  BY <1>3, <1>4, <1>5, <1>6 DEF ControlRight

LEMMA FailControl ==
    ASSUME Agreement, Promoted \/ Fail \/ FailAcknowledge \/ FailRead
    PROVE  ControlRight' /\ DataRight'
<1> USE DEF EarlyPcs, UnsentPcs, AttachedPcs, ProvidedPcs, CompletedPcs, ExecutePcs
<1>0. /\ pc \in {"promoted", "failAbsent", "failLease", "failBare", "failAck", "failRead"}
      /\ UNCHANGED <<exec, sessions, leases, inflight>>
  BY DEF Promoted, Fail, FailAcknowledge, FailRead, AfterFailure, runtimeVars
<1>1. (~Late => inflight' = {}) /\ StoreBase
  BY <1>0, NothingInflight, Facts
<1>2. PICK r \in Runs : r = run
  BY <1>0, Facts DEF WorkingPcs
<1>3. CASE Promoted \/ FailRead
  <2>1. UNCHANGED <<rows, head>> /\ pc \in {"promoted", "failRead"}
    BY <1>3 DEF Promoted, FailRead, storeVars
  <2>2. DataRight'
    BY <1>0, <2>1, QuietFrame, DataFrame, Facts
  <2>3. LoopAgain(TRUE) \/ \E caller \in {"success", "failure"} : FinishLease(rows[r], caller)
    BY <1>2, <1>3 DEF Promoted, FailRead
  <2> QED
    BY <1>1, <1>2, <2>1, <2>2, <2>3, LoopAgainRight, FinishStarts
<1>4. CASE Fail
  <2>1. UNCHANGED storeVars \/ RecordFailure(r, "failed")
    BY <1>2, <1>4 DEF Fail, Unacknowledged
  <2>2. Quiet
    BY <1>1, <2>1, QuietTx
  <2>3. DataRight'
    BY <1>0, <2>2, DataFrame, Facts
  <2>4. \/ LoopAgain(TRUE)
        \/ /\ <<pc, pc'>> \in {<<"failAbsent", "failAck">>, <<"failLease", "failRead">>}
           /\ UNCHANGED <<run, startup, rec, fin>>
    <3>1. /\ pc \in {"failAbsent", "failLease", "failBare"}
          /\ LoopAgain(TRUE) \/ (AfterFailure[pc] # "list" /\ Goto(AfterFailure[pc]))
      BY <1>4 DEF Fail, AfterFailure
    <3>2. /\ AfterFailure["failAbsent"] = "failAck" /\ AfterFailure["failLease"] = "failRead"
          /\ AfterFailure["failBare"] = "list"
      BY DEF AfterFailure
    <3> QED
      BY <3>1, <3>2 DEF Goto
  <2> QED
    BY <1>0, <1>1, <1>2, <2>2, <2>3, <2>4, LoopAgainRight, ExecuteMoves
<1>5. CASE FailAcknowledge
  <2>1. LoopAgain(TRUE) /\ (UNCHANGED storeVars \/ AcknowledgeFinalized(r))
    BY <1>2, <1>5 DEF FailAcknowledge, Unacknowledged
  <2>2. Free(r)
    BY <1>2, <1>5, Facts DEF FailAcknowledge, ControlRight, RuntimeAtWork, Free, Unfinalized
  <2>3. DataRight'
    BY <1>0, <2>1, <2>2, QuietFrame, DataFrame, AcknowledgeData, Facts DEF storeVars
  <2> QED
    BY <1>1, <2>1, <2>3, LoopAgainRight
<1> QED
  BY <1>3, <1>4, <1>5

-----------------------------------------------------------------------------
(* finishLease. *)

LEMMA FinishFacts ==
    ASSUME Agreement, pc \in FinishPcs
    PROVE  /\ run \in Runs /\ InSlot(run) /\ rows[run] \in Row /\ exec[run] \in Execution
           /\ Sound(fin.view) /\ Agrees(fin.view, run) /\ fin.view \in Row
           /\ fin.caller \in {"success", "failure", "reconcile"}
           /\ fin \in [view : Row, found : {"none", "live", "awaiting"},
                       caller : {"nobody", "success", "failure", "reconcile", "unpromoted"}]
           /\ RuntimeAtWork /\ DecisionAtWork /\ StoreBase /\ DataRight
<1>1. fin \in [view : Row, found : {"none", "live", "awaiting"},
               caller : {"nobody", "success", "failure", "reconcile", "unpromoted"}]
  BY Facts DEF TypeOK, SchedTypeOK
<1> QED
  BY <1>1, Facts
     DEF ControlRight, ViewsRight, StaleViewSafe, FinishPcs, WorkingPcs

LEMMA ListedShrinks ==
    ASSUME \A q \in Runs : (Unfinalized(q)' => Unfinalized(q))
                           /\ (leases'[q] = "held" => leases[q] = "held")
    PROVE  Listed' \subseteq Listed
  BY DEF Listed

LEMMA ListedStays == ASSUME UNCHANGED <<exec, leases>> PROVE Listed' \subseteq Listed
  BY DEF Listed, Unfinalized

LEMMA FinishControl ==
    ASSUME Agreement, Finish
    PROVE  ControlRight' /\ DataRight'
<1>0. pc = "finish" /\ UNCHANGED <<rows, head, exec, sessions, leases, inflight>>
  BY DEF Finish, storeVars, runtimeVars
<1>1. PICK r \in Runs : r = run
  BY <1>0, FinishFacts DEF FinishPcs
<1>2. Quiet /\ DataRight' /\ Listed' \subseteq Listed /\ QuietBut(r)
  BY <1>0, <1>1, QuietFrame, DataFrame, QuietIsQuietBut, ListedStays, Facts
<1>3. \/ Goto("abortList") /\ fin.view.status # "succeeded"
      \/ Goto("commitSession") /\ fin.view.status = "succeeded"
      \/ FinishReturns(TRUE)
  <2>1. fin.view.status = "succeeded" => rows[run].candidate = head[rows[run].conv]
    <3>1. CASE fin.view.status = "succeeded"
      <4>1. rows[r].status = "succeeded" /\ ~rows[r].finalized /\ Shaped(rows[r], r)
        BY <1>0, <1>1, <3>1, FinishFacts, RowFacts DEF Agrees, InSlot, Terminal, FinishPcs
      <4> QED
        BY <1>1, <4>1, Facts DEF StoreRight, PromotedUntilSettled, Shaped
    <3> QED
      BY <3>1
  <2>2. ~(fin.view.conflict \/ fin.view.status \in {"none", "queued"})
    BY <1>0, FinishFacts DEF Sound, FinishPcs
  <2> QED
    BY <2>1, <2>2 DEF Finish, Published
<1>4. CASE FinishReturns(TRUE)
  BY <1>0, <1>1, <1>2, <1>4, FinishReturnsRight DEF FinishPcs
<1>5. CASE \/ Goto("abortList") /\ fin.view.status # "succeeded"
           \/ Goto("commitSession") /\ fin.view.status = "succeeded"
  <2>1. pc' \in {"abortList", "commitSession"} /\ UNCHANGED <<run, startup, rec, fin>>
    BY <1>5 DEF Goto
  <2>2. RuntimeAtWork'
    BY <2>1 DEF RuntimeAtWork, EarlyPcs, UnsentPcs, AttachedPcs, CompletedPcs
  <2>3. DecisionAtWork'
    BY <1>5, <2>1 DEF DecisionAtWork, AbortPcs, Goto
  <2> QED
    BY <1>0, <1>2, <2>1, <2>2, <2>3, FinishGoes DEF FinishPcs
<1> QED
  BY <1>2, <1>3, <1>4, <1>5

LEMMA CommitControl ==
    ASSUME Agreement, CommitSession
    PROVE  ControlRight' /\ DataRight'
<1>0. pc = "commitSession" /\ UNCHANGED <<rows, head, leases, inflight>>
  BY DEF CommitSession, storeVars
<1>1. PICK r \in Runs : r = run
  BY <1>0, FinishFacts DEF FinishPcs
<1>2. /\ \A q \in Runs : exec'[q] = exec[q] \/ (q = r /\ exec'[q].lifecycle = "committed")
      /\ \/ FinishReturns(TRUE)
         \/ Goto("headSession") /\ exec'[r].lifecycle = "committed"
  <2>1. exec \in [Runs -> Execution]
    BY Facts
  <2> QED
    BY <1>0, <1>1, <2>1, CommitAnswered DEF CommitSession, Decided, Execution
<1>3. Quiet /\ QuietBut(r) /\ Listed' \subseteq Listed
  BY <1>0, <1>1, <1>2, QuietFrame, QuietIsQuietBut, ListedShrinks DEF Unfinalized
<1>4. CASE FinishReturns(TRUE)
  BY <1>0, <1>1, <1>3, <1>4, FinishReturnsRight, CommitData DEF FinishPcs
<1>5. CASE Goto("headSession") /\ exec'[r].lifecycle = "committed"
  <2>1. pc' = "headSession" /\ UNCHANGED <<run, startup, rec, fin>>
    BY <1>5 DEF Goto
  <2>2. RuntimeAtWork'
    BY <1>1, <1>5, <2>1 DEF RuntimeAtWork, EarlyPcs, UnsentPcs, AttachedPcs, CompletedPcs
  <2>3. DecisionAtWork'
    BY <1>0, <2>1, FinishFacts DEF DecisionAtWork, AbortPcs, FinishPcs
  <2> QED
    BY <1>0, <1>3, <2>1, <2>2, <2>3, FinishGoes, CommitData DEF FinishPcs
<1> QED
  BY <1>2, <1>4, <1>5

(* Once the lease is released nothing holds the run any more. *)
LEMMA ReleasedGoes ==
    ASSUME Agreement, Quiet, NEW r \in Runs, r = run, pc \in FinishPcs, pc' = "acknowledge",
           UNCHANGED <<run, startup, rec>>, fin'.view = fin.view, fin'.caller = fin.caller,
           inflight' = inflight, Release(r), ~Late => ~Unfinalized(r)',
           \A q \in Runs : Unfinalized(q)' => Unfinalized(q)
    PROVE  ControlRight'
<1>1. Listed' \subseteq Listed /\ leases'[r] # "held"
  <2>1. /\ leases \in [Runs -> {"none", "held", "released"}]
        /\ Provider = "docker" => leases[r] = "none"
    BY Facts DEF DataRight, RuntimeInSlot
  <2> QED
    BY <2>1, ListedShrinks DEF Release
<1>2. RuntimeAtWork'
  BY <1>1 DEF RuntimeAtWork, EarlyPcs, UnsentPcs, AttachedPcs, CompletedPcs, Free
<1>3. DecisionAtWork'
  BY DEF DecisionAtWork, AbortPcs
<1> QED
  BY <1>1, <1>2, <1>3, FinishGoes DEF FinishPcs

LEMMA HeadControl ==
    ASSUME Agreement, HeadSession
    PROVE  ControlRight' /\ DataRight'
<1>0. pc = "headSession" /\ UNCHANGED <<rows, head, exec, sessions, inflight>>
  BY DEF HeadSession, storeVars
<1>1. PICK r \in Runs : r = run
  BY <1>0, FinishFacts DEF FinishPcs
<1>2. Quiet /\ QuietBut(r) /\ InSlot(r) /\ exec[r].lifecycle = "committed"
  BY <1>0, <1>1, QuietFrame, QuietIsQuietBut, FinishFacts DEF FinishPcs, RuntimeAtWork
<1>3. \/ FinishReturns(TRUE) /\ UNCHANGED leases
      \/ Release(r) /\ Goto("acknowledge")
  BY <1>1 DEF HeadSession
<1>4. CASE FinishReturns(TRUE) /\ UNCHANGED leases
  BY <1>0, <1>1, <1>2, <1>4, FinishReturnsRight, DataFrame, ListedStays, Facts DEF FinishPcs
<1>5. CASE Release(r) /\ Goto("acknowledge")
  BY <1>0, <1>1, <1>2, <1>5, ReleasedGoes, LeaseData DEF FinishPcs, Unfinalized, Goto
<1> QED
  BY <1>3, <1>4, <1>5

LEMMA AbortListControl ==
    ASSUME Agreement, AbortList
    PROVE  ControlRight' /\ DataRight'
<1> DEFINE found == FoundExecution(run)
<1>0. pc = "abortList" /\ UNCHANGED <<rows, head, exec, sessions, inflight>>
  BY DEF AbortList, storeVars
<1>1. PICK r \in Runs : r = run
  BY <1>0, FinishFacts DEF FinishPcs
<1>2. /\ Quiet /\ QuietBut(r) /\ InSlot(r) /\ fin.view.status # "succeeded"
      /\ fin.view.status # "running" => Failing(r)
  <2>1. /\ fin.view \in Row /\ Sound(fin.view) /\ Agrees(fin.view, r) /\ InSlot(r)
        /\ fin.view.status # "succeeded"
    BY <1>0, <1>1, FinishFacts DEF FinishPcs, DecisionAtWork, AbortPcs
  <2>2. fin.view.status # "running" => Failing(r)
    BY <2>1 DEF Row, Status, Sound, Agrees, Failing, Terminal
  <2> QED
    BY <1>0, <1>1, <2>1, <2>2, QuietFrame, QuietIsQuietBut
<1>3. /\ found = "none" <=> ~Unfinalized(r)
      /\ found = "awaiting" => exec[r].lifecycle = "awaiting"
      /\ found = "live" => exec[r].lifecycle = "live"
      /\ found \in {"none", "live", "awaiting"}
  BY <1>1 DEF FoundExecution, Unfinalized
<1> HIDE DEF found
<1>4. \/ FinishReturns(TRUE) /\ UNCHANGED leases
      \/ /\ fin' = [fin EXCEPT !.found = found] /\ UNCHANGED <<run, startup, rec>>
         /\ \/ pc' = "acknowledge" /\ found = "none" /\ Release(r)
            \/ pc' = "abortRecord" /\ fin.view.status = "running" /\ UNCHANGED leases
            \/ /\ pc' = "abortCancel" /\ fin.view.status # "running" /\ found = "live"
               /\ UNCHANGED leases
            \/ /\ pc' = "abortSession" /\ fin.view.status # "running" /\ found = "awaiting"
               /\ UNCHANGED leases
  <2>1. found = FoundExecution(run)
    BY DEF found
  <2> QED
    <3>1. CASE fin.view.status = "running"
      BY <2>1, <3>1 DEF AbortList
    <3>2. CASE fin.view.status # "running" /\ found = "live"
      BY <2>1, <3>2 DEF AbortList
    <3>3. CASE fin.view.status # "running" /\ found = "awaiting"
      BY <2>1, <3>3 DEF AbortList, AfterStop
    <3>4. CASE fin.view.status # "running" /\ found = "none"
      BY <1>1, <2>1, <3>4 DEF AbortList, AfterStop, Release
    <3> QED
      BY <1>3, <3>1, <3>2, <3>3, <3>4
<1>5. CASE FinishReturns(TRUE) /\ UNCHANGED leases
  BY <1>0, <1>1, <1>2, <1>5, FinishReturnsRight, DataFrame, ListedStays, Facts DEF FinishPcs
<1>6. CASE fin' = [fin EXCEPT !.found = found] /\ UNCHANGED <<run, startup, rec>>
  <2>0. fin'.view = fin.view /\ fin'.caller = fin.caller /\ fin'.found = found
    BY <1>0, <1>6, FinishFacts DEF FinishPcs
  <2>1. CASE pc' = "acknowledge" /\ found = "none" /\ Release(r)
    BY <1>0, <1>1, <1>2, <1>3, <1>6, <2>0, <2>1, ReleasedGoes, LeaseData DEF FinishPcs, Unfinalized
  <2>2. CASE pc' \in {"abortRecord", "abortCancel", "abortSession"} /\ UNCHANGED leases
    <3>1. DataRight' /\ Listed' \subseteq Listed
      BY <1>0, <1>2, <2>2, DataFrame, ListedStays, Facts
    <3>2. RuntimeAtWork'
      BY <1>0, <1>1, <1>3, <1>4, <1>6, <2>0, <2>2
         DEF RuntimeAtWork, EarlyPcs, UnsentPcs, AttachedPcs, CompletedPcs, Unfinalized,
             FinishReturns, NextVisit, LoopAgain, Pause
    <3>3. DecisionAtWork'
      BY <1>0, <1>1, <1>2, <1>4, <1>6, <2>0, <2>2
         DEF DecisionAtWork, AbortPcs, Failing, FinishReturns, NextVisit, LoopAgain, Pause
    <3> QED
      BY <1>0, <1>2, <1>6, <2>0, <2>2, <3>1, <3>2, <3>3, FinishGoes DEF FinishPcs
  <2> QED
    BY <1>4, <1>6, <2>1, <2>2, <1>5
<1> QED
  BY <1>4, <1>5, <1>6

LEMMA AbortRecordControl ==
    ASSUME Agreement, AbortRecord
    PROVE  ControlRight' /\ DataRight'
<1>0. pc = "abortRecord" /\ UNCHANGED <<exec, sessions, inflight>>
  BY DEF AbortRecord
<1>1. PICK r \in Runs : r = run
  BY <1>0, FinishFacts DEF FinishPcs
<1>2. /\ InSlot(r) /\ rows[r].status # "succeeded" /\ StoreBase /\ rows \in [Runs -> Row]
      /\ fin.view.status # "succeeded"
      /\ fin.found \in {"none", "live", "awaiting"}
      /\ fin.found = "none" /\ ~Late => ~Unfinalized(r)
      /\ fin.found = "awaiting" => exec[r].lifecycle \notin {"none", "live"}
      /\ fin.found = "live" => exec[r].lifecycle # "none"
  BY <1>0, <1>1, FinishFacts, Facts DEF FinishPcs, DecisionAtWork, AbortPcs, Agrees, RuntimeAtWork
<1>3. /\ UNCHANGED storeVars \/ RecordFailure(r, "interrupted")
      /\ \/ FinishReturns(TRUE) /\ UNCHANGED leases
         \/ /\ RecordFailure(r, "interrupted") /\ UNCHANGED <<run, startup, rec, fin>>
            /\ \/ pc' = "abortCancel" /\ fin.found = "live" /\ UNCHANGED leases
               \/ pc' = "abortSession" /\ fin.found = "awaiting" /\ UNCHANGED leases
               \/ pc' = "acknowledge" /\ fin.found = "none" /\ Release(r)
  BY <1>1, <1>2 DEF AbortRecord, Unacknowledged, Goto, AfterStop
<1>4. Quiet /\ QuietBut(r)
  BY <1>2, <1>3, QuietTx, QuietIsQuietBut
<1>5. CASE FinishReturns(TRUE) /\ UNCHANGED leases
  BY <1>0, <1>1, <1>4, <1>5, FinishReturnsRight, DataFrame, ListedStays, Facts DEF FinishPcs
<1>6. CASE /\ RecordFailure(r, "interrupted") /\ UNCHANGED <<run, startup, rec, fin>>
           /\ pc' = "acknowledge" /\ fin.found = "none" /\ Release(r)
  BY <1>0, <1>1, <1>2, <1>4, <1>6, ReleasedGoes, LeaseData DEF FinishPcs, Unfinalized
<1>7. CASE /\ RecordFailure(r, "interrupted") /\ UNCHANGED <<run, startup, rec, fin, leases>>
           /\ \/ pc' = "abortCancel" /\ fin.found = "live"
              \/ pc' = "abortSession" /\ fin.found = "awaiting"
  <2>1. DataRight' /\ Listed' \subseteq Listed
    BY <1>0, <1>4, <1>7, DataFrame, ListedStays, Facts
  <2>2. RuntimeAtWork'
    BY <1>0, <1>1, <1>2, <1>7 DEF RuntimeAtWork, EarlyPcs, UnsentPcs, AttachedPcs, CompletedPcs
  <2>3. Failing(r)'
    BY <1>2, <1>7 DEF RecordFailure, CanRecordFailure, Failing, Terminal, Row
  <2>4. DecisionAtWork'
    BY <1>1, <1>2, <1>7, <2>3 DEF DecisionAtWork, AbortPcs, Failing
  <2> QED
    BY <1>0, <1>4, <1>7, <2>1, <2>2, <2>4, FinishGoes DEF FinishPcs
<1> QED
  BY <1>3, <1>5, <1>6, <1>7

LEMMA AbortStopControl ==
    ASSUME Agreement, AbortCancel \/ AbortRelist
    PROVE  ControlRight' /\ DataRight'
<1>0. /\ pc \in {"abortCancel", "abortRelist"}
      /\ UNCHANGED <<rows, head, sessions, leases, inflight>>
  BY DEF AbortCancel, AbortRelist, storeVars, runtimeVars
<1>1. PICK r \in Runs : r = run
  BY <1>0, FinishFacts DEF FinishPcs
<1>2. Quiet /\ QuietBut(r) /\ Failing(r) /\ fin.view.status # "succeeded" /\ exec[r] \in Execution
  BY <1>0, <1>1, QuietFrame, QuietIsQuietBut, FinishFacts DEF FinishPcs, DecisionAtWork, AbortPcs
<1>3. DataRight'
  <2>1. CASE AbortCancel
    BY <2>1, StoppedData
  <2>2. CASE AbortRelist
    BY <1>0, <1>2, <2>2, DataFrame, Facts DEF AbortRelist, runtimeVars
  <2> QED
    BY <2>1, <2>2
<1>4. /\ \A q \in Runs \ {r} : exec'[q] = exec[q]
      /\ Unfinalized(r)' => Unfinalized(r)
      /\ exec'[r].lifecycle # "none"
      /\ \/ FinishReturns(TRUE)
         \/ Goto("abortRelist")
         \/ Goto("abortSession") /\ exec'[r].lifecycle # "live"
  <2>1. exec \in [Runs -> Execution] /\ exec[r].lifecycle # "none"
    BY <1>0, <1>1, FinishFacts, Facts DEF FinishPcs, RuntimeAtWork
  <2>2. CASE AbortCancel
    <3>1. exec' = exec \/ exec' = [exec EXCEPT ![r].lifecycle = "awaiting", ![r].outcome = "failed"]
      BY <1>1, <2>2 DEF AbortCancel, Stopped
    <3>2. exec' # exec => exec[r].lifecycle = "live"
      BY <1>1, <2>2 DEF AbortCancel, Stopped
    <3>3. /\ exec'[r].lifecycle \in {exec[r].lifecycle, "awaiting"}
          /\ \A q \in Runs \ {r} : exec'[q] = exec[q]
      BY <1>2, <2>1, <3>1 DEF Execution
    <3> QED
      BY <2>1, <2>2, <3>2, <3>3 DEF AbortCancel, Unfinalized
  <2>3. CASE AbortRelist
    BY <1>1, <2>1, <2>3 DEF AbortRelist, Unfinalized, runtimeVars
  <2> QED
    BY <1>0, <2>2, <2>3
<1>5. Listed' \subseteq Listed
  BY <1>0, <1>4, ListedShrinks DEF Unfinalized
<1>6. CASE FinishReturns(TRUE)
  BY <1>0, <1>1, <1>2, <1>3, <1>5, <1>6, FinishReturnsRight DEF FinishPcs
<1>7. CASE Goto("abortRelist") \/ (Goto("abortSession") /\ exec'[r].lifecycle # "live")
  <2>1. /\ pc' \in {"abortRelist", "abortSession"} /\ UNCHANGED <<run, startup, rec, fin>>
        /\ pc' = "abortSession" => exec'[r].lifecycle # "live"
        /\ exec'[r].lifecycle # "none"
    BY <1>4, <1>7 DEF Goto
  <2>2. RuntimeAtWork'
    BY <1>1, <2>1 DEF RuntimeAtWork, EarlyPcs, UnsentPcs, AttachedPcs, CompletedPcs
  <2>3. DecisionAtWork'
    BY <1>0, <1>1, <1>2, <2>1 DEF DecisionAtWork, AbortPcs, Failing
  <2> QED
    BY <1>0, <1>2, <1>3, <1>5, <2>1, <2>2, <2>3, FinishGoes DEF FinishPcs
<1> QED
  BY <1>4, <1>6, <1>7

LEMMA AbortSessionControl ==
    ASSUME Agreement, AbortSession
    PROVE  ControlRight' /\ DataRight'
<1>0. /\ pc = "abortSession" /\ UNCHANGED inflight /\ UNCHANGED <<rows, head>> /\ DataRight'
      /\ pc' # "paused"
  BY AbortData DEF AbortSession, storeVars
<1>1. PICK r \in Runs : r = run
  BY <1>0, FinishFacts DEF FinishPcs
<1>2. Quiet /\ QuietBut(r)
  BY <1>0, <1>1, QuietFrame, QuietIsQuietBut
<1>3. /\ \A q \in Runs : exec'[q] = exec[q] \/ (q = r /\ exec'[q].lifecycle = "aborted")
      /\ \/ FinishReturns(TRUE) /\ UNCHANGED leases
         \/ Goto("acknowledge") /\ exec'[r].lifecycle = "aborted" /\ Release(r)
  <2>1. exec \in [Runs -> Execution]
    BY Facts
  <2> QED
    BY <1>0, <1>1, <2>1, ZenonT(40) DEF AbortSession, Decided, Execution, Pause
<1>4. CASE FinishReturns(TRUE) /\ UNCHANGED leases
  <2>1. Listed' \subseteq Listed
    BY <1>3, <1>4, ListedShrinks DEF Unfinalized
  <2> QED
    BY <1>0, <1>1, <1>2, <1>4, <2>1, FinishReturnsRight DEF FinishPcs
<1>5. CASE Goto("acknowledge") /\ exec'[r].lifecycle = "aborted" /\ Release(r)
  BY <1>0, <1>1, <1>2, <1>3, <1>5, ReleasedGoes DEF FinishPcs, Unfinalized, Goto
<1> QED
  BY <1>3, <1>4, <1>5

LEMMA AcknowledgeControl ==
    ASSUME Agreement, Acknowledge
    PROVE  ControlRight' /\ DataRight'
<1>0. pc = "acknowledge" /\ UNCHANGED <<exec, sessions, leases, inflight>>
  BY DEF Acknowledge, runtimeVars
<1>1. PICK r \in Runs : r = run
  BY <1>0, FinishFacts DEF FinishPcs
<1>2. /\ Free(r) /\ fin.caller # "unpromoted" /\ StoreBase
  BY <1>0, <1>1, FinishFacts DEF FinishPcs, RuntimeAtWork
<1>3. \/ AcknowledgeFinalized(r) /\ (FinishReturns(FALSE) \/ FinishReturns(TRUE))
      \/ UNCHANGED storeVars /\ FinishReturns(TRUE)
  BY <1>1, <1>2 DEF Acknowledge, Unacknowledged
<1>4. CASE AcknowledgeFinalized(r) /\ (FinishReturns(FALSE) \/ FinishReturns(TRUE))
  <2>1. QuietBut(r) /\ rows'[r].status # "running" /\ Listed' \subseteq Listed
    BY <1>0, <1>2, <1>4, AcknowledgeIsQuietBut, ListedStays
  <2>2. DataRight'
    BY <1>0, <1>2, <1>4, AcknowledgeData
  <2> QED
    BY <1>0, <1>1, <1>4, <2>1, <2>2, FinishReturnsRight DEF FinishPcs
<1>5. CASE UNCHANGED storeVars /\ FinishReturns(TRUE)
  <2>1. Quiet /\ QuietBut(r) /\ Listed' \subseteq Listed
    BY <1>0, <1>5, QuietFrame, QuietIsQuietBut, ListedStays DEF storeVars
  <2>2. DataRight'
    BY <1>0, <2>1, DataFrame, Facts
  <2> QED
    BY <1>0, <1>1, <1>5, <2>1, <2>2, FinishReturnsRight DEF FinishPcs
<1> QED
  BY <1>3, <1>4, <1>5

-----------------------------------------------------------------------------
(* Reconcile. *)

LEMMA PassFacts ==
    ASSUME Agreement, InPass
    PROVE  /\ ControlRight /\ DataRight /\ (~Late => inflight = {}) /\ StoreBase
           /\ \A r \in rec.todo : r \in Runs /\ InSlot(r) /\ rec.seen[r] \in Row
           /\ rec.listed \subseteq Runs /\ rec.failed \in BOOLEAN /\ startup \in BOOLEAN
           /\ Visiting => run \in rec.todo
           /\ ~startup => \A q \in Runs : rows[q].status = "running" =>
                            pc \in FinishPcs /\ fin.caller # "reconcile"
<1>1. /\ rec \in [listed : SUBSET Runs, seen : [Runs -> Row], todo : SUBSET Runs, failed : BOOLEAN]
      /\ startup \in BOOLEAN
  BY Facts DEF TypeOK, SchedTypeOK
<1>2. /\ pc \notin {"pump", "drain"} /\ pc \notin ExecutePcs \cup {"register"}
      /\ pc \in FinishPcs => fin.caller = "reconcile"
  BY DEF InPass, Visiting, VisitPcs, FinishPcs, ExecutePcs
<1> QED
  BY <1>1, <1>2, Facts, NothingInflight, NobodyRuns DEF ControlRight, WorkInSlot

(* A step of a pass that touches no row but quietly and goes on with a run *)
(* of the list.                                                            *)
LEMMA VisitGoes ==
    ASSUME Agreement, Quiet, InPass, pc' \in VisitPcs, UNCHANGED <<startup, rec, inflight>>,
           Listed' \subseteq Listed, run' \in rec.todo, RuntimeAtWork'
    PROVE  ControlRight'
<1>0. /\ \A q \in Runs : QuietOn(q)
      /\ pc' \notin FinishPcs \cup ExecutePcs \cup AbortPcs \cup UnsentPcs
      /\ pc' \notin {"claim", "register", "paused", "snapshot"}
      /\ InPass' /\ Visiting'
  BY DEF Quiet, VisitPcs, FinishPcs, ExecutePcs, AbortPcs, InPass, Visiting, EarlyPcs,
     UnsentPcs
<1>1. WorkInSlot' /\ InflightRight'
  BY <1>0, PassFacts DEF WorkInSlot, InflightRight, QuietOn, InSlot
<1>2. ModeRight'
  <2>1. startup \/ \A q \in Runs : rows[q].status # "running"
    BY PassFacts, NobodyRuns DEF InPass, Visiting, VisitPcs, FinishPcs, ExecutePcs
  <2> QED
    BY <1>0, <2>1, PassFacts DEF ControlRight, ModeRight, NoStrandedRun, QuietOn
<1>3. ListingRight' /\ ViewsRight'
  BY <1>0, PassFacts DEF ControlRight, ListingRight, ViewsRight, StaleViewSafe, Agrees, QuietOn,
     KeptOn
<1>4. DecisionAtWork' /\ NeverPaused'
  BY <1>0 DEF DecisionAtWork, NeverPaused, FinishPcs
<1> QED
  BY <1>1, <1>2, <1>3, <1>4 DEF ControlRight

LEMMA ListControl ==
    ASSUME Agreement, List
    PROVE  ControlRight' /\ DataRight'
<1>0. /\ UNCHANGED <<rows, head, exec, sessions, leases, inflight>> /\ pc = "list"
      /\ \/ UNCHANGED schedVars
         \/ /\ pc' = "snapshot" /\ rec' = [rec EXCEPT !.listed = Listed]
            /\ UNCHANGED <<run, startup, fin>>
  BY DEF List, storeVars, runtimeVars
<1>1. Quiet /\ DataRight'
  BY <1>0, QuietFrame, DataFrame, Facts
<1>2. CASE UNCHANGED schedVars
  BY <1>0, <1>1, <1>2, ControlFrame DEF schedVars
<1>3. CASE pc' = "snapshot" /\ rec' = [rec EXCEPT !.listed = Listed] /\ UNCHANGED <<run, startup, fin>>
  <2>1. /\ rec'.listed = Listed /\ rec'.todo = {} /\ (~Late => inflight' = {})
        /\ startup \/ \A q \in Runs : rows[q].status # "running"
    <3>1. rec \in [listed : SUBSET Runs, seen : [Runs -> Row], todo : SUBSET Runs,
                   failed : BOOLEAN] /\ startup \in BOOLEAN
      BY Facts DEF TypeOK, SchedTypeOK
    <3>2. rec.todo = {}
      BY <1>0, Facts DEF ControlRight, WorkInSlot, InPass, Visiting, VisitPcs, FinishPcs
    <3> QED
      BY <1>0, <1>3, <3>1, <3>2, NothingInflight, NobodyRuns DEF FinishPcs, ExecutePcs
  <2>2. Listed' = Listed /\ \A r \in Listed : r \in Runs /\ rows[r].provider
    BY <1>0, Facts DEF Listed, Unfinalized, DataRight, RuntimeInSlot
  <2>3. WorkInSlot' /\ ModeRight' /\ InflightRight'
    BY <1>0, <1>3, <2>1 DEF WorkInSlot, ModeRight, NoStrandedRun, InflightRight, Visiting, InPass,
       WorkingPcs, VisitPcs, FinishPcs, ExecutePcs, EarlyPcs, UnsentPcs
  <2>4. RuntimeAtWork' /\ DecisionAtWork' /\ NeverPaused'
    BY <1>3 DEF RuntimeAtWork, DecisionAtWork, NeverPaused, EarlyPcs, UnsentPcs, AttachedPcs,
       CompletedPcs, AbortPcs
  <2>5. ListingRight' /\ ViewsRight'
    BY <1>0, <1>3, <2>1, <2>2 DEF ListingRight, ViewsRight, StaleViewSafe, FinishPcs
  <2> QED
    BY <1>1, <2>3, <2>4, <2>5 DEF ControlRight
<1> QED
  BY <1>0, <1>2, <1>3

LEMMA SnapshotControl ==
    ASSUME Agreement, Snapshot
    PROVE  ControlRight' /\ DataRight'
<1> DEFINE retained == Retained(~startup)
           seen == [r \in Runs |-> IF r \in retained THEN rows[r] ELSE NoRow]
<1>0. /\ UNCHANGED <<rows, head, exec, sessions, leases, inflight>> /\ pc = "snapshot"
      /\ \/ LoopAgain(startup)
         \/ /\ pc' = "visit" /\ rec' = [rec EXCEPT !.todo = retained, !.seen = seen]
            /\ UNCHANGED <<run, startup, fin>>
  BY DEF Snapshot, storeVars, runtimeVars
<1>1. Quiet /\ DataRight' /\ Listed' = Listed
  BY <1>0, QuietFrame, DataFrame, Facts DEF Listed, Unfinalized
<1>2. /\ startup \in BOOLEAN /\ (~Late => inflight' = {}) /\ ListingRight /\ RowsClean
      /\ startup \/ \A q \in Runs : rows[q].status # "running"
  <2>1. startup \in BOOLEAN /\ (~Late => inflight = {}) /\ ListingRight /\ RowsClean
    BY <1>0, NothingInflight, Facts DEF ControlRight, DataRight, TypeOK, SchedTypeOK
  <2> QED
    BY <1>0, <2>1, NobodyRuns DEF FinishPcs, ExecutePcs
<1>3. CASE LoopAgain(startup)
  BY <1>0, <1>1, <1>2, <1>3, LoopAgainRight
<1>4. CASE /\ pc' = "visit" /\ rec' = [rec EXCEPT !.todo = retained, !.seen = seen]
           /\ UNCHANGED <<run, startup, fin>>
  <2>1. /\ rec'.todo = retained /\ rec'.seen = seen /\ rec'.listed = rec.listed
        /\ rec.listed \subseteq Runs
    <3>1. rec \in [listed : SUBSET Runs, seen : [Runs -> Row], todo : SUBSET Runs,
                   failed : BOOLEAN]
      BY Facts DEF TypeOK, SchedTypeOK
    <3> QED
      BY <1>4, <3>1
  <2>2. \A r \in retained : /\ r \in Runs /\ InSlot(r) /\ seen[r] = rows[r]
                            /\ Agrees(rows[r], r) /\ Sound(rows[r])
    BY <1>2 DEF Retained, Agrees, Sound, RowsClean, InSlot
  <2>3. startup => \A r \in Runs : rows[r].status = "running" => r \in retained
    <3>1. ASSUME NEW r \in Runs, rows[r].status = "running"
          PROVE  InSlot(r)
      <4>1. Shaped(rows[r], r)
        BY RowFacts, Facts
      <4> QED
        BY <3>1, <4>1 DEF Shaped, InSlot, Terminal
    <3> QED
      BY <3>1 DEF Retained
  <2> HIDE DEF retained, seen
  <2>4. WorkInSlot' /\ ModeRight' /\ InflightRight'
    BY <1>0, <1>2, <1>4, <2>1, <2>2, <2>3 DEF WorkInSlot, ModeRight, NoStrandedRun, InflightRight,
       Visiting, InPass, InSlot, WorkingPcs, VisitPcs, FinishPcs, ExecutePcs, EarlyPcs, UnsentPcs
  <2>5. RuntimeAtWork' /\ DecisionAtWork' /\ NeverPaused'
    BY <1>4 DEF RuntimeAtWork, DecisionAtWork, NeverPaused, EarlyPcs, UnsentPcs, AttachedPcs,
       CompletedPcs, AbortPcs
  <2>6. ListingRight' /\ ViewsRight'
    BY <1>0, <1>1, <1>2, <1>4, <2>1, <2>2 DEF ListingRight, ViewsRight, StaleViewSafe, Agrees,
       FinishPcs
  <2> QED
    BY <1>1, <2>4, <2>5, <2>6 DEF ControlRight
<1> QED
  BY <1>0, <1>3, <1>4

(* Nothing that is retained calls for manual inspection. *)
LEMMA VisitControl ==
    ASSUME Agreement, Visit
    PROVE  ControlRight' /\ DataRight'
<1>0. /\ UNCHANGED <<rows, head, exec, sessions, leases, inflight, storeVars>> /\ pc = "visit"
      /\ InPass
  BY DEF Visit, storeVars, runtimeVars, InPass
<1>1. PICK r \in rec.todo :
         IF FirstStep(r) = "paused" THEN Pause
         ELSE run' = r /\ pc' = FirstStep(r) /\ UNCHANGED <<startup, stopping, rec, fin>>
  BY DEF Visit
<1>2. /\ r \in Runs /\ InSlot(r) /\ Sound(rec.seen[r]) /\ rec.listed \subseteq Runs
      /\ r \in rec.listed => rec.seen[r].provider
      /\ ~Late => (r \notin rec.listed => r \notin Listed)
  BY <1>0, PassFacts DEF ControlRight, ViewsRight, ListingRight
<1>3. r \notin rec.listed => Free(r)
  BY <1>2, Facts, ProviderAssumption DEF DataRight, RuntimeInSlot, Listed, Free, Late
<1>4. /\ FirstStep(r) \in VisitPcs
      /\ FirstStep(r) \in {"absentRecord", "absentAck"} => r \notin rec.listed
  BY <1>2 DEF FirstStep, Sound, VisitPcs
<1>5. /\ run' = r /\ pc' \in VisitPcs /\ UNCHANGED <<startup, rec, fin>>
      /\ pc' \in {"absentRecord", "absentAck"} => Free(r)
  BY <1>1, <1>3, <1>4 DEF VisitPcs
<1>6. Quiet /\ DataRight' /\ Listed' \subseteq Listed
  BY <1>0, QuietFrame, DataFrame, ListedStays, Facts
<1>7. RuntimeAtWork'
  BY <1>0, <1>5 DEF RuntimeAtWork, EarlyPcs, UnsentPcs, AttachedPcs, CompletedPcs, VisitPcs, Free,
     Unfinalized
<1> QED
  BY <1>0, <1>5, <1>6, <1>7, VisitGoes

LEMMA ReconcileReturnsControl ==
    ASSUME Agreement, ReconcileReturns
    PROVE  ControlRight' /\ DataRight'
<1>0. /\ UNCHANGED <<rows, head, exec, sessions, leases, inflight, storeVars>> /\ pc = "visit"
      /\ InPass /\ rec.todo = {}
      /\ \/ LoopAgain(startup)
         \/ /\ ~rec.failed /\ pc' = "claim" /\ startup' = FALSE /\ rec' = NoReconcile
            /\ UNCHANGED <<run, fin>>
  BY DEF ReconcileReturns, storeVars, runtimeVars, InPass
<1>1. Quiet /\ DataRight'
  BY <1>0, QuietFrame, DataFrame, Facts
<1>2. /\ (~Late => inflight' = {}) /\ startup \in BOOLEAN
      /\ startup \/ \A q \in Runs : rows'[q].status # "running"
      /\ ~rec.failed => \A q \in Runs : rows'[q].status # "running"
  <2>1. (~Late => inflight = {}) /\ startup \in BOOLEAN /\ ModeRight
    BY <1>0, PassFacts DEF ControlRight
  <2>2. ~startup => \A q \in Runs : rows[q].status # "running"
    BY <1>0, NobodyRuns DEF FinishPcs, ExecutePcs
  <2> QED
    BY <1>0, <2>1, <2>2 DEF ModeRight
<1>3. CASE LoopAgain(startup)
  BY <1>1, <1>2, <1>3, LoopAgainRight
<1>4. CASE /\ ~rec.failed /\ pc' = "claim" /\ startup' = FALSE /\ rec' = NoReconcile
           /\ UNCHANGED <<run, fin>>
  <2>1. WorkInSlot' /\ ModeRight' /\ InflightRight'
    BY <1>2, <1>4 DEF WorkInSlot, ModeRight, NoStrandedRun, InflightRight, Visiting, InPass,
       WorkingPcs, VisitPcs, FinishPcs, ExecutePcs, NoReconcile, EarlyPcs, UnsentPcs
  <2>2. RuntimeAtWork' /\ ListingRight' /\ ViewsRight' /\ DecisionAtWork' /\ NeverPaused'
    BY <1>4 DEF RuntimeAtWork, EarlyPcs, UnsentPcs, AttachedPcs, CompletedPcs, ListingRight,
       ViewsRight, StaleViewSafe, DecisionAtWork, NeverPaused, AbortPcs, Visiting, InPass,
       VisitPcs, FinishPcs, NoReconcile
  <2> QED
    BY <1>1, <2>1, <2>2 DEF ControlRight
<1> QED
  BY <1>0, <1>3, <1>4

LEMMA AttachFoundControl ==
    ASSUME Agreement, AttachFound
    PROVE  ControlRight' /\ DataRight'
<1>0. /\ UNCHANGED <<exec, sessions, leases, inflight>> /\ pc = "attachFound" /\ InPass /\ Visiting
  BY DEF AttachFound, runtimeVars, InPass, Visiting, VisitPcs
<1>1. PICK r \in rec.todo : r = run
  BY <1>0, PassFacts
<1>2. /\ UNCHANGED storeVars \/ AttachSandboxRef(r)
      /\ Goto("recover") \/ LoopAgain(startup)
  BY <1>1 DEF AttachFound, Unacknowledged
<1>3. /\ r \in Runs /\ StoreBase /\ (~Late => inflight' = {}) /\ startup \in BOOLEAN
      /\ startup \/ \A q \in Runs : rows[q].status # "running"
  BY <1>0, PassFacts, NobodyRuns DEF FinishPcs, ExecutePcs
<1>4. Quiet
  BY <1>2, <1>3, QuietTx
<1>5. DataRight' /\ Listed' \subseteq Listed
  BY <1>0, <1>4, DataFrame, ListedStays, Facts
<1>6. CASE LoopAgain(startup)
  BY <1>3, <1>4, <1>5, <1>6, LoopAgainRight DEF Quiet, QuietOn
<1>7. CASE Goto("recover")
  <2>1. pc' = "recover" /\ UNCHANGED <<run, startup, rec>>
    BY <1>7 DEF Goto
  <2>2. RuntimeAtWork'
    BY <2>1 DEF RuntimeAtWork, EarlyPcs, UnsentPcs, AttachedPcs, CompletedPcs
  <2> QED
    BY <1>0, <1>1, <1>4, <1>5, <2>1, <2>2, VisitGoes DEF VisitPcs
<1> QED
  BY <1>2, <1>6, <1>7

(* The lease of a retained run is finished from the row as it was read.    *)
LEMMA RecoveredFinishes ==
    ASSUME Agreement, NEW r \in rec.todo, r = run, pc = "recover",
           FinishLease([rec.seen[r] EXCEPT !.ref = TRUE], "reconcile"),
           UNCHANGED <<rows, head, exec, sessions, leases, inflight>>
    PROVE  ControlRight'
<1> DEFINE view == [rec.seen[r] EXCEPT !.ref = TRUE]
<1>0. /\ pc' = "finish" /\ fin'.view = view /\ fin'.caller = "reconcile"
      /\ UNCHANGED <<run, startup, rec>>
  BY DEF FinishLease
<1>1. InPass /\ Visiting /\ InPass' /\ Visiting'
  BY <1>0 DEF InPass, Visiting, VisitPcs, FinishPcs
<1>2. /\ ControlRight /\ (~Late => inflight = {}) /\ rec.seen[r] \in Row /\ r \in Runs
      /\ \A q \in rec.todo : q \in Runs /\ InSlot(q)
      /\ startup \/ \A q \in Runs : rows[q].status # "running"
  BY <1>1, PassFacts, NobodyRuns DEF FinishPcs, ExecutePcs
<1>3. Sound(view) /\ Agrees(view, r)
  <2>1. Sound(rec.seen[r]) /\ Agrees(rec.seen[r], r)
    BY <1>2 DEF ControlRight, ViewsRight, StaleViewSafe
  <2> QED
    BY <1>2, <2>1 DEF Sound, Agrees, Row
<1> HIDE DEF view
<1>4. WorkInSlot' /\ ModeRight' /\ InflightRight'
  BY <1>0, <1>1, <1>2 DEF ControlRight, WorkInSlot, ModeRight, NoStrandedRun, InflightRight, InSlot,
     FinishPcs, ExecutePcs, EarlyPcs, UnsentPcs
<1>5. RuntimeAtWork' /\ DecisionAtWork' /\ NeverPaused'
  BY <1>0 DEF RuntimeAtWork, DecisionAtWork, NeverPaused, EarlyPcs, UnsentPcs, AttachedPcs,
     CompletedPcs, AbortPcs
<1>6. ListingRight' /\ ViewsRight'
  <2>1. Listed' = Listed
    BY DEF Listed, Unfinalized
  <2> QED
    BY <1>0, <1>1, <1>2, <1>3, <2>1 DEF ControlRight, ListingRight, ViewsRight, StaleViewSafe, Agrees
<1> QED
  BY <1>4, <1>5, <1>6 DEF ControlRight

LEMMA RecoverControl ==
    ASSUME Agreement, Recover
    PROVE  ControlRight' /\ DataRight'
<1>0. /\ UNCHANGED <<rows, head, exec, sessions, leases, inflight>> /\ pc = "recover" /\ InPass
      /\ Visiting
  BY DEF Recover, runtimeVars, storeVars, InPass, Visiting, VisitPcs
<1>1. PICK r \in rec.todo : r = run
  BY <1>0, PassFacts
<1>2. /\ Quiet /\ r \in Runs /\ QuietBut(r) /\ DataRight' /\ Listed' \subseteq Listed
      /\ Provider = "fake" /\ leases[r] = "none" => Free(r)
  <2>1. r \in Runs /\ Quiet /\ DataRight /\ RuntimeInSlot
    BY <1>0, QuietFrame, PassFacts DEF DataRight
  <2> QED
    BY <1>0, <2>1, QuietIsQuietBut, DataFrame, ListedStays, Facts DEF RuntimeInSlot, Free, Late
<1>3. \/ FinishLease([rec.seen[r] EXCEPT !.ref = TRUE], "reconcile")
      \/ Goto(AfterAbsence(r)) /\ Provider = "fake" /\ leases[r] = "none"
      \/ NextVisit(TRUE)
  BY <1>1 DEF Recover
<1>4. CASE FinishLease([rec.seen[r] EXCEPT !.ref = TRUE], "reconcile")
  BY <1>0, <1>1, <1>2, <1>4, RecoveredFinishes
<1>5. CASE Goto(AfterAbsence(r)) /\ Provider = "fake" /\ leases[r] = "none"
  <2>1. pc' \in {"absentRecord", "absentAck"} /\ UNCHANGED <<run, startup, rec>>
    BY <1>5 DEF Goto, AfterAbsence
  <2>2. RuntimeAtWork'
    BY <1>0, <1>1, <1>2, <1>5, <2>1 DEF RuntimeAtWork, EarlyPcs, UnsentPcs, AttachedPcs,
       CompletedPcs, Free, Unfinalized
  <2> QED
    BY <1>0, <1>1, <1>2, <2>1, <2>2, VisitGoes DEF VisitPcs
<1>6. CASE NextVisit(TRUE)
  BY <1>0, <1>1, <1>2, <1>6, NextVisitRight
<1> QED
  BY <1>3, <1>4, <1>5, <1>6

LEMMA AbsentControl ==
    ASSUME Agreement, AbsentRecord \/ AbsentAcknowledge
    PROVE  ControlRight' /\ DataRight'
<1>0. /\ UNCHANGED <<exec, sessions, leases, inflight>> /\ pc \in {"absentRecord", "absentAck"}
      /\ InPass /\ Visiting
  BY DEF AbsentRecord, AbsentAcknowledge, runtimeVars, InPass, Visiting, VisitPcs
<1>1. PICK r \in rec.todo : r = run
  BY <1>0, PassFacts
<1>2. r \in Runs /\ StoreBase /\ Free(r) /\ Listed' \subseteq Listed
  BY <1>0, <1>1, PassFacts, ListedStays DEF ControlRight, RuntimeAtWork
<1>3. \/ /\ UNCHANGED storeVars \/ RecordFailure(r, "interrupted")
         /\ NextVisit(TRUE) \/ Goto("absentAck")
      \/ AcknowledgeFinalized(r) /\ (NextVisit(FALSE) \/ NextVisit(TRUE))
  BY <1>1 DEF AbsentRecord, AbsentAcknowledge, Unacknowledged
<1>4. CASE AcknowledgeFinalized(r) /\ (NextVisit(FALSE) \/ NextVisit(TRUE))
  <2>1. QuietBut(r) /\ rows'[r].status # "running"
    BY <1>2, <1>4, AcknowledgeIsQuietBut
  <2>2. DataRight'
    BY <1>0, <1>2, <1>4, AcknowledgeData
  <2> QED
    BY <1>0, <1>1, <1>2, <1>4, <2>1, <2>2, NextVisitRight
<1>5. CASE /\ UNCHANGED storeVars \/ RecordFailure(r, "interrupted")
           /\ NextVisit(TRUE) \/ Goto("absentAck")
  <2>1. Quiet
    BY <1>2, <1>5, QuietTx
  <2>2. QuietBut(r) /\ DataRight'
    BY <1>0, <1>2, <2>1, QuietIsQuietBut, DataFrame, Facts
  <2>3. CASE NextVisit(TRUE)
    BY <1>0, <1>1, <1>2, <2>2, <2>3, NextVisitRight
  <2>4. CASE Goto("absentAck")
    <3>1. pc' = "absentAck" /\ UNCHANGED <<run, startup, rec>>
      BY <2>4 DEF Goto
    <3>2. RuntimeAtWork'
      BY <1>0, <1>1, <1>2, <3>1 DEF RuntimeAtWork, EarlyPcs, UnsentPcs, AttachedPcs, CompletedPcs,
         Free, Unfinalized
    <3> QED
      BY <1>0, <1>1, <1>2, <2>1, <2>2, <3>1, <3>2, VisitGoes DEF VisitPcs
  <2> QED
    BY <1>5, <2>3, <2>4
<1> QED
  BY <1>3, <1>4, <1>5

-----------------------------------------------------------------------------
(* The claim of the next run. *)

(* What is claimed has never had an execution or a lease. *)
LEMMA RegisterStarts ==
    ASSUME Agreement, NEW r \in Runs, NEW locked \in SUBSET Runs, ClaimNext(r, locked), pc = "claim",
           run' = r, pc' = "register", UNCHANGED <<startup, rec, fin, exec, leases, inflight>>
    PROVE  ControlRight'
<1>0. rows[r] \in Row /\ StoreBase /\ (~Late => inflight = {}) /\ ControlRight /\ RuntimeInSlot
      /\ RequestsRight
  BY Facts, NothingInflight DEF DataRight
<1>1. /\ rows[r].status = "queued" /\ rows'[r].status = "running" /\ InSlot(r)'
      /\ \A q \in Runs \ {r} : rows'[q] = rows[q]
  BY <1>0, ClaimEffect DEF Row
<1>2. /\ exec[r].lifecycle = "none" /\ leases[r] = "none"
      /\ ~InPass /\ ~InPass' /\ ~Visiting' /\ rec.todo = {} /\ ~startup
      /\ r \notin inflight /\ \A q \in Runs : rows[q].status # "running"
  <2>1. ~InPass /\ ~InPass' /\ ~Visiting'
    BY DEF InPass, Visiting, VisitPcs, FinishPcs
  <2>2. ~startup /\ rec.todo = {}
    BY <1>0, <2>1 DEF ControlRight, ModeRight, WorkInSlot
  <2> QED
    BY <1>0, <1>1, <2>1, <2>2, NobodyRuns DEF RuntimeInSlot, RequestsRight, Started, FinishPcs,
       ExecutePcs
<1>3. WorkInSlot' /\ InflightRight'
  BY <1>0, <1>1, <1>2 DEF WorkInSlot, InflightRight, InSlot
<1>4. ModeRight'
  BY <1>1, <1>2 DEF ModeRight, NoStrandedRun, FinishPcs
<1>5. RuntimeAtWork' /\ DecisionAtWork' /\ NeverPaused'
  BY <1>1, <1>2 DEF RuntimeAtWork, DecisionAtWork, NeverPaused, EarlyPcs, UnsentPcs, AttachedPcs,
     CompletedPcs, AbortPcs
<1>6. ListingRight' /\ ViewsRight'
  BY <1>2 DEF ListingRight, ViewsRight, StaleViewSafe, FinishPcs
<1> QED
  BY <1>3, <1>4, <1>5, <1>6 DEF ControlRight

LEMMA ClaimControl ==
    ASSUME Agreement, Claim
    PROVE  ControlRight' /\ DataRight'
<1>0. UNCHANGED <<exec, sessions, leases, inflight>> /\ pc = "claim" /\ StoreBase
  BY Facts DEF Claim, runtimeVars
<1>1. LockedRows \subseteq SUBSET Runs
  BY Facts, ControlFacts DEF LockedRows
<1>2. PICK locked \in LockedRows, r \in Runs :
         \/ /\ ClaimNext(r, locked) /\ run' = r /\ pc' = "register"
            /\ UNCHANGED <<startup, rec, fin>>
         \/ LoopAgain(FALSE) /\ UNCHANGED storeVars
         \/ LoopAgain(TRUE) /\ (ClaimNext(r, locked) \/ UNCHANGED storeVars)
  BY DEF Claim, Unacknowledged
<1>3. (~Late => inflight = {}) /\ \A q \in Runs : rows[q].status # "running"
  <2>1. ~startup
    BY <1>0, Facts DEF ControlRight, ModeRight
  <2> QED
    BY <1>0, <2>1, NothingInflight, NobodyRuns DEF FinishPcs, ExecutePcs
<1>4. DataRight'
  <2>1. CASE ClaimNext(r, locked)
    BY <1>0, <1>1, <2>1, ClaimData
  <2>2. CASE UNCHANGED storeVars
    BY <1>0, <2>2, QuietFrame, DataFrame, Facts DEF storeVars
  <2> QED
    BY <1>2, <2>1, <2>2
<1>5. CASE ClaimNext(r, locked) /\ run' = r /\ pc' = "register" /\ UNCHANGED <<startup, rec, fin>>
  BY <1>0, <1>1, <1>4, <1>5, RegisterStarts
<1>6. CASE LoopAgain(FALSE) /\ UNCHANGED storeVars
  BY <1>0, <1>3, <1>4, <1>6, LoopAgainRight DEF storeVars
<1>7. CASE LoopAgain(TRUE)
  BY <1>0, <1>3, <1>4, <1>7, LoopAgainRight
<1> QED
  BY <1>2, <1>5, <1>6, <1>7

-----------------------------------------------------------------------------
(* The scheduler as a whole, and everybody else. *)

LEMMA SchedulerAgreement ==
    ASSUME Agreement, SchedulerNext
    PROVE  ControlRight' /\ DataRight'
<1>1. CASE ReconcileNext
  BY <1>1, ListControl, SnapshotControl, VisitControl, ReconcileReturnsControl, AttachFoundControl,
     RecoverControl, AbsentControl DEF ReconcileNext
<1>2. CASE ExecuteNext
  BY <1>2, PrepareControl, TransactionControl, AcquireControl, SendControl, PumpControl,
     PumpErrorControl, ProductsControl, FailControl DEF ExecuteNext
<1>3. CASE FinishLeaseNext
  BY <1>3, FinishControl, CommitControl, HeadControl, AbortListControl, AbortRecordControl,
     AbortStopControl, AbortSessionControl, AcknowledgeControl DEF FinishLeaseNext
<1> QED
  BY <1>1, <1>2, <1>3, ClaimControl DEF SchedulerNext

LEMMA CancelAgreement ==
    ASSUME Agreement, CancelNext
    PROVE  ControlRight' /\ DataRight'
<1>1. /\ UNCHANGED <<pc, run, startup, rec, fin, exec, sessions, leases, inflight>>
      /\ \/ UNCHANGED storeVars
         \/ cancel.at # "idle" /\ (CancelQueued(cancel.run) \/ RecordFailure(cancel.run, "cancelled"))
  BY DEF CancelNext, CancelQueuedRow, CancelRecorded, CancelConfirmed, CancelSignalled,
     Unacknowledged, runtimeVars, schedVars
<1>2. Quiet
  BY <1>1, Facts, ControlFacts, QuietFrame, QuietTx DEF storeVars
<1> QED
  BY <1>1, <1>2, Facts, DataFrame, ControlFrame

LEMMA UserAgreement ==
    ASSUME Agreement, UserNext
    PROVE  ControlRight' /\ DataRight'
<1>1. /\ UNCHANGED <<pc, run, startup, rec, fin, exec, sessions, leases, inflight>>
      /\ \/ UNCHANGED <<rows, head>>
         \/ \E r \in Runs, c \in Conversations : SubmitMessage(r, c)
  BY DEF UserNext, DeleteConversation, CancelRequested, runtimeVars, schedVars, storeVars
<1>2. Quiet
  BY <1>1, Facts, QuietFrame, QuietTx
<1> QED
  BY <1>1, <1>2, Facts, DataFrame, ControlFrame

LEMMA RuntimeAgreement ==
    ASSUME Agreement, NEW r \in Runs, RuntimeNext(r)
    PROVE  ControlRight' /\ DataRight'
<1>0. exec \in [Runs -> Execution]
  BY Facts
<1>1. DataRight'
  BY ArrivesData, WorkerData DEF RuntimeNext
<1>2. /\ UNCHANGED <<rows, head, pc, run, startup, rec, fin, leases>>
      /\ inflight' \subseteq inflight
  BY DEF RuntimeNext, ExecuteArrives, SessionOpened, CandidateCreated, CandidateDurable, WorkerEnds,
     storeVars, schedVars
<1>3. \A q \in Runs :
         /\ \/ exec'[q].lifecycle = exec[q].lifecycle
            \/ exec[q].lifecycle = "live" /\ exec'[q].lifecycle = "awaiting"
            \/ /\ exec[q].lifecycle = "none" /\ exec'[q].lifecycle = "live"
               /\ q \in inflight /\ q \notin inflight'
         /\ exec[q].lifecycle # "none" /\ exec[q].candidate = "durable" =>
               exec'[q].candidate = "durable"
  <2> SUFFICES ASSUME NEW q \in Runs
               PROVE  /\ \/ exec'[q].lifecycle = exec[q].lifecycle
                         \/ exec[q].lifecycle = "live" /\ exec'[q].lifecycle = "awaiting"
                         \/ /\ exec[q].lifecycle = "none" /\ exec'[q].lifecycle = "live"
                            /\ q \in inflight /\ q \notin inflight'
                      /\ exec[q].lifecycle # "none" /\ exec[q].candidate = "durable" =>
                            exec'[q].candidate = "durable"
    OBVIOUS
  <2>1. CASE ExecuteArrives(r)
    <3>1. CASE CanReserve(r)
      <4>1. exec[r].lifecycle = "none" /\ r \in inflight
        BY <2>1, <3>1 DEF CanReserve, ExecuteArrives
      <4> QED
        BY <1>0, <2>1, <3>1, <4>1 DEF ExecuteArrives, Reserved, NoExecution
    <3> QED
      BY <2>1, <3>1 DEF ExecuteArrives
  <2>2. CASE SessionOpened(r)
    BY <2>2 DEF SessionOpened
  <2>3. CASE CandidateCreated(r) \/ CandidateDurable(r)
    BY <1>0, <2>3 DEF CandidateCreated, CandidateDurable, Execution
  <2>4. CASE WorkerEnds(r)
    BY <1>0, <2>4 DEF WorkerEnds, Execution
  <2> QED
    BY <2>1, <2>2, <2>3, <2>4 DEF RuntimeNext
<1> QED
  BY <1>1, <1>2, <1>3, QuietFrame, ControlFrame

LEMMA CrashAgreement ==
    ASSUME Agreement, Crash
    PROVE  ControlRight' /\ DataRight'
<1>1. LoopAgain(TRUE)
  BY DEF Crash
<1> QED
  BY <1>1, CrashData, LoopAgainRight

LEMMA RestartAgreement ==
    ASSUME Agreement, RuntimeRestarts
    PROVE  ControlRight' /\ DataRight'
<1>0. exec \in [Runs -> Execution]
  BY Facts
<1>1. UNCHANGED <<rows, head, pc, run, startup, rec, fin, leases>> /\ inflight' = {}
  BY DEF RuntimeRestarts, storeVars, schedVars
<1>2. \A q \in Runs : /\ \/ exec'[q].lifecycle = exec[q].lifecycle
                         \/ exec[q].lifecycle = "live" /\ exec'[q].lifecycle = "awaiting"
                      /\ exec'[q].candidate = exec[q].candidate
  BY <1>0 DEF RuntimeRestarts, Unfinalized, Execution
<1> QED
  BY <1>1, <1>2, RestartData, QuietFrame, ControlFrame

-----------------------------------------------------------------------------
(* The invariant and the theorems. *)

LEMMA AgreementInit == Init => Agreement
<1> SUFFICES ASSUME Init
             PROVE  Agreement
  OBVIOUS
<1>1. StoreRight
  BY StoreBaseInit, HistoryInit
     DEF Init, StoreRight, StoreInit, SingleSlot, PromotedUntilSettled, InSlot, NoRow
<1>2. /\ pc = "list" /\ startup = TRUE /\ inflight = {} /\ sessions = {} /\ rec = NoReconcile
      /\ \A r \in Runs : rows[r] = NoRow /\ exec[r] = NoExecution /\ leases[r] = "none"
      /\ \A c \in Conversations : head[c] = NoSession
  BY DEF Init, StoreInit
<1>3. DataRight
  BY <1>2 DEF DataRight, RowsClean, RuntimeInSlot, AloneInRuntime, RequestsRight, DecisionAgreement,
     CommitsRight, SessionsRight, HeadSessionKept, InSlot, Unfinalized, NoRow, NoExecution
<1>4. WorkInSlot /\ ModeRight /\ InflightRight
  BY <1>2 DEF WorkInSlot, ModeRight, NoStrandedRun, InflightRight, Visiting, InPass, WorkingPcs,
     VisitPcs, FinishPcs, ExecutePcs, NoReconcile, EarlyPcs, UnsentPcs
<1>5. RuntimeAtWork /\ ListingRight /\ ViewsRight /\ DecisionAtWork /\ NeverPaused
  BY <1>2 DEF RuntimeAtWork, EarlyPcs, UnsentPcs, AttachedPcs, CompletedPcs, ListingRight,
     ViewsRight, StaleViewSafe, DecisionAtWork, NeverPaused, AbortPcs, Visiting, InPass, VisitPcs,
     FinishPcs, NoReconcile
<1> QED
  BY <1>1, <1>3, <1>4, <1>5, LifecycleInit DEF Agreement, ControlRight

LEMMA AgreementStep ==
    ASSUME Agreement, [Next]_vars
    PROVE  Agreement'
<1>1. LifecycleBase /\ [StoreNext]_storeVars
  BY StepImplements DEF Agreement, LifecycleBase
<1>2. LifecycleBase' /\ StoreRight'
  BY <1>1, LifecycleStep, StoreBaseStep, SlotStep, PromotedStep, HistoryStep
     DEF Agreement, StoreRight
<1>3. CASE UNCHANGED vars
  <2>1. /\ UNCHANGED <<rows, head, pc, run, startup, rec, fin, exec, sessions, leases, inflight>>
    BY <1>3 DEF vars, storeVars, runtimeVars, schedVars
  <2> QED
    BY <1>2, <2>1, QuietFrame, Facts, DataFrame, ControlFrame DEF Agreement
<1> QED
  BY <1>2, <1>3, SchedulerAgreement, CancelAgreement, RuntimeAgreement, UserAgreement,
     CrashAgreement, RestartAgreement DEF Next, Agreement

LEMMA AgreementCorrect == Spec => []Agreement
<1>1. Init => Agreement
  BY AgreementInit
<1>2. Agreement /\ [Next]_vars => Agreement'
  BY AgreementStep
<1> QED
  BY <1>1, <1>2, PTL DEF Spec

(* However acknowledgements are lost and passes repeated, a session is     *)
(* committed only for a run that succeeded and aborted only for one that   *)
(* did not.                                                                *)
THEOREM DecisionAgreementCorrect == Spec => []DecisionAgreement
<1>1. Agreement => DecisionAgreement
  BY DEF Agreement, DataRight
<1> QED
  BY <1>1, AgreementCorrect, PTL

(* AcknowledgeFinalized is only ever reached once nothing of the run is    *)
(* left in the Runtime, on its way to it, or held by the provider.         *)
THEOREM SettledIsCleanCorrect == ASSUME ~Late PROVE Spec => []SettledIsClean
<1>1. ASSUME Agreement
      PROVE  SettledIsClean
  <2>1. \A r \in Runs : Unfinalized(r) \/ leases[r] = "held" => InSlot(r)
    BY <1>1, Facts DEF DataRight, RuntimeInSlot
  <2>2. \A r \in inflight : run = r /\ InSlot(run)
    BY <1>1, Facts DEF ControlRight, InflightRight, WorkingPcs, ExecutePcs
  <2> QED
    BY <2>1, <2>2 DEF SettledIsClean, InSlot
<1> QED
  BY <1>1, AgreementCorrect, PTL

(* The execute request of the run that was claimed meets a Runtime whose   *)
(* one slot is free: admission by the database is admission by the         *)
(* execution store.                                                        *)
THEOREM ExecuteAdmittedCorrect == ASSUME ~Late PROVE Spec => []ExecuteAdmitted
<1>1. ASSUME Agreement
      PROVE  ExecuteAdmitted
  <2>1. \A r \in inflight : r \in Runs /\ InSlot(r) /\ exec[r].lifecycle = "none"
    BY <1>1, Facts DEF ControlRight, InflightRight, DataRight, RequestsRight,
       WorkingPcs, ExecutePcs
  <2>2. \A q \in Runs : Unfinalized(q) => InSlot(q)
    BY <1>1, Facts DEF DataRight, RuntimeInSlot
  <2>3. \A p, q \in Runs : InSlot(p) /\ InSlot(q) => p = q
    BY <1>1, Facts
  <2> QED
    BY <2>1, <2>2, <2>3 DEF ExecuteAdmitted, Unfinalized
<1> QED
  BY <1>1, AgreementCorrect, PTL

(* Outside start-up mode a running row is the one Execute owns, so the     *)
(* pass that skips running rows strands none.                              *)
THEOREM NoStrandedRunCorrect == Spec => []NoStrandedRun
<1>1. Agreement => NoStrandedRun
  BY DEF Agreement, ControlRight, ModeRight
<1> QED
  BY <1>1, AgreementCorrect, PTL

(* Reconcile and finishLease decide by rows they read earlier; whatever a  *)
(* cancellation wrote since, the rows still call for the same decision.    *)
THEOREM StaleViewSafeCorrect == Spec => []StaleViewSafe
<1>1. Agreement => StaleViewSafe
  BY DEF Agreement, ControlRight, ViewsRight
<1> QED
  BY <1>1, AgreementCorrect, PTL

(* No loss of an answer, crash or cancellation drives the scheduler into   *)
(* the pause that waits for manual inspection.                             *)
THEOREM NeverPausedCorrect == Spec => []NeverPaused
<1>1. Agreement => NeverPaused
  BY DEF Agreement, ControlRight
<1> QED
  BY <1>1, AgreementCorrect, PTL

(* Every session the Runtime holds belongs to a run that succeeded or to   *)
(* the run in the slot: no abort forgets one.                              *)
THEOREM NoOrphanSessionCorrect == ASSUME ~Late PROVE Spec => []NoOrphanSession
<1>1. ASSUME Agreement
      PROVE  NoOrphanSession
  <2> SUFFICES ASSUME NEW s \in sessions
               PROVE  rows[s].status = "succeeded" \/ InSlot(s)
    BY DEF NoOrphanSession
  <2>1. s \in Runs /\ exec[s] \in Execution /\ exec[s].lifecycle \notin {"none", "aborted"}
    BY <1>1, Facts DEF DataRight, SessionsRight
  <2>2. exec[s].lifecycle = "committed" => rows[s].status = "succeeded"
    BY <1>1, <2>1, Facts DEF DataRight, DecisionAgreement
  <2>3. Unfinalized(s) => InSlot(s)
    BY <1>1, <2>1, Facts DEF DataRight, RuntimeInSlot
  <2> QED
    BY <2>1, <2>2, <2>3 DEF Unfinalized, Execution
<1> QED
  BY <1>1, AgreementCorrect, PTL

(* Of a Runtime that keeps its records: once the products of a run are     *)
(* published, finalize(commit) is bound to be accepted, however often the  *)
(* cleanup is interrupted.                                                 *)
THEOREM CommitAcceptedCorrect ==
    ASSUME Provider = "docker" PROVE Spec => []CommitAccepted
<1>1. Agreement => CommitAccepted
  BY DEF Agreement, DataRight, CommitsRight, CommitAccepted, InSlot
<1> QED
  BY <1>1, AgreementCorrect, PTL

(* Of the same Runtime: the active session of a conversation is there when *)
(* the next run wants to resume it; no abort deletes it.                   *)
THEOREM HeadSessionKeptCorrect ==
    ASSUME Provider = "docker" PROVE Spec => []HeadSessionKept
<1>1. Agreement => HeadSessionKept
  BY DEF Agreement, DataRight, SessionsRight
<1> QED
  BY <1>1, AgreementCorrect, PTL

=============================================================================
