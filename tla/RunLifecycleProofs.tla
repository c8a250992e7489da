------------------------- MODULE RunLifecycleProofs -------------------------
(***************************************************************************)
(* RunLifecycle implements RunStore: whatever the scheduler, the           *)
(* cancellations and the failures do, the rows change by transactions of   *)
(* the store only, so every theorem about the store holds of the lifecycle *)
(* too.  Types and control come with it: a refinement step needs to know   *)
(* that the scheduler works on a run of the table.                         *)
(***************************************************************************)
EXTENDS RunLifecycle, RunStoreProofs

(* Every transaction on a run of the table is a step of the store.         *)
LEMMA TxIsStep ==
    ASSUME NEW r \in Runs
    PROVE  /\ \A c \in Conversations : SubmitMessage(r, c) => StoreNext
           /\ \A k \in SUBSET Runs : ClaimNext(r, k) => StoreNext
           /\ RefreshSource(r) => StoreNext
           /\ BeginSandboxAcquire(r) => StoreNext
           /\ AttachSandboxRef(r) => StoreNext
           /\ SetPhase(r, "agent") => StoreNext
           /\ SetPhase(r, "publishing") => StoreNext
           /\ RecordAgentFailed(r) => StoreNext
           /\ \A s \in {"failed", "cancelled", "interrupted"} : RecordFailure(r, s) => StoreNext
           /\ CommitProducts(r) => StoreNext
           /\ AcknowledgeFinalized(r) => StoreNext
           /\ CancelQueued(r) => StoreNext
           /\ MarkConsistency(r) => StoreNext
  BY DEF StoreNext, RunTx

LEMMA DeletionIsStep ==
    ASSUME NEW c \in Conversations, DeleteConversation(c)
    PROVE  StoreNext
  BY DEF StoreNext

-----------------------------------------------------------------------------
(* Control. *)

AllPcs == ReconcilePcs \cup FinishPcs \cup ExecutePcs \cup SchedulerPcs

(* The run of the scheduler and of the cancellation are runs of the table. *)
LEMMA ControlFacts ==
    ASSUME TypeOK
    PROVE  /\ pc \in WorkingPcs => run \in Runs /\ rows[run] \in Row
           /\ cancel.at # "idle" => cancel.run \in Runs
  BY DEF TypeOK, StoreTypeOK, SchedTypeOK, CancelTypeOK, NoCancel

LEMMA NoReconcileType == NoReconcile \in [listed : SUBSET Runs, seen : [Runs -> Row],
                                          todo : SUBSET Runs, failed : BOOLEAN]
  BY NoRowType DEF NoReconcile

LEMMA NoFinishType ==
    NoFinish \in [view : Row, found : {"none", "live", "awaiting"},
                  caller : {"nobody", "success", "failure", "reconcile", "unpromoted"}]
  BY NoRowType DEF NoFinish

LEMMA GotoType ==
    ASSUME SchedTypeOK, NEW l \in AllPcs, run \in Runs \/ l \notin WorkingPcs, Goto(l)
    PROVE  SchedTypeOK'
  BY DEF SchedTypeOK, AllPcs, Goto

LEMMA LoopAgainType ==
    ASSUME NEW b \in BOOLEAN, LoopAgain(b)
    PROVE  SchedTypeOK'
  BY NoReconcileType, NoFinishType
     DEF SchedTypeOK, LoopAgain, ReconcilePcs, FinishPcs, ExecutePcs, WorkingPcs

LEMMA PauseType == ASSUME Pause PROVE SchedTypeOK'
  BY NoReconcileType, NoFinishType
     DEF SchedTypeOK, Pause, SchedulerPcs, FinishPcs, ExecutePcs, WorkingPcs

LEMMA NextVisitType ==
    ASSUME SchedTypeOK, NEW b \in BOOLEAN, NextVisit(b)
    PROVE  SchedTypeOK'
<1>1. rec' \in [listed : SUBSET Runs, seen : [Runs -> Row], todo : SUBSET Runs, failed : BOOLEAN]
  <2>1. [rec.seen EXCEPT ![run] = NoRow] \in [Runs -> Row]
    BY NoRowType DEF SchedTypeOK
  <2> QED
    BY <2>1 DEF SchedTypeOK, NextVisit
<1> QED
  BY <1>1, NoFinishType
     DEF SchedTypeOK, NextVisit, ReconcilePcs, FinishPcs, ExecutePcs, WorkingPcs

LEMMA FinishLeaseType ==
    ASSUME SchedTypeOK, run \in Runs, NEW row \in Row,
           NEW caller \in {"success", "failure", "reconcile"}, FinishLease(row, caller)
    PROVE  SchedTypeOK'
  BY DEF SchedTypeOK, FinishLease, FinishPcs, WorkingPcs

LEMMA FinishReturnsType ==
    ASSUME SchedTypeOK, NEW b \in BOOLEAN, FinishReturns(b)
    PROVE  SchedTypeOK'
  BY NextVisitType, PauseType, LoopAgainType DEF FinishReturns



LEMMA FinishType == ASSUME TypeOK, Finish PROVE SchedTypeOK'
<1>1. SchedTypeOK /\ run \in Runs
  BY ControlFacts DEF TypeOK, Finish, WorkingPcs, FinishPcs
<1>2. CASE Goto("abortList") \/ Goto("commitSession") \/ Pause \/ FinishReturns(TRUE)
  BY <1>1, <1>2, GotoType, PauseType, FinishReturnsType DEF AllPcs, FinishPcs
<1>3. CASE /\ pc' = "abortList" /\ fin' = [fin EXCEPT !.caller = "unpromoted"]
           /\ UNCHANGED <<run, startup, stopping, rec>>
  BY <1>1, <1>3 DEF SchedTypeOK, WorkingPcs, FinishPcs
<1> QED
  BY <1>2, <1>3 DEF Finish

LEMMA FoundType ==
    ASSUME TypeOK, NEW r \in Runs
    PROVE  FoundExecution(r) \in {"none", "live", "awaiting"}
  BY DEF TypeOK, RuntimeTypeOK, Execution, FoundExecution, Unfinalized

LEMMA AbortListType == ASSUME TypeOK, AbortList PROVE SchedTypeOK'
<1>1. SchedTypeOK /\ run \in Runs /\ FoundExecution(run) \in {"none", "live", "awaiting"}
  BY ControlFacts, FoundType DEF TypeOK, AbortList, WorkingPcs, FinishPcs
<1>2. CASE FinishReturns(TRUE)
  BY <1>1, <1>2, FinishReturnsType
<1>3. CASE /\ pc' \in {"abortRecord", "abortCancel", "acknowledge", "abortSession"}
           /\ fin' = [fin EXCEPT !.found = FoundExecution(run)]
           /\ UNCHANGED <<run, startup, stopping, rec>>
  BY <1>1, <1>3 DEF SchedTypeOK, WorkingPcs, FinishPcs
<1> QED
  BY <1>2, <1>3 DEF AbortList, AfterStop

LEMMA AbortRecordType == ASSUME TypeOK, AbortRecord PROVE SchedTypeOK'
<1>1. SchedTypeOK /\ run \in Runs
  BY ControlFacts DEF TypeOK, AbortRecord, WorkingPcs, FinishPcs
<1>2. CASE FinishReturns(TRUE)
  BY <1>1, <1>2, FinishReturnsType
<1>3. CASE Goto("abortCancel") \/ Goto("acknowledge") \/ Goto("abortSession")
  BY <1>1, <1>3, GotoType DEF AllPcs, FinishPcs
<1> QED
  BY <1>2, <1>3 DEF AbortRecord, AfterStop

LEMMA PumpPhaseType == ASSUME TypeOK, PumpPhase PROVE SchedTypeOK'
<1>1. SchedTypeOK /\ run \in Runs
  BY ControlFacts DEF TypeOK, PumpPhase, PhaseDue, WorkingPcs, ExecutePcs
<1>2. CASE UNCHANGED schedVars
  BY <1>1, <1>2 DEF SchedTypeOK, schedVars
<1>3. CASE Goto("drain")
  BY <1>1, <1>3, GotoType DEF AllPcs, ExecutePcs
<1> QED
  BY <1>2, <1>3 DEF PumpPhase

LEMMA FailType == ASSUME TypeOK, Fail PROVE SchedTypeOK'
<1>1. SchedTypeOK /\ run \in Runs /\ pc \in {"failAbsent", "failLease", "failBare"}
  BY ControlFacts DEF TypeOK, Fail, AfterFailure, WorkingPcs, ExecutePcs
<1>2. AfterFailure[pc] \in {"failAck", "failRead", "list"}
  BY <1>1 DEF AfterFailure
<1>3. CASE LoopAgain(TRUE)
  BY <1>3, LoopAgainType
<1>4. CASE Goto("failAck") \/ Goto("failRead")
  BY <1>1, <1>4, GotoType DEF AllPcs, ExecutePcs
<1> QED
  BY <1>2, <1>3, <1>4 DEF Fail

LEMMA ListType == ASSUME TypeOK, List PROVE SchedTypeOK'
<1>1. SchedTypeOK /\ Listed \in SUBSET Runs
  BY DEF TypeOK, Listed
<1>2. CASE UNCHANGED schedVars
  BY <1>1, <1>2 DEF SchedTypeOK, schedVars
<1>3. CASE /\ pc' = "snapshot" /\ rec' = [rec EXCEPT !.listed = Listed]
           /\ UNCHANGED <<run, startup, stopping, fin>>
  BY <1>1, <1>3 DEF SchedTypeOK, ReconcilePcs, FinishPcs, ExecutePcs, WorkingPcs
<1> QED
  BY <1>2, <1>3 DEF List

LEMMA SnapshotType == ASSUME TypeOK, Snapshot PROVE SchedTypeOK'
<1>1. SchedTypeOK /\ startup \in BOOLEAN
  BY DEF TypeOK, SchedTypeOK
<1>2. CASE LoopAgain(startup)
  BY <1>1, <1>2, LoopAgainType
<1>3. CASE /\ pc' = "visit" /\ UNCHANGED <<run, startup, stopping, fin>>
           /\ rec' = [rec EXCEPT !.todo = Retained(~startup),
                                 !.seen = [r \in Runs |-> IF r \in Retained(~startup)
                                                          THEN rows[r] ELSE NoRow]]
  <2>1. Retained(~startup) \in SUBSET Runs
    BY DEF Retained
  <2>2. [r \in Runs |-> IF r \in Retained(~startup) THEN rows[r] ELSE NoRow] \in [Runs -> Row]
    BY NoRowType DEF TypeOK, StoreTypeOK
  <2> QED
    BY <1>1, <1>3, <2>1, <2>2 DEF SchedTypeOK, ReconcilePcs, FinishPcs, ExecutePcs, WorkingPcs
<1> QED
  BY <1>2, <1>3 DEF Snapshot

LEMMA VisitType == ASSUME TypeOK, Visit PROVE SchedTypeOK'
<1>1. SchedTypeOK
  BY DEF TypeOK
<1>2. CASE Pause
  BY <1>2, PauseType
<1>3. ASSUME NEW r \in rec.todo, FirstStep(r) # "paused", run' = r, pc' = FirstStep(r),
             UNCHANGED <<startup, stopping, rec, fin>>
      PROVE  SchedTypeOK'
  <2>1. FirstStep(r) \in {"recover", "attachFound", "absentRecord", "absentAck"}
    BY <1>3 DEF FirstStep
  <2>2. r \in Runs
    BY <1>1, <1>3 DEF SchedTypeOK
  <2> QED
    BY <1>1, <1>3, <2>1, <2>2 DEF SchedTypeOK, ReconcilePcs, WorkingPcs
<1> QED
  BY <1>2, <1>3 DEF Visit

LEMMA ReconcileReturnsType == ASSUME TypeOK, ReconcileReturns PROVE SchedTypeOK'
<1>1. SchedTypeOK /\ startup \in BOOLEAN
  BY DEF TypeOK, SchedTypeOK
<1>2. CASE LoopAgain(startup)
  BY <1>1, <1>2, LoopAgainType
<1>3. CASE /\ pc' = "claim" /\ startup' = FALSE /\ rec' = NoReconcile
           /\ UNCHANGED <<run, stopping, fin>>
  BY <1>1, <1>3, NoReconcileType
     DEF SchedTypeOK, SchedulerPcs, FinishPcs, ExecutePcs, WorkingPcs
<1> QED
  BY <1>2, <1>3 DEF ReconcileReturns

LEMMA AttachFoundType == ASSUME TypeOK, AttachFound PROVE SchedTypeOK'
<1>1. SchedTypeOK /\ startup \in BOOLEAN /\ run \in Runs
  BY ControlFacts DEF TypeOK, SchedTypeOK, AttachFound, WorkingPcs
<1>2. CASE LoopAgain(startup)
  BY <1>1, <1>2, LoopAgainType
<1>3. CASE Goto("recover")
  BY <1>1, <1>3, GotoType DEF AllPcs, ReconcilePcs
<1> QED
  BY <1>2, <1>3 DEF AttachFound

LEMMA RecoverType == ASSUME TypeOK, Recover PROVE SchedTypeOK'
<1>1. SchedTypeOK /\ run \in Runs /\ [rec.seen[run] EXCEPT !.ref = TRUE] \in Row
  <2>1. SchedTypeOK /\ run \in Runs
    BY ControlFacts DEF TypeOK, Recover, WorkingPcs
  <2>2. rec.seen[run] \in Row
    BY <2>1 DEF SchedTypeOK
  <2> QED
    BY <2>1, <2>2 DEF Row
<1>2. CASE FinishLease([rec.seen[run] EXCEPT !.ref = TRUE], "reconcile")
  BY <1>1, <1>2, FinishLeaseType
<1>3. CASE NextVisit(TRUE)
  BY <1>1, <1>3, NextVisitType
<1>4. CASE Goto("absentRecord") \/ Goto("absentAck")
  BY <1>1, <1>4, GotoType DEF AllPcs, ReconcilePcs
<1> QED
  BY <1>2, <1>3, <1>4 DEF Recover, AfterAbsence

LEMMA ClaimType == ASSUME TypeOK, Claim PROVE SchedTypeOK'
<1>1. SchedTypeOK
  BY DEF TypeOK
<1>2. CASE LoopAgain(TRUE) \/ LoopAgain(FALSE)
  BY <1>2, LoopAgainType
<1>3. ASSUME NEW r \in Runs, run' = r, pc' = "register",
             UNCHANGED <<startup, stopping, rec, fin>>
      PROVE  SchedTypeOK'
  BY <1>1, <1>3 DEF SchedTypeOK, SchedulerPcs, WorkingPcs
<1> QED
  BY <1>2, <1>3 DEF Claim


(* The scheduler's steps keep its own state well typed.                    *)
LEMMA SchedulerTypeStep ==
    ASSUME TypeOK, SchedulerNext
    PROVE  SchedTypeOK'
<1>1. CASE Finish
  BY <1>1, FinishType
<1>2. CASE CommitSession
  BY ControlFacts, <1>2, GotoType, FinishReturnsType, PauseType
     DEF TypeOK, CommitSession, AllPcs, WorkingPcs, FinishPcs
<1>3. CASE HeadSession
  BY ControlFacts, <1>3, GotoType, FinishReturnsType
     DEF TypeOK, HeadSession, AllPcs, WorkingPcs, FinishPcs
<1>4. CASE AbortList
  BY <1>4, AbortListType
<1>5. CASE AbortRecord
  BY <1>5, AbortRecordType
<1>6. CASE AbortCancel
  BY ControlFacts, <1>6, GotoType, FinishReturnsType
     DEF TypeOK, AbortCancel, AllPcs, WorkingPcs, FinishPcs
<1>7. CASE AbortRelist
  BY ControlFacts, <1>7, GotoType, FinishReturnsType
     DEF TypeOK, AbortRelist, AllPcs, WorkingPcs, FinishPcs
<1>8. CASE AbortSession
  BY ControlFacts, <1>8, GotoType, FinishReturnsType, PauseType
     DEF TypeOK, AbortSession, AllPcs, WorkingPcs, FinishPcs
<1>9. CASE Acknowledge
  BY ControlFacts, <1>9, FinishReturnsType, PauseType
     DEF TypeOK, Acknowledge, AllPcs, WorkingPcs, FinishPcs
<1>10. CASE Register
  BY ControlFacts, <1>10, GotoType
     DEF TypeOK, Register, AllPcs, WorkingPcs, ExecutePcs
<1>11. CASE Prepare
  BY ControlFacts, <1>11, GotoType
     DEF TypeOK, Prepare, ContextRead, AllPcs, WorkingPcs, ExecutePcs
<1>12. CASE Refresh
  BY ControlFacts, <1>12, GotoType
     DEF TypeOK, Refresh, ContextTx, AllPcs, WorkingPcs, ExecutePcs
<1>13. CASE Intent
  BY ControlFacts, <1>13, GotoType
     DEF TypeOK, Intent, ContextTx, AllPcs, WorkingPcs, ExecutePcs
<1>14. CASE Acquire
  BY ControlFacts, <1>14, GotoType
     DEF TypeOK, Acquire, AllPcs, WorkingPcs, ExecutePcs
<1>15. CASE Attach
  BY ControlFacts, <1>15, GotoType
     DEF TypeOK, Attach, ContextTx, AllPcs, WorkingPcs, ExecutePcs
<1>16. CASE Check
  BY ControlFacts, <1>16, GotoType
     DEF TypeOK, Check, ContextRead, AllPcs, WorkingPcs, ExecutePcs
<1>17. CASE Send
  BY ControlFacts, <1>17, GotoType
     DEF TypeOK, Send, AllPcs, WorkingPcs, ExecutePcs
<1>18. CASE PumpPhase
  BY <1>18, PumpPhaseType
<1>19. CASE PumpEventLost
  BY ControlFacts, <1>19, GotoType
     DEF TypeOK, PumpEventLost, PhaseDue, AllPcs, WorkingPcs, ExecutePcs
<1>20. CASE PumpTerminal
  BY ControlFacts, <1>20, GotoType
     DEF TypeOK, PumpTerminal, AllPcs, WorkingPcs, ExecutePcs
<1>21. CASE PumpError
  BY ControlFacts, <1>21, GotoType
     DEF TypeOK, PumpError, AllPcs, WorkingPcs, ExecutePcs
<1>22. CASE Recheck
  BY ControlFacts, <1>22, GotoType
     DEF TypeOK, Recheck, ContextRead, AllPcs, WorkingPcs, ExecutePcs
<1>23. CASE Validate
  BY ControlFacts, <1>23, GotoType
     DEF TypeOK, Validate, ContextRead, AllPcs, WorkingPcs, ExecutePcs
<1>24. CASE Publishing
  BY ControlFacts, <1>24, GotoType
     DEF TypeOK, Publishing, ContextTx, AllPcs, WorkingPcs, ExecutePcs
<1>25. CASE Publish
  BY ControlFacts, <1>25, GotoType
     DEF TypeOK, Publish, ContextRead, AllPcs, WorkingPcs, ExecutePcs
<1>26. CASE Products
  BY ControlFacts, <1>26, GotoType
     DEF TypeOK, Products, ContextTx, AllPcs, WorkingPcs, ExecutePcs
<1>27. CASE Promoted
  BY ControlFacts, <1>27, FinishLeaseType, LoopAgainType
     DEF TypeOK, Promoted, AllPcs, WorkingPcs, ExecutePcs
<1>28. CASE Fail
  BY <1>28, FailType
<1>29. CASE FailAcknowledge
  BY ControlFacts, <1>29, LoopAgainType
     DEF TypeOK, FailAcknowledge, AllPcs, WorkingPcs, ExecutePcs
<1>30. CASE FailRead
  BY ControlFacts, <1>30, FinishLeaseType, LoopAgainType
     DEF TypeOK, FailRead, AllPcs, WorkingPcs, ExecutePcs
<1>31. CASE List
  BY <1>31, ListType
<1>32. CASE Snapshot
  BY <1>32, SnapshotType
<1>33. CASE Visit
  BY <1>33, VisitType
<1>34. CASE ReconcileReturns
  BY <1>34, ReconcileReturnsType
<1>35. CASE AttachFound
  BY <1>35, AttachFoundType
<1>36. CASE Recover
  BY <1>36, RecoverType
<1>37. CASE AbsentRecord
  BY ControlFacts, <1>37, GotoType, NextVisitType
     DEF TypeOK, AbsentRecord, AllPcs, WorkingPcs, ReconcilePcs
<1>38. CASE AbsentAcknowledge
  BY ControlFacts, <1>38, NextVisitType
     DEF TypeOK, AbsentAcknowledge, AllPcs, WorkingPcs, ReconcilePcs
<1>39. CASE Claim
  BY <1>39, ClaimType
<1> QED
  BY <1>1, <1>2, <1>3, <1>4, <1>5, <1>6, <1>7, <1>8, <1>9, <1>10, <1>11, <1>12, <1>13, <1>14,
     <1>15, <1>16, <1>17, <1>18, <1>19, <1>20, <1>21, <1>22, <1>23, <1>24, <1>25, <1>26, <1>27,
     <1>28, <1>29, <1>30, <1>31, <1>32, <1>33, <1>34, <1>35, <1>36, <1>37, <1>38, <1>39
     DEF SchedulerNext, FinishLeaseNext, ExecuteNext, ReconcileNext

LEMMA SchedTypeStep ==
    ASSUME TypeOK, [Next]_vars
    PROVE  SchedTypeOK'
<1>0. SchedTypeOK
  BY DEF TypeOK
<1>1. CASE SchedulerNext
  BY <1>1, SchedulerTypeStep
<1>2. CASE UNCHANGED schedVars
  BY <1>0, <1>2 DEF SchedTypeOK, schedVars
<1>3. CASE CancelNext
  <2>1. CASE CancelSignalled
    BY <1>0, <2>1, ControlFacts DEF SchedTypeOK, CancelSignalled
  <2>2. CASE CancelQueuedRow \/ CancelRecorded \/ CancelConfirmed
    BY <1>2, <2>2 DEF CancelQueuedRow, CancelRecorded, CancelConfirmed
  <2> QED
    BY <1>3, <2>1, <2>2 DEF CancelNext
<1>4. ASSUME NEW r \in Runs, RuntimeNext(r)
      PROVE  SchedTypeOK'
  BY <1>2, <1>4 DEF RuntimeNext, ExecuteArrives, SessionOpened,
     CandidateCreated, CandidateDurable, WorkerEnds
<1>5. CASE UserNext
  BY <1>2, <1>5 DEF UserNext, CancelRequested
<1>6. CASE Crash
  BY <1>6, LoopAgainType DEF Crash
<1>7. CASE RuntimeRestarts
  BY <1>2, <1>7 DEF RuntimeRestarts
<1>8. CASE UNCHANGED vars
  BY <1>2, <1>8 DEF vars
<1> QED
  BY <1>1, <1>3, <1>4, <1>5, <1>6, <1>7, <1>8 DEF Next

-----------------------------------------------------------------------------
(* Refinement: a step of the lifecycle is a transaction or leaves the rows *)
(* alone.                                                                  *)

LEMMA SchedulerImplements ==
    ASSUME TypeOK, SchedulerNext
    PROVE  StoreNext \/ UNCHANGED storeVars
<1>1. CASE Finish
  BY <1>1 DEF Finish
<1>2. CASE CommitSession
  BY <1>2 DEF CommitSession
<1>3. CASE HeadSession
  BY <1>3 DEF HeadSession
<1>4. CASE AbortList
  BY <1>4 DEF AbortList
<1>5. CASE AbortRecord
  <2>1. run \in Runs
    BY ControlFacts, <1>5 DEF AbortRecord, WorkingPcs, FinishPcs
  <2> QED
    BY <1>5, <2>1, TxIsStep DEF AbortRecord, Unacknowledged
<1>6. CASE AbortCancel
  BY <1>6 DEF AbortCancel
<1>7. CASE AbortRelist
  BY <1>7 DEF AbortRelist
<1>8. CASE AbortSession
  <2>1. run \in Runs
    BY ControlFacts, <1>8 DEF AbortSession, WorkingPcs, FinishPcs
  <2> QED
    BY <1>8, <2>1, TxIsStep DEF AbortSession, Unacknowledged
<1>9. CASE Acknowledge
  <2>1. run \in Runs
    BY ControlFacts, <1>9 DEF Acknowledge, WorkingPcs, FinishPcs
  <2> QED
    BY <1>9, <2>1, TxIsStep DEF Acknowledge, Unacknowledged
<1>10. CASE Register
  BY <1>10 DEF Register
<1>11. CASE Prepare
  BY <1>11 DEF Prepare, ContextRead
<1>12. CASE Refresh
  <2>1. run \in Runs
    BY ControlFacts, <1>12 DEF Refresh, ContextTx, WorkingPcs, ExecutePcs
  <2> QED
    BY <1>12, <2>1, TxIsStep DEF Refresh, ContextTx, Unacknowledged
<1>13. CASE Intent
  <2>1. run \in Runs
    BY ControlFacts, <1>13 DEF Intent, ContextTx, WorkingPcs, ExecutePcs
  <2> QED
    BY <1>13, <2>1, TxIsStep DEF Intent, ContextTx, Unacknowledged
<1>14. CASE Acquire
  BY <1>14 DEF Acquire
<1>15. CASE Attach
  <2>1. run \in Runs
    BY ControlFacts, <1>15 DEF Attach, ContextTx, WorkingPcs, ExecutePcs
  <2> QED
    BY <1>15, <2>1, TxIsStep DEF Attach, ContextTx, Unacknowledged
<1>16. CASE Check
  BY <1>16 DEF Check, ContextRead
<1>17. CASE Send
  BY <1>17 DEF Send
<1>18. CASE PumpPhase
  <2>1. run \in Runs
    BY ControlFacts, <1>18 DEF PumpPhase, PhaseDue, WorkingPcs, ExecutePcs
  <2> QED
    BY <1>18, <2>1, TxIsStep DEF PumpPhase, Unacknowledged, RecordPhase
<1>19. CASE PumpEventLost
  BY <1>19 DEF PumpEventLost
<1>20. CASE PumpTerminal
  <2>1. run \in Runs
    BY ControlFacts, <1>20 DEF PumpTerminal, WorkingPcs, ExecutePcs
  <2> QED
    BY <1>20, <2>1, TxIsStep DEF PumpTerminal, Unacknowledged
<1>21. CASE PumpError
  BY <1>21 DEF PumpError
<1>22. CASE Recheck
  BY <1>22 DEF Recheck, ContextRead
<1>23. CASE Validate
  BY <1>23 DEF Validate, ContextRead
<1>24. CASE Publishing
  <2>1. run \in Runs
    BY ControlFacts, <1>24 DEF Publishing, ContextTx, WorkingPcs, ExecutePcs
  <2> QED
    BY <1>24, <2>1, TxIsStep DEF Publishing, ContextTx, Unacknowledged
<1>25. CASE Publish
  BY <1>25 DEF Publish, ContextRead
<1>26. CASE Products
  <2>1. run \in Runs
    BY ControlFacts, <1>26 DEF Products, ContextTx, WorkingPcs, ExecutePcs
  <2> QED
    BY <1>26, <2>1, TxIsStep DEF Products, ContextTx, Unacknowledged
<1>27. CASE Promoted
  BY <1>27 DEF Promoted
<1>28. CASE Fail
  <2>1. run \in Runs
    BY ControlFacts, <1>28 DEF Fail, AfterFailure, WorkingPcs, ExecutePcs
  <2> QED
    BY <1>28, <2>1, TxIsStep DEF Fail, Unacknowledged
<1>29. CASE FailAcknowledge
  <2>1. run \in Runs
    BY ControlFacts, <1>29 DEF FailAcknowledge, WorkingPcs, ExecutePcs
  <2> QED
    BY <1>29, <2>1, TxIsStep DEF FailAcknowledge, Unacknowledged
<1>30. CASE FailRead
  BY <1>30 DEF FailRead
<1>31. CASE List
  BY <1>31 DEF List
<1>32. CASE Snapshot
  BY <1>32 DEF Snapshot
<1>33. CASE Visit
  BY <1>33 DEF Visit
<1>34. CASE ReconcileReturns
  BY <1>34 DEF ReconcileReturns
<1>35. CASE AttachFound
  <2>1. run \in Runs
    BY ControlFacts, <1>35 DEF AttachFound, WorkingPcs
  <2> QED
    BY <1>35, <2>1, TxIsStep DEF AttachFound, Unacknowledged
<1>36. CASE Recover
  BY <1>36 DEF Recover
<1>37. CASE AbsentRecord
  <2>1. run \in Runs
    BY ControlFacts, <1>37 DEF AbsentRecord, WorkingPcs
  <2> QED
    BY <1>37, <2>1, TxIsStep DEF AbsentRecord, Unacknowledged
<1>38. CASE AbsentAcknowledge
  <2>1. run \in Runs
    BY ControlFacts, <1>38 DEF AbsentAcknowledge, WorkingPcs
  <2> QED
    BY <1>38, <2>1, TxIsStep DEF AbsentAcknowledge, Unacknowledged
<1>39. CASE Claim
  <2>1. LockedRows \subseteq SUBSET Runs
    BY ControlFacts DEF LockedRows
  <2>2. PICK k \in LockedRows, r \in Runs : Unacknowledged(ClaimNext(r, k))
    BY <1>39, Zenon DEF Claim, Unacknowledged
  <2> QED
    BY <2>1, <2>2, TxIsStep DEF Unacknowledged
<1> QED
  BY <1>1, <1>2, <1>3, <1>4, <1>5, <1>6, <1>7, <1>8, <1>9, <1>10, <1>11, <1>12, <1>13, <1>14,
     <1>15, <1>16, <1>17, <1>18, <1>19, <1>20, <1>21, <1>22, <1>23, <1>24, <1>25, <1>26, <1>27,
     <1>28, <1>29, <1>30, <1>31, <1>32, <1>33, <1>34, <1>35, <1>36, <1>37, <1>38, <1>39
     DEF SchedulerNext, FinishLeaseNext, ExecuteNext, ReconcileNext

LEMMA StepImplements ==
    ASSUME TypeOK, [Next]_vars
    PROVE  [StoreNext]_storeVars
<1>1. CASE SchedulerNext
  BY <1>1, SchedulerImplements
<1>2. CASE CancelNext
  <2>1. CASE CancelQueuedRow
    BY <2>1, ControlFacts, TxIsStep DEF CancelQueuedRow, Unacknowledged
  <2>2. CASE CancelRecorded
    BY <2>2, ControlFacts, TxIsStep DEF CancelRecorded, Unacknowledged
  <2>3. CASE CancelConfirmed \/ CancelSignalled
    BY <2>3 DEF CancelConfirmed, CancelSignalled
  <2> QED
    BY <1>2, <2>1, <2>2, <2>3 DEF CancelNext
<1>3. ASSUME NEW r \in Runs, RuntimeNext(r)
      PROVE  [StoreNext]_storeVars
  BY <1>3 DEF RuntimeNext, ExecuteArrives, SessionOpened,
     CandidateCreated, CandidateDurable, WorkerEnds
<1>4. CASE UserNext
  BY <1>4, TxIsStep, DeletionIsStep DEF UserNext, CancelRequested
<1>5. CASE Crash \/ RuntimeRestarts
  BY <1>5 DEF Crash, RuntimeRestarts
<1>6. CASE UNCHANGED vars
  BY <1>6 DEF vars
<1> QED
  BY <1>1, <1>2, <1>3, <1>4, <1>5, <1>6 DEF Next

-----------------------------------------------------------------------------
(* Types of the Runtime, of the cancellation and of the budget.            *)

LEMMA ExecutionType ==
    ASSUME RuntimeTypeOK, NEW r \in Runs
    PROVE  /\ exec[r] \in Execution
           /\ \A d \in {"committed", "aborted"} : Decided(r, d) \in [Runs -> Execution]
           /\ Stopped(r) \in [Runs -> Execution]
           /\ SessionsAfterCommit(r) \in SUBSET Runs
           /\ SessionsAfterAbort(r) \in SUBSET Runs
<1>1. exec[r] \in Execution /\ exec \in [Runs -> Execution]
  BY DEF RuntimeTypeOK
<1>2. \A d \in {"committed", "aborted"} : Decided(r, d) \in [Runs -> Execution]
  BY <1>1 DEF Decided, Execution
<1>3. Stopped(r) \in [Runs -> Execution]
  <2>1. [exec[r] EXCEPT !.lifecycle = "awaiting", !.outcome = "failed"] \in Execution
    BY <1>1 DEF Execution
  <2> QED
    BY <1>1, <2>1 DEF Stopped
<1>4. SessionsAfterCommit(r) \in SUBSET Runs /\ SessionsAfterAbort(r) \in SUBSET Runs
  BY DEF RuntimeTypeOK, SessionsAfterCommit, SessionsAfterAbort
<1> QED
  BY <1>1, <1>2, <1>3, <1>4

LEMMA ReleaseType ==
    ASSUME RuntimeTypeOK, NEW r \in Runs, Release(r)
    PROVE  leases' \in [Runs -> {"none", "held", "released"}]
  BY DEF RuntimeTypeOK, Release

LEMMA SchedulerRuntimeType ==
    ASSUME TypeOK, SchedulerNext
    PROVE  RuntimeTypeOK'
<1>0. RuntimeTypeOK
  BY DEF TypeOK
<1>1. CASE CommitSession
  <2>1. run \in Runs
    BY ControlFacts, <1>1 DEF CommitSession, WorkingPcs, FinishPcs
  <2> QED
    BY <1>0, <1>1, <2>1, ExecutionType DEF CommitSession, RuntimeTypeOK
<1>2. CASE HeadSession
  <2>1. run \in Runs
    BY ControlFacts, <1>2 DEF HeadSession, WorkingPcs, FinishPcs
  <2> QED
    BY <1>0, <1>2, <2>1, ReleaseType DEF HeadSession, RuntimeTypeOK
<1>3. CASE AbortList
  <2>1. run \in Runs
    BY ControlFacts, <1>3 DEF AbortList, WorkingPcs, FinishPcs
  <2> QED
    BY <1>0, <1>3, <2>1, ReleaseType DEF AbortList, RuntimeTypeOK
<1>4. CASE AbortRecord
  <2>1. run \in Runs
    BY ControlFacts, <1>4 DEF AbortRecord, WorkingPcs, FinishPcs
  <2> QED
    BY <1>0, <1>4, <2>1, ReleaseType DEF AbortRecord, RuntimeTypeOK
<1>5. CASE AbortCancel
  <2>1. run \in Runs
    BY ControlFacts, <1>5 DEF AbortCancel, WorkingPcs, FinishPcs
  <2> QED
    BY <1>0, <1>5, <2>1, ExecutionType DEF AbortCancel, RuntimeTypeOK
<1>6. CASE AbortSession
  <2>1. run \in Runs
    BY ControlFacts, <1>6 DEF AbortSession, WorkingPcs, FinishPcs
  <2> QED
    BY <1>0, <1>6, <2>1, ExecutionType, ReleaseType DEF AbortSession, RuntimeTypeOK
<1>7. CASE Acquire
  <2>1. run \in Runs
    BY ControlFacts, <1>7 DEF Acquire, WorkingPcs, ExecutePcs
  <2> QED
    BY <1>0, <1>7, <2>1 DEF Acquire, RuntimeTypeOK
<1>8. CASE Send
  <2>1. run \in Runs
    BY ControlFacts, <1>8 DEF Send, WorkingPcs, ExecutePcs
  <2> QED
    BY <1>0, <1>8, <2>1 DEF Send, RuntimeTypeOK
<1>9. CASE PumpError
  <2>1. run \in Runs
    BY ControlFacts, <1>9 DEF PumpError, WorkingPcs, ExecutePcs
  <2> QED
    BY <1>0, <1>9, <2>1 DEF PumpError, RuntimeTypeOK
<1>10. CASE Finish \/ AbortRelist \/ Acknowledge
  <2>1. UNCHANGED runtimeVars
    BY <1>10 DEF Finish, AbortRelist, Acknowledge
  <2> QED
    BY <1>0, <2>1 DEF RuntimeTypeOK, runtimeVars
<1>11. CASE Register \/ Prepare \/ Refresh \/ Intent \/ Attach \/ Check \/ PumpPhase
              \/ PumpEventLost \/ PumpTerminal \/ Recheck \/ Validate \/ Publishing \/ Publish \/ Products
              \/ Promoted \/ Fail \/ FailAcknowledge \/ FailRead
  <2>1. UNCHANGED runtimeVars
    BY <1>11 DEF Register, Prepare, Refresh, Intent, Attach, Check, PumpPhase, PumpEventLost,
       PumpTerminal, Recheck, Validate, Publishing, Publish, Products, Promoted, Fail,
       FailAcknowledge, FailRead, ContextTx, ContextRead
  <2> QED
    BY <1>0, <2>1 DEF RuntimeTypeOK, runtimeVars
<1>12. CASE List \/ Snapshot \/ Visit \/ ReconcileReturns \/ AttachFound \/ Recover \/ AbsentRecord
              \/ AbsentAcknowledge \/ Claim
  <2>1. UNCHANGED runtimeVars
    BY <1>12 DEF List, Snapshot, Visit, ReconcileReturns, AttachFound, Recover, AbsentRecord,
       AbsentAcknowledge, Claim
  <2> QED
    BY <1>0, <2>1 DEF RuntimeTypeOK, runtimeVars
<1> QED
  BY <1>1, <1>2, <1>3, <1>4, <1>5, <1>6, <1>7, <1>8, <1>9, <1>10, <1>11, <1>12
     DEF SchedulerNext, FinishLeaseNext, ExecuteNext, ReconcileNext

LEMMA RuntimeTypeStep ==
    ASSUME TypeOK, [Next]_vars
    PROVE  RuntimeTypeOK'
<1>0. RuntimeTypeOK /\ rows \in [Runs -> Row]
  BY DEF TypeOK, StoreTypeOK
<1>1. CASE SchedulerNext
  BY <1>1, SchedulerRuntimeType
<1>2. CASE UNCHANGED runtimeVars
  BY <1>0, <1>2 DEF RuntimeTypeOK, runtimeVars
<1>3. CASE CancelNext
  BY <1>2, <1>3 DEF CancelNext, CancelQueuedRow, CancelRecorded, CancelConfirmed, CancelSignalled
<1>4. ASSUME NEW r \in Runs, ExecuteArrives(r)
      PROVE  RuntimeTypeOK'
  <2>1. rows[r].source \in Sessions
    BY <1>0 DEF Row
  <2>2. Reserved(r) \in Execution
    BY <1>0, <2>1 DEF Reserved, NoExecution, Execution, RuntimeTypeOK
  <2> QED
    BY <1>0, <1>4, <2>2 DEF ExecuteArrives, RuntimeTypeOK
<1>5. ASSUME NEW r \in Runs, CandidateCreated(r) \/ CandidateDurable(r)
      PROVE  RuntimeTypeOK'
  <2>1. PICK s \in {"created", "durable"} : exec' = [exec EXCEPT ![r].candidate = s]
    BY <1>5 DEF CandidateCreated, CandidateDurable
  <2> DEFINE record == [exec[r] EXCEPT !.candidate = s]
  <2>2. exec' = [exec EXCEPT ![r] = record]
    BY <2>1
  <2>3. record \in Execution
    <3>1. exec[r] \in Execution
      BY <1>0 DEF RuntimeTypeOK
    <3> QED
      BY <3>1 DEF Execution
  <2> HIDE DEF record
  <2> QED
    <3>1. exec' \in [Runs -> Execution]
      BY <1>0, <2>2, <2>3 DEF RuntimeTypeOK
    <3>2. /\ sessions' \in SUBSET Runs
          /\ leases' \in [Runs -> {"none", "held", "released"}] /\ inflight' \in SUBSET Runs
      BY <1>0, <1>5 DEF CandidateCreated, CandidateDurable, RuntimeTypeOK
    <3> QED
      BY <3>1, <3>2 DEF RuntimeTypeOK
<1>6. ASSUME NEW r \in Runs, WorkerEnds(r)
      PROVE  RuntimeTypeOK'
  <2>1. PICK o \in {"completed", "failed"} :
           exec' = [exec EXCEPT ![r].lifecycle = "awaiting", ![r].outcome = o]
    BY <1>6 DEF WorkerEnds
  <2> DEFINE record == [exec[r] EXCEPT !.lifecycle = "awaiting", !.outcome = o]
  <2>2. exec' = [exec EXCEPT ![r] = record]
    BY <2>1
  <2>3. record \in Execution
    <3>1. exec[r] \in Execution
      BY <1>0 DEF RuntimeTypeOK
    <3> QED
      BY <3>1 DEF Execution
  <2> HIDE DEF record
  <2> QED
    <3>1. exec' \in [Runs -> Execution]
      BY <1>0, <2>2, <2>3 DEF RuntimeTypeOK
    <3>2. /\ sessions' \in SUBSET Runs
          /\ leases' \in [Runs -> {"none", "held", "released"}] /\ inflight' \in SUBSET Runs
      BY <1>0, <1>6 DEF WorkerEnds, RuntimeTypeOK
    <3> QED
      BY <3>1, <3>2 DEF RuntimeTypeOK
<1>7. CASE UserNext
  BY <1>2, <1>7 DEF UserNext, CancelRequested
<1>8. CASE Crash
  <2>1. NoExecution \in Execution
    BY DEF NoExecution, Execution, Sessions
  <2> QED
    BY <1>0, <1>8, <2>1 DEF Crash, RuntimeTypeOK
<1>9. CASE RuntimeRestarts
  <2> DEFINE record(r) == [exec[r] EXCEPT !.lifecycle = "awaiting", !.outcome = "lost"]
  <2>1. exec' = [r \in Runs |-> IF Unfinalized(r) THEN record(r) ELSE exec[r]]
    BY <1>9 DEF RuntimeRestarts
  <2>2. ASSUME NEW r \in Runs
        PROVE  record(r) \in Execution /\ exec[r] \in Execution
    <3>1. exec[r] \in Execution
      BY <1>0 DEF RuntimeTypeOK
    <3> QED
      BY <3>1 DEF Execution
  <2> HIDE DEF record
  <2> QED
    <3>1. exec' \in [Runs -> Execution]
      BY <2>1, <2>2
    <3> QED
      BY <1>0, <1>9, <3>1 DEF RuntimeRestarts, RuntimeTypeOK
<1>10. CASE UNCHANGED vars
  BY <1>2, <1>10 DEF vars
<1>11. ASSUME NEW r \in Runs, SessionOpened(r)
       PROVE  RuntimeTypeOK'
  BY <1>0, <1>11 DEF SessionOpened, RuntimeTypeOK
<1> QED
  BY <1>1, <1>3, <1>4, <1>5, <1>6, <1>7, <1>8, <1>9, <1>10, <1>11
     DEF Next, RuntimeNext

LEMMA CancelTypeStep ==
    ASSUME TypeOK, [Next]_vars
    PROVE  CancelTypeOK'
<1>0. CancelTypeOK
  BY DEF TypeOK
<1>1. CASE UNCHANGED cancel
  BY <1>0, <1>1 DEF CancelTypeOK
<1>2. ASSUME NEW r \in Runs, NEW at \in {"idle", "queued", "record", "confirm", "signal"},
             CancelGoes(r, at)
      PROVE  CancelTypeOK'
  BY <1>2 DEF CancelGoes, CancelTypeOK
<1>3. CASE cancel' = NoCancel
  BY <1>3 DEF CancelTypeOK
<1>4. CASE SchedulerNext
  BY <1>1, <1>4 DEF SchedulerNext, FinishLeaseNext, ExecuteNext, ReconcileNext,
     Finish, CommitSession, HeadSession, AbortList, AbortRecord, AbortCancel, AbortRelist,
     AbortSession, Acknowledge, Register, Prepare, Refresh, Intent, Acquire, Attach, Check,
     Send, PumpPhase, PumpEventLost, PumpTerminal, PumpError, Recheck, Validate, Publishing,
     Publish, Products, Promoted, Fail, FailAcknowledge, FailRead, List, Snapshot, Visit,
     ReconcileReturns, AttachFound, Recover, AbsentRecord, AbsentAcknowledge, Claim, ContextTx,
     ContextRead
<1>5. CASE CancelNext
  <2>1. CASE CancelQueuedRow
    BY <1>2, <1>3, <2>1, ControlFacts DEF CancelQueuedRow
  <2>2. CASE CancelRecorded
    BY <1>2, <2>2, ControlFacts DEF CancelRecorded
  <2>3. CASE CancelConfirmed
    BY <1>2, <1>3, <2>3, ControlFacts DEF CancelConfirmed
  <2>4. CASE CancelSignalled
    BY <1>3, <2>4 DEF CancelSignalled
  <2> QED
    BY <1>5, <2>1, <2>2, <2>3, <2>4 DEF CancelNext
<1>6. ASSUME NEW r \in Runs, RuntimeNext(r)
      PROVE  CancelTypeOK'
  BY <1>1, <1>6 DEF RuntimeNext, ExecuteArrives, SessionOpened,
     CandidateCreated, CandidateDurable, WorkerEnds
<1>7. CASE UserNext
  BY <1>1, <1>2, <1>7 DEF UserNext, CancelRequested, Reads
<1>8. CASE Crash \/ RuntimeRestarts
  BY <1>1, <1>3, <1>8 DEF Crash, RuntimeRestarts
<1>9. CASE UNCHANGED vars
  BY <1>1, <1>9 DEF vars
<1> QED
  BY <1>4, <1>5, <1>6, <1>7, <1>8, <1>9 DEF Next

LEMMA BudgetTypeStep ==
    ASSUME TypeOK, [Next]_vars
    PROVE  budget' \in [faults : Nat, crashes : Nat]
<1>0. budget \in [faults : Nat, crashes : Nat]
  BY DEF TypeOK
<1>1. CASE UNCHANGED budget
  BY <1>0, <1>1
<1>2. CASE Fault
  BY <1>0, <1>2 DEF Fault
<1>3. CASE CrashBudget
  BY <1>0, <1>3 DEF CrashBudget
<1>4. CASE SchedulerNext
  <2>1. CASE FinishLeaseNext
    BY <1>1, <1>2, <2>1 DEF RuntimeFault, FinishLeaseNext, Finish, CommitSession, HeadSession, AbortList, AbortRecord, AbortCancel, AbortRelist,
       AbortSession, Acknowledge
  <2>2. CASE ExecuteNext
    BY <1>1, <1>2, <2>2 DEF ExecuteNext, ContextFault, ContextTx, ContextRead, Register, Prepare, Refresh, Intent, Acquire,
       Attach, Check, Send, PumpPhase, PumpEventLost, PumpTerminal, PumpError,
       Recheck, Validate, Publishing, Publish, Products, Promoted, Fail,
       FailAcknowledge, FailRead
  <2>3. CASE ReconcileNext \/ Claim
    BY <1>1, <1>2, <2>3 DEF RuntimeFault, ReconcileNext, List, Snapshot, Visit, ReconcileReturns, AttachFound, Recover,
       AbsentRecord, AbsentAcknowledge, Claim
  <2> QED
    BY <1>4, <2>1, <2>2, <2>3 DEF SchedulerNext
<1>5. CASE CancelNext
  BY <1>1, <1>2, <1>5
     DEF CancelNext, CancelQueuedRow, CancelRecorded, CancelConfirmed, CancelSignalled
<1>6. ASSUME NEW r \in Runs, RuntimeNext(r)
      PROVE  budget' \in [faults : Nat, crashes : Nat]
  BY <1>1, <1>6 DEF RuntimeNext, ExecuteArrives, SessionOpened,
     CandidateCreated, CandidateDurable, WorkerEnds
<1>7. CASE UserNext
  BY <1>1, <1>7 DEF UserNext, CancelRequested
<1>8. CASE Crash \/ RuntimeRestarts
  BY <1>3, <1>8 DEF Crash, RuntimeRestarts
<1>9. CASE UNCHANGED vars
  BY <1>1, <1>9 DEF vars
<1> QED
  BY <1>4, <1>5, <1>6, <1>7, <1>8, <1>9 DEF Next

-----------------------------------------------------------------------------
(* The invariant and the theorems. *)

LifecycleBase == StoreBase /\ TypeOK

LEMMA LifecycleInit == Init => LifecycleBase
<1> SUFFICES ASSUME Init
             PROVE  LifecycleBase
  OBVIOUS
<1>1. StoreBase
  BY StoreBaseInit DEF Init
<1>2. RuntimeTypeOK
  BY DEF Init, RuntimeTypeOK, NoExecution, Execution, Sessions
<1>3. SchedTypeOK
  BY NoReconcileType, NoFinishType
     DEF Init, SchedTypeOK, WorkingPcs, ReconcilePcs, FinishPcs, ExecutePcs
<1>4. CancelTypeOK /\ budget \in [faults : Nat, crashes : Nat]
  BY BudgetAssumption DEF Init, CancelTypeOK
<1> QED
  BY <1>1, <1>2, <1>3, <1>4 DEF LifecycleBase, StoreBase, TypeOK

LEMMA LifecycleStep ==
    ASSUME LifecycleBase, [Next]_vars
    PROVE  LifecycleBase'
<1>1. StoreBase'
  BY StepImplements, StoreBaseStep DEF LifecycleBase
<1> QED
  BY <1>1, RuntimeTypeStep, SchedTypeStep, CancelTypeStep, BudgetTypeStep
     DEF LifecycleBase, StoreBase, TypeOK

(* Types and control: the scheduler works on a run of the table whenever   *)
(* it works on one.                                                        *)
THEOREM TypeCorrect == Spec => []TypeOK
<1>1. LifecycleBase => TypeOK
  BY DEF LifecycleBase
<1> QED
  BY <1>1, LifecycleInit, LifecycleStep, PTL DEF Spec

(* The scheduler, the cancellations and every failure between them change  *)
(* the rows by the store's transactions only.                              *)
THEOREM LifecycleImplementsStore == Spec => ImplementsStore
<1>1. Init => StoreInit
  BY DEF Init
<1>2. LifecycleBase /\ [Next]_vars => [StoreNext]_storeVars
  BY StepImplements DEF LifecycleBase
<1> QED
  BY <1>1, <1>2, LifecycleInit, LifecycleStep, PTL DEF Spec, ImplementsStore, StoreSpec

(* What the store guarantees therefore holds with the scheduler, crashes   *)
(* and lost answers: one run in the slot, outcomes that do not change, a   *)
(* conversation's history in a line, the promotion that finishLease tests. *)
THEOREM LifecycleKeepsStore ==
    Spec => /\ []SingleSlot
            /\ []PromotedUntilSettled
            /\ [](HeadSucceeded /\ LinearHistory)
            /\ []DeletedQuiescent
            /\ OutcomeImmutable
  BY LifecycleImplementsStore, SingleSlotCorrect, PromotedCorrect, LinearHistoryCorrect,
     DeletedCorrect, OutcomeImmutableCorrect, PTL DEF ImplementsStore

=============================================================================
