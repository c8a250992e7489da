--------------------------- MODULE RunStoreProofs ---------------------------
(***************************************************************************)
(* What RunStore's transactions guarantee for any number of runs and       *)
(* conversations, whoever calls them and in whatever order.  The           *)
(* invariants are proved one on top of the other: types and the shape of a *)
(* row, then the slot, then the history of a conversation.                 *)
(***************************************************************************)
EXTENDS RunStore, TLAPS

(* The transactions by name, so that the proofs below can split on them.   *)
LEMMA StoreCases ==
    ASSUME [StoreNext]_storeVars
    PROVE  \/ UNCHANGED storeVars
           \/ \E r \in Runs, c \in Conversations : SubmitMessage(r, c)
           \/ \E r \in Runs, locked \in SUBSET Runs : ClaimNext(r, locked)
           \/ \E r \in Runs : RefreshSource(r)
           \/ \E r \in Runs : BeginSandboxAcquire(r)
           \/ \E r \in Runs : AttachSandboxRef(r)
           \/ \E r \in Runs, p \in {"preparing", "agent", "publishing"} : SetPhase(r, p)
           \/ \E r \in Runs : RecordAgentFailed(r)
           \/ \E r \in Runs, s \in {"failed", "cancelled", "interrupted"} : RecordFailure(r, s)
           \/ \E r \in Runs : CommitProducts(r)
           \/ \E r \in Runs : AcknowledgeFinalized(r)
           \/ \E r \in Runs : CancelQueued(r)
           \/ \E r \in Runs : MarkConsistency(r)
           \/ \E c \in Conversations : DeleteConversation(c)
  BY Zenon DEF StoreNext, RunTx

-----------------------------------------------------------------------------
(* Types and the shape of a row.  They go together: a row's conversation   *)
(* is one of Conversations only because the row exists.                    *)

StoreBase == StoreTypeOK /\ RowShape

LEMMA RowFacts ==
    ASSUME StoreBase, NEW r \in Runs
    PROVE  /\ rows[r] \in Row
           /\ Shaped(rows[r], r)
           /\ Exists(r) => rows[r].conv \in Conversations /\ head[rows[r].conv] \in Sessions
  BY DEF StoreBase, StoreTypeOK, RowShape, Shaped, Row, Exists

(* A transaction that rewrites one row keeps the others as they were. *)
LEMMA RowReplaced ==
    ASSUME StoreBase, NEW r \in Runs, NEW row \in Row, Shaped(row, r),
           rows' = [rows EXCEPT ![r] = row],
           head' \in [Conversations -> Sessions], deleted' \in [Conversations -> BOOLEAN]
    PROVE  StoreBase'
<1>1. StoreTypeOK'
  BY DEF StoreBase, StoreTypeOK
<1>2. ASSUME NEW q \in Runs
      PROVE  Shaped(rows'[q], q)
  BY <1>2 DEF StoreBase, StoreTypeOK, RowShape
<1> QED
  BY <1>1, <1>2 DEF StoreBase, RowShape, Shaped

LEMMA NoRowType == NoRow \in Row
  BY DEF NoRow, Row, Status, Phase, Terminal, Sessions, NoSession

LEMMA StoreBaseInit == StoreInit => StoreBase
  BY DEF StoreInit, StoreBase, StoreTypeOK, RowShape, Shaped, NoRow, Row, Status, Phase,
         Terminal, Sessions, NoSession

LEMMA StoreBaseStep ==
    ASSUME StoreBase, [StoreNext]_storeVars
    PROVE  StoreBase'
<1> USE DEF Row, Status, Phase, Terminal
<1>0. head \in [Conversations -> Sessions] /\ deleted \in [Conversations -> BOOLEAN]
  BY DEF StoreBase, StoreTypeOK
<1>1. CASE UNCHANGED storeVars
  BY <1>1 DEF storeVars, StoreBase, StoreTypeOK, RowShape, Shaped
<1>2. ASSUME NEW r \in Runs, NEW c \in Conversations, SubmitMessage(r, c)
      PROVE  StoreBase'
  <2> DEFINE row == [NoRow EXCEPT !.conv = c, !.status = "queued", !.source = head[c]]
  <2>1. rows' = [rows EXCEPT ![r] = row]
    BY <1>2 DEF SubmitMessage
  <2>2. row \in Row /\ Shaped(row, r)
    <3>1. head[c] \in Sessions
      BY <1>0
    <3> QED
      BY <3>1, ConversationsAssumption DEF NoRow, NoSession, Sessions, Shaped
  <2>3. head' \in [Conversations -> Sessions] /\ deleted' \in [Conversations -> BOOLEAN]
    BY <1>0, <1>2, RowFacts DEF SubmitMessage, Sessions
  <2> HIDE DEF row
  <2> QED BY <2>1, <2>2, <2>3, RowReplaced
<1>3. ASSUME NEW r \in Runs, NEW locked \in SUBSET Runs, ClaimNext(r, locked)
      PROVE  StoreBase'
  <2> DEFINE row == [rows[r] EXCEPT !.status = "running", !.phase = "preparing"]
  <2>1. rows' = [rows EXCEPT ![r] = row]
    BY <1>3 DEF ClaimNext
  <2>2. row \in Row /\ Shaped(row, r)
    BY <1>0, <1>3, RowFacts, ZenonT(40) DEF ClaimNext, CanClaim, Shaped
  <2>3. head' \in [Conversations -> Sessions] /\ deleted' \in [Conversations -> BOOLEAN]
    BY <1>0, <1>3, RowFacts DEF ClaimNext, Sessions
  <2> HIDE DEF row
  <2> QED BY <2>1, <2>2, <2>3, RowReplaced
<1>4. ASSUME NEW r \in Runs, RefreshSource(r)
      PROVE  StoreBase'
  <2> DEFINE row == [rows[r] EXCEPT !.source = head[rows[r].conv]]
  <2>1. rows' = [rows EXCEPT ![r] = row]
    BY <1>4 DEF RefreshSource
  <2>2. row \in Row /\ Shaped(row, r)
    BY <1>0, <1>4, RowFacts DEF RefreshSource, CanRefreshSource, Preparing, Exists, Shaped
  <2>3. head' \in [Conversations -> Sessions] /\ deleted' \in [Conversations -> BOOLEAN]
    BY <1>0, <1>4, RowFacts DEF RefreshSource, Sessions
  <2> HIDE DEF row
  <2> QED BY <2>1, <2>2, <2>3, RowReplaced
<1>5. ASSUME NEW r \in Runs, BeginSandboxAcquire(r)
      PROVE  StoreBase'
  <2> DEFINE row == [rows[r] EXCEPT !.provider = TRUE]
  <2>1. rows' = [rows EXCEPT ![r] = row]
    BY <1>5 DEF BeginSandboxAcquire
  <2>2. row \in Row /\ Shaped(row, r)
    BY <1>0, <1>5, RowFacts DEF BeginSandboxAcquire, CanBeginSandboxAcquire, Preparing, Shaped
  <2>3. head' \in [Conversations -> Sessions] /\ deleted' \in [Conversations -> BOOLEAN]
    BY <1>0, <1>5, RowFacts DEF BeginSandboxAcquire, Sessions
  <2> HIDE DEF row
  <2> QED BY <2>1, <2>2, <2>3, RowReplaced
<1>6. ASSUME NEW r \in Runs, AttachSandboxRef(r)
      PROVE  StoreBase'
  <2> DEFINE row == [rows[r] EXCEPT !.ref = TRUE]
  <2>1. rows' = [rows EXCEPT ![r] = row]
    BY <1>6 DEF AttachSandboxRef
  <2>2. row \in Row /\ Shaped(row, r)
    BY <1>0, <1>6, RowFacts DEF AttachSandboxRef, CanAttachSandboxRef, Shaped
  <2>3. head' \in [Conversations -> Sessions] /\ deleted' \in [Conversations -> BOOLEAN]
    BY <1>0, <1>6, RowFacts DEF AttachSandboxRef, Sessions
  <2> HIDE DEF row
  <2> QED BY <2>1, <2>2, <2>3, RowReplaced
<1>7. ASSUME NEW r \in Runs, NEW p \in {"preparing", "agent", "publishing"}, SetPhase(r, p)
      PROVE  StoreBase'
  <2> DEFINE row == [rows[r] EXCEPT !.phase = p]
  <2>1. rows' = [rows EXCEPT ![r] = row]
    BY <1>7 DEF SetPhase
  <2>2. row \in Row /\ Shaped(row, r)
    BY <1>0, <1>7, RowFacts DEF SetPhase, CanSetPhase, Shaped
  <2>3. head' \in [Conversations -> Sessions] /\ deleted' \in [Conversations -> BOOLEAN]
    BY <1>0, <1>7, RowFacts DEF SetPhase, Sessions
  <2> HIDE DEF row
  <2> QED BY <2>1, <2>2, <2>3, RowReplaced
<1>8. ASSUME NEW r \in Runs, RecordAgentFailed(r)
      PROVE  StoreBase'
  <2> DEFINE row == [rows[r] EXCEPT !.status = IF @ = "running" THEN "failed" ELSE @]
  <2>1. rows' = [rows EXCEPT ![r] = row]
    BY <1>8 DEF RecordAgentFailed
  <2>2. row \in Row /\ Shaped(row, r)
    BY <1>0, <1>8, RowFacts DEF RecordAgentFailed, Shaped
  <2>3. head' \in [Conversations -> Sessions] /\ deleted' \in [Conversations -> BOOLEAN]
    BY <1>0, <1>8, RowFacts DEF RecordAgentFailed, Sessions
  <2> HIDE DEF row
  <2> QED BY <2>1, <2>2, <2>3, RowReplaced
<1>9. ASSUME NEW r \in Runs, NEW s \in {"failed", "cancelled", "interrupted"}, RecordFailure(r, s)
      PROVE  StoreBase'
  <2> DEFINE row == [rows[r] EXCEPT !.status = IF @ \in Terminal THEN @ ELSE s]
  <2>1. rows' = [rows EXCEPT ![r] = row]
    BY <1>9 DEF RecordFailure
  <2>2. row \in Row /\ Shaped(row, r)
    BY <1>0, <1>9, RowFacts DEF RecordFailure, CanRecordFailure, Shaped
  <2>3. head' \in [Conversations -> Sessions] /\ deleted' \in [Conversations -> BOOLEAN]
    BY <1>0, <1>9, RowFacts DEF RecordFailure, Sessions
  <2> HIDE DEF row
  <2> QED BY <2>1, <2>2, <2>3, RowReplaced
<1>10. ASSUME NEW r \in Runs, CommitProducts(r)
       PROVE  StoreBase'
  <2> DEFINE row == [rows[r] EXCEPT !.status = "succeeded", !.candidate = r]
  <2>1. rows' = [rows EXCEPT ![r] = row]
    BY <1>10 DEF CommitProducts
  <2>2. row \in Row /\ Shaped(row, r)
    BY <1>0, <1>10, RowFacts DEF CommitProducts, CanCommitProducts, Sessions, Shaped
  <2>3. head' \in [Conversations -> Sessions] /\ deleted' \in [Conversations -> BOOLEAN]
    BY <1>0, <1>10, RowFacts DEF CommitProducts, Sessions
  <2> HIDE DEF row
  <2> QED BY <2>1, <2>2, <2>3, RowReplaced
<1>11. ASSUME NEW r \in Runs, AcknowledgeFinalized(r)
       PROVE  StoreBase'
  <2> DEFINE row == [rows[r] EXCEPT !.finalized = TRUE]
  <2>1. rows' = [rows EXCEPT ![r] = row]
    BY <1>11 DEF AcknowledgeFinalized
  <2>2. row \in Row /\ Shaped(row, r)
    BY <1>0, <1>11, RowFacts DEF AcknowledgeFinalized, CanAcknowledge, Shaped
  <2>3. head' \in [Conversations -> Sessions] /\ deleted' \in [Conversations -> BOOLEAN]
    BY <1>0, <1>11, RowFacts DEF AcknowledgeFinalized, Sessions
  <2> HIDE DEF row
  <2> QED BY <2>1, <2>2, <2>3, RowReplaced
<1>12. ASSUME NEW r \in Runs, CancelQueued(r)
       PROVE  StoreBase'
  <2> DEFINE row == [rows[r] EXCEPT !.status = "cancelled", !.finalized = TRUE]
  <2>1. rows' = [rows EXCEPT ![r] = row]
    BY <1>12 DEF CancelQueued
  <2>2. row \in Row /\ Shaped(row, r)
    BY <1>0, <1>12, RowFacts DEF CancelQueued, CanCancelQueued, Shaped
  <2>3. head' \in [Conversations -> Sessions] /\ deleted' \in [Conversations -> BOOLEAN]
    BY <1>0, <1>12, RowFacts DEF CancelQueued, Sessions
  <2> HIDE DEF row
  <2> QED BY <2>1, <2>2, <2>3, RowReplaced
<1>13. ASSUME NEW r \in Runs, MarkConsistency(r)
       PROVE  StoreBase'
  <2> DEFINE row == [rows[r] EXCEPT !.conflict = TRUE]
  <2>1. rows' = [rows EXCEPT ![r] = row]
    BY <1>13 DEF MarkConsistency
  <2>2. row \in Row /\ Shaped(row, r)
    BY <1>0, <1>13, RowFacts DEF MarkConsistency, Exists, Shaped
  <2>3. head' \in [Conversations -> Sessions] /\ deleted' \in [Conversations -> BOOLEAN]
    BY <1>0, <1>13, RowFacts DEF MarkConsistency, Sessions
  <2> HIDE DEF row
  <2> QED BY <2>1, <2>2, <2>3, RowReplaced
<1>14. ASSUME NEW c \in Conversations, DeleteConversation(c)
       PROVE  StoreBase'
  BY <1>0, <1>14 DEF DeleteConversation, StoreBase, StoreTypeOK, RowShape, Shaped
<1> QED
  BY <1>1, <1>2, <1>3, <1>4, <1>5, <1>6, <1>7, <1>8, <1>9, <1>10, <1>11, <1>12, <1>13, <1>14,
     StoreCases, Zenon

(* Every column keeps to its values.                                       *)
THEOREM StoreTypeCorrect == StoreSpec => []StoreTypeOK
<1>1. StoreBase => StoreTypeOK
  BY DEF StoreBase
<1> QED
  BY <1>1, StoreBaseInit, StoreBaseStep, PTL DEF StoreSpec

(* The columns of a row agree with each other.                             *)
THEOREM RowShapeCorrect == StoreSpec => []RowShape
<1>1. StoreBase => RowShape
  BY DEF StoreBase
<1> QED
  BY <1>1, StoreBaseInit, StoreBaseStep, PTL DEF StoreSpec


-----------------------------------------------------------------------------
(* The slot.  Only a claim puts a run into it, and only an empty one.      *)

LEMMA SlotEntered ==
    ASSUME StoreBase, [StoreNext]_storeVars, NEW q \in Runs, InSlot(q)'
    PROVE  InSlot(q) \/ \E k \in SUBSET Runs : ClaimNext(q, k)
<1>0. rows \in [Runs -> Row]
  BY DEF StoreBase, StoreTypeOK
<1>1. CASE UNCHANGED storeVars
  BY RowFacts, <1>0, <1>1 DEF storeVars, InSlot
<1>2. ASSUME NEW r \in Runs, NEW c \in Conversations, SubmitMessage(r, c)
      PROVE  InSlot(q) \/ \E k \in SUBSET Runs : ClaimNext(q, k)
  BY RowFacts, <1>0, <1>2 DEF SubmitMessage, InSlot, NoRow
<1>3. ASSUME NEW r \in Runs, NEW locked \in SUBSET Runs, ClaimNext(r, locked)
      PROVE  InSlot(q) \/ \E k \in SUBSET Runs : ClaimNext(q, k)
  BY RowFacts, <1>0, <1>3 DEF ClaimNext, InSlot
<1>4. ASSUME NEW r \in Runs, RefreshSource(r)
      PROVE  InSlot(q) \/ \E k \in SUBSET Runs : ClaimNext(q, k)
  BY RowFacts, <1>0, <1>4 DEF RefreshSource, InSlot, CanRefreshSource
<1>5. ASSUME NEW r \in Runs, BeginSandboxAcquire(r)
      PROVE  InSlot(q) \/ \E k \in SUBSET Runs : ClaimNext(q, k)
  BY RowFacts, <1>0, <1>5 DEF BeginSandboxAcquire, InSlot
<1>6. ASSUME NEW r \in Runs, AttachSandboxRef(r)
      PROVE  InSlot(q) \/ \E k \in SUBSET Runs : ClaimNext(q, k)
  BY RowFacts, <1>0, <1>6 DEF AttachSandboxRef, InSlot
<1>7. ASSUME NEW r \in Runs, NEW p \in {"preparing", "agent", "publishing"}, SetPhase(r, p)
      PROVE  InSlot(q) \/ \E k \in SUBSET Runs : ClaimNext(q, k)
  BY RowFacts, <1>0, <1>7 DEF SetPhase, InSlot
<1>8. ASSUME NEW r \in Runs, RecordAgentFailed(r)
      PROVE  InSlot(q) \/ \E k \in SUBSET Runs : ClaimNext(q, k)
  BY RowFacts, <1>0, <1>8 DEF RecordAgentFailed, InSlot
<1>9. ASSUME NEW r \in Runs, NEW s \in {"failed", "cancelled", "interrupted"}, RecordFailure(r, s)
      PROVE  InSlot(q) \/ \E k \in SUBSET Runs : ClaimNext(q, k)
  BY RowFacts, <1>0, <1>9 DEF RecordFailure, InSlot, CanRecordFailure
<1>10. ASSUME NEW r \in Runs, CommitProducts(r)
       PROVE  InSlot(q) \/ \E k \in SUBSET Runs : ClaimNext(q, k)
  BY RowFacts, <1>0, <1>10 DEF CommitProducts, InSlot, CanCommitProducts
<1>11. ASSUME NEW r \in Runs, AcknowledgeFinalized(r)
       PROVE  InSlot(q) \/ \E k \in SUBSET Runs : ClaimNext(q, k)
  BY RowFacts, <1>0, <1>11 DEF AcknowledgeFinalized, InSlot
<1>12. ASSUME NEW r \in Runs, CancelQueued(r)
       PROVE  InSlot(q) \/ \E k \in SUBSET Runs : ClaimNext(q, k)
  BY RowFacts, <1>0, <1>12 DEF CancelQueued, InSlot, CanCancelQueued
<1>13. ASSUME NEW r \in Runs, MarkConsistency(r)
       PROVE  InSlot(q) \/ \E k \in SUBSET Runs : ClaimNext(q, k)
  BY RowFacts, <1>0, <1>13 DEF MarkConsistency, InSlot
<1>14. ASSUME NEW c \in Conversations, DeleteConversation(c)
       PROVE  InSlot(q) \/ \E k \in SUBSET Runs : ClaimNext(q, k)
  BY RowFacts, <1>0, <1>14 DEF DeleteConversation, InSlot
<1> QED
  BY <1>1, <1>2, <1>3, <1>4, <1>5, <1>6, <1>7, <1>8, <1>9, <1>10, <1>11, <1>12, <1>13, <1>14,
     StoreCases, Zenon

LEMMA SlotStep ==
    ASSUME StoreBase, SingleSlot, [StoreNext]_storeVars
    PROVE  SingleSlot'
<1> SUFFICES ASSUME NEW p \in Runs, NEW q \in Runs, InSlot(p)', InSlot(q)'
             PROVE  p = q
  BY DEF SingleSlot
<1>1. CASE InSlot(p) /\ InSlot(q)
  BY <1>1 DEF SingleSlot
<1>2. ASSUME NEW a \in Runs, NEW b \in Runs, InSlot(b)', NEW k \in SUBSET Runs, ClaimNext(a, k)
      PROVE  a = b
  <2>1. rows \in [Runs -> Row] /\ ~InSlot(b)
    BY <1>2 DEF ClaimNext, CanClaim, SlotFree, StoreBase, StoreTypeOK
  <2> QED
    BY <1>2, <2>1 DEF ClaimNext, InSlot
<1> QED
  BY <1>1, <1>2, SlotEntered

(* However claims, failures and acknowledgements follow each other, at     *)
(* most one run is started and not yet finalized.                          *)
THEOREM SingleSlotCorrect == StoreSpec => []SingleSlot
<1> DEFINE Inv == StoreBase /\ SingleSlot
<1>1. StoreInit => Inv
  BY StoreBaseInit DEF StoreInit, SingleSlot, InSlot, NoRow
<1>2. Inv /\ [StoreNext]_storeVars => Inv'
  BY StoreBaseStep, SlotStep
<1>3. Inv => SingleSlot
  OBVIOUS
<1> QED
  BY <1>1, <1>2, <1>3, PTL DEF StoreSpec

-----------------------------------------------------------------------------
(* The history of a conversation.  Three transactions write it; the others *)
(* keep every conversation, source, session and success as they are.       *)

HistoryWritten ==
    \/ \E r \in Runs, c \in Conversations : SubmitMessage(r, c)
    \/ \E r \in Runs : RefreshSource(r)
    \/ \E r \in Runs : CommitProducts(r)

HistoryKept ==
    /\ head' = head
    /\ \A q \in Runs :
          /\ rows'[q].conv = rows[q].conv
          /\ rows'[q].source = rows[q].source
          /\ (rows'[q].status = "succeeded") <=> (rows[q].status = "succeeded")

LEMMA HistoryWriters ==
    ASSUME StoreBase, [StoreNext]_storeVars
    PROVE  HistoryKept \/ HistoryWritten
<1>0. rows \in [Runs -> Row]
  BY DEF StoreBase, StoreTypeOK
<1>1. CASE UNCHANGED storeVars
  BY RowFacts, <1>0, <1>1 DEF storeVars, HistoryKept
<1>2. ASSUME NEW r \in Runs, NEW c \in Conversations, SubmitMessage(r, c)
      PROVE  HistoryKept \/ HistoryWritten
  BY <1>2 DEF HistoryWritten
<1>3. ASSUME NEW r \in Runs, NEW locked \in SUBSET Runs, ClaimNext(r, locked)
      PROVE  HistoryKept \/ HistoryWritten
  BY RowFacts, <1>0, <1>3 DEF ClaimNext, HistoryKept, CanClaim
<1>4. ASSUME NEW r \in Runs, RefreshSource(r)
      PROVE  HistoryKept \/ HistoryWritten
  BY <1>4 DEF HistoryWritten
<1>5. ASSUME NEW r \in Runs, BeginSandboxAcquire(r)
      PROVE  HistoryKept \/ HistoryWritten
  BY RowFacts, <1>0, <1>5 DEF BeginSandboxAcquire, HistoryKept
<1>6. ASSUME NEW r \in Runs, AttachSandboxRef(r)
      PROVE  HistoryKept \/ HistoryWritten
  BY RowFacts, <1>0, <1>6 DEF AttachSandboxRef, HistoryKept
<1>7. ASSUME NEW r \in Runs, NEW p \in {"preparing", "agent", "publishing"}, SetPhase(r, p)
      PROVE  HistoryKept \/ HistoryWritten
  BY RowFacts, <1>0, <1>7 DEF SetPhase, HistoryKept
<1>8. ASSUME NEW r \in Runs, RecordAgentFailed(r)
      PROVE  HistoryKept \/ HistoryWritten
  BY RowFacts, <1>0, <1>8 DEF RecordAgentFailed, HistoryKept
<1>9. ASSUME NEW r \in Runs, NEW s \in {"failed", "cancelled", "interrupted"}, RecordFailure(r, s)
      PROVE  HistoryKept \/ HistoryWritten
  BY RowFacts, <1>0, <1>9 DEF RecordFailure, HistoryKept, CanRecordFailure, Terminal
<1>10. ASSUME NEW r \in Runs, CommitProducts(r)
       PROVE  HistoryKept \/ HistoryWritten
  BY <1>10 DEF HistoryWritten
<1>11. ASSUME NEW r \in Runs, AcknowledgeFinalized(r)
       PROVE  HistoryKept \/ HistoryWritten
  BY RowFacts, <1>0, <1>11 DEF AcknowledgeFinalized, HistoryKept
<1>12. ASSUME NEW r \in Runs, CancelQueued(r)
       PROVE  HistoryKept \/ HistoryWritten
  BY RowFacts, <1>0, <1>12 DEF CancelQueued, HistoryKept, CanCancelQueued
<1>13. ASSUME NEW r \in Runs, MarkConsistency(r)
       PROVE  HistoryKept \/ HistoryWritten
  BY RowFacts, <1>0, <1>13 DEF MarkConsistency, HistoryKept
<1>14. ASSUME NEW c \in Conversations, DeleteConversation(c)
       PROVE  HistoryKept \/ HistoryWritten
  BY RowFacts, <1>0, <1>14 DEF DeleteConversation, HistoryKept
<1> QED
  BY <1>1, <1>2, <1>3, <1>4, <1>5, <1>6, <1>7, <1>8, <1>9, <1>10, <1>11, <1>12, <1>13, <1>14,
     StoreCases, Zenon

History == HeadSucceeded /\ LinearHistory

(* A source is a run, so its row is one of the table's. *)
LEMMA SourceTyped ==
    ASSUME StoreBase, NEW p \in Runs, rows[p].source # NoSession
    PROVE  rows[p].source \in Runs
  BY DEF StoreBase, StoreTypeOK, Row, Sessions

LEMMA HeadTyped ==
    ASSUME StoreBase, NEW c \in Conversations, head[c] # NoSession
    PROVE  head[c] \in Runs
  BY DEF StoreBase, StoreTypeOK, Sessions

LEMMA HistoryOfKept ==
    ASSUME StoreBase, History, HistoryKept
    PROVE  History'
<1>1. HeadSucceeded'
  BY HeadTyped DEF History, HeadSucceeded, HistoryKept
<1>2. ASSUME NEW p \in Runs, rows'[p].source # NoSession
      PROVE  /\ rows'[rows'[p].source].status = "succeeded"
             /\ rows'[rows'[p].source].conv = rows'[p].conv
  BY <1>2, SourceTyped DEF History, LinearHistory, HistoryKept
<1>3. ASSUME NEW p \in Runs, rows'[p].status = "succeeded"
      PROVE  /\ rows'[p].source # head'[rows'[p].conv]
             /\ head'[rows'[p].conv] # NoSession
             /\ \A q \in Runs :
                   /\ rows'[q].status = "succeeded" /\ rows'[q].conv = rows'[p].conv
                   /\ rows'[q].source = rows'[p].source
                   => q = p
  BY <1>3 DEF History, LinearHistory, HistoryKept
<1> QED
  BY <1>1, <1>2, <1>3 DEF History, LinearHistory

LEMMA HistoryOfSubmit ==
    ASSUME StoreBase, History, NEW r \in Runs, NEW c \in Conversations, SubmitMessage(r, c)
    PROVE  History'
<1>1. /\ rows[r].status = "none" /\ head' = head
      /\ rows'[r].conv = c /\ rows'[r].source = head[c] /\ rows'[r].status = "queued"
      /\ \A q \in Runs \ {r} : rows'[q] = rows[q]
  BY DEF SubmitMessage, Exists, NoRow, StoreBase, StoreTypeOK
<1>2. HeadSucceeded'
  BY <1>1, HeadTyped DEF History, HeadSucceeded
<1>3. ASSUME NEW p \in Runs, rows'[p].source # NoSession
      PROVE  /\ rows'[rows'[p].source].status = "succeeded"
             /\ rows'[rows'[p].source].conv = rows'[p].conv
  <2>1. CASE p = r
    BY <1>1, <1>2, <1>3, <2>1 DEF HeadSucceeded
  <2>2. CASE p # r
    BY <1>1, <1>3, <2>2, SourceTyped DEF History, LinearHistory
  <2> QED
    BY <2>1, <2>2
<1>4. ASSUME NEW p \in Runs, rows'[p].status = "succeeded"
      PROVE  /\ rows'[p].source # head'[rows'[p].conv]
             /\ head'[rows'[p].conv] # NoSession
             /\ \A q \in Runs :
                   /\ rows'[q].status = "succeeded" /\ rows'[q].conv = rows'[p].conv
                   /\ rows'[q].source = rows'[p].source
                   => q = p
  BY <1>1, <1>4 DEF History, LinearHistory
<1> QED
  BY <1>2, <1>3, <1>4 DEF History, LinearHistory

LEMMA HistoryOfRefresh ==
    ASSUME StoreBase, History, NEW r \in Runs, RefreshSource(r)
    PROVE  History'
<1> DEFINE c == rows[r].conv
<1>1. /\ rows[r].status = "running" /\ head' = head /\ c \in Conversations
      /\ rows'[r].conv = c /\ rows'[r].source = head[c] /\ rows'[r].status = "running"
      /\ \A q \in Runs \ {r} : rows'[q] = rows[q]
  BY RowFacts DEF RefreshSource, CanRefreshSource, Preparing, Exists, StoreBase, StoreTypeOK, Row
<1>2. HeadSucceeded'
  BY <1>1, HeadTyped DEF History, HeadSucceeded
<1>3. ASSUME NEW p \in Runs, rows'[p].source # NoSession
      PROVE  /\ rows'[rows'[p].source].status = "succeeded"
             /\ rows'[rows'[p].source].conv = rows'[p].conv
  <2>1. CASE p = r
    BY <1>1, <1>2, <1>3, <2>1 DEF HeadSucceeded
  <2>2. CASE p # r
    BY <1>1, <1>3, <2>2, SourceTyped DEF History, LinearHistory
  <2> QED
    BY <2>1, <2>2
<1>4. ASSUME NEW p \in Runs, rows'[p].status = "succeeded"
      PROVE  /\ rows'[p].source # head'[rows'[p].conv]
             /\ head'[rows'[p].conv] # NoSession
             /\ \A q \in Runs :
                   /\ rows'[q].status = "succeeded" /\ rows'[q].conv = rows'[p].conv
                   /\ rows'[q].source = rows'[p].source
                   => q = p
  BY <1>1, <1>4 DEF History, LinearHistory
<1> QED
  BY <1>2, <1>3, <1>4 DEF History, LinearHistory

(* The only transaction that moves a head: its guard compares the source   *)
(* with the head it is about to replace.                                   *)
LEMMA HistoryOfCommit ==
    ASSUME StoreBase, History, NEW r \in Runs, CommitProducts(r)
    PROVE  History'
<1> DEFINE c == rows[r].conv
<1>1. /\ rows[r].status = "running" /\ rows[r].source = head[c] /\ c \in Conversations
      /\ rows'[r].conv = c /\ rows'[r].source = head[c] /\ rows'[r].status = "succeeded"
      /\ \A q \in Runs \ {r} : rows'[q] = rows[q]
      /\ head'[c] = r /\ \A d \in Conversations \ {c} : head'[d] = head[d]
  BY RowFacts DEF CommitProducts, CanCommitProducts, Exists, StoreBase, StoreTypeOK, Row
<1>2. r # NoSession
  BY RunsAssumption DEF NoSession
<1>3. \A q \in Runs : rows[q].source # r
  BY <1>1, <1>2 DEF History, LinearHistory
<1>4. \A q \in Runs : rows'[q].conv = rows[q].conv /\ rows'[q].source = rows[q].source
  BY <1>1
<1>5. HeadSucceeded'
  <2>1. ASSUME NEW d \in Conversations, head'[d] # NoSession
        PROVE  rows'[head'[d]].status = "succeeded" /\ rows'[head'[d]].conv = d
    BY <1>1, <2>1, HeadTyped DEF History, HeadSucceeded
  <2> QED
    BY <2>1 DEF HeadSucceeded
<1>6. ASSUME NEW p \in Runs, rows'[p].source # NoSession
      PROVE  /\ rows'[rows'[p].source].status = "succeeded"
             /\ rows'[rows'[p].source].conv = rows'[p].conv
  BY <1>1, <1>3, <1>4, <1>6, SourceTyped DEF History, LinearHistory
<1>7. ASSUME NEW p \in Runs, rows'[p].status = "succeeded"
      PROVE  /\ rows'[p].source # head'[rows'[p].conv]
             /\ head'[rows'[p].conv] # NoSession
  <2>1. CASE rows[p].conv = c
    BY <1>1, <1>2, <1>3, <1>4, <2>1
  <2>2. CASE rows[p].conv # c
    <3>1. p # r /\ rows[p].status = "succeeded" /\ rows[p].conv \in Conversations
      BY <1>1, <1>7, <2>2, RowFacts DEF Exists
    <3> QED
      BY <1>1, <1>4, <2>2, <3>1 DEF History, LinearHistory
  <2> QED
    BY <2>1, <2>2
<1>8. ASSUME NEW p \in Runs, NEW q \in Runs,
             rows'[p].status = "succeeded", rows'[q].status = "succeeded",
             rows'[q].conv = rows'[p].conv, rows'[q].source = rows'[p].source
      PROVE  q = p
  <2>1. CASE p = r \/ q = r
    BY <1>1, <1>4, <1>8, <2>1 DEF History, LinearHistory
  <2>2. CASE p # r /\ q # r
    BY <1>1, <1>8, <2>2 DEF History, LinearHistory
  <2> QED
    BY <2>1, <2>2
<1> QED
  BY <1>5, <1>6, <1>7, <1>8 DEF History, LinearHistory

LEMMA HistoryStep ==
    ASSUME StoreBase, History, [StoreNext]_storeVars
    PROVE  History'
  BY HistoryWriters, HistoryOfKept, HistoryOfSubmit, HistoryOfRefresh, HistoryOfCommit
     DEF HistoryWritten

LEMMA HistoryInit == StoreInit => History
  BY DEF StoreInit, History, HeadSucceeded, LinearHistory, NoRow

(* No answer is built on a history that another answer replaced.           *)
THEOREM LinearHistoryCorrect == StoreSpec => [](HeadSucceeded /\ LinearHistory)
<1>1. StoreBase /\ History => HeadSucceeded /\ LinearHistory
  BY DEF History
<1>2. StoreInit => StoreBase /\ History
  BY StoreBaseInit, HistoryInit
<1>3. StoreBase /\ History /\ [StoreNext]_storeVars => (StoreBase /\ History)'
  BY StoreBaseStep, HistoryStep
<1> QED
  BY <1>1, <1>2, <1>3, PTL DEF StoreSpec

(* The active session of a conversation is the session of a run of that    *)
(* conversation which succeeded: nothing but a publication promotes.       *)
THEOREM HeadSucceededCorrect == StoreSpec => []HeadSucceeded
<1>1. HeadSucceeded /\ LinearHistory => HeadSucceeded
  OBVIOUS
<1> QED
  BY <1>1, LinearHistoryCorrect, PTL

-----------------------------------------------------------------------------
(* Outcomes. *)

OutcomeKept ==
    \A q \in Runs :
        /\ rows[q].status \in Terminal => rows'[q].status = rows[q].status
        /\ rows[q].finalized => rows'[q].finalized

LEMMA OutcomeStep ==
    ASSUME StoreBase, [StoreNext]_storeVars
    PROVE  OutcomeKept
<1>0. rows \in [Runs -> Row]
  BY DEF StoreBase, StoreTypeOK
<1>1. CASE UNCHANGED storeVars
  BY RowFacts, <1>0, <1>1 DEF storeVars, OutcomeKept, Terminal
<1>2. ASSUME NEW r \in Runs, NEW c \in Conversations, SubmitMessage(r, c)
      PROVE  OutcomeKept
  BY RowFacts, <1>0, <1>2 DEF SubmitMessage, OutcomeKept, Terminal, Exists, NoRow, Shaped
<1>3. ASSUME NEW r \in Runs, NEW locked \in SUBSET Runs, ClaimNext(r, locked)
      PROVE  OutcomeKept
  BY RowFacts, <1>0, <1>3 DEF ClaimNext, OutcomeKept, Terminal, CanClaim
<1>4. ASSUME NEW r \in Runs, RefreshSource(r)
      PROVE  OutcomeKept
  BY RowFacts, <1>0, <1>4 DEF RefreshSource, OutcomeKept, Terminal, CanRefreshSource
<1>5. ASSUME NEW r \in Runs, BeginSandboxAcquire(r)
      PROVE  OutcomeKept
  BY RowFacts, <1>0, <1>5 DEF BeginSandboxAcquire, OutcomeKept, Terminal
<1>6. ASSUME NEW r \in Runs, AttachSandboxRef(r)
      PROVE  OutcomeKept
  BY RowFacts, <1>0, <1>6 DEF AttachSandboxRef, OutcomeKept, Terminal
<1>7. ASSUME NEW r \in Runs, NEW p \in {"preparing", "agent", "publishing"}, SetPhase(r, p)
      PROVE  OutcomeKept
  BY RowFacts, <1>0, <1>7 DEF SetPhase, OutcomeKept, Terminal
<1>8. ASSUME NEW r \in Runs, RecordAgentFailed(r)
      PROVE  OutcomeKept
  BY RowFacts, <1>0, <1>8 DEF RecordAgentFailed, OutcomeKept, Terminal
<1>9. ASSUME NEW r \in Runs, NEW s \in {"failed", "cancelled", "interrupted"}, RecordFailure(r, s)
      PROVE  OutcomeKept
  BY RowFacts, <1>0, <1>9 DEF RecordFailure, OutcomeKept, Terminal, CanRecordFailure
<1>10. ASSUME NEW r \in Runs, CommitProducts(r)
       PROVE  OutcomeKept
  BY RowFacts, <1>0, <1>10 DEF CommitProducts, OutcomeKept, Terminal, CanCommitProducts
<1>11. ASSUME NEW r \in Runs, AcknowledgeFinalized(r)
       PROVE  OutcomeKept
  BY RowFacts, <1>0, <1>11 DEF AcknowledgeFinalized, OutcomeKept, Terminal
<1>12. ASSUME NEW r \in Runs, CancelQueued(r)
       PROVE  OutcomeKept
  BY RowFacts, <1>0, <1>12 DEF CancelQueued, OutcomeKept, Terminal, CanCancelQueued
<1>13. ASSUME NEW r \in Runs, MarkConsistency(r)
       PROVE  OutcomeKept
  BY RowFacts, <1>0, <1>13 DEF MarkConsistency, OutcomeKept, Terminal
<1>14. ASSUME NEW c \in Conversations, DeleteConversation(c)
       PROVE  OutcomeKept
  BY RowFacts, <1>0, <1>14 DEF DeleteConversation, OutcomeKept, Terminal
<1> QED
  BY <1>1, <1>2, <1>3, <1>4, <1>5, <1>6, <1>7, <1>8, <1>9, <1>10, <1>11, <1>12, <1>13, <1>14,
     StoreCases, Zenon

(* A terminal status is never replaced, nor a finalization withdrawn.      *)
THEOREM OutcomeImmutableCorrect == StoreSpec => OutcomeImmutable
<1>1. StoreBase /\ [StoreNext]_storeVars =>
         [\A r \in Runs :
             /\ rows[r].status \in Terminal => rows'[r].status = rows[r].status
             /\ rows[r].finalized => rows'[r].finalized]_storeVars
  BY OutcomeStep DEF OutcomeKept
<1> QED
  BY <1>1, StoreBaseInit, StoreBaseStep, PTL DEF StoreSpec, OutcomeImmutable

-----------------------------------------------------------------------------
(* Promotion.  A head is moved by the run in the slot, so it stays with a  *)
(* succeeded run for as long as that run is the one in the slot.           *)

LEMMA PromotedStep ==
    ASSUME StoreBase, SingleSlot, PromotedUntilSettled, [StoreNext]_storeVars
    PROVE  PromotedUntilSettled'
<1>0. rows \in [Runs -> Row]
  BY DEF StoreBase, StoreTypeOK
<1> SUFFICES ASSUME NEW q \in Runs, rows'[q].status = "succeeded", ~rows'[q].finalized
             PROVE  head'[rows'[q].conv] = q
  BY DEF PromotedUntilSettled
<1>1. CASE \E r \in Runs : CommitProducts(r)
  <2>1. PICK r \in Runs : CommitProducts(r)
    BY <1>1
  <2>2. /\ rows[r].status = "running" /\ InSlot(r) /\ rows[r].conv \in Conversations
        /\ \A p \in Runs \ {r} : rows'[p] = rows[p]
        /\ rows'[r].conv = rows[r].conv /\ head'[rows[r].conv] = r
    BY <1>0, <2>1, RowFacts DEF CommitProducts, CanCommitProducts, InSlot, Exists, StoreBase,
                            StoreTypeOK, Row
  <2>3. q = r
    BY <2>2 DEF SingleSlot, InSlot
  <2> QED
    BY <2>2, <2>3
<1>2. CASE ~\E r \in Runs : CommitProducts(r)
  <2>1. head' = head
    BY <1>2, StoreCases DEF storeVars, SubmitMessage, ClaimNext, RefreshSource,
       BeginSandboxAcquire, AttachSandboxRef, SetPhase, RecordAgentFailed, RecordFailure,
       AcknowledgeFinalized, CancelQueued, MarkConsistency, DeleteConversation
  <2>2. rows[q].status = "succeeded" /\ rows'[q].conv = rows[q].conv
    <3>1. CASE HistoryKept
      BY <3>1 DEF HistoryKept
    <3>2. ASSUME NEW r \in Runs, NEW c \in Conversations, SubmitMessage(r, c)
          PROVE  rows[q].status = "succeeded" /\ rows'[q].conv = rows[q].conv
      BY <1>0, <3>2 DEF SubmitMessage, NoRow
    <3>3. ASSUME NEW r \in Runs, RefreshSource(r)
          PROVE  rows[q].status = "succeeded" /\ rows'[q].conv = rows[q].conv
      BY <1>0, <3>3 DEF RefreshSource, Row
    <3> QED
      BY <1>2, <3>1, <3>2, <3>3, HistoryWriters DEF HistoryWritten
  <2>3. ~rows[q].finalized
    BY OutcomeStep DEF OutcomeKept
  <2> QED
    BY <2>1, <2>2, <2>3 DEF PromotedUntilSettled
<1> QED
  BY <1>1, <1>2

(* The promotion test of finishLease cannot fail: until its cleanup is     *)
(* acknowledged a succeeded run's session is its conversation's head.      *)
THEOREM PromotedCorrect == StoreSpec => []PromotedUntilSettled
<1> DEFINE Inv == StoreBase /\ SingleSlot /\ PromotedUntilSettled
<1>1. StoreInit => Inv
  BY StoreBaseInit DEF StoreInit, SingleSlot, PromotedUntilSettled, InSlot, NoRow
<1>2. Inv /\ [StoreNext]_storeVars => Inv'
  BY StoreBaseStep, SlotStep, PromotedStep
<1>3. Inv => PromotedUntilSettled
  OBVIOUS
<1> QED
  BY <1>1, <1>2, <1>3, PTL DEF StoreSpec

-----------------------------------------------------------------------------
(* Deletion.  A settled row stays settled and where it is, and a deleted   *)
(* conversation takes no new one.                                          *)

Settles(q) == rows[q].status \notin {"queued", "running"} /\ rows[q].finalized

SettledKept ==
    \A q \in Runs : Settles(q) /\ rows[q].status # "none" =>
        rows'[q].conv = rows[q].conv /\ Settles(q)'

LEMMA SettledStep ==
    ASSUME StoreBase, [StoreNext]_storeVars
    PROVE  SettledKept
<1>0. rows \in [Runs -> Row]
  BY DEF StoreBase, StoreTypeOK
<1>1. CASE UNCHANGED storeVars
  BY RowFacts, <1>0, <1>1 DEF storeVars, SettledKept, Settles, Terminal
<1>2. ASSUME NEW r \in Runs, NEW c \in Conversations, SubmitMessage(r, c)
      PROVE  SettledKept
  BY RowFacts, <1>0, <1>2 DEF SubmitMessage, SettledKept, Settles, Terminal, Exists, NoRow
<1>3. ASSUME NEW r \in Runs, NEW locked \in SUBSET Runs, ClaimNext(r, locked)
      PROVE  SettledKept
  BY RowFacts, <1>0, <1>3 DEF ClaimNext, SettledKept, Settles, Terminal, CanClaim
<1>4. ASSUME NEW r \in Runs, RefreshSource(r)
      PROVE  SettledKept
  BY RowFacts, <1>0, <1>4 DEF RefreshSource, SettledKept, Settles, Terminal, CanRefreshSource, Preparing
<1>5. ASSUME NEW r \in Runs, BeginSandboxAcquire(r)
      PROVE  SettledKept
  BY RowFacts, <1>0, <1>5 DEF BeginSandboxAcquire, SettledKept, Settles, Terminal
<1>6. ASSUME NEW r \in Runs, AttachSandboxRef(r)
      PROVE  SettledKept
  BY RowFacts, <1>0, <1>6 DEF AttachSandboxRef, SettledKept, Settles, Terminal
<1>7. ASSUME NEW r \in Runs, NEW p \in {"preparing", "agent", "publishing"}, SetPhase(r, p)
      PROVE  SettledKept
  BY RowFacts, <1>0, <1>7 DEF SetPhase, SettledKept, Settles, Terminal
<1>8. ASSUME NEW r \in Runs, RecordAgentFailed(r)
      PROVE  SettledKept
  BY RowFacts, <1>0, <1>8 DEF RecordAgentFailed, SettledKept, Settles, Terminal
<1>9. ASSUME NEW r \in Runs, NEW s \in {"failed", "cancelled", "interrupted"}, RecordFailure(r, s)
      PROVE  SettledKept
  BY RowFacts, <1>0, <1>9 DEF RecordFailure, SettledKept, Settles, Terminal, CanRecordFailure
<1>10. ASSUME NEW r \in Runs, CommitProducts(r)
       PROVE  SettledKept
  BY RowFacts, <1>0, <1>10 DEF CommitProducts, SettledKept, Settles, Terminal, CanCommitProducts
<1>11. ASSUME NEW r \in Runs, AcknowledgeFinalized(r)
       PROVE  SettledKept
  BY RowFacts, <1>0, <1>11 DEF AcknowledgeFinalized, SettledKept, Settles, Terminal
<1>12. ASSUME NEW r \in Runs, CancelQueued(r)
       PROVE  SettledKept
  BY RowFacts, <1>0, <1>12 DEF CancelQueued, SettledKept, Settles, Terminal, CanCancelQueued
<1>13. ASSUME NEW r \in Runs, MarkConsistency(r)
       PROVE  SettledKept
  BY RowFacts, <1>0, <1>13 DEF MarkConsistency, SettledKept, Settles, Terminal
<1>14. ASSUME NEW c \in Conversations, DeleteConversation(c)
       PROVE  SettledKept
  BY RowFacts, <1>0, <1>14 DEF DeleteConversation, SettledKept, Settles, Terminal
<1> QED
  BY <1>1, <1>2, <1>3, <1>4, <1>5, <1>6, <1>7, <1>8, <1>9, <1>10, <1>11, <1>12, <1>13, <1>14,
     StoreCases, Zenon

LEMMA DeletedStep ==
    ASSUME StoreBase, DeletedQuiescent, [StoreNext]_storeVars
    PROVE  DeletedQuiescent'
<1>0. rows \in [Runs -> Row] /\ deleted \in [Conversations -> BOOLEAN]
  BY DEF StoreBase, StoreTypeOK
<1> SUFFICES ASSUME NEW d \in Conversations, deleted'[d], NEW q \in Runs, rows'[q].conv = d
             PROVE  Settles(q)'
  BY DEF DeletedQuiescent, Quiescent, Settles
<1>1. CASE \E r \in Runs, c \in Conversations : SubmitMessage(r, c)
  <2>1. PICK r \in Runs, c \in Conversations : SubmitMessage(r, c)
    BY <1>1
  <2>2. deleted[d] /\ q # r /\ rows'[q] = rows[q]
    BY <1>0, <2>1 DEF SubmitMessage, NoRow
  <2> QED
    BY <2>2 DEF DeletedQuiescent, Quiescent, Settles
<1>2. CASE \E c \in Conversations : DeleteConversation(c)
  <2>1. PICK c \in Conversations : DeleteConversation(c)
    BY <1>2
  <2>2. Quiescent(d) /\ rows' = rows
    BY <1>0, <2>1 DEF DeleteConversation, DeletedQuiescent, Quiescent
  <2> QED
    BY <2>2 DEF Quiescent, Settles
<1>3. CASE /\ ~\E r \in Runs, c \in Conversations : SubmitMessage(r, c)
           /\ ~\E c \in Conversations : DeleteConversation(c)
  <2>1. deleted' = deleted
    BY <1>3, StoreCases DEF storeVars, ClaimNext, RefreshSource, BeginSandboxAcquire,
       AttachSandboxRef, SetPhase, RecordAgentFailed, RecordFailure, CommitProducts,
       AcknowledgeFinalized, CancelQueued, MarkConsistency
  <2>2. rows[q].conv = d
    <3>1. CASE HistoryKept
      BY <3>1 DEF HistoryKept
    <3>2. ASSUME NEW r \in Runs, RefreshSource(r)
          PROVE  rows[q].conv = d
      BY <1>0, <3>2 DEF RefreshSource, Row
    <3>3. ASSUME NEW r \in Runs, CommitProducts(r)
          PROVE  rows[q].conv = d
      BY <1>0, <3>3 DEF CommitProducts, Row
    <3> QED
      BY <1>3, <3>1, <3>2, <3>3, HistoryWriters DEF HistoryWritten
  <2>3. Settles(q)
    BY <2>1, <2>2 DEF DeletedQuiescent, Quiescent, Settles
  <2>4. rows[q].status # "none"
    BY <2>2, RowFacts, ConversationsAssumption DEF Shaped
  <2> QED
    BY <2>3, <2>4, SettledStep DEF SettledKept
<1> QED
  BY <1>1, <1>2, <1>3

(* A deleted conversation has no run left to execute or to clean up.       *)
THEOREM DeletedCorrect == StoreSpec => []DeletedQuiescent
<1> DEFINE Inv == StoreBase /\ DeletedQuiescent
<1>1. StoreInit => Inv
  BY StoreBaseInit DEF StoreInit, DeletedQuiescent
<1>2. Inv /\ [StoreNext]_storeVars => Inv'
  BY StoreBaseStep, DeletedStep
<1>3. Inv => DeletedQuiescent
  OBVIOUS
<1> QED
  BY <1>1, <1>2, <1>3, PTL DEF StoreSpec

=============================================================================
