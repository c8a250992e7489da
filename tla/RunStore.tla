------------------------------ MODULE RunStore ------------------------------
(***************************************************************************)
(* The database rows that decide the fate of a run: the runs table, each   *)
(* conversation's active session and its deletion mark.  One action per    *)
(* PostgreSQL transaction of the runs and conversations stores, as it is   *)
(* when it commits; who calls it, in which order and with which failures   *)
(* is RunLifecycle's subject, and here any caller may try anything.        *)
(*                                                                         *)
(* A run is identified by its place in (created_at, id) order.  The SDK    *)
(* session a run's worker creates is a fresh UUID, so it is named by the   *)
(* run; 0 is the absent session and the absent run (SQL NULL).             *)
(***************************************************************************)
EXTENDS Naturals

CONSTANTS
    Runs,            \* the runs that may ever be submitted, in creation order
    Conversations,
    NoConversation   \* conversation_id of a row that does not exist yet

ASSUME RunsAssumption == Runs \subseteq Nat \ {0}
ASSUME ConversationsAssumption == NoConversation \notin Conversations

VARIABLES
    rows,     \* [Runs -> Row], the runs table
    head,     \* conversations.active_sdk_session_id
    deleted   \* conversations.deleted_at IS NOT NULL

storeVars == <<rows, head, deleted>>

NoRun == 0
NoSession == 0
Sessions == Runs \cup {NoSession}

Terminal == {"succeeded", "failed", "cancelled", "interrupted"}
Status == {"none", "queued", "running"} \cup Terminal
Phase == {"null", "preparing", "agent", "publishing"}

(* conv = conversation_id, source and candidate = the two session columns, *)
(* provider and ref = sandbox_provider / sandbox_ref IS NOT NULL,          *)
(* conflict = error.cleanup_consistency.                                   *)
Row == [conv : Conversations \cup {NoConversation}, status : Status, phase : Phase,
        finalized : BOOLEAN, source : Sessions, candidate : Sessions,
        provider : BOOLEAN, ref : BOOLEAN, conflict : BOOLEAN]

NoRow == [conv |-> NoConversation, status |-> "none", phase |-> "null",
          finalized |-> FALSE, source |-> NoSession, candidate |-> NoSession,
          provider |-> FALSE, ref |-> FALSE, conflict |-> FALSE]

Exists(r) == rows[r].status # "none"
Settled(r) == rows[r].finalized

(* A row that occupies the one V0 execution slot. *)
InSlot(r) == rows[r].status \notin {"none", "queued"} /\ ~rows[r].finalized

-----------------------------------------------------------------------------
(* Submission and deletion of a conversation. *)

StoreInit ==
    /\ rows = [r \in Runs |-> NoRow]
    /\ head = [c \in Conversations |-> NoSession]
    /\ deleted = [c \in Conversations |-> FALSE]

(* SubmitMessage: message and queued run in one transaction, under the     *)
(* conversation's lock; source is the active session at that moment.       *)
SubmitMessage(r, c) ==
    /\ ~Exists(r)
    /\ ~deleted[c]
    /\ rows' = [rows EXCEPT ![r] = [NoRow EXCEPT !.conv = c, !.status = "queued",
                                                 !.source = head[c]]]
    /\ UNCHANGED <<head, deleted>>

(* Slip: the protection looks at the status and forgets finalized_at. *)
QuiescentByStatus(c) ==
    \A r \in Runs : rows[r].conv = c => rows[r].status \notin {"queued", "running"}

(* A conversation whose every run is settled. *)
Quiescent(c) ==
    \A r \in Runs : rows[r].conv = c =>
        rows[r].status \notin {"queued", "running"} /\ rows[r].finalized

DeleteConversation(c) ==
    /\ ~deleted[c]
    /\ Quiescent(c)
    /\ deleted' = [deleted EXCEPT ![c] = TRUE]
    /\ UNCHANGED <<rows, head>>

-----------------------------------------------------------------------------
(* Claiming and preparing. *)

(* Slip: the slot query counts running rows only, not unfinalized ones. *)
SlotFreeOfRunning == \A q \in Runs : rows[q].status # "running"

SlotFree == \A q \in Runs : ~InSlot(q)

(* The oldest queued row that no other transaction holds (SKIP LOCKED).    *)
CanClaim(r, locked) ==
    /\ SlotFree
    /\ rows[r].status = "queued" /\ r \notin locked
    /\ \A q \in Runs : rows[q].status = "queued" /\ q < r => q \in locked

ClaimNext(r, locked) ==
    /\ CanClaim(r, locked)
    /\ rows' = [rows EXCEPT ![r].status = "running", ![r].phase = "preparing"]
    /\ UNCHANGED <<head, deleted>>

Preparing(r) ==
    rows[r].status = "running" /\ rows[r].phase = "preparing" /\ ~rows[r].finalized

(* Slip: the wrong column of the joined row is scanned. *)
RefreshSourceOfConversation(r) ==
    /\ Preparing(r) /\ ~deleted[rows[r].conv]
    /\ rows' = [rows EXCEPT ![r].source = rows[r].conv]
    /\ UNCHANGED <<head, deleted>>

CanRefreshSource(r) == Preparing(r) /\ ~deleted[rows[r].conv]

RefreshSource(r) ==
    /\ CanRefreshSource(r)
    /\ rows' = [rows EXCEPT ![r].source = head[rows[r].conv]]
    /\ UNCHANGED <<head, deleted>>

(* Slip: intent is recorded on whatever row has the id. *)
CanBeginSandboxAcquireAlways(r) == Exists(r)

CanBeginSandboxAcquire(r) == rows[r].provider \/ Preparing(r)

BeginSandboxAcquire(r) ==
    /\ CanBeginSandboxAcquire(r)
    /\ rows' = [rows EXCEPT ![r].provider = TRUE]
    /\ UNCHANGED <<head, deleted>>

CanAttachSandboxRef(r) ==
    /\ rows[r].provider
    /\ rows[r].ref \/ (rows[r].status # "queued" /\ ~rows[r].finalized)

AttachSandboxRef(r) ==
    /\ CanAttachSandboxRef(r)
    /\ rows' = [rows EXCEPT ![r].ref = TRUE]
    /\ UNCHANGED <<head, deleted>>

-----------------------------------------------------------------------------
(* Phases, outcomes and their acknowledgement. *)

(* Advance of state.go. *)
Advances(from, to) == <<from, to>> \in {<<"preparing", "agent">>, <<"agent", "publishing">>}

CanSetPhase(r, p) ==
    /\ rows[r].status = "running" /\ ~rows[r].finalized
    /\ rows[r].phase = p \/ Advances(rows[r].phase, p)

SetPhase(r, p) ==
    /\ CanSetPhase(r, p)
    /\ rows' = [rows EXCEPT ![r].phase = p]
    /\ UNCHANGED <<head, deleted>>

(* RecordRuntimeEvent of a phase.changed event: the Runtime may only name  *)
(* preparing and agent, and an outcome already recorded wins.              *)
CanRecordPhase(r, p) == p \in {"preparing", "agent"} /\ CanSetPhase(r, p)

RecordPhase(r, p) == p \in {"preparing", "agent"} /\ SetPhase(r, p)

(* RecordRuntimeEvent of an agent.failed event. *)
RecordAgentFailed(r) ==
    /\ rows' = [rows EXCEPT ![r].status = IF @ = "running" THEN "failed" ELSE @]
    /\ UNCHANGED <<head, deleted>>

(* RecordFailure hands back a terminal row as it is. *)
CanRecordFailure(r, s) ==
    \/ rows[r].status \in Terminal
    \/ /\ rows[r].status = "running" /\ ~rows[r].finalized
       /\ ~(s = "cancelled" /\ rows[r].phase = "publishing")

(* Slip: the write is not conditional on the row's still being running. *)
RecordFailureOverwrites(r, s) ==
    /\ CanRecordFailure(r, s)
    /\ rows' = [rows EXCEPT ![r].status = s]
    /\ UNCHANGED <<head, deleted>>

RecordFailure(r, s) ==
    /\ CanRecordFailure(r, s)
    /\ rows' = [rows EXCEPT ![r].status = IF @ \in Terminal THEN @ ELSE s]
    /\ UNCHANGED <<head, deleted>>

(* Slip: the commit trusts the source it prepared with. *)
CanCommitProductsUnchecked(r) ==
    /\ rows[r].status = "running" /\ rows[r].phase = "publishing" /\ ~rows[r].finalized
    /\ ~deleted[rows[r].conv]

CanCommitProducts(r) ==
    /\ rows[r].status = "running" /\ rows[r].phase = "publishing" /\ ~rows[r].finalized
    /\ ~deleted[rows[r].conv]
    /\ rows[r].source = head[rows[r].conv]

(* Slip: promotion is left to a later statement. *)
CommitProductsUnpromoted(r) ==
    /\ CanCommitProducts(r)
    /\ rows' = [rows EXCEPT ![r].status = "succeeded", ![r].candidate = r]
    /\ UNCHANGED <<head, deleted>>

(* Slip: the outcome is left to a later statement. *)
CommitProductsUnfinished(r) ==
    /\ CanCommitProducts(r)
    /\ rows' = [rows EXCEPT ![r].candidate = r]
    /\ head' = [head EXCEPT ![rows[r].conv] = r]
    /\ UNCHANGED deleted

(* Artifacts become visible, the session is promoted and the run succeeds  *)
(* in one transaction.                                                     *)
CommitProducts(r) ==
    /\ CanCommitProducts(r)
    /\ rows' = [rows EXCEPT ![r].status = "succeeded", ![r].candidate = r]
    /\ head' = [head EXCEPT ![rows[r].conv] = r]
    /\ UNCHANGED deleted

CanAcknowledge(r) == rows[r].status \in Terminal

AcknowledgeFinalized(r) ==
    /\ CanAcknowledge(r)
    /\ rows' = [rows EXCEPT ![r].finalized = TRUE]
    /\ UNCHANGED <<head, deleted>>

(* Finish(run, Cancelled) of a queued row, as CancelQueued calls it. *)
CanCancelQueued(r) ==
    rows[r].status = "queued" /\ ~rows[r].finalized /\ ~rows[r].provider /\ ~rows[r].ref

CancelQueued(r) ==
    /\ CanCancelQueued(r)
    /\ rows' = [rows EXCEPT ![r].status = "cancelled", ![r].finalized = TRUE]
    /\ UNCHANGED <<head, deleted>>

MarkConsistency(r) ==
    /\ Exists(r)
    /\ rows' = [rows EXCEPT ![r].conflict = TRUE]
    /\ UNCHANGED <<head, deleted>>

-----------------------------------------------------------------------------
RunTx(r) ==
    \/ \E c \in Conversations : SubmitMessage(r, c)
    \/ \E locked \in SUBSET Runs : ClaimNext(r, locked)
    \/ RefreshSource(r)
    \/ BeginSandboxAcquire(r)
    \/ AttachSandboxRef(r)
    \/ \E p \in {"preparing", "agent", "publishing"} : SetPhase(r, p)
    \/ RecordAgentFailed(r)
    \/ \E s \in {"failed", "cancelled", "interrupted"} : RecordFailure(r, s)
    \/ CommitProducts(r)
    \/ AcknowledgeFinalized(r)
    \/ CancelQueued(r)
    \/ MarkConsistency(r)

StoreNext ==
    \/ \E r \in Runs : RunTx(r)
    \/ \E c \in Conversations : DeleteConversation(c)

StoreSpec == StoreInit /\ [][StoreNext]_storeVars

-----------------------------------------------------------------------------
(* Properties. *)

(* Every column keeps to the values the schema and the Go types allow.     *)
StoreTypeOK ==
    /\ rows \in [Runs -> Row]
    /\ head \in [Conversations -> Sessions]
    /\ deleted \in [Conversations -> BOOLEAN]

(* Columns that must agree within a row: a queued row is untouched (what   *)
(* lets CancelQueued settle it with nothing to clean up), a ref implies    *)
(* the intent that precedes it (the schema's CHECK), only a published run  *)
(* has a candidate, and only a terminal row is finalized.                  *)
Shaped(row, r) ==
    /\ row.status \in {"none", "queued"} => row.phase = "null" /\ ~row.provider
    /\ row.ref => row.provider
    /\ row.candidate = (IF row.status = "succeeded" THEN r ELSE NoSession)
    /\ row.finalized => row.status \in Terminal
    /\ (row.conv = NoConversation) <=> (row.status = "none")

RowShape == \A r \in Runs : Shaped(rows[r], r)

(* ClaimNext's slot: however claims, failures and acknowledgements follow  *)
(* each other, at most one run is started and not yet finalized.           *)
SingleSlot == \A p, q \in Runs : InSlot(p) /\ InSlot(q) => p = q

(* A terminal status is never replaced, nor a finalization withdrawn,      *)
(* whoever writes after it (RecordFailure: "terminal outcomes are          *)
(* immutable, notably when cancellation wins a race").                     *)
OutcomeImmutable ==
    [][\A r \in Runs :
          /\ rows[r].status \in Terminal => rows'[r].status = rows[r].status
          /\ rows[r].finalized => rows'[r].finalized]_storeVars

(* CommitProducts keeps a conversation's sessions in a line: the active    *)
(* session is that of a succeeded run of this conversation, no succeeded   *)
(* run continues it yet, and no two succeeded runs continue the same       *)
(* session, so no answer is built on a history another answer replaced.    *)
LinearHistory ==
    \A p \in Runs :
        /\ rows[p].source # NoSession =>
              /\ rows[rows[p].source].status = "succeeded"
              /\ rows[rows[p].source].conv = rows[p].conv
        /\ rows[p].status = "succeeded" =>
              /\ rows[p].source # head[rows[p].conv]
              /\ head[rows[p].conv] # NoSession
              /\ \A q \in Runs :
                    /\ rows[q].status = "succeeded" /\ rows[q].conv = rows[p].conv
                    /\ rows[q].source = rows[p].source
                    => q = p

HeadSucceeded ==
    \A c \in Conversations : head[c] # NoSession =>
        rows[head[c]].status = "succeeded" /\ rows[head[c]].conv = c

(* Until its cleanup is acknowledged, a succeeded run's candidate is still *)
(* the active session: the promotion test of finishLease never pauses the  *)
(* scheduler, because no other run can move the head meanwhile.            *)
PromotedUntilSettled ==
    \A r \in Runs : rows[r].status = "succeeded" /\ ~rows[r].finalized =>
        head[rows[r].conv] = r

(* A deleted conversation has no run left to execute or to clean up.       *)
DeletedQuiescent ==
    \A c \in Conversations, r \in Runs : deleted[c] /\ rows[r].conv = c =>
        rows[r].status \notin {"queued", "running"} /\ rows[r].finalized

=============================================================================
