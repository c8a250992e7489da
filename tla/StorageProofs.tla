---------------------------- MODULE StorageProofs ----------------------------
(***************************************************************************)
(* What the parties that work on a project's storage guarantee, for any    *)
(* number of runs, conversations, inputs, artifacts and failures: visible  *)
(* artifacts and listed inputs are complete, and rows go last.  That what  *)
(* is deleted is purged in the end rests on fairness and is left to TLC.   *)
(***************************************************************************)
EXTENDS Storage, RunStoreProofs

-----------------------------------------------------------------------------
(* The inductive invariant. *)

ExAt == {"idle", "prepare", "refresh", "intent", "attach", "agent", "finished", "lock", "put",
         "withdraw", "release", "fail", "finish"}
PmAt == {"idle", "lock", "list", "check", "delete", "load", "root", "prefixes", "keys", "runs",
         "session", "workspace", "record"}

Executor == [at : ExAt, run : Runs \cup {NoRun}, needs : SUBSET Inputs, wanted : 0..MaxArtifacts]
Command == [at : PmAt, orphans : SUBSET Artifact, roots : SUBSET Roots, root : Roots,
            prefixes : SUBSET Artifact, keys : SUBSET Inputs, runs : SUBSET Runs,
            run : Runs \cup {NoRun}]
Budget == [faults : Nat, stops : Nat, losses : 0..MaxLosses, all : Nat]
UploadAt == {"new", "put", "save", "compensate", "done"}

TablesTyped ==
    /\ projectDeleted \in BOOLEAN /\ gone \subseteq Roots
    /\ artifacts \subseteq Artifact /\ inputs \subseteq Inputs
ThingsTyped ==
    /\ objects \in [Artifact -> 0..MaxFiles] /\ stored \subseteq Inputs
    /\ workspaces \subseteq Runs /\ sessions \subseteq Runs /\ records \subseteq Runs
PartiesTyped ==
    /\ lock \in {"free", "publisher", "scanner"}
    /\ ex \in Executor /\ upload \in [Inputs -> UploadAt] /\ pm \in Command /\ left \in Budget

(* Rows: a gone root has none, a visible artifact is of a succeeded run,   *)
(* and what is deleted has nothing left to do.                             *)
RowsRight ==
    /\ StoreBase /\ DeletedQuiescent
    /\ projectDeleted => \A r \in Runs : Exists(r) => Settled(r)
    /\ \A r \in Runs : rows[r].conv \notin gone
    /\ \A a \in artifacts : rows[a[1]].status = "succeeded"

(* The scheduler works on the run in the slot. *)
Working == {"prepare", "refresh", "intent", "attach", "agent", "finished", "lock", "put", "withdraw"}
ExecutorRight ==
    ex.at # "idle" =>
        /\ ex.run \in Runs /\ InSlot(ex.run)
        /\ ex.at \in Working => rows[ex.run].status = "running"
        /\ ex.at = "agent" => rows[ex.run].ref
        /\ ex.at = "prepare" => ex.needs \subseteq inputs

(* The Runtime knows only of runs that have a sandbox, and keeps a settled *)
(* run's session only if the run succeeded.                                *)
RuntimeRight ==
    /\ \A r \in sessions \cup records : rows[r].ref
    /\ \A r \in sessions : Settled(r) => rows[r].status = "succeeded"

UploadsRight ==
    /\ \A i \in inputs : upload[i] \in {"compensate", "done"}
    /\ \A i \in Inputs : upload[i] = "save" => i \in stored

(* Without a lost acknowledgement nobody compensates for a saved input. *)
InputsRight ==
    Undisturbed =>
        /\ \A i \in inputs : upload[i] = "done"
        /\ ~projectDeleted => inputs \subseteq stored

(* The advisory lock keeps the scan and a publication apart. *)
LockRight ==
    Undisturbed =>
        /\ ex.at \in {"put", "withdraw", "release"} => lock = "publisher"
        /\ pm.at \in {"list", "check", "delete"} => lock = "scanner"
        /\ pm.at = "delete" => pm.prefixes \cap artifacts = {}

Doomed(k) == IF k = Project THEN projectDeleted ELSE deleted[k]

(* What the purge of its root has got to: prefixes, keys, then the runs    *)
(* one after the other, each with its session, workspace and record.       *)
Purging == pm.at \in {"prefixes", "keys", "runs", "session", "workspace", "record"}
AtRun == pm.at \in {"session", "workspace", "record"}
Cleared(r) == r \notin workspaces \cup sessions \cup records
Pending == pm.runs \cup (IF AtRun THEN {pm.run} ELSE {})

PurgeRight ==
    /\ \A k \in pm.roots : Doomed(k)
    /\ Purging => Doomed(pm.root)
    /\ pm.at = "prefixes" => pm.prefixes = PrefixesOf(pm.root)
    /\ pm.at \in {"prefixes", "keys"} => pm.keys = KeysOf(pm.root) /\ pm.runs = RunsOf(pm.root)
    /\ Purging /\ pm.at # "prefixes" => \A a \in PrefixesOf(pm.root) : objects[a] = 0
    /\ pm.at = "runs" \/ AtRun =>
           /\ KeysOf(pm.root) \cap stored = {}
           /\ \A r \in RunsOf(pm.root) \ Pending : Cleared(r)
    /\ AtRun => pm.run \in RunsOf(pm.root)
    /\ Purging => pm.runs \subseteq RunsOf(pm.root)
    /\ pm.at \in {"workspace", "record"} => pm.run \notin sessions
    /\ pm.at = "record" => pm.run \notin workspaces

StorageRight ==
    /\ TablesTyped /\ ThingsTyped /\ PartiesTyped
    /\ RowsRight /\ ExecutorRight /\ RuntimeRight /\ UploadsRight
    /\ InputsRight /\ LockRight /\ PurgeRight /\ ArtifactsIntact

-----------------------------------------------------------------------------
(* Failures, and transactions on one row. *)

Spent == left' \in Budget /\ (Undisturbed' => Undisturbed)

LEMMA NothingSpent == ASSUME PartiesTyped, UNCHANGED left PROVE Spent
  BY DEF PartiesTyped, Spent, Undisturbed

LEMMA SpendsOf ==
    ASSUME PartiesTyped, NEW kind \in {"faults", "stops", "losses"}, Spends(kind)
    PROVE  Spent /\ (kind = "losses" => ~Undisturbed')
<1>1. /\ left \in [faults : Nat, stops : Nat, losses : 0..MaxLosses, all : Nat]
      /\ MaxLosses \in Nat
  BY StorageBounds DEF PartiesTyped, Budget
<1> DEFINE x == left[kind]
           y == left.all
           n == x - 1
           m == y - 1
<1>2. x > 0 /\ y > 0 /\ left' = [left EXCEPT ![kind] = n, !.all = m]
  BY DEF Spends
<1>3. x \in Nat /\ y \in Nat /\ (kind = "losses" => x \in 0..MaxLosses)
  BY <1>1
<1> HIDE DEF x, y
<1>4. n \in Nat /\ m \in Nat
  <2>1. x > 0 /\ y > 0
    BY <1>2
  <2> QED
    BY <1>3, <2>1
<1>5. kind = "losses" => n \in 0..MaxLosses /\ n # MaxLosses
  <2>1. x > 0 /\ MaxLosses \in Nat
    BY <1>1, <1>2
  <2> QED
    BY <1>3, <2>1
<1> HIDE DEF n, m
<1>6. left' \in [faults : Nat, stops : Nat, losses : 0..MaxLosses, all : Nat]
  BY <1>1, <1>2, <1>4, <1>5
<1>7. left'.losses = IF kind = "losses" THEN n ELSE left.losses
  BY <1>1, <1>2
<1> QED
  BY <1>5, <1>6, <1>7 DEF Spent, Undisturbed, Budget

(* A transaction on one row that is not settled yet. *)
Rewrites(r) ==
    /\ [StoreNext]_storeVars /\ UNCHANGED deleted
    /\ Exists(r) /\ ~Settled(r) /\ Exists(r)'
    /\ \A q \in Runs \ {r} : rows'[q] = rows[q]
    /\ rows'[r].conv = rows[r].conv
    /\ rows[r].ref => rows'[r].ref

(* Settled rows stay as they are; new ones come into what is not deleted.  *)
RowsMove ==
    /\ [StoreNext]_storeVars
    /\ \A c \in Conversations : deleted[c] => deleted'[c]
    /\ \A r \in Runs : Settled(r) => rows'[r] = rows[r]
    /\ \A r \in Runs : Exists(r) => Exists(r)' /\ rows'[r].conv = rows[r].conv
    /\ \A r \in Runs : ~Exists(r) /\ Exists(r)' =>
           ~projectDeleted /\ ~deleted[rows'[r].conv] /\ rows'[r].conv \notin gone
    /\ \A r \in Runs : rows[r].ref => rows'[r].ref

LEMMA RewritesMove ==
    ASSUME StoreBase, NEW r \in Runs, Rewrites(r)
    PROVE  RowsMove
<1>1. ASSUME NEW q \in Runs
      PROVE  q = r \/ rows'[q] = rows[q]
  BY DEF Rewrites
<1>2. /\ [StoreNext]_storeVars /\ deleted' = deleted /\ Exists(r) /\ ~Settled(r) /\ Exists(r)'
      /\ rows'[r].conv = rows[r].conv /\ (rows[r].ref => rows'[r].ref)
  BY DEF Rewrites
<1> QED
  BY <1>1, <1>2 DEF RowsMove, Exists, Settled

LEMMA StillMoves == ASSUME UNCHANGED storeVars PROVE RowsMove
  BY DEF storeVars, RowsMove, Exists, Settled

LEMMA InStore ==
    ASSUME NEW r \in Runs, RunTx(r)
    PROVE  StoreNext
  BY DEF StoreNext

LEMMA SlotRow ==
    ASSUME StoreBase, NEW r \in Runs, InSlot(r)
    PROVE  /\ Exists(r) /\ ~Settled(r) /\ rows[r].conv \in Conversations
           /\ rows[r].status # "queued"
  BY RowFacts DEF InSlot, Exists, Settled

LEMMA ClaimRewrites ==
    ASSUME StoreBase, NEW r \in Runs, ClaimNext(r, {})
    PROVE  Rewrites(r) /\ rows'[r].status = "running" /\ InSlot(r)'
<1>1. rows \in [Runs -> Row]
  BY DEF StoreBase, StoreTypeOK
<1>2. StoreNext
  BY InStore DEF RunTx
<1>3. rows[r].status = "queued" /\ ~Settled(r)
  BY RowFacts DEF ClaimNext, CanClaim, Shaped, Settled, Terminal
<1> QED
  BY <1>1, <1>2, <1>3 DEF ClaimNext, Rewrites, Exists, InSlot, Settled, Row

LEMMA TxRewrites ==
    ASSUME StoreBase, NEW r \in Runs, InSlot(r),
           \/ RefreshSource(r) \/ BeginSandboxAcquire(r) \/ AttachSandboxRef(r)
           \/ \E p \in {"preparing", "agent", "publishing"} : SetPhase(r, p)
    PROVE  Rewrites(r) /\ rows'[r].status = rows[r].status /\ InSlot(r)'
<1>1. rows \in [Runs -> Row] /\ Exists(r) /\ ~Settled(r)
  BY SlotRow DEF StoreBase, StoreTypeOK
<1>2. StoreNext
  BY InStore DEF RunTx
<1>3. CASE RefreshSource(r)
  BY <1>1, <1>2, <1>3 DEF RefreshSource, Rewrites, Exists, InSlot, Settled, Row
<1>4. CASE BeginSandboxAcquire(r)
  BY <1>1, <1>2, <1>4 DEF BeginSandboxAcquire, Rewrites, Exists, InSlot, Settled, Row
<1>5. CASE AttachSandboxRef(r)
  BY <1>1, <1>2, <1>5 DEF AttachSandboxRef, Rewrites, Exists, InSlot, Settled, Row
<1>6. ASSUME NEW p \in {"preparing", "agent", "publishing"}, SetPhase(r, p)
      PROVE  Rewrites(r) /\ rows'[r].status = rows[r].status /\ InSlot(r)'
  BY <1>1, <1>2, <1>6 DEF SetPhase, Rewrites, Exists, InSlot, Settled, Row
<1> QED
  BY <1>3, <1>4, <1>5, <1>6

LEMMA AttachSetsRef ==
    ASSUME StoreBase, NEW r \in Runs, AttachSandboxRef(r)
    PROVE  rows'[r].ref
  BY DEF StoreBase, StoreTypeOK, AttachSandboxRef, Row

LEMMA FailureRewrites ==
    ASSUME StoreBase, NEW r \in Runs, InSlot(r), NEW s \in {"failed", "interrupted"},
           RecordFailure(r, s)
    PROVE  Rewrites(r) /\ InSlot(r)'
<1>1. rows \in [Runs -> Row] /\ Exists(r) /\ ~Settled(r)
  BY SlotRow DEF StoreBase, StoreTypeOK
<1>2. StoreNext
  BY InStore DEF RunTx
<1>3. /\ rows'[r].status \notin {"none", "queued"}
      /\ rows'[r].conv = rows[r].conv /\ rows'[r].ref = rows[r].ref
      /\ rows'[r].finalized = rows[r].finalized
      /\ \A q \in Runs \ {r} : rows'[q] = rows[q]
  BY <1>1 DEF RecordFailure, Row, Terminal
<1> QED
  BY <1>1, <1>2, <1>3 DEF RecordFailure, Rewrites, Exists, InSlot, Settled

LEMMA CommitRewrites ==
    ASSUME StoreBase, NEW r \in Runs, InSlot(r), CommitProducts(r)
    PROVE  Rewrites(r) /\ rows'[r].status = "succeeded" /\ InSlot(r)'
<1>1. rows \in [Runs -> Row] /\ Exists(r) /\ ~Settled(r)
  BY SlotRow DEF StoreBase, StoreTypeOK
<1>2. StoreNext
  BY InStore DEF RunTx
<1> QED
  BY <1>1, <1>2 DEF CommitProducts, Rewrites, Exists, InSlot, Settled, Row

LEMMA AcknowledgeRewrites ==
    ASSUME StoreBase, NEW r \in Runs, InSlot(r), AcknowledgeFinalized(r)
    PROVE  Rewrites(r) /\ rows'[r].status = rows[r].status
<1>1. rows \in [Runs -> Row] /\ Exists(r) /\ ~Settled(r)
  BY SlotRow DEF StoreBase, StoreTypeOK
<1>2. StoreNext
  BY InStore DEF RunTx
<1> QED
  BY <1>1, <1>2 DEF AcknowledgeFinalized, Rewrites, Exists, Settled, Row

-----------------------------------------------------------------------------
(* Steps that leave the command alone.  Nothing they do reaches what the   *)
(* command is about: a deleted root has settled runs only, and those are   *)
(* not touched.                                                            *)

LEMMA ArtifactOf == ASSUME NEW a \in Artifact PROVE a[1] \in Runs /\ a \in Of(a[1])
  BY DEF Artifact, Of

LEMMA RightFacts ==
    ASSUME StorageRight
    PROVE  /\ TablesTyped /\ ThingsTyped /\ PartiesTyped
           /\ RowsRight /\ ExecutorRight /\ RuntimeRight /\ UploadsRight
           /\ InputsRight /\ LockRight /\ PurgeRight /\ ArtifactsIntact
           /\ StoreBase /\ DeletedQuiescent
  BY DEF StorageRight, RowsRight

Advance ==
    /\ RowsMove /\ UNCHANGED <<gone, pm>>
    /\ projectDeleted => projectDeleted' /\ UNCHANGED inputs
    /\ projectDeleted' => \/ projectDeleted
                          \/ UNCHANGED rows /\ \A r \in Runs : Exists(r) => Settled(r)
    /\ \A i \in inputs : i \in stored' => i \in stored
    /\ \A r \in Runs : Settled(r) =>
           /\ r \in workspaces' => r \in workspaces
           /\ r \in sessions' => r \in sessions
           /\ r \in records' => r \in records
    /\ \A a \in Artifact : Settled(a[1]) =>
           objects'[a] = objects[a] /\ (a \in artifacts' <=> a \in artifacts)
    /\ \A a \in artifacts' : \/ a \in artifacts /\ objects'[a] = objects[a]
                             \/ rows'[a[1]].status = "succeeded" /\ objects'[a] = MaxFiles
    /\ Spent /\ TablesTyped' /\ ThingsTyped' /\ PartiesTyped'

LEMMA DoomedSettled ==
    ASSUME RowsRight, NEW k \in Roots, Doomed(k), NEW r \in RunsOf(k)
    PROVE  r \in Runs /\ Exists(r) /\ Settled(r)
<1>1. r \in Runs /\ Exists(r) /\ (k = Project \/ rows[r].conv = k)
  BY DEF RunsOf
<1>2. CASE k = Project
  BY <1>1, <1>2 DEF RowsRight, Doomed
<1>3. CASE k # Project
  BY <1>1, <1>3 DEF RowsRight, Doomed, DeletedQuiescent, Settled, Roots
<1> QED
  BY <1>1, <1>2, <1>3

LEMMA DoomedStays ==
    ASSUME RowsRight, TablesTyped, Advance, NEW k \in Roots, Doomed(k)
    PROVE  /\ Doomed(k)' /\ RunsOf(k)' = RunsOf(k) /\ PrefixesOf(k)' = PrefixesOf(k)
           /\ KeysOf(k)' = KeysOf(k)
<1>1. RowsMove /\ (projectDeleted => projectDeleted' /\ UNCHANGED inputs)
  BY DEF Advance
<1>2. Doomed(k)' /\ KeysOf(k)' = KeysOf(k)
  BY <1>1 DEF Doomed, KeysOf, RowsMove, Roots
<1>3. ASSUME NEW r \in RunsOf(k)
      PROVE  r \in RunsOf(k)'
  BY <1>1, <1>3 DEF RunsOf, RowsMove
<1>4. ASSUME NEW r \in Runs, r \in RunsOf(k)'
      PROVE  r \in RunsOf(k)
  <2>1. Exists(r)' /\ (k = Project \/ rows'[r].conv = k)
    BY <1>4 DEF RunsOf
  <2>2. Exists(r)
    BY <1>1, <2>1 DEF RowsMove, Doomed
  <2> QED
    BY <1>1, <2>1, <2>2 DEF RowsMove, RunsOf
<1>5. RunsOf(k)' = RunsOf(k)
  <2>1. RunsOf(k) \subseteq Runs /\ RunsOf(k)' \subseteq Runs
    BY DEF RunsOf
  <2> QED
    BY <1>3, <1>4, <2>1
<1>6. PrefixesOf(k)' = PrefixesOf(k)
  <2>1. ASSUME NEW a, a[1] \in RunsOf(k), a \in artifacts \/ a \in artifacts'
        PROVE  a \in artifacts' <=> a \in artifacts
    <3>1. a \in Artifact
      BY <2>1 DEF Advance, TablesTyped
    <3>2. Settled(a[1])
      BY <2>1, DoomedSettled
    <3> QED
      BY <3>1, <3>2 DEF Advance
  <2>2. /\ PrefixesOf(k) = {a \in artifacts : a[1] \in RunsOf(k)}
        /\ PrefixesOf(k)' = {a \in artifacts' : a[1] \in RunsOf(k)}
    BY <1>5 DEF PrefixesOf
  <2> QED
    BY <2>1, <2>2
<1> QED
  BY <1>2, <1>5, <1>6

LEMMA AdvanceRows ==
    ASSUME RowsRight, TablesTyped, Advance
    PROVE  RowsRight'
<1>0. /\ StoreBase /\ DeletedQuiescent /\ RowsMove /\ [StoreNext]_storeVars
      /\ UNCHANGED gone /\ gone \subseteq Roots
  BY DEF RowsRight, Advance, RowsMove, TablesTyped
<1>1. StoreBase' /\ DeletedQuiescent'
  BY <1>0, StoreBaseStep, DeletedStep
<1>2. ASSUME projectDeleted', NEW r \in Runs, Exists(r)'
      PROVE  Settled(r)'
  <2>1. CASE projectDeleted
    <3>1. Exists(r)
      BY <1>0, <1>2, <2>1 DEF RowsMove
    <3>2. Settled(r) /\ rows'[r] = rows[r]
      BY <1>0, <2>1, <3>1 DEF RowsRight, RowsMove
    <3> QED
      BY <3>2 DEF Settled
  <2>2. CASE UNCHANGED rows /\ \A q \in Runs : Exists(q) => Settled(q)
    BY <1>2, <2>2 DEF Exists, Settled
  <2> QED
    BY <1>2, <2>1, <2>2 DEF Advance
<1>3. ASSUME NEW r \in Runs
      PROVE  rows'[r].conv \notin gone'
  <2>1. CASE Exists(r)
    BY <1>0, <2>1 DEF RowsRight, RowsMove
  <2>2. CASE ~Exists(r) /\ Exists(r)'
    BY <1>0, <2>2 DEF RowsMove
  <2>3. CASE ~Exists(r)'
    <3>1. rows'[r].conv = NoConversation
      BY <1>1, <2>3 DEF StoreBase, RowShape, Shaped, Exists
    <3> QED
      BY <1>0, <3>1, ProjectAssumption, ConversationsAssumption DEF Roots
  <2> QED
    BY <2>1, <2>2, <2>3
<1>4. ASSUME NEW a \in artifacts'
      PROVE  rows'[a[1]].status = "succeeded"
  <2>1. CASE a \in artifacts
    <3>1. rows[a[1]].status = "succeeded" /\ a[1] \in Runs
      BY <2>1, ArtifactOf DEF RowsRight, TablesTyped
    <3> QED
      BY <1>0, <3>1, OutcomeStep DEF OutcomeKept, Terminal
  <2> QED
    BY <1>4, <2>1 DEF Advance
<1> QED
  BY <1>1, <1>2, <1>3, <1>4 DEF RowsRight

LEMMA AdvancePurge ==
    ASSUME RowsRight, TablesTyped, PartiesTyped, PurgeRight, Advance
    PROVE  PurgeRight'
<1>0. UNCHANGED pm /\ pm \in Command
  BY DEF Advance, PartiesTyped
<1>1. \A k \in pm'.roots : Doomed(k)'
  <2>1. \A k \in pm.roots : k \in Roots /\ Doomed(k)
    BY <1>0 DEF Command, PurgeRight
  <2> QED
    BY <1>0, <2>1, DoomedStays
<1>2. CASE ~Purging
  BY <1>0, <1>1, <1>2 DEF PurgeRight, Purging, AtRun
<1>3. CASE Purging
  <2>1. PICK k \in Roots : k = pm.root
    BY <1>0 DEF Command
  <2>2. Doomed(k)
    BY <1>3, <2>1 DEF PurgeRight
  <2>3. /\ Doomed(k)' /\ RunsOf(k)' = RunsOf(k) /\ PrefixesOf(k)' = PrefixesOf(k)
        /\ KeysOf(k)' = KeysOf(k)
    BY <2>2, DoomedStays
  <2>4. /\ Doomed(pm.root)' /\ RunsOf(pm.root)' = RunsOf(pm.root)
        /\ PrefixesOf(pm.root)' = PrefixesOf(pm.root) /\ KeysOf(pm.root)' = KeysOf(pm.root)
    BY <1>0, <2>1, <2>3 DEF Doomed, RunsOf, PrefixesOf, KeysOf
  <2>5. \A a \in PrefixesOf(pm.root) : objects[a] = 0 => objects'[a] = 0
    <3>1. \A a \in PrefixesOf(k) : a \in Artifact /\ a[1] \in RunsOf(k)
      BY DEF PrefixesOf, TablesTyped
    <3>2. \A a \in PrefixesOf(k) : Settled(a[1])
      BY <2>2, <3>1, DoomedSettled
    <3> QED
      BY <2>1, <3>1, <3>2 DEF Advance
  <2>6. \A i \in KeysOf(pm.root) : i \in stored' => i \in stored
    BY DEF KeysOf, Advance
  <2>7. \A r \in RunsOf(pm.root) : /\ r \in workspaces' => r \in workspaces
                                   /\ r \in sessions' => r \in sessions
                                   /\ r \in records' => r \in records
    BY <2>1, <2>2, DoomedSettled DEF Advance
  <2>8. AtRun' = AtRun /\ Pending' = Pending /\ Purging' = Purging
    BY <1>0 DEF AtRun, Pending, Purging
  <2>9. /\ pm.at = "prefixes" => pm.prefixes = PrefixesOf(pm.root)
        /\ pm.at \in {"prefixes", "keys"} => pm.keys = KeysOf(pm.root) /\ pm.runs = RunsOf(pm.root)
        /\ pm.at # "prefixes" => \A a \in PrefixesOf(pm.root) : objects[a] = 0
        /\ pm.runs \subseteq RunsOf(pm.root)
    BY <1>3 DEF PurgeRight
  <2>10. pm.at = "runs" \/ AtRun =>
             /\ KeysOf(pm.root) \cap stored = {}
             /\ \A r \in RunsOf(pm.root) \ Pending : Cleared(r)
    BY DEF PurgeRight
  <2>11. /\ AtRun => pm.run \in RunsOf(pm.root)
         /\ pm.at \in {"workspace", "record"} => pm.run \notin sessions
         /\ pm.at = "record" => pm.run \notin workspaces
    BY DEF PurgeRight
  <2>12. pm.at = "runs" \/ AtRun =>
             /\ KeysOf(pm.root) \cap stored' = {}
             /\ \A r \in RunsOf(pm.root) \ Pending : Cleared(r)'
    BY <2>6, <2>7, <2>10 DEF Cleared
  <2>13. /\ pm.at \in {"workspace", "record"} => pm.run \notin sessions'
         /\ pm.at = "record" => pm.run \notin workspaces'
    BY <2>7, <2>11 DEF AtRun
  <2> QED
    BY <1>0, <1>1, <2>4, <2>5, <2>8, <2>9, <2>11, <2>12, <2>13 DEF PurgeRight
<1> QED
  BY <1>2, <1>3

LEMMA AdvanceArtifacts ==
    ASSUME RowsRight, TablesTyped, ArtifactsIntact, Advance
    PROVE  ArtifactsIntact'
<1> SUFFICES ASSUME Undisturbed', NEW a \in artifacts', ~projectDeleted',
                    ~deleted'[rows'[a[1]].conv]
             PROVE  objects'[a] = MaxFiles
  BY DEF ArtifactsIntact
<1>1. CASE a \in artifacts /\ objects'[a] = objects[a]
  <2>1. rows[a[1]].status = "succeeded" /\ a[1] \in Runs /\ StoreBase
    BY <1>1, ArtifactOf DEF RowsRight, TablesTyped
  <2>2. Exists(a[1]) /\ rows[a[1]].conv \in Conversations
    BY <2>1, RowFacts DEF Exists
  <2>3. ~deleted[rows[a[1]].conv]
    BY <2>1, <2>2 DEF Advance, RowsMove
  <2>4. Undisturbed /\ ~projectDeleted
    BY DEF Advance, Spent
  <2> QED
    BY <1>1, <2>3, <2>4 DEF ArtifactsIntact
<1> QED
  BY <1>1 DEF Advance

LEMMA AdvanceRight ==
    ASSUME StorageRight, Advance,
           ExecutorRight', RuntimeRight', UploadsRight', InputsRight', LockRight'
    PROVE  StorageRight'
<1>1. RowsRight' /\ PurgeRight' /\ ArtifactsIntact'
  BY RightFacts, AdvanceRows, AdvancePurge, AdvanceArtifacts
<1>2. TablesTyped' /\ ThingsTyped' /\ PartiesTyped'
  BY DEF Advance
<1> QED
  BY <1>1, <1>2 DEF StorageRight

-----------------------------------------------------------------------------
(* The user, the uploads, and the failures that are not the command's.     *)

(* Who touches neither things nor rows that have been claimed disturbs     *)
(* nobody.                                                                 *)
LEMMA Bystander ==
    ASSUME StorageRight, RowsMove,
           UNCHANGED <<gone, artifacts, inputs, things, lock, ex, upload, pm, left>>,
           \A q \in Runs : rows[q].status \notin {"none", "queued"} => rows'[q] = rows[q],
           projectDeleted' \in BOOLEAN, projectDeleted => projectDeleted',
           projectDeleted' =>
               \/ projectDeleted
               \/ UNCHANGED rows /\ \A r \in Runs : Exists(r) => Settled(r)
    PROVE  StorageRight'
<1>0. /\ UNCHANGED <<objects, stored, workspaces, sessions, records>>
      /\ UNCHANGED <<gone, artifacts, inputs, lock, ex, upload, pm, left>>
  BY DEF things
<1>1. TablesTyped' /\ ThingsTyped' /\ PartiesTyped'
  BY <1>0, RightFacts DEF TablesTyped, ThingsTyped, PartiesTyped
<1>2. Spent
  BY <1>0, RightFacts, NothingSpent
<1>3. \A a \in artifacts : a \in Artifact
  BY RightFacts DEF TablesTyped
<1>4. Advance
  BY <1>0, <1>1, <1>2, <1>3 DEF Advance
<1>5. ExecutorRight'
  <2>1. SUFFICES ASSUME ex'.at # "idle"
                 PROVE  ExecutorRight'
    BY DEF ExecutorRight
  <2>2. ex.run \in Runs /\ InSlot(ex.run) /\ ExecutorRight
    BY <1>0, <2>1, RightFacts DEF ExecutorRight
  <2>3. PICK r \in Runs : r = ex.run
    BY <2>2
  <2>4. rows'[r] = rows[r]
    BY <2>2, <2>3 DEF InSlot
  <2> QED
    BY <1>0, <2>1, <2>2, <2>3, <2>4 DEF ExecutorRight, InSlot
<1>6. RuntimeRight'
  <2>1. ASSUME NEW r \in sessions \cup records
        PROVE  rows'[r] = rows[r]
    <3>1. r \in Runs /\ rows[r].ref
      BY RightFacts DEF ThingsTyped, RuntimeRight
    <3>2. rows[r].status \notin {"none", "queued"}
      BY <3>1, RightFacts, RowFacts DEF Shaped
    <3> QED
      BY <3>1, <3>2
  <2> QED
    BY <1>0, <2>1, RightFacts DEF RuntimeRight, Settled
<1>7. UploadsRight' /\ InputsRight' /\ LockRight'
  <2>1. UploadsRight'
    BY <1>0, RightFacts DEF UploadsRight
  <2>2. InputsRight'
    BY <1>0, RightFacts DEF InputsRight, Undisturbed
  <2>3. LockRight'
    BY <1>0, RightFacts DEF LockRight, Undisturbed
  <2> QED
    BY <2>1, <2>2, <2>3
<1> QED
  BY <1>4, <1>5, <1>6, <1>7, AdvanceRight

LEMMA SubmitRight ==
    ASSUME StorageRight, NEW r \in Runs, NEW c \in Conversations, Submit(r, c)
    PROVE  StorageRight'
<1>1. /\ ~projectDeleted /\ c \notin gone /\ SubmitMessage(r, c) /\ ~Exists(r) /\ ~deleted[c]
      /\ UNCHANGED <<projectDeleted, gone, artifacts, inputs, things, lock, ex, upload, pm, left>>
  BY DEF Submit, SubmitMessage
<1>2. /\ rows \in [Runs -> Row] /\ head \in [Conversations -> Sessions] /\ UNCHANGED deleted
      /\ rows' = [rows EXCEPT ![r] = [NoRow EXCEPT !.conv = c, !.status = "queued",
                                                 !.source = head[c]]]
  BY <1>1, RightFacts DEF StoreBase, StoreTypeOK, SubmitMessage
<1>3. /\ rows'[r].conv = c /\ \A q \in Runs \ {r} : rows'[q] = rows[q]
  BY <1>2 DEF NoRow
<1>4. [StoreNext]_storeVars
  BY <1>1, InStore DEF RunTx
<1>5. ~Settled(r) /\ ~rows[r].ref /\ rows[r].status = "none"
  BY <1>1, RightFacts, RowFacts DEF Shaped, Settled, Terminal, Exists
<1>6. RowsMove
  BY <1>1, <1>2, <1>3, <1>4, <1>5 DEF RowsMove, Exists, Settled
<1>7. projectDeleted' \in BOOLEAN
  BY <1>1, RightFacts DEF TablesTyped
<1> QED
  BY <1>1, <1>3, <1>5, <1>6, <1>7, Bystander

LEMMA CancelsQueuedRight ==
    ASSUME StorageRight, NEW r \in Runs, CancelsQueued(r)
    PROVE  StorageRight'
<1>1. /\ CancelQueued(r) /\ rows[r].status = "queued" /\ ~Settled(r)
      /\ UNCHANGED <<projectDeleted, gone, artifacts, inputs, things, lock, ex, upload, pm, left>>
  BY DEF CancelsQueued, CancelQueued, CanCancelQueued, Settled
<1>2. rows \in [Runs -> Row] /\ StoreBase
  BY RightFacts DEF StoreBase, StoreTypeOK
<1>3. StoreNext
  BY <1>1, InStore DEF RunTx
<1>4. Rewrites(r)
  BY <1>1, <1>2, <1>3 DEF CancelQueued, Rewrites, Exists, Settled, Row
<1>5. RowsMove
  BY <1>2, <1>4, RewritesMove
<1>6. projectDeleted' \in BOOLEAN
  BY <1>1, RightFacts DEF TablesTyped
<1> QED
  BY <1>1, <1>4, <1>5, <1>6, Bystander DEF Rewrites

LEMMA RemoveRight ==
    ASSUME StorageRight, NEW c \in Conversations, RemoveConversation(c)
    PROVE  StorageRight'
<1>1. /\ DeleteConversation(c) /\ UNCHANGED <<rows, head>>
      /\ deleted' = [deleted EXCEPT ![c] = TRUE]
      /\ UNCHANGED <<projectDeleted, gone, artifacts, inputs, things, lock, ex, upload, pm, left>>
  BY DEF RemoveConversation, DeleteConversation
<1>2. deleted \in [Conversations -> BOOLEAN] /\ projectDeleted \in BOOLEAN
  BY RightFacts DEF StoreBase, StoreTypeOK, TablesTyped
<1>3. StoreNext
  BY <1>1 DEF StoreNext
<1>4. RowsMove
  BY <1>1, <1>2, <1>3 DEF RowsMove, Exists, Settled
<1> QED
  BY <1>1, <1>2, <1>4, Bystander

LEMMA DeleteProjectRight ==
    ASSUME StorageRight, DeleteProject
    PROVE  StorageRight'
<1>1. /\ UNCHANGED storeVars /\ projectDeleted' = TRUE /\ \A c \in Conversations : Quiescent(c)
      /\ UNCHANGED <<gone, artifacts, inputs, things, lock, ex, upload, pm, left>>
  BY DEF DeleteProject
<1>2. UNCHANGED rows /\ RowsMove
  BY <1>1, StillMoves DEF storeVars
<1>3. ASSUME NEW r \in Runs, Exists(r)
      PROVE  Settled(r)
  BY <1>1, <1>3, RightFacts, RowFacts DEF Quiescent, Settled
<1> QED
  BY <1>1, <1>2, <1>3, Bystander

(* What an upload may touch. *)
LEMMA UploadFrame ==
    ASSUME StorageRight, NEW i \in Inputs, NEW at \in UploadAt, Uploads(i, at),
           Spent, UploadsRight', InputsRight', inputs' \subseteq Inputs, stored' \subseteq Inputs,
           projectDeleted => UNCHANGED inputs,
           inputs \subseteq inputs',
           \A j \in inputs : j \in stored' => j \in stored
    PROVE  StorageRight'
<1>0. /\ UNCHANGED <<storeVars, projectDeleted, gone, artifacts, objects, workspaces, sessions>>
      /\ UNCHANGED <<rows, records, lock, ex, pm>>
      /\ upload' = [upload EXCEPT ![i] = at]
  BY DEF Uploads, storeVars
<1>1. TablesTyped' /\ ThingsTyped' /\ PartiesTyped'
  BY <1>0, RightFacts DEF TablesTyped, ThingsTyped, PartiesTyped, Spent
<1>2. RowsMove
  BY <1>0, StillMoves
<1>3. \A a \in artifacts : a \in Artifact
  BY RightFacts DEF TablesTyped
<1>4. Advance
  BY <1>0, <1>1, <1>2, <1>3 DEF Advance
<1>5. ExecutorRight'
  BY <1>0, RightFacts DEF ExecutorRight, InSlot
<1>6. RuntimeRight' /\ LockRight'
  <2>1. RuntimeRight'
    BY <1>0, RightFacts DEF RuntimeRight, Settled
  <2>2. LockRight'
    BY <1>0, RightFacts DEF LockRight, Spent
  <2> QED
    BY <2>1, <2>2
<1> QED
  BY <1>4, <1>5, <1>6, AdvanceRight

LEMMA UploadRight ==
    ASSUME StorageRight, NEW i \in Inputs, UploadNext(i)
    PROVE  StorageRight'
<1>0. /\ inputs \subseteq Inputs /\ stored \subseteq Inputs /\ upload \in [Inputs -> UploadAt]
      /\ projectDeleted \in BOOLEAN /\ UploadsRight /\ InputsRight
      /\ \A j \in inputs : upload[j] \in {"compensate", "done"}
      /\ \A j \in Inputs : upload[j] = "save" => j \in stored
  BY RightFacts DEF TablesTyped, ThingsTyped, PartiesTyped, UploadsRight
<1>1. CASE BeginUpload(i)
  <2>1. /\ upload[i] = "new" /\ Uploads(i, "put") /\ UNCHANGED <<inputs, stored, left>>
        /\ upload' = [upload EXCEPT ![i] = "put"] /\ UNCHANGED projectDeleted
    BY <1>1 DEF BeginUpload, Uploads
  <2>2. UploadsRight' /\ InputsRight'
    BY <1>0, <2>1 DEF UploadsRight, InputsRight, Undisturbed
  <2>3. Spent
    BY <2>1, RightFacts, NothingSpent
  <2> QED
    BY <1>0, <2>1, <2>2, <2>3, UploadFrame DEF UploadAt
<1>2. CASE PutInput(i)
  <2>1. PICK at \in {"save", "compensate"} :
            /\ Uploads(i, at) /\ (at = "save" => stored' = stored \cup {i})
            /\ stored' \in {stored, stored \cup {i}}
            /\ UNCHANGED left \/ Fault
    BY <1>2 DEF PutInput
  <2>2. /\ upload[i] = "put" /\ UNCHANGED <<inputs, projectDeleted>>
        /\ upload' = [upload EXCEPT ![i] = at]
    BY <1>2, <2>1 DEF PutInput, Uploads
  <2>3. i \notin inputs /\ at \in UploadAt
    BY <1>0, <2>2 DEF UploadAt
  <2>4. Spent
    BY <2>1, RightFacts, NothingSpent, SpendsOf DEF Fault
  <2>5. UploadsRight'
    BY <1>0, <2>1, <2>2, <2>3 DEF UploadsRight
  <2>6. InputsRight'
    BY <1>0, <2>1, <2>2, <2>3, <2>4 DEF InputsRight, Spent
  <2> QED
    BY <1>0, <2>1, <2>2, <2>3, <2>4, <2>5, <2>6, UploadFrame
<1>3. CASE SaveInput(i)
  <2>1. upload[i] = "save" /\ UNCHANGED stored /\ i \in stored
    BY <1>0, <1>3 DEF SaveInput
  <2>2. \/ /\ CanSave /\ inputs' = inputs \cup {i} /\ Uploads(i, "done") /\ UNCHANGED left
        \/ Uploads(i, "compensate") /\ (UNCHANGED left \/ Fault) /\ UNCHANGED inputs
        \/ CanSave /\ Lost /\ inputs' = inputs \cup {i} /\ Uploads(i, "compensate")
    BY <1>3 DEF SaveInput
  <2>3. PICK at \in {"compensate", "done"} : Uploads(i, at)
    BY <2>2
  <2>4. upload' = [upload EXCEPT ![i] = at] /\ UNCHANGED projectDeleted /\ at \in UploadAt
    BY <2>3 DEF Uploads, UploadAt
  <2>5. /\ inputs' = inputs \/ (CanSave /\ inputs' = inputs \cup {i})
        /\ UNCHANGED left \/ Fault \/ Lost
    BY <2>2
  <2>6. Spent
    BY <2>5, RightFacts, NothingSpent, SpendsOf DEF Fault, Lost
  <2>7. i \notin inputs
    BY <1>0, <2>1
  <2>8. UploadsRight'
    BY <1>0, <2>1, <2>4, <2>5 DEF UploadsRight
  <2>9. InputsRight'
    <3>1. SUFFICES ASSUME Undisturbed'
                   PROVE  InputsRight'
      BY DEF InputsRight
    <3>2. ~Lost
      BY <3>1, RightFacts, SpendsOf DEF Lost
    <3>3. inputs' = inputs \/ (inputs' = inputs \cup {i} /\ Uploads(i, "done"))
      BY <2>2, <3>2
    <3>4. Undisturbed
      BY <2>6, <3>1 DEF Spent
    <3>5. /\ \A j \in inputs : upload[j] = "done"
          /\ ~projectDeleted => inputs \subseteq stored
      BY <1>0, <3>4 DEF InputsRight
    <3>6. \A j \in inputs' : upload'[j] = "done"
      <4>1. CASE inputs' = inputs
        BY <1>0, <2>4, <2>7, <3>5, <4>1
      <4>2. CASE inputs' = inputs \cup {i} /\ Uploads(i, "done")
        BY <1>0, <3>5, <4>2 DEF Uploads
      <4> QED
        BY <3>3, <4>1, <4>2
    <3> QED
      BY <2>1, <2>4, <2>5, <3>5, <3>6 DEF InputsRight
  <2>10. projectDeleted => UNCHANGED inputs
    BY <2>5 DEF CanSave
  <2> QED
    BY <1>0, <2>1, <2>3, <2>4, <2>5, <2>6, <2>8, <2>9, <2>10, UploadFrame
<1>4. CASE CompensateInput(i)
  <2>1. /\ upload[i] = "compensate" /\ Uploads(i, "done") /\ UNCHANGED <<inputs, projectDeleted>>
        /\ upload' = [upload EXCEPT ![i] = "done"]
        /\ stored' \in {stored, stored \ {i}} /\ (UNCHANGED left \/ Fault)
    BY <1>4 DEF CompensateInput, Uploads
  <2>2. Spent
    BY <2>1, RightFacts, NothingSpent, SpendsOf DEF Fault
  <2>3. UploadsRight'
    BY <1>0, <2>1 DEF UploadsRight
  <2>4. InputsRight'
    BY <1>0, <2>1, <2>2 DEF InputsRight, Spent
  <2> QED
    BY <1>0, <2>1, <2>2, <2>3, <2>4, UploadFrame DEF UploadAt
<1> QED
  BY <1>1, <1>2, <1>3, <1>4 DEF UploadNext

LEMMA IdleTyped == Idle \in Executor /\ Idle.at = "idle"
<1>1. 0 \in 0..MaxArtifacts
  BY StorageBounds
<1> QED
  BY <1>1 DEF Idle, Executor, ExAt

LEMMA CrashRight ==
    ASSUME StorageRight, ControlPlaneCrash
    PROVE  StorageRight'
<1>1. /\ Stopped /\ ex' = Idle /\ Unlocks("publisher") /\ UNCHANGED <<tables, things, pm>>
      /\ upload' = [i \in Inputs |-> IF upload[i] = "new" THEN "new" ELSE "done"]
  BY DEF ControlPlaneCrash
<1>2. /\ UNCHANGED <<storeVars, rows, projectDeleted, gone, artifacts, inputs>>
      /\ UNCHANGED <<objects, stored, workspaces, sessions, records>>
  BY <1>1 DEF tables, things, storeVars
<1>3. Spent
  BY <1>1, RightFacts, SpendsOf DEF Stopped
<1>4. lock' \in {"free", "publisher", "scanner"} /\ (lock = "scanner" => lock' = "scanner")
  BY <1>1, RightFacts DEF Unlocks, PartiesTyped
<1>5. ex' \in Executor /\ ex'.at = "idle"
  BY <1>1, IdleTyped
<1>6. PartiesTyped'
  BY <1>1, <1>3, <1>4, <1>5, RightFacts DEF PartiesTyped, UploadAt, Spent
<1>7. TablesTyped' /\ ThingsTyped'
  BY <1>2, RightFacts DEF TablesTyped, ThingsTyped
<1>8. \A a \in artifacts : a \in Artifact
  BY RightFacts DEF TablesTyped
<1>9. Advance
  BY <1>1, <1>2, <1>3, <1>6, <1>7, <1>8, StillMoves DEF Advance
<1>10. ExecutorRight' /\ RuntimeRight' /\ UploadsRight'
  <2>1. ExecutorRight'
    BY <1>5 DEF ExecutorRight
  <2>2. RuntimeRight'
    BY <1>2, RightFacts DEF RuntimeRight, Settled
  <2>3. \A i \in inputs : upload[i] # "new" /\ i \in Inputs
    BY RightFacts DEF UploadsRight, TablesTyped
  <2>4. UploadsRight'
    BY <1>1, <1>2, <2>3 DEF UploadsRight
  <2> QED
    BY <2>1, <2>2, <2>4
<1>11. InputsRight'
  <2>1. \A i \in inputs : i \in Inputs
    BY RightFacts DEF TablesTyped
  <2> QED
    BY <1>1, <1>2, <1>3, <2>1, RightFacts DEF InputsRight, Spent
<1>12. LockRight'
  BY <1>1, <1>2, <1>3, <1>4, <1>5, RightFacts DEF LockRight, Spent
<1> QED
  BY <1>9, <1>10, <1>11, <1>12, AdvanceRight

LEMMA LoseLockRight ==
    ASSUME StorageRight, LoseLock
    PROVE  StorageRight'
<1>1. Lost /\ lock' = "free" /\ UNCHANGED <<tables, things, ex, upload, pm>>
  BY DEF LoseLock
<1>2. /\ UNCHANGED <<storeVars, rows, projectDeleted, gone, artifacts, inputs>>
      /\ UNCHANGED <<objects, stored, workspaces, sessions, records>>
  BY <1>1 DEF tables, things, storeVars
<1>3. Spent /\ ~Undisturbed'
  BY <1>1, RightFacts, SpendsOf DEF Lost
<1>4. TablesTyped' /\ ThingsTyped' /\ PartiesTyped'
  BY <1>1, <1>2, <1>3, RightFacts DEF TablesTyped, ThingsTyped, PartiesTyped, Spent
<1>5. \A a \in artifacts : a \in Artifact
  BY RightFacts DEF TablesTyped
<1>6. Advance
  BY <1>1, <1>2, <1>3, <1>4, <1>5, StillMoves DEF Advance
<1>7. ExecutorRight' /\ RuntimeRight' /\ UploadsRight'
  <2>1. ExecutorRight'
    BY <1>1, <1>2, RightFacts DEF ExecutorRight, InSlot
  <2>2. RuntimeRight'
    BY <1>2, RightFacts DEF RuntimeRight, Settled
  <2>3. UploadsRight'
    BY <1>1, <1>2, RightFacts DEF UploadsRight
  <2> QED
    BY <2>1, <2>2, <2>3
<1>8. InputsRight' /\ LockRight'
  BY <1>3 DEF InputsRight, LockRight
<1> QED
  BY <1>6, <1>7, <1>8, AdvanceRight

-----------------------------------------------------------------------------
(* The scheduler. *)

Held == {"put", "withdraw", "release"}

(* A step that works on one run: its row and what it has outside.          *)
ExecutorMove(r) ==
    /\ UNCHANGED <<projectDeleted, gone, inputs, stored, upload, pm>>
    /\ Spent /\ ex' \in Executor /\ lock' \in {"free", "publisher", "scanner"}
    /\ ~Settled(r) /\ (UNCHANGED storeVars \/ Rewrites(r))
    /\ workspaces' \subseteq workspaces \cup {r}
    /\ sessions' \subseteq sessions \cup {r} /\ records' \subseteq records \cup {r}
    /\ objects' \in [Artifact -> 0..MaxFiles]
    /\ UNCHANGED objects \/ rows[r].status = "running"
    /\ \A a \in Artifact : a[1] # r => objects'[a] = objects[a]
    /\ artifacts \subseteq artifacts' /\ artifacts' \subseteq Artifact
    /\ \A a \in artifacts' \ artifacts :
           a[1] = r /\ rows'[r].status = "succeeded" /\ objects'[a] = MaxFiles

(* Where it leaves the scheduler. *)
ExecutorAt(r) ==
    ex'.at # "idle" =>
        /\ ex'.run = r /\ InSlot(r)'
        /\ ex'.at \in Working => rows'[r].status = "running"
        /\ ex'.at = "agent" => rows'[r].ref
        /\ ex'.at = "prepare" => ex'.needs \subseteq inputs

LEMMA MoveAdvances ==
    ASSUME StorageRight, NEW r \in Runs, ExecutorMove(r)
    PROVE  Advance
<1>1. RowsMove
  BY RightFacts, RewritesMove, StillMoves DEF ExecutorMove
<1>2. /\ UNCHANGED <<projectDeleted, gone, inputs, stored, upload, pm>>
      /\ Spent /\ ex' \in Executor /\ lock' \in {"free", "publisher", "scanner"} /\ ~Settled(r)
      /\ objects' \in [Artifact -> 0..MaxFiles] /\ artifacts' \subseteq Artifact
  BY DEF ExecutorMove
<1>3. TablesTyped'
  BY <1>2, RightFacts DEF TablesTyped
<1>4. ThingsTyped'
  BY <1>2, RightFacts DEF ThingsTyped, ExecutorMove
<1>5. PartiesTyped'
  BY <1>2, RightFacts DEF PartiesTyped, Spent
<1>6. ASSUME NEW a \in Artifact, Settled(a[1])
      PROVE  objects'[a] = objects[a] /\ (a \in artifacts' <=> a \in artifacts)
  BY <1>2, <1>6 DEF ExecutorMove
<1>7. ASSUME NEW a \in artifacts
      PROVE  objects'[a] = objects[a]
  <2>1. a \in Artifact /\ rows[a[1]].status = "succeeded"
    BY RightFacts DEF TablesTyped, RowsRight
  <2>2. CASE UNCHANGED objects
    BY <2>2
  <2>3. CASE rows[r].status = "running"
    BY <2>1, <2>3 DEF ExecutorMove
  <2> QED
    BY <2>2, <2>3 DEF ExecutorMove
<1>8. ASSUME NEW a \in artifacts'
      PROVE  \/ a \in artifacts /\ objects'[a] = objects[a]
             \/ rows'[a[1]].status = "succeeded" /\ objects'[a] = MaxFiles
  BY <1>7, <1>8 DEF ExecutorMove
<1>9. ASSUME NEW q \in Runs, Settled(q)
      PROVE  /\ q \in workspaces' => q \in workspaces
             /\ q \in sessions' => q \in sessions
             /\ q \in records' => q \in records
  BY <1>2, <1>9 DEF ExecutorMove
<1> QED
  BY <1>1, <1>2, <1>3, <1>4, <1>5, <1>6, <1>8, <1>9 DEF Advance

LEMMA MoveRight ==
    ASSUME StorageRight, NEW r \in Runs, ExecutorMove(r), ExecutorAt(r),
           r \in sessions' \cup records' => rows'[r].ref,
           r \in sessions' /\ Settled(r)' => rows'[r].status = "succeeded",
           LockRight'
    PROVE  StorageRight'
<1>1. Advance
  BY MoveAdvances
<1>2. /\ UNCHANGED <<projectDeleted, gone, inputs, stored, upload, pm>> /\ Spent
      /\ UNCHANGED storeVars \/ Rewrites(r)
      /\ sessions' \subseteq sessions \cup {r} /\ records' \subseteq records \cup {r}
  BY DEF ExecutorMove
<1>3. ExecutorRight'
  BY <1>2 DEF ExecutorAt, ExecutorRight, InSlot
<1>4. RuntimeRight'
  <2>1. ASSUME NEW q \in Runs, q # r
        PROVE  rows'[q] = rows[q]
    BY <1>2, <2>1 DEF storeVars, Rewrites
  <2>2. ASSUME NEW q \in sessions' \cup records', q # r
        PROVE  rows'[q].ref /\ (q \in sessions' /\ Settled(q)' => rows'[q].status = "succeeded")
    <3>1. q \in sessions \cup records /\ q \in Runs /\ (q \in sessions' => q \in sessions)
      BY <1>2, <2>2, RightFacts DEF ThingsTyped
    <3>2. rows'[q] = rows[q]
      BY <2>1, <2>2, <3>1
    <3> QED
      BY <3>1, <3>2, RightFacts DEF RuntimeRight, Settled
  <2> QED
    BY <2>2 DEF RuntimeRight
<1>5. UploadsRight' /\ InputsRight'
  <2>1. UploadsRight'
    BY <1>2, RightFacts DEF UploadsRight
  <2>2. InputsRight'
    BY <1>2, RightFacts DEF InputsRight, Spent
  <2> QED
    BY <2>1, <2>2
<1> QED
  BY <1>1, <1>3, <1>4, <1>5, AdvanceRight

LEMMA LockKept ==
    ASSUME LockRight, Spent, UNCHANGED <<pm, lock, artifacts>>,
           ex'.at \in Held => ex.at \in Held
    PROVE  LockRight'
  BY DEF LockRight, Spent, Held

(* The run at work, and what it has outside before the step. *)
LEMMA AtWork ==
    ASSUME StorageRight, ex.at # "idle"
    PROVE  \E r \in Runs :
               /\ r = ex.run /\ InSlot(r) /\ ~Settled(r) /\ ex \in Executor
               /\ ex.at \in Working => rows[r].status = "running"
               /\ ex.at = "agent" => rows[r].ref
               /\ r \in sessions \cup records => rows[r].ref
               /\ StoreBase
<1>1. /\ ex.run \in Runs /\ InSlot(ex.run) /\ ex \in Executor /\ StoreBase
      /\ ex.at \in Working => rows[ex.run].status = "running"
      /\ ex.at = "agent" => rows[ex.run].ref
  BY RightFacts DEF ExecutorRight, PartiesTyped
<1>2. ~Settled(ex.run)
  BY <1>1, SlotRow
<1>3. ex.run \in sessions \cup records => rows[ex.run].ref
  BY RightFacts DEF RuntimeRight
<1> QED
  BY <1>1, <1>2, <1>3

(* Nothing changes but the row and where the scheduler is. *)
LEMMA RowMove ==
    ASSUME StorageRight, NEW r \in Runs, ~Settled(r), Spent, ex' \in Executor,
           UNCHANGED <<projectDeleted, gone, inputs, stored, upload, pm>>,
           UNCHANGED <<artifacts, objects, workspaces, sessions, records, lock>>,
           UNCHANGED storeVars \/ Rewrites(r)
    PROVE  ExecutorMove(r)
  BY RightFacts DEF ExecutorMove, ThingsTyped, TablesTyped, PartiesTyped

LEMMA ClaimRight ==
    ASSUME StorageRight, NEW r \in Runs, Claim(r)
    PROVE  StorageRight'
<1>1. /\ ex.at = "idle" /\ ClaimNext(r, {})
      /\ ex' = [Idle EXCEPT !.at = "prepare", !.run = r, !.needs = inputs]
      /\ UNCHANGED <<projectDeleted, gone, inputs, stored, upload, pm>>
      /\ UNCHANGED <<artifacts, objects, workspaces, sessions, records, lock>> /\ UNCHANGED left
  BY DEF Claim, things
<1>2. Rewrites(r) /\ rows'[r].status = "running" /\ InSlot(r)'
  BY <1>1, RightFacts, ClaimRewrites
<1>3. Spent
  BY <1>1, RightFacts, NothingSpent
<1>4. ex' \in Executor /\ ex'.at = "prepare" /\ ex'.run = r /\ ex'.needs = inputs
  BY <1>1, RightFacts, IdleTyped DEF Executor, ExAt, TablesTyped
<1>5. ExecutorMove(r)
  BY <1>1, <1>2, <1>3, <1>4, RowMove DEF Rewrites
<1>6. ExecutorAt(r)
  BY <1>2, <1>4 DEF ExecutorAt
<1>7. r \notin sessions' \cup records'
  <2>1. ~rows[r].ref
    BY <1>1, RightFacts, RowFacts DEF ClaimNext, CanClaim, Shaped
  <2> QED
    BY <1>1, <2>1, RightFacts DEF RuntimeRight
<1>8. LockRight'
  BY <1>1, <1>3, <1>4, RightFacts, LockKept DEF Held
<1> QED
  BY <1>5, <1>6, <1>7, <1>8, MoveRight

LEMMA ReconcileRight ==
    ASSUME StorageRight, NEW r \in Runs, Reconcile(r)
    PROVE  StorageRight'
<1>1. /\ ex.at = "idle" /\ InSlot(r) /\ RecordFailure(r, "interrupted")
      /\ ex' = [Idle EXCEPT !.at = "finish", !.run = r]
      /\ UNCHANGED <<projectDeleted, gone, inputs, stored, upload, pm>>
      /\ UNCHANGED <<artifacts, objects, workspaces, sessions, records, lock>> /\ UNCHANGED left
  BY DEF Reconcile, things
<1>2. Rewrites(r) /\ InSlot(r)'
  BY <1>1, RightFacts, FailureRewrites
<1>3. Spent
  BY <1>1, RightFacts, NothingSpent
<1>4. ex' \in Executor /\ ex'.at = "finish" /\ ex'.run = r
  BY <1>1, IdleTyped DEF Executor, ExAt
<1>5. ExecutorMove(r)
  BY <1>1, <1>2, <1>3, <1>4, RowMove DEF Rewrites
<1>6. ExecutorAt(r)
  BY <1>2, <1>4 DEF ExecutorAt, Working
<1>7. (r \in sessions' \cup records' => rows'[r].ref) /\ ~Settled(r)'
  BY <1>1, <1>2, RightFacts DEF RuntimeRight, Rewrites, InSlot, Settled
<1>8. LockRight'
  BY <1>1, <1>3, <1>4, RightFacts, LockKept DEF Held
<1> QED
  BY <1>5, <1>6, <1>7, <1>8, MoveRight

(* Execute goes on with its run, which stays in the slot. *)
LEMMA GoesOn ==
    ASSUME StorageRight, NEW r \in Runs, r = ex.run, ex.at # "idle", NEW at \in ExAt \ {"idle", "prepare"},
           ex' = [ex EXCEPT !.at = at], InSlot(r)',
           at \in Working => rows'[r].status = "running",
           at = "agent" => rows'[r].ref
    PROVE  ex' \in Executor /\ ex'.at = at /\ ExecutorAt(r)
<1>1. ex \in Executor
  BY RightFacts DEF PartiesTyped
<1>2. ex' \in Executor /\ ex'.at = at /\ ex'.run = r
  BY <1>1 DEF Executor
<1> QED
  BY <1>2 DEF ExecutorAt

LEMMA PrepareRight ==
    ASSUME StorageRight, Prepare
    PROVE  StorageRight'
<1>1. PICK at \in {"refresh", "fail"} :
          /\ ex.at = "prepare" /\ ExecutesTo(at) /\ (UNCHANGED left \/ Fault)
          /\ workspaces' \in {workspaces, workspaces \cup {ex.run}}
          /\ UNCHANGED <<storeVars, artifacts, objects, sessions, records, lock>>
  BY DEF Prepare, ExecuteFails
<1>2. PICK r \in Runs : /\ r = ex.run /\ InSlot(r) /\ ~Settled(r)
                        /\ rows[r].status = "running"
                        /\ r \in sessions \cup records => rows[r].ref
  BY <1>1, AtWork DEF Working
<1>3. /\ ex' = [ex EXCEPT !.at = at] /\ UNCHANGED rows
      /\ UNCHANGED <<projectDeleted, gone, inputs, stored, upload, pm>>
  BY <1>1 DEF ExecutesTo, storeVars
<1>4. Spent
  BY <1>1, RightFacts, NothingSpent, SpendsOf DEF Fault
<1>5. InSlot(r)' /\ rows'[r].status = "running"
  BY <1>2, <1>3 DEF InSlot
<1>6. ex' \in Executor /\ ex'.at = at /\ ExecutorAt(r)
  BY <1>1, <1>2, <1>3, <1>5, GoesOn DEF ExAt, Working
<1>7. ExecutorMove(r)
  BY <1>1, <1>2, <1>3, <1>4, <1>6, RightFacts
     DEF ExecutorMove, ThingsTyped, TablesTyped, PartiesTyped
<1>8. (r \in sessions' \cup records' => rows'[r].ref) /\ ~Settled(r)'
  BY <1>1, <1>2, <1>3, <1>5 DEF InSlot, Settled
<1>9. LockRight'
  BY <1>1, <1>3, <1>4, <1>6, RightFacts, LockKept DEF Held
<1> QED
  BY <1>6, <1>7, <1>8, <1>9, MoveRight

(* A transaction that leaves the status alone. *)
LEMMA TxRight ==
    ASSUME StorageRight, NEW r \in Runs, r = ex.run, ex.at \in Working \ Held, ex.at # "prepare",
           NEW at \in {"intent", "attach", "agent", "lock"},
           \/ /\ Rewrites(r) /\ rows'[r].status = rows[r].status /\ InSlot(r)'
              /\ at = "agent" => rows'[r].ref
              /\ ExecutesTo(at) /\ UNCHANGED left
           \/ ExecuteFails /\ UNCHANGED storeVars,
           UNCHANGED <<artifacts, objects, workspaces, sessions, records, lock>>
    PROVE  StorageRight'
<1>1. PICK to \in {at, "fail"} :
          /\ ExecutesTo(to) /\ (UNCHANGED left \/ Fault)
          /\ \/ UNCHANGED storeVars /\ to = "fail"
             \/ /\ Rewrites(r) /\ rows'[r].status = rows[r].status /\ InSlot(r)'
                /\ at = "agent" => rows'[r].ref
  BY DEF ExecuteFails
<1>2. /\ ex.at # "idle" /\ InSlot(r) /\ ~Settled(r) /\ rows[r].status = "running"
      /\ r \in sessions \cup records => rows[r].ref
  BY AtWork DEF Working
<1>3. /\ ex' = [ex EXCEPT !.at = to]
      /\ UNCHANGED <<projectDeleted, gone, inputs, stored, upload, pm>>
  BY <1>1 DEF ExecutesTo
<1>4. Spent
  BY <1>1, RightFacts, NothingSpent, SpendsOf DEF Fault
<1>5. /\ InSlot(r)' /\ rows'[r].status = "running" /\ (to = "agent" => rows'[r].ref)
      /\ rows[r].ref => rows'[r].ref
  BY <1>1, <1>2 DEF InSlot, storeVars, Rewrites
<1>6. ex' \in Executor /\ ex'.at = to /\ ExecutorAt(r)
  BY <1>2, <1>3, <1>5, GoesOn DEF ExAt
<1>7. ExecutorMove(r)
  BY <1>1, <1>2, <1>3, <1>4, <1>6, RowMove
<1>8. (r \in sessions' \cup records' => rows'[r].ref) /\ ~Settled(r)'
  BY <1>2, <1>5 DEF InSlot, Settled
<1>9. LockRight'
  BY <1>1, <1>3, <1>4, <1>6, RightFacts, LockKept DEF Held
<1> QED
  BY <1>6, <1>7, <1>8, <1>9, MoveRight

LEMMA TransactionsRight ==
    ASSUME StorageRight, Refresh \/ Intend \/ Attach \/ Publishing
    PROVE  StorageRight'
<1>1. ex.at \in Working \ Held /\ ex.at # "prepare"
  BY DEF Refresh, Intend, Attach, Publishing, ExecuteTx, Working, Held
<1>2. PICK r \in Runs : r = ex.run /\ InSlot(r) /\ StoreBase
  BY <1>1, AtWork DEF Working
<1>3. UNCHANGED <<artifacts, objects, workspaces, sessions, records, lock>>
  BY DEF Refresh, Intend, Attach, Publishing, ExecuteTx
<1>4. CASE Refresh
  <2>1. \/ RefreshSource(r) /\ ExecutesTo("intent") /\ UNCHANGED left
        \/ ExecuteFails /\ UNCHANGED storeVars
    BY <1>2, <1>4 DEF Refresh, ExecuteTx
  <2> QED
    BY <1>1, <1>2, <1>3, <2>1, TxRewrites, TxRight
<1>5. CASE Intend
  <2>1. \/ BeginSandboxAcquire(r) /\ ExecutesTo("attach") /\ UNCHANGED left
        \/ ExecuteFails /\ UNCHANGED storeVars
    BY <1>2, <1>5 DEF Intend, ExecuteTx
  <2> QED
    BY <1>1, <1>2, <1>3, <2>1, TxRewrites, TxRight
<1>6. CASE Attach
  <2>1. \/ AttachSandboxRef(r) /\ ExecutesTo("agent") /\ UNCHANGED left
        \/ ExecuteFails /\ UNCHANGED storeVars
    BY <1>2, <1>6 DEF Attach, ExecuteTx
  <2> QED
    BY <1>1, <1>2, <1>3, <2>1, TxRewrites, AttachSetsRef, TxRight
<1>7. CASE Publishing
  <2>1. \/ SetPhase(r, "publishing") /\ ExecutesTo("lock") /\ UNCHANGED left
        \/ ExecuteFails /\ UNCHANGED storeVars
    BY <1>2, <1>7 DEF Publishing, ExecuteTx
  <2> QED
    BY <1>1, <1>2, <1>3, <2>1, TxRewrites, TxRight
<1> QED
  BY <1>4, <1>5, <1>6, <1>7

LEMMA AgentRunsRight ==
    ASSUME StorageRight, AgentRuns
    PROVE  StorageRight'
<1>1. PICK at \in {"finished", "fail"} :
          /\ ex.at = "agent" /\ SetPhase(ex.run, "agent") /\ ExecutesTo(at)
          /\ records' = records \cup {ex.run} /\ sessions' = sessions \cup {ex.run}
          /\ UNCHANGED <<artifacts, objects, workspaces, lock, left>>
  BY DEF AgentRuns
<1>2. PICK r \in Runs : /\ r = ex.run /\ InSlot(r) /\ ~Settled(r) /\ StoreBase
                        /\ rows[r].status = "running" /\ rows[r].ref
  BY <1>1, AtWork DEF Working
<1>3. /\ ex' = [ex EXCEPT !.at = at]
      /\ UNCHANGED <<projectDeleted, gone, inputs, stored, upload, pm>>
  BY <1>1 DEF ExecutesTo
<1>4. Spent
  BY <1>1, RightFacts, NothingSpent
<1>5. Rewrites(r) /\ rows'[r].status = "running" /\ InSlot(r)' /\ rows'[r].ref
  <2>1. SetPhase(r, "agent")
    BY <1>1, <1>2
  <2>2. Rewrites(r) /\ rows'[r].status = rows[r].status /\ InSlot(r)'
    BY <1>2, <2>1, TxRewrites
  <2> QED
    BY <1>2, <2>2 DEF Rewrites
<1>6. ex' \in Executor /\ ex'.at = at /\ ExecutorAt(r)
  BY <1>1, <1>2, <1>3, <1>5, GoesOn DEF ExAt
<1>7. ExecutorMove(r)
  BY <1>1, <1>2, <1>3, <1>4, <1>5, <1>6, RightFacts
     DEF ExecutorMove, ThingsTyped, TablesTyped, PartiesTyped
<1>8. ~Settled(r)'
  BY <1>5 DEF InSlot, Settled
<1>9. LockRight'
  BY <1>1, <1>3, <1>4, <1>6, RightFacts, LockKept DEF Held
<1> QED
  BY <1>5, <1>6, <1>7, <1>8, <1>9, MoveRight

(* Publication: under the lock the scan is nowhere near. *)

LEMMA LockPublicationRight ==
    ASSUME StorageRight, LockPublication
    PROVE  StorageRight'
<1>1. PICK at \in {"put", "release"}, n \in 0..MaxArtifacts :
          /\ ex.at = "lock" /\ Locks("publisher") /\ (UNCHANGED left \/ Fault)
          /\ \/ ex' = [ex EXCEPT !.at = at, !.wanted = n]
             \/ ex' = [ex EXCEPT !.at = at]
          /\ UNCHANGED <<projectDeleted, gone, inputs, stored, upload, pm>>
          /\ UNCHANGED <<storeVars, artifacts, objects, workspaces, sessions, records>>
  <2>1. 0 \in 0..MaxArtifacts
    BY StorageBounds
  <2> QED
    BY <2>1 DEF LockPublication, ExecutesTo
<1>2. PICK r \in Runs : /\ r = ex.run /\ InSlot(r) /\ ~Settled(r) /\ ex \in Executor
                        /\ rows[r].status = "running"
                        /\ r \in sessions \cup records => rows[r].ref
  BY <1>1, AtWork DEF Working
<1>3. Spent
  BY <1>1, RightFacts, NothingSpent, SpendsOf DEF Fault
<1>4. UNCHANGED rows /\ lock = "free" /\ lock' = "publisher"
  BY <1>1 DEF storeVars, Locks
<1>5. ex' \in Executor /\ ex'.at = at /\ ex'.run = r
  BY <1>1, <1>2 DEF Executor, ExAt
<1>6. ExecutorAt(r)
  BY <1>2, <1>4, <1>5 DEF ExecutorAt, InSlot
<1>7. ExecutorMove(r)
  BY <1>1, <1>2, <1>3, <1>4, <1>5, RightFacts DEF ExecutorMove, ThingsTyped, TablesTyped
<1>8. (r \in sessions' \cup records' => rows'[r].ref) /\ ~Settled(r)'
  BY <1>1, <1>2, <1>4 DEF Settled
<1>9. LockRight'
  <2>1. Undisturbed' => pm.at \notin {"list", "check", "delete"}
    BY <1>3, <1>4, RightFacts DEF Spent, LockRight
  <2> QED
    BY <1>1, <1>4, <2>1 DEF LockRight
<1> QED
  BY <1>6, <1>7, <1>8, <1>9, MoveRight

(* The objects of what is wanted are of the run at work. *)
LEMMA WantedOf ==
    ASSUME StorageRight, ex.at # "idle"
    PROVE  \A a \in Wanted : a \in Artifact /\ a[1] = ex.run
<1>1. ex.run \in Runs /\ ex.wanted \in 0..MaxArtifacts
  BY RightFacts DEF ExecutorRight, PartiesTyped, Executor
<1>2. 1..ex.wanted \subseteq 1..MaxArtifacts
  BY <1>1, StorageBounds
<1> QED
  BY <1>1, <1>2 DEF Wanted, Artifact

LEMMA ObjectAdded ==
    ASSUME ThingsTyped, NEW a \in Artifact, objects[a] < MaxFiles
    PROVE  [objects EXCEPT ![a] = @ + 1] \in [Artifact -> 0..MaxFiles]
<1>1. objects[a] \in 0..MaxFiles /\ objects \in [Artifact -> 0..MaxFiles]
  BY DEF ThingsTyped
<1> DEFINE n == objects[a]
<1>2. n + 1 \in 0..MaxFiles
  BY <1>1, StorageBounds
<1> HIDE DEF n
<1>3. [objects EXCEPT ![a] = n + 1] \in [Artifact -> 0..MaxFiles]
  BY <1>1, <1>2
<1> QED
  BY <1>3 DEF n

LEMMA PutArtifactRight ==
    ASSUME StorageRight, PutArtifact
    PROVE  StorageRight'
<1>1. PICK a \in Wanted :
          /\ ex.at = "put" /\ objects[a] < MaxFiles
          /\ objects' \in {objects, [objects EXCEPT ![a] = @ + 1]}
          /\ \/ UNCHANGED <<ex, left>>
             \/ Fault /\ ex' = [ex EXCEPT !.at = "withdraw"]
          /\ UNCHANGED <<projectDeleted, gone, inputs, stored, upload, pm>>
          /\ UNCHANGED <<storeVars, artifacts, workspaces, sessions, records, lock>>
  BY DEF PutArtifact, ExecutesTo
<1>2. PICK r \in Runs : /\ r = ex.run /\ InSlot(r) /\ ~Settled(r) /\ ex \in Executor
                        /\ rows[r].status = "running"
                        /\ r \in sessions \cup records => rows[r].ref
  BY <1>1, AtWork DEF Working
<1>3. Spent
  BY <1>1, RightFacts, NothingSpent, SpendsOf DEF Fault
<1>4. UNCHANGED rows /\ a \in Artifact /\ a[1] = r
  BY <1>1, <1>2, WantedOf DEF storeVars
<1>5. ex' \in Executor /\ ex'.at \in {"put", "withdraw"} /\ ex'.run = r
  BY <1>1, <1>2 DEF Executor, ExAt
<1>6. ExecutorAt(r)
  BY <1>2, <1>4, <1>5 DEF ExecutorAt, InSlot
<1>7. /\ objects' \in [Artifact -> 0..MaxFiles]
      /\ \A b \in Artifact : b[1] # r => objects'[b] = objects[b]
  BY <1>1, <1>4, RightFacts, ObjectAdded DEF ThingsTyped
<1>8. ExecutorMove(r)
  BY <1>1, <1>2, <1>3, <1>5, <1>7, RightFacts
     DEF ExecutorMove, ThingsTyped, TablesTyped, PartiesTyped
<1>9. (r \in sessions' \cup records' => rows'[r].ref) /\ ~Settled(r)'
  BY <1>1, <1>2, <1>4 DEF Settled
<1>10. LockRight'
  BY <1>1, <1>3, <1>5, RightFacts, LockKept DEF Held
<1> QED
  BY <1>6, <1>8, <1>9, <1>10, MoveRight

(* Deleting under prefixes leaves other prefixes alone. *)
LEMMA Empties ==
    ASSUME ThingsTyped, NEW S \in SUBSET Artifact, Emptied(S) \/ PartlyEmptied(S)
    PROVE  /\ objects' \in [Artifact -> 0..MaxFiles]
           /\ \A a \in Artifact \ S : objects'[a] = objects[a]
           /\ \A a \in Artifact : objects[a] = 0 => objects'[a] = 0
           /\ Emptied(S) => \A a \in S : objects'[a] = 0
<1>0. objects \in [Artifact -> 0..MaxFiles] /\ 0 \in 0..MaxFiles
  BY StorageBounds DEF ThingsTyped
<1>1. CASE Emptied(S)
  BY <1>0, <1>1 DEF Emptied
<1>2. CASE PartlyEmptied(S) /\ ~Emptied(S)
  <2>1. PICK rest \in [S -> 0..MaxFiles] :
            /\ \A a \in S : rest[a] <= objects[a]
            /\ objects' = [a \in Artifact |-> IF a \in S THEN rest[a] ELSE objects[a]]
    BY <1>2 DEF PartlyEmptied
  <2>2. ASSUME NEW a \in S, objects[a] = 0
        PROVE  rest[a] = 0
    <3>1. rest[a] \in 0..MaxFiles /\ rest[a] <= 0
      BY <2>1, <2>2
    <3> QED
      BY <3>1, StorageBounds
  <2> QED
    BY <1>0, <1>2, <2>1, <2>2
<1> QED
  BY <1>1, <1>2

LEMMA WithdrawRight ==
    ASSUME StorageRight, Withdraw
    PROVE  StorageRight'
<1>1. /\ ex.at = "withdraw" /\ (UNCHANGED left \/ Fault)
      /\ ex' = [ex EXCEPT !.at = "release"] /\ (Emptied(Wanted) \/ PartlyEmptied(Wanted))
      /\ UNCHANGED <<projectDeleted, gone, inputs, stored, upload, pm>>
      /\ UNCHANGED <<storeVars, artifacts, workspaces, sessions, records, lock>>
  BY DEF Withdraw, ExecutesTo
<1>2. PICK r \in Runs : /\ r = ex.run /\ InSlot(r) /\ ~Settled(r)
                        /\ rows[r].status = "running"
                        /\ r \in sessions \cup records => rows[r].ref
  BY <1>1, AtWork DEF Working
<1>3. Spent
  BY <1>1, RightFacts, NothingSpent, SpendsOf DEF Fault
<1>4. UNCHANGED rows /\ InSlot(r)'
  BY <1>1, <1>2 DEF storeVars, InSlot
<1>5. ex' \in Executor /\ ex'.at = "release" /\ ExecutorAt(r)
  BY <1>1, <1>2, <1>4, GoesOn DEF ExAt, Working
<1>6. /\ objects' \in [Artifact -> 0..MaxFiles]
      /\ \A b \in Artifact : b[1] # r => objects'[b] = objects[b]
  <2>1. \A a \in Wanted : a \in Artifact /\ a[1] = r
    BY <1>1, <1>2, WantedOf
  <2>2. PICK S \in SUBSET Artifact : S = Wanted
    BY <2>1
  <2>3. /\ objects' \in [Artifact -> 0..MaxFiles]
        /\ \A a \in Artifact \ S : objects'[a] = objects[a]
    BY <1>1, <2>2, RightFacts, Empties
  <2> QED
    BY <2>1, <2>2, <2>3
<1>7. ExecutorMove(r)
  BY <1>1, <1>2, <1>3, <1>5, <1>6, RightFacts
     DEF ExecutorMove, ThingsTyped, TablesTyped, PartiesTyped
<1>8. (r \in sessions' \cup records' => rows'[r].ref) /\ ~Settled(r)'
  BY <1>1, <1>2, <1>4 DEF Settled
<1>9. LockRight'
  BY <1>1, <1>3, <1>5, RightFacts, LockKept DEF Held
<1> QED
  BY <1>5, <1>7, <1>8, <1>9, MoveRight

LEMMA CommitRight ==
    ASSUME StorageRight, Commit
    PROVE  StorageRight'
<1>1. /\ ex.at = "put" /\ (UNCHANGED left \/ Fault) /\ \A a \in Wanted : objects[a] = MaxFiles
      /\ \/ CommitProducts(ex.run) /\ artifacts' = artifacts \cup Wanted
         \/ UNCHANGED <<storeVars, artifacts>>
      /\ ex' = [ex EXCEPT !.at = "release"]
      /\ UNCHANGED <<projectDeleted, gone, inputs, stored, upload, pm>>
      /\ UNCHANGED <<objects, workspaces, sessions, records, lock>>
  BY DEF Commit, ExecutesTo
<1>2. PICK r \in Runs : /\ r = ex.run /\ InSlot(r) /\ ~Settled(r) /\ StoreBase
                        /\ r \in sessions \cup records => rows[r].ref
  BY <1>1, AtWork DEF Working
<1>3. Spent
  BY <1>1, RightFacts, NothingSpent, SpendsOf DEF Fault
<1>4. \/ /\ Rewrites(r) /\ rows'[r].status = "succeeded" /\ InSlot(r)'
         /\ artifacts' = artifacts \cup Wanted
      \/ UNCHANGED <<storeVars, rows, artifacts>>
  <2>1. CASE CommitProducts(ex.run) /\ artifacts' = artifacts \cup Wanted
    BY <1>2, <2>1, CommitRewrites
  <2> QED
    BY <1>1, <2>1 DEF storeVars
<1>5. InSlot(r)' /\ (rows[r].ref => rows'[r].ref)
  BY <1>2, <1>4 DEF InSlot, Rewrites
<1>6. ex' \in Executor /\ ex'.at = "release" /\ ExecutorAt(r)
  BY <1>1, <1>2, <1>5, GoesOn DEF ExAt, Working
<1>7. \A a \in Wanted : a \in Artifact /\ a[1] = r
  BY <1>1, <1>2, WantedOf
<1>8. artifacts \subseteq artifacts' /\ artifacts' \subseteq artifacts \cup Wanted
  BY <1>4
<1>9. \A a \in artifacts' \ artifacts :
          a[1] = r /\ rows'[r].status = "succeeded" /\ objects'[a] = MaxFiles
  BY <1>1, <1>4, <1>7
<1>10. ExecutorMove(r)
  <2>1. artifacts' \subseteq Artifact
    BY <1>7, <1>8, RightFacts DEF TablesTyped
  <2>2. UNCHANGED storeVars \/ Rewrites(r)
    BY <1>4
  <2> QED
    BY <1>1, <1>2, <1>3, <1>6, <1>8, <1>9, <2>1, <2>2, RightFacts
       DEF ExecutorMove, ThingsTyped, PartiesTyped
<1>11. (r \in sessions' \cup records' => rows'[r].ref) /\ ~Settled(r)'
  BY <1>1, <1>2, <1>5 DEF Settled, InSlot
<1>12. LockRight'
  <2>1. SUFFICES ASSUME Undisturbed'
                 PROVE  LockRight'
    BY DEF LockRight
  <2>2. lock = "publisher" /\ pm.at \notin {"list", "check", "delete"}
    BY <1>1, <1>3, <2>1, RightFacts DEF Spent, LockRight
  <2> QED
    BY <1>1, <2>2 DEF LockRight
<1> QED
  BY <1>6, <1>10, <1>11, <1>12, MoveRight

LEMMA ReleaseRight ==
    ASSUME StorageRight, Release
    PROVE  StorageRight'
<1>1. PICK at \in {"finish", "fail"} :
          /\ ex.at = "release" /\ Unlocks("publisher") /\ ExecutesTo(at)
          /\ UNCHANGED <<storeVars, artifacts, objects, workspaces, sessions, records, left>>
  BY DEF Release
<1>2. PICK r \in Runs : /\ r = ex.run /\ InSlot(r) /\ ~Settled(r)
                        /\ r \in sessions \cup records => rows[r].ref
  BY <1>1, AtWork
<1>3. /\ ex' = [ex EXCEPT !.at = at] /\ UNCHANGED rows
      /\ UNCHANGED <<projectDeleted, gone, inputs, stored, upload, pm>>
  BY <1>1 DEF ExecutesTo, storeVars
<1>4. Spent /\ InSlot(r)'
  BY <1>1, <1>2, <1>3, RightFacts, NothingSpent DEF InSlot
<1>5. ex' \in Executor /\ ex'.at = at /\ ExecutorAt(r)
  BY <1>1, <1>2, <1>3, <1>4, GoesOn DEF ExAt, Working
<1>6. lock' \in {"free", "publisher", "scanner"} /\ (lock = "scanner" => lock' = "scanner")
  BY <1>1, RightFacts DEF Unlocks, PartiesTyped
<1>7. ExecutorMove(r)
  BY <1>1, <1>2, <1>3, <1>4, <1>5, <1>6, RightFacts DEF ExecutorMove, ThingsTyped, TablesTyped
<1>8. (r \in sessions' \cup records' => rows'[r].ref) /\ ~Settled(r)'
  BY <1>1, <1>2, <1>3, <1>4 DEF InSlot, Settled
<1>9. LockRight'
  BY <1>1, <1>3, <1>4, <1>5, <1>6, RightFacts DEF LockRight, Spent
<1> QED
  BY <1>5, <1>7, <1>8, <1>9, MoveRight

LEMMA FailRight ==
    ASSUME StorageRight, Fail
    PROVE  StorageRight'
<1>1. /\ ex.at = "fail" /\ (UNCHANGED left \/ Fault)
      /\ \/ RecordFailure(ex.run, "failed") /\ ex' = [ex EXCEPT !.at = "finish"]
         \/ UNCHANGED storeVars /\ ex' = Idle
      /\ UNCHANGED <<projectDeleted, gone, inputs, stored, upload, pm>>
      /\ UNCHANGED <<artifacts, objects, workspaces, sessions, records, lock>>
  BY DEF Fail, ExecutesTo
<1>2. PICK r \in Runs : /\ r = ex.run /\ InSlot(r) /\ ~Settled(r) /\ StoreBase
                        /\ r \in sessions \cup records => rows[r].ref
  BY <1>1, AtWork
<1>3. Spent
  BY <1>1, RightFacts, NothingSpent, SpendsOf DEF Fault
<1>4. \/ Rewrites(r) /\ InSlot(r)' /\ ex' = [ex EXCEPT !.at = "finish"]
      \/ UNCHANGED <<storeVars, rows>> /\ ex' = Idle
  BY <1>1, <1>2, FailureRewrites DEF storeVars
<1>5. /\ UNCHANGED storeVars \/ Rewrites(r)
      /\ ~Settled(r)' /\ (rows[r].ref => rows'[r].ref)
  BY <1>2, <1>4 DEF Rewrites, InSlot, Settled
<1>6. ex' \in Executor /\ ex'.at \in {"finish", "idle"} /\ ExecutorAt(r)
  <2>1. CASE InSlot(r)' /\ ex' = [ex EXCEPT !.at = "finish"]
    BY <1>1, <1>2, <2>1, GoesOn DEF ExAt, Working
  <2>2. CASE ex' = Idle
    BY <2>2, IdleTyped DEF ExecutorAt
  <2> QED
    BY <1>4, <2>1, <2>2
<1>7. ExecutorMove(r)
  BY <1>1, <1>2, <1>3, <1>5, <1>6, RowMove
<1>8. LockRight'
  BY <1>1, <1>3, <1>6, RightFacts, LockKept DEF Held
<1> QED
  BY <1>1, <1>2, <1>5, <1>6, <1>7, <1>8, MoveRight

LEMMA FinishRight ==
    ASSUME StorageRight, Finish
    PROVE  StorageRight'
<1> DEFINE kept == IF rows[ex.run].status = "succeeded" THEN sessions ELSE sessions \ {ex.run}
<1>1. /\ ex.at = "finish" /\ ex' = Idle /\ (UNCHANGED left \/ Fault)
      /\ \/ AcknowledgeFinalized(ex.run) /\ sessions' = kept
         \/ UNCHANGED storeVars /\ sessions' \in {sessions, kept}
      /\ UNCHANGED <<projectDeleted, gone, inputs, stored, upload, pm>>
      /\ UNCHANGED <<artifacts, objects, workspaces, records, lock>>
  BY DEF Finish
<1>2. PICK r \in Runs : /\ r = ex.run /\ InSlot(r) /\ ~Settled(r) /\ StoreBase
                        /\ r \in sessions \cup records => rows[r].ref
  BY <1>1, AtWork
<1>3. Spent
  BY <1>1, RightFacts, NothingSpent, SpendsOf DEF Fault
<1>4. \/ /\ Rewrites(r) /\ rows'[r].status = rows[r].status /\ sessions' = kept
      \/ UNCHANGED <<storeVars, rows>>
  BY <1>1, <1>2, AcknowledgeRewrites DEF storeVars
<1>5. UNCHANGED storeVars \/ Rewrites(r)
  BY <1>4
<1>6. ex' \in Executor /\ ex'.at = "idle" /\ ExecutorAt(r)
  BY <1>1, IdleTyped DEF ExecutorAt
<1>7. sessions' \subseteq sessions
  BY <1>1
<1>8. ExecutorMove(r)
  BY <1>1, <1>2, <1>3, <1>5, <1>6, <1>7, RightFacts
     DEF ExecutorMove, ThingsTyped, TablesTyped, PartiesTyped
<1>9. rows[r].ref => rows'[r].ref
  BY <1>4 DEF Rewrites
<1>10. r \in sessions' \cup records' => rows'[r].ref
  BY <1>1, <1>2, <1>7, <1>9
<1>11. r \in sessions' /\ Settled(r)' => rows'[r].status = "succeeded"
  BY <1>2, <1>4 DEF Settled
<1>12. LockRight'
  BY <1>1, <1>3, <1>6, RightFacts, LockKept DEF Held
<1> QED
  BY <1>6, <1>8, <1>10, <1>11, <1>12, MoveRight

-----------------------------------------------------------------------------
(* The command.  Short of a hard deletion it only removes things.          *)

CommandMove ==
    /\ UNCHANGED <<tables, ex, upload>> /\ Spent
    /\ pm' \in Command /\ lock' \in {"free", "publisher", "scanner"}
    /\ objects' \in [Artifact -> 0..MaxFiles]
    /\ workspaces' \subseteq workspaces /\ sessions' \subseteq sessions
    /\ records' \subseteq records /\ stored' \subseteq stored
    /\ \A i \in stored \ stored' : i \in inputs /\ projectDeleted
    /\ Undisturbed' =>
           \A a \in artifacts : \/ objects'[a] = objects[a]
                                \/ projectDeleted \/ deleted[rows[a[1]].conv]

LEMMA TablesStill ==
    ASSUME UNCHANGED tables
    PROVE  /\ UNCHANGED <<storeVars, rows, head, deleted>>
           /\ UNCHANGED <<projectDeleted, gone, artifacts, inputs>>
           /\ \A k : /\ Doomed(k)' = Doomed(k) /\ RunsOf(k)' = RunsOf(k)
                     /\ PrefixesOf(k)' = PrefixesOf(k) /\ KeysOf(k)' = KeysOf(k)
<1>1. /\ UNCHANGED <<storeVars, rows, head, deleted>>
      /\ UNCHANGED <<projectDeleted, gone, artifacts, inputs>>
  BY DEF tables, storeVars
<1>2. ASSUME NEW k
      PROVE  /\ Doomed(k)' = Doomed(k) /\ RunsOf(k)' = RunsOf(k)
             /\ PrefixesOf(k)' = PrefixesOf(k) /\ KeysOf(k)' = KeysOf(k)
  BY <1>1 DEF Doomed, RunsOf, PrefixesOf, KeysOf, Exists
<1> QED
  BY <1>1, <1>2

LEMMA CommandRight ==
    ASSUME StorageRight, CommandMove, LockRight', PurgeRight'
    PROVE  StorageRight'
<1>1. /\ UNCHANGED <<storeVars, rows, head, deleted>> /\ UNCHANGED <<ex, upload>> /\ Spent
      /\ UNCHANGED <<projectDeleted, gone, artifacts, inputs>>
  BY TablesStill DEF CommandMove
<1>2. TablesTyped' /\ ThingsTyped' /\ PartiesTyped'
  BY <1>1, RightFacts DEF CommandMove, TablesTyped, ThingsTyped, PartiesTyped, Spent
<1>3. RowsRight'
  <2>1. StoreBase' /\ DeletedQuiescent'
    BY <1>1, RightFacts, StoreBaseStep, DeletedStep
  <2> QED
    BY <1>1, <2>1, RightFacts DEF RowsRight, Exists, Settled
<1>4. ExecutorRight' /\ RuntimeRight'
  <2>1. ExecutorRight'
    BY <1>1, RightFacts DEF ExecutorRight, InSlot
  <2>2. RuntimeRight'
    BY <1>1, RightFacts DEF CommandMove, RuntimeRight, Settled
  <2> QED
    BY <2>1, <2>2
<1>5. UploadsRight' /\ InputsRight'
  <2>0. stored' \subseteq stored /\ \A i \in stored \ stored' : i \in inputs /\ projectDeleted
    BY DEF CommandMove
  <2>1. UploadsRight'
    BY <1>1, <2>0, RightFacts DEF UploadsRight
  <2>2. InputsRight'
    BY <1>1, <2>0, RightFacts DEF InputsRight, Spent
  <2> QED
    BY <2>1, <2>2
<1>6. ArtifactsIntact'
  BY <1>1, RightFacts DEF CommandMove, ArtifactsIntact, Spent
<1> QED
  BY <1>2, <1>3, <1>4, <1>5, <1>6 DEF StorageRight

(* A step of the command that keeps its hands off all objects and rows. *)
LEMMA HarmlessMove ==
    ASSUME StorageRight, UNCHANGED <<tables, ex, upload>>, Spent, pm' \in Command,
           lock' \in {"free", "publisher", "scanner"}, UNCHANGED <<objects, stored>>,
           workspaces' \subseteq workspaces, sessions' \subseteq sessions,
           records' \subseteq records
    PROVE  CommandMove
  BY RightFacts DEF CommandMove, ThingsTyped

LEMMA PurgeStopped ==
    /\ NoPurge \in Command /\ NoPurge.at = "idle" /\ NoPurge.roots = {}
    /\ pm' = NoPurge => PurgeRight'
<1>1. NoPurge \in Command /\ NoPurge.at = "idle" /\ NoPurge.roots = {}
  BY DEF NoPurge, Command, PmAt, Roots
<1>2. ASSUME pm' = NoPurge
      PROVE  PurgeRight'
  BY <1>1, <1>2 DEF PurgeRight, Purging, AtRun
<1> QED
  BY <1>1, <1>2

(* The lock when the command stops or scans. *)
LEMMA ScannerUnlocks ==
    ASSUME PartiesTyped, LockRight, Spent, UNCHANGED ex, Unlocks("scanner"),
           pm'.at \notin {"list", "check", "delete"}
    PROVE  LockRight' /\ lock' \in {"free", "publisher", "scanner"}
  BY DEF PartiesTyped, LockRight, Spent, Unlocks

LEMMA LockUntouched ==
    ASSUME PartiesTyped, LockRight, Spent, UNCHANGED <<ex, lock>>,
           pm'.at \notin {"list", "check", "delete"}
    PROVE  LockRight' /\ lock' \in {"free", "publisher", "scanner"}
  BY DEF PartiesTyped, LockRight, Spent

LEMMA ScanPurge ==
    ASSUME PurgeRight, UNCHANGED tables, pm'.roots = pm.roots,
           pm'.at \in {"lock", "list", "check", "delete", "load", "root"}
    PROVE  PurgeRight'
  BY TablesStill DEF PurgeRight, Purging, AtRun

LEMMA ScanRight ==
    ASSUME StorageRight,
           Preflight \/ ScanLock \/ ScanList \/ ScanEnd \/ PurgeEnd \/ LoadRoots
    PROVE  StorageRight'
<1>0. pm \in Command
  BY RightFacts DEF PartiesTyped
<1>1. CASE Preflight
  <2>1. /\ pm' = [NoPurge EXCEPT !.at = "lock"] /\ UNCHANGED <<tables, ex, upload, lock, left>>
        /\ UNCHANGED <<objects, stored, workspaces, sessions, records>>
    BY <1>1 DEF Preflight, Commands, things
  <2>2. pm' \in Command /\ pm'.at = "lock" /\ pm'.roots = {}
    BY <2>1, PurgeStopped DEF Command, PmAt
  <2>3. Spent
    BY <2>1, RightFacts, NothingSpent
  <2>4. LockRight' /\ lock' \in {"free", "publisher", "scanner"}
    BY <2>1, <2>2, <2>3, RightFacts, LockUntouched
  <2>5. PurgeRight'
    BY <2>2 DEF PurgeRight, Purging, AtRun
  <2> QED
    BY <2>1, <2>2, <2>3, <2>4, <2>5, HarmlessMove, CommandRight
<1>2. CASE ScanLock
  <2>1. /\ pm' = [pm EXCEPT !.at = "list"] /\ UNCHANGED <<tables, ex, upload, left>>
        /\ UNCHANGED <<objects, stored, workspaces, sessions, records>>
        /\ lock = "free" /\ lock' = "scanner"
    BY <1>2 DEF ScanLock, Commands, things, Locks
  <2>2. pm' \in Command /\ pm'.at = "list" /\ pm'.roots = pm.roots
    BY <1>0, <2>1 DEF Command, PmAt
  <2>3. Spent
    BY <2>1, RightFacts, NothingSpent
  <2>4. LockRight'
    BY <2>1, <2>2, <2>3, RightFacts DEF LockRight, Spent
  <2>5. PurgeRight'
    BY <2>1, <2>2, RightFacts, ScanPurge
  <2> QED
    BY <2>1, <2>2, <2>3, <2>4, <2>5, HarmlessMove, CommandRight
<1>3. CASE ScanList
  <2>1. /\ pm.at = "list" /\ UNCHANGED <<tables, ex, upload>> /\ (UNCHANGED left \/ Fault)
        /\ UNCHANGED <<objects, stored, workspaces, sessions, records>>
        /\ \/ /\ pm' = [pm EXCEPT !.at = "check", !.orphans = {a \in Artifact : objects[a] > 0}]
              /\ UNCHANGED lock
           \/ pm' = NoPurge /\ Unlocks("scanner")
    BY <1>3 DEF ScanList, ScanStops, Stops, Commands, things
  <2>2. Spent
    BY <2>1, RightFacts, NothingSpent, SpendsOf DEF Fault
  <2>3. CASE pm' = NoPurge /\ Unlocks("scanner")
    <3>1. LockRight' /\ lock' \in {"free", "publisher", "scanner"}
      BY <2>1, <2>2, <2>3, RightFacts, ScannerUnlocks, PurgeStopped
    <3> QED
      BY <2>1, <2>2, <2>3, <3>1, PurgeStopped, HarmlessMove, CommandRight
  <2>4. CASE /\ pm' = [pm EXCEPT !.at = "check", !.orphans = {a \in Artifact : objects[a] > 0}]
             /\ UNCHANGED lock
    <3>1. pm' \in Command /\ pm'.at = "check" /\ pm'.roots = pm.roots
      BY <1>0, <2>4 DEF Command, PmAt
    <3>2. LockRight'
      BY <2>1, <2>2, <2>4, <3>1, RightFacts DEF LockRight, Spent
    <3>3. PurgeRight'
      BY <2>1, <3>1, RightFacts, ScanPurge
    <3>4. lock' \in {"free", "publisher", "scanner"}
      BY <2>4, RightFacts DEF PartiesTyped
    <3> QED
      BY <2>1, <2>2, <3>1, <3>2, <3>3, <3>4, HarmlessMove, CommandRight
  <2> QED
    BY <2>1, <2>3, <2>4
<1>4. CASE ScanEnd
  <2>1. /\ pm' = [pm EXCEPT !.at = "load"] /\ UNCHANGED <<tables, ex, upload, left>>
        /\ UNCHANGED <<objects, stored, workspaces, sessions, records>>
        /\ Unlocks("scanner")
    BY <1>4 DEF ScanEnd, Commands, things
  <2>2. pm' \in Command /\ pm'.at = "load" /\ pm'.roots = pm.roots
    BY <1>0, <2>1 DEF Command, PmAt
  <2>3. Spent
    BY <2>1, RightFacts, NothingSpent
  <2>4. LockRight' /\ lock' \in {"free", "publisher", "scanner"}
    BY <2>1, <2>2, <2>3, RightFacts, ScannerUnlocks
  <2>5. PurgeRight'
    BY <2>1, <2>2, RightFacts, ScanPurge
  <2> QED
    BY <2>1, <2>2, <2>3, <2>4, <2>5, HarmlessMove, CommandRight
<1>5. CASE PurgeEnd
  <2>1. /\ pm' = NoPurge /\ UNCHANGED <<tables, ex, upload, left, lock>>
        /\ UNCHANGED <<objects, stored, workspaces, sessions, records>>
    BY <1>5 DEF PurgeEnd, Stops, Commands, things
  <2>2. Spent
    BY <2>1, RightFacts, NothingSpent
  <2>3. LockRight' /\ lock' \in {"free", "publisher", "scanner"}
    BY <2>1, <2>2, RightFacts, LockUntouched, PurgeStopped
  <2> QED
    BY <2>1, <2>2, <2>3, PurgeStopped, HarmlessMove, CommandRight
<1>6. CASE LoadRoots
  <2>1. /\ pm' = [pm EXCEPT !.at = "root", !.roots = CurrentRoots]
        /\ UNCHANGED <<tables, ex, upload, left, lock>>
        /\ UNCHANGED <<objects, stored, workspaces, sessions, records>>
    BY <1>6 DEF LoadRoots, Commands, things
  <2>2. pm' \in Command /\ pm'.at = "root" /\ pm'.roots = CurrentRoots
    BY <1>0, <2>1 DEF Command, PmAt, CurrentRoots
  <2>3. Spent
    BY <2>1, RightFacts, NothingSpent
  <2>4. LockRight' /\ lock' \in {"free", "publisher", "scanner"}
    BY <2>1, <2>2, <2>3, RightFacts, LockUntouched
  <2>5. \A k \in CurrentRoots : Doomed(k)
    BY DEF CurrentRoots, Eligible, Doomed
  <2>6. PurgeRight'
    BY <2>1, <2>2, <2>5, TablesStill DEF PurgeRight, Purging, AtRun
  <2> QED
    BY <2>1, <2>2, <2>3, <2>4, <2>6, HarmlessMove, CommandRight
<1> QED
  BY <1>1, <1>2, <1>3, <1>4, <1>5, <1>6

LEMMA CheckRight ==
    ASSUME StorageRight, NEW a \in Artifact, Check(a)
    PROVE  StorageRight'
<1>1. /\ pm.at = "check" /\ a \in pm.orphans
      /\ pm' = IF a \in artifacts THEN [pm EXCEPT !.orphans = @ \ {a}]
                                  ELSE [pm EXCEPT !.at = "delete", !.prefixes = {a}]
      /\ UNCHANGED <<tables, ex, upload, lock, left>>
      /\ UNCHANGED <<objects, stored, workspaces, sessions, records>>
  BY DEF Check, Commands, things
<1>2. pm \in Command
  BY RightFacts DEF PartiesTyped
<1>3. /\ pm' \in Command /\ pm'.roots = pm.roots
      /\ \/ pm'.at = "check"
         \/ a \notin artifacts /\ pm'.at = "delete" /\ pm'.prefixes = {a}
  <2>1. CASE a \in artifacts
    BY <1>1, <1>2, <2>1 DEF Command
  <2>2. CASE a \notin artifacts
    BY <1>1, <1>2, <2>2 DEF Command, PmAt
  <2> QED
    BY <2>1, <2>2
<1>4. Spent
  BY <1>1, RightFacts, NothingSpent
<1>5. LockRight'
  BY <1>1, <1>3, <1>4, TablesStill, RightFacts DEF LockRight, Spent
<1>6. PurgeRight'
  BY <1>1, <1>3, RightFacts, ScanPurge
<1>7. lock' \in {"free", "publisher", "scanner"}
  BY <1>1, RightFacts DEF PartiesTyped
<1> QED
  BY <1>1, <1>3, <1>4, <1>5, <1>6, <1>7, HarmlessMove, CommandRight

LEMMA DeleteOrphanRight ==
    ASSUME StorageRight, DeleteOrphan
    PROVE  StorageRight'
<1>1. /\ pm.at = "delete" /\ UNCHANGED <<tables, ex, upload>> /\ (UNCHANGED left \/ Fault)
      /\ UNCHANGED <<stored, workspaces, sessions, records>>
      /\ Emptied(pm.prefixes) \/ PartlyEmptied(pm.prefixes)
      /\ \/ /\ pm' = [pm EXCEPT !.at = "check", !.orphans = @ \ pm.prefixes, !.prefixes = {}]
            /\ UNCHANGED lock
         \/ pm' = NoPurge /\ Unlocks("scanner")
  BY DEF DeleteOrphan, ScanStops, Stops, Commands
<1>2. pm \in Command
  BY RightFacts DEF PartiesTyped
<1>3. Spent
  BY <1>1, RightFacts, NothingSpent, SpendsOf DEF Fault
<1>4. PICK S \in SUBSET Artifact : S = pm.prefixes
  BY <1>2 DEF Command
<1>5. /\ objects' \in [Artifact -> 0..MaxFiles]
      /\ \A a \in Artifact \ S : objects'[a] = objects[a]
  BY <1>1, <1>4, RightFacts, Empties
<1>6. Undisturbed' => \A a \in artifacts : objects'[a] = objects[a]
  <2>1. Undisturbed' => S \cap artifacts = {}
    BY <1>1, <1>3, <1>4, RightFacts DEF Spent, LockRight
  <2>2. artifacts \subseteq Artifact
    BY RightFacts DEF TablesTyped
  <2> QED
    BY <1>5, <2>1, <2>2
<1>7. ASSUME pm' \in Command, lock' \in {"free", "publisher", "scanner"}
      PROVE  CommandMove
  BY <1>1, <1>3, <1>5, <1>6, <1>7 DEF CommandMove
<1>8. CASE pm' = NoPurge /\ Unlocks("scanner")
  <2>1. LockRight' /\ lock' \in {"free", "publisher", "scanner"}
    BY <1>1, <1>3, <1>8, RightFacts, ScannerUnlocks, PurgeStopped
  <2> QED
    BY <1>7, <1>8, <2>1, PurgeStopped, CommandRight
<1>9. CASE /\ pm' = [pm EXCEPT !.at = "check", !.orphans = @ \ pm.prefixes, !.prefixes = {}]
           /\ UNCHANGED lock
  <2>1. pm' \in Command /\ pm'.at = "check" /\ pm'.roots = pm.roots
    BY <1>2, <1>9 DEF Command, PmAt
  <2>2. LockRight'
    BY <1>1, <1>3, <1>9, <2>1, RightFacts DEF LockRight, Spent
  <2>3. PurgeRight'
    BY <1>1, <2>1, RightFacts, ScanPurge
  <2>4. lock' \in {"free", "publisher", "scanner"}
    BY <1>9, RightFacts DEF PartiesTyped
  <2> QED
    BY <1>7, <2>1, <2>2, <2>3, <2>4, CommandRight
<1> QED
  BY <1>1, <1>8, <1>9

LEMMA CommandKilledRight ==
    ASSUME StorageRight, CommandKilled
    PROVE  StorageRight'
<1>1. /\ Stopped /\ pm' = NoPurge /\ UNCHANGED <<tables, ex, upload>> /\ Unlocks("scanner")
      /\ UNCHANGED <<objects, stored, workspaces, sessions, records>>
  BY DEF CommandKilled, Stops, Commands, things
<1>2. Spent
  BY <1>1, RightFacts, SpendsOf DEF Stopped
<1>3. LockRight' /\ lock' \in {"free", "publisher", "scanner"}
  BY <1>1, <1>2, RightFacts, ScannerUnlocks, PurgeStopped
<1> QED
  BY <1>1, <1>2, <1>3, PurgeStopped, HarmlessMove, CommandRight

(* The purge of one root: what it has got to only grows. *)

(* A call of the purge that fails and stops the command. *)
LEMMA StoppedRight ==
    ASSUME StorageRight, CommandMove, UNCHANGED lock, pm' = NoPurge
    PROVE  StorageRight'
<1>1. LockRight'
  BY RightFacts, LockUntouched, PurgeStopped DEF CommandMove
<1> QED
  BY <1>1, PurgeStopped, CommandRight

LEMMA PurgeGoesOn ==
    ASSUME StorageRight, CommandMove, UNCHANGED lock, PurgeRight',
           pm'.at \notin {"list", "check", "delete"}
    PROVE  StorageRight'
<1>1. LockRight'
  BY RightFacts, LockUntouched DEF CommandMove
<1> QED
  BY <1>1, CommandRight

LEMMA RootFacts ==
    ASSUME StorageRight, Purging
    PROVE  \E k \in Roots :
               /\ k = pm.root /\ Doomed(k) /\ RunsOf(k) \subseteq Runs
               /\ pm.runs \subseteq RunsOf(k) /\ pm.runs \subseteq Runs
               /\ PrefixesOf(k) \subseteq artifacts /\ artifacts \subseteq Artifact
               /\ KeysOf(k) \subseteq inputs /\ inputs \subseteq Inputs
               /\ \A r \in RunsOf(k) : r \in Runs /\ Exists(r) /\ Settled(r)
               /\ (k # Project => KeysOf(k) = {})
<1>1. pm \in Command
  BY RightFacts DEF PartiesTyped
<1>2. PICK k \in Roots : k = pm.root
  BY <1>1 DEF Command
<1>3. Doomed(k) /\ pm.runs \subseteq RunsOf(k)
  BY <1>2, RightFacts DEF PurgeRight
<1>4. RunsOf(k) \subseteq Runs /\ PrefixesOf(k) \subseteq artifacts /\ KeysOf(k) \subseteq inputs
  BY DEF RunsOf, PrefixesOf, KeysOf
<1>5. \A r \in RunsOf(k) : r \in Runs /\ Exists(r) /\ Settled(r)
  BY <1>3, RightFacts, DoomedSettled
<1> QED
  BY <1>2, <1>3, <1>4, <1>5, RightFacts DEF TablesTyped, KeysOf

LEMMA PurgeRootRight ==
    ASSUME StorageRight, NEW k \in Roots, PurgeRoot(k)
    PROVE  StorageRight'
<1>1. /\ pm.at = "root" /\ k \in pm.roots /\ UNCHANGED <<tables, ex, upload, lock, left>>
      /\ UNCHANGED <<objects, stored, workspaces, sessions, records>>
      /\ \/ pm' = [pm EXCEPT !.at = "prefixes", !.roots = @ \ {k}, !.root = k,
                             !.prefixes = PrefixesOf(k), !.keys = KeysOf(k),
                             !.runs = RunsOf(k)]
         \/ pm' = NoPurge
  BY DEF PurgeRoot, Stops, Commands, things
<1>2. pm \in Command
  BY RightFacts DEF PartiesTyped
<1>3. Spent
  BY <1>1, RightFacts, NothingSpent
<1>4. lock' \in {"free", "publisher", "scanner"}
  BY <1>1, RightFacts DEF PartiesTyped
<1>5. CASE pm' = NoPurge
  BY <1>1, <1>3, <1>4, <1>5, PurgeStopped, HarmlessMove, StoppedRight
<1>6. CASE pm' # NoPurge
  <2>1. PICK P \in SUBSET Artifact, K \in SUBSET Inputs, R \in SUBSET Runs :
            P = PrefixesOf(k) /\ K = KeysOf(k) /\ R = RunsOf(k)
    <3>1. PrefixesOf(k) \subseteq Artifact /\ KeysOf(k) \subseteq Inputs
      BY RightFacts DEF PrefixesOf, KeysOf, TablesTyped
    <3>2. RunsOf(k) \subseteq Runs
      BY DEF RunsOf
    <3> QED
      BY <3>1, <3>2
  <2>2. pm' = [pm EXCEPT !.at = "prefixes", !.roots = @ \ {k}, !.root = k, !.prefixes = P,
                         !.keys = K, !.runs = R]
    BY <1>1, <1>6, <2>1
  <2>3. /\ pm' \in Command
        /\ pm'.at = "prefixes" /\ pm'.roots = pm.roots \ {k} /\ pm'.root = k
        /\ pm'.prefixes = PrefixesOf(k) /\ pm'.keys = KeysOf(k) /\ pm'.runs = RunsOf(k)
    BY <1>2, <2>1, <2>2 DEF Command, PmAt
  <2>4. \A j \in pm.roots : Doomed(j)
    BY RightFacts DEF PurgeRight
  <2>5. PurgeRight'
    <3>1. Doomed(k)' /\ RunsOf(k)' = RunsOf(k) /\ PrefixesOf(k)' = PrefixesOf(k)
          /\ KeysOf(k)' = KeysOf(k)
      BY <1>1, <2>4, TablesStill
    <3>2. /\ RunsOf(pm.root)' = RunsOf(k) /\ PrefixesOf(pm.root)' = PrefixesOf(k)
          /\ KeysOf(pm.root)' = KeysOf(k) /\ Doomed(pm.root)'
      BY <2>3, <3>1 DEF RunsOf, PrefixesOf, KeysOf, Doomed
    <3>3. \A j \in pm'.roots : Doomed(j)'
      BY <1>1, <2>3, <2>4, TablesStill
    <3> QED
      BY <2>3, <3>2, <3>3 DEF PurgeRight, AtRun
  <2> QED
    BY <1>1, <1>3, <1>4, <2>2, <2>3, <2>5, HarmlessMove, PurgeGoesOn
<1> QED
  BY <1>5, <1>6

(* The purge goes on with the same root. *)
SameRoot ==
    /\ UNCHANGED tables /\ pm'.roots = pm.roots /\ pm'.root = pm.root
    /\ pm'.prefixes = pm.prefixes /\ pm'.keys = pm.keys

LEMMA SameRootFacts ==
    ASSUME PurgeRight, Purging, SameRoot
    PROVE  /\ \A k \in pm'.roots : Doomed(k)'
           /\ Doomed(pm.root)' /\ RunsOf(pm.root)' = RunsOf(pm.root)
           /\ PrefixesOf(pm.root)' = PrefixesOf(pm.root) /\ KeysOf(pm.root)' = KeysOf(pm.root)
<1>1. /\ UNCHANGED <<rows, deleted, projectDeleted, artifacts, inputs>>
      /\ pm'.root = pm.root /\ pm'.roots = pm.roots
  BY TablesStill DEF SameRoot
<1>2. \A k \in pm.roots : Doomed(k)
  BY DEF PurgeRight
<1>3. \A k : Doomed(k)' = Doomed(k)
  BY <1>1 DEF Doomed
<1>4. Doomed(pm.root)
  BY DEF PurgeRight
<1>5. Doomed(pm.root)'
  BY <1>1, <1>4 DEF Doomed
<1> QED
  BY <1>1, <1>2, <1>3, <1>5 DEF RunsOf, PrefixesOf, KeysOf, Exists

LEMMA PurgePrefixesRight ==
    ASSUME StorageRight, PurgePrefixes
    PROVE  StorageRight'
<1>1. /\ pm.at = "prefixes" /\ UNCHANGED <<tables, ex, upload, lock>> /\ (UNCHANGED left \/ Fault)
      /\ UNCHANGED <<stored, workspaces, sessions, records>>
      /\ Emptied(pm.prefixes) \/ PartlyEmptied(pm.prefixes)
      /\ \/ Emptied(pm.prefixes) /\ pm' = [pm EXCEPT !.at = "keys"]
         \/ pm' = NoPurge
  BY DEF PurgePrefixes, Stops, Commands
<1>2. pm \in Command /\ Purging
  BY <1>1, RightFacts DEF PartiesTyped, Purging
<1>3. Spent
  BY <1>1, RightFacts, NothingSpent, SpendsOf DEF Fault
<1>4. PICK k \in Roots : /\ k = pm.root /\ Doomed(k) /\ RunsOf(k) \subseteq Runs
                         /\ PrefixesOf(k) \subseteq artifacts /\ artifacts \subseteq Artifact
  BY <1>2, RootFacts
<1>5. PICK S \in SUBSET Artifact : S = pm.prefixes
  BY <1>2 DEF Command
<1>6. S = PrefixesOf(k)
  BY <1>1, <1>4, <1>5, RightFacts DEF PurgeRight
<1>7. /\ objects' \in [Artifact -> 0..MaxFiles]
      /\ \A a \in Artifact \ S : objects'[a] = objects[a]
      /\ Emptied(S) => \A a \in S : objects'[a] = 0
  BY <1>1, <1>5, RightFacts, Empties
<1>8. \A a \in S : projectDeleted \/ deleted[rows[a[1]].conv]
  BY <1>4, <1>6 DEF PrefixesOf, RunsOf, Doomed
<1>9. ASSUME pm' \in Command
      PROVE  CommandMove
  <2>1. \A a \in artifacts : \/ objects'[a] = objects[a]
                             \/ projectDeleted \/ deleted[rows[a[1]].conv]
    BY <1>4, <1>7, <1>8
  <2>2. lock' \in {"free", "publisher", "scanner"}
    BY <1>1, RightFacts DEF PartiesTyped
  <2> QED
    BY <1>1, <1>3, <1>7, <1>9, <2>1, <2>2 DEF CommandMove
<1>10. CASE pm' = NoPurge
  BY <1>1, <1>9, <1>10, PurgeStopped, StoppedRight
<1>11. CASE Emptied(pm.prefixes) /\ pm' = [pm EXCEPT !.at = "keys"]
  <2>1. /\ pm' \in Command /\ pm'.at = "keys" /\ pm'.runs = pm.runs /\ SameRoot
    BY <1>1, <1>2, <1>11 DEF Command, PmAt, SameRoot
  <2>2. /\ \A j \in pm'.roots : Doomed(j)'
        /\ Doomed(pm.root)' /\ RunsOf(pm.root)' = RunsOf(pm.root)
        /\ PrefixesOf(pm.root)' = PrefixesOf(pm.root) /\ KeysOf(pm.root)' = KeysOf(pm.root)
    BY <1>2, <2>1, RightFacts, SameRootFacts
  <2>3. pm.keys = KeysOf(pm.root) /\ pm.runs = RunsOf(pm.root)
    BY <1>1, RightFacts DEF PurgeRight
  <2>4. \A a \in PrefixesOf(pm.root) : objects'[a] = 0
    BY <1>4, <1>5, <1>6, <1>7, <1>11
  <2>5. PurgeRight'
    BY <2>1, <2>2, <2>3, <2>4 DEF PurgeRight, AtRun, SameRoot
  <2> QED
    BY <1>1, <1>9, <2>1, <2>5, PurgeGoesOn
<1> QED
  BY <1>1, <1>10, <1>11

LEMMA PurgeKeysRight ==
    ASSUME StorageRight, PurgeKeys
    PROVE  StorageRight'
<1>1. /\ pm.at = "keys" /\ UNCHANGED <<tables, ex, upload, lock>> /\ (UNCHANGED left \/ Fault)
      /\ UNCHANGED <<objects, workspaces, sessions, records>>
      /\ stored' \subseteq stored /\ stored \ stored' \subseteq pm.keys
      /\ \/ stored' = stored \ pm.keys /\ pm' = [pm EXCEPT !.at = "runs"]
         \/ pm' = NoPurge
  BY DEF PurgeKeys, Stops, Commands
<1>2. pm \in Command /\ Purging
  BY <1>1, RightFacts DEF PartiesTyped, Purging
<1>3. Spent
  BY <1>1, RightFacts, NothingSpent, SpendsOf DEF Fault
<1>4. pm.keys = KeysOf(pm.root) /\ pm.runs = RunsOf(pm.root)
  BY <1>1, RightFacts DEF PurgeRight
<1>5. \A i \in stored \ stored' : i \in inputs /\ projectDeleted
  BY <1>1, <1>2, <1>4, RightFacts DEF KeysOf, PurgeRight, Doomed
<1>6. ASSUME pm' \in Command
      PROVE  CommandMove
  BY <1>1, <1>3, <1>5, <1>6, RightFacts DEF CommandMove, ThingsTyped, PartiesTyped
<1>7. CASE pm' = NoPurge
  BY <1>1, <1>6, <1>7, PurgeStopped, StoppedRight
<1>8. CASE stored' = stored \ pm.keys /\ pm' = [pm EXCEPT !.at = "runs"]
  <2>1. /\ pm' \in Command /\ pm'.at = "runs" /\ pm'.runs = pm.runs /\ SameRoot
    BY <1>1, <1>2, <1>8 DEF Command, PmAt, SameRoot
  <2>2. /\ \A j \in pm'.roots : Doomed(j)'
        /\ Doomed(pm.root)' /\ RunsOf(pm.root)' = RunsOf(pm.root)
        /\ PrefixesOf(pm.root)' = PrefixesOf(pm.root) /\ KeysOf(pm.root)' = KeysOf(pm.root)
    BY <1>2, <2>1, RightFacts, SameRootFacts
  <2>3. \A a \in PrefixesOf(pm.root) : objects'[a] = 0
    BY <1>1, <1>2, RightFacts DEF PurgeRight
  <2>4. KeysOf(pm.root) \cap stored' = {}
    BY <1>4, <1>8
  <2>5. Pending' = pm.runs
    BY <2>1 DEF Pending, AtRun
  <2>6. PurgeRight'
    BY <1>4, <2>1, <2>2, <2>3, <2>4, <2>5 DEF PurgeRight, AtRun, SameRoot
  <2> QED
    BY <1>1, <1>6, <2>1, <2>6, PurgeGoesOn
<1> QED
  BY <1>1, <1>7, <1>8

(* What has been cleared stays cleared as long as the command goes on with *)
(* the runs of its root.                                                   *)
LEMMA RunsGoOn ==
    ASSUME PurgeRight, pm.at = "runs" \/ AtRun, SameRoot,
           UNCHANGED <<objects, stored>>, workspaces' \subseteq workspaces,
           sessions' \subseteq sessions, records' \subseteq records,
           pm'.at \in {"runs", "session", "workspace", "record"},
           pm'.runs \subseteq pm.runs,
           \A r \in Pending \ Pending' : Cleared(r)',
           AtRun' => pm'.run \in RunsOf(pm.root),
           pm'.at \in {"workspace", "record"} => pm'.run \notin sessions',
           pm'.at = "record" => pm'.run \notin workspaces'
    PROVE  PurgeRight'
<1>1. Purging /\ pm.at # "prefixes"
  BY DEF Purging, AtRun
<1>2. /\ \A k \in pm'.roots : Doomed(k)'
      /\ Doomed(pm.root)' /\ RunsOf(pm.root)' = RunsOf(pm.root)
      /\ PrefixesOf(pm.root)' = PrefixesOf(pm.root) /\ KeysOf(pm.root)' = KeysOf(pm.root)
  BY <1>1, SameRootFacts
<1>3. /\ \A a \in PrefixesOf(pm.root) : objects'[a] = 0
      /\ KeysOf(pm.root) \cap stored' = {}
      /\ \A r \in RunsOf(pm.root) \ Pending : Cleared(r)
      /\ pm.runs \subseteq RunsOf(pm.root)
  BY <1>1 DEF PurgeRight
<1>4. \A r : Cleared(r) => Cleared(r)'
  BY DEF Cleared
<1>5. \A r \in RunsOf(pm.root) \ Pending' : Cleared(r)'
  BY <1>3, <1>4
<1>6. pm'.root = pm.root
  BY DEF SameRoot
<1> QED
  BY <1>2, <1>3, <1>5, <1>6 DEF PurgeRight, AtRun

LEMMA PurgeRunRight ==
    ASSUME StorageRight, PurgeRun
    PROVE  StorageRight'
<1>1. PICK r \in pm.runs :
          /\ pm.at = "runs" /\ UNCHANGED <<tables, ex, upload, lock>> /\ (UNCHANGED left \/ Fault)
          /\ UNCHANGED <<objects, stored, workspaces, sessions, records>>
          /\ \/ pm' = [pm EXCEPT !.run = r, !.runs = @ \ {r},
                                 !.at = IF rows[r].ref THEN "session" ELSE "workspace"]
             \/ pm' = NoPurge
  BY DEF PurgeRun, Stops, Commands, things
<1>2. pm \in Command /\ Purging /\ ~AtRun
  BY <1>1, RightFacts DEF PartiesTyped, Purging, AtRun
<1>3. Spent
  BY <1>1, RightFacts, NothingSpent, SpendsOf DEF Fault
<1>4. lock' \in {"free", "publisher", "scanner"}
  BY <1>1, RightFacts DEF PartiesTyped
<1>5. r \in RunsOf(pm.root) /\ r \in Runs
  BY <1>2, RootFacts
<1>6. CASE pm' = NoPurge
  BY <1>1, <1>3, <1>4, <1>6, PurgeStopped, HarmlessMove, StoppedRight
<1>7. CASE pm' # NoPurge
  <2>1. PICK at \in {"session", "workspace"} :
            /\ pm' = [pm EXCEPT !.run = r, !.runs = @ \ {r}, !.at = at]
            /\ at = "workspace" => ~rows[r].ref
    BY <1>1, <1>7
  <2>2. pm' \in Command
    BY <1>2, <1>5, <2>1 DEF Command, PmAt
  <2>3. pm'.at = at /\ pm'.run = r /\ pm'.runs = pm.runs \ {r} /\ SameRoot
    BY <1>1, <1>2, <2>1 DEF Command, SameRoot
  <2>4. Pending = pm.runs /\ Pending' = (pm.runs \ {r}) \cup {r}
    BY <1>2, <2>3 DEF Pending, AtRun
  <2>5. at = "workspace" => r \notin sessions
    BY <2>1, RightFacts DEF RuntimeRight
  <2>6. pm'.runs \subseteq pm.runs
    BY <2>3
  <2>7. PurgeRight'
    BY <1>1, <1>5, <2>3, <2>4, <2>5, <2>6, RightFacts, RunsGoOn
  <2> QED
    BY <1>1, <1>3, <1>4, <2>2, <2>3, <2>7, HarmlessMove, PurgeGoesOn
<1> QED
  BY <1>6, <1>7

(* The run the command is at. *)
LEMMA AtRunFacts ==
    ASSUME StorageRight, AtRun
    PROVE  \E r \in Runs : /\ r = pm.run /\ r \in RunsOf(pm.root) /\ Settled(r)
                           /\ pm \in Command /\ Pending = pm.runs \cup {r}
                           /\ pm.at \in {"workspace", "record"} => r \notin sessions
                           /\ pm.at = "record" => r \notin workspaces
<1>1. Purging /\ pm.run \in RunsOf(pm.root)
  BY RightFacts DEF AtRun, Purging, PurgeRight
<1>2. pm.run \in Runs /\ Settled(pm.run)
  BY <1>1, RootFacts
<1>3. /\ pm.at \in {"workspace", "record"} => pm.run \notin sessions
      /\ pm.at = "record" => pm.run \notin workspaces
  BY RightFacts DEF PurgeRight
<1> QED
  BY <1>1, <1>2, <1>3, RightFacts DEF Pending, PartiesTyped

(* One of the calls for a run, after which the command is at another of    *)
(* them or done with the run.                                              *)
LEMMA RunCallRight ==
    ASSUME StorageRight, AtRun, UNCHANGED <<tables, ex, upload, lock, objects, stored>>, Spent,
           workspaces' \subseteq workspaces, sessions' \subseteq sessions,
           records' \subseteq records,
           NEW at \in {"runs", "workspace", "record"},
           pm' = [pm EXCEPT !.at = at] \/ pm' = NoPurge,
           pm' # NoPurge =>
               /\ pm.run \notin sessions' /\ (at \in {"runs", "record"} => pm.run \notin workspaces')
               /\ at = "runs" => pm.run \notin records'
    PROVE  StorageRight'
<1>1. PICK r \in Runs : /\ r = pm.run /\ r \in RunsOf(pm.root) /\ pm \in Command
                        /\ Pending = pm.runs \cup {r}
  BY AtRunFacts
<1>2. lock' \in {"free", "publisher", "scanner"}
  BY RightFacts DEF PartiesTyped
<1>3. CASE pm' = NoPurge
  BY <1>2, <1>3, PurgeStopped, HarmlessMove, StoppedRight
<1>4. CASE pm' # NoPurge
  <2>1. /\ pm' \in Command /\ pm'.at = at /\ pm'.run = r /\ pm'.runs = pm.runs /\ SameRoot
    BY <1>1, <1>4 DEF Command, PmAt, SameRoot
  <2>2. Pending' = (IF at = "runs" THEN pm.runs ELSE pm.runs \cup {r})
    BY <2>1 DEF Pending, AtRun
  <2>3. \A q \in Pending \ Pending' : Cleared(q)'
    BY <1>1, <1>4, <2>2 DEF Cleared
  <2>4. PurgeRight'
    BY <1>1, <1>4, <2>1, <2>3, RightFacts, RunsGoOn
  <2> QED
    BY <1>2, <2>1, <2>4, HarmlessMove, PurgeGoesOn
<1> QED
  BY <1>3, <1>4

LEMMA PurgeSessionRight ==
    ASSUME StorageRight, PurgeSession
    PROVE  StorageRight'
<1>1. /\ pm.at = "session" /\ UNCHANGED <<tables, ex, upload, lock>> /\ (UNCHANGED left \/ Fault)
      /\ UNCHANGED <<objects, stored, workspaces, records>>
      /\ \/ /\ sessions' = sessions \ {rows[pm.run].candidate}
            /\ pm' = [pm EXCEPT !.at = "workspace"]
         \/ pm' = NoPurge /\ sessions' \subseteq sessions
  BY DEF PurgeSession, Stops, Commands
<1>2. PICK r \in Runs : r = pm.run /\ Settled(r)
  BY <1>1, AtRunFacts DEF AtRun
<1>3. Spent
  BY <1>1, RightFacts, NothingSpent, SpendsOf DEF Fault
<1>4. pm.run \notin sessions \ {rows[pm.run].candidate}
  <2>1. r \in sessions => rows[r].status = "succeeded"
    BY <1>2, RightFacts DEF RuntimeRight
  <2>2. rows[r].status = "succeeded" => rows[r].candidate = r
    BY RightFacts, RowFacts DEF Shaped
  <2> QED
    BY <1>2, <2>1, <2>2
<1>5. sessions' \subseteq sessions /\ (pm' # NoPurge => pm.run \notin sessions')
  BY <1>1, <1>4
<1>6. pm' = [pm EXCEPT !.at = "workspace"] \/ pm' = NoPurge
  BY <1>1
<1> QED
  BY <1>1, <1>3, <1>5, <1>6, RunCallRight DEF AtRun

LEMMA PurgeWorkspaceRight ==
    ASSUME StorageRight, PurgeWorkspace
    PROVE  StorageRight'
<1>1. PICK at \in {"runs", "record"} :
          /\ pm.at = "workspace" /\ UNCHANGED <<tables, ex, upload, lock>>
          /\ UNCHANGED left \/ Fault
          /\ UNCHANGED <<objects, stored, sessions, records>>
          /\ at = "runs" => ~rows[pm.run].ref
          /\ \/ workspaces' = workspaces \ {pm.run} /\ pm' = [pm EXCEPT !.at = at]
             \/ pm' = NoPurge /\ UNCHANGED workspaces
  BY DEF PurgeWorkspace, Stops, Commands
<1>2. PICK r \in Runs : r = pm.run /\ r \notin sessions
  BY <1>1, AtRunFacts DEF AtRun
<1>3. Spent
  BY <1>1, RightFacts, NothingSpent, SpendsOf DEF Fault
<1>4. at = "runs" => r \notin records
  BY <1>1, <1>2, RightFacts DEF RuntimeRight
<1>5. workspaces' \subseteq workspaces
  BY <1>1
<1>6. pm' # NoPurge => pm.run \notin workspaces'
  BY <1>1
<1>7. pm' = [pm EXCEPT !.at = at] \/ pm' = NoPurge
  BY <1>1
<1> QED
  BY <1>1, <1>2, <1>3, <1>4, <1>5, <1>6, <1>7, RunCallRight DEF AtRun

LEMMA PurgeRecordRight ==
    ASSUME StorageRight, PurgeRecord
    PROVE  StorageRight'
<1>1. /\ pm.at = "record" /\ UNCHANGED <<tables, ex, upload, lock>> /\ (UNCHANGED left \/ Fault)
      /\ UNCHANGED <<objects, stored, workspaces, sessions>>
      /\ \/ records' = records \ {pm.run} /\ pm' = [pm EXCEPT !.at = "runs"]
         \/ pm' = NoPurge /\ records' \in {records, records \ {pm.run}}
  BY DEF PurgeRecord, Stops, Commands
<1>2. PICK r \in Runs : r = pm.run /\ r \notin sessions /\ r \notin workspaces
  BY <1>1, AtRunFacts DEF AtRun
<1>3. Spent
  BY <1>1, RightFacts, NothingSpent, SpendsOf DEF Fault
<1>4. records' \subseteq records
  BY <1>1
<1>5. pm' # NoPurge => pm.run \notin records'
  BY <1>1
<1>6. pm' = [pm EXCEPT !.at = "runs"] \/ pm' = NoPurge
  BY <1>1
<1> QED
  BY <1>1, <1>2, <1>3, <1>4, <1>5, <1>6, RunCallRight DEF AtRun

-----------------------------------------------------------------------------
(* Hard deletion: by then nothing of the root is left but its rows, and    *)
(* none of its runs is at work.                                            *)

LEMMA ForgetsFacts ==
    ASSUME StorageRight, pm.at = "runs", pm.runs = {}, NEW k \in Roots, k = pm.root,
           Eligible(k), Forgets(k)
    PROVE  /\ \A r \in RunsOf(k) : r \in Runs /\ Exists(r) /\ Settled(r) /\ Cleared(r)
           /\ \A r \in RunsOf(k) : rows'[r] = NoRow
           /\ \A r \in Runs \ RunsOf(k) : rows'[r] = rows[r]
           /\ rows' \in [Runs -> Row]
           /\ head' \in [Conversations -> Sessions]
           /\ artifacts' = {a \in artifacts : a[1] \notin RunsOf(k)}
           /\ inputs' = inputs \ KeysOf(k)
           /\ gone' = gone \cup (IF k = Project THEN Roots ELSE {k})
           /\ UNCHANGED <<deleted, projectDeleted>>
           /\ Doomed(k) /\ KeysOf(k) \cap stored = {}
           /\ \A a \in PrefixesOf(k) : objects[a] = 0
<1>1. Purging /\ Pending = {} /\ ~AtRun
  BY DEF Purging, Pending, AtRun
<1>2. \A r \in RunsOf(k) : r \in Runs /\ Exists(r) /\ Settled(r)
  BY <1>1, RootFacts
<1>3. /\ \A r \in RunsOf(k) : Cleared(r)
      /\ KeysOf(k) \cap stored = {} /\ \A a \in PrefixesOf(k) : objects[a] = 0
  BY <1>1, RightFacts DEF PurgeRight
<1>4. rows \in [Runs -> Row] /\ head \in [Conversations -> Sessions]
  BY RightFacts DEF StoreBase, StoreTypeOK
<1>5. rows' = [r \in Runs |-> IF r \in RunsOf(k) THEN NoRow ELSE rows[r]]
  BY DEF Forgets
<1>6. rows' \in [Runs -> Row]
  BY <1>4, <1>5, NoRowType
<1>7. head' \in [Conversations -> Sessions]
  BY <1>4 DEF Forgets, Sessions
<1>8. Doomed(k)
  BY DEF Eligible, Doomed
<1> QED
  BY <1>2, <1>3, <1>5, <1>6, <1>7, <1>8 DEF Forgets

LEMMA ForgetsRows ==
    ASSUME StorageRight, pm.at = "runs", pm.runs = {}, NEW k \in Roots, k = pm.root,
           Eligible(k), Forgets(k)
    PROVE  RowsRight' /\ TablesTyped'
<1>1. /\ \A r \in RunsOf(k) : r \in Runs /\ rows'[r] = NoRow
      /\ \A r \in Runs \ RunsOf(k) : rows'[r] = rows[r]
      /\ rows' \in [Runs -> Row] /\ head' \in [Conversations -> Sessions]
      /\ artifacts' = {a \in artifacts : a[1] \notin RunsOf(k)}
      /\ inputs' = inputs \ KeysOf(k)
      /\ gone' = gone \cup (IF k = Project THEN Roots ELSE {k})
      /\ UNCHANGED <<deleted, projectDeleted>>
  BY ForgetsFacts
<1>2. /\ RowShape /\ deleted \in [Conversations -> BOOLEAN] /\ gone \subseteq Roots
      /\ artifacts \subseteq Artifact /\ RowsRight
  BY RightFacts DEF StoreBase, StoreTypeOK, TablesTyped
<1>3. /\ NoRow.status = "none" /\ NoRow.conv = NoConversation /\ Shaped(NoRow, NoRow.candidate)
      /\ \A r \in Runs : Shaped(NoRow, r)
  BY DEF NoRow, Shaped, Terminal
<1>4. StoreBase'
  <2>1. ASSUME NEW r \in Runs
        PROVE  Shaped(rows'[r], r)
    BY <1>1, <1>2, <1>3 DEF RowShape
  <2> QED
    BY <1>1, <1>2, <2>1 DEF StoreBase, StoreTypeOK, RowShape, Shaped
<1>5. DeletedQuiescent'
  <2>1. SUFFICES ASSUME NEW c \in Conversations, NEW r \in Runs, deleted'[c], rows'[r].conv = c
                 PROVE  rows'[r].status \notin {"queued", "running"} /\ rows'[r].finalized
    BY DEF DeletedQuiescent
  <2>2. r \notin RunsOf(k)
    BY <1>1, <1>3, <2>1, ConversationsAssumption
  <2> QED
    BY <1>1, <1>2, <2>1, <2>2 DEF RowsRight, DeletedQuiescent
<1>6. ASSUME projectDeleted', NEW r \in Runs, Exists(r)'
      PROVE  Settled(r)'
  <2>1. r \notin RunsOf(k)
    BY <1>1, <1>3, <1>6 DEF Exists
  <2> QED
    BY <1>1, <1>2, <1>6, <2>1 DEF RowsRight, Exists, Settled
<1>7. ASSUME NEW r \in Runs
      PROVE  rows'[r].conv \notin gone'
  <2>1. NoConversation \notin Roots
    BY ProjectAssumption, ConversationsAssumption DEF Roots
  <2>2. CASE r \in RunsOf(k)
    BY <1>1, <1>2, <1>3, <2>1, <2>2
  <2>3. CASE r \notin RunsOf(k) /\ Exists(r)
    <3>1. k # Project /\ rows[r].conv # k
      BY <2>3 DEF RunsOf
    <3> QED
      BY <1>1, <1>2, <2>3, <3>1 DEF RowsRight
  <2>4. CASE r \notin RunsOf(k) /\ ~Exists(r)
    <3>1. rows[r].conv = NoConversation
      BY <1>2, <2>4 DEF RowShape, Shaped, Exists
    <3> QED
      BY <1>1, <1>2, <2>1, <2>4, <3>1
  <2> QED
    BY <2>2, <2>3, <2>4
<1>8. ASSUME NEW a \in artifacts'
      PROVE  rows'[a[1]].status = "succeeded"
  <2>1. a \in artifacts /\ a[1] \notin RunsOf(k) /\ a[1] \in Runs
    BY <1>1, <1>2, ArtifactOf
  <2> QED
    BY <1>1, <1>2, <2>1 DEF RowsRight
<1>9. TablesTyped'
  BY <1>1, RightFacts DEF TablesTyped
<1> QED
  BY <1>4, <1>5, <1>6, <1>7, <1>8, <1>9 DEF RowsRight

LEMMA HardDeleteRight ==
    ASSUME StorageRight, HardDelete
    PROVE  StorageRight'
<1>1. /\ pm.at = "runs" /\ pm.runs = {} /\ (UNCHANGED left \/ Fault)
      /\ UNCHANGED <<ex, upload, lock, objects, stored, workspaces, sessions, records>>
      /\ \/ Eligible(pm.root) /\ Forgets(pm.root)
            /\ pm' = [NoPurge EXCEPT !.at = "root", !.roots = pm.roots]
         \/ pm' = NoPurge /\ UNCHANGED tables
  BY DEF HardDelete, Stops, Commands, things
<1>2. pm \in Command
  BY RightFacts DEF PartiesTyped
<1>3. Spent
  BY <1>1, RightFacts, NothingSpent, SpendsOf DEF Fault
<1>4. lock' \in {"free", "publisher", "scanner"}
  BY <1>1, RightFacts DEF PartiesTyped
<1>5. CASE pm' = NoPurge /\ UNCHANGED tables
  BY <1>1, <1>3, <1>4, <1>5, PurgeStopped, HarmlessMove, StoppedRight
<1>6. CASE /\ Eligible(pm.root) /\ Forgets(pm.root)
           /\ pm' = [NoPurge EXCEPT !.at = "root", !.roots = pm.roots]
  <2>1. PICK k \in Roots : k = pm.root
    BY <1>2 DEF Command
  <2>2. Eligible(k) /\ Forgets(k)
    BY <1>6, <2>1
  <2>3. /\ \A r \in RunsOf(k) : r \in Runs /\ Exists(r) /\ Settled(r) /\ Cleared(r)
        /\ \A r \in Runs \ RunsOf(k) : rows'[r] = rows[r]
        /\ artifacts' = {a \in artifacts : a[1] \notin RunsOf(k)}
        /\ inputs' = inputs \ KeysOf(k)
        /\ UNCHANGED <<deleted, projectDeleted>> /\ Doomed(k)
    BY <1>1, <2>1, <2>2, ForgetsFacts
  <2>4. RowsRight' /\ TablesTyped'
    BY <1>1, <2>1, <2>2, ForgetsRows
  <2>5. pm' \in Command /\ pm'.at = "root" /\ pm'.roots = pm.roots
    BY <1>2, <1>6, PurgeStopped DEF Command, PmAt
  <2>6. ThingsTyped' /\ PartiesTyped'
    BY <1>1, <1>3, <1>4, <2>5, RightFacts DEF ThingsTyped, PartiesTyped, Spent
  <2>7. ExecutorRight'
    <3>1. SUFFICES ASSUME ex.at # "idle"
                   PROVE  ExecutorRight'
      BY <1>1 DEF ExecutorRight
    <3>2. PICK r \in Runs : /\ r = ex.run /\ InSlot(r) /\ ~Settled(r)
      BY <3>1, AtWork
    <3>3. Exists(r)
      BY <3>2 DEF InSlot, Exists
    <3>4. r \notin RunsOf(k) /\ k # Project
      BY <2>3, <3>2, <3>3 DEF RunsOf
    <3>5. rows'[r] = rows[r] /\ inputs' = inputs
      BY <2>3, <3>4 DEF KeysOf
    <3> QED
      BY <1>1, <3>2, <3>5, RightFacts DEF ExecutorRight, InSlot
  <2>8. RuntimeRight'
    <3>1. ASSUME NEW r \in sessions \cup records
          PROVE  rows'[r] = rows[r]
      <4>1. r \in Runs /\ r \notin RunsOf(k)
        BY <2>3, RightFacts DEF ThingsTyped, Cleared
      <4> QED
        BY <2>3, <4>1
    <3> QED
      BY <1>1, <3>1, RightFacts DEF RuntimeRight, Settled
  <2>9. UploadsRight' /\ InputsRight'
    <3>1. inputs' \subseteq inputs
      BY <2>3
    <3>2. UploadsRight'
      BY <1>1, <3>1, RightFacts DEF UploadsRight
    <3>3. InputsRight'
      BY <1>1, <1>3, <2>3, <3>1, RightFacts DEF InputsRight, Spent
    <3> QED
      BY <3>2, <3>3
  <2>10. LockRight'
    BY <1>1, <1>3, <2>5, RightFacts, LockUntouched
  <2>11. PurgeRight'
    <3>1. \A j \in pm.roots : Doomed(j)
      BY RightFacts DEF PurgeRight
    <3>2. \A j : Doomed(j)' = Doomed(j)
      BY <2>3 DEF Doomed
    <3> QED
      BY <2>5, <3>1, <3>2 DEF PurgeRight, Purging, AtRun
  <2>12. ArtifactsIntact'
    <3>1. ASSUME NEW a \in artifacts'
          PROVE  a \in artifacts /\ rows'[a[1]] = rows[a[1]]
      <4>1. a \in artifacts /\ a[1] \notin RunsOf(k) /\ a[1] \in Runs
        BY <2>3, RightFacts, ArtifactOf DEF TablesTyped
      <4> QED
        BY <2>3, <4>1
    <3> QED
      BY <1>1, <1>3, <2>3, <3>1, RightFacts DEF ArtifactsIntact, Spent
  <2> QED
    BY <2>4, <2>6, <2>7, <2>8, <2>9, <2>10, <2>11, <2>12 DEF StorageRight
<1> QED
  BY <1>1, <1>5, <1>6

-----------------------------------------------------------------------------
LEMMA StorageInit == Init => StorageRight
<1> SUFFICES ASSUME Init
             PROVE  StorageRight
  OBVIOUS
<1>1. /\ StoreInit /\ rows = [r \in Runs |-> NoRow]
      /\ projectDeleted = FALSE /\ gone = {} /\ artifacts = {} /\ inputs = {}
      /\ objects = [a \in Artifact |-> 0] /\ stored = {}
      /\ workspaces = {} /\ sessions = {} /\ records = {}
      /\ lock = "free" /\ ex = Idle /\ pm = NoPurge
      /\ upload = [i \in Inputs |-> "new"]
      /\ left = [faults |-> MaxFaults, stops |-> MaxStops, losses |-> MaxLosses,
                 all |-> MaxFailures]
  BY DEF Init, StoreInit
<1>2. StoreBase
  BY <1>1, StoreBaseInit
<1>3. 0 \in 0..MaxFiles /\ MaxLosses \in 0..MaxLosses
  BY StorageBounds
<1>4. TablesTyped /\ ThingsTyped
  BY <1>1, <1>3 DEF TablesTyped, ThingsTyped
<1>5. PartiesTyped
  BY <1>1, <1>3, IdleTyped, PurgeStopped, StorageBounds DEF PartiesTyped, UploadAt, Budget
<1>6. RowsRight
  BY <1>1, <1>2, ConversationsAssumption DEF RowsRight, DeletedQuiescent, NoRow
<1>7. ExecutorRight /\ RuntimeRight /\ UploadsRight
  BY <1>1, IdleTyped DEF ExecutorRight, RuntimeRight, UploadsRight
<1>8. InputsRight /\ LockRight
  BY <1>1, IdleTyped, PurgeStopped DEF InputsRight, LockRight
<1>9. PurgeRight /\ ArtifactsIntact
  BY <1>1, PurgeStopped DEF PurgeRight, Purging, AtRun, ArtifactsIntact
<1> QED
  BY <1>4, <1>5, <1>6, <1>7, <1>8, <1>9 DEF StorageRight

LEMMA StillRight ==
    ASSUME StorageRight, UNCHANGED vars
    PROVE  StorageRight'
<1>1. /\ UNCHANGED <<tables, ex, upload, left, lock, pm>>
      /\ UNCHANGED <<objects, stored, workspaces, sessions, records>>
  BY DEF vars, things
<1>2. /\ UNCHANGED <<storeVars, rows, head, deleted>>
      /\ UNCHANGED <<projectDeleted, gone, artifacts, inputs>>
  BY <1>1, TablesStill
<1>3. Spent
  BY <1>1, RightFacts, NothingSpent
<1>4. pm' \in Command /\ lock' \in {"free", "publisher", "scanner"}
  BY <1>1, RightFacts DEF PartiesTyped
<1>5. LockRight'
  BY <1>1, <1>2, RightFacts DEF LockRight, Undisturbed
<1>6. PurgeRight'
  <2>1. \A r : Cleared(r)' = Cleared(r)
    BY <1>1 DEF Cleared
  <2>2. Doomed(pm.root)' = Doomed(pm.root) /\ RunsOf(pm.root)' = RunsOf(pm.root)
        /\ PrefixesOf(pm.root)' = PrefixesOf(pm.root) /\ KeysOf(pm.root)' = KeysOf(pm.root)
    BY <1>1, <1>2 DEF Doomed, RunsOf, PrefixesOf, KeysOf, Exists
  <2>3. \A k : Doomed(k)' = Doomed(k)
    BY <1>2 DEF Doomed
  <2>4. Purging' = Purging /\ AtRun' = AtRun /\ Pending' = Pending
    BY <1>1 DEF Purging, AtRun, Pending
  <2> QED
    BY <1>1, <2>1, <2>2, <2>3, <2>4, RightFacts DEF PurgeRight
<1> QED
  BY <1>1, <1>3, <1>4, <1>5, <1>6, HarmlessMove, CommandRight

LEMMA StorageStep ==
    ASSUME StorageRight, [Next]_vars
    PROVE  StorageRight'
<1>1. CASE UserNext
  BY <1>1, SubmitRight, CancelsQueuedRight, RemoveRight, DeleteProjectRight DEF UserNext
<1>2. CASE ExecutionNext
  BY <1>2, ClaimRight, ReconcileRight, PrepareRight, TransactionsRight, AgentRunsRight,
     LockPublicationRight, PutArtifactRight, WithdrawRight, CommitRight, ReleaseRight,
     FailRight, FinishRight DEF ExecutionNext
<1>3. CASE MaintenanceNext
  BY <1>3, ScanRight, CheckRight, DeleteOrphanRight, PurgeRootRight, PurgePrefixesRight,
     PurgeKeysRight, PurgeRunRight, PurgeSessionRight, PurgeWorkspaceRight, PurgeRecordRight,
     HardDeleteRight DEF MaintenanceNext
<1>4. CASE \E i \in Inputs : UploadNext(i)
  BY <1>4, UploadRight
<1>5. CASE CommandKilled \/ ControlPlaneCrash \/ LoseLock
  BY <1>5, CommandKilledRight, CrashRight, LoseLockRight
<1> QED
  BY <1>1, <1>2, <1>3, <1>4, <1>5, StillRight DEF Next

LEMMA StorageCorrect == Spec => []StorageRight
  BY StorageInit, StorageStep, PTL DEF Spec

(* The tables, the stores and the parties keep to their values; nothing    *)
(* that is gone has a row left, and only succeeded runs have artifacts.    *)
THEOREM StorageTypeCorrect == Spec => []TypeOK
<1>1. StorageRight => TypeOK
  BY RightFacts
     DEF TypeOK, StoreBase, StoreTypeOK, TablesTyped, ThingsTyped, PartiesTyped, RowsRight,
         UploadAt
<1> QED
  BY <1>1, StorageCorrect, PTL

(* Every artifact that users can see has all its objects, whatever the     *)
(* orphan scan, failed publications, purges and crashes do meanwhile, as   *)
(* long as no lock session is lost.                                        *)
THEOREM ArtifactsIntactCorrect == Spec => []ArtifactsIntact
<1>1. StorageRight => ArtifactsIntact
  BY RightFacts
<1> QED
  BY <1>1, StorageCorrect, PTL

(* A live project's inputs and those a claimed run still has to copy have  *)
(* their objects, as long as no acknowledgement of a COMMIT is lost.       *)
THEOREM InputsKeptCorrect == Spec => []InputsKept
<1>1. ASSUME StorageRight, Undisturbed
      PROVE  InputsComplete
  <2>1. ~projectDeleted => inputs \subseteq stored
    BY <1>1, RightFacts DEF InputsRight
  <2>2. ASSUME ex.at = "prepare"
        PROVE  ~projectDeleted /\ ex.needs \subseteq inputs
    <3>1. PICK r \in Runs : r = ex.run /\ InSlot(r) /\ ~Settled(r)
      BY <1>1, <2>2, AtWork
    <3>2. Exists(r)
      BY <3>1 DEF InSlot, Exists
    <3> QED
      BY <1>1, <2>2, <3>1, <3>2, RightFacts DEF RowsRight, ExecutorRight
  <2> QED
    BY <2>1, <2>2 DEF InputsComplete
<1> QED
  BY <1>1, StorageCorrect, PTL DEF InputsKept

-----------------------------------------------------------------------------
(* Rows last. *)

LastRows ==
    /\ \A r \in Runs : Exists(r) /\ ~Exists(r)' =>
          /\ r \notin workspaces \cup sessions \cup records
          /\ \A a \in Of(r) \cap artifacts : objects[a] = 0
    /\ (inputs \ inputs') \cap stored = {}

(* No transaction of the run and conversation stores deletes a row. *)
LEMMA ExistsStays ==
    ASSUME StoreBase, [StoreNext]_storeVars
    PROVE  \A q \in Runs : Exists(q) => Exists(q)'
<1>0. rows \in [Runs -> Row]
  BY DEF StoreBase, StoreTypeOK
<1>1. CASE UNCHANGED storeVars
  BY <1>1 DEF storeVars, Exists
<1>2. ASSUME NEW r \in Runs, NEW c \in Conversations, SubmitMessage(r, c)
     PROVE  \A q \in Runs : Exists(q) => Exists(q)'
  BY <1>0, <1>2 DEF SubmitMessage, NoRow, Exists, Row
<1>3. ASSUME NEW r \in Runs, NEW locked \in SUBSET Runs, ClaimNext(r, locked)
     PROVE  \A q \in Runs : Exists(q) => Exists(q)'
  BY <1>0, <1>3 DEF ClaimNext, Exists, Row
<1>4. ASSUME NEW r \in Runs, RefreshSource(r)
     PROVE  \A q \in Runs : Exists(q) => Exists(q)'
  BY <1>0, <1>4 DEF RefreshSource, Exists, Row
<1>5. ASSUME NEW r \in Runs, BeginSandboxAcquire(r)
     PROVE  \A q \in Runs : Exists(q) => Exists(q)'
  BY <1>0, <1>5 DEF BeginSandboxAcquire, Exists, Row
<1>6. ASSUME NEW r \in Runs, AttachSandboxRef(r)
     PROVE  \A q \in Runs : Exists(q) => Exists(q)'
  BY <1>0, <1>6 DEF AttachSandboxRef, Exists, Row
<1>7. ASSUME NEW r \in Runs, NEW p \in {"preparing", "agent", "publishing"}, SetPhase(r, p)
     PROVE  \A q \in Runs : Exists(q) => Exists(q)'
  BY <1>0, <1>7 DEF SetPhase, Exists, Row
<1>8. ASSUME NEW r \in Runs, RecordAgentFailed(r)
     PROVE  \A q \in Runs : Exists(q) => Exists(q)'
  BY <1>0, <1>8 DEF RecordAgentFailed, Exists, Row
<1>9. ASSUME NEW r \in Runs, NEW s \in {"failed", "cancelled", "interrupted"},
             RecordFailure(r, s)
     PROVE  \A q \in Runs : Exists(q) => Exists(q)'
  BY <1>0, <1>9 DEF RecordFailure, Exists, Row
<1>10. ASSUME NEW r \in Runs, CommitProducts(r)
      PROVE  \A q \in Runs : Exists(q) => Exists(q)'
  BY <1>0, <1>10 DEF CommitProducts, Exists, Row
<1>11. ASSUME NEW r \in Runs, AcknowledgeFinalized(r)
      PROVE  \A q \in Runs : Exists(q) => Exists(q)'
  BY <1>0, <1>11 DEF AcknowledgeFinalized, Exists, Row
<1>12. ASSUME NEW r \in Runs, CancelQueued(r)
      PROVE  \A q \in Runs : Exists(q) => Exists(q)'
  BY <1>0, <1>12 DEF CancelQueued, Exists, Row
<1>13. ASSUME NEW r \in Runs, MarkConsistency(r)
      PROVE  \A q \in Runs : Exists(q) => Exists(q)'
  BY <1>0, <1>13 DEF MarkConsistency, Exists, Row
<1>14. ASSUME NEW c \in Conversations, DeleteConversation(c)
      PROVE  \A q \in Runs : Exists(q) => Exists(q)'
  BY <1>14 DEF DeleteConversation, Exists
<1> QED
  BY <1>1, <1>2, <1>3, <1>4, <1>5, <1>6, <1>7, <1>8, <1>9, <1>10, <1>11, <1>12, <1>13, <1>14,
     StoreCases, Zenon

LEMMA HardDeleteRowsLast ==
    ASSUME StorageRight, HardDelete
    PROVE  LastRows
<1>1. CASE UNCHANGED tables
  BY <1>1, TablesStill DEF LastRows, Exists
<1>2. CASE Eligible(pm.root) /\ Forgets(pm.root)
  <2>1. PICK k \in Roots : k = pm.root
    BY RightFacts DEF PartiesTyped, Command
  <2>2. pm.at = "runs" /\ pm.runs = {} /\ Eligible(k) /\ Forgets(k)
    BY <1>2, <2>1 DEF HardDelete
  <2>3. /\ \A r \in RunsOf(k) : Cleared(r)
        /\ \A r \in Runs \ RunsOf(k) : rows'[r] = rows[r]
        /\ inputs' = inputs \ KeysOf(k) /\ KeysOf(k) \cap stored = {}
        /\ \A a \in PrefixesOf(k) : objects[a] = 0
    BY <2>1, <2>2, ForgetsFacts
  <2>4. ASSUME NEW r \in Runs, Exists(r), ~Exists(r)'
        PROVE  /\ r \notin workspaces \cup sessions \cup records
               /\ \A a \in Of(r) \cap artifacts : objects[a] = 0
    <3>1. r \in RunsOf(k)
      BY <2>3, <2>4 DEF Exists
    <3>2. \A a \in Of(r) \cap artifacts : a \in PrefixesOf(k)
      BY <3>1 DEF Of, PrefixesOf
    <3> QED
      BY <2>3, <3>1, <3>2 DEF Cleared
  <2> QED
    BY <2>3, <2>4 DEF LastRows
<1> QED
  BY <1>1, <1>2 DEF HardDelete, Stops, Commands

(* The user, the uploads and the scheduler only add rows and inputs. *)
Adds == [StoreNext]_storeVars /\ inputs \subseteq inputs'

LEMMA UsersAdd ==
    ASSUME UserNext
    PROVE  Adds
<1>1. ASSUME NEW r \in Runs, NEW c \in Conversations, Submit(r, c)
      PROVE  Adds
  BY <1>1 DEF Submit, Adds, StoreNext, RunTx
<1>2. ASSUME NEW r \in Runs, CancelsQueued(r)
      PROVE  Adds
  BY <1>2 DEF CancelsQueued, Adds, StoreNext, RunTx
<1>3. ASSUME NEW c \in Conversations, RemoveConversation(c)
      PROVE  Adds
  BY <1>3 DEF RemoveConversation, Adds, StoreNext
<1>4. CASE DeleteProject
  BY <1>4 DEF DeleteProject, Adds
<1> QED
  BY <1>1, <1>2, <1>3, <1>4 DEF UserNext

LEMMA UploadsAdd ==
    ASSUME NEW i \in Inputs, UploadNext(i)
    PROVE  Adds
<1>1. UNCHANGED storeVars
  BY DEF UploadNext, BeginUpload, PutInput, SaveInput, CompensateInput, Uploads
<1>2. inputs \subseteq inputs'
  BY DEF UploadNext, BeginUpload, PutInput, SaveInput, CompensateInput
<1> QED
  BY <1>1, <1>2 DEF Adds

LEMMA SchedulerAdds ==
    ASSUME StorageRight, ExecutionNext
    PROVE  Adds
<1>1. UNCHANGED inputs
  BY DEF ExecutionNext, Claim, Reconcile, Prepare, Refresh, Intend, Attach, AgentRuns, Publishing,
         LockPublication, PutArtifact, Withdraw, Commit, Release, Fail, Finish, ExecuteTx,
         ExecuteFails, ExecutesTo
<1>2. ASSUME NEW r \in Runs, Claim(r) \/ Reconcile(r)
      PROVE  [StoreNext]_storeVars
  BY <1>2 DEF Claim, Reconcile, StoreNext, RunTx
<1>3. ASSUME ~\E r \in Runs : Claim(r) \/ Reconcile(r)
      PROVE  [StoreNext]_storeVars
  <2>1. PICK r \in Runs : r = ex.run
    <3>1. ex.at # "idle"
      BY <1>3
      DEF ExecutionNext, Prepare, Refresh, Intend, Attach, AgentRuns, Publishing,
          LockPublication, PutArtifact, Withdraw, Commit, Release, Fail, Finish, ExecuteTx
    <3> QED
      BY <3>1, AtWork
  <2>2. CASE Prepare \/ LockPublication \/ PutArtifact \/ Withdraw \/ Release
    BY <2>2 DEF Prepare, LockPublication, PutArtifact, Withdraw, Release
  <2>3. CASE Refresh \/ Intend \/ Attach \/ Publishing
    <3>1. \/ RefreshSource(r) \/ BeginSandboxAcquire(r) \/ AttachSandboxRef(r)
          \/ SetPhase(r, "publishing") \/ UNCHANGED storeVars
      BY <2>1, <2>3 DEF Refresh, Intend, Attach, Publishing, ExecuteTx
    <3> QED
      BY <3>1 DEF StoreNext, RunTx
  <2>4. CASE AgentRuns \/ Commit \/ Fail \/ Finish
    <3>1. \/ SetPhase(r, "agent") \/ CommitProducts(r) \/ RecordFailure(r, "failed")
          \/ AcknowledgeFinalized(r) \/ UNCHANGED storeVars
      BY <2>1, <2>4 DEF AgentRuns, Commit, Fail, Finish
    <3> QED
      BY <3>1 DEF StoreNext, RunTx
  <2> QED
    BY <1>3, <2>2, <2>3, <2>4 DEF ExecutionNext
<1> QED
  BY <1>1, <1>2, <1>3 DEF Adds

LEMMA RowsLastStep ==
    ASSUME StorageRight, [Next]_vars
    PROVE  LastRows
<1>1. CASE HardDelete
  BY <1>1, HardDeleteRowsLast
<1>2. CASE UNCHANGED tables
  BY <1>2, TablesStill DEF LastRows, Exists
<1>3. CASE UserNext \/ (\E i \in Inputs : UploadNext(i)) \/ ExecutionNext
  <2>1. Adds
    BY <1>3, UsersAdd, UploadsAdd, SchedulerAdds
  <2>2. \A q \in Runs : Exists(q) => Exists(q)'
    BY <2>1, RightFacts, ExistsStays DEF Adds
  <2> QED
    BY <2>1, <2>2 DEF Adds, LastRows
<1>4. CASE MaintenanceNext /\ ~HardDelete
  <2>1. UNCHANGED tables
    BY <1>4
    DEF MaintenanceNext, Preflight, ScanLock, ScanList, DeleteOrphan, ScanEnd, Check, LoadRoots,
        PurgeEnd, PurgeRoot, PurgePrefixes, PurgeKeys, PurgeRun, PurgeSession, PurgeWorkspace,
        PurgeRecord, ScanStops, Stops, Commands
  <2> QED
    BY <1>2, <2>1
<1>5. CASE CommandKilled \/ ControlPlaneCrash \/ LoseLock \/ UNCHANGED vars
  <2>1. UNCHANGED tables
    BY <1>5 DEF CommandKilled, ControlPlaneCrash, LoseLock, Stops, Commands, vars
  <2> QED
    BY <1>2, <2>1
<1> QED
  BY <1>1, <1>3, <1>4, <1>5 DEF Next

(* Rows last: a run's row goes only when the run has no workspace, no      *)
(* session, no record and no object under its artifacts left, and an       *)
(* input's row only when its object is gone.                               *)
THEOREM RowsLastCorrect == Spec => RowsLast
<1>1. StorageRight /\ [Next]_vars =>
         [/\ \A r \in Runs : Exists(r) /\ ~Exists(r)' =>
               /\ r \notin workspaces \cup sessions \cup records
               /\ \A a \in Of(r) \cap artifacts : objects[a] = 0
          /\ (inputs \ inputs') \cap stored = {}]_vars
  BY RowsLastStep DEF LastRows
<1> QED
  BY <1>1, StorageInit, StorageStep, PTL DEF Spec, RowsLast

=============================================================================
