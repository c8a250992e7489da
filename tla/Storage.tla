------------------------------ MODULE Storage ------------------------------
(***************************************************************************)
(* The rows of one project and what they name outside the database: input  *)
(* and artifact objects, run workspaces, Runtime sessions and execution    *)
(* records.  Four parties work on them at once: uploads of inputs, the     *)
(* scheduler that executes runs and publishes their outputs, users who     *)
(* delete, and the purge-deleted command, which removes orphans and then   *)
(* what was deleted.  The run rows are RunStore's; the execution of a run  *)
(* is RunLifecycle's, cut down here to what it leaves in storage.          *)
(***************************************************************************)
EXTENDS RunStore, FiniteSets

CONSTANTS
    Project,       \* the project, as a root of the purge
    Inputs,        \* the input files that may be uploaded
    Backslashed,   \* those with a backslash in their name
    MaxArtifacts,  \* artifacts of a run
    MaxFiles,      \* files of its output tree, copied to each artifact
    MaxFaults,     \* calls that may fail over a behaviour
    MaxStops,      \* crashes of the control plane or of the command
    MaxLosses,     \* lost database connections whose effect is not seen
    MaxFailures    \* all of these together

ASSUME ProjectAssumption == Project \notin Conversations \cup {NoConversation}
ASSUME InputsAssumption == IsFiniteSet(Inputs) /\ Backslashed \subseteq Inputs
ASSUME StorageBounds ==
    /\ MaxArtifacts \in Nat /\ MaxFiles \in Nat \ {0}
    /\ MaxFaults \in Nat /\ MaxStops \in Nat /\ MaxLosses \in Nat /\ MaxFailures \in Nat

VARIABLES
    projectDeleted,  \* projects.deleted_at IS NOT NULL
    gone,            \* roots whose rows are hard-deleted
    artifacts,       \* the artifacts table
    inputs,          \* the input_files table
    objects,         \* [Artifact -> how many objects lie under its prefix]
    stored,          \* inputs whose object is stored
    workspaces,      \* runs that have a workspace directory
    sessions,        \* runs whose session the Runtime holds
    records,         \* runs of which the Runtime holds an execution record
    lock,            \* who holds the artifact-maintenance advisory lock
    ex,              \* the scheduler: where it is, its run and Execute's locals
    upload,          \* [Inputs -> where its upload is]
    pm,              \* the purge-deleted command
    left             \* failures still allowed

tables == <<storeVars, projectDeleted, gone, artifacts, inputs>>
things == <<objects, stored, workspaces, sessions, records>>
vars == <<tables, things, lock, ex, upload, pm, left>>

Artifact == Runs \X (1..MaxArtifacts)
Of(r) == {r} \X (1..MaxArtifacts)
Roots == Conversations \cup {Project}

Idle == [at |-> "idle", run |-> NoRun, needs |-> {}, wanted |-> 0]
NoPurge == [at |-> "idle", orphans |-> {}, roots |-> {}, root |-> Project,
            prefixes |-> {}, keys |-> {}, runs |-> {}, run |-> NoRun]

Init ==
    /\ StoreInit
    /\ projectDeleted = FALSE /\ gone = {}
    /\ artifacts = {} /\ inputs = {}
    /\ objects = [a \in Artifact |-> 0] /\ stored = {}
    /\ workspaces = {} /\ sessions = {} /\ records = {}
    /\ lock = "free"
    /\ ex = Idle /\ pm = NoPurge
    /\ upload = [i \in Inputs |-> "new"]
    /\ left = [faults |-> MaxFaults, stops |-> MaxStops, losses |-> MaxLosses,
               all |-> MaxFailures]

-----------------------------------------------------------------------------
(* Failures. *)

Spends(kind) ==
    /\ left[kind] > 0 /\ left.all > 0
    /\ left' = [left EXCEPT ![kind] = @ - 1, !.all = @ - 1]

Fault == Spends("faults")
Lost == Spends("losses")

(* DeletePrefix lists and deletes one by one, and stops at the first error. *)
Emptied(S) == objects' = [a \in Artifact |-> IF a \in S THEN 0 ELSE objects[a]]
PartlyEmptied(S) ==
    \E rest \in [S -> 0..MaxFiles] :
        /\ \A a \in S : rest[a] <= objects[a]
        /\ objects' = [a \in Artifact |-> IF a \in S THEN rest[a] ELSE objects[a]]

(* AcquirePublicationLock: one database session at a time has the lock; it *)
(* frees its own lock only.                                                *)
Locks(who) == lock = "free" /\ lock' = who
Unlocks(who) == lock' = IF lock = who THEN "free" ELSE lock

-----------------------------------------------------------------------------
(* Submission and logical deletion. *)

(* Ids are fresh: of a run that is to be submitted there is no trace.      *)
Fresh(r) ==
    /\ r \notin workspaces \cup sessions \cup records
    /\ \A a \in Of(r) : objects[a] = 0

Submit(r, c) ==
    /\ ~projectDeleted /\ c \notin gone /\ Fresh(r)
    /\ SubmitMessage(r, c)
    /\ UNCHANGED <<projectDeleted, gone, artifacts, inputs, things, lock, ex, upload, pm, left>>

CancelsQueued(r) ==
    /\ CancelQueued(r)
    /\ UNCHANGED <<projectDeleted, gone, artifacts, inputs, things, lock, ex, upload, pm, left>>

RemoveConversation(c) ==
    /\ ~projectDeleted /\ c \notin gone
    /\ DeleteConversation(c)
    /\ UNCHANGED <<projectDeleted, gone, artifacts, inputs, things, lock, ex, upload, pm, left>>

DeleteProject ==
    /\ ~projectDeleted
    /\ \A c \in Conversations : Quiescent(c)
    /\ projectDeleted' = TRUE
    /\ UNCHANGED <<storeVars, gone, artifacts, inputs, things, lock, ex, upload, pm, left>>

UserNext ==
    \/ \E r \in Runs, c \in Conversations : Submit(r, c)
    \/ \E r \in Runs : CancelsQueued(r)
    \/ \E c \in Conversations : RemoveConversation(c)
    \/ DeleteProject

-----------------------------------------------------------------------------
(* UploadInput: the object first, then the row, and the object deleted     *)
(* again when anything fails.                                              *)

Uploads(i, at) ==
    /\ upload' = [upload EXCEPT ![i] = at]
    /\ UNCHANGED <<storeVars, projectDeleted, gone, artifacts, objects, workspaces, sessions,
                   records, lock, ex, pm>>

BeginUpload(i) ==
    /\ upload[i] = "new" /\ ~projectDeleted
    /\ Uploads(i, "put")
    /\ UNCHANGED <<inputs, stored, left>>

(* The object may turn out to be too large once it is stored. *)
PutInput(i) ==
    /\ upload[i] = "put"
    /\ \/ /\ stored' = stored \cup {i}
          /\ Uploads(i, "save") \/ Uploads(i, "compensate")
          /\ UNCHANGED left
       \/ /\ Fault /\ stored' \in {stored, stored \cup {i}}
          /\ Uploads(i, "compensate")
    /\ UNCHANGED inputs

CanSave == Project \notin gone /\ ~projectDeleted

(* SaveInput, under the project's row lock; of a COMMIT whose answer is    *)
(* lost the caller knows nothing.                                          *)
SaveInput(i) ==
    /\ upload[i] = "save"
    /\ \/ /\ CanSave /\ inputs' = inputs \cup {i}
          /\ Uploads(i, "done") /\ UNCHANGED left
       \/ ~CanSave /\ Uploads(i, "compensate") /\ UNCHANGED <<inputs, left>>
       \/ Fault /\ Uploads(i, "compensate") /\ UNCHANGED inputs
       \/ /\ CanSave /\ Lost /\ inputs' = inputs \cup {i}
          /\ Uploads(i, "compensate")
    /\ UNCHANGED stored

CompensateInput(i) ==
    /\ upload[i] = "compensate"
    /\ \/ stored' = stored \ {i} /\ UNCHANGED left
       \/ Fault /\ UNCHANGED stored
    /\ Uploads(i, "done") /\ UNCHANGED inputs

UploadNext(i) == BeginUpload(i) \/ PutInput(i) \/ SaveInput(i) \/ CompensateInput(i)

-----------------------------------------------------------------------------
(* Execute, up to its publication. *)

ExecutesTo(at) ==
    /\ ex' = [ex EXCEPT !.at = at]
    /\ UNCHANGED <<projectDeleted, gone, inputs, stored, upload, pm>>

(* A call of Execute that fails although nothing refused it. *)
ExecuteFails == Fault /\ ExecutesTo("fail")

(* The next run is claimed; its project's inputs are listed.               *)
Claim(r) ==
    /\ ex.at = "idle" /\ ClaimNext(r, {})
    /\ ex' = [Idle EXCEPT !.at = "prepare", !.run = r, !.needs = inputs]
    /\ UNCHANGED <<projectDeleted, gone, artifacts, inputs, things, lock, upload, pm, left>>

(* Materializer.Prepare makes a new directory and copies every input; what *)
(* it leaves when it fails is kept.                                        *)
Prepare ==
    /\ ex.at = "prepare"
    /\ \/ /\ ex.run \notin workspaces /\ ex.needs \subseteq stored
          /\ workspaces' = workspaces \cup {ex.run}
          /\ ExecutesTo("refresh") /\ UNCHANGED left
       \/ /\ ex.run \in workspaces \/ ~(ex.needs \subseteq stored)
          /\ workspaces' = workspaces \cup {ex.run}
          /\ ExecutesTo("fail") /\ UNCHANGED left
       \/ ExecuteFails /\ workspaces' \in {workspaces, workspaces \cup {ex.run}}
    /\ UNCHANGED <<storeVars, artifacts, objects, sessions, records, lock>>

(* One transaction of Execute on its own row.                              *)
ExecuteTx(from, Tx, to) ==
    /\ ex.at = from
    /\ \/ Tx /\ ExecutesTo(to) /\ UNCHANGED left
       \/ ExecuteFails /\ UNCHANGED storeVars
    /\ UNCHANGED <<artifacts, objects, workspaces, sessions, records, lock>>

Refresh == ExecuteTx("refresh", RefreshSource(ex.run), "intent")
Intend == ExecuteTx("intent", BeginSandboxAcquire(ex.run), "attach")
Attach == ExecuteTx("attach", AttachSandboxRef(ex.run), "agent")
Publishing == ExecuteTx("finished", SetPhase(ex.run, "publishing"), "lock")

(* The Runtime records the execution and the agent opens its session; it   *)
(* may fail.                                                               *)
AgentRuns ==
    /\ ex.at = "agent" /\ SetPhase(ex.run, "agent")
    /\ records' = records \cup {ex.run}
    /\ sessions' = sessions \cup {ex.run}
    /\ ExecutesTo("finished") \/ ExecutesTo("fail")
    /\ UNCHANGED <<artifacts, objects, workspaces, lock, left>>

-----------------------------------------------------------------------------
(* Publication: Publisher.Prepare, CommitProducts, Release. *)

(* Slip: the publisher takes no lock. *)
LockPublicationFreely ==
    /\ ex.at = "lock" /\ UNCHANGED lock
    /\ \E n \in 0..MaxArtifacts :
          /\ ex' = [ex EXCEPT !.at = "put", !.wanted = n]
          /\ UNCHANGED <<projectDeleted, gone, inputs, stored, upload, pm, left>>
    /\ UNCHANGED <<storeVars, artifacts, objects, workspaces, sessions, records>>

(* The lock is held from before the first upload until Release; the        *)
(* manifest may turn out to be invalid.                                    *)
LockPublication ==
    /\ ex.at = "lock" /\ Locks("publisher")
    /\ \/ \E n \in 0..MaxArtifacts :
             /\ ex' = [ex EXCEPT !.at = "put", !.wanted = n]
             /\ UNCHANGED <<projectDeleted, gone, inputs, stored, upload, pm, left>>
       \/ Fault /\ ExecutesTo("release")
    /\ UNCHANGED <<storeVars, artifacts, objects, workspaces, sessions, records>>

Wanted == {ex.run} \X (1..ex.wanted)

(* The next file of the first incomplete artifact. *)
PutArtifact ==
    /\ ex.at = "put"
    /\ \E a \in Wanted :
          /\ objects[a] < MaxFiles
          /\ \A b \in Wanted : b[2] < a[2] => objects[b] = MaxFiles
          /\ \/ /\ objects' = [objects EXCEPT ![a] = @ + 1]
                /\ UNCHANGED <<ex, projectDeleted, gone, inputs, stored, upload, pm, left>>
             \/ /\ Fault /\ ExecutesTo("withdraw")
                /\ objects' \in {objects, [objects EXCEPT ![a] = @ + 1]}
    /\ UNCHANGED <<storeVars, artifacts, workspaces, sessions, records, lock>>

(* Every prefix the failed Prepare wrote to is deleted, as far as possible. *)
Withdraw ==
    /\ ex.at = "withdraw" /\ ExecutesTo("release")
    /\ \/ Emptied(Wanted) /\ UNCHANGED left
       \/ PartlyEmptied(Wanted) /\ Fault
    /\ UNCHANGED <<storeVars, artifacts, workspaces, sessions, records, lock>>

(* Slip: the artifacts rows are inserted before CommitProducts' transaction. *)
CommitArtifactsFirst ==
    /\ ex.at = "put" /\ \A a \in Wanted : objects[a] = MaxFiles
    /\ ExecutesTo("release")
    /\ artifacts' = artifacts \cup Wanted
    /\ \/ ~projectDeleted /\ CommitProducts(ex.run) /\ UNCHANGED left
       \/ Fault /\ UNCHANGED storeVars
    /\ UNCHANGED <<objects, workspaces, sessions, records, lock>>

(* CommitProducts: all the artifacts become visible with the run's         *)
(* success; without it their objects stay behind, invisible.               *)
Commit ==
    /\ ex.at = "put" /\ \A a \in Wanted : objects[a] = MaxFiles
    /\ ExecutesTo("release")
    /\ LET commits == /\ ~projectDeleted /\ CommitProducts(ex.run)
                      /\ artifacts' = artifacts \cup Wanted
       IN  \/ commits /\ UNCHANGED left
           \/ Fault /\ (commits \/ UNCHANGED <<storeVars, artifacts>>)
    /\ UNCHANGED <<objects, workspaces, sessions, records, lock>>

Release ==
    /\ ex.at = "release" /\ Unlocks("publisher")
    /\ ExecutesTo(IF rows[ex.run].status = "succeeded" THEN "finish" ELSE "fail")
    /\ UNCHANGED <<storeVars, artifacts, objects, workspaces, sessions, records, left>>

-----------------------------------------------------------------------------
(* The end of a run. *)

(* An outcome that cannot be recorded is left to Reconcile. *)
Fail ==
    /\ ex.at = "fail"
    /\ \/ RecordFailure(ex.run, "failed") /\ ExecutesTo("finish") /\ UNCHANGED left
       \/ Fault /\ ex' = Idle
          /\ UNCHANGED <<storeVars, projectDeleted, gone, inputs, stored, upload, pm>>
    /\ UNCHANGED <<artifacts, objects, workspaces, sessions, records, lock>>

(* finishLease: the session of a run that did not succeed is removed, the  *)
(* execution record stays as a tombstone, the workspace for inspection.    *)
Finish ==
    /\ ex.at = "finish" /\ ex' = Idle
    /\ LET kept == IF rows[ex.run].status = "succeeded" THEN sessions ELSE sessions \ {ex.run}
       IN  \/ AcknowledgeFinalized(ex.run) /\ sessions' = kept /\ UNCHANGED left
           \/ Fault /\ sessions' \in {sessions, kept} /\ UNCHANGED storeVars
    /\ UNCHANGED <<projectDeleted, gone, artifacts, inputs, objects, stored, workspaces, records,
                   lock, upload, pm>>

(* Reconcile takes up what a crash or a failed Fail left in the slot.      *)
Reconcile(r) ==
    /\ ex.at = "idle" /\ InSlot(r) /\ RecordFailure(r, "interrupted")
    /\ ex' = [Idle EXCEPT !.at = "finish", !.run = r]
    /\ UNCHANGED <<projectDeleted, gone, artifacts, inputs, things, lock, upload, pm, left>>

ExecutionNext ==
    \/ \E r \in Runs : Claim(r) \/ Reconcile(r)
    \/ Prepare \/ Refresh \/ Intend \/ Attach \/ AgentRuns \/ Publishing
    \/ LockPublication \/ PutArtifact \/ Withdraw \/ Commit \/ Release
    \/ Fail \/ Finish

-----------------------------------------------------------------------------
(* The purge-deleted command with --apply.  It stops at the first error,   *)
(* and is run again.                                                       *)

(* A step of the command that changes nothing but what is named.           *)
Commands(to) == pm' = to /\ UNCHANGED <<tables, ex, upload>>
Stops == Commands(NoPurge)

(* The roots query; hardDelete asks it again under the locks.              *)
Eligible(k) ==
    IF k = Project THEN projectDeleted /\ \A c \in Conversations : Quiescent(c)
                   ELSE deleted[k] /\ ~projectDeleted /\ Quiescent(k)

RunsOf(k) == {r \in Runs : Exists(r) /\ (k = Project \/ rows[r].conv = k)}

(* Slip: the inputs of the project are listed for a conversation too. *)
KeysOfProject(k) == inputs

KeysOf(k) == IF k = Project THEN inputs ELSE {}

PrefixesOf(k) == {a \in artifacts : a[1] \in RunsOf(k)}

(* validateRoot: uploads accept a name with a backslash, this does not.    *)
Valid(k) == KeysOf(k) \cap Backslashed = {}

(* Slip: a conversation is a root of its own although its project is       *)
(* deleted.                                                                *)
CurrentRootsAnyway ==
    {k \in Roots \ gone :
        IF k = Project THEN Eligible(k) ELSE deleted[k] /\ Quiescent(k)}

CurrentRoots == {k \in Roots \ gone : Eligible(k)}

(* The preflight Purge, which only validates. *)
Preflight ==
    /\ pm.at = "idle" /\ \A k \in CurrentRoots : Valid(k)
    /\ Commands([NoPurge EXCEPT !.at = "lock"])
    /\ UNCHANGED <<things, lock, left>>

ScanLock ==
    /\ pm.at = "lock" /\ Locks("scanner")
    /\ Commands([pm EXCEPT !.at = "list"])
    /\ UNCHANGED <<things, left>>

ScanStops == Stops /\ Unlocks("scanner")

ScanList ==
    /\ pm.at = "list"
    /\ \/ /\ Commands([pm EXCEPT !.at = "check", !.orphans = {a \in Artifact : objects[a] > 0}])
          /\ UNCHANGED <<lock, left>>
       \/ Fault /\ ScanStops
    /\ UNCHANGED things

(* Slip: metadata is looked for by the run, not by the artifact. *)
CheckByRun(a) ==
    /\ pm.at = "check" /\ a \in pm.orphans
    /\ Commands(IF Exists(a[1]) THEN [pm EXCEPT !.orphans = @ \ {a}]
                                ELSE [pm EXCEPT !.at = "delete", !.prefixes = {a}])
    /\ UNCHANGED <<things, lock, left>>

(* A listed prefix with an artifacts row is passed over. *)
Check(a) ==
    /\ pm.at = "check" /\ a \in pm.orphans
    /\ Commands(IF a \in artifacts THEN [pm EXCEPT !.orphans = @ \ {a}]
                                   ELSE [pm EXCEPT !.at = "delete", !.prefixes = {a}])
    /\ UNCHANGED <<things, lock, left>>

DeleteOrphan ==
    /\ pm.at = "delete"
    /\ \/ /\ Emptied(pm.prefixes)
          /\ Commands([pm EXCEPT !.at = "check", !.orphans = @ \ pm.prefixes, !.prefixes = {}])
          /\ UNCHANGED <<lock, left>>
       \/ PartlyEmptied(pm.prefixes) /\ Fault /\ ScanStops
    /\ UNCHANGED <<stored, workspaces, sessions, records>>

ScanEnd ==
    /\ pm.at = "check" /\ pm.orphans = {} /\ Unlocks("scanner")
    /\ Commands([pm EXCEPT !.at = "load"])
    /\ UNCHANGED <<things, left>>

(* The roots are loaded at once with all they own, which a deleted and     *)
(* quiescent root cannot change; an invalid one stops the command.         *)
LoadRoots ==
    /\ pm.at = "load"
    /\ Commands([pm EXCEPT !.at = "root", !.roots = CurrentRoots])
    /\ UNCHANGED <<things, lock, left>>

PurgeRoot(k) ==
    /\ pm.at = "root" /\ k \in pm.roots
    /\ IF Valid(k)
       THEN Commands([pm EXCEPT !.at = "prefixes", !.roots = @ \ {k}, !.root = k,
                                !.prefixes = PrefixesOf(k), !.keys = KeysOf(k),
                                !.runs = RunsOf(k)])
       ELSE Stops
    /\ UNCHANGED <<things, lock, left>>

PurgePrefixes ==
    /\ pm.at = "prefixes"
    /\ \/ Emptied(pm.prefixes) /\ Commands([pm EXCEPT !.at = "keys"]) /\ UNCHANGED left
       \/ PartlyEmptied(pm.prefixes) /\ Fault /\ Stops
    /\ UNCHANGED <<stored, workspaces, sessions, records, lock>>

PurgeKeys ==
    /\ pm.at = "keys"
    /\ \/ stored' = stored \ pm.keys /\ Commands([pm EXCEPT !.at = "runs"]) /\ UNCHANGED left
       \/ /\ Fault /\ Stops
          /\ \E S \in SUBSET pm.keys : stored' = stored \ S
    /\ UNCHANGED <<objects, workspaces, sessions, records, lock>>

(* purgeRun: a run that never had a sandbox has but a workspace.           *)
PurgeRun ==
    /\ pm.at = "runs"
    /\ \E r \in pm.runs :
          /\ \A q \in pm.runs : r <= q
          /\ \/ /\ Commands([pm EXCEPT !.run = r, !.runs = @ \ {r},
                                        !.at = IF rows[r].ref THEN "session" ELSE "workspace"])
                /\ UNCHANGED left
             \/ rows[r].ref /\ Fault /\ Stops
    /\ UNCHANGED <<things, lock>>

(* While the Runtime has an unfinalized execution it deletes no session.   *)
Busy == \E r \in records : Exists(r) /\ ~Settled(r)

(* Slip: 409 is taken for 404. *)
PurgeSessionIgnored ==
    /\ pm.at = "session"
    /\ sessions' = IF Busy THEN sessions ELSE sessions \ {rows[pm.run].candidate}
    /\ Commands([pm EXCEPT !.at = "workspace"])
    /\ UNCHANGED <<objects, stored, workspaces, records, lock, left>>

PurgeSession ==
    /\ pm.at = "session"
    /\ LET session == rows[pm.run].candidate
       IN  IF session \in sessions /\ Busy
           THEN Stops /\ UNCHANGED <<sessions, left>>
           ELSE \/ /\ sessions' = sessions \ {session}
                   /\ Commands([pm EXCEPT !.at = "workspace"]) /\ UNCHANGED left
                \/ Fault /\ Stops /\ sessions' \in {sessions, sessions \ {session}}
    /\ UNCHANGED <<objects, stored, workspaces, records, lock>>

PurgeWorkspace ==
    /\ pm.at = "workspace"
    /\ \/ /\ workspaces' = workspaces \ {pm.run}
          /\ Commands([pm EXCEPT !.at = IF rows[pm.run].ref THEN "record" ELSE "runs"])
          /\ UNCHANGED left
       \/ Fault /\ Stops /\ UNCHANGED workspaces
    /\ UNCHANGED <<objects, stored, sessions, records, lock>>

PurgeRecord ==
    /\ pm.at = "record"
    /\ \/ records' = records \ {pm.run} /\ Commands([pm EXCEPT !.at = "runs"]) /\ UNCHANGED left
       \/ Fault /\ Stops /\ records' \in {records, records \ {pm.run}}
    /\ UNCHANGED <<objects, stored, workspaces, sessions, lock>>

(* The rows of the root and of all it owns, in one transaction.            *)
Forgets(k) ==
    LET dead == RunsOf(k)
    IN  /\ rows' = [r \in Runs |-> IF r \in dead THEN NoRow ELSE rows[r]]
        /\ head' = [c \in Conversations |-> IF k \in {c, Project} THEN NoSession ELSE head[c]]
        /\ artifacts' = {a \in artifacts : a[1] \notin dead}
        /\ inputs' = inputs \ KeysOf(k)
        /\ gone' = gone \cup (IF k = Project THEN Roots ELSE {k})
        /\ UNCHANGED <<deleted, projectDeleted>>

HardDelete ==
    /\ pm.at = "runs" /\ pm.runs = {}
    /\ \/ /\ Eligible(pm.root) /\ Forgets(pm.root)
          /\ pm' = [NoPurge EXCEPT !.at = "root", !.roots = pm.roots]
          /\ UNCHANGED <<ex, upload, left>>
       \/ ~Eligible(pm.root) /\ Stops /\ UNCHANGED left
       \/ Fault /\ Stops
    /\ UNCHANGED <<things, lock>>

PurgeEnd ==
    /\ pm.at = "root" /\ pm.roots = {} /\ Stops
    /\ UNCHANGED <<things, lock, left>>

MaintenanceNext ==
    \/ Preflight
    \/ ScanLock \/ ScanList \/ DeleteOrphan \/ ScanEnd
    \/ \E a \in Artifact : Check(a)
    \/ LoadRoots \/ PurgeEnd
    \/ \E k \in Roots : PurgeRoot(k)
    \/ PurgePrefixes \/ PurgeKeys \/ PurgeRun \/ PurgeSession \/ PurgeWorkspace \/ PurgeRecord
    \/ HardDelete

-----------------------------------------------------------------------------
(* Crashes, and the lock session lost under its holder. *)

Stopped == Spends("stops")

CommandKilled ==
    /\ Stopped /\ pm.at # "idle" /\ Stops /\ Unlocks("scanner")
    /\ UNCHANGED things

ControlPlaneCrash ==
    /\ Stopped /\ ex' = Idle /\ Unlocks("publisher")
    /\ upload' = [i \in Inputs |-> IF upload[i] = "new" THEN "new" ELSE "done"]
    /\ UNCHANGED <<tables, things, pm>>

LoseLock ==
    /\ Lost /\ lock # "free" /\ lock' = "free"
    /\ UNCHANGED <<tables, things, ex, upload, pm>>

Next ==
    \/ UserNext \/ ExecutionNext \/ MaintenanceNext
    \/ \E i \in Inputs : UploadNext(i)
    \/ CommandKilled \/ ControlPlaneCrash \/ LoseLock

Spec == Init /\ [][Next]_vars

(* The scheduler goes on, an upload ends, the command is run again, and    *)
(* PostgreSQL grants the advisory lock in the order it was asked for.      *)
Fairness ==
    /\ WF_vars(ExecutionNext) /\ SF_vars(LockPublication)
    /\ WF_vars(MaintenanceNext) /\ SF_vars(ScanLock)
    /\ \A i \in Inputs : WF_vars(UploadNext(i) /\ upload[i] # "new")

FairSpec == Spec /\ Fairness

-----------------------------------------------------------------------------
(* Properties. *)

(* The shape of the state; a conversation's rows go with its gone mark.    *)
TypeOK ==
    /\ rows \in [Runs -> Row] /\ head \in [Conversations -> Sessions]
    /\ deleted \in [Conversations -> BOOLEAN] /\ projectDeleted \in BOOLEAN
    /\ gone \subseteq Roots /\ inputs \subseteq Inputs /\ stored \subseteq Inputs
    /\ artifacts \subseteq Artifact /\ objects \in [Artifact -> 0..MaxFiles]
    /\ workspaces \subseteq Runs /\ sessions \subseteq Runs /\ records \subseteq Runs
    /\ lock \in {"free", "publisher", "scanner"}
    /\ upload \in [Inputs -> {"new", "put", "save", "compensate", "done"}]
    /\ \A r \in Runs : rows[r].conv \notin gone
    /\ \A a \in artifacts : rows[a[1]].status = "succeeded"

Undisturbed == left.losses = MaxLosses

(* An artifact that users can see has all its files: neither the orphan    *)
(* scan, nor the cleanup of a failed publication, nor a purge that stopped *)
(* half-way takes objects from an artifact of a conversation not deleted.  *)
(* It leans on the advisory lock, so a lost lock session is excluded.      *)
ArtifactsIntact ==
    Undisturbed =>
        \A a \in artifacts :
            (~projectDeleted /\ ~deleted[rows[a[1]].conv]) => objects[a] = MaxFiles

(* Every input the live project lists has its object, and every input a    *)
(* claimed run was given is there to be copied, whatever is uploaded,      *)
(* deleted or purged meanwhile, if no acknowledgement of a COMMIT is lost. *)
InputsComplete ==
    /\ ~projectDeleted => inputs \subseteq stored
    /\ ex.at = "prepare" => ex.needs \subseteq stored

InputsKept == Undisturbed => InputsComplete

(* Rows last: the rows that say what there is to remove outlive everything *)
(* they name, so that a purge that stopped anywhere can be repeated.       *)
RowsLast ==
    [][/\ \A r \in Runs : Exists(r) /\ ~Exists(r)' =>
             /\ r \notin workspaces \cup sessions \cup records
             /\ \A a \in Of(r) \cap artifacts : objects[a] = 0
       /\ (inputs \ inputs') \cap stored = {}]_vars

(* What is logically deleted is hard-deleted in the end: calls that fail,  *)
(* sessions the Runtime refuses to delete while an execution is active and *)
(* runs not yet settled only put it off (purge.go).                        *)
DeletedArePurged ==
    /\ \A c \in Conversations : deleted[c] ~> c \in gone
    /\ projectDeleted ~> Project \in gone

(* Objects that no row names do not stay for ever.                         *)
OrphansCollected ==
    \A a \in Artifact : objects[a] > 0 ~> (objects[a] = 0 \/ a \in artifacts)

=============================================================================
