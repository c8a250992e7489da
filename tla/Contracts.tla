------------------------------ MODULE Contracts ------------------------------
(***************************************************************************)
(* The contract between the Agent Runtime and the control plane, as each   *)
(* side checks it: the payloads of Runtime events (models.py against       *)
(* contracts.go) and the outputs of a run (artifacts.py against            *)
(* manifest.go).  A JSON object is a function from the fields it has to    *)
(* the class of their values: "null", "wrong" (another JSON type),         *)
(* "blank", or a value.  Three classes of text pass both contracts and are *)
(* no less trouble behind them: a "labelled" one the redaction of          *)
(* processes.py rewrites ("Q1: Results"), an "unstorable" one has a U+0000 *)
(* in it, which PostgreSQL keeps neither in jsonb nor in text, and an      *)
(* "unwieldy" one is so long, or so deeply nested, that it may be more     *)
(* than a reader of the event's line takes.                                *)
(***************************************************************************)
EXTENDS Naturals, Sequences, FiniteSets

(* The fields each known event type requires; tool.completed has two more. *)
Required ==
    [type \in {"phase.changed", "assistant.delta", "assistant.message", "tool.started",
               "tool.completed", "artifact.candidate", "agent.completed", "agent.failed"} |->
        CASE type = "phase.changed"      -> {"phase"}
          [] type \in {"assistant.delta", "assistant.message"} -> {"text"}
          [] type = "tool.started"       -> {"tool_call_id", "name", "input"}
          [] type = "tool.completed"     -> {"tool_call_id", "name", "outcome"}
          [] type = "artifact.candidate" -> {"artifacts"}
          [] type = "agent.completed"    -> {"candidate_sdk_session_id", "artifacts"}
          [] type = "agent.failed"       -> {"code", "message", "retryable"}]

KnownTypes == DOMAIN Required
Optional(type) == IF type = "tool.completed" THEN {"output", "error"} ELSE {}
IsTerminal(type) == type \in {"agent.completed", "agent.failed"}

ArtifactFields == {"name", "title", "type", "entry", "primary"}
ArtifactTypes == {"html", "markdown", "image", "data"}

-----------------------------------------------------------------------------
(* The control plane: contracts.go and manifest.go. *)

RequireObjectFields(object, required) ==
    \A f \in required : f \in DOMAIN object /\ object[f] # "null"

DecodeStrict(object, fields) == \A f \in DOMAIN object : f \in fields /\ object[f] # "wrong"

(* Paths: "outside" is absolute or climbs with "..", "odd" has another     *)
(* spelling neither side lets an output have (a backslash, "./", "%2e"),   *)
(* "undecodable" is a name that is not UTF-8.                              *)
IsSafeRelativePath(entry) == entry \notin {"blank", "outside"}

ValidArtifact(a) ==
    /\ RequireObjectFields(a, ArtifactFields) /\ DecodeStrict(a, ArtifactFields)
    /\ a.name # "blank" /\ a.title # "blank"
    /\ a.type \in ArtifactTypes
    /\ IsSafeRelativePath(a.entry)

ValidateArtifacts(list) == \A i \in DOMAIN list : ValidArtifact(list[i])

(* Slip: a tool's output must not be blank. *)
ParseEventPayloadWithOutput(type, payload, list) ==
    type = "tool.completed" =>
        /\ RequireObjectFields(payload, Required[type])
        /\ "output" \in DOMAIN payload => payload.output # "blank"

ParseEventPayload(type, payload, list) ==
    type \in KnownTypes =>
        /\ RequireObjectFields(payload, Required[type] \cup (Optional(type) \cap DOMAIN payload))
        /\ DecodeStrict(payload, Required[type] \cup Optional(type))
        /\ type = "phase.changed" => payload.phase \in {"preparing", "agent"}
        /\ type \in {"tool.started", "tool.completed"} =>
               payload.tool_call_id # "blank" /\ payload.name # "blank"
        /\ type = "tool.completed" =>
               /\ payload.outcome \in {"succeeded", "failed"}
               /\ payload.outcome = "failed" => "error" \in DOMAIN payload
        /\ type = "agent.completed" => payload.candidate_sdk_session_id # "blank"
        /\ type = "agent.failed" => payload.code # "blank" /\ payload.message # "blank"
        /\ type \in {"artifact.candidate", "agent.completed"} => ValidateArtifacts(list)

UniqueNames(list) == \A i, j \in DOMAIN list : list[i].name = list[j].name => i = j

ParseArtifactManifest(schema, list) ==
    /\ schema = 1
    /\ ValidateArtifacts(list)
    /\ UniqueNames(list)
    /\ Cardinality({i \in DOMAIN list : list[i].primary = "true"}) <= 1

(* What a run left behind: its files by path, and what the manifest, if    *)
(* there is one among them, says.  A file is "regular" (or a link to a     *)
(* regular output that never leaves the outputs), "large", "foreign" (a    *)
(* link to a directory or to something outside, a pipe), or "barred": the  *)
(* Runtime takes it for a regular output, and the control plane does not   *)
(* read it.  That is a link that an os.Root does not follow because it is  *)
(* absolute, leaves the outputs and comes back, or goes through too many   *)
(* others; a file it may not open; and a manifest that repeats a field, of *)
(* which the Runtime looks at the last and decodeStrict at all.            *)
Outputs(schema, list, files) == [schema |-> schema, list |-> list, files |-> files]
NoManifest(files) == Outputs(1, <<>>, files)

MANIFEST_NAME == "artifact-manifest.json"
Written(outputs) == MANIFEST_NAME \in DOMAIN outputs.files

(* fs.ValidPath, which wants UTF-8, and the spellings.                     *)
ValidRelativePath(path) == path \notin {"blank", "outside", "odd", "undecodable"}

(* The snapshot's artifact policy: the types it allows. *)
ValidateManifest(outputs, allowed) ==
    /\ \A path \in DOMAIN outputs.files :
           ValidRelativePath(path) /\ outputs.files[path] = "regular"
    /\ IF Written(outputs)
       THEN /\ ParseArtifactManifest(outputs.schema, outputs.list)
            /\ \A i \in DOMAIN outputs.list :
                   /\ outputs.list[i].type \in allowed
                   /\ ValidRelativePath(outputs.list[i].entry)
                   /\ outputs.list[i].entry \in DOMAIN outputs.files \ {MANIFEST_NAME}
       ELSE DOMAIN outputs.files = {}

-----------------------------------------------------------------------------
(* The Runtime: models.py and artifacts.py. *)

(* ContractModel: strict, extra="forbid"; every field here has a type that *)
(* excludes null, or a validator that does.                                *)
ContractModel(object, required, fields) ==
    /\ required \subseteq DOMAIN object /\ DOMAIN object \subseteq fields
    /\ \A f \in DOMAIN object : object[f] \notin {"null", "wrong"}

(* The text of a manifest or an event is UTF-8, or it is not parsed.       *)
ArtifactModel(a) ==
    /\ ContractModel(a, ArtifactFields, ArtifactFields)
    /\ a.name # "blank" /\ a.title # "blank"
    /\ a.type \in ArtifactTypes
    /\ a.entry \notin {"blank", "outside", "undecodable"}

ToolCompletedModel(payload) ==
    /\ payload.outcome \in {"succeeded", "failed"}
    /\ payload.outcome = "failed" => "error" \in DOMAIN payload

PayloadModel(type, payload, list) ==
    type \in KnownTypes =>
        /\ ContractModel(payload, Required[type], Required[type] \cup Optional(type))
        /\ type = "phase.changed" => payload.phase \in {"preparing", "agent"}
        /\ \A f \in DOMAIN payload \cap {"tool_call_id", "name", "candidate_sdk_session_id",
                                         "code", "message"} : payload[f] # "blank"
        /\ type = "tool.completed" => ToolCompletedModel(payload)
        /\ type \in {"artifact.candidate", "agent.completed"} =>
               \A i \in DOMAIN list : ArtifactModel(list[i])

ManifestModel(schema, list) ==
    /\ schema = 1
    /\ \A i \in DOMAIN list : ArtifactModel(list[i])
    /\ UniqueNames(list)
    /\ Cardinality({i \in DOMAIN list : list[i].primary = "true"}) <= 1

(* _valid_relative_path: the spellings only.  os.walk gives a name that is *)
(* not UTF-8 as any other.                                                 *)
ValidOutputPath(path) == path \notin {"blank", "outside", "odd"}

(* A link is resolved, whatever its way, and its target looked at, not     *)
(* opened.                                                                 *)
AcceptsOutputs(outputs, allowed) ==
    /\ \A path \in DOMAIN outputs.files :
           ValidOutputPath(path) /\ outputs.files[path] \in {"regular", "barred"}
    /\ IF Written(outputs)
       THEN /\ ManifestModel(outputs.schema, outputs.list)
            /\ \A i \in DOMAIN outputs.list :
                   /\ outputs.list[i].type \in allowed
                   /\ ValidOutputPath(outputs.list[i].entry)
                   /\ outputs.list[i].entry \in DOMAIN outputs.files \ {MANIFEST_NAME}
       ELSE DOMAIN outputs.files = {}

-----------------------------------------------------------------------------
(* The redaction of published events: every string, those of the artifact  *)
(* summary included.                                                       *)

Redact(object) ==
    [f \in DOMAIN object |-> IF object[f] = "labelled" THEN "redacted" ELSE object[f]]

RedactAll(list) == [i \in DOMAIN list |-> Redact(list[i])]

-----------------------------------------------------------------------------
(* What an event carries behind the contract: whether one of its texts is  *)
(* of a class, and whether all are such that they can be passed on.        *)

Holds(payload, list, class) ==
    \/ \E f \in DOMAIN payload : payload[f] = class
    \/ \E i \in DOMAIN list : \E f \in DOMAIN list[i] : list[i][f] = class

Storable(payload, list) == ~Holds(payload, list, "unstorable")
Handy(payload, list) == ~Holds(payload, list, "unwieldy")

=============================================================================
