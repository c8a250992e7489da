--------------------------- MODULE ContractsProofs ---------------------------
(* The two sides of the contract agree on every input, not only on those   *)
(* that MCExecution enumerates.                                            *)
EXTENDS Contracts, TLAPS

(* An artifact the Runtime's model accepts passes the control plane's.     *)
LEMMA ArtifactsAgree ==
    ASSUME NEW a, ArtifactModel(a)
    PROVE  ValidArtifact(a)
<1>1. RequireObjectFields(a, ArtifactFields)
  BY DEF ArtifactModel, ContractModel, RequireObjectFields
<1>2. DecodeStrict(a, ArtifactFields)
  BY DEF ArtifactModel, ContractModel, DecodeStrict
<1> QED
  BY <1>1, <1>2 DEF ArtifactModel, ValidArtifact, IsSafeRelativePath

(* The same of a list of them. *)
LEMMA ListsAgree ==
    ASSUME NEW list, \A i \in DOMAIN list : ArtifactModel(list[i])
    PROVE  ValidateArtifacts(list)
  BY ArtifactsAgree DEF ValidateArtifacts

(* Every payload the models of the Runtime accept, the control plane       *)
(* parses: parseEventPayload of contracts.go refuses none that models.py   *)
(* lets a worker emit.                                                     *)
THEOREM PayloadsAgree ==
    ASSUME NEW type, NEW payload, NEW list, PayloadModel(type, payload, list)
    PROVE  ParseEventPayload(type, payload, list)
<1> SUFFICES ASSUME type \in KnownTypes PROVE ParseEventPayload(type, payload, list)
  BY DEF ParseEventPayload
<1>1. ContractModel(payload, Required[type], Required[type] \cup Optional(type))
  BY DEF PayloadModel
<1>2. RequireObjectFields(payload, Required[type] \cup (Optional(type) \cap DOMAIN payload))
  BY <1>1 DEF ContractModel, RequireObjectFields
<1>3. DecodeStrict(payload, Required[type] \cup Optional(type))
  BY <1>1 DEF ContractModel, DecodeStrict
<1>4. type = "phase.changed" => payload.phase \in {"preparing", "agent"}
  BY DEF PayloadModel
<1>5. \A f \in Required[type] : f \in DOMAIN payload
  BY <1>1 DEF ContractModel
<1>6. \A f \in {"tool_call_id", "name", "candidate_sdk_session_id", "code", "message"} :
          f \in Required[type] => payload[f] # "blank"
  BY <1>5 DEF PayloadModel
<1>7. type \in {"tool.started", "tool.completed"} =>
          payload.tool_call_id # "blank" /\ payload.name # "blank"
  <2>1. type \in {"tool.started", "tool.completed"} => {"tool_call_id", "name"} \subseteq Required[type]
    BY DEF Required
  <2> QED
    BY <2>1, <1>6
<1>8. type = "tool.completed" =>
          /\ payload.outcome \in {"succeeded", "failed"}
          /\ payload.outcome = "failed" => "error" \in DOMAIN payload
  BY DEF PayloadModel, ToolCompletedModel
<1>9. type = "agent.completed" => payload.candidate_sdk_session_id # "blank"
  <2>1. type = "agent.completed" => "candidate_sdk_session_id" \in Required[type]
    BY DEF Required
  <2> QED
    BY <2>1, <1>6
<1>10. type = "agent.failed" => payload.code # "blank" /\ payload.message # "blank"
  <2>1. type = "agent.failed" => {"code", "message"} \subseteq Required[type]
    BY DEF Required
  <2> QED
    BY <2>1, <1>6
<1>11. type \in {"artifact.candidate", "agent.completed"} => ValidateArtifacts(list)
  BY ListsAgree DEF PayloadModel
<1> QED
  BY <1>2, <1>3, <1>4, <1>7, <1>8, <1>9, <1>10, <1>11 DEF ParseEventPayload

(* Of the outputs artifacts.py accepts, manifest.go refuses those with a   *)
(* name that is not UTF-8 or with a file an os.Root does not open, and no  *)
(* other: whatever the manifest says and whatever else lies there.         *)
THEOREM OutputsAgree ==
    ASSUME NEW outputs, NEW allowed, AcceptsOutputs(outputs, allowed)
    PROVE  ValidateManifest(outputs, allowed) <=>
               \A path \in DOMAIN outputs.files :
                   path # "undecodable" /\ outputs.files[path] # "barred"
<1>1. ASSUME ValidateManifest(outputs, allowed), NEW path \in DOMAIN outputs.files
      PROVE  path # "undecodable" /\ outputs.files[path] # "barred"
  BY <1>1 DEF ValidateManifest, ValidRelativePath
<1>2. ASSUME \A path \in DOMAIN outputs.files :
                 path # "undecodable" /\ outputs.files[path] # "barred"
      PROVE  ValidateManifest(outputs, allowed)
  <2>1. \A path \in DOMAIN outputs.files :
            ValidRelativePath(path) /\ outputs.files[path] = "regular"
    BY <1>2 DEF AcceptsOutputs, ValidRelativePath, ValidOutputPath
  <2>2. CASE Written(outputs)
    <3>1. ManifestModel(outputs.schema, outputs.list)
      BY <2>2 DEF AcceptsOutputs
    <3>2. ParseArtifactManifest(outputs.schema, outputs.list)
      BY <3>1, ListsAgree DEF ManifestModel, ParseArtifactManifest
    <3>3. \A i \in DOMAIN outputs.list :
              /\ outputs.list[i].type \in allowed
              /\ outputs.list[i].entry \in DOMAIN outputs.files \ {MANIFEST_NAME}
      BY <2>2 DEF AcceptsOutputs
    <3>4. \A i \in DOMAIN outputs.list : ValidRelativePath(outputs.list[i].entry)
      BY <2>1, <3>3
    <3> QED
      BY <2>1, <2>2, <3>2, <3>3, <3>4 DEF ValidateManifest
  <2>3. CASE ~Written(outputs)
    BY <2>1, <2>3 DEF AcceptsOutputs, ValidateManifest
  <2> QED
    BY <2>2, <2>3
<1> QED
  BY <1>1, <1>2

=============================================================================
