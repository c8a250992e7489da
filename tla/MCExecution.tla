----------------------------- MODULE MCExecution -----------------------------
(* Execution with a handful of SDK events and of outputs. *)
EXTENDS Execution, TLC

Tool(outcome, more) == [tool_call_id |-> "text", name |-> "text", outcome |-> outcome] @@ more

MCTurns ==
    {<<"assistant.message", [text |-> "unstorable"]>>,
     <<"tool.started", [tool_call_id |-> "blank", name |-> "text", input |-> "text"]>>,
     <<"tool.completed", Tool("succeeded", [output |-> "null"])>>,
     <<"tool.completed", Tool("failed", [error |-> "labelled", output |-> "blank"])>>,
     <<"tool.completed", Tool("failed", <<>>)>>}

Artifact == [name |-> "a", title |-> "text", type |-> "html", entry |-> "page", primary |-> "true"]

Second == [Artifact EXCEPT !.name = "b", !.primary = "false"]
Manifest == MANIFEST_NAME :> "regular"
Page == Manifest @@ "page" :> "regular"

(* One artifact that differs from the usual in a field, two that may clash, *)
(* outputs without a manifest, a manifest of another version, and outputs  *)
(* of other kinds.                                                         *)
MCResults ==
    {Outputs(1, <<[Artifact EXCEPT ![f] = v]>>, Page) :
        <<f, v>> \in {<<"name", "blank">>, <<"type", "data">>, <<"type", "wrong">>, <<"entry", "odd">>,
                      <<"entry", "outside">>, <<"entry", MANIFEST_NAME>>}}
      \cup {Outputs(1, <<[Second EXCEPT ![f] = v], Artifact>>, Page) :
               <<f, v>> \in {<<"name", "a">>, <<"name", "b">>, <<"primary", "true">>}}
      \cup {NoManifest("page" :> "regular")}
      \cup {Outputs(2, <<>>, Manifest)}
      \cup {Outputs(1, <<Artifact>>, files) :
               files \in {Manifest @@ "page" :> "foreign", Manifest @@ "page" :> "large",
                          Page @@ "odd" :> "regular", Page @@ "undecodable" :> "regular",
                          Manifest @@ "page" :> "barred"}}
      \cup {Outputs(1, <<[Artifact EXCEPT !.title = "unwieldy"]>>, Page)}

MCLabelled == {Outputs(1, <<[Artifact EXCEPT !.title = "labelled"]>>, Page)}

=============================================================================
