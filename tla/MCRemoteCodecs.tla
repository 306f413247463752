--------------------------- MODULE MCRemoteCodecs ---------------------------
(***************************************************************************)
(* Instances of the remote codecs for TLC.                                 *)
(***************************************************************************)
EXTENDS RemoteCodecs

CONSTANTS small, edge, middle, large        \* payloads

MCApp == {small, edge, middle, large}

(* In base64 the edge one is below the threshold unless its injected       *)
(* context is counted; the middle one is above it there and below it as    *)
(* protobuf.                                                               *)
MCLength ==
    [bytes \in Written |->
        CASE bytes = <<"app", small>> -> 600  [] bytes = <<"app", edge>> -> 720
          [] bytes = <<"app", middle>> -> 900 [] bytes = <<"app", large>> -> 1006
          [] bytes = <<"text", "json/plain">> -> 10
          [] bytes = <<"text", "default">> -> 7
          [] OTHER -> 2]
MCThreshold == 1024

MCContext(wf, run, ns) ==
    [k \in {"temporal-workflow-id", "temporal-run-id", "temporal-namespace"} |->
        CASE k = "temporal-workflow-id" -> <<"text", wf>>
          [] k = "temporal-run-id" -> <<"text", run>>
          [] k = "temporal-namespace" -> <<"text", ns>>]

(* The namespace of the repository's deployment, and another one           *)
MCInjected == {MCContext("a", "r1", "default"), MCContext("b", "r2", "ns")}
=============================================================================
