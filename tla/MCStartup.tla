------------------------------ MODULE MCStartup ------------------------------
(***************************************************************************)
(* Two models, two backends, up to three cameras, and five places for the   *)
(* models; command lines with every option, good and bad.                   *)
(***************************************************************************)
EXTENDS Startup

MCIntegerOf == ("1" :> 1) @@ ("300" :> 300) @@ ("-1" :> -1)
MCPercentOf == ("1" :> 100) @@ ("0.5" :> 50) @@ ("300" :> 30000)

MCCommandLines ==
    {<<>>, <<"--models", "mine">>, <<"--model", "b", "--backend", "paddle">>, <<"--confidence", "0.5", "--camera", "1">>,
     <<"--camera", "-1">>, <<"--camera", "300">>, <<"--image", "1", "--camera", "1">>, <<"--model">>, <<"--help">>,
     <<"--loud">>, <<"--log-level", "loud">>, <<"--iou", "300">>,
     <<"--allow-unvalidated-model", "--odf-smoke-test", "--iou", "0.5", "--max-detections", "300", "--output", "1">>,
     <<"--image", "--help">>}

Model(id, supported, default) == [id |-> id, supported |-> supported, default |-> default]
Both == <<Model("a", <<"onnxruntime", "paddle">>, "paddle"), Model("b", <<"paddle">>, "paddle")>>
Device(id) == [id |-> id, named |-> TRUE]
Cameras == {<<Device("x")>>, <<[id |-> "x", named |-> FALSE], Device("y"), Device("y"), Device("x")>>}
World(withMetadata, environment, catalog, available, found) ==
    [withMetadata |-> withMetadata, environment |-> environment, backends |-> available, devices |-> found,
     registries |-> [r \in {"mine", "application", "installed", "picked", "theirs"} |-> IF r = "picked" THEN Both ELSE catalog]]
MCWorlds ==
    {World({"application", "mine"}, Absent, Both, {"onnxruntime", "paddle"}, found) : found \in Cameras}
      \cup {World({"picked"}, environment, Both, {"onnxruntime"}, <<Device("y")>>) : environment \in {Absent, "theirs"}}
      \cup {World({"installed", "theirs", "picked"}, "theirs", catalog, {"paddle"}, <<Device("x")>>) : catalog \in {<<>>, Tail(Both)}}
=============================================================================
