---------------------------- MODULE MCResPublish ----------------------------
(* Two releases of a product and one of a core channel for two              *)
(* architectures.                                                           *)
EXTENDS ResPublish, TLC

CONSTANTS a1, a2, c1

MCLabels == {a1, a2, c1}
MCCores == {c1}
MCHistories == {{a1, a2}, {a1, c1}}
MCScope == a1 :> "a" @@ a2 :> "a" @@ c1 :> "core"
MCStamp == a1 :> 1 @@ c1 :> 2 @@ a2 :> 3
MCParts == a1 :> {"system"} @@ a2 :> {"system"} @@ c1 :> {"arm64", "amd64"}
MCForms == a1 :> {"full", "disk"} @@ a2 :> {"full"} @@ c1 :> {"archive"}
MCObjects == a1 :> {"root", "kernel"} @@ a2 :> {"root"} @@ c1 :> {"root"}
=============================================================================
