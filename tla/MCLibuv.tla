------------------------------ MODULE MCLibuv ------------------------------
(***************************************************************************)
(* Instances of LibuvPipeline for TLC.                                     *)
(***************************************************************************)
EXTENDS LibuvPipeline, TLC

\* One that may throw on any packet, one whose cast always does, the one
\* that goes by nread, and none.
SomeHandlers == {"CHWirePTHandler", "CHttpHandler", "GzipHandler", NoHandler}

Packets == "client" :> 2 @@ "target" :> 1
=============================================================================
