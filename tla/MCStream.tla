------------------------------ MODULE MCStream ------------------------------
(***************************************************************************)
(* Instances of StreamPipeline for TLC.                                    *)
(***************************************************************************)
EXTENDS StreamPipeline, TLC

\* A transfer of three chunks, the last above the limit of 2, and one of a chunk
\* while another client opens and closes the file.
SomeFiles == {"a" :> 3 @@ "b" :> NoClient, "a" :> 1 @@ "b" :> 0}
=============================================================================
