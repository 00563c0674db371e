--------------------------- MODULE MCHttpRedirect ---------------------------
(***************************************************************************)
(* Instances of HttpRedirectPipeline for TLC.  1 stands for "/".           *)
(***************************************************************************)
EXTENDS HttpRedirectPipeline

Api      == <<1, 2>>
ApiUsers == <<1, 2, 3>>

\* Two nested URIs and the wildcard.
MCUriMap   == {Star, Api, ApiUsers}
MCRequests == {Fragment,
               [host |-> "h", path |-> <<1, 2, 3, 4>>],
               [host |-> "h", path |-> <<1, 3>>],
               [host |-> "x", path |-> <<1>>]}
=============================================================================
