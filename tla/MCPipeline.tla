----------------------------- MODULE MCPipeline -----------------------------
(* Small instances of Pipeline for TLC. *)
EXTENDS Pipeline, TLC

CONSTANTS A, B

(* The first content of each document refers to nothing, the second to the *)
(* other document.                                                         *)
MCRefs == (A :> << {}, {B} >>) @@ (B :> << {}, {A} >>)
=============================================================================
