----------------------------- MODULE MCPipeline -----------------------------
(* Small instances of Pipeline.                                            *)
EXTENDS Pipeline, TLC

CONSTANT p1

MCProjectOf == [id \in Ids |-> p1]
=============================================================================
