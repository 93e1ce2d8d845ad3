---- MODULE MCPipeline ----
(* Instances of TaskPipeline for the model checker. *)
EXTENDS TaskPipeline

ShortAndLong == [long : BOOLEAN, overlap : BOOLEAN] \ {[long |-> FALSE, overlap |-> TRUE]}
ShortOnly == {[long |-> FALSE, overlap |-> FALSE]}
LongOnly == [long : {TRUE}, overlap : BOOLEAN]
====
