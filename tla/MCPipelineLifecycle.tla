------------------------ MODULE MCPipelineLifecycle ------------------------
(* Instances of PipelineLifecycle for TLC: certificates c1 and c2 belong to *)
(* the same trace, so two leases can report on one row.                     *)
EXTENDS PipelineLifecycle

CONSTANTS t1

MCTraceOf == [c \in Certs |-> t1]
=============================================================================
