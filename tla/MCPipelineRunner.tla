--------------------------- MODULE MCPipelineRunner ---------------------------
(***************************************************************************)
(* A shard of the v5-to-v6 presets' shape: a pipeline of entries put by    *)
(* DdbProcessor or OsProcessor, one of audit logs, and an observe-only     *)
(* one.  S3Copy commands may be emitted although no processor of the       *)
(* merge group drains them.                                                *)
(***************************************************************************)
EXTENDS PipelineRunner

MCKey == {"PutRecord", "AuditLogPutRecord", "S3Copy"}

\* Processor 1 is OsProcessor, processor 2 AuditLogProcessor.
MCClaims == <<"PutRecord", "AuditLogPutRecord">>
MCHonoursDryRun == {1}
MCHasOptionalTarget == {2}
MCEmitsOnEnd == {1}
MCHasAfterShard == {1}

MCPipeline == {"entries", "auditLogs", "inspect"}
MCProcessorsOf == [p \in MCPipeline |-> IF p = "auditLogs" THEN {2} ELSE {1}]
MCIsBlackhole == {"inspect"}
==============================================================================
