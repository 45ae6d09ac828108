-------------------------- MODULE MCPipelineMonitor --------------------------
EXTENDS PipelineMonitor

CONSTANTS a, s1, s2

\* Objects with all that is asked for, with nothing, with a patch only, and
\* with one field missing.
MCPayloads ==
  LET all == PatchFields \cup VerdictFields
  IN  {all, {}, PatchFields, all \ {"change_summary"}, all \ {"risk"}}

=============================================================================
