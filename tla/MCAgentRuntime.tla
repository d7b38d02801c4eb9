--------------------------- MODULE MCAgentRuntime ---------------------------
(* Small instances of AgentRuntime for TLC. *)
EXTENDS AgentRuntime, TLC

CONSTANTS r1, r2, a1, a2, t1, t2

Interchangeable ==
  Permutations(Runs) \cup Permutations(Approvals) \cup Permutations(Threads)

\* The audit trail is written and never read: no step depends on it, and neither
\* does the run diagram.
WithoutAudit ==
  <<runVars, appVars, pc, locals, executions, crashes, contested>>
=============================================================================
