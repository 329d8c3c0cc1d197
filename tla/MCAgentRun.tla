----------------------------- MODULE MCAgentRun -----------------------------
(* AgentRun on small instances: a tool that acts, a human decision, and two *)
(* tools that are parallel-safe, one of which holds a lock.                 *)
EXTENDS AgentRun

CONSTANTS act, ask, show, edit

MCLocks == [t \in Tools |-> IF t = edit THEN {"lock"} ELSE {}]

=============================================================================
