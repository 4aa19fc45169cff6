----------------------------- MODULE MCAgentRun -----------------------------
\* A run with up to two model steps of up to two parallel calls.
EXTENDS AgentRun
=============================================================================
