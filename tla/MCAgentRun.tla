----------------------------- MODULE MCAgentRun -----------------------------
(* Constants of the AgentRun runs: every kind of request, with and without *)
(* something to remember.                                                  *)
EXTENDS AgentRun

AllRequests == [mode : Modes, explicit : BOOLEAN]

(* An interface about two subjects.                                        *)
ResearchRequest == [mode : {"compose_research"}, explicit : {FALSE}]
=============================================================================
