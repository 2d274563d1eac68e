----------------------------- MODULE MCAgentRun -----------------------------
(* TLC's instance of AgentRun: which worker is which does not matter. *)
EXTENDS AgentRun, TLC

WorkerSymmetry == Permutations(Worker)
=============================================================================
