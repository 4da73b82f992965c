--------------------------- MODULE MCAgentdWorker ---------------------------
(* Small instances of AgentdWorker for TLC. *)
EXTENDS AgentdWorker, TLC

CONSTANTS w1, w2, j1, j2, tree

TwoWorkers == {w1, w2}
OneWorker == {w1}
TwoJobs == {j1, j2}
OneJob == {j1}

(* Every job runs in the same worktree: the case where exclusion matters. *)
SharedTwo == [j \in TwoJobs |-> tree]
SharedOne == [j \in OneJob |-> tree]

WorkersAndJobs == Permutations(TwoWorkers) \cup Permutations(TwoJobs)
=============================================================================
