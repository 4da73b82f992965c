--------------------------- MODULE ManagedExecution ---------------------------
(***************************************************************************)
(* What leases and their renewal are for, without leases, calls or clocks: *)
(* the promise managed execution makes to those who submit jobs and to     *)
(* those who work in a worktree.                                           *)
(*                                                                         *)
(*   - A job is granted in numbered attempts, one after the other, and a   *)
(*     job that is done or failed is never granted again.                  *)
(*   - A provider under supervision works on the granted attempt, and no   *)
(*     two work in one worktree.                                           *)
(*   - An attempt is reported, or given up as timed out, only when no      *)
(*     supervised provider works on it any more.                           *)
(*                                                                         *)
(* AgentdWorker implements this module (AgentdWorker!Promise).             *)
(***************************************************************************)
EXTENDS Naturals

CONSTANTS Jobs, WorktreeOf

VARIABLES
    record,    \* record[j]: what a submitter reads of the job
    granted,   \* granted[j]: the number of its latest attempt
    working    \* the attempts <<j, n>> a supervised provider works on

promised == <<record, granted, working>>

Init ==
    /\ record = [j \in Jobs |-> "pending"]
    /\ granted = [j \in Jobs |-> 0]
    /\ working = {}

Attempt(j) == <<j, granted[j]>>

(* Attempts are given up: none of them is being worked on. *)
GivenUp(batch) ==
    \A j \in batch : record[j] = "running" /\ Attempt(j) \notin working

Expire(batch) ==
    /\ batch # {}
    /\ GivenUp(batch)
    /\ record' = [j \in Jobs |-> IF j \in batch THEN "timed_out" ELSE record[j]]
    /\ UNCHANGED <<granted, working>>

(* The grant of a job may give up others, and the job's own last attempt. *)
Grant(j, batch) ==
    /\ GivenUp(batch)
    /\ record[j] \in {"pending", "timed_out"} \/ j \in batch
    /\ record' = [k \in Jobs |-> IF k = j THEN "running"
                                 ELSE IF k \in batch THEN "timed_out" ELSE record[k]]
    /\ granted' = [granted EXCEPT ![j] = @ + 1]
    /\ UNCHANGED working

Enter(j) ==
    /\ record[j] = "running"
    /\ \A p \in working : WorktreeOf[p[1]] # WorktreeOf[j]
    /\ working' = working \cup {Attempt(j)}
    /\ UNCHANGED <<record, granted>>

(* The provider ends, or its supervisor is gone. *)
Leave(p) ==
    /\ p \in working
    /\ working' = working \ {p}
    /\ UNCHANGED <<record, granted>>

Report(j, result) ==
    /\ record[j] = "running"
    /\ Attempt(j) \notin working
    /\ record' = [record EXCEPT ![j] = result]
    /\ UNCHANGED <<granted, working>>

Next ==
    \/ \E batch \in SUBSET Jobs : Expire(batch)
    \/ \E j \in Jobs, batch \in SUBSET Jobs : Grant(j, batch)
    \/ \E j \in Jobs : Enter(j)
    \/ \E p \in working : Leave(p)
    \/ \E j \in Jobs, result \in {"done", "failed", "timed_out"} : Report(j, result)

Spec == Init /\ [][Next]_promised
=============================================================================
