------------------------- MODULE CoordinateRuntime -------------------------
(***************************************************************************)
(* The job queue and lease table an agentd worker talks to.  Coordinate is *)
(* another repository: this module is external, and says no more than what *)
(* multinexus/agentd/coordinate_client.py sends, what worker.py relies on  *)
(* in the replies, and what the runtime-lease plan of this repository      *)
(* (docs/project-harness/tasks/p9-3b-runtime-lease-wiring/plan.md, 5 to 8) *)
(* fixes as the contract.                                                  *)
(*                                                                         *)
(* Every claim makes a new attempt of the job with one lease, so a lease   *)
(* is identified by its job and attempt and only the lease of the current  *)
(* attempt is kept.  Time is a count-down: left[j] is the number of ticks  *)
(* before expires_at of that lease while it is active.  Each operator is   *)
(* one write transaction: the next state of all four variables.            *)
(***************************************************************************)
EXTENDS Integers

CONSTANTS
    Jobs,          \* the submitted jobs
    WorktreeOf,    \* the worktree (lease resource) each job runs in
    TTL,           \* ttl_seconds of a lease, in ticks
    MaxAttempts    \* bound: attempts made of one job

ASSUME TTLAssumption == TTL \in Nat \ {0}
ASSUME MaxAttemptsAssumption == MaxAttempts \in Nat \ {0}

VARIABLES
    status,        \* status[j]: the job row's status
    attempt,       \* attempt[j]: the attempt token of the latest claim, 0 before
    lease,         \* lease[j]: the state of that attempt's lease row
    left           \* left[j]: ticks until that lease's expires_at

coordinate == <<status, attempt, lease, left>>

Finished == {"done", "failed"}
Reported == {"done", "failed", "timed_out"}
JobStatus == {"pending", "running"} \cup Reported
LeaseState == {"none", "active", "released", "expired"}

CoordinateTypeOK ==
    /\ status \in [Jobs -> JobStatus]
    /\ attempt \in [Jobs -> Nat]
    /\ lease \in [Jobs -> LeaseState]
    /\ left \in [Jobs -> 0..TTL]

CoordinateInit ==
    /\ status = [j \in Jobs |-> "pending"]
    /\ attempt = [j \in Jobs |-> 0]
    /\ lease = [j \in Jobs |-> "none"]
    /\ left = [j \in Jobs |-> 0]

(* Leases past expires_at that no reap has touched yet. *)
Due == {j \in Jobs : lease[j] = "active" /\ left[j] = 0}

(* Mutant of LeaseHeld: any attempt of the job will do. *)
LeaseHeldAnyAttempt(j, n) ==
    /\ status[j] = "running"
    /\ lease[j] = "active"
    /\ left[j] > 0

(* The fence every managed call passes: the exact active, unexpired lease  *)
(* of the running attempt.                                                 *)
LeaseHeld(j, n) ==
    /\ status[j] = "running"
    /\ attempt[j] = n
    /\ lease[j] = "active"
    /\ left[j] > 0

(* Mutant of Reap: the lease expires alone and its job stays running. *)
ReapLeaseOnly(batch) ==
    /\ lease' = [j \in Jobs |-> IF j \in batch THEN "expired" ELSE lease[j]]
    /\ UNCHANGED <<status, attempt, left>>

(* Reaping is the only authority from active to expired; the job becomes   *)
(* timed_out and recoverable with it.                                      *)
Reap(batch) ==
    /\ status' = [j \in Jobs |-> IF j \in batch THEN "timed_out" ELSE status[j]]
    /\ lease' = [j \in Jobs |-> IF j \in batch THEN "expired" ELSE lease[j]]
    /\ UNCHANGED <<attempt, left>>

(* What a claim may pick once its reap batch is done: pending jobs, in     *)
(* recovery mode also timed_out ones, whose worktree no active lease holds.*)
Claimable(batch, recoverable) ==
    {j \in Jobs :
        /\ \/ status[j] = "pending"
           \/ recoverable /\ (status[j] = "timed_out" \/ j \in batch)
        /\ attempt[j] < MaxAttempts
        /\ \A k \in Jobs \ batch :
              lease[k] = "active" => WorktreeOf[k] # WorktreeOf[j]}

(* Mutant of ClaimJob: a recovered job keeps its attempt token. *)
ClaimJobSameAttempt(j, batch) ==
    /\ status' = [k \in Jobs |-> IF k = j THEN "running"
                                 ELSE IF k \in batch THEN "timed_out"
                                 ELSE status[k]]
    /\ lease' = [k \in Jobs |-> IF k = j THEN "active"
                                ELSE IF k \in batch THEN "expired"
                                ELSE lease[k]]
    /\ attempt' = [attempt EXCEPT ![j] = IF @ = 0 THEN 1 ELSE @]
    /\ left' = [left EXCEPT ![j] = TTL]

(* Claim j after reaping batch: attempt N + 1 and a new lease. *)
ClaimJob(j, batch) ==
    /\ status' = [k \in Jobs |-> IF k = j THEN "running"
                                 ELSE IF k \in batch THEN "timed_out"
                                 ELSE status[k]]
    /\ lease' = [k \in Jobs |-> IF k = j THEN "active"
                                ELSE IF k \in batch THEN "expired"
                                ELSE lease[k]]
    /\ attempt' = [attempt EXCEPT ![j] = @ + 1]
    /\ left' = [left EXCEPT ![j] = TTL]

(* Renewal advances expires_at of a held lease to one TTL from now. *)
RenewLease(j) ==
    /\ left' = [left EXCEPT ![j] = TTL]
    /\ UNCHANGED <<status, attempt, lease>>

(* A terminal report stores the result and releases the lease together. *)
AcceptReport(j, result) ==
    /\ status' = [status EXCEPT ![j] = result]
    /\ lease' = [lease EXCEPT ![j] = "released"]
    /\ left' = [left EXCEPT ![j] = 0]
    /\ UNCHANGED attempt

(* One tick of the Coordinate clock. *)
LeasesAge == left' = [j \in Jobs |-> IF left[j] > 0 THEN left[j] - 1 ELSE 0]
=============================================================================
