---------------------------- MODULE AgentdWorker ----------------------------
(***************************************************************************)
(* The standalone agentd worker processes (multinexus/agentd/worker.py)    *)
(* against Coordinate: claim a job, check the claim envelope, run the      *)
(* provider under a renewal supervisor, report the result.                 *)
(*                                                                         *)
(* Every Coordinate call is a CLI subprocess of at most CliTimeout         *)
(* (coordinate_client.py:377-386): it is sent, Coordinate commits or       *)
(* rejects it, the reply travels back.  The call may fail at any point, so *)
(* a call that failed may or may not have been committed.                  *)
(*                                                                         *)
(* Time is counted in ticks.  clk[w] is the time spent in the current wait *)
(* of the main task, rclk[w] that of the renewal task.  Code that waits for*)
(* nothing takes no time: Tick is disabled while such a step is due.       *)
(***************************************************************************)
EXTENDS CoordinateRuntime

CONSTANTS
    Workers,             \* agentd processes, of one or of several agents
    NoJob,               \* held by a worker between two jobs
    CliTimeout,          \* bound of one Coordinate CLI call (30 s in the code)
    RenewInterval,       \* renew_interval_seconds of the lease
    SafetyMargin,        \* RENEWAL_SAFETY_MARGIN_SECONDS (5 s)
    PollInterval,        \* wait after an empty or failed claim
    RestartDelay,        \* ThrottleInterval of the service manager
    CancelGrace,         \* bound of terminate_owned_process_group
    CleanupMayFail,      \* can a process group survive SIGKILL
    StraysPossible       \* can providers leave processes besides the leader

ASSUME NoJobAssumption == NoJob \notin Jobs
ASSUME TimerAssumption ==
    /\ CliTimeout \in Nat \ {0}
    /\ RenewInterval \in Nat \ {0}
    /\ SafetyMargin \in Nat
    /\ SafetyMargin < TTL
    /\ PollInterval \in Nat \ {0}
    /\ RestartDelay \in Nat \ {0}
    /\ CancelGrace \in Nat
ASSUME FaultAssumption == CleanupMayFail \in BOOLEAN /\ StraysPossible \in BOOLEAN

VARIABLES
    pc,         \* pc[w]: where the main task of w stands
    recovery,   \* recovery[w]: started with --recoverable
    confirmed,  \* confirmed[w]: the attempts whose process the operator had seen
                \*   stopped when w was started in recovery mode
    job,        \* job[w]: the job of the claim being processed
    tok,        \* tok[w]: its attempt token
    out,        \* out[w]: the status to report, once known
    clk,        \* clk[w]: ticks the main task has waited
    ren,        \* ren[w]: the renewal supervisor of w
    rclk,       \* rclk[w]: ticks the supervisor has waited
    live,       \* the attempts <<j, n>> whose provider is alive: the leader of the
                \*   process group of the call whose result counts
    strays      \* the jobs of which other provider processes are left: group
                \*   members that outlived their leader, a resume that failed

main == <<pc, recovery, confirmed, job, tok, out, clk>>
renewal == <<ren, rclk>>
processes == <<live, strays>>
vars == <<coordinate, main, renewal, processes>>

(* asyncio.wait_for(lease_lost.wait(), min(deadline, now + interval)): the *)
(* deadline is TTL - SafetyMargin after the reply that carried the lease.  *)
Nap == IF RenewInterval < TTL - SafetyMargin THEN RenewInterval
                                             ELSE TTL - SafetyMargin

Stopped == {"down", "exited"}
ClaimCall == {"claim_sent", "claim_served"}
Running == {"executing", "returned", "cancelling"}
Draining == {"draining", "lost_draining"}
ReportCall == {"report_sent", "report_accepted", "report_rejected"}
Phase == Stopped \cup {"idle", "backoff"} \cup ClaimCall \cup Running
            \cup Draining \cup ReportCall
RenewCall == {"sent", "renewed", "rejected"}
RenewalState == {"off", "nap", "lost"} \cup RenewCall

TypeOK ==
    /\ CoordinateTypeOK
    /\ pc \in [Workers -> Phase]
    /\ recovery \in [Workers -> BOOLEAN]
    /\ confirmed \in [Workers -> SUBSET (Jobs \X Nat)]
    /\ job \in [Workers -> Jobs \cup {NoJob}]
    /\ tok \in [Workers -> Nat]
    /\ out \in [Workers -> Reported \cup {"none"}]
    /\ clk \in [Workers -> Nat]
    /\ ren \in [Workers -> RenewalState]
    /\ rclk \in [Workers -> Nat]
    /\ live \subseteq Jobs \X Nat
    /\ strays \subseteq Jobs

Init ==
    /\ CoordinateInit
    /\ pc = [w \in Workers |-> "down"]
    /\ recovery = [w \in Workers |-> FALSE]
    /\ confirmed = [w \in Workers |-> {}]
    /\ job = [w \in Workers |-> NoJob]
    /\ tok = [w \in Workers |-> 0]
    /\ out = [w \in Workers |-> "none"]
    /\ clk = [w \in Workers |-> RestartDelay]
    /\ ren = [w \in Workers |-> "off"]
    /\ rclk = [w \in Workers |-> 0]
    /\ live = {}
    /\ strays = {}

Held(w) == <<job[w], tok[w]>>

(* The main task of w goes to phase p and starts a new wait there. *)
GoTo(w, p) ==
    /\ pc' = [pc EXCEPT ![w] = p]
    /\ clk' = [clk EXCEPT ![w] = 0]

(* The supervisor of w goes to state s and starts a new wait there. *)
RenewalTo(w, s) ==
    /\ ren' = [ren EXCEPT ![w] = s]
    /\ rclk' = [rclk EXCEPT ![w] = 0]

(* w lets go of its job: _process_job returns, or the process ends. *)
Forget(w, p) ==
    /\ GoTo(w, p)
    /\ job' = [job EXCEPT ![w] = NoJob]
    /\ tok' = [tok EXCEPT ![w] = 0]
    /\ out' = [out EXCEPT ![w] = "none"]
    /\ RenewalTo(w, "off")

-----------------------------------------------------------------------------
(* Process life *)

(* The service manager starts (or restarts) an ordinary worker. *)
Start(w) ==
    /\ pc[w] \in Stopped
    /\ clk[w] = RestartDelay
    /\ GoTo(w, "idle")
    /\ recovery' = [recovery EXCEPT ![w] = FALSE]
    /\ confirmed' = [confirmed EXCEPT ![w] = {}]
    /\ UNCHANGED <<coordinate, job, tok, out, renewal, processes>>

(* No provider process of job j is left. *)
Quiet(j) == j \notin strays /\ \A p \in live : p[1] # j

(* The operator starts a recovery worker.  --prior-process-stopped is the  *)
(* truth at this moment: no provider process of a timed out job is left.   *)
StartRecovery(w) ==
    /\ pc[w] \in Stopped
    /\ clk[w] = RestartDelay
    /\ \A j \in Jobs : status[j] = "timed_out" => Quiet(j)
    /\ GoTo(w, "idle")
    /\ recovery' = [recovery EXCEPT ![w] = TRUE]
    /\ confirmed' = [confirmed EXCEPT ![w] =
            {<<j, attempt[j]>> : j \in {k \in Jobs : status[k] = "timed_out"}}]
    /\ UNCHANGED <<coordinate, job, tok, out, renewal, processes>>

(* stop(): the loop ends when no job is being processed. *)
Stop(w) ==
    /\ pc[w] \in {"idle", "backoff"}
    /\ GoTo(w, "down")
    /\ UNCHANGED <<coordinate, recovery, confirmed, job, tok, out, renewal, processes>>

(* The process is killed.  The provider has a session of its own: it dies  *)
(* with its worker where the service manager kills the whole cgroup        *)
(* (systemd), and may live on as an orphan otherwise (launchd).            *)
Crash(w) ==
    /\ pc[w] \notin Stopped
    /\ Forget(w, "down")
    /\ live' \in {live, live \ {Held(w)}}
    /\ UNCHANGED <<coordinate, recovery, confirmed, strays>>

(* A provider process no worker waits for any more ends by itself. *)
OrphanExit(p) ==
    /\ p \in live
    /\ \A w \in Workers : ~(pc[w] \in Running /\ Held(w) = p)
    /\ live' = live \ {p}
    /\ UNCHANGED <<coordinate, main, renewal, strays>>

(* What was left of the providers of a job ends by itself. *)
StrayExit(j) ==
    /\ j \in strays
    /\ strays' = strays \ {j}
    /\ UNCHANGED <<coordinate, main, renewal, live>>

-----------------------------------------------------------------------------
(* The claim loop *)

ClaimSend(w) ==
    /\ \/ pc[w] = "idle"
       \/ pc[w] = "backoff" /\ clk[w] >= PollInterval
    /\ GoTo(w, "claim_sent")
    /\ UNCHANGED <<coordinate, recovery, confirmed, job, tok, out, renewal, processes>>

(* Coordinate commits the claim; reap_mode "none" skips the reap batch. *)
ClaimServe(w) ==
    /\ pc[w] = "claim_sent"
    /\ \E batch \in {Due, {}} :
          \E j \in Claimable(batch, recovery[w]) :
             /\ ClaimJob(j, batch)
             /\ job' = [job EXCEPT ![w] = j]
             /\ tok' = [tok EXCEPT ![w] = attempt[j] + 1]
    /\ pc' = [pc EXCEPT ![w] = "claim_served"]
    /\ UNCHANGED <<recovery, confirmed, out, clk, renewal, processes>>

(* Nothing claimable: the blocker is logged and the worker waits. *)
ClaimNothing(w) ==
    /\ pc[w] = "claim_sent"
    /\ \E batch \in {Due, {}} :
          /\ Claimable(batch, recovery[w]) = {}
          /\ Reap(batch)
    /\ GoTo(w, "backoff")
    /\ UNCHANGED <<recovery, confirmed, job, tok, out, renewal, processes>>

(* The claim call failed; if Coordinate had committed it, the attempt is   *)
(* now held by nobody.                                                     *)
ClaimFail(w) ==
    /\ pc[w] \in ClaimCall
    /\ Forget(w, "backoff")
    /\ UNCHANGED <<coordinate, recovery, confirmed, processes>>

-----------------------------------------------------------------------------
(* Checking the claim envelope *)

(* Mutant of AcceptClaim: the provider starts without a supervisor. *)
AcceptClaimUnsupervised(w) ==
    /\ pc[w] = "claim_served"
    /\ GoTo(w, "executing")
    /\ live' = live \cup {Held(w)}
    /\ UNCHANGED <<coordinate, recovery, confirmed, job, tok, out, renewal, strays>>

(* Lease, payload, binding and context agree: the renewal supervisor and   *)
(* the provider start.                                                     *)
AcceptClaim(w) ==
    /\ pc[w] = "claim_served"
    /\ GoTo(w, "executing")
    /\ RenewalTo(w, "nap")
    /\ live' = live \cup {Held(w)}
    /\ UNCHANGED <<coordinate, recovery, confirmed, job, tok, out, strays>>

(* The lease identity itself cannot be trusted, or a binding comes without *)
(* a lease: no provider and no report.                                     *)
DropClaim(w) ==
    /\ pc[w] = "claim_served"
    /\ Forget(w, "idle")
    /\ UNCHANGED <<coordinate, recovery, confirmed, processes>>

(* Mutant of RefuseClaim: a status Coordinate does not know. *)
RefuseClaimUnknownStatus(w) ==
    /\ pc[w] = "claim_served"
    /\ out' = [out EXCEPT ![w] = "rejected"]
    /\ GoTo(w, "report_sent")
    /\ UNCHANGED <<coordinate, recovery, confirmed, job, tok, renewal, processes>>

(* The lease is trusted but payload, binding or context is not: failed is  *)
(* reported with that lease.                                               *)
RefuseClaim(w) ==
    /\ pc[w] = "claim_served"
    /\ out' = [out EXCEPT ![w] = "failed"]
    /\ GoTo(w, "report_sent")
    /\ UNCHANGED <<coordinate, recovery, confirmed, job, tok, renewal, processes>>

-----------------------------------------------------------------------------
(* The renewal supervisor *)

RenewSend(w) ==
    /\ ren[w] = "nap"
    /\ rclk[w] = Nap
    /\ RenewalTo(w, "sent")
    /\ UNCHANGED <<coordinate, main, processes>>

RenewServe(w) ==
    /\ ren[w] = "sent"
    /\ IF LeaseHeld(job[w], tok[w])
         THEN RenewLease(job[w]) /\ ren' = [ren EXCEPT ![w] = "renewed"]
         ELSE UNCHANGED coordinate /\ ren' = [ren EXCEPT ![w] = "rejected"]
    /\ UNCHANGED <<main, rclk, processes>>

(* The reply carries server_now and expires_at, whose difference is TTL: a *)
(* new deadline and a new wait.                                            *)
RenewReturn(w) ==
    /\ ren[w] = "renewed"
    /\ RenewalTo(w, "nap")
    /\ UNCHANGED <<coordinate, main, processes>>

(* Mutant of RenewFail: a failed renewal is taken for a good one. *)
RenewFailForgiven(w) ==
    /\ ren[w] \in RenewCall
    /\ RenewalTo(w, "nap")
    /\ UNCHANGED <<coordinate, main, processes>>

(* A rejection, a CLI failure or a malformed reply: the lease is lost. *)
RenewFail(w) ==
    /\ ren[w] \in RenewCall
    /\ RenewalTo(w, "lost")
    /\ UNCHANGED <<coordinate, main, processes>>

-----------------------------------------------------------------------------
(* The provider, and what the main task makes of the first to finish *)

(* Mutant of ProviderReturn: the adapter does not wait for the leader. *)
ProviderReturnUnjoined(w) ==
    /\ pc[w] = "executing"
    /\ \E s \in Reported : out' = [out EXCEPT ![w] = s]
    /\ GoTo(w, "returned")
    /\ UNCHANGED <<coordinate, recovery, confirmed, job, tok, renewal, processes>>

(* The adapter returns with the leader gone.  A timeout ends the whole     *)
(* group before it is reported; the other paths wait for the leader only,  *)
(* and other members of the group may live on.                             *)
ProviderReturn(w) ==
    /\ pc[w] = "executing"
    /\ \E s \in Reported :
          /\ out' = [out EXCEPT ![w] = s]
          /\ \/ strays' = strays
             \/ StraysPossible /\ s # "timed_out" /\ strays' = strays \cup {job[w]}
    /\ live' = live \ {Held(w)}
    /\ GoTo(w, "returned")
    /\ UNCHANGED <<coordinate, recovery, confirmed, job, tok, renewal>>

(* An error in the result event: the adapter returns at once, and neither  *)
(* waits for the leader nor ends the group.                                *)
ResultAbandons(w) ==
    /\ pc[w] = "executing"
    /\ out' = [out EXCEPT ![w] = "failed"]
    /\ GoTo(w, "returned")
    /\ UNCHANGED <<coordinate, recovery, confirmed, job, tok, renewal, processes>>

(* The session could not be resumed: a fresh call follows in the same      *)
(* attempt, whatever the first one has left.                               *)
ResumeFails(w) ==
    /\ StraysPossible
    /\ pc[w] = "executing"
    /\ strays' = strays \cup {job[w]}
    /\ UNCHANGED <<coordinate, main, renewal, live>>

(* Mutant of ProviderSurvives: the failed cleanup is swallowed. *)
ProviderSurvivesUnseen(w) ==
    /\ CleanupMayFail
    /\ pc[w] = "executing"
    /\ out' = [out EXCEPT ![w] = "done"]
    /\ GoTo(w, "returned")
    /\ UNCHANGED <<coordinate, recovery, confirmed, job, tok, renewal, processes>>

(* The adapter's own timeout fires, and the process group outlives SIGKILL:*)
(* terminate_owned_process_group raises, the result is an Agent error.     *)
ProviderSurvives(w) ==
    /\ CleanupMayFail
    /\ pc[w] = "executing"
    /\ out' = [out EXCEPT ![w] = "failed"]
    /\ GoTo(w, "returned")
    /\ UNCHANGED <<coordinate, recovery, confirmed, job, tok, renewal, processes>>

(* The provider finished first: the supervisor is cancelled and joined     *)
(* (a renewal still under way in its thread has reached Coordinate or not).*)
Finish(w) ==
    /\ pc[w] = "returned"
    /\ ren[w] # "lost"
    /\ RenewalTo(w, "off")
    /\ GoTo(w, "draining")
    /\ UNCHANGED <<coordinate, recovery, confirmed, job, tok, out, processes>>

(* The lease was lost: a provider still running is cancelled. *)
CancelProvider(w) ==
    /\ pc[w] = "executing"
    /\ ren[w] = "lost"
    /\ GoTo(w, "cancelling")
    /\ UNCHANGED <<coordinate, recovery, confirmed, job, tok, out, renewal, processes>>

(* The lease was lost but the provider had just returned: its result is    *)
(* dropped all the same.                                                   *)
DiscardResult(w) ==
    /\ pc[w] = "returned"
    /\ ren[w] = "lost"
    /\ GoTo(w, "lost_draining")
    /\ out' = [out EXCEPT ![w] = "none"]
    /\ UNCHANGED <<coordinate, recovery, confirmed, job, tok, renewal, processes>>

(* Mutant of ProviderJoined: the cancelled provider is reported as failed. *)
ProviderJoinedReports(w) ==
    /\ pc[w] = "cancelling"
    /\ live' = live \ {Held(w)}
    /\ out' = [out EXCEPT ![w] = "failed"]
    /\ GoTo(w, "draining")
    /\ UNCHANGED <<coordinate, recovery, confirmed, job, tok, renewal, strays>>

(* The cancelled provider is joined, the process group of its call gone. *)
ProviderJoined(w) ==
    /\ pc[w] = "cancelling"
    /\ live' = live \ {Held(w)}
    /\ GoTo(w, "lost_draining")
    /\ UNCHANGED <<coordinate, recovery, confirmed, job, tok, out, renewal, strays>>

(* The process group outlives SIGKILL: the join raises RuntimeError, which *)
(* except Exception turns into an Agent error result on the normal path.   *)
JoinRaises(w) ==
    /\ CleanupMayFail
    /\ pc[w] = "cancelling"
    /\ out' = [out EXCEPT ![w] = "failed"]
    /\ GoTo(w, "draining")
    /\ UNCHANGED <<coordinate, recovery, confirmed, job, tok, renewal, processes>>

-----------------------------------------------------------------------------
(* After the provider: progress calls are awaited, then the report *)

(* The outstanding progress calls of a lost lease are awaited; no report. *)
Abandon(w) ==
    /\ pc[w] = "lost_draining"
    /\ Forget(w, "idle")
    /\ UNCHANGED <<coordinate, recovery, confirmed, processes>>

ReportSend(w) ==
    /\ pc[w] = "draining"
    /\ GoTo(w, "report_sent")
    /\ UNCHANGED <<coordinate, recovery, confirmed, job, tok, out, renewal, processes>>

ReportServe(w) ==
    /\ pc[w] = "report_sent"
    /\ IF LeaseHeld(job[w], tok[w])
         THEN /\ AcceptReport(job[w], out[w])
              /\ pc' = [pc EXCEPT ![w] = "report_accepted"]
         ELSE /\ UNCHANGED coordinate
              /\ pc' = [pc EXCEPT ![w] = "report_rejected"]
    /\ UNCHANGED <<recovery, confirmed, job, tok, out, clk, renewal, processes>>

ReportReturn(w) ==
    /\ pc[w] = "report_accepted"
    /\ Forget(w, "idle")
    /\ UNCHANGED <<coordinate, recovery, confirmed, processes>>

(* Mutant of ReportRaises: a report is retried until it is accepted. *)
ReportRetries(w) ==
    /\ pc[w] \in ReportCall
    /\ GoTo(w, "draining")
    /\ UNCHANGED <<coordinate, recovery, confirmed, job, tok, out, renewal, processes>>

(* A rejected or failed report raises CoordinateRuntimeError: run() has no *)
(* handler around _process_job, and the process ends.                      *)
ReportRaises(w) ==
    /\ pc[w] \in ReportCall
    /\ Forget(w, "exited")
    /\ UNCHANGED <<coordinate, recovery, confirmed, processes>>

-----------------------------------------------------------------------------
(* Coordinate's reaper timer, and time *)

ReaperTick(j) ==
    /\ j \in Due
    /\ Reap({j})
    /\ UNCHANGED <<main, renewal, processes>>

Waiting(w) ==
    \/ pc[w] \in ClaimCall \cup Draining \cup ReportCall
                    \cup {"backoff", "cancelling"}
    \/ pc[w] \in Stopped /\ clk[w] < RestartDelay

(* Mutant of Patient: a claim call has no timeout of its own. *)
PatientClaimUnbounded(w) ==
    /\ pc[w] \in Draining \cup ReportCall => clk[w] < CliTimeout
    /\ pc[w] = "cancelling" => clk[w] < CancelGrace
    /\ pc[w] = "backoff" => clk[w] < PollInterval
    /\ pc[w] \notin {"idle", "returned"}
    /\ ~(pc[w] = "executing" /\ ren[w] = "lost")
    /\ ren[w] = "nap" => rclk[w] < Nap
    /\ ren[w] \in RenewCall => rclk[w] < CliTimeout

(* No step of w is overdue: time may pass for it. *)
Patient(w) ==
    /\ pc[w] \in ClaimCall \cup Draining \cup ReportCall => clk[w] < CliTimeout
    /\ pc[w] = "cancelling" => clk[w] < CancelGrace
    /\ pc[w] = "backoff" => clk[w] < PollInterval
    /\ pc[w] \notin {"idle", "returned"}
    /\ ~(pc[w] = "executing" /\ ren[w] = "lost")
    /\ ren[w] = "nap" => rclk[w] < Nap
    /\ ren[w] \in RenewCall => rclk[w] < CliTimeout

Tick ==
    /\ \A w \in Workers : Patient(w)
    /\ LeasesAge
    /\ clk' = [w \in Workers |-> IF Waiting(w) THEN clk[w] + 1 ELSE clk[w]]
    /\ rclk' = [w \in Workers |-> IF ren[w] \in RenewCall \cup {"nap"}
                                    THEN rclk[w] + 1 ELSE rclk[w]]
    /\ UNCHANGED <<status, attempt, lease, pc, recovery, confirmed, job, tok,
                   out, ren, live, strays>>

WorkerStep(w) ==
    \/ Start(w) \/ StartRecovery(w) \/ Stop(w) \/ Crash(w)
    \/ ClaimSend(w) \/ ClaimServe(w) \/ ClaimNothing(w) \/ ClaimFail(w)
    \/ AcceptClaim(w) \/ DropClaim(w) \/ RefuseClaim(w)
    \/ RenewSend(w) \/ RenewServe(w) \/ RenewReturn(w) \/ RenewFail(w)
    \/ ProviderReturn(w) \/ ResultAbandons(w) \/ ResumeFails(w)
    \/ ProviderSurvives(w) \/ Finish(w)
    \/ CancelProvider(w) \/ DiscardResult(w) \/ ProviderJoined(w) \/ JoinRaises(w)
    \/ Abandon(w) \/ ReportSend(w) \/ ReportServe(w)
    \/ ReportReturn(w) \/ ReportRaises(w)

Next ==
    \/ \E w \in Workers : WorkerStep(w)
    \/ \E p \in live : OrphanExit(p)
    \/ \E j \in Jobs : StrayExit(j)
    \/ \E j \in Jobs : ReaperTick(j)
    \/ Tick

Spec == Init /\ [][Next]_vars

-----------------------------------------------------------------------------
(* Safety *)

(* w has a provider process running that it supervises. *)
Supervised(w) == pc[w] \in Running /\ Held(w) \in live

(* The lease outlives the provider: as long as a worker supervises a       *)
(* running provider, Coordinate holds the exact lease of that attempt      *)
(* active and unexpired (worker.py:427-475, the point of the supervisor).  *)
LeaseOutlivesProvider ==
    \A w \in Workers : Supervised(w) => LeaseHeld(job[w], tok[w])

(* Two supervised providers never run in the same worktree at a time.      *)
WorktreeExclusion ==
    \A v, w \in Workers :
        /\ v # w
        /\ Supervised(v)
        /\ Supervised(w)
        => WorktreeOf[job[v]] # WorktreeOf[job[w]]

(* A report is the worker's last word on an attempt: when it is sent the   *)
(* renewal supervisor has been joined, and lost no lease, and the provider *)
(* (the leader of its last call) is gone, unless failed is what the report *)
(* says (worker.py:461-511, 543-550; adapters/claude.py:238-243 returns an *)
(* error without waiting).                                                 *)
ReportFollowsJoin ==
    \A w \in Workers : pc[w] \in ReportCall =>
        /\ ren[w] = "off"
        /\ Held(w) \in live => out[w] = "failed"

(* A lease is released, and the worktree thereby given to the next job,    *)
(* with the provider (the leader of its last call) still alive only where  *)
(* the job is recorded as failed: done and timed_out attempts have stopped *)
(* (worker.py:912-918, adapters/utils.py:39-130).  Group members that      *)
(* outlive their leader are not covered: no adapter looks for them on its  *)
(* normal path (claude.py:246, omp.py:104).                                *)
ReleasedMeansStopped ==
    \A j \in Jobs :
        lease[j] = "released" /\ <<j, attempt[j]>> \in live => status[j] = "failed"

(* What the operator confirmed of an attempt stays true as long as it is   *)
(* the job's latest: no process of the job is started, and none turns up,  *)
(* after --prior-process-stopped was given (worker.py:231-240, 427-475;    *)
(* p9-3b plan.md:264-267).                                                 *)
EvidenceStaysTrue ==
    \A w \in Workers, j \in Jobs : <<j, attempt[j]>> \in confirmed[w] => Quiet(j)

(* One attempt is processed by one worker: the attempt token identifies    *)
(* the process that may report it (worker.py:231-240).                     *)
OneHolderPerAttempt ==
    \A v, w \in Workers :
        job[v] # NoJob /\ Held(v) = Held(w) => v = w

(* The attempts a supervised provider works on. *)
Working == {p \in live : \E w \in Workers : pc[w] \in Running /\ Held(w) = p}

(* The worker, its supervisor and Coordinate's leases implement what       *)
(* managed execution promises: one supervised provider in a worktree, an   *)
(* attempt reported or timed out only when none works on it, and one       *)
(* report of each (worker.py:427-556).                                     *)
Promise == INSTANCE ManagedExecution WITH record <- status, granted <- attempt,
                                          working <- Working
PromiseKept == Promise!Spec

-----------------------------------------------------------------------------
(* Statements of the documentation that the code does not keep *)

(* "All failure modes ... are normalized into a bounded                    *)
(* CoordinateRuntimeError so the agentd loop can back off instead of       *)
(* spinning or crashing" (coordinate_client.py:373-376).                   *)
LoopSurvivesCliFailure == \A w \in Workers : pc[w] # "exited"

(* "Authoritative lease loss: cancel provider and do not report normally." *)
(* (worker.py:463), of any renewal that failed: "authoritative rejection or*)
(* transport failure marks the lease lost" (worker.py:568-570).            *)
LostLeaseIsSilent ==
    \A w \in Workers : pc[w] \in ReportCall => ren[w] # "lost"

(* "For a managed expired attempt, recovery additionally requires an       *)
(* audited Operator reason and explicit confirmation that the prior        *)
(* provider process/session is stopped" (p9-3b plan.md:264-267): an expired*)
(* attempt is taken over with its provider stopped.  What the operator     *)
(* confirms is true when given (StartRecovery), so a takeover that finds a *)
(* process alive is one nobody confirmed.                                  *)
RecoveryFindsProviderStopped ==
    [][\A j \in Jobs : lease[j] = "expired" /\ status'[j] = "running" => Quiet(j)]_vars

-----------------------------------------------------------------------------
(* The invariants the proofs rest on *)

(* The phases in which a worker holds the attempt of a claim, and those in *)
(* which the status to report is known.                                    *)
Holding == {"claim_served"} \cup Running \cup Draining \cup ReportCall
Settled == {"returned", "draining"} \cup ReportCall

PhaseInv ==
    \A w \in Workers :
        /\ job[w] # NoJob <=> pc[w] \in Holding
        /\ pc[w] \in Settled => out[w] \in Reported
        /\ pc[w] \notin Settled => out[w] = "none"
        /\ ren[w] # "off" => pc[w] \in Holding

(* A held attempt was really made, and no provider is of a later one.      *)
TokenInv ==
    /\ \A w \in Workers : job[w] # NoJob => tok[w] \in 1..attempt[job[w]]
    /\ \A p \in live : p[2] \in 1..attempt[p[1]]

(* A released lease leaves its holder nothing but the reply to wait for.   *)
ReleaseInv ==
    /\ \A w \in Workers :
          job[w] # NoJob /\ tok[w] = attempt[job[w]] /\ lease[job[w]] = "released"
             => pc[w] = "report_accepted"
    /\ \A w \in Workers :
          pc[w] = "claim_served" => Held(w) \notin live
    /\ \A w \in Workers :
          pc[w] \in Settled /\ Held(w) \in live => out[w] = "failed"
    /\ ReleasedMeansStopped

(* Unless a process group can survive SIGKILL, whatever is reported is     *)
(* reported without a supervisor.                                          *)
JoinInv ==
    \A w \in Workers :
        pc[w] \in {"claim_served", "draining"} \cup ReportCall => ren[w] = "off"

(* Confirmed attempts were made; the latest of a job has timed out, and no *)
(* process of the job is left.                                             *)
EvidenceInv ==
    /\ \A w \in Workers : \A c \in confirmed[w] : c[2] <= attempt[c[1]]
    /\ \A w \in Workers, j \in Jobs :
          <<j, attempt[j]>> \in confirmed[w] => status[j] = "timed_out"
    /\ EvidenceStaysTrue

(* How much of the lease is left, at least, at each point of the renewal   *)
(* cycle.                                                                  *)
LeftAtLeast(w, t) == LeaseHeld(job[w], tok[w]) /\ left[job[w]] >= t

TimingInv ==
    \A w \in Workers :
        /\ pc[w] \in ClaimCall => clk[w] <= CliTimeout
        /\ ren[w] = "nap" => rclk[w] <= Nap
        /\ ren[w] \in RenewCall => rclk[w] <= CliTimeout
        /\ pc[w] = "cancelling" => clk[w] <= CancelGrace
        /\ pc[w] = "claim_served" => LeftAtLeast(w, TTL - clk[w])
        /\ pc[w] \in {"executing", "returned"} =>
              /\ ren[w] \in {"nap", "sent", "renewed", "lost"}
              /\ ren[w] = "nap" => LeftAtLeast(w, TTL - CliTimeout - rclk[w])
              /\ ren[w] = "sent" => LeftAtLeast(w, TTL - CliTimeout - Nap - rclk[w])
              /\ ren[w] = "renewed" => LeftAtLeast(w, TTL - rclk[w])
              /\ ren[w] = "lost" => LeftAtLeast(w, TTL - 2 * CliTimeout - Nap)
        /\ pc[w] = "cancelling" =>
              /\ ren[w] = "lost"
              /\ LeftAtLeast(w, TTL - 2 * CliTimeout - Nap - clk[w])

(* One worktree, one active lease. *)
LeaseExclusion ==
    \A j, k \in Jobs :
        lease[j] = "active" /\ lease[k] = "active" /\ WorktreeOf[j] = WorktreeOf[k]
            => j = k

(* The policy under which the supervisor protects the worktree: a reply    *)
(* late by CliTimeout, a full wait, a renewal that fails late, and the     *)
(* cancellation all fit into one TTL.  Production: 30 + 30 + 30 + 6 < 120. *)
SoundPolicy == 2 * CliTimeout + Nap + CancelGrace < TTL

(* The strengthening the theorems of AgentdWorkerProofs rest on, as one    *)
(* invariant: phases, tokens, releases and the time left of each lease     *)
(* agree (worker.py:427-556).                                              *)
IndInv ==
    /\ PhaseInv
    /\ TokenInv
    /\ ReleaseInv
    /\ ~CleanupMayFail => JoinInv
    /\ SoundPolicy => TimingInv /\ EvidenceInv
    /\ LeaseExclusion

-----------------------------------------------------------------------------
(* Liveness *)

(* What the scheduling gives: time passes; calls, providers and joins end  *)
(* within their timeouts; the event loop resumes a task that can go on; the*)
(* reaper timer fires.  Crash, Stop and the restart of a process are not   *)
(* promised.                                                               *)
FairSpec ==
    /\ Spec
    /\ SF_vars(Tick)
    /\ \A j \in Jobs : WF_vars(ReaperTick(j))
    /\ \A w \in Workers :
          /\ WF_vars(ClaimSend(w))
          /\ WF_vars(ClaimServe(w) \/ ClaimNothing(w) \/ ClaimFail(w))
          /\ WF_vars(AcceptClaim(w) \/ DropClaim(w) \/ RefuseClaim(w))
          /\ WF_vars(RenewSend(w))
          /\ WF_vars(RenewServe(w) \/ RenewReturn(w) \/ RenewFail(w))
          /\ WF_vars(ProviderReturn(w) \/ ResultAbandons(w))
          /\ WF_vars(Finish(w) \/ CancelProvider(w) \/ DiscardResult(w))
          /\ WF_vars(ProviderJoined(w))
          /\ WF_vars(Abandon(w) \/ ReportSend(w))
          /\ WF_vars(ReportServe(w) \/ ReportReturn(w) \/ ReportRaises(w))

(* No attempt stays running for ever, whichever process or call dies on    *)
(* the way: it is reported or reaped.                                      *)
RunningEnds ==
    \A j \in Jobs : status[j] = "running" ~> status[j] # "running"

(* Every claim a worker has received is done with: reported, dropped or    *)
(* abandoned, or the worker itself is gone (worker.py:197-556 returns).    *)
WorkerFreed == \A w \in Workers : job[w] # NoJob ~> job[w] = NoJob
=============================================================================
