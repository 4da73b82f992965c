------------------------- MODULE AgentdWorkerProofs -------------------------
(***************************************************************************)
(* Theorems about the agentd worker, for every set of workers and jobs and *)
(* every timer policy the assumptions admit.                               *)
(***************************************************************************)
EXTENDS AgentdWorker, TLAPS

USE NoJobAssumption, TTLAssumption, MaxAttemptsAssumption, TimerAssumption,
    FaultAssumption

(* The values the variables take, with the phases that make them so: a     *)
(* provider is started, and a result reported, only for a claim in hand.   *)
TypeInv == TypeOK /\ PhaseInv

LEMMA TypeInvInit == Init => TypeInv
BY DEF Init, TypeInv, TypeOK, PhaseInv, CoordinateTypeOK, CoordinateInit,
       Phase, Stopped, ClaimCall, Running, Draining, ReportCall, RenewCall,
       RenewalState, Reported, JobStatus, LeaseState, Holding, Settled

(* What a committed claim does, with the job and the reap batch named.     *)
LEMMA ClaimServed ==
    ASSUME NEW w \in Workers, ClaimServe(w)
    PROVE  \E batch \in {Due, {}}, j \in Jobs :
              /\ j \in Claimable(batch, recovery[w])
              /\ ClaimJob(j, batch)
              /\ job' = [job EXCEPT ![w] = j]
              /\ tok' = [tok EXCEPT ![w] = attempt[j] + 1]
BY DEF ClaimServe, Claimable

LEMMA TypeInvWorker ==
    ASSUME TypeInv, NEW w \in Workers, WorkerStep(w)
    PROVE  TypeInv'
<1> USE DEF TypeInv, TypeOK, PhaseInv, CoordinateTypeOK, Phase, Stopped, ClaimCall,
        Running, Draining, ReportCall, RenewCall, RenewalState, Reported,
        JobStatus, LeaseState, Holding, Settled, GoTo, RenewalTo, Forget, Held,
        coordinate, main, renewal, processes
<1>1. CASE Start(w) BY <1>1 DEF Start
<1>2. CASE StartRecovery(w) BY <1>2 DEF StartRecovery
<1>3. CASE Stop(w) BY <1>3 DEF Stop
<1>4. CASE Crash(w) BY <1>4 DEF Crash
<1>5. CASE ClaimSend(w) BY <1>5 DEF ClaimSend
<1>6. CASE ClaimServe(w)
  <2>1. PICK batch \in {Due, {}}, j \in Jobs :
           /\ ClaimJob(j, batch)
           /\ job' = [job EXCEPT ![w] = j]
           /\ tok' = [tok EXCEPT ![w] = attempt[j] + 1]
    BY <1>6, ClaimServed
  <2>. /\ pc[w] = "claim_sent"
       /\ pc' = [pc EXCEPT ![w] = "claim_served"]
       /\ UNCHANGED <<recovery, confirmed, out, clk, ren, rclk, live, strays>>
    BY <1>6 DEF ClaimServe
  <2>2. CoordinateTypeOK'
    BY <2>1 DEF ClaimJob
  <2>3. TypeOK'
    BY <2>1, <2>2
  <2>4. PhaseInv'
    BY <2>1
  <2>. QED BY <2>3, <2>4
<1>7. CASE ClaimNothing(w) BY <1>7 DEF ClaimNothing, Reap
<1>8. CASE ClaimFail(w) BY <1>8 DEF ClaimFail
<1>9. CASE AcceptClaim(w) BY <1>9 DEF AcceptClaim
<1>10. CASE DropClaim(w) BY <1>10 DEF DropClaim
<1>11. CASE RefuseClaim(w) BY <1>11 DEF RefuseClaim
<1>12. CASE RenewSend(w) BY <1>12 DEF RenewSend
<1>13. CASE RenewServe(w) BY <1>13 DEF RenewServe, RenewLease
<1>14. CASE RenewReturn(w) BY <1>14 DEF RenewReturn
<1>15. CASE RenewFail(w) BY <1>15 DEF RenewFail
<1>16. CASE ProviderReturn(w) BY <1>16 DEF ProviderReturn
<1>17. CASE ProviderSurvives(w) BY <1>17 DEF ProviderSurvives
<1>18. CASE Finish(w) BY <1>18 DEF Finish
<1>19. CASE CancelProvider(w) BY <1>19 DEF CancelProvider
<1>20. CASE DiscardResult(w) BY <1>20 DEF DiscardResult
<1>21. CASE ProviderJoined(w) BY <1>21 DEF ProviderJoined
<1>22. CASE JoinRaises(w) BY <1>22 DEF JoinRaises
<1>23. CASE Abandon(w) BY <1>23 DEF Abandon
<1>24. CASE ReportSend(w) BY <1>24 DEF ReportSend
<1>25. CASE ReportServe(w)
  <2>. /\ pc[w] = "report_sent"
       /\ UNCHANGED <<recovery, confirmed, job, tok, out, clk, ren, rclk, live, strays>>
    BY <1>25 DEF ReportServe
  <2>1. \/ pc' = [pc EXCEPT ![w] = "report_accepted"]
       \/ pc' = [pc EXCEPT ![w] = "report_rejected"]
    BY <1>25 DEF ReportServe
  <2>2. CASE LeaseHeld(job[w], tok[w])
    <3>1. AcceptReport(job[w], out[w])
      BY <1>25, <2>2 DEF ReportServe
    <3>2. job[w] \in Jobs /\ out[w] \in Reported
      OBVIOUS
    <3>3. CoordinateTypeOK'
      BY <3>1, <3>2 DEF AcceptReport
    <3>. QED BY <2>1, <3>3
  <2>3. CASE ~LeaseHeld(job[w], tok[w])
    <3>1. UNCHANGED coordinate
      BY <1>25, <2>3 DEF ReportServe
    <3>. QED BY <2>1, <3>1
  <2>. QED BY <2>2, <2>3
<1>26. CASE ReportReturn(w) BY <1>26 DEF ReportReturn
<1>27. CASE ReportRaises(w) BY <1>27 DEF ReportRaises
<1>28. CASE ResultAbandons(w) BY <1>28 DEF ResultAbandons
<1>29. CASE ResumeFails(w) BY <1>29 DEF ResumeFails
<1>. QED BY <1>1, <1>2, <1>3, <1>4, <1>5, <1>6, <1>7, <1>8, <1>9, <1>10,
            <1>11, <1>12, <1>13, <1>14, <1>15, <1>16, <1>17, <1>18, <1>19,
            <1>20, <1>21, <1>22, <1>23, <1>24, <1>25, <1>26, <1>27, <1>28,
            <1>29
         DEF WorkerStep

LEMMA TypeInvNext == TypeInv /\ [Next]_vars => TypeInv'
<1> SUFFICES ASSUME TypeInv, [Next]_vars PROVE TypeInv'
  OBVIOUS
<1> USE DEF TypeInv, TypeOK, PhaseInv, CoordinateTypeOK
<1>1. ASSUME NEW w \in Workers, WorkerStep(w) PROVE TypeInv'
  BY <1>1, TypeInvWorker
<1>2. ASSUME NEW p \in live, OrphanExit(p) PROVE TypeInv'
  BY <1>2 DEF OrphanExit, coordinate, main, renewal
<1>3. ASSUME NEW j \in Jobs, ReaperTick(j) PROVE TypeInv'
  BY <1>3 DEF ReaperTick, Reap, main, renewal, processes, JobStatus, LeaseState, Reported
<1>4. ASSUME Tick PROVE TypeInv'
  BY <1>4 DEF Tick, LeasesAge
<1>5. CASE UNCHANGED vars
  BY <1>5 DEF vars, coordinate, main, renewal, processes
<1>6. ASSUME NEW j \in Jobs, StrayExit(j) PROVE TypeInv'
  BY <1>6 DEF StrayExit, coordinate, main, renewal
<1>. QED BY <1>1, <1>2, <1>3, <1>4, <1>5, <1>6 DEF Next

(* Every variable keeps its type (TypeOK), and a worker holds a claim      *)
(* exactly in the phases from the claim's reply to the report's            *)
(* (worker.py:138-148, 197-556).                                           *)
THEOREM TypeCorrect == Spec => [](TypeOK /\ PhaseInv)
<1>1. Spec => []TypeInv
  BY TypeInvInit, TypeInvNext, PTL DEF Spec
<1>. QED BY <1>1, PTL DEF TypeInv

-----------------------------------------------------------------------------
(* Attempts and their holders *)

HolderInv == TokenInv /\ OneHolderPerAttempt

LEMMA HolderInvInit == Init => HolderInv
BY DEF Init, HolderInv, TokenInv, OneHolderPerAttempt, CoordinateInit

(* Nothing is claimed and no provider starts: the holders of before, or    *)
(* fewer, remain.                                                          *)
LEMMA HolderInvKept ==
    ASSUME TypeInv, HolderInv, UNCHANGED attempt, live' \subseteq live,
           \A v \in Workers : \/ job'[v] = NoJob
                              \/ job'[v] = job[v] /\ tok'[v] = tok[v]
    PROVE  HolderInv'
BY DEF TypeInv, TypeOK, CoordinateTypeOK, HolderInv, TokenInv, OneHolderPerAttempt,
       Held

LEMMA ForgetLetsGo ==
    ASSUME TypeInv, NEW w \in Workers, NEW p, Forget(w, p)
    PROVE  \A v \in Workers : \/ job'[v] = NoJob
                              \/ job'[v] = job[v] /\ tok'[v] = tok[v]
BY DEF TypeInv, TypeOK, Forget

LEMMA HolderInvWorker ==
    ASSUME TypeInv, HolderInv, NEW w \in Workers, WorkerStep(w)
    PROVE  HolderInv'
<1> USE DEF TypeInv, TypeOK, PhaseInv, CoordinateTypeOK, GoTo, RenewalTo,
        coordinate, main, renewal, processes
<1>1. CASE ClaimServe(w)
  <2>1. PICK batch \in {Due, {}}, j \in Jobs :
           /\ ClaimJob(j, batch)
           /\ job' = [job EXCEPT ![w] = j]
           /\ tok' = [tok EXCEPT ![w] = attempt[j] + 1]
    BY <1>1, ClaimServed
  <2>2. live' = live
    BY <1>1 DEF ClaimServe
  <2>3. attempt' = [attempt EXCEPT ![j] = attempt[j] + 1]
    BY <2>1 DEF ClaimJob
  <2>4. TokenInv'
    BY <2>1, <2>2, <2>3 DEF HolderInv, TokenInv
  <2>5. ASSUME NEW v \in Workers, v # w, job[v] = j PROVE tok[v] # attempt[j] + 1
    BY <2>5 DEF HolderInv, TokenInv
  <2>6. OneHolderPerAttempt'
    BY <2>1, <2>5 DEF HolderInv, OneHolderPerAttempt, Held
  <2>. QED BY <2>4, <2>6 DEF HolderInv
<1>2. CASE AcceptClaim(w)
  <2>1. /\ live' = live \cup {Held(w)}
        /\ UNCHANGED <<job, tok, attempt>>
    BY <1>2 DEF AcceptClaim
  <2>2. job[w] # NoJob
    BY <1>2 DEF AcceptClaim, Holding
  <2>. QED BY <2>1, <2>2 DEF HolderInv, TokenInv, OneHolderPerAttempt, Held
<1>3. CASE Start(w) BY <1>3, HolderInvKept DEF Start
<1>4. CASE StartRecovery(w) BY <1>4, HolderInvKept DEF StartRecovery
<1>5. CASE Stop(w) BY <1>5, HolderInvKept DEF Stop
<1>6. CASE Crash(w) BY <1>6, HolderInvKept, ForgetLetsGo DEF Crash
<1>7. CASE ClaimSend(w) BY <1>7, HolderInvKept DEF ClaimSend
<1>8. CASE ClaimNothing(w) BY <1>8, HolderInvKept DEF ClaimNothing, Reap
<1>9. CASE ClaimFail(w) BY <1>9, HolderInvKept, ForgetLetsGo DEF ClaimFail
<1>10. CASE DropClaim(w) BY <1>10, HolderInvKept, ForgetLetsGo DEF DropClaim
<1>11. CASE RefuseClaim(w) BY <1>11, HolderInvKept DEF RefuseClaim
<1>12. CASE RenewSend(w) BY <1>12, HolderInvKept DEF RenewSend
<1>13. CASE RenewServe(w) BY <1>13, HolderInvKept DEF RenewServe, RenewLease
<1>14. CASE RenewReturn(w) BY <1>14, HolderInvKept DEF RenewReturn
<1>15. CASE RenewFail(w) BY <1>15, HolderInvKept DEF RenewFail
<1>16. CASE ProviderReturn(w) BY <1>16, HolderInvKept DEF ProviderReturn
<1>17. CASE ProviderSurvives(w) BY <1>17, HolderInvKept DEF ProviderSurvives
<1>18. CASE Finish(w) BY <1>18, HolderInvKept DEF Finish
<1>19. CASE CancelProvider(w) BY <1>19, HolderInvKept DEF CancelProvider
<1>20. CASE DiscardResult(w) BY <1>20, HolderInvKept DEF DiscardResult
<1>21. CASE ProviderJoined(w) BY <1>21, HolderInvKept DEF ProviderJoined
<1>22. CASE JoinRaises(w) BY <1>22, HolderInvKept DEF JoinRaises
<1>23. CASE Abandon(w) BY <1>23, HolderInvKept, ForgetLetsGo DEF Abandon
<1>24. CASE ReportSend(w) BY <1>24, HolderInvKept DEF ReportSend
<1>25. CASE ReportServe(w) BY <1>25, HolderInvKept DEF ReportServe, AcceptReport
<1>26. CASE ReportReturn(w) BY <1>26, HolderInvKept, ForgetLetsGo DEF ReportReturn
<1>27. CASE ReportRaises(w) BY <1>27, HolderInvKept, ForgetLetsGo DEF ReportRaises
<1>28. CASE ResultAbandons(w) BY <1>28, HolderInvKept DEF ResultAbandons
<1>29. CASE ResumeFails(w) BY <1>29, HolderInvKept DEF ResumeFails
<1>. QED BY <1>1, <1>2, <1>3, <1>4, <1>5, <1>6, <1>7, <1>8, <1>9, <1>10,
            <1>11, <1>12, <1>13, <1>14, <1>15, <1>16, <1>17, <1>18, <1>19,
            <1>20, <1>21, <1>22, <1>23, <1>24, <1>25, <1>26, <1>27, <1>28,
            <1>29
         DEF WorkerStep

LEMMA HolderInvNext == TypeInv /\ HolderInv /\ [Next]_vars => HolderInv'
<1> SUFFICES ASSUME TypeInv, HolderInv, [Next]_vars PROVE HolderInv'
  OBVIOUS
<1>1. ASSUME NEW w \in Workers, WorkerStep(w) PROVE HolderInv'
  BY <1>1, HolderInvWorker
<1>2. ASSUME NEW p \in live, OrphanExit(p) PROVE HolderInv'
  BY <1>2, HolderInvKept DEF OrphanExit, coordinate, main
<1>3. ASSUME NEW j \in Jobs, ReaperTick(j) PROVE HolderInv'
  BY <1>3, HolderInvKept DEF ReaperTick, Reap, main, processes
<1>4. ASSUME Tick PROVE HolderInv'
  BY <1>4, HolderInvKept DEF Tick
<1>5. CASE UNCHANGED vars
  BY <1>5, HolderInvKept DEF vars, coordinate, main, processes
<1>6. ASSUME NEW j \in Jobs, StrayExit(j) PROVE HolderInv'
  BY <1>6, HolderInvKept DEF StrayExit, coordinate, main
<1>. QED BY <1>1, <1>2, <1>3, <1>4, <1>5, <1>6 DEF Next

(* An attempt token names one worker: a claim makes a token nobody holds,  *)
(* and nothing but a claim hands one out (worker.py:231-240).              *)
THEOREM HolderCorrect == Spec => [](TokenInv /\ OneHolderPerAttempt)
<1>1. Spec => [](TypeInv /\ HolderInv)
  BY TypeInvInit, TypeInvNext, HolderInvInit, HolderInvNext, PTL DEF Spec
<1>. QED BY <1>1, PTL DEF HolderInv

-----------------------------------------------------------------------------
(* A released attempt has stopped, or the job is failed *)

LEMMA ReleaseInvInit == Init => ReleaseInv
BY DEF Init, ReleaseInv, ReleasedMeansStopped, CoordinateInit

LEMMA ReleaseInvWorker ==
    ASSUME TypeInv, HolderInv, ReleaseInv, NEW w \in Workers, WorkerStep(w)
    PROVE  ReleaseInv'
<1> USE DEF TypeInv, TypeOK, PhaseInv, CoordinateTypeOK, Holding, Settled,
        Running, Draining, ReportCall, Reported, GoTo, RenewalTo, Forget, Held,
        coordinate, main, renewal, processes, HolderInv, TokenInv, OneHolderPerAttempt,
        ReleaseInv, ReleasedMeansStopped
<1>1. CASE Start(w) BY <1>1 DEF Start, Stopped
<1>2. CASE StartRecovery(w) BY <1>2 DEF StartRecovery, Stopped
<1>3. CASE Stop(w) BY <1>3 DEF Stop
<1>4. CASE Crash(w) BY <1>4 DEF Crash
<1>5. CASE ClaimSend(w) BY <1>5 DEF ClaimSend
<1>6. CASE ClaimServe(w) BY <1>6 DEF ClaimServe, ClaimJob, Claimable, Due
<1>7. CASE ClaimNothing(w) BY <1>7 DEF ClaimNothing, Reap, Due
<1>8. CASE ClaimFail(w) BY <1>8 DEF ClaimFail
<1>9. CASE AcceptClaim(w) BY <1>9 DEF AcceptClaim
<1>10. CASE DropClaim(w) BY <1>10 DEF DropClaim
<1>11. CASE RefuseClaim(w) BY <1>11 DEF RefuseClaim
<1>12. CASE RenewSend(w) BY <1>12 DEF RenewSend
<1>13. CASE RenewServe(w) BY <1>13 DEF RenewServe, RenewLease, LeaseHeld
<1>14. CASE RenewReturn(w) BY <1>14 DEF RenewReturn
<1>15. CASE RenewFail(w) BY <1>15 DEF RenewFail
<1>16. CASE ProviderReturn(w) BY <1>16 DEF ProviderReturn
<1>17. CASE ProviderSurvives(w) BY <1>17 DEF ProviderSurvives
<1>18. CASE Finish(w) BY <1>18 DEF Finish
<1>19. CASE CancelProvider(w) BY <1>19 DEF CancelProvider
<1>20. CASE DiscardResult(w) BY <1>20 DEF DiscardResult
<1>21. CASE ProviderJoined(w) BY <1>21 DEF ProviderJoined
<1>22. CASE JoinRaises(w) BY <1>22 DEF JoinRaises
<1>23. CASE Abandon(w) BY <1>23 DEF Abandon
<1>24. CASE ReportSend(w) BY <1>24 DEF ReportSend
<1>25. CASE ReportServe(w)
  <2>. /\ pc[w] = "report_sent"
       /\ UNCHANGED <<job, tok, out, live>>
    BY <1>25 DEF ReportServe
  <2>1. CASE LeaseHeld(job[w], tok[w])
    <3>1. /\ AcceptReport(job[w], out[w])
          /\ pc' = [pc EXCEPT ![w] = "report_accepted"]
      BY <1>25, <2>1 DEF ReportServe
    <3>2. tok[w] = attempt[job[w]] /\ job[w] \in Jobs
      BY <2>1 DEF LeaseHeld
    <3>3. ReleasedMeansStopped'
      BY <3>1, <3>2 DEF AcceptReport
    <3>. QED BY <3>1, <3>2, <3>3 DEF AcceptReport
  <2>2. CASE ~LeaseHeld(job[w], tok[w])
    BY <1>25, <2>2 DEF ReportServe
  <2>. QED BY <2>1, <2>2
<1>26. CASE ReportReturn(w) BY <1>26 DEF ReportReturn
<1>27. CASE ReportRaises(w) BY <1>27 DEF ReportRaises
<1>28. CASE ResultAbandons(w) BY <1>28 DEF ResultAbandons
<1>29. CASE ResumeFails(w) BY <1>29 DEF ResumeFails
<1>. QED BY <1>1, <1>2, <1>3, <1>4, <1>5, <1>6, <1>7, <1>8, <1>9, <1>10,
            <1>11, <1>12, <1>13, <1>14, <1>15, <1>16, <1>17, <1>18, <1>19,
            <1>20, <1>21, <1>22, <1>23, <1>24, <1>25, <1>26, <1>27, <1>28,
            <1>29
         DEF WorkerStep

LEMMA ReleaseInvNext ==
    TypeInv /\ HolderInv /\ ReleaseInv /\ [Next]_vars => ReleaseInv'
<1> SUFFICES ASSUME TypeInv, HolderInv, ReleaseInv, [Next]_vars
             PROVE  ReleaseInv'
  OBVIOUS
<1> USE DEF ReleaseInv, ReleasedMeansStopped, Held
<1>1. ASSUME NEW w \in Workers, WorkerStep(w) PROVE ReleaseInv'
  BY <1>1, ReleaseInvWorker
<1>2. ASSUME NEW p \in live, OrphanExit(p) PROVE ReleaseInv'
  BY <1>2 DEF OrphanExit, coordinate, main
<1>3. ASSUME NEW j \in Jobs, ReaperTick(j) PROVE ReleaseInv'
  BY <1>3 DEF ReaperTick, Reap, Due, main, processes, TypeInv, TypeOK, CoordinateTypeOK
<1>4. ASSUME Tick PROVE ReleaseInv'
  BY <1>4 DEF Tick
<1>5. CASE UNCHANGED vars
  BY <1>5 DEF vars, coordinate, main, processes
<1>6. ASSUME NEW j \in Jobs, StrayExit(j) PROVE ReleaseInv'
  BY <1>6 DEF StrayExit, coordinate, main
<1>. QED BY <1>1, <1>2, <1>3, <1>4, <1>5, <1>6 DEF Next

(* A lease is released with the provider of that attempt still alive only  *)
(* where the job is recorded as failed, whatever crashed, was lost or was  *)
(* reaped on the way and even where a process group may survive SIGKILL    *)
(* (worker.py:912-918, adapters/claude.py:238-243).                        *)
THEOREM ReleaseCorrect == Spec => []ReleasedMeansStopped
<1>1. Spec => [](TypeInv /\ HolderInv /\ ReleaseInv)
  BY TypeInvInit, TypeInvNext, HolderInvInit, HolderInvNext, ReleaseInvInit,
     ReleaseInvNext, PTL DEF Spec
<1>2. ReleaseInv => ReleasedMeansStopped
  BY DEF ReleaseInv
<1>. QED BY <1>1, <1>2, PTL

-----------------------------------------------------------------------------
(* Where SIGKILL ends a process group, the report follows the provider's end *)

LEMMA JoinInvInit == Init => JoinInv
BY DEF Init, JoinInv, ReportCall

LEMMA JoinInvWorker ==
    ASSUME TypeInv, HolderInv, ReleaseInv, JoinInv, ~CleanupMayFail, NEW w \in Workers, WorkerStep(w)
    PROVE  JoinInv'
<1> USE DEF TypeInv, TypeOK, PhaseInv, CoordinateTypeOK, Holding, Settled,
        Running, Draining, ReportCall, GoTo, RenewalTo, Forget, Held,
        coordinate, main, renewal, processes, HolderInv, TokenInv, OneHolderPerAttempt,
        ReleaseInv, JoinInv
<1>1. CASE Start(w) BY <1>1 DEF Start
<1>2. CASE StartRecovery(w) BY <1>2 DEF StartRecovery
<1>3. CASE Stop(w) BY <1>3 DEF Stop
<1>4. CASE Crash(w) BY <1>4 DEF Crash
<1>5. CASE ClaimSend(w) BY <1>5 DEF ClaimSend
<1>6. CASE ClaimServe(w) BY <1>6 DEF ClaimServe, ClaimJob, Claimable, Due
<1>7. CASE ClaimNothing(w) BY <1>7 DEF ClaimNothing, Reap, Due
<1>8. CASE ClaimFail(w) BY <1>8 DEF ClaimFail
<1>9. CASE AcceptClaim(w) BY <1>9 DEF AcceptClaim
<1>10. CASE DropClaim(w) BY <1>10 DEF DropClaim
<1>11. CASE RefuseClaim(w) BY <1>11 DEF RefuseClaim
<1>12. CASE RenewSend(w) BY <1>12 DEF RenewSend
<1>13. CASE RenewServe(w) BY <1>13 DEF RenewServe, RenewLease, LeaseHeld
<1>14. CASE RenewReturn(w) BY <1>14 DEF RenewReturn
<1>15. CASE RenewFail(w) BY <1>15 DEF RenewFail, RenewCall
<1>16. CASE ProviderReturn(w) BY <1>16 DEF ProviderReturn
<1>17. CASE ProviderSurvives(w) BY <1>17 DEF ProviderSurvives
<1>18. CASE Finish(w) BY <1>18 DEF Finish
<1>19. CASE CancelProvider(w) BY <1>19 DEF CancelProvider
<1>20. CASE DiscardResult(w) BY <1>20 DEF DiscardResult
<1>21. CASE ProviderJoined(w) BY <1>21 DEF ProviderJoined
<1>22. CASE JoinRaises(w) BY <1>22 DEF JoinRaises
<1>23. CASE Abandon(w) BY <1>23 DEF Abandon
<1>24. CASE ReportSend(w) BY <1>24 DEF ReportSend
<1>25. CASE ReportServe(w) BY <1>25 DEF ReportServe, AcceptReport, LeaseHeld
<1>26. CASE ReportReturn(w) BY <1>26 DEF ReportReturn
<1>27. CASE ReportRaises(w) BY <1>27 DEF ReportRaises
<1>28. CASE ResultAbandons(w) BY <1>28 DEF ResultAbandons
<1>29. CASE ResumeFails(w) BY <1>29 DEF ResumeFails
<1>. QED BY <1>1, <1>2, <1>3, <1>4, <1>5, <1>6, <1>7, <1>8, <1>9, <1>10,
            <1>11, <1>12, <1>13, <1>14, <1>15, <1>16, <1>17, <1>18, <1>19,
            <1>20, <1>21, <1>22, <1>23, <1>24, <1>25, <1>26, <1>27, <1>28,
            <1>29
         DEF WorkerStep

LEMMA JoinInvNext ==
    ASSUME ~CleanupMayFail
    PROVE  TypeInv /\ HolderInv /\ ReleaseInv /\ JoinInv /\ [Next]_vars => JoinInv'
<1> SUFFICES ASSUME TypeInv, HolderInv, ReleaseInv, JoinInv, [Next]_vars
             PROVE  JoinInv'
  OBVIOUS
<1> USE DEF JoinInv, Held
<1>1. ASSUME NEW w \in Workers, WorkerStep(w) PROVE JoinInv'
  BY <1>1, JoinInvWorker
<1>2. ASSUME NEW p \in live, OrphanExit(p) PROVE JoinInv'
  BY <1>2 DEF OrphanExit, coordinate, main, renewal
<1>3. ASSUME NEW j \in Jobs, ReaperTick(j) PROVE JoinInv'
  BY <1>3 DEF ReaperTick, Reap, Due, main, renewal, TypeInv, TypeOK,
              CoordinateTypeOK
<1>4. ASSUME Tick PROVE JoinInv'
  BY <1>4 DEF Tick
<1>5. CASE UNCHANGED vars
  BY <1>5 DEF vars, coordinate, main, renewal, processes
<1>6. ASSUME NEW j \in Jobs, StrayExit(j) PROVE JoinInv'
  BY <1>6 DEF StrayExit, coordinate, main, renewal
<1>. QED BY <1>1, <1>2, <1>3, <1>4, <1>5, <1>6 DEF Next

(* Unless a process group can survive SIGKILL, a report is sent only after *)
(* the supervisor has been joined, and with the provider alive only if it  *)
(* says failed (worker.py:461-511, 543-550).                               *)
THEOREM ReportCorrect ==
    ASSUME ~CleanupMayFail
    PROVE  Spec => []ReportFollowsJoin
<1>1. Spec => [](TypeInv /\ HolderInv /\ ReleaseInv /\ JoinInv)
  BY TypeInvInit, TypeInvNext, HolderInvInit, HolderInvNext, ReleaseInvInit,
     ReleaseInvNext, JoinInvInit, JoinInvNext, PTL DEF Spec
<1>2. ReleaseInv /\ JoinInv => ReportFollowsJoin
  BY DEF ReleaseInv, JoinInv, ReportFollowsJoin, Settled
<1>. QED BY <1>1, <1>2, PTL

-----------------------------------------------------------------------------
(* Time: the lease outlives the provider *)

TimedInv == TimingInv /\ LeaseExclusion

LEMMA TimedInvInit == Init => TimedInv
BY DEF Init, TimedInv, TimingInv, LeaseExclusion, CoordinateInit, ClaimCall,
       RenewCall

LEMMA TimedInvWorker ==
    ASSUME TypeInv, HolderInv, TimedInv, SoundPolicy, NEW w \in Workers, WorkerStep(w)
    PROVE  TimedInv'
<1> USE DEF TypeInv, TypeOK, PhaseInv, CoordinateTypeOK, Holding, Settled,
        Running, Draining, ClaimCall, ReportCall, RenewCall, RenewalState,
        GoTo, RenewalTo, Forget, Held, coordinate, main, renewal, processes, HolderInv,
        TokenInv, OneHolderPerAttempt, TimedInv, TimingInv, LeaseExclusion,
        LeftAtLeast, LeaseHeld, SoundPolicy, Nap
<1>1. CASE Start(w) BY <1>1 DEF Start
<1>2. CASE StartRecovery(w) BY <1>2 DEF StartRecovery
<1>3. CASE Stop(w) BY <1>3 DEF Stop
<1>4. CASE Crash(w) BY <1>4 DEF Crash
<1>5. CASE ClaimSend(w) BY <1>5 DEF ClaimSend
<1>6. CASE ClaimServe(w) BY <1>6 DEF ClaimServe, ClaimJob, Claimable, Due
<1>7. CASE ClaimNothing(w) BY <1>7 DEF ClaimNothing, Reap, Due
<1>8. CASE ClaimFail(w) BY <1>8 DEF ClaimFail
<1>9. CASE AcceptClaim(w) BY <1>9 DEF AcceptClaim
<1>10. CASE DropClaim(w) BY <1>10 DEF DropClaim
<1>11. CASE RefuseClaim(w) BY <1>11 DEF RefuseClaim
<1>12. CASE RenewSend(w) BY <1>12 DEF RenewSend
<1>13. CASE RenewServe(w)
  <2>1. CASE LeaseHeld(job[w], tok[w])
    <3>1. /\ left' = [left EXCEPT ![job[w]] = TTL]
          /\ ren' = [ren EXCEPT ![w] = "renewed"]
          /\ ren[w] = "sent"
          /\ UNCHANGED <<status, attempt, lease, pc, job, tok, clk, rclk>>
      BY <1>13, <2>1 DEF RenewServe, RenewLease
    <3>2. ASSUME NEW v \in Workers, NEW t \in Int, t <= TTL, LeftAtLeast(v, t)
          PROVE  LeftAtLeast(v, t)'
      BY <3>1, <3>2
    <3>3. job[w] \in Jobs
      BY <3>1
    <3>4. LeftAtLeast(w, TTL)'
      BY <2>1, <3>1, <3>3
    <3>5. TimingInv'
      BY <3>1, <3>2, <3>4
    <3>6. LeaseExclusion'
      BY <3>1
    <3>. QED BY <3>5, <3>6
  <2>2. CASE ~LeaseHeld(job[w], tok[w])
    BY <1>13, <2>2 DEF RenewServe
  <2>. QED BY <2>1, <2>2
<1>14. CASE RenewReturn(w) BY <1>14 DEF RenewReturn
<1>15. CASE RenewFail(w) BY <1>15 DEF RenewFail
<1>16. CASE ProviderReturn(w) BY <1>16 DEF ProviderReturn
<1>17. CASE ProviderSurvives(w) BY <1>17 DEF ProviderSurvives
<1>18. CASE Finish(w) BY <1>18 DEF Finish
<1>19. CASE CancelProvider(w) BY <1>19 DEF CancelProvider
<1>20. CASE DiscardResult(w) BY <1>20 DEF DiscardResult
<1>21. CASE ProviderJoined(w) BY <1>21 DEF ProviderJoined
<1>22. CASE JoinRaises(w) BY <1>22 DEF JoinRaises
<1>23. CASE Abandon(w) BY <1>23 DEF Abandon
<1>24. CASE ReportSend(w) BY <1>24 DEF ReportSend
<1>25. CASE ReportServe(w)
  <2>1. CASE LeaseHeld(job[w], tok[w])
    <3>1. /\ status' = [status EXCEPT ![job[w]] = out[w]]
          /\ lease' = [lease EXCEPT ![job[w]] = "released"]
          /\ left' = [left EXCEPT ![job[w]] = 0]
          /\ pc' = [pc EXCEPT ![w] = "report_accepted"]
          /\ pc[w] = "report_sent"
          /\ UNCHANGED <<attempt, job, tok, clk, ren, rclk>>
      BY <1>25, <2>1 DEF ReportServe, AcceptReport
    <3>2. ASSUME NEW v \in Workers, v # w, job[v] # NoJob, NEW t \in Int,
                 LeftAtLeast(v, t)
          PROVE  LeftAtLeast(v, t)'
      BY <2>1, <3>1, <3>2
    <3>3. TimingInv'
      BY <3>1, <3>2
    <3>4. LeaseExclusion'
      BY <3>1
    <3>. QED BY <3>3, <3>4
  <2>2. CASE ~LeaseHeld(job[w], tok[w])
    BY <1>25, <2>2 DEF ReportServe
  <2>. QED BY <2>1, <2>2
<1>26. CASE ReportReturn(w) BY <1>26 DEF ReportReturn
<1>27. CASE ReportRaises(w) BY <1>27 DEF ReportRaises
<1>28. CASE ResultAbandons(w) BY <1>28 DEF ResultAbandons
<1>29. CASE ResumeFails(w) BY <1>29 DEF ResumeFails
<1>. QED BY <1>1, <1>2, <1>3, <1>4, <1>5, <1>6, <1>7, <1>8, <1>9, <1>10,
            <1>11, <1>12, <1>13, <1>14, <1>15, <1>16, <1>17, <1>18, <1>19,
            <1>20, <1>21, <1>22, <1>23, <1>24, <1>25, <1>26, <1>27, <1>28,
            <1>29
         DEF WorkerStep

(* Time passes: every lower bound falls with the lease, and Patient keeps  *)
(* each of them positive.                                                  *)
LEMMA TimedInvTick ==
    ASSUME TypeInv, TimedInv, SoundPolicy, Tick
    PROVE  TimedInv'
<1> USE DEF TypeInv, TypeOK, PhaseInv, CoordinateTypeOK, TimedInv
<1>1. ASSUME NEW v \in Workers, NEW t \in Int, t > 1, job[v] \in Jobs,
             LeftAtLeast(v, t)
      PROVE  LeftAtLeast(v, t - 1)'
  BY <1>1 DEF Tick, LeasesAge, LeftAtLeast, LeaseHeld
<1>2. TimingInv'
  <2> SUFFICES ASSUME NEW w \in Workers
               PROVE  TimingInv!(w)'
    BY DEF TimingInv
  <2> USE DEF Holding, Running, Draining, ClaimCall, ReportCall, RenewCall,
          SoundPolicy, Nap, Stopped
  <2>1. /\ Patient(w) /\ UNCHANGED <<pc, job, tok, ren>>
        /\ clk'[w] = IF Waiting(w) THEN clk[w] + 1 ELSE clk[w]
        /\ rclk'[w] = IF ren[w] \in RenewCall \cup {"nap"} THEN rclk[w] + 1 ELSE rclk[w]
    BY DEF Tick
  <2>2. /\ pc[w] \in ClaimCall => clk'[w] <= CliTimeout
        /\ ren[w] = "nap" => rclk'[w] <= Nap
        /\ ren[w] \in RenewCall => rclk'[w] <= CliTimeout
        /\ pc[w] = "cancelling" => clk'[w] <= CancelGrace
    BY <2>1 DEF Patient, TimingInv, Waiting
  <2>3. CASE pc[w] = "claim_served"
    <3>1. clk'[w] = clk[w] + 1 /\ clk'[w] <= CliTimeout
      BY <2>1, <2>2, <2>3 DEF Waiting
    <3>2. LeftAtLeast(w, TTL - clk[w])
      BY <2>3 DEF TimingInv
    <3>3. TTL - clk[w] \in Int /\ TTL - clk[w] > 1 /\ job[w] \in Jobs
      BY <2>3, <3>1
    <3>4. LeftAtLeast(w, TTL - clk[w])'
      BY <1>1, <3>1, <3>2, <3>3 DEF LeftAtLeast
    <3>. QED BY <2>1, <2>2, <2>3, <3>4
  <2>4. CASE pc[w] = "executing"
    <3>1. CASE ren[w] = "nap"
      BY <1>1, <2>1, <2>2, <2>4, <3>1 DEF TimingInv
    <3>2. CASE ren[w] = "sent"
      BY <1>1, <2>1, <2>2, <2>4, <3>2 DEF TimingInv
    <3>3. CASE ren[w] = "renewed"
      BY <1>1, <2>1, <2>2, <2>4, <3>3 DEF TimingInv
    <3>. QED BY <2>1, <2>4, <3>1, <3>2, <3>3 DEF TimingInv, Patient
  <2>5. CASE pc[w] = "cancelling"
    BY <1>1, <2>1, <2>2, <2>5 DEF TimingInv, Waiting
  <2>6. CASE pc[w] \notin {"claim_served", "executing", "cancelling"}
    BY <2>1, <2>2, <2>6 DEF Patient
  <2>. QED BY <2>3, <2>4, <2>5, <2>6
<1>3. LeaseExclusion'
  BY DEF Tick, LeaseExclusion
<1>. QED BY <1>2, <1>3

LEMMA TimedInvNext ==
    ASSUME SoundPolicy
    PROVE  TypeInv /\ HolderInv /\ TimedInv /\ [Next]_vars => TimedInv'
<1> SUFFICES ASSUME TypeInv, HolderInv, TimedInv, [Next]_vars
             PROVE  TimedInv'
  OBVIOUS
<1> USE DEF TimedInv, TimingInv, LeaseExclusion, LeftAtLeast, LeaseHeld
<1>1. ASSUME NEW w \in Workers, WorkerStep(w) PROVE TimedInv'
  BY <1>1, TimedInvWorker
<1>2. ASSUME NEW p \in live, OrphanExit(p) PROVE TimedInv'
  BY <1>2 DEF OrphanExit, coordinate, main, renewal
<1>3. ASSUME NEW j \in Jobs, ReaperTick(j) PROVE TimedInv'
  <2>1. ASSUME NEW v \in Workers, NEW t \in Int, job[v] \in Jobs,
               LeftAtLeast(v, t)
        PROVE  LeftAtLeast(v, t)'
    BY <1>3, <2>1 DEF ReaperTick, Reap, Due, main, processes, TypeInv, TypeOK,
                      CoordinateTypeOK
  <2>2. UNCHANGED <<pc, clk, ren, rclk>>
    BY <1>3 DEF ReaperTick, main, renewal
  <2>3. TimingInv'
    BY <2>1, <2>2 DEF TypeInv, TypeOK, PhaseInv, Holding, Running, Nap
  <2>4. LeaseExclusion'
    BY <1>3 DEF ReaperTick, Reap
  <2>. QED BY <2>3, <2>4
<1>4. ASSUME Tick PROVE TimedInv'
  BY <1>4, TimedInvTick
<1>5. CASE UNCHANGED vars
  BY <1>5 DEF vars, coordinate, main, renewal, processes
<1>6. ASSUME NEW j \in Jobs, StrayExit(j) PROVE TimedInv'
  BY <1>6 DEF StrayExit, coordinate, main, renewal
<1>. QED BY <1>1, <1>2, <1>3, <1>4, <1>5, <1>6 DEF Next

(* Under a policy whose TTL covers a late reply, a full wait, a late       *)
(* failure and the cancellation, the lease outlives the provider and two   *)
(* supervised providers never share a worktree (worker.py:427-475,         *)
(* 558-651).                                                               *)
THEOREM ExclusionCorrect ==
    ASSUME SoundPolicy
    PROVE  Spec => [](LeaseOutlivesProvider /\ WorktreeExclusion)
<1>1. Spec => [](TypeInv /\ HolderInv /\ TimedInv)
  BY TypeInvInit, TypeInvNext, HolderInvInit, HolderInvNext, TimedInvInit,
     TimedInvNext, PTL DEF Spec
<1>2. TypeInv /\ TimedInv => LeaseOutlivesProvider
  BY DEF TimedInv, TimingInv, LeaseOutlivesProvider, Supervised, Running,
         LeftAtLeast
<1>3. TypeInv /\ HolderInv /\ TimedInv => WorktreeExclusion
  <2> SUFFICES ASSUME TypeInv, HolderInv, TimedInv,
                      NEW v \in Workers, NEW w \in Workers,
                      v # w, Supervised(v), Supervised(w),
                      WorktreeOf[job[v]] = WorktreeOf[job[w]]
               PROVE  FALSE
    BY DEF WorktreeExclusion
  <2>1. /\ job[v] \in Jobs /\ LeaseHeld(job[v], tok[v])
        /\ job[w] \in Jobs /\ LeaseHeld(job[w], tok[w])
    BY <1>2 DEF LeaseOutlivesProvider, Supervised, TypeInv, TypeOK, PhaseInv,
                Holding
  <2>2. job[v] = job[w]
    BY <2>1 DEF TimedInv, LeaseExclusion, LeaseHeld
  <2>3. Held(v) = Held(w)
    BY <2>1, <2>2 DEF LeaseHeld, Held
  <2>. QED BY <2>1, <2>3 DEF HolderInv, OneHolderPerAttempt
<1>. QED BY <1>1, <1>2, <1>3, PTL

-----------------------------------------------------------------------------
(* The evidence of a recovery worker *)

LEMMA EvidenceInvInit == Init => EvidenceInv
BY DEF Init, EvidenceInv, EvidenceStaysTrue

(* Under a sound policy a worker that may start a provider, or has one,    *)
(* holds the lease of a running attempt.                                   *)
LEMMA StarterHolds ==
    ASSUME TypeInv, TimedInv, SoundPolicy, NEW w \in Workers,
           pc[w] \in {"claim_served", "executing"}
    PROVE  job[w] \in Jobs /\ LeaseHeld(job[w], tok[w])
BY DEF TypeInv, TypeOK, PhaseInv, Holding, Running, TimedInv, TimingInv, LeftAtLeast

(* No confirmation is given, no attempt is renewed and no job with a       *)
(* confirmed attempt gets a process: the evidence stands.                  *)
LEMMA EvidenceKept ==
    ASSUME TypeInv, EvidenceInv,
           \A v \in Workers : confirmed'[v] \subseteq confirmed[v],
           UNCHANGED attempt,
           \A j \in Jobs : status[j] = "timed_out" => status'[j] = "timed_out",
           \A p \in live' \ live : status[p[1]] # "timed_out",
           \A j \in strays' \ strays : status[j] # "timed_out"
    PROVE  EvidenceInv'
BY DEF TypeInv, TypeOK, CoordinateTypeOK, EvidenceInv, EvidenceStaysTrue, Quiet

LEMMA EvidenceInvWorker ==
    ASSUME TypeInv, TimedInv, EvidenceInv, SoundPolicy, NEW w \in Workers,
           WorkerStep(w)
    PROVE  EvidenceInv'
<1> USE DEF TypeInv, TypeOK, CoordinateTypeOK, GoTo, RenewalTo, Forget,
        coordinate, main, renewal, processes
<1>1. CASE StartRecovery(w)
  BY <1>1 DEF StartRecovery, EvidenceInv, EvidenceStaysTrue, Quiet
<1>2. CASE ClaimServe(w)
  <2>1. PICK batch \in {Due, {}}, j \in Jobs : ClaimJob(j, batch)
    BY <1>2, ClaimServed
  <2>2. UNCHANGED <<confirmed, live, strays>>
    BY <1>2 DEF ClaimServe
  <2>3. attempt' = [attempt EXCEPT ![j] = attempt[j] + 1]
    BY <2>1 DEF ClaimJob
  <2>4. \A k \in Jobs \ {j} : status[k] = "timed_out" => status'[k] = "timed_out"
    BY <2>1 DEF ClaimJob
  <2>5. \A v \in Workers : <<j, attempt[j] + 1>> \notin confirmed[v]
    BY DEF EvidenceInv
  <2>6. \A v \in Workers : \A c \in confirmed'[v] : c[2] <= attempt'[c[1]]
    BY <2>2, <2>3 DEF EvidenceInv
  <2>. QED BY <2>2, <2>3, <2>4, <2>5, <2>6 DEF EvidenceInv, EvidenceStaysTrue, Quiet
<1>3. CASE AcceptClaim(w)
  <2>1. status[job[w]] = "running"
    BY <1>3, StarterHolds DEF AcceptClaim, LeaseHeld
  <2>. QED BY <1>3, <2>1, EvidenceKept DEF AcceptClaim, Held
<1>4. CASE ProviderReturn(w)
  <2>1. status[job[w]] = "running"
    BY <1>4, StarterHolds DEF ProviderReturn, LeaseHeld
  <2>. QED BY <1>4, <2>1, EvidenceKept DEF ProviderReturn
<1>5. CASE ResumeFails(w)
  <2>1. status[job[w]] = "running"
    BY <1>5, StarterHolds DEF ResumeFails, LeaseHeld
  <2>. QED BY <1>5, <2>1, EvidenceKept DEF ResumeFails
<1>6. CASE ClaimNothing(w)
  BY <1>6, EvidenceKept DEF ClaimNothing, Reap
<1>7. CASE RenewServe(w)
  BY <1>7, EvidenceKept DEF RenewServe, RenewLease
<1>8. CASE ReportServe(w)
  <2>1. status[job[w]] # "timed_out" \/ UNCHANGED coordinate
    BY <1>8 DEF ReportServe, LeaseHeld
  <2>2. \A j \in Jobs \ {job[w]} : status'[j] = status[j]
    BY <1>8 DEF ReportServe, AcceptReport
  <2>3. UNCHANGED <<confirmed, attempt, live, strays>>
    BY <1>8 DEF ReportServe, AcceptReport
  <2>. QED BY <2>1, <2>2, <2>3, EvidenceKept
<1>9. CASE Start(w) BY <1>9, EvidenceKept DEF Start
<1>10. CASE Stop(w) \/ Crash(w) \/ ClaimSend(w) \/ ClaimFail(w)
  BY <1>10, EvidenceKept DEF Stop, Crash, ClaimSend, ClaimFail
<1>11. CASE DropClaim(w) \/ RefuseClaim(w)
  BY <1>11, EvidenceKept DEF DropClaim, RefuseClaim
<1>12. CASE RenewSend(w) \/ RenewReturn(w) \/ RenewFail(w)
  BY <1>12, EvidenceKept DEF RenewSend, RenewReturn, RenewFail
<1>13. CASE ResultAbandons(w) \/ ProviderSurvives(w) \/ Finish(w)
            \/ CancelProvider(w) \/ DiscardResult(w)
  BY <1>13, EvidenceKept DEF ResultAbandons, ProviderSurvives, Finish,
                             CancelProvider, DiscardResult
<1>14. CASE ProviderJoined(w) \/ JoinRaises(w) \/ Abandon(w)
  BY <1>14, EvidenceKept DEF ProviderJoined, JoinRaises, Abandon
<1>15. CASE ReportSend(w) \/ ReportReturn(w) \/ ReportRaises(w)
  BY <1>15, EvidenceKept DEF ReportSend, ReportReturn, ReportRaises
<1>. QED BY <1>1, <1>2, <1>3, <1>4, <1>5, <1>6, <1>7, <1>8, <1>9, <1>10, <1>11,
            <1>12, <1>13, <1>14, <1>15 DEF WorkerStep

LEMMA EvidenceInvNext ==
    ASSUME SoundPolicy
    PROVE  TypeInv /\ TimedInv /\ EvidenceInv /\ [Next]_vars => EvidenceInv'
<1> SUFFICES ASSUME TypeInv, TimedInv, EvidenceInv, [Next]_vars
             PROVE  EvidenceInv'
  OBVIOUS
<1>1. ASSUME NEW w \in Workers, WorkerStep(w) PROVE EvidenceInv'
  BY <1>1, EvidenceInvWorker
<1>2. ASSUME NEW p \in live, OrphanExit(p) PROVE EvidenceInv'
  BY <1>2, EvidenceKept DEF OrphanExit, coordinate, main
<1>3. ASSUME NEW j \in Jobs, ReaperTick(j) PROVE EvidenceInv'
  BY <1>3, EvidenceKept DEF ReaperTick, Reap, main, processes, TypeInv, TypeOK,
                            CoordinateTypeOK
<1>4. ASSUME Tick PROVE EvidenceInv'
  BY <1>4, EvidenceKept DEF Tick
<1>5. CASE UNCHANGED vars
  BY <1>5, EvidenceKept DEF vars, coordinate, main, processes
<1>6. ASSUME NEW j \in Jobs, StrayExit(j) PROVE EvidenceInv'
  BY <1>6, EvidenceKept DEF StrayExit, coordinate, main
<1>. QED BY <1>1, <1>2, <1>3, <1>4, <1>5, <1>6 DEF Next

(* Under a sound policy the confirmation an operator gave of an attempt    *)
(* stays true as long as that attempt is the job's latest: no late claim   *)
(* reply starts a provider of it, and no call under way leaves a process   *)
(* behind (worker.py:231-240, 427-475).                                    *)
THEOREM EvidenceCorrect ==
    ASSUME SoundPolicy
    PROVE  Spec => []EvidenceStaysTrue
<1>1. Spec => [](TypeInv /\ HolderInv /\ TimedInv /\ EvidenceInv)
  BY TypeInvInit, TypeInvNext, HolderInvInit, HolderInvNext, TimedInvInit,
     TimedInvNext, EvidenceInvInit, EvidenceInvNext, PTL DEF Spec
<1>2. EvidenceInv => EvidenceStaysTrue
  BY DEF EvidenceInv
<1>. QED BY <1>1, <1>2, PTL

-----------------------------------------------------------------------------
(* The worker keeps the promise of ManagedExecution: the refinement of     *)
(* AgentdWorker!PromiseKept, proved for every set of workers and jobs and  *)
(* every sound timer policy.                                               *)

LeaseInv == TypeInv /\ HolderInv /\ TimedInv

(* What of an attempt a step of a worker can change is known by its kind:  *)
(* most steps leave Coordinate alone.                                      *)
LEMMA CoordinateSteps ==
    ASSUME NEW w \in Workers, WorkerStep(w)
    PROVE  \/ ClaimServe(w) \/ ClaimNothing(w) \/ RenewServe(w) \/ ReportServe(w)
           \/ UNCHANGED coordinate
BY DEF WorkerStep, Start, StartRecovery, Stop, Crash, ClaimSend, ClaimFail,
       AcceptClaim, DropClaim, RefuseClaim, RenewSend, RenewReturn, RenewFail,
       ProviderReturn, ProviderSurvives, Finish, CancelProvider, DiscardResult,
       ProviderJoined, JoinRaises, Abandon, ReportSend, ReportReturn, ReportRaises,
       ResultAbandons, ResumeFails

-----------------------------------------------------------------------------
(* An active lease is the lease of a running job *)

ActiveInv == \A j \in Jobs : lease[j] = "active" => status[j] = "running"

LEMMA ActiveInvNext == TypeInv /\ ActiveInv /\ [Next]_vars => ActiveInv'
<1> SUFFICES ASSUME TypeInv, ActiveInv, [Next]_vars PROVE ActiveInv'
  OBVIOUS
<1> USE DEF TypeInv, TypeOK, CoordinateTypeOK, ActiveInv
<1>1. ASSUME NEW w \in Workers, WorkerStep(w) PROVE ActiveInv'
  <2>1. CASE ClaimServe(w)
    BY <2>1, ClaimServed DEF ClaimJob
  <2>2. CASE ClaimNothing(w)
    BY <2>2 DEF ClaimNothing, Reap
  <2>3. CASE RenewServe(w)
    BY <2>3 DEF RenewServe, RenewLease, coordinate
  <2>4. CASE ReportServe(w)
    BY <2>4 DEF ReportServe, AcceptReport, coordinate
  <2>5. CASE UNCHANGED coordinate
    BY <2>5 DEF coordinate
  <2>. QED BY <1>1, <2>1, <2>2, <2>3, <2>4, <2>5, CoordinateSteps
<1>2. ASSUME NEW p \in live, OrphanExit(p) PROVE ActiveInv'
  BY <1>2 DEF OrphanExit, coordinate
<1>3. ASSUME NEW j \in Jobs, ReaperTick(j) PROVE ActiveInv'
  BY <1>3 DEF ReaperTick, Reap
<1>4. ASSUME Tick PROVE ActiveInv'
  BY <1>4 DEF Tick
<1>5. CASE UNCHANGED vars
  BY <1>5 DEF vars, coordinate
<1>6. ASSUME NEW j \in Jobs, StrayExit(j) PROVE ActiveInv'
  BY <1>6 DEF StrayExit, coordinate
<1>. QED BY <1>1, <1>2, <1>3, <1>4, <1>5, <1>6 DEF Next

-----------------------------------------------------------------------------
(* The attempts that are worked on *)

(* A provider that is worked on holds its lease, through one worker.       *)
LEMMA WorkingHeld ==
    ASSUME LeaseInv, SoundPolicy, NEW p \in Working
    PROVE  \E w \in Workers :
              /\ pc[w] \in Running /\ Held(w) = p
              /\ job[w] \in Jobs /\ LeaseHeld(job[w], tok[w])
<1>1. PICK w \in Workers : pc[w] \in Running /\ Held(w) = p
  BY DEF Working
<1>2. job[w] \in Jobs
  BY <1>1 DEF LeaseInv, TypeInv, TypeOK, PhaseInv, Holding
<1>3. LeaseHeld(job[w], tok[w])
  BY <1>1, <1>2 DEF LeaseInv, TimedInv, TimingInv, Running, LeftAtLeast
<1>. QED BY <1>1, <1>2, <1>3

(* The attempts Coordinate may reap are worked on by nobody: that is what  *)
(* the renewal supervisor is for.                                          *)
LEMMA DueGivenUp ==
    ASSUME LeaseInv, ActiveInv, SoundPolicy, NEW batch \in {Due, {}}
    PROVE  Promise!GivenUp(batch)
<1> SUFFICES ASSUME NEW j \in batch
             PROVE  status[j] = "running" /\ <<j, attempt[j]>> \notin Working
  BY DEF Promise!GivenUp, Promise!Attempt
<1>1. j \in Jobs /\ lease[j] = "active" /\ left[j] = 0
  BY DEF Due
<1>2. status[j] = "running"
  BY <1>1 DEF ActiveInv
<1>3. ASSUME <<j, attempt[j]>> \in Working PROVE FALSE
  <2>1. PICK w \in Workers :
           Held(w) = <<j, attempt[j]>> /\ LeaseHeld(job[w], tok[w])
    BY <1>3, WorkingHeld
  <2>2. job[w] = j
    BY <2>1 DEF Held
  <2>. QED BY <1>1, <2>1, <2>2 DEF LeaseHeld
<1>. QED BY <1>2, <1>3

(* A step after which the same workers run the same attempts.              *)
LEMMA WorkingSame ==
    ASSUME live' = live,
           \A v \in Workers :
              /\ pc'[v] \in Running <=> pc[v] \in Running
              /\ pc[v] \in Running => job'[v] = job[v] /\ tok'[v] = tok[v]
    PROVE  Working' = Working
BY DEF Working, Held

(* A step after which w does not run its attempt any more, or the provider *)
(* of that attempt is gone: a Leave of the promise, or nothing it sees.    *)
LEMMA WorkingLeaves ==
    ASSUME TypeInv, HolderInv, NEW w \in Workers, pc[w] \in Running,
           live' \in {live, live \ {Held(w)}},
           pc'[w] \notin Running \/ live' = live \ {Held(w)},
           pc'[w] \in Running => job'[w] = job[w] /\ tok'[w] = tok[w],
           \A v \in Workers \ {w} :
              pc'[v] = pc[v] /\ job'[v] = job[v] /\ tok'[v] = tok[v],
           UNCHANGED <<status, attempt>>
    PROVE  Promise!Next \/ UNCHANGED Promise!promised
<1>1. ASSUME NEW v \in Workers, v # w, pc[v] \in Running
      PROVE  Held(v) # Held(w)
  BY <1>1 DEF HolderInv, OneHolderPerAttempt, TypeInv, PhaseInv, Holding
<1>2. Working' = Working \ {Held(w)}
  BY <1>1 DEF Working, Held
<1>3. CASE Held(w) \in Working
  <2>1. Promise!Leave(Held(w))
    BY <1>2, <1>3 DEF Promise!Leave
  <2>. QED BY <1>3, <2>1 DEF Promise!Next
<1>4. CASE Held(w) \notin Working
  BY <1>2, <1>4 DEF Promise!promised
<1>. QED BY <1>3, <1>4

-----------------------------------------------------------------------------
(* One lemma for each action of the promise *)

LEMMA ClaimGrants ==
    ASSUME LeaseInv, ActiveInv, SoundPolicy, NEW w \in Workers, ClaimServe(w)
    PROVE  Promise!Next
<1>1. PICK batch \in {Due, {}}, j \in Jobs :
         /\ j \in Claimable(batch, recovery[w])
         /\ ClaimJob(j, batch)
         /\ job' = [job EXCEPT ![w] = j]
         /\ tok' = [tok EXCEPT ![w] = attempt[j] + 1]
  BY ClaimServed
<1>2. pc[w] = "claim_sent" /\ pc' = [pc EXCEPT ![w] = "claim_served"] /\ live' = live
  BY DEF ClaimServe, processes
<1>3. Working' = Working
  BY <1>1, <1>2, WorkingSame DEF LeaseInv, TypeInv, TypeOK, Running
<1>4. Promise!Grant(j, batch)
  BY <1>1, <1>3, DueGivenUp DEF Promise!Grant, ClaimJob, Claimable
<1>5. batch \in SUBSET Jobs
  BY DEF Due
<1>. QED BY <1>4, <1>5 DEF Promise!Next

LEMMA ReapExpires ==
    ASSUME LeaseInv, ActiveInv, SoundPolicy, NEW batch \in SUBSET Due, Reap(batch),
           Working' = Working
    PROVE  Promise!Next \/ UNCHANGED Promise!promised
<1>1. Promise!GivenUp(batch)
  BY DueGivenUp DEF Promise!GivenUp
<1>2. CASE batch # {}
  <2>1. Promise!Expire(batch)
    BY <1>1, <1>2 DEF Promise!Expire, Reap
  <2>. QED BY <2>1 DEF Promise!Next, Due
<1>3. CASE batch = {}
  BY <1>3 DEF Reap, Promise!promised, LeaseInv, TypeInv, TypeOK, CoordinateTypeOK
<1>. QED BY <1>2, <1>3

LEMMA AcceptEnters ==
    ASSUME LeaseInv, SoundPolicy, NEW w \in Workers, AcceptClaim(w)
    PROVE  Promise!Next
<1>1. /\ pc[w] = "claim_served" /\ pc' = [pc EXCEPT ![w] = "executing"]
      /\ live' = live \cup {Held(w)}
      /\ UNCHANGED <<status, attempt, job, tok>>
  BY DEF AcceptClaim, GoTo, coordinate
<1>2. job[w] \in Jobs /\ LeaseHeld(job[w], tok[w])
  BY <1>1 DEF LeaseInv, TypeInv, TypeOK, PhaseInv, Holding, TimedInv, TimingInv,
              LeftAtLeast
<1>3. Held(w) = Promise!Attempt(job[w])
  BY <1>2 DEF Held, LeaseHeld, Promise!Attempt
<1>4. ASSUME NEW p \in Working PROVE WorktreeOf[p[1]] # WorktreeOf[job[w]]
  <2>1. PICK v \in Workers : /\ pc[v] \in Running /\ Held(v) = p
                             /\ job[v] \in Jobs /\ LeaseHeld(job[v], tok[v])
    BY <1>4, WorkingHeld
  <2>2. SUFFICES ASSUME WorktreeOf[job[v]] = WorktreeOf[job[w]] PROVE FALSE
    BY <2>1 DEF Held
  <2>3. job[v] = job[w] /\ tok[v] = tok[w]
    BY <1>2, <2>1, <2>2 DEF LeaseInv, TimedInv, LeaseExclusion, LeaseHeld
  <2>4. v = w
    BY <1>2, <2>1, <2>3, NoJobAssumption DEF LeaseInv, HolderInv, OneHolderPerAttempt, Held
  <2>. QED BY <1>1, <2>1, <2>4 DEF Running
<1>5. Working' = Working \cup {Held(w)}
  BY <1>1 DEF Working, Held, Running, LeaseInv, TypeInv, TypeOK
<1>6. Promise!Enter(job[w])
  BY <1>1, <1>2, <1>3, <1>4, <1>5 DEF Promise!Enter, LeaseHeld
<1>. QED BY <1>2, <1>6 DEF Promise!Next

LEMMA ReportReports ==
    ASSUME LeaseInv, NEW w \in Workers, ReportServe(w)
    PROVE  Promise!Next \/ UNCHANGED Promise!promised
<1> USE DEF LeaseInv, TypeInv, TypeOK
<1>1. /\ pc[w] = "report_sent" /\ pc'[w] \in {"report_accepted", "report_rejected"}
      /\ \A v \in Workers \ {w} : pc'[v] = pc[v]
      /\ UNCHANGED <<live, job, tok>>
  BY DEF ReportServe, processes
<1>2. Working' = Working
  BY <1>1, WorkingSame DEF Running
<1>3. CASE LeaseHeld(job[w], tok[w])
  <2>1. /\ status' = [status EXCEPT ![job[w]] = out[w]] /\ UNCHANGED attempt
    BY <1>3 DEF ReportServe, AcceptReport
  <2>2. job[w] \in Jobs /\ out[w] \in {"done", "failed", "timed_out"}
    BY <1>1 DEF PhaseInv, Holding, Settled, ReportCall, Reported
  <2>3. Promise!Attempt(job[w]) \notin Working
    BY <1>1, <1>3, <2>2 DEF Promise!Attempt, LeaseHeld, Working, Held, Running,
                            HolderInv, OneHolderPerAttempt, PhaseInv, Holding
  <2>4. Promise!Report(job[w], out[w])
    BY <1>2, <1>3, <2>1, <2>3 DEF Promise!Report, LeaseHeld
  <2>. QED BY <2>2, <2>4 DEF Promise!Next
<1>4. CASE ~LeaseHeld(job[w], tok[w])
  BY <1>2, <1>4 DEF ReportServe, coordinate, Promise!promised
<1>. QED BY <1>3, <1>4

LEMMA WorkerKeepsPromise ==
    ASSUME LeaseInv, ActiveInv, SoundPolicy, NEW w \in Workers, WorkerStep(w)
    PROVE  Promise!Next \/ UNCHANGED Promise!promised
<1> USE DEF LeaseInv, TypeInv, TypeOK, GoTo, Forget, coordinate, processes
<1>1. CASE ClaimServe(w) BY <1>1, ClaimGrants
<1>2. CASE ClaimNothing(w)
  <2>1. PICK batch \in {Due, {}} : Reap(batch)
    BY <1>2 DEF ClaimNothing
  <2>2. Working' = Working
    BY <1>2, WorkingSame DEF ClaimNothing, Running
  <2>. QED BY <2>1, <2>2, ReapExpires
<1>3. CASE AcceptClaim(w) BY <1>3, AcceptEnters
<1>4. CASE ReportServe(w) BY <1>4, ReportReports
<1>5. CASE Crash(w) /\ pc[w] \in Running
  BY <1>5, WorkingLeaves DEF Crash, Running
<1>6. CASE Crash(w) /\ pc[w] \notin Running
  <2>1. ASSUME NEW v \in Workers, pc[v] \in Running PROVE v # w /\ (Held(v) # Held(w) \/ job[w] = NoJob)
    BY <1>6, <2>1 DEF HolderInv, OneHolderPerAttempt, PhaseInv, Holding
  <2>2. Working' = Working
    BY <1>6, <2>1 DEF Crash, Working, Held, Running, PhaseInv, Holding
  <2>. QED BY <1>6, <2>2 DEF Crash, Promise!promised
<1>7. CASE ProviderReturn(w)
  BY <1>7, WorkingLeaves DEF ProviderReturn, Running
<1>8. CASE Finish(w)
  BY <1>8, WorkingLeaves DEF Finish, Running
<1>9. CASE DiscardResult(w)
  BY <1>9, WorkingLeaves DEF DiscardResult, Running
<1>10. CASE ProviderJoined(w)
  BY <1>10, WorkingLeaves DEF ProviderJoined, Running
<1>11. CASE JoinRaises(w)
  BY <1>11, WorkingLeaves DEF JoinRaises, Running
<1>12. CASE Start(w) \/ StartRecovery(w) \/ Stop(w)
  BY <1>12, WorkingSame DEF Start, StartRecovery, Stop, Stopped, Running, Promise!promised
<1>13. CASE ClaimSend(w) \/ ClaimFail(w) \/ DropClaim(w) \/ RefuseClaim(w)
  BY <1>13, WorkingSame DEF ClaimSend, ClaimFail, DropClaim, RefuseClaim, ClaimCall,
                            Running, Promise!promised
<1>14. CASE RenewSend(w) \/ RenewReturn(w) \/ RenewFail(w)
  BY <1>14, WorkingSame DEF RenewSend, RenewReturn, RenewFail, main, Promise!promised
<1>15. CASE RenewServe(w)
  BY <1>15, WorkingSame DEF RenewServe, RenewLease, main, Promise!promised
<1>16. CASE ProviderSurvives(w) \/ CancelProvider(w) \/ ResultAbandons(w)
            \/ ResumeFails(w)
  BY <1>16, WorkingSame DEF ProviderSurvives, CancelProvider, ResultAbandons,
                            ResumeFails, main, Running, Promise!promised
<1>17. CASE Abandon(w) \/ ReportSend(w) \/ ReportReturn(w) \/ ReportRaises(w)
  BY <1>17, WorkingSame DEF Abandon, ReportSend, ReportReturn, ReportRaises,
                            ReportCall, Running, Promise!promised
<1>. QED BY <1>1, <1>2, <1>3, <1>4, <1>5, <1>6, <1>7, <1>8, <1>9, <1>10, <1>11,
            <1>12, <1>13, <1>14, <1>15, <1>16, <1>17 DEF WorkerStep

-----------------------------------------------------------------------------
LEMMA StepKeepsPromise ==
    ASSUME LeaseInv, ActiveInv, SoundPolicy, [Next]_vars
    PROVE  Promise!Next \/ UNCHANGED Promise!promised
<1>1. ASSUME NEW w \in Workers, WorkerStep(w)
      PROVE  Promise!Next \/ UNCHANGED Promise!promised
  BY <1>1, WorkerKeepsPromise
<1>2. ASSUME NEW p \in live, OrphanExit(p)
      PROVE  UNCHANGED Promise!promised
  <2>1. Working' = Working
    BY <1>2 DEF OrphanExit, Working, Held, main
  <2>. QED BY <1>2, <2>1 DEF OrphanExit, coordinate, Promise!promised
<1>3. ASSUME NEW j \in Jobs, ReaperTick(j)
      PROVE  Promise!Next \/ UNCHANGED Promise!promised
  <2>1. Working' = Working
    BY <1>3, WorkingSame DEF ReaperTick, main, processes
  <2>. QED BY <1>3, <2>1, ReapExpires DEF ReaperTick
<1>4. ASSUME Tick PROVE UNCHANGED Promise!promised
  <2>1. Working' = Working
    BY <1>4, WorkingSame DEF Tick
  <2>. QED BY <1>4, <2>1 DEF Tick, Promise!promised
<1>5. CASE UNCHANGED vars
  <2>1. Working' = Working
    BY <1>5, WorkingSame DEF vars, main, processes
  <2>. QED BY <1>5, <2>1 DEF vars, coordinate, Promise!promised
<1>6. ASSUME NEW j \in Jobs, StrayExit(j) PROVE UNCHANGED Promise!promised
  <2>1. Working' = Working
    BY <1>6, WorkingSame DEF StrayExit, main
  <2>. QED BY <1>6, <2>1 DEF StrayExit, coordinate, Promise!promised
<1>. QED BY <1>1, <1>2, <1>3, <1>4, <1>5, <1>6 DEF Next

(* Under a sound policy the worker, its renewal supervisor and Coordinate's*)
(* leases keep the promise of managed execution: one supervised provider in*)
(* a worktree, no attempt reported or timed out while one works on it, one *)
(* outcome of each attempt (worker.py:427-556).                            *)
THEOREM PromiseCorrect ==
    ASSUME SoundPolicy
    PROVE  Spec => PromiseKept
<1>1. Init => Promise!Init /\ ActiveInv
  BY DEF Init, CoordinateInit, Promise!Init, Working, ActiveInv
<1>2. Spec => [](LeaseInv /\ ActiveInv)
  BY <1>1, TypeInvInit, TypeInvNext, HolderInvInit, HolderInvNext, TimedInvInit,
     TimedInvNext, ActiveInvNext, PTL DEF Spec, LeaseInv
<1>3. LeaseInv /\ ActiveInv /\ [Next]_vars => [Promise!Next]_Promise!promised
  BY StepKeepsPromise
<1>. QED BY <1>1, <1>2, <1>3, PTL DEF Spec, PromiseKept, Promise!Spec
=============================================================================
