------------------------ MODULE ProductionController ------------------------
(***************************************************************************)
(* One run id of the production controller (scripts/p9_3c1_controller.py): *)
(* nineteen phases, each left by one handler, a hash-chained ledger and a  *)
(* phase file, the mutation lock with its token file, and the fixed        *)
(* cleanup suffix that follows a failure.                                  *)
(*                                                                         *)
(* What the handlers change is held by others: Coordinate (catalogs,       *)
(* agents, jobs) and the unit helper (multinexus/fixture/bin/              *)
(* p9-3c0-unit.sh: units, its own ledger, the static unit definition).     *)
(* Every call is a subprocess with a time limit: it answers, or it is      *)
(* refused, or it is done and its answer lost.  The controller can be      *)
(* killed between any two calls.                                           *)
(***************************************************************************)
EXTENDS Integers, Sequences

Agents == {"e1", "e2"}
Labels == 1..5                                    \* the matrix jobs J1 to J5
AgentOf == <<"e1", "e1", "e1", "e2", "e2">>
TreeOf == <<"w1", "w1", "w1", "w2", "w1">>

(* PHASES, by index; the ones the code compares with have a name. *)
Phases == 0..18
Sealed == 0
LockHeld == 2
BaselineCaptured == 3
WorkspaceReady == 4
AgentsOnline == 5
Done == 18

VARIABLES
    phase,      \* the phase file
    tail,       \* the phase of the last ledger record
    auth,       \* has the authorization been copied into the state root
    lock,       \* the mutation lock: "free", "mine" or "other"
    token,      \* does the token file exist
    ctl,        \* where the controller process stands
    mode,       \* the command it runs: "run" or "cleanup"
    step,       \* the next call of the handler or of the suffix
    exec, cap,  \* the versions of the executor and capacity catalogs
    agent,      \* agent[a]: the Coordinate row of fixture agent a
    running,    \* the agents whose unit is running
    recorded,   \* the agents with a unit record in the helper's ledger
    proof,      \* those with a cgroup-empty record in it
    cleaned,    \* those with a cleanup record in it
    defined,    \* does the static unit definition exist
    job,        \* job[j]: the status of matrix job j
    ledgered,   \* the jobs with a submitted record in the controller's ledger
    earlier,    \* history: did an earlier run leave its catalogs behind
    fault,      \* history: did anything around the controller fail
    fit         \* history: should the suffix under way be able to finish

files == <<phase, tail, auth>>
locks == <<lock, token>>
process == <<ctl, mode, step>>
catalogs == <<exec, cap>>
units == <<running, recorded, proof, cleaned, defined>>
jobs == <<job, ledgered>>
world == <<catalogs, agent, units, jobs>>
history == <<earlier, fault, fit>>
vars == <<files, locks, process, world, history>>

Control == {"down", "acquire", "save", "check", "work", "write", "failed",
            "sweep", "clean", "close", "release", "abort", "forget"}
JobStatus == {"none", "pending", "running", "due", "timed_out", "done", "failed"}
Closed == {"none", "done", "failed"}

(* cmd_prepare has sealed the run; an earlier run may have left its empty  *)
(* terminal catalogs and its offline agents in Coordinate.                 *)
Init ==
    /\ phase = Sealed
    /\ tail = Sealed
    /\ auth = FALSE
    /\ lock = "free"
    /\ token = FALSE
    /\ ctl = "down"
    /\ mode = "run"
    /\ step = 1
    /\ earlier \in BOOLEAN
    /\ exec = IF earlier THEN 4 ELSE 0
    /\ cap = IF earlier THEN 2 ELSE 0
    /\ agent = [a \in Agents |-> IF earlier THEN "offline" ELSE "absent"]
    /\ running = {}
    /\ recorded = {}
    /\ proof = {}
    /\ cleaned = {}
    /\ defined = FALSE
    /\ job = [j \in Labels |-> "none"]
    /\ ledgered = {}
    /\ fault = FALSE
    /\ fit = FALSE

-----------------------------------------------------------------------------
(* The calls of each handler, in order.  A read that only compares what the*)
(* properties do not tell apart is a "read".  Waiting for the end of a job *)
(* means seeing it renewed twice before ("held"), then done ("await").     *)

Call(op, arg) == [op |-> op, arg |-> arg]

Matrix == <<
    Call("render", 0), Call("start", "e1"),
    Call("submit", 1), Call("held", 1), Call("await", 1),
    Call("submit", 2), Call("held", 2), Call("await", 2),
    Call("submit", 3), Call("held", 3),
    Call("submit", 4), Call("submit", 5),
    Call("start", "e2"), Call("overlap", 0), Call("await", 4),
    Call("blocked", 5), Call("stop", "e1"),
    Call("expiry", 3), Call("reap", 3), Call("start", "e1"), Call("held", 3),
    Call("read", 0), Call("report", 3),
    Call("held", 5), Call("await", 5), Call("read", 0) >>

(* Mutant of Quiesce: the units are cleaned before they are stopped. *)
QuiesceCleanFirst == << Call("clean", "e1"), Call("clean", "e2"),
                        Call("stop", "e1"), Call("stop", "e2") >>

Quiesce == << Call("stop", "e1"), Call("stop", "e2"),
              Call("clean", "e1"), Call("clean", "e2") >>

Offline == << Call("deactivate", "e1"), Call("deactivate", "e2") >>

(* Handlers[k + 1] leaves phase k. *)
Handlers == <<
    << Call("read", 0) >>,                                  \* preflight
    << >>,                                                  \* lock-held
    << Call("read", 0) >>,                                  \* baseline
    << Call("read", 0) >>,                                  \* workspace
    << Call("register", "e1"), Call("register", "e2") >>,
    << Call("executor", 1) >>,
    << Call("capacity", 1) >>,
    << Call("executor", 2) >>,
    Matrix,
    << Call("read", 0) >>,                                  \* verify
    << >>,                                                  \* freeze intake
    Quiesce,
    << Call("executor", 3) >>,
    << Call("capacity", 2) >>,
    << Call("executor", 4) >>,
    Offline,
    << Call("read", 0) >>,                                  \* canonical
    << Call("final", 0) >> >>

(* The cleanup suffix; Applies says which of its calls a run needs. *)
Suffix ==
    Quiesce
    \o << Call("gate", 0),
          Call("executor", 3), Call("capacity", 2), Call("executor", 4) >>
    \o Offline
    \o << Call("read", 0) >>

(* Mutant of Applies: the catalogs are looked at one phase too late. *)
AppliesLate(c) ==
    CASE c.op \in {"stop", "clean"} -> c.arg \in recorded
      [] c.op \in {"executor", "capacity"} -> phase > AgentsOnline + 1
      [] c.op = "deactivate" -> phase >= WorkspaceReady
      [] OTHER -> TRUE

Applies(c) ==
    CASE c.op \in {"stop", "clean"} -> c.arg \in recorded
      [] c.op \in {"executor", "capacity"} -> phase >= AgentsOnline
      [] c.op = "deactivate" -> phase >= WorkspaceReady
      [] OTHER -> TRUE

-----------------------------------------------------------------------------
(* What a call needs, and what it does, where it is served *)

Open == {j \in Labels : job[j] \notin Closed}
Waits == {"await", "held", "overlap", "expiry"}

(* The call is one the other side can accept, or the wait is over. *)
Accepts(c) ==
    LET a == c.arg IN
    \/ c.op = "read"
    \/ c.op = "render" /\ ~defined /\ recorded = {}
    \/ c.op = "start" /\ defined /\ a \notin running
    \/ c.op = "stop" /\ defined /\ a \in recorded
    \/ c.op = "clean" /\ a \in recorded \cap proof
    \/ c.op = "register"
    \/ c.op = "deactivate" /\ agent[a] # "absent" /\ \A j \in Open : AgentOf[j] # a
    \/ c.op = "executor" /\ exec <= a
    \/ c.op = "capacity" /\ cap <= a
    \/ c.op = "submit" /\ job[a] = "none" /\ agent[AgentOf[a]] = "online"
    \/ c.op = "await" /\ job[a] = "done"
    \/ c.op = "held" /\ job[a] = "running"
    \/ c.op = "overlap" /\ job[3] = "running" /\ job[4] = "running"
    \/ c.op = "blocked" /\ job[a] = "pending" /\ job[3] \in {"running", "due"}
    \/ c.op \in {"expiry", "reap"} /\ job[a] = "due"
    \/ c.op = "report" /\ job[a] = "running"
    \/ c.op = "gate" /\ Open \cap ledgered = {}
    \/ /\ c.op = "final"
       /\ \A j \in Labels : job[j] = "done"
       /\ \A b \in Agents : agent[b] = "offline"
       /\ exec = 4 /\ cap = 2

Reads == Waits \cup {"read", "blocked", "gate", "final"}

(* The unit helper.  A call that is cut off has changed the unit and may   *)
(* not have reached the record of it in the helper's ledger.               *)
Render(c) ==
    /\ c.op = "render"
    /\ defined' = TRUE
    /\ UNCHANGED <<running, recorded, proof, cleaned>>

Start(c, answered) ==
    /\ c.op = "start"
    /\ running' = running \cup {c.arg}
    /\ \/ recorded' = recorded \cup {c.arg}
       \/ ~answered /\ UNCHANGED recorded
    /\ UNCHANGED <<proof, cleaned, defined>>

Stop(c, answered) ==
    /\ c.op = "stop"
    /\ running' = running \ {c.arg}
    /\ \/ proof' = proof \cup {c.arg}
       \/ ~answered /\ UNCHANGED proof
    /\ UNCHANGED <<recorded, cleaned, defined>>

(* The clean that leaves no recorded unit behind removes the definition. *)
Clean(c, answered) ==
    /\ c.op = "clean"
    /\ cleaned' = cleaned \cup {c.arg}
    /\ \/ defined' = (defined /\ ~(recorded \subseteq cleaned'))
       \/ ~answered /\ UNCHANGED defined
    /\ UNCHANGED <<running, recorded, proof>>

UnitCall(c, answered) ==
    /\ Render(c) \/ Start(c, answered) \/ Stop(c, answered) \/ Clean(c, answered)
    /\ UNCHANGED <<catalogs, agent, jobs>>

(* Coordinate: one transaction per command.  The controller's own record of*)
(* a submission comes after the answer.                                    *)
SetAgent(c) ==
    /\ c.op \in {"register", "deactivate"}
    /\ agent' = [agent EXCEPT ![c.arg] =
                    IF c.op = "register" THEN "online" ELSE "offline"]
    /\ UNCHANGED <<catalogs, jobs>>

Sync(c) ==
    /\ \/ c.op = "executor" /\ exec' = c.arg /\ UNCHANGED cap
       \/ c.op = "capacity" /\ cap' = c.arg /\ UNCHANGED exec
    /\ UNCHANGED <<agent, jobs>>

Submit(c, answered) ==
    /\ c.op = "submit"
    /\ job' = [job EXCEPT ![c.arg] = "pending"]
    /\ ledgered' = IF answered THEN ledgered \cup {c.arg} ELSE ledgered
    /\ UNCHANGED <<catalogs, agent>>

ReapOrReport(c) ==
    /\ c.op \in {"reap", "report"}
    /\ job' = [job EXCEPT ![c.arg] = IF c.op = "reap" THEN "timed_out" ELSE "done"]
    /\ UNCHANGED <<catalogs, agent, ledgered>>

CoordinateCall(c, answered) ==
    /\ SetAgent(c) \/ Sync(c) \/ Submit(c, answered) \/ ReapOrReport(c)
    /\ UNCHANGED units

Effect(c, answered) ==
    /\ Accepts(c)
    /\ \/ c.op \in Reads /\ UNCHANGED world
       \/ UnitCall(c, answered)
       \/ CoordinateCall(c, answered)

(* A wait for the renewals of a job that has ended. *)
Hopeless(c) == c.op = "held" /\ job[c.arg] = "done"

(* The call fails: refused, timed out, or done without a usable answer.    *)
(* Unless it was refused for what it asked, or waits in vain, something    *)
(* else is at fault.                                                       *)
FailedCall(c) ==
    /\ Effect(c, FALSE) \/ UNCHANGED world
    /\ fault' = (fault \/ Accepts(c) \/ (c.op \in Waits /\ ~Hopeless(c)))
    /\ fit' = (fit /\ ~Accepts(c))
    /\ UNCHANGED earlier

-----------------------------------------------------------------------------
(* The commands *)

GoTo(s) == ctl' = s
Faulted == fault' = TRUE /\ fit' = FALSE /\ UNCHANGED earlier

(* cmd_run: a sealed run without a live authorization; it is copied first. *)
Run ==
    /\ ctl = "down"
    /\ phase = Sealed
    /\ ~auth
    /\ auth' = TRUE
    /\ mode' = "run"
    /\ GoTo("acquire")
    /\ UNCHANGED <<phase, tail, locks, step, world, history>>

(* cmd_cleanup: from workspace-ready on, and not a finished run. *)
Cleanup ==
    /\ ctl = "down"
    /\ phase \in WorkspaceReady..(Done - 1)
    /\ mode' = "cleanup"
    /\ GoTo("acquire")
    /\ UNCHANGED <<files, locks, step, world, history>>

(* _acquire_lock: no token file, a free lock, and the lock is ours. *)
Acquire ==
    /\ ctl = "acquire"
    /\ ~token
    /\ lock = "free"
    /\ lock' = "mine"
    /\ GoTo("save")
    /\ UNCHANGED <<files, token, mode, step, world, history>>

(* It is refused, or its answer is lost.  Nothing is given back. *)
AcquireFails ==
    /\ ctl = "acquire"
    /\ lock' \in IF ~token /\ lock = "free" THEN {"free", "mine"} ELSE {lock}
    /\ GoTo("down")
    /\ Faulted
    /\ UNCHANGED <<files, token, mode, step, world>>

SaveToken ==
    /\ ctl = "save"
    /\ token' = TRUE
    /\ step' = 1
    /\ GoTo(IF mode = "run" THEN "work" ELSE "sweep")
    /\ UNCHANGED <<files, lock, mode, world, history>>

(* The file is not written, or it is and the lock does not read back. *)
SaveTokenFails ==
    /\ ctl = "save"
    /\ token' \in BOOLEAN
    /\ GoTo("down")
    /\ Faulted
    /\ UNCHANGED <<files, lock, mode, step, world>>

-----------------------------------------------------------------------------
(* The state machine *)

(* A failure up to lock-held gives the lock back; a later one is recorded  *)
(* and followed by the cleanup suffix.                                     *)
Raise == GoTo(IF phase <= LockHeld THEN "abort" ELSE "failed")

(* Before each handler but the preflight: ledger and phase file agree, the lock is ours, the *)
(* authorization is unchanged and has not expired.                         *)
Check ==
    /\ ctl = "check"
    /\ tail = phase
    /\ lock = "mine"
    /\ token
    /\ step' = 1
    /\ GoTo("work")
    /\ UNCHANGED <<files, locks, mode, world, history>>

CheckFails ==
    /\ ctl = "check"
    /\ Raise
    /\ Faulted
    /\ UNCHANGED <<files, locks, mode, step, world>>

Handler == Handlers[phase + 1]

Work ==
    /\ ctl = "work"
    /\ step <= Len(Handler)
    /\ Effect(Handler[step], TRUE)
    /\ step' = step + 1
    /\ UNCHANGED <<files, locks, ctl, mode, history>>

WorkFails ==
    /\ ctl = "work"
    /\ step <= Len(Handler)
    /\ FailedCall(Handler[step])
    /\ Raise
    /\ UNCHANGED <<files, locks, mode, step>>

(* Mutant of AppendRecord: the phase file is written before the ledger. *)
AppendRecordAfter ==
    /\ ctl = "work"
    /\ step > Len(Handler)
    /\ phase' = phase + 1
    /\ GoTo("write")
    /\ UNCHANGED <<tail, auth, locks, mode, step, world, history>>

(* _transition_to: the ledger first, ... *)
AppendRecord ==
    /\ ctl = "work"
    /\ step > Len(Handler)
    /\ tail' = phase + 1
    /\ GoTo("write")
    /\ UNCHANGED <<phase, auth, locks, mode, step, world, history>>

AppendRecordFails ==
    /\ ctl = "work"
    /\ step > Len(Handler)
    /\ tail' \in {tail, phase + 1}
    /\ Raise
    /\ Faulted
    /\ UNCHANGED <<phase, auth, locks, mode, step, world>>

(* Mutant of Write: the machine goes on after its last phase. *)
WriteOn ==
    /\ ctl = "write"
    /\ phase' = tail
    /\ GoTo("check")
    /\ UNCHANGED <<tail, auth, locks, mode, step, world, history>>

(* ... then the phase file.  The last handler goes on to release the lock. *)
Write ==
    /\ ctl = "write"
    /\ phase' = tail
    /\ GoTo(IF tail = Done THEN "release" ELSE "check")
    /\ UNCHANGED <<tail, auth, locks, mode, step, world, history>>

WriteFails ==
    /\ ctl = "write"
    /\ phase' \in {phase, tail}
    /\ GoTo(IF phase' <= LockHeld THEN "abort" ELSE "failed")
    /\ Faulted
    /\ UNCHANGED <<tail, auth, locks, mode, step, world>>

(* Mutant of RecordFailure: the failure is recorded and nothing is cleaned.*)
RecordFailureOnly ==
    /\ ctl = "failed"
    /\ tail' = phase
    /\ GoTo("down")
    /\ UNCHANGED <<phase, auth, locks, mode, step, world, history>>

(* machine.failure is recorded; a run that is done is not cleaned again. *)
RecordFailure ==
    /\ ctl = "failed"
    /\ tail' = phase
    /\ GoTo(IF phase = Done THEN "down" ELSE "sweep")
    /\ UNCHANGED <<phase, auth, locks, mode, step, world, history>>

RecordFailureFails ==
    /\ ctl = "failed"
    /\ tail' \in {tail, phase}
    /\ GoTo("down")
    /\ Faulted
    /\ UNCHANGED <<phase, auth, locks, mode, step, world>>

-----------------------------------------------------------------------------
(* The cleanup suffix *)

(* What the suffix can undo: no open job, every definition it needs for    *)
(* its units, no catalog that is past what it writes, no missing agent.    *)
Cleanable ==
    /\ Open = {}
    /\ recorded = {} \/ defined
    /\ phase >= AgentsOnline => exec <= 3
    /\ phase >= WorkspaceReady => \A a \in Agents : agent[a] # "absent"

Sweep ==
    /\ ctl = "sweep"
    /\ lock = "mine"
    /\ token
    /\ tail' = phase
    /\ step' = 1
    /\ fit' = Cleanable
    /\ GoTo("clean")
    /\ UNCHANGED <<phase, auth, locks, mode, world, earlier, fault>>

SweepFails ==
    /\ ctl = "sweep"
    /\ tail' \in {tail, phase}
    /\ GoTo("down")
    /\ Faulted
    /\ UNCHANGED <<phase, auth, locks, mode, step, world>>

CleanCall ==
    /\ ctl = "clean"
    /\ step <= Len(Suffix)
    /\ IF Applies(Suffix[step]) THEN Effect(Suffix[step], TRUE) ELSE UNCHANGED world
    /\ step' = step + 1
    /\ UNCHANGED <<files, locks, ctl, mode, history>>

(* Mutant of CleanFails: the suffix is tried again from its beginning. *)
CleanRetries ==
    /\ ctl = "clean"
    /\ step <= Len(Suffix)
    /\ Applies(Suffix[step])
    /\ FailedCall(Suffix[step])
    /\ step' = 1
    /\ UNCHANGED <<files, locks, ctl, mode>>

CleanFails ==
    /\ ctl = "clean"
    /\ step <= Len(Suffix)
    /\ Applies(Suffix[step])
    /\ FailedCall(Suffix[step])
    /\ GoTo("down")
    /\ UNCHANGED <<files, locks, mode, step>>

CloseRecord ==
    /\ ctl = "clean"
    /\ step > Len(Suffix)
    /\ tail' = Done
    /\ GoTo("close")
    /\ UNCHANGED <<phase, auth, locks, mode, step, world, history>>

CloseRecordFails ==
    /\ ctl = "clean"
    /\ step > Len(Suffix)
    /\ tail' \in {tail, Done}
    /\ GoTo("down")
    /\ Faulted
    /\ UNCHANGED <<phase, auth, locks, mode, step, world>>

Close ==
    /\ ctl = "close"
    /\ phase' = Done
    /\ GoTo("release")
    /\ UNCHANGED <<tail, auth, locks, mode, step, world, history>>

CloseFails ==
    /\ ctl = "close"
    /\ phase' \in {phase, Done}
    /\ GoTo("down")
    /\ Faulted
    /\ UNCHANGED <<tail, auth, locks, mode, step, world>>

-----------------------------------------------------------------------------
(* _release_lock: the lock is ours, it is released, it reads back as free, *)
(* the token file is removed.                                              *)

Release ==
    /\ ctl \in {"release", "abort"}
    /\ token
    /\ lock = "mine"
    /\ lock' = "free"
    /\ GoTo("forget")
    /\ UNCHANGED <<files, token, mode, step, world, history>>

ReleaseFails ==
    /\ ctl \in {"release", "abort"}
    /\ lock' \in IF token /\ lock = "mine" THEN {"mine", "free"} ELSE {lock}
    /\ GoTo("down")
    /\ Faulted
    /\ UNCHANGED <<files, token, mode, step, world>>

Forget ==
    /\ ctl = "forget"
    /\ lock = "free"
    /\ token' = FALSE
    /\ GoTo("down")
    /\ UNCHANGED <<files, lock, mode, step, world, history>>

(* The lock is somebody else's by now, or the file cannot be removed. *)
ForgetFails ==
    /\ ctl = "forget"
    /\ token' \in IF lock = "free" THEN BOOLEAN ELSE {token}
    /\ GoTo("down")
    /\ Faulted
    /\ UNCHANGED <<files, lock, mode, step, world>>

Crash ==
    /\ ctl # "down"
    /\ GoTo("down")
    /\ Faulted
    /\ UNCHANGED <<files, locks, mode, step, world>>

-----------------------------------------------------------------------------
(* Around the controller: units and jobs, other clients of the lock, and   *)
(* the operator.                                                           *)

JobIs(j, s) ==
    /\ job' = [job EXCEPT ![j] = s]
    /\ UNCHANGED <<files, locks, process, catalogs, agent, units, ledgered>>

(* A unit claims one job at a time, for a tree no active lease covers; only*)
(* the recovery unit claims a job that timed out.                          *)
Claim(j) ==
    LET a == AgentOf[j] IN
    /\ a \in running
    /\ agent[a] = "online"
    /\ exec = 2
    /\ job[j] \in {"pending", "timed_out"}
    /\ \A k \in Labels : job[k] = "running" => AgentOf[k] # a
    /\ \A k \in Labels : job[k] \in {"running", "due"} => TreeOf[k] # TreeOf[j]
    /\ JobIs(j, "running")
    /\ UNCHANGED history

(* The controller polls twice a second, a job takes 75 seconds: it does not*)
(* end before a controller that waits to see it running has seen it.  The  *)
(* held job J3 does not end by itself.                                     *)
Watched(j) ==
    /\ ctl = "work"
    /\ step <= Len(Handler)
    /\ \/ Handler[step] = Call("held", j)
       \/ Handler[step].op = "overlap"

Finish(j) ==
    /\ j # 3
    /\ job[j] = "running"
    /\ AgentOf[j] \in running
    /\ ~Watched(j)
    /\ JobIs(j, "done")
    /\ UNCHANGED history

JobFails(j) ==
    /\ job[j] = "running"
    /\ AgentOf[j] \in running
    /\ JobIs(j, "failed")
    /\ Faulted

UnitDies(a) ==
    /\ a \in running
    /\ running' = running \ {a}
    /\ Faulted
    /\ UNCHANGED <<files, locks, process, catalogs, agent, recorded, proof,
                   cleaned, defined, jobs>>

LeaseDue(j) ==
    /\ job[j] = "running"
    /\ AgentOf[j] \notin running
    /\ JobIs(j, "due")
    /\ UNCHANGED history

OtherAcquire ==
    /\ lock = "free"
    /\ lock' = "other"
    /\ UNCHANGED <<files, token, process, world, history>>

OtherRelease ==
    /\ lock = "other"
    /\ lock' = "free"
    /\ UNCHANGED <<files, token, process, world, history>>

(* Mutant of RecoverLock: nothing is probed. *)
RecoverUnprobed ==
    /\ lock = "mine"
    /\ lock' = "free"
    /\ UNCHANGED <<files, token, process, world, history>>

(* The operator recovers the lock; its probes see a controller or a unit. *)
RecoverLock ==
    /\ lock = "mine"
    /\ ctl = "down"
    /\ running = {}
    /\ lock' = "free"
    /\ UNCHANGED <<files, token, process, world, history>>

(* The operator's incident branch takes the token of a lost lock away; no  *)
(* command of the controller does.                                         *)
RetireToken ==
    /\ ctl = "down"
    /\ token
    /\ lock # "mine"
    /\ token' = FALSE
    /\ UNCHANGED <<files, lock, process, world, history>>

-----------------------------------------------------------------------------
Step ==
    \/ Acquire \/ AcquireFails \/ SaveToken \/ SaveTokenFails
    \/ Check \/ CheckFails \/ Work \/ WorkFails
    \/ AppendRecord \/ AppendRecordFails \/ Write \/ WriteFails
    \/ RecordFailure \/ RecordFailureFails
    \/ Sweep \/ SweepFails \/ CleanCall \/ CleanFails
    \/ CloseRecord \/ CloseRecordFails \/ Close \/ CloseFails
    \/ Release \/ ReleaseFails \/ Forget \/ ForgetFails

Around ==
    \/ \E j \in Labels : Claim(j) \/ Finish(j) \/ JobFails(j) \/ LeaseDue(j)
    \/ \E a \in Agents : UnitDies(a)
    \/ OtherAcquire \/ OtherRelease \/ RecoverLock \/ RetireToken

Next == Run \/ Cleanup \/ Step \/ Crash \/ Around

Spec == Init /\ [][Next]_vars

(* Every call is a subprocess with a time limit and every wait has a       *)
(* deadline, so the controller always takes its next step.                 *)
FairSpec == Spec /\ WF_vars(Step)

-----------------------------------------------------------------------------
(* Properties *)

(* Each variable has its type, the machine is never at work on a run that  *)
(* is done, and step stays within the handler or the suffix it counts.     *)
TypeOK ==
    /\ phase \in Phases
    /\ tail \in Phases
    /\ auth \in BOOLEAN
    /\ lock \in {"free", "mine", "other"}
    /\ token \in BOOLEAN
    /\ ctl \in Control
    /\ mode \in {"run", "cleanup"}
    /\ step \in Nat
    /\ exec \in 0..4
    /\ cap \in 0..2
    /\ agent \in [Agents -> {"absent", "online", "offline"}]
    /\ running \subseteq Agents
    /\ recorded \subseteq Agents
    /\ proof \subseteq Agents
    /\ cleaned \subseteq Agents
    /\ defined \in BOOLEAN
    /\ job \in [Labels -> JobStatus]
    /\ ledgered \subseteq Labels
    /\ earlier \in BOOLEAN
    /\ fault \in BOOLEAN
    /\ fit \in BOOLEAN
    /\ ctl \in {"check", "work", "write"} => phase # Done /\ mode = "run"
    /\ ctl = "work" => step <= Len(Handler) + 1
    /\ ctl = "clean" => step <= Len(Suffix) + 1

(* From the moment the token is saved until the release, whatever the      *)
(* controller does it does under the mutation lock: no recovery of a lock  *)
(* takes it from a controller at work (_require_owned_lock, recover).      *)
LockCoversWork ==
    ctl \in Control \ {"down", "acquire", "forget"} => lock = "mine"

(* The ledger is never behind the phase file, and ahead of it by one phase *)
(* or by the end of the cleanup (_transition_to, _execute_cleanup_suffix). *)
PhaseIsLedgered == tail \in {phase, phase + 1, Done}

Dormant ==
    /\ exec \in {0, 4}
    /\ cap \in {0, 2}
    /\ Open = {}
    /\ recorded \cap running = {}
    /\ \A a \in Agents : agent[a] # "online"

(* The controller gives the lock back only when what it activated is       *)
(* dormant again: empty catalogs, agents offline, no open job, even one    *)
(* whose submission was never answered, and no recorded unit running.      *)
GivenBackDormant ==
    [][lock = "mine" /\ lock' = "free" /\ ctl # "down" => Dormant]_vars

(* A cleanup that starts from a state it can undo, and whose calls are     *)
(* answered, is never refused by the order of its own calls.               *)
SweepSucceedsWhenFit == [][ctl = "clean" /\ ctl' = "down" => ~fit']_vars

(* A first run that nothing around it disturbs ends at done, by the phases *)
(* or by the cleanup, without the lock and without a token file.           *)
UndisturbedRunEndsClean ==
    ctl = "down" /\ auth /\ ~fault /\ ~earlier
        => phase = Done /\ lock # "mine" /\ ~token

(* A first run that nothing around it disturbs does not fail: once J3 is   *)
(* reaped it is recovered, and J5 is claimed after it (production plan,    *)
(* rows B and D to F, steps 6 to 9).                                       *)
UndisturbedRunPasses == ~fault /\ ~earlier => ctl # "failed"

(* Every command of the controller comes to its end. *)
RunEnds == (ctl # "down") ~> (ctl = "down")
=============================================================================
