--------------------------- MODULE DiscordBridge ---------------------------
(***************************************************************************)
(* One agent's Discord client (multinexus/client.py, coordinator_handoff.py*)
(* and handoff_handler.py): which messages it takes up, and the steps from *)
(* a message to the answer.  A managed client (agentd_mode) turns a message*)
(* into a Coordinate job and waits for it, a direct one runs the provider. *)
(*                                                                         *)
(* The handlers of the post and of the edit of a message interleave at     *)
(* their awaits: one action is one awaited call.  The handlers of different*)
(* messages share the session table only (Conversation).                   *)
(* Every call of the Coordinate CLI can fail before or after it has taken  *)
(* effect, every message sent can fail, and jobs end when they like.       *)
(* The parts left to Coordinate are external: an assignment it records, a  *)
(* job per idempotency key.                                                *)
(***************************************************************************)
EXTENDS Naturals, FiniteSets

CONSTANTS Messages

VARIABLES
    managed,   \* agentd_mode
    edited,    \* the messages that have been edited
    hs,        \* hs[h]: the handler h = <<message, event>>: where it stands, what
               \* the message said then, is it a claimed handoff, did it fail
    reports,   \* reports[h]: the structured reports it handed to Discord
    assigned,  \* Coordinate: messages whose task is assigned to this agent
    jobs       \* Coordinate: the jobs, jobs[key] their state

bridgeVars == <<managed, edited, hs, reports, assigned, jobs>>

Handlers == Messages \X {"post", "edit"}

(* What a message can be, as far as the client tells messages apart: who   *)
(* wrote it, whether it is a prompt, a [handoff] line, a handoff or closeout*)
(* notice the coordinator parser accepts, or none of these (chat).  v1: its*)
(* execution context block; bootstrap: does the bootstrap text resolve.    *)
Says(from, form, v1, bootstrap) ==
    [from |-> from, form |-> form, v1 |-> v1, bootstrap |-> bootstrap]
Chat == Says("peer", "chat", "absent", FALSE)
HumanSays == {Says("human", f, "absent", FALSE) : f \in {"prompt", "operator", "chat"}}
BotSays ==
    {Says(b, f, "absent", FALSE) : b \in {"peer", "coordinator"}, f \in {"chat", "handoff"}}
      \cup {Says("coordinator", "lifecycle", "absent", FALSE)}
      \cup {Says("coordinator", f, v, b) : f \in {"assignment", "review"},
                v \in {"absent", "malformed", "complete"}, b \in BOOLEAN}

(* Keys of the jobs: discord:<id> and discord-handoff:<id>. *)
Keys == {"discord", "discord-handoff"} \X Messages
JobStates == {"none", "queued", "done", "failed"}
Steps == {"none", "block", "accept", "bootstrap", "confirm", "submit", "run",
          "wait", "reply", "report", "ended", "raised"}
ReportKinds == {"accept", "blocker", "progress", "own"}

Handling(pc, c, claim) == [pc |-> pc, said |-> c, claim |-> claim, error |-> FALSE]

BridgeTypeOK ==
    /\ managed \in BOOLEAN
    /\ edited \subseteq Messages
    /\ hs \in [Handlers -> [pc: Steps, said: HumanSays \cup BotSays,
                           claim: BOOLEAN, error: BOOLEAN]]
    /\ reports \in [Handlers -> SUBSET ReportKinds]
    /\ assigned \subseteq Messages
    /\ jobs \in [Keys -> JobStates]

BridgeInit ==
    /\ managed \in BOOLEAN
    /\ edited = {}
    /\ hs = [h \in Handlers |-> Handling("none", Chat, FALSE)]
    /\ reports = [h \in Handlers |-> {}]
    /\ assigned = {}
    /\ jobs = [k \in Keys |-> "none"]

Go(h, pc) == hs' = [hs EXCEPT ![h].pc = pc]
At(h, pc) == hs[h].pc = pc
Said(h) == hs[h].said

(* The handler's key: a claimed handoff has a key of its own. *)
Key(h) == <<IF hs[h].claim THEN "discord-handoff" ELSE "discord", h[1]>>

-----------------------------------------------------------------------------
(* Which messages are taken up *)

(* _handle_request: no claim, straight to the job or to the provider. *)
AsRequest(c) == Handling(IF managed THEN "submit" ELSE "run", c, FALSE)
Ignored(c) == Handling("ended", c, FALSE)
AsHandoff(c, pc) == Handling(pc, c, TRUE)

(* parse_coordinator_handoff: a malformed v1 block is no handoff for a     *)
(* direct client, and a handoff without authority for a managed one.       *)
IsCoordinatorHandoff(c) ==
    /\ c.from = "coordinator"
    /\ c.form \in {"assignment", "review"}
    /\ managed \/ c.v1 # "malformed"

HasAuthority(c) == c.v1 = "complete"

(* The authority gate comes before any call, in assignments and reviews. *)
(* Mutant of ClaimStep: only assignments pass the authority gate. *)
ClaimStepLax(c) ==
    IF c.form = "review" THEN "bootstrap"
    ELSE IF managed /\ ~HasAuthority(c) THEN "block" ELSE "accept"

ClaimStep(c) ==
    IF managed /\ ~HasAuthority(c) THEN "block"
    ELSE IF c.form = "review" THEN "bootstrap" ELSE "accept"

(* A closeout notice is dealt with on the spot: the sessions of the task   *)
(* are archived (Conversation), and a direct client says so.               *)
Lifecycle(c) == IF managed THEN Ignored(c) ELSE AsHandoff(c, "report")

(* Chat is only recorded, and an operator's command answered at once. *)
Taken(c) ==
    IF c.form \in {"chat", "operator"} THEN Ignored(c)
    ELSE IF c.form = "lifecycle" THEN Lifecycle(c)
    ELSE IF IsCoordinatorHandoff(c) THEN AsHandoff(c, ClaimStep(c))
    ELSE AsRequest(c)

(* on_message *)
OnMessage(m) ==
    /\ At(<<m, "post">>, "none")
    /\ \E c \in HumanSays \cup BotSays :
         hs' = [hs EXCEPT ![<<m, "post">>] = Taken(c)]
    /\ UNCHANGED <<managed, edited, reports, assigned, jobs>>

(* on_message_edit: a message of another bot that is a handoff now is      *)
(* handled as a request, the coordinator's too, whatever has become of the *)
(* message as it was posted.                                               *)
OnMessageEdit(m) ==
    /\ ~At(<<m, "post">>, "none")
    /\ At(<<m, "edit">>, "none")
    /\ \E c \in BotSays :
         /\ c.from = Said(<<m, "post">>).from
         /\ c.form \in {"handoff", "assignment", "review"}
         /\ hs' = [hs EXCEPT ![<<m, "edit">>] = AsRequest(c)]
    /\ edited' = edited \cup {m}
    /\ UNCHANGED <<managed, reports, assigned, jobs>>

-----------------------------------------------------------------------------
(* The claim of a coordinator handoff *)

(* A send that fails raises out of the handler; otherwise report k is out. *)
SendsReport(h, k, pc) ==
    \/ Go(h, pc) /\ reports' = [reports EXCEPT ![h] = @ \cup {k}]
    \/ Go(h, "raised") /\ UNCHANGED reports

SendBlocker(h) ==
    /\ At(h, "block")
    /\ SendsReport(h, "blocker", "ended")
    /\ UNCHANGED <<managed, edited, assigned, jobs>>

(* A managed client does not start a provider without the bootstrap text. *)
(* Mutant of WithBootstrap: the prompt falls back to the bare handoff. *)
WithBootstrapLax(h) == Go(h, "confirm")

WithBootstrap(h) ==
    Go(h, IF managed /\ ~Said(h).bootstrap THEN "block" ELSE "confirm")

(* assignment accept: the CLI answers, or its 30 seconds are over with the *)
(* assignment recorded or not; a failure is reported as a blocker.         *)
AssignmentAccept(h) ==
    /\ At(h, "accept")
    /\ \/ assigned' = assigned \cup {h[1]} /\ WithBootstrap(h)
       \/ assigned' = assigned \cup {h[1]} /\ Go(h, "block")
       \/ UNCHANGED assigned /\ Go(h, "block")
    /\ UNCHANGED <<managed, edited, reports, jobs>>

(* A review takes no assignment and reads the bootstrap file itself. *)
ReadBootstrap(h) ==
    /\ At(h, "bootstrap")
    /\ WithBootstrap(h)
    /\ UNCHANGED <<managed, edited, reports, assigned, jobs>>

Confirm(h) ==
    /\ At(h, "confirm")
    /\ SendsReport(h, "accept", IF managed THEN "submit" ELSE "run")
    /\ UNCHANGED <<managed, edited, assigned, jobs>>

-----------------------------------------------------------------------------
(* The job *)

Created(k) == jobs' = [jobs EXCEPT ![k] = IF @ = "none" THEN "queued" ELSE @]

(* An answer without a job: the placeholder says so and the request is over;*)
(* of a handoff it is the answer, an error.                                *)
WithoutJob(h) ==
    IF hs[h].claim THEN hs' = [hs EXCEPT ![h].pc = "reply", ![h].error = TRUE]
    ELSE Go(h, "ended")

(* submit_request: Coordinate makes one job per key.  The CLI fails, with  *)
(* or without the job made, and the handler dies with the placeholder on   *)
(* the screen; or it answers without a job.                                *)
(* Mutant of Submit: a failed call falls back to a submission under another*)
(* key.                                                                    *)
SubmitAgain(h) ==
    /\ At(h, "submit")
    /\ \/ Created(Key(h)) /\ Go(h, "wait")
       \/ Created(<<"discord", h[1]>>) /\ Go(h, "submit")
       \/ UNCHANGED jobs /\ WithoutJob(h)
    /\ UNCHANGED <<managed, edited, reports, assigned>>

Submit(h) ==
    /\ At(h, "submit")
    /\ \/ Created(Key(h)) /\ Go(h, "wait")
       \/ Created(Key(h)) /\ Go(h, "raised")
       \/ UNCHANGED jobs /\ Go(h, "raised")
       \/ UNCHANGED jobs /\ WithoutJob(h)
    /\ UNCHANGED <<managed, edited, reports, assigned>>

(* External: a worker or the server reaps the job. *)
JobEnds(k) ==
    /\ jobs[k] = "queued"
    /\ \E s \in {"done", "failed"} : jobs' = [jobs EXCEPT ![k] = s]
    /\ UNCHANGED <<managed, edited, hs, reports, assigned>>

(* wait_for_job_result: polls until the job is terminal or the time is up. *)
(* Mutant of WaitForJob: no time limit. *)
WaitForJobForever(h) ==
    /\ At(h, "wait")
    /\ jobs[Key(h)] \in {"done", "failed"}
    /\ hs' = [hs EXCEPT ![h].pc = "reply", ![h].error = jobs[Key(h)] = "failed"]
    /\ UNCHANGED <<managed, edited, reports, assigned, jobs>>

WaitForJob(h) ==
    /\ At(h, "wait")
    /\ \/ /\ jobs[Key(h)] \in {"done", "failed"}
          /\ hs' = [hs EXCEPT ![h].pc = "reply", ![h].error = jobs[Key(h)] = "failed"]
       \/ hs' = [hs EXCEPT ![h].pc = "reply", ![h].error = TRUE]
    /\ UNCHANGED <<managed, edited, reports, assigned, jobs>>

(* A poll that fails raises: the answer of the job is lost for the channel.*)
PollFails(h) ==
    /\ At(h, "wait")
    /\ Go(h, "raised")
    /\ UNCHANGED <<managed, edited, reports, assigned, jobs>>

(* The direct client: the provider run, whose errors are text too. *)
RunProvider(h) ==
    /\ At(h, "run")
    /\ \E e \in BOOLEAN : hs' = [hs EXCEPT ![h].pc = "reply", ![h].error = e]
    /\ UNCHANGED <<managed, edited, reports, assigned, jobs>>

(* The answer goes to the channel; the first chunk can fail and raise.     *)
(* Reports of the agent are posted by a direct client only.                *)
Reply(h) ==
    /\ At(h, "reply")
    /\ Go(h, IF hs[h].claim /\ ~managed THEN "report" ELSE "ended") \/ Go(h, "raised")
    /\ UNCHANGED <<managed, edited, reports, assigned, jobs>>

(* _send_missing_report_fallback: an answer without a report of the agent's*)
(* own is reported as a blocker or as progress.  The same step stands for  *)
(* the report on archived sessions.                                        *)
FinalReport(h) ==
    /\ At(h, "report")
    /\ \E k \in {"own", IF hs[h].error THEN "blocker" ELSE "progress"} :
         /\ Said(h).form = "lifecycle" => k = "progress"
         /\ reports' = [reports EXCEPT ![h] = @ \cup {k}]
    /\ Go(h, "ended")
    /\ UNCHANGED <<managed, edited, assigned, jobs>>

HandlerStep(h) ==
    \/ SendBlocker(h)
    \/ AssignmentAccept(h)
    \/ ReadBootstrap(h)
    \/ Confirm(h)
    \/ Submit(h)
    \/ WaitForJob(h)
    \/ RunProvider(h)
    \/ Reply(h)
    \/ FinalReport(h)

BridgeNext ==
    \/ \E m \in Messages : OnMessage(m) \/ OnMessageEdit(m)
    \/ \E h \in Handlers : HandlerStep(h) \/ PollFails(h)
    \/ \E k \in Keys : JobEnds(k)

(* A handler that awaits something goes on: the CLI is bounded by its 30   *)
(* seconds, the wait by the agent's timeout, a send by the HTTP client.    *)
(* Nothing is assumed of the jobs, and no failure is counted on.           *)
BridgeFairness == \A h \in Handlers : WF_bridgeVars(HandlerStep(h))

BridgeSpec == BridgeInit /\ [][BridgeNext]_bridgeVars /\ BridgeFairness

-----------------------------------------------------------------------------
(* Properties *)

(* A message makes one job however often the gateway shows it, whatever    *)
(* fails on the way; but for a coordinator handoff that is edited, which is*)
(* handled a second time outside the claim.                                *)
OneJobPerMessage ==
    \A m \in Messages :
        (\A k \in {"discord", "discord-handoff"} : jobs[<<k, m>>] # "none")
            => Said(<<m, "post">>).from = "coordinator" /\ m \in edited

(* A job in a handoff's name has been claimed in full: the handoff gives a *)
(* v1 authority, the bootstrap text was there, the task is assigned or is a*)
(* review, and the coordinator has been told of an acceptance and of no    *)
(* blocker.                                                                *)
HandoffJobIsClaimed ==
    \A m \in Messages :
        jobs[<<"discord-handoff", m>>] # "none" =>
            /\ HasAuthority(Said(<<m, "post">>)) /\ Said(<<m, "post">>).bootstrap
            /\ Said(<<m, "post">>).form = "review" \/ m \in assigned
            /\ "accept" \in reports[<<m, "post">>]
            /\ "blocker" \notin reports[<<m, "post">>]

(* Every handler comes to an end, also when its job never does: no handler *)
(* waits for ever behind a lost answer, a lost submit or a stuck job.      *)
HandlersEnd ==
    \A h \in Handlers : hs[h].pc # "none" ~> hs[h].pc \in {"ended", "raised"}
=============================================================================
