--------------------------- MODULE BridgeProofs ----------------------------
(***************************************************************************)
(* The bridges, for any number of messages.  What a Discord client promises*)
(* of the jobs it makes: RequestInv says under which key a message can have*)
(* a job, ClaimInv what a coordinator handoff has behind it at each step of*)
(* its claim.  What the KOOK bridge promises of a message shown twice:     *)
(* WindowInv relates its window of ids to what it took up.                 *)
(***************************************************************************)
EXTENDS DiscordBridge, KookBridge, SequenceTheorems, TLAPS

PostOf(m) == <<m, "post">>
EditOf(m) == <<m, "edit">>

(* Only the post of a coordinator message is claimed; each of the two keys *)
(* of a message belongs to one way of handling it.                         *)
RequestInv ==
    \A m \in Messages :
        /\ ~hs[EditOf(m)].claim
        /\ hs[EditOf(m)].pc # "none" => m \in edited
        /\ hs[PostOf(m)].claim => Said(PostOf(m)).from = "coordinator" /\ hs[PostOf(m)].pc # "none"
        /\ jobs[<<"discord-handoff", m>>] # "none" => hs[PostOf(m)].claim
        /\ jobs[<<"discord", m>>] # "none" =>
             m \in edited \/ (hs[PostOf(m)].pc # "none" /\ ~hs[PostOf(m)].claim)

(* The conditions of a handoff's job, gathered one at a time. *)
Staffed(m) ==
    /\ Said(PostOf(m)).bootstrap
    /\ Said(PostOf(m)).form = "review" \/ m \in assigned

ClaimAt(m) ==
    /\ hs[PostOf(m)].pc = "none" => reports[PostOf(m)] = {}
    /\ hs[PostOf(m)].pc = "submit" => managed
    /\ managed /\ hs[PostOf(m)].claim =>
         /\ hs[PostOf(m)].pc \in {"accept", "bootstrap", "confirm", "submit"} =>
              HasAuthority(Said(PostOf(m))) /\ "blocker" \notin reports[PostOf(m)]
         /\ hs[PostOf(m)].pc = "bootstrap" => Said(PostOf(m)).form = "review"
         /\ hs[PostOf(m)].pc \in {"confirm", "submit"} => Staffed(m)
         /\ hs[PostOf(m)].pc = "submit" => "accept" \in reports[PostOf(m)]
    /\ jobs[<<"discord-handoff", m>>] # "none" =>
         /\ managed /\ hs[PostOf(m)].pc \in {"wait", "reply", "ended", "raised"}
         /\ HasAuthority(Said(PostOf(m))) /\ Staffed(m)
         /\ "accept" \in reports[PostOf(m)] /\ "blocker" \notin reports[PostOf(m)]

ClaimInv == \A m \in Messages : ClaimAt(m)

-----------------------------------------------------------------------------
HandlingType == [pc: Steps, said: HumanSays \cup BotSays, claim: BOOLEAN, error: BOOLEAN]

LEMMA InHandlers ==
    ASSUME NEW m \in Messages
    PROVE  /\ PostOf(m) \in Handlers /\ EditOf(m) \in Handlers /\ PostOf(m) # EditOf(m)
           /\ <<"discord", m>> \in Keys /\ <<"discord-handoff", m>> \in Keys
BY DEF PostOf, EditOf, Handlers, Keys

LEMMA OfHandlers ==
    ASSUME NEW h \in Handlers
    PROVE  h[1] \in Messages /\ (h = PostOf(h[1]) \/ h = EditOf(h[1]))
BY DEF PostOf, EditOf, Handlers

(* A step of a handler keeps what the message said and whether it is a     *)
(* claim; the other handlers are where they were.                          *)
LEMMA GoFacts ==
    ASSUME hs \in [Handlers -> HandlingType], NEW h \in Handlers, NEW pc \in Steps \ {"none"},
           NEW e \in BOOLEAN,
           Go(h, pc) \/ hs' = [hs EXCEPT ![h].pc = pc, ![h].error = e]
    PROVE  /\ hs' \in [Handlers -> HandlingType]
           /\ hs'[h].pc = pc /\ hs'[h].said = hs[h].said /\ hs'[h].claim = hs[h].claim
           /\ \A g \in Handlers : g # h => hs'[g] = hs[g]
<1>. DEFINE f == hs[h]
            x == [f EXCEPT !.pc = pc]
            y == [f EXCEPT !.pc = pc, !.error = e]
<1>1. f \in HandlingType
  OBVIOUS
<1>2. /\ x \in HandlingType /\ x.pc = pc /\ x.said = f.said /\ x.claim = f.claim
      /\ y \in HandlingType /\ y.pc = pc /\ y.said = f.said /\ y.claim = f.claim
  BY <1>1 DEF HandlingType
<1>3. hs' = [hs EXCEPT ![h] = x] \/ hs' = [hs EXCEPT ![h] = y]
  BY DEF Go
<1>. QED
  <2>. HIDE DEF x, y
  <2>. QED BY <1>2, <1>3

(* What a message can lead to when it is taken up. *)
LEMMA TakenFacts ==
    ASSUME NEW c \in HumanSays \cup BotSays, managed \in BOOLEAN
    PROVE  /\ Taken(c) \in HandlingType /\ AsRequest(c) \in HandlingType
           /\ Taken(c).pc # "none" /\ AsRequest(c).pc # "none"
           /\ Taken(c).said = c /\ AsRequest(c).said = c /\ ~AsRequest(c).claim
           /\ Taken(c).claim => c.from = "coordinator"
           /\ Taken(c).pc = "submit" => managed
           /\ managed /\ Taken(c).claim =>
                /\ Taken(c).pc \in {"block", "accept", "bootstrap"}
                /\ Taken(c).pc # "block" => HasAuthority(c)
                /\ Taken(c).pc = "bootstrap" => c.form = "review"
<1>1. c.form = "lifecycle" => c.from = "coordinator"
  BY DEF HumanSays, BotSays, Says
<1>2. ASSUME NEW pc \in Steps, NEW b \in BOOLEAN
      PROVE  /\ Handling(pc, c, b) \in HandlingType /\ Handling(pc, c, b).pc = pc
             /\ Handling(pc, c, b).said = c /\ Handling(pc, c, b).claim = b
  BY DEF Handling, HandlingType
<1>3. AsRequest(c) = Handling(IF managed THEN "submit" ELSE "run", c, FALSE)
  BY DEF AsRequest
<1>4. \/ Taken(c) = Handling("ended", c, FALSE)
      \/ c.form = "lifecycle" /\ ~managed /\ Taken(c) = Handling("report", c, TRUE)
      \/ IsCoordinatorHandoff(c) /\ Taken(c) = Handling(ClaimStep(c), c, TRUE)
      \/ Taken(c) = AsRequest(c)
  BY DEF Taken, Ignored, Lifecycle, AsHandoff
<1>5. /\ ClaimStep(c) \in {"block", "accept", "bootstrap"}
      /\ managed /\ ClaimStep(c) # "block" => HasAuthority(c)
      /\ ClaimStep(c) = "bootstrap" => c.form = "review"
  BY DEF ClaimStep
<1>6. IsCoordinatorHandoff(c) => c.from = "coordinator"
  BY DEF IsCoordinatorHandoff
<1>7. {"ended", "report", "block", "accept", "bootstrap", "submit", "run"} \subseteq Steps
  BY DEF Steps
<1>8. /\ AsRequest(c) \in HandlingType /\ AsRequest(c).pc \in {"submit", "run"}
      /\ AsRequest(c).pc = "submit" => managed
      /\ AsRequest(c).said = c /\ ~AsRequest(c).claim
  <2>. DEFINE p == IF managed THEN "submit" ELSE "run"
  <2>1. p \in Steps /\ p \in {"submit", "run"} /\ (p = "submit" => managed) /\ FALSE \in BOOLEAN
    BY <1>7
  <2>2. AsRequest(c) = Handling(p, c, FALSE)
    BY <1>3
  <2>3. /\ Handling(p, c, FALSE) \in HandlingType /\ Handling(p, c, FALSE).pc = p
        /\ Handling(p, c, FALSE).said = c /\ Handling(p, c, FALSE).claim = FALSE
    BY <1>2, <2>1, Zenon
  <2>. HIDE DEF p
  <2>. QED BY <2>1, <2>2, <2>3
<1>9. CASE Taken(c) = AsRequest(c)
  BY <1>8, <1>9
<1>10. CASE Taken(c) = Handling("ended", c, FALSE)
  <2>1. "ended" \in Steps /\ FALSE \in BOOLEAN
    BY <1>7
  <2>2. /\ Handling("ended", c, FALSE) \in HandlingType /\ Handling("ended", c, FALSE).pc = "ended"
        /\ Handling("ended", c, FALSE).said = c /\ Handling("ended", c, FALSE).claim = FALSE
    BY <1>2, <2>1, Zenon
  <2>. QED BY <1>8, <1>10, <2>2
<1>11. CASE c.form = "lifecycle" /\ ~managed /\ Taken(c) = Handling("report", c, TRUE)
  <2>1. "report" \in Steps /\ TRUE \in BOOLEAN
    BY <1>7
  <2>2. /\ Handling("report", c, TRUE) \in HandlingType /\ Handling("report", c, TRUE).pc = "report"
        /\ Handling("report", c, TRUE).said = c /\ Handling("report", c, TRUE).claim = TRUE
    BY <1>2, <2>1, Zenon
  <2>. QED BY <1>1, <1>8, <1>11, <2>2
<1>12. CASE IsCoordinatorHandoff(c) /\ Taken(c) = Handling(ClaimStep(c), c, TRUE)
  <2>1. ClaimStep(c) \in Steps /\ TRUE \in BOOLEAN
    BY <1>5, <1>7
  <2>2. /\ Handling(ClaimStep(c), c, TRUE) \in HandlingType /\ Handling(ClaimStep(c), c, TRUE).pc = ClaimStep(c)
        /\ Handling(ClaimStep(c), c, TRUE).said = c /\ Handling(ClaimStep(c), c, TRUE).claim = TRUE
    BY <1>2, <2>1, Zenon
  <2>. QED BY <1>5, <1>6, <1>8, <1>12, <2>2
<1>. QED BY <1>4, <1>9, <1>10, <1>11, <1>12

-----------------------------------------------------------------------------
(* A handler's step from pc to one of nexts, and what it leaves alone. *)
Moves(h, nexts) ==
    /\ hs' \in [Handlers -> HandlingType]
    /\ hs'[h].pc \in nexts
    /\ hs'[h].said = hs[h].said /\ hs'[h].claim = hs[h].claim
    /\ \A g \in Handlers : g # h => hs'[g] = hs[g]
    /\ managed' = managed /\ edited' = edited

Reports(h, k) ==
    /\ reports' \in [Handlers -> SUBSET ReportKinds]
    /\ \A g \in Handlers : g # h => reports'[g] = reports[g]
    /\ reports'[h] = reports[h] \cup {k}

LEMMA MovesGo ==
    ASSUME BridgeTypeOK, NEW h \in Handlers, NEW pc, pc \in Steps \ {"none"},
           managed' = managed, edited' = edited, Go(h, pc)
    PROVE  Moves(h, {pc})
BY GoFacts, TRUE \in BOOLEAN DEF Moves, BridgeTypeOK, HandlingType

LEMMA MovesError ==
    ASSUME BridgeTypeOK, NEW h \in Handlers, NEW pc, pc \in Steps \ {"none"}, NEW e \in BOOLEAN,
           managed' = managed, edited' = edited, hs' = [hs EXCEPT ![h].pc = pc, ![h].error = e]
    PROVE  Moves(h, {pc})
BY GoFacts DEF Moves, BridgeTypeOK, HandlingType

LEMMA ReportsBy ==
    ASSUME BridgeTypeOK, NEW h \in Handlers, NEW k \in ReportKinds,
           reports' = [reports EXCEPT ![h] = @ \cup {k}]
    PROVE  Reports(h, k)
BY DEF Reports, BridgeTypeOK

LEMMA BlockMoves ==
    ASSUME BridgeTypeOK, NEW h \in Handlers, SendBlocker(h)
    PROVE  /\ hs[h].pc = "block" /\ Moves(h, {"ended", "raised"})
           /\ Reports(h, "blocker") \/ reports' = reports
           /\ assigned' = assigned /\ jobs' = jobs
<1>1. "blocker" \in ReportKinds /\ "ended" \in Steps \ {"none"} /\ "raised" \in Steps \ {"none"}
  BY DEF ReportKinds, Steps
<1>2. /\ hs[h].pc = "block" /\ SendsReport(h, "blocker", "ended")
      /\ managed' = managed /\ edited' = edited /\ assigned' = assigned /\ jobs' = jobs
  BY DEF SendBlocker, At
<1>3. CASE Go(h, "ended") /\ reports' = [reports EXCEPT ![h] = @ \cup {"blocker"}]
  <2>1. Moves(h, {"ended"}) /\ Reports(h, "blocker")
    BY <1>1, <1>2, <1>3, MovesGo, ReportsBy
  <2>. QED BY <1>2, <2>1 DEF Moves
<1>4. CASE Go(h, "raised") /\ UNCHANGED reports
  <2>1. Moves(h, {"raised"})
    BY <1>1, <1>2, <1>4, MovesGo
  <2>. QED BY <1>2, <1>4, <2>1 DEF Moves
<1>. QED BY <1>2, <1>3, <1>4 DEF SendsReport

LEMMA BootstrapMoves ==
    ASSUME BridgeTypeOK, NEW h \in Handlers, WithBootstrap(h), managed' = managed, edited' = edited
    PROVE  /\ Moves(h, {"block", "confirm"})
           /\ managed /\ hs'[h].pc = "confirm" => Said(h).bootstrap
<1>1. "block" \in Steps \ {"none"} /\ "confirm" \in Steps \ {"none"}
  BY DEF Steps
<1>2. CASE managed /\ ~Said(h).bootstrap
  <2>1. Go(h, "block") /\ Moves(h, {"block"})
    BY <1>1, <1>2, MovesGo DEF WithBootstrap
  <2>. QED BY <2>1 DEF Moves
<1>3. CASE ~(managed /\ ~Said(h).bootstrap)
  <2>1. Go(h, "confirm") /\ Moves(h, {"confirm"})
    BY <1>1, <1>3, MovesGo DEF WithBootstrap
  <2>. QED BY <1>3, <2>1 DEF Moves
<1>. QED BY <1>2, <1>3

LEMMA AcceptMoves ==
    ASSUME BridgeTypeOK, NEW h \in Handlers, AssignmentAccept(h)
    PROVE  /\ hs[h].pc = "accept" /\ Moves(h, {"block", "confirm"})
           /\ managed /\ hs'[h].pc = "confirm" => Said(h).bootstrap /\ h[1] \in assigned'
           /\ assigned \subseteq assigned' /\ assigned' \subseteq assigned \cup {h[1]}
           /\ reports' = reports /\ jobs' = jobs
<1>1. "block" \in Steps \ {"none"}
  BY DEF Steps
<1>2. CASE assigned' = assigned \cup {h[1]} /\ WithBootstrap(h)
  BY <1>2, BootstrapMoves DEF AssignmentAccept, At
<1>3. CASE assigned' \in {assigned, assigned \cup {h[1]}} /\ Go(h, "block")
  <2>1. Moves(h, {"block"})
    BY <1>1, <1>3, MovesGo DEF AssignmentAccept
  <2>. QED BY <1>3, <2>1 DEF Moves, AssignmentAccept, At
<1>. QED BY <1>2, <1>3 DEF AssignmentAccept

LEMMA ReviewMoves ==
    ASSUME BridgeTypeOK, NEW h \in Handlers, ReadBootstrap(h)
    PROVE  /\ hs[h].pc = "bootstrap" /\ Moves(h, {"block", "confirm"})
           /\ managed /\ hs'[h].pc = "confirm" => Said(h).bootstrap
           /\ reports' = reports /\ jobs' = jobs /\ assigned' = assigned
BY BootstrapMoves DEF ReadBootstrap, At

LEMMA ConfirmMoves ==
    ASSUME BridgeTypeOK, NEW h \in Handlers, Confirm(h)
    PROVE  /\ hs[h].pc = "confirm" /\ assigned' = assigned /\ jobs' = jobs
           /\ \/ Moves(h, {IF managed THEN "submit" ELSE "run"}) /\ Reports(h, "accept")
              \/ Moves(h, {"raised"}) /\ reports' = reports
<1>. DEFINE p == IF managed THEN "submit" ELSE "run"
<1>1. "accept" \in ReportKinds /\ p \in Steps \ {"none"} /\ "raised" \in Steps \ {"none"}
  BY DEF ReportKinds, Steps
<1>2. /\ hs[h].pc = "confirm" /\ SendsReport(h, "accept", p)
      /\ managed' = managed /\ edited' = edited /\ assigned' = assigned /\ jobs' = jobs
  BY DEF Confirm, At
<1>3. CASE Go(h, p) /\ reports' = [reports EXCEPT ![h] = @ \cup {"accept"}]
  <2>. HIDE DEF p
  <2>1. Moves(h, {p}) /\ Reports(h, "accept")
    BY <1>1, <1>2, <1>3, MovesGo, ReportsBy
  <2>. QED BY <1>2, <2>1 DEF p
<1>4. CASE Go(h, "raised") /\ UNCHANGED reports
  BY <1>1, <1>2, <1>4, MovesGo
<1>. QED BY <1>2, <1>3, <1>4 DEF SendsReport

LEMMA SubmitMoves ==
    ASSUME BridgeTypeOK, NEW h \in Handlers, Submit(h)
    PROVE  /\ hs[h].pc = "submit" /\ assigned' = assigned /\ reports' = reports
           /\ Moves(h, {"wait", "reply", "ended", "raised"})
           /\ \/ jobs' = jobs
              \/ Created(Key(h)) /\ Moves(h, {"wait", "raised"})
<1>1. /\ "wait" \in Steps \ {"none"} /\ "reply" \in Steps \ {"none"}
      /\ "ended" \in Steps \ {"none"} /\ "raised" \in Steps \ {"none"}
  BY DEF Steps
<1>2. /\ hs[h].pc = "submit" /\ managed' = managed /\ edited' = edited
      /\ assigned' = assigned /\ reports' = reports
  BY DEF Submit, At
<1>3. CASE Created(Key(h)) /\ Go(h, "wait")
  <2>1. Moves(h, {"wait"})
    BY <1>1, <1>2, <1>3, MovesGo
  <2>. QED BY <1>2, <1>3, <2>1 DEF Moves
<1>4. CASE Go(h, "raised")
  <2>1. Moves(h, {"raised"})
    BY <1>1, <1>2, <1>4, MovesGo
  <2>. QED BY <1>2, <1>4, <2>1 DEF Moves, Submit
<1>5. CASE jobs' = jobs /\ WithoutJob(h)
  <2>1. Moves(h, {"reply"}) \/ Moves(h, {"ended"})
    BY <1>1, <1>2, <1>5, MovesGo, MovesError, TRUE \in BOOLEAN DEF WithoutJob
  <2>. QED BY <1>2, <1>5, <2>1 DEF Moves
<1>. QED BY <1>3, <1>4, <1>5 DEF Submit

(* The steps after the job, and those of a direct client. *)
LEMMA RestMoves ==
    ASSUME BridgeTypeOK, NEW h \in Handlers,
           WaitForJob(h) \/ PollFails(h) \/ RunProvider(h) \/ Reply(h)
    PROVE  /\ hs[h].pc \in {"wait", "run", "reply"}
           /\ Moves(h, {"reply", "report", "ended", "raised"})
           /\ hs'[h].pc = "report" => hs[h].claim /\ ~managed
           /\ assigned' = assigned /\ reports' = reports /\ jobs' = jobs
<1>1. /\ "report" \in Steps \ {"none"} /\ "reply" \in Steps \ {"none"}
      /\ "ended" \in Steps \ {"none"} /\ "raised" \in Steps \ {"none"}
  BY DEF Steps
<1>2. /\ hs[h].pc \in {"wait", "run", "reply"} /\ managed' = managed /\ edited' = edited
      /\ assigned' = assigned /\ reports' = reports /\ jobs' = jobs
  BY DEF WaitForJob, PollFails, RunProvider, Reply, At
<1>3. CASE Go(h, "raised")
  <2>1. Moves(h, {"raised"})
    BY <1>1, <1>2, <1>3, MovesGo
  <2>. QED BY <1>2, <2>1 DEF Moves
<1>4. CASE \E e \in BOOLEAN : hs' = [hs EXCEPT ![h].pc = "reply", ![h].error = e]
  <2>1. Moves(h, {"reply"})
    BY <1>1, <1>2, <1>4, MovesError
  <2>. QED BY <1>2, <2>1 DEF Moves
<1>5. CASE Go(h, IF hs[h].claim /\ ~managed THEN "report" ELSE "ended")
  <2>1. \/ Moves(h, {"report"}) /\ hs[h].claim /\ ~managed
        \/ Moves(h, {"ended"})
    BY <1>1, <1>2, <1>5, MovesGo
  <2>. QED BY <1>2, <2>1 DEF Moves
<1>6. (jobs[Key(h)] = "failed") \in BOOLEAN /\ TRUE \in BOOLEAN
  OBVIOUS
<1>. QED BY <1>3, <1>4, <1>5, <1>6 DEF WaitForJob, PollFails, RunProvider, Reply

LEMMA ReportMoves ==
    ASSUME BridgeTypeOK, NEW h \in Handlers, FinalReport(h)
    PROVE  /\ hs[h].pc = "report" /\ Moves(h, {"ended"})
           /\ \E k \in ReportKinds : Reports(h, k)
           /\ assigned' = assigned /\ jobs' = jobs
<1>1. "ended" \in Steps \ {"none"} /\ {"own", "blocker", "progress"} \subseteq ReportKinds
  BY DEF Steps, ReportKinds
<1>2. /\ hs[h].pc = "report" /\ managed' = managed /\ edited' = edited
      /\ assigned' = assigned /\ jobs' = jobs /\ Go(h, "ended")
  BY DEF FinalReport, At
<1>3. PICK k \in {"own", IF hs[h].error THEN "blocker" ELSE "progress"} :
        reports' = [reports EXCEPT ![h] = @ \cup {k}]
  BY DEF FinalReport
<1>4. k \in ReportKinds
  BY <1>1
<1>5. Reports(h, k)
  BY <1>3, <1>4, ReportsBy
<1>6. Moves(h, {"ended"})
  BY <1>1, <1>2, MovesGo
<1>. QED BY <1>2, <1>4, <1>5, <1>6

(* What every step of a handler has in common. *)
LEMMA StepMoves ==
    ASSUME BridgeTypeOK, NEW h \in Handlers, HandlerStep(h) \/ PollFails(h)
    PROVE  /\ hs[h].pc # "none" /\ Moves(h, Steps \ {"none"})
           /\ assigned \subseteq assigned' /\ assigned' \subseteq assigned \cup {h[1]}
           /\ reports' = reports \/ \E k \in ReportKinds : Reports(h, k)
           /\ jobs' = jobs \/ Created(Key(h))
<1>1. /\ \A s \in {"block", "confirm", "submit", "run", "wait", "reply", "report", "ended", "raised"} :
           s \in Steps \ {"none"}
      /\ "blocker" \in ReportKinds /\ "accept" \in ReportKinds
  BY DEF Steps, ReportKinds
<1>2. CASE SendBlocker(h)
  BY <1>1, <1>2, BlockMoves DEF Moves
<1>3. CASE AssignmentAccept(h)
  BY <1>1, <1>3, AcceptMoves DEF Moves
<1>4. CASE ReadBootstrap(h)
  BY <1>1, <1>4, ReviewMoves DEF Moves
<1>5. CASE Confirm(h)
  BY <1>1, <1>5, ConfirmMoves DEF Moves
<1>6. CASE Submit(h)
  BY <1>1, <1>6, SubmitMoves DEF Moves
<1>7. CASE WaitForJob(h) \/ PollFails(h) \/ RunProvider(h) \/ Reply(h)
  BY <1>1, <1>7, RestMoves DEF Moves
<1>8. CASE FinalReport(h)
  BY <1>1, <1>8, ReportMoves DEF Moves
<1>. QED BY <1>2, <1>3, <1>4, <1>5, <1>6, <1>7, <1>8 DEF HandlerStep

LEMMA CreatedFacts ==
    ASSUME BridgeTypeOK, NEW k \in Keys, Created(k)
    PROVE  /\ jobs' \in [Keys -> JobStates]
           /\ \A x \in Keys : jobs'[x] # "none" => jobs[x] # "none" \/ x = k
           /\ \A x \in Keys : jobs[x] # "none" => jobs'[x] # "none"
BY DEF Created, BridgeTypeOK, JobStates

LEMMA KeyFacts ==
    ASSUME NEW h \in Handlers
    PROVE  /\ Key(h) \in Keys
           /\ Key(h) = <<"discord-handoff", h[1]>> \/ Key(h) = <<"discord", h[1]>>
           /\ Key(h)[1] = "discord-handoff" <=> hs[h].claim
           /\ Key(h)[2] = h[1]
BY OfHandlers DEF Key, Keys

(* A message is taken up. *)
LEMMA OnFacts ==
    ASSUME BridgeTypeOK, NEW m \in Messages, OnMessage(m) \/ OnMessageEdit(m)
    PROVE  /\ managed' = managed /\ reports' = reports /\ assigned' = assigned /\ jobs' = jobs
           /\ hs' \in [Handlers -> HandlingType]
           /\ OnMessage(m) =>
                /\ hs[PostOf(m)].pc = "none" /\ edited' = edited
                /\ \E c \in HumanSays \cup BotSays : hs'[PostOf(m)] = Taken(c)
                /\ \A h \in Handlers : h # PostOf(m) => hs'[h] = hs[h]
           /\ OnMessageEdit(m) =>
                /\ edited' = edited \cup {m} /\ hs[EditOf(m)].pc = "none"
                /\ \E c \in BotSays : hs'[EditOf(m)] = AsRequest(c)
                /\ \A h \in Handlers : h # EditOf(m) => hs'[h] = hs[h]
<1>1. CASE OnMessage(m)
  <2>1. PICK c \in HumanSays \cup BotSays : hs' = [hs EXCEPT ![PostOf(m)] = Taken(c)]
    BY <1>1 DEF OnMessage, PostOf
  <2>2. Taken(c) \in HandlingType
    BY TakenFacts DEF BridgeTypeOK
  <2>3. hs \in [Handlers -> HandlingType]
    BY DEF BridgeTypeOK, HandlingType
  <2>4. ~OnMessageEdit(m)
    BY <1>1 DEF OnMessage, OnMessageEdit, At
  <2>. QED BY <1>1, <2>1, <2>2, <2>3, <2>4, InHandlers DEF OnMessage, At, PostOf
<1>2. CASE OnMessageEdit(m)
  <2>1. PICK c \in BotSays : hs' = [hs EXCEPT ![EditOf(m)] = AsRequest(c)]
    BY <1>2 DEF OnMessageEdit, EditOf
  <2>2. AsRequest(c) \in HandlingType
    BY TakenFacts DEF BridgeTypeOK
  <2>3. hs \in [Handlers -> HandlingType]
    BY DEF BridgeTypeOK, HandlingType
  <2>4. ~OnMessage(m)
    BY <1>2 DEF OnMessage, OnMessageEdit, At
  <2>. QED BY <1>2, <2>1, <2>2, <2>3, <2>4, InHandlers DEF OnMessageEdit, At, EditOf
<1>. QED BY <1>1, <1>2

LEMMA EndsFacts ==
    ASSUME BridgeTypeOK, NEW k \in Keys, JobEnds(k)
    PROVE  /\ UNCHANGED <<managed, edited, hs, reports, assigned>>
           /\ jobs' \in [Keys -> JobStates]
           /\ \A x \in Keys : jobs'[x] # "none" <=> jobs[x] # "none"
BY DEF JobEnds, BridgeTypeOK, JobStates

-----------------------------------------------------------------------------
LEMMA BridgeTypeNext ==
    BridgeTypeOK /\ [BridgeNext]_bridgeVars => BridgeTypeOK'
<1>. SUFFICES ASSUME BridgeTypeOK, [BridgeNext]_bridgeVars PROVE BridgeTypeOK'
  OBVIOUS
<1>1. ASSUME NEW m \in Messages, OnMessage(m) \/ OnMessageEdit(m) PROVE BridgeTypeOK'
  BY <1>1, OnFacts DEF BridgeTypeOK, HandlingType
<1>2. ASSUME NEW h \in Handlers, HandlerStep(h) \/ PollFails(h) PROVE BridgeTypeOK'
  <2>1. reports' \in [Handlers -> SUBSET ReportKinds]
    BY <1>2, StepMoves DEF BridgeTypeOK, Reports
  <2>2. jobs' \in [Keys -> JobStates]
    BY <1>2, StepMoves, CreatedFacts, KeyFacts DEF BridgeTypeOK
  <2>. QED BY <1>2, <2>1, <2>2, StepMoves, OfHandlers DEF BridgeTypeOK, Moves, HandlingType
<1>3. ASSUME NEW k \in Keys, JobEnds(k) PROVE BridgeTypeOK'
  BY <1>3, EndsFacts DEF BridgeTypeOK
<1>4. CASE UNCHANGED bridgeVars
  BY <1>4 DEF bridgeVars, BridgeTypeOK
<1>. QED BY <1>1, <1>2, <1>3, <1>4 DEF BridgeNext

(* Each key of a message belongs to one way of handling it. *)
LEMMA RequestNext ==
    BridgeTypeOK /\ RequestInv /\ [BridgeNext]_bridgeVars => RequestInv'
<1>. SUFFICES ASSUME BridgeTypeOK, RequestInv, [BridgeNext]_bridgeVars,
                     NEW m \in Messages
              PROVE  /\ ~hs'[EditOf(m)].claim
                     /\ hs'[EditOf(m)].pc # "none" => m \in edited'
                     /\ hs'[PostOf(m)].claim =>
                          hs'[PostOf(m)].said.from = "coordinator" /\ hs'[PostOf(m)].pc # "none"
                     /\ jobs'[<<"discord-handoff", m>>] # "none" => hs'[PostOf(m)].claim
                     /\ jobs'[<<"discord", m>>] # "none" =>
                          m \in edited' \/ (hs'[PostOf(m)].pc # "none" /\ ~hs'[PostOf(m)].claim)
  BY DEF RequestInv, Said
<1>1. /\ ~hs[EditOf(m)].claim
      /\ hs[EditOf(m)].pc # "none" => m \in edited
      /\ hs[PostOf(m)].claim => hs[PostOf(m)].said.from = "coordinator" /\ hs[PostOf(m)].pc # "none"
      /\ jobs[<<"discord-handoff", m>>] # "none" => hs[PostOf(m)].claim
      /\ jobs[<<"discord", m>>] # "none" =>
           m \in edited \/ (hs[PostOf(m)].pc # "none" /\ ~hs[PostOf(m)].claim)
  BY DEF RequestInv, Said
<1>2. ASSUME NEW n \in Messages, OnMessage(n)
      PROVE  /\ hs'[EditOf(m)] = hs[EditOf(m)] /\ edited' = edited /\ jobs' = jobs
             /\ \/ hs'[PostOf(m)] = hs[PostOf(m)]
                \/ /\ hs[PostOf(m)].pc = "none" /\ hs'[PostOf(m)].pc # "none"
                   /\ hs'[PostOf(m)].claim => hs'[PostOf(m)].said.from = "coordinator"
  <2>1. PostOf(n) # EditOf(m) /\ (PostOf(n) = PostOf(m) => n = m)
    BY DEF PostOf, EditOf
  <2>2. PICK c \in HumanSays \cup BotSays : hs'[PostOf(n)] = Taken(c)
    BY <1>2, OnFacts
  <2>3. Taken(c).pc # "none" /\ Taken(c).said = c /\ (Taken(c).claim => c.from = "coordinator")
    BY TakenFacts DEF BridgeTypeOK
  <2>4. /\ edited' = edited /\ jobs' = jobs /\ hs[PostOf(n)].pc = "none"
        /\ \A h \in Handlers : h # PostOf(n) => hs'[h] = hs[h]
    BY <1>2, OnFacts
  <2>5. hs'[EditOf(m)] = hs[EditOf(m)]
    BY <2>4, InHandlers DEF PostOf, EditOf
  <2>6. CASE n = m
    BY <2>2, <2>3, <2>4, <2>5, <2>6
  <2>7. CASE n # m
    BY <2>1, <2>4, <2>5, <2>7, InHandlers
  <2>. QED BY <2>6, <2>7
<1>3. ASSUME NEW n \in Messages, OnMessageEdit(n)
      PROVE  /\ hs'[PostOf(m)] = hs[PostOf(m)] /\ jobs' = jobs /\ edited \subseteq edited'
             /\ \/ hs'[EditOf(m)] = hs[EditOf(m)]
                \/ ~hs'[EditOf(m)].claim /\ m \in edited'
  <2>1. EditOf(n) # PostOf(m) /\ (EditOf(n) = EditOf(m) => n = m)
    BY DEF PostOf, EditOf
  <2>2. PICK c \in BotSays : hs'[EditOf(n)] = AsRequest(c)
    BY <1>3, OnFacts
  <2>3. ~AsRequest(c).claim
    BY TakenFacts DEF BridgeTypeOK
  <2>. QED BY <1>3, <2>1, <2>2, <2>3, OnFacts, InHandlers
<1>4. ASSUME NEW h \in Handlers, HandlerStep(h) \/ PollFails(h)
      PROVE  /\ edited' = edited
             /\ \A g \in Handlers : /\ hs'[g].pc # "none" <=> hs[g].pc # "none"
                                    /\ hs'[g].claim = hs[g].claim /\ hs'[g].said = hs[g].said
             /\ jobs'[<<"discord-handoff", m>>] # "none" =>
                  jobs[<<"discord-handoff", m>>] # "none" \/ (hs[h].claim /\ h = PostOf(m))
             /\ jobs'[<<"discord", m>>] # "none" =>
                  \/ jobs[<<"discord", m>>] # "none"
                  \/ ~hs[h].claim /\ hs[h].pc # "none" /\ h \in {PostOf(m), EditOf(m)}
  <2>1. ASSUME NEW k \in {"discord", "discord-handoff"}, jobs'[<<k, m>>] # "none",
               jobs[<<k, m>>] = "none"
        PROVE  Key(h) = <<k, m>>
    BY <1>4, <2>1, StepMoves, KeyFacts, CreatedFacts DEF Keys
  <2>2. ASSUME NEW k \in {"discord", "discord-handoff"}, Key(h) = <<k, m>>
        PROVE  (k = "discord-handoff" <=> hs[h].claim) /\ h \in {PostOf(m), EditOf(m)}
    BY <2>2, KeyFacts, OfHandlers
  <2>3. /\ edited' = edited /\ hs[h].pc # "none"
        /\ \A g \in Handlers : /\ hs'[g].pc # "none" <=> hs[g].pc # "none"
                               /\ hs'[g].claim = hs[g].claim /\ hs'[g].said = hs[g].said
    BY <1>4, StepMoves DEF Moves
  <2>4. ASSUME jobs'[<<"discord-handoff", m>>] # "none", jobs[<<"discord-handoff", m>>] = "none"
        PROVE  hs[h].claim /\ h = PostOf(m)
    BY <1>1, <2>1, <2>2, <2>4
  <2>5. ASSUME jobs'[<<"discord", m>>] # "none", jobs[<<"discord", m>>] = "none"
        PROVE  ~hs[h].claim /\ h \in {PostOf(m), EditOf(m)}
    BY <2>1, <2>2, <2>5
  <2>. QED BY <2>3, <2>4, <2>5
<1>5. ASSUME NEW k \in Keys, JobEnds(k)
      PROVE  /\ hs' = hs /\ edited' = edited
             /\ \A x \in Keys : jobs'[x] # "none" <=> jobs[x] # "none"
  BY <1>5, EndsFacts
<1>6. CASE \E n \in Messages : OnMessage(n)
  BY <1>1, <1>2, <1>6
<1>7. CASE \E n \in Messages : OnMessageEdit(n)
  BY <1>1, <1>3, <1>7
<1>8. CASE \E h \in Handlers : HandlerStep(h) \/ PollFails(h)
  BY <1>1, <1>4, <1>8, InHandlers
<1>9. CASE \E k \in Keys : JobEnds(k)
  BY <1>1, <1>5, <1>9, InHandlers
<1>10. CASE UNCHANGED bridgeVars
  BY <1>1, <1>10 DEF bridgeVars
<1>. QED BY <1>6, <1>7, <1>8, <1>9, <1>10 DEF BridgeNext

(* Whatever leaves the posted message and its handoff job alone keeps what *)
(* is known of its claim; assignments are not taken back.                  *)
LEMMA ClaimKept ==
    ASSUME NEW m \in Messages, ClaimAt(m), managed' = managed,
           hs'[PostOf(m)] = hs[PostOf(m)], reports'[PostOf(m)] = reports[PostOf(m)],
           assigned \subseteq assigned',
           jobs'[<<"discord-handoff", m>>] # "none" => jobs[<<"discord-handoff", m>>] # "none"
    PROVE  ClaimAt(m)'
BY DEF ClaimAt, Staffed, Said, HasAuthority

LEMMA ClaimNext ==
    BridgeTypeOK /\ RequestInv /\ ClaimInv /\ [BridgeNext]_bridgeVars => ClaimInv'
<1>. SUFFICES ASSUME BridgeTypeOK, RequestInv, ClaimInv, [BridgeNext]_bridgeVars, NEW m \in Messages
              PROVE  ClaimAt(m)'
  BY DEF ClaimInv
<1>1. ClaimAt(m) /\ PostOf(m) \in Handlers /\ <<"discord-handoff", m>> \in Keys
  BY InHandlers DEF ClaimInv
<1>2. jobs[<<"discord-handoff", m>>] # "none" => hs[PostOf(m)].claim
  BY DEF RequestInv
<1>3. ASSUME NEW h \in Handlers, HandlerStep(h) \/ PollFails(h), h # PostOf(m) PROVE ClaimAt(m)'
  <2>1. /\ managed' = managed /\ hs'[PostOf(m)] = hs[PostOf(m)]
        /\ reports'[PostOf(m)] = reports[PostOf(m)] /\ assigned \subseteq assigned'
    BY <1>1, <1>3, StepMoves DEF Moves, Reports
  <2>2. Key(h) # <<"discord-handoff", m>>
    <3>1. h[1] = m => h = EditOf(m)
      BY <1>3, OfHandlers
    <3>2. ~hs[EditOf(m)].claim
      BY DEF RequestInv
    <3>. QED BY <3>1, <3>2, KeyFacts
  <2>3. jobs'[<<"discord-handoff", m>>] # "none" => jobs[<<"discord-handoff", m>>] # "none"
    BY <1>1, <1>3, <2>2, StepMoves, KeyFacts, CreatedFacts
  <2>. QED BY <1>1, <2>1, <2>3, ClaimKept
<1>4. ASSUME NEW n \in Messages, OnMessage(n) \/ OnMessageEdit(n) PROVE ClaimAt(m)'
  <2>1. managed' = managed /\ reports' = reports /\ assigned' = assigned /\ jobs' = jobs
    BY <1>4, OnFacts
  <2>2. CASE hs'[PostOf(m)] = hs[PostOf(m)]
    BY <1>1, <2>1, <2>2, ClaimKept
  <2>3. CASE hs'[PostOf(m)] # hs[PostOf(m)]
    <3>1. OnMessage(n) /\ n = m
      BY <1>1, <1>4, <2>3, OnFacts DEF PostOf, EditOf
    <3>2. PICK c \in HumanSays \cup BotSays : hs'[PostOf(m)] = Taken(c)
      BY <3>1, OnFacts
    <3>3. hs[PostOf(m)].pc = "none" /\ reports[PostOf(m)] = {} /\ jobs[<<"discord-handoff", m>>] = "none"
      BY <1>1, <3>1, OnFacts DEF ClaimAt
    <3>4. /\ Taken(c).pc # "none" /\ Taken(c).said = c
          /\ Taken(c).pc = "submit" => managed
          /\ managed /\ Taken(c).claim =>
               /\ Taken(c).pc \in {"block", "accept", "bootstrap"}
               /\ Taken(c).pc # "block" => HasAuthority(c)
               /\ Taken(c).pc = "bootstrap" => c.form = "review"
      BY TakenFacts DEF BridgeTypeOK
    <3>. QED BY <2>1, <3>2, <3>3, <3>4 DEF ClaimAt, Said
  <2>. QED BY <2>2, <2>3
<1>5. ASSUME NEW k \in Keys, JobEnds(k) PROVE ClaimAt(m)'
  BY <1>1, <1>5, EndsFacts, ClaimKept
<1>6. CASE UNCHANGED bridgeVars
  BY <1>1, <1>6, ClaimKept DEF bridgeVars
<1>7. ASSUME HandlerStep(PostOf(m)) \/ PollFails(PostOf(m)) PROVE ClaimAt(m)'
  <2>. DEFINE h == PostOf(m)
  <2>1. /\ h \in Handlers /\ hs[h].pc # "none" /\ hs'[h].said = hs[h].said /\ hs'[h].claim = hs[h].claim
        /\ managed' = managed /\ hs'[h].pc # "none" /\ assigned \subseteq assigned'
        /\ h[1] = m
    BY <1>1, <1>7, StepMoves DEF Moves, PostOf
  <2>2. CASE SendBlocker(h)
    BY <1>1, <2>1, <2>2, BlockMoves DEF ClaimAt, Staffed, Said, HasAuthority, Moves, Reports
  <2>3. CASE AssignmentAccept(h)
    BY <1>1, <2>1, <2>3, AcceptMoves DEF ClaimAt, Staffed, Said, HasAuthority, Moves
  <2>4. CASE ReadBootstrap(h)
    BY <1>1, <2>1, <2>4, ReviewMoves DEF ClaimAt, Staffed, Said, HasAuthority, Moves
  <2>5. CASE Confirm(h)
    BY <1>1, <2>1, <2>5, ConfirmMoves DEF ClaimAt, Staffed, Said, HasAuthority, Moves, Reports
  <2>6. CASE Submit(h)
    <3>1. /\ hs[h].pc = "submit" /\ assigned' = assigned /\ reports' = reports
          /\ hs'[h].pc \in {"wait", "reply", "ended", "raised"}
      BY <2>1, <2>6, SubmitMoves DEF Moves
    <3>2. jobs[<<"discord-handoff", m>>] = "none" /\ managed
      BY <1>1, <3>1 DEF ClaimAt
    <3>3. jobs'[<<"discord-handoff", m>>] # "none" => hs[h].claim
      BY <1>1, <2>1, <2>6, <3>2, SubmitMoves, CreatedFacts, KeyFacts
    <3>. QED BY <1>1, <2>1, <3>1, <3>2, <3>3 DEF ClaimAt, Staffed, Said
  <2>7. CASE WaitForJob(h) \/ PollFails(h) \/ RunProvider(h) \/ Reply(h)
    <3>1. /\ hs'[h].pc \in {"reply", "report", "ended", "raised"}
          /\ hs'[h].pc = "report" => ~managed
          /\ assigned' = assigned /\ reports' = reports /\ jobs' = jobs
      BY <2>1, <2>7, RestMoves DEF Moves
    <3>. QED BY <1>1, <2>1, <3>1 DEF ClaimAt, Staffed, Said
  <2>8. CASE FinalReport(h)
    BY <1>1, <2>1, <2>8, ReportMoves DEF ClaimAt, Moves
  <2>. QED BY <1>7, <2>2, <2>3, <2>4, <2>5, <2>6, <2>7, <2>8 DEF HandlerStep
<1>. QED BY <1>3, <1>4, <1>5, <1>6, <1>7 DEF BridgeNext

-----------------------------------------------------------------------------
LEMMA BridgeInitInvariants ==
    BridgeInit => BridgeTypeOK /\ RequestInv /\ ClaimInv
<1>. SUFFICES ASSUME BridgeInit PROVE BridgeTypeOK /\ RequestInv /\ ClaimInv
  OBVIOUS
<1>. DEFINE h0 == Handling("none", Chat, FALSE)
<1>1. Chat \in HumanSays \cup BotSays
  BY DEF Chat, BotSays
<1>2. h0 \in HandlingType /\ h0.pc = "none" /\ h0.claim = FALSE
  BY <1>1 DEF Handling, HandlingType, Steps
<1>. HIDE DEF h0
<1>3. hs = [h \in Handlers |-> h0]
  BY DEF BridgeInit, h0
<1>4. BridgeTypeOK
  BY <1>2, <1>3 DEF BridgeInit, BridgeTypeOK, HandlingType, JobStates
<1>5. RequestInv
  BY <1>2, <1>3, InHandlers DEF BridgeInit, RequestInv
<1>6. ClaimInv
  BY <1>2, <1>3, InHandlers DEF BridgeInit, ClaimInv, ClaimAt
<1>. QED BY <1>4, <1>5, <1>6

(* Types, for every step of the client's handlers. *)
THEOREM BridgeTypes == BridgeSpec => []BridgeTypeOK
BY BridgeInitInvariants, BridgeTypeNext, PTL DEF BridgeSpec

(* OneJobPerMessage: the idempotency keys of client.py and                 *)
(* coordinator_handoff.py give a message one job, unless a coordinator     *)
(* handoff is edited.                                                      *)
THEOREM OneJobCorrect == BridgeSpec => []OneJobPerMessage
<1>1. RequestInv => OneJobPerMessage
  BY DEF RequestInv, OneJobPerMessage, PostOf, EditOf
<1>. QED BY <1>1, BridgeInitInvariants, BridgeTypeNext, RequestNext, PTL DEF BridgeSpec

(* HandoffJobIsClaimed: no path through _handle_coordinator_handoff makes  *)
(* a job before authority, assignment, bootstrap text and acceptance are   *)
(* all there.                                                              *)
THEOREM ClaimCorrect == BridgeSpec => []HandoffJobIsClaimed
<1>1. ClaimInv => HandoffJobIsClaimed
  BY DEF ClaimInv, ClaimAt, HandoffJobIsClaimed, Staffed, PostOf
<1>. QED
  BY <1>1, BridgeInitInvariants, BridgeTypeNext, RequestNext, ClaimNext, PTL DEF BridgeSpec

-----------------------------------------------------------------------------
(* The KOOK bridge *)

USE KookBounds DEF store

(* What is on a page has been posted, and so has what was taken up; an id  *)
(* not in the window, of the life of the process, has been dropped from it *)
(* as often as its message was taken up.                                   *)
WindowInv ==
    /\ since <= posted
    /\ \A i \in 1..Len(page) : page[i] <= posted
    /\ \A m \in Ids : handled[m] > 0 => m <= posted /\ m \in recorded
    /\ \A m \in Ids : m > since /\ m \notin ToSet(seen) => handled[m] <= dropped[m]

KookInv == KookTypeOK /\ WindowInv /\ KookHandledOnce

LEMMA SequenceFacts ==
    ASSUME NEW S, NEW s \in Seq(S), NEW x \in S
    PROVE  /\ Append(s, x) \in Seq(S) /\ Len(Append(s, x)) = Len(s) + 1
           /\ ToSet(Append(s, x)) = ToSet(s) \cup {x}
           /\ s # <<>> =>
                /\ Tail(s) \in Seq(S) /\ Len(Tail(s)) = Len(s) - 1 /\ Len(s) \in Nat \ {0}
                /\ Head(s) \in ToSet(s) /\ Head(s) \in S /\ Head(s) = s[1]
                /\ ToSet(s) \subseteq ToSet(Tail(s)) \cup {Head(s)}
                /\ \A i \in 1..Len(Tail(s)) : Tail(s)[i] = s[i + 1]
<1>1. /\ Append(s, x) \in Seq(S) /\ Len(Append(s, x)) = Len(s) + 1
      /\ ToSet(Append(s, x)) = ToSet(s) \cup {x}
  <2>1. /\ Append(s, x) \in Seq(S) /\ Len(Append(s, x)) = Len(s) + 1
        /\ \A i \in 1..Len(s) : Append(s, x)[i] = s[i]
        /\ Append(s, x)[Len(s) + 1] = x
        /\ DOMAIN s = 1..Len(s) /\ Len(s) \in Nat
        /\ DOMAIN Append(s, x) = 1..(Len(s) + 1)
    OBVIOUS
  <2>2. \A i \in 1..(Len(s) + 1) : i \in 1..Len(s) \/ i = Len(s) + 1
    BY <2>1
  <2>. QED BY <2>1, <2>2 DEF ToSet
<1>2. ASSUME s # <<>>
      PROVE  /\ Tail(s) \in Seq(S) /\ Len(Tail(s)) = Len(s) - 1 /\ Len(s) \in Nat \ {0}
             /\ Head(s) \in ToSet(s) /\ Head(s) \in S /\ Head(s) = s[1]
             /\ ToSet(s) \subseteq ToSet(Tail(s)) \cup {Head(s)}
             /\ \A i \in 1..Len(Tail(s)) : Tail(s)[i] = s[i + 1]
  <2>1. /\ Tail(s) \in Seq(S) /\ Len(Tail(s)) = Len(s) - 1 /\ Len(s) \in Nat \ {0}
        /\ Head(s) = s[1] /\ DOMAIN s = 1..Len(s) /\ 1 \in DOMAIN s /\ s[1] \in S
        /\ DOMAIN Tail(s) = 1..(Len(s) - 1)
        /\ \A i \in 1..(Len(s) - 1) : Tail(s)[i] = s[i + 1]
    BY <1>2
  <2>2. \A i \in 1..Len(s) : i = 1 \/ (i - 1 \in 1..(Len(s) - 1) /\ s[i] = Tail(s)[i - 1])
    BY <2>1
  <2>3. ToSet(s) \subseteq ToSet(Tail(s)) \cup {Head(s)}
    <3>. SUFFICES ASSUME NEW i \in 1..Len(s), i # 1 PROVE s[i] \in ToSet(Tail(s))
      BY <2>1 DEF ToSet
    <3>1. i - 1 \in DOMAIN Tail(s) /\ s[i] = Tail(s)[i - 1]
      BY <2>1, <2>2
    <3>. QED BY <3>1 DEF ToSet
  <2>4. Head(s) \in ToSet(s)
    BY <2>1 DEF ToSet
  <2>. QED BY <2>1, <2>3, <2>4
<1>. QED BY <1>1, <1>2

(* An id goes from the window only when it is counted as dropped.          *)
LEMMA RememberFacts ==
    ASSUME KookTypeOK, NEW m \in Ids, Remember(m)
    PROVE  /\ seen' \in Seq(Ids) /\ Len(seen') <= Window
           /\ dropped' \in [Ids -> Nat] /\ \A k \in Ids : dropped'[k] >= dropped[k]
           /\ m \in ToSet(seen')
           /\ \A k \in Ids : k \in ToSet(seen) /\ k \notin ToSet(seen')
                             => dropped'[k] = dropped[k] + 1
<1>1. seen \in Seq(Ids) /\ Len(seen) <= Window /\ Len(seen) \in Nat /\ dropped \in [Ids -> Nat]
  BY DEF KookTypeOK
<1>2. CASE m \in ToSet(seen)
  BY <1>1, <1>2 DEF Remember
<1>3. CASE m \notin ToSet(seen) /\ Len(seen) < Window
  <2>1. seen' = Append(seen, m) /\ dropped' = dropped
    BY <1>3 DEF Remember
  <2>2. /\ Append(seen, m) \in Seq(Ids) /\ Len(Append(seen, m)) = Len(seen) + 1
        /\ ToSet(Append(seen, m)) = ToSet(seen) \cup {m}
    BY <1>1, SequenceFacts
  <2>. QED BY <1>1, <1>3, <2>1, <2>2
<1>4. CASE m \notin ToSet(seen) /\ ~(Len(seen) < Window)
  <2>1. /\ seen' = Append(Tail(seen), m)
        /\ dropped' = [dropped EXCEPT ![Head(seen)] = @ + 1]
    BY <1>4 DEF Remember
  <2>2. seen # <<>>
    <3>1. Len(<<>>) = 0
      OBVIOUS
    <3>. QED BY <1>1, <1>4, <3>1
  <2>3. /\ Tail(seen) \in Seq(Ids) /\ Len(Tail(seen)) = Len(seen) - 1
        /\ Head(seen) \in Ids /\ ToSet(seen) \subseteq ToSet(Tail(seen)) \cup {Head(seen)}
    BY <1>1, <2>2, SequenceFacts
  <2>4. /\ Append(Tail(seen), m) \in Seq(Ids) /\ Len(Append(Tail(seen), m)) = Len(Tail(seen)) + 1
        /\ ToSet(Append(Tail(seen), m)) = ToSet(Tail(seen)) \cup {m}
    <3>. DEFINE rest == Tail(seen)
    <3>1. rest \in Seq(Ids)
      BY <2>3
    <3>. HIDE DEF rest
    <3>2. /\ Append(rest, m) \in Seq(Ids) /\ Len(Append(rest, m)) = Len(rest) + 1
          /\ ToSet(Append(rest, m)) = ToSet(rest) \cup {m}
      BY <3>1, SequenceFacts
    <3>. QED BY <3>2 DEF rest
  <2>5. Len(seen') <= Window
    BY <1>1, <2>1, <2>3, <2>4
  <2>6. /\ dropped' \in [Ids -> Nat] /\ dropped'[Head(seen)] = dropped[Head(seen)] + 1
        /\ \A k \in Ids : k # Head(seen) => dropped'[k] = dropped[k]
    BY <1>1, <2>1, <2>3
  <2>. QED BY <1>1, <2>1, <2>3, <2>4, <2>5, <2>6
<1>. QED BY <1>2, <1>3, <1>4

(* A message of the life of the process is received.                       *)
LEMMA ReceiveKeeps ==
    ASSUME KookInv, NEW m \in Ids, NEW source \in Sources, since < m, m <= posted,
           Receive(m, source), UNCHANGED <<posted, polling, since, restarts>>,
           shown' \subseteq Ids, page' \in Seq(Ids), Len(page') <= PageSize,
           \A i \in 1..Len(page') : page'[i] <= posted
    PROVE  KookInv'
<1>1. /\ KookTypeOK /\ WindowInv /\ KookHandledOnce /\ m \in Nat
      /\ since \in 0..Posts /\ posted \in 0..Posts
      /\ handled \in [Ids -> Nat] /\ dropped \in [Ids -> Nat]
  BY DEF KookInv, KookTypeOK, Ids
<1>2. CASE m \in ToSet(seen)
  BY <1>1, <1>2 DEF Receive, KookInv, KookTypeOK, WindowInv, KookHandledOnce
<1>3. CASE m \notin ToSet(seen)
  <2>1. /\ Remember(m) /\ recorded' = recorded \cup {m}
        /\ UNCHANGED <<elsewhere, foreign, aged>>
        /\ \/ HasRecent(m) /\ busy' = busy /\ handled' = handled
           \/ /\ ~HasRecent(m) /\ busy' = busy \cup {<<m, source>>}
              /\ handled' = [handled EXCEPT ![m] = @ + 1]
    BY <1>3 DEF Receive, Recorded
  <2>2. /\ seen' \in Seq(Ids) /\ Len(seen') <= Window
        /\ dropped' \in [Ids -> Nat] /\ \A k \in Ids : dropped'[k] >= dropped[k]
        /\ m \in ToSet(seen')
        /\ \A k \in Ids : k \in ToSet(seen) /\ k \notin ToSet(seen')
                          => dropped'[k] = dropped[k] + 1
    BY <1>1, <2>1, RememberFacts
  <2>3. /\ handled' \in [Ids -> Nat] /\ busy' \subseteq Handlings
        /\ \A k \in Ids \ {m} : handled'[k] = handled[k]
        /\ handled'[m] \in {handled[m], handled[m] + 1}
    <3>1. busy \subseteq Handlings /\ <<m, source>> \in Handlings
      BY <1>1 DEF KookTypeOK, Handlings
    <3>2. CASE busy' = busy /\ handled' = handled
      BY <1>1, <3>1, <3>2
    <3>3. CASE busy' = busy \cup {<<m, source>>} /\ handled' = [handled EXCEPT ![m] = @ + 1]
      <4>1. /\ handled' \in [Ids -> Nat] /\ handled'[m] = handled[m] + 1
            /\ \A k \in Ids \ {m} : handled'[k] = handled[k]
        BY <1>1, <3>3
      <4>2. busy' \subseteq Handlings
        BY <3>1, <3>3
      <4>. QED BY <4>1, <4>2
    <3>. QED BY <2>1, <3>2, <3>3
  <2>4. KookTypeOK'
    BY <1>1, <2>1, <2>2, <2>3 DEF KookTypeOK
  <2>5. handled[m] <= dropped[m]
    BY <1>1, <1>3 DEF WindowInv
  <2>6. WindowInv'
    <3>1. \A k \in Ids : handled'[k] > 0 => k <= posted' /\ k \in recorded'
      BY <1>1, <2>1, <2>3 DEF WindowInv
    <3>2. ASSUME NEW k \in Ids, k > since, k \notin ToSet(seen') PROVE handled'[k] <= dropped'[k]
      <4>1. k # m /\ handled'[k] = handled[k]
        BY <2>2, <2>3, <3>2
      <4>2. CASE k \in ToSet(seen)
        <5>1. handled[k] <= 1 + dropped[k] /\ dropped'[k] = dropped[k] + 1
          BY <1>1, <2>2, <3>2, <4>2 DEF KookHandledOnce
        <5>. QED BY <1>1, <4>1, <5>1
      <4>3. CASE k \notin ToSet(seen)
        <5>1. handled[k] <= dropped[k] /\ dropped'[k] >= dropped[k]
          BY <1>1, <2>2, <3>2, <4>3 DEF WindowInv
        <5>. QED BY <1>1, <2>2, <4>1, <5>1
      <4>. QED BY <4>2, <4>3
    <3>. QED BY <1>1, <3>1, <3>2 DEF WindowInv
  <2>7. KookHandledOnce'
    <3>1. ASSUME NEW k \in Ids PROVE handled'[k] <= 1 + dropped'[k]
      <4>1. dropped'[k] >= dropped[k] /\ dropped'[k] \in Nat /\ dropped[k] \in Nat /\ handled[k] \in Nat
        BY <1>1, <2>2
      <4>2. CASE k = m
        BY <2>3, <2>5, <4>1, <4>2
      <4>3. CASE k # m
        <5>1. handled[k] <= 1 + dropped[k] /\ handled'[k] = handled[k]
          BY <1>1, <2>3, <4>3 DEF KookHandledOnce
        <5>. QED BY <4>1, <5>1
      <4>. QED BY <4>2, <4>3
    <3>2. Twins \subseteq Ids
      BY DEF Ids
    <3>3. ASSUME NEW k \in Twins, NEW n \in Twins, k # n, handled'[k] > 0, handled'[n] > 0
          PROVE  {k, n} \cap (aged \cup foreign) # {}
      <4>1. CASE handled[k] > 0 /\ handled[n] > 0
        BY <1>1, <3>3, <4>1 DEF KookHandledOnce
      <4>2. ASSUME NEW x \in Twins, x # m, m \in Twins, ~HasRecent(m), handled[x] > 0
            PROVE  x \in aged \cup foreign
        BY <1>1, <3>2, <4>2 DEF HasRecent, WindowInv
      <4>3. CASE k = m /\ ~HasRecent(m)
        <5>1. handled[n] > 0
          BY <2>3, <3>2, <3>3, <4>3
        <5>. QED BY <3>3, <4>2, <4>3, <5>1
      <4>4. CASE n = m /\ ~HasRecent(m)
        <5>1. handled[k] > 0
          BY <2>3, <3>2, <3>3, <4>4
        <5>. QED BY <3>3, <4>2, <4>4, <5>1
      <4>. QED BY <2>1, <2>3, <3>2, <3>3, <4>1, <4>3, <4>4
    <3>4. ASSUME Twins \cap (recorded' \ elsewhere) # {}, Twins \cap elsewhere \subseteq foreign
          PROVE  \E n \in Twins : handled'[n] > 0
      <4>1. \A n \in Twins : handled[n] > 0 => handled'[n] > 0
        BY <1>1, <2>3, <3>2
      <4>2. CASE Twins \cap (recorded \ elsewhere) # {}
        BY <1>1, <3>4, <4>1, <4>2 DEF KookHandledOnce
      <4>3. CASE Twins \cap (recorded \ elsewhere) = {}
        <5>1. m \in Twins /\ ~HasRecent(m)
          BY <2>1, <3>4, <4>3 DEF HasRecent
        <5>2. handled'[m] = handled[m] + 1 /\ handled[m] \in Nat
          BY <1>1, <2>1, <5>1
        <5>. QED BY <5>1, <5>2
      <4>. QED BY <4>2, <4>3
    <3>. QED BY <1>1, <2>1, <3>1, <3>3, <3>4 DEF KookHandledOnce
  <2>. QED BY <2>4, <2>6, <2>7 DEF KookInv
<1>. QED BY <1>2, <1>3

(* A message older than the process is only remembered.                    *)
LEMMA OldKeeps ==
    ASSUME KookInv, NEW m \in Ids, Remember(m), page' \in Seq(Ids), Len(page') <= PageSize,
           \A i \in 1..Len(page') : page'[i] <= posted,
           UNCHANGED <<posted, shown, polling, busy, store, since, restarts, handled>>
    PROVE  KookInv'
<1>1. /\ KookTypeOK /\ WindowInv /\ KookHandledOnce
      /\ handled \in [Ids -> Nat] /\ dropped \in [Ids -> Nat]
  BY DEF KookInv, KookTypeOK
<1>2. /\ seen' \in Seq(Ids) /\ Len(seen') <= Window
      /\ dropped' \in [Ids -> Nat] /\ \A k \in Ids : dropped'[k] >= dropped[k]
      /\ m \in ToSet(seen')
      /\ \A k \in Ids : k \in ToSet(seen) /\ k \notin ToSet(seen')
                        => dropped'[k] = dropped[k] + 1
  BY <1>1, RememberFacts
<1>3. KookTypeOK'
  BY <1>1, <1>2 DEF KookTypeOK
<1>4. \A k \in Ids : handled[k] <= 1 + dropped'[k]
  BY <1>1, <1>2 DEF KookHandledOnce
<1>5. ASSUME NEW k \in Ids, k > since, k \notin ToSet(seen') PROVE handled[k] <= dropped'[k]
  <2>1. CASE k \in ToSet(seen)
    BY <1>1, <1>2, <1>5, <2>1 DEF KookHandledOnce
  <2>2. CASE k \notin ToSet(seen)
    BY <1>1, <1>2, <1>5, <2>2 DEF WindowInv
  <2>. QED BY <2>1, <2>2
<1>. QED BY <1>1, <1>3, <1>4, <1>5 DEF KookInv, WindowInv, KookHandledOnce

LEMMA ItemKeeps ==
    ASSUME KookInv, Item
    PROVE  KookInv'
<1>1. /\ page \in Seq(Ids) /\ page # <<>> /\ page' = Tail(page) /\ Len(page) <= PageSize
      /\ \A i \in 1..Len(page) : page[i] <= posted
      /\ shown \subseteq Ids /\ posted \in 0..Posts /\ since \in 0..Posts
  BY DEF KookInv, KookTypeOK, WindowInv, Item
<1>2. /\ page' \in Seq(Ids) /\ Len(page') = Len(page) - 1 /\ Len(page) \in Nat \ {0}
      /\ Head(page) \in Ids /\ Head(page) = page[1]
      /\ \A i \in 1..Len(page') : page'[i] = page[i + 1]
  BY <1>1, SequenceFacts
<1>3. Len(page') <= PageSize /\ Head(page) <= posted
  BY <1>1, <1>2
<1>4. \A i \in 1..Len(page') : page'[i] <= posted
  BY <1>1, <1>2
<1>5. CASE Head(page) <= since
  BY <1>2, <1>3, <1>4, <1>5, OldKeeps DEF Item
<1>6. CASE ~(Head(page) <= since)
  <2>1. since < Head(page)
    BY <1>1, <1>2, <1>6 DEF Ids
  <2>2. "poll" \in Sources
    BY DEF Sources
  <2>. QED BY <1>1, <1>2, <1>3, <1>4, <1>6, <2>1, <2>2, ReceiveKeeps DEF Item
<1>. QED BY <1>5, <1>6

LEMMA FetchPageKeeps ==
    ASSUME KookInv, FetchPage
    PROVE  KookInv'
<1>1. posted \in 1..Posts /\ KookTypeOK /\ WindowInv /\ KookHandledOnce
  BY DEF KookInv, KookTypeOK, FetchPage
<1>. DEFINE first == IF posted > PageSize THEN posted - PageSize + 1 ELSE 1
            n == posted - first + 1
            item(i) == first + i - 1
<1>2. first \in 1..posted /\ n \in 1..PageSize /\ first + n - 1 = posted
  BY <1>1
<1>3. page' = [i \in 1..n |-> item(i)]
  BY DEF FetchPage
<1>. HIDE DEF n, first
<1>4. \A i \in 1..n : item(i) \in Ids /\ item(i) <= posted
  BY <1>1, <1>2 DEF Ids
<1>. HIDE DEF item
<1>5. page' \in Seq(Ids) /\ Len(page') = n /\ \A i \in 1..n : page'[i] = item(i)
  <2>1. page' \in [1..n -> Ids] /\ n \in Nat
    BY <1>2, <1>3, <1>4
  <2>2. page' \in Seq(Ids)
    BY <2>1, SeqDef
  <2>3. Len(page') \in Nat /\ DOMAIN page' = 1..Len(page') /\ DOMAIN page' = 1..n
    BY <2>1, <2>2, LenProperties
  <2>4. Len(page') = n
    BY <2>1, <2>3
  <2>. QED BY <1>3, <2>2, <2>4
<1>6. /\ UNCHANGED <<posted, shown, seen, polling, busy, store, since, restarts,
                     handled, dropped>>
      /\ Len(page') <= PageSize /\ \A i \in 1..Len(page') : page'[i] <= posted
  <2>1. UNCHANGED <<posted, shown, seen, polling, busy, store, since, restarts,
                    handled, dropped>>
    BY DEF FetchPage
  <2>. QED BY <1>2, <1>4, <1>5, <2>1
<1>. QED BY <1>1, <1>5, <1>6 DEF KookInv, KookTypeOK, WindowInv, KookHandledOnce

LEMMA KookInvInit == KookInit => KookInv
<1>. SUFFICES ASSUME KookInit PROVE KookInv
  OBVIOUS
<1>1. <<>> \in Seq(Ids) /\ Len(<<>>) = 0
  OBVIOUS
<1>2. KookTypeOK
  BY <1>1 DEF KookInit, KookTypeOK
<1>3. WindowInv /\ KookHandledOnce
  BY <1>1 DEF KookInit, WindowInv, KookHandledOnce, Ids
<1>. QED BY <1>2, <1>3 DEF KookInv

LEMMA KookInvNext == KookInv /\ [KookNext]_kookVars => KookInv'
<1>. SUFFICES ASSUME KookInv, [KookNext]_kookVars PROVE KookInv'
  OBVIOUS
<1>0. KookTypeOK /\ WindowInv /\ KookHandledOnce
  BY DEF KookInv
<1>1. CASE Post
  <2>1. /\ posted \in Nat /\ since \in Nat /\ posted' = posted + 1 /\ posted' \in 0..Posts
        /\ page \in Seq(Ids) /\ Len(page) \in Nat
        /\ UNCHANGED <<shown, seen, page, polling, busy, store, since, restarts,
                       handled, dropped>>
    BY <1>0, <1>1 DEF Post, KookTypeOK
  <2>2. KookTypeOK'
    BY <1>0, <2>1 DEF KookTypeOK
  <2>3. /\ since <= posted'
        /\ \A m \in Ids : m <= posted => m <= posted'
    BY <1>0, <2>1 DEF WindowInv, Ids
  <2>4. \A i \in 1..Len(page) : page[i] <= posted'
    <3>1. \A i \in 1..Len(page) : page[i] \in Ids /\ page[i] <= posted
      BY <1>0, <2>1 DEF WindowInv
    <3>. QED BY <2>3, <3>1
  <2>5. WindowInv'
    BY <1>0, <2>1, <2>3, <2>4 DEF WindowInv
  <2>. QED BY <1>0, <2>1, <2>2, <2>5 DEF KookInv, KookHandledOnce
<1>2. ASSUME NEW m \in Ids, Show(m) PROVE KookInv'
  <2>1. /\ since < m /\ m <= posted /\ shown' \subseteq Ids /\ "ws" \in Sources
        /\ page' \in Seq(Ids) /\ Len(page') <= PageSize
        /\ \A i \in 1..Len(page') : page'[i] <= posted
    BY <1>0, <1>2 DEF Show, KookTypeOK, WindowInv, Sources
  <2>. QED BY <1>2, <2>1, ReceiveKeeps DEF Show
<1>3. ASSUME NEW m \in Ids, Age(m) PROVE KookInv'
  <2>1. KookTypeOK'
    BY <1>0, <1>3 DEF Age, KookTypeOK
  <2>2. WindowInv' /\ KookHandledOnce'
    BY <1>0, <1>3 DEF Age, WindowInv, KookHandledOnce
  <2>. QED BY <2>1, <2>2 DEF KookInv
<1>4. ASSUME NEW m \in Ids, RecordElsewhere(m) PROVE KookInv'
  <2>1. /\ m \in Twins \ recorded /\ recorded' = recorded \cup {m}
        /\ elsewhere' = elsewhere \cup {m} /\ foreign' \in {foreign, foreign \cup {m}}
        /\ UNCHANGED <<posted, shown, seen, page, polling, busy, aged, since, restarts,
                       handled, dropped>>
    BY <1>4 DEF RecordElsewhere
  <2>2. KookTypeOK'
    BY <1>0, <2>1 DEF KookTypeOK
  <2>3. WindowInv'
    BY <1>0, <2>1 DEF WindowInv
  <2>4. KookHandledOnce'
    <3>1. elsewhere \subseteq recorded
      BY <1>0 DEF KookTypeOK
    <3>. QED BY <1>0, <2>1, <3>1 DEF KookHandledOnce
  <2>. QED BY <2>2, <2>3, <2>4 DEF KookInv
<1>5. CASE FetchPage
  BY <1>5, FetchPageKeeps
<1>6. CASE Item
  BY <1>6, ItemKeeps
<1>7. ASSUME NEW k \in Handlings, SubmitAndReply(k) \/ Raise(k) PROVE KookInv'
  BY <1>0, <1>7 DEF SubmitAndReply, Raise, KookInv, KookTypeOK, WindowInv, KookHandledOnce
<1>8. CASE RestartKook
  <2>1. <<>> \in Seq(Ids) /\ Len(<<>>) = 0 /\ ToSet(<<>>) = {}
    BY DEF ToSet
  <2>2. KookTypeOK'
    BY <1>0, <1>8, <2>1 DEF RestartKook, KookTypeOK
  <2>3. WindowInv'
    <3>1. \A m \in Ids : m > posted => handled[m] = 0
      BY <1>0 DEF WindowInv, KookTypeOK, Ids
    <3>. QED BY <1>0, <1>8, <2>1, <3>1 DEF RestartKook, WindowInv, KookTypeOK
  <2>. QED BY <1>0, <1>8, <2>2, <2>3 DEF RestartKook, KookInv, KookHandledOnce
<1>9. CASE UNCHANGED kookVars
  BY <1>0, <1>9 DEF kookVars, KookInv, KookTypeOK, WindowInv, KookHandledOnce
<1>. QED BY <1>1, <1>2, <1>3, <1>4, <1>5, <1>6, <1>7, <1>8, <1>9 DEF KookNext

(* The KOOK bridge has its type: the window of ids and the page of a poll  *)
(* stay within their limits (kook/bot.py).                                 *)
THEOREM KookTypes == KookSpec => []KookTypeOK
<1>1. KookInv => KookTypeOK
  BY DEF KookInv
<1>. QED BY <1>1, KookInvInit, KookInvNext, PTL DEF KookSpec

(* A message is taken up again only after its id fell out of the window,   *)
(* and of a repeated handoff at most one copy, and one unless the bridge of*)
(* another agent has put one in the shared store first: for any number of  *)
(* posts, any window and page size and any number of restarts (kook/bot.py)*)
THEOREM KookCorrect == KookSpec => []KookHandledOnce
<1>1. KookInv => KookHandledOnce
  BY DEF KookInv
<1>. QED BY <1>1, KookInvInit, KookInvNext, PTL DEF KookSpec
=============================================================================
