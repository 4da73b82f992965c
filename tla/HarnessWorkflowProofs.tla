------------------------ MODULE HarnessWorkflowProofs ------------------------
(* Proofs about the harness workflow, for any number of overlapping         *)
(* commands, items and agents.                                             *)
EXTENDS HarnessWorkflow, TLAPS

(* What every entry satisfies, on disk and in the hands of a command.       *)
EntryOK(e) ==
    /\ e.lease = "held" => e.holder \in Agents /\ e.owner = e.holder
    /\ e.workflow = "running" => e.status = "doing"
    /\ e.workflow = "closed" => e.status = "done"
    /\ e.workflow = "blocked" => e.status = "blocked"

Good(e) == e \in Entry /\ EntryOK(e)

(* An entry agrees with the ruling r on its item: a closeout request that   *)
(* still shows in the workflow status has not been answered, and the        *)
(* approval that mark-done looks for is the approval of the last request.   *)
Answered(e, r) ==
    /\ e.workflow = "closeout_requested" => r = "asked"
    /\ CloseoutApproved(e) => r = "approved"

(* The command cmd turns an entry e into f, and keeps its agreement with    *)
(* the ruling: what a request, an answer and any other command have to do.  *)
Answers(cmd, e, f) ==
    CASE cmd = "closeout"      -> f.decision = "none"
      [] cmd = "review-result" -> /\ f.workflow # "closeout_requested"
                                  /\ f.phase = e.workflow
      [] OTHER                 -> /\ f.workflow = "closeout_requested" => f.workflow = e.workflow
                                  /\ f.decision \in {e.decision, "none"}
                                  /\ f.phase = e.phase

Kept(e, f) == f.workflow = e.workflow /\ f.decision = e.decision /\ f.phase = e.phase

(* What the command w has in hand: it will make good what it has read, and  *)
(* mark-done has read an approval.                                         *)
WorkOK(w) ==
    /\ \A i \in Items : Good(w.next[i])
    /\ Answers(w.cmd, w.was, w.next[w.item])
    /\ w.cmd = "mark-done" => CloseoutApproved(w.was)

-----------------------------------------------------------------------------
(* The changes the commands make to an entry keep it good. *)

USE DEF Entry, AnyAgent, Status, Workflow, Decision

LEMMA WithLeaseGood ==
    ASSUME NEW e, Good(e), NEW a \in Agents
    PROVE  Good(WithLease(e, a)) /\ Kept(e, WithLease(e, a))
<1> DEFINE f == WithLease(e, a)
<1>1. e \in Entry /\ EntryOK(e)
  BY DEF Good
<1>2. f \in Entry
  BY <1>1 DEF WithLease
<1>3. /\ f.owner = a /\ f.holder = a /\ f.lease = "held"
      /\ f.status = e.status /\ f.workflow = e.workflow /\ f.decision = e.decision
      /\ f.phase = e.phase
  BY <1>1 DEF WithLease
<1> HIDE DEF f
<1>4. EntryOK(f)
  BY <1>1, <1>3 DEF EntryOK
<1> QED
  BY <1>2, <1>3, <1>4 DEF Good, Kept, f

LEMMA ReleasedGood ==
    ASSUME NEW e, Good(e)
    PROVE  Good(Released(e)) /\ Released(e).lease # "held" /\ Kept(e, Released(e))
<1> DEFINE f == Released(e)
<1>1. e \in Entry /\ EntryOK(e)
  BY DEF Good
<1>2. f \in Entry
  BY <1>1 DEF Released
<1>3. /\ f.lease # "held" /\ f.owner = e.owner /\ f.holder = e.holder
      /\ f.status = e.status /\ f.workflow = e.workflow /\ f.decision = e.decision
      /\ f.phase = e.phase
  BY <1>1 DEF Released
<1> HIDE DEF f
<1>4. EntryOK(f)
  BY <1>1, <1>3 DEF EntryOK
<1> QED
  BY <1>2, <1>3, <1>4 DEF Good, Kept, f

LEMMA GivenUpGood ==
    ASSUME NEW e, Good(e)
    PROVE  Good(GivenUp(e)) /\ GivenUp(e).lease # "held" /\ Kept(e, GivenUp(e))
<1> DEFINE f == GivenUp(e)
           g == Released(e)
<1>1. g \in Entry /\ EntryOK(g) /\ g.lease # "held" /\ Kept(e, g)
  BY ReleasedGood DEF Good
<1> HIDE DEF g
<1>2. f = [g EXCEPT !.owner = Nobody]
  BY DEF GivenUp, g
<1> HIDE DEF f
<1>3. f \in Entry
  BY <1>1, <1>2
<1>4. /\ f.lease = g.lease /\ f.holder = g.holder
      /\ f.status = g.status /\ f.workflow = g.workflow /\ f.decision = g.decision
      /\ f.phase = g.phase
  BY <1>1, <1>2
<1>5. EntryOK(f)
  BY <1>1, <1>4 DEF EntryOK
<1> QED
  BY <1>1, <1>3, <1>4, <1>5 DEF Good, Kept, f

LEMMA ReviewedGood ==
    ASSUME NEW e, Good(e), NEW d \in Decision \ {"none"}
    PROVE  Good(Reviewed(e, d)) /\ Answers("review-result", e, Reviewed(e, d))
<1> DEFINE f == Reviewed(e, d)
           s == IF d = "blocked" THEN "blocked" ELSE e.status
           w == IF d = "approved" THEN "review_approved" ELSE d
<1>1. e \in Entry /\ EntryOK(e)
  BY DEF Good
<1>2. /\ s \in Status /\ w \in Workflow
      /\ w \notin {"running", "closed", "closeout_requested"}
      /\ w = "blocked" => s = "blocked"
  BY <1>1
<1>3. f = [e EXCEPT !.decision = d, !.phase = e.workflow, !.status = s,
                    !.workflow = w]
  BY <1>1 DEF Reviewed
<1> HIDE DEF f, s, w
<1>4. f \in Entry
  <2>1. e.workflow \in Workflow /\ d \in Decision
    BY <1>1
  <2> HIDE DEF Workflow, Decision, Status
  <2> QED
    BY <1>1, <1>2, <1>3, <2>1
<1>5. /\ f.lease = e.lease /\ f.owner = e.owner /\ f.holder = e.holder
      /\ f.phase = e.workflow /\ f.status = s /\ f.workflow = w
  BY <1>1, <1>3
<1>6. EntryOK(f)
  BY <1>1, <1>2, <1>5 DEF EntryOK
<1>7. Answers("review-result", e, f)
  BY <1>2, <1>5 DEF Answers
<1> QED
  BY <1>4, <1>6, <1>7 DEF Good, f

(* Assignments, releases and the like: the status and the workflow status   *)
(* move together, and the review is left alone.                            *)
LEMMA MovedGood ==
    ASSUME NEW e, Good(e), NEW f \in Entry,
           f.lease = "held" => f.holder \in Agents /\ f.owner = f.holder,
           f.workflow = "running" => f.status = "doing",
           f.workflow = "closed" => f.status = "done",
           f.workflow = "blocked" => f.status = "blocked"
    PROVE  Good(f)
BY DEF Good, EntryOK

LEMMA NewEntryGood == Good(NewEntry)
<1>1. NewEntry \in Entry
  BY DEF NewEntry
<1>2. EntryOK(NewEntry)
  BY DEF NewEntry, EntryOK
<1> QED
  BY <1>1, <1>2 DEF Good

-----------------------------------------------------------------------------
(* What a command writes agrees with the ruling its write makes, if what it *)
(* read agreed with the ruling before, or if it starts the item anew.      *)
LEMMA AnsweredAfter ==
    ASSUME NEW w \in Work, WorkOK(w), NEW r \in Ruling
    PROVE  /\ RulingAfter(w, r) \in Ruling
           /\ \/ Answered(w.was, r)
              \/ RulingAfter(w, "none") \in {"asked", "refused"}
              => Answered(w.next[w.item], RulingAfter(w, r))
<1> DEFINE e == w.was
           f == w.next[w.item]
<1>1. RulingAfter(w, r) \in Ruling
  BY DEF RulingAfter, Ruling
<1>2. Answers(w.cmd, e, f) /\ Good(f)
  BY DEF WorkOK, Work
<1>3. CASE w.cmd = "closeout"
  <2>1. RulingAfter(w, r) = "asked" /\ f.decision = "none"
    BY <1>2, <1>3 DEF RulingAfter, Answers
  <2> QED
    BY <1>1, <2>1 DEF Answered, CloseoutApproved
<1>4. CASE w.cmd = "review-result"
  <2>1. f.workflow # "closeout_requested" /\ f.phase = e.workflow
    BY <1>2, <1>4 DEF Answers
  <2>2. CASE f.decision = "approved"
    <3>1. /\ RulingAfter(w, "none") = "none"
          /\ r = "asked" => RulingAfter(w, r) = "approved"
      BY <1>4, <2>2 DEF RulingAfter
    <3> QED
      BY <1>1, <2>1, <2>2, <3>1 DEF Answered, CloseoutApproved
  <2> QED
    BY <1>1, <2>1, <2>2 DEF Answered, CloseoutApproved
<1>5. CASE w.cmd \notin {"closeout", "review-result"}
  <2>1. RulingAfter(w, r) = r /\ RulingAfter(w, "none") = "none"
    BY <1>5 DEF RulingAfter
  <2>2. /\ f.workflow = "closeout_requested" => f.workflow = e.workflow
        /\ f.decision \in {e.decision, "none"}
        /\ f.phase = e.phase
    BY <1>2, <1>5 DEF Answers
  <2> QED
    BY <1>1, <2>1, <2>2 DEF Answered, CloseoutApproved
<1> QED
  BY <1>3, <1>4, <1>5

(* The inductive invariant: the entries are good on disk and in what every  *)
(* running command is about to write, which may be long after it has read, *)
(* over whatever others wrote.  An item of which nothing was lost agrees   *)
(* with the ruling on it.                                                  *)
HInv ==
    /\ TypeOK
    /\ \A i \in Items : Good(disk[i])
    /\ \A p \in Procs : pc[p] # "idle" => WorkOK(work[p])
    /\ \A i \in Items \ lost : Answered(disk[i], ruling[i])

LEMMA InitHInv == Init => HInv
<1> SUFFICES ASSUME Init PROVE HInv
  OBVIOUS
<1>1. \A i \in Items : Good(disk[i]) /\ Answered(disk[i], ruling[i])
  BY NewEntryGood DEF Init, Answered, CloseoutApproved, NewEntry
<1>2. disk \in Checklist
  BY NewEntryGood DEF Init, Checklist, Good
<1>3. TypeOK
  <2>1. /\ work \in [Procs -> Work \cup {NoWork}]
        /\ \A p \in Procs : pc[p] = "idle" <=> work[p] = NoWork
    BY DEF Init
  <2>2. /\ torn \in BOOLEAN /\ pointer \in Items \cup {NoItem} /\ started \in 0..MaxCommands
        /\ pc \in [Procs -> {"idle", "loaded", "truncated", "saved"}]
    <3>1. started \in 0..MaxCommands
      BY MaxCommandsAssumption DEF Init
    <3> QED
      BY <3>1 DEF Init
  <2>3. ruling \in [Items -> Ruling] /\ lost \subseteq Items
    BY DEF Init, Ruling
  <2> QED
    BY <1>2, <2>1, <2>2, <2>3 DEF TypeOK
<1> QED
  BY <1>1, <1>3 DEF HInv, Init

LEMMA BeginHInv ==
    ASSUME HInv, NEW p \in Procs, NEW i \in Items, NEW cmd \in Commands,
           NEW e, Good(e), Answers(cmd, disk[i], e),
           cmd = "mark-done" => CloseoutApproved(disk[i]),
           Begin(p, cmd, i, e)
    PROVE  HInv'
<1> DEFINE n == [disk EXCEPT ![i] = e]
           w == [cmd |-> cmd, item |-> i, was |-> disk[i], next |-> n]
<1>1. n \in Checklist /\ n[i] = e /\ \A j \in Items : Good(n[j])
  BY DEF HInv, TypeOK, Checklist, Good
<1> HIDE DEF n
<1>2. w \in Work
  BY <1>1 DEF Work, HInv, Good
<1>3. w.next = n /\ w.cmd = cmd /\ w.item = i /\ w.was = disk[i]
  OBVIOUS
<1>4. work' = [work EXCEPT ![p] = w]
  BY DEF Begin, n
<1>5. /\ pc' = [pc EXCEPT ![p] = "loaded"]
      /\ started' = started + 1 /\ started < MaxCommands
      /\ UNCHANGED <<disk, torn, pointer, ruling, lost>>
  BY DEF Begin, history
<1> HIDE DEF w
<1>6. \A q \in Procs : work'[q] = IF q = p THEN w ELSE work[q]
  BY <1>4 DEF HInv, TypeOK
<1>7. TypeOK'
  <2>1. w # NoWork
    <3>1. NoWork.cmd = "none" /\ "none" \notin Commands
      BY DEF NoWork, Commands
    <3> QED
      BY <3>1, <1>3
  <2>2. work' \in [Procs -> Work \cup {NoWork}]
    BY <1>2, <1>4 DEF HInv, TypeOK
  <2>3. \A q \in Procs : pc'[q] = "idle" <=> work'[q] = NoWork
    BY <1>5, <1>6, <2>1 DEF HInv, TypeOK
  <2>4. /\ started' \in 0..MaxCommands
        /\ pc' \in [Procs -> {"idle", "loaded", "truncated", "saved"}]
    BY <1>5, MaxCommandsAssumption DEF HInv, TypeOK
  <2> QED
    BY <1>5, <2>2, <2>3, <2>4 DEF HInv, TypeOK
<1>8. WorkOK(w)
  BY <1>1, <1>3 DEF WorkOK
<1>9. \A q \in Procs : pc'[q] # "idle" => WorkOK(work'[q])
  BY <1>5, <1>6, <1>8 DEF HInv, TypeOK
<1>10. \A q \in Procs : pc'[q] # "idle" => WorkOK(work[q])'
  BY <1>9 DEF WorkOK, Good, EntryOK, Answers
<1> QED
  BY <1>5, <1>7, <1>10 DEF HInv, Good, EntryOK, Answered, CloseoutApproved

-----------------------------------------------------------------------------
(* Every command preserves it. *)

(* The statuses, named once: the enumerations stay folded where an entry is *)
(* only shown to be one.                                                   *)
LEMMA Literals ==
    /\ {"todo", "doing", "blocked", "done"} \subseteq Status
    /\ {"assigned", "running", "declined", "released", "unblocked",
        "handoff_requested", "review_requested", "closeout_requested",
        "blocked", "closed"} \subseteq Workflow
    /\ "none" \in Decision
OBVIOUS

LEMMA AssignHInv ==
    ASSUME HInv, NEW p \in Procs, NEW i \in Items, NEW a \in Agents,
           NEW force \in BOOLEAN, NEW expired \in BOOLEAN,
           Assign(p, i, a, force, expired)
    PROVE  HInv'
<1> DEFINE g == WithLease(disk[i], a)
           f == [g EXCEPT !.workflow = "assigned"]
<1>1. Good(g) /\ Kept(disk[i], g)
  BY WithLeaseGood DEF HInv
<1>2. Begin(p, "assign", i, f)
  BY DEF Assign
<1> HIDE DEF g
<1>3. f \in Entry
  <2> HIDE DEF Status, Workflow, Decision
  <2> QED
    BY <1>1, Literals DEF Good
<1>4. /\ f.lease = g.lease /\ f.owner = g.owner /\ f.holder = g.holder
      /\ f.workflow = "assigned"
      /\ f.decision = g.decision /\ f.phase = g.phase
  BY <1>1 DEF Good
<1> HIDE DEF f
<1>5. Good(f)
  BY <1>1, <1>3, <1>4, MovedGood DEF Good, EntryOK
<1>6. Answers("assign", disk[i], f)
  BY <1>1, <1>4 DEF Answers, Kept
<1> QED
  BY <1>2, <1>5, <1>6, BeginHInv DEF Commands

LEMMA AcceptHInv ==
    ASSUME HInv, NEW p \in Procs, NEW i \in Items, NEW a \in Agents,
           NEW force \in BOOLEAN, NEW expired \in BOOLEAN,
           Accept(p, i, a, force, expired)
    PROVE  HInv'
<1> DEFINE g == WithLease(disk[i], a)
           f == [g EXCEPT !.status = "doing", !.workflow = "running",
                          !.handoff_target = Nobody]
<1>1. Good(g) /\ Kept(disk[i], g)
  BY WithLeaseGood DEF HInv
<1>2. Begin(p, "accept", i, f)
  BY DEF Accept
<1> HIDE DEF g
<1>3. f \in Entry
  <2> HIDE DEF Status, Workflow, Decision
  <2> QED
    BY <1>1, Literals DEF Good
<1>4. /\ f.lease = g.lease /\ f.owner = g.owner /\ f.holder = g.holder
      /\ f.status = "doing" /\ f.workflow = "running"
      /\ f.decision = g.decision /\ f.phase = g.phase
  BY <1>1 DEF Good
<1> HIDE DEF f
<1>5. Good(f)
  BY <1>1, <1>3, <1>4, MovedGood DEF Good, EntryOK
<1>6. Answers("accept", disk[i], f)
  BY <1>1, <1>4 DEF Answers, Kept
<1> QED
  BY <1>2, <1>5, <1>6, BeginHInv DEF Commands

LEMMA StartHInv ==
    ASSUME HInv, NEW p \in Procs, NEW i \in Items, NEW a \in Agents,
           NEW force \in BOOLEAN, NEW expired \in BOOLEAN,
           Start(p, i, a, force, expired)
    PROVE  HInv'
<1> DEFINE g == WithLease(disk[i], a)
           f == [g EXCEPT !.status = "doing", !.workflow = "running"]
<1>1. Good(g) /\ Kept(disk[i], g)
  BY WithLeaseGood DEF HInv
<1>2. Begin(p, "start", i, f)
  BY DEF Start
<1> HIDE DEF g
<1>3. f \in Entry
  <2> HIDE DEF Status, Workflow, Decision
  <2> QED
    BY <1>1, Literals DEF Good
<1>4. /\ f.lease = g.lease /\ f.owner = g.owner /\ f.holder = g.holder
      /\ f.status = "doing" /\ f.workflow = "running"
      /\ f.decision = g.decision /\ f.phase = g.phase
  BY <1>1 DEF Good
<1> HIDE DEF f
<1>5. Good(f)
  BY <1>1, <1>3, <1>4, MovedGood DEF Good, EntryOK
<1>6. Answers("start", disk[i], f)
  BY <1>1, <1>4 DEF Answers, Kept
<1> QED
  BY <1>2, <1>5, <1>6, BeginHInv DEF Commands

LEMMA RenewLeaseHInv ==
    ASSUME HInv, NEW p \in Procs, NEW i \in Items, NEW a \in Agents,
           NEW force \in BOOLEAN, NEW expired \in BOOLEAN,
           RenewLease(p, i, a, force, expired)
    PROVE  HInv'
<1>1. Good(WithLease(disk[i], a)) /\ Kept(disk[i], WithLease(disk[i], a))
  BY WithLeaseGood DEF HInv
<1>2. Begin(p, "renew-lease", i, WithLease(disk[i], a))
  BY DEF RenewLease
<1>3. Answers("renew-lease", disk[i], WithLease(disk[i], a))
  BY <1>1 DEF Answers, Kept
<1> QED
  BY <1>1, <1>2, <1>3, BeginHInv DEF Commands

LEMMA ReleaseHInv ==
    ASSUME HInv, NEW p \in Procs, NEW i \in Items, NEW a \in Agents,
           NEW force \in BOOLEAN,
           Release(p, i, a, force)
    PROVE  HInv'
<1> DEFINE g == GivenUp(disk[i])
           f == [g EXCEPT !.status = IF g.status = "doing" THEN "todo" ELSE g.status,
                          !.workflow = "released"]
<1>1. Good(g) /\ g.lease # "held" /\ Kept(disk[i], g)
  BY GivenUpGood DEF HInv
<1>2. Begin(p, "release", i, f)
  BY DEF Release
<1> HIDE DEF g
<1>3. f \in Entry
  <2> HIDE DEF Status, Workflow, Decision
  <2> QED
    BY <1>1, Literals DEF Good
<1>4. /\ f.lease = g.lease /\ f.workflow = "released"
      /\ f.decision = g.decision /\ f.phase = g.phase
  BY <1>1 DEF Good
<1> HIDE DEF f
<1>5. Good(f)
  BY <1>1, <1>3, <1>4, MovedGood DEF Good, EntryOK
<1>6. Answers("release", disk[i], f)
  BY <1>1, <1>4 DEF Answers, Kept
<1> QED
  BY <1>2, <1>5, <1>6, BeginHInv DEF Commands

LEMMA DeclineHInv ==
    ASSUME HInv, NEW p \in Procs, NEW i \in Items, NEW a \in Agents,
           NEW force \in BOOLEAN,
           Decline(p, i, a, force)
    PROVE  HInv'
<1> DEFINE g == GivenUp(disk[i])
           f == [g EXCEPT !.workflow = "declined"]
<1>1. Good(g) /\ g.lease # "held" /\ Kept(disk[i], g)
  BY GivenUpGood DEF HInv
<1>2. Begin(p, "decline", i, f)
  BY DEF Decline
<1> HIDE DEF g
<1>3. f \in Entry
  <2> HIDE DEF Status, Workflow, Decision
  <2> QED
    BY <1>1, Literals DEF Good
<1>4. /\ f.lease = g.lease /\ f.workflow = "declined"
      /\ f.decision = g.decision /\ f.phase = g.phase
  BY <1>1 DEF Good
<1> HIDE DEF f
<1>5. Good(f)
  BY <1>1, <1>3, <1>4, MovedGood DEF Good, EntryOK
<1>6. Answers("decline", disk[i], f)
  BY <1>1, <1>4 DEF Answers, Kept
<1> QED
  BY <1>2, <1>5, <1>6, BeginHInv DEF Commands

LEMMA HandoffHInv ==
    ASSUME HInv, NEW p \in Procs, NEW i \in Items, NEW a \in Agents,
           Handoff(p, i, a)
    PROVE  HInv'
<1> DEFINE g == GivenUp(disk[i])
           f == [g EXCEPT !.workflow = "handoff_requested", !.handoff_target = a]
<1>1. Good(g) /\ g.lease # "held" /\ Kept(disk[i], g)
  BY GivenUpGood DEF HInv
<1>2. Begin(p, "handoff", i, f)
  BY DEF Handoff
<1> HIDE DEF g
<1>3. f \in Entry
  <2> HIDE DEF Status, Workflow, Decision
  <2> QED
    BY <1>1, Literals DEF Good
<1>4. /\ f.lease = g.lease /\ f.workflow = "handoff_requested"
      /\ f.decision = g.decision /\ f.phase = g.phase
  BY <1>1 DEF Good
<1> HIDE DEF f
<1>5. Good(f)
  BY <1>1, <1>3, <1>4, MovedGood DEF Good, EntryOK
<1>6. Answers("handoff", disk[i], f)
  BY <1>1, <1>4 DEF Answers, Kept
<1> QED
  BY <1>2, <1>5, <1>6, BeginHInv DEF Commands

LEMMA BlockerHInv ==
    ASSUME HInv, NEW p \in Procs, NEW i \in Items, NEW a \in Agents,
           Blocker(p, i, a)
    PROVE  HInv'
<1> DEFINE g == GivenUp(disk[i])
           f == [g EXCEPT !.status = "blocked", !.workflow = "blocked",
                          !.unblock_owner = a]
<1>1. Good(g) /\ g.lease # "held" /\ Kept(disk[i], g)
  BY GivenUpGood DEF HInv
<1>2. Begin(p, "blocker", i, f)
  BY DEF Blocker
<1> HIDE DEF g
<1>3. f \in Entry
  <2> HIDE DEF Status, Workflow, Decision
  <2> QED
    BY <1>1, Literals DEF Good
<1>4. /\ f.lease = g.lease /\ f.status = "blocked" /\ f.workflow = "blocked"
      /\ f.decision = g.decision /\ f.phase = g.phase
  BY <1>1 DEF Good
<1> HIDE DEF f
<1>5. Good(f)
  BY <1>1, <1>3, <1>4, MovedGood DEF Good, EntryOK
<1>6. Answers("blocker", disk[i], f)
  BY <1>1, <1>4 DEF Answers, Kept
<1> QED
  BY <1>2, <1>5, <1>6, BeginHInv DEF Commands

LEMMA UnblockHInv ==
    ASSUME HInv, NEW p \in Procs, NEW i \in Items, NEW a \in Agents,
           NEW force \in BOOLEAN,
           Unblock(p, i, a, force)
    PROVE  HInv'
<1> DEFINE g == Released(disk[i])
           f == [g EXCEPT !.status = "todo", !.workflow = "unblocked",
                          !.decision = "none"]
<1>1. Good(g) /\ g.lease # "held" /\ Kept(disk[i], g)
  BY ReleasedGood DEF HInv
<1>2. Begin(p, "unblock", i, f)
  BY DEF Unblock
<1> HIDE DEF g
<1>3. f \in Entry
  <2> HIDE DEF Status, Workflow, Decision
  <2> QED
    BY <1>1, Literals DEF Good
<1>4. /\ f.lease = g.lease /\ f.workflow = "unblocked"
      /\ f.decision = "none" /\ f.phase = g.phase
  BY <1>1 DEF Good
<1> HIDE DEF f
<1>5. Good(f)
  BY <1>1, <1>3, <1>4, MovedGood DEF Good, EntryOK
<1>6. Answers("unblock", disk[i], f)
  BY <1>1, <1>4 DEF Answers, Kept
<1> QED
  BY <1>2, <1>5, <1>6, BeginHInv DEF Commands

LEMMA RequestReviewHInv ==
    ASSUME HInv, NEW p \in Procs, NEW i \in Items,
           RequestReview(p, i)
    PROVE  HInv'
<1> DEFINE g == disk[i]
           f == [g EXCEPT !.workflow = "review_requested"]
<1>1. Good(g) /\ Kept(disk[i], g)
  BY DEF HInv, Kept
<1>2. Begin(p, "review", i, f)
  BY DEF RequestReview
<1> HIDE DEF g
<1>3. f \in Entry
  <2> HIDE DEF Status, Workflow, Decision
  <2> QED
    BY <1>1, Literals DEF Good
<1>4. /\ f.lease = g.lease /\ f.owner = g.owner /\ f.holder = g.holder
      /\ f.workflow = "review_requested"
      /\ f.decision = g.decision /\ f.phase = g.phase
  BY <1>1 DEF Good
<1> HIDE DEF f
<1>5. Good(f)
  BY <1>1, <1>3, <1>4, MovedGood DEF Good, EntryOK
<1>6. Answers("review", disk[i], f)
  BY <1>1, <1>4 DEF Answers, Kept
<1> QED
  BY <1>2, <1>5, <1>6, BeginHInv DEF Commands

LEMMA CloseoutHInv ==
    ASSUME HInv, NEW p \in Procs, NEW i \in Items, Closeout(p, i)
    PROVE  HInv'
<1> DEFINE g == disk[i]
           f == [g EXCEPT !.workflow = "closeout_requested", !.decision = "none"]
<1>1. g \in Entry /\ EntryOK(g)
  BY DEF HInv, Good
<1>2. Begin(p, "closeout", i, f)
  BY DEF Closeout
<1> HIDE DEF g
<1>3. f \in Entry
  <2> HIDE DEF Status, Workflow, Decision
  <2> QED
    BY <1>1, Literals
<1>4. /\ f.lease = g.lease /\ f.owner = g.owner /\ f.holder = g.holder
      /\ f.workflow = "closeout_requested"
      /\ f.decision = "none"
  BY <1>1
<1> HIDE DEF f
<1>5. Good(f)
  BY <1>1, <1>3, <1>4 DEF Good, EntryOK
<1>6. Answers("closeout", disk[i], f)
  BY <1>4 DEF Answers
<1> QED
  BY <1>2, <1>5, <1>6, BeginHInv DEF Commands

LEMMA ReviewResultHInv ==
    ASSUME HInv, NEW p \in Procs, NEW i \in Items, NEW d \in Decision \ {"none"},
           ReviewResult(p, i, d)
    PROVE  HInv'
<1>1. Good(Reviewed(disk[i], d)) /\ Answers("review-result", disk[i], Reviewed(disk[i], d))
  BY ReviewedGood DEF HInv
<1>2. Begin(p, "review-result", i, Reviewed(disk[i], d))
  BY DEF ReviewResult
<1> QED
  BY <1>1, <1>2, BeginHInv DEF Commands

LEMMA MarkDoneHInv ==
    ASSUME HInv, NEW p \in Procs, NEW i \in Items, NEW force \in BOOLEAN,
           MarkDone(p, i, force)
    PROVE  HInv'
<1> DEFINE g == GivenUp(disk[i])
           f == [g EXCEPT !.status = "done", !.workflow = "closed"]
           cmd == IF force THEN "mark-done --force" ELSE "mark-done"
<1>1. Good(g) /\ g.lease # "held" /\ Kept(disk[i], g)
  BY GivenUpGood DEF HInv
<1>2. Begin(p, cmd, i, f)
  BY DEF MarkDone
<1> HIDE DEF g
<1>3. f \in Entry
  <2> HIDE DEF Status, Workflow, Decision
  <2> QED
    BY <1>1, Literals DEF Good
<1>4. /\ f.lease = g.lease /\ f.status = "done" /\ f.workflow = "closed"
      /\ f.decision = g.decision /\ f.phase = g.phase
  BY <1>1 DEF Good
<1> HIDE DEF f
<1>5. Good(f)
  BY <1>1, <1>3, <1>4, MovedGood DEF Good, EntryOK
<1>6. cmd = "mark-done" => CloseoutApproved(disk[i])
  BY DEF MarkDone
<1>7. cmd \in Commands /\ cmd \notin {"closeout", "review-result"}
  BY DEF Commands
<1>8. Answers(cmd, disk[i], f)
  BY <1>1, <1>4, <1>7 DEF Answers, Kept
<1> HIDE DEF cmd
<1> QED
  BY <1>2, <1>5, <1>6, <1>7, <1>8, BeginHInv
-----------------------------------------------------------------------------
(* The writes of a command, and the theorems. *)

(* The only step that touches an entry or the history.  An item that is     *)
(* not lost afterwards was not overtaken, so the command writes what it    *)
(* found, or an answer to it; or the command starts the item anew.         *)
LEMMA WriteHInv ==
    ASSUME HInv, NEW p \in Procs, Write(p)
    PROVE  /\ disk' \in Checklist /\ \A i \in Items : Good(disk'[i])
           /\ ruling' \in [Items -> Ruling] /\ lost' \subseteq Items
           /\ \A i \in Items \ lost' : Answered(disk'[i], ruling'[i])
<1> DEFINE w == work[p]
<1>1. pc[p] = "truncated" /\ w \in Work /\ WorkOK(w)
  BY DEF Write, HInv, TypeOK
<1>2. /\ disk' = w.next
      /\ ruling' = [ruling EXCEPT ![w.item] = RulingAfter(w, @)]
      /\ lost' = (lost \cup Overtaken(p)) \ Anew(p)
  BY DEF Write
<1>3. w.item \in Items /\ w.next \in Checklist
  BY <1>1 DEF Work
<1>4. ruling \in [Items -> Ruling] /\ lost \subseteq Items
  BY DEF HInv, TypeOK
<1>5. \A i \in Items : ruling'[i] = IF i = w.item THEN RulingAfter(w, ruling[i]) ELSE ruling[i]
  BY <1>2, <1>4
<1>6. ruling' \in [Items -> Ruling] /\ lost' \subseteq Items
  <2>1. RulingAfter(w, ruling[w.item]) \in Ruling
    BY <1>1, <1>3, <1>4, AnsweredAfter
  <2> QED
    BY <1>2, <1>4, <2>1 DEF Overtaken
<1>7. ASSUME NEW i \in Items, i \notin lost'
      PROVE  Answered(w.next[i], ruling'[i])
  <2>1. CASE i = w.item
    <3>1. \/ Answered(w.was, ruling[i])
          \/ RulingAfter(w, "none") \in {"asked", "refused"}
      <4>1. CASE i \in Anew(p)
        BY <4>1 DEF Anew
      <4>2. CASE i \notin lost \cup Overtaken(p)
        <5>1. disk[i] = w.was
          BY <2>1, <4>2 DEF Overtaken
        <5> QED
          BY <4>2, <5>1 DEF HInv
      <4> QED
        BY <1>2, <1>7, <4>1, <4>2
    <3> QED
      BY <1>1, <1>4, <1>5, <2>1, <3>1, AnsweredAfter
  <2>2. CASE i # w.item
    <3>1. i \notin lost \cup Overtaken(p)
      BY <1>2, <1>7, <2>2 DEF Anew
    <3>2. disk[i] = w.next[i]
      BY <2>2, <3>1 DEF Overtaken
    <3> QED
      BY <1>5, <2>2, <3>1, <3>2 DEF HInv
  <2> QED
    BY <2>1, <2>2
<1> QED
  BY <1>1, <1>2, <1>3, <1>6, <1>7 DEF WorkOK

LEMMA StepHInv ==
    ASSUME HInv, NEW p \in Procs, Step(p)
    PROVE  HInv'
<1> USE DEF history
<1>1. pc[p] # "idle" => work[p] \in Work
  BY DEF HInv, TypeOK
<1>2. ASSUME pc[p] # "idle", Exit(p)
      PROVE  /\ pc' \in [Procs -> {"idle", "loaded", "truncated", "saved"}]
             /\ work' \in [Procs -> Work \cup {NoWork}]
             /\ \A q \in Procs : pc'[q] = "idle" <=> work'[q] = NoWork
             /\ \A q \in Procs : pc'[q] # "idle" => WorkOK(work'[q])
  <2>1. \A q \in Procs : /\ work'[q] = IF q = p THEN NoWork ELSE work[q]
                         /\ pc'[q] = IF q = p THEN "idle" ELSE pc[q]
    BY <1>2 DEF Exit, HInv, TypeOK
  <2>2. /\ pc' \in [Procs -> {"idle", "loaded", "truncated", "saved"}]
        /\ work' \in [Procs -> Work \cup {NoWork}]
    BY <1>2 DEF Exit, HInv, TypeOK
  <2>3. \A q \in Procs : pc'[q] = "idle" <=> work'[q] = NoWork
    BY <2>1 DEF HInv, TypeOK
  <2>4. \A q \in Procs : pc'[q] # "idle" => WorkOK(work'[q])
    BY <2>1 DEF HInv
  <2> QED
    BY <2>2, <2>3, <2>4
<1>3. CASE Truncate(p)
  <2>1. /\ pc[p] = "loaded" /\ pc' = [pc EXCEPT ![p] = "truncated"]
        /\ torn' = TRUE /\ UNCHANGED <<disk, work, started, ruling, lost>>
    BY <1>3 DEF Truncate
  <2>2. pointer' \in Items \cup {NoItem}
    BY <1>3 DEF Truncate, HInv, TypeOK
  <2>3. TypeOK'
    BY <2>1, <2>2 DEF HInv, TypeOK
  <2> QED
    BY <2>1, <2>3 DEF HInv, TypeOK
<1>4. CASE Write(p)
  <2>1. /\ pc[p] = "truncated" /\ torn' \in BOOLEAN /\ UNCHANGED <<pointer, started>>
    BY <1>4 DEF Write
  <2>2. /\ disk' \in Checklist /\ \A i \in Items : Good(disk'[i])
        /\ ruling' \in [Items -> Ruling] /\ lost' \subseteq Items
        /\ \A i \in Items \ lost' : Answered(disk'[i], ruling'[i])
    BY <1>4, WriteHInv
  <2>3. CASE Exit(p)
    <3>1. TypeOK'
      BY <1>2, <2>1, <2>2, <2>3 DEF HInv, TypeOK
    <3> QED
      BY <1>2, <2>1, <2>2, <2>3, <3>1 DEF HInv
  <2>4. CASE pc' = [pc EXCEPT ![p] = "saved"] /\ work' = work
    <3>1. TypeOK'
      BY <2>1, <2>2, <2>4 DEF HInv, TypeOK
    <3> QED
      BY <2>1, <2>2, <2>4, <3>1 DEF HInv, TypeOK
  <2> QED
    BY <1>4, <2>3, <2>4 DEF Write
<1>5. CASE PointAtItem(p)
  <2>1. /\ pc[p] = "saved" /\ pointer' = work[p].item /\ Exit(p)
        /\ UNCHANGED <<disk, torn, started, ruling, lost>>
    BY <1>5 DEF PointAtItem
  <2>2. pointer' \in Items
    BY <1>1, <2>1 DEF Work
  <2>3. TypeOK'
    BY <1>2, <2>1, <2>2 DEF HInv, TypeOK
  <2> QED
    BY <1>2, <2>1, <2>3 DEF HInv
<1>6. CASE Killed(p)
  <2>1. pc[p] # "idle" /\ Exit(p) /\ UNCHANGED <<disk, torn, pointer, started, ruling, lost>>
    BY <1>6 DEF Killed
  <2>2. TypeOK'
    BY <1>2, <2>1 DEF HInv, TypeOK
  <2> QED
    BY <1>2, <2>1, <2>2 DEF HInv
<1> QED
  BY <1>3, <1>4, <1>5, <1>6 DEF Step

LEMMA NextHInv == HInv /\ [Next]_vars => HInv'
<1> SUFFICES ASSUME HInv, [Next]_vars PROVE HInv'
  OBVIOUS
<1>1. ASSUME NEW p \in Procs, NEW i \in Items, Command(p, i)
      PROVE  HInv'
  BY <1>1, AssignHInv, AcceptHInv, StartHInv, RenewLeaseHInv, ReleaseHInv,
     DeclineHInv, UnblockHInv, HandoffHInv, BlockerHInv, RequestReviewHInv,
     CloseoutHInv, ReviewResultHInv, MarkDoneHInv
     DEF Command, Claim
<1>2. ASSUME NEW p \in Procs, Step(p)
      PROVE  HInv'
  BY <1>2, StepHInv
<1>3. ASSUME NEW i \in Items, Sync(i)
      PROVE  HInv'
  <2>1. TypeOK'
    BY <1>3, MaxCommandsAssumption DEF Sync, HInv, TypeOK, history
  <2> QED
    BY <1>3, <2>1 DEF Sync, HInv, history
<1>4. CASE UNCHANGED vars
  BY <1>4 DEF vars, commands, history, HInv, TypeOK
<1> QED
  BY <1>1, <1>2, <1>3, <1>4 DEF Next

THEOREM HInvHolds == Spec => []HInv
<1> QED
  BY InitHInv, NextHInv, PTL DEF Spec

(* Every variable keeps its type (load, write and exit of every command). *)
THEOREM HarnessTypeCorrect == Spec => []TypeOK
<1>1. HInv => TypeOK
  BY DEF HInv
<1> QED
  BY <1>1, HInvHolds, PTL

(* An item under a lease is owned by the holder of the lease, whatever      *)
(* commands overlap or are killed (claim_lease, release_lease and the      *)
(* commands that set an owner).                                            *)
THEOREM HarnessLeaseFollowsOwner == Spec => []LeaseFollowsOwner
<1>1. HInv => LeaseFollowsOwner
  BY DEF HInv, LeaseFollowsOwner, Good, EntryOK
<1> QED
  BY <1>1, HInvHolds, PTL

(* The workflow status never contradicts the coarse status (do_accept,      *)
(* do_release, do_unblock, do_review_result, do_mark_done, the blocker).   *)
THEOREM HarnessWorkflowMatches == Spec => []WorkflowMatchesStatus
<1>1. HInv => WorkflowMatchesStatus
  BY DEF HInv, WorkflowMatchesStatus, Good, EntryOK
<1> QED
  BY <1>1, HInvHolds, PTL

(* do_mark_done without force closes only what the review of the last       *)
(* closeout request approved, unless an overlapping command has written    *)
(* over what it had not read.  The invariant pays: what mark-done has read *)
(* is what the checklist still says, which agrees with the ruling.         *)
THEOREM HarnessCloseRestsOnApproval == Spec => []CloseRestsOnApproval
<1>1. HInv => CloseRestsOnApproval
  <2> SUFFICES ASSUME HInv, NEW p \in Procs, work[p].cmd = "mark-done",
                      work[p].item \notin lost \cup Overtaken(p)
               PROVE  ruling[work[p].item] = "approved"
    BY DEF CloseRestsOnApproval
  <2>1. pc[p] # "idle"
    BY DEF HInv, TypeOK, NoWork
  <2>2. work[p] \in Work /\ CloseoutApproved(work[p].was)
    BY <2>1 DEF HInv, TypeOK, WorkOK
  <2>3. work[p].item \in Items /\ disk[work[p].item] = work[p].was
    BY <2>2 DEF Work, Overtaken
  <2> QED
    BY <2>2, <2>3 DEF HInv, Answered
<1> QED
  BY <1>1, HInvHolds, PTL
=============================================================================
