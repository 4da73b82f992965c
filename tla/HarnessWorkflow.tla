--------------------------- MODULE HarnessWorkflow ---------------------------
(***************************************************************************)
(* The harness workflow (scripts/harness/): harnessctl commands move the   *)
(* items of one checklist, mvp-checklist.json, through assignment, work,   *)
(* review and closeout.  A command is a process of its own.  It reads the  *)
(* checklist, decides, and writes all of it back, without a lock; then it  *)
(* appends an event to the log.  Any number of commands can overlap, and   *)
(* any of them can be killed between two of its writes.                    *)
(*                                                                         *)
(* A command that is refused exits before it has changed anything and is   *)
(* no action; neither is one that finds a checklist it cannot parse.       *)
(***************************************************************************)
EXTENDS Naturals

CONSTANTS
    Procs,        \* command processes that can run at the same time
    Items,        \* checklist items
    Agents,       \* owners, actors and handoff targets
    Deps,         \* Deps[i]: the items i depends on
    Nobody,       \* no agent
    NoItem,       \* no item
    MaxCommands   \* bound: the commands that are ever started

ASSUME NobodyAssumption == Nobody \notin Agents
ASSUME NoItemAssumption == NoItem \notin Items
ASSUME DepsAssumption == Deps \in [Items -> SUBSET Items]
ASSUME MaxCommandsAssumption == MaxCommands \in Nat

VARIABLES
    disk,      \* the checklist last written, an entry per item
    torn,      \* the file is truncated, or a mixture of two writes
    pointer,   \* current/task_plan.md: the item it names, or none
    pc,        \* pc[p]: where the command of p stands
    work,      \* work[p]: the command of p, what it has read of its item, and
               \*   the checklist it will write
    started,   \* how many commands were started
    ruling,    \* history: what became of the last closeout request for an item,
               \*   in the order of the writes, whatever became of the writes
    lost       \* history: the items of which, since that request or the last
               \*   refusal, a command overwrote something it had not read

commands == <<pc, work, started>>
history == <<ruling, lost>>
vars == <<disk, torn, pointer, commands, history>>

Status == {"todo", "doing", "blocked", "done"}
Decision == {"none", "approved", "changes_requested", "blocked"}

(* The workflow statuses the commands write: those the validator lists,    *)
(* less two that no command writes, and declined.                          *)
Workflow == {"todo", "assigned", "running", "declined", "released", "unblocked",
             "handoff_requested", "review_requested", "closeout_requested",
             "review_approved", "changes_requested", "blocked", "closed"}
AnyAgent == Agents \cup {Nobody}

(* An entry of the checklist.  owner stands for owner and session, lease   *)
(* and holder for the lease record, decision and phase for the review.     *)
Entry == [status : Status, workflow : Workflow, owner : AnyAgent,
          handoff_target : AnyAgent, unblock_owner : AnyAgent,
          holder : AnyAgent, lease : {"none", "held", "released"},
          decision : Decision, phase : Workflow]
Ruling == {"none", "asked", "approved", "refused"}
Checklist == [Items -> Entry]

NewEntry == [status |-> "todo", workflow |-> "todo", owner |-> Nobody,
             handoff_target |-> Nobody, unblock_owner |-> Nobody,
             holder |-> Nobody, lease |-> "none",
             decision |-> "none", phase |-> "todo"]

Commands == {"assign", "accept", "start", "renew-lease", "release", "decline",
             "handoff", "blocker", "unblock", "review", "closeout",
             "review-result", "mark-done", "mark-done --force"}
Work == [cmd : Commands, item : Items, was : Entry, next : Checklist]
NoWork == [cmd |-> "none"]

Init ==
    /\ disk = [i \in Items |-> NewEntry]
    /\ torn = FALSE
    /\ pointer = NoItem
    /\ pc = [p \in Procs |-> "idle"]
    /\ work = [p \in Procs |-> NoWork]
    /\ started = 0
    /\ ruling = [i \in Items |-> "none"]
    /\ lost = {}

-----------------------------------------------------------------------------
(* Reading an entry.  Whether a lease that is held has run out is for the   *)
(* clock of the command to say: expired is an input.                       *)

Unfinished(i) == {d \in Deps[i] : disk[d].status # "done"}
IsHandoffTarget(e, a) == e.workflow = "handoff_requested" /\ e.handoff_target = a

LeasedToOther(e, a, expired) == e.lease = "held" /\ ~expired /\ e.holder # a
OwnedByOther(e, a) == e.owner \notin {Nobody, a} /\ e.lease # "held"
Free(e, a, expired) == ~LeasedToOther(e, a, expired) /\ ~OwnedByOther(e, a)

(* assert_can_start, without force *)
CanStart(i, a, expired) ==
    /\ disk[i].status # "blocked"
    /\ Unfinished(i) = {}
    /\ Free(disk[i], a, expired)

(* assert_claimable, without force: the target of a handoff may claim too. *)
Claimable(i, a, expired) ==
    /\ disk[i].status # "blocked"
    /\ Unfinished(i) = {}
    /\ IsHandoffTarget(disk[i], a) \/ Free(disk[i], a, expired)

(* Changing one *)

WithLease(e, a) == [e EXCEPT !.owner = a, !.holder = a, !.lease = "held"]
Released(e) == [e EXCEPT !.lease = IF @ = "held" THEN "released" ELSE @]
GivenUp(e) == [Released(e) EXCEPT !.owner = Nobody]

(* A command has read the checklist and found that it may set item i to e. *)
Begin(p, cmd, i, e) ==
    /\ pc[p] = "idle"
    /\ ~torn
    /\ started < MaxCommands
    /\ started' = started + 1
    /\ pc' = [pc EXCEPT ![p] = "loaded"]
    /\ work' = [work EXCEPT ![p] = [cmd |-> cmd, item |-> i, was |-> disk[i],
                                    next |-> [disk EXCEPT ![i] = e]]]
    /\ UNCHANGED <<disk, torn, pointer, history>>

-----------------------------------------------------------------------------
(* Assignment *)

Assign(p, i, a, force, expired) ==
    /\ disk[i].status # "done"
    /\ force \/ Claimable(i, a, expired)
    /\ Begin(p, "assign", i,
             [WithLease(disk[i], a) EXCEPT !.workflow = "assigned"])

Accept(p, i, a, force, expired) ==
    /\ disk[i].status # "done"
    /\ force \/ Claimable(i, a, expired)
    /\ Begin(p, "accept", i,
             [WithLease(disk[i], a) EXCEPT !.status = "doing", !.workflow = "running",
                                           !.handoff_target = Nobody])

Start(p, i, a, force, expired) ==
    /\ disk[i].status # "done"
    /\ force \/ CanStart(i, a, expired)
    /\ Begin(p, "start", i,
             [WithLease(disk[i], a) EXCEPT !.status = "doing", !.workflow = "running"])

RenewLease(p, i, a, force, expired) ==
    /\ \/ force
       \/ ~LeasedToOther(disk[i], a, expired) /\ disk[i].owner \in {Nobody, a}
    /\ Begin(p, "renew-lease", i, WithLease(disk[i], a))

Release(p, i, a, force) ==
    /\ force \/ disk[i].owner \in {Nobody, a}
    /\ Begin(p, "release", i,
             [GivenUp(disk[i]) EXCEPT !.status = IF @ = "doing" THEN "todo" ELSE @,
                                      !.workflow = "released"])

(* Who may decline: the handoff target if there ever was one, else the     *)
(* owner, else anybody.                                                    *)
Decliner(e) == IF e.handoff_target # Nobody THEN e.handoff_target ELSE e.owner

(* Mutant of Decline: the lease is left to run. *)
DeclineKeepsLease(p, i, a, force) ==
    /\ force \/ Decliner(disk[i]) \in {Nobody, a}
    /\ Begin(p, "decline", i,
             [disk[i] EXCEPT !.workflow = "declined", !.owner = Nobody])

Decline(p, i, a, force) ==
    /\ force \/ Decliner(disk[i]) \in {Nobody, a}
    /\ Begin(p, "decline", i, [GivenUp(disk[i]) EXCEPT !.workflow = "declined"])

(* The handoff packet is written first and describes the item as it was.   *)
(* The command asks neither who calls it nor whether the item is done.     *)
Handoff(p, i, target) ==
    Begin(p, "handoff", i,
          [GivenUp(disk[i]) EXCEPT !.workflow = "handoff_requested",
                                   !.handoff_target = target])

-----------------------------------------------------------------------------
(* Blockers *)

Blocker(p, i, unblocker) ==
    Begin(p, "blocker", i,
          [GivenUp(disk[i]) EXCEPT !.status = "blocked", !.workflow = "blocked",
                                   !.unblock_owner = unblocker])

(* Mutant of Unblock: the coarse status is forgotten. *)
UnblockKeepsStatus(p, i, a, force) ==
    /\ disk[i].status = "blocked"
    /\ force \/ disk[i].unblock_owner \in {Nobody, a}
    /\ Begin(p, "unblock", i,
             [Released(disk[i]) EXCEPT !.workflow = "running", !.decision = "none"])

Unblock(p, i, a, force) ==
    /\ disk[i].status = "blocked"
    /\ force \/ disk[i].unblock_owner \in {Nobody, a}
    /\ Begin(p, "unblock", i,
             [Released(disk[i]) EXCEPT !.status = "todo", !.workflow = "unblocked",
                                       !.decision = "none"])

-----------------------------------------------------------------------------
(* Review and closeout *)

RequestReview(p, i) ==
    Begin(p, "review", i, [disk[i] EXCEPT !.workflow = "review_requested"])

(* Mutant of Closeout: the decision on an earlier request is kept. *)
CloseoutKeepsDecision(p, i) ==
    Begin(p, "closeout", i, [disk[i] EXCEPT !.workflow = "closeout_requested"])

Closeout(p, i) ==
    Begin(p, "closeout", i, [disk[i] EXCEPT !.workflow = "closeout_requested",
                                            !.decision = "none"])

(* Mutant of Reviewed: the decision is taken for a workflow status. *)
ReviewedAsDecided(e, d) == [e EXCEPT !.decision = d, !.phase = e.workflow, !.workflow = d]

(* phase records what the review was of: the workflow status it found. *)
Reviewed(e, d) ==
    [e EXCEPT !.decision = d, !.phase = e.workflow,
              !.status = IF d = "blocked" THEN "blocked" ELSE @,
              !.workflow = IF d = "approved" THEN "review_approved" ELSE d]

ReviewResult(p, i, d) == Begin(p, "review-result", i, Reviewed(disk[i], d))

CloseoutApproved(e) == e.decision = "approved" /\ e.phase = "closeout_requested"

MarkDone(p, i, force) ==
    /\ disk[i].status # "done"
    /\ force \/ CloseoutApproved(disk[i])
    /\ Begin(p, IF force THEN "mark-done --force" ELSE "mark-done", i,
             [GivenUp(disk[i]) EXCEPT !.status = "done", !.workflow = "closed"])

-----------------------------------------------------------------------------
(* The writes of a command *)

(* release, unblock and mark-done clear the pointer when it names the item. *)
Ending == {"release", "unblock", "mark-done", "mark-done --force"}

(* Then write_text opens the checklist for writing, which empties it ...   *)
Truncate(p) ==
    /\ pc[p] = "loaded"
    /\ pointer' = IF work[p].cmd \in Ending /\ pointer = work[p].item
                    THEN NoItem ELSE pointer
    /\ torn' = TRUE
    /\ pc' = [pc EXCEPT ![p] = "truncated"]
    /\ UNCHANGED <<disk, work, started, history>>

Exit(p) ==
    /\ pc' = [pc EXCEPT ![p] = "idle"]
    /\ work' = [work EXCEPT ![p] = NoWork]

(* The history.  A closeout asks for a ruling, an approval answers what was *)
(* asked, a refusal counts at any time.                                    *)
RulingAfter(w, r) ==
    LET d == w.next[w.item].decision IN
    CASE w.cmd = "closeout"                                       -> "asked"
      [] w.cmd = "review-result" /\ d # "approved"                -> "refused"
      [] w.cmd = "review-result" /\ d = "approved" /\ r = "asked" -> "approved"
      [] OTHER                                                    -> r

(* The items that have changed since the command of p read them. *)
Overtaken(p) ==
    {i \in Items :
        disk[i] # IF i = work[p].item THEN work[p].was ELSE work[p].next[i]}

(* A request or a refusal that has been written starts an item anew. *)
Anew(p) == {i \in {work[p].item} :
               RulingAfter(work[p], "none") \in {"asked", "refused"}}

(* ... and writes all of it.  Over a text that another command has written *)
(* in the meantime, the end of that text may stay behind.                  *)
Write(p) ==
    /\ pc[p] = "truncated"
    /\ disk' = work[p].next
    /\ torn' \in (IF torn THEN {FALSE} ELSE BOOLEAN)
    /\ IF work[p].cmd = "start"
         THEN pc' = [pc EXCEPT ![p] = "saved"] /\ work' = work
         ELSE Exit(p)
    /\ ruling' = [ruling EXCEPT ![work[p].item] = RulingAfter(work[p], @)]
    /\ lost' = (lost \cup Overtaken(p)) \ Anew(p)
    /\ UNCHANGED <<pointer, started>>

(* start points at its item when it has saved the checklist. *)
PointAtItem(p) ==
    /\ pc[p] = "saved"
    /\ pointer' = work[p].item
    /\ Exit(p)
    /\ UNCHANGED <<disk, torn, started, history>>

(* The command is killed.  Before its first write that leaves nothing      *)
(* behind: such a command is one that was never started.                   *)
Killed(p) ==
    /\ pc[p] \in {"truncated", "saved"}
    /\ Exit(p)
    /\ UNCHANGED <<disk, torn, pointer, started, history>>

(* harnessctl sync: point at an item, whatever its state.  The plan it     *)
(* reads is taken to exist.                                               *)
Sync(i) ==
    /\ ~torn
    /\ started < MaxCommands
    /\ started' = started + 1
    /\ pointer' = i
    /\ UNCHANGED <<disk, torn, pc, work, history>>

Claim(p, i, a, force, expired) ==
    \/ Assign(p, i, a, force, expired)
    \/ Accept(p, i, a, force, expired)
    \/ Start(p, i, a, force, expired)
    \/ RenewLease(p, i, a, force, expired)

Command(p, i) ==
    \/ \E a \in Agents, force, expired \in BOOLEAN : Claim(p, i, a, force, expired)
    \/ \E a \in Agents, force \in BOOLEAN :
          Release(p, i, a, force) \/ Decline(p, i, a, force) \/ Unblock(p, i, a, force)
    \/ \E a \in Agents : Handoff(p, i, a) \/ Blocker(p, i, a)
    \/ RequestReview(p, i)
    \/ Closeout(p, i)
    \/ \E d \in Decision \ {"none"} : ReviewResult(p, i, d)
    \/ \E force \in BOOLEAN : MarkDone(p, i, force)

Step(p) == Truncate(p) \/ Write(p) \/ PointAtItem(p) \/ Killed(p)

Next ==
    \/ \E p \in Procs, i \in Items : Command(p, i)
    \/ \E p \in Procs : Step(p)
    \/ \E i \in Items : Sync(i)

Spec == Init /\ [][Next]_vars

-----------------------------------------------------------------------------
TypeOK ==
    /\ disk \in Checklist
    /\ torn \in BOOLEAN
    /\ pointer \in Items \cup {NoItem}
    /\ pc \in [Procs -> {"idle", "loaded", "truncated", "saved"}]
    /\ work \in [Procs -> Work \cup {NoWork}]
    /\ \A p \in Procs : pc[p] = "idle" <=> work[p] = NoWork
    /\ started \in 0..MaxCommands
    /\ ruling \in [Items -> Ruling]
    /\ lost \subseteq Items

(* An item under a lease is owned by the agent the lease names: no command  *)
(* that takes an item from its owner lets the lease run on, which would    *)
(* keep the next owner out of an item nobody works on.                     *)
LeaseFollowsOwner ==
    \A i \in Items : disk[i].lease = "held" =>
        disk[i].holder \in Agents /\ disk[i].owner = disk[i].holder

(* The workflow status and the coarse status of an item agree: what runs is *)
(* being done, what is closed is done, and what is blocked is blocked,     *)
(* also when two commands overlap and one overwrites the other.            *)
WorkflowMatchesStatus ==
    \A i \in Items :
        /\ disk[i].workflow = "running" => disk[i].status = "doing"
        /\ disk[i].workflow = "closed" => disk[i].status = "done"
        /\ disk[i].workflow = "blocked" => disk[i].status = "blocked"

(* mark-done without force closes an item only after the last closeout     *)
(* request was approved, with no refusal of the item since, in the order in*)
(* which the commands wrote (workflow_transition.py:331-361).  The         *)
(* exception is what overlapping commands can do: one that overwrites what *)
(* it has not read of the item may bring an old approval back.  The item   *)
(* is in lost then, or mark-done itself is about to do it.                 *)
CloseRestsOnApproval ==
    \A p \in Procs :
        /\ work[p].cmd = "mark-done"
        /\ work[p].item \notin lost \cup Overtaken(p)
        => ruling[work[p].item] = "approved"

(* What is being done has an owner, as validate_checklist.py demands of     *)
(* every checklist.  A handoff, or a decline, of an item somebody works on *)
(* takes the owner and leaves the status.                                  *)
DoingHasOwner == \A i \in Items : disk[i].status = "doing" => disk[i].owner # Nobody
=============================================================================
