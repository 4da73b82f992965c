# multi-agent-nexus: a TLA+ verification project

This directory models the parts of multi-agent-nexus where processes, leases,
locks and crashes meet. Each module is translated from the source it names, TLC
checks it on small instances, and TLAPS proves what matters most for every
value of the constants. `PROJECT.json` maps every definition to the lines it
stands for and lists the hazards the properties are aimed at.

Paths below are relative to the repository root.

## 1. The system

multi-agent-nexus runs coding agents (Claude, Codex and others) behind Discord
and KOOK. Requests become jobs in *Coordinate*, a separate program with a SQLite
database that this repository calls through its CLI. `agentd` workers claim jobs,
run a provider CLI in a worktree and report. Around that: session memory, a
handoff protocol between agents, a file based harness workflow, a wiki "washer",
and the deployment and production-verification tooling.

| part | where | state it keeps | operations | what is hard |
|---|---|---|---|---|
| Coordinate (external) | used by `multinexus/agentd/coordinate_client.py` | jobs, attempts, leases, agents, catalogs | submit, claim (with reap), renew, report, reap, deactivate | a call that times out may have been committed |
| agentd worker | `multinexus/agentd/worker.py`, `__main__.py`, `adapters/utils.py` | current job and lease, renewal task, provider process group | claim loop, envelope checks, renewal supervisor, provider, cancel and join, report | lease expiry against provider life, failures of every call, crashes with orphans |
| production mutation lock | `scripts/production-mutation-lock.py`, used by `scripts/deploy-server.sh` | a directory, `owner.json`, a recovery audit | acquire, release, recover, status | path based system calls interleave; kills between them |
| production controller | `scripts/p9_3c1_controller.py` | phase file, hash-chained ledger, authorization, token file | prepare, run, cleanup, status | failure or kill at any of some sixty calls, and a cleanup that has to undo them |
| fixture unit helper | `multinexus/fixture/bin/p9-3c0-unit.sh` | units, a ledger of them, the static definition | render, start, stop, cleanup | a start or stop cut off half way |
| envelope validation | `multinexus/agentd/execution_*.py`, `executor_binding.py` | none | parse lease, context, binding | boundary values |
| provider adapters | `multinexus/adapters/` | a subprocess | call, cancel | pipes, process groups |
| agentd server and sessions | `multinexus/agentd/server.py`, `multinexus/sessions/` | a table with a provider session per scope | lookup, resume, upsert, mark stale, mark archived | runs that overlap on one session; a discard against a run under way; a death between two commits |
| Discord bridge and handoff | `multinexus/client.py`, `handoff*.py`, `coordinator_handoff.py`, `protocol.py` | where each message handler stands; assignments and jobs are kept by Coordinate | dispatch, accept, bootstrap, confirm, submit, wait, reply, report | every call can fail before or after it took effect; a message is edited while its post is handled |
| harness workflow | `scripts/harness/` | one JSON checklist, a current pointer, an event log | assign, start, handoff, block, review, close | load, edit, save without a lock |
| persistence | `persistence/db.py` | messages, their archive, watermarks, three stores of memories | save, archive, clear, read beyond the watermark | row numbers that are given out again |
| washer and wiki | `washer.py`, `services/wiki.py` | the pass, the watermark; pages, drafts, indexes, a log and its cursor | extract, route, advance; write, update, promote, reject, ingest | several stores or files written one after another |
| registry and capacity authority | `multinexus/registry_authority.py`, `executor_capacity_authority.py` | catalog files | parse, canonicalise, hash | pure |
| KOOK bridge and its context store | `multinexus/kook/bot.py`, `multinexus/context/store.py` | a bounded window of seen ids; recorded messages | receive, poll, record, submit and reply | the same message from two sources, restarts, repeated handoffs |
| other front ends, prompt text, configuration, services | `routing/`, `agents/`, `multinexus/context/`, `launchd/`, `scripts/*.sh` | none | format, send | pure I/O |

How they interact: a Discord or KOOK bridge turns a message into a job of Coordinate
and polls it, or runs the provider itself, with the session its table offers for the
conversation. A worker claims the job, which makes a new *attempt* with a *lease* on the worktree; the worker
renews the lease while the provider runs and reports with it; Coordinate makes the
delivery. The deploy script and the production controller share the mutation
lock. The controller drives Coordinate and, through the unit helper, two agentd
units, to prove the lease protocol in production.

What makes each part correct:

* worker: no two supervised providers in one worktree, no supervised provider past its
  lease, nothing but a failure reported or released with the provider alive, no report
  after a lost lease, one holder per attempt, what the operator confirmed of an attempt
  stays true, every attempt ends;
* lock: one client inside, it holds the lock it thinks it holds, only the owner's
  token removes it, recovery is audited, a failed acquire leaves nothing behind;
* controller: it works only under the lock, its ledger leads its phase file, it
  gives the lock back only when what it activated is dormant, its cleanup is never
  refused by its own earlier steps, every command ends;
* sessions: one resumable session per conversation, one that was discarded is never
  resumed, a recovered job resumes the session it was working in or fails;
* bridges: one message makes one job and is taken up once; the job of a handoff was
  accepted, bootstrapped and confirmed first; every handler ends;
* workflow: owner and lease, status and workflow status agree; an item is closed on the
  approval of its last closeout request; what is being done has an owner;
* persistence and washer: the watermark never passes what was stored, and every message
  is washed in the end;
* wiki: nothing written to a page is lost, and a page that exists is offered to readers,
  wherever an operation breaks off.

## 2. Modules

### CoordinateRuntime (external)

`status`, `attempt`, `lease` and `left` (ticks to `expires_at`) per job; one
operator per write transaction: `ClaimJob`, `Reap`, `RenewLease`, `AcceptReport`,
and the fence `LeaseHeld`. It states only what `coordinate_client.py` sends, what
`worker.py` relies on and what
`docs/project-harness/tasks/p9-3b-runtime-lease-wiring/plan.md` fixes as the
contract. The order in which jobs are picked and the capacity of an agent are
left open, so every choice is checked.

### AgentdWorker

Any number of worker processes. `pc[w]` is the await the main task of `w` stands
at, `ren[w]` that of the renewal supervisor (`_renewal_supervisor`). `live` holds the
attempts whose provider is alive, which is to say the *leader* of the process group of
the call whose result counts; `strays` the jobs of which other provider processes are
left. The adapters look after the whole group only when a call times out, is cancelled
or raises. Otherwise they wait for the leader (`adapters/claude.py:246`, `omp.py:104`), so
that members of the group may outlive it (`ProviderReturn`), or, after an error in the
result event, for nothing at all (`claude.py:238-243`: `ResultAbandons`); and a fresh call
after a resume that failed starts beside whatever that resume has left (`ResumeFails`). One
action per step between two awaits:

| actions | code |
|---|---|
| `Start`, `StartRecovery`, `Stop`, `Crash`, `OrphanExit`, `StrayExit` | `__main__.py`, the service manager, `async_subprocess_kwargs` |
| `ClaimSend`, `ClaimServe`, `ClaimNothing`, `ClaimFail` | `run` 107-147, `claim_job`, `_run_cli` |
| `AcceptClaim`, `DropClaim`, `RefuseClaim` | `_process_job` 197-455 |
| `RenewSend`, `RenewServe`, `RenewReturn`, `RenewFail` | `_renewal_supervisor` 558-651 |
| `ProviderReturn`, `ResultAbandons`, `ResumeFails`, `ProviderSurvives`, `Finish`, `DiscardResult`, `CancelProvider`, `ProviderJoined`, `JoinRaises` | `_process_job` 456-510, `adapters/claude.py`, `adapters/omp.py`, `terminate_owned_process_group` |
| `Abandon`, `ReportSend`, `ReportServe`, `ReportReturn`, `ReportRaises` | `_process_job` 511-556 |
| `ReaperTick`, `Tick` | reaper timer, clocks |

Every Coordinate call is three steps (sent, served, returned) and can fail after
each, so lost answers are covered. Time is counted in ticks; `Tick` is disabled
while a step that waits for nothing is due, and no wait lasts longer than the
timeout the code gives it.

Abstractions: the deadline of a lease is always TTL minus the margin counted from
the reply, so only `Nap` matters; the legacy unleased path, progress payloads and
capacity heartbeats are left out (progress counts as the time spent draining); a
CLI thread left behind by a cancelled renewal has been committed before the
cancellation or never; the event loop resumes a runnable task within a tick.

### ManagedExecution

`ManagedExecution` is what leases and renewal are for, without leases, calls or clocks:
a job is granted in numbered attempts, no two supervised providers work in one worktree,
and an attempt is reported or given up only when nobody works on it. `AgentdWorker`
instantiates it (`Promise`) with what a submitter reads of the job (`record`), the attempt
number (`granted`) and the attempts with a supervised provider (`working`). `PromiseKept`
says that every step of the detailed module is one of the abstract one or a stutter: a
claim that reaps on the way is a `Grant` that gives up a batch of overdue attempts with it,
and everything a worker does between two calls is invisible. `AgentdWorkerProofs` proves it.

### Conversation

The provider sessions of one agent in one conversation. The same steps are taken by three
programs, one of which an installation runs (`mode`): the Discord bridge without agentd,
where requests overlap; the HTTP agentd, which holds a lock around a run; and the
Coordinate agentd, which takes one job at a time. `rows` is the session table with the
canonical and the legacy scope, `runs[r]` how far request `r` is.

| actions | code |
|---|---|
| `StartFresh`, `StartResume` | `client.py` `_run_adapter_for_scope` up to the adapter call, `agentd/server.py` `_run_adapter` |
| `ResumeError`, `TurnEnds`, `Retire`, `TurnRaises` | the same after the call: mark stale and start over, upsert, retire the legacy row |
| `ClaimRecovery`, `ClaimPlain`, `Progress`, `Record`, `Report`, `LoseAttempt` | `agentd/worker.py`: which session a claimed job resumes, the session sent with the progress, the recoverable resume |
| `Reset`, `Archive` | `commands.py` `session reset`, the closeout of a task |
| `Restart` | the process dies and comes back with the table |

Two awaits of a handler are two actions, since the other handlers of the process come
between; `TurnEnds` and `Retire` are two because each of the two commits can be the last
one before a death. `dead` and `torn` are history: the sessions discarded while nothing
else was under way, and whether a process died between those commits.

### DiscordBridge

One agent's Discord client. A handler is a message with an event, post or edit; `hs[h]`
says where it stands and what the message said then. `OnMessage` and `OnMessageEdit` are
the dispatch (`on_message` and `on_message_edit` with `is_coordinator_handoff`, the human
and the bot routes); `AssignmentAccept`, `ReadBootstrap`, `WithBootstrap`, `Confirm` and
`SendBlocker` the gates of `coordinator_handoff.py`; `Submit`, `WaitForJob`, `PollFails`,
`RunProvider`, `Reply` and `FinalReport` the request itself. One action is one awaited call.
Coordinate is external: it records an assignment and makes one job per idempotency key, and
each call can fail before or after that.

### KookBridge

One KOOK channel. `Receive` is a message shown by the websocket (`Show`) or taken from the
page of the poll (`FetchPage`, `Item`): the test and the entry in the window of seen ids
(`Remember`), the recording, the search for a recent twin (`HasRecent`), and from there a
handling that ends with `SubmitAndReply` or `Raise`. `RestartKook` loses the window but
not the context store. That store is one file for all agents by default (`config.py:163`),
and the bridge of every agent records every message before its filters
(`kook/bot.py:185-199`): `RecordElsewhere` is a row another bridge writes first, which stays
as it is (`INSERT OR IGNORE`), `elsewhere` those rows, and `foreign` those of them whose text
the other bridge rendered differently, as it does when it knows other names
(`mentions.py:107-127`), so that a search for this bridge's words does not find them. The bridge itself
is taken to render two copies alike. `handled` and `dropped` count what happened to each id.

### MemoryWasher

`place` and `row` say in which table a message is and under which number; both tables number
by SQLite's rowid, one more than the largest present. `Save`, `ArchiveOld` and `ClearThread`
are the bot and its maintenance; a pass (`StartPass`, `NextSource`, `Fetch`, `PreFilter`,
`LlmFails`, `LlmAnswers`, `Route`, `SaveMark`) goes message by message and store by store and
can die anywhere (`PassDies`). `due` is what the last extraction of a message asked to store.

### WikiStore

One page name in the public and the private tier, as page and as draft, with the index of
each tier; and the log that `Ingest` copies new lines of discoveries into. An operation holds
the store's lock, so an action is a *prefix* of its file operations: `WritePage`,
`UpdatePage`, `Promote`, `Reject`, `UpdateIndex`, `RemoveMarker`, `Ingest`, each complete
or cut off after any of them (`Does`). What a page says is the set of contributions in it.

### MutationLock

One action is one system call of the helper on the *path*: `Mkdir`, `WriteTemp`,
`Link` (`os.replace`), `Unlink`, `Rmdir`, with their failures and the rollback
(`Undo`, `UndoUnlink`, `UndoRmdir`). Clients are runs of the deploy script or the
controller; operators run `recover`. Any process can be killed at any point and
started again. A refused command changes nothing and is no action; `status` is a
read. Not modelled: errors of the rollback's own calls, a reboot (which empties
`/run`), and the moment between a client's check and its next production call.
`OwnerStopped` is what `--confirm-owner-stopped` says, taken as true.

### ProductionController

One run id. `phase` is the phase file, `tail` the phase of the last ledger record,
`lock` and `token` the mutation lock and the token file, `ctl` where the process
stands. `Handlers[k + 1]` is the sequence of calls of the handler that leaves phase
`k`, `Suffix` the calls of `_execute_cleanup_suffix`, `Applies` its conditions.
`Work` and `CleanCall` make one call; `WorkFails` and `CleanFails` are the same call
refused, failed, or done with its answer lost; `Crash` kills the controller between
two calls. `AppendRecord` and `Write` are the two writes of `_transition_to`,
`CloseRecord` and `Close` those of the cleanup, `Release` and `Forget` the two halves
of `_release_lock`. Around it: units that claim, finish, fail and die; leases that
become due; other clients of the lock; an operator who recovers a lock or takes a
token file away.

Abstractions: `cmd_prepare` is the initial state; workspace and host profile, and all
verifications, matter by pass or fail; register and heartbeat are one call; J3's
attempts are told apart by the job status. A job takes 75 s and the controller polls
twice a second, so a job does not end before a controller that waits to see it
running has seen it (`Watched`). Coordinate refuses a catalog older than its own,
the deactivation of an unknown agent and of one with an open job.

### HarnessWorkflow

`disk` is the checklist last written, an entry per item, `pointer` the item that
`current/task_plan.md` names. A command is `Begin` (load, check, edit: one action per
`harnessctl` command, from `Assign` to `MarkDone`) with its edited copy in `work[p]`,
then `Truncate` and `Write` (the two halves of `write_text`, after the pointer was
cleared), and for start `PointAtItem`. Commands overlap without a lock and can be
`Killed` between two writes; a torn checklist stops every command. Whether a lease has
run out is an input of the command that asks. Two variables are history and no part of
the checklist, so that no command can overwrite them: `ruling[i]` is what became of the last
closeout request for `i`, in the order of the writes (asked, approved, or refused, which a
refusal makes it at any time), and `lost` holds the items of which a command has since
overwritten something it had not read (`Overtaken`). Not modelled:
packets and events (text that nothing reads back), sessions (they follow the owner),
the plan files, `mark-done` on an item that is done (it may add a verification text).

## 3. Runs

| run | instance | shows |
|---|---|---|
| `agentd_safety` | 2 workers, 2 jobs, 1 worktree, TTL 5, other timers 1, 2 attempts per job, no strays, symmetry of workers and jobs; 1,236,017 states | `WorktreeExclusion`, `LeaseOutlivesProvider`, `ReportFollowsJoin`, `ReleasedMeansStopped`, `OneHolderPerAttempt`, and `PromiseKept`, the refinement of ManagedExecution |
| `agentd_liveness` | 2 workers, 1 job, fair scheduling; process groups may survive SIGKILL and providers leave strays; 158,463 states | `RunningEnds`, `WorkerFreed`; `ReleasedMeansStopped` and `EvidenceStaysTrue` |
| `agentd_report_kills` | 1 worker, 1 job | a report whose CLI call fails ends the process (`LoopSurvivesCliFailure` violated) |
| `agentd_lost_reports` | same, process groups may survive SIGKILL | a renewal call fails in transport, the cancelled join raises, and the worker reports although its supervisor declared the lease lost (`LostLeaseIsSilent` violated) |
| `agentd_stale_evidence` | 2 workers, 1 job | a recovery worker uses the one confirmation it was started with for an attempt that expired later, and takes it over with the orphaned provider alive (`RecoveryFindsProviderStopped` violated) |
| `lock_safety` | 2 deploys, 1 controller, 1 operator, 4 tokens; 6,509 states | `MutualExclusion`, `InsideOwns`, `OwnTokenOnly`, `RecoveryAudited`, `NothingLeftBehind` |
| `lock_stale` | same | a killed helper leaves a directory no command accepts (`StaleLockRecoverable` violated) |
| `controller_safety` | one run, first or following an earlier one, 2 units, 5 jobs; 58,016 states | `LockCoversWork`, `PhaseIsLedgered`, `GivenBackDormant`, `SweepSucceedsWhenFit`, `UndisturbedRunEndsClean`, `RunEnds` |
| `controller_overtaken` | same | an undisturbed run fails because J5 overtakes the recovery of J3 (`UndisturbedRunPasses` violated) |
| `harness_safety` | 2 overlapping commands, 3 in all after a first closeout request, 2 items of which one depends on the other, 2 agents; 681,441 states | `LeaseFollowsOwner`, `WorkflowMatchesStatus`, `CloseRestsOnApproval` |
| `services_safety` | five programs, one at work at a time: 2 requests, 3 sessions, 2 attempts; 1 message and its edit; 3 KOOK posts of which two are one handoff, window and page of 2, 1 restart; 2 notes, batches of 2, 2 stores, 1 failed pass; 3 edits, 3 lines, 1 torn operation; 496,820 states | `OneResumable`, `DiscardSticks`, `NoFreshDuplicate`; `OneJobPerMessage`, `HandoffJobIsClaimed`, `HandlersEnd`; `KookHandledOnce`; `WatermarkSound`, `EveryMessageWashed`; `PageSurvives`, `IngestLosesNothing` |
| `harness_unowned` | the same from a new checklist | a decline or a handoff leaves an item doing without an owner (`DoingHasOwner` violated) |

Why the bounds are enough. In `agentd_safety` two workers and two jobs in one
worktree are the smallest instance in which exclusion can fail; two attempts per job
cover a job that is recovered, and a late worker of the attempt before. TTL 5 with
unit timers is the smallest instance of `SoundPolicy` (2 + 1 + 1 < 5); the theorems
take over for other values. `MaxTokens` 4 lets every client acquire once and one
again. The controller has no constants: its matrix and its phases are those of the
code. `harness_safety` begins when a first command has requested the closeout of one item
(`MCInit`), and three more follow: enough for an approval, a second request or a refusal after
it, and the closing, two of them overlapping, beside commands on the other item. The theorem
covers longer sequences, from the beginning.

`StraysPossible` is off in `agentd_safety`, whose properties speak of leaders and do not
mention `strays`; no guard but that of `StartRecovery` reads them, and a recovery worker that
starts later or never is part of that run. The run of the liveness has them.

`services_safety` checks five programs that share no variable. `part` in `MCServices` says
which one is at work, and the others stay in one initial state, so the state space is the sum
of the five and not their product. Two requests are what it takes to overlap, and two
attempts to recover a job; a third session is the one opened after a discard. One Discord
message is enough because the handlers of different messages meet in the session table only,
which is `Conversation`. Three posts overflow a window of two, and the two that are one handoff
can each be recorded by this bridge, or first by another in the same or in other words. Two notes make a row number
that is given out again and a pass with a message archived under it. Two of the three stores
of memories suffice, since a pass treats them alike: what matters is that one of them is written
and the next is not. Three edits are a page, a draft beside it and an update. Each of the limits
on failures, restarts and torn operations leaves all of them free in *where* they happen.
`CHECK_DEADLOCK FALSE` is set where the system really stops: in `services_safety` when the
messages, edits and attempts of the bounds are used up; for the lock, by the bound
on tokens and a stale lock, and for the harness, by the bound on commands and a torn
checklist.

The findings behind the violation runs are quoted in `PROJECT.json` with the
line of the repository that says otherwise. The most consequential is
`controller_overtaken`: the exact reap of J3 (`p9_3c1_controller.py:2193`) frees the
worktree while E2's unit polls every two seconds for the pending J5, and E1's recovery
unit is started only afterwards. When E2 is first, J3 is recovered after J5 has ended,
and the wait for J5, which must see three values of `renewed_at`, sees one and times
out. The tests do not meet this order because their fake Coordinate holds J5 back until
J3 is done.

## 4. Fairness

`AgentdWorker!FairSpec` assumes only what the scheduling gives: time passes (strong
fairness of `Tick`, which urgent steps disable for a while); calls, providers and joins
end within their timeouts, whatever the outcome; a runnable task is resumed; the reaper
timer fires. Crash, stop and restart are not fair: a worker may stay down for ever, and
a report may fail every time. `ProductionController!FairSpec` is weak fairness of the
controller's own steps: every subprocess has a time limit and every wait a deadline of
240 s. The lock has no liveness property: a client may stay inside as long as it likes.
`DiscordBridge!BridgeFairness` is weak fairness of each handler's own next step: a call of
the CLI is over after 30 s, a wait after the agent's timeout, a request to Discord by the
library's. Jobs are not fair: `HandlersEnd` holds although a job may never end.
`MemoryWasher!MemoryFairness` is weak fairness of the washer's next step, the start of a
pass included: there is one every day, and each call of the model returns or raises. It may
fail `MaxFailures` times; were failure the only answer for ever, no message would be washed.

## 5. Proofs

`AgentdWorkerProofs` proves, for any workers, jobs, worktrees and timers:

* `TypeCorrect`: types, and which phases hold a job (`PhaseInv`);
* `HolderCorrect`: `OneHolderPerAttempt`, from `TokenInv` (a held attempt was made, and
  no provider is of a later one), since every claim makes attempt N + 1;
* `ReleaseCorrect`: `ReleasedMeansStopped`, also where a process group survives SIGKILL, from
  `ReleaseInv` (what a holder still does once its lease is released, and that only a failure
  is ever reported of a provider whose leader is alive);
* `ReportCorrect`, assuming no process group survives SIGKILL: `ReportFollowsJoin`, from
  `JoinInv`;
* `ExclusionCorrect`, assuming `SoundPolicy` (2 CliTimeout + Nap + CancelGrace < TTL):
  `LeaseOutlivesProvider` and `WorktreeExclusion`. `TimingInv` bounds from below how much
  of the lease is left at each point of the renewal cycle; with that, a provider being
  cancelled is still under its lease, and Coordinate gives a worktree one lease. The
  production policy satisfies the inequality (30 + 30 + 30 + 6 < 120); the validator
  accepts some that do not;
* `EvidenceCorrect`, under the same assumption: `EvidenceStaysTrue`, from `EvidenceInv` (a
  confirmed attempt that is its job's latest has timed out) and `TimingInv` (whoever can
  still start or leave a process of a job has the lease of an attempt that is running).

It also proves `PromiseCorrect`, that `AgentdWorker` implements `ManagedExecution`, assuming
`SoundPolicy`. What the refinement needs is exclusion for a `Grant`, the life of a provider
under its lease for an attempt given up, and that a `Report` finds no supervised provider. The
proof adds that an active lease belongs to a running job.

`MutationLockProofs` proves, for any clients and number of tokens, `LockTypes`, and assuming
one operator at a time:

* `LockCorrect`: `MutualExclusion` and `InsideOwns`, from `LockInv`, which says what lies in
  the directory at each step of the one client whose directory it is;
* `OwnTokenCorrect`: `OwnTokenOnly`, since by `LockInv` what a process read of `owner.json`
  is still there when it unlinks it;
* `AuditCorrect`: `RecoveryAudited`, from `AuditInv` (an operator about to unlink has written
  its record);
* `CleanCorrect`: `NothingLeftBehind`, from `CleanInv`: as long as nobody is killed a lock
  directory has a client at work in it, so that no operator ever comes in.

`ConversationProofs` proves, for any requests, directories and bounds, types and

* `OneResumableCorrect`, from `TableInv`: as long as the legacy row is active every run under
  way resumes it, so nobody can be about to write the canonical row but on the way to
  retire the other;
* `DiscardCorrect`: `DiscardSticks`, from `SessionInv`: sessions are numbered in the order they
  are opened, so a new one is not among the dead; and a run that was alone still is;
* `RecoveryResumes`: `NoFreshDuplicate`, from `KnownInv` (a job whose session is known is
  resuming it or not running).

`BridgeProofs` proves, of the Discord bridge and for any number of messages, types, `OneJobCorrect`
(`OneJobPerMessage`, from `RequestInv`: each of the two keys of a message belongs to one way
of handling it) and `ClaimCorrect` (`HandoffJobIsClaimed`, from `ClaimInv`, which collects the
conditions gate by gate along the steps of the claim). Of the KOOK bridge it proves `KookTypes`
and `KookCorrect` (`KookHandledOnce`) for any window, page and number of posts, counting restarts,
from `KookInv`: a post of the life of the process that is not in the window has been dropped
from it as often as it was handled, and what was handled is recorded, here or elsewhere.

`StoreProofs` proves, of the wiki, `WikiTypes`, `PagesSurvive` (`PageSurvives`) for any number of contributions and of
operations that break off, from `PageInv`: what there is no file for has no text, and a page
that is found has an entry unless its loss is on record; and `IngestKeepsLines`
(`IngestLosesNothing`) for any number of lines, from `PassedInv` (the cursor is within the file
unless that was started anew) and `TimesInv` (a line the next ingest will read is in the log at
most as often as operations broke off), which count lines in a sequence that grows. Of the
washer it proves `MemoryTypes` and `WatermarkCorrect` (`WatermarkSound`), for any batch size and
number of messages, from `WasherInv`: row numbers within a table differ; what is at or below a
watermark, kept or on its way, is washed (or is a message whose row number was used before),
and what is at or below a row of the batch is that or in the batch itself; what a batch holds
may be stale, but then its message has gone or lies beyond the watermark of the archive; and
what is due of a washed message is stored. The batch is a set of rows, taken in their order, so
that the argument needs no sorting.

`ServicesProofs` proves `ServicesTypes` (`ServicesTypeOK`) of the run that checks the services:
each of its steps is a step of one of them (`RunOfParts`), so their own theorems apply. The services
share no variable in the models, so nothing is claimed of how they work together.

`ProductionControllerProofs` proves every safety property of the controller's run.

* `LockCorrect` (`LockCoversWork` is inductive: between the saved token and the release nobody
  else can take the lock) and `LedgerCorrect` (`PhaseIsLedgered`, from `LedgerInv`, which adds
  where phase file and ledger agree) leave the calls of the handlers unexpanded, so they hold
  for any handlers. The rest goes call by call.
* `ControllerTypes` (`TypeOK`): every call of a handler or of the suffix asks what its operation
  takes (`HandlersTyped`, `SuffixTyped`), and what a call does keeps the types (`EffectTypes`).
* `GivenBackDormantCorrect` (`GivenBackDormant`), from `DormantInv`: before the workspace is
  ready nothing has been touched; in quiesce and in the suffix each call that has been passed
  has stopped its unit, emptied its catalog or taken its agent offline, and nothing around the
  controller brings any of it back: a unit claims jobs only while it runs.
* `SweepCorrect` (`SweepSucceedsWhenFit`), from `FitInv`: what the later calls of the suffix
  need is still there when it comes to them, so that each is accepted (`FitAccepts`).
* `UndisturbedCorrect` (`UndisturbedRunEndsClean`), from `CalmInv`: four tables say, for each
  place in the handlers, what the calls passed so far have made of the jobs, the units, the
  catalogs and the agents. Every call but a wait is then accepted (`TableAccepts`); the one wait
  that can be in vain, for the renewals of a job that is done, leaves every job closed
  (`CalmFailure`), which is a state that the suffix can undo.

These inductive invariants were checked by TLC on the instance of `controller_safety` before they were
proved; since the controller has no constants, that instance is the whole model, and what the
proofs add is the reason.

`HarnessWorkflowProofs` proves, for any number of overlapping commands, items and agents,
types, `LeaseFollowsOwner`, `WorkflowMatchesStatus` and `CloseRestsOnApproval`, from
`HInv`: every entry is good on disk *and in every copy a running command holds*, since a
command may write long after it has read. For the last property `HInv` ties the checklist to
the history: an entry of which nothing was lost agrees with the ruling on its item
(`Answered`: a request that still shows has no answer, and the approval `mark-done` looks
for is the answer to the last request), and every command keeps that agreement between what
it has read and what it will write (`Answers`, `AnsweredAfter`). Without the history being apart from the entry
the property would hold also where a stale copy has erased a refusal.

Every safety property that a passing run checks is a theorem. Only model-checked is liveness,
since the prover has no ENABLED: `RunningEnds`, `WorkerFreed`, `RunEnds`, `HandlersEnd` and
`EveryMessageWashed`.

The assumptions on constants say what the code's configuration says of them: `WasherBounds`
(the batch is at least one row), `KookBounds` (window and page hold at least one id),
`WikiBounds` and the like; bounds that only keep TLC finite are natural numbers and nothing more.
No run checks `IndInv`, the conjunction of the invariants of `AgentdWorkerProofs`, nor the other
inductive invariants: each of them is proved.

## 6. Not claimed

* Exclusion is about *supervised* providers, and about the leader of the process group. An
  orphan of a killed worker under launchd, a provider that `claude.py:238-243` has not waited
  for, and a member of a group that outlives its leader can run beside the next job in the
  worktree. The first is why recovery asks for a confirmation; for the other two
  `ReleasedMeansStopped` and `ReportFollowsJoin` only say that such a leader is never that of a job reported
  as done or timed out. Nothing is claimed of `strays` but `EvidenceStaysTrue`.
* That a provider is gone by the lease deadline of its supervisor (TTL less the safety margin) is not
  claimed: while it is being cancelled it may run on for `CancelGrace`. `LeaseOutlivesProvider`
  says that it is gone before Coordinate gives the lease up.
* Two operators recovering the same lock at the same time can overlap; `LockCorrect`
  assumes one.
* A unit started but never recorded (a start cut off before its ledger line) survives the
  cleanup; `GivenBackDormant` speaks of recorded units.
* `cmd_cleanup` cannot acquire the lock while the token file of the failed run exists; the
  model has it so, and a cleanup happens only once the operator has retired the token.
* Harness commands that overlap lose updates, and two overlapping starts can both take an
  item; the properties say that what remains is consistent, not that nothing is lost. An item
  can be closed after a refusal if a command that overlaps writes the earlier approval back:
  `CloseRestsOnApproval` speaks of items of which nothing was overwritten unread since the
  last request or refusal. An approval also outlives work done after it, and a handoff target that only `accept`
  removes may decline later: the model has both.
* After a restart of the host `/run` is empty; the model keeps the lock directory.

What the properties of the service modules except, since the code does it:

* A reset or an archive is undone by a run under way: it upserts its session when it ends.
  `mark_stale` goes by scope, so a run whose resume failed can also stale a newer session that
  an overlapping run has written. `DiscardSticks` speaks of discards that met no other run.
* A death between the upsert of the canonical row and the retirement of the legacy one leaves
  both active. The Coordinate worker never retires the legacy row. `OneResumable` excepts both.
* A message that is edited is handled again by `on_message_edit`, outside the claim of a
  coordinator handoff, and under the other idempotency key: `OneJobPerMessage` excepts the
  edited coordinator message. The comment at `coordinator_handoff.py:92-94` has it otherwise.
* `_run_cli` raises where `submit_job` would return an error, so that the branch for it in the
  client is never reached, and a poll that fails leaves the placeholder message in place.
  An acceptance that Coordinate recorded while the CLI timed out is answered by a blocker.
* The KOOK window forgets the oldest ids: a message of a quiet channel that stays on the page
  is taken up again after 2000 others (`dropped`). An exception in the poll loop ends it until
  the next restart. A handoff that a bot repeats because the first one failed is taken for a
  twin. When another bridge has recorded both copies of a handoff before this one sees them,
  both are passed over and the handoff is taken up not at all; when it has recorded one in
  other words, both can be taken up. `KookHandledOnce` excepts both. Without agentd the bridge calls `self._adapter.ask` (`kook/bot.py:323`), which no adapter
  of `multinexus/adapters` defines, and answers with its failure text.
* Row numbers of `conversations` are given out again after archiving or clearing; messages
  saved under them lie below the watermark until they are archived (`reused`). A message on
  which the model always fails stops its table. Two messages of one thread with one timestamp
  are one row of the archive.
* A rejected draft takes the index entry of the published page with it (`unindexed`), and
  `update_page` lacks the test for the private tier that `write_page` has. An ingest that reads
  a half-written line counts it as read; the model writes lines whole.
* Archiving, clearing and reviewing have no caller in the repository, and neither has
  `WikiStore`: the models take their callers to be any order of calls.

### Not modelled

Envelope validation, the registry and the capacity authority are pure functions on documents:
the modules take their verdict as a choice. Provider adapters are pipes and output parsing,
beyond the process group that `AgentdWorker` has. The agents and the dispatcher of the legacy
front end keep no state and wait on model endpoints. Prompt text, embeds, chunking, mention
rewriting, configuration, logging, shell and launchd files are formatting or I/O. The tables of
`persistence/db.py` for jobs, workspaces, plans and schedules are single statements that nothing
in the repository calls, `recover_stale_jobs` among them.

## 7. Plan

Done: all modules above with their proofs. What is left, in this order:

1. `LeasePolicy` (`execution_lease.py` 20-399) as pure functions: which accepted policies
   satisfy `SoundPolicy`; the theorem `ExclusionCorrect` then speaks of the rest.
2. A mutex with recovery as an abstract specification, implemented by MutationLock.
3. The legacy unleased path of the worker and its capacity heartbeats; the event log and the
   state report of the harness.
