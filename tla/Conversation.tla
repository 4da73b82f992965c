---------------------------- MODULE Conversation ----------------------------
(***************************************************************************)
(* The provider sessions of one agent in one conversation, a channel or a  *)
(* task: which session a request resumes and what is left in the table of  *)
(* multinexus/sessions/store.py.  The same steps are taken by three        *)
(* programs, and by one of them only in an installation (mode):            *)
(*                                                                         *)
(*   direct  the Discord bridge without agentd: requests overlap, operators*)
(*           reset the conversation, the coordinator archives a task;      *)
(*   server  the HTTP agentd: a lock around the whole run;                 *)
(*   worker  the Coordinate agentd: one job at a time, sessions reported   *)
(*           with the progress, a lost attempt claimed again.              *)
(*                                                                         *)
(* Between two awaits the handlers of a process do not interleave, so an   *)
(* action is what happens from one await to the next.  The exception is the*)
(* end of a run: its two commits can be separated by the process dying.    *)
(***************************************************************************)
EXTENDS Naturals, FiniteSets

CONSTANTS
    Requests,      \* requests that can be under way together; or the jobs
    Dirs,          \* working directories; NoDir among them switches the test off
    NoDir,
    MaxSessions,   \* bound: sessions the provider opens
    MaxAttempts    \* bound: claims of one job

ASSUME ConversationBounds ==
    MaxSessions \in Nat \ {0} /\ MaxAttempts \in Nat \ {0}

VARIABLES
    mode,      \* which program runs the sessions
    isTask,    \* is the scope a task: no legacy scope, archived and not reset
    dir,       \* direct: the configured working directory
    rows,      \* the table: the row of the canonical and of the legacy scope
    runs,      \* runs[r]: how far the request in place r is, or job r
    opened,    \* sessions the provider has opened; they are numbered
    coord,     \* worker: the session Coordinate knows for job r
    torn,      \* history: a process died between the two commits of a run's end
    dead       \* history: sessions discarded with no other run involved

conversationVars == <<mode, isTask, dir, rows, runs, opened, coord, torn, dead>>

None == 0
Modes == {"direct", "server", "worker"}
Scopes == {"canonical", "legacy"}
Phases == {"idle", "resuming", "calling", "retiring", "done"}
InFlightPhases == {"resuming", "calling", "retiring"}

Rows == [status: {"none", "active", "stale", "archived"}, sid: Nat,
         dir: Dirs \cup {NoDir}]
Runs == [pc: Phases, found: Scopes \cup {"none", "recovery"}, sid: Nat,
         dir: Dirs \cup {NoDir}, known: Nat, attempts: Nat, alone: BOOLEAN]

ConversationTypeOK ==
    /\ mode \in Modes
    /\ isTask \in BOOLEAN
    /\ dir \in Dirs
    /\ rows \in [Scopes -> Rows]
    /\ runs \in [Requests -> Runs]
    /\ opened \in Nat
    /\ coord \in [Requests -> Nat]
    /\ torn \in BOOLEAN
    /\ dead \subseteq Nat

NoRow == [status |-> "none", sid |-> None, dir |-> NoDir]
IdleRun == [pc |-> "idle", found |-> "none", sid |-> None, dir |-> NoDir,
            known |-> None, attempts |-> 0, alone |-> TRUE]

(* An earlier version of the bridge may have left session 1 in the legacy  *)
(* scope of a channel.                                                     *)
ConversationInit ==
    /\ mode \in Modes
    /\ isTask \in BOOLEAN
    /\ dir \in Dirs
    /\ rows \in [Scopes -> {NoRow} \cup {[status |-> "active", sid |-> 1, dir |-> dir]}]
    /\ rows["canonical"] = NoRow
    /\ isTask => rows["legacy"] = NoRow
    /\ runs = [r \in Requests |-> IdleRun]
    /\ opened = 1
    /\ coord = [r \in Requests |-> None]
    /\ torn = FALSE
    /\ dead = {}

-----------------------------------------------------------------------------
(* The table *)

InFlight == {r \in Requests : runs[r].pc \in InFlightPhases}

(* A run between the two commits of its end: nothing comes in between, but *)
(* the death of the process.                                               *)
Retiring == {r \in Requests : runs[r].pc = "retiring"}

(* get_first_active over the canonical scope and then the legacy one. *)
FirstActive ==
    IF rows["canonical"].status = "active" THEN "canonical"
    ELSE IF rows["legacy"].status = "active" THEN "legacy" ELSE "none"

(* mark_stale and mark_archived: by scope, whatever session the row holds. *)
Marked(scope, status) ==
    IF rows[scope].status = "none" THEN rows
    ELSE [rows EXCEPT ![scope].status = status]

(* upsert: the canonical row is active again, whatever it was. *)
Upserted(s, d) ==
    [rows EXCEPT !["canonical"] = [status |-> "active", sid |-> s, dir |-> d]]

(* A known working directory that differs from that of the session. *)
Mismatch(scope, d) ==
    d # NoDir /\ rows[scope].dir # NoDir /\ d # rows[scope].dir

(* A session is discarded; that counts when no other run is involved. *)
Discards(s, alone) == dead' = IF alone THEN dead \cup {s} ELSE dead

Set(r, f) == runs' = [runs EXCEPT ![r] = f]

(* The run is over: its place is free for a later request, a job is done.  *)
Over(r) == Set(r, IF mode = "worker" THEN [IdleRun EXCEPT !.pc = "done"] ELSE IdleRun)

(* Run r starts as f; the runs under way are not alone any more. *)
Begin(r, f) ==
    runs' = [q \in Requests |->
               IF q = r THEN [f EXCEPT !.alone = InFlight = {}]
               ELSE [runs[q] EXCEPT !.alone = @ /\ q \notin InFlight]]

(* No two runs overlap in the server (its lock) and in the worker (its loop). *)
MayStart(r) ==
    /\ runs[r].pc = "idle"
    /\ mode # "direct" => InFlight = {}

(* The session that a provider turn reports: a new one, or none, when the  *)
(* turn is fresh; when it resumes s, also s.                               *)
Reported(s, new) == new \in {None, s} \/ (new = opened + 1 /\ opened < MaxSessions)
Opens(new) == opened' = IF new > opened THEN new ELSE opened

-----------------------------------------------------------------------------
(* A request starts *)

Started(r, found, s, d) ==
    [runs[r] EXCEPT !.pc = IF found = "none" THEN "calling" ELSE "resuming",
                    !.found = found, !.sid = s, !.dir = d]

(* The store has no session for the request, or one of another directory,  *)
(* which is marked stale.                                                  *)
(* Mutant of StartFresh: a session of another directory is only passed over.*)
StartFreshKeepsRow(r, d) ==
    /\ FirstActive # "none" => Mismatch(FirstActive, d)
    /\ IF FirstActive = "none" THEN UNCHANGED dead
       ELSE Discards(rows[FirstActive].sid, InFlight = {})
    /\ Begin(r, Started(r, "none", None, d))
    /\ UNCHANGED rows

StartFresh(r, d) ==
    /\ FirstActive # "none" => Mismatch(FirstActive, d)
    /\ IF FirstActive = "none" THEN UNCHANGED <<rows, dead>>
       ELSE /\ rows' = Marked(FirstActive, "stale")
            /\ Discards(rows[FirstActive].sid, InFlight = {})
    /\ Begin(r, Started(r, "none", None, d))

StartResume(r, d) ==
    /\ FirstActive # "none"
    /\ ~Mismatch(FirstActive, d)
    /\ Begin(r, Started(r, FirstActive, rows[FirstActive].sid, d))
    /\ UNCHANGED <<rows, dead>>

(* direct and server: the directory is the configured one, or the request's.*)
Handle(r) ==
    /\ mode # "worker"
    /\ MayStart(r)
    /\ \E d \in Dirs :
         /\ mode = "direct" => d = dir
         /\ StartFresh(r, d) \/ StartResume(r, d)
    /\ UNCHANGED <<mode, isTask, dir, opened, coord, torn>>

(* worker: a claim.  What Coordinate knows of the job's session comes with *)
(* it and decides; the row is still looked up and can be marked stale.     *)
Claimed(r, f) == [f EXCEPT !.known = coord[r], !.attempts = @ + 1]

(* Mutant of ClaimRecovery: a session in the table goes first. *)
ClaimRecoveryStoreFirst(r) ==
    /\ mode = "worker"
    /\ MayStart(r)
    /\ coord[r] # None
    /\ \E d \in Dirs :
         /\ Begin(r, Claimed(r, IF FirstActive # "none" /\ ~Mismatch(FirstActive, d)
                              THEN Started(r, FirstActive, rows[FirstActive].sid, d)
                              ELSE Started(r, "recovery", coord[r], d)))
         /\ rows' = IF FirstActive # "none" /\ Mismatch(FirstActive, d)
                    THEN Marked(FirstActive, "stale") ELSE rows
    /\ UNCHANGED <<mode, isTask, dir, opened, coord, torn, dead>>

ClaimRecovery(r) ==
    /\ mode = "worker"
    /\ MayStart(r)
    /\ coord[r] # None
    /\ \E d \in Dirs :
         /\ Begin(r, Claimed(r, Started(r, "recovery", coord[r], d)))
         /\ rows' = IF FirstActive # "none" /\ Mismatch(FirstActive, d)
                    THEN Marked(FirstActive, "stale") ELSE rows
    /\ UNCHANGED <<mode, isTask, dir, opened, coord, torn, dead>>

ClaimPlain(r) ==
    /\ mode = "worker"
    /\ MayStart(r)
    /\ coord[r] = None
    /\ \E d \in Dirs :
         \/ /\ FirstActive # "none" => Mismatch(FirstActive, d)
            /\ rows' = IF FirstActive = "none" THEN rows ELSE Marked(FirstActive, "stale")
            /\ Begin(r, Claimed(r, Started(r, "none", None, d)))
         \/ /\ FirstActive # "none"
            /\ ~Mismatch(FirstActive, d)
            /\ Begin(r, Claimed(r, Started(r, FirstActive, rows[FirstActive].sid, d)))
            /\ UNCHANGED rows
    /\ UNCHANGED <<mode, isTask, dir, opened, coord, torn, dead>>

-----------------------------------------------------------------------------
(* A provider turn ends *)

(* A resumed session answers with an error: what is in the scope it was    *)
(* found in goes stale, and the prompt goes to a fresh session.            *)
(* Mutant of ResumeError: the session is left active. *)
ResumeErrorKeepsRow(r) ==
    /\ runs[r].pc = "resuming"
    /\ runs[r].found # "recovery"
    /\ IF mode = "worker" THEN UNCHANGED dead ELSE Discards(runs[r].sid, runs[r].alone)
    /\ Set(r, [runs[r] EXCEPT !.pc = "calling", !.found = "none", !.sid = None])
    /\ UNCHANGED <<mode, isTask, dir, rows, opened, coord, torn>>

ResumeError(r) ==
    /\ runs[r].pc = "resuming"
    /\ runs[r].found # "recovery"
    /\ rows' = Marked(runs[r].found, "stale")
    /\ IF mode = "worker" THEN UNCHANGED dead ELSE Discards(runs[r].sid, runs[r].alone)
    /\ Set(r, [runs[r] EXCEPT !.pc = "calling", !.found = "none", !.sid = None])
    /\ UNCHANGED <<mode, isTask, dir, opened, coord, torn>>

(* direct and server: the result has a session, which becomes the canonical*)
(* one.  A session found in the legacy scope is retired by a second commit.*)
(* Mutant of TurnEnds: the session stays in the scope it was found in. *)
TurnEndsInPlace(r) ==
    /\ mode # "worker"
    /\ runs[r].pc \in {"resuming", "calling"}
    /\ \E new \in 0..MaxSessions :
         /\ Reported(runs[r].sid, new)
         /\ Opens(new)
         /\ rows' = IF new = None THEN rows ELSE Upserted(new, runs[r].dir)
         /\ Over(r)
    /\ UNCHANGED <<mode, isTask, dir, coord, torn, dead>>

TurnEnds(r) ==
    /\ mode # "worker"
    /\ runs[r].pc \in {"resuming", "calling"}
    /\ \E new \in 0..MaxSessions :
         /\ Reported(runs[r].sid, new)
         /\ Opens(new)
         /\ rows' = IF new = None THEN rows ELSE Upserted(new, runs[r].dir)
         /\ IF new # None /\ runs[r].found = "legacy"
            THEN Set(r, [runs[r] EXCEPT !.pc = "retiring"])
            ELSE Over(r)
    /\ UNCHANGED <<mode, isTask, dir, coord, torn, dead>>

Retire(r) ==
    /\ runs[r].pc = "retiring"
    /\ rows' = Marked("legacy", "stale")
    /\ Over(r)
    /\ UNCHANGED <<mode, isTask, dir, opened, coord, torn, dead>>

(* The adapter raises, or the server's time limit strikes: no session in   *)
(* the answer and the table as it is.                                      *)
TurnRaises(r) ==
    /\ runs[r].pc \in {"resuming", "calling"}
    /\ Over(r)
    /\ UNCHANGED <<mode, isTask, dir, rows, opened, coord, torn, dead>>

-----------------------------------------------------------------------------
(* worker: progress, report, loss of the attempt *)

(* The provider names its session while it works: into the table at once,  *)
(* to Coordinate by a task of its own (Record).                            *)
Progress(r) ==
    /\ mode = "worker"
    /\ runs[r].pc \in {"resuming", "calling"}
    /\ \E s \in 1..MaxSessions :
         /\ Reported(runs[r].sid, s)
         /\ Opens(s)
         /\ rows' = Upserted(s, runs[r].dir)
         /\ Set(r, [runs[r] EXCEPT !.sid = s])
    /\ UNCHANGED <<mode, isTask, dir, coord, torn, dead>>

Record(r) ==
    /\ mode = "worker"
    /\ runs[r].pc \in {"resuming", "calling"}
    /\ runs[r].sid # None
    /\ coord' = [coord EXCEPT ![r] = runs[r].sid]
    /\ UNCHANGED <<mode, isTask, dir, rows, runs, opened, torn, dead>>

OfferedAgain(r) ==
    /\ runs[r].attempts < MaxAttempts
    /\ Set(r, [IdleRun EXCEPT !.attempts = runs[r].attempts])

(* The turn is over and the job reported with its session.  After a timeout*)
(* Coordinate may offer the job again.  A recovery that fails reports the  *)
(* session it was given.                                                   *)
Report(r) ==
    /\ mode = "worker"
    /\ runs[r].pc \in {"resuming", "calling"}
    /\ \E s \in 0..MaxSessions :
         /\ Reported(runs[r].sid, s)
         /\ Opens(s)
         /\ rows' = IF s = None THEN rows ELSE Upserted(s, runs[r].dir)
         /\ coord' = [coord EXCEPT ![r] = IF s = None THEN @ ELSE s]
         /\ Over(r) \/ OfferedAgain(r)
    /\ UNCHANGED <<mode, isTask, dir, torn, dead>>

(* The lease is lost or the process dies: nothing is reported, and         *)
(* Coordinate offers the job again.                                        *)
LoseAttempt(r) ==
    /\ mode = "worker"
    /\ runs[r].pc \in {"resuming", "calling"}
    /\ OfferedAgain(r)
    /\ UNCHANGED <<mode, isTask, dir, rows, opened, coord, torn, dead>>

-----------------------------------------------------------------------------
(* Commands and restarts *)

(* /session reset, in a channel of the direct bridge. *)
Reset ==
    /\ mode = "direct"
    /\ ~isTask
    /\ FirstActive # "none"
    /\ rows' = Marked(FirstActive, "stale")
    /\ Discards(rows[FirstActive].sid, InFlight = {})
    /\ UNCHANGED <<mode, isTask, dir, runs, opened, coord, torn>>

(* A closeout notice of the coordinator archives the sessions of the task. *)
Archive ==
    /\ mode = "direct"
    /\ isTask
    /\ rows["canonical"].status \notin {"none", "archived"}
    /\ rows' = Marked("canonical", "archived")
    /\ Discards(rows["canonical"].sid, InFlight = {})
    /\ UNCHANGED <<mode, isTask, dir, runs, opened, coord, torn>>

(* The bridge or the server starts again: the requests it was working on   *)
(* are forgotten, and the configured directory can be another one.         *)
Restart ==
    /\ mode # "worker"
    /\ InFlight # {}
    /\ dir' \in Dirs
    /\ torn' = (torn \/ Retiring # {})
    /\ runs' = [r \in Requests |-> IdleRun]
    /\ UNCHANGED <<mode, isTask, rows, opened, coord, dead>>

ConversationStep(r) ==
    \/ Handle(r)
    \/ ClaimRecovery(r)
    \/ ClaimPlain(r)
    \/ ResumeError(r)
    \/ TurnEnds(r)
    \/ TurnRaises(r)
    \/ Progress(r)
    \/ Record(r)
    \/ Report(r)
    \/ LoseAttempt(r)

ConversationNext ==
    \/ Retiring = {} /\ \E r \in Requests : ConversationStep(r)
    \/ Retiring = {} /\ Reset
    \/ Retiring = {} /\ Archive
    \/ \E r \in Requests : Retire(r)
    \/ Restart

ConversationSpec == ConversationInit /\ [][ConversationNext]_conversationVars

-----------------------------------------------------------------------------
(* Properties *)

(* The bridge and the server never leave a conversation with two sessions  *)
(* that could be resumed, whatever order overlapping requests, resets and  *)
(* failed resumes come in; only a death between the two commits of a run's *)
(* end leaves both.                                                        *)
OneResumable ==
    mode # "worker" /\ ~torn /\ Retiring = {}
        => ~(\A c \in Scopes : rows[c].status = "active")

(* A session discarded with no other request under way - by a reset, a     *)
(* closeout, a change of directory, or a failed resume that overlapped no  *)
(* other run - is not resumed again and is never again the one the table   *)
(* offers.                                                                 *)
DiscardSticks ==
    mode # "worker" /\ ~torn =>
        /\ \A c \in Scopes : rows[c].status = "active" => rows[c].sid \notin dead
        /\ \A r \in Requests : runs[r].pc = "resuming" => runs[r].sid \notin dead

(* An attempt claimed when Coordinate knows a session of the job runs no   *)
(* fresh session: it resumes the one Coordinate knows, or fails.  And what *)
(* Coordinate has been told once it never forgets.                         *)
NoFreshDuplicate ==
    \A r \in Requests :
        runs[r].known # None => runs[r].pc # "calling" /\ coord[r] # None
=============================================================================
