---------------------------- MODULE MutationLock ----------------------------
(***************************************************************************)
(* The production mutation lock (scripts/production-mutation-lock.py): a   *)
(* directory made with mkdir and the file owner.json in it.  A client is a *)
(* run of deploy-server.sh or of the production controller, which acquires *)
(* the lock, changes production and releases it; an operator recovers the  *)
(* lock of a stopped client.                                               *)
(*                                                                         *)
(* One action is one system call of the helper, made on the path: nothing  *)
(* ties a call to the inode an earlier call has seen.  A call that finds   *)
(* the lock taken or the token wrong before it has changed anything leaves *)
(* the state alone and is not an action.  Everything runs as root.         *)
(***************************************************************************)
EXTENDS Naturals

CONSTANTS
    Clients,       \* runs of the deploy script and of the controller
    Controllers,   \* those of the controller, which the probes can see
    Operators,     \* people running recover
    MaxTokens      \* bound: tokens minted

ASSUME ProcessAssumption ==
    /\ Controllers \subseteq Clients
    /\ Clients \cap Operators = {}
ASSUME MaxTokensAssumption == MaxTokens \in Nat \ {0}

VARIABLES
    dir,       \* does the lock directory exist
    owner,     \* the token in owner.json, 0 when there is no such file
    temps,     \* the processes whose temporary owner file is in the directory
    minted,    \* tokens minted so far
    audit,     \* the tokens with an entry in the recovery audit
    pc,        \* pc[p]: where the helper run of p stands
    tok,       \* tok[p]: the token p was given or given out, 0 if none
    killed     \* history: has any process been killed inside the lock code

files == <<dir, owner, temps>>
vars == <<files, minted, audit, pc, tok, killed>>

Procs == Clients \cup Operators
Building == {"made", "named", "temp", "linked"}
Undoing == {"undo", "undo_unlink", "undo_rmdir"}
Removing == {"checked", "unlinked"}
Phase == {"idle", "inside", "probing", "dead"} \cup Building \cup Undoing
            \cup Removing

TypeOK ==
    /\ dir \in BOOLEAN
    /\ owner \in Nat
    /\ temps \subseteq Clients
    /\ minted \in Nat
    /\ audit \subseteq Nat
    /\ pc \in [Procs -> Phase]
    /\ tok \in [Procs -> Nat]
    /\ killed \in BOOLEAN

Init ==
    /\ dir = FALSE
    /\ owner = 0
    /\ temps = {}
    /\ minted = 0
    /\ audit = {}
    /\ pc = [p \in Procs |-> "idle"]
    /\ tok = [p \in Procs |-> 0]
    /\ killed = FALSE

(* _check_authority: the directory holds owner.json and nothing else.  Its *)
(* last call is the read of the token, and that is when it takes effect.   *)
ValidLock == dir /\ owner # 0 /\ temps = {}

GoTo(p, s) == pc' = [pc EXCEPT ![p] = s]

(* The helper run of p is over, and its token with it. *)
Leave(p) == GoTo(p, "idle") /\ tok' = [tok EXCEPT ![p] = 0]

(* rmdir takes an empty directory, and fails on any other. *)
RemoveDir == dir' = (dir /\ (owner # 0 \/ temps # {})) /\ UNCHANGED <<owner, temps>>

-----------------------------------------------------------------------------
(* acquire *)

(* Mutant of Mkdir: an existing directory is good enough (exist_ok). *)
MkdirExistOk(c) ==
    /\ pc[c] = "idle"
    /\ minted < MaxTokens
    /\ dir' = TRUE
    /\ GoTo(c, "made")
    /\ UNCHANGED <<owner, temps, minted, audit, tok, killed>>

(* mkdir decides: whoever makes the directory has the lock. *)
Mkdir(c) ==
    /\ pc[c] = "idle"
    /\ minted < MaxTokens
    /\ ~dir
    /\ dir' = TRUE
    /\ GoTo(c, "made")
    /\ UNCHANGED <<owner, temps, minted, audit, tok, killed>>

(* chown or chmod of the new directory fails: it is taken away again. *)
ChownFails(c) ==
    /\ pc[c] = "made"
    /\ RemoveDir
    /\ GoTo(c, "idle")
    /\ UNCHANGED <<minted, audit, tok, killed>>

Mint(c) ==
    /\ pc[c] = "made"
    /\ dir
    /\ minted' = minted + 1
    /\ tok' = [tok EXCEPT ![c] = minted + 1]
    /\ GoTo(c, "named")
    /\ UNCHANGED <<files, audit, killed>>

(* Mutant of WriteTemp: a phase of its own. *)
WriteTempElsewhere(c) ==
    /\ pc[c] = "named"
    /\ temps' = temps \cup {c}
    /\ GoTo(c, "written")
    /\ UNCHANGED <<dir, owner, minted, audit, tok, killed>>

(* _write_owner: a temporary file beside owner.json is written and synced. *)
WriteTemp(c) ==
    /\ pc[c] = "named"
    /\ IF dir THEN temps' = temps \cup {c} /\ GoTo(c, "temp")
              ELSE UNCHANGED temps /\ GoTo(c, "undo")
    /\ UNCHANGED <<dir, owner, minted, audit, tok, killed>>

(* Writing or syncing the temporary file fails: it is unlinked. *)
WriteFails(c) ==
    /\ pc[c] = "temp"
    /\ temps' = temps \ {c}
    /\ GoTo(c, "undo")
    /\ UNCHANGED <<dir, owner, minted, audit, tok, killed>>

(* os.replace gives the file its name. *)
Link(c) ==
    /\ pc[c] = "temp"
    /\ temps' = temps \ {c}
    /\ owner' = tok[c]
    /\ GoTo(c, "linked")
    /\ UNCHANGED <<dir, minted, audit, tok, killed>>

(* The sync of the directory fails: owner.json is there already. *)
SyncFails(c) ==
    /\ pc[c] = "linked"
    /\ GoTo(c, "undo")
    /\ UNCHANGED <<files, minted, audit, tok, killed>>

(* The token goes to stdout and the client works under the lock. *)
Acquired(c) ==
    /\ pc[c] = "linked"
    /\ GoTo(c, "inside")
    /\ UNCHANGED <<files, minted, audit, tok, killed>>

(* Mutant of Undo: only a directory without owner.json is cleaned up. *)
UndoEmptyOnly(c) ==
    /\ pc[c] = "undo"
    /\ IF dir /\ temps = {} /\ owner = 0
         THEN GoTo(c, "undo_unlink") /\ UNCHANGED tok
         ELSE Leave(c)
    /\ UNCHANGED <<files, minted, audit, killed>>

(* The failed acquire lists the directory: with an entry it does not know  *)
(* it leaves everything as it is.                                          *)
Undo(c) ==
    /\ pc[c] = "undo"
    /\ IF dir /\ temps = {} THEN GoTo(c, "undo_unlink") /\ UNCHANGED tok
                            ELSE Leave(c)
    /\ UNCHANGED <<files, minted, audit, killed>>

UndoUnlink(c) ==
    /\ pc[c] = "undo_unlink"
    /\ owner' = 0
    /\ GoTo(c, "undo_rmdir")
    /\ UNCHANGED <<dir, temps, minted, audit, tok, killed>>

UndoRmdir(c) ==
    /\ pc[c] = "undo_rmdir"
    /\ RemoveDir
    /\ Leave(c)
    /\ UNCHANGED <<minted, audit, killed>>

-----------------------------------------------------------------------------
(* release, and the removal it shares with recover *)

(* release reads the token again; anything but its own keeps the lock, and *)
(* the client stops with an error.                                         *)
ReleaseCheck(c) ==
    /\ pc[c] = "inside"
    /\ GoTo(c, IF ValidLock /\ owner = tok[c] THEN "checked" ELSE "dead")
    /\ UNCHANGED <<files, minted, audit, tok, killed>>

(* unlink of owner.json, whoever wrote it. *)
Unlink(p) ==
    /\ pc[p] = "checked"
    /\ owner' = 0
    /\ GoTo(p, IF owner # 0 THEN "unlinked" ELSE "dead")
    /\ UNCHANGED <<dir, temps, minted, audit, tok, killed>>

Rmdir(p) ==
    /\ pc[p] = "unlinked"
    /\ RemoveDir
    /\ Leave(p)
    /\ UNCHANGED <<minted, audit, killed>>

-----------------------------------------------------------------------------
(* recover *)

(* The operator has seen the owner of token t stopped, and says so. *)
OwnerStopped(t) == \A c \in Clients : tok[c] = t => pc[c] = "dead"

(* Mutant of RecoverCheck: the token is not compared. *)
RecoverCheckAnyToken(o) ==
    /\ pc[o] = "idle"
    /\ ValidLock
    /\ \E t \in 1..minted :
          /\ OwnerStopped(t)
          /\ tok' = [tok EXCEPT ![o] = t]
    /\ GoTo(o, "probing")
    /\ UNCHANGED <<files, minted, audit, killed>>

(* Mutant of RecoverCheck: --confirm-owner-stopped is not asked for. *)
RecoverCheckUnconfirmed(o) ==
    /\ pc[o] = "idle"
    /\ ValidLock
    /\ tok' = [tok EXCEPT ![o] = owner]
    /\ GoTo(o, "probing")
    /\ UNCHANGED <<files, minted, audit, killed>>

(* recover: the lock is valid and its token the one the operator gives. *)
RecoverCheck(o) ==
    /\ pc[o] = "idle"
    /\ ValidLock
    /\ \E t \in 1..minted :
          /\ OwnerStopped(t)
          /\ owner = t
          /\ tok' = [tok EXCEPT ![o] = t]
    /\ GoTo(o, "probing")
    /\ UNCHANGED <<files, minted, audit, killed>>

(* A probe sees a controller or a fixture unit, or cannot tell; or the     *)
(* audit entry cannot be made durable.  The lock stays.                    *)
RecoverBlocked(o) ==
    /\ pc[o] = "probing"
    /\ audit' \in {audit, audit \cup {tok[o]}}
    /\ Leave(o)
    /\ UNCHANGED <<files, minted, killed>>

(* Mutant of Audited: the audit entry is left for later. *)
AuditedLater(o) ==
    /\ pc[o] = "probing"
    /\ \A c \in Controllers : pc[c] \in {"idle", "dead"}
    /\ GoTo(o, "checked")
    /\ UNCHANGED <<files, minted, audit, tok, killed>>

(* No controller is running, and the audit entry is written and synced. *)
Audited(o) ==
    /\ pc[o] = "probing"
    /\ \A c \in Controllers : pc[c] \in {"idle", "dead"}
    /\ audit' = audit \cup {tok[o]}
    /\ GoTo(o, "checked")
    /\ UNCHANGED <<files, minted, tok, killed>>

-----------------------------------------------------------------------------
(* Crashes *)

(* SIGKILL or a lost host: what is in the directory stays there. *)
Kill(p) ==
    /\ pc[p] \notin {"idle", "dead"}
    /\ GoTo(p, "dead")
    /\ killed' = TRUE
    /\ UNCHANGED <<files, minted, audit, tok>>

(* A stopped client or operator starts afresh, without a token. *)
Restart(p) ==
    /\ pc[p] = "dead"
    /\ Leave(p)
    /\ UNCHANGED <<files, minted, audit, killed>>

ClientStep(c) ==
    \/ Mkdir(c) \/ ChownFails(c) \/ Mint(c)
    \/ WriteTemp(c) \/ WriteFails(c) \/ Link(c) \/ SyncFails(c) \/ Acquired(c)
    \/ Undo(c) \/ UndoUnlink(c) \/ UndoRmdir(c)
    \/ ReleaseCheck(c)

OperatorStep(o) == RecoverCheck(o) \/ RecoverBlocked(o) \/ Audited(o)

Next ==
    \/ \E c \in Clients : ClientStep(c)
    \/ \E o \in Operators : OperatorStep(o)
    \/ \E p \in Procs : Unlink(p) \/ Rmdir(p) \/ Kill(p) \/ Restart(p)

Spec == Init /\ [][Next]_vars

-----------------------------------------------------------------------------
(* Properties *)

(* A client between the printed token and its own unlink really has the    *)
(* lock: nobody has taken it away behind its back.                         *)
InsideOwns ==
    \A c \in Clients :
        pc[c] \in {"inside", "checked"} => ValidLock /\ owner = tok[c]

(* "Two concurrent acquires: exactly one success" (p0 bootstrap 6.4), and  *)
(* recover lets nobody in beside a client that is still at work.           *)
MutualExclusion ==
    \A c, d \in Clients :
        pc[c] = "inside" /\ pc[d] \in {"inside"} \cup Removing => c = d

(* owner.json is only ever unlinked by a process that was given the token  *)
(* in it (production-mutation-lock.py:836, 905, 1179), although the unlink*)
(* itself looks at nothing but the path.                                   *)
OwnTokenOnly ==
    [][owner # 0 /\ owner' # owner =>
          \E p \in Procs : tok[p] = owner /\ pc'[p] # pc[p]]_vars

(* No lock of a stopped client disappears without its audit entry.         *)
RecoveryAudited ==
    [][\A c \in Clients :
          pc[c] = "dead" /\ tok[c] # 0 /\ owner = tok[c] /\ owner' = 0
             => owner \in audit]_vars

(* Unless a process was killed, a failed acquire leaves nothing behind:    *)
(* once no helper is running the directory is gone, or a client is inside  *)
(* (p0 bootstrap 6.4, own partial authority).                              *)
NothingLeftBehind ==
    ~killed /\ dir /\ (\A p \in Procs : pc[p] \in {"idle", "inside", "dead"})
        => \E c \in Clients : pc[c] = "inside" /\ tok[c] = owner

(* "SIGKILL or a lost host connection may leave a stale lock, which the    *)
(* status/recover path has to deal with" (p0 bootstrap 7.4): whenever no   *)
(* helper is running, a lock that is there is one recover accepts.         *)
StaleLockRecoverable ==
    dir /\ (\A p \in Procs : pc[p] \in {"idle", "inside", "dead"}) => ValidLock

-----------------------------------------------------------------------------
(* The invariant the proofs rest on *)

(* The client whose directory it is: it made it and has not removed it yet.*)
Busy(c) == pc[c] \in Building \cup Undoing \cup Removing \cup {"inside"}

(* What lies in the directory at each step of the client that made it.     *)
ClientInv ==
    \A c \in Clients :
        /\ pc[c] # "probing"
        /\ pc[c] = "idle" => tok[c] = 0
        /\ Busy(c) => dir
        /\ pc[c] \in {"made", "named", "undo_rmdir", "unlinked"} =>
              owner = 0 /\ temps = {}
        /\ pc[c] = "temp" => owner = 0 /\ temps = {c}
        /\ pc[c] \in {"linked", "inside", "checked"} =>
              owner = tok[c] /\ temps = {}
        /\ pc[c] \in {"undo", "undo_unlink"} => owner \in {0, tok[c]} /\ temps = {}
        /\ pc[c] = "made" => tok[c] = 0
        /\ Busy(c) /\ pc[c] # "made" => tok[c] # 0

(* What an operator's recover relies on: the token it was given stays that *)
(* of the lock, and its client stays stopped.                              *)
OperatorInv ==
    \A o \in Operators :
        /\ pc[o] \in {"idle", "probing", "dead"} \cup Removing
        /\ pc[o] \in {"probing", "checked"} =>
              ValidLock /\ owner = tok[o] /\ OwnerStopped(tok[o])
        /\ pc[o] = "unlinked" =>
              /\ dir /\ owner = 0 /\ temps = {}
              /\ \A c \in Clients : ~Busy(c)

TokenInv ==
    /\ owner \in 0..minted
    /\ \A p \in Procs : tok[p] \in 0..minted
    /\ \A c, d \in Clients : tok[c] = tok[d] /\ tok[c] # 0 => c = d

(* One directory, one client at work in it; tokens are never shared; the   *)
(* contents of the directory follow that client's step.                    *)
LockInv ==
    /\ ClientInv
    /\ OperatorInv
    /\ TokenInv
    /\ ~dir => owner = 0 /\ temps = {}
    /\ \A c, d \in Clients : Busy(c) /\ Busy(d) => c = d

=============================================================================
