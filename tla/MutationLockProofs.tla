------------------------- MODULE MutationLockProofs -------------------------
(***************************************************************************)
(* Theorems about the production mutation lock, for every number of        *)
(* clients and tokens, and at most one person recovering at a time.        *)
(***************************************************************************)
EXTENDS MutationLock, TLAPS

(* Two people never run recover at a time.  The helper does not enforce it.*)
OneOperator == \A o, q \in Operators : o = q

LEMMA TypeInit == Init => TypeOK
<1>1. "idle" \in Phase
  BY DEF Phase
<1>2. Init => pc \in [Procs -> Phase]
  BY <1>1 DEF Init
<1>3. Init => tok \in [Procs -> Nat]
  BY DEF Init
<1>4. Init => /\ dir \in BOOLEAN /\ killed \in BOOLEAN
               /\ temps \subseteq Clients /\ audit \subseteq Nat
  BY DEF Init
<1>5. Init => owner \in Nat /\ minted \in Nat
  BY DEF Init
<1>. QED BY <1>2, <1>3, <1>4, <1>5 DEF TypeOK

LEMMA TypeNext == TypeOK /\ [Next]_vars => TypeOK'
<1> SUFFICES ASSUME TypeOK, [Next]_vars PROVE TypeOK'
  OBVIOUS
<1> USE DEF TypeOK, Phase, Building, Undoing, Removing, Procs, files, GoTo, Leave,
        RemoveDir
<1>1. ASSUME NEW c \in Clients, ClientStep(c) PROVE TypeOK'
  <2>1. CASE Mkdir(c) BY <2>1 DEF Mkdir
  <2>2. CASE ChownFails(c) BY <2>2 DEF ChownFails
  <2>3. CASE Mint(c) BY <2>3 DEF Mint
  <2>4. CASE WriteTemp(c) BY <2>4 DEF WriteTemp
  <2>5. CASE WriteFails(c) BY <2>5 DEF WriteFails
  <2>6. CASE Link(c) BY <2>6 DEF Link
  <2>7. CASE SyncFails(c) BY <2>7 DEF SyncFails
  <2>8. CASE Acquired(c) BY <2>8 DEF Acquired
  <2>9. CASE Undo(c) BY <2>9 DEF Undo
  <2>10. CASE UndoUnlink(c) BY <2>10 DEF UndoUnlink
  <2>11. CASE UndoRmdir(c) BY <2>11 DEF UndoRmdir
  <2>12. CASE ReleaseCheck(c) BY <2>12 DEF ReleaseCheck
  <2>. QED BY <1>1, <2>1, <2>2, <2>3, <2>4, <2>5, <2>6, <2>7, <2>8, <2>9, <2>10, <2>11, <2>12
         DEF ClientStep
<1>2. ASSUME NEW o \in Operators, OperatorStep(o) PROVE TypeOK'
  <2>1. CASE RecoverCheck(o) BY <2>1 DEF RecoverCheck
  <2>2. CASE RecoverBlocked(o) BY <2>2 DEF RecoverBlocked
  <2>3. CASE Audited(o) BY <2>3 DEF Audited
  <2>. QED BY <1>2, <2>1, <2>2, <2>3 DEF OperatorStep
<1>3. ASSUME NEW p \in Procs, Unlink(p) \/ Rmdir(p) \/ Kill(p) \/ Restart(p)
      PROVE  TypeOK'
  <2>1. CASE Unlink(p) BY <2>1 DEF Unlink
  <2>2. CASE Rmdir(p) BY <2>2 DEF Rmdir
  <2>3. CASE Kill(p) BY <2>3 DEF Kill
  <2>4. CASE Restart(p) BY <2>4 DEF Restart
  <2>. QED BY <1>3, <2>1, <2>2, <2>3, <2>4
<1>4. CASE UNCHANGED vars
  BY <1>4 DEF vars
<1>. QED BY <1>1, <1>2, <1>3, <1>4 DEF Next

LEMMA LockInit == Init => LockInv
BY ProcessAssumption DEF Init, LockInv, ClientInv, OperatorInv, TokenInv, Busy, Procs, Building,
       Undoing, Removing

(* A client at work in the directory leaves no operator anything to do.    *)
LEMMA BusyAlone ==
    ASSUME TypeOK, LockInv, NEW c \in Clients, Busy(c), NEW o \in Operators
    PROVE  pc[o] \in {"idle", "dead"}
BY DEF TypeOK, LockInv, ClientInv, OperatorInv, ValidLock, OwnerStopped, Busy,
       Building, Undoing, Removing

LEMMA ClientNext ==
    ASSUME TypeOK, LockInv, NEW c \in Clients,
           ClientStep(c) \/ Unlink(c) \/ Rmdir(c) \/ Kill(c) \/ Restart(c)
    PROVE  LockInv'
<1> USE ProcessAssumption
    DEF TypeOK, LockInv, ClientInv, OperatorInv, TokenInv, Busy, ValidLock,
        OwnerStopped, Procs, Building, Undoing, Removing, files, GoTo, Leave,
        RemoveDir
<1>1. CASE Mkdir(c) BY <1>1 DEF Mkdir
<1>2. CASE ChownFails(c) BY <1>2, BusyAlone DEF ChownFails
<1>3. CASE Mint(c) BY <1>3, BusyAlone DEF Mint
<1>4. CASE WriteTemp(c) BY <1>4, BusyAlone DEF WriteTemp
<1>5. CASE WriteFails(c) BY <1>5, BusyAlone DEF WriteFails
<1>6. CASE Link(c) BY <1>6, BusyAlone DEF Link
<1>7. CASE SyncFails(c) BY <1>7, BusyAlone DEF SyncFails
<1>8. CASE Acquired(c) BY <1>8, BusyAlone DEF Acquired
<1>9. CASE Undo(c) BY <1>9, BusyAlone DEF Undo
<1>10. CASE UndoUnlink(c) BY <1>10, BusyAlone DEF UndoUnlink
<1>11. CASE UndoRmdir(c) BY <1>11, BusyAlone DEF UndoRmdir
<1>12. CASE ReleaseCheck(c) BY <1>12, BusyAlone DEF ReleaseCheck
<1>13. CASE Unlink(c) BY <1>13, BusyAlone DEF Unlink
<1>14. CASE Rmdir(c) BY <1>14, BusyAlone DEF Rmdir
<1>15. CASE Kill(c) BY <1>15 DEF Kill
<1>16. CASE Restart(c) BY <1>16 DEF Restart
<1>. QED BY <1>1, <1>2, <1>3, <1>4, <1>5, <1>6, <1>7, <1>8, <1>9, <1>10,
            <1>11, <1>12, <1>13, <1>14, <1>15, <1>16 DEF ClientStep

LEMMA OperatorNext ==
    ASSUME TypeOK, LockInv, OneOperator, NEW o \in Operators,
           OperatorStep(o) \/ Unlink(o) \/ Rmdir(o) \/ Kill(o) \/ Restart(o)
    PROVE  LockInv'
<1> USE ProcessAssumption
    DEF TypeOK, LockInv, ClientInv, OperatorInv, TokenInv, Busy, ValidLock,
        OwnerStopped, Procs, Building, Undoing, Removing, files, GoTo, Leave,
        RemoveDir, OneOperator
<1>1. CASE RecoverCheck(o) BY <1>1 DEF RecoverCheck
<1>2. CASE RecoverBlocked(o) BY <1>2 DEF RecoverBlocked
<1>3. CASE Audited(o) BY <1>3 DEF Audited
<1>4. CASE Unlink(o) BY <1>4, BusyAlone DEF Unlink
<1>5. CASE Rmdir(o) BY <1>5, BusyAlone DEF Rmdir
<1>6. CASE Kill(o) BY <1>6 DEF Kill
<1>7. CASE Restart(o) BY <1>7 DEF Restart
<1>. QED BY <1>1, <1>2, <1>3, <1>4, <1>5, <1>6, <1>7 DEF OperatorStep

LEMMA LockNext ==
    ASSUME OneOperator
    PROVE  TypeOK /\ LockInv /\ [Next]_vars => LockInv'
<1> SUFFICES ASSUME TypeOK, LockInv, [Next]_vars PROVE LockInv'
  OBVIOUS
<1>1. ASSUME NEW c \in Clients,
             ClientStep(c) \/ Unlink(c) \/ Rmdir(c) \/ Kill(c) \/ Restart(c)
      PROVE  LockInv'
  BY <1>1, ClientNext
<1>2. ASSUME NEW o \in Operators,
             OperatorStep(o) \/ Unlink(o) \/ Rmdir(o) \/ Kill(o) \/ Restart(o)
      PROVE  LockInv'
  BY <1>2, OperatorNext
<1>3. CASE UNCHANGED vars
  BY <1>3 DEF vars, files, LockInv, ClientInv, OperatorInv, TokenInv, Busy,
              ValidLock, OwnerStopped
<1>. QED BY <1>1, <1>2, <1>3 DEF Next, Procs

LEMMA LockAlways ==
    ASSUME OneOperator
    PROVE  Spec => [](TypeOK /\ LockInv)
BY TypeInit, TypeNext, LockInit, LockNext, PTL DEF Spec

(* While a client believes it has the lock it has it, and it is alone,     *)
(* whoever is killed and whatever fails on the way                         *)
(* (production-mutation-lock.py:752-847, 870-921, 1104-1193).              *)
THEOREM LockCorrect ==
    ASSUME OneOperator
    PROVE  Spec => [](InsideOwns /\ MutualExclusion)
<1>1. TypeOK /\ LockInv => InsideOwns /\ MutualExclusion
  BY DEF TypeOK, LockInv, ClientInv, TokenInv, InsideOwns, MutualExclusion, Busy,
         ValidLock, Removing, Procs
<1>. QED BY <1>1, LockAlways, PTL

(* Types, for any number of operators at once.                             *)
THEOREM LockTypes == Spec => []TypeOK
BY TypeInit, TypeNext, PTL DEF Spec

(* OwnTokenOnly: although unlink looks at nothing but the path, the process*)
(* that takes owner.json away was given the token in it                    *)
(* (production-mutation-lock.py:836, 905, 1179).                           *)
THEOREM OwnTokenCorrect ==
    ASSUME OneOperator
    PROVE  Spec => OwnTokenOnly
<1>1. TypeOK /\ LockInv /\ [Next]_vars =>
        [owner # 0 /\ owner' # owner => \E p \in Procs : tok[p] = owner /\ pc'[p] # pc[p]]_vars
  <2> SUFFICES ASSUME TypeOK, LockInv, Next, owner # 0, owner' # owner
               PROVE  \E p \in Procs : tok[p] = owner /\ pc'[p] # pc[p]
    BY DEF vars, files
  <2> USE DEF files, GoTo, Leave, RemoveDir, Procs
  <2>1. ASSUME NEW c \in Clients, ClientStep(c) PROVE UndoUnlink(c)
    <3>1. ~Link(c)
      BY DEF Link, LockInv, ClientInv
    <3>. QED BY <2>1, <3>1 DEF ClientStep, Mkdir, ChownFails, Mint, WriteTemp, WriteFails, SyncFails,
                               Acquired, Undo, UndoRmdir, ReleaseCheck
  <2>2. ASSUME NEW c \in Clients, UndoUnlink(c) PROVE tok[c] = owner /\ pc'[c] # pc[c]
    BY <2>2 DEF UndoUnlink, LockInv, ClientInv, TypeOK
  <2>3. ASSUME NEW o \in Operators, OperatorStep(o) PROVE FALSE
    BY <2>3 DEF OperatorStep, RecoverCheck, RecoverBlocked, Audited
  <2>4. ASSUME NEW p \in Procs, Rmdir(p) \/ Kill(p) \/ Restart(p) PROVE FALSE
    BY <2>4 DEF Rmdir, Kill, Restart
  <2>5. ASSUME NEW p \in Procs, Unlink(p) PROVE tok[p] = owner /\ pc'[p] # pc[p]
    <3>1. tok[p] = owner
      BY <2>5 DEF Unlink, LockInv, ClientInv, OperatorInv
    <3>. QED BY <2>5, <3>1 DEF Unlink, TypeOK
  <2>. QED BY <2>1, <2>2, <2>3, <2>4, <2>5 DEF Next
<1>. QED BY <1>1, LockAlways, PTL DEF Spec, OwnTokenOnly

-----------------------------------------------------------------------------
(* An operator about to remove a lock has written its audit entry. *)
AuditInv == \A o \in Operators : pc[o] = "checked" => tok[o] \in audit

LEMMA AuditNext == TypeOK /\ AuditInv /\ [Next]_vars => AuditInv'
<1> SUFFICES ASSUME TypeOK, AuditInv, [Next]_vars, NEW o \in Operators, pc'[o] = "checked"
             PROVE  tok'[o] \in audit'
  BY DEF AuditInv
<1> USE ProcessAssumption DEF TypeOK, AuditInv, Procs, files, GoTo, Leave, RemoveDir
<1>1. ASSUME NEW c \in Clients, ClientStep(c) PROVE tok'[o] \in audit'
  <2>1. c # o
    OBVIOUS
  <2>2. pc'[o] = pc[o] /\ tok'[o] = tok[o] /\ audit' = audit
    BY <1>1, <2>1 DEF ClientStep, Mkdir, ChownFails, Mint, WriteTemp, WriteFails, Link, SyncFails,
                      Acquired, Undo, UndoUnlink, UndoRmdir, ReleaseCheck
  <2>. QED BY <2>2
<1>2. ASSUME NEW q \in Operators, OperatorStep(q) PROVE tok'[o] \in audit'
  BY <1>2 DEF OperatorStep, RecoverCheck, RecoverBlocked, Audited
<1>3. ASSUME NEW p \in Procs, Unlink(p) \/ Rmdir(p) \/ Kill(p) \/ Restart(p) PROVE tok'[o] \in audit'
  BY <1>3 DEF Unlink, Rmdir, Kill, Restart
<1>4. CASE UNCHANGED vars
  BY <1>4 DEF vars
<1>. QED BY <1>1, <1>2, <1>3, <1>4 DEF Next

(* RecoveryAudited: the lock of a stopped client goes only after its entry *)
(* is in the audit (production-mutation-lock.py:1104-1193).                *)
THEOREM AuditCorrect ==
    ASSUME OneOperator
    PROVE  Spec => RecoveryAudited
<1>1. Init => AuditInv
  BY DEF Init, AuditInv, Procs
<1>2. TypeOK /\ LockInv /\ AuditInv /\ [Next]_vars =>
        [\A c \in Clients : pc[c] = "dead" /\ tok[c] # 0 /\ owner = tok[c] /\ owner' = 0
                               => owner \in audit]_vars
  <2> SUFFICES ASSUME TypeOK, LockInv, AuditInv, Next, NEW c \in Clients,
                      pc[c] = "dead", tok[c] # 0, owner = tok[c], owner' = 0
               PROVE  owner \in audit
    BY DEF vars, files
  <2> USE DEF files, GoTo, Leave, RemoveDir, Procs
  <2>1. ASSUME NEW d \in Clients, tok[d] = owner PROVE d = c
    BY <2>1 DEF LockInv, TokenInv
  <2>2. ASSUME NEW d \in Clients, ClientStep(d) PROVE FALSE
    <3>1. pc[d] \in {"temp", "undo_unlink"}
      BY <2>2 DEF ClientStep, Mkdir, ChownFails, Mint, WriteTemp, WriteFails, Link, SyncFails,
                  Acquired, Undo, UndoUnlink, UndoRmdir, ReleaseCheck, LockInv, TokenInv
    <3>. QED BY <2>1, <3>1 DEF LockInv, ClientInv
  <2>3. ASSUME NEW o \in Operators, OperatorStep(o) PROVE FALSE
    BY <2>3 DEF OperatorStep, RecoverCheck, RecoverBlocked, Audited
  <2>4. ASSUME NEW p \in Procs, Rmdir(p) \/ Kill(p) \/ Restart(p) PROVE FALSE
    BY <2>4 DEF Rmdir, Kill, Restart
  <2>5. ASSUME NEW d \in Clients, Unlink(d) PROVE FALSE
    BY <2>1, <2>5 DEF Unlink, LockInv, ClientInv
  <2>6. ASSUME NEW o \in Operators, Unlink(o) PROVE owner \in audit
    BY <2>6 DEF Unlink, LockInv, OperatorInv, AuditInv
  <2>. QED BY <2>2, <2>3, <2>4, <2>5, <2>6 DEF Next
<1>. QED BY <1>1, <1>2, LockAlways, AuditNext, PTL DEF Spec, RecoveryAudited

-----------------------------------------------------------------------------
(* As long as no process is killed a lock directory has a client at work in*)
(* it, and so nobody finds a stopped owner to recover from.                *)
CleanInv ==
    ~killed =>
        /\ \A p \in Procs : pc[p] # "dead"
        /\ \A o \in Operators : pc[o] = "idle"
        /\ dir => \E c \in Clients : Busy(c)

LEMMA CleanClient ==
    ASSUME TypeOK, LockInv, CleanInv, NEW c \in Clients, ~killed',
           ClientStep(c) \/ Unlink(c) \/ Rmdir(c)
    PROVE  /\ \A p \in Procs : pc'[p] # "dead"
           /\ \A o \in Operators : pc'[o] = "idle"
           /\ dir' => Busy(c)'
<1> USE ProcessAssumption
    DEF TypeOK, LockInv, ClientInv, CleanInv, Busy, ValidLock,
        Procs, Building, Undoing, Removing, files, GoTo, Leave, RemoveDir
<1>1. CASE Mkdir(c) BY <1>1 DEF Mkdir
<1>2. CASE ChownFails(c) BY <1>2 DEF ChownFails
<1>3. CASE Mint(c) BY <1>3 DEF Mint
<1>4. CASE WriteTemp(c) BY <1>4 DEF WriteTemp
<1>5. CASE WriteFails(c) BY <1>5 DEF WriteFails
<1>6. CASE Link(c) BY <1>6 DEF Link
<1>7. CASE SyncFails(c) BY <1>7 DEF SyncFails
<1>8. CASE Acquired(c) BY <1>8 DEF Acquired
<1>9. CASE Undo(c) BY <1>9 DEF Undo
<1>10. CASE UndoUnlink(c) BY <1>10 DEF UndoUnlink
<1>11. CASE UndoRmdir(c) BY <1>11 DEF UndoRmdir
<1>12. CASE ReleaseCheck(c) BY <1>12 DEF ReleaseCheck
<1>13. CASE Unlink(c) BY <1>13 DEF Unlink
<1>14. CASE Rmdir(c) BY <1>14 DEF Rmdir
<1>. QED BY <1>1, <1>2, <1>3, <1>4, <1>5, <1>6, <1>7, <1>8, <1>9, <1>10,
            <1>11, <1>12, <1>13, <1>14 DEF ClientStep

LEMMA CleanNext == TypeOK /\ LockInv /\ CleanInv /\ [Next]_vars => CleanInv'
<1> SUFFICES ASSUME TypeOK, LockInv, CleanInv, [Next]_vars, ~killed'
             PROVE  /\ \A p \in Procs : pc'[p] # "dead"
                    /\ \A o \in Operators : pc'[o] = "idle"
                    /\ dir' => \E c \in Clients : Busy(c)'
  BY DEF CleanInv
<1>1. CASE UNCHANGED vars
  BY <1>1 DEF vars, files, CleanInv, Busy
<1>2. ASSUME NEW p \in Procs, Kill(p) PROVE FALSE
  BY <1>2 DEF Kill
<1>3. CASE Next
  <2>1. ~killed
    <3>1. ASSUME NEW c \in Clients, ClientStep(c) PROVE killed' = killed
      BY <3>1 DEF ClientStep, Mkdir, ChownFails, Mint, WriteTemp, WriteFails, Link, SyncFails,
                  Acquired, Undo, UndoUnlink, UndoRmdir, ReleaseCheck
    <3>2. ASSUME NEW o \in Operators, OperatorStep(o) PROVE killed' = killed
      BY <3>2 DEF OperatorStep, RecoverCheck, RecoverBlocked, Audited
    <3>3. ASSUME NEW p \in Procs, Unlink(p) \/ Rmdir(p) \/ Restart(p) PROVE killed' = killed
      BY <3>3 DEF Unlink, Rmdir, Restart
    <3>. QED BY <1>2, <1>3, <3>1, <3>2, <3>3 DEF Next
  <2>2. /\ \A p \in Procs : pc[p] # "dead"
        /\ \A o \in Operators : pc[o] = "idle"
        /\ dir => \E c \in Clients : Busy(c)
    BY <2>1 DEF CleanInv
  <2>3. ASSUME NEW o \in Operators, OperatorStep(o) PROVE FALSE
    <3>1. RecoverCheck(o)
      BY <2>2, <2>3 DEF OperatorStep, RecoverBlocked, Audited
    <3>2. ValidLock /\ OwnerStopped(owner)
      BY <3>1 DEF RecoverCheck
    <3>3. PICK c \in Clients : Busy(c)
      BY <2>2, <3>2 DEF ValidLock
    <3>4. owner = tok[c]
      BY <3>2, <3>3 DEF LockInv, ClientInv, Busy, Building, Undoing, Removing, ValidLock
    <3>. QED BY <2>2, <3>2, <3>4 DEF OwnerStopped, Procs
  <2>4. ASSUME NEW p \in Procs, Restart(p) PROVE FALSE
    BY <2>2, <2>4 DEF Restart
  <2>5. ASSUME NEW o \in Operators, Unlink(o) \/ Rmdir(o) PROVE FALSE
    BY <2>2, <2>5 DEF Unlink, Rmdir
  <2>6. \E c \in Clients : ClientStep(c) \/ Unlink(c) \/ Rmdir(c)
    BY <1>2, <1>3, <2>3, <2>4, <2>5 DEF Next, Procs
  <2>. QED BY <2>6, CleanClient
<1>. QED BY <1>1, <1>3

(* NothingLeftBehind: a failed acquire takes away what it made, at whatever*)
(* call it fails (production-mutation-lock.py:752-847).                    *)
THEOREM CleanCorrect ==
    ASSUME OneOperator
    PROVE  Spec => []NothingLeftBehind
<1>1. Init => CleanInv
  BY DEF Init, CleanInv, Procs
<1>2. TypeOK /\ LockInv /\ CleanInv => NothingLeftBehind
  <2> SUFFICES ASSUME TypeOK, LockInv, CleanInv, ~killed, dir,
                      \A p \in Procs : pc[p] \in {"idle", "inside", "dead"}
               PROVE  \E c \in Clients : pc[c] = "inside" /\ tok[c] = owner
    BY DEF NothingLeftBehind
  <2>1. PICK c \in Clients : Busy(c)
    BY DEF CleanInv
  <2>2. pc[c] = "inside"
    BY <2>1 DEF Busy, Building, Undoing, Removing, Procs
  <2>. QED BY <2>2 DEF LockInv, ClientInv
<1>. QED BY <1>1, <1>2, LockAlways, CleanNext, PTL DEF Spec
=============================================================================
