--------------------- MODULE ProductionControllerProofs ---------------------
(***************************************************************************)
(* The controller works under the lock, and its ledger is never behind its *)
(* phase file: neither depends on what the calls of a handler do, and those*)
(* two proofs leave the calls unexpanded.  The rest go call by call: the   *)
(* types; what is dormant when the lock is given back; why a cleanup that  *)
(* can succeed does; and what an undisturbed run finds at every place of   *)
(* its handlers.                                                           *)
(***************************************************************************)
EXTENDS ProductionController, TLAPS

-----------------------------------------------------------------------------
(* Whatever happens to the controller, to its calls and around it, it is   *)
(* never at work without the mutation lock: from the saved token to the    *)
(* release nobody else takes the lock, and recover sees the controller.    *)
THEOREM LockCorrect == Spec => []LockCoversWork
<1>1. Init => LockCoversWork
  BY DEF Init, LockCoversWork
<1>2. LockCoversWork /\ [Next]_vars => LockCoversWork'
  <2> SUFFICES ASSUME LockCoversWork, [Next]_vars
               PROVE  LockCoversWork'
    OBVIOUS
  <2> USE DEF LockCoversWork, Control, GoTo, files, locks, process
  <2>1. CASE Run
    BY <2>1 DEF Run
  <2>2. CASE Cleanup
    BY <2>2 DEF Cleanup
  <2>3. CASE Acquire
    BY <2>3 DEF Acquire
  <2>4. CASE AcquireFails
    BY <2>4 DEF AcquireFails
  <2>5. CASE SaveToken
    BY <2>5 DEF SaveToken
  <2>6. CASE SaveTokenFails
    BY <2>6 DEF SaveTokenFails
  <2>7. CASE Check
    BY <2>7 DEF Check
  <2>8. CASE CheckFails
    BY <2>8 DEF CheckFails, Raise
  <2>9. CASE Work
    BY <2>9 DEF Work
  <2>10. CASE WorkFails
    BY <2>10 DEF WorkFails, Raise
  <2>11. CASE AppendRecord
    BY <2>11 DEF AppendRecord
  <2>12. CASE AppendRecordFails
    BY <2>12 DEF AppendRecordFails, Raise
  <2>13. CASE Write
    BY <2>13 DEF Write
  <2>14. CASE WriteFails
    BY <2>14 DEF WriteFails
  <2>15. CASE RecordFailure
    BY <2>15 DEF RecordFailure
  <2>16. CASE RecordFailureFails
    BY <2>16 DEF RecordFailureFails
  <2>17. CASE Sweep
    BY <2>17 DEF Sweep
  <2>18. CASE SweepFails
    BY <2>18 DEF SweepFails
  <2>19. CASE CleanCall
    BY <2>19 DEF CleanCall
  <2>20. CASE CleanFails
    BY <2>20 DEF CleanFails
  <2>21. CASE CloseRecord
    BY <2>21 DEF CloseRecord
  <2>22. CASE CloseRecordFails
    BY <2>22 DEF CloseRecordFails
  <2>23. CASE Close
    BY <2>23 DEF Close
  <2>24. CASE CloseFails
    BY <2>24 DEF CloseFails
  <2>25. CASE Release
    BY <2>25 DEF Release
  <2>26. CASE ReleaseFails
    BY <2>26 DEF ReleaseFails
  <2>27. CASE Forget
    BY <2>27 DEF Forget
  <2>28. CASE ForgetFails
    BY <2>28 DEF ForgetFails
  <2>29. CASE Crash
    BY <2>29 DEF Crash
  <2>30. CASE \E j \in Labels : Claim(j) \/ Finish(j) \/ JobFails(j) \/ LeaseDue(j)
    BY <2>30 DEF Claim, Finish, JobFails, LeaseDue, JobIs
  <2>31. CASE \E a \in Agents : UnitDies(a)
    BY <2>31 DEF UnitDies
  <2>32. CASE OtherAcquire
    BY <2>32 DEF OtherAcquire
  <2>33. CASE OtherRelease
    BY <2>33 DEF OtherRelease
  <2>34. CASE RecoverLock
    BY <2>34 DEF RecoverLock
  <2>35. CASE RetireToken
    BY <2>35 DEF RetireToken
  <2>36. CASE UNCHANGED vars
    BY <2>36 DEF vars
  <2>37. QED
    BY <2>1, <2>2, <2>3, <2>4, <2>5, <2>6, <2>7, <2>8, <2>9, <2>10,
       <2>11, <2>12, <2>13, <2>14, <2>15, <2>16, <2>17, <2>18, <2>19,
       <2>20, <2>21, <2>22, <2>23, <2>24, <2>25, <2>26, <2>27, <2>28,
       <2>29, <2>30, <2>31, <2>32, <2>33, <2>34, <2>35, <2>36 DEF Next,
       Step, Around
<1>3. QED
  BY <1>1, <1>2, PTL DEF Spec

-----------------------------------------------------------------------------
(* Why the ledger is never behind: a command starts with both in agreement *)
(* (no run was made yet, or the cleanup rewrites the tail), and only the   *)
(* two writes of a transition and of the closing take them apart.          *)
LedgerInv ==
    /\ phase \in Int
    /\ PhaseIsLedgered
    /\ ~auth => ctl = "down" /\ phase = Sealed /\ tail = Sealed
    /\ ctl \in {"acquire", "save"} /\ mode = "run" => tail = phase
    /\ ctl \in {"check", "work"} => tail = phase
    /\ ctl = "write" => tail = phase + 1
    /\ ctl = "close" => tail = Done

(* Through every failure and crash the ledger has at least the phase the   *)
(* phase file shows, at most one more, or the end of the cleanup           *)
(* (_transition_to writes the ledger first).                               *)
THEOREM LedgerCorrect == Spec => []PhaseIsLedgered
<1>1. Init => LedgerInv
  BY DEF Init, LedgerInv, PhaseIsLedgered, Sealed, Done
<1>2. LedgerInv /\ [Next]_vars => LedgerInv'
  <2> SUFFICES ASSUME LedgerInv, [Next]_vars
               PROVE  LedgerInv'
    OBVIOUS
  <2> USE DEF LedgerInv, PhaseIsLedgered, GoTo, files, process, Done, Sealed
  <2>1. CASE Run
    BY <2>1 DEF Run
  <2>2. CASE Cleanup
    BY <2>2 DEF Cleanup, WorkspaceReady
  <2>3. CASE Acquire
    BY <2>3 DEF Acquire
  <2>4. CASE AcquireFails
    BY <2>4 DEF AcquireFails
  <2>5. CASE SaveToken
    BY <2>5 DEF SaveToken
  <2>6. CASE SaveTokenFails
    BY <2>6 DEF SaveTokenFails
  <2>7. CASE Check
    BY <2>7 DEF Check
  <2>8. CASE CheckFails
    BY <2>8 DEF CheckFails, Raise
  <2>9. CASE Work
    BY <2>9 DEF Work
  <2>10. CASE WorkFails
    BY <2>10 DEF WorkFails, Raise
  <2>11. CASE AppendRecord
    BY <2>11 DEF AppendRecord
  <2>12. CASE AppendRecordFails
    BY <2>12 DEF AppendRecordFails, Raise
  <2>13. CASE Write
    BY <2>13 DEF Write
  <2>14. CASE WriteFails
    <3>1. tail' = tail /\ auth' = auth /\ tail = phase + 1
      BY <2>14 DEF WriteFails
    <3>2. phase' = phase \/ phase' = phase + 1
      BY <2>14, <3>1 DEF WriteFails
    <3>3. ctl' \notin {"down", "acquire", "save", "check", "work", "write", "close"}
      BY <2>14 DEF WriteFails
    <3>4. auth
      BY <2>14 DEF WriteFails
    <3>5. QED
      BY <3>1, <3>2, <3>3, <3>4
  <2>15. CASE RecordFailure
    BY <2>15 DEF RecordFailure
  <2>16. CASE RecordFailureFails
    BY <2>16 DEF RecordFailureFails
  <2>17. CASE Sweep
    BY <2>17 DEF Sweep
  <2>18. CASE SweepFails
    BY <2>18 DEF SweepFails
  <2>19. CASE CleanCall
    BY <2>19 DEF CleanCall
  <2>20. CASE CleanFails
    BY <2>20 DEF CleanFails
  <2>21. CASE CloseRecord
    BY <2>21 DEF CloseRecord
  <2>22. CASE CloseRecordFails
    BY <2>22 DEF CloseRecordFails
  <2>23. CASE Close
    BY <2>23 DEF Close
  <2>24. CASE CloseFails
    BY <2>24 DEF CloseFails
  <2>25. CASE Release
    BY <2>25 DEF Release
  <2>26. CASE ReleaseFails
    BY <2>26 DEF ReleaseFails
  <2>27. CASE Forget
    BY <2>27 DEF Forget
  <2>28. CASE ForgetFails
    BY <2>28 DEF ForgetFails
  <2>29. CASE Crash
    BY <2>29 DEF Crash
  <2>30. CASE \E j \in Labels : Claim(j) \/ Finish(j) \/ JobFails(j) \/ LeaseDue(j)
    BY <2>30 DEF Claim, Finish, JobFails, LeaseDue, JobIs
  <2>31. CASE \E a \in Agents : UnitDies(a)
    BY <2>31 DEF UnitDies
  <2>32. CASE OtherAcquire
    BY <2>32 DEF OtherAcquire
  <2>33. CASE OtherRelease
    BY <2>33 DEF OtherRelease
  <2>34. CASE RecoverLock
    BY <2>34 DEF RecoverLock
  <2>35. CASE RetireToken
    BY <2>35 DEF RetireToken
  <2>36. CASE UNCHANGED vars
    BY <2>36 DEF vars
  <2>37. QED
    BY <2>1, <2>2, <2>3, <2>4, <2>5, <2>6, <2>7, <2>8, <2>9, <2>10,
       <2>11, <2>12, <2>13, <2>14, <2>15, <2>16, <2>17, <2>18, <2>19,
       <2>20, <2>21, <2>22, <2>23, <2>24, <2>25, <2>26, <2>27, <2>28,
       <2>29, <2>30, <2>31, <2>32, <2>33, <2>34, <2>35, <2>36 DEF Next,
       Step, Around
<1>3. LedgerInv => PhaseIsLedgered
  BY DEF LedgerInv
<1>4. QED
  BY <1>1, <1>2, <1>3, PTL DEF Spec

-----------------------------------------------------------------------------
(* The calls of the matrix, one by one.                                    *)
LEMMA MatrixCalls ==
    /\ Len(Matrix) = 26
    /\ Matrix[1] = Call("render", 0) /\ Matrix[2] = Call("start", "e1")
    /\ Matrix[3] = Call("submit", 1) /\ Matrix[4] = Call("held", 1) /\ Matrix[5] = Call("await", 1)
    /\ Matrix[6] = Call("submit", 2) /\ Matrix[7] = Call("held", 2) /\ Matrix[8] = Call("await", 2)
    /\ Matrix[9] = Call("submit", 3) /\ Matrix[10] = Call("held", 3)
    /\ Matrix[11] = Call("submit", 4) /\ Matrix[12] = Call("submit", 5)
    /\ Matrix[13] = Call("start", "e2") /\ Matrix[14] = Call("overlap", 0) /\ Matrix[15] = Call("await", 4)
    /\ Matrix[16] = Call("blocked", 5) /\ Matrix[17] = Call("stop", "e1")
    /\ Matrix[18] = Call("expiry", 3) /\ Matrix[19] = Call("reap", 3) /\ Matrix[20] = Call("start", "e1")
    /\ Matrix[21] = Call("held", 3) /\ Matrix[22] = Call("read", 0) /\ Matrix[23] = Call("report", 3)
    /\ Matrix[24] = Call("held", 5) /\ Matrix[25] = Call("await", 5) /\ Matrix[26] = Call("read", 0)
BY DEF Matrix

(* The handlers, one by one.                                               *)
LEMMA HandlerCalls ==
    /\ Handlers[1] = << Call("read", 0) >>
    /\ Handlers[2] = << >>
    /\ Handlers[3] = << Call("read", 0) >>
    /\ Handlers[4] = << Call("read", 0) >>
    /\ Handlers[5] = << Call("register", "e1"), Call("register", "e2") >>
    /\ Handlers[6] = << Call("executor", 1) >>
    /\ Handlers[7] = << Call("capacity", 1) >>
    /\ Handlers[8] = << Call("executor", 2) >>
    /\ Handlers[9] = Matrix
    /\ Handlers[10] = << Call("read", 0) >>
    /\ Handlers[11] = << >>
    /\ Handlers[12] = Quiesce
    /\ Handlers[13] = << Call("executor", 3) >>
    /\ Handlers[14] = << Call("capacity", 2) >>
    /\ Handlers[15] = << Call("executor", 4) >>
    /\ Handlers[16] = Offline
    /\ Handlers[17] = << Call("read", 0) >>
    /\ Handlers[18] = << Call("final", 0) >>
BY DEF Handlers

(* The calls of the suffix, one by one.                                    *)
LEMMA SuffixCalls ==
    /\ Len(Suffix) = 11
    /\ Suffix[1] = Call("stop", "e1") /\ Suffix[2] = Call("stop", "e2")
    /\ Suffix[3] = Call("clean", "e1") /\ Suffix[4] = Call("clean", "e2")
    /\ Suffix[5] = Call("gate", 0)
    /\ Suffix[6] = Call("executor", 3) /\ Suffix[7] = Call("capacity", 2) /\ Suffix[8] = Call("executor", 4)
    /\ Suffix[9] = Call("deactivate", "e1") /\ Suffix[10] = Call("deactivate", "e2")
    /\ Suffix[11] = Call("read", 0)
BY DEF Suffix, Quiesce, Offline

Typed(c) ==
    /\ c.op \in {"start", "stop", "clean", "register", "deactivate"} => c.arg \in Agents
    /\ c.op = "executor" => c.arg \in 0..4
    /\ c.op = "capacity" => c.arg \in 0..2
    /\ c.op \in {"submit", "reap", "report"} => c.arg \in Labels

AllTyped(s) == Len(s) \in Nat /\ \A i \in 1..Len(s) : Typed(s[i])

(* The handlers and the suffix ask only what their operations take.        *)
LEMMA HandlersTyped == \A k \in 0..17 : AllTyped(Handlers[k + 1])
<1>1. AllTyped(<<>>)
  BY DEF AllTyped
<1>2. \A c : Typed(c) => AllTyped(<<c>>)
  BY DEF AllTyped
<1>3. \A c, d : Typed(c) /\ Typed(d) => AllTyped(<<c, d>>)
  BY DEF AllTyped
<1>4. /\ Typed(Call("read", 0)) /\ Typed(Call("final", 0))
      /\ \A n \in 1..4 : Typed(Call("executor", n))
      /\ \A n \in 1..2 : Typed(Call("capacity", n))
      /\ \A a \in Agents : Typed(Call("register", a)) /\ Typed(Call("deactivate", a))
  BY DEF Typed, Call
<1>5. AllTyped(Matrix)
  <2>1. \A i \in 1..26 : Typed(Matrix[i])
    BY DEF Matrix, Typed, Call, Agents, Labels
  <2>. QED BY <2>1, MatrixCalls DEF AllTyped
<1>6. AllTyped(Quiesce) /\ AllTyped(Offline)
  BY DEF AllTyped, Typed, Call, Agents, Quiesce, Offline
<1>7. \A k \in 1..18 : AllTyped(Handlers[k])
  <2>. HIDE DEF AllTyped
  <2>1. AllTyped(Handlers[1]) /\ AllTyped(Handlers[2]) /\ AllTyped(Handlers[3]) /\ AllTyped(Handlers[4])
    BY <1>1, <1>2, <1>4, HandlerCalls
  <2>2. AllTyped(Handlers[5]) /\ AllTyped(Handlers[6]) /\ AllTyped(Handlers[7]) /\ AllTyped(Handlers[8])
    BY <1>2, <1>3, <1>4, HandlerCalls DEF Agents
  <2>3. AllTyped(Handlers[9]) /\ AllTyped(Handlers[10]) /\ AllTyped(Handlers[11]) /\ AllTyped(Handlers[12])
    BY <1>1, <1>2, <1>4, <1>5, <1>6, HandlerCalls
  <2>4. AllTyped(Handlers[13]) /\ AllTyped(Handlers[14]) /\ AllTyped(Handlers[15]) /\ AllTyped(Handlers[16])
    BY <1>2, <1>4, <1>6, HandlerCalls
  <2>5. AllTyped(Handlers[17]) /\ AllTyped(Handlers[18])
    BY <1>2, <1>4, HandlerCalls
  <2>. QED BY <2>1, <2>2, <2>3, <2>4, <2>5
<1>. QED BY <1>7

LEMMA SuffixTyped == \A i \in 1..Len(Suffix) : Typed(Suffix[i])
BY SuffixCalls DEF Typed, Call, Agents, Labels

WorldType ==
    /\ exec \in 0..4 /\ cap \in 0..2
    /\ agent \in [Agents -> {"absent", "online", "offline"}]
    /\ running \subseteq Agents /\ recorded \subseteq Agents
    /\ proof \subseteq Agents /\ cleaned \subseteq Agents
    /\ defined \in BOOLEAN
    /\ job \in [Labels -> JobStatus] /\ ledgered \subseteq Labels

(* A typed call, answered or not, keeps what others hold typed.            *)
LEMMA EffectTypes ==
    ASSUME WorldType, NEW c, Typed(c), NEW answered, Effect(c, answered) \/ UNCHANGED world
    PROVE  WorldType'
<1>. USE DEF world, catalogs, units, jobs
<1>1. CASE UNCHANGED world
  BY <1>1 DEF WorldType
<1>2. CASE UnitCall(c, answered)
  <2>. USE <1>2 DEF UnitCall, Typed, WorldType
  <2>1. CASE Render(c)
    BY <2>1 DEF Render
  <2>2. CASE Start(c, answered)
    BY <2>2 DEF Start
  <2>3. CASE Stop(c, answered)
    BY <2>3 DEF Stop
  <2>4. CASE Clean(c, answered)
    BY <2>4 DEF Clean
  <2>. QED BY <2>1, <2>2, <2>3, <2>4
<1>3. CASE CoordinateCall(c, answered)
  <2>. USE <1>3 DEF CoordinateCall, Typed, WorldType
  <2>1. CASE SetAgent(c)
    BY <2>1 DEF SetAgent
  <2>2. CASE Sync(c)
    BY <2>2 DEF Sync
  <2>3. CASE Submit(c, answered)
    BY <2>3 DEF Submit, JobStatus
  <2>4. CASE ReapOrReport(c)
    BY <2>4 DEF ReapOrReport, JobStatus
  <2>. QED BY <2>1, <2>2, <2>3, <2>4
<1>. QED BY <1>1, <1>2, <1>3 DEF Effect

(* A call is typed when its argument is of the kind its operation takes.   *)
ControlType ==
    /\ phase \in Phases /\ tail \in Phases /\ auth \in BOOLEAN
    /\ lock \in {"free", "mine", "other"} /\ token \in BOOLEAN
    /\ ctl \in Control /\ mode \in {"run", "cleanup"} /\ step \in Nat \ {0}
    /\ earlier \in BOOLEAN /\ fault \in BOOLEAN /\ fit \in BOOLEAN
    /\ ctl \in {"check", "work", "write"} => phase # Done /\ mode = "run"
    /\ ctl = "work" => step <= Len(Handler) + 1
    /\ ctl = "clean" => step <= Len(Suffix) + 1
    /\ ctl \in {"acquire", "save"} /\ mode = "run" => phase = Sealed
    /\ ctl = "write" => tail = phase + 1

(* The inductive form of TypeOK: a run is sealed until its lock is taken,  *)
(* and what is about to be written follows the phase file.                 *)
TypeInv == ControlType /\ WorldType

(* So is the call the controller stands at.                                *)
LEMMA HandlerTyped ==
    ASSUME ControlType, ctl = "work"
    PROVE  /\ Len(Handler) \in Nat /\ \A i \in 1..Len(Handler) : Typed(Handler[i])
<1>1. phase \in 0..17
  BY DEF ControlType, Phases, Done
<1>. QED BY <1>1, HandlersTyped DEF Handler, AllTyped

(* The controller's own state keeps its types.                             *)
LEMMA ControlTypeNext ==
    ControlType /\ [Next]_vars => ControlType'
<1>. SUFFICES ASSUME ControlType, [Next]_vars PROVE ControlType'
  OBVIOUS
<1>. USE DEF ControlType, GoTo, Control, Faulted, files, locks, process, history, Phases, Done,
         Sealed
<1>h. phase' = phase => Handler' = Handler
  BY DEF Handler
<1>1. CASE Run
  BY <1>h, <1>1 DEF Run
<1>2. CASE Cleanup
  BY <1>h, <1>2 DEF Cleanup
<1>3. CASE Acquire
  BY <1>h, <1>3 DEF Acquire
<1>4. CASE AcquireFails
  BY <1>h, <1>4 DEF AcquireFails
<1>5. CASE SaveToken
  <2>1. phase = Sealed => phase \in 0..17
    OBVIOUS
  <2>2. mode = "run" => Len(Handlers[phase + 1]) \in Nat
    BY <1>h, <1>5, <2>1, HandlersTyped DEF SaveToken, AllTyped
  <2>. QED BY <1>h, <1>5, <2>2, SuffixCalls DEF SaveToken, Handler
<1>6. CASE SaveTokenFails
  BY <1>h, <1>6 DEF SaveTokenFails
<1>7. CASE Check
  <2>1. phase \in 0..17
    BY <1>h, <1>7 DEF Check
  <2>2. Len(Handlers[phase + 1]) \in Nat
    BY <2>1, HandlersTyped DEF AllTyped
  <2>. QED BY <1>h, <1>7, <2>2 DEF Check, Handler
<1>8. CASE CheckFails
  BY <1>h, <1>8 DEF CheckFails, Raise
<1>9. CASE Work
  <2>1. Len(Handler) \in Nat
    BY <1>h, <1>9, HandlerTyped DEF Work
  <2>. QED BY <1>h, <1>9, <2>1 DEF Work
<1>10. CASE WorkFails
  BY <1>h, <1>10 DEF WorkFails, Raise, FailedCall
<1>11. CASE AppendRecord
  BY <1>h, <1>11 DEF AppendRecord
<1>12. CASE AppendRecordFails
  <2>1. /\ tail' \in Phases /\ ctl' \in {"abort", "failed"}
        /\ UNCHANGED <<phase, auth, lock, token, mode, step>>
    BY <1>h, <1>12 DEF AppendRecordFails, Raise
  <2>2. fault' \in BOOLEAN /\ fit' \in BOOLEAN /\ earlier' = earlier
    BY <1>h, <1>12 DEF AppendRecordFails
  <2>. QED BY <2>1, <2>2
<1>13. CASE Write
  BY <1>h, <1>13 DEF Write
<1>14. CASE WriteFails
  BY <1>h, <1>14 DEF WriteFails
<1>15. CASE RecordFailure
  BY <1>h, <1>15 DEF RecordFailure
<1>16. CASE RecordFailureFails
  BY <1>h, <1>16 DEF RecordFailureFails
<1>17. CASE Sweep
  BY <1>h, <1>17, SuffixCalls DEF Sweep, Cleanable
<1>18. CASE SweepFails
  BY <1>h, <1>18 DEF SweepFails
<1>19. CASE CleanCall
  BY <1>h, <1>19, SuffixCalls DEF CleanCall
<1>20. CASE CleanFails
  BY <1>h, <1>20 DEF CleanFails, FailedCall
<1>21. CASE CloseRecord
  BY <1>h, <1>21 DEF CloseRecord
<1>22. CASE CloseRecordFails
  <2>1. tail' \in Phases /\ ctl' = "down" /\ UNCHANGED <<phase, auth, lock, token, mode, step>>
    BY <1>h, <1>22 DEF CloseRecordFails
  <2>2. fault' \in BOOLEAN /\ fit' \in BOOLEAN /\ earlier' = earlier
    BY <1>h, <1>22 DEF CloseRecordFails
  <2>. QED BY <2>1, <2>2
<1>23. CASE Close
  BY <1>h, <1>23 DEF Close
<1>24. CASE CloseFails
  <2>1. phase' \in Phases /\ ctl' = "down" /\ UNCHANGED <<tail, auth, lock, token, mode, step>>
    BY <1>h, <1>24 DEF CloseFails
  <2>2. fault' \in BOOLEAN /\ fit' \in BOOLEAN /\ earlier' = earlier
    BY <1>h, <1>24 DEF CloseFails
  <2>. QED BY <2>1, <2>2
<1>25. CASE Release
  BY <1>h, <1>25 DEF Release
<1>26. CASE ReleaseFails
  BY <1>h, <1>26 DEF ReleaseFails
<1>27. CASE Forget
  BY <1>h, <1>27 DEF Forget
<1>28. CASE ForgetFails
  BY <1>h, <1>28 DEF ForgetFails
<1>29. CASE Crash
  BY <1>h, <1>29 DEF Crash
<1>30. CASE \E j \in Labels : Claim(j) \/ Finish(j) \/ JobFails(j) \/ LeaseDue(j)
  <2>1. UNCHANGED <<files, locks, process, earlier>>
    BY <1>h, <1>30 DEF Claim, Finish, JobFails, LeaseDue, JobIs
  <2>2. UNCHANGED history \/ Faulted
    BY <1>h, <1>30 DEF Claim, Finish, JobFails, LeaseDue
  <2>3. fault' \in BOOLEAN /\ fit' \in BOOLEAN
    BY <2>2
  <2>. QED BY <1>h, <2>1, <2>3
<1>31. CASE \E a \in Agents : UnitDies(a)
  <2>1. UNCHANGED <<files, locks, process>> /\ Faulted
    BY <1>31 DEF UnitDies
  <2>2. UNCHANGED <<phase, tail, auth, lock, token, ctl, mode, step, earlier>>
    BY <2>1
  <2>3. fault' \in BOOLEAN /\ fit' \in BOOLEAN
    BY <2>1
  <2>. QED BY <1>h, <2>2, <2>3
<1>32. CASE OtherAcquire
  BY <1>h, <1>32 DEF OtherAcquire
<1>33. CASE OtherRelease
  BY <1>h, <1>33 DEF OtherRelease
<1>34. CASE RecoverLock
  BY <1>h, <1>34 DEF RecoverLock
<1>35. CASE RetireToken
  BY <1>h, <1>35 DEF RetireToken
<1>36. CASE UNCHANGED vars
  BY <1>h, <1>36 DEF vars
<1>. QED
  BY <1>1, <1>2, <1>3, <1>4, <1>5, <1>6, <1>7, <1>8, <1>9, <1>10, <1>11,
     <1>12, <1>13, <1>14, <1>15, <1>16, <1>17, <1>18, <1>19, <1>20, <1>21,
     <1>22, <1>23, <1>24, <1>25, <1>26, <1>27, <1>28, <1>29, <1>30, <1>31,
     <1>32, <1>33, <1>34, <1>35, <1>36
     DEF Next, Step, Around

-----------------------------------------------------------------------------
(* What a call changes, by its kind; one that is cut off changes no more.  *)
LEMMA EffectFacts ==
    ASSUME NEW c, NEW answered, Effect(c, answered)
    PROVE  /\ Accepts(c)
           /\ c.op \in Reads => UNCHANGED world
           /\ exec' = IF c.op = "executor" THEN c.arg ELSE exec
           /\ cap' = IF c.op = "capacity" THEN c.arg ELSE cap
           /\ agent' = IF c.op = "register" THEN [agent EXCEPT ![c.arg] = "online"]
                       ELSE IF c.op = "deactivate" THEN [agent EXCEPT ![c.arg] = "offline"]
                       ELSE agent
           /\ running' = IF c.op = "start" THEN running \cup {c.arg}
                         ELSE IF c.op = "stop" THEN running \ {c.arg} ELSE running
           /\ c.op # "start" => recorded' = recorded
           /\ c.op = "start" /\ answered => recorded' = recorded \cup {c.arg}
           /\ proof \subseteq proof'
           /\ c.op = "stop" /\ answered => c.arg \in proof'
           /\ c.op = "render" => defined'
           /\ c.op \notin {"render", "clean"} => defined' = defined
           /\ job' = IF c.op = "submit" THEN [job EXCEPT ![c.arg] = "pending"]
                     ELSE IF c.op = "reap" THEN [job EXCEPT ![c.arg] = "timed_out"]
                     ELSE IF c.op = "report" THEN [job EXCEPT ![c.arg] = "done"]
                     ELSE job
<1>. USE DEF world, catalogs, units, jobs
<1>1. CASE c.op \in Reads /\ UNCHANGED world
  BY <1>1 DEF Effect, Reads, Waits
<1>2. CASE UnitCall(c, answered)
  BY <1>2 DEF Effect, UnitCall, Render, Start, Stop, Clean, Reads, Waits
<1>3. CASE CoordinateCall(c, answered)
  BY <1>3 DEF Effect, CoordinateCall, SetAgent, Sync, Submit, ReapOrReport, Reads, Waits
<1>. QED BY <1>1, <1>2, <1>3 DEF Effect

(* The steps that touch what others hold. *)
JobMoves == \E j \in Labels : Claim(j) \/ Finish(j) \/ JobFails(j) \/ LeaseDue(j)

LEMMA WorldSteps ==
    [Next]_vars => \/ UNCHANGED world
                   \/ Work \/ WorkFails \/ CleanCall \/ CleanFails
                   \/ JobMoves \/ \E a \in Agents : UnitDies(a)
BY DEF Next, Step, Around, JobMoves, vars, Run, Cleanup, Acquire, AcquireFails, SaveToken,
       SaveTokenFails, Check, CheckFails, AppendRecord, AppendRecordFails, Write, WriteFails,
       RecordFailure, RecordFailureFails, Sweep, SweepFails, CloseRecord, CloseRecordFails,
       Close, CloseFails, Release, ReleaseFails, Forget, ForgetFails, Crash, OtherAcquire,
       OtherRelease, RecoverLock, RetireToken

(* The call of a step, of a handler or of the suffix. *)
LEMMA WorkCall ==
    ASSUME TypeInv, Work \/ WorkFails
    PROVE  /\ ctl = "work" /\ phase \in 0..17 /\ step \in 1..Len(Handler)
           /\ Typed(Handler[step])
           /\ \/ Work /\ Effect(Handler[step], TRUE)
              \/ WorkFails /\ (Effect(Handler[step], FALSE) \/ UNCHANGED world)
<1>1. ControlType /\ ctl = "work" /\ step <= Len(Handler)
  BY DEF TypeInv, Work, WorkFails
<1>2. phase \in 0..17 /\ step \in Nat \ {0}
  BY <1>1 DEF ControlType, Phases, Done
<1>3. step \in 1..Len(Handler) /\ Typed(Handler[step])
  BY <1>1, <1>2, HandlerTyped
<1>. QED BY <1>1, <1>2, <1>3 DEF Work, WorkFails, FailedCall

LEMMA SuffixCall ==
    ASSUME TypeInv, CleanCall \/ CleanFails
    PROVE  /\ ctl = "clean" /\ step \in 1..11
           /\ Typed(Suffix[step])
           /\ \/ CleanCall /\ Applies(Suffix[step]) /\ Effect(Suffix[step], TRUE)
              \/ CleanCall /\ ~Applies(Suffix[step]) /\ UNCHANGED world
              \/ CleanFails /\ Applies(Suffix[step]) /\ (Effect(Suffix[step], FALSE) \/ UNCHANGED world)
<1>1. ControlType /\ ctl = "clean" /\ step <= 11
  BY SuffixCalls DEF TypeInv, CleanCall, CleanFails
<1>2. step \in 1..11 /\ Typed(Suffix[step])
  BY <1>1, SuffixCalls, SuffixTyped DEF ControlType
<1>. QED BY <1>1, <1>2 DEF CleanCall, CleanFails, FailedCall

(* What others hold keeps its types.                                       *)
LEMMA WorldTypeNext ==
    TypeInv /\ [Next]_vars => WorldType'
<1>. SUFFICES ASSUME TypeInv, [Next]_vars PROVE WorldType'
  OBVIOUS
<1>1. ControlType /\ WorldType
  BY DEF TypeInv
<1>2. ASSUME UNCHANGED world PROVE WorldType'
  BY <1>1, <1>2 DEF world, catalogs, units, jobs, WorldType
<1>3. CASE Work \/ WorkFails
  BY <1>1, <1>2, <1>3, WorkCall, EffectTypes
<1>4. CASE CleanCall \/ CleanFails
  BY <1>1, <1>2, <1>4, SuffixCall, EffectTypes
<1>5. CASE JobMoves
  BY <1>1, <1>5 DEF JobMoves, Claim, Finish, JobFails, LeaseDue, JobIs, WorldType, catalogs,
                    units, JobStatus
<1>6. ASSUME NEW a \in Agents, UnitDies(a) PROVE WorldType'
  BY <1>1, <1>6 DEF UnitDies, WorldType, catalogs, jobs
<1>. QED BY <1>2, <1>3, <1>4, <1>5, <1>6, WorldSteps

LEMMA TypeInvAlways == Spec => []TypeInv
<1>1. Init => TypeInv
  <2>. SUFFICES ASSUME Init PROVE ControlType /\ WorldType
    BY DEF TypeInv
  <2>1. ControlType
    <3>1. /\ phase = 0 /\ tail = 0 /\ lock = "free"
          /\ ctl = "down" /\ mode = "run" /\ step = 1
      BY DEF Init, Sealed
    <3>2. /\ earlier \in BOOLEAN /\ fault \in BOOLEAN /\ fit \in BOOLEAN
          /\ auth \in BOOLEAN /\ token \in BOOLEAN
      BY DEF Init
    <3>. QED BY <3>1, <3>2 DEF ControlType, Phases, Control
  <2>2. exec \in 0..4 /\ cap \in 0..2 /\ agent \in [Agents -> {"absent", "online", "offline"}]
    BY DEF Init
  <2>3. job \in [Labels -> JobStatus]
    BY DEF Init, JobStatus
  <2>. QED BY <2>1, <2>2, <2>3 DEF Init, WorldType
<1>2. TypeInv /\ [Next]_vars => TypeInv'
  BY ControlTypeNext, WorldTypeNext DEF TypeInv
<1>. QED BY <1>1, <1>2, PTL DEF Spec

(* TypeOK: the variables of cmd_run, cmd_cleanup and of what they change   *)
(* keep their types, no handler is looked for beyond the last phase, and a *)
(* step stays within the handler or the suffix it counts.                  *)
THEOREM ControllerTypes == Spec => []TypeOK
<1>1. TypeInv => TypeOK
  BY DEF TypeInv, ControlType, WorldType, TypeOK
<1>. QED BY <1>1, TypeInvAlways, PTL

-----------------------------------------------------------------------------
(* Why the lock is given back with everything dormant: nothing is touched  *)
(* before the workspace is ready, and each call that undoes something      *)
(* leaves it undone for the rest of the handlers, or of the suffix.        *)
Untouched ==
    /\ exec \in {0, 4} /\ cap \in {0, 2}
    /\ job = [j \in Labels |-> "none"]
    /\ running = {} /\ recorded = {} /\ ~defined
    /\ \A a \in Agents : agent[a] # "online"

Settled(a) == agent[a] # "online" /\ \A j \in Open : AgentOf[j] # a

(* The handlers: quiesce stops the units, the last one compares.           *)
RunDormantInv ==
    /\ phase < WorkspaceReady => Untouched
    /\ phase < AgentsOnline => exec \in {0, 4} /\ cap \in {0, 2}
    /\ phase = 11 /\ ctl = "work" =>
         /\ step > 1 => "e1" \notin running
         /\ step > 2 => "e2" \notin running
    /\ phase = 11 /\ ctl = "write" => running = {}
    /\ phase > 11 /\ ctl \in {"check", "work", "write"} => running = {}
    /\ phase = 17 /\ ctl = "work" /\ step > 1 => Dormant
    /\ phase = 17 /\ ctl = "write" => Dormant

(* The suffix: each call that applies takes one thing down.                *)
SuffixDormantInv ==
    ctl = "clean" =>
        /\ step > 1 => "e1" \notin recorded \cap running
        /\ step > 2 => "e2" \notin recorded \cap running
        /\ phase >= AgentsOnline => (step > 7 => cap = 2) /\ (step > 8 => exec = 4)
        /\ phase >= WorkspaceReady =>
             (step > 9 => Settled("e1")) /\ (step > 10 => Settled("e2"))

DormantInv ==
    /\ RunDormantInv
    /\ SuffixDormantInv
    /\ ctl \in {"close", "release"} => Dormant
    /\ ctl = "abort" => phase <= LockHeld

(* What was never activated is dormant.                                    *)
LEMMA UntouchedDormant == Untouched => Dormant
BY DEF Untouched, Dormant, Open, Closed

(* Jobs and units move by themselves only to where less is open. *)
LEMMA AroundFacts ==
    ASSUME TypeInv, JobMoves \/ \E a \in Agents : UnitDies(a)
    PROVE  /\ Open' \subseteq Open
           /\ running' \subseteq running
           /\ UNCHANGED <<files, locks, process, exec, cap, agent, recorded, proof, defined>>
           /\ Untouched => Untouched'
           /\ Dormant => Dormant'
           /\ \A a \in Agents : Settled(a) => Settled(a)'
<1>. USE DEF catalogs, units
<1>1. /\ UNCHANGED <<files, locks, process, exec, cap, agent, recorded, proof, defined>>
      /\ running' \subseteq running
  BY DEF JobMoves, Claim, Finish, JobFails, LeaseDue, JobIs, UnitDies
<1>2. job' = job \/ \E j \in Labels : job[j] \notin Closed /\ \A k \in Labels \ {j} : job'[k] = job[k]
  <2>1. ASSUME NEW j \in Labels, NEW new, job' = [job EXCEPT ![j] = new]
        PROVE  \A k \in Labels \ {j} : job'[k] = job[k]
    BY <2>1 DEF TypeInv, WorldType
  <2>2. ASSUME NEW j \in Labels, Claim(j) \/ Finish(j) \/ JobFails(j) \/ LeaseDue(j)
        PROVE  job[j] \notin Closed /\ \E new : job' = [job EXCEPT ![j] = new]
    BY <2>2 DEF Claim, Finish, JobFails, LeaseDue, JobIs, Closed
  <2>3. CASE JobMoves
    BY <2>1, <2>2, <2>3 DEF JobMoves
  <2>4. CASE \E a \in Agents : UnitDies(a)
    BY <2>4 DEF UnitDies, jobs
  <2>. QED BY <2>3, <2>4
<1>3. Open' \subseteq Open
  BY <1>2 DEF Open
<1>4. Untouched => Untouched'
  <2>. SUFFICES ASSUME Untouched PROVE Untouched'
    OBVIOUS
  <2>1. job' = job
    BY <1>2 DEF Untouched, Closed
  <2>. QED BY <1>1, <2>1 DEF Untouched
<1>. QED BY <1>1, <1>3, <1>4 DEF Dormant, Settled

(* What is left as it is stays as dormant as it was. *)
LEMMA QuietFacts ==
    ASSUME UNCHANGED world
    PROVE  /\ UNCHANGED <<exec, cap, agent, running, recorded, proof, defined, job, Open>>
           /\ Untouched' = Untouched /\ Dormant' = Dormant
           /\ \A a : Settled(a)' = Settled(a)
BY DEF world, catalogs, units, jobs, Untouched, Dormant, Settled, Open

(* The call the controller makes at a step of a phase. *)
LEMMA CallAt ==
    ASSUME phase \in 0..17, step \in 1..Len(Handler)
    PROVE  /\ phase \in {0, 2, 3, 9, 16} => step = 1 /\ Handler[step] = Call("read", 0)
           /\ phase \notin {1, 10}
           /\ phase = 4 => /\ step \in 1..2
                           /\ Handler[step] = Call("register", IF step = 1 THEN "e1" ELSE "e2")
           /\ phase = 5 => step = 1 /\ Handler[step] = Call("executor", 1)
           /\ phase = 6 => step = 1 /\ Handler[step] = Call("capacity", 1)
           /\ phase = 7 => step = 1 /\ Handler[step] = Call("executor", 2)
           /\ phase = 8 => Handler = Matrix /\ step \in 1..26
           /\ phase = 11 => /\ step \in 1..4
                            /\ Handler[step] = Call(IF step <= 2 THEN "stop" ELSE "clean",
                                                    IF step \in {1, 3} THEN "e1" ELSE "e2")
           /\ phase = 12 => step = 1 /\ Handler[step] = Call("executor", 3)
           /\ phase = 13 => step = 1 /\ Handler[step] = Call("capacity", 2)
           /\ phase = 14 => step = 1 /\ Handler[step] = Call("executor", 4)
           /\ phase = 15 => /\ step \in 1..2
                            /\ Handler[step] = Call("deactivate", IF step = 1 THEN "e1" ELSE "e2")
           /\ phase = 17 => step = 1 /\ Handler[step] = Call("final", 0)
<1>. DEFINE h == Handler
<1>0. Handler = Handlers[phase + 1] /\ step \in 1..Len(h)
  BY DEF Handler
<1>1. ASSUME NEW c, h = <<c>> PROVE step = 1 /\ h[step] = c
  BY <1>0, <1>1
<1>2. ASSUME NEW c, NEW d, h = <<c, d>>
      PROVE  step \in 1..2 /\ h[step] = IF step = 1 THEN c ELSE d
  BY <1>0, <1>2
<1>3. ASSUME NEW op, NEW a, NEW b, h = <<Call(op, a), Call(op, b)>>
      PROVE  step \in 1..2 /\ h[step] = Call(op, IF step = 1 THEN a ELSE b)
  BY <1>2, <1>3
<1>4. h # <<>>
  BY <1>0
<1>. HIDE DEF h
<1>5. h = Handlers[phase + 1] /\ h = Handler
  BY <1>0 DEF h
<1>6. ASSUME phase = 0 \/ phase = 2 \/ phase = 3 \/ phase = 9 \/ phase = 16
      PROVE  step = 1 /\ h[step] = Call("read", 0)
  <2>1. Handlers[phase + 1] = << Call("read", 0) >>
    <3>1. CASE phase = 0
      BY <3>1, HandlerCalls
    <3>2. CASE phase = 2
      BY <3>2, HandlerCalls
    <3>3. CASE phase = 3
      BY <3>3, HandlerCalls
    <3>4. CASE phase = 9
      BY <3>4, HandlerCalls
    <3>5. CASE phase = 16
      BY <3>5, HandlerCalls
    <3>. QED BY <1>6, <3>1, <3>2, <3>3, <3>4, <3>5
  <2>. QED BY <1>1, <1>5, <2>1
<1>7. phase # 1 /\ phase # 10
  <2>1. phase = 1 => Handlers[phase + 1] = <<>>
    BY HandlerCalls
  <2>2. phase = 10 => Handlers[phase + 1] = <<>>
    BY HandlerCalls
  <2>. QED BY <1>4, <1>5, <2>1, <2>2
<1>8. phase = 4 => step \in 1..2 /\ h[step] = Call("register", IF step = 1 THEN "e1" ELSE "e2")
  <2>1. phase = 4 => Handlers[phase + 1] = << Call("register", "e1"), Call("register", "e2") >>
    BY HandlerCalls
  <2>. QED BY <1>3, <1>5, <2>1
<1>9. phase = 15 => step \in 1..2 /\ h[step] = Call("deactivate", IF step = 1 THEN "e1" ELSE "e2")
  <2>1. phase = 15 => Handlers[phase + 1] = << Call("deactivate", "e1"), Call("deactivate", "e2") >>
    BY HandlerCalls DEF Offline
  <2>. QED BY <1>3, <1>5, <2>1
<1>10. phase = 5 => step = 1 /\ h[step] = Call("executor", 1)
  <2>1. phase = 5 => Handlers[phase + 1] = << Call("executor", 1) >>
    BY HandlerCalls
  <2>. QED BY <1>1, <1>5, <2>1
<1>11. phase = 6 => step = 1 /\ h[step] = Call("capacity", 1)
  <2>1. phase = 6 => Handlers[phase + 1] = << Call("capacity", 1) >>
    BY HandlerCalls
  <2>. QED BY <1>1, <1>5, <2>1
<1>12. phase = 7 => step = 1 /\ h[step] = Call("executor", 2)
  <2>1. phase = 7 => Handlers[phase + 1] = << Call("executor", 2) >>
    BY HandlerCalls
  <2>. QED BY <1>1, <1>5, <2>1
<1>13. phase = 12 => step = 1 /\ h[step] = Call("executor", 3)
  <2>1. phase = 12 => Handlers[phase + 1] = << Call("executor", 3) >>
    BY HandlerCalls
  <2>. QED BY <1>1, <1>5, <2>1
<1>14. phase = 13 => step = 1 /\ h[step] = Call("capacity", 2)
  <2>1. phase = 13 => Handlers[phase + 1] = << Call("capacity", 2) >>
    BY HandlerCalls
  <2>. QED BY <1>1, <1>5, <2>1
<1>15. phase = 14 => step = 1 /\ h[step] = Call("executor", 4)
  <2>1. phase = 14 => Handlers[phase + 1] = << Call("executor", 4) >>
    BY HandlerCalls
  <2>. QED BY <1>1, <1>5, <2>1
<1>16. phase = 17 => step = 1 /\ h[step] = Call("final", 0)
  <2>1. phase = 17 => Handlers[phase + 1] = << Call("final", 0) >>
    BY HandlerCalls
  <2>. QED BY <1>1, <1>5, <2>1
<1>17. phase = 8 => h = Matrix /\ step \in 1..26
  <2>1. phase = 8 => Handlers[phase + 1] = Matrix
    BY HandlerCalls
  <2>. QED BY <1>0, <1>5, <2>1, MatrixCalls
<1>18. phase = 11 => /\ step \in 1..4
                     /\ h[step] = Call(IF step <= 2 THEN "stop" ELSE "clean",
                                       IF step \in {1, 3} THEN "e1" ELSE "e2")
  <2>1. phase = 11 => Handlers[phase + 1] = Quiesce
    BY HandlerCalls
  <2>2. /\ Len(Quiesce) = 4
        /\ \A i \in 1..4 : Quiesce[i] = Call(IF i <= 2 THEN "stop" ELSE "clean",
                                             IF i \in {1, 3} THEN "e1" ELSE "e2")
    BY DEF Quiesce
  <2>. QED BY <1>0, <1>5, <2>1, <2>2
<1>. QED
  BY <1>5, <1>6, <1>7, <1>8, <1>9, <1>10, <1>11, <1>12, <1>13, <1>14, <1>15, <1>16, <1>17, <1>18

(* A call of a handler leaves what is dormant, and what it has undone, so. *)
LEMMA WorkDormant ==
    ASSUME TypeInv, DormantInv, Work
    PROVE  RunDormantInv'
<1>. DEFINE c == Handler[step]
<1>1. /\ ctl = "work" /\ ctl' = "work" /\ phase \in 0..17 /\ phase' = phase
      /\ step \in 1..Len(Handler) /\ step' = step + 1 /\ Effect(c, TRUE)
  BY WorkCall DEF Work, files
<1>2. /\ c = Handler[step]
      /\ phase \in {0, 2, 3, 9, 16} => step = 1 /\ c = Call("read", 0)
      /\ phase \notin {1, 10}
      /\ phase = 4 => c.op = "register"
      /\ phase = 11 => /\ step \in 1..4
                       /\ c = Call(IF step <= 2 THEN "stop" ELSE "clean",
                                   IF step \in {1, 3} THEN "e1" ELSE "e2")
      /\ phase \in 12..15 => c.op \in {"executor", "capacity", "deactivate"}
      /\ phase = 17 => step = 1 /\ c = Call("final", 0)
  <2>1. phase \in 12..15 => phase = 12 \/ phase = 13 \/ phase = 14 \/ phase = 15
    BY <1>1
  <2>. QED BY <1>1, <2>1, CallAt DEF Call
<1>. HIDE DEF c
<1>. USE DEF RunDormantInv, DormantInv, Call, WorkspaceReady, AgentsOnline
<1>3. CASE phase < 4
  <2>1. c.op \in Reads
    BY <1>1, <1>2, <1>3 DEF Reads
  <2>2. UNCHANGED world
    BY <1>1, <2>1, EffectFacts
  <2>. QED BY <1>1, <1>3, <2>2, QuietFacts
<1>4. CASE phase = 4
  <2>1. c.op = "register"
    BY <1>2, <1>4
  <2>2. exec' = exec /\ cap' = cap
    BY <1>1, <2>1, EffectFacts
  <2>. QED BY <1>1, <1>4, <2>2
<1>5. CASE phase \in 5..10
  BY <1>1, <1>5
<1>6. CASE phase = 11
  <2>1. /\ step \in 1..4
        /\ step = 1 => c.op = "stop" /\ c.arg = "e1"
        /\ step = 2 => c.op = "stop" /\ c.arg = "e2"
        /\ step > 2 => c.op = "clean"
    BY <1>2, <1>6
  <2>2. /\ step = 1 => running' = running \ {"e1"}
        /\ step = 2 => running' = running \ {"e2"}
        /\ step > 2 => running' = running
    BY <1>1, <2>1, EffectFacts
  <2>. QED BY <1>1, <1>6, <2>1, <2>2
<1>7. CASE phase \in 12..16
  <2>1. c.op \in {"executor", "capacity", "deactivate", "read"}
    BY <1>1, <1>2, <1>7
  <2>2. running' = running
    BY <1>1, <2>1, EffectFacts
  <2>. QED BY <1>1, <1>7, <2>2
<1>8. CASE phase = 17
  <2>1. step = 1 /\ c.op = "final" /\ c.op \in Reads
    BY <1>2, <1>8 DEF Reads
  <2>2. UNCHANGED world /\ Accepts(c)
    BY <1>1, <2>1, EffectFacts
  <2>3. Dormant
    BY <1>1, <1>8, <2>1, <2>2 DEF Accepts, Dormant, Open, Closed
  <2>. QED BY <1>1, <1>8, <2>2, <2>3, QuietFacts
<1>. QED BY <1>1, <1>3, <1>4, <1>5, <1>6, <1>7, <1>8

(* A call of the suffix, answered or not, or passed over. *)
LEMMA SuffixDormant ==
    ASSUME TypeInv, DormantInv, CleanCall \/ CleanFails
    PROVE  RunDormantInv' /\ (CleanCall => SuffixDormantInv')
<1>. DEFINE c == Suffix[step]
<1>1. /\ ctl = "clean" /\ phase' = phase /\ phase \in Phases /\ step \in 1..11
      /\ ctl' \in {"clean", "down"} /\ (CleanCall => step' = step + 1 /\ ctl' = "clean")
  BY SuffixCall DEF CleanCall, CleanFails, GoTo, files, TypeInv, ControlType
<1>2. /\ UNCHANGED world \/ (Applies(c) /\ \E answered \in BOOLEAN : Effect(c, answered))
      /\ CleanCall => \/ Applies(c) /\ Effect(c, TRUE)
                      \/ ~Applies(c) /\ UNCHANGED world
  <2>1. TRUE \in BOOLEAN /\ FALSE \in BOOLEAN /\ (CleanCall => ~CleanFails)
    BY DEF CleanCall, CleanFails, GoTo
  <2>. QED BY <2>1, SuffixCall
<1>c. c = Suffix[step]
  OBVIOUS
<1>. HIDE DEF c
<1>. USE <1>c DEF Call, WorkspaceReady, AgentsOnline, Phases
<1>3. /\ phase < 4 => Untouched
      /\ phase < 5 => exec \in {0, 4} /\ cap \in {0, 2}
  BY DEF DormantInv, RunDormantInv
<1>4. ASSUME phase < 4 PROVE UNCHANGED world
  <2>1. recorded = {}
    BY <1>3, <1>4 DEF Untouched
  <2>2. Applies(c) => c.op \in {"gate", "read"}
    BY <1>1, <1>4, <2>1, SuffixCalls DEF Applies
  <2>. QED BY <1>2, <2>2, EffectFacts DEF Reads
<1>5. phase < 5 => exec' = exec /\ cap' = cap
  <2>1. phase < 5 /\ Applies(c) => c.op \notin {"executor", "capacity"}
    BY <1>1, SuffixCalls DEF Applies
  <2>. QED BY <1>2, <2>1, QuietFacts, EffectFacts
<1>6. RunDormantInv'
  BY <1>1, <1>3, <1>4, <1>5, QuietFacts DEF RunDormantInv
<1>7. ASSUME CleanCall PROVE SuffixDormantInv'
  <2>. USE DEF SuffixDormantInv, DormantInv
  <2>1. c.op \notin {"start", "register", "submit", "reap", "report"}
    BY <1>1, SuffixCalls
  <2>2. /\ running' \subseteq running /\ recorded' = recorded /\ job' = job /\ Open' = Open
        /\ \A a \in Agents : Settled(a) => Settled(a)'
    <3>1. running' \subseteq running /\ recorded' = recorded /\ job' = job
      BY <1>2, <1>7, <2>1, EffectFacts, QuietFacts
    <3>2. \A a \in Agents : agent[a] # "online" => agent'[a] # "online"
      BY <1>2, <1>7, <2>1, EffectFacts, QuietFacts DEF TypeInv, WorldType
    <3>. QED BY <3>1, <3>2 DEF Open, Settled
  <2>s. ASSUME NEW a, c.op = "stop", c.arg = a PROVE a \notin recorded' \cap running'
    <3>1. Applies(c) <=> a \in recorded
      BY <2>s DEF Applies
    <3>2. Applies(c) => running' = running \ {a}
      BY <1>2, <1>7, <2>s, EffectFacts
    <3>. QED BY <2>2, <3>1, <3>2
  <2>3. step = 1 => "e1" \notin recorded' \cap running'
    BY <2>s, SuffixCalls
  <2>4. step = 2 => "e2" \notin recorded' \cap running'
    BY <2>s, SuffixCalls
  <2>5. phase >= 5 => /\ step = 7 => cap' = 2
                      /\ step = 8 => exec' = 4
                      /\ step > 7 => cap' = cap
                      /\ step > 8 => exec' = exec
    <3>1. step = 7 => c.op = "capacity" /\ c.arg = 2
      BY <1>1, SuffixCalls
    <3>2. step = 8 => c.op = "executor" /\ c.arg = 4
      BY <1>1, SuffixCalls
    <3>3. step > 7 => c.op # "capacity"
      BY <1>1, SuffixCalls
    <3>4. step > 8 => c.op # "executor"
      BY <1>1, SuffixCalls
    <3>5. c.op \in {"capacity", "executor"} => (Applies(c) <=> phase >= 5)
      BY DEF Applies
    <3>6. Applies(c) => /\ exec' = IF c.op = "executor" THEN c.arg ELSE exec
                        /\ cap' = IF c.op = "capacity" THEN c.arg ELSE cap
      BY <1>2, <1>7, EffectFacts
    <3>7. ~Applies(c) => exec' = exec /\ cap' = cap
      BY <1>2, <1>7, QuietFacts
    <3>. QED BY <1>1, <3>1, <3>2, <3>3, <3>4, <3>5, <3>6, <3>7
  <2>6. phase >= 4 => (step = 9 => Settled("e1")') /\ (step = 10 => Settled("e2")')
    <3>. SUFFICES ASSUME phase >= 4, NEW a \in Agents, c.op = "deactivate", c.arg = a
                     PROVE  Settled(a)'
      BY <1>1, SuffixCalls DEF Agents
    <3>1. Applies(c)
      BY DEF Applies
    <3>2. Accepts(c) /\ agent' = [agent EXCEPT ![a] = "offline"]
      BY <1>2, <1>7, <3>1, EffectFacts
    <3>3. agent'[a] = "offline" /\ \A j \in Open : AgentOf[j] # a
      BY <3>2 DEF Accepts, TypeInv, WorldType
    <3>. QED BY <2>2, <3>3 DEF Settled
  <2>. QED BY <1>1, <1>7, <2>2, <2>3, <2>4, <2>5, <2>6 DEF Agents
<1>. QED BY <1>6, <1>7

(* Every step keeps it, the failing ones and those around the controller.  *)
LEMMA DormantNext ==
    TypeInv /\ DormantInv /\ [Next]_vars => DormantInv'
<1>. SUFFICES ASSUME TypeInv, DormantInv, [Next]_vars PROVE DormantInv'
  OBVIOUS
<1>1. ControlType /\ WorldType /\ running \subseteq {"e1", "e2"} /\ RunDormantInv
  BY DEF TypeInv, WorldType, Agents, DormantInv
<1>2. CASE Work
  BY <1>1, <1>2, WorkDormant DEF Work, DormantInv, SuffixDormantInv
<1>3. CASE WorkFails
  <2>1. /\ phase \in 0..17 /\ phase' = phase /\ ctl' = IF phase <= 2 THEN "abort" ELSE "failed"
        /\ Effect(Handler[step], FALSE) \/ UNCHANGED world
        /\ step \in 1..Len(Handler)
    <3>1. phase' = phase /\ ctl' = IF phase <= 2 THEN "abort" ELSE "failed"
      BY <1>3 DEF WorkFails, Raise, GoTo, files, LockHeld
    <3>2. ~Work
      BY <3>1 DEF Work
    <3>. QED BY <1>3, <3>1, <3>2, WorkCall
  <2>2. phase < 4 => UNCHANGED world
    <3>1. phase < 4 => Handler[step] = Call("read", 0)
      BY <2>1, CallAt
    <3>2. Call("read", 0).op \in Reads
      BY DEF Call, Reads
    <3>. QED BY <2>1, <3>1, <3>2, EffectFacts
  <2>3. phase = 4 => exec' = exec /\ cap' = cap
    <3>1. phase = 4 => Handler[step].op = "register"
      BY <2>1, CallAt DEF Call
    <3>. QED BY <2>1, <3>1, EffectFacts, QuietFacts
  <2>4. RunDormantInv'
    BY <1>1, <2>1, <2>2, <2>3, QuietFacts DEF RunDormantInv, WorkspaceReady, AgentsOnline
  <2>. QED BY <2>1, <2>4 DEF DormantInv, SuffixDormantInv, LockHeld
<1>4. CASE CleanCall \/ CleanFails
  <2>1. RunDormantInv' /\ (CleanCall => SuffixDormantInv')
    BY <1>4, SuffixDormant
  <2>2. (CleanCall /\ ctl' = "clean") \/ ctl' = "down"
    BY <1>4 DEF CleanCall, CleanFails, GoTo, process
  <2>3. SuffixDormantInv'
    BY <2>1, <2>2 DEF SuffixDormantInv
  <2>. QED BY <2>1, <2>2, <2>3 DEF DormantInv
<1>5. CASE JobMoves \/ \E a \in Agents : UnitDies(a)
  <2>1. UNCHANGED <<phase, ctl, step, exec, cap, recorded>> /\ running' \subseteq running
    BY <1>5, AroundFacts DEF files, process
  <2>2. /\ Untouched => Untouched'
        /\ Dormant => Dormant'
        /\ \A a \in Agents : Settled(a) => Settled(a)'
    BY <1>5, AroundFacts
  <2>. HIDE DEF Untouched, Dormant, Settled
  <2>3. RunDormantInv'
    BY <1>1, <2>1, <2>2 DEF RunDormantInv
  <2>4. SuffixDormantInv'
    BY <1>1, <2>1, <2>2 DEF DormantInv, SuffixDormantInv, Agents
  <2>. QED BY <2>1, <2>2, <2>3, <2>4 DEF DormantInv
<1>7. CASE UNCHANGED world
  <2>1. /\ UNCHANGED <<exec, cap, running, recorded>>
        /\ Untouched' = Untouched /\ Dormant' = Dormant
        /\ \A a : Settled(a)' = Settled(a)
    BY <1>7, QuietFacts
  <2>. USE <1>1, <2>1 DEF DormantInv, RunDormantInv, SuffixDormantInv, GoTo, files, process,
           ControlType, Phases, Done, Sealed, LockHeld, WorkspaceReady, AgentsOnline
  <2>2. CASE Run
    BY <2>2 DEF Run
  <2>3. CASE Cleanup
    BY <2>3 DEF Cleanup
  <2>4. CASE Acquire
    BY <2>4 DEF Acquire
  <2>5. CASE AcquireFails
    BY <2>5 DEF AcquireFails
  <2>6. CASE SaveToken
    BY <2>6 DEF SaveToken
  <2>7. CASE SaveTokenFails
    BY <2>7 DEF SaveTokenFails
  <2>8. CASE Check
    BY <2>8 DEF Check
  <2>9. CASE CheckFails
    BY <2>9 DEF CheckFails, Raise
  <2>10. CASE AppendRecord
    <3>1. phase = 11 => Len(Handler) = 4
      <4>1. Handlers[12] = Quiesce /\ Len(Quiesce) = 4
        BY HandlerCalls DEF Quiesce
      <4>2. phase = 11 => Handler = Handlers[12]
        BY DEF Handler
      <4>. QED BY <4>1, <4>2
    <3>2. phase = 17 => Len(Handler) = 1
      <4>1. Len(Handlers[18]) = 1
        BY HandlerCalls
      <4>2. phase = 17 => Handler = Handlers[18]
        BY DEF Handler
      <4>. QED BY <4>1, <4>2
    <3>3. ctl = "work" /\ step > Len(Handler) /\ ctl' = "write" /\ UNCHANGED <<phase, step>>
      BY <2>10 DEF AppendRecord
    <3>4. phase = 11 => running = {}
      <4>1. phase = 11 => "e1" \notin running /\ "e2" \notin running
        BY <3>1, <3>3
      <4>. QED BY <1>1, <4>1
    <3>5. phase = 17 => Dormant
      BY <3>2, <3>3
    <3>6. RunDormantInv'
      BY <3>3, <3>4, <3>5
    <3>. QED BY <3>3, <3>6
  <2>11. CASE AppendRecordFails
    BY <2>11 DEF AppendRecordFails, Raise
  <2>12. CASE Write
    BY <2>12 DEF Write
  <2>13. CASE WriteFails
    BY <2>13 DEF WriteFails
  <2>14. CASE RecordFailure
    BY <2>14 DEF RecordFailure
  <2>15. CASE RecordFailureFails
    BY <2>15 DEF RecordFailureFails
  <2>16. CASE Sweep
    BY <2>16 DEF Sweep
  <2>17. CASE SweepFails
    BY <2>17 DEF SweepFails
  <2>18. CASE CloseRecord
    <3>1. step > 11
      BY <2>18, SuffixCalls DEF CloseRecord
    <3>2. Dormant
      <4>1. CASE phase < 4
        BY <4>1, UntouchedDormant
      <4>2. CASE phase >= 4
        <5>1. recorded \cap running = {} /\ Settled("e1") /\ Settled("e2")
          <6>1. SuffixDormantInv /\ ctl = "clean"
            BY <2>18 DEF CloseRecord
          <6>2. "e1" \notin recorded \cap running /\ "e2" \notin recorded \cap running
            BY <3>1, <6>1
          <6>3. Settled("e1") /\ Settled("e2")
            BY <3>1, <4>2, <6>1
          <6>. QED BY <1>1, <6>2, <6>3
        <5>2. exec \in {0, 4} /\ cap \in {0, 2}
          BY <2>18, <3>1, <4>2 DEF CloseRecord
        <5>3. \A j \in Labels : AgentOf[j] \in {"e1", "e2"}
          BY DEF Labels, AgentOf
        <5>4. Open = {}
          BY <5>1, <5>3 DEF Settled, Open
        <5>. QED BY <5>1, <5>2, <5>4 DEF Settled, Dormant, Agents
      <4>. QED BY <4>1, <4>2
    <3>. QED BY <2>18, <3>2 DEF CloseRecord
  <2>19. CASE CloseRecordFails
    BY <2>19 DEF CloseRecordFails
  <2>20. CASE Close
    BY <2>20 DEF Close
  <2>21. CASE CloseFails
    BY <2>21 DEF CloseFails
  <2>22. CASE Release
    BY <2>22 DEF Release
  <2>23. CASE ReleaseFails
    BY <2>23 DEF ReleaseFails
  <2>24. CASE Forget
    BY <2>24 DEF Forget
  <2>25. CASE ForgetFails
    BY <2>25 DEF ForgetFails
  <2>26. CASE Crash
    BY <2>26 DEF Crash
  <2>27. CASE OtherAcquire
    BY <2>27 DEF OtherAcquire
  <2>28. CASE OtherRelease
    BY <2>28 DEF OtherRelease
  <2>29. CASE RecoverLock
    BY <2>29 DEF RecoverLock
  <2>30. CASE RetireToken
    BY <2>30 DEF RetireToken
  <2>31. CASE UNCHANGED vars
    BY <2>31 DEF vars
  <2>. QED
    BY <1>2, <1>3, <1>4, <1>5, <2>2, <2>3, <2>4, <2>5, <2>6, <2>7, <2>8,
       <2>9, <2>10, <2>11, <2>12, <2>13, <2>14, <2>15, <2>16, <2>17, <2>18,
       <2>19, <2>20, <2>21, <2>22, <2>23, <2>24, <2>25, <2>26, <2>27,
       <2>28, <2>29, <2>30, <2>31
       DEF Next, Step, Around, JobMoves
<1>. QED BY <1>2, <1>3, <1>4, <1>5, <1>7, WorldSteps

(* FitInv: what a suffix that can undo everything still has to find when it*)
(* comes to each of its calls.                                             *)
FitInv ==
    ctl = "clean" /\ fit =>
        /\ Open = {}
        /\ step <= 2 => recorded = {} \/ defined
        /\ step > 1 /\ "e1" \in recorded => "e1" \in proof
        /\ step > 2 /\ "e2" \in recorded => "e2" \in proof
        /\ phase >= AgentsOnline /\ step <= 6 => exec <= 3
        /\ phase >= WorkspaceReady => \A a \in Agents : agent[a] # "absent"

(* The call the suffix has come to is one that is served.                  *)
LEMMA FitAccepts ==
    ASSUME TypeInv, FitInv, ctl = "clean", fit, step \in 1..11, Applies(Suffix[step])
    PROVE  Accepts(Suffix[step])
<1>. DEFINE c == Suffix[step]
<1>. SUFFICES Accepts(c)
  OBVIOUS
<1>1. /\ step \in {1, 2} => c.op = "stop" /\ c.arg = (IF step = 1 THEN "e1" ELSE "e2")
      /\ step \in {3, 4} => c.op = "clean" /\ c.arg = (IF step = 3 THEN "e1" ELSE "e2")
      /\ step = 5 => c.op = "gate"
      /\ step = 6 => c.op = "executor" /\ c.arg = 3
      /\ step = 7 => c.op = "capacity" /\ c.arg = 2
      /\ step = 8 => c.op = "executor" /\ c.arg = 4
      /\ step \in {9, 10} => c.op = "deactivate" /\ c.arg = (IF step = 9 THEN "e1" ELSE "e2")
      /\ step = 11 => c.op = "read"
  BY SuffixCalls DEF Call
<1>2. Applies(c)
  OBVIOUS
<1>. HIDE DEF c
<1>3. exec \in 0..4 /\ cap \in 0..2
  BY DEF TypeInv, WorldType
<1>. USE DEF FitInv, AgentsOnline, WorkspaceReady
<1>4. CASE step \in {1, 2}
  BY <1>1, <1>2, <1>4 DEF Applies, Accepts
<1>5. CASE step \in {3, 4}
  BY <1>1, <1>2, <1>5 DEF Applies, Accepts
<1>6. CASE step = 5
  BY <1>1, <1>6 DEF Accepts
<1>7. CASE step \in {6, 7, 8}
  BY <1>1, <1>2, <1>3, <1>7 DEF Applies, Accepts
<1>8. CASE step \in {9, 10}
  BY <1>1, <1>2, <1>8 DEF Applies, Accepts, Agents
<1>9. CASE step = 11
  BY <1>1, <1>9 DEF Accepts
<1>. QED BY <1>4, <1>5, <1>6, <1>7, <1>8, <1>9

(* Every call of the suffix leaves the next one what it needs.             *)
LEMMA FitNext ==
    TypeInv /\ FitInv /\ [Next]_vars => FitInv'
<1>. SUFFICES ASSUME TypeInv, FitInv, [Next]_vars, ctl' = "clean", fit' PROVE FitInv'
  BY DEF FitInv
<1>. USE DEF AgentsOnline, WorkspaceReady
<1>1. CASE ctl = "clean"
  <2>1. CleanCall \/ JobMoves \/ (\E a \in Agents : UnitDies(a)) \/ UNCHANGED <<ctl, step, phase, fit, world>>
    BY <1>1 DEF Next, Step, Around, JobMoves, vars, Run, Cleanup, Acquire, AcquireFails, SaveToken,
       SaveTokenFails, Check, CheckFails, Work, WorkFails, AppendRecord, AppendRecordFails, Write,
       WriteFails, RecordFailure, RecordFailureFails, Sweep, SweepFails, CleanFails, CloseRecord,
       CloseRecordFails, Close, CloseFails, Release, ReleaseFails, Forget, ForgetFails, Crash,
       OtherAcquire, OtherRelease, RecoverLock, RetireToken, GoTo, files, process, history
  <2>2. CASE UNCHANGED <<ctl, step, phase, fit, world>>
    BY <2>2, QuietFacts DEF FitInv
  <2>3. CASE JobMoves \/ \E a \in Agents : UnitDies(a)
    <3>1. fit
      BY <2>3 DEF JobMoves, Claim, Finish, JobFails, LeaseDue, UnitDies, Faulted, history
    <3>. QED BY <1>1, <2>3, <3>1, AroundFacts DEF FitInv, files, process
  <2>4. CASE CleanCall
    <3>. DEFINE c == Suffix[step]
    <3>1. /\ fit /\ phase' = phase /\ step' = step + 1 /\ step \in 1..11
          /\ (Applies(c) /\ Effect(c, TRUE)) \/ (~Applies(c) /\ UNCHANGED world)
      BY <2>4, SuffixCall DEF CleanCall, CleanFails, GoTo, files, history, process
    <3>2. /\ step = 1 => c.op = "stop" /\ c.arg = "e1"
          /\ step = 2 => c.op = "stop" /\ c.arg = "e2"
          /\ c.op \in {"stop", "clean", "gate", "executor", "capacity", "deactivate", "read"}
          /\ step <= 5 => c.op # "executor"
          /\ step <= 2 => c.op # "clean"
      BY <3>1, SuffixCalls DEF Call
    <3>3. c.op \in {"stop", "clean"} => (Applies(c) <=> c.arg \in recorded)
      BY DEF Applies
    <3>. HIDE DEF c
    <3>4. recorded' = recorded /\ proof \subseteq proof' /\ job' = job /\ Open' = Open
      BY <3>1, <3>2, QuietFacts, EffectFacts DEF Open
    <3>5. step <= 2 => defined' = defined
      BY <3>1, <3>2, QuietFacts, EffectFacts
    <3>6. c.op = "stop" /\ c.arg \in recorded => c.arg \in proof'
      BY <3>1, <3>3, EffectFacts
    <3>7. step <= 5 => exec' = exec
      BY <3>1, <3>2, QuietFacts, EffectFacts
    <3>8. \A a \in Agents : agent[a] # "absent" => agent'[a] # "absent"
      BY <3>1, <3>2, QuietFacts, EffectFacts DEF TypeInv, WorldType
    <3>. QED BY <1>1, <3>1, <3>2, <3>4, <3>5, <3>6, <3>7, <3>8 DEF FitInv
  <2>. QED BY <2>1, <2>2, <2>3, <2>4
<1>2. CASE ctl # "clean"
  <2>1. Sweep
    BY <1>2 DEF Next, Step, Around, vars, Run, Cleanup, Acquire, AcquireFails, SaveToken,
       SaveTokenFails, Check, CheckFails, Work, WorkFails, AppendRecord, AppendRecordFails, Write,
       WriteFails, RecordFailure, RecordFailureFails, SweepFails, CleanCall, CleanFails, CloseRecord,
       CloseRecordFails, Close, CloseFails, Release, ReleaseFails, Forget, ForgetFails, Crash,
       OtherAcquire, OtherRelease, RecoverLock, RetireToken, GoTo, files, process, history, Raise,
       Claim, Finish, JobFails, LeaseDue, JobIs, UnitDies
  <2>2. Cleanable /\ step' = 1 /\ phase' = phase /\ UNCHANGED world
    BY <2>1 DEF Sweep
  <2>. QED BY <2>2, QuietFacts DEF FitInv, Cleanable
<1>. QED BY <1>1, <1>2

(* The three parts together are inductive.                                 *)
LEMMA ControllerInvAlways == Spec => [](TypeInv /\ DormantInv /\ FitInv)
<1>1. Init => DormantInv /\ FitInv
  BY DEF Init, DormantInv, RunDormantInv, SuffixDormantInv, FitInv, Untouched, Sealed, WorkspaceReady,
         AgentsOnline
<1>. QED BY <1>1, TypeInvAlways, DormantNext, FitNext, PTL DEF Spec

(* GivenBackDormant: whatever fails, the controller gives the lock back    *)
(* (_release_lock) only with empty catalogs, its agents offline, no open   *)
(* job and no recorded unit running.                                       *)
THEOREM GivenBackDormantCorrect == Spec => GivenBackDormant
<1>1. /\ TypeInv /\ DormantInv /\ [Next]_vars
      => (lock = "mine" /\ lock' = "free" /\ ctl # "down" => Dormant)
  <2>. SUFFICES ASSUME TypeInv, DormantInv, [Next]_vars, lock = "mine", lock' = "free", ctl # "down"
                PROVE  Dormant
    OBVIOUS
  <2>1. ctl \in {"release", "abort"}
    BY DEF Next, Step, Around, vars, Run, Cleanup, Acquire, AcquireFails, SaveToken,
       SaveTokenFails, Check, CheckFails, Work, WorkFails, AppendRecord, AppendRecordFails, Write,
       WriteFails, RecordFailure, RecordFailureFails, Sweep, SweepFails, CleanCall, CleanFails,
       CloseRecord, CloseRecordFails, Close, CloseFails, Release, ReleaseFails, Forget, ForgetFails,
       Crash, OtherAcquire, OtherRelease, RecoverLock, RetireToken, locks,
       Claim, Finish, JobFails, LeaseDue, JobIs, UnitDies
  <2>2. phase <= 2 => Untouched
    BY DEF TypeInv, ControlType, Phases, DormantInv, RunDormantInv, WorkspaceReady
  <2>. QED BY <2>1, <2>2, UntouchedDormant DEF DormantInv, LockHeld
<1>. QED BY <1>1, ControllerInvAlways, PTL DEF Spec, GivenBackDormant

(* SweepSucceedsWhenFit: a suffix (_execute_cleanup_suffix) that starts    *)
(* from a state it can undo, and whose calls are answered, is never refused*)
(* by the order of its own calls.                                          *)
THEOREM SweepCorrect == Spec => SweepSucceedsWhenFit
<1>1. /\ TypeInv /\ FitInv /\ [Next]_vars
      => (ctl = "clean" /\ ctl' = "down" => ~fit')
  <2>. SUFFICES ASSUME TypeInv, FitInv, [Next]_vars, ctl = "clean", ctl' = "down"
                PROVE  ~fit'
    OBVIOUS
  <2>1. CleanFails \/ fit' = FALSE
    BY DEF Next, Step, Around, vars, Run, Cleanup, Acquire, AcquireFails, SaveToken,
       SaveTokenFails, Check, CheckFails, Work, WorkFails, AppendRecord, AppendRecordFails, Write,
       WriteFails, RecordFailure, RecordFailureFails, Sweep, SweepFails, CleanCall,
       CloseRecord, CloseRecordFails, Close, CloseFails, Release, ReleaseFails, Forget, ForgetFails,
       Crash, OtherAcquire, OtherRelease, RecoverLock, RetireToken, process, GoTo, Faulted,
       Claim, Finish, JobFails, LeaseDue, JobIs, UnitDies
  <2>2. CASE CleanFails
    <3>1. step \in 1..11 /\ Applies(Suffix[step]) /\ fit' = (fit /\ ~Accepts(Suffix[step]))
      BY <2>2, SuffixCall DEF CleanFails, FailedCall
    <3>. QED BY <3>1, FitAccepts
  <2>. QED BY <2>1, <2>2
<1>. QED BY <1>1, ControllerInvAlways, PTL DEF Spec, SweepSucceedsWhenFit

-----------------------------------------------------------------------------
(* A first run that nothing disturbs.  The tables say, for each place in   *)
(* the handlers, what the calls passed so far have made of Coordinate and  *)
(* of the units; Passed(k, n) is: the first n calls of phase k are done.   *)
Calm == ~fault /\ ~earlier
Place == IF ctl = "check" THEN 1 ELSE step
Passed(k, n) == phase > k \/ (phase = k /\ Place > n)
Between(n, m) == Passed(8, n) /\ ~Passed(8, m)

(* The matrix jobs.  J5 stays pending as long as J3 holds their tree, and  *)
(* J3 does not end before it is reported.                                  *)
JobsTable ==
    /\ ~Passed(8, 3) => job[1] = "none"
    /\ Between(3, 5) => job[1] \in {"pending", "running", "done"}
    /\ Passed(8, 5) => job[1] = "done"
    /\ ~Passed(8, 6) => job[2] = "none"
    /\ Between(6, 8) => job[2] \in {"pending", "running", "done"}
    /\ Passed(8, 8) => job[2] = "done"
    /\ ~Passed(8, 9) => job[3] = "none"
    /\ Between(9, 10) => job[3] \in {"pending", "running"}
    /\ Between(10, 17) => job[3] = "running"
    /\ Between(17, 18) => job[3] \in {"running", "due"}
    /\ Between(18, 19) => job[3] = "due"
    /\ Between(19, 20) => job[3] = "timed_out"
    /\ Between(20, 21) => job[3] \in {"timed_out", "running"}
    /\ Between(21, 23) => job[3] = "running"
    /\ Passed(8, 23) => job[3] = "done"
    /\ ~Passed(8, 11) => job[4] = "none"
    /\ Between(11, 13) => job[4] = "pending"
    /\ Between(13, 15) => job[4] \in {"pending", "running", "done"}
    /\ Passed(8, 15) => job[4] = "done"
    /\ ~Passed(8, 12) => job[5] = "none"
    /\ Between(12, 19) => job[5] = "pending"
    /\ Between(19, 25) => job[5] \in {"pending", "running", "done"}
    /\ Passed(8, 25) => job[5] = "done"

UnitTable ==
    /\ ~Passed(8, 1) => ~defined
    /\ Passed(8, 1) /\ ~Passed(11, 2) => defined
    /\ "e1" \in recorded <=> Passed(8, 2)
    /\ "e2" \in recorded <=> Passed(8, 13)
    /\ "e1" \in running <=> Between(2, 17) \/ (Passed(8, 20) /\ ~Passed(11, 1))
    /\ "e2" \in running <=> Passed(8, 13) /\ ~Passed(11, 2)
    /\ Passed(11, 1) => "e1" \in proof
    /\ Passed(11, 2) => "e2" \in proof

CatalogTable ==
    /\ exec = IF Passed(14, 1) THEN 4 ELSE IF Passed(12, 1) THEN 3
              ELSE IF Passed(7, 1) THEN 2 ELSE IF Passed(5, 1) THEN 1 ELSE 0
    /\ cap = IF Passed(13, 1) THEN 2 ELSE IF Passed(6, 1) THEN 1 ELSE 0

AgentTable ==
    /\ agent["e1"] = IF Passed(15, 1) THEN "offline"
                     ELSE IF Passed(4, 1) THEN "online" ELSE "absent"
    /\ agent["e2"] = IF Passed(15, 2) THEN "offline"
                     ELSE IF Passed(4, 2) THEN "online" ELSE "absent"

Table == JobsTable /\ UnitTable /\ CatalogTable /\ AgentTable

(* Where an undisturbed run can be, and that a failure, of a wait for the  *)
(* renewals of a job that has ended, is one the suffix can clean up.       *)
Fresh == /\ phase = Sealed /\ ~token /\ Untouched /\ exec = 0 /\ cap = 0
         /\ \A a \in Agents : agent[a] = "absent"

CalmInv ==
    Calm =>
        /\ mode = "run"
        /\ ctl # "down" => auth
        /\ ctl = "down" /\ ~auth => Fresh
        /\ ctl = "down" /\ auth => phase = Done /\ lock # "mine" /\ ~token
        /\ ctl \in {"acquire", "save"} => Fresh
        /\ ctl \in {"check", "work", "write"} => Table
        /\ ctl = "write" => step > Len(Handler)
        /\ ctl \in {"failed", "sweep"} => phase # Done /\ Cleanable
        /\ ctl = "clean" => fit
        /\ ctl # "abort"
        /\ ctl \in {"release", "forget"} => phase = Done
        /\ ctl = "forget" => lock # "mine"

(* The calls of the matrix, by kind and argument. *)
(* What each call of the matrix asks, and for which job or agent.          *)
LEMMA MatrixOps ==
    /\ Matrix[1].op = "render"
    /\ Matrix[2].op = "start" /\ Matrix[2].arg = "e1"
    /\ Matrix[3].op = "submit" /\ Matrix[3].arg = 1
    /\ Matrix[4].op = "held" /\ Matrix[4].arg = 1
    /\ Matrix[5].op = "await" /\ Matrix[5].arg = 1
    /\ Matrix[6].op = "submit" /\ Matrix[6].arg = 2
    /\ Matrix[7].op = "held" /\ Matrix[7].arg = 2
    /\ Matrix[8].op = "await" /\ Matrix[8].arg = 2
    /\ Matrix[9].op = "submit" /\ Matrix[9].arg = 3
    /\ Matrix[10].op = "held" /\ Matrix[10].arg = 3
    /\ Matrix[11].op = "submit" /\ Matrix[11].arg = 4
    /\ Matrix[12].op = "submit" /\ Matrix[12].arg = 5
    /\ Matrix[13].op = "start" /\ Matrix[13].arg = "e2"
    /\ Matrix[14].op = "overlap"
    /\ Matrix[15].op = "await" /\ Matrix[15].arg = 4
    /\ Matrix[16].op = "blocked" /\ Matrix[16].arg = 5
    /\ Matrix[17].op = "stop" /\ Matrix[17].arg = "e1"
    /\ Matrix[18].op = "expiry" /\ Matrix[18].arg = 3
    /\ Matrix[19].op = "reap" /\ Matrix[19].arg = 3
    /\ Matrix[20].op = "start" /\ Matrix[20].arg = "e1"
    /\ Matrix[21].op = "held" /\ Matrix[21].arg = 3
    /\ Matrix[22].op = "read"
    /\ Matrix[23].op = "report" /\ Matrix[23].arg = 3
    /\ Matrix[24].op = "held" /\ Matrix[24].arg = 5
    /\ Matrix[25].op = "await" /\ Matrix[25].arg = 5
    /\ Matrix[26].op = "read"
BY MatrixCalls DEF Call

(* Each call of the matrix that is answered makes its row of the table true*)
(* A call of the matrix moves the jobs and the units to their next rows.   *)
LEMMA MatrixWork ==
    ASSUME TypeInv, Table, Work, phase = 8
    PROVE  JobsTable' /\ UnitTable'
<1>. DEFINE c == Matrix[step]
<1>1. /\ ctl = "work" /\ ctl' = "work" /\ phase' = 8 /\ step' = step + 1
      /\ step \in 1..26 /\ Effect(c, TRUE)
  BY WorkCall, CallAt DEF Work, files
<1>2. Accepts(c)
  BY <1>1, EffectFacts
<1>3. /\ \A k, n : Passed(k, n) <=> 8 > k \/ (8 = k /\ step > n)
      /\ \A k, n : Passed(k, n)' <=> 8 > k \/ (8 = k /\ step + 1 > n)
  BY <1>1 DEF Passed, Place
<1>4. JobsTable /\ UnitTable /\ job \in [Labels -> JobStatus]
  BY DEF Table, TypeInv, WorldType
<1>5. /\ c.op \notin {"submit", "reap", "report"} => job' = job
      /\ c.op \notin {"start", "stop"} => running' = running
      /\ c.op # "start" => recorded' = recorded
      /\ c.op \notin {"render", "clean"} => defined' = defined
      /\ proof \subseteq proof'
  BY <1>1, EffectFacts
<1>6. c.op = "submit" => \A j \in Labels : job'[j] = IF j = c.arg THEN "pending" ELSE job[j]
  BY <1>1, <1>4, EffectFacts
<1>7. c.op = "reap" => \A j \in Labels : job'[j] = IF j = c.arg THEN "timed_out" ELSE job[j]
  BY <1>1, <1>4, EffectFacts
<1>8. c.op = "report" => \A j \in Labels : job'[j] = IF j = c.arg THEN "done" ELSE job[j]
  BY <1>1, <1>4, EffectFacts
<1>9. c.op = "start" => running' = running \cup {c.arg} /\ recorded' = recorded \cup {c.arg}
  BY <1>1, EffectFacts
<1>10. c.op = "stop" => running' = running \ {c.arg}
  BY <1>1, EffectFacts
<1>11. c.op = "render" => defined'
  BY <1>1, EffectFacts
<1>12. \/ step = 1 \/ step = 2 \/ step = 3 \/ step = 4 \/ step = 5 \/ step = 6 \/ step = 7
       \/ step = 8 \/ step = 9 \/ step = 10 \/ step = 11 \/ step = 12 \/ step = 13
       \/ step = 14 \/ step = 15 \/ step = 16 \/ step = 17 \/ step = 18 \/ step = 19
       \/ step = 20 \/ step = 21 \/ step = 22 \/ step = 23 \/ step = 24 \/ step = 25
       \/ step = 26
  BY <1>1
<1>. USE <1>1, <1>3, <1>4 DEF JobsTable, UnitTable, Between, Labels
<1>13. CASE step = 1
  BY <1>5, <1>11, <1>13, MatrixOps
<1>14. CASE step = 2
  BY <1>5, <1>9, <1>14, MatrixOps
<1>15. CASE step = 3
  BY <1>5, <1>6, <1>15, MatrixOps
<1>16. CASE step = 4
  BY <1>2, <1>5, <1>16, MatrixOps DEF Accepts
<1>17. CASE step = 5
  BY <1>2, <1>5, <1>17, MatrixOps DEF Accepts
<1>18. CASE step = 6
  BY <1>5, <1>6, <1>18, MatrixOps
<1>19. CASE step = 7
  BY <1>2, <1>5, <1>19, MatrixOps DEF Accepts
<1>20. CASE step = 8
  BY <1>2, <1>5, <1>20, MatrixOps DEF Accepts
<1>21. CASE step = 9
  BY <1>5, <1>6, <1>21, MatrixOps
<1>22. CASE step = 10
  BY <1>2, <1>5, <1>22, MatrixOps DEF Accepts
<1>23. CASE step = 11
  BY <1>5, <1>6, <1>23, MatrixOps
<1>24. CASE step = 12
  BY <1>5, <1>6, <1>24, MatrixOps
<1>25. CASE step = 13
  BY <1>5, <1>9, <1>25, MatrixOps
<1>26. CASE step = 14
  BY <1>2, <1>5, <1>26, MatrixOps DEF Accepts
<1>27. CASE step = 15
  BY <1>2, <1>5, <1>27, MatrixOps DEF Accepts
<1>28. CASE step = 16
  BY <1>2, <1>5, <1>28, MatrixOps DEF Accepts
<1>29. CASE step = 17
  BY <1>5, <1>10, <1>29, MatrixOps
<1>30. CASE step = 18
  BY <1>2, <1>5, <1>30, MatrixOps DEF Accepts
<1>31. CASE step = 19
  BY <1>5, <1>7, <1>31, MatrixOps
<1>32. CASE step = 20
  BY <1>5, <1>9, <1>32, MatrixOps
<1>33. CASE step = 21
  BY <1>2, <1>5, <1>33, MatrixOps DEF Accepts
<1>34. CASE step = 22
  BY <1>5, <1>34, MatrixOps
<1>35. CASE step = 23
  BY <1>5, <1>8, <1>35, MatrixOps
<1>36. CASE step = 24
  BY <1>2, <1>5, <1>36, MatrixOps DEF Accepts
<1>37. CASE step = 25
  BY <1>2, <1>5, <1>37, MatrixOps DEF Accepts
<1>38. CASE step = 26
  BY <1>5, <1>38, MatrixOps
<1>. HIDE <1>1, <1>3, <1>4 DEF JobsTable, UnitTable, Between, Labels
<1>. QED BY <1>12, <1>13, <1>14, <1>15, <1>16, <1>17, <1>18, <1>19, <1>20,
         <1>21, <1>22, <1>23, <1>24, <1>25, <1>26, <1>27, <1>28, <1>29,
         <1>30, <1>31, <1>32, <1>33, <1>34, <1>35, <1>36, <1>37, <1>38

(* The calls of the other handlers.                                        *)
LEMMA OtherOps ==
    ASSUME phase \in 0..17, step \in 1..Len(Handler), phase # 8
    PROVE  LET c == Handler[step] IN
           /\ phase \notin {1, 10}
           /\ phase \in {0, 2, 3, 9, 16} => step = 1 /\ c.op = "read"
           /\ phase = 4 => c.op = "register"
           /\ phase = 15 => c.op = "deactivate"
           /\ phase \in {4, 15} => step \in 1..2 /\ c.arg = IF step = 1 THEN "e1" ELSE "e2"
           /\ phase \in {5, 7, 12, 14} => step = 1 /\ c.op = "executor"
           /\ phase = 5 => c.arg = 1
           /\ phase = 7 => c.arg = 2
           /\ phase = 12 => c.arg = 3
           /\ phase = 14 => c.arg = 4
           /\ phase \in {6, 13} => step = 1 /\ c.op = "capacity"
           /\ phase = 6 => c.arg = 1
           /\ phase = 13 => c.arg = 2
           /\ phase = 11 => step \in 1..4
           /\ phase = 11 /\ step = 1 => c.op = "stop" /\ c.arg = "e1"
           /\ phase = 11 /\ step = 2 => c.op = "stop" /\ c.arg = "e2"
           /\ phase = 11 /\ step = 3 => c.op = "clean" /\ c.arg = "e1"
           /\ phase = 11 /\ step = 4 => c.op = "clean" /\ c.arg = "e2"
           /\ phase = 17 => step = 1 /\ c.op = "final"
<1>. DEFINE c == Handler[step]
            e == IF step = 1 THEN "e1" ELSE "e2"
            o == IF step <= 2 THEN "stop" ELSE "clean"
            f == IF step \in {1, 3} THEN "e1" ELSE "e2"
<1>1. /\ step = 1 => o = "stop" /\ f = "e1"
      /\ step = 2 => o = "stop" /\ f = "e2"
      /\ step = 3 => o = "clean" /\ f = "e1"
      /\ step = 4 => o = "clean" /\ f = "e2"
  OBVIOUS
<1>2. \A op, a : c = Call(op, a) => c.op = op /\ c.arg = a
  BY DEF Call
<1>3. /\ phase = 4 => step \in 1..2 /\ c = Call("register", e)
      /\ phase = 15 => step \in 1..2 /\ c = Call("deactivate", e)
  BY CallAt
<1>4. phase = 11 => step \in 1..4 /\ c = Call(o, f)
  BY CallAt
<1>5. /\ phase \in {0, 2, 3, 9, 16} => step = 1 /\ c = Call("read", 0)
      /\ phase \notin {1, 10}
      /\ phase = 5 => step = 1 /\ c = Call("executor", 1)
      /\ phase = 6 => step = 1 /\ c = Call("capacity", 1)
      /\ phase = 7 => step = 1 /\ c = Call("executor", 2)
      /\ phase = 12 => step = 1 /\ c = Call("executor", 3)
      /\ phase = 13 => step = 1 /\ c = Call("capacity", 2)
      /\ phase = 14 => step = 1 /\ c = Call("executor", 4)
      /\ phase = 17 => step = 1 /\ c = Call("final", 0)
  BY CallAt
<1>. HIDE DEF c, o, f
<1>6. /\ phase \notin {1, 10}
      /\ phase \in {0, 2, 3, 9, 16} => step = 1 /\ c.op = "read"
      /\ phase \in {5, 7, 12, 14} => step = 1 /\ c.op = "executor"
      /\ phase = 5 => c.arg = 1
      /\ phase = 7 => c.arg = 2
      /\ phase = 12 => c.arg = 3
      /\ phase = 14 => c.arg = 4
      /\ phase \in {6, 13} => step = 1 /\ c.op = "capacity"
      /\ phase = 6 => c.arg = 1
      /\ phase = 13 => c.arg = 2
      /\ phase = 17 => step = 1 /\ c.op = "final"
  BY <1>2, <1>5
<1>7. /\ phase = 4 => step \in 1..2 /\ c.op = "register" /\ c.arg = e
      /\ phase = 15 => step \in 1..2 /\ c.op = "deactivate" /\ c.arg = e
  BY <1>2, <1>3
<1>8. /\ phase = 11 => step \in 1..4 /\ c.op = o /\ c.arg = f
  BY <1>2, <1>4
<1>. QED BY <1>1, <1>6, <1>7, <1>8 DEF c

(* Jobs that stay as they are stay in the row of a place of the matrix.     *)
LEMMA SameJobs ==
    ASSUME JobsTable, job' = job, \A n \in 1..26 : Passed(8, n)' <=> Passed(8, n)
    PROVE  JobsTable'
<1>1. /\ Passed(8, 3)' <=> Passed(8, 3)
      /\ Passed(8, 5)' <=> Passed(8, 5)
      /\ Passed(8, 6)' <=> Passed(8, 6)
      /\ Passed(8, 8)' <=> Passed(8, 8)
      /\ Passed(8, 9)' <=> Passed(8, 9)
      /\ Passed(8, 11)' <=> Passed(8, 11)
      /\ Passed(8, 12)' <=> Passed(8, 12)
      /\ Passed(8, 15)' <=> Passed(8, 15)
      /\ Passed(8, 23)' <=> Passed(8, 23)
      /\ Passed(8, 25)' <=> Passed(8, 25)
  OBVIOUS
<1>2. \A n, m \in 1..26 : Between(n, m)' <=> Between(n, m)
  BY DEF Between
<1>3. /\ Between(3, 5)' <=> Between(3, 5)
      /\ Between(6, 8)' <=> Between(6, 8)
      /\ Between(9, 10)' <=> Between(9, 10)
      /\ Between(10, 17)' <=> Between(10, 17)
      /\ Between(17, 18)' <=> Between(17, 18)
      /\ Between(18, 19)' <=> Between(18, 19)
      /\ Between(19, 20)' <=> Between(19, 20)
      /\ Between(20, 21)' <=> Between(20, 21)
      /\ Between(21, 23)' <=> Between(21, 23)
      /\ Between(11, 13)' <=> Between(11, 13)
      /\ Between(13, 15)' <=> Between(13, 15)
      /\ Between(12, 19)' <=> Between(12, 19)
      /\ Between(19, 25)' <=> Between(19, 25)
  BY <1>2
<1>4. JobsTable /\ job' = job
  OBVIOUS
<1>. QED BY ONLY <1>1, <1>3, <1>4 DEF JobsTable

(* A call of any handler moves the tables to its next place.               *)
LEMMA WorkTable ==
    ASSUME TypeInv, Table, Work
    PROVE  Table'
<1>. DEFINE c == Handler[step]
<1>1. /\ ctl = "work" /\ ctl' = "work" /\ phase' = phase /\ phase \in 0..17 /\ step' = step + 1
      /\ step \in 1..Len(Handler) /\ step \in Nat /\ Effect(c, TRUE)
  BY WorkCall DEF Work, files, TypeInv, ControlType
<1>2. /\ \A k, n : Passed(k, n) <=> phase > k \/ (phase = k /\ step > n)
      /\ \A k, n : Passed(k, n)' <=> phase > k \/ (phase = k /\ step + 1 > n)
  BY <1>1 DEF Passed, Place
<1>3. JobsTable /\ UnitTable /\ CatalogTable /\ AgentTable
  BY DEF Table
<1>5. phase # 8 =>
        /\ phase \notin {1, 10}
        /\ phase \in {0, 2, 3, 9, 16} => step = 1 /\ c.op = "read"
        /\ phase = 4 => c.op = "register"
        /\ phase = 15 => c.op = "deactivate"
        /\ phase \in {4, 15} => step \in 1..2 /\ c.arg = IF step = 1 THEN "e1" ELSE "e2"
        /\ phase \in {5, 7, 12, 14} => step = 1 /\ c.op = "executor"
        /\ phase = 5 => c.arg = 1
        /\ phase = 7 => c.arg = 2
        /\ phase = 12 => c.arg = 3
        /\ phase = 14 => c.arg = 4
        /\ phase \in {6, 13} => step = 1 /\ c.op = "capacity"
        /\ phase = 6 => c.arg = 1
        /\ phase = 13 => c.arg = 2
        /\ phase = 11 => step \in 1..4
        /\ phase = 11 /\ step = 1 => c.op = "stop" /\ c.arg = "e1"
        /\ phase = 11 /\ step = 2 => c.op = "stop" /\ c.arg = "e2"
        /\ phase = 11 /\ step = 3 => c.op = "clean"
        /\ phase = 11 /\ step = 4 => c.op = "clean"
        /\ phase = 17 => step = 1 /\ c.op = "final"
  BY <1>1, OtherOps
<1>4. JobsTable' /\ UnitTable'
  <2>1. CASE phase = 8
    BY <2>1, MatrixWork
  <2>2. CASE phase # 8
    <3>. HIDE DEF c
    <3>1. /\ c.op \in {"read", "register", "executor", "capacity", "stop", "clean", "deactivate", "final"}
          /\ phase # 11 => c.op \notin {"stop", "clean"}
      <4>1. phase \in 0..17
        BY <1>1
      <4>. QED BY <2>2, <1>5, <4>1
    <3>2. job' = job /\ recorded' = recorded /\ proof \subseteq proof'
      BY <1>1, <3>1, EffectFacts
    <3>3. JobsTable'
      <4>1. \A n \in 1..26 : Passed(8, n)' <=> Passed(8, n)
        BY <1>1, <1>2, <2>2
      <4>. QED BY <1>3, <3>2, <4>1, SameJobs
    <3>4. CASE phase # 11
      <4>1. running' = running /\ defined' = defined
        BY <1>1, <3>1, <3>4, EffectFacts
      <4>. QED BY <1>1, <1>2, <1>3, <2>2, <3>2, <3>3, <3>4, <4>1 DEF UnitTable, Between
    <3>5. CASE phase = 11
      <4>1. step \in 1..4 /\ (step <= 2 => c.op = "stop") /\ (step > 2 => c.op = "clean")
        BY <1>5, <2>2, <3>5
      <4>2. /\ running' = IF step = 1 THEN running \ {"e1"}
                         ELSE IF step = 2 THEN running \ {"e2"} ELSE running
            /\ step <= 2 => defined' = defined
        <5>1. /\ c.op = "stop" => running' = running \ {c.arg}
              /\ c.op = "clean" => running' = running
              /\ c.op = "stop" => defined' = defined
          BY <1>1, EffectFacts
        <5>. QED BY <1>5, <2>2, <3>5, <4>1, <5>1
      <4>3. (step = 1 => "e1" \in proof') /\ (step = 2 => "e2" \in proof')
        BY <1>1, <1>5, <2>2, <3>5, <4>1, EffectFacts
      <4>4. UnitTable'
        BY <1>1, <1>2, <1>3, <3>2, <3>5, <4>1, <4>2, <4>3 DEF UnitTable, Between
      <4>. QED BY <3>3, <4>4
    <3>. QED BY <3>4, <3>5
  <2>. QED BY <2>1, <2>2
<1>6. /\ phase \notin {5, 7, 12, 14} => c.op # "executor"
      /\ phase \notin {6, 13} => c.op # "capacity"
      /\ phase \notin {4, 15} => c.op \notin {"register", "deactivate"}
  <2>1. CASE phase = 8
    <3>1. Handler = Matrix /\ step \in 1..26
      BY <1>1, <2>1, CallAt
    <3>2. \A i \in 1..26 : Matrix[i].op \notin {"executor", "capacity", "register", "deactivate"}
      BY DEF Matrix, Call
    <3>. QED BY <2>1, <3>1, <3>2
  <2>2. CASE phase # 8
    <3>. HIDE DEF c
    <3>1. phase \in 0..17 /\ phase \notin {1, 8, 10}
      BY <1>1, <1>5, <2>2
    <3>. QED BY <1>5, <2>2, <3>1
  <2>. QED BY <2>1, <2>2
<1>. HIDE DEF c
<1>7. CatalogTable'
  <2>1. /\ exec' = IF c.op = "executor" THEN c.arg ELSE exec
        /\ cap' = IF c.op = "capacity" THEN c.arg ELSE cap
    BY <1>1, EffectFacts
  <2>2. exec' = IF Passed(14, 1)' THEN 4 ELSE IF Passed(12, 1)' THEN 3
                ELSE IF Passed(7, 1)' THEN 2 ELSE IF Passed(5, 1)' THEN 1 ELSE 0
    BY <1>1, <1>2, <1>3, <1>5, <1>6, <2>1 DEF CatalogTable
  <2>3. cap' = IF Passed(13, 1)' THEN 2 ELSE IF Passed(6, 1)' THEN 1 ELSE 0
    BY <1>1, <1>2, <1>3, <1>5, <1>6, <2>1 DEF CatalogTable
  <2>. QED BY <2>2, <2>3 DEF CatalogTable
<1>8. AgentTable'
  <2>1. /\ c.op = "register" => agent' = [agent EXCEPT ![c.arg] = "online"]
        /\ c.op = "deactivate" => agent' = [agent EXCEPT ![c.arg] = "offline"]
        /\ c.op \notin {"register", "deactivate"} => agent' = agent
    BY <1>1, EffectFacts
  <2>2. DOMAIN agent = {"e1", "e2"}
    BY DEF TypeInv, WorldType, Agents
  <2>3. CASE phase \notin {4, 15}
    BY <1>1, <1>2, <1>3, <1>6, <2>1, <2>3 DEF AgentTable
  <2>4. CASE phase = 4
    <3>1. agent'["e1"] = (IF step = 1 THEN "online" ELSE agent["e1"])
          /\ agent'["e2"] = (IF step = 2 THEN "online" ELSE agent["e2"])
      BY <1>5, <2>1, <2>2, <2>4
    <3>. QED BY <1>1, <1>2, <1>3, <1>5, <2>4, <3>1 DEF AgentTable
  <2>5. CASE phase = 15
    <3>1. agent'["e1"] = (IF step = 1 THEN "offline" ELSE agent["e1"])
          /\ agent'["e2"] = (IF step = 2 THEN "offline" ELSE agent["e2"])
      BY <1>5, <2>1, <2>2, <2>5
    <3>. QED BY <1>1, <1>2, <1>3, <1>5, <2>5, <3>1 DEF AgentTable
  <2>. QED BY <2>3, <2>4, <2>5
<1>. QED BY <1>4, <1>7, <1>8 DEF Table

(* A job of the matrix moves within its row; nothing else moves.           *)
LEMMA AroundTable ==
    ASSUME TypeInv, Table, JobMoves \/ (\E a \in Agents : UnitDies(a)), ~fault',
           ctl \in {"check", "work", "write"}
    PROVE  Table'
<1>1. PICK j \in Labels : Claim(j) \/ Finish(j) \/ LeaseDue(j)
  BY DEF JobMoves, JobFails, UnitDies, Faulted
<1>2. UNCHANGED <<phase, ctl, step, exec, cap, agent, running, recorded, proof, defined>>
  BY <1>1 DEF Claim, Finish, LeaseDue, JobIs, files, process, catalogs, units
<1>3. \A k, n : Passed(k, n)' <=> Passed(k, n)
  BY <1>2 DEF Passed, Place
<1>4. JobsTable /\ UnitTable /\ CatalogTable /\ AgentTable /\ job \in [Labels -> JobStatus]
  BY DEF Table, TypeInv, WorldType
<1>5. UnitTable' /\ CatalogTable' /\ AgentTable'
  BY <1>2, <1>3, <1>4 DEF UnitTable, CatalogTable, AgentTable, Between
<1>6. phase \in Nat /\ \A k, m, n \in Nat : m <= n /\ Passed(k, n) => Passed(k, m)
  BY DEF TypeInv, ControlType, Phases, Passed, Place
<1>7. \A m \in Nat : Passed(11, m) => \A n \in Nat : Passed(8, n)
  BY <1>6 DEF Passed
<1>8. \A i \in Labels \ {j} : job'[i] = job[i]
  BY <1>1, <1>4 DEF Claim, Finish, LeaseDue, JobIs
<1>9. AgentOf[1] = "e1" /\ AgentOf[2] = "e1" /\ AgentOf[3] = "e1" /\ AgentOf[4] = "e2" /\ AgentOf[5] = "e2"
      /\ TreeOf[3] = "w1" /\ TreeOf[5] = "w1"
  BY DEF AgentOf, TreeOf
<1>10. JobsTable'
  <2>1. CASE Claim(j)
    <3>1. /\ AgentOf[j] \in running /\ job[j] \in {"pending", "timed_out"} /\ job'[j] = "running"
          /\ \A k \in Labels : job[k] \in {"running", "due"} => TreeOf[k] # TreeOf[j]
      BY <1>4, <2>1 DEF Claim, JobIs
    <3>. QED BY <1>3, <1>4, <1>6, <1>7, <1>8, <1>9, <3>1 DEF JobsTable, UnitTable, Between, Labels
  <2>2. CASE Finish(j)
    <3>1. j # 3 /\ job[j] = "running" /\ job'[j] = "done"
      BY <1>4, <2>2 DEF Finish, JobIs
    <3>. QED BY <1>3, <1>4, <1>6, <1>7, <1>8, <1>9, <3>1 DEF JobsTable, UnitTable, Between, Labels
  <2>3. CASE LeaseDue(j)
    <3>1. AgentOf[j] \notin running /\ job[j] = "running" /\ job'[j] = "due"
      BY <1>4, <2>3 DEF LeaseDue, JobIs
    <3>. QED BY <1>3, <1>4, <1>6, <1>7, <1>8, <1>9, <3>1 DEF JobsTable, UnitTable, Between, Labels
  <2>. QED BY <1>1, <2>1, <2>2, <2>3
<1>. QED BY <1>5, <1>10 DEF Table

(* A handler that is done leaves the tables as they are in the next phase. *)
LEMMA WriteTable ==
    ASSUME TypeInv, Table, Write, tail # Done, step > Len(Handler)
    PROVE  Table'
<1>1. /\ ctl = "write" /\ ctl' = "check" /\ phase' = phase + 1 /\ phase \in 0..17
      /\ step \in Nat
      /\ UNCHANGED <<exec, cap, agent, running, recorded, proof, defined, job>>
  BY DEF Write, TypeInv, ControlType, Phases, Done, GoTo, world, catalogs, units, jobs
<1>2. /\ phase = 8 => step > 26
      /\ phase \in {4, 15} => step > 2
      /\ phase = 11 => step > 4
      /\ phase \in {5, 6, 7, 12, 13, 14} => step > 1
  <2>1. ASSUME NEW k \in 0..17, phase = k PROVE Len(Handler) = Len(Handlers[k + 1])
    BY <2>1 DEF Handler
  <2>2. Len(Matrix) = 26 /\ Len(Quiesce) = 4
    BY DEF Matrix, Quiesce
  <2>3. /\ Len(Handlers[9]) = 26 /\ Len(Handlers[5]) = 2 /\ Len(Handlers[16]) = 2
        /\ Len(Handlers[12]) = 4 /\ Len(Handlers[6]) = 1 /\ Len(Handlers[7]) = 1
        /\ Len(Handlers[8]) = 1 /\ Len(Handlers[13]) = 1 /\ Len(Handlers[14]) = 1
        /\ Len(Handlers[15]) = 1
    BY <2>2, HandlerCalls DEF Offline
  <2>4. /\ phase = 8 => Len(Handler) = 26
        /\ phase = 4 => Len(Handler) = 2
        /\ phase = 15 => Len(Handler) = 2
        /\ phase = 11 => Len(Handler) = 4
    BY <2>1, <2>3
  <2>5. /\ phase = 5 => Len(Handler) = 1
        /\ phase = 6 => Len(Handler) = 1
        /\ phase = 7 => Len(Handler) = 1
        /\ phase = 12 => Len(Handler) = 1
        /\ phase = 13 => Len(Handler) = 1
        /\ phase = 14 => Len(Handler) = 1
    BY <2>1, <2>3
  <2>. QED BY <2>4, <2>5
<1>3. /\ \A k, n : Passed(k, n) <=> phase > k \/ (phase = k /\ step > n)
      /\ \A k, n : Passed(k, n)' <=> phase + 1 > k \/ (phase + 1 = k /\ 1 > n)
  BY <1>1 DEF Passed, Place
<1>4. /\ \A n \in 1..26 : Passed(8, n)' <=> Passed(8, n)
      /\ \A n \in 1..4 : Passed(11, n)' <=> Passed(11, n)
      /\ \A k \in {4, 15} : \A n \in 1..2 : Passed(k, n)' <=> Passed(k, n)
      /\ \A k \in {5, 6, 7, 12, 13, 14} : Passed(k, 1)' <=> Passed(k, 1)
  <2>1. \A n \in 1..26 : Passed(8, n)' <=> Passed(8, n)
    BY <1>1, <1>2, <1>3
  <2>2. \A n \in 1..4 : Passed(11, n)' <=> Passed(11, n)
    BY <1>1, <1>2, <1>3
  <2>3. \A n \in 1..2 : (Passed(4, n)' <=> Passed(4, n)) /\ (Passed(15, n)' <=> Passed(15, n))
    BY <1>1, <1>2, <1>3
  <2>4. ASSUME NEW k \in {5, 6, 7, 12, 13, 14} PROVE Passed(k, 1)' <=> Passed(k, 1)
    BY <1>1, <1>2, <1>3
  <2>. QED BY <2>1, <2>2, <2>3, <2>4
<1>5. JobsTable /\ UnitTable /\ CatalogTable /\ AgentTable
  BY DEF Table
<1>6. JobsTable' /\ UnitTable'
  <2>1. \A n \in 1..26 : Passed(8, n)' <=> Passed(8, n)
    BY <1>4
  <2>2. (Passed(11, 1)' <=> Passed(11, 1)) /\ (Passed(11, 2)' <=> Passed(11, 2))
    BY <1>4
  <2>3. JobsTable'
    BY <1>1, <1>5, <2>1, SameJobs
  <2>4. UnitTable'
    <3>1. UnitTable /\ UNCHANGED <<running, recorded, proof, defined>>
      BY <1>1, <1>5
    <3>2. /\ Passed(8, 1)' <=> Passed(8, 1)
          /\ Passed(8, 2)' <=> Passed(8, 2)
          /\ Passed(8, 13)' <=> Passed(8, 13)
          /\ Passed(8, 17)' <=> Passed(8, 17)
          /\ Passed(8, 20)' <=> Passed(8, 20)
      BY <2>1
    <3>. QED BY <2>2, <3>1, <3>2 DEF UnitTable, Between
  <2>. QED BY <2>3, <2>4
<1>7. CatalogTable' /\ AgentTable'
  BY <1>1, <1>4, <1>5 DEF CatalogTable, AgentTable
<1>. QED BY <1>6, <1>7 DEF Table

(* What the tables say is accepted, all but the waits.                     *)
LEMMA TableAccepts ==
    ASSUME TypeInv, Table, ctl = "work", phase \in 0..17, step \in 1..Len(Handler),
           Handler[step].op \notin Waits
    PROVE  Accepts(Handler[step])
<1>. DEFINE c == Handler[step]
<1>1. JobsTable /\ UnitTable /\ CatalogTable /\ AgentTable
      /\ exec \in 0..4 /\ cap \in 0..2
      /\ running \subseteq {"e1", "e2"} /\ recorded \subseteq {"e1", "e2"}
  BY DEF Table, TypeInv, WorldType, Agents
<1>2. \A k, n : Passed(k, n) <=> phase > k \/ (phase = k /\ step > n)
  BY DEF Passed, Place
<1>3. CASE phase = 8
  <2>1. c = Matrix[step] /\ step \in 1..26
    BY <1>3, CallAt
  <2>2. Matrix[step].op \notin Waits
    BY <2>1
  <2>3. agent["e1"] = "online" /\ agent["e2"] = "online"
    BY <1>1, <1>2, <1>3 DEF AgentTable
  <2>10. \A k, n : Passed(k, n) <=> 8 > k \/ (8 = k /\ step > n)
    BY <1>2, <1>3
  <2>4. AgentOf[1] = "e1" /\ AgentOf[2] = "e1" /\ AgentOf[3] = "e1" /\ AgentOf[4] = "e2" /\ AgentOf[5] = "e2"
    BY DEF AgentOf
  <2>5. /\ step = 1 => "e1" \notin recorded /\ "e2" \notin recorded /\ ~defined
        /\ step \in {2, 20} => defined /\ "e1" \notin running
        /\ step = 13 => defined /\ "e2" \notin running
        /\ step = 17 => defined /\ "e1" \in recorded
    BY <1>1, <2>1, <2>10 DEF UnitTable, Between
  <2>6. /\ step = 3 => job[1] = "none"
        /\ step = 6 => job[2] = "none"
        /\ step = 9 => job[3] = "none"
        /\ step = 11 => job[4] = "none"
        /\ step = 12 => job[5] = "none"
        /\ step = 16 => job[5] = "pending" /\ job[3] = "running"
        /\ step = 19 => job[3] = "due"
        /\ step = 23 => job[3] = "running"
    <3>2. /\ step = 3 => ~Passed(8, 3)
          /\ step = 6 => ~Passed(8, 6)
          /\ step = 9 => ~Passed(8, 9)
          /\ step = 11 => ~Passed(8, 11)
          /\ step = 12 => ~Passed(8, 12)
      BY <2>10
    <3>3. /\ step = 16 => Between(12, 19) /\ Between(10, 17)
          /\ step = 19 => Between(18, 19)
          /\ step = 23 => Between(21, 23)
      BY <2>10 DEF Between
    <3>4. JobsTable
      BY <1>1
    <3>. QED BY <3>2, <3>3, <3>4 DEF JobsTable
  <2>7. step = 1 => recorded = {}
    BY <1>1, <2>5
  <2>14. ASSUME NEW d, NEW i
         PROVE  /\ d.op = "read" => Accepts(d)
                /\ d.op = "render" /\ ~defined /\ recorded = {} => Accepts(d)
                /\ d.op = "start" /\ defined /\ d.arg \notin running => Accepts(d)
                /\ d.op = "stop" /\ defined /\ d.arg \in recorded => Accepts(d)
                /\ d.op = "submit" /\ d.arg = i /\ job[i] = "none" /\ agent[AgentOf[i]] = "online" => Accepts(d)
                /\ d.op = "blocked" /\ d.arg = i /\ job[i] = "pending" /\ job[3] = "running" => Accepts(d)
                /\ d.op = "reap" /\ d.arg = i /\ job[i] = "due" => Accepts(d)
                /\ d.op = "report" /\ d.arg = i /\ job[i] = "running" => Accepts(d)
    BY DEF Accepts
  <2>15. /\ agent[AgentOf[1]] = "online" /\ agent[AgentOf[2]] = "online" /\ agent[AgentOf[3]] = "online"
         /\ agent[AgentOf[4]] = "online" /\ agent[AgentOf[5]] = "online"
    BY <2>3, <2>4
  <2>8. ASSUME step \in {1, 2, 13, 17, 20} PROVE Accepts(Matrix[step])
    <3>1. CASE step = 1
      BY <2>5, <2>7, <3>1, <2>14, MatrixOps
    <3>2. CASE step = 2
      BY <2>5, <3>2, <2>14, MatrixOps
    <3>3. CASE step = 13
      BY <2>5, <3>3, <2>14, MatrixOps
    <3>4. CASE step = 17
      BY <2>5, <3>4, <2>14, MatrixOps
    <3>5. CASE step = 20
      BY <2>5, <3>5, <2>14, MatrixOps
    <3>. QED BY <2>8, <3>1, <3>2, <3>3, <3>4, <3>5
  <2>9. ASSUME step \in {3, 6, 9, 11, 12} PROVE Accepts(Matrix[step])
    <3>1. CASE step = 3
      <4>1. Matrix[3].op = "submit" /\ Matrix[3].arg = 1
        BY MatrixOps
      <4>2. job[1] = "none"
        BY <2>6, <3>1
      <4>. QED BY <2>14, <2>15, <3>1, <4>1, <4>2
    <3>2. CASE step = 6
      <4>1. Matrix[6].op = "submit" /\ Matrix[6].arg = 2
        BY MatrixOps
      <4>2. job[2] = "none"
        BY <2>6, <3>2
      <4>. QED BY <2>14, <2>15, <3>2, <4>1, <4>2
    <3>3. CASE step = 9
      <4>1. Matrix[9].op = "submit" /\ Matrix[9].arg = 3
        BY MatrixOps
      <4>2. job[3] = "none"
        BY <2>6, <3>3
      <4>. QED BY <2>14, <2>15, <3>3, <4>1, <4>2
    <3>4. CASE step = 11
      <4>1. Matrix[11].op = "submit" /\ Matrix[11].arg = 4
        BY MatrixOps
      <4>2. job[4] = "none"
        BY <2>6, <3>4
      <4>. QED BY <2>14, <2>15, <3>4, <4>1, <4>2
    <3>5. CASE step = 12
      <4>1. Matrix[12].op = "submit" /\ Matrix[12].arg = 5
        BY MatrixOps
      <4>2. job[5] = "none"
        BY <2>6, <3>5
      <4>. QED BY <2>14, <2>15, <3>5, <4>1, <4>2
    <3>. QED BY <2>9, <3>1, <3>2, <3>3, <3>4, <3>5
  <2>11. ASSUME step \in {16, 19, 22, 23, 26} PROVE Accepts(Matrix[step])
    <3>1. CASE step = 16
      <4>1. Matrix[16].op = "blocked" /\ Matrix[16].arg = 5
        BY MatrixOps
      <4>2. job[5] = "pending" /\ job[3] = "running"
        BY <2>6, <3>1
      <4>. QED BY <2>14, <3>1, <4>1, <4>2
    <3>2. CASE step = 19
      <4>1. Matrix[19].op = "reap" /\ Matrix[19].arg = 3
        BY MatrixOps
      <4>2. job[3] = "due"
        BY <2>6, <3>2
      <4>. QED BY <2>14, <3>2, <4>1, <4>2
    <3>3. CASE step = 23
      <4>1. Matrix[23].op = "report" /\ Matrix[23].arg = 3
        BY MatrixOps
      <4>2. job[3] = "running"
        BY <2>6, <3>3
      <4>. QED BY <2>14, <3>3, <4>1, <4>2
    <3>4. CASE step = 22
      BY <3>4, <2>14, MatrixOps
    <3>5. CASE step = 26
      BY <3>5, <2>14, MatrixOps
    <3>. QED BY <2>11, <3>1, <3>2, <3>3, <3>4, <3>5
  <2>12. step \notin {4, 5, 7, 8, 10, 14, 15, 18, 21, 24, 25}
    <3>1. /\ step = 4 => Matrix[step].op = "held"
          /\ step = 7 => Matrix[step].op = "held"
          /\ step = 10 => Matrix[step].op = "held"
          /\ step = 21 => Matrix[step].op = "held"
          /\ step = 24 => Matrix[step].op = "held"
      BY MatrixOps
    <3>2. /\ step = 5 => Matrix[step].op = "await"
          /\ step = 8 => Matrix[step].op = "await"
          /\ step = 15 => Matrix[step].op = "await"
          /\ step = 25 => Matrix[step].op = "await"
      BY MatrixOps
    <3>3. /\ step = 14 => Matrix[step].op = "overlap"
          /\ step = 18 => Matrix[step].op = "expiry"
      BY MatrixOps
    <3>. QED BY <2>2, <3>1, <3>2, <3>3 DEF Waits
  <2>13. step \in {1, 2, 13, 17, 20} \/ step \in {3, 6, 9, 11, 12} \/ step \in {16, 19, 22, 23, 26}
    BY <2>1, <2>12
  <2>. QED BY <2>1, <2>8, <2>9, <2>11, <2>13
<1>4. CASE phase # 8
  <2>. SUFFICES Accepts(c)
    OBVIOUS
  <2>1. /\ phase \notin {1, 10}
        /\ phase \in {0, 2, 3, 9, 16} => c.op = "read"
        /\ phase = 4 => c.op = "register"
        /\ phase = 15 => c.op = "deactivate" /\ c.arg \in {"e1", "e2"}
        /\ phase \in {5, 7, 12, 14} => step = 1 /\ c.op = "executor"
        /\ phase = 5 => c.arg = 1
        /\ phase = 7 => c.arg = 2
        /\ phase = 12 => c.arg = 3
        /\ phase = 14 => c.arg = 4
        /\ phase \in {6, 13} => step = 1 /\ c.op = "capacity"
        /\ phase = 6 => c.arg = 1
        /\ phase = 13 => c.arg = 2
        /\ phase = 11 => step \in 1..4
        /\ phase = 11 /\ step = 1 => c.op = "stop" /\ c.arg = "e1"
        /\ phase = 11 /\ step = 2 => c.op = "stop" /\ c.arg = "e2"
        /\ phase = 11 /\ step = 3 => c.op = "clean" /\ c.arg = "e1"
        /\ phase = 11 /\ step = 4 => c.op = "clean" /\ c.arg = "e2"
        /\ phase = 17 => step = 1 /\ c.op = "final"
    BY <1>4, OtherOps
  <2>. HIDE DEF c
  <2>2. CASE phase \in {0, 2, 3, 4, 9, 16}
    BY <2>1, <2>2 DEF Accepts
  <2>3. CASE phase \in {5, 7, 12, 14}
    <3>1. exec <= c.arg
      BY <1>1, <1>2, <2>1, <2>3 DEF CatalogTable
    <3>. QED BY <2>1, <2>3, <3>1 DEF Accepts
  <2>4. CASE phase \in {6, 13}
    <3>1. cap <= c.arg
      BY <1>1, <1>2, <2>1, <2>4 DEF CatalogTable
    <3>. QED BY <2>1, <2>4, <3>1 DEF Accepts
  <2>5. CASE phase = 11
    <3>1. "e1" \in recorded /\ "e2" \in recorded
      BY <1>1, <1>2, <2>5 DEF UnitTable
    <3>2. (step <= 2 => defined) /\ (step > 1 => "e1" \in proof) /\ (step > 2 => "e2" \in proof)
      BY <1>1, <1>2, <2>1, <2>5 DEF UnitTable
    <3>. QED BY <2>1, <2>5, <3>1, <3>2 DEF Accepts
  <2>6. phase > 8 => \A j \in Labels : job[j] = "done"
    <3>1. phase > 8 => \A n : Passed(8, n)
      BY <1>2
    <3>2. phase > 8 => Passed(8, 5) /\ Passed(8, 8) /\ Passed(8, 15) /\ Passed(8, 23) /\ Passed(8, 25)
      BY <3>1
    <3>3. JobsTable
      BY <1>1
    <3>4. phase > 8 => /\ job[1] = "done" /\ job[2] = "done" /\ job[3] = "done"
                       /\ job[4] = "done" /\ job[5] = "done"
      BY <3>2, <3>3 DEF JobsTable
    <3>. QED BY <3>4 DEF Labels
  <2>7. CASE phase = 15
    <3>1. agent["e1"] # "absent" /\ agent["e2"] # "absent"
      BY <1>1, <1>2, <2>7 DEF AgentTable
    <3>2. Open = {}
      BY <2>6, <2>7 DEF Open, Closed
    <3>. QED BY <2>1, <2>7, <3>1, <3>2 DEF Accepts
  <2>8. CASE phase = 17
    <3>0. Passed(14, 1) /\ Passed(13, 1) /\ Passed(15, 1) /\ Passed(15, 2)
      BY <1>2, <2>8
    <3>1. exec = 4 /\ cap = 2
      BY <1>1, <3>0 DEF CatalogTable
    <3>2. \A b \in Agents : agent[b] = "offline"
      BY <1>1, <3>0 DEF AgentTable, Agents
    <3>3. \A j \in Labels : job[j] = "done"
      BY <2>6, <2>8
    <3>. QED BY <2>1, <2>8, <3>1, <3>2, <3>3 DEF Accepts
  <2>. QED BY <1>4, <2>1, <2>2, <2>3, <2>4, <2>5, <2>7, <2>8
<1>. QED BY <1>3, <1>4

(* The one call that fails by itself is the wait for the renewals of a job *)
(* that is done, and then every job is closed.                             *)
LEMMA CalmFailure ==
    ASSUME TypeInv, Table, WorkFails, ~fault'
    PROVE  phase = 8 /\ ctl' = "failed" /\ Cleanable'
<1>. DEFINE c == Handler[step]
<1>1. /\ ctl = "work" /\ phase' = phase /\ phase \in 0..17 /\ step \in 1..Len(Handler)
      /\ ctl' = IF phase <= 2 THEN "abort" ELSE "failed"
      /\ FailedCall(c)
  <2>1. phase' = phase /\ ctl' = (IF phase <= 2 THEN "abort" ELSE "failed") /\ FailedCall(c)
    BY DEF WorkFails, Raise, GoTo, files, LockHeld
  <2>2. /\ ctl = "work" /\ phase \in 0..17 /\ step \in 1..Len(Handler)
    BY WorkCall
  <2>. QED BY <2>1, <2>2
<1>2. UNCHANGED world /\ c.op \in Waits /\ Hopeless(c)
  <2>1. c.op \notin Waits => Accepts(c)
    BY <1>1, TableAccepts
  <2>. HIDE DEF c
  <2>. QED BY <1>1, <2>1, EffectFacts DEF FailedCall
<1>3. phase = 8
  <2>. SUFFICES ASSUME phase # 8 PROVE FALSE
    OBVIOUS
  <2>1. c.op = "held"
    BY <1>2 DEF Hopeless
  <2>2. c.op \in {"read", "register", "executor", "capacity", "stop", "clean", "deactivate", "final"}
    <3>1. /\ phase \notin {1, 10}
          /\ phase \in {0, 2, 3, 9, 16} => c.op = "read"
          /\ phase = 4 => c.op = "register"
          /\ phase = 15 => c.op = "deactivate"
          /\ phase \in {5, 7, 12, 14} => c.op = "executor"
          /\ phase \in {6, 13} => c.op = "capacity"
          /\ phase = 11 => step \in 1..4
          /\ phase = 11 /\ step = 1 => c.op = "stop"
          /\ phase = 11 /\ step = 2 => c.op = "stop"
          /\ phase = 11 /\ step = 3 => c.op = "clean"
          /\ phase = 11 /\ step = 4 => c.op = "clean"
          /\ phase = 17 => c.op = "final"
      BY <1>1, OtherOps
    <3>2. phase \in 0..17
      BY <1>1
    <3>. HIDE DEF c
    <3>. QED BY <3>1, <3>2
  <2>. HIDE DEF c
  <2>. QED BY <2>1, <2>2
<1>4. c = Matrix[step] /\ step \in 1..26 /\ c.op = "held" /\ job[c.arg] = "done"
  BY <1>1, <1>2, <1>3, CallAt DEF Hopeless
<1>5. step \in {4, 7, 10, 21, 24}
  <2>1. \A i \in 1..26 : Matrix[i].op = "held" => i \in {4, 7, 10, 21, 24}
    BY DEF Matrix, Call
  <2>. QED BY <1>4, <2>1
<1>6. JobsTable /\ UnitTable /\ CatalogTable /\ AgentTable
  BY DEF Table
<1>7. \A k, n : Passed(k, n) <=> 8 > k \/ (8 = k /\ step > n)
  BY <1>1, <1>3 DEF Passed, Place
<1>8. \A j \in Labels : job[j] \in {"none", "done"}
  <2>1. /\ step = 4 => job[1] = "done"
        /\ step = 7 => job[2] = "done"
        /\ step = 10 => job[3] = "done"
        /\ step = 21 => job[3] = "done"
        /\ step = 24 => job[5] = "done"
    BY <1>4, MatrixOps
  <2>. QED BY <1>5, <1>6, <1>7, <2>1 DEF JobsTable, Between, Labels
<1>9. Open = {}
  BY <1>8 DEF Open, Closed
<1>10. defined /\ exec = 2 /\ agent["e1"] = "online" /\ agent["e2"] = "online"
  BY <1>5, <1>6, <1>7 DEF UnitTable, CatalogTable, AgentTable
<1>. QED BY <1>1, <1>2, <1>3, <1>9, <1>10, QuietFacts DEF Cleanable, Agents

(* The sealed run is fresh.                                                *)
LEMMA CalmInit == Init => CalmInv
BY DEF Init, CalmInv, Calm, Fresh, Untouched, Sealed

(* What leaves the world alone leaves what is said of it alone.            *)
LEMMA CalmQuiet ==
    ASSUME UNCHANGED world
    PROVE  /\ UNCHANGED <<phase, token>> => Fresh' = Fresh
           /\ phase' = phase => Cleanable' = Cleanable
           /\ UNCHANGED <<phase, Place>> => Table' = Table
<1>1. /\ UNCHANGED <<exec, cap, agent, running, recorded, proof, defined, job, Open>>
      /\ Untouched' = Untouched
  BY QuietFacts
<1>2. UNCHANGED <<phase, token>> => Fresh' = Fresh
  BY <1>1 DEF Fresh
<1>3. phase' = phase => Cleanable' = Cleanable
  BY <1>1 DEF Cleanable
<1>4. ASSUME UNCHANGED <<phase, Place>> PROVE Table' = Table
  <2>1. \A k, n : Passed(k, n)' = Passed(k, n)
    BY <1>4 DEF Passed
  <2>. QED BY <1>1, <2>1 DEF Table, JobsTable, UnitTable, CatalogTable, AgentTable, Between
<1>. QED BY <1>2, <1>3, <1>4

(* The first handler finds a run on which nothing has been done.           *)
LEMMA FreshTable == Fresh /\ step = 1 /\ ctl = "work" => Table
<1>. SUFFICES ASSUME Fresh, step = 1, ctl = "work" PROVE Table
  OBVIOUS
<1>1. \A n : \A k \in 1..18 : ~Passed(k, n)
  BY DEF Fresh, Sealed, Passed, Place
<1>2. \A j \in Labels : job[j] = "none"
  BY DEF Fresh, Untouched
<1>. QED BY <1>1, <1>2 DEF Table, JobsTable, UnitTable, CatalogTable, AgentTable, Between,
                           Fresh, Untouched, Labels, Agents

(* No step of an undisturbed run leaves the tables.                        *)
LEMMA CalmNext ==
    TypeInv /\ FitInv /\ CalmInv /\ [Next]_vars => CalmInv'
<1>. SUFFICES ASSUME TypeInv, FitInv, CalmInv, [Next]_vars, Calm' PROVE CalmInv'
  BY DEF CalmInv
<1>1. ~fault' /\ ~fault /\ ~earlier
  <2>1. fault \in BOOLEAN /\ ~fault' /\ ~earlier'
    BY DEF Calm, TypeInv, ControlType
  <2>2. \/ UNCHANGED history
        \/ Faulted
        \/ UNCHANGED <<earlier, fault>>
        \/ FailedCall(Handler[step]) \/ FailedCall(Suffix[step])
    BY DEF Next, Step, Around, vars, history, Run, Cleanup, Acquire, AcquireFails, SaveToken,
           SaveTokenFails, Check, CheckFails, Work, WorkFails, AppendRecord, AppendRecordFails, Write,
           WriteFails, RecordFailure, RecordFailureFails, Sweep, SweepFails, CleanCall, CleanFails,
           CloseRecord, CloseRecordFails, Close, CloseFails, Release, ReleaseFails, Forget, ForgetFails, Crash,
           Claim, Finish, JobFails, LeaseDue, UnitDies, OtherAcquire, OtherRelease, RecoverLock, RetireToken
  <2>3. Faulted => fault' /\ earlier' = earlier
    BY DEF Faulted
  <2>4. \A c : FailedCall(c) => earlier' = earlier /\ (fault => fault')
    BY <2>1 DEF FailedCall
  <2>. QED BY <2>1, <2>2, <2>3, <2>4 DEF history
<1>2. /\ mode = "run"
      /\ ctl # "down" => auth
      /\ ctl = "down" /\ ~auth => Fresh
      /\ ctl = "down" /\ auth => phase = Done /\ lock # "mine" /\ ~token
      /\ ctl \in {"acquire", "save"} => Fresh
      /\ ctl \in {"check", "work", "write"} => Table
      /\ ctl = "write" => step > Len(Handler)
      /\ ctl \in {"failed", "sweep"} => phase # Done /\ Cleanable
      /\ ctl = "clean" => fit
      /\ ctl # "abort"
      /\ ctl \in {"release", "forget"} => phase = Done
      /\ ctl = "forget" => lock # "mine"
  BY <1>1 DEF CalmInv, Calm
<1>. SUFFICES
        /\ mode' = "run"
        /\ ctl' # "down" => auth'
        /\ ctl' = "down" /\ ~auth' => Fresh'
        /\ ctl' = "down" /\ auth' => phase' = Done /\ lock' # "mine" /\ ~token'
        /\ ctl' \in {"acquire", "save"} => Fresh'
        /\ ctl' \in {"check", "work", "write"} => Table'
        /\ ctl' = "write" => step' > Len(Handler')
        /\ ctl' \in {"failed", "sweep"} => phase' # Done /\ Cleanable'
        /\ ctl' = "clean" => fit'
        /\ ctl' # "abort"
        /\ ctl' \in {"release", "forget"} => phase' = Done
        /\ ctl' = "forget" => lock' # "mine"
  BY DEF CalmInv
<1>. USE DEF GoTo, Sealed, Done, files, locks, process, history
<1>3. CASE Run
  BY <1>2, <1>3, CalmQuiet DEF Run
<1>4. CASE Cleanup
  BY <1>2, <1>4 DEF Cleanup, Fresh, WorkspaceReady
<1>5. CASE Acquire
  BY <1>2, <1>5, CalmQuiet DEF Acquire
<1>6. CASE AcquireFails
  BY <1>1, <1>6 DEF AcquireFails, Faulted
<1>7. CASE SaveToken
  <2>1. Fresh /\ ctl' = "work" /\ step' = 1 /\ mode' = mode /\ auth' = auth /\ auth
    BY <1>2, <1>7 DEF SaveToken
  <2>2. phase' = 0 /\ exec' = 0 /\ cap' = 0 /\ UNCHANGED world /\ Untouched'
    BY <1>7, <2>1, QuietFacts DEF SaveToken, Fresh
  <2>3. \A n : \A k \in 1..18 : ~Passed(k, n)'
    BY <2>1, <2>2 DEF Passed, Place
  <2>4. \A j \in Labels : job'[j] = "none"
    BY <2>2 DEF Untouched
  <2>5. \A a \in Agents : agent'[a] = "absent"
    BY <2>1, <2>2, QuietFacts DEF Fresh
  <2>6. JobsTable'
    BY <2>3, <2>4 DEF JobsTable, Between, Labels
  <2>7. UnitTable'
    BY <2>2, <2>3 DEF UnitTable, Between, Untouched
  <2>8. CatalogTable' /\ AgentTable'
    BY <2>2, <2>3, <2>5 DEF CatalogTable, AgentTable, Agents
  <2>. QED BY <1>2, <2>1, <2>6, <2>7, <2>8 DEF Table
<1>8. CASE SaveTokenFails
  BY <1>1, <1>8 DEF SaveTokenFails, Faulted
<1>9. CASE Check
  <2>1. ctl = "check" /\ ctl' = "work" /\ step' = 1 /\ UNCHANGED <<phase, mode, auth, world>>
    BY <1>9 DEF Check
  <2>2. Table'
    BY <1>2, <2>1, CalmQuiet DEF Place
  <2>. QED BY <1>2, <2>1, <2>2
<1>10. CASE CheckFails
  BY <1>1, <1>10 DEF CheckFails, Faulted
<1>11. CASE Work
  <2>1. ctl = "work" /\ ctl' = "work" /\ UNCHANGED <<mode, auth>>
    BY <1>11 DEF Work
  <2>2. Table'
    BY <1>2, <1>11, <2>1, WorkTable
  <2>. QED BY <1>2, <2>1, <2>2
<1>12. CASE WorkFails
  <2>1. ctl = "work" /\ UNCHANGED <<phase, mode, auth>>
    BY <1>12 DEF WorkFails
  <2>2. phase = 8 /\ ctl' = "failed" /\ Cleanable'
    BY <1>1, <1>2, <1>12, <2>1, CalmFailure
  <2>. QED BY <1>2, <2>1, <2>2
<1>13. CASE AppendRecord
  <2>1. /\ ctl = "work" /\ ctl' = "write" /\ step > Len(Handler)
        /\ UNCHANGED <<phase, step, mode, auth, world>>
    BY <1>13 DEF AppendRecord
  <2>2. Table'
    BY <1>2, <2>1, CalmQuiet DEF Place
  <2>3. Handler' = Handler
    BY <2>1 DEF Handler
  <2>. QED BY <1>2, <2>1, <2>2, <2>3
<1>14. CASE AppendRecordFails
  BY <1>1, <1>14 DEF AppendRecordFails, Faulted
<1>15. CASE Write
  <2>1. /\ ctl = "write" /\ ctl' = (IF tail = Done THEN "release" ELSE "check")
        /\ phase' = tail /\ UNCHANGED <<mode, auth>>
    BY <1>15 DEF Write
  <2>2. tail # Done => Table'
    BY <1>2, <1>15, <2>1, WriteTable
  <2>. QED BY <1>2, <2>1, <2>2
<1>16. CASE WriteFails
  BY <1>1, <1>16 DEF WriteFails, Faulted
<1>17. CASE RecordFailure
  BY <1>2, <1>17, CalmQuiet DEF RecordFailure
<1>18. CASE RecordFailureFails
  BY <1>1, <1>18 DEF RecordFailureFails, Faulted
<1>19. CASE Sweep
  BY <1>2, <1>19 DEF Sweep
<1>20. CASE SweepFails
  BY <1>1, <1>20 DEF SweepFails, Faulted
<1>21. CASE CleanCall
  BY <1>2, <1>21 DEF CleanCall
<1>22. CASE CleanFails
  <2>1. /\ ctl = "clean" /\ Applies(Suffix[step]) /\ FailedCall(Suffix[step])
    BY <1>22 DEF CleanFails
  <2>2. step \in 1..11 /\ fit
    BY <1>2, <1>22, <2>1, SuffixCall
  <2>3. Accepts(Suffix[step])
    BY <2>1, <2>2, FitAccepts
  <2>. QED BY <1>1, <2>1, <2>3 DEF FailedCall
<1>23. CASE CloseRecord
  BY <1>2, <1>23, CalmQuiet DEF CloseRecord
<1>24. CASE CloseRecordFails
  BY <1>1, <1>24 DEF CloseRecordFails, Faulted
<1>25. CASE Close
  BY <1>2, <1>25, CalmQuiet DEF Close
<1>26. CASE CloseFails
  BY <1>1, <1>26 DEF CloseFails, Faulted
<1>27. CASE Release
  BY <1>2, <1>27, CalmQuiet DEF Release
<1>28. CASE ReleaseFails
  BY <1>1, <1>28 DEF ReleaseFails, Faulted
<1>29. CASE Forget
  BY <1>2, <1>29, CalmQuiet DEF Forget
<1>30. CASE ForgetFails
  BY <1>1, <1>30 DEF ForgetFails, Faulted
<1>31. CASE Crash
  BY <1>1, <1>31 DEF Crash, Faulted
<1>32. CASE \E j \in Labels : Claim(j) \/ Finish(j) \/ JobFails(j) \/ LeaseDue(j)
  <2>1. JobMoves \/ \E a \in Agents : UnitDies(a)
    BY <1>32 DEF JobMoves
  <2>2. UNCHANGED <<phase, ctl, step, mode, auth, lock, token, exec, agent, recorded, defined, cap>>
        /\ Open' \subseteq Open /\ (Untouched => Untouched')
    BY <2>1, AroundFacts
  <2>3. fit' = fit
    BY <1>1, <1>32 DEF Claim, Finish, JobFails, LeaseDue, UnitDies, Faulted
  <2>4. Fresh => Fresh'
    BY <2>2 DEF Fresh
  <2>5. Cleanable => Cleanable'
    BY <2>2 DEF Cleanable
  <2>6. ctl \in {"check", "work", "write"} => Table'
    BY <1>1, <1>2, <2>1, AroundTable
  <2>7. Handler' = Handler
    BY <2>2 DEF Handler
  <2>. QED BY <1>2, <2>2, <2>3, <2>4, <2>5, <2>6, <2>7
<1>33. CASE \E a \in Agents : UnitDies(a)
  BY <1>1, <1>33 DEF UnitDies, Faulted
<1>34. CASE OtherAcquire
  <2>1. UNCHANGED <<phase, step, ctl, mode, auth, world, fit>>
    BY <1>34 DEF OtherAcquire
  <2>2. (lock' = lock \/ lock' # "mine") /\ (token' = token \/ (token /\ ~token'))
    BY <1>34 DEF OtherAcquire
  <2>3. Handler' = Handler /\ UNCHANGED Place
    BY <2>1 DEF Handler, Place
  <2>4. Fresh => Fresh'
    BY <2>1, <2>2, CalmQuiet DEF Fresh
  <2>5. Table' = Table /\ Cleanable' = Cleanable
    BY <2>1, <2>3, CalmQuiet
  <2>. QED BY <1>2, <2>1, <2>2, <2>3, <2>4, <2>5
<1>35. CASE OtherRelease
  <2>1. UNCHANGED <<phase, step, ctl, mode, auth, world, fit>>
    BY <1>35 DEF OtherRelease
  <2>2. (lock' = lock \/ lock' # "mine") /\ (token' = token \/ (token /\ ~token'))
    BY <1>35 DEF OtherRelease
  <2>3. Handler' = Handler /\ UNCHANGED Place
    BY <2>1 DEF Handler, Place
  <2>4. Fresh => Fresh'
    BY <2>1, <2>2, CalmQuiet DEF Fresh
  <2>5. Table' = Table /\ Cleanable' = Cleanable
    BY <2>1, <2>3, CalmQuiet
  <2>. QED BY <1>2, <2>1, <2>2, <2>3, <2>4, <2>5
<1>36. CASE RecoverLock
  <2>1. UNCHANGED <<phase, step, ctl, mode, auth, world, fit>>
    BY <1>36 DEF RecoverLock
  <2>2. (lock' = lock \/ lock' # "mine") /\ (token' = token \/ (token /\ ~token'))
    BY <1>36 DEF RecoverLock
  <2>3. Handler' = Handler /\ UNCHANGED Place
    BY <2>1 DEF Handler, Place
  <2>4. Fresh => Fresh'
    BY <2>1, <2>2, CalmQuiet DEF Fresh
  <2>5. Table' = Table /\ Cleanable' = Cleanable
    BY <2>1, <2>3, CalmQuiet
  <2>. QED BY <1>2, <2>1, <2>2, <2>3, <2>4, <2>5
<1>37. CASE RetireToken
  <2>1. UNCHANGED <<phase, step, ctl, mode, auth, world, fit>>
    BY <1>37 DEF RetireToken
  <2>2. (lock' = lock \/ lock' # "mine") /\ (token' = token \/ (token /\ ~token'))
    BY <1>37 DEF RetireToken
  <2>3. Handler' = Handler /\ UNCHANGED Place
    BY <2>1 DEF Handler, Place
  <2>4. Fresh => Fresh'
    BY <2>1, <2>2, CalmQuiet DEF Fresh
  <2>5. Table' = Table /\ Cleanable' = Cleanable
    BY <2>1, <2>3, CalmQuiet
  <2>. QED BY <1>2, <2>1, <2>2, <2>3, <2>4, <2>5
<1>38. CASE UNCHANGED vars
  <2>1. UNCHANGED <<phase, step, ctl, mode, auth, world, fit>>
    BY <1>38 DEF vars
  <2>2. (lock' = lock \/ lock' # "mine") /\ (token' = token \/ (token /\ ~token'))
    BY <1>38 DEF vars
  <2>3. Handler' = Handler /\ UNCHANGED Place
    BY <2>1 DEF Handler, Place
  <2>4. Fresh => Fresh'
    BY <2>1, <2>2, CalmQuiet DEF Fresh
  <2>5. Table' = Table /\ Cleanable' = Cleanable
    BY <2>1, <2>3, CalmQuiet
  <2>. QED BY <1>2, <2>1, <2>2, <2>3, <2>4, <2>5
<1>. QED
  BY <1>3, <1>4, <1>5, <1>6, <1>7, <1>8, <1>9, <1>10, <1>11, <1>12, <1>13,
     <1>14, <1>15, <1>16, <1>17, <1>18, <1>19, <1>20, <1>21, <1>22, <1>23,
     <1>24, <1>25, <1>26, <1>27, <1>28, <1>29, <1>30, <1>31, <1>32, <1>33,
     <1>34, <1>35, <1>36, <1>37, <1>38
     DEF Next, Step, Around

(* CalmInv holds throughout, on top of the other parts.                    *)
LEMMA CalmInvAlways == Spec => [](TypeInv /\ DormantInv /\ FitInv /\ CalmInv)
<1>1. TypeInv /\ DormantInv /\ FitInv /\ CalmInv /\ [Next]_vars => CalmInv'
  BY CalmNext
<1>. QED BY <1>1, CalmInit, ControllerInvAlways, PTL DEF Spec

(* UndisturbedRunEndsClean: a first run (cmd_run) that nothing around it   *)
(* disturbs ends at done, by its phases or by the cleanup that follows the *)
(* one failure it can meet, without the lock and without a token file.     *)
THEOREM UndisturbedCorrect == Spec => []UndisturbedRunEndsClean
<1>1. CalmInv => UndisturbedRunEndsClean
  BY DEF CalmInv, Calm, UndisturbedRunEndsClean
<1>. QED BY <1>1, CalmInvAlways, PTL
=============================================================================
