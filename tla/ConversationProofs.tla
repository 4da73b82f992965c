------------------------- MODULE ConversationProofs -------------------------
(***************************************************************************)
(* What Conversation promises, for any number of requests, directories and *)
(* sessions.  TableInv ties what the runs under way have found to what the *)
(* table offers; SessionInv adds where a discarded session can still be.   *)
(***************************************************************************)
EXTENDS Conversation, TLAPS

(* The retired session of a legacy scope: none, unless the scope is a      *)
(* channel; and as long as it is active every run under way is resuming    *)
(* it, so the canonical scope has no active session but for the moment     *)
(* between the two commits of a run's end.                                 *)
TableInv ==
    /\ isTask => rows["legacy"].status = "none"
    /\ mode # "worker" /\ ~torn /\ rows["legacy"].status = "active" =>
         /\ \A r \in InFlight : runs[r].found = "legacy" /\ runs[r].pc # "calling"
         /\ rows["canonical"].status = "active" => Retiring # {}

(* Sessions are numbered by opened; a run that was alone still is; and a   *)
(* discarded session is neither offered by the table nor being resumed.    *)
NumberInv ==
    /\ \A c \in Scopes : rows[c].sid <= opened
    /\ \A r \in Requests : runs[r].sid <= opened
    /\ \A s \in dead : s <= opened

AloneInv ==
    \A r \in InFlight :
        /\ runs[r].pc = "calling" => runs[r].found = "none" /\ runs[r].sid = None
        /\ runs[r].pc = "resuming" => runs[r].found \in Scopes
        /\ runs[r].alone => InFlight = {r}
        /\ ~torn /\ runs[r].pc = "resuming" /\ runs[r].alone /\ runs[r].found = "legacy"
             => rows["canonical"].status # "active"

SessionInv == mode # "worker" => NumberInv /\ AloneInv /\ DiscardSticks

(* A job whose session is known is being resumed, or is not running. *)
KnownInv ==
    \A r \in Requests :
        runs[r].known # None =>
            runs[r].pc = "resuming" /\ runs[r].found = "recovery" /\ coord[r] # None

-----------------------------------------------------------------------------
LEMMA RowsType ==
    ASSUME rows \in [Scopes -> Rows], NEW c \in Scopes, NEW t \in {"stale", "archived"}
    PROVE  Marked(c, t) \in [Scopes -> Rows]
BY DEF Marked, Rows

LEMMA UpsertType ==
    ASSUME rows \in [Scopes -> Rows], NEW s \in Nat, NEW d \in Dirs \cup {NoDir}
    PROVE  Upserted(s, d) \in [Scopes -> Rows]
BY DEF Upserted, Rows, Scopes

LEMMA FirstActiveType ==
    FirstActive \in Scopes \cup {"none"}
BY DEF FirstActive, Scopes

LEMMA RunType ==
    ASSUME runs \in [Requests -> Runs], NEW r \in Requests, NEW f \in Runs
    PROVE  /\ Set(r, f) => runs' \in [Requests -> Runs]
           /\ Begin(r, f) => runs' \in [Requests -> Runs]
<1>1. ASSUME NEW b \in BOOLEAN, NEW g \in Runs PROVE [g EXCEPT !.alone = b] \in Runs
  BY DEF Runs
<1>2. (InFlight = {}) \in BOOLEAN
  OBVIOUS
<1>3. [f EXCEPT !.alone = InFlight = {}] \in Runs
  BY <1>1, <1>2
<1>4. ASSUME NEW q \in Requests PROVE [runs[q] EXCEPT !.alone = @ /\ q \notin InFlight] \in Runs
  <2>. DEFINE b == runs[q].alone /\ q \notin InFlight
  <2>1. b \in BOOLEAN
    OBVIOUS
  <2>2. [runs[q] EXCEPT !.alone = b] \in Runs
    BY <1>1, <2>1
  <2>. QED BY <2>2
<1>. QED BY <1>3, <1>4 DEF Set, Begin

LEMMA OverType ==
    ASSUME runs \in [Requests -> Runs], NEW r \in Requests
    PROVE  /\ IdleRun \in Runs
           /\ Over(r) => runs' \in [Requests -> Runs]
           /\ OfferedAgain(r) => runs' \in [Requests -> Runs]
<1>1. IdleRun \in Runs
  BY DEF IdleRun, Runs, Phases, None
<1>2. [IdleRun EXCEPT !.pc = "done"] \in Runs
  BY <1>1 DEF Runs, Phases
<1>3. [IdleRun EXCEPT !.attempts = runs[r].attempts] \in Runs
  BY <1>1 DEF Runs
<1>. QED BY <1>1, <1>2, <1>3, RunType DEF Over, OfferedAgain

LEMMA StartedType ==
    ASSUME runs \in [Requests -> Runs], NEW r \in Requests, NEW s \in Nat,
           NEW d \in Dirs \cup {NoDir}, NEW found \in Scopes \cup {"none", "recovery"},
           coord \in [Requests -> Nat]
    PROVE  /\ Started(r, found, s, d) \in Runs
           /\ Claimed(r, Started(r, found, s, d)) \in Runs
<1>1. Started(r, found, s, d) \in Runs
  BY DEF Started, Runs, Phases
<1>2. ASSUME NEW f \in Runs PROVE Claimed(r, f) \in Runs
  <2>1. ASSUME NEW k \in Nat, NEW n \in Nat PROVE [f EXCEPT !.known = k, !.attempts = n] \in Runs
    BY DEF Runs
  <2>2. f.attempts + 1 \in Nat /\ coord[r] \in Nat
    BY DEF Runs
  <2>3. [f EXCEPT !.known = coord[r], !.attempts = f.attempts + 1] \in Runs
    BY <2>1, <2>2
  <2>. QED BY <2>3 DEF Claimed
<1>. QED BY <1>1, <1>2

(* Every variable keeps its type, whichever program takes the step. *)
LEMMA TypeNext ==
    ConversationTypeOK /\ [ConversationNext]_conversationVars => ConversationTypeOK'
<1>. SUFFICES ASSUME ConversationTypeOK, [ConversationNext]_conversationVars
              PROVE  ConversationTypeOK'
  OBVIOUS
<1>. USE DEF ConversationTypeOK
<1>1. ASSUME NEW s \in Nat, NEW new \in Nat PROVE Opens(new) => opened' \in Nat
  BY DEF Opens
<1>2. ASSUME NEW c \in Scopes PROVE rows[c].sid \in Nat /\ rows[c].dir \in Dirs \cup {NoDir}
  BY DEF Rows
<1>3. ASSUME NEW r \in Requests PROVE runs[r] \in Runs /\ runs[r].sid \in Nat /\ runs[r].dir \in Dirs \cup {NoDir}
  BY DEF Runs
<1>4. ASSUME NEW r \in Requests, NEW d \in Dirs, StartFresh(r, d) PROVE
        rows' \in [Scopes -> Rows] /\ runs' \in [Requests -> Runs] /\ dead' \subseteq Nat
  <2>1. Started(r, "none", None, d) \in Runs
    BY StartedType DEF None
  <2>2. runs' \in [Requests -> Runs]
    BY <1>4, <2>1, RunType DEF StartFresh
  <2>3. CASE FirstActive = "none"
    BY <1>4, <2>2, <2>3 DEF StartFresh
  <2>4. CASE FirstActive \in Scopes
    BY <1>4, <1>2, <2>2, <2>4, RowsType DEF StartFresh, Discards, Scopes
  <2>. QED BY <2>3, <2>4, FirstActiveType
<1>5. ASSUME NEW r \in Requests, NEW d \in Dirs, StartResume(r, d) PROVE
        rows' \in [Scopes -> Rows] /\ runs' \in [Requests -> Runs] /\ dead' \subseteq Nat
  <2>1. FirstActive \in Scopes
    BY <1>5, FirstActiveType DEF StartResume
  <2>2. Started(r, FirstActive, rows[FirstActive].sid, d) \in Runs
    BY <1>2, <2>1, StartedType
  <2>. QED BY <1>5, <2>2, RunType DEF StartResume
<1>6. ASSUME NEW r \in Requests, Handle(r) PROVE ConversationTypeOK'
  BY <1>4, <1>5, <1>6 DEF Handle
<1>7. ASSUME NEW r \in Requests, ClaimRecovery(r) PROVE ConversationTypeOK'
  <2>1. PICK d \in Dirs : ClaimRecovery(r)!4!(d)
    BY <1>7 DEF ClaimRecovery
  <2>2. Claimed(r, Started(r, "recovery", coord[r], d)) \in Runs
    BY StartedType
  <2>3. rows' \in [Scopes -> Rows]
    BY <2>1, RowsType, FirstActiveType
  <2>. QED BY <1>7, <2>1, <2>2, <2>3, RunType DEF ClaimRecovery
<1>8. ASSUME NEW r \in Requests, ClaimPlain(r) PROVE ConversationTypeOK'
  <2>1. PICK d \in Dirs : ClaimPlain(r)!4!(d)
    BY <1>8 DEF ClaimPlain
  <2>2. Claimed(r, Started(r, "none", None, d)) \in Runs
    BY StartedType DEF None
  <2>3. FirstActive # "none" => Claimed(r, Started(r, FirstActive, rows[FirstActive].sid, d)) \in Runs
    BY <1>2, FirstActiveType, StartedType
  <2>4. rows' \in [Scopes -> Rows]
    BY <2>1, RowsType, FirstActiveType
  <2>5. runs' \in [Requests -> Runs]
    BY <2>1, <2>2, <2>3, RunType
  <2>. QED BY <1>8, <2>4, <2>5 DEF ClaimPlain
<1>9. ASSUME NEW r \in Requests, ResumeError(r) PROVE ConversationTypeOK'
  <2>1. runs[r].found \in Scopes \cup {"none"}
    BY <1>9 DEF ResumeError, Runs
  <2>2. Marked(runs[r].found, "stale") \in [Scopes -> Rows]
    BY <2>1 DEF Marked, Rows
  <2>3. [runs[r] EXCEPT !.pc = "calling", !.found = "none", !.sid = None] \in Runs
    BY <1>3 DEF Runs, Phases, None
  <2>. QED BY <1>3, <1>9, <2>2, <2>3, RunType DEF ResumeError, Discards
<1>10. ASSUME NEW r \in Requests, TurnEnds(r) PROVE ConversationTypeOK'
  <2>1. PICK new \in 0..MaxSessions : TurnEnds(r)!3!(new)
    BY <1>10 DEF TurnEnds
  <2>2. new \in Nat
    BY ConversationBounds
  <2>3. rows' \in [Scopes -> Rows]
    BY <1>3, <2>1, <2>2, UpsertType
  <2>4. [runs[r] EXCEPT !.pc = "retiring"] \in Runs
    BY <1>3 DEF Runs, Phases
  <2>5. runs' \in [Requests -> Runs]
    BY <2>1, <2>4, RunType, OverType
  <2>. QED BY <1>1, <1>10, <2>1, <2>2, <2>3, <2>5 DEF TurnEnds
<1>11. ASSUME NEW r \in Requests, Retire(r) PROVE ConversationTypeOK'
  BY <1>11, RowsType, OverType DEF Retire, Scopes
<1>12. ASSUME NEW r \in Requests, TurnRaises(r) PROVE ConversationTypeOK'
  BY <1>12, OverType DEF TurnRaises
<1>13. ASSUME NEW r \in Requests, Progress(r) PROVE ConversationTypeOK'
  <2>1. PICK s \in 1..MaxSessions : Progress(r)!3!(s)
    BY <1>13 DEF Progress
  <2>2. s \in Nat
    BY ConversationBounds
  <2>3. [runs[r] EXCEPT !.sid = s] \in Runs
    BY <1>3, <2>2 DEF Runs
  <2>. QED BY <1>1, <1>3, <1>13, <2>1, <2>2, <2>3, UpsertType, RunType DEF Progress
<1>14. ASSUME NEW r \in Requests, Record(r) PROVE ConversationTypeOK'
  BY <1>3, <1>14 DEF Record
<1>15. ASSUME NEW r \in Requests, Report(r) PROVE ConversationTypeOK'
  <2>1. PICK s \in 0..MaxSessions : Report(r)!3!(s)
    BY <1>15 DEF Report
  <2>2. s \in Nat
    BY ConversationBounds
  <2>3. rows' \in [Scopes -> Rows] /\ coord' \in [Requests -> Nat]
    BY <1>3, <2>1, <2>2, UpsertType
  <2>4. runs' \in [Requests -> Runs]
    BY <2>1, OverType
  <2>. QED BY <1>1, <1>15, <2>1, <2>2, <2>3, <2>4 DEF Report
<1>16. ASSUME NEW r \in Requests, LoseAttempt(r) PROVE ConversationTypeOK'
  BY <1>16, OverType DEF LoseAttempt
<1>17. CASE Reset
  BY <1>2, <1>17, RowsType, FirstActiveType DEF Reset, Discards
<1>18. CASE Archive
  BY <1>2, <1>18, RowsType DEF Archive, Discards, Scopes
<1>19. CASE Restart
  BY <1>19, OverType DEF Restart
<1>20. CASE UNCHANGED conversationVars
  BY <1>20 DEF conversationVars
<1>. QED
  BY <1>6, <1>7, <1>8, <1>9, <1>10, <1>11, <1>12, <1>13, <1>14, <1>15, <1>16, <1>17, <1>18,
     <1>19, <1>20 DEF ConversationNext, ConversationStep

-----------------------------------------------------------------------------
LEMMA MarkedFacts ==
    ASSUME rows \in [Scopes -> Rows], NEW c \in Scopes, NEW t \in {"stale", "archived"}, NEW x \in Scopes
    PROVE  /\ Marked(c, t)[x].sid = rows[x].sid
           /\ Marked(c, t)[x].status = IF x = c /\ rows[x].status # "none" THEN t ELSE rows[x].status
BY DEF Marked, Rows

LEMMA UpsertedFacts ==
    ASSUME rows \in [Scopes -> Rows], NEW s \in Nat, NEW d \in Dirs \cup {NoDir}
    PROVE  /\ Upserted(s, d)["canonical"].status = "active"
           /\ Upserted(s, d)["canonical"].sid = s
           /\ Upserted(s, d)["legacy"] = rows["legacy"]
BY DEF Upserted, Rows, Scopes

(* The start of a run changes nothing of the others but whether they are alone. *)
LEMMA BeginFacts ==
    ASSUME runs \in [Requests -> Runs], NEW r \in Requests, NEW f \in Runs, Begin(r, f), NEW q \in Requests
    PROVE  /\ runs'[q].pc = IF q = r THEN f.pc ELSE runs[q].pc
           /\ runs'[q].found = IF q = r THEN f.found ELSE runs[q].found
           /\ runs'[q].sid = IF q = r THEN f.sid ELSE runs[q].sid
           /\ runs'[q].known = IF q = r THEN f.known ELSE runs[q].known
BY DEF Begin, Runs

LEMMA OverFacts ==
    ASSUME runs \in [Requests -> Runs], NEW r \in Requests, NEW q \in Requests, Over(r) \/ OfferedAgain(r)
    PROVE  /\ q # r => runs'[q] = runs[q]
           /\ runs'[r].pc \in {"idle", "done"}
           /\ runs'[r].known = None
           /\ runs'[r].sid = None
BY DEF Over, OfferedAgain, Set, IdleRun

LEMMA StartedFacts ==
    ASSUME runs \in [Requests -> Runs], NEW r \in Requests, NEW s, NEW d, NEW found, NEW k
    PROVE  LET f == Started(r, found, s, d) IN
           /\ f.pc = IF found = "none" THEN "calling" ELSE "resuming"
           /\ f.found = found
           /\ f.sid = s
           /\ f.known = runs[r].known
           /\ Claimed(r, f).pc = f.pc
           /\ Claimed(r, f).found = found
           /\ Claimed(r, f).sid = s
           /\ Claimed(r, f).known = coord[r]
BY DEF Started, Claimed, Runs

-----------------------------------------------------------------------------
(* A job with a known session is only ever resumed. *)
LEMMA KnownNext ==
    ConversationTypeOK /\ KnownInv /\ [ConversationNext]_conversationVars => KnownInv'
<1>. SUFFICES ASSUME ConversationTypeOK, KnownInv, [ConversationNext]_conversationVars
              PROVE  KnownInv'
  OBVIOUS
<1>. USE DEF ConversationTypeOK, KnownInv
<1>1. ASSUME NEW r \in Requests PROVE runs[r] \in Runs /\ runs[r].dir \in Dirs \cup {NoDir}
  BY DEF Runs
<1>2. ASSUME NEW c \in Scopes PROVE rows[c].sid \in Nat
  BY DEF Rows
<1>3. ASSUME NEW r \in Requests, Handle(r) PROVE KnownInv'
  <2>1. runs[r].known = None
    BY <1>3 DEF Handle, MayStart
  <2>2. PICK d \in Dirs : StartFresh(r, d) \/ StartResume(r, d)
    BY <1>3 DEF Handle
  <2>3. CASE StartFresh(r, d)
    <3>1. Started(r, "none", None, d) \in Runs /\ Begin(r, Started(r, "none", None, d))
      BY <2>3, StartedType DEF None, StartFresh
    <3>. QED BY <1>3, <2>1, <3>1, BeginFacts, StartedFacts DEF Handle
  <2>4. CASE StartResume(r, d)
    <3>1. FirstActive \in Scopes
      BY <2>4, FirstActiveType DEF StartResume
    <3>2. /\ Started(r, FirstActive, rows[FirstActive].sid, d) \in Runs
          /\ Begin(r, Started(r, FirstActive, rows[FirstActive].sid, d))
      BY <1>2, <2>4, <3>1, StartedType DEF StartResume
    <3>. QED BY <1>3, <2>1, <3>2, BeginFacts, StartedFacts DEF Handle
  <2>. QED BY <2>2, <2>3, <2>4
<1>4. ASSUME NEW r \in Requests, ClaimRecovery(r) PROVE KnownInv'
  <2>1. PICK d \in Dirs : Begin(r, Claimed(r, Started(r, "recovery", coord[r], d)))
    BY <1>4 DEF ClaimRecovery
  <2>2. Claimed(r, Started(r, "recovery", coord[r], d)) \in Runs
    BY StartedType
  <2>. QED BY <1>4, <2>1, <2>2, BeginFacts, StartedFacts DEF ClaimRecovery
<1>5. ASSUME NEW r \in Requests, ClaimPlain(r) PROVE KnownInv'
  <2>1. PICK d \in Dirs :
          \/ Begin(r, Claimed(r, Started(r, "none", None, d)))
          \/ FirstActive # "none" /\ Begin(r, Claimed(r, Started(r, FirstActive, rows[FirstActive].sid, d)))
    BY <1>5 DEF ClaimPlain
  <2>2. Claimed(r, Started(r, "none", None, d)) \in Runs
    BY StartedType DEF None
  <2>3. FirstActive # "none" => Claimed(r, Started(r, FirstActive, rows[FirstActive].sid, d)) \in Runs
    BY <1>2, FirstActiveType, StartedType
  <2>. QED BY <1>5, <2>1, <2>2, <2>3, BeginFacts, StartedFacts DEF ClaimPlain
<1>6. ASSUME NEW r \in Requests, ResumeError(r) PROVE KnownInv'
  BY <1>1, <1>6 DEF ResumeError, Set, Runs
<1>7. ASSUME NEW r \in Requests, TurnEnds(r) PROVE KnownInv'
  <2>1. runs[r].found # "recovery" => runs[r].known = None
    OBVIOUS
  <2>2. CASE Over(r)
    BY <1>7, <2>2, OverFacts DEF TurnEnds
  <2>3. CASE runs[r].found = "legacy" /\ Set(r, [runs[r] EXCEPT !.pc = "retiring"])
    BY <1>1, <1>7, <2>1, <2>3 DEF TurnEnds, Set, Runs
  <2>. QED BY <1>7, <2>2, <2>3 DEF TurnEnds
<1>8. ASSUME NEW r \in Requests, Retire(r) \/ TurnRaises(r) \/ LoseAttempt(r) PROVE KnownInv'
  BY <1>8, OverFacts DEF Retire, TurnRaises, LoseAttempt
<1>9. ASSUME NEW r \in Requests, Progress(r) PROVE KnownInv'
  BY <1>1, <1>9 DEF Progress, Set, Runs
<1>10. ASSUME NEW r \in Requests, Record(r) PROVE KnownInv'
  BY <1>10 DEF Record
<1>11. ASSUME NEW r \in Requests, Report(r) PROVE KnownInv'
  <2>1. \A q \in Requests : q # r => coord'[q] = coord[q]
    BY <1>11 DEF Report
  <2>. QED BY <1>11, <2>1, OverFacts DEF Report
<1>12. CASE Reset \/ Archive \/ UNCHANGED conversationVars
  BY <1>12 DEF Reset, Archive, conversationVars
<1>13. CASE Restart
  BY <1>13 DEF Restart, IdleRun
<1>. QED
  BY <1>3, <1>4, <1>5, <1>6, <1>7, <1>8, <1>9, <1>10, <1>11, <1>12, <1>13
     DEF ConversationNext, ConversationStep

-----------------------------------------------------------------------------
(* Who is under way after a start and after an end. *)
LEMMA BeginFlight ==
    ASSUME runs \in [Requests -> Runs], NEW r \in Requests, NEW f \in Runs, Begin(r, f),
           runs[r].pc = "idle", f.pc \in {"resuming", "calling"}
    PROVE  /\ InFlight' = InFlight \cup {r}
           /\ Retiring' = Retiring
           /\ r \notin InFlight
           /\ runs'[r].alone => InFlight = {}
           /\ \A q \in InFlight : ~runs'[q].alone
<1>1. ASSUME NEW b, NEW g \in Runs PROVE [g EXCEPT !.alone = b].alone = b
  BY DEF Runs
<1>2. ASSUME NEW q \in InFlight PROVE ~runs'[q].alone
  <2>1. q \in Requests /\ q # r
    BY DEF InFlight, InFlightPhases
  <2>2. runs'[q] = [runs[q] EXCEPT !.alone = @ /\ q \notin InFlight]
    BY <2>1 DEF Begin
  <2>3. runs'[q].alone = (runs[q].alone /\ q \notin InFlight)
    BY <1>1, <2>1, <2>2
  <2>. QED BY <2>3
<1>3. runs'[r].alone => InFlight = {}
  <2>1. runs'[r] = [f EXCEPT !.alone = InFlight = {}]
    BY DEF Begin
  <2>2. runs'[r].alone = (InFlight = {})
    BY <1>1, <2>1
  <2>. QED BY <2>2
<1>4. /\ InFlight' = InFlight \cup {r}
      /\ Retiring' = Retiring
      /\ r \notin InFlight
  BY BeginFacts DEF InFlight, InFlightPhases, Retiring
<1>. QED BY <1>2, <1>3, <1>4

LEMMA OverFlight ==
    ASSUME runs \in [Requests -> Runs], NEW r \in Requests, Over(r) \/ OfferedAgain(r)
    PROVE  /\ InFlight' = InFlight \ {r}
           /\ Retiring' = Retiring \ {r}
BY OverFacts DEF InFlight, InFlightPhases, Retiring

(* A run that stays under way keeps everyone under way. *)
LEMMA SetFlight ==
    ASSUME runs \in [Requests -> Runs], NEW r \in Requests, NEW f \in Runs, Set(r, f),
           runs[r].pc \in {"resuming", "calling"}, f.pc \in InFlightPhases
    PROVE  /\ InFlight' = InFlight
           /\ r \in InFlight
           /\ \A q \in Requests : q # r => runs'[q] = runs[q]
           /\ runs'[r] = f
           /\ f.pc # "retiring" => Retiring' = Retiring
           /\ f.pc = "retiring" => r \in Retiring'
BY DEF Set, InFlight, InFlightPhases, Retiring

-----------------------------------------------------------------------------
(* What a program is, and what happened to it once, stays. *)
LEMMA KeptNext ==
    ASSUME ConversationTypeOK, ConversationNext
    PROVE  mode' = mode /\ isTask' = isTask /\ (torn => torn')
<1>1. ASSUME NEW r \in Requests, ConversationStep(r)
      PROVE  mode' = mode /\ isTask' = isTask /\ torn' = torn
  BY <1>1 DEF ConversationStep, Handle, ClaimRecovery, ClaimPlain, ResumeError,
         TurnEnds, TurnRaises, Progress, Record, Report, LoseAttempt
<1>2. ASSUME Reset \/ Archive \/ \E r \in Requests : Retire(r)
      PROVE  mode' = mode /\ isTask' = isTask /\ torn' = torn
  BY <1>2 DEF Reset, Archive, Retire
<1>3. ASSUME Restart PROVE mode' = mode /\ isTask' = isTask /\ (torn => torn')
  BY <1>3 DEF Restart
<1>. QED BY <1>1, <1>2, <1>3 DEF ConversationNext

(* The two scopes are never both active, but between two commits. *)
LEMMA TaskNext ==
    ConversationTypeOK /\ TableInv /\ ConversationNext
        => (isTask' => rows'["legacy"].status = "none")
<1>. SUFFICES ASSUME ConversationTypeOK, TableInv, ConversationNext, isTask'
              PROVE  rows'["legacy"].status = "none"
  OBVIOUS
<1>1. isTask /\ rows["legacy"].status = "none"
  BY KeptNext DEF TableInv
<1>. USE DEF ConversationTypeOK
<1>2. ASSUME NEW c, NEW t PROVE Marked(c, t)["legacy"].status = "none"
  BY <1>1 DEF Marked, Scopes
<1>3. ASSUME NEW n, NEW d PROVE Upserted(n, d)["legacy"].status = "none"
  BY <1>1 DEF Upserted, Scopes
<1>4. ASSUME NEW r \in Requests, Handle(r) PROVE rows'["legacy"].status = "none"
  BY <1>1, <1>2, <1>4 DEF Handle, StartFresh, StartResume
<1>5. ASSUME NEW r \in Requests, ClaimRecovery(r) \/ ClaimPlain(r) \/ ResumeError(r)
      PROVE  rows'["legacy"].status = "none"
  <2>1. rows' = rows \/ \E c, t : rows' = Marked(c, t)
    <3>1. CASE ClaimRecovery(r)
      BY <3>1 DEF ClaimRecovery
    <3>2. CASE ClaimPlain(r)
      BY <3>2 DEF ClaimPlain
    <3>3. CASE ResumeError(r)
      BY <3>3 DEF ResumeError
    <3>. QED BY <1>5, <3>1, <3>2, <3>3
  <2>. QED BY <1>1, <1>2, <2>1
<1>6. ASSUME NEW r \in Requests, TurnEnds(r) \/ Progress(r) \/ Report(r)
      PROVE  rows'["legacy"].status = "none"
  <2>1. rows' = rows \/ \E n, d : rows' = Upserted(n, d)
    <3>1. CASE TurnEnds(r)
      BY <3>1 DEF TurnEnds
    <3>2. CASE Progress(r)
      BY <3>2 DEF Progress
    <3>3. CASE Report(r)
      BY <3>3 DEF Report
    <3>. QED BY <1>6, <3>1, <3>2, <3>3
  <2>. QED BY <1>1, <1>3, <2>1
<1>7. ASSUME NEW r \in Requests, Record(r) \/ TurnRaises(r) \/ LoseAttempt(r) \/ Retire(r)
      PROVE  rows'["legacy"].status = "none"
  BY <1>1, <1>2, <1>7 DEF Record, TurnRaises, LoseAttempt, Retire
<1>8. ASSUME Reset \/ Archive \/ Restart PROVE rows'["legacy"].status = "none"
  BY <1>1, <1>2, <1>8 DEF Reset, Archive, Restart
<1>. QED BY <1>4, <1>5, <1>6, <1>7, <1>8 DEF ConversationNext, ConversationStep

LEMMA TableNext ==
    ConversationTypeOK /\ TableInv /\ [ConversationNext]_conversationVars => TableInv'
<1>. SUFFICES ASSUME ConversationTypeOK, TableInv, [ConversationNext]_conversationVars
              PROVE  TableInv'
  OBVIOUS
<1>. DEFINE T == mode # "worker" /\ ~torn /\ rows["legacy"].status = "active" =>
                   /\ \A r \in InFlight : runs[r].found = "legacy" /\ runs[r].pc # "calling"
                   /\ rows["canonical"].status = "active" => Retiring # {}
<1>1. CASE UNCHANGED conversationVars
  BY <1>1 DEF conversationVars, TableInv, InFlight, Retiring
<1>2. SUFFICES ASSUME ConversationNext PROVE T'
  BY <1>1, TaskNext DEF TableInv
<1>3. SUFFICES ASSUME mode' # "worker", ~torn', rows'["legacy"].status = "active"
               PROVE  /\ \A r \in InFlight' : runs'[r].found = "legacy" /\ runs'[r].pc # "calling"
                      /\ rows'["canonical"].status = "active" => Retiring' # {}
  OBVIOUS
<1>4. mode # "worker" /\ ~torn
  BY <1>2, <1>3, KeptNext
<1>. USE DEF ConversationTypeOK
<1>5. ASSUME NEW r \in Requests PROVE runs[r] \in Runs /\ runs[r].dir \in Dirs \cup {NoDir}
  BY DEF Runs
<1>6. ASSUME NEW c \in Scopes PROVE rows[c].sid \in Nat
  BY DEF Rows
<1>7. ASSUME rows["legacy"].status = "active"
      PROVE  /\ \A r \in InFlight : runs[r].found = "legacy" /\ runs[r].pc # "calling"
             /\ rows["canonical"].status = "active" => Retiring # {}
  BY <1>4, <1>7 DEF TableInv
<1>. DEFINE Goal == /\ \A r \in InFlight' : runs'[r].found = "legacy" /\ runs'[r].pc # "calling"
                    /\ rows'["canonical"].status = "active" => Retiring' # {}
<1>8. ASSUME Retiring = {}, NEW r \in Requests, Handle(r) PROVE Goal
  <2>1. PICK d \in Dirs : StartFresh(r, d) \/ StartResume(r, d)
    BY <1>8 DEF Handle
  <2>2. CASE StartFresh(r, d)
    <3>1. CASE FirstActive = "none"
      BY <1>3, <2>2, <3>1 DEF StartFresh, FirstActive, Scopes
    <3>2. CASE FirstActive = "legacy"
      BY <1>3, <2>2, <3>2, MarkedFacts DEF StartFresh, FirstActive, Scopes
    <3>3. CASE FirstActive = "canonical"
      BY <1>3, <1>7, <1>8, <2>2, <3>3, MarkedFacts DEF StartFresh, FirstActive, Scopes
    <3>. QED BY <3>1, <3>2, <3>3, FirstActiveType DEF Scopes
  <2>3. CASE StartResume(r, d)
    <3>1. rows' = rows /\ rows["canonical"].status # "active" /\ FirstActive = "legacy"
      BY <1>3, <1>7, <1>8, <2>3 DEF StartResume, FirstActive
    <3>2. /\ Started(r, "legacy", rows["legacy"].sid, d) \in Runs
          /\ Begin(r, Started(r, "legacy", rows["legacy"].sid, d))
      BY <1>6, <2>3, <3>1, StartedType DEF StartResume, Scopes
    <3>3. runs[r].pc = "idle"
      BY <1>8 DEF Handle, MayStart
    <3>4. InFlight' = InFlight \cup {r}
      BY <3>2, <3>3, BeginFlight, StartedFacts
    <3>. QED BY <1>3, <1>7, <3>1, <3>2, <3>4, BeginFacts, StartedFacts DEF InFlight
  <2>. QED BY <2>1, <2>2, <2>3
<1>9. ASSUME Retiring = {}, NEW r \in Requests, ResumeError(r) PROVE Goal
  <2>1. runs[r].found \in Scopes \cup {"none"}
    BY <1>9 DEF ResumeError, Runs
  <2>2. rows["legacy"].status = "active" => runs[r].found = "legacy"
    BY <1>7, <1>9 DEF ResumeError, InFlight, InFlightPhases
  <2>. QED BY <1>3, <1>9, <2>1, <2>2 DEF ResumeError, Marked, Scopes
<1>10. ASSUME Retiring = {}, NEW r \in Requests, TurnEnds(r) PROVE Goal
  <2>1. PICK new \in 0..MaxSessions : TurnEnds(r)!3!(new)
    BY <1>10 DEF TurnEnds
  <2>2. new \in Nat
    BY ConversationBounds
  <2>3. rows["legacy"].status = "active"
    BY <1>3, <1>5, <2>1, <2>2, UpsertedFacts
  <2>4. r \in InFlight /\ runs[r].found = "legacy"
    BY <1>7, <1>10, <2>3 DEF TurnEnds, InFlight, InFlightPhases
  <2>5. CASE new = None
    <3>1. Over(r) /\ rows' = rows
      BY <2>1, <2>5
    <3>. QED BY <1>7, <1>10, <2>3, <3>1, OverFlight, OverFacts DEF InFlight
  <2>6. CASE new # None
    <3>1. Set(r, [runs[r] EXCEPT !.pc = "retiring"])
      BY <2>1, <2>4, <2>6
    <3>2. /\ [runs[r] EXCEPT !.pc = "retiring"] \in Runs
          /\ [runs[r] EXCEPT !.pc = "retiring"].pc = "retiring"
          /\ [runs[r] EXCEPT !.pc = "retiring"].found = runs[r].found
      BY <1>5 DEF Runs, Phases
    <3>3. InFlight' = InFlight /\ r \in Retiring'
      BY <1>10, <3>1, <3>2, SetFlight DEF TurnEnds, InFlightPhases
    <3>4. \A q \in Requests : q # r => runs'[q] = runs[q]
      BY <3>1 DEF Set
    <3>. QED BY <1>7, <2>3, <2>4, <3>1, <3>2, <3>3, <3>4 DEF Set, InFlight
  <2>. QED BY <2>5, <2>6
<1>11. ASSUME NEW r \in Requests, Retire(r) PROVE Goal
  BY <1>3, <1>11, MarkedFacts DEF Retire, Scopes
<1>12. ASSUME Retiring = {}, NEW r \in Requests, TurnRaises(r) PROVE Goal
  BY <1>3, <1>7, <1>12, OverFlight, OverFacts DEF TurnRaises, InFlight
<1>13. CASE Retiring = {} /\ (Reset \/ Archive)
  <2>1. runs' = runs
    BY <1>13 DEF Reset, Archive
  <2>2. rows["legacy"].status = "active" /\ rows'["canonical"].status # "active"
    <3>1. CASE Reset
      <4>1. FirstActive \in Scopes /\ rows' = Marked(FirstActive, "stale")
        BY <3>1, FirstActiveType DEF Reset
      <4>. QED BY <1>3, <1>7, <1>13, <4>1, MarkedFacts DEF FirstActive, Scopes
    <3>2. CASE Archive
      BY <1>3, <3>2, MarkedFacts DEF Archive, Scopes
    <3>. QED BY <1>13, <3>1, <3>2
  <2>. QED BY <1>7, <2>1, <2>2 DEF InFlight
<1>14. CASE Restart
  <2>1. InFlight' = {} /\ rows' = rows /\ Retiring = {}
    BY <1>3, <1>14 DEF Restart, InFlight, InFlightPhases, IdleRun
  <2>. QED BY <1>3, <1>7, <2>1
<1>. QED
  BY <1>2, <1>4, <1>8, <1>9, <1>10, <1>11, <1>12, <1>13, <1>14 DEF ConversationNext, ConversationStep,
     ClaimRecovery, ClaimPlain, Progress, Record, Report, LoseAttempt

-----------------------------------------------------------------------------
(* A discarded session stays out of the table and out of the runs. *)
LEMMA SessionNext ==
    ConversationTypeOK /\ TableInv /\ SessionInv /\ [ConversationNext]_conversationVars => SessionInv'
<1>. SUFFICES ASSUME ConversationTypeOK, TableInv, SessionInv, [ConversationNext]_conversationVars
              PROVE  SessionInv'
  OBVIOUS
<1>1. CASE UNCHANGED conversationVars
  BY <1>1 DEF conversationVars, SessionInv, NumberInv, AloneInv, DiscardSticks, InFlight
<1>2. SUFFICES ASSUME ConversationNext, mode # "worker", mode' = mode, torn => torn'
               PROVE  NumberInv' /\ AloneInv' /\ DiscardSticks'
  BY <1>1, KeptNext DEF SessionInv
<1>3. NumberInv /\ AloneInv /\ DiscardSticks
  BY <1>2 DEF SessionInv
<1>. USE DEF ConversationTypeOK
<1>4. ASSUME NEW r \in Requests
      PROVE  runs[r] \in Runs /\ runs[r].sid \in Nat /\ runs[r].dir \in Dirs \cup {NoDir}
  BY DEF Runs
<1>5. ASSUME NEW c \in Scopes PROVE rows[c].sid \in Nat
  BY DEF Rows
<1>6. ASSUME ~torn, Retiring = {} PROVE ~(rows["canonical"].status = "active" /\ rows["legacy"].status = "active")
  BY <1>2, <1>6 DEF TableInv
<1>7. ASSUME Retiring = {}, NEW r \in Requests, Handle(r)
      PROVE  NumberInv' /\ AloneInv' /\ DiscardSticks'
  <2>1. PICK d \in Dirs : StartFresh(r, d) \/ StartResume(r, d)
    BY <1>7 DEF Handle
  <2>2. runs[r].pc = "idle" /\ opened' = opened /\ torn' = torn
    BY <1>7 DEF Handle, MayStart
  <2>3. CASE StartFresh(r, d)
    <3>. DEFINE f == Started(r, "none", None, d)
    <3>1. f \in Runs /\ Begin(r, f) /\ f.pc = "calling" /\ f.found = "none" /\ f.sid = None
      BY <2>3, StartedType, StartedFacts DEF StartFresh, None
    <3>. HIDE DEF f
    <3>2. /\ InFlight' = InFlight \cup {r}
          /\ r \notin InFlight
          /\ runs'[r].alone => InFlight = {}
          /\ \A q \in InFlight : ~runs'[q].alone
      BY <2>2, <3>1, BeginFlight
    <3>3. \A q \in Requests : /\ runs'[q].pc = IF q = r THEN "calling" ELSE runs[q].pc
                              /\ runs'[q].found = IF q = r THEN "none" ELSE runs[q].found
                              /\ runs'[q].sid = IF q = r THEN None ELSE runs[q].sid
      BY <3>1, BeginFacts
    <3>4. AloneInv'
      BY <1>3, <3>2, <3>3 DEF AloneInv, InFlight
    <3>5. CASE FirstActive = "none"
      <4>1. rows' = rows /\ dead' = dead
        BY <2>3, <3>5 DEF StartFresh
      <4>. QED BY <1>2, <1>3, <2>2, <3>3, <3>4, <4>1 DEF NumberInv, DiscardSticks, None
    <3>6. CASE FirstActive \in Scopes
      <4>1. /\ \A c \in Scopes : /\ rows'[c].sid = rows[c].sid
                                 /\ rows'[c].status = "active" => rows[c].status = "active" /\ c # FirstActive
            /\ dead' = IF InFlight = {} THEN dead \cup {rows[FirstActive].sid} ELSE dead
            /\ rows[FirstActive].status = "active"
        BY <2>3, <3>6, MarkedFacts DEF StartFresh, Discards, FirstActive, Scopes
      <4>2. NumberInv'
        BY <1>3, <2>2, <3>3, <3>6, <4>1 DEF NumberInv, None
      <4>3. ASSUME ~torn, NEW c \in Scopes PROVE rows'[c].status # "active"
        BY <1>6, <1>7, <3>6, <4>1, <4>3 DEF Scopes
      <4>4. ASSUME ~torn, NEW q \in Requests, runs'[q].pc = "resuming" PROVE runs'[q].sid \notin dead'
        BY <1>2, <1>3, <3>3, <4>1, <4>4 DEF DiscardSticks, InFlight, InFlightPhases
      <4>. QED BY <2>2, <3>4, <4>2, <4>3, <4>4 DEF DiscardSticks
    <3>. QED BY <3>5, <3>6, FirstActiveType
  <2>4. CASE StartResume(r, d)
    <3>1. FirstActive \in Scopes /\ rows[FirstActive].status = "active" /\ rows' = rows /\ dead' = dead
      BY <2>4, FirstActiveType DEF StartResume, FirstActive
    <3>. DEFINE f == Started(r, FirstActive, rows[FirstActive].sid, d)
    <3>2. /\ f \in Runs /\ Begin(r, f)
          /\ f.pc = "resuming" /\ f.found = FirstActive /\ f.sid = rows[FirstActive].sid
      BY <1>5, <2>4, <3>1, StartedType, StartedFacts DEF StartResume
    <3>. HIDE DEF f
    <3>3. /\ InFlight' = InFlight \cup {r}
          /\ r \notin InFlight
          /\ runs'[r].alone => InFlight = {}
          /\ \A q \in InFlight : ~runs'[q].alone
      BY <2>2, <3>2, BeginFlight
    <3>4. \A q \in Requests : /\ runs'[q].pc = IF q = r THEN "resuming" ELSE runs[q].pc
                              /\ runs'[q].found = IF q = r THEN FirstActive ELSE runs[q].found
                              /\ runs'[q].sid = IF q = r THEN rows[FirstActive].sid ELSE runs[q].sid
      BY <3>2, BeginFacts
    <3>5. FirstActive = "legacy" => rows'["canonical"].status # "active"
      BY <3>1 DEF FirstActive
    <3>6. AloneInv'
      BY <1>3, <3>1, <3>3, <3>4, <3>5 DEF AloneInv, InFlight
    <3>. QED BY <1>2, <1>3, <2>2, <3>1, <3>4, <3>6 DEF NumberInv, DiscardSticks
  <2>. QED BY <2>1, <2>3, <2>4
<1>8. ASSUME Retiring = {}, NEW r \in Requests, ResumeError(r)
      PROVE  NumberInv' /\ AloneInv' /\ DiscardSticks'
  <2>. DEFINE f == [runs[r] EXCEPT !.pc = "calling", !.found = "none", !.sid = None]
  <2>1. /\ f \in Runs /\ Set(r, f)
        /\ f.pc = "calling" /\ f.found = "none" /\ f.sid = None /\ f.alone = runs[r].alone
    BY <1>4, <1>8 DEF ResumeError, Runs, Phases, None
  <2>. HIDE DEF f
  <2>2. /\ InFlight' = InFlight /\ r \in InFlight
        /\ \A q \in Requests : q # r => runs'[q] = runs[q]
        /\ runs'[r] = f
    BY <1>8, <2>1, SetFlight DEF ResumeError, InFlightPhases
  <2>3. /\ runs[r].pc = "resuming" /\ runs[r].found \in Scopes
        /\ opened' = opened /\ torn' = torn
        /\ dead' = IF runs[r].alone THEN dead \cup {runs[r].sid} ELSE dead
        /\ rows' = Marked(runs[r].found, "stale")
    BY <1>2, <1>3, <1>8, <2>2 DEF ResumeError, Discards, AloneInv
  <2>4. \A c \in Scopes : /\ rows'[c].sid = rows[c].sid
                          /\ rows'[c].status = "active" => rows[c].status = "active" /\ c # runs[r].found
    BY <2>3, MarkedFacts
  <2>5. NumberInv'
    BY <1>3, <2>1, <2>2, <2>3, <2>4 DEF NumberInv, None
  <2>6. AloneInv'
    BY <1>3, <2>1, <2>2, <2>3, <2>4 DEF AloneInv, InFlight, Scopes
  <2>7. ASSUME ~torn, NEW c \in Scopes, rows'[c].status = "active" PROVE rows'[c].sid \notin dead'
    <3>1. rows[c].sid \notin dead /\ rows[c].status = "active" /\ c # runs[r].found
      BY <1>2, <1>3, <2>4, <2>7 DEF DiscardSticks
    <3>2. ~runs[r].alone
      BY <1>2, <1>3, <2>2, <2>3, <2>7, <3>1 DEF AloneInv, TableInv, Scopes
    <3>. QED BY <2>3, <2>4, <3>1, <3>2
  <2>8. ASSUME ~torn, NEW q \in Requests, runs'[q].pc = "resuming" PROVE runs'[q].sid \notin dead'
    <3>1. q # r /\ runs[q].pc = "resuming" /\ runs'[q].sid = runs[q].sid /\ runs[q].sid \notin dead
      BY <1>2, <1>3, <2>1, <2>2, <2>8 DEF DiscardSticks
    <3>2. ~runs[r].alone
      BY <1>3, <2>2, <3>1 DEF AloneInv, InFlight, InFlightPhases
    <3>. QED BY <2>3, <3>1, <3>2
  <2>. QED BY <2>3, <2>5, <2>6, <2>7, <2>8 DEF DiscardSticks
<1>9. ASSUME Retiring = {}, NEW r \in Requests, TurnEnds(r)
      PROVE  NumberInv' /\ AloneInv' /\ DiscardSticks'
  <2>1. PICK new \in 0..MaxSessions : TurnEnds(r)!3!(new)
    BY <1>9 DEF TurnEnds
  <2>2. new \in Nat /\ torn' = torn /\ dead' = dead /\ r \in InFlight
    BY <1>9, ConversationBounds DEF TurnEnds, InFlight, InFlightPhases
  <2>3. /\ opened <= opened'
        /\ new <= opened'
        /\ ~torn => new \notin dead \/ new = None
    <3>1. new # None => new = runs[r].sid \/ new = opened + 1
      BY <2>1 DEF Reported
    <3>2. opened <= opened' /\ new <= opened'
      BY <1>3, <1>4, <2>1, <2>2, <3>1 DEF Opens, NumberInv, None
    <3>3. opened + 1 \notin dead
      BY <1>3 DEF NumberInv
    <3>4. ASSUME ~torn, new = runs[r].sid, new # None PROVE new \notin dead
      BY <1>2, <1>3, <1>9, <2>2, <3>4 DEF TurnEnds, AloneInv, DiscardSticks
    <3>. QED BY <3>1, <3>2, <3>3, <3>4
  <2>4. \A c \in Scopes : \/ rows'[c].sid = rows[c].sid /\ rows'[c].status = rows[c].status
                          \/ c = "canonical" /\ rows'[c].sid = new /\ new # None
    BY <1>4, <2>1, <2>2, UpsertedFacts DEF Scopes
  <2>5. \A q \in Requests : q # r => runs'[q] = runs[q]
    BY <2>1, OverFacts DEF Set
  <2>6. /\ runs'[r].pc \in {"idle", "done", "retiring"}
        /\ runs'[r].sid \in {None, runs[r].sid}
        /\ runs'[r].pc = "retiring" => runs'[r].alone = runs[r].alone
    <3>1. CASE Over(r)
      BY <3>1, OverFacts
    <3>2. CASE Set(r, [runs[r] EXCEPT !.pc = "retiring"])
      BY <1>4, <3>2 DEF Set, Runs
    <3>. QED BY <2>1, <3>1, <3>2
  <2>7. InFlight' = InFlight \/ InFlight' = InFlight \ {r}
    BY <2>2, <2>5, <2>6 DEF InFlight, InFlightPhases
  <2>8. NumberInv'
    <3>1. opened' \in Nat
      BY <2>1, <2>2 DEF Opens
    <3>2. ASSUME NEW c \in Scopes PROVE rows'[c].sid <= opened'
      BY <1>3, <1>5, <2>3, <2>4, <3>1 DEF NumberInv
    <3>3. ASSUME NEW q \in Requests PROVE runs'[q].sid <= opened'
      BY <1>3, <1>4, <2>3, <2>5, <2>6, <3>1 DEF NumberInv, None
    <3>4. ASSUME NEW s \in dead' PROVE s <= opened'
      BY <1>3, <2>2, <2>3, <3>1 DEF NumberInv
    <3>. QED BY <3>2, <3>3, <3>4 DEF NumberInv
  <2>9. AloneInv'
    <3>1. ASSUME NEW q \in InFlight', q # r
          PROVE  q \in InFlight /\ runs'[q] = runs[q] /\ ~runs'[q].alone
      BY <1>3, <2>2, <2>5, <2>7, <3>1 DEF AloneInv, InFlight
    <3>2. ASSUME r \in InFlight'
          PROVE  /\ runs'[r].pc = "retiring"
                 /\ runs'[r].alone => InFlight' = {r}
      BY <1>3, <2>2, <2>6, <2>7, <3>2 DEF AloneInv, InFlight, InFlightPhases
    <3>. QED BY <1>3, <3>1, <3>2 DEF AloneInv
  <2>. QED BY <1>2, <1>3, <2>2, <2>3, <2>4, <2>5, <2>6, <2>8, <2>9 DEF DiscardSticks
<1>10. ASSUME NEW r \in Requests, Retire(r) \/ TurnRaises(r)
      PROVE  NumberInv' /\ AloneInv' /\ DiscardSticks'
  <2>1. opened' = opened /\ torn' = torn /\ dead' = dead /\ Over(r) /\ InFlight' = InFlight \ {r} /\ r \in InFlight
    BY <1>10, OverFlight DEF Retire, TurnRaises, InFlight, InFlightPhases
  <2>2. \A c \in Scopes : /\ rows'[c].sid = rows[c].sid
                          /\ rows'[c].status = "active" => rows[c].status = "active"
    BY <1>10, MarkedFacts DEF Retire, TurnRaises, Scopes
  <2>3. \A q \in Requests : q # r => runs'[q] = runs[q]
    BY <2>1, OverFacts
  <2>4. runs'[r].pc \in {"idle", "done"} /\ runs'[r].sid = None
    BY <2>1, OverFacts
  <2>5. AloneInv'
    BY <1>3, <2>1, <2>2, <2>3 DEF AloneInv, Scopes, InFlight
  <2>. QED BY <1>2, <1>3, <2>1, <2>2, <2>3, <2>4, <2>5 DEF NumberInv, DiscardSticks, None
<1>11. CASE Retiring = {} /\ (Reset \/ Archive)
  <2>1. PICK c \in Scopes :
          /\ \A x \in Scopes : /\ rows'[x].sid = rows[x].sid
                               /\ rows'[x].status = "active" => rows[x].status = "active" /\ x # c
          /\ dead' = IF InFlight = {} THEN dead \cup {rows[c].sid} ELSE dead
          /\ ~torn => \A x \in Scopes : rows'[x].status # "active"
    <3>1. CASE Reset
      <4>1. FirstActive \in Scopes /\ rows[FirstActive].status = "active" /\ rows' = Marked(FirstActive, "stale")
        BY <3>1, FirstActiveType DEF Reset, FirstActive
      <4>2. \A x \in Scopes : /\ rows'[x].sid = rows[x].sid
                              /\ rows'[x].status = "active" => rows[x].status = "active" /\ x # FirstActive
        BY <4>1, MarkedFacts
      <4>. QED BY <1>6, <1>11, <3>1, <4>1, <4>2 DEF Reset, Discards, Scopes
    <3>2. CASE Archive
      <4>1. \A x \in Scopes : /\ rows'[x].sid = rows[x].sid
                              /\ rows'[x].status = "active" => rows[x].status = "active" /\ x # "canonical"
        BY <3>2, MarkedFacts DEF Archive, Scopes
      <4>2. rows["legacy"].status = "none"
        BY <3>2 DEF Archive, TableInv
      <4>. QED BY <3>2, <4>1, <4>2 DEF Archive, Discards, Scopes
    <3>. QED BY <1>11, <3>1, <3>2
  <2>2. runs' = runs /\ opened' = opened /\ torn' = torn /\ InFlight' = InFlight
    BY <1>11 DEF Reset, Archive, InFlight
  <2>3. NumberInv'
    BY <1>3, <2>1, <2>2 DEF NumberInv
  <2>4. AloneInv'
    BY <1>3, <2>1, <2>2 DEF AloneInv, Scopes, InFlight
  <2>5. ASSUME ~torn, NEW q \in Requests, runs[q].pc = "resuming" PROVE runs[q].sid \notin dead'
    BY <1>2, <1>3, <2>1, <2>5 DEF DiscardSticks, InFlight, InFlightPhases
  <2>. QED BY <2>1, <2>2, <2>3, <2>4, <2>5 DEF DiscardSticks
<1>12. CASE Restart
  <2>1. /\ rows' = rows /\ opened' = opened /\ dead' = dead
        /\ \A q \in Requests : runs'[q].pc = "idle" /\ runs'[q].sid = None
    BY <1>12 DEF Restart, IdleRun
  <2>2. AloneInv'
    BY <2>1 DEF AloneInv, InFlight, InFlightPhases
  <2>3. NumberInv'
    <3>1. \A q \in Requests : runs'[q].sid <= opened'
      BY <2>1 DEF None
    <3>. QED BY <1>3, <2>1, <3>1 DEF NumberInv
  <2>4. DiscardSticks'
    <3>1. mode = mode' /\ (~torn' => ~torn)
      BY <1>2
    <3>2. \A q \in Requests : runs'[q].pc # "resuming"
      BY <2>1
    <3>. QED BY <1>2, <1>3, <2>1, <3>1, <3>2 DEF DiscardSticks
  <2>. QED BY <2>2, <2>3, <2>4
<1>. QED
  BY <1>2, <1>7, <1>8, <1>9, <1>10, <1>11, <1>12 DEF ConversationNext, ConversationStep,
     ClaimRecovery, ClaimPlain, Progress, Record, Report, LoseAttempt

-----------------------------------------------------------------------------
LEMMA InitInvariants ==
    ConversationInit => ConversationTypeOK /\ KnownInv /\ TableInv /\ SessionInv
<1>. SUFFICES ASSUME ConversationInit PROVE ConversationTypeOK /\ KnownInv /\ TableInv /\ SessionInv
  OBVIOUS
<1>1. NoRow \in Rows /\ [status |-> "active", sid |-> 1, dir |-> dir] \in Rows /\ IdleRun \in Runs
  BY DEF ConversationInit, NoRow, Rows, IdleRun, Runs, Phases, None
<1>2. \A c \in Scopes : rows[c] = NoRow \/ rows[c] = [status |-> "active", sid |-> 1, dir |-> dir]
  BY DEF ConversationInit
<1>3. ConversationTypeOK
  BY <1>1 DEF ConversationInit, ConversationTypeOK, None
<1>4. InFlight = {} /\ \A r \in Requests : runs[r] = IdleRun
  BY DEF ConversationInit, InFlight, InFlightPhases, IdleRun
<1>5. KnownInv
  BY <1>4 DEF KnownInv, IdleRun
<1>6. TableInv
  BY <1>4 DEF ConversationInit, TableInv, NoRow
<1>7. NumberInv /\ AloneInv /\ DiscardSticks
  BY <1>2, <1>4 DEF ConversationInit, NumberInv, AloneInv, DiscardSticks, IdleRun, NoRow, None
<1>. QED BY <1>3, <1>5, <1>6, <1>7 DEF SessionInv

(* Types, for every step of the bridge, the server and the worker.         *)
THEOREM ConversationTypes == ConversationSpec => []ConversationTypeOK
<1>. QED BY InitInvariants, TypeNext, PTL DEF ConversationSpec

(* OneResumable: overlapping requests, failed resumes, resets and archives *)
(* never leave the two scopes of a conversation active together (client.py,*)
(* _run_adapter_for_scope: the first active scope is resumed, the legacy   *)
(* one is retired); only a death between two commits does.                 *)
THEOREM OneResumableCorrect == ConversationSpec => []OneResumable
<1>1. TableInv => OneResumable
  BY DEF TableInv, OneResumable, Scopes
<1>. QED BY <1>1, InitInvariants, TypeNext, TableNext, PTL DEF ConversationSpec

(* DiscardSticks: a session that is discarded while no other run is under  *)
(* way (mark_stale, mark_archived) is not offered or resumed again.        *)
THEOREM DiscardCorrect == ConversationSpec => []DiscardSticks
<1>1. SessionInv => DiscardSticks
  BY DEF SessionInv, DiscardSticks
<1>. QED BY <1>1, InitInvariants, TypeNext, TableNext, SessionNext, PTL DEF ConversationSpec

(* NoFreshDuplicate: a claim whose session Coordinate knows resumes that   *)
(* one and never sends the prompt to a fresh session (worker.py, the       *)
(* recovery of a claimed job).                                             *)
THEOREM RecoveryResumes == ConversationSpec => []NoFreshDuplicate
<1>1. KnownInv => NoFreshDuplicate
  BY DEF KnownInv, NoFreshDuplicate
<1>. QED BY <1>1, InitInvariants, TypeNext, KnownNext, PTL DEF ConversationSpec
=============================================================================
