---------------------------- MODULE MemoryWasher ----------------------------
(***************************************************************************)
(* The memory washer (washer.py) over the shared database                  *)
(* (persistence/db.py): a nightly pass reads the messages of the user      *)
(* beyond a watermark, first of the table conversations and then of        *)
(* conversations_archive, has a model extract memories from each, stores   *)
(* them one commit at a time and saves the watermark at the end.           *)
(*                                                                         *)
(* The bot writes to the same tables while a pass runs.  Both tables number*)
(* their rows by SQLite's rowid, one more than the largest in the table, so*)
(* that a number is given out again when the last rows have gone.          *)
(* Messages of others, which a pass does not read, are left out.           *)
(***************************************************************************)
EXTENDS Naturals, FiniteSets, FiniteSetsExt

CONSTANTS
    Notes,         \* bound: messages; they are 1..Notes, in the order of saving
    Batch,         \* rows read from a table in a pass (500)
    Tiers,         \* where a memory can go: memories, memory_promotions, review_queue
    MaxItems,      \* bound: memories extracted from one message
    MaxFailures    \* bound: failed or killed passes

ASSUME WasherBounds == Notes \in Nat /\ Batch \in Nat \ {0} /\ MaxFailures \in Nat

VARIABLES
    place,     \* place[m]: the table message m is in, if any
    row,       \* row[m]: its rowid there
    highest,   \* history: the largest rowid there ever was in conversations
    reused,    \* history: messages saved under a rowid that had been used
    marks,     \* table memory_watermark
    pass,      \* the pass: where it stands, in which table, what it read
    due,       \* history: the memories of the last extraction of each message
    stored,    \* memories, memory_promotions and review_queue, as <<message, tier>>
    washed,    \* history: messages rejected, or with all that is due stored
    failures

memoryVars == <<place, row, highest, reused, marks, pass, due, stored, washed, failures>>

Tables == {"conversations", "conversations_archive"}
Msgs == 1..Notes

NoPass == [pc |-> "off", source |-> "conversations", batch |-> {}, top |-> 0, left |-> {}]

MemoryTypeOK ==
    /\ place \in [Msgs -> Tables \cup {"unsent", "gone"}]
    /\ row \in [Msgs -> 0..Notes]
    /\ highest \in 0..Notes
    /\ reused \subseteq Msgs
    /\ marks \in [Tables -> 0..Notes]
    /\ pass.pc \in {"off", "fetch", "work", "route"} /\ pass.source \in Tables
    /\ pass.batch \subseteq [m : Msgs, row : 1..Notes] /\ Cardinality(pass.batch) <= Batch
    /\ pass.top \in 0..Notes /\ pass.left \subseteq Tiers
    /\ due \subseteq Msgs \X Tiers
    /\ stored \subseteq Msgs \X Tiers
    /\ washed \subseteq Msgs
    /\ failures \in 0..MaxFailures

MemoryInit ==
    /\ place = [m \in Msgs |-> "unsent"]
    /\ row = [m \in Msgs |-> 0]
    /\ highest = 0
    /\ reused = {}
    /\ marks = [t \in Tables |-> 0]
    /\ pass = NoPass
    /\ due = {}
    /\ stored = {}
    /\ washed = {}
    /\ failures = 0

-----------------------------------------------------------------------------
(* The bot *)

In(t) == {m \in Msgs : place[m] = t}
LastRow(t) == Max({row[m] : m \in In(t)} \cup {0})

(* save_message *)
Save(m) ==
    /\ place[m] = "unsent"
    /\ \A n \in 1..(m - 1) : place[n] # "unsent"
    /\ place' = [place EXCEPT ![m] = "conversations"]
    /\ row' = [row EXCEPT ![m] = LastRow("conversations") + 1]
    /\ reused' = IF row'[m] <= highest THEN reused \cup {m} ELSE reused
    /\ highest' = Max({highest, row'[m]})
    /\ UNCHANGED <<marks, pass, due, stored, washed, failures>>

(* archive_old_conversations: the messages up to `last` are old enough.  One*)
(* transaction copies them, which numbers them anew, and deletes them.     *)
ArchiveOld(last) ==
    LET moved == {m \in In("conversations") : m <= last}
    IN /\ moved # {}
       /\ place' = [m \in Msgs |-> IF m \in moved THEN "conversations_archive" ELSE place[m]]
       /\ row' = [m \in Msgs |->
                    IF m \in moved
                    THEN LastRow("conversations_archive") + Cardinality({n \in moved : n <= m})
                    ELSE row[m]]
       /\ UNCHANGED <<highest, reused, marks, pass, due, stored, washed, failures>>

(* clear_history: a thread's messages go, but for the archived ones. *)
ClearThread(thread) ==
    /\ thread # {}
    /\ place' = [m \in Msgs |-> IF m \in thread THEN "gone" ELSE place[m]]
    /\ UNCHANGED <<row, highest, reused, marks, pass, due, stored, washed, failures>>

-----------------------------------------------------------------------------
(* A pass *)

(* The process starts; the schema of the database is as it should be. *)
StartPass ==
    /\ pass.pc = "off"
    /\ pass' = [NoPass EXCEPT !.pc = "fetch"]
    /\ UNCHANGED <<place, row, highest, reused, marks, due, stored, washed, failures>>

(* The other table comes next, after it the pass is over. *)
NextSource ==
    IF pass.source = "conversations"
    THEN [NoPass EXCEPT !.pc = "fetch", !.source = "conversations_archive"]
    ELSE NoPass

(* The rows beyond the watermark, as many as a pass reads, the first ones. *)
Unread ==
    LET above == {m \in In(pass.source) : row[m] > marks[pass.source]}
    IN {[m |-> n, row |-> row[n]] :
          n \in {m \in above : Cardinality({l \in above : row[l] < row[m]}) < Batch}}

(* Mutant of Fetch: nothing to read in a table ends the pass. *)
FetchReturns ==
    /\ pass.pc = "fetch"
    /\ pass' = IF Unread = {} THEN NoPass
               ELSE [pass EXCEPT !.pc = "work", !.batch = Unread,
                                 !.top = marks[pass.source]]
    /\ UNCHANGED <<place, row, highest, reused, marks, due, stored, washed, failures>>

(* get_watermark and _fetch_messages_since. *)
Fetch ==
    /\ pass.pc = "fetch"
    /\ pass' = IF Unread = {} THEN NextSource
               ELSE [pass EXCEPT !.pc = "work", !.batch = Unread,
                                 !.top = marks[pass.source]]
    /\ UNCHANGED <<place, row, highest, reused, marks, due, stored, washed, failures>>

(* The rows are gone through in the order of their numbers. *)
Msg == CHOOSE d \in pass.batch : \A e \in pass.batch : d.row <= e.row
Working == pass.pc = "work" /\ pass.batch # {}
Passed == [pass EXCEPT !.pc = "work", !.batch = @ \ {Msg}, !.left = {},
                       !.top = Max({@, Msg.row})]

(* A blank message, or one the content validator rejects: not one that has *)
(* been to the model.                                                      *)
PreFilter ==
    /\ Working
    /\ \A d \in due : d[1] # Msg.m
    /\ pass' = Passed
    /\ washed' = washed \cup {Msg.m}
    /\ UNCHANGED <<place, row, highest, reused, marks, due, stored, failures>>

(* The model does not answer: the rest of the batch waits for another pass.*)
(* Mutant of LlmFails: the message is passed over. *)
LlmFailsPassedOver ==
    /\ Working
    /\ failures < MaxFailures
    /\ failures' = failures + 1
    /\ pass' = [Passed EXCEPT !.batch = {}]
    /\ UNCHANGED <<place, row, highest, reused, marks, due, stored, washed>>

LlmFails ==
    /\ Working
    /\ failures < MaxFailures
    /\ failures' = failures + 1
    /\ pass' = [pass EXCEPT !.batch = {}]
    /\ UNCHANGED <<place, row, highest, reused, marks, due, stored, washed>>

(* It answers, with something to store or with nothing. *)
LlmAnswers ==
    /\ Working
    /\ \E tiers \in SUBSET Tiers :
         /\ Cardinality(tiers) <= MaxItems
         /\ due' = {d \in due : d[1] # Msg.m} \cup ({Msg.m} \X tiers)
         /\ IF tiers = {}
            THEN pass' = Passed /\ washed' = washed \cup {Msg.m}
            ELSE /\ pass' = [pass EXCEPT !.pc = "route", !.left = tiers]
                 /\ washed' = washed \ {Msg.m}
    /\ UNCHANGED <<place, row, highest, reused, marks, stored, failures>>

(* _route_extraction: one memory is stored, each tier by a statement that  *)
(* makes one row of it whether it is there or not.                         *)
Route ==
    /\ pass.pc = "route"
    /\ \E t \in pass.left :
         /\ stored' = stored \cup {<<Msg.m, t>>}
         /\ IF pass.left = {t}
            THEN pass' = Passed /\ washed' = washed \cup {Msg.m}
            ELSE pass' = [pass EXCEPT !.left = @ \ {t}] /\ UNCHANGED washed
    /\ UNCHANGED <<place, row, highest, reused, marks, due, failures>>

(* The batch is done, or was left: the watermark moves, if there is reason.*)
SaveMark ==
    /\ pass.pc = "work"
    /\ pass.batch = {}
    /\ marks' = [marks EXCEPT ![pass.source] = IF pass.top > @ THEN pass.top ELSE @]
    /\ pass' = NextSource
    /\ UNCHANGED <<place, row, highest, reused, due, stored, washed, failures>>

(* The process dies, or an item that cannot be stored (an importance that  *)
(* is no number, a locked database) raises out of the pass.                *)
PassDies ==
    /\ pass.pc # "off"
    /\ failures < MaxFailures
    /\ failures' = failures + 1
    /\ pass' = NoPass
    /\ UNCHANGED <<place, row, highest, reused, marks, due, stored, washed>>

WasherStep ==
    \/ StartPass
    \/ Fetch
    \/ PreFilter
    \/ LlmAnswers
    \/ Route
    \/ SaveMark

MemoryNext ==
    \/ \E m \in Msgs : Save(m) \/ ArchiveOld(m)
    \/ \E thread \in SUBSET In("conversations") : ClearThread(thread)
    \/ WasherStep
    \/ LlmFails
    \/ PassDies

(* The pass is scheduled daily and every call in it returns; of the bot    *)
(* nothing is assumed.                                                     *)
MemoryFairness == WF_memoryVars(WasherStep)

MemorySpec == MemoryInit /\ [][MemoryNext]_memoryVars /\ MemoryFairness

-----------------------------------------------------------------------------
(* Properties *)

(* What a watermark covers is done: an archived message at or below it has *)
(* been rejected, or extracted and every memory of that extraction stored, *)
(* whatever pass died or message was archived in between.  In conversations*)
(* that is so but for messages saved under a number used before.           *)
WatermarkSound ==
    /\ \A m \in In("conversations_archive") :
         row[m] <= marks["conversations_archive"] => m \in washed
    /\ \A m \in In("conversations") :
         row[m] <= marks["conversations"] => m \in washed \cup reused
    /\ \A d \in due : d[1] \in washed => d \in stored

(* With failures that come to an end every message that is archived is     *)
(* washed, the one whose number had been used and was passed over too; any *)
(* other is washed, cleared or archived.                                   *)
EveryMessageWashed ==
    /\ \A m \in Msgs : place[m] = "conversations_archive" ~> m \in washed
    /\ \A m \in Msgs :
         place[m] = "conversations" /\ m \notin reused
             ~> m \in washed \/ place[m] # "conversations"
=============================================================================
