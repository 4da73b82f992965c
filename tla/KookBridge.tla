----------------------------- MODULE KookBridge -----------------------------
(***************************************************************************)
(* The KOOK bridge of one agent (multinexus/kook/bot.py): the same messages*)
(* of a channel come over the websocket and, again and again, from a poll  *)
(* of the latest page, and the bridge must take each up once.  The ids it  *)
(* has seen are kept in a window of bounded length and only in memory; a   *)
(* handoff repeated by a bot is recognised by its text, in the context     *)
(* store (multinexus/context/store.py), which outlives the process.  All   *)
(* agents of an installation share that store by default, and the bridge   *)
(* of every agent records every message, whomever it is for.               *)
(*                                                                         *)
(* Websocket handlers run beside each other and beside the poll, which     *)
(* handles its page item by item and waits for each.                       *)
(***************************************************************************)
EXTENDS Naturals, Sequences, FiniteSets, SequencesExt

CONSTANTS
    Posts,         \* messages posted in the channel; they are 1..Posts, in order
    Twins,         \* those that are one handoff, sent again by the same bot
    Window,        \* ids remembered (2000)
    PageSize,      \* messages on the page of a poll
    MaxRestarts    \* bound: restarts of the bridge

ASSUME KookBounds ==
    /\ Posts \in Nat /\ Twins \subseteq 1..Posts
    /\ Window \in Nat \ {0} /\ PageSize \in Nat \ {0}
    /\ MaxRestarts \in Nat

VARIABLES
    posted,     \* how many messages have been posted
    shown,      \* messages the websocket has delivered
    seen,       \* seen_message_order, whose elements are seen_message_ids
    page,       \* what is left of the page the poll is going through
    polling,    \* is the poll task alive
    busy,       \* the handlings <<m, source>> under way
    recorded,   \* context store: the messages in it
    elsewhere,  \* context store: those another agent's bridge recorded first
    foreign,    \* context store: those of elsewhere whose text that bridge
                \*   rendered in other words than this one
    aged,       \* context store: those older than handoff_dedupe_seconds
    since,      \* messages older than the process
    restarts,
    handled,    \* history: how often m was taken up
    dropped     \* history: how often m fell out of the window

store == <<recorded, elsewhere, foreign, aged>>
kookVars == <<posted, shown, seen, page, polling, busy, store, since, restarts,
              handled, dropped>>

Ids == 1..Posts
Sources == {"ws", "poll"}
Handlings == Ids \X Sources

KookTypeOK ==
    /\ posted \in 0..Posts
    /\ shown \subseteq Ids
    /\ seen \in Seq(Ids) /\ Len(seen) <= Window
    /\ page \in Seq(Ids) /\ Len(page) <= PageSize
    /\ polling \in BOOLEAN
    /\ busy \subseteq Handlings
    /\ recorded \subseteq Ids /\ aged \subseteq recorded
    /\ foreign \subseteq elsewhere /\ elsewhere \subseteq recorded
    /\ since \in 0..Posts
    /\ restarts \in 0..MaxRestarts
    /\ handled \in [Ids -> Nat]
    /\ dropped \in [Ids -> Nat]

KookInit ==
    /\ posted = 0
    /\ shown = {}
    /\ seen = <<>>
    /\ page = <<>>
    /\ polling = TRUE
    /\ busy = {}
    /\ recorded = {}
    /\ elsewhere = {}
    /\ foreign = {}
    /\ aged = {}
    /\ since = 0
    /\ restarts = 0
    /\ handled = [m \in Ids |-> 0]
    /\ dropped = [m \in Ids |-> 0]

-----------------------------------------------------------------------------
(* _remember_message_id: the oldest id goes when the window is full. *)
(* Mutant of Remember: none goes. *)
RememberAll(m) ==
    IF m \in ToSet(seen) THEN UNCHANGED <<seen, dropped>>
    ELSE seen' = Append(seen, m) /\ UNCHANGED dropped

Remember(m) ==
    IF m \in ToSet(seen) THEN UNCHANGED <<seen, dropped>>
    ELSE IF Len(seen) < Window THEN seen' = Append(seen, m) /\ UNCHANGED dropped
    ELSE /\ seen' = Append(Tail(seen), m)
         /\ dropped' = [dropped EXCEPT ![Head(seen)] = @ + 1]

(* Mutant of HasRecent: the message under way counts as well. *)
HasRecentSelf(m) ==
    m \in Twins /\ (Twins \cap ((recorded \cup {m}) \ (aged \cup foreign))) # {}

(* has_recent_message: the same text under another id, from whichever       *)
(* bridge.  This one is taken to render the copies of a handoff alike.     *)
HasRecent(m) == m \in Twins /\ (Twins \cap (recorded \ (aged \cup foreign))) \ {m} # {}

(* record_message: the context store keeps a message under its id, in the  *)
(* words of whoever records it first.                                      *)
Recorded(m) == recorded' = recorded \cup {m} /\ UNCHANGED <<elsewhere, foreign, aged>>

(* _handle_text_message down to its first await: an id that is remembered  *)
(* is passed over; any other is remembered, recorded and, unless it repeats*)
(* a handoff, taken up.  All messages here are for this agent: others are  *)
(* recorded and no more.                                                   *)
(* Mutant of Receive: the id is remembered when the handling is over. *)
ReceiveLate(m, source) ==
    IF m \in ToSet(seen) THEN UNCHANGED <<seen, dropped, store, busy, handled>>
    ELSE /\ UNCHANGED <<seen, dropped>>
         /\ Recorded(m)
         /\ IF HasRecent(m) THEN UNCHANGED <<busy, handled>>
            ELSE /\ busy' = busy \cup {<<m, source>>}
                 /\ handled' = [handled EXCEPT ![m] = @ + 1]

Receive(m, source) ==
    IF m \in ToSet(seen) THEN UNCHANGED <<seen, dropped, store, busy, handled>>
    ELSE /\ Remember(m)
         /\ Recorded(m)
         /\ IF HasRecent(m) THEN UNCHANGED <<busy, handled>>
            ELSE /\ busy' = busy \cup {<<m, source>>}
                 /\ handled' = [handled EXCEPT ![m] = @ + 1]

Post ==
    /\ posted < Posts
    /\ posted' = posted + 1
    /\ UNCHANGED <<shown, seen, page, polling, busy, store, since, restarts,
                   handled, dropped>>

(* The websocket shows a message posted in the life of the process once, in*)
(* any order, or never.                                                    *)
Show(m) ==
    /\ m \in (since + 1)..posted
    /\ m \notin shown
    /\ shown' = shown \cup {m}
    /\ Receive(m, "ws")
    /\ UNCHANGED <<posted, page, polling, since, restarts>>

PollWaits == \E m \in Ids : <<m, "poll">> \in busy

(* A poll fetches the latest page and goes through it from the oldest on.  *)
FetchPage ==
    /\ polling
    /\ page = <<>>
    /\ ~PollWaits
    /\ posted > 0
    /\ LET first == IF posted > PageSize THEN posted - PageSize + 1 ELSE 1
       IN page' = [i \in 1..(posted - first + 1) |-> first + i - 1]
    /\ UNCHANGED <<posted, shown, seen, polling, busy, store, since, restarts,
                   handled, dropped>>

(* The page is a snapshot: by the time an item is reached, the websocket   *)
(* may have shown it and newer ones.  Older messages are only remembered.  *)
Item ==
    /\ polling
    /\ page # <<>>
    /\ ~PollWaits
    /\ page' = Tail(page)
    /\ IF Head(page) <= since
       THEN Remember(Head(page)) /\ UNCHANGED <<store, busy, handled>>
       ELSE Receive(Head(page), "poll")
    /\ UNCHANGED <<posted, shown, polling, since, restarts>>

-----------------------------------------------------------------------------
(* The rest of a handling *)

(* submit_request under the key kook:<id>, by which Coordinate makes one   *)
(* job of a message; the wait for it and the reply, posted in chunks.      *)
SubmitAndReply(k) ==
    /\ k \in busy
    /\ busy' = busy \ {k}
    /\ UNCHANGED <<posted, shown, seen, page, polling, store, since, restarts,
                   handled, dropped>>

(* A call that raises ends the handling, and the poll task with the poll's.*)
Raise(k) ==
    /\ k \in busy
    /\ busy' = busy \ {k}
    /\ polling' = (polling /\ k[2] # "poll")
    /\ UNCHANGED <<posted, shown, seen, page, store, since, restarts, handled,
                   dropped>>

(* The bridge of another agent sees a post first and records it; only the   *)
(* copies of a handoff are ever looked up.                                 *)
RecordElsewhere(m) ==
    /\ m <= posted
    /\ m \in Twins \ recorded
    /\ recorded' = recorded \cup {m}
    /\ elsewhere' = elsewhere \cup {m}
    /\ foreign' \in {foreign, foreign \cup {m}}
    /\ UNCHANGED <<posted, shown, seen, page, polling, busy, aged, since, restarts,
                   handled, dropped>>

(* handoff_dedupe_seconds go by for a row that can be found. *)
Age(m) ==
    /\ m \in (recorded \cap Twins) \ (aged \cup foreign)
    /\ aged' = aged \cup {m}
    /\ UNCHANGED <<posted, shown, seen, page, polling, busy, recorded, elsewhere,
                   foreign, since, restarts, handled, dropped>>

(* The bridge starts again: what it has seen and what it was doing is gone,*)
(* and messages older than the new process are not taken up any more.      *)
RestartKook ==
    /\ restarts < MaxRestarts
    /\ restarts' = restarts + 1
    /\ since' = posted
    /\ seen' = <<>>
    /\ page' = <<>>
    /\ polling' = TRUE
    /\ busy' = {}
    /\ UNCHANGED <<posted, shown, store, handled, dropped>>

KookNext ==
    \/ Post
    \/ \E m \in Ids : Show(m) \/ RecordElsewhere(m) \/ Age(m)
    \/ FetchPage
    \/ Item
    \/ \E k \in Handlings : SubmitAndReply(k) \/ Raise(k)
    \/ RestartKook

KookSpec == KookInit /\ [][KookNext]_kookVars

-----------------------------------------------------------------------------
(* Properties *)

(* A message is taken up once, by the websocket or by the poll, in whatever*)
(* order they show it and also over a restart; again only after its id has *)
(* fallen out of the window, as it can while the poll works on a stale page*)
(*                                                                         *)
(* Of a handoff that a bot repeats within the dedupe time not both copies  *)
(* are taken up, unless another bridge has recorded one in other words;    *)
(* and one of them is, unless another bridge has recorded one in the same  *)
(* words before this one saw any.  (Then both copies can be passed over.)  *)
KookHandledOnce ==
    /\ \A m \in Ids : handled[m] <= 1 + dropped[m]
    /\ \A m, n \in Twins :
         m # n /\ handled[m] > 0 /\ handled[n] > 0 => {m, n} \cap (aged \cup foreign) # {}
    /\ Twins \cap (recorded \ elsewhere) # {} /\ Twins \cap elsewhere \subseteq foreign
         => \E m \in Twins : handled[m] > 0
=============================================================================
