------------------------------ MODULE WikiStore ------------------------------
(***************************************************************************)
(* The wiki store (services/wiki.py): for one page name, the files it has  *)
(* in the public and in the private tier, the entry of each tier's index,  *)
(* and the log the discoveries of the agents are copied into.              *)
(*                                                                         *)
(* An operation holds the store's lock and awaits nothing, so no other     *)
(* comes between its file operations; but each of them can fail or be the  *)
(* last one before the process dies.  An action is therefore a prefix of   *)
(* the operation's file operations, and the whole of it if all goes well.  *)
(* What a page says is the set of contributions in it.                     *)
(***************************************************************************)
EXTENDS Naturals, Sequences, FiniteSets, SequencesExt

CONSTANTS
    MaxEdits,      \* bound: contributions written; they are numbered
    MaxLines,      \* bound: lines of discoveries written; they are numbered
    MaxTorn        \* bound: operations that end half-way

ASSUME WikiBounds == MaxEdits \in Nat /\ MaxLines \in Nat /\ MaxTorn \in Nat

VARIABLES
    files,         \* the files there are, of those the page name can have
    text,          \* text[p]: the contributions in file p
    index,         \* index[t]: where the entry of the page in tier t points to
    edits,         \* contributions so far
    superseded,    \* history: contributions replaced, rejected or removed
    unindexed,     \* history: tiers whose entry a rejection or a torn operation took
    discoveries,   \* the discoveries file, a sequence of lines
    lines,         \* lines written to it so far
    log,           \* log.md
    cursor,        \* .wiki-state.json: lines of the file taken over
    renewed,       \* history: the file was started anew since the last full ingest
    outgrown,      \* history: lines of a new file that had outgrown the old cursor
    tornOps        \* history: operations that ended half-way

wikiVars == <<files, text, index, edits, superseded, unindexed, discoveries,
              lines, log, cursor, renewed, outgrown, tornOps>>
pageVars == <<files, text, index, edits, superseded, unindexed>>
logVars == <<discoveries, lines, log, cursor, renewed, outgrown>>

WikiTiers == {"public", "private"}
Kinds == {"pages", "drafts"}
Paths == WikiTiers \X Kinds

WikiTypeOK ==
    /\ files \subseteq Paths
    /\ text \in [Paths -> SUBSET (1..MaxEdits)]
    /\ index \in [WikiTiers -> Kinds \cup {"none"}]
    /\ edits \in 0..MaxEdits
    /\ superseded \subseteq 1..MaxEdits
    /\ unindexed \subseteq WikiTiers
    /\ discoveries \in Seq(1..MaxLines)
    /\ lines \in 0..MaxLines
    /\ log \in Seq(1..MaxLines)
    /\ cursor \in 0..MaxLines
    /\ renewed \in BOOLEAN
    /\ outgrown \subseteq 1..MaxLines
    /\ tornOps \in 0..MaxTorn

WikiInit ==
    /\ files = {}
    /\ text = [p \in Paths |-> {}]
    /\ index = [t \in WikiTiers |-> "none"]
    /\ edits = 0
    /\ superseded = {}
    /\ unindexed = {}
    /\ discoveries = <<>>
    /\ lines = 0
    /\ log = <<>>
    /\ cursor = 0
    /\ renewed = FALSE
    /\ outgrown = {}
    /\ tornOps = 0

-----------------------------------------------------------------------------
(* File operations *)

(* An operation of n file operations does the first k of them. *)
Does(k, n) ==
    /\ k \in 0..n
    /\ tornOps' = IF k < n THEN tornOps + 1 ELSE tornOps
    /\ k < n => tornOps < MaxTorn

(* _atomic_write: all of it or nothing; what it replaces is gone. *)
Write(p, contents) ==
    /\ files' = files \cup {p}
    /\ text' = [text EXCEPT ![p] = contents]
    /\ superseded' = superseded \cup (text[p] \ contents)

(* _update_index_locked and the removal of an entry, as the last step, if  *)
(* it is come to.                                                          *)
Index(t, kind, done) ==
    IF done THEN /\ index' = [index EXCEPT ![t] = kind]
                 /\ unindexed' = unindexed \ {t}
    ELSE unindexed' = unindexed \cup {t} /\ UNCHANGED index

NewEdit == edits + 1
Nothing == UNCHANGED <<files, text, index, superseded, unindexed>>

(* read_page and read_private_page: the published page before the draft. *)
Found(t) ==
    IF <<t, "pages">> \in files THEN "pages"
    ELSE IF <<t, "drafts">> \in files THEN "drafts" ELSE "none"

(* search and get_relevant_context: what the index of the tier names and   *)
(* can be read.                                                            *)
Offered(t) == index[t] # "none" /\ Found(t) # "none"

-----------------------------------------------------------------------------
(* Pages *)

(* write_page and write_private_draft.  The public tier is closed for a    *)
(* name the private one has.                                               *)
WritePage(t, kind) ==
    /\ edits < MaxEdits
    /\ t = "public" => Found("private") = "none"
    /\ \E k \in 0..2 :
         /\ Does(k, 2)
         /\ IF k = 0 THEN Nothing /\ UNCHANGED edits
            ELSE /\ edits' = NewEdit
                 /\ Write(<<t, kind>>, {NewEdit})
                 /\ Index(t, kind, k = 2)
    /\ UNCHANGED logVars

(* update_page: appends to the published page, or the draft, or makes one. *)
UpdatePage(kind) ==
    LET at == IF Found("public") = "none" THEN kind ELSE Found("public")
    IN /\ edits < MaxEdits
       /\ \E k \in 0..2 :
            /\ Does(k, 2)
            /\ IF k = 0 THEN Nothing /\ UNCHANGED edits
               ELSE /\ edits' = NewEdit
                    /\ Write(<<"public", at>>, text[<<"public", at>>] \cup {NewEdit})
                    /\ Index("public", at, k = 2)
       /\ UNCHANGED logVars

(* promote_page and promote_private_page: the draft takes the place of the *)
(* page before it is unlinked.                                             *)
(* Mutant of Promote: it is moved the other way round. *)
PromoteUnlinkFirst(t) ==
    LET page == <<t, "pages">>
        draft == <<t, "drafts">>
    IN /\ draft \in files
       /\ \E k \in 0..3 :
            /\ Does(k, 3)
            /\ IF k = 0 THEN Nothing
               ELSE IF k = 1
               THEN /\ files' = files \ {draft}
                    /\ text' = [text EXCEPT ![draft] = {}]
                    /\ UNCHANGED superseded
                    /\ Index(t, "pages", FALSE)
               ELSE /\ files' = (files \cup {page}) \ {draft}
                    /\ text' = [text EXCEPT ![page] = text[draft], ![draft] = {}]
                    /\ superseded' = superseded \cup (text[page] \ text[draft])
                    /\ Index(t, "pages", k = 3)
       /\ UNCHANGED <<edits, logVars>>

Promote(t) ==
    LET page == <<t, "pages">>
        draft == <<t, "drafts">>
    IN /\ draft \in files
       /\ \E k \in 0..3 :
            /\ Does(k, 3)
            /\ IF k = 0 THEN Nothing
               ELSE /\ files' = (files \cup {page}) \ (IF k = 1 THEN {} ELSE {draft})
                    /\ text' = [text EXCEPT ![page] = text[draft],
                                            ![draft] = IF k = 1 THEN @ ELSE {}]
                    /\ superseded' = superseded \cup (text[page] \ text[draft])
                    /\ Index(t, "pages", k = 3)
       /\ UNCHANGED <<edits, logVars>>

(* reject_page and reject_private_page: the entry goes with the draft, also*)
(* when there is a published page beside it.                               *)
Reject(t) ==
    LET draft == <<t, "drafts">>
    IN /\ draft \in files
       /\ \E k \in 0..2 :
            /\ Does(k, 2)
            /\ IF k = 0 THEN Nothing
               ELSE /\ files' = files \ {draft}
                    /\ text' = [text EXCEPT ![draft] = {}]
                    /\ superseded' = superseded \cup text[draft]
                    /\ unindexed' = unindexed \cup {t}
                    /\ index' = [index EXCEPT ![t] = IF k = 2 THEN "none" ELSE @]
       /\ UNCHANGED <<edits, logVars>>

(* update_index: it points to the draft as long as there is one. *)
UpdateIndex ==
    /\ Does(1, 1)
    /\ Index("public", IF <<"public", "drafts">> \in files THEN "drafts" ELSE "pages", TRUE)
    /\ UNCHANGED <<files, text, edits, superseded, logVars>>

(* remove_marker: one contribution is cut out of a file. *)
RemoveMarker(p) ==
    /\ p \in files
    /\ \E e \in text[p] : Write(p, text[p] \ {e})
    /\ UNCHANGED <<index, edits, unindexed, logVars, tornOps>>

-----------------------------------------------------------------------------
(* Discoveries *)

(* External: an agent adds a line, or the file is started anew. *)
Discover ==
    /\ lines < MaxLines
    /\ lines' = lines + 1
    /\ discoveries' = Append(discoveries, lines')
    /\ UNCHANGED <<pageVars, log, cursor, renewed, outgrown, tornOps>>

Truncate ==
    /\ discoveries # <<>>
    /\ discoveries' = <<>>
    /\ renewed' = TRUE
    /\ UNCHANGED <<pageVars, lines, log, cursor, outgrown, tornOps>>

(* ingest_discoveries: a file shorter than the cursor is read from the     *)
(* start.  The new lines are appended to the log one by one, the cursor is *)
(* written last.                                                           *)
Start == IF Len(discoveries) < cursor THEN 0 ELSE cursor
Unseen == SubSeq(discoveries, Start + 1, Len(discoveries))

(* The first k new lines. *)
Logged(k) == SubSeq(Unseen, 1, IF k < Len(Unseen) THEN k ELSE Len(Unseen))

(* The cursor is there: what the old one passed of a new file is outgrown. *)
CursorWritten(done) ==
    IF done THEN /\ cursor' = Len(discoveries)
                 /\ renewed' = FALSE
                 /\ outgrown' = outgrown \cup
                       (IF renewed THEN ToSet(SubSeq(discoveries, 1, Start)) ELSE {})
    ELSE UNCHANGED <<cursor, renewed, outgrown>>

(* Mutant of Ingest: the cursor is written first. *)
IngestCursorFirst ==
    /\ \E k \in 0..(Len(Unseen) + 1) :
         /\ Does(k, Len(Unseen) + 1)
         /\ log' = IF k = 0 THEN log ELSE log \o Logged(k - 1)
         /\ CursorWritten(k > 0)
    /\ UNCHANGED <<pageVars, discoveries, lines>>

Ingest ==
    /\ \E k \in 0..(Len(Unseen) + 1) :
         /\ Does(k, Len(Unseen) + 1)
         /\ log' = log \o Logged(k)
         /\ CursorWritten(k > Len(Unseen))
    /\ UNCHANGED <<pageVars, discoveries, lines>>

PageNext ==
    \/ \E t \in WikiTiers, kind \in Kinds : WritePage(t, kind)
    \/ \E kind \in Kinds : UpdatePage(kind)
    \/ \E t \in WikiTiers : Promote(t) \/ Reject(t)
    \/ UpdateIndex
    \/ \E p \in Paths : RemoveMarker(p)

LogNext ==
    \/ Discover
    \/ Truncate
    \/ Ingest

WikiNext == PageNext \/ LogNext

WikiSpec == WikiInit /\ [][WikiNext]_wikiVars

-----------------------------------------------------------------------------
(* Properties *)

(* No contribution is lost, wherever an operation breaks off: it is in a   *)
(* file, or was replaced, rejected or removed on purpose.  And a page that *)
(* can be read is offered to the agents unless a rejection or a torn       *)
(* operation took its entry away.                                          *)
PageSurvives ==
    /\ \A e \in 1..edits : e \in superseded \/ \E p \in files : e \in text[p]
    /\ \A t \in WikiTiers : Found(t) # "none" => Offered(t) \/ t \in unindexed

(* A line the cursor has passed is in the log, wherever an ingest breaks   *)
(* off and however often the file is started anew; but for lines of a new  *)
(* file that has outgrown the cursor of the old one unseen.  It is there   *)
(* once, and once more at most for each operation that broke off.          *)
IngestLosesNothing ==
    /\ ~renewed =>
         \A i \in 1..cursor : discoveries[i] \in ToSet(log) \cup outgrown
    /\ \A l \in ToSet(log) : Cardinality({i \in 1..Len(log) : log[i] = l}) <= 1 + tornOps
=============================================================================
