---------------------------- MODULE StoreProofs ----------------------------
(***************************************************************************)
(* The stores.  No contribution to a wiki page is lost and no readable page*)
(* is hidden, and no discovery the cursor has passed is missing in the log,*)
(* for any number of contributions, lines and operations that break off    *)
(* half-way.  No watermark of the memory washer passes what was stored, for*)
(* any number of messages and any size of a batch.                         *)
(***************************************************************************)
EXTENDS WikiStore, MemoryWasher, FiniteSetTheorems, WellFoundedInduction, TLAPS

TextInv ==
    /\ edits \in Nat
    /\ files \subseteq Paths
    /\ text \in [Paths -> SUBSET (1..edits)]
    /\ \A p \in Paths \ files : text[p] = {}

KeptInv == \A e \in 1..edits : e \in superseded \/ \E p \in files : e \in text[p]

EntryInv ==
    /\ index \in [WikiTiers -> Kinds \cup {"none"}]
    /\ \A t \in WikiTiers : Found(t) # "none" => index[t] # "none" \/ t \in unindexed

PageInv == TextInv /\ KeptInv /\ EntryInv

-----------------------------------------------------------------------------
LEMMA PathFacts ==
    /\ \A t \in WikiTiers, k \in Kinds : <<t, k>> \in Paths
    /\ \A t \in WikiTiers : Found(t) # "none" => Found(t) \in Kinds /\ <<t, Found(t)>> \in files
    /\ \A t \in WikiTiers : Found(t) = "none" <=> <<t, "pages">> \notin files /\ <<t, "drafts">> \notin files
    /\ "public" \in WikiTiers /\ "pages" \in Kinds /\ "drafts" \in Kinds
BY DEF Paths, WikiTiers, Kinds, Found

(* A file is written: what it said before is in the new text or counts as  *)
(* replaced.                                                               *)
LEMMA WriteKeeps ==
    ASSUME TextInv, KeptInv, NEW p \in Paths, NEW contents \in SUBSET (1..edits'),
           edits' = edits \/ (edits' = edits + 1 /\ edits + 1 \in contents),
           Write(p, contents)
    PROVE  TextInv' /\ KeptInv'
<1>1. edits' \in Nat /\ 1..edits \subseteq 1..edits'
  BY DEF TextInv
<1>2. files' = files \cup {p} /\ superseded' = superseded \cup (text[p] \ contents)
  BY DEF Write
<1>3. \A q \in Paths : text'[q] = IF q = p THEN contents ELSE text[q]
  BY DEF Write, TextInv
<1>4. TextInv'
  <2>1. text' \in [Paths -> SUBSET (1..edits')]
    BY <1>1 DEF Write, TextInv
  <2>. QED BY <1>1, <1>2, <1>3, <2>1 DEF TextInv
<1>5. ASSUME NEW e \in 1..edits' PROVE e \in superseded' \/ \E q \in files' : e \in text'[q]
  <2>1. CASE e \in contents
    BY <1>2, <1>3, <2>1
  <2>2. CASE e \notin contents
    <3>1. e \in 1..edits
      BY <2>2 DEF TextInv
    <3>2. e \in superseded \/ \E q \in files : e \in text[q]
      BY <3>1 DEF KeptInv
    <3>. QED BY <1>2, <1>3, <2>2, <3>2 DEF TextInv
  <2>. QED BY <2>1, <2>2
<1>. QED BY <1>4, <1>5 DEF KeptInv

(* The entry of a tier is written, or is noted as missing. *)
LEMMA IndexKeeps ==
    ASSUME EntryInv, NEW t \in WikiTiers, NEW kind \in Kinds, NEW done,
           Index(t, kind, done),
           \A u \in WikiTiers \ {t} : Found(u)' = Found(u)
    PROVE  EntryInv'
<1>1. "none" \notin Kinds
  BY DEF Kinds
<1>2. /\ index' \in [WikiTiers -> Kinds \cup {"none"}]
      /\ index'[t] # "none" \/ t \in unindexed'
      /\ \A u \in WikiTiers \ {t} : index'[u] = index[u] /\ (u \in unindexed => u \in unindexed')
  BY <1>1 DEF Index, EntryInv
<1>. QED BY <1>2 DEF EntryInv

(* The files of the other tier are not touched. *)
LEMMA OtherTier ==
    ASSUME NEW t \in WikiTiers, NEW k \in Kinds,
           files \ {<<t, "pages">>, <<t, "drafts">>} = files' \ {<<t, "pages">>, <<t, "drafts">>}
    PROVE  \A u \in WikiTiers \ {t} : Found(u)' = Found(u)
BY DEF Found

-----------------------------------------------------------------------------
LEMMA PageInvNext ==
    PageInv /\ [WikiNext]_wikiVars => PageInv'
<1>. SUFFICES ASSUME PageInv, [WikiNext]_wikiVars PROVE PageInv'
  OBVIOUS
<1>. USE PathFacts
<1>1. TextInv /\ KeptInv /\ EntryInv
  BY DEF PageInv
<1>2. ASSUME UNCHANGED <<files, text, index, superseded, unindexed>>, edits' = edits PROVE PageInv'
  BY <1>1, <1>2 DEF PageInv, TextInv, KeptInv, EntryInv, Found
<1>3. NewEdit = edits + 1 /\ edits \in Nat
  BY <1>1 DEF NewEdit, TextInv
<1>4. ASSUME NEW t \in WikiTiers, NEW kind \in Kinds, WritePage(t, kind) PROVE PageInv'
  <2>1. PICK k \in 0..2 : WritePage(t, kind)!3!(k)
    BY <1>4 DEF WritePage
  <2>2. CASE k = 0
    BY <1>2, <2>1, <2>2 DEF Nothing
  <2>3. CASE k # 0
    <3>1. edits' = edits + 1 /\ Write(<<t, kind>>, {edits + 1}) /\ Index(t, kind, k = 2)
      BY <1>3, <2>1, <2>3
    <3>2. TextInv' /\ KeptInv'
      BY <1>1, <1>3, <3>1, WriteKeeps
    <3>3. \A u \in WikiTiers \ {t} : Found(u)' = Found(u)
      BY <3>1 DEF Write, Found
    <3>. QED BY <1>1, <3>1, <3>2, <3>3, IndexKeeps DEF PageInv
  <2>. QED BY <2>2, <2>3
<1>5. ASSUME NEW kind \in Kinds, UpdatePage(kind) PROVE PageInv'
  <2>. DEFINE at == IF Found("public") = "none" THEN kind ELSE Found("public")
              p == <<"public", at>>
  <2>1. PICK k \in 0..2 :
          /\ IF k = 0 THEN Nothing /\ UNCHANGED edits
             ELSE /\ edits' = NewEdit
                  /\ Write(p, text[p] \cup {NewEdit})
                  /\ Index("public", at, k = 2)
    BY <1>5 DEF UpdatePage
  <2>2. at \in Kinds /\ p \in Paths
    OBVIOUS
  <2>. HIDE DEF at
  <2>3. CASE k = 0
    BY <1>2, <2>1, <2>3 DEF Nothing
  <2>4. CASE k # 0
    <3>1. edits' = edits + 1 /\ Write(p, text[p] \cup {edits + 1}) /\ Index("public", at, k = 2)
      BY <1>3, <2>1, <2>4
    <3>2. text[p] \cup {edits + 1} \in SUBSET (1..edits')
      BY <1>1, <1>3, <2>2, <3>1 DEF TextInv
    <3>3. TextInv' /\ KeptInv'
      BY <1>1, <2>2, <3>1, <3>2, WriteKeeps
    <3>4. \A u \in WikiTiers \ {"public"} : Found(u)' = Found(u)
      BY <3>1 DEF Write, Found
    <3>. QED BY <1>1, <2>2, <3>1, <3>3, <3>4, IndexKeeps DEF PageInv
  <2>. QED BY <2>3, <2>4
<1>6. ASSUME NEW t \in WikiTiers, Promote(t) PROVE PageInv'
  <2>. DEFINE page == <<t, "pages">>
              draft == <<t, "drafts">>
  <2>1. PICK k \in 0..3 :
          IF k = 0 THEN Nothing
          ELSE /\ files' = (files \cup {page}) \ (IF k = 1 THEN {} ELSE {draft})
               /\ text' = [text EXCEPT ![page] = text[draft], ![draft] = IF k = 1 THEN @ ELSE {}]
               /\ superseded' = superseded \cup (text[page] \ text[draft])
               /\ Index(t, "pages", k = 3)
    BY <1>6 DEF Promote
  <2>2. page \in Paths /\ draft \in Paths /\ page # draft /\ edits' = edits /\ draft \in files
    BY <1>6 DEF Promote
  <2>3. CASE k = 0
    BY <1>2, <2>1, <2>2, <2>3 DEF Nothing
  <2>4. CASE k # 0
    <3>1. /\ files' = (files \cup {page}) \ (IF k = 1 THEN {} ELSE {draft})
          /\ superseded' = superseded \cup (text[page] \ text[draft])
          /\ Index(t, "pages", k = 3)
      BY <2>1, <2>4
    <3>2. \A q \in Paths : text'[q] = IF q = page THEN text[draft]
                                      ELSE IF q = draft /\ k # 1 THEN {} ELSE text[q]
      BY <1>1, <2>1, <2>2, <2>4 DEF TextInv
    <3>3. text' \in [Paths -> SUBSET (1..edits)]
      BY <1>1, <2>1, <2>2, <2>4 DEF TextInv
    <3>. HIDE DEF page, draft
    <3>4. TextInv'
      BY <1>1, <2>2, <3>1, <3>2, <3>3 DEF TextInv
    <3>5. ASSUME NEW e \in 1..edits PROVE e \in superseded' \/ \E q \in files' : e \in text'[q]
      <4>1. e \in superseded \/ \E q \in files : e \in text[q]
        BY <1>1 DEF KeptInv
      <4>2. page \in files'
        BY <2>2, <3>1
      <4>3. CASE e \in text[draft]
        BY <2>2, <3>2, <4>2, <4>3
      <4>4. CASE e \notin text[draft]
        BY <1>1, <2>2, <3>1, <3>2, <4>1, <4>4 DEF TextInv
      <4>. QED BY <4>3, <4>4
    <3>6. \A u \in WikiTiers \ {t} : Found(u)' = Found(u)
      BY <3>1 DEF Found, page, draft
    <3>7. EntryInv'
      BY <1>1, <3>1, <3>6, IndexKeeps
    <3>. QED BY <2>2, <3>4, <3>5, <3>7 DEF PageInv, KeptInv
  <2>. QED BY <2>3, <2>4
<1>7. ASSUME NEW t \in WikiTiers, Reject(t) PROVE PageInv'
  <2>. DEFINE draft == <<t, "drafts">>
  <2>1. PICK k \in 0..2 :
          IF k = 0 THEN Nothing
          ELSE /\ files' = files \ {draft}
               /\ text' = [text EXCEPT ![draft] = {}]
               /\ superseded' = superseded \cup text[draft]
               /\ unindexed' = unindexed \cup {t}
               /\ index' = [index EXCEPT ![t] = IF k = 2 THEN "none" ELSE @]
    BY <1>7 DEF Reject
  <2>2. draft \in Paths /\ edits' = edits
    BY <1>7 DEF Reject
  <2>3. CASE k = 0
    BY <1>2, <2>1, <2>2, <2>3 DEF Nothing
  <2>4. CASE k # 0
    <3>1. TextInv'
      BY <1>1, <2>1, <2>2, <2>4 DEF TextInv
    <3>2. KeptInv'
      BY <1>1, <2>1, <2>2, <2>4 DEF TextInv, KeptInv
    <3>3. \A u \in WikiTiers \ {t} : Found(u)' = Found(u)
      BY <2>1, <2>4 DEF Found
    <3>4. EntryInv'
      BY <1>1, <2>1, <2>4, <3>3 DEF EntryInv
    <3>. QED BY <3>1, <3>2, <3>4 DEF PageInv
  <2>. QED BY <2>3, <2>4
<1>8. CASE UpdateIndex
  <2>. DEFINE kind == IF <<"public", "drafts">> \in files THEN "drafts" ELSE "pages"
  <2>1. /\ kind \in Kinds /\ Index("public", kind, TRUE)
        /\ files' = files /\ text' = text /\ edits' = edits /\ superseded' = superseded
    BY <1>8 DEF UpdateIndex
  <2>. HIDE DEF kind
  <2>2. EntryInv'
    BY <1>1, <2>1, IndexKeeps DEF Found
  <2>. QED BY <1>1, <2>1, <2>2 DEF PageInv, TextInv, KeptInv
<1>9. ASSUME NEW p \in Paths, RemoveMarker(p) PROVE PageInv'
  <2>1. PICK e \in text[p] : Write(p, text[p] \ {e})
    BY <1>9 DEF RemoveMarker
  <2>2. edits' = edits /\ index' = index /\ unindexed' = unindexed /\ files' = files
    BY <1>9, <2>1 DEF RemoveMarker, Write
  <2>3. text[p] \ {e} \in SUBSET (1..edits')
    BY <1>1, <2>2 DEF TextInv
  <2>4. TextInv' /\ KeptInv'
    BY <1>1, <2>1, <2>2, <2>3, WriteKeeps
  <2>. QED BY <1>1, <2>2, <2>4 DEF PageInv, EntryInv, Found
<1>10. CASE LogNext
  BY <1>2, <1>10 DEF LogNext, Discover, Truncate, Ingest, pageVars
<1>11. CASE UNCHANGED wikiVars
  BY <1>2, <1>11 DEF wikiVars
<1>. QED
  BY <1>4, <1>5, <1>6, <1>7, <1>8, <1>9, <1>10, <1>11 DEF WikiNext, PageNext

(* PageSurvives: write, promote, reject and marker removal of              *)
(* services/wiki.py write the new file before they unlink the old one and  *)
(* index last, so that a contribution is somewhere and a page is found.    *)
THEOREM PagesSurvive == WikiSpec => []PageSurvives
<1>1. WikiInit => PageInv
  BY DEF WikiInit, PageInv, TextInv, KeptInv, EntryInv, Found
<1>2. PageInv => PageSurvives
  BY DEF PageInv, KeptInv, EntryInv, PageSurvives, Offered
<1>. QED BY <1>1, <1>2, PageInvNext, PTL DEF WikiSpec

-----------------------------------------------------------------------------
(* The log.  Lines are numbered as they are written, so the file is sorted *)
(* and what is in the log is not written again.                            *)
LogInv ==
    /\ lines \in Nat /\ cursor \in Nat /\ tornOps \in Nat
    /\ discoveries \in Seq(Nat) /\ log \in Seq(Nat)
    /\ \A i \in 1..Len(discoveries) : discoveries[i] <= lines
    /\ \A i \in 1..Len(log) : log[i] <= lines
    /\ \A i, j \in 1..Len(discoveries) : i < j => discoveries[i] < discoveries[j]

(* The file is as long as the cursor says unless it was started anew, and  *)
(* what the cursor has passed is there.                                    *)
PassedInv ==
    ~renewed =>
        /\ cursor <= Len(discoveries)
        /\ \A i \in 1..cursor : discoveries[i] \in ToSet(log) \cup outgrown

(* Where line l is in s.  A line yet to be read can be in the log only by  *)
(* operations that broke off.                                              *)
Places(s, l) == {i \in 1..Len(s) : s[i] = l}
Times(s, l) == Cardinality(Places(s, l))

TimesInv ==
    /\ \A l \in Nat : Times(log, l) <= 1 + tornOps
    /\ \A i \in (Start + 1)..Len(discoveries) : Times(log, discoveries[i]) <= tornOps

LEMMA Concatenation ==
    ASSUME NEW s \in Seq(Nat), NEW t \in Seq(Nat)
    PROVE  /\ s \o t \in Seq(Nat) /\ Len(s \o t) = Len(s) + Len(t)
           /\ \A i \in 1..Len(s) : (s \o t)[i] = s[i]
           /\ \A i \in 1..Len(t) : (s \o t)[Len(s) + i] = t[i]
OBVIOUS

LEMMA PlacesFinite ==
    ASSUME NEW s \in Seq(Nat), NEW l
    PROVE  IsFiniteSet(Places(s, l)) /\ Times(s, l) \in Nat
<1>1. Len(s) \in Nat
  OBVIOUS
<1>2. IsFiniteSet(1..Len(s)) /\ Places(s, l) \subseteq 1..Len(s)
  BY <1>1, FS_Interval DEF Places
<1>. QED BY <1>2, FS_Subset, FS_CardinalityType DEF Times

(* A sequence of different lines adds one place to those it has.           *)
LEMMA PlacesAppended ==
    ASSUME NEW s \in Seq(Nat), NEW t \in Seq(Nat), NEW l \in Nat,
           \A i, j \in 1..Len(t) : i # j => t[i] # t[j]
    PROVE  /\ Times(s \o t, l) <= Times(s, l) + 1
           /\ (\A i \in 1..Len(t) : t[i] # l) => Times(s \o t, l) = Times(s, l)
<1>1. /\ Len(s \o t) = Len(s) + Len(t) /\ Len(s) \in Nat /\ Len(t) \in Nat
      /\ \A i \in 1..Len(s) : (s \o t)[i] = s[i]
      /\ \A i \in 1..Len(t) : (s \o t)[Len(s) + i] = t[i]
  BY Concatenation
<1>2. \A i \in 1..Len(s \o t) : i \in 1..Len(s) \/ \E j \in 1..Len(t) : i = Len(s) + j
  <2> SUFFICES ASSUME NEW i \in 1..Len(s \o t), i \notin 1..Len(s)
               PROVE  \E j \in 1..Len(t) : i = Len(s) + j
    OBVIOUS
  <2>1. i - Len(s) \in 1..Len(t) /\ i = Len(s) + (i - Len(s))
    BY <1>1
  <2>. QED BY <2>1
<1>3. s \o t \in Seq(Nat)
  OBVIOUS
<1>4. IsFiniteSet(Places(s, l)) /\ Times(s, l) \in Nat /\ Times(s \o t, l) \in Nat
  BY <1>3, PlacesFinite
<1> HIDE DEF Times, Places
<1>5. ASSUME \A i \in 1..Len(t) : t[i] # l PROVE Places(s \o t, l) = Places(s, l)
  <2>1. ASSUME NEW i \in 1..Len(s \o t), (s \o t)[i] = l PROVE i \in 1..Len(s) /\ s[i] = l
    BY <1>1, <1>2, <1>5, <2>1
  <2>2. ASSUME NEW i \in 1..Len(s), s[i] = l PROVE i \in 1..Len(s \o t) /\ (s \o t)[i] = l
    BY <1>1, <2>2
  <2>. QED BY <2>1, <2>2 DEF Places
<1>6. ASSUME NEW k \in 1..Len(t), t[k] = l
      PROVE  Places(s \o t, l) = Places(s, l) \cup {Len(s) + k}
  <2>1. ASSUME NEW i \in 1..Len(s \o t), (s \o t)[i] = l, i \notin 1..Len(s) PROVE i = Len(s) + k
    <3>1. PICK j \in 1..Len(t) : i = Len(s) + j
      BY <1>2, <2>1
    <3>. QED BY <1>1, <1>6, <2>1, <3>1
  <2>2. ASSUME NEW i \in 1..Len(s) PROVE i \in 1..Len(s \o t) /\ (s \o t)[i] = s[i]
    BY <1>1
  <2>3. Len(s) + k \in 1..Len(s \o t) /\ (s \o t)[Len(s) + k] = l
    BY <1>1, <1>6
  <2>. QED BY <2>1, <2>2, <2>3 DEF Places
<1>7. ASSUME NEW k \in 1..Len(t), t[k] = l PROVE Times(s \o t, l) <= Times(s, l) + 1
  <2>1. Times(s \o t, l) = Cardinality(Places(s, l) \cup {Len(s) + k})
    BY <1>6, <1>7 DEF Times
  <2>2. Times(s \o t, l) = Times(s, l) \/ Times(s \o t, l) = Times(s, l) + 1
    BY <1>4, <2>1, FS_AddElement DEF Times
  <2>. QED BY <1>4, <2>2
<1>8. ASSUME \A i \in 1..Len(t) : t[i] # l PROVE Times(s \o t, l) = Times(s, l)
  BY <1>5, <1>8 DEF Times
<1>. QED BY <1>4, <1>7, <1>8

(* What an ingest appends: lines of the file beyond Start, in their order. *)
LEMMA NewLines ==
    ASSUME LogInv, NEW k \in 0..(Len(Unseen) + 1)
    PROVE  /\ Start \in 0..Len(discoveries)
           /\ Len(Unseen) = Len(discoveries) - Start
           /\ Logged(k) \in Seq(Nat)
           /\ Len(Logged(k)) = IF k < Len(Unseen) THEN k ELSE Len(Unseen)
           /\ \A j \in 1..Len(Logged(k)) : /\ Start + j \in (Start + 1)..Len(discoveries)
                                           /\ Logged(k)[j] = discoveries[Start + j]
<1>1. Start \in 0..Len(discoveries) /\ Len(discoveries) \in Nat
  BY DEF LogInv, Start
<1>2. /\ Unseen \in Seq(Nat) /\ Len(Unseen) = Len(discoveries) - Start
      /\ \A j \in 1..Len(Unseen) : Unseen[j] = discoveries[Start + j]
  BY <1>1 DEF Unseen, LogInv
<1> DEFINE n == IF k < Len(Unseen) THEN k ELSE Len(Unseen)
<1>3. n \in 0..Len(Unseen)
  BY <1>1, <1>2
<1>4. /\ Logged(k) \in Seq(Nat) /\ Len(Logged(k)) = n
      /\ \A j \in 1..n : Logged(k)[j] = Unseen[j]
  BY <1>2, <1>3 DEF Logged
<1>5. ASSUME NEW j \in 1..n PROVE /\ Start + j \in (Start + 1)..Len(discoveries)
                                  /\ Logged(k)[j] = discoveries[Start + j]
  <2>1. n \in Nat /\ n <= Len(Unseen) /\ j \in Nat /\ 1 <= j /\ j <= n
    BY <1>1, <1>2, <1>3
  <2>2. j \in 1..Len(Unseen)
    BY <1>1, <1>2, <2>1
  <2>3. Start + j \in (Start + 1)..Len(discoveries)
    BY <1>1, <1>2, <2>2
  <2>. QED BY <1>2, <1>4, <2>2, <2>3
<1>. QED BY <1>1, <1>2, <1>4, <1>5

LEMMA SetAppended ==
    ASSUME NEW s \in Seq(Nat), NEW t \in Seq(Nat)
    PROVE  /\ \A i \in 1..Len(s) : s[i] \in ToSet(s \o t)
           /\ \A i \in 1..Len(t) : t[i] \in ToSet(s \o t)
           /\ ToSet(s) \subseteq ToSet(s \o t)
<1>1. /\ s \o t \in Seq(Nat) /\ Len(s \o t) = Len(s) + Len(t) /\ Len(s) \in Nat /\ Len(t) \in Nat
      /\ \A i \in 1..Len(s) : (s \o t)[i] = s[i]
      /\ \A i \in 1..Len(t) : (s \o t)[Len(s) + i] = t[i]
  BY Concatenation
<1>2. /\ DOMAIN (s \o t) = 1..Len(s \o t)
      /\ DOMAIN s = 1..Len(s)
  OBVIOUS
<1>3. \A i \in 1..Len(s) : i \in DOMAIN (s \o t)
  BY <1>1, <1>2
<1>4. \A i \in 1..Len(t) : Len(s) + i \in DOMAIN (s \o t)
  BY <1>1, <1>2
<1>. QED BY <1>1, <1>2, <1>3, <1>4 DEF ToSet

LEMMA DiscoverKeeps ==
    ASSUME LogInv, PassedInv, TimesInv, Discover
    PROVE  LogInv' /\ PassedInv' /\ TimesInv'
<1>1. /\ lines' = lines + 1 /\ discoveries' = Append(discoveries, lines + 1)
      /\ UNCHANGED <<log, cursor, renewed, outgrown, tornOps>>
  BY DEF Discover
<1>2. /\ discoveries' \in Seq(Nat) /\ Len(discoveries') = Len(discoveries) + 1
      /\ Len(discoveries) \in Nat
      /\ discoveries'[Len(discoveries) + 1] = lines + 1
      /\ \A i \in 1..Len(discoveries) : discoveries'[i] = discoveries[i]
  BY <1>1 DEF LogInv
<1>3. LogInv'
  BY <1>1, <1>2 DEF LogInv
<1>4. PassedInv'
  BY <1>1, <1>2 DEF PassedInv, LogInv
<1>5. Times(log, lines + 1) = 0
  <2>1. Places(log, lines + 1) = {}
    BY DEF LogInv, Places
  <2>. QED BY <2>1, FS_EmptySet DEF Times
<1>6. ASSUME NEW i \in (Start' + 1)..Len(discoveries') PROVE Times(log', discoveries'[i]) <= tornOps'
  <2>1. CASE i = Len(discoveries) + 1
    BY <1>1, <1>2, <1>5, <2>1 DEF LogInv
  <2>2. CASE i # Len(discoveries) + 1
    <3>1. i \in (Start + 1)..Len(discoveries)
      BY <1>1, <1>2, <2>2 DEF Start, LogInv
    <3>2. Times(log, discoveries[i]) <= tornOps
      BY <3>1 DEF TimesInv
    <3>3. i \in 1..Len(discoveries)
      BY <1>1, <1>2, <3>1 DEF Start, LogInv
    <3>. QED BY <1>1, <1>2, <3>2, <3>3
  <2>. QED BY <2>1, <2>2
<1>. QED BY <1>1, <1>3, <1>4, <1>6 DEF TimesInv

LEMMA TruncateKeeps ==
    ASSUME LogInv, TimesInv, Truncate
    PROVE  LogInv' /\ PassedInv' /\ TimesInv'
<1>1. /\ discoveries' = <<>> /\ Len(discoveries') = 0 /\ renewed'
      /\ UNCHANGED <<lines, log, cursor, tornOps>>
  BY DEF Truncate
<1>2. (Start' + 1)..Len(discoveries') = {}
  BY <1>1 DEF Start, LogInv
<1>3. LogInv'
  BY <1>1 DEF LogInv
<1>4. TimesInv'
  BY <1>1, <1>2 DEF TimesInv
<1>. QED BY <1>1, <1>3, <1>4 DEF PassedInv

LEMMA IngestKeeps ==
    ASSUME LogInv, PassedInv, TimesInv, Ingest
    PROVE  LogInv' /\ PassedInv' /\ TimesInv'
<1>1. PICK k \in 0..(Len(Unseen) + 1) :
        /\ Does(k, Len(Unseen) + 1)
        /\ log' = log \o Logged(k)
        /\ CursorWritten(k > Len(Unseen))
  BY DEF Ingest
<1>2. UNCHANGED <<discoveries, lines>>
  BY DEF Ingest
<1> DEFINE new == Logged(k)
<1>3. /\ Start \in 0..Len(discoveries) /\ Len(Unseen) = Len(discoveries) - Start
      /\ new \in Seq(Nat) /\ Len(new) = IF k < Len(Unseen) THEN k ELSE Len(Unseen)
      /\ \A j \in 1..Len(new) : /\ Start + j \in (Start + 1)..Len(discoveries)
                                /\ new[j] = discoveries[Start + j]
  BY NewLines
<1>4. Len(discoveries) \in Nat /\ Len(new) \in Nat /\ Len(log) \in Nat /\ tornOps \in Nat
  BY <1>3 DEF LogInv
<1>app. log' = log \o new
  BY <1>1
<1> HIDE DEF new
<1>5. /\ log' \in Seq(Nat) /\ Len(log') = Len(log) + Len(new)
      /\ \A i \in 1..Len(log) : log'[i] = log[i]
      /\ \A i \in 1..Len(new) : log'[Len(log) + i] = new[i]
  <2>1. log \in Seq(Nat)
    BY DEF LogInv
  <2>. QED BY <1>app, <1>3, <2>1, Concatenation
<1>6. ASSUME NEW i \in 1..Len(log') PROVE log'[i] <= lines
  <2>1. CASE i \in 1..Len(log)
    BY <1>5, <2>1 DEF LogInv
  <2>2. CASE i \notin 1..Len(log)
    <3>1. i - Len(log) \in 1..Len(new) /\ i = Len(log) + (i - Len(log))
      BY <1>4, <1>5, <2>2
    <3>2. log'[i] = discoveries[Start + (i - Len(log))]
      BY <1>3, <1>5, <3>1
    <3>3. Start + (i - Len(log)) \in 1..Len(discoveries)
      BY <1>3, <1>4, <3>1
    <3>. QED BY <3>2, <3>3 DEF LogInv
  <2>. QED BY <2>1, <2>2
<1>7. cursor' \in Nat /\ tornOps' \in Nat
  BY <1>1, <1>4 DEF CursorWritten, Does, LogInv
<1>8. LogInv'
  BY <1>2, <1>5, <1>6, <1>7 DEF LogInv
<1>9. \A i, j \in 1..Len(new) : i # j => new[i] # new[j]
  <2>1. ASSUME NEW i \in 1..Len(new), NEW j \in 1..Len(new), i < j
        PROVE  new[i] < new[j] /\ new[i] \in Nat /\ new[j] \in Nat
    <3>1. /\ Start + i \in 1..Len(discoveries) /\ Start + j \in 1..Len(discoveries)
          /\ Start + i < Start + j
      BY <1>3, <1>4, <2>1
    <3>2. new[i] = discoveries[Start + i] /\ new[j] = discoveries[Start + j]
      BY <1>3
    <3>3. discoveries[Start + i] < discoveries[Start + j]
      BY <3>1 DEF LogInv
    <3>4. discoveries[Start + i] \in Nat /\ discoveries[Start + j] \in Nat
      BY <3>1 DEF LogInv
    <3>. QED BY <3>2, <3>3, <3>4
  <2>2. ASSUME NEW i \in 1..Len(new), NEW j \in 1..Len(new), i # j PROVE new[i] # new[j]
    <3>1. CASE i < j
      BY <2>1, <3>1
    <3>2. CASE j < i
      BY <2>1, <3>2
    <3>. QED BY <1>4, <2>2, <3>1, <3>2
  <2>. QED BY <2>2
<1>10. ASSUME NEW l \in Nat
       PROVE  /\ Times(log', l) <= Times(log, l) + 1
              /\ (\A i \in 1..Len(new) : new[i] # l) => Times(log', l) = Times(log, l)
              /\ Times(log, l) \in Nat /\ Times(log', l) \in Nat
  BY <1>1, <1>3, <1>5, <1>9, PlacesAppended, PlacesFinite DEF new, LogInv
<1>11. ASSUME NEW i \in 1..Len(discoveries) PROVE discoveries[i] \in Nat
  BY DEF LogInv
<1>12. CASE k = Len(Unseen) + 1
  <2>1. /\ tornOps' = tornOps /\ cursor' = Len(discoveries) /\ Start' = Len(discoveries)
        /\ outgrown' = outgrown \cup (IF renewed THEN ToSet(SubSeq(discoveries, 1, Start)) ELSE {})
    BY <1>1, <1>2, <1>3, <1>4, <1>12 DEF Does, CursorWritten, Start
  <2>2. Len(new) = Len(discoveries) - Start
    BY <1>3, <1>4, <1>12
  <2>3. ASSUME NEW l \in Nat PROVE Times(log', l) <= 1 + tornOps'
    <3>1. CASE \A i \in 1..Len(new) : new[i] # l
      BY <1>10, <2>1, <3>1 DEF TimesInv
    <3>2. ASSUME NEW j \in 1..Len(new), new[j] = l PROVE Times(log', l) <= 1 + tornOps'
      <4>1. Times(log, l) <= tornOps
        BY <1>3, <3>2 DEF TimesInv
      <4>2. Times(log', l) <= Times(log, l) + 1 /\ Times(log, l) \in Nat /\ Times(log', l) \in Nat
        BY <1>10
      <4>. QED BY <1>4, <2>1, <4>1, <4>2
    <3>. QED BY <3>1, <3>2
  <2>4. TimesInv'
    BY <1>2, <1>4, <2>1, <2>3 DEF TimesInv
  <2>5. ASSUME NEW i \in 1..cursor' PROVE discoveries'[i] \in ToSet(log') \cup outgrown'
    <3>1. CASE i > Start
      <4>1. i - Start \in 1..Len(new) /\ i = Start + (i - Start)
        BY <1>3, <1>4, <2>1, <2>2, <3>1
      <4>2. new[i - Start] = discoveries[i]
        BY <1>3, <4>1
      <4>. QED BY <1>1, <1>2, <1>3, <4>1, <4>2, SetAppended DEF new, LogInv
    <3>2. CASE i <= Start /\ renewed
      <4>1. i \in DOMAIN SubSeq(discoveries, 1, Start) /\ SubSeq(discoveries, 1, Start)[i] = discoveries[i]
        BY <1>3, <1>4, <2>1, <3>2 DEF LogInv
      <4>. QED BY <1>2, <2>1, <3>2, <4>1 DEF ToSet
    <3>3. CASE i <= Start /\ ~renewed
      <4>1. discoveries[i] \in ToSet(log) \cup outgrown
        BY <1>3, <1>4, <2>1, <3>3 DEF PassedInv, Start, LogInv
      <4>2. ToSet(log) \subseteq ToSet(log')
        BY <1>1, <1>3, SetAppended DEF new, LogInv
      <4>. QED BY <1>2, <2>1, <4>1, <4>2
    <3>. QED BY <1>3, <1>4, <2>1, <3>1, <3>2, <3>3
  <2>6. PassedInv'
    BY <1>2, <1>4, <2>1, <2>5 DEF PassedInv
  <2>. QED BY <1>8, <2>4, <2>6
<1>13. CASE k # Len(Unseen) + 1
  <2>1. tornOps' = tornOps + 1 /\ UNCHANGED <<cursor, renewed, outgrown>> /\ Start' = Start
    BY <1>1, <1>2, <1>3, <1>4, <1>13 DEF Does, CursorWritten, Start
  <2>2. TimesInv'
    <3>1. ASSUME NEW l \in Nat PROVE Times(log', l) <= 1 + tornOps'
      <4>1. Times(log', l) <= Times(log, l) + 1 /\ Times(log, l) \in Nat /\ Times(log', l) \in Nat
        BY <1>10
      <4>2. Times(log, l) <= 1 + tornOps
        BY DEF TimesInv
      <4>. QED BY <1>4, <2>1, <4>1, <4>2
    <3>2. ASSUME NEW i \in (Start' + 1)..Len(discoveries')
          PROVE  Times(log', discoveries'[i]) <= tornOps'
      <4>1. i \in 1..Len(discoveries) /\ i \in (Start + 1)..Len(discoveries)
        BY <1>2, <1>3, <1>4, <2>1
      <4> DEFINE l == discoveries[i]
      <4>2. l \in Nat
        BY <1>11, <4>1
      <4>3. Times(log, l) <= tornOps
        BY <4>1 DEF TimesInv
      <4> HIDE DEF l
      <4>4. Times(log', l) <= Times(log, l) + 1 /\ Times(log, l) \in Nat /\ Times(log', l) \in Nat
        BY <1>10, <4>2
      <4>5. Times(log', l) <= tornOps'
        BY <1>4, <2>1, <4>3, <4>4
      <4>. QED BY <1>2, <4>5 DEF l
    <3>. QED BY <3>1, <3>2 DEF TimesInv
  <2>3. PassedInv'
    <3>1. ToSet(log) \subseteq ToSet(log')
      BY <1>1, <1>3, SetAppended DEF new, LogInv
    <3>. QED BY <1>2, <2>1, <3>1 DEF PassedInv
  <2>. QED BY <1>8, <2>2, <2>3
<1>. QED BY <1>12, <1>13

LEMMA PageKeepsLog == PageNext => UNCHANGED logVars /\ tornOps' \in {tornOps, tornOps + 1}
BY DEF PageNext, WritePage, UpdatePage, Promote, Reject, UpdateIndex, RemoveMarker, Does

LEMMA LogInvNext ==
    LogInv /\ PassedInv /\ TimesInv /\ [WikiNext]_wikiVars => (LogInv /\ PassedInv /\ TimesInv)'
<1> SUFFICES ASSUME LogInv, PassedInv, TimesInv, [WikiNext]_wikiVars
             PROVE  LogInv' /\ PassedInv' /\ TimesInv'
  OBVIOUS
<1>1. ASSUME UNCHANGED logVars, tornOps' \in {tornOps, tornOps + 1}
      PROVE  LogInv' /\ PassedInv' /\ TimesInv'
  <2>1. UNCHANGED <<discoveries, lines, log, cursor, renewed, outgrown, Start>>
    BY <1>1 DEF logVars, Start
  <2>2. LogInv' /\ PassedInv'
    BY <1>1, <2>1 DEF LogInv, PassedInv
  <2>3. ASSUME NEW l \in Nat PROVE Times(log', l) <= 1 + tornOps'
    BY <1>1, <2>1, PlacesFinite DEF TimesInv, LogInv
  <2>4. ASSUME NEW i \in (Start' + 1)..Len(discoveries') PROVE Times(log', discoveries'[i]) <= tornOps'
    <3>1. Times(log, discoveries[i]) <= tornOps /\ Times(log, discoveries[i]) \in Nat
      BY <2>1, PlacesFinite DEF TimesInv, LogInv
    <3>. QED BY <1>1, <2>1, <3>1 DEF LogInv
  <2>. QED BY <2>2, <2>3, <2>4 DEF TimesInv
<1>2. CASE PageNext
  BY <1>1, <1>2, PageKeepsLog
<1>3. CASE LogNext
  BY <1>3, DiscoverKeeps, TruncateKeeps, IngestKeeps DEF LogNext
<1>4. CASE UNCHANGED wikiVars
  BY <1>1, <1>4 DEF wikiVars, logVars
<1>. QED BY <1>2, <1>3, <1>4 DEF WikiNext

(* IngestLosesNothing: ingest_discoveries of services/wiki.py writes the   *)
(* cursor after the lines it stands for, whatever breaks off and however   *)
(* often the file is started anew.                                         *)
THEOREM IngestKeepsLines == WikiSpec => []IngestLosesNothing
<1>1. WikiInit => LogInv /\ PassedInv /\ TimesInv
  <2> SUFFICES ASSUME WikiInit PROVE LogInv /\ PassedInv /\ TimesInv
    OBVIOUS
  <2>1. LogInv /\ PassedInv /\ Start = 0 /\ Len(discoveries) = 0
    BY DEF WikiInit, LogInv, PassedInv, Start
  <2>2. \A l : Times(log, l) = 0
    <3>1. \A l : Places(log, l) = {}
      BY DEF WikiInit, Places
    <3>. QED BY <3>1, FS_EmptySet DEF Times
  <2>. QED BY <2>1, <2>2 DEF TimesInv, LogInv
<1>2. LogInv /\ PassedInv /\ TimesInv => IngestLosesNothing
  <2> SUFFICES ASSUME LogInv, PassedInv, TimesInv PROVE IngestLosesNothing
    OBVIOUS
  <2>1. ToSet(log) \subseteq Nat
    BY DEF LogInv, ToSet
  <2>. QED BY <2>1 DEF PassedInv, TimesInv, IngestLosesNothing, Times, Places
<1>. QED BY <1>1, <1>2, LogInvNext, PTL DEF WikiSpec

-----------------------------------------------------------------------------
(* The types of the wiki store.  The file is never longer than the lines   *)
(* written, so that the cursor stays within their number.                  *)
WikiTypeInv == WikiTypeOK /\ Len(discoveries) <= lines

LEMMA DoesTypes ==
    ASSUME tornOps \in 0..MaxTorn, NEW n \in Nat, NEW k \in 0..n, Does(k, n)
    PROVE  tornOps' \in 0..MaxTorn
BY WikiBounds DEF Does

LEMMA IndexTypes ==
    ASSUME WikiTypeOK, NEW t \in WikiTiers, NEW kind \in Kinds, NEW done, Index(t, kind, done)
    PROVE  index' \in [WikiTiers -> Kinds \cup {"none"}] /\ unindexed' \subseteq WikiTiers
BY DEF Index, WikiTypeOK

LEMMA WriteTypes ==
    ASSUME WikiTypeOK, NEW p \in Paths, NEW contents \in SUBSET (1..MaxEdits), Write(p, contents)
    PROVE  /\ files' \subseteq Paths
           /\ text' \in [Paths -> SUBSET (1..MaxEdits)]
           /\ superseded' \subseteq 1..MaxEdits
BY DEF Write, WikiTypeOK

(* What an operation on pages may change. *)
PageTypes ==
    /\ files \subseteq Paths
    /\ text \in [Paths -> SUBSET (1..MaxEdits)]
    /\ index \in [WikiTiers -> Kinds \cup {"none"}]
    /\ edits \in 0..MaxEdits
    /\ superseded \subseteq 1..MaxEdits
    /\ unindexed \subseteq WikiTiers
    /\ tornOps \in 0..MaxTorn

LEMMA PageTypesNext ==
    ASSUME WikiTypeOK, PageNext
    PROVE  PageTypes'
<1>. USE PathFacts
<1>1. PageTypes
  BY DEF WikiTypeOK, PageTypes
<1>2. ASSUME Nothing, edits' = edits, tornOps' \in 0..MaxTorn PROVE PageTypes'
  BY <1>1, <1>2 DEF Nothing, PageTypes
<1>3. edits < MaxEdits => NewEdit \in 1..MaxEdits
  BY WikiBounds DEF NewEdit, WikiTypeOK
<1>4. ASSUME NEW t \in WikiTiers, NEW kind \in Kinds, WritePage(t, kind) PROVE PageTypes'
  <2>1. PICK k \in 0..2 : WritePage(t, kind)!3!(k)
    BY <1>4 DEF WritePage
  <2>2. tornOps' \in 0..MaxTorn /\ edits < MaxEdits
    BY <1>4, <2>1, DoesTypes DEF WritePage, WikiTypeOK
  <2>3. CASE k = 0
    BY <1>2, <2>1, <2>2, <2>3
  <2>4. CASE k # 0
    <3>1. edits' = NewEdit /\ Write(<<t, kind>>, {NewEdit}) /\ Index(t, kind, k = 2)
      BY <2>1, <2>4
    <3>2. {NewEdit} \in SUBSET (1..MaxEdits) /\ <<t, kind>> \in Paths
      BY <1>3, <2>2
    <3>3. /\ files' \subseteq Paths
          /\ text' \in [Paths -> SUBSET (1..MaxEdits)]
          /\ superseded' \subseteq 1..MaxEdits
      BY <3>1, <3>2, WriteTypes
    <3>4. index' \in [WikiTiers -> Kinds \cup {"none"}] /\ unindexed' \subseteq WikiTiers
      BY <3>1, IndexTypes
    <3>. QED BY <1>3, <2>2, <3>1, <3>3, <3>4 DEF PageTypes
  <2>. QED BY <2>3, <2>4
<1>5. ASSUME NEW kind \in Kinds, UpdatePage(kind) PROVE PageTypes'
  <2>. DEFINE at == IF Found("public") = "none" THEN kind ELSE Found("public")
              p == <<"public", at>>
  <2>1. PICK k \in 0..2 :
          /\ Does(k, 2)
          /\ IF k = 0 THEN Nothing /\ UNCHANGED edits
             ELSE /\ edits' = NewEdit
                  /\ Write(p, text[p] \cup {NewEdit})
                  /\ Index("public", at, k = 2)
    BY <1>5 DEF UpdatePage
  <2>2. at \in Kinds /\ p \in Paths
    OBVIOUS
  <2>. HIDE DEF at
  <2>3. tornOps' \in 0..MaxTorn /\ edits < MaxEdits
    BY <1>5, <2>1, DoesTypes DEF UpdatePage, WikiTypeOK
  <2>4. CASE k = 0
    BY <1>2, <2>1, <2>3, <2>4
  <2>5. CASE k # 0
    <3>1. edits' = NewEdit /\ Write(p, text[p] \cup {NewEdit}) /\ Index("public", at, k = 2)
      BY <2>1, <2>5
    <3>2. text[p] \cup {NewEdit} \in SUBSET (1..MaxEdits)
      BY <1>3, <2>2, <2>3 DEF WikiTypeOK
    <3>3. /\ files' \subseteq Paths
          /\ text' \in [Paths -> SUBSET (1..MaxEdits)]
          /\ superseded' \subseteq 1..MaxEdits
      BY <2>2, <3>1, <3>2, WriteTypes
    <3>4. index' \in [WikiTiers -> Kinds \cup {"none"}] /\ unindexed' \subseteq WikiTiers
      BY <2>2, <3>1, IndexTypes
    <3>5. edits' \in 0..MaxEdits
      BY <1>3, <2>3, <3>1
    <3>. QED BY <2>3, <3>3, <3>4, <3>5 DEF PageTypes
  <2>. QED BY <2>4, <2>5
<1>6. ASSUME NEW t \in WikiTiers, Promote(t) PROVE PageTypes'
  <2>. DEFINE page == <<t, "pages">>
              draft == <<t, "drafts">>
  <2>1. PICK k \in 0..3 :
          /\ Does(k, 3)
          /\ IF k = 0 THEN Nothing
             ELSE /\ files' = (files \cup {page}) \ (IF k = 1 THEN {} ELSE {draft})
                  /\ text' = [text EXCEPT ![page] = text[draft], ![draft] = IF k = 1 THEN @ ELSE {}]
                  /\ superseded' = superseded \cup (text[page] \ text[draft])
                  /\ Index(t, "pages", k = 3)
    BY <1>6 DEF Promote
  <2>2. page \in Paths /\ draft \in Paths /\ edits' = edits
    BY <1>6 DEF Promote
  <2>3. tornOps' \in 0..MaxTorn
    BY <2>1, DoesTypes DEF WikiTypeOK
  <2>4. CASE k = 0
    BY <1>2, <2>1, <2>2, <2>3, <2>4
  <2>5. CASE k # 0
    <3>. HIDE DEF page, draft
    <3>1. text[page] \in SUBSET (1..MaxEdits) /\ text[draft] \in SUBSET (1..MaxEdits)
      BY <1>1, <2>2 DEF PageTypes
    <3>2. files' \subseteq Paths /\ superseded' \subseteq 1..MaxEdits
      <4>1. /\ files' = (files \cup {page}) \ (IF k = 1 THEN {} ELSE {draft})
            /\ superseded' = superseded \cup (text[page] \ text[draft])
        BY <2>1, <2>5
      <4>. QED BY <1>1, <2>2, <3>1, <4>1 DEF PageTypes
    <3>3. text' \in [Paths -> SUBSET (1..MaxEdits)]
      <4>1. \A q \in Paths : text'[q] \in SUBSET (1..MaxEdits)
        BY <1>1, <2>1, <2>2, <2>5, <3>1 DEF PageTypes
      <4>2. DOMAIN text' = Paths /\ text' = [q \in DOMAIN text' |-> text'[q]]
        BY <1>1, <2>1, <2>5 DEF PageTypes
      <4>. QED BY <4>1, <4>2
    <3>4. index' \in [WikiTiers -> Kinds \cup {"none"}] /\ unindexed' \subseteq WikiTiers
      BY <2>1, <2>5, IndexTypes
    <3>. QED BY <1>1, <2>2, <2>3, <3>2, <3>3, <3>4 DEF PageTypes
  <2>. QED BY <2>4, <2>5
<1>7. ASSUME NEW t \in WikiTiers, Reject(t) PROVE PageTypes'
  <2>. DEFINE draft == <<t, "drafts">>
  <2>1. PICK k \in 0..2 :
          /\ Does(k, 2)
          /\ IF k = 0 THEN Nothing
             ELSE /\ files' = files \ {draft}
                  /\ text' = [text EXCEPT ![draft] = {}]
                  /\ superseded' = superseded \cup text[draft]
                  /\ unindexed' = unindexed \cup {t}
                  /\ index' = [index EXCEPT ![t] = IF k = 2 THEN "none" ELSE @]
    BY <1>7 DEF Reject
  <2>2. draft \in Paths /\ edits' = edits
    BY <1>7 DEF Reject
  <2>3. tornOps' \in 0..MaxTorn
    BY <2>1, DoesTypes DEF WikiTypeOK
  <2>4. CASE k = 0
    BY <1>2, <2>1, <2>2, <2>3, <2>4
  <2>5. CASE k # 0
    BY <1>1, <2>1, <2>2, <2>3, <2>5 DEF PageTypes
  <2>. QED BY <2>4, <2>5
<1>8. CASE UpdateIndex
  <2>. DEFINE kind == IF <<"public", "drafts">> \in files THEN "drafts" ELSE "pages"
  <2>1. /\ kind \in Kinds /\ Index("public", kind, TRUE) /\ Does(1, 1)
        /\ UNCHANGED <<files, text, edits, superseded>>
    BY <1>8 DEF UpdateIndex
  <2>. HIDE DEF kind
  <2>2. tornOps' \in 0..MaxTorn
    BY <2>1, DoesTypes DEF WikiTypeOK
  <2>3. index' \in [WikiTiers -> Kinds \cup {"none"}] /\ unindexed' \subseteq WikiTiers
    BY <2>1, IndexTypes
  <2>. QED BY <1>1, <2>1, <2>2, <2>3 DEF PageTypes
<1>9. ASSUME NEW p \in Paths, RemoveMarker(p) PROVE PageTypes'
  <2>1. PICK e \in text[p] : Write(p, text[p] \ {e})
    BY <1>9 DEF RemoveMarker
  <2>2. text[p] \ {e} \in SUBSET (1..MaxEdits)
    BY <1>1 DEF PageTypes
  <2>3. UNCHANGED <<index, edits, unindexed, tornOps>>
    BY <1>9 DEF RemoveMarker
  <2>4. /\ files' \subseteq Paths
        /\ text' \in [Paths -> SUBSET (1..MaxEdits)]
        /\ superseded' \subseteq 1..MaxEdits
    BY <2>1, <2>2, WriteTypes
  <2>. QED BY <1>1, <2>3, <2>4 DEF PageTypes
<1>. QED BY <1>4, <1>5, <1>6, <1>7, <1>8, <1>9 DEF PageNext

(* A stretch of a sequence, and two sequences in a row, are of its type.   *)
LEMMA StretchTypes ==
    ASSUME NEW S, NEW s \in Seq(S), NEW m \in 1..(Len(s) + 1), NEW n \in 0..Len(s)
    PROVE  /\ SubSeq(s, m, n) \in Seq(S)
           /\ ToSet(SubSeq(s, m, n)) \subseteq S
<1>1. SubSeq(s, m, n) \in Seq(S)
  OBVIOUS
<1>. DEFINE q == SubSeq(s, m, n)
<1>2. \A i \in DOMAIN q : q[i] \in S
  BY <1>1
<1>. QED BY <1>1, <1>2 DEF ToSet

LEMMA IngestTypes ==
    ASSUME WikiTypeInv, Ingest
    PROVE  /\ log' \in Seq(1..MaxLines) /\ cursor' \in 0..MaxLines /\ renewed' \in BOOLEAN
           /\ outgrown' \subseteq 1..MaxLines /\ tornOps' \in 0..MaxTorn
<1>1. PICK k \in 0..(Len(Unseen) + 1) :
        /\ Does(k, Len(Unseen) + 1)
        /\ log' = log \o Logged(k)
        /\ CursorWritten(k > Len(Unseen))
  BY DEF Ingest
<1>2. discoveries \in Seq(1..MaxLines) /\ Len(discoveries) \in 0..MaxLines
  BY WikiBounds DEF WikiTypeInv, WikiTypeOK
<1>3. Start \in 0..Len(discoveries) /\ Len(discoveries) \in Nat
  BY <1>2, WikiBounds DEF Start, WikiTypeInv, WikiTypeOK
<1>4. Unseen \in Seq(1..MaxLines) /\ Len(Unseen) \in Nat
  <2>1. Start + 1 \in 1..(Len(discoveries) + 1) /\ Len(discoveries) \in 0..Len(discoveries)
    BY <1>3
  <2>2. Unseen \in Seq(1..MaxLines)
    BY <1>2, <2>1, StretchTypes DEF Unseen
  <2>. QED BY <2>2
<1>5. Logged(k) \in Seq(1..MaxLines)
  <2>. DEFINE n == IF k < Len(Unseen) THEN k ELSE Len(Unseen)
  <2>1. n \in 0..Len(Unseen) /\ 1 \in 1..(Len(Unseen) + 1)
    BY <1>4
  <2>. HIDE DEF n
  <2>2. SubSeq(Unseen, 1, n) \in Seq(1..MaxLines)
    BY <1>4, <2>1, StretchTypes
  <2>. QED BY <2>2 DEF n, Logged
<1>6. log' \in Seq(1..MaxLines)
  BY <1>1, <1>5 DEF WikiTypeInv, WikiTypeOK
<1>7. tornOps' \in 0..MaxTorn
  BY <1>1, <1>4, DoesTypes DEF WikiTypeInv, WikiTypeOK
<1>8. ToSet(SubSeq(discoveries, 1, Start)) \subseteq 1..MaxLines
  <2>1. 1 \in 1..(Len(discoveries) + 1)
    BY <1>3
  <2>. QED BY <1>2, <1>3, <2>1, StretchTypes
<1>9. /\ cursor' \in 0..MaxLines /\ renewed' \in BOOLEAN
      /\ outgrown' \subseteq 1..MaxLines
  BY <1>1, <1>2, <1>8 DEF CursorWritten, WikiTypeInv, WikiTypeOK
<1>. QED BY <1>6, <1>7, <1>9

LEMMA WikiTypeNext ==
    WikiTypeInv /\ [WikiNext]_wikiVars => WikiTypeInv'
<1>. SUFFICES ASSUME WikiTypeInv, [WikiNext]_wikiVars PROVE WikiTypeInv'
  OBVIOUS
<1>1. WikiTypeOK /\ Len(discoveries) <= lines
  BY DEF WikiTypeInv
<1>2. CASE PageNext
  <2>1. PageTypes'
    BY <1>1, <1>2, PageTypesNext
  <2>2. UNCHANGED logVars
    BY <1>2, PageKeepsLog
  <2>. QED BY <1>1, <2>1, <2>2 DEF PageTypes, logVars, WikiTypeInv, WikiTypeOK
<1>3. CASE Discover
  <2>1. /\ lines' = lines + 1 /\ lines < MaxLines /\ discoveries' = Append(discoveries, lines + 1)
        /\ UNCHANGED <<pageVars, log, cursor, renewed, outgrown, tornOps>>
    BY <1>3 DEF Discover
  <2>2. lines + 1 \in 1..MaxLines /\ discoveries \in Seq(1..MaxLines)
    BY <1>1, <2>1, WikiBounds DEF WikiTypeOK
  <2>3. /\ discoveries' \in Seq(1..MaxLines) /\ Len(discoveries') = Len(discoveries) + 1
    BY <2>1, <2>2
  <2>4. lines' \in 0..MaxLines /\ Len(discoveries') <= lines'
    BY <1>1, <2>1, <2>2, <2>3 DEF WikiTypeOK
  <2>. QED BY <1>1, <2>1, <2>3, <2>4 DEF pageVars, WikiTypeInv, WikiTypeOK
<1>4. CASE Truncate
  <2>1. /\ discoveries' \in Seq(1..MaxLines) /\ Len(discoveries') = 0 /\ renewed' \in BOOLEAN
        /\ UNCHANGED <<pageVars, lines, log, cursor, outgrown, tornOps>>
    BY <1>4 DEF Truncate
  <2>. QED BY <1>1, <2>1 DEF pageVars, WikiTypeInv, WikiTypeOK
<1>5. CASE Ingest
  <2>1. UNCHANGED <<pageVars, discoveries, lines>>
    BY <1>5 DEF Ingest
  <2>. QED BY <1>1, <1>5, <2>1, IngestTypes DEF pageVars, WikiTypeInv, WikiTypeOK
<1>6. CASE UNCHANGED wikiVars
  BY <1>1, <1>6 DEF wikiVars, WikiTypeInv, WikiTypeOK
<1>. QED BY <1>2, <1>3, <1>4, <1>5, <1>6 DEF WikiNext, LogNext

(* WikiTypeOK: the files, the index entries and the log of services/wiki.py*)
(* have their types, and the cursor never lies beyond the lines written.   *)
THEOREM WikiTypes == WikiSpec => []WikiTypeOK
<1>1. WikiInit => WikiTypeInv
  <2>. SUFFICES ASSUME WikiInit PROVE WikiTypeInv
    OBVIOUS
  <2>1. edits \in 0..MaxEdits /\ lines \in 0..MaxLines /\ cursor \in 0..MaxLines /\ tornOps \in 0..MaxTorn
    BY WikiBounds DEF WikiInit
  <2>2. discoveries \in Seq(1..MaxLines) /\ log \in Seq(1..MaxLines) /\ Len(discoveries) <= lines
    BY DEF WikiInit
  <2>3. text \in [Paths -> SUBSET (1..MaxEdits)] /\ index \in [WikiTiers -> Kinds \cup {"none"}]
    BY DEF WikiInit
  <2>. QED BY <2>1, <2>2, <2>3 DEF WikiInit, WikiTypeInv, WikiTypeOK
<1>2. WikiTypeInv => WikiTypeOK
  BY DEF WikiTypeInv
<1>. QED BY <1>1, <1>2, WikiTypeNext, PTL DEF WikiSpec

-----------------------------------------------------------------------------
(* The memory washer.  WasherInv is inductive: RowInv says how the tables  *)
(* number their rows, MarkInv and BatchInv what a pass under way can have  *)
(* read, CoverInv and DueInv what watermarks stand for.                    *)

(* The rows of the tables.  Messages are saved in their order, and so are  *)
(* the rows of conversations never above their message; nothing leaves the *)
(* archive, whose rows are never above the number of messages there.       *)
RowInv ==
    /\ \A m, n \in Msgs : n < m /\ place[m] # "unsent" => place[n] # "unsent"
    /\ \A m \in In("conversations") : row[m] \in 1..m /\ row[m] <= highest
    /\ \A m \in In("conversations_archive") :
         row[m] \in 1..Cardinality(In("conversations_archive"))
    /\ \A t \in Tables : \A m, n \in In(t) : row[m] = row[n] => m = n

(* The highest number a new row of a table lies above, or has been used.   *)
LastUsed(t) == IF t = "conversations" THEN highest ELSE LastRow("conversations_archive")

(* No watermark, kept or on its way, is above what there has been to read. *)
MarkInv ==
    /\ \A t \in Tables : marks[t] <= LastUsed(t)
    /\ pass.top <= LastUsed(pass.source)
    /\ \A d \in pass.batch : d.row <= LastUsed(pass.source)

(* What the pass has read may be stale: the message is where it was, or has*)
(* gone, or was archived and there is beyond the watermark.                *)
BatchInv ==
    /\ \A d \in pass.batch :
         /\ d.row > pass.top /\ d.row > marks[pass.source]
         /\ \/ place[d.m] = pass.source /\ row[d.m] = d.row
            \/ pass.source = "conversations"
               /\ \/ place[d.m] = "gone"
                  \/ place[d.m] = "conversations_archive"
                     /\ row[d.m] > marks["conversations_archive"]
    /\ \A d, e \in pass.batch : d.row = e.row => d = e

Covered(m) == m \in washed \/ (place[m] = "conversations" /\ m \in reused)

(* All that is at or below a watermark, kept or on its way, is covered; and*)
(* all that is below a row of the batch is, or is in the batch itself.     *)
CoverInv ==
    /\ \A t \in Tables : \A m \in In(t) : row[m] <= marks[t] => Covered(m)
    /\ \A m \in In(pass.source) : row[m] <= pass.top => Covered(m)
    /\ \A m \in In(pass.source), d \in pass.batch :
         row[m] <= d.row => Covered(m) \/ [m |-> m, row |-> row[m]] \in pass.batch

(* What an extraction has made due is stored, or left to be stored.        *)
DueInv ==
    /\ pass.pc = "route" =>
         /\ pass.batch # {} /\ pass.left # {}
         /\ \A x \in due : x[1] = Msg.m => x \in stored \/ x[2] \in pass.left
    /\ \A x \in due : x[1] \in washed => x \in stored

PassType == [pc : {"off", "fetch", "work", "route"}, source : Tables,
             batch : SUBSET [m : Msgs, row : 1..Notes], top : 0..Notes, left : SUBSET Tiers]

WasherInv == MemoryTypeOK /\ pass \in PassType /\ RowInv /\ MarkInv /\ BatchInv /\ CoverInv /\ DueInv

-----------------------------------------------------------------------------
(* Numbers: least and greatest elements, and ranks *)

LEMMA LeastNumber ==
    ASSUME NEW S, S \subseteq Nat, S # {}
    PROVE  \E x \in S : \A y \in S : x <= y
<1>1. PICK x \in S : \A y \in S : <<y, x>> \notin OpToRel(<, Nat)
  BY NatLessThanWellFounded, WFMin
<1>2. \A y \in S : ~(y < x)
  BY <1>1 DEF OpToRel
<1>. QED BY <1>2

LEMMA GreatestNumber ==
    ASSUME NEW N \in Nat, NEW S, S \subseteq 0..N, S # {}
    PROVE  Max(S) \in S /\ \A y \in S : y <= Max(S)
<1>. DEFINE T == {k \in Nat : N - k \in S}
<1>1. T \subseteq Nat
  OBVIOUS
<1>2. \A y \in S : N - y \in T
  OBVIOUS
<1>3. PICK t \in T : \A u \in T : t <= u
  <2>1. T # {}
    BY <1>2
  <2>. HIDE DEF T
  <2>. QED BY <1>1, <2>1, LeastNumber
<1>4. N - t \in S /\ \A y \in S : N - t >= y
  BY <1>2, <1>3
<1>. QED BY <1>4 DEF Max

LEMMA GreaterOfTwo ==
    ASSUME NEW a \in Nat, NEW b \in Nat
    PROVE  Max({a, b}) = IF a < b THEN b ELSE a
<1>1. {a, b} \subseteq 0..(a + b) /\ {a, b} # {}
  OBVIOUS
<1>2. Max({a, b}) \in {a, b} /\ \A y \in {a, b} : y <= Max({a, b})
  BY <1>1, GreatestNumber
<1>. QED BY <1>2

(* The members of a finite set are ranked by how many are below each.      *)
Below(S, f, m) == {n \in S : f[n] < f[m]}

LEMMA RankStrict ==
    ASSUME NEW S, IsFiniteSet(S), NEW f, \A n \in S : f[n] \in Nat,
           NEW m \in S, NEW n \in S, f[m] < f[n]
    PROVE  /\ Cardinality(Below(S, f, m)) \in Nat /\ Cardinality(Below(S, f, n)) \in Nat
           /\ Cardinality(Below(S, f, m)) < Cardinality(Below(S, f, n))
<1>1. Below(S, f, m) \subseteq Below(S, f, n) /\ m \in Below(S, f, n) /\ m \notin Below(S, f, m)
  BY DEF Below
<1>2. IsFiniteSet(Below(S, f, m)) /\ IsFiniteSet(Below(S, f, n))
  BY FS_Subset DEF Below
<1>3. Cardinality(Below(S, f, m)) <= Cardinality(Below(S, f, n))
      /\ Cardinality(Below(S, f, m)) # Cardinality(Below(S, f, n))
  BY <1>1, <1>2, FS_Subset
<1>. QED BY <1>2, <1>3, FS_CardinalityType

(* The n with the least ranks are at most n.                               *)
LEMMA FirstRanks ==
    ASSUME NEW S, IsFiniteSet(S), NEW f, \A m \in S : f[m] \in Nat,
           \A m, n \in S : f[m] = f[n] => m = n, NEW k \in Nat \ {0}
    PROVE  LET T == {m \in S : Cardinality(Below(S, f, m)) < k}
           IN  IsFiniteSet(T) /\ Cardinality(T) <= k
<1>. DEFINE T == {m \in S : Cardinality(Below(S, f, m)) < k}
            g == [m \in T |-> Cardinality(Below(S, f, m))]
<1>1. \A m \in S : Cardinality(Below(S, f, m)) \in Nat
  BY FS_Subset, FS_CardinalityType DEF Below
<1>2. \A m, n \in T : g[m] = g[n] => m = n
  <2>. SUFFICES ASSUME NEW m \in T, NEW n \in T, g[m] = g[n], m # n PROVE FALSE
    OBVIOUS
  <2>1. f[m] < f[n] \/ f[n] < f[m]
    OBVIOUS
  <2>. QED BY <2>1, RankStrict
<1>3. g \in Injection(T, 0..(k - 1))
  BY <1>1, <1>2 DEF Injection, IsInjective
<1>4. IsFiniteSet(0..(k - 1)) /\ Cardinality(0..(k - 1)) = k
  BY FS_Interval
<1>. QED BY <1>3, <1>4, FS_Injection

(* An image has no more members than the set.                              *)
LEMMA ImageSmaller ==
    ASSUME NEW S, IsFiniteSet(S), NEW g, NEW T, T = {g[m] : m \in S}, g \in [S -> T]
    PROVE  IsFiniteSet(T) /\ Cardinality(T) <= Cardinality(S)
<1>1. g \in Surjection(S, T)
  BY DEF Surjection
<1>. QED BY <1>1, FS_Surjection

(* The members of a finite set of numbers, numbered from the least on.     *)
UpTo(S, m) == {n \in S : n <= m}

LEMMA Numbering ==
    ASSUME NEW S, IsFiniteSet(S), S \subseteq Nat
    PROVE  /\ Cardinality(S) \in Nat
           /\ \A m \in S : Cardinality(UpTo(S, m)) \in 1..Cardinality(S)
           /\ \A m, n \in S : Cardinality(UpTo(S, m)) = Cardinality(UpTo(S, n)) => m = n
<1>1. \A m \in S : UpTo(S, m) \subseteq S /\ m \in UpTo(S, m)
  BY DEF UpTo
<1>2. \A m \in S : /\ IsFiniteSet(UpTo(S, m)) /\ Cardinality(UpTo(S, m)) \in Nat
                   /\ Cardinality(UpTo(S, m)) <= Cardinality(S) /\ Cardinality(UpTo(S, m)) # 0
  BY <1>1, FS_Subset, FS_CardinalityType, FS_EmptySet
<1>3. ASSUME NEW m \in S, NEW n \in S, m < n
      PROVE  Cardinality(UpTo(S, m)) # Cardinality(UpTo(S, n))
  <2>1. UpTo(S, m) \subseteq UpTo(S, n) /\ n \in UpTo(S, n) /\ n \notin UpTo(S, m)
    <3>1. m \in Nat /\ n \in Nat /\ \A k \in S : k \in Nat
      OBVIOUS
    <3>2. \A k \in S : k <= m => k <= n
      BY <1>3, <3>1
    <3>3. n <= n /\ ~(n <= m)
      BY <1>3, <3>1
    <3>. QED BY <3>2, <3>3 DEF UpTo
  <2>. QED BY <1>2, <2>1, FS_Subset
<1>4. \A m, n \in S : Cardinality(UpTo(S, m)) = Cardinality(UpTo(S, n)) => m = n
  <2>. SUFFICES ASSUME NEW m \in S, NEW n \in S, m # n
                PROVE  Cardinality(UpTo(S, m)) # Cardinality(UpTo(S, n))
    OBVIOUS
  <2>1. m < n \/ n < m
    OBVIOUS
  <2>. QED BY <1>3, <2>1
<1>. QED BY <1>2, <1>4, FS_CardinalityType

-----------------------------------------------------------------------------
(* The operators of the washer *)

USE WasherBounds

LEMMA TablesFacts ==
    /\ Tables = {"conversations", "conversations_archive"}
    /\ "gone" \notin Tables /\ "unsent" \notin Tables
    /\ \A t : In(t) \subseteq Msgs /\ IsFiniteSet(In(t))
    /\ \A t, m : m \in In(t) <=> m \in Msgs /\ place[m] = t
<1>1. IsFiniteSet(Msgs)
  BY FS_Interval DEF Msgs
<1>. QED BY <1>1, FS_Subset DEF Tables, In

RowsBounded ==
    \A t \in Tables :
        /\ LastRow(t) \in 0..Notes
        /\ \A m \in In(t) : row[m] <= LastRow(t)
        /\ LastRow(t) = 0 \/ \E m \in In(t) : row[m] = LastRow(t)

LEMMA LastRowFacts ==
    row \in [Msgs -> 0..Notes] => RowsBounded
<1>. SUFFICES ASSUME row \in [Msgs -> 0..Notes], NEW t \in Tables
              PROVE  /\ LastRow(t) \in 0..Notes
                     /\ \A m \in In(t) : row[m] <= LastRow(t)
                     /\ LastRow(t) = 0 \/ \E m \in In(t) : row[m] = LastRow(t)
  BY DEF RowsBounded
<1>. DEFINE T == {row[m] : m \in In(t)} \cup {0}
<1>1. \A m \in In(t) : row[m] \in 0..Notes
  BY DEF In
<1>2. T \subseteq 0..Notes /\ T # {} /\ LastRow(t) = Max(T)
  BY <1>1 DEF LastRow
<1>3. Max(T) \in T /\ \A y \in T : y <= Max(T)
  <2>. HIDE DEF T
  <2>. QED BY <1>2, GreatestNumber
<1>4. \A m \in In(t) : row[m] \in T
  OBVIOUS
<1>. QED BY <1>2, <1>3, <1>4

LEMMA LastRowNext == (row \in [Msgs -> 0..Notes])' => RowsBounded'
BY LastRowFacts, PTL

(* The message in hand is the first of the batch. *)
LEMMA MsgFirst ==
    ASSUME pass \in PassType, pass.batch # {}
    PROVE  Msg \in pass.batch /\ \A d \in pass.batch : Msg.row <= d.row
<1>. DEFINE T == {n \in Nat : \E d \in pass.batch : d.row = n}
<1>1. pass.batch \subseteq [m : Msgs, row : 1..Notes]
  BY DEF PassType
<1>2. \A d \in pass.batch : d.row \in T
  BY <1>1
<1>3. PICK n \in T : \A k \in T : n <= k
  <2>1. T # {}
    BY <1>2
  <2>. HIDE DEF T
  <2>. QED BY <2>1, LeastNumber DEF T
<1>4. \E d \in pass.batch : \A e \in pass.batch : d.row <= e.row
  BY <1>2, <1>3
<1>. QED BY <1>4 DEF Msg

LEMMA PassedFacts ==
    ASSUME pass \in PassType, pass.batch # {}
    PROVE  /\ Passed \in PassType
           /\ Passed.pc = "work" /\ Passed.source = pass.source
           /\ Passed.batch = pass.batch \ {Msg} /\ Passed.left = {}
           /\ Passed.top = IF pass.top < Msg.row THEN Msg.row ELSE pass.top
           /\ Msg.m \in Msgs /\ Msg.row \in 1..Notes /\ pass.top \in 0..Notes
<1>1. Msg \in [m : Msgs, row : 1..Notes] /\ pass.top \in 0..Notes
  BY MsgFirst DEF PassType
<1>2. Msg.m \in Msgs /\ Msg.row \in 1..Notes
  BY <1>1
<1>3. Max({pass.top, Msg.row}) = IF pass.top < Msg.row THEN Msg.row ELSE pass.top
  BY <1>1, <1>2, GreaterOfTwo
<1>. DEFINE top == Max({pass.top, Msg.row})
            batch == pass.batch \ {Msg}
<1>4. Passed = [pass EXCEPT !.pc = "work", !.batch = batch, !.left = {}, !.top = top]
  BY DEF Passed
<1>5. top \in 0..Notes /\ batch \subseteq [m : Msgs, row : 1..Notes]
  BY <1>1, <1>2, <1>3 DEF PassType
<1>6. Passed \in PassType /\ Passed.pc = "work" /\ Passed.source = pass.source
      /\ Passed.batch = batch /\ Passed.left = {} /\ Passed.top = top
  <2>. HIDE DEF top, batch
  <2>. QED BY <1>4, <1>5 DEF PassType
<1>. QED BY <1>1, <1>2, <1>3, <1>6

(* A pass that has read nothing of a table yet, or is over. *)
Fresh(p) ==
    /\ p \in PassType /\ p.pc \in {"off", "fetch"}
    /\ p.batch = {} /\ p.top = 0 /\ p.left = {}

LEMMA FreshPasses ==
    Fresh(NoPass) /\ Fresh([NoPass EXCEPT !.pc = "fetch"]) /\ Fresh(NextSource)
<1>. DEFINE empty(pc, t) == [pc |-> pc, source |-> t, batch |-> {}, top |-> 0, left |-> {}]
<1>1. \A pc \in {"off", "fetch"}, t \in Tables : Fresh(empty(pc, t))
  BY DEF Fresh, PassType
<1>2. NoPass = empty("off", "conversations")
  BY DEF NoPass
<1>3. [NoPass EXCEPT !.pc = "fetch"] = empty("fetch", "conversations")
  BY DEF NoPass
<1>4. [empty("fetch", "conversations") EXCEPT !.source = "conversations_archive"]
        = empty("fetch", "conversations_archive")
  OBVIOUS
<1>5. NextSource \in {NoPass, [[NoPass EXCEPT !.pc = "fetch"] EXCEPT !.source = "conversations_archive"]}
  BY DEF NextSource
<1>. QED
  <2>. HIDE DEF empty
  <2>. QED BY <1>1, <1>2, <1>3, <1>4, <1>5 DEF Tables

(* What a pass reads: the rows next after the watermark, all of them up to *)
(* the last one read.                                                      *)
LEMMA UnreadFacts ==
    ASSUME MemoryTypeOK, pass \in PassType, RowInv
    PROVE  /\ Unread \subseteq [m : Msgs, row : 1..Notes] /\ Cardinality(Unread) <= Batch
           /\ \A d \in Unread : /\ d.m \in In(pass.source) /\ d.row = row[d.m]
                                /\ d.row > marks[pass.source]
           /\ \A m \in In(pass.source), d \in Unread :
                row[m] > marks[pass.source] /\ row[m] <= d.row
                    => [m |-> m, row |-> row[m]] \in Unread
<1>. DEFINE above == {m \in In(pass.source) : row[m] > marks[pass.source]}
            first == {m \in above : Cardinality(Below(above, row, m)) < Batch}
            rec == [m \in first |-> [m |-> m, row |-> row[m]]]
<1>1. Unread = {[m |-> m, row |-> row[m]] : m \in first}
  BY DEF Unread, Below
<1>2. /\ pass.source \in Tables /\ marks[pass.source] \in 0..Notes
      /\ \A m \in Msgs : row[m] \in 0..Notes
  BY DEF MemoryTypeOK
<1>3. IsFiniteSet(above) /\ above \subseteq Msgs /\ \A m \in above : row[m] \in 1..Notes
  BY <1>2, TablesFacts, FS_Subset
<1>4. \A m, n \in above : row[m] = row[n] => m = n
  BY <1>2 DEF RowInv
<1>5. IsFiniteSet(first) /\ Cardinality(first) <= Batch
  <2>. HIDE DEF above
  <2>. QED BY <1>3, <1>4, FirstRanks
<1>6. Unread = {rec[m] : m \in first} /\ rec \in [first -> Unread]
  BY <1>1
<1>7. Cardinality(Unread) <= Cardinality(first) /\ IsFiniteSet(Unread)
  <2>. HIDE DEF rec, first
  <2>. QED BY <1>5, <1>6, ImageSmaller
<1>8. Cardinality(Unread) <= Batch
  BY <1>5, <1>7, FS_CardinalityType
<1>9. \A d \in Unread : d.m \in first /\ d.row = row[d.m]
  BY <1>1
<1>10. Unread \subseteq [m : Msgs, row : 1..Notes]
  <2>1. \A m \in first : m \in Msgs /\ row[m] \in 1..Notes
    BY <1>3
  <2>. HIDE DEF first
  <2>. QED BY <1>1, <2>1
<1>11. ASSUME NEW m \in In(pass.source), NEW d \in Unread,
              row[m] > marks[pass.source], row[m] <= d.row
       PROVE  [m |-> m, row |-> row[m]] \in Unread
  <2>1. m \in above /\ d.m \in first /\ d.row = row[d.m]
    BY <1>9, <1>11
  <2>2. m \in first
    <3>1. CASE m = d.m
      BY <2>1, <3>1
    <3>2. CASE m # d.m
      <4>1. row[m] < row[d.m]
        BY <1>3, <1>4, <1>11, <2>1, <3>2
      <4>2. /\ Cardinality(Below(above, row, m)) \in Nat
            /\ Cardinality(Below(above, row, d.m)) \in Nat
            /\ Cardinality(Below(above, row, m)) < Cardinality(Below(above, row, d.m))
        <5>1. \A n \in above : row[n] \in Nat
          BY <1>3
        <5>2. d.m \in above
          BY <2>1
        <5>. HIDE DEF above
        <5>. QED BY <1>3, <2>1, <4>1, <5>1, <5>2, RankStrict
      <4>. QED BY <2>1, <4>2
    <3>. QED BY <3>1, <3>2
  <2>. QED BY <1>1, <2>2
<1>. QED BY <1>3, <1>8, <1>9, <1>10, <1>11

-----------------------------------------------------------------------------
(* The steps of the bot *)

LEMMA SaveKeeps ==
    ASSUME WasherInv, NEW m \in Msgs, Save(m)
    PROVE  WasherInv'
<1>. USE TablesFacts
<1>. DEFINE r == LastRow("conversations") + 1
<1>1. /\ MemoryTypeOK /\ pass \in PassType /\ RowInv /\ MarkInv /\ BatchInv /\ CoverInv /\ DueInv
      /\ UNCHANGED <<marks, pass, due, stored, washed, failures>>
  BY DEF WasherInv, Save
<1>2. m \in Nat /\ \A n \in Msgs : n \in Nat
  BY DEF Msgs
<1>3. r \in 1..m /\ \A n \in In("conversations") : row[n] < r
  <2>1. /\ LastRow("conversations") \in 0..Notes
        /\ \A n \in In("conversations") : row[n] <= LastRow("conversations")
        /\ LastRow("conversations") = 0
           \/ \E n \in In("conversations") : row[n] = LastRow("conversations")
    BY <1>1, LastRowFacts DEF MemoryTypeOK, RowsBounded
  <2>2. ASSUME NEW n \in In("conversations") PROVE row[n] \in 1..n /\ n < m
    <3>1. n \in Msgs /\ place[n] = "conversations" /\ place[m] = "unsent"
      BY DEF Save
    <3>2. ~(m < n) /\ n # m
      BY <1>1, <3>1 DEF RowInv
    <3>. QED BY <1>1, <1>2, <3>1, <3>2 DEF RowInv
  <2>3. LastRow("conversations") < m
    BY <1>2, <2>1, <2>2 DEF Msgs
  <2>. HIDE DEF r
  <2>. QED
    <3>1. r = LastRow("conversations") + 1
      BY DEF r
    <3>2. \A n \in In("conversations") : row[n] \in Nat
      BY <2>2
    <3>. QED BY <1>2, <2>1, <2>3, <3>1, <3>2
<1>4. r \in 1..Notes /\ r <= m
  BY <1>3 DEF Msgs
<1>. HIDE DEF r
<1>5. /\ row' = [row EXCEPT ![m] = r] /\ place' = [place EXCEPT ![m] = "conversations"]
      /\ reused' = IF r <= highest THEN reused \cup {m} ELSE reused
      /\ highest' = Max({highest, r})
      /\ place[m] = "unsent" /\ \A n \in 1..(m - 1) : place[n] # "unsent"
  BY <1>1 DEF Save, MemoryTypeOK, r
<1>6. /\ highest \in 0..Notes /\ highest' \in 0..Notes /\ highest <= highest' /\ r <= highest'
      /\ row \in [Msgs -> 0..Notes] /\ place \in [Msgs -> Tables \cup {"unsent", "gone"}]
      /\ marks \in [Tables -> 0..Notes]
  BY <1>1, <1>4, <1>5, GreaterOfTwo DEF MemoryTypeOK
<1>7. /\ row'[m] = r /\ place'[m] = "conversations"
      /\ \A n \in Msgs \ {m} : row'[n] = row[n] /\ place'[n] = place[n]
  BY <1>5, <1>6
<1>8. /\ In("conversations")' = In("conversations") \cup {m} /\ m \notin In("conversations")
      /\ In("conversations_archive")' = In("conversations_archive")
      /\ m \notin In("conversations_archive")
  BY <1>5, <1>7 DEF In
<1>9. LastRow("conversations_archive")' = LastRow("conversations_archive")
  <2>1. \A n \in In("conversations_archive") : row'[n] = row[n]
    BY <1>7, <1>8
  <2>2. {row'[n] : n \in In("conversations_archive")'} = {row[n] : n \in In("conversations_archive")}
    BY <1>8, <2>1
  <2>. QED BY <2>2 DEF LastRow
<1>10. MemoryTypeOK' /\ (pass \in PassType)'
  <2>1. row' \in [Msgs -> 0..Notes] /\ place' \in [Msgs -> Tables \cup {"unsent", "gone"}]
        /\ reused' \subseteq Msgs
    BY <1>1, <1>4, <1>5, <1>6 DEF MemoryTypeOK
  <2>. QED BY <1>1, <1>6, <2>1 DEF MemoryTypeOK
<1>11. RowInv'
  <2>1. \A n, k \in Msgs : k < n /\ place'[n] # "unsent" => place'[k] # "unsent"
    <3>. SUFFICES ASSUME NEW n \in Msgs, NEW k \in Msgs, k < n, place'[n] # "unsent",
                         k # m
                  PROVE  place[k] # "unsent"
      BY <1>7
    <3>1. CASE n = m
      BY <1>2, <1>5, <3>1 DEF Msgs
    <3>2. CASE n # m
      BY <1>1, <1>7, <3>2 DEF RowInv
    <3>. QED BY <3>1, <3>2
  <2>2. \A n \in In("conversations")' : row'[n] \in 1..n /\ row'[n] <= highest'
    <3>. SUFFICES ASSUME NEW n \in In("conversations")'
                  PROVE  row'[n] \in 1..n /\ row'[n] <= highest'
      OBVIOUS
    <3>1. CASE n = m
      BY <1>3, <1>6, <1>7, <3>1
    <3>2. CASE n # m
      <4>1. n \in In("conversations") /\ n \in Nat /\ row'[n] = row[n]
        BY <1>2, <1>7, <1>8, <3>2
      <4>2. row[n] \in 1..n /\ row[n] <= highest
        BY <1>1, <4>1 DEF RowInv
      <4>. QED BY <1>6, <4>1, <4>2
    <3>. QED BY <3>1, <3>2
  <2>3. \A n \in In("conversations_archive")' :
           row'[n] \in 1..Cardinality(In("conversations_archive")')
    BY <1>1, <1>7, <1>8 DEF RowInv
  <2>4. \A t \in Tables : \A n, k \in In(t)' : row'[n] = row'[k] => n = k
    <3>1. \A n, k \in In("conversations_archive")' : row'[n] = row'[k] => n = k
      BY <1>1, <1>7, <1>8 DEF RowInv
    <3>2. \A n, k \in In("conversations") : row'[n] = row'[k] => n = k
      BY <1>1, <1>7, <1>8 DEF RowInv
    <3>3. \A n \in In("conversations") : row'[n] # row'[m]
      BY <1>3, <1>6, <1>7, <1>8
    <3>. QED BY <1>8, <3>1, <3>2, <3>3
  <2>. QED BY <2>1, <2>2, <2>3, <2>4 DEF RowInv
<1>12. \A t \in Tables : LastUsed(t) \in 0..Notes /\ LastUsed(t)' \in 0..Notes /\ LastUsed(t) <= LastUsed(t)'
  <2>1. LastRow("conversations_archive") \in 0..Notes
    BY <1>6, LastRowFacts DEF RowsBounded
  <2>. QED BY <1>6, <1>9, <2>1 DEF LastUsed
<1>13. MarkInv'
  <2>1. pass.source \in Tables /\ pass.top \in 0..Notes /\ \A d \in pass.batch : d.row \in 1..Notes
    BY <1>1 DEF PassType
  <2>2. \A t \in Tables : marks'[t] <= LastUsed(t)'
    BY <1>1, <1>6, <1>12 DEF MarkInv
  <2>3. pass.top <= LastUsed(pass.source)' /\ \A d \in pass.batch : d.row <= LastUsed(pass.source)'
    <3>1. pass.top <= LastUsed(pass.source) /\ \A d \in pass.batch : d.row <= LastUsed(pass.source)
      BY <1>1 DEF MarkInv
    <3>2. LastUsed(pass.source) \in 0..Notes /\ LastUsed(pass.source)' \in 0..Notes
          /\ LastUsed(pass.source) <= LastUsed(pass.source)'
      BY <1>1, <1>12, <2>1 DEF LastUsed
    <3>. QED BY <1>1, <2>1, <3>1, <3>2
  <2>. QED BY <1>1, <2>2, <2>3 DEF MarkInv, LastUsed
<1>14. BatchInv'
  <2>1. \A d \in pass.batch : d.m \in Msgs
    BY <1>1 DEF PassType
  <2>2. \A d \in pass.batch : d.m # m
    BY <1>1, <1>5 DEF BatchInv, PassType
  <2>. QED BY <1>1, <1>7, <2>1, <2>2 DEF BatchInv
<1>15. CoverInv'
  <2>1. \A n \in Msgs \ {m} : Covered(n) => Covered(n)'
    BY <1>1, <1>5, <1>7 DEF Covered
  <2>2. highest < r \/ Covered(m)'
    BY <1>4, <1>5, <1>6, <1>7 DEF Covered
  <2>3. \A t \in Tables : \A n \in In(t)' : row'[n] <= marks'[t] => Covered(n)'
    <3>. SUFFICES ASSUME NEW t \in Tables, NEW n \in In(t)', row'[n] <= marks[t] PROVE Covered(n)'
      BY <1>1
    <3>1. CASE n = m
      <4>1. t = "conversations" /\ marks[t] <= highest
        BY <1>1, <1>8, <3>1 DEF MarkInv, LastUsed
      <4>. QED BY <1>4, <1>6, <1>7, <2>2, <3>1, <4>1
    <3>2. CASE n # m
      BY <1>1, <1>7, <1>8, <2>1, <3>2 DEF CoverInv
    <3>. QED BY <3>1, <3>2
  <2>4. \A n \in In(pass.source)' : row'[n] <= pass.top => Covered(n)'
    <3>. SUFFICES ASSUME NEW n \in In(pass.source)', row'[n] <= pass.top PROVE Covered(n)'
      OBVIOUS
    <3>0. pass.source \in Tables /\ pass.top \in 0..Notes
      BY <1>1 DEF PassType
    <3>1. CASE n = m
      <4>1. pass.source = "conversations" /\ pass.top <= highest
        BY <1>1, <1>8, <3>0, <3>1 DEF MarkInv, LastUsed
      <4>. QED BY <1>4, <1>6, <1>7, <2>2, <3>0, <3>1, <4>1
    <3>2. CASE n # m
      BY <1>1, <1>7, <1>8, <2>1, <3>0, <3>2 DEF CoverInv
    <3>. QED BY <3>1, <3>2
  <2>5. \A n \in In(pass.source)', d \in pass.batch :
           row'[n] <= d.row => Covered(n)' \/ [m |-> n, row |-> row'[n]] \in pass.batch
    <3>. SUFFICES ASSUME NEW n \in In(pass.source)', NEW d \in pass.batch, row'[n] <= d.row
                  PROVE  Covered(n)' \/ [m |-> n, row |-> row'[n]] \in pass.batch
      OBVIOUS
    <3>0. pass.source \in Tables /\ d.row \in 1..Notes
      BY <1>1 DEF PassType
    <3>1. CASE n = m
      <4>1. pass.source = "conversations" /\ d.row <= highest
        BY <1>1, <1>8, <3>0, <3>1 DEF MarkInv, LastUsed
      <4>. QED BY <1>4, <1>6, <1>7, <2>2, <3>0, <3>1, <4>1
    <3>2. CASE n # m
      BY <1>1, <1>7, <1>8, <2>1, <3>0, <3>2 DEF CoverInv
    <3>. QED BY <3>1, <3>2
  <2>. QED BY <1>1, <2>3, <2>4, <2>5 DEF CoverInv
<1>16. DueInv'
  BY <1>1 DEF DueInv, Msg
<1>. QED BY <1>10, <1>11, <1>13, <1>14, <1>15, <1>16 DEF WasherInv

(* A message that leaves conversations is not covered there any more. What *)
(* it was in the batch stays, as the row is kept or is a new one of the    *)
(* archive, beyond the watermark.                                          *)
LEMMA LeavingKeeps ==
    ASSUME WasherInv, NEW leaving \in SUBSET In("conversations"),
           NEW to \in {"gone", "conversations_archive"},
           place' \in [Msgs -> Tables \cup {"unsent", "gone"}], row' \in [Msgs -> 0..Notes],
           \A m \in Msgs \ leaving : place'[m] = place[m] /\ row'[m] = row[m],
           \A m \in leaving : place'[m] = to,
           to = "conversations_archive" =>
               \A m \in leaving : row'[m] > LastRow("conversations_archive"),
           UNCHANGED <<highest, reused, marks, pass, due, stored, washed, failures>>,
           RowInv'
    PROVE  WasherInv'
<1>. USE TablesFacts
<1>1. /\ MemoryTypeOK /\ pass \in PassType /\ RowInv /\ MarkInv /\ BatchInv /\ CoverInv /\ DueInv
      /\ row \in [Msgs -> 0..Notes] /\ marks \in [Tables -> 0..Notes] /\ highest \in 0..Notes
  BY DEF WasherInv, MemoryTypeOK
<1>2. /\ In("conversations")' = In("conversations") \ leaving
      /\ In("conversations_archive")' =
           In("conversations_archive") \cup (IF to = "gone" THEN {} ELSE leaving)
      /\ In("conversations_archive") \cap leaving = {} /\ leaving \subseteq Msgs
  BY DEF In
<1>3. /\ LastRow("conversations_archive") \in 0..Notes /\ LastRow("conversations_archive")' \in 0..Notes
      /\ \A m \in In("conversations_archive") : row[m] <= LastRow("conversations_archive")
      /\ LastRow("conversations_archive") <= LastRow("conversations_archive")'
  <2>1. RowsBounded /\ RowsBounded'
    BY <1>1, LastRowFacts, LastRowNext
  <2>2. ASSUME NEW m \in In("conversations_archive"), row[m] = LastRow("conversations_archive")
        PROVE  row[m] <= LastRow("conversations_archive")'
    <3>1. m \in In("conversations_archive")' /\ row'[m] = row[m]
      BY <1>2
    <3>. QED BY <2>1, <3>1 DEF RowsBounded
  <2>3. LastRow("conversations_archive") <= LastRow("conversations_archive")'
    BY <2>1, <2>2 DEF RowsBounded
  <2>. QED BY <2>1, <2>3 DEF RowsBounded
<1>4. MemoryTypeOK' /\ (pass \in PassType)'
  BY <1>1 DEF MemoryTypeOK
<1>5. MarkInv'
  <2>1. \A t \in Tables : /\ LastUsed(t) \in 0..Notes /\ LastUsed(t)' \in 0..Notes
                          /\ LastUsed(t) <= LastUsed(t)'
    BY <1>1, <1>3 DEF LastUsed
  <2>2. pass.source \in Tables /\ pass.top \in 0..Notes /\ \A d \in pass.batch : d.row \in 1..Notes
    BY <1>1 DEF PassType
  <2>3. \A t \in Tables : marks'[t] <= LastUsed(t)'
    BY <1>1, <2>1 DEF MarkInv
  <2>4. pass.top <= LastUsed(pass.source)' /\ \A d \in pass.batch : d.row <= LastUsed(pass.source)'
    <3>1. pass.top <= LastUsed(pass.source) /\ \A d \in pass.batch : d.row <= LastUsed(pass.source)
      BY <1>1 DEF MarkInv
    <3>2. /\ LastUsed(pass.source) \in 0..Notes /\ LastUsed(pass.source)' \in 0..Notes
          /\ LastUsed(pass.source) <= LastUsed(pass.source)'
      BY <1>1, <2>1, <2>2 DEF LastUsed
    <3>. QED BY <1>1, <2>2, <3>1, <3>2
  <2>. QED BY <1>1, <2>3, <2>4 DEF MarkInv, LastUsed
<1>6. BatchInv'
  <2>1. ASSUME NEW d \in pass.batch
        PROVE  \/ place'[d.m] = pass.source /\ row'[d.m] = d.row
               \/ pass.source = "conversations"
                  /\ \/ place'[d.m] = "gone"
                     \/ place'[d.m] = "conversations_archive"
                        /\ row'[d.m] > marks["conversations_archive"]
    <3>1. d.m \in Msgs
      BY <1>1 DEF PassType
    <3>2. CASE d.m \notin leaving
      BY <1>1, <3>1, <3>2 DEF BatchInv
    <3>3. CASE d.m \in leaving
      <4>1. place[d.m] = "conversations" /\ place'[d.m] = to
        BY <3>3 DEF In
      <4>2. pass.source = "conversations"
        BY <1>1, <4>1 DEF BatchInv
      <4>3. CASE to = "conversations_archive"
        <5>1. marks["conversations_archive"] <= LastRow("conversations_archive")
          BY <1>1 DEF MarkInv, LastUsed
        <5>2. /\ row'[d.m] > LastRow("conversations_archive") /\ row'[d.m] \in 0..Notes
              /\ marks["conversations_archive"] \in 0..Notes
          BY <1>1, <3>1, <3>3, <4>3
        <5>. QED BY <1>3, <4>1, <4>2, <4>3, <5>1, <5>2
      <4>. QED BY <4>1, <4>2, <4>3
    <3>. QED BY <3>2, <3>3
  <2>. QED BY <1>1, <2>1 DEF BatchInv
<1>7. CoverInv'
  <2>1. \A m \in Msgs \ leaving : Covered(m) => Covered(m)'
    BY DEF Covered
  <2>2. ASSUME NEW t \in Tables, NEW m \in In(t)' \ leaving
        PROVE  m \in In(t) /\ m \in Msgs \ leaving /\ row'[m] = row[m]
    BY <1>2
  <2>3. ASSUME NEW t \in Tables, NEW m \in In(t)' \cap leaving
        PROVE  t = "conversations_archive" /\ row'[m] > LastRow("conversations_archive")
               /\ row'[m] \in 0..Notes
    BY <1>2
  <2>4. \A t \in Tables : \A m \in In(t)' : row'[m] <= marks[t] => Covered(m)'
    <3>. SUFFICES ASSUME NEW t \in Tables, NEW m \in In(t)', row'[m] <= marks[t] PROVE Covered(m)'
      OBVIOUS
    <3>1. CASE m \in leaving
      <4>1. t = "conversations_archive" /\ row'[m] > LastRow("conversations_archive")
            /\ row'[m] \in 0..Notes
        BY <2>3, <3>1
      <4>2. marks[t] <= LastRow("conversations_archive") /\ marks[t] \in 0..Notes
        BY <1>1, <4>1 DEF MarkInv, LastUsed
      <4>. QED BY <1>3, <4>1, <4>2
    <3>2. CASE m \notin leaving
      BY <1>1, <2>1, <2>2, <3>2 DEF CoverInv
    <3>. QED BY <3>1, <3>2
  <2>5. pass.source \in Tables /\ pass.top \in 0..Notes /\ \A d \in pass.batch : d.row \in 1..Notes
    BY <1>1 DEF PassType
  <2>6. \A m \in In(pass.source)' : row'[m] <= pass.top => Covered(m)'
    <3>. SUFFICES ASSUME NEW m \in In(pass.source)', row'[m] <= pass.top PROVE Covered(m)'
      OBVIOUS
    <3>0. \E t \in Tables : t = pass.source /\ m \in In(t)'
      BY <1>1, <2>5 DEF In
    <3>1. CASE m \in leaving
      <4>1. /\ pass.source = "conversations_archive"
            /\ row'[m] > LastRow("conversations_archive") /\ row'[m] \in 0..Notes
        BY <2>3, <3>0, <3>1
      <4>2. pass.top <= LastRow("conversations_archive")
        BY <1>1, <4>1 DEF MarkInv, LastUsed
      <4>. QED BY <1>3, <2>5, <4>1, <4>2
    <3>2. CASE m \notin leaving
      BY <1>1, <2>1, <2>2, <3>0, <3>2 DEF CoverInv
    <3>. QED BY <3>1, <3>2
  <2>7. \A m \in In(pass.source)', d \in pass.batch :
           row'[m] <= d.row => Covered(m)' \/ [m |-> m, row |-> row'[m]] \in pass.batch
    <3>. SUFFICES ASSUME NEW m \in In(pass.source)', NEW d \in pass.batch, row'[m] <= d.row
                  PROVE  Covered(m)' \/ [m |-> m, row |-> row'[m]] \in pass.batch
      OBVIOUS
    <3>0. \E t \in Tables : t = pass.source /\ m \in In(t)'
      BY <1>1, <2>5 DEF In
    <3>1. CASE m \in leaving
      <4>1. /\ pass.source = "conversations_archive"
            /\ row'[m] > LastRow("conversations_archive") /\ row'[m] \in 0..Notes
        BY <2>3, <3>0, <3>1
      <4>2. d.row <= LastRow("conversations_archive") /\ d.row \in 1..Notes
        BY <1>1, <2>5, <4>1 DEF MarkInv, LastUsed
      <4>. QED BY <1>3, <4>1, <4>2
    <3>2. CASE m \notin leaving
      BY <1>1, <2>1, <2>2, <3>0, <3>2 DEF CoverInv
    <3>. QED BY <3>1, <3>2
  <2>. QED BY <1>1, <2>4, <2>6, <2>7 DEF CoverInv
<1>8. DueInv'
  BY <1>1 DEF DueInv, Msg
<1>. QED BY <1>4, <1>5, <1>6, <1>7, <1>8 DEF WasherInv

LEMMA ClearKeeps ==
    ASSUME WasherInv, NEW thread \in SUBSET In("conversations"), ClearThread(thread)
    PROVE  WasherInv'
<1>. USE TablesFacts
<1>1. MemoryTypeOK /\ RowInv
  BY DEF WasherInv
<1>2. /\ place' \in [Msgs -> Tables \cup {"unsent", "gone"}] /\ row' = row
      /\ \A m \in Msgs \ thread : place'[m] = place[m]
      /\ \A m \in thread : place'[m] = "gone"
      /\ UNCHANGED <<highest, reused, marks, pass, due, stored, washed, failures>>
  BY <1>1 DEF ClearThread, MemoryTypeOK
<1>3. /\ In("conversations")' \subseteq In("conversations")
      /\ In("conversations_archive")' = In("conversations_archive")
  BY <1>2 DEF In
<1>4. RowInv'
  <2>1. \A m, n \in Msgs : n < m /\ place'[m] # "unsent" => place'[n] # "unsent"
    <3>1. \A m \in Msgs : place'[m] # "unsent" <=> place[m] # "unsent"
      BY <1>2
    <3>. QED BY <1>1, <3>1 DEF RowInv
  <2>. QED BY <1>1, <1>2, <1>3, <2>1 DEF RowInv
<1>. QED BY <1>1, <1>2, <1>4, LeavingKeeps DEF MemoryTypeOK

LEMMA ArchiveKeeps ==
    ASSUME WasherInv, NEW last \in Msgs, ArchiveOld(last)
    PROVE  WasherInv'
<1>. USE TablesFacts
<1>. DEFINE moved == {m \in In("conversations") : m <= last}
            L == LastRow("conversations_archive")
<1>1. MemoryTypeOK /\ RowInv /\ row \in [Msgs -> 0..Notes]
  BY DEF WasherInv, MemoryTypeOK
<1>2. /\ moved \subseteq In("conversations") /\ IsFiniteSet(moved) /\ moved \subseteq Nat
  BY FS_Subset DEF Msgs
<1>3. /\ place' = [m \in Msgs |-> IF m \in moved THEN "conversations_archive" ELSE place[m]]
      /\ row' = [m \in Msgs |-> IF m \in moved THEN L + Cardinality(UpTo(moved, m)) ELSE row[m]]
      /\ UNCHANGED <<highest, reused, marks, pass, due, stored, washed, failures>>
  BY DEF ArchiveOld, UpTo
<1>. HIDE DEF moved, L
<1>4. /\ Cardinality(moved) \in Nat
      /\ \A m \in moved : Cardinality(UpTo(moved, m)) \in 1..Cardinality(moved)
      /\ \A m, n \in moved : Cardinality(UpTo(moved, m)) = Cardinality(UpTo(moved, n)) => m = n
  BY <1>2, Numbering
<1>5. /\ In("conversations")' = In("conversations") \ moved
      /\ In("conversations_archive")' = In("conversations_archive") \cup moved
      /\ In("conversations_archive") \cap moved = {}
  BY <1>2, <1>3 DEF In
<1>6. /\ Cardinality(In("conversations_archive")) \in Nat
      /\ Cardinality(In("conversations_archive")') =
           Cardinality(In("conversations_archive")) + Cardinality(moved)
      /\ Cardinality(In("conversations_archive")') <= Notes
  <2>1. Cardinality(Msgs) = Notes /\ IsFiniteSet(Msgs)
    BY FS_Interval DEF Msgs
  <2>2. In("conversations_archive")' \subseteq Msgs
    BY <1>2, <1>5
  <2>3. Cardinality(In("conversations_archive")') <= Notes
    BY <2>1, <2>2, FS_Subset
  <2>4. Cardinality(In("conversations_archive") \cap moved) = 0
    BY <1>5, FS_EmptySet
  <2>5. IsFiniteSet(In("conversations_archive")) /\ Cardinality(In("conversations_archive")) \in Nat
    BY FS_CardinalityType
  <2>6. Cardinality(In("conversations_archive") \cup moved) =
          Cardinality(In("conversations_archive")) + Cardinality(moved)
    <3>1. Cardinality(In("conversations_archive") \cup moved) =
            Cardinality(In("conversations_archive")) + Cardinality(moved) - 0
      BY <1>2, <2>4, <2>5, FS_Union
    <3>2. \A i, j \in Nat : i + j - 0 = i + j
      OBVIOUS
    <3>. QED BY <1>4, <2>5, <3>1, <3>2, Zenon
  <2>. QED BY <1>5, <2>3, <2>5, <2>6, Zenon
<1>7. /\ L \in 0..Cardinality(In("conversations_archive"))
      /\ \A m \in In("conversations_archive") : row[m] <= L
  <2>1. RowsBounded
    BY <1>1, LastRowFacts
  <2>2. \A m \in In("conversations_archive") :
           row[m] \in 1..Cardinality(In("conversations_archive"))
    BY <1>1 DEF RowInv
  <2>. QED BY <1>6, <2>1, <2>2 DEF RowsBounded, L
<1>8. /\ \A m \in moved : /\ row'[m] = L + Cardinality(UpTo(moved, m))
                          /\ row'[m] \in 1..Cardinality(In("conversations_archive")')
                          /\ row'[m] > L /\ place'[m] = "conversations_archive"
      /\ \A m \in Msgs \ moved : row'[m] = row[m] /\ place'[m] = place[m]
  <2>1. ASSUME NEW m \in moved
        PROVE  /\ row'[m] = L + Cardinality(UpTo(moved, m))
               /\ row'[m] \in 1..Cardinality(In("conversations_archive")')
               /\ row'[m] > L /\ place'[m] = "conversations_archive"
    <3>1. m \in Msgs /\ Cardinality(UpTo(moved, m)) \in 1..Cardinality(moved)
      BY <1>2, <1>4
    <3>. QED BY <1>3, <1>4, <1>6, <1>7, <3>1
  <2>. QED BY <1>3, <2>1
<1>9. /\ place' \in [Msgs -> Tables \cup {"unsent", "gone"}]
      /\ row' \in [Msgs -> 0..Notes]
  <2>1. \A m \in Msgs : row'[m] \in 0..Notes
    BY <1>1, <1>4, <1>6, <1>8
  <2>2. \A m \in Msgs : place'[m] \in Tables \cup {"unsent", "gone"}
    BY <1>1, <1>8 DEF MemoryTypeOK
  <2>. QED BY <1>3, <2>1, <2>2
<1>10. RowInv'
  <2>1. \A m, n \in Msgs : n < m /\ place'[m] # "unsent" => place'[n] # "unsent"
    <3>1. \A m \in Msgs : place'[m] # "unsent" <=> place[m] # "unsent"
      BY <1>2, <1>8 DEF In
    <3>. QED BY <1>1, <3>1 DEF RowInv
  <2>2. \A m \in In("conversations")' : row'[m] \in 1..m /\ row'[m] <= highest'
    BY <1>1, <1>3, <1>5, <1>8 DEF RowInv
  <2>3. ASSUME NEW m \in In("conversations_archive")'
        PROVE  row'[m] \in 1..Cardinality(In("conversations_archive")')
    <3>1. CASE m \in moved
      BY <1>8, <3>1
    <3>2. CASE m \notin moved
      <4>1. m \in In("conversations_archive") /\ row'[m] = row[m]
        BY <1>5, <1>8, <3>2
      <4>2. row[m] \in 1..Cardinality(In("conversations_archive"))
        BY <1>1, <4>1 DEF RowInv
      <4>. QED BY <1>4, <1>6, <4>1, <4>2
    <3>. QED BY <3>1, <3>2
  <2>4. \A m, n \in In("conversations")' : row'[m] = row'[n] => m = n
    BY <1>1, <1>5, <1>8 DEF RowInv
  <2>5. ASSUME NEW m \in In("conversations_archive")', NEW n \in In("conversations_archive")',
               row'[m] = row'[n]
        PROVE  m = n
    <3>1. CASE m \in moved /\ n \in moved
      <4>1. /\ row'[m] = L + Cardinality(UpTo(moved, m)) /\ row'[n] = L + Cardinality(UpTo(moved, n))
            /\ Cardinality(UpTo(moved, m)) \in Nat /\ Cardinality(UpTo(moved, n)) \in Nat /\ L \in Nat
        BY <1>4, <1>6, <1>7, <1>8, <3>1
      <4>2. Cardinality(UpTo(moved, m)) = Cardinality(UpTo(moved, n))
        <5>1. \A i, j, k \in Nat : k + i = k + j => i = j
          OBVIOUS
        <5>2. L + Cardinality(UpTo(moved, m)) = L + Cardinality(UpTo(moved, n))
          BY <2>5, <4>1, Zenon
        <5>. QED BY <4>1, <5>1, <5>2, Zenon
      <4>. QED BY <1>4, <3>1, <4>2
    <3>2. CASE m \notin moved /\ n \notin moved
      BY <1>1, <1>5, <1>8, <2>5, <3>2 DEF RowInv
    <3>3. ASSUME NEW k \in In("conversations_archive"), NEW l \in moved PROVE row'[k] # row'[l]
      <4>1. row'[k] = row[k] /\ row[k] <= L /\ row'[l] > L
        BY <1>5, <1>7, <1>8
      <4>. QED BY <1>6, <1>7, <1>9, <4>1
    <3>. QED BY <1>5, <2>5, <3>1, <3>2, <3>3
  <2>. QED BY <2>1, <2>2, <2>3, <2>4, <2>5 DEF RowInv
<1>. QED BY <1>2, <1>3, <1>8, <1>9, <1>10, LeavingKeeps DEF L

-----------------------------------------------------------------------------
(* The steps of a pass *)

LEMMA TableTypes ==
    ASSUME WasherInv
    PROVE  /\ pass.source \in Tables /\ pass.top \in 0..Notes /\ pass.left \subseteq Tiers
           /\ pass.batch \subseteq [m : Msgs, row : 1..Notes]
           /\ \A d \in pass.batch : d.m \in Msgs /\ d.row \in 1..Notes
           /\ \A t \in Tables : marks[t] \in 0..Notes /\ LastUsed(t) \in 0..Notes
           /\ \A m \in Msgs : row[m] \in 0..Notes
           /\ \A t \in Tables : \A m \in In(t) : row[m] \in 1..Notes
           /\ RowInv /\ MarkInv /\ BatchInv /\ CoverInv /\ DueInv
<1>1. MemoryTypeOK /\ pass \in PassType /\ RowInv
  BY DEF WasherInv
<1>2. LastRow("conversations_archive") \in 0..Notes
  BY <1>1, TablesFacts, LastRowFacts DEF MemoryTypeOK, RowsBounded
<1>3. \A t \in Tables : \A m \in In(t) : row[m] \in 1..Notes
  <2>1. \A m \in In("conversations") : row[m] \in 1..Notes
    BY <1>1, TablesFacts DEF RowInv, Msgs
  <2>2. ASSUME NEW m \in In("conversations_archive") PROVE row[m] \in 1..Notes
    BY <1>1, TablesFacts, FS_CardinalityType DEF RowInv, MemoryTypeOK
  <2>. QED BY <2>1, <2>2, TablesFacts
<1>. QED BY <1>1, <1>2, <1>3 DEF WasherInv, PassType, MemoryTypeOK, LastUsed

LEMMA SameRows ==
    ASSUME UNCHANGED <<place, row, highest, reused>>
    PROVE  /\ \A t : In(t)' = In(t)
           /\ \A t : LastUsed(t)' = LastUsed(t)
           /\ RowInv => RowInv'
<1>1. /\ In("conversations")' = In("conversations")
      /\ In("conversations_archive")' = In("conversations_archive")
      /\ \A t : In(t)' = In(t)
  BY DEF In
<1>2. LastRow("conversations_archive")' = LastRow("conversations_archive")
  BY <1>1 DEF LastRow
<1>3. \A t : LastUsed(t)' = LastUsed(t)
  BY <1>2 DEF LastUsed
<1>4. RowInv => RowInv'
  BY <1>1 DEF RowInv
<1>. QED BY <1>1, <1>3, <1>4

(* A pass that begins, ends or goes on to the other table, the watermark   *)
(* saved or not.                                                           *)
LEMMA FreshKeeps ==
    ASSUME WasherInv, UNCHANGED <<place, row, highest, reused, due, stored, washed>>,
           Fresh(pass'), failures' \in 0..MaxFailures, marks' \in [Tables -> 0..Notes],
           \A t \in Tables : marks'[t] <= LastUsed(t),
           \A t \in Tables : \A m \in In(t) : row[m] <= marks'[t] => Covered(m)
    PROVE  WasherInv'
<1>1. /\ MemoryTypeOK /\ RowInv /\ DueInv /\ RowInv'
      /\ \A t : In(t)' = In(t) /\ LastUsed(t)' = LastUsed(t)
      /\ \A t \in Tables : \A m \in In(t) : row[m] \in 1..Notes
      /\ \A t \in Tables : LastUsed(t) \in 0..Notes
  BY TableTypes, SameRows DEF WasherInv
<1>2. /\ pass' \in PassType /\ pass'.pc \in {"off", "fetch"} /\ pass'.source \in Tables
      /\ pass'.batch = {} /\ pass'.top = 0 /\ pass'.left = {}
  BY DEF Fresh, PassType
<1>3. \A m \in Msgs : Covered(m)' = Covered(m)
  BY DEF Covered
<1>4. MemoryTypeOK'
  <2>1. Cardinality({}) <= Batch
    BY FS_EmptySet
  <2>. QED BY <1>1, <1>2, <2>1 DEF MemoryTypeOK
<1>5. MarkInv'
  <2>1. 0 <= LastUsed(pass.source)'
    <3>1. \A t \in Tables : 0 <= LastUsed(t)'
      BY <1>1
    <3>. QED BY <1>2, <3>1 DEF LastUsed, Tables
  <2>. QED BY <1>1, <1>2, <2>1 DEF MarkInv
<1>6. BatchInv'
  BY <1>2 DEF BatchInv
<1>7. CoverInv'
  <2>1. \A m \in In(pass.source)' : ~(row'[m] <= 0)
    <3>1. \A t \in Tables : \A m \in In(t)' : ~(row'[m] <= 0)
      BY <1>1
    <3>. QED BY <1>2, <3>1 DEF In
  <2>2. \A t \in Tables : \A m \in In(t)' : row'[m] <= marks'[t] => Covered(m)'
    BY <1>1, <1>3, TablesFacts
  <2>. QED BY <1>2, <2>1, <2>2 DEF CoverInv
<1>8. DueInv'
  BY <1>1, <1>2 DEF DueInv
<1>. QED BY <1>1, <1>2, <1>4, <1>5, <1>6, <1>7, <1>8 DEF WasherInv

LEMMA OnlyPass ==
    ASSUME WasherInv, UNCHANGED <<place, row, highest, reused, due, stored, washed, marks>>,
           Fresh(pass'), failures' \in 0..MaxFailures
    PROVE  WasherInv'
<1>1. marks \in [Tables -> 0..Notes] /\ MarkInv /\ CoverInv
  BY DEF WasherInv, MemoryTypeOK
<1>2. \A t \in Tables : marks'[t] <= LastUsed(t)
  BY <1>1 DEF MarkInv
<1>3. \A t \in Tables : \A m \in In(t) : row[m] <= marks'[t] => Covered(m)
  BY <1>1 DEF CoverInv
<1>. QED BY <1>1, <1>2, <1>3, FreshKeeps

LEMMA FetchKeeps ==
    ASSUME WasherInv, Fetch
    PROVE  WasherInv'
<1>1. /\ MemoryTypeOK /\ pass \in PassType /\ RowInv /\ MarkInv /\ CoverInv /\ DueInv
      /\ marks \in [Tables -> 0..Notes] /\ failures \in 0..MaxFailures
  BY DEF WasherInv, MemoryTypeOK
<1>2. CASE Unread = {}
  BY <1>1, <1>2, OnlyPass, FreshPasses DEF Fetch
<1>3. CASE Unread # {}
  <2>1. /\ pass' = [pass EXCEPT !.pc = "work", !.batch = Unread, !.top = marks[pass.source]]
        /\ UNCHANGED <<place, row, highest, reused, marks, due, stored, washed, failures>>
    BY <1>3 DEF Fetch
  <2>. DEFINE read == Unread
              top == marks[pass.source]
  <2>2. /\ Unread \subseteq [m : Msgs, row : 1..Notes] /\ Cardinality(Unread) <= Batch
        /\ \A d \in Unread : /\ d.m \in In(pass.source) /\ d.row = row[d.m]
                             /\ d.row > marks[pass.source]
        /\ \A m \in In(pass.source), d \in Unread :
             row[m] > marks[pass.source] /\ row[m] <= d.row
                 => [m |-> m, row |-> row[m]] \in Unread
    BY <1>1, UnreadFacts
  <2>3. pass.source \in Tables /\ top \in 0..Notes
    BY TableTypes
  <2>4. /\ pass' \in PassType /\ pass'.pc = "work" /\ pass'.source = pass.source
        /\ pass'.batch = read /\ pass'.top = top
    <3>1. read \subseteq [m : Msgs, row : 1..Notes]
      BY <2>2
    <3>2. pass' = [pass EXCEPT !.pc = "work", !.batch = read, !.top = top]
      BY <2>1
    <3>. HIDE DEF read, top
    <3>. QED BY <1>1, <2>3, <3>1, <3>2 DEF PassType
  <2>5. /\ \A t : In(t)' = In(t) /\ LastUsed(t)' = LastUsed(t)
        /\ RowInv'
        /\ \A m \in Msgs : Covered(m)' = Covered(m)
    BY <1>1, <2>1, SameRows DEF Covered
  <2>6. \A t \in Tables : \A m \in In(t) :
           row[m] \in 1..Notes /\ row[m] <= LastUsed(t) /\ LastUsed(t) \in 0..Notes
    <3>1. RowsBounded
      BY <1>1, LastRowFacts DEF MemoryTypeOK
    <3>. QED BY <1>1, <3>1, TableTypes DEF RowInv, RowsBounded, LastUsed, Tables
  <2>7. MemoryTypeOK'
    <3>1. Cardinality(pass'.batch) <= Batch
      BY <2>2, <2>4
    <3>2. pass'.left = pass.left /\ pass.left \subseteq Tiers
      BY <1>1, <2>1 DEF PassType
    <3>. QED BY <1>1, <2>1, <2>2, <2>3, <2>4, <3>1, <3>2 DEF MemoryTypeOK
  <2>8. MarkInv'
    <3>1. top <= LastUsed(pass.source) /\ \A d \in read : d.row <= LastUsed(pass.source)
      BY <1>1, <2>2, <2>3, <2>6 DEF MarkInv
    <3>2. LastUsed(pass.source)' = LastUsed(pass.source)
      BY <2>4, <2>5 DEF LastUsed
    <3>. QED BY <1>1, <2>1, <2>4, <2>5, <3>1, <3>2 DEF MarkInv
  <2>9. BatchInv'
    <3>1. \A d \in read : d.row > top /\ place[d.m] = pass.source /\ row[d.m] = d.row
      BY <2>2, TablesFacts
    <3>2. \A d, e \in read : d.row = e.row => d = e
      <4>. SUFFICES ASSUME NEW d \in read, NEW e \in read, d.row = e.row PROVE d = e
        OBVIOUS
      <4>1. d.m = e.m
        BY <1>1, <2>2, <2>3 DEF RowInv
      <4>. QED BY <2>2, <4>1
    <3>. QED BY <2>1, <2>4, <3>1, <3>2 DEF BatchInv
  <2>10. CoverInv'
    <3>1. \A t \in Tables : \A m \in In(t)' : row'[m] <= marks'[t] => Covered(m)'
      BY <1>1, <2>1, <2>5, TablesFacts DEF CoverInv
    <3>2. \A m \in In(pass.source) : row[m] <= top => Covered(m)
      BY <1>1, <2>3 DEF CoverInv
    <3>3. \A m \in In(pass.source), d \in read :
            row[m] <= d.row => Covered(m) \/ [m |-> m, row |-> row[m]] \in read
      <4>. SUFFICES ASSUME NEW m \in In(pass.source), NEW d \in read, row[m] <= d.row, ~(row[m] <= top)
                    PROVE  [m |-> m, row |-> row[m]] \in read
        BY <3>2
      <4>1. row[m] > top
        BY <2>3, <2>6
      <4>. QED BY <2>2, <4>1
    <3>4. In(pass.source)' = In(pass.source)
      BY <2>4, <2>1 DEF In
    <3>. HIDE DEF read, top
    <3>. QED BY <2>1, <2>4, <2>5, <3>1, <3>2, <3>3, <3>4, TablesFacts DEF CoverInv
  <2>11. DueInv'
    BY <1>1, <2>1, <2>4 DEF DueInv
  <2>. QED BY <2>4, <2>5, <2>7, <2>8, <2>9, <2>10, <2>11 DEF WasherInv
<1>. QED BY <1>2, <1>3

(* The message in hand is done with: it counts as washed, so that what its *)
(* row had yet to be covered is, and all rows left are beyond it.          *)
LEMMA PassedKeeps ==
    ASSUME WasherInv, pass.batch # {}, pass' = Passed, washed' = washed \cup {Msg.m},
           UNCHANGED <<place, row, highest, reused, marks, failures>>,
           due' \subseteq Msgs \X Tiers, stored' \subseteq Msgs \X Tiers,
           \A x \in due' : x[1] \in washed' => x \in stored'
    PROVE  WasherInv'
<1>. DEFINE d0 == Msg
<1>1. /\ MemoryTypeOK /\ pass \in PassType /\ RowInv /\ MarkInv /\ BatchInv /\ CoverInv
      /\ d0 \in pass.batch /\ \A d \in pass.batch : d0.row <= d.row
  BY MsgFirst DEF WasherInv
<1>2. /\ pass' \in PassType /\ pass'.pc = "work" /\ pass'.source = pass.source
      /\ pass'.batch = pass.batch \ {d0} /\ pass'.left = {}
      /\ pass'.top = (IF pass.top < d0.row THEN d0.row ELSE pass.top)
      /\ d0.m \in Msgs /\ d0.row \in 1..Notes /\ pass.top \in 0..Notes
  BY <1>1, PassedFacts
<1>. HIDE DEF d0
<1>3. pass'.top = d0.row
  BY <1>1, <1>2 DEF BatchInv
<1>4. /\ \A t : In(t)' = In(t) /\ LastUsed(t)' = LastUsed(t)
      /\ RowInv'
      /\ \A m \in Msgs : Covered(m) => Covered(m)'
      /\ d0.m \in washed'
  BY <1>1, SameRows DEF Covered, d0
<1>5. /\ pass.source \in Tables /\ \A d \in pass.batch : d.m \in Msgs /\ d.row \in 1..Notes
      /\ \A t \in Tables : LastUsed(t) \in 0..Notes
      /\ \A t \in Tables : \A m \in In(t) : row[m] \in 1..Notes
  BY TableTypes
<1>6. MemoryTypeOK'
  <2>1. Cardinality(pass'.batch) <= Batch
    <3>1. IsFiniteSet(Msgs) /\ IsFiniteSet(1..Notes)
      BY FS_Interval DEF Msgs
    <3>2. IsFiniteSet(pass.batch)
      <4>. DEFINE g == [d \in pass.batch |-> <<d.m, d.row>>]
      <4>1. IsFiniteSet(Msgs \X (1..Notes))
        BY <3>1, FS_Product
      <4>2. \A d, e \in [m : Msgs, row : 1..Notes] : <<d.m, d.row>> = <<e.m, e.row>> => d = e
        OBVIOUS
      <4>3. pass.batch \subseteq [m : Msgs, row : 1..Notes]
        BY <1>1 DEF PassType
      <4>4. g \in Injection(pass.batch, Msgs \X (1..Notes))
        BY <4>2, <4>3 DEF Injection, IsInjective
      <4>. QED BY <4>1, <4>4, FS_Injection
    <3>3. Cardinality(pass'.batch) <= Cardinality(pass.batch) /\ IsFiniteSet(pass'.batch)
      BY <1>2, <3>2, FS_Subset
    <3>4. Cardinality(pass.batch) <= Batch
      BY <1>1 DEF MemoryTypeOK
    <3>. QED BY <3>2, <3>3, <3>4, FS_CardinalityType
  <2>2. pass'.batch \subseteq [m : Msgs, row : 1..Notes] /\ pass'.top \in 0..Notes
    BY <1>1, <1>2, <1>3 DEF PassType
  <2>3. washed' \subseteq Msgs
    BY <1>1, <1>2 DEF MemoryTypeOK, d0
  <2>. QED BY <1>1, <1>2, <1>5, <2>1, <2>2, <2>3 DEF MemoryTypeOK
<1>7. MarkInv'
  <2>1. \A d \in pass.batch : d.row <= LastUsed(pass.source)
    BY <1>1 DEF MarkInv
  <2>2. LastUsed(pass.source)' = LastUsed(pass.source)
    BY <1>2, <1>4 DEF LastUsed
  <2>. QED BY <1>1, <1>2, <1>3, <1>4, <2>1, <2>2 DEF MarkInv
<1>8. BatchInv'
  <2>1. \A d \in pass'.batch : d \in pass.batch /\ d.row > d0.row
    BY <1>1, <1>2, <1>5 DEF BatchInv
  <2>. QED BY <1>1, <1>2, <1>3, <2>1 DEF BatchInv
<1>9. CoverInv'
  <2>1. \A t \in Tables : \A m \in In(t)' : row'[m] <= marks'[t] => Covered(m)'
    BY <1>1, <1>4, TablesFacts DEF CoverInv
  <2>2. ASSUME NEW m \in In(pass.source), NEW d \in pass.batch, row[m] <= d.row
        PROVE  Covered(m)' \/ [m |-> m, row |-> row[m]] \in pass'.batch
    <3>1. Covered(m) \/ [m |-> m, row |-> row[m]] \in pass.batch
      BY <1>1, <2>2 DEF CoverInv
    <3>2. CASE [m |-> m, row |-> row[m]] = d0
      <4>1. m = d0.m
        BY <3>2
      <4>. QED BY <1>4, <4>1 DEF Covered
    <3>. QED BY <1>2, <1>4, <3>1, <3>2, TablesFacts
  <2>3. \A m \in In(pass.source) : row[m] <= d0.row => Covered(m)'
    <3>. SUFFICES ASSUME NEW m \in In(pass.source), row[m] <= d0.row PROVE Covered(m)'
      OBVIOUS
    <3>1. Covered(m)' \/ [m |-> m, row |-> row[m]] \in pass'.batch
      BY <1>1, <2>2
    <3>2. [m |-> m, row |-> row[m]] \notin pass'.batch
      <4>. SUFFICES ASSUME NEW e \in pass'.batch, e = [m |-> m, row |-> row[m]] PROVE FALSE
        OBVIOUS
      <4>1. e \in pass.batch /\ e # d0 /\ e.row = row[m]
        BY <1>2
      <4>2. e.row = d0.row
        BY <1>1, <1>2, <1>5, <4>1
      <4>. QED BY <1>1, <4>1, <4>2 DEF BatchInv
    <3>. QED BY <3>1, <3>2
  <2>4. In(pass.source)' = In(pass.source)
    BY <1>2 DEF In
  <2>. QED BY <1>2, <1>3, <1>4, <2>1, <2>2, <2>3, <2>4 DEF CoverInv
<1>10. DueInv'
  BY <1>2 DEF DueInv
<1>. QED BY <1>2, <1>4, <1>6, <1>7, <1>8, <1>9, <1>10 DEF WasherInv

(* The message in hand is taken up or is still being worked on.  Where it  *)
(* is in a table it is beyond the watermark, so that it need not be washed.*)
LEMMA WorkKeeps ==
    ASSUME WasherInv, pass.batch # {}, NEW left \in SUBSET Tiers,
           pass' = [pass EXCEPT !.pc = "route", !.left = left],
           washed' \in {washed, washed \ {Msg.m}},
           UNCHANGED <<place, row, highest, reused, marks, failures>>,
           due' \subseteq Msgs \X Tiers, stored' \subseteq Msgs \X Tiers,
           left # {},
           \A x \in due' : x[1] = Msg.m => x \in stored' \/ x[2] \in left,
           \A x \in due' : x[1] \in washed' => x \in stored'
    PROVE  WasherInv'
<1>. DEFINE d0 == Msg
<1>1. /\ MemoryTypeOK /\ pass \in PassType /\ RowInv /\ MarkInv /\ BatchInv /\ CoverInv
      /\ d0 \in pass.batch
  BY MsgFirst DEF WasherInv
<1>2. /\ pass' \in PassType /\ pass'.pc = "route" /\ pass'.source = pass.source
      /\ pass'.batch = pass.batch /\ pass'.left = left /\ pass'.top = pass.top
  BY <1>1 DEF PassType
<1>3. Msg' = Msg
  BY <1>2 DEF Msg
<1>. HIDE DEF d0
<1>4. /\ \A t : In(t)' = In(t) /\ LastUsed(t)' = LastUsed(t)
      /\ RowInv'
      /\ \A m \in Msgs \ {d0.m} : Covered(m) => Covered(m)'
  BY <1>1, SameRows DEF Covered, d0
<1>5. /\ pass.source \in Tables /\ pass.top \in 0..Notes
      /\ d0.m \in Msgs /\ d0.row \in 1..Notes /\ d0 \in [m : Msgs, row : 1..Notes]
      /\ \A t \in Tables : \A m \in In(t) : row[m] \in 1..Notes
      /\ \A t \in Tables : marks[t] \in 0..Notes
  BY <1>1, TableTypes
<1>6. MemoryTypeOK'
  BY <1>1, <1>2 DEF MemoryTypeOK
<1>7. MarkInv' /\ In(pass.source)' = In(pass.source)
  <2>1. LastUsed(pass.source)' = LastUsed(pass.source) /\ In(pass.source)' = In(pass.source)
    BY <1>2, <1>4 DEF LastUsed, In
  <2>. QED BY <1>1, <1>2, <1>4, <2>1 DEF MarkInv
<1>8. BatchInv'
  BY <1>1, <1>2 DEF BatchInv
<1>9. CoverInv'
  <2>1. /\ d0.row > pass.top /\ d0.row > marks[pass.source]
        /\ \/ place[d0.m] = pass.source /\ row[d0.m] = d0.row
           \/ pass.source = "conversations"
              /\ \/ place[d0.m] = "gone"
                 \/ place[d0.m] = "conversations_archive"
                    /\ row[d0.m] > marks["conversations_archive"]
    BY <1>1 DEF BatchInv
  <2>2. \A t \in Tables : d0.m \in In(t) => row[d0.m] > marks[t]
    BY <2>1, TablesFacts
  <2>3. d0.m \in In(pass.source) => row[d0.m] > pass.top /\ row[d0.m] = d0.row
    BY <1>5, <2>1, TablesFacts
  <2>4. d0.m \in In(pass.source) => [m |-> d0.m, row |-> row[d0.m]] = d0
    BY <1>5, <2>3
  <2>5. \A t \in Tables : \A m \in In(t) : row[m] <= marks[t] => Covered(m)'
    <3>. SUFFICES ASSUME NEW t \in Tables, NEW m \in In(t), row[m] <= marks[t] PROVE Covered(m)'
      OBVIOUS
    <3>1. m # d0.m
      BY <1>5, <2>2
    <3>. QED BY <1>1, <1>4, <3>1, TablesFacts DEF CoverInv
  <2>6. \A m \in In(pass.source) : row[m] <= pass.top => Covered(m)'
    <3>. SUFFICES ASSUME NEW m \in In(pass.source), row[m] <= pass.top PROVE Covered(m)'
      OBVIOUS
    <3>1. m # d0.m
      BY <1>5, <2>3
    <3>. QED BY <1>1, <1>4, <3>1, TablesFacts DEF CoverInv
  <2>7. \A m \in In(pass.source), d \in pass.batch :
          row[m] <= d.row => Covered(m)' \/ [m |-> m, row |-> row[m]] \in pass.batch
    <3>. SUFFICES ASSUME NEW m \in In(pass.source), NEW d \in pass.batch, row[m] <= d.row
                  PROVE  Covered(m)' \/ [m |-> m, row |-> row[m]] \in pass.batch
      OBVIOUS
    <3>1. CASE m = d0.m
      BY <1>1, <2>4, <3>1
    <3>2. CASE m # d0.m
      BY <1>1, <1>4, <3>2, TablesFacts DEF CoverInv
    <3>. QED BY <3>1, <3>2
  <2>. QED BY <1>2, <1>4, <1>7, <2>5, <2>6, <2>7 DEF CoverInv
<1>10. DueInv'
  BY <1>2, <1>3 DEF DueInv
<1>. QED BY <1>2, <1>4, <1>6, <1>7, <1>8, <1>9, <1>10 DEF WasherInv

LEMMA LeftKeeps ==
    ASSUME WasherInv, LlmFails
    PROVE  WasherInv'
<1>1. /\ MemoryTypeOK /\ pass \in PassType /\ RowInv /\ MarkInv /\ CoverInv /\ DueInv
      /\ pass.pc = "work"
      /\ pass' = [pass EXCEPT !.batch = {}] /\ failures' \in 0..MaxFailures
      /\ UNCHANGED <<place, row, highest, reused, marks, due, stored, washed>>
  BY DEF WasherInv, LlmFails, Working, MemoryTypeOK
<1>2. /\ pass' \in PassType /\ pass'.pc = "work" /\ pass'.source = pass.source
      /\ pass'.batch = {} /\ pass'.left = pass.left /\ pass'.top = pass.top
  BY <1>1 DEF PassType
<1>3. /\ \A t : In(t)' = In(t) /\ LastUsed(t)' = LastUsed(t)
      /\ RowInv' /\ \A m \in Msgs : Covered(m)' = Covered(m)
  BY <1>1, SameRows DEF Covered
<1>4. /\ In(pass.source)' = In(pass.source)
      /\ LastUsed(pass.source)' = LastUsed(pass.source)
  BY <1>2, <1>3 DEF In, LastUsed
<1>5. MemoryTypeOK'
  <2>1. Cardinality({}) <= Batch
    BY FS_EmptySet
  <2>. QED BY <1>1, <1>2, <2>1 DEF MemoryTypeOK
<1>6. MarkInv' /\ BatchInv' /\ DueInv'
  BY <1>1, <1>2, <1>3, <1>4 DEF MarkInv, BatchInv, DueInv
<1>7. CoverInv'
  BY <1>1, <1>2, <1>3, <1>4, TablesFacts DEF CoverInv
<1>. QED BY <1>2, <1>3, <1>5, <1>6, <1>7 DEF WasherInv

LEMMA SaveMarkKeeps ==
    ASSUME WasherInv, SaveMark
    PROVE  WasherInv'
<1>1. /\ marks' = [marks EXCEPT ![pass.source] = IF pass.top > @ THEN pass.top ELSE @]
      /\ Fresh(pass')
      /\ UNCHANGED <<place, row, highest, reused, due, stored, washed, failures>>
  BY FreshPasses DEF SaveMark
<1>2. /\ marks \in [Tables -> 0..Notes] /\ failures \in 0..MaxFailures
      /\ MarkInv /\ CoverInv /\ pass.source \in Tables /\ pass.top \in 0..Notes
  BY TableTypes DEF WasherInv, MemoryTypeOK
<1>3. /\ marks' \in [Tables -> 0..Notes]
      /\ \A t \in Tables : marks'[t] = marks[t] \/ (t = pass.source /\ marks'[t] = pass.top)
  BY <1>1, <1>2
<1>4. \A t \in Tables : marks'[t] <= LastUsed(t)
  BY <1>2, <1>3 DEF MarkInv
<1>5. \A t \in Tables : \A m \in In(t) : row[m] <= marks'[t] => Covered(m)
  BY <1>2, <1>3 DEF CoverInv
<1>. QED BY <1>1, <1>2, <1>3, <1>4, <1>5, FreshKeeps

LEMMA PreFilterKeeps ==
    ASSUME WasherInv, PreFilter
    PROVE  WasherInv'
<1>1. MemoryTypeOK /\ DueInv
  BY DEF WasherInv
<1>2. \A x \in due' : x[1] \in washed' => x \in stored'
  BY <1>1 DEF PreFilter, DueInv
<1>. QED BY <1>1, <1>2, PassedKeeps DEF PreFilter, Working, MemoryTypeOK

LEMMA AnswerKeeps ==
    ASSUME WasherInv, LlmAnswers
    PROVE  WasherInv'
<1>1. MemoryTypeOK /\ DueInv /\ pass \in PassType /\ pass.batch # {}
  BY DEF WasherInv, LlmAnswers, Working
<1>2. Msg.m \in Msgs
  BY <1>1, PassedFacts
<1>3. PICK tiers \in SUBSET Tiers :
        /\ due' = {d \in due : d[1] # Msg.m} \cup ({Msg.m} \X tiers)
        /\ IF tiers = {}
           THEN pass' = Passed /\ washed' = washed \cup {Msg.m}
           ELSE /\ pass' = [pass EXCEPT !.pc = "route", !.left = tiers]
                /\ washed' = washed \ {Msg.m}
  BY DEF LlmAnswers
<1>4. /\ due' \subseteq Msgs \X Tiers /\ stored' \subseteq Msgs \X Tiers /\ stored' = stored
      /\ UNCHANGED <<place, row, highest, reused, marks, failures>>
  BY <1>1, <1>2, <1>3 DEF LlmAnswers, MemoryTypeOK
<1>5. \A x \in due' : x[1] = Msg.m => x[2] \in tiers
  BY <1>3
<1>6. \A x \in due' : x[1] # Msg.m => x \in due
  BY <1>3
<1>7. CASE tiers = {}
  <2>1. \A x \in due' : x[1] \in washed' => x \in stored'
    BY <1>1, <1>3, <1>4, <1>5, <1>6, <1>7 DEF DueInv
  <2>. QED BY <1>1, <1>3, <1>4, <1>7, <2>1, PassedKeeps
<1>8. CASE tiers # {}
  <2>1. \A x \in due' : x[1] \in washed' => x \in stored'
    BY <1>1, <1>3, <1>4, <1>6, <1>8 DEF DueInv
  <2>2. \A x \in due' : x[1] = Msg.m => x \in stored' \/ x[2] \in tiers
    BY <1>5
  <2>. QED BY <1>1, <1>3, <1>4, <1>8, <2>1, <2>2, WorkKeeps
<1>. QED BY <1>7, <1>8

LEMMA RouteKeeps ==
    ASSUME WasherInv, Route
    PROVE  WasherInv'
<1>1. /\ MemoryTypeOK /\ DueInv /\ pass \in PassType /\ pass.pc = "route"
      /\ pass.batch # {} /\ pass.left \subseteq Tiers
      /\ \A x \in due : x[1] = Msg.m => x \in stored \/ x[2] \in pass.left
  BY DEF WasherInv, Route, DueInv, PassType
<1>2. Msg.m \in Msgs
  BY <1>1, PassedFacts
<1>3. PICK t \in pass.left :
        /\ stored' = stored \cup {<<Msg.m, t>>}
        /\ IF pass.left = {t}
           THEN pass' = Passed /\ washed' = washed \cup {Msg.m}
           ELSE pass' = [pass EXCEPT !.left = @ \ {t}] /\ UNCHANGED washed
  BY DEF Route
<1>4. /\ due' \subseteq Msgs \X Tiers /\ stored' \subseteq Msgs \X Tiers /\ due' = due
      /\ UNCHANGED <<place, row, highest, reused, marks, failures>>
  BY <1>1, <1>2, <1>3 DEF Route, MemoryTypeOK
<1>5. \A x \in due : x[1] = Msg.m => x \in stored' \/ x[2] \in pass.left \ {t}
  <2>. SUFFICES ASSUME NEW x \in due, x[1] = Msg.m, x \notin stored, x[2] = t PROVE x \in stored'
    BY <1>1, <1>3
  <2>1. x = <<Msg.m, t>>
    BY <1>1 DEF MemoryTypeOK
  <2>. QED BY <1>3, <2>1
<1>6. \A x \in due : x[1] \in washed => x \in stored'
  BY <1>1, <1>3 DEF DueInv
<1>7. CASE pass.left = {t}
  <2>1. \A x \in due' : x[1] \in washed' => x \in stored'
    BY <1>3, <1>4, <1>5, <1>6, <1>7
  <2>. QED BY <1>1, <1>3, <1>4, <1>7, <2>1, PassedKeeps
<1>8. CASE pass.left # {t}
  <2>1. pass' = [pass EXCEPT !.pc = "route", !.left = pass.left \ {t}]
    BY <1>1, <1>3, <1>8 DEF PassType
  <2>2. pass.left \ {t} \in SUBSET Tiers /\ pass.left \ {t} # {}
    BY <1>1, <1>8
  <2>. QED BY <1>1, <1>3, <1>4, <1>5, <1>6, <1>8, <2>1, <2>2, WorkKeeps
<1>. QED BY <1>7, <1>8

-----------------------------------------------------------------------------
LEMMA WasherInvInit == MemoryInit => WasherInv
<1>. SUFFICES ASSUME MemoryInit PROVE WasherInv
  OBVIOUS
<1>. USE TablesFacts
<1>1. /\ pass \in PassType /\ pass.pc = "off" /\ pass.batch = {} /\ pass.top = 0
      /\ pass.source \in Tables /\ pass.left = {}
  BY FreshPasses DEF MemoryInit, Fresh, NoPass, PassType
<1>2. \A t \in Tables : In(t) = {}
  BY DEF MemoryInit
<1>3. MemoryTypeOK
  <2>1. Cardinality({}) <= Batch
    BY FS_EmptySet
  <2>. QED BY <1>1, <2>1 DEF MemoryTypeOK, MemoryInit
<1>4. LastRow("conversations_archive") \in 0..Notes
  BY <1>3, LastRowFacts DEF MemoryTypeOK, RowsBounded
<1>5. MarkInv
  BY <1>1, <1>4 DEF MarkInv, LastUsed, MemoryInit
<1>6. RowInv /\ BatchInv /\ CoverInv /\ DueInv
  BY <1>1, <1>2 DEF RowInv, BatchInv, CoverInv, DueInv, MemoryInit
<1>. QED BY <1>1, <1>3, <1>5, <1>6 DEF WasherInv

LEMMA WasherInvNext == WasherInv /\ [MemoryNext]_memoryVars => WasherInv'
<1>. SUFFICES ASSUME WasherInv, [MemoryNext]_memoryVars PROVE WasherInv'
  OBVIOUS
<1>1. ASSUME NEW m \in Msgs, Save(m) PROVE WasherInv'
  BY <1>1, SaveKeeps
<1>2. ASSUME NEW m \in Msgs, ArchiveOld(m) PROVE WasherInv'
  BY <1>2, ArchiveKeeps
<1>3. ASSUME NEW thread \in SUBSET In("conversations"), ClearThread(thread) PROVE WasherInv'
  BY <1>3, ClearKeeps
<1>4. CASE StartPass
  BY <1>4, OnlyPass, FreshPasses DEF StartPass, WasherInv, MemoryTypeOK
<1>5. CASE Fetch
  BY <1>5, FetchKeeps
<1>6. CASE PreFilter
  BY <1>6, PreFilterKeeps
<1>7. CASE LlmAnswers
  BY <1>7, AnswerKeeps
<1>8. CASE Route
  BY <1>8, RouteKeeps
<1>9. CASE SaveMark
  BY <1>9, SaveMarkKeeps
<1>10. CASE LlmFails
  BY <1>10, LeftKeeps
<1>11. CASE PassDies
  BY <1>11, OnlyPass, FreshPasses DEF PassDies, WasherInv, MemoryTypeOK
<1>12. CASE UNCHANGED memoryVars
  <2>1. In("conversations")' = In("conversations") /\ \A t : In(t)' = In(t)
    BY <1>12 DEF memoryVars, In
  <2>2. LastRow("conversations_archive")' = LastRow("conversations_archive")
    BY <1>12, <2>1 DEF memoryVars, LastRow
  <2>3. Msg' = Msg
    BY <1>12 DEF memoryVars, Msg
  <2>. QED BY <1>12, <2>1, <2>2, <2>3
         DEF memoryVars, WasherInv, MemoryTypeOK, RowInv, MarkInv, LastUsed, BatchInv,
             CoverInv, Covered, DueInv
<1>. QED BY <1>1, <1>2, <1>3, <1>4, <1>5, <1>6, <1>7, <1>8, <1>9, <1>10, <1>11, <1>12
       DEF MemoryNext, WasherStep

LEMMA WasherInvAlways == MemoryInit /\ [][MemoryNext]_memoryVars => []WasherInv
BY WasherInvInit, WasherInvNext, PTL

LEMMA WasherInvSound == WasherInv => MemoryTypeOK /\ WatermarkSound
<1>. SUFFICES ASSUME WasherInv PROVE WatermarkSound
  BY DEF WasherInv
<1>1. CoverInv /\ DueInv
  BY DEF WasherInv
<1>2. \A t \in Tables : \A m \in In(t) : row[m] <= marks[t] => Covered(m)
  BY <1>1 DEF CoverInv
<1>3. \A m \in In("conversations_archive") : place[m] = "conversations_archive"
  BY DEF In
<1>. QED BY <1>1, <1>2, <1>3 DEF WatermarkSound, DueInv, Covered, Tables

(* The washer and the tables it reads have their types: a rowid never goes *)
(* above the number of messages, nor does a watermark, and a batch is no   *)
(* larger than its limit (washer.py:189-218, persistence/db.py:539-554).   *)
THEOREM MemoryTypes == MemorySpec => []MemoryTypeOK
BY WasherInvSound, WasherInvAlways, PTL DEF MemorySpec

(* What a watermark covers is done, for any number of messages, any batch  *)
(* size and any way in which passes die and messages are archived, cleared *)
(* or saved meanwhile (washer.py:303-394).                                 *)
THEOREM WatermarkCorrect == MemorySpec => []WatermarkSound
BY WasherInvSound, WasherInvAlways, PTL DEF MemorySpec
=============================================================================
