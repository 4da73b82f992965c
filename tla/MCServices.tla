----------------------------- MODULE MCServices -----------------------------
(***************************************************************************)
(* Five programs that share no variable, checked in one run: `part` says   *)
(* which of them is at work, and the others stay in one initial state.     *)
(***************************************************************************)
EXTENDS Conversation, DiscordBridge, KookBridge, MemoryWasher, WikiStore

VARIABLE part

servicesVars == <<part, conversationVars, bridgeVars, kookVars, memoryVars, wikiVars>>

(* Posts 1 and 3 of the KOOK channel are one handoff, sent twice. *)
MCTwins == {1, 3}

ServicesInit ==
    /\ part \in {"conversation", "bridge", "kook", "memory", "pages", "discoveries"}
    /\ ConversationInit
    /\ part # "conversation" =>
         /\ mode = "direct" /\ ~isTask /\ rows["legacy"] = NoRow
         /\ dir = CHOOSE d \in Dirs : TRUE
    /\ BridgeInit
    /\ part # "bridge" => managed
    /\ KookInit
    /\ MemoryInit
    /\ WikiInit

ConversationWorks ==
    /\ part = "conversation"
    /\ ConversationNext
    /\ UNCHANGED <<part, bridgeVars, kookVars, memoryVars, wikiVars>>

BridgeWorks ==
    /\ part = "bridge"
    /\ BridgeNext
    /\ UNCHANGED <<part, conversationVars, kookVars, memoryVars, wikiVars>>

KookWorks ==
    /\ part = "kook"
    /\ KookNext
    /\ UNCHANGED <<part, conversationVars, bridgeVars, memoryVars, wikiVars>>

MemoryWorks ==
    /\ part = "memory"
    /\ MemoryNext
    /\ UNCHANGED <<part, conversationVars, bridgeVars, kookVars, wikiVars>>

(* Pages and discoveries are apart from each other in the store, too. *)
WikiWorks ==
    /\ \/ part = "pages" /\ PageNext
       \/ part = "discoveries" /\ LogNext
    /\ UNCHANGED <<part, conversationVars, bridgeVars, kookVars, memoryVars>>

ServicesNext ==
    \/ ConversationWorks
    \/ BridgeWorks
    \/ KookWorks
    \/ MemoryWorks
    \/ WikiWorks

(* The fairness of the part at work: a washer that is not at work owes no  *)
(* step, and no handler of a bridge that is not at work has one to take.   *)
ServicesSpec ==
    /\ ServicesInit
    /\ [][ServicesNext]_servicesVars
    /\ BridgeFairness
    /\ WF_memoryVars(part = "memory" /\ WasherStep)

-----------------------------------------------------------------------------
(* The state of every part has its type; the ids the KOOK bridge remembers *)
(* and the page of its poll stay within their bounds.                      *)
ServicesTypeOK ==
    /\ ConversationTypeOK
    /\ BridgeTypeOK
    /\ KookTypeOK
    /\ MemoryTypeOK
    /\ WikiTypeOK
=============================================================================
