---------------------------- MODULE ServicesProofs ----------------------------
(* The types of the services in the run that checks them together.          *)
EXTENDS MCServices, ConversationProofs, BridgeProofs, StoreProofs

(* The run begins where the parts begin, and a step of it is a step of one  *)
(* part at most: what is proved of a part alone holds in the run.          *)
LEMMA RunOfParts ==
    ServicesSpec => /\ ConversationSpec /\ BridgeSpec /\ KookSpec /\ WikiSpec
                    /\ MemoryInit /\ [][MemoryNext]_memoryVars
<1>1. ServicesInit => /\ ConversationInit /\ BridgeInit /\ KookInit
                      /\ MemoryInit /\ WikiInit
  BY DEF ServicesInit
<1>2. [ServicesNext]_servicesVars =>
        /\ [ConversationNext]_conversationVars
        /\ [BridgeNext]_bridgeVars
        /\ [KookNext]_kookVars
        /\ [MemoryNext]_memoryVars
        /\ [WikiNext]_wikiVars
  BY DEF ServicesNext, ConversationWorks, BridgeWorks, KookWorks, MemoryWorks, WikiWorks,
         WikiNext, servicesVars
<1>. QED
  BY <1>1, <1>2, PTL
     DEF ServicesSpec, ConversationSpec, BridgeSpec, KookSpec, WikiSpec

(* ServicesTypeOK: the state of each part keeps its type, whichever part is *)
(* at work (bounds of the KOOK window and page, of the washer's batch).    *)
THEOREM ServicesTypes == ServicesSpec => []ServicesTypeOK
<1>1. /\ ConversationTypeOK /\ BridgeTypeOK /\ KookTypeOK /\ MemoryTypeOK /\ WikiTypeOK
      => ServicesTypeOK
  BY DEF ServicesTypeOK
<1>. QED
  BY RunOfParts, <1>1, ConversationTypes, BridgeTypes, KookTypes, WasherInvSound,
     WasherInvAlways, WikiTypes, PTL
=============================================================================
