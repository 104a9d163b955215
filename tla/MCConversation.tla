--------------------------- MODULE MCConversation ----------------------------
(* What one user says to the bot and what the bot keeps of it: a behaviour  *)
(* exercises the way from a message's words to a record, the conversation   *)
(* record, the loan wizard, the search session, the deletion flag beside a  *)
(* short one, the custom categories, or the keyboards and their taps; the   *)
(* rest stays as it is.                                                     *)
EXTENDS BotMenus, Extraction, ConversationEngine, BotDialogs, CustomCategories, TLC

VARIABLE part

Parts == {"words", "conversation", "loans", "search", "deletion", "categories", "menus"}

\* A few versions do for a session beside the deletion flag, and for one that
\* comes after another.
ShortSession == search'.version <= 2
ShortOnceEnded == ended' => ShortSession

BotInit ==
  /\ part \in Parts
  /\ MenusInit /\ ExtractInit /\ ConversationInit /\ DialogsInit
  /\ CategoriesInit /\ (part # "categories" => language = "uz")
  /\ part # "words" => ~ behind

BotNext ==
  /\ UNCHANGED part
  /\ \/ part = "menus" /\ MenusNext /\ UNCHANGED <<conversationVars, dialogVars, categoryVars, extractVars>>
     \/ part = "words" /\ ExtractNext /\ UNCHANGED <<menuVars, conversationVars, dialogVars, categoryVars>>
     \/ part = "conversation" /\ ConversationNext /\ UNCHANGED <<menuVars, dialogVars, categoryVars, extractVars>>
     \/ /\ part = "loans" /\ DialogsNext
        /\ UNCHANGED <<search, ended, awaiting, pending, menuVars, conversationVars, categoryVars, extractVars>>
     \/ /\ part = "search" /\ DialogsNext /\ ShortOnceEnded
        /\ UNCHANGED <<loanRecords, deletionVars, menuVars, conversationVars, categoryVars, extractVars>>
     \/ /\ part = "deletion" /\ DialogsNext /\ ShortSession
        /\ UNCHANGED <<loanRecords, menuVars, conversationVars, categoryVars, extractVars>>
     \/ part = "categories" /\ CategoriesNext /\ UNCHANGED <<menuVars, conversationVars, dialogVars, extractVars>>

BotSpec == BotInit /\ [][BotNext]_<<part, menuVars, conversationVars, dialogVars, categoryVars, extractVars>>

Symmetry == Permutations(Updates) \cup Permutations(Handlers)
=============================================================================
