---------------------------- MODULE MCConversation ----------------------------
(* Symmetry for checking Conversation.                                     *)
EXTENDS Conversation, TLC

Symmetry ==
  Permutations(Clients) \cup Permutations(Keys) \cup Permutations(Questions)
    \cup Permutations(Values)
=============================================================================
