--------------------------- MODULE MCConversation ---------------------------
(* Small instances of Copilot conversations.                                *)
EXTENDS Conversation

CONSTANTS t1, t2, s1, s2, i1, i2

MCBudgets == {[copies |-> 0, requests |-> 4, reviews |-> FALSE, strays |-> 0, reprices |-> 1],
              [copies |-> 0, requests |-> 3, reviews |-> TRUE, strays |-> 1, reprices |-> 1],
              [copies |-> 1, requests |-> 3, reviews |-> FALSE, strays |-> 0, reprices |-> 1]}
=============================================================================
