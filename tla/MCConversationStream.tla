----------------------- MODULE MCConversationStream -------------------------
(* Instances of ConversationStream for TLC.                                  *)
EXTENDS ConversationStream
=============================================================================
