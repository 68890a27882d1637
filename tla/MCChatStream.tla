---------------------------- MODULE MCChatStream ----------------------------
(* Small instances of the chat stream for TLC. *)
EXTENDS ChatStream

CONSTANTS h1, h2, h3

\* The agent's answers are of different lengths.
Lengths == [c \in Chats |-> CASE c = h1 -> 4 [] c = h2 -> 1 [] OTHER -> 0]
=============================================================================
