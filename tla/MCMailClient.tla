---------------------------- MODULE MCMailClient ----------------------------
(* Two threads and a mail for TLC. *)
EXTENDS MailClient, TLC

CONSTANTS t1, t2, letter

\* The mail answers another one.
Kinds == [m \in Mails |-> "reply"]

ThreadSymmetry == Permutations(Threads)
=============================================================================
