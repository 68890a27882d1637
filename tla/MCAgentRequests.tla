-------------------------- MODULE MCAgentRequests --------------------------
(* Small instances of signed agent requests for TLC. *)
EXTENDS AgentRequests, TLC

CONSTANTS a1, m1, m2, c1, c2, n1, n2

OneAgent == [m \in Messages |-> a1]

\* Each request has a nonce of its own.
OwnNonces == [m \in Messages |-> IF m = m1 THEN n1 ELSE n2]

CallSymmetry == Permutations(Calls)
=============================================================================
