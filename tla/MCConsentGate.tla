--------------------------- MODULE MCConsentGate ---------------------------
(* Small instances of the consent gate for TLC. *)
EXTENDS ConsentGate, TLC

CONSTANTS r1, r2, s1, s2, w1, a1

\* One process: every thread is in it, two requests come from one actor or two.
OneWorkerRequests == [r \in Requests |-> w1]
OneWorkerResolvers == [s \in Resolvers |-> w1]
OneActor == [r \in Requests |-> a1]

\* Requests are interchangeable, and so are the resolvers of one process.
GateSymmetry == Permutations(Requests) \cup Permutations(Resolvers)
============================================================================
