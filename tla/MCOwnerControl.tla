--------------------------- MODULE MCOwnerControl ---------------------------
(* One process, one thread for the keys and one for other routes, for TLC. *)
EXTENDS OwnerControl

CONSTANTS w1, t1, t2, s1

OneProcess == [t \in Rotators |-> w1]
OneHome == [t \in Callers |-> w1]

\* Either secret of a deployment may be set in its environment; here both are, or none.
MCInit == OwnerInit /\ (passEnv # "unset" <=> fromEnv)

MCSpec == MCInit /\ [][OwnerNext]_ownerVars
=============================================================================
