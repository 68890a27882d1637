--------------------------- MODULE MCPolicyEngine ---------------------------
(* Small instances of the policy engine for TLC. *)
EXTENDS PolicyEngine

CONSTANTS t1, t2, o1, w1, cap, hold

OneProcess == [t \in Requests \cup Owners |-> w1]

\* A day cap, and a rule that holds every purchase at this hour.
Kinds == [r \in Rules |-> IF r = cap THEN "daycap" ELSE "hold"]

\* Two hours a day, and local time one hour ahead.
UtcDays == [h \in 0..MaxHour |-> h \div 2]
LocalDays == [h \in 0..MaxHour |-> (h + 1) \div 2]
=============================================================================
