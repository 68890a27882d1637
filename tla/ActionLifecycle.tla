-------------------------- MODULE ActionLifecycle --------------------------
(***************************************************************************)
(* What the consent gate promises about one guarded action, whatever       *)
(* threads, failures and restarts lie in between: it happens at most once; *)
(* a blocked one never happens; a held one happens only while it is held,  *)
(* and a refused or failed one never afterwards.                           *)
(***************************************************************************)
EXTENDS Naturals

CONSTANT Requests

VARIABLES
    stage,   \* how far each requested action has come
    times    \* how often its effect has happened

lifecycleVars == <<stage, times>>

Stages == {"open", "blocked", "held", "refused", "failed", "ran"}

Init ==
    /\ stage = [r \in Requests |-> "open"]
    /\ times = [r \in Requests |-> 0]

Decide(r, from, to) ==
    /\ stage[r] = from
    /\ stage' = [stage EXCEPT ![r] = to]
    /\ UNCHANGED times

\* The rules deny the action.
Block(r) == Decide(r, "open", "blocked")

\* The rules hold it for the owner.
Hold(r) == Decide(r, "open", "held")

\* The owner denies it.
Refuse(r) == Decide(r, "held", "refused")

\* The owner approves it and it cannot be carried out.
Fail(r) == Decide(r, "held", "failed")

\* It happens: at once, or on the owner's approval.
Run(r) ==
    /\ stage[r] \in {"open", "held"}
    /\ stage' = [stage EXCEPT ![r] = "ran"]
    /\ times' = [times EXCEPT ![r] = @ + 1]

Next == \E r \in Requests : Block(r) \/ Hold(r) \/ Refuse(r) \/ Fail(r) \/ Run(r)

Spec == Init /\ [][Next]_lifecycleVars
============================================================================
