------------------------- MODULE ConsentGateProofs -------------------------
(***************************************************************************)
(* Proofs about the consent gate, for any number of requests, resolvers    *)
(* and actors, with storage failures, raising actions and restarts.        *)
(***************************************************************************)
EXTENDS ConsentGate, TLAPS

\* A step of request_action keeps the types.
LEMMA RequestKeepsTypes ==
    ASSUME TypeOK, NEW r \in Requests, RequestStep(r)
    PROVE  TypeOK'
<1> USE DEF TypeOK, owned, asked, answering, records, Go, Decide, RequestPCs
<1>1. CASE ReadAgent(r)
  BY <1>1 DEF ReadAgent, Plans
<1>2. CASE CheckLimits(r)
  BY <1>2 DEF CheckLimits, Verdicts
<1>3. CASE Evaluate(r)
  BY <1>3 DEF Evaluate, Verdicts
<1>4. CASE ReadMode(r)
  <2>1. PlanFor(verdict[r], mode) \in Plans
    BY DEF PlanFor, Plans
  <2>2. pc' \in [Requests -> RequestPCs]
    BY <1>4 DEF ReadMode
  <2>3. plan' \in [Requests -> Plans]
    BY <1>4, <2>1 DEF ReadMode
  <2>4. QED BY <1>4, <2>2, <2>3 DEF ReadMode
<1>5. CASE Execute(r)
  BY <1>5 DEF Execute, Happens, EffectFails
<1>6. CASE LogAttempt(r)
  BY <1>6 DEF LogAttempt, Append, AppendRaises, LoggedStatus, Attempts
<1>7. CASE Park(r)
  BY <1>7 DEF Park, RowStates
<1>8. CASE RaiseEarly(r)
  BY <1>8 DEF RaiseEarly
<1>9. QED
  BY <1>1, <1>2, <1>3, <1>4, <1>5, <1>6, <1>7, <1>8 DEF RequestStep

\* So does a step of resolve.
LEMMA ResolveKeepsTypes ==
    ASSUME TypeOK, NEW s \in Resolvers, Select(s) \/ ServeStep(s)
    PROVE  TypeOK'
<1> USE DEF TypeOK, owned, asked, answering, records, Serve, Continue, Return,
            Close, CloseRaises, UpdateOutcome, UpdateOutcomeRaises,
            ResolverPCs, RowStates, Outcomes
<1>1. CASE Select(s)
  <2>1. PICK r \in Requests, a \in {"approve", "deny"} :
           /\ target' = [target EXCEPT ![s] = r]
           /\ answer' = [answer EXCEPT ![s] = a]
    BY <1>1 DEF Select
  <2>2. target' \in [Resolvers -> Requests \cup {None}]
    BY <2>1
  <2>3. answer' \in [Resolvers -> {"approve", "deny"}]
    BY <2>1
  <2>4. lock' \in [Workers -> Resolvers \cup {None}]
    BY <1>1 DEF Select
  <2>5. QED BY <1>1, <2>2, <2>3, <2>4 DEF Select
<1>2. CASE Claim(s)
  BY <1>2 DEF Claim
<1>3. CASE CloseDenied(s)
  BY <1>3 DEF CloseDenied
<1>4. CASE LogDenied(s)
  BY <1>4 DEF LogDenied
<1>5. CASE Reopen(s)
  BY <1>5 DEF Reopen
<1>6. CASE MarkApproved(s)
  BY <1>6 DEF MarkApproved
<1>7. CASE ExecuteApproved(s)
  BY <1>7 DEF ExecuteApproved, Happens, EffectFails
<1>8. CASE CloseExecuted(s)
  BY <1>8 DEF CloseExecuted
<1>9. CASE LogExecuted(s)
  BY <1>9 DEF LogExecuted
<1>10. CASE CloseError(s)
  BY <1>10 DEF CloseError
<1>11. CASE LogError(s)
  BY <1>11 DEF LogError
<1>12. QED
  BY <1>1, <1>2, <1>3, <1>4, <1>5, <1>6, <1>7, <1>8, <1>9, <1>10, <1>11 DEF ServeStep

LEMMA TypesAreInductive == TypeOK /\ [Next]_vars => TypeOK'
<1> SUFFICES ASSUME TypeOK, [Next]_vars PROVE TypeOK'
  OBVIOUS
<1> USE DEF TypeOK, owned, asked, answering, records, gateState
<1>1. ASSUME NEW r \in Requests, RequestStep(r) PROVE TypeOK'
  BY <1>1, RequestKeepsTypes DEF TypeOK
<1>2. ASSUME NEW s \in Resolvers, Select(s) \/ ServeStep(s) PROVE TypeOK'
  BY <1>2, ResolveKeepsTypes DEF TypeOK
<1>3. CASE ChangeRules
  BY <1>3 DEF ChangeRules
<1>4. CASE SetMode
  BY <1>4 DEF SetMode
<1>5. CASE SetAgentStatus
  BY <1>5 DEF SetAgentStatus
<1>6. ASSUME NEW w \in Workers, SetExecutor(w) PROVE TypeOK'
  BY <1>6 DEF SetExecutor
<1>7. ASSUME NEW w \in Workers, Restart(w) PROVE TypeOK'
  BY <1>7 DEF Restart, RequestPCs, ResolverPCs
<1>8. CASE UNCHANGED vars
  BY <1>8 DEF vars
<1>9. QED
  BY <1>1, <1>2, <1>3, <1>4, <1>5, <1>6, <1>7, <1>8 DEF Next, OwnerStep

\* Every variable keeps its type, whatever fails (consent.py:218-347).
THEOREM TypeCorrect == Spec => []TypeOK
<1>1. Init => TypeOK
  BY DEF Init, TypeOK, Verdicts, RequestPCs, ResolverPCs, Plans, RowStates,
         Attempts, Outcomes
<1>2. QED
  BY <1>1, TypesAreInductive, PTL DEF Spec

----------------------------------------------------------------------------
(* What holds in any number of processes *)

\* Where a request is tells how its plan came about.
PlanFollowsPC(r) ==
    /\ pc[r] \in {"idle", "limits", "evaluate", "mode"} => plan[r] = "none"
    /\ pc[r] = "run" => plan[r] \in {"allowed", "observed"}
    /\ pc[r] = "park" => plan[r] = "held" /\ "pending" \in attempts[r]
    /\ pc[r] \in {"log", "park"} => appr[r] = "none"

\* A resolver works on a parked approval, and executes an approved one only.
ServesParked(s) ==
    /\ rpc[s] # "idle" => target[s] \in Requests /\ appr[target[s]] # "none"
    /\ rpc[s] = "execute" => owner[target[s]]

GateInv ==
    /\ TypeOK
    /\ \A r \in Requests : PlanFollowsPC(r)
    /\ \A s \in Resolvers : ServesParked(s)
    /\ EffectAuthorised
    /\ ApprovalIsLogged
    /\ OnlyHoldsArePending

LEMMA RequestKeepsGateInv ==
    ASSUME GateInv, NEW r \in Requests, RequestStep(r)
    PROVE  GateInv'
<1> TypeOK'
  BY RequestKeepsTypes DEF GateInv
<1> USE DEF GateInv, TypeOK, PlanFollowsPC, ServesParked, EffectAuthorised,
            ApprovalIsLogged, OnlyHoldsArePending,
            owned, asked, answering, records, Go, Decide
<1>1. CASE ReadAgent(r)
  BY <1>1 DEF ReadAgent
<1>2. CASE CheckLimits(r)
  BY <1>2 DEF CheckLimits
<1>3. CASE Evaluate(r)
  BY <1>3 DEF Evaluate
<1>4. CASE ReadMode(r)
  BY <1>4 DEF ReadMode
<1>5. CASE Execute(r)
  BY <1>5 DEF Execute, Happens, EffectFails
<1>6. CASE LogAttempt(r)
  BY <1>6 DEF LogAttempt, Append, AppendRaises, LoggedStatus
<1>7. CASE Park(r)
  BY <1>7 DEF Park
<1>8. CASE RaiseEarly(r)
  BY <1>8 DEF RaiseEarly
<1>9. QED
  BY <1>1, <1>2, <1>3, <1>4, <1>5, <1>6, <1>7, <1>8 DEF RequestStep

LEMMA ResolveKeepsGateInv ==
    ASSUME GateInv, NEW s \in Resolvers, Select(s) \/ ServeStep(s)
    PROVE  GateInv'
<1> TypeOK'
  BY ResolveKeepsTypes DEF GateInv
<1> USE DEF GateInv, TypeOK, PlanFollowsPC, ServesParked, EffectAuthorised,
            ApprovalIsLogged, OnlyHoldsArePending,
            owned, asked, answering, records, Serve, Continue, Return,
            Close, CloseRaises, UpdateOutcome, UpdateOutcomeRaises
<1>1. CASE Select(s)
  <2>1. PICK r \in Requests : Answerable(r) /\ target' = [target EXCEPT ![s] = r]
    BY <1>1 DEF Select
  <2>2. QED BY <1>1, <2>1 DEF Select, Answerable
<1>2. CASE Claim(s)
  BY <1>2 DEF Claim
<1>3. CASE CloseDenied(s)
  BY <1>3 DEF CloseDenied
<1>4. CASE LogDenied(s)
  BY <1>4 DEF LogDenied
<1>5. CASE Reopen(s)
  BY <1>5 DEF Reopen
<1>6. CASE MarkApproved(s)
  BY <1>6 DEF MarkApproved
<1>7. CASE ExecuteApproved(s)
  BY <1>7 DEF ExecuteApproved, Happens, EffectFails
<1>8. CASE CloseExecuted(s)
  BY <1>8 DEF CloseExecuted
<1>9. CASE LogExecuted(s)
  BY <1>9 DEF LogExecuted
<1>10. CASE CloseError(s)
  BY <1>10 DEF CloseError
<1>11. CASE LogError(s)
  BY <1>11 DEF LogError
<1>12. QED
  BY <1>1, <1>2, <1>3, <1>4, <1>5, <1>6, <1>7, <1>8, <1>9, <1>10, <1>11 DEF ServeStep

LEMMA GateInvIsInductive == GateInv /\ [Next]_vars => GateInv'
<1> SUFFICES ASSUME GateInv, [Next]_vars PROVE GateInv'
  OBVIOUS
<1> TypeOK'
  BY TypesAreInductive DEF GateInv
<1>1. ASSUME NEW r \in Requests, RequestStep(r) PROVE GateInv'
  BY <1>1, RequestKeepsGateInv
<1>2. ASSUME NEW s \in Resolvers, Select(s) \/ ServeStep(s) PROVE GateInv'
  BY <1>2, ResolveKeepsGateInv
<1> USE DEF GateInv, PlanFollowsPC, ServesParked, EffectAuthorised,
            ApprovalIsLogged, OnlyHoldsArePending,
            owned, asked, answering, records, gateState
<1>3. CASE OwnerStep
  BY <1>3 DEF OwnerStep, ChangeRules, SetMode, SetAgentStatus
<1>4. ASSUME NEW w \in Workers, SetExecutor(w) PROVE GateInv'
  BY <1>4 DEF SetExecutor
<1>5. ASSUME NEW w \in Workers, Restart(w) PROVE GateInv'
  BY <1>5 DEF Restart, TypeOK
<1>6. CASE UNCHANGED vars
  BY <1>6 DEF vars
<1>7. QED
  BY <1>1, <1>2, <1>3, <1>4, <1>5, <1>6 DEF Next

LEMMA InitGateInv == Init => GateInv
<1> SUFFICES ASSUME Init PROVE GateInv
  OBVIOUS
<1>1. TypeOK
  BY DEF Init, TypeOK, Verdicts, RequestPCs, ResolverPCs, Plans, RowStates,
         Attempts, Outcomes
<1>2. QED
  BY <1>1 DEF Init, GateInv, PlanFollowsPC, ServesParked, EffectAuthorised,
              ApprovalIsLogged, OnlyHoldsArePending

LEMMA GateInvHolds == Spec => []GateInv
  BY InitGateInv, GateInvIsInductive, PTL DEF Spec

\* No effect without its reason, in any number of processes (consent.py:261-292,
\* 325-331): the rules, a mode that is not enforced, or the owner's durable approval.
THEOREM EffectsAreAuthorised == Spec => []EffectAuthorised
<1>1. GateInv => EffectAuthorised
  BY DEF GateInv
<1>2. QED BY <1>1, GateInvHolds, PTL

\* Every approval in the queue has its ledger entry, whatever fails between the two
\* transactions (consent.py:274-284).
THEOREM ApprovalsAreLogged == Spec => []ApprovalIsLogged
<1>1. GateInv => ApprovalIsLogged
  BY DEF GateInv
<1>2. QED BY <1>1, GateInvHolds, PTL

\* Only the hold of an enforced policy parks an approval (consent.py:261-286).
THEOREM OnlyHoldsAreParked == Spec => []OnlyHoldsArePending
<1>1. GateInv => OnlyHoldsArePending
  BY DEF GateInv
<1>2. QED BY <1>1, GateInvHolds, PTL

----------------------------------------------------------------------------
(* What holds when one process serves the database *)

OneWorker == \A v, w \in Workers : v = w

\* What the row and the effect of an approval are while a resolver works on it.
RowFollowsPC(s) ==
    LET r == target[s] IN
    /\ rpc[s] = "claim" => lock[ResolverWorker[s]] = s /\ appr[r] = "pending"
    /\ rpc[s] \in {"claimed", "execute", "close"} => appr[r] = "resolving"
    /\ rpc[s] = "logDenied" => appr[r] = "denied"
    /\ rpc[s] = "logExecuted" => appr[r] = "executed"
    /\ rpc[s] = "closeError" => appr[r] \in {"resolving", "executed"}
    /\ rpc[s] = "logError" => appr[r] = "error"
    /\ rpc[s] \in {"claimed", "execute"} => effects[r] = 0
    /\ rpc[s] \in {"close", "logExecuted"} => effects[r] > 0

\* When the effect of a request can have happened.
EffectFollowsPlan(r) ==
    /\ plan[r] \in {"none", "blocked"} => effects[r] = 0
    /\ pc[r] = "run" => effects[r] = 0
    /\ pc[r] = "log" => plan[r] # "none"
    /\ pc[r] = "log" /\ plan[r] \in {"allowed", "observed"} => effects[r] > 0
    /\ plan[r] = "held" /\ appr[r] \in {"none", "pending", "denied"} => effects[r] = 0
    /\ appr[r] = "executed" => effects[r] > 0

\* What an entry in the ledger vouches for.
RecordFollowsEffect(r) ==
    /\ "executed" \in attempts[r] \cup outcomes[r] => effects[r] > 0
    /\ "blocked" \in attempts[r] => plan[r] = "blocked"
    /\ "denied" \in outcomes[r] => appr[r] = "denied"

OneWorkerInv ==
    /\ GateInv
    /\ \A s \in Resolvers : RowFollowsPC(s)
    /\ OneResolverPerApproval
    /\ \A r \in Requests : EffectFollowsPlan(r)
    /\ \A r \in Requests : RecordFollowsEffect(r)
    /\ EffectAtMostOnce

LEMMA RequestKeepsOneWorkerInv ==
    ASSUME OneWorkerInv, NEW r \in Requests, RequestStep(r)
    PROVE  OneWorkerInv'
<1> GateInv'
  BY RequestKeepsGateInv DEF OneWorkerInv
<1> USE DEF OneWorkerInv, GateInv, TypeOK, PlanFollowsPC, ServesParked,
            ApprovalIsLogged, OnlyHoldsArePending,
            RowFollowsPC, OneResolverPerApproval, EffectFollowsPlan,
            RecordFollowsEffect, EffectAtMostOnce,
            owned, asked, answering, records, Go, Decide
<1>1. CASE ReadAgent(r)
  BY <1>1 DEF ReadAgent
<1>2. CASE CheckLimits(r)
  BY <1>2 DEF CheckLimits
<1>3. CASE Evaluate(r)
  BY <1>3 DEF Evaluate
<1>4. CASE ReadMode(r)
  BY <1>4 DEF ReadMode, PlanFor
<1>5. CASE Execute(r)
  BY <1>5 DEF Execute, Happens, EffectFails
<1>6. CASE LogAttempt(r)
  BY <1>6 DEF LogAttempt, Append, AppendRaises, LoggedStatus, Plans
<1>7. CASE Park(r)
  BY <1>7 DEF Park
<1>8. CASE RaiseEarly(r)
  BY <1>8 DEF RaiseEarly
<1>9. QED
  BY <1>1, <1>2, <1>3, <1>4, <1>5, <1>6, <1>7, <1>8 DEF RequestStep

LEMMA ResolveKeepsOneWorkerInv ==
    ASSUME OneWorker, OneWorkerInv, NEW s \in Resolvers, Select(s) \/ ServeStep(s)
    PROVE  OneWorkerInv'
<1> GateInv'
  BY ResolveKeepsGateInv DEF OneWorkerInv
<1> \A t \in Resolvers : ResolverWorker[t] = ResolverWorker[s]
                         /\ ResolverWorker[s] \in Workers
  BY GateAssumption DEF OneWorker
<1> USE DEF OneWorkerInv, GateInv, TypeOK, PlanFollowsPC, ServesParked,
            ApprovalIsLogged, OnlyHoldsArePending,
            RowFollowsPC, OneResolverPerApproval, EffectFollowsPlan,
            RecordFollowsEffect, EffectAtMostOnce,
            owned, asked, answering, records, Serve, Continue, Return,
            Close, CloseRaises, UpdateOutcome, UpdateOutcomeRaises
<1>1. CASE Select(s)
  <2>1. PICK r \in Requests : Answerable(r) /\ target' = [target EXCEPT ![s] = r]
    BY <1>1 DEF Select
  <2>2. \A t \in Resolvers : rpc[t] # "idle" => target[t] # r
    <3>1. \A t \in Resolvers : rpc[t] # "claim"
      BY <1>1, GateAssumption DEF Select, Unlocked
    <3>2. QED BY <2>1, <3>1 DEF Answerable, ResolverPCs
  <2>3. /\ lock'[ResolverWorker[s]] = s
        /\ rpc' = [rpc EXCEPT ![s] = "claim"]
        /\ UNCHANGED <<pc, verdict, plan, appr, owner, effects, attempts, outcomes>>
    BY <1>1 DEF Select
  <2>4. \A t \in Resolvers : RowFollowsPC(t)'
    <3>1. \A t \in Resolvers : rpc[t] # "claim"
      BY <1>1, GateAssumption DEF Select, Unlocked
    <3>2. QED BY <2>1, <2>3, <3>1 DEF Answerable
  <2>5. OneResolverPerApproval'
    BY <2>1, <2>2, <2>3
  <2>6. QED BY <2>3, <2>4, <2>5
<1>2. CASE Claim(s)
  BY <1>2, GateAssumption DEF Claim
<1>3. CASE CloseDenied(s)
  BY <1>3 DEF CloseDenied
<1>4. CASE LogDenied(s)
  BY <1>4 DEF LogDenied
<1>5. CASE Reopen(s)
  BY <1>5 DEF Reopen
<1>6. CASE MarkApproved(s)
  BY <1>6 DEF MarkApproved
<1>7. CASE ExecuteApproved(s)
  BY <1>7 DEF ExecuteApproved, Happens, EffectFails
<1>8. CASE CloseExecuted(s)
  BY <1>8 DEF CloseExecuted
<1>9. CASE LogExecuted(s)
  <2>1. CASE UNCHANGED outcomes
    BY <1>9, <2>1 DEF LogExecuted
  <2>2. CASE outcomes' = [outcomes EXCEPT ![target[s]] = @ \cup {"executed"}]
    <3>1. \A r \in Requests : RecordFollowsEffect(r)'
      BY <1>9, <2>2 DEF LogExecuted
    <3>2. (\A t \in Resolvers : RowFollowsPC(t)') /\ OneResolverPerApproval'
      <4>1. CASE Return(s)
        BY <1>9, <4>1 DEF LogExecuted
      <4>2. CASE Continue(s, "closeError")
        BY <1>9, <4>2 DEF LogExecuted
      <4>3. QED BY <1>9, <4>1, <4>2 DEF LogExecuted
    <3>3. (\A r \in Requests : EffectFollowsPlan(r)') /\ EffectAtMostOnce'
      BY <1>9 DEF LogExecuted
    <3>4. QED BY <3>1, <3>2, <3>3 DEF OneWorkerInv
  <2>3. QED BY <1>9, <2>1, <2>2 DEF LogExecuted
<1>10. CASE CloseError(s)
  BY <1>10 DEF CloseError
<1>11. CASE LogError(s)
  BY <1>11 DEF LogError
<1>12. QED
  BY <1>1, <1>2, <1>3, <1>4, <1>5, <1>6, <1>7, <1>8, <1>9, <1>10, <1>11 DEF ServeStep

LEMMA OneWorkerInvIsInductive ==
    ASSUME OneWorker
    PROVE  OneWorkerInv /\ [Next]_vars => OneWorkerInv'
<1> SUFFICES ASSUME OneWorkerInv, [Next]_vars PROVE OneWorkerInv'
  OBVIOUS
<1> GateInv'
  BY GateInvIsInductive DEF OneWorkerInv
<1>1. ASSUME NEW r \in Requests, RequestStep(r) PROVE OneWorkerInv'
  BY <1>1, RequestKeepsOneWorkerInv
<1>2. ASSUME NEW s \in Resolvers, Select(s) \/ ServeStep(s) PROVE OneWorkerInv'
  BY <1>2, ResolveKeepsOneWorkerInv
<1> USE DEF OneWorkerInv, RowFollowsPC, OneResolverPerApproval, EffectFollowsPlan,
            RecordFollowsEffect, EffectAtMostOnce,
            owned, asked, answering, records, gateState
<1>3. CASE OwnerStep
  BY <1>3 DEF OwnerStep, ChangeRules, SetMode, SetAgentStatus
<1>4. ASSUME NEW w \in Workers, SetExecutor(w) PROVE OneWorkerInv'
  BY <1>4 DEF SetExecutor
<1>5. ASSUME NEW w \in Workers, Restart(w) PROVE OneWorkerInv'
  <2>1. \A s \in Resolvers : ResolverWorker[s] = w
    BY GateAssumption DEF OneWorker
  <2>2. \A s \in Resolvers : rpc'[s] = "idle"
    BY <1>5, <2>1 DEF Restart
  <2>3. QED BY <1>5, <2>2 DEF Restart, GateInv, TypeOK
<1>6. CASE UNCHANGED vars
  BY <1>6 DEF vars
<1>7. QED
  BY <1>1, <1>2, <1>3, <1>4, <1>5, <1>6 DEF Next

LEMMA OneWorkerInvHolds ==
    ASSUME OneWorker
    PROVE  Spec => []OneWorkerInv
<1>1. Init => OneWorkerInv
  <2> SUFFICES ASSUME Init PROVE OneWorkerInv
    OBVIOUS
  <2>1. GateInv
    BY InitGateInv
  <2>2. QED
    BY <2>1 DEF Init, OneWorkerInv, RowFollowsPC, OneResolverPerApproval,
                EffectFollowsPlan, RecordFollowsEffect, EffectAtMostOnce
<1>2. OneWorkerInv /\ [Next]_vars => OneWorkerInv'
  BY OneWorkerInvIsInductive
<1>3. QED
  BY <1>1, <1>2, PTL DEF Spec

\* An action happens at most once, however many calls answer its approval, whatever
\* fails and however often the process restarts (consent.py:303-347).
THEOREM EffectsHappenOnce ==
    ASSUME OneWorker
    PROVE  Spec => []EffectAtMostOnce
<1>1. OneWorkerInv => EffectAtMostOnce
  BY DEF OneWorkerInv
<1>2. QED BY <1>1, OneWorkerInvHolds, PTL

\* At most one call of resolve works on an approval (consent.py:303-311).
THEOREM ResolversAreAlone ==
    ASSUME OneWorker
    PROVE  Spec => []OneResolverPerApproval
<1>1. OneWorkerInv => OneResolverPerApproval
  BY DEF OneWorkerInv
<1>2. QED BY <1>1, OneWorkerInvHolds, PTL

\* What the ledger records as executed happened, and what it records as blocked or
\* denied did not (consent.py:238, 264-290, 318-340).
THEOREM LedgerIsTruthful ==
    ASSUME OneWorker
    PROVE  Spec => []LedgerTruthful
<1>1. OneWorkerInv => LedgerTruthful
  BY DEF OneWorkerInv, GateInv, TypeOK, EffectFollowsPlan, RecordFollowsEffect,
         OnlyHoldsArePending, LedgerTruthful
<1>2. QED BY <1>1, OneWorkerInvHolds, PTL

\* No call, failure or restart takes an answered approval back (consent.py:303-347).
THEOREM AnswersStay ==
    ASSUME OneWorker
    PROVE  Spec => AnswersAreFinal
<1> DEFINE Final == \A r \in Requests :
                       /\ appr[r] \in {"denied", "error"} => appr'[r] = appr[r]
                       /\ appr[r] = "executed" => appr'[r] \in {"executed", "error"}
<1>1. OneWorkerInv /\ [Next]_vars => [Final]_vars
  <2> SUFFICES ASSUME OneWorkerInv, Next PROVE Final
    BY DEF vars
  <2> USE DEF OneWorkerInv, GateInv, TypeOK, ServesParked, RowFollowsPC,
              owned, asked, answering, records
  <2>1. ASSUME NEW r \in Requests, RequestStep(r) PROVE Final
    BY <2>1 DEF RequestStep, ReadAgent, CheckLimits, Evaluate, ReadMode, Execute,
                LogAttempt, Park, RaiseEarly, PlanFollowsPC
  <2>2. ASSUME NEW s \in Resolvers, Select(s) \/ ServeStep(s) PROVE Final
    BY <2>2 DEF Select, ServeStep, Claim, CloseDenied, LogDenied, Reopen, MarkApproved,
                ExecuteApproved, CloseExecuted, LogExecuted, CloseError, LogError,
                Close, CloseRaises
  <2>3. CASE OwnerStep
    BY <2>3 DEF OwnerStep, ChangeRules, SetMode, SetAgentStatus, gateState
  <2>4. ASSUME NEW w \in Workers, SetExecutor(w) \/ Restart(w) PROVE Final
    BY <2>4 DEF SetExecutor, Restart, gateState
  <2>5. QED BY <2>1, <2>2, <2>3, <2>4 DEF Next
<1>2. QED BY <1>1, OneWorkerInvHolds, OneWorkerInvIsInductive, PTL DEF Spec, AnswersAreFinal

----------------------------------------------------------------------------
(* The gate of one process implements ActionLifecycle *)

\* A step of the gate is a step of one action's lifecycle, or none.
StageStep(r) ==
    \/ Stage(r)' = Stage(r) /\ effects'[r] = effects[r]
    \/ /\ Stage(r) = "open" /\ Stage(r)' \in {"blocked", "held"}
       /\ effects'[r] = effects[r]
    \/ /\ Stage(r) = "held" /\ Stage(r)' \in {"refused", "failed"}
       /\ effects'[r] = effects[r]
    \/ /\ Stage(r) \in {"open", "held"} /\ Stage(r)' = "ran"
       /\ effects'[r] = effects[r] + 1

LEMMA StageValues ==
    ASSUME NEW p, NEW row, NEW times \in Nat
    PROVE  /\ times > 0 => StageOf(p, row, times) = "ran"
           /\ times = 0 /\ p = "blocked" => StageOf(p, row, times) = "blocked"
           /\ times = 0 /\ p # "blocked" /\ row = "denied"
                 => StageOf(p, row, times) = "refused"
           /\ times = 0 /\ p # "blocked" /\ row = "error"
                 => StageOf(p, row, times) = "failed"
           /\ times = 0 /\ p # "blocked" /\ row \in {"pending", "resolving"}
                 => StageOf(p, row, times) = "held"
           /\ times = 0 /\ p # "blocked" /\ row \in {"none", "executed"}
                 => StageOf(p, row, times) = "open"
  BY DEF StageOf

LEMMA RequestStepsStage ==
    ASSUME OneWorkerInv, NEW r \in Requests, RequestStep(r)
    PROVE  /\ StageStep(r)
           /\ \A q \in Requests \ {r} : Stage(q)' = Stage(q)
           /\ effects' \in [Requests -> Nat]
           /\ \A q \in Requests \ {r} : effects'[q] = effects[q]
<1> USE DEF OneWorkerInv, GateInv, TypeOK, PlanFollowsPC, OnlyHoldsArePending,
            EffectFollowsPlan, owned, asked, answering, records, Go, Decide
<1>1. CASE ReadAgent(r)
  <2>1. UNCHANGED <<appr, effects>> /\ effects[r] = 0 /\ appr[r] = "none" /\ plan[r] = "none"
    BY <1>1 DEF ReadAgent
  <2>2. plan' \in {plan, [plan EXCEPT ![r] = "blocked"]}
    BY <1>1 DEF ReadAgent
  <2>3. QED BY <2>1, <2>2, StageValues DEF Stage, StageStep
<1>2. CASE CheckLimits(r) \/ Evaluate(r) \/ RaiseEarly(r) \/ LogAttempt(r)
  <2>1. UNCHANGED <<plan, appr, effects>>
    BY <1>2 DEF CheckLimits, Evaluate, RaiseEarly, LogAttempt
  <2>2. QED BY <2>1 DEF Stage, StageStep
<1>3. CASE ReadMode(r)
  <2>1. UNCHANGED <<appr, effects>> /\ effects[r] = 0 /\ appr[r] = "none" /\ plan[r] = "none"
    BY <1>3 DEF ReadMode
  <2>2. \A q \in Requests \ {r} : plan'[q] = plan[q]
    BY <1>3 DEF ReadMode
  <2>3. QED BY <2>1, <2>2, StageValues DEF Stage, StageStep
<1>4. CASE Execute(r)
  <2>1. plan[r] \in {"allowed", "observed"} /\ appr[r] = "none" /\ effects[r] = 0
    BY <1>4 DEF Execute
  <2>2. UNCHANGED <<plan, appr>> /\ (Happens(r) \/ UNCHANGED effects)
    BY <1>4 DEF Execute, EffectFails
  <2>3. QED BY <2>1, <2>2, StageValues DEF Happens, Stage, StageStep
<1>5. CASE Park(r)
  <2>1. UNCHANGED <<plan, effects>> /\ effects[r] = 0 /\ appr[r] = "none" /\ plan[r] = "held"
    BY <1>5 DEF Park
  <2>2. appr' \in {appr, [appr EXCEPT ![r] = "pending"]}
    BY <1>5 DEF Park
  <2>3. QED BY <2>1, <2>2, StageValues DEF Stage, StageStep
<1>6. QED
  BY <1>1, <1>2, <1>3, <1>4, <1>5 DEF RequestStep

LEMMA ResolveStepsStage ==
    ASSUME OneWorkerInv, NEW s \in Resolvers, Select(s) \/ ServeStep(s),
           NEW r \in Requests \cup {None}, r = target[s]
    PROVE  /\ r \in Requests => StageStep(r)
           /\ \A q \in Requests \ {r} : Stage(q)' = Stage(q)
           /\ effects' \in [Requests -> Nat]
           /\ \A q \in Requests \ {r} : effects'[q] = effects[q]
<1> USE DEF OneWorkerInv, GateInv, TypeOK, ServesParked, OnlyHoldsArePending,
            RowFollowsPC, EffectFollowsPlan, owned, asked, answering, records,
            Close, CloseRaises
<1>1. CASE Select(s) \/ LogDenied(s) \/ MarkApproved(s) \/ LogExecuted(s) \/ LogError(s)
  <2>1. UNCHANGED <<plan, appr, effects>>
    BY <1>1 DEF Select, LogDenied, MarkApproved, LogExecuted, LogError
  <2>2. QED BY <2>1 DEF Stage, StageStep
<1>2. CASE Claim(s) \/ Reopen(s) \/ CloseDenied(s)
  <2>1. /\ UNCHANGED <<plan, effects>> /\ r \in Requests
        /\ effects[r] = 0 /\ plan[r] = "held"
        /\ appr[r] \in {"pending", "resolving"}
    BY <1>2 DEF Claim, Reopen, CloseDenied
  <2>2. \/ UNCHANGED appr
        \/ \E st \in {"resolving", "pending", "denied"} : appr' = [appr EXCEPT ![r] = st]
    BY <1>2 DEF Claim, Reopen, CloseDenied
  <2>3. QED BY <2>1, <2>2, StageValues DEF Stage, StageStep
<1>3. CASE ExecuteApproved(s)
  <2>1. /\ UNCHANGED <<plan, appr>> /\ r \in Requests
        /\ effects[r] = 0 /\ plan[r] = "held"
        /\ appr[r] = "resolving"
    BY <1>3 DEF ExecuteApproved
  <2>2. Happens(r) \/ UNCHANGED effects
    BY <1>3 DEF ExecuteApproved, EffectFails
  <2>3. QED BY <2>1, <2>2, StageValues DEF Happens, Stage, StageStep
<1>4. CASE CloseExecuted(s) \/ CloseError(s)
  <2>1. /\ UNCHANGED <<plan, effects>> /\ r \in Requests
        /\ plan[r] = "held"
        /\ appr[r] \in {"resolving", "executed"}
    BY <1>4 DEF CloseExecuted, CloseError
  <2>2. \/ UNCHANGED appr
        \/ appr' = [appr EXCEPT ![r] = "executed"] /\ effects[r] > 0
        \/ appr' = [appr EXCEPT ![r] = "error"]
    BY <1>4 DEF CloseExecuted, CloseError
  <2>3. appr[r] = "executed" => effects[r] > 0
    BY <2>1
  <2>4. QED BY <2>1, <2>2, <2>3, StageValues DEF Stage, StageStep
<1>5. QED
  BY <1>1, <1>2, <1>3, <1>4 DEF ServeStep

\* A change of one request's stage is a step of the lifecycle.
LEMMA StageStepRefines ==
    ASSUME TypeOK, NEW r \in Requests, StageStep(r),
           effects' \in [Requests -> Nat],
           \A q \in Requests \ {r} : Stage(q)' = Stage(q),
           \A q \in Requests \ {r} : effects'[q] = effects[q]
    PROVE  [Lifecycle!Next]_(Lifecycle!lifecycleVars)
<1> DEFINE stages == [q \in Requests |-> Stage(q)]
<1>1. stages' = [stages EXCEPT ![r] = Stage(r)']
  OBVIOUS
<1>2. effects' = [effects EXCEPT ![r] = effects'[r]]
  BY DEF TypeOK
<1>3. CASE Stage(r)' = Stage(r) /\ effects'[r] = effects[r]
  <2>1. stages' = stages /\ effects' = effects
    BY <1>1, <1>2, <1>3 DEF TypeOK
  <2>2. QED BY <2>1 DEF Lifecycle!lifecycleVars
<1>4. CASE Stage(r) = "open" /\ Stage(r)' \in {"blocked", "held"} /\ effects'[r] = effects[r]
  <2>1. stages[r] = "open" /\ UNCHANGED effects
    BY <1>2, <1>4 DEF TypeOK
  <2>2. Lifecycle!Block(r) \/ Lifecycle!Hold(r)
    BY <1>1, <1>4, <2>1 DEF Lifecycle!Block, Lifecycle!Hold, Lifecycle!Decide
  <2>3. QED BY <2>2 DEF Lifecycle!Next
<1>5. CASE Stage(r) = "held" /\ Stage(r)' \in {"refused", "failed"} /\ effects'[r] = effects[r]
  <2>1. stages[r] = "held" /\ UNCHANGED effects
    BY <1>2, <1>5 DEF TypeOK
  <2>2. Lifecycle!Refuse(r) \/ Lifecycle!Fail(r)
    BY <1>1, <1>5, <2>1 DEF Lifecycle!Refuse, Lifecycle!Fail, Lifecycle!Decide
  <2>3. QED BY <2>2 DEF Lifecycle!Next
<1>6. CASE Stage(r) \in {"open", "held"} /\ Stage(r)' = "ran" /\ effects'[r] = effects[r] + 1
  <2>1. Lifecycle!Run(r)
    BY <1>1, <1>2, <1>6 DEF TypeOK, Lifecycle!Run
  <2>2. QED BY <2>1 DEF Lifecycle!Next
<1>7. QED BY <1>3, <1>4, <1>5, <1>6 DEF StageStep

\* The gate of one process implements the lifecycle: an action happens at most once,
\* and never after it was blocked, refused or failed (consent.py:218-347).
THEOREM GateImplementsLifecycle ==
    ASSUME OneWorker
    PROVE  Spec => ImplementsLifecycle
<1>1. Init => Lifecycle!Init
  BY StageValues DEF Init, Lifecycle!Init, Stage
<1>2. OneWorkerInv /\ [Next]_vars => [Lifecycle!Next]_(Lifecycle!lifecycleVars)
  <2> SUFFICES ASSUME OneWorkerInv, [Next]_vars
               PROVE  [Lifecycle!Next]_(Lifecycle!lifecycleVars)
    OBVIOUS
  <2>0. TypeOK
    BY DEF OneWorkerInv, GateInv
  <2>1. ASSUME NEW r \in Requests, RequestStep(r)
        PROVE  [Lifecycle!Next]_(Lifecycle!lifecycleVars)
    BY <2>0, <2>1, RequestStepsStage, StageStepRefines
  <2>2. ASSUME NEW s \in Resolvers, Select(s) \/ ServeStep(s)
        PROVE  [Lifecycle!Next]_(Lifecycle!lifecycleVars)
    <3>0. PICK r \in Requests \cup {None} : r = target[s]
      BY <2>0 DEF TypeOK
    <3>1. CASE r \in Requests
      BY <2>0, <2>2, <3>0, <3>1, ResolveStepsStage, StageStepRefines
    <3>2. CASE r \notin Requests
      <4>1. \A q \in Requests : Stage(q)' = Stage(q) /\ effects'[q] = effects[q]
        BY <2>2, <3>0, <3>2, ResolveStepsStage
      <4>2. effects' = effects
        BY <2>0, <2>2, <3>0, <4>1, ResolveStepsStage DEF TypeOK
      <4>3. QED BY <4>1, <4>2 DEF Lifecycle!lifecycleVars
    <3>3. QED BY <3>1, <3>2
  <2>3. ASSUME OwnerStep \/ UNCHANGED vars \/ (\E w \in Workers : SetExecutor(w) \/ Restart(w))
        PROVE  UNCHANGED Lifecycle!lifecycleVars
    <3>1. UNCHANGED <<plan, appr, effects>>
      BY <2>3 DEF OwnerStep, ChangeRules, SetMode, SetAgentStatus, SetExecutor, Restart,
                  gateState, vars, asked, records
    <3>2. QED BY <3>1 DEF Lifecycle!lifecycleVars, Stage
  <2>4. QED BY <2>1, <2>2, <2>3 DEF Next
<1>3. QED
  BY <1>1, <1>2, OneWorkerInvHolds, PTL DEF Spec, ImplementsLifecycle, Lifecycle!Spec
============================================================================
