---------------------------- MODULE ConsentGate ----------------------------
(***************************************************************************)
(* The consent gate of backend/consent.py: request_action, the single      *)
(* chokepoint every guarded effect passes through, and resolve, with which *)
(* the owner answers a held action.  Every call runs on a thread of its    *)
(* own, so every database transaction, every ledger append and every       *)
(* effect is a step of its own.                                            *)
(*                                                                         *)
(* A request is one call of request_action; a resolver is a thread that    *)
(* serves calls of resolve, one at a time.  A request parks at most one    *)
(* approval, so the approval of a request is named by the request.         *)
(* Abstracted: what the action is (the verdict the rules give it is        *)
(* 'rules'), why the limiter or the provenance scan trips, and the order   *)
(* of the ledger's entries (module Ledger has it).                         *)
(***************************************************************************)
EXTENDS Naturals, FiniteSets

CONSTANTS
    Requests,        \* calls of request_action
    Resolvers,       \* threads that serve calls of resolve
    Workers,         \* server processes on the same database
    Actors,          \* actor ids
    RequestWorker,   \* [Requests -> Workers]: the process that serves a request
    ResolverWorker,  \* [Resolvers -> Workers]: the process of a resolver
    RequestActor,    \* [Requests -> Actors]: who asks
    StorageFails,    \* BOOLEAN: may a database or anchor write raise?
    EffectRaises,    \* BOOLEAN: may the action's own code raise?
    Crashes,         \* BOOLEAN: may a process die and be restarted?
    MaxEffects,      \* bound: an approval is claimed again only below it
    None             \* no holder of a lock, no request of an idle resolver

ASSUME GateAssumption ==
    /\ RequestWorker \in [Requests -> Workers]
    /\ ResolverWorker \in [Resolvers -> Workers]
    /\ RequestActor \in [Requests -> Actors]
    /\ {StorageFails, EffectRaises, Crashes} \subseteq BOOLEAN
    /\ MaxEffects \in Nat \ {0}
    /\ None \notin Resolvers \cup Requests

VARIABLES
    status,    \* agents table: each actor's status ("absent": no row)
    rules,     \* the verdict policy.evaluate gives the action now
    mode,      \* settings table: "enforced", or "observe" (audit_only, permissive)
    executor,  \* consent._executor of each process: registered or not
    lock,      \* consent._lock of each process
    pc,        \* where each request is in request_action
    verdict,   \* its 'decision'
    plan,      \* what the mode makes of it
    rpc,       \* where each resolver is in resolve
    target,    \* the request whose approval it answers
    answer,    \* the owner's answer: "approve" or "deny"
    appr,      \* approvals.status of each request's approval ("none": no row)
    owner,     \* approvals.approved_by_owner
    effects,   \* how often the effect of each request has happened
    attempts,  \* statuses of the ledger's entries about each request's attempt
    outcomes   \* statuses of its "resolve" entries

owned == <<status, rules, mode, executor>>   \* what neither call changes
asked == <<pc, verdict, plan>>               \* the request threads
answering == <<rpc, target, answer>>         \* the resolver threads
records == <<attempts, outcomes>>            \* the ledger
vars == <<owned, lock, asked, answering, appr, owner, effects, records>>

Verdicts == {"allow", "hold", "deny"}
Plans == {"none", "blocked", "observed", "held", "allowed"}
RequestPCs == {"idle", "limits", "evaluate", "mode", "run", "log", "park",
               "done", "raised", "lost"}
ResolverPCs == {"idle", "claim", "claimed", "execute", "close", "logExecuted",
                "closeError", "logError", "logDenied"}
RowStates == {"none", "pending", "resolving", "denied", "executed", "error"}
Attempts == {"blocked", "pending", "executed"}
Outcomes == {"denied", "executed", "error"}

TypeOK ==
    /\ status \in [Actors -> {"active", "revoked", "absent"}]
    /\ rules \in Verdicts
    /\ mode \in {"enforced", "observe"}
    /\ executor \in [Workers -> BOOLEAN]
    /\ lock \in [Workers -> Resolvers \cup {None}]
    /\ pc \in [Requests -> RequestPCs]
    /\ verdict \in [Requests -> Verdicts]
    /\ plan \in [Requests -> Plans]
    /\ rpc \in [Resolvers -> ResolverPCs]
    /\ target \in [Resolvers -> Requests \cup {None}]
    /\ answer \in [Resolvers -> {"approve", "deny"}]
    /\ appr \in [Requests -> RowStates]
    /\ owner \in [Requests -> BOOLEAN]
    /\ effects \in [Requests -> Nat]
    /\ attempts \in [Requests -> SUBSET Attempts]
    /\ outcomes \in [Requests -> SUBSET Outcomes]

Init ==
    /\ status \in [Actors -> {"active", "absent"}]
    /\ rules \in Verdicts
    /\ mode = "enforced"
    /\ executor = [w \in Workers |-> FALSE]
    /\ lock = [w \in Workers |-> None]
    /\ pc = [r \in Requests |-> "idle"]
    /\ verdict = [r \in Requests |-> "deny"]
    /\ plan = [r \in Requests |-> "none"]
    /\ rpc = [s \in Resolvers |-> "idle"]
    /\ target = [s \in Resolvers |-> None]
    /\ answer = [s \in Resolvers |-> "deny"]
    /\ appr = [r \in Requests |-> "none"]
    /\ owner = [r \in Requests |-> FALSE]
    /\ effects = [r \in Requests |-> 0]
    /\ attempts = [r \in Requests |-> {}]
    /\ outcomes = [r \in Requests |-> {}]

----------------------------------------------------------------------------
(* Helpers *)

\* The status an attempt is logged with: the fifth argument of ledger.append.
LoggedStatus(p) ==
    CASE p = "blocked" -> "blocked"
      [] p = "held" -> "pending"
      [] OTHER -> "executed"

\* What the mode makes of a verdict.
PlanFor(v, m) ==
    CASE v = "allow" -> "allowed"
      [] v # "allow" /\ m # "enforced" -> "observed"
      [] v = "deny" /\ m = "enforced" -> "blocked"
      [] OTHER -> "held"

Go(r, to) == pc' = [pc EXCEPT ![r] = to]
Decide(r, v) == verdict' = [verdict EXCEPT ![r] = v]
Serve(s, to) == rpc' = [rpc EXCEPT ![s] = to]

\* A resolver's call is over, whether it returns or raises.
Return(s) ==
    /\ Serve(s, "idle")
    /\ target' = [target EXCEPT ![s] = None]
    /\ answer' = [answer EXCEPT ![s] = "deny"]

Continue(s, to) == Serve(s, to) /\ UNCHANGED <<target, answer>>

\* Mutant: no lock around resolve's read and claim.
NeverLocked(w) == TRUE

\* consent._lock is taken around every write of this module.  Only resolve keeps
\* it over two statements, so only there it is a state of its own.
Unlocked(w) == lock[w] = None

\* ledger.append: the row is committed, or the call raises.  Writing the anchor
\* line comes after the commit, so it can raise with the row in place.
Append(r, st) ==
    attempts' = [attempts EXCEPT ![r] = @ \cup {st}] /\ UNCHANGED outcomes
AppendRaises(r, st) ==
    StorageFails /\ (Append(r, st) \/ UNCHANGED records)

UpdateOutcome(r, st) ==
    outcomes' = [outcomes EXCEPT ![r] = @ \cup {st}] /\ UNCHANGED attempts
UpdateOutcomeRaises(r, st) ==
    StorageFails /\ (UpdateOutcome(r, st) \/ UNCHANGED records)

\* The action's code: it takes effect and returns, or raises, before its effect
\* or after it (an e-mail whose confirmation is lost has been sent).
Happens(r) == effects' = [effects EXCEPT ![r] = @ + 1]
EffectFails(r) == EffectRaises /\ (Happens(r) \/ UNCHANGED effects)

----------------------------------------------------------------------------
(* request_action *)

\* Mutant: the refusal of a revoked actor does not return.
ReadAgentNoReturn(r) ==
    /\ pc[r] = "idle"
    /\ \/ /\ status[RequestActor[r]] = "revoked"
          /\ Go(r, "run")
          /\ plan' = [plan EXCEPT ![r] = "blocked"]
       \/ /\ status[RequestActor[r]] # "revoked"
          /\ Go(r, "limits")
          /\ UNCHANGED plan
    /\ UNCHANGED <<owned, lock, verdict, answering, appr, owner, effects, records>>

\* Identity: a revoked actor is refused first; an actor with no row passes.
ReadAgent(r) ==
    /\ pc[r] = "idle"
    /\ \/ /\ status[RequestActor[r]] = "revoked"
          /\ Go(r, "log")
          /\ plan' = [plan EXCEPT ![r] = "blocked"]
       \/ /\ status[RequestActor[r]] # "revoked"
          /\ Go(r, "limits")
          /\ UNCHANGED plan
    /\ UNCHANGED <<owned, lock, verdict, answering, appr, owner, effects, records>>

\* limits.check_and_record: over a limit the verdict is hold and the policy is
\* not asked.
CheckLimits(r) ==
    /\ pc[r] = "limits"
    /\ \/ Go(r, "evaluate") /\ UNCHANGED verdict
       \/ Go(r, "mode") /\ Decide(r, "hold")
    /\ UNCHANGED <<owned, lock, plan, answering, appr, owner, effects, records>>

\* policy.evaluate, then the provenance rail, which turns an allow into a hold.
Evaluate(r) ==
    /\ pc[r] = "evaluate"
    /\ Decide(r, rules) \/ (rules = "allow" /\ Decide(r, "hold"))
    /\ Go(r, "mode")
    /\ UNCHANGED <<owned, lock, plan, answering, appr, owner, effects, records>>

\* policy.get_mode is a read of its own, after the verdict.
ReadMode(r) ==
    /\ pc[r] = "mode"
    /\ plan' = [plan EXCEPT ![r] = PlanFor(verdict[r], mode)]
    /\ Go(r, IF plan'[r] \in {"allowed", "observed"} THEN "run" ELSE "log")
    /\ UNCHANGED <<owned, lock, verdict, answering, appr, owner, effects, records>>

\* Mutant: an exception of the action is caught and logged like a result.
ExecuteCatching(r) ==
    /\ pc[r] = "run"
    /\ Happens(r) \/ EffectFails(r)
    /\ Go(r, "log")
    /\ UNCHANGED <<owned, lock, verdict, plan, answering, appr, owner, records>>

\* execute(): nothing catches what it raises, so nothing is logged then.
Execute(r) ==
    /\ pc[r] = "run"
    /\ \/ Happens(r) /\ Go(r, "log")
       \/ EffectFails(r) /\ Go(r, "raised")
    /\ UNCHANGED <<owned, lock, verdict, plan, answering, appr, owner, records>>

\* Mutant: a failed append is ignored.
LogAttemptIgnoring(r) ==
    /\ pc[r] = "log"
    /\ Append(r, LoggedStatus(plan[r])) \/ AppendRaises(r, LoggedStatus(plan[r]))
    /\ Go(r, IF plan[r] = "held" THEN "park" ELSE "done")
    /\ UNCHANGED <<owned, lock, verdict, plan, answering, appr, owner, effects>>

\* The attempt is appended; a hold goes on to be parked.
LogAttempt(r) ==
    /\ pc[r] = "log"
    /\ \/ /\ Append(r, LoggedStatus(plan[r]))
          /\ Go(r, IF plan[r] = "held" THEN "park" ELSE "done")
       \/ AppendRaises(r, LoggedStatus(plan[r])) /\ Go(r, "raised")
    /\ UNCHANGED <<owned, lock, verdict, plan, answering, appr, owner, effects>>

\* The hold is parked in a transaction of its own, after its ledger entry.
Park(r) ==
    /\ pc[r] = "park"
    /\ Unlocked(RequestWorker[r])
    /\ \/ appr' = [appr EXCEPT ![r] = "pending"] /\ Go(r, "done")
       \/ StorageFails /\ UNCHANGED appr /\ Go(r, "raised")
    /\ UNCHANGED <<owned, lock, verdict, plan, answering, owner, effects, records>>

\* A read or a counter update that raises ends the call with nothing done.
RaiseEarly(r) ==
    /\ StorageFails
    /\ pc[r] \in {"idle", "limits", "evaluate", "mode"}
    /\ Go(r, "raised")
    /\ UNCHANGED <<owned, lock, verdict, plan, answering, appr, owner, effects, records>>

RequestStep(r) ==
    \/ ReadAgent(r)
    \/ CheckLimits(r)
    \/ Evaluate(r)
    \/ ReadMode(r)
    \/ Execute(r)
    \/ LogAttempt(r)
    \/ Park(r)
    \/ RaiseEarly(r)

----------------------------------------------------------------------------
(* resolve *)

\* WHERE id = ? AND status = 'pending'
Answerable(r) == appr[r] = "pending"

\* The row is read under the lock ...
Select(s) ==
    /\ rpc[s] = "idle"
    /\ Unlocked(ResolverWorker[s])
    /\ \E r \in Requests, a \in {"approve", "deny"} :
          /\ Answerable(r)
          /\ effects[r] < MaxEffects
          /\ target' = [target EXCEPT ![s] = r]
          /\ answer' = [answer EXCEPT ![s] = a]
    /\ Serve(s, "claim")
    /\ lock' = [lock EXCEPT ![ResolverWorker[s]] = s]
    /\ UNCHANGED <<owned, asked, appr, owner, effects, records>>

\* Mutant: the lock is not released after the claim.
ClaimKeepingLock(s) ==
    /\ rpc[s] = "claim"
    /\ appr' = [appr EXCEPT ![target[s]] = "resolving"]
    /\ Continue(s, "claimed")
    /\ UNCHANGED <<owned, lock, asked, owner, effects, records>>

\* ... and claimed under it, whatever its status is by now.
Claim(s) ==
    /\ rpc[s] = "claim"
    /\ \/ appr' = [appr EXCEPT ![target[s]] = "resolving"] /\ Continue(s, "claimed")
       \/ StorageFails /\ UNCHANGED appr /\ Return(s)
    /\ lock' = [lock EXCEPT ![ResolverWorker[s]] = None]
    /\ UNCHANGED <<owned, asked, owner, effects, records>>

\* consent._close: the row's new status.
Close(s, st) ==
    /\ Unlocked(ResolverWorker[s])
    /\ appr' = [appr EXCEPT ![target[s]] = st]

CloseRaises(s) == StorageFails /\ Unlocked(ResolverWorker[s]) /\ UNCHANGED appr

CloseDenied(s) ==
    /\ rpc[s] = "claimed" /\ answer[s] = "deny"
    /\ \/ Close(s, "denied") /\ Continue(s, "logDenied")
       \/ CloseRaises(s) /\ Return(s)
    /\ UNCHANGED <<owned, lock, asked, owner, effects, records>>

LogDenied(s) ==
    /\ rpc[s] = "logDenied"
    /\ UpdateOutcome(target[s], "denied") \/ UpdateOutcomeRaises(target[s], "denied")
    /\ Return(s)
    /\ UNCHANGED <<owned, lock, asked, appr, owner, effects>>

\* Mutant: without an executor the row is left claimed.
ReopenNothing(s) ==
    /\ rpc[s] = "claimed" /\ answer[s] = "approve"
    /\ ~executor[ResolverWorker[s]]
    /\ Return(s)
    /\ UNCHANGED <<owned, lock, asked, appr, owner, effects, records>>

\* No executor in this process: the row goes back to the queue.
Reopen(s) ==
    /\ rpc[s] = "claimed" /\ answer[s] = "approve"
    /\ ~executor[ResolverWorker[s]]
    /\ Close(s, "pending") \/ CloseRaises(s)
    /\ Return(s)
    /\ UNCHANGED <<owned, lock, asked, owner, effects, records>>

\* Mutant: the approval is not written before the effect.
MarkNothing(s) ==
    /\ rpc[s] = "claimed" /\ answer[s] = "approve"
    /\ executor[ResolverWorker[s]]
    /\ Continue(s, "execute")
    /\ UNCHANGED <<owned, lock, asked, appr, owner, effects, records>>

\* The owner's approval is durable before the effect.
MarkApproved(s) ==
    /\ rpc[s] = "claimed" /\ answer[s] = "approve"
    /\ executor[ResolverWorker[s]]
    /\ Unlocked(ResolverWorker[s])
    /\ \/ owner' = [owner EXCEPT ![target[s]] = TRUE] /\ Continue(s, "execute")
       \/ StorageFails /\ UNCHANGED owner /\ Return(s)
    /\ UNCHANGED <<owned, lock, asked, appr, effects, records>>

\* From here to the second append every exception ends in "closeError".
ExecuteApproved(s) ==
    /\ rpc[s] = "execute"
    /\ \/ Happens(target[s]) /\ Continue(s, "close")
       \/ EffectFails(target[s]) /\ Continue(s, "closeError")
    /\ UNCHANGED <<owned, lock, asked, appr, owner, records>>

CloseExecuted(s) ==
    /\ rpc[s] = "close"
    /\ \/ Close(s, "executed") /\ Continue(s, "logExecuted")
       \/ CloseRaises(s) /\ Continue(s, "closeError")
    /\ UNCHANGED <<owned, lock, asked, owner, effects, records>>

LogExecuted(s) ==
    /\ rpc[s] = "logExecuted"
    /\ \/ UpdateOutcome(target[s], "executed") /\ Return(s)
       \/ UpdateOutcomeRaises(target[s], "executed") /\ Continue(s, "closeError")
    /\ UNCHANGED <<owned, lock, asked, appr, owner, effects>>

CloseError(s) ==
    /\ rpc[s] = "closeError"
    /\ \/ Close(s, "error") /\ Continue(s, "logError")
       \/ CloseRaises(s) /\ Return(s)
    /\ UNCHANGED <<owned, lock, asked, owner, effects, records>>

LogError(s) ==
    /\ rpc[s] = "logError"
    /\ UpdateOutcome(target[s], "error") \/ UpdateOutcomeRaises(target[s], "error")
    /\ Return(s)
    /\ UNCHANGED <<owned, lock, asked, appr, owner, effects>>

\* What a resolver does once it has read a row; serving a call is its caller's
\* choice, finishing it is not.
ServeStep(s) ==
    \/ Claim(s)
    \/ CloseDenied(s)
    \/ LogDenied(s)
    \/ Reopen(s)
    \/ MarkApproved(s)
    \/ ExecuteApproved(s)
    \/ CloseExecuted(s)
    \/ LogExecuted(s)
    \/ CloseError(s)
    \/ LogError(s)

----------------------------------------------------------------------------
(* The owner's control plane, and the processes *)

gateState == <<lock, asked, answering, appr, owner, effects, records>>

\* policy.add_policy and delete_policy, seen through evaluate.
ChangeRules ==
    /\ rules' \in Verdicts
    /\ UNCHANGED <<status, mode, executor, gateState>>

SetMode ==
    /\ mode' \in {"enforced", "observe"}
    /\ UNCHANGED <<status, rules, executor, gateState>>

\* UPDATE agents: an actor without a row stays without one.
SetAgentStatus ==
    /\ \E a \in Actors, st \in {"active", "revoked"} :
          /\ status[a] # "absent"
          /\ status' = [status EXCEPT ![a] = st]
    /\ UNCHANGED <<rules, mode, executor, gateState>>

\* The executor is registered by the first use of the agent client.
SetExecutor(w) ==
    /\ executor' = [executor EXCEPT ![w] = TRUE]
    /\ UNCHANGED <<status, rules, mode, gateState>>

\* A process dies with its threads, its locks and its executor, and is started
\* again.  init_db finds every row and changes none.
Restart(w) ==
    /\ Crashes
    /\ executor' = [executor EXCEPT ![w] = FALSE]
    /\ lock' = [lock EXCEPT ![w] = None]
    /\ pc' = [r \in Requests |->
                IF RequestWorker[r] = w /\ pc[r] \notin {"idle", "done", "raised"}
                THEN "lost" ELSE pc[r]]
    /\ rpc' = [s \in Resolvers |-> IF ResolverWorker[s] = w THEN "idle" ELSE rpc[s]]
    /\ target' = [s \in Resolvers |-> IF ResolverWorker[s] = w THEN None ELSE target[s]]
    /\ answer' = [s \in Resolvers |-> IF ResolverWorker[s] = w THEN "deny" ELSE answer[s]]
    /\ UNCHANGED <<status, rules, mode, verdict, plan, appr, owner, effects, records>>

OwnerStep == ChangeRules \/ SetMode \/ SetAgentStatus

Next ==
    \/ \E r \in Requests : RequestStep(r)
    \/ \E s \in Resolvers : Select(s) \/ ServeStep(s)
    \/ OwnerStep
    \/ \E w \in Workers : SetExecutor(w) \/ Restart(w)

Spec == Init /\ [][Next]_vars

\* A call that has begun runs on: its thread is scheduled, and a lock that keeps
\* becoming free is acquired.  Whether a call is made is its caller's choice.
Fairness ==
    /\ \A r \in Requests : SF_vars(pc[r] # "idle" /\ RequestStep(r))
    /\ \A s \in Resolvers : SF_vars(ServeStep(s))

FairSpec == Spec /\ Fairness

----------------------------------------------------------------------------
(* Safety *)

\* Every effect has its reason: the rules allowed the action, or the mode was not
\* enforced, or the owner approved it durably before it happened.  In particular
\* a blocked action never happens and a held one waits (README.md:22-23).
EffectAuthorised ==
    \A r \in Requests :
        effects[r] > 0 => plan[r] \in {"allowed", "observed"} \/ owner[r]

\* An action happens at most once, however many calls answer its approval: the
\* claim in resolve lets one of them through (consent.py:303-311).
EffectAtMostOnce == \A r \in Requests : effects[r] <= 1

\* An approval in the queue has its signed entry in the ledger: the entry is
\* appended first, so no crash or failure leaves an approval without a record.
ApprovalIsLogged ==
    \A r \in Requests : appr[r] # "none" => "pending" \in attempts[r]

\* The ledger does not lie about effects: what it records as executed happened,
\* what it records as blocked or denied did not and will not.
LedgerTruthful ==
    \A r \in Requests :
        /\ "executed" \in attempts[r] \cup outcomes[r] => effects[r] > 0
        /\ "blocked" \in attempts[r] \/ "denied" \in outcomes[r] => effects[r] = 0

\* An action whose request was answered with a denial has no approval to approve,
\* and an action that ran at once has none either: an approval is parked only by
\* the hold of an enforced policy.
OnlyHoldsArePending ==
    \A r \in Requests : appr[r] # "none" => plan[r] = "held"

\* Who answers an approval is alone with it: no two resolvers act on one claim
\* (consent.py:303-311).
OneResolverPerApproval ==
    \A s, t \in Resolvers :
        s # t /\ rpc[s] # "idle" /\ rpc[t] # "idle"
            => target[s] # target[t]

\* A final answer is final: a denied approval and a failed one never return to the
\* queue, and an executed one can only turn into "error", when its ledger entry
\* cannot be written (consent.py:330-341).
AnswersAreFinal ==
    [][\A r \in Requests :
          /\ appr[r] \in {"denied", "error"} => appr'[r] = appr[r]
          /\ appr[r] = "executed" => appr'[r] \in {"executed", "error"}]_vars

\* How far the action of a request has come, for what ActionLifecycle promises.
\* A call that failed or was lost before a decision stays "open".
StageOf(p, row, times) ==
    CASE times > 0 -> "ran"
      [] times = 0 /\ p = "blocked" -> "blocked"
      [] times = 0 /\ p # "blocked" /\ row = "denied" -> "refused"
      [] times = 0 /\ p # "blocked" /\ row = "error" -> "failed"
      [] times = 0 /\ p # "blocked" /\ row \in {"pending", "resolving"} -> "held"
      [] OTHER -> "open"

Stage(r) == StageOf(plan[r], appr[r], effects[r])

Lifecycle == INSTANCE ActionLifecycle
    WITH stage <- [r \in Requests |-> Stage(r)], times <- effects

\* The gate of one process implements the lifecycle: through every interleaving,
\* failure and restart an action happens at most once, never after it was blocked,
\* refused or failed (consent.py:218-347).
ImplementsLifecycle == Lifecycle!Spec

----------------------------------------------------------------------------
(* Liveness *)

\* Every call of request_action comes to an end.
RequestsEnd ==
    \A r \in Requests :
        pc[r] # "idle" ~> pc[r] \in {"done", "raised"}

\* A claimed approval is answered or goes back to the queue.
ClaimsSettle ==
    \A r \in Requests : appr[r] = "resolving" ~> appr[r] # "resolving"

\* Nobody waits for ever on the gate: calls end, and what is claimed is settled
\* (consent.py:218-341).
GateSettles == RequestsEnd /\ ClaimsSettle

=============================================================================
