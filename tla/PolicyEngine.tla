---------------------------- MODULE PolicyEngine ----------------------------
(***************************************************************************)
(* What decides a purchase in consent.request_action: the blast-radius     *)
(* limits (backend/limits.py), and the rules (backend/policy.py), which    *)
(* every process caches and the owner changes, with the day's spending     *)
(* that the ledger tells (ledger.sum_today).  Requests of one process run  *)
(* in threads; time goes on between any two steps.                         *)
(*                                                                         *)
(* Every purchase costs one unit, and the mode is "enforced": what the     *)
(* gate does with a verdict is the business of ConsentGate.  The rules     *)
(* find the cost under four keys; the sum of the day reads one of them,    *)
(* and only of the entries that have been written.                         *)
(***************************************************************************)
EXTENDS Naturals, FiniteSets

CONSTANTS
    Requests,     \* threads that call request_action, each time after time
    Owners,       \* threads that serve the owner's rule changes
    Workers,      \* server processes on one database
    WorkerOf,     \* [Requests \cup Owners -> Workers]
    Actors,       \* the agents the requests come from
    Rules,        \* rows that may be in the table of policies
    RuleKind,     \* [Rules -> {"hold", "daycap"}]: a "hold" rule denies or holds
                  \* any purchase, a "daycap" rule what exceeds max_per_day
    Defaults,     \* the rules a start seeds an empty table with
    HourlyLimit,  \* ORA_ACTOR_HOURLY_LIMIT (0: none)
    DailyCap,     \* ORA_DAILY_CAP (0: none)
    DayCap,       \* max_per_day of the "daycap" rules
    UtcDay,       \* the UTC day of each hour
    LocalDay,     \* and the local day
    MaxHour,      \* bound: hours that pass
    MaxCalls,     \* bound: calls of request_action
    Failures,     \* BOOLEAN: may reading the table raise, or a process die?
    None          \* no thread, no rule, no actor

ASSUME PolicyAssumption ==
    /\ WorkerOf \in [Requests \cup Owners -> Workers]
    /\ RuleKind \in [Rules -> {"hold", "daycap"}]
    /\ Defaults \subseteq Rules
    /\ {HourlyLimit, DailyCap, DayCap, MaxHour, MaxCalls} \subseteq Nat
    /\ {UtcDay, LocalDay} \subseteq [0..MaxHour -> 0..MaxHour]
    /\ Failures \in BOOLEAN
    /\ None \notin Requests \cup Rules \cup Actors

\* The pool that serves the requests has a limit.
ASSUME PoolAssumption == IsFiniteSet(Requests)

VARIABLES
    policies,    \* the table of policies
    filled,      \* is _policy_cache of each process not None?
    cache,       \* what it then holds
    cacheLock,   \* holder of each process's _cache_lock
    limitLock,   \* holder of each process's limits._lock
    hour,        \* the clock
    hourly,      \* actor_hourly: counts per hour and actor
    daily,       \* daily_totals: counts per UTC day
    spent,       \* what the sum finds in the entries of each local day
    calls,       \* how many calls have begun
    pc,          \* where each request is
    actor,       \* who makes it
    bucket,      \* the hour its limits are charged to
    rules,       \* the rules it judges by
    day,         \* the local day it was judged in
    capped,      \* was one of its rules a day cap?
    named,       \* is the cost under "amount"?
    opc,         \* where each owner thread is
    change,      \* the rule it adds or deletes
    stood,       \* history: rules in force since the evaluation began
    mayApply,    \* history: rules in force at some moment of it
    made,        \* history: purchases of each day that a day cap has let through
    unseen       \* history: those of them that the sum will never find

table == <<policies, filled, cache, cacheLock, opc, change>>
counts == <<hourly, daily, limitLock>>
money == <<spent, made, unseen>>
judging == <<rules, stood, mayApply>>
charge == <<actor, bucket>>
verdict == <<day, capped, named>>
vars == <<table, counts, money, judging, charge, verdict, hour, calls, pc>>

Hours == 0..MaxHour
Days == 0..MaxHour

PCs == {"idle", "check", "record", "evaluate", "fill", "judge", "append"}
Evaluating == {"evaluate", "fill", "judge"}

TypeOK ==
    /\ policies \subseteq Rules
    /\ filled \in [Workers -> BOOLEAN]
    /\ cache \in [Workers -> SUBSET Rules]
    /\ cacheLock \in [Workers -> {None} \cup Requests]
    /\ limitLock \in [Workers -> {None} \cup Requests]
    /\ hour \in Hours
    /\ hourly \in [Hours -> [Actors -> Nat]]
    /\ daily \in [Days -> Nat]
    /\ spent \in [Days -> Nat]
    /\ made \in [Days -> Nat]
    /\ unseen \in [Days -> Nat]
    /\ calls \in 0..MaxCalls
    /\ pc \in [Requests -> PCs]
    /\ actor \in [Requests -> Actors \cup {None}]
    /\ bucket \in [Requests -> Hours]
    /\ rules \in [Requests -> SUBSET Rules]
    /\ stood \in [Requests -> SUBSET Rules]
    /\ mayApply \in [Requests -> SUBSET Rules]
    /\ day \in [Requests -> Days]
    /\ capped \in [Requests -> BOOLEAN]
    /\ named \in [Requests -> BOOLEAN]
    /\ opc \in [Owners -> {"idle", "invalidate"}]
    /\ change \in [Owners -> Rules \cup {None}]

\* The first start seeds the defaults.
Init ==
    /\ policies = Defaults
    /\ filled = [w \in Workers |-> FALSE]
    /\ cache = [w \in Workers |-> {}]
    /\ cacheLock = [w \in Workers |-> None]
    /\ limitLock = [w \in Workers |-> None]
    /\ hour = 0 /\ calls = 0
    /\ hourly = [h \in Hours |-> [a \in Actors |-> 0]]
    /\ daily = [d \in Days |-> 0]
    /\ spent = [d \in Days |-> 0]
    /\ made = [d \in Days |-> 0]
    /\ unseen = [d \in Days |-> 0]
    /\ pc = [t \in Requests |-> "idle"]
    /\ actor = [t \in Requests |-> None]
    /\ bucket = [t \in Requests |-> 0]
    /\ rules = [t \in Requests |-> {}]
    /\ stood = [t \in Requests |-> {}]
    /\ mayApply = [t \in Requests |-> {}]
    /\ day = [t \in Requests |-> 0]
    /\ capped = [t \in Requests |-> FALSE]
    /\ named = [t \in Requests |-> FALSE]
    /\ opc = [o \in Owners |-> "idle"]
    /\ change = [o \in Owners |-> None]

----------------------------------------------------------------------------
(* limits.check_and_record *)

Go(t, to) == pc' = [pc EXCEPT ![t] = to]

\* The clock is read before the lock is taken.
Begin(t) ==
    /\ pc[t] = "idle" /\ calls < MaxCalls
    /\ calls' = calls + 1
    /\ \E a \in Actors : actor' = [actor EXCEPT ![t] = a]
    /\ bucket' = [bucket EXCEPT ![t] = hour]
    /\ Go(t, "check")
    /\ UNCHANGED <<table, counts, money, judging, verdict, hour>>

\* What a call is charged to is of no use after its limits are checked.
Charged(t) ==
    /\ actor' = [actor EXCEPT ![t] = None]
    /\ bucket' = [bucket EXCEPT ![t] = 0]

OverLimit(t) ==
    \/ HourlyLimit > 0 /\ hourly[bucket[t]][actor[t]] >= HourlyLimit
    \/ DailyCap > 0 /\ daily[UtcDay[bucket[t]]] >= DailyCap

\* A request over a limit is held: it ends here, uncounted.
Refuse(t) ==
    /\ pc[t] = "check" /\ limitLock[WorkerOf[t]] = None
    /\ OverLimit(t)
    /\ Charged(t)
    /\ Go(t, "idle")
    /\ UNCHANGED <<table, counts, money, judging, verdict, hour, calls>>

\* Mutant: the counts are read before the lock is taken.
PassUnlocked(t) ==
    /\ pc[t] = "check"
    /\ ~OverLimit(t)
    /\ Go(t, "record")
    /\ UNCHANGED <<table, counts, money, judging, charge, verdict, hour, calls>>

Pass(t) ==
    /\ pc[t] = "check" /\ limitLock[WorkerOf[t]] = None
    /\ ~OverLimit(t)
    /\ limitLock' = [limitLock EXCEPT ![WorkerOf[t]] = t]
    /\ Go(t, "record")
    /\ UNCHANGED <<table, hourly, daily, money, judging, charge, verdict, hour, calls>>

\* Rules whose change has been committed and not yet returned from.
Changing == {change[o] : o \in {p \in Owners : opc[p] = "invalidate"}}

\* Both counts in one transaction; then policy.evaluate begins.
Record(t) ==
    /\ pc[t] = "record"
    /\ hourly' = [hourly EXCEPT ![bucket[t]][actor[t]] = @ + 1]
    /\ daily' = [daily EXCEPT ![UtcDay[bucket[t]]] = @ + 1]
    /\ limitLock' = [limitLock EXCEPT ![WorkerOf[t]] = None]
    /\ Charged(t)
    /\ stood' = [stood EXCEPT ![t] = policies \ Changing]
    /\ mayApply' = [mayApply EXCEPT ![t] = policies \cup Changing]
    /\ Go(t, "evaluate")
    /\ UNCHANGED <<table, money, rules, verdict, hour, calls>>

----------------------------------------------------------------------------
(* policy.evaluate *)

\* _cached_policies with a cache.
Hit(t) ==
    /\ pc[t] = "evaluate" /\ cacheLock[WorkerOf[t]] = None
    /\ filled[WorkerOf[t]]
    /\ rules' = [rules EXCEPT ![t] = cache[WorkerOf[t]]]
    /\ Go(t, "judge")
    /\ UNCHANGED <<table, counts, money, stood, mayApply, charge, verdict, hour, calls>>

\* _cached_policies without one: it reads the table under the cache's lock ...
FillRead(t) ==
    /\ pc[t] = "evaluate" /\ cacheLock[WorkerOf[t]] = None
    /\ ~filled[WorkerOf[t]]
    /\ cacheLock' = [cacheLock EXCEPT ![WorkerOf[t]] = t]
    /\ rules' = [rules EXCEPT ![t] = policies]
    /\ Go(t, "fill")
    /\ UNCHANGED <<policies, filled, cache, opc, change, counts, money, stood, mayApply,
                   charge, verdict, hour, calls>>

\* ... and stores what it has read.
FillStore(t) ==
    /\ pc[t] = "fill"
    /\ filled' = [filled EXCEPT ![WorkerOf[t]] = TRUE]
    /\ cache' = [cache EXCEPT ![WorkerOf[t]] = rules[t]]
    /\ cacheLock' = [cacheLock EXCEPT ![WorkerOf[t]] = None]
    /\ Go(t, "judge")
    /\ UNCHANGED <<policies, opc, change, counts, money, judging, charge, verdict, hour,
                   calls>>

\* An evaluation is over, and so is what was noted about it.
Judged(t) ==
    /\ rules' = [rules EXCEPT ![t] = {}]
    /\ stood' = [stood EXCEPT ![t] = {}]
    /\ mayApply' = [mayApply EXCEPT ![t] = {}]

\* Reading the table raises: the request fails.
FillRaises(t) ==
    /\ Failures /\ pc[t] = "fill"
    /\ cacheLock' = [cacheLock EXCEPT ![WorkerOf[t]] = None]
    /\ Judged(t)
    /\ Go(t, "idle")
    /\ UNCHANGED <<policies, filled, cache, opc, change, counts, money, charge, verdict,
                   hour, calls>>

KindsOf(t) == {RuleKind[r] : r \in rules[t]}

\* Mutant: the purchase at hand is not added to the day's spending.
AllowsSpent(t) ==
    /\ "hold" \notin KindsOf(t)
    /\ "daycap" \in KindsOf(t) => spent[LocalDay[hour]] <= DayCap

\* The strictest rule decides; a day cap holds what would exceed it.
Allows(t) ==
    /\ "hold" \notin KindsOf(t)
    /\ "daycap" \in KindsOf(t) => spent[LocalDay[hour]] + 1 <= DayCap

\* A request that is not allowed is held or denied, and ends here.
Hold(t) ==
    /\ pc[t] = "judge" /\ ~Allows(t)
    /\ Judged(t)
    /\ Go(t, "idle")
    /\ UNCHANGED <<table, counts, money, charge, verdict, hour, calls>>

Count(f, d, condition) == IF condition THEN [f EXCEPT ![d] = @ + 1] ELSE f

\* The purchase is made, and its entry comes afterwards.  The sum reads no cost that is under
\* "cost", "price" or "total" (n: it is under "amount").
Execute(t) ==
    /\ pc[t] = "judge" /\ Allows(t)
    /\ day' = [day EXCEPT ![t] = LocalDay[hour]]
    /\ capped' = [capped EXCEPT ![t] = "daycap" \in KindsOf(t)]
    /\ made' = Count(made, LocalDay[hour], capped'[t])
    /\ \E n \in BOOLEAN :
          /\ named' = [named EXCEPT ![t] = n]
          /\ unseen' = Count(unseen, LocalDay[hour], capped'[t] /\ ~n)
    /\ Judged(t)
    /\ Go(t, "append")
    /\ UNCHANGED <<table, counts, spent, charge, hour, calls>>

\* A call returns after its purchase.
Bought(t) ==
    /\ day' = [day EXCEPT ![t] = 0]
    /\ capped' = [capped EXCEPT ![t] = FALSE]
    /\ named' = [named EXCEPT ![t] = FALSE]
    /\ Go(t, "idle")

Append(t) ==
    /\ pc[t] = "append"
    /\ spent' = Count(spent, LocalDay[hour], named[t])
    /\ Bought(t)
    /\ UNCHANGED <<table, counts, made, unseen, judging, charge, hour, calls>>

\* Purchases a day cap has let through that still have to get into the day's sum.
Pending(d) == {t \in Requests : pc[t] = "append" /\ capped[t] /\ named[t] /\ day[t] = d}

\* The append raises: the purchase is made, and the ledger does not tell of it.
AppendRaises(t) ==
    /\ Failures /\ pc[t] = "append"
    /\ unseen' = Count(unseen, day[t], capped[t] /\ named[t])
    /\ Bought(t)
    /\ UNCHANGED <<table, counts, spent, made, judging, charge, hour, calls>>

RequestStep(t) ==
    \/ Refuse(t)
    \/ Pass(t)
    \/ Record(t)
    \/ Hit(t)
    \/ FillRead(t)
    \/ FillStore(t)
    \/ FillRaises(t)
    \/ Hold(t)
    \/ Execute(t)
    \/ Append(t)
    \/ AppendRaises(t)

----------------------------------------------------------------------------
(* The owner's changes, time and restarts *)

\* add_policy: the row is committed; the cache is invalidated afterwards.
AddPolicy(o, r) ==
    /\ opc[o] = "idle" /\ r \notin policies
    /\ policies' = policies \cup {r}
    /\ mayApply' = [t \in Requests |-> IF pc[t] \in Evaluating THEN mayApply[t] \cup {r} ELSE {}]
    /\ opc' = [opc EXCEPT ![o] = "invalidate"]
    /\ change' = [change EXCEPT ![o] = r]
    /\ UNCHANGED <<filled, cache, cacheLock, counts, money, rules, stood, charge,
                   verdict, hour, calls, pc>>

\* delete_policy
DeletePolicy(o, r) ==
    /\ opc[o] = "idle" /\ r \in policies
    /\ policies' = policies \ {r}
    /\ stood' = [t \in Requests |-> stood[t] \ {r}]
    /\ opc' = [opc EXCEPT ![o] = "invalidate"]
    /\ change' = [change EXCEPT ![o] = r]
    /\ UNCHANGED <<filled, cache, cacheLock, counts, money, rules, mayApply, charge,
                   verdict, hour, calls, pc>>

\* Mutant: a rule change leaves the cache as it is.
InvalidateNothing(o) ==
    /\ opc[o] = "invalidate" /\ cacheLock[WorkerOf[o]] = None
    /\ opc' = [opc EXCEPT ![o] = "idle"]
    /\ change' = [change EXCEPT ![o] = None]
    /\ UNCHANGED <<policies, filled, cache, cacheLock, counts, money, judging, charge, verdict,
                   hour, calls, pc>>

\* _invalidate_cache, the last thing add_policy and delete_policy do.
Invalidate(o) ==
    /\ opc[o] = "invalidate" /\ cacheLock[WorkerOf[o]] = None
    /\ filled' = [filled EXCEPT ![WorkerOf[o]] = FALSE]
    /\ cache' = [cache EXCEPT ![WorkerOf[o]] = {}]
    /\ opc' = [opc EXCEPT ![o] = "idle"]
    /\ change' = [change EXCEPT ![o] = None]
    /\ UNCHANGED <<policies, cacheLock, counts, money, judging, charge, verdict,
                   hour, calls, pc>>

Tick ==
    /\ hour < MaxHour
    /\ hour' = hour + 1
    /\ UNCHANGED <<table, counts, money, judging, charge, verdict, calls, pc>>

Dies(t, w) == WorkerOf[t] = w

\* A process dies and is started again; policy.init_db seeds an empty table.  Entries that
\* were not written yet never will be.
Restart(w) ==
    /\ Failures
    /\ policies' = IF policies = {} THEN Defaults ELSE policies
    /\ filled' = [filled EXCEPT ![w] = FALSE]
    /\ cache' = [cache EXCEPT ![w] = {}]
    /\ cacheLock' = [cacheLock EXCEPT ![w] = None]
    /\ limitLock' = [limitLock EXCEPT ![w] = None]
    /\ opc' = [o \in Owners |-> IF WorkerOf[o] = w THEN "idle" ELSE opc[o]]
    /\ change' = [o \in Owners |-> IF WorkerOf[o] = w THEN None ELSE change[o]]
    /\ pc' = [t \in Requests |-> IF Dies(t, w) THEN "idle" ELSE pc[t]]
    /\ actor' = [t \in Requests |-> IF Dies(t, w) THEN None ELSE actor[t]]
    /\ bucket' = [t \in Requests |-> IF Dies(t, w) THEN 0 ELSE bucket[t]]
    /\ day' = [t \in Requests |-> IF Dies(t, w) THEN 0 ELSE day[t]]
    /\ capped' = [t \in Requests |-> capped[t] /\ ~Dies(t, w)]
    /\ named' = [t \in Requests |-> named[t] /\ ~Dies(t, w)]
    /\ unseen' = [d \in Days |-> unseen[d] + Cardinality({t \in Pending(d) : Dies(t, w)})]
    /\ rules' = [t \in Requests |-> IF Dies(t, w) THEN {} ELSE rules[t]]
    /\ stood' = [t \in Requests |-> IF Dies(t, w) THEN {} ELSE stood[t]]
    /\ mayApply' = [t \in Requests |->
            IF Dies(t, w) \/ pc[t] \notin Evaluating THEN {}
            ELSE mayApply[t] \cup policies']
    /\ UNCHANGED <<hourly, daily, spent, made, hour, calls>>

Next ==
    \/ \E t \in Requests : Begin(t) \/ RequestStep(t)
    \/ \E o \in Owners :
          \/ \E r \in Rules : AddPolicy(o, r) \/ DeletePolicy(o, r)
          \/ Invalidate(o)
    \/ \E w \in Workers : Restart(w)
    \/ Tick

Spec == Init /\ [][Next]_vars

----------------------------------------------------------------------------
(* Properties *)

\* A cache differs from the table only by changes that have not returned yet: a fill
\* that read the table before a change cannot outlive the change's invalidation
\* (policy.py:149-160, 182, 198).
CacheCoherent ==
    \A w \in Workers, r \in Rules :
        filled[w] /\ r \notin Changing => (r \in cache[w] <=> r \in policies)

\* An evaluation judges by every rule whose change had returned before it began
\* and that stayed, and by no rule that was gone by then: a deleted rule cannot
\* hold a purchase any more, an added one cannot be passed by
\* (policy.py:163-199, 230-235).
RulesInForceApply ==
    \A t \in Requests :
        pc[t] = "judge" => stood[t] \subseteq rules[t] /\ rules[t] \subseteq mayApply[t]

\* No bucket counts more than its limit: concurrent requests cannot both take the
\* last place, also across the turn of an hour (limits.py:76-114).
CapsHold ==
    /\ HourlyLimit > 0 => \A h \in Hours, a \in Actors : hourly[h][a] <= HourlyLimit
    /\ DailyCap > 0 => \A d \in Days : daily[d] <= DailyCap

\* The day cap reads the ledger before the purchase and the entry comes after it, so
\* purchases that run at once can exceed it, but by no more than their number less
\* one, and by the purchases that the sum never finds: those whose entry was lost to a
\* failure or a restart, and those whose cost is not under "amount".  Of such purchases the
\* cap stops none, also one at a time (policy.py:214-250, ledger.py:211-242,
\* consent.py:289-290).
OvershootBounded ==
    \A d \in Days : made[d] + 1 <= DayCap + Cardinality(Requests) + unseen[d]

\* A lock is held only by the call that works under it: none stays taken when the
\* read raises or a request is refused, so nobody waits for good
\* (policy.py:157-160, limits.py:80-102).
LocksAreReleased ==
    \A w \in Workers, t \in Requests :
        /\ cacheLock[w] = t => pc[t] = "fill" /\ WorkerOf[t] = w
        /\ limitLock[w] = t => pc[t] = "record" /\ WorkerOf[t] = w
=============================================================================
