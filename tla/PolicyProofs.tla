---------------------------- MODULE PolicyProofs ----------------------------
(***************************************************************************)
(* Proofs about the policy engine, for any number of threads, rules, hours *)
(* and limits, with failures and restarts.                                 *)
(***************************************************************************)
EXTENDS PolicyEngine, FiniteSetTheorems, TLAPS

----------------------------------------------------------------------------
(* Types *)

\* A call whose limits are being checked has its actor, a change its rule.
Typed ==
    /\ TypeOK
    /\ \A o \in Owners : opc[o] = "invalidate" => change[o] \in Rules
    /\ \A t \in Requests : pc[t] \in {"check", "record"} => actor[t] \in Actors

tableTypes ==
    /\ policies \subseteq Rules
    /\ filled \in [Workers -> BOOLEAN]
    /\ cache \in [Workers -> SUBSET Rules]
    /\ cacheLock \in [Workers -> {None} \cup Requests]
    /\ opc \in [Owners -> {"idle", "invalidate"}]
    /\ change \in [Owners -> Rules \cup {None}]
    /\ \A o \in Owners : opc[o] = "invalidate" => change[o] \in Rules

countTypes ==
    /\ limitLock \in [Workers -> {None} \cup Requests]
    /\ hourly \in [Hours -> [Actors -> Nat]]
    /\ daily \in [Days -> Nat]
    /\ hour \in Hours
    /\ calls \in 0..MaxCalls

moneyTypes ==
    /\ spent \in [Days -> Nat]
    /\ made \in [Days -> Nat]
    /\ unseen \in [Days -> Nat]

callTypes ==
    /\ pc \in [Requests -> PCs]
    /\ actor \in [Requests -> Actors \cup {None}]
    /\ bucket \in [Requests -> Hours]
    /\ day \in [Requests -> Days]
    /\ capped \in [Requests -> BOOLEAN]
    /\ named \in [Requests -> BOOLEAN]
    /\ \A t \in Requests : pc[t] \in {"check", "record"} => actor[t] \in Actors

judgingTypes ==
    /\ rules \in [Requests -> SUBSET Rules]
    /\ stood \in [Requests -> SUBSET Rules]
    /\ mayApply \in [Requests -> SUBSET Rules]

LEMMA TypesAreTheirParts ==
    Typed <=> tableTypes /\ countTypes /\ moneyTypes /\ callTypes /\ judgingTypes
BY DEF Typed, TypeOK, tableTypes, countTypes, moneyTypes, callTypes, judgingTypes

LEMMA PendingIsFinite ==
    ASSUME NEW d
    PROVE  /\ IsFiniteSet(Pending(d)) /\ Cardinality(Pending(d)) \in Nat
           /\ Cardinality(Requests) \in Nat
           /\ Cardinality(Pending(d)) <= Cardinality(Requests)
<1>1. Pending(d) \subseteq Requests /\ IsFiniteSet(Requests)
  BY PoolAssumption DEF Pending
<1>2. QED
  BY <1>1, FS_Subset, FS_CardinalityType

LEMMA CountsStay ==
    ASSUME NEW f \in [Days -> Nat], NEW d \in Days, NEW c
    PROVE  Count(f, d, c) \in [Days -> Nat]
<1>1. CASE c
  BY <1>1 DEF Count
<1>2. CASE ~c
  BY <1>2 DEF Count
<1>3. QED BY <1>1, <1>2

LEMMA RequestKeepsTypes ==
    ASSUME Typed, NEW t \in Requests, Begin(t) \/ RequestStep(t)
    PROVE  Typed'
<1> USE PolicyAssumption
<1>0. /\ tableTypes /\ countTypes /\ moneyTypes /\ callTypes /\ judgingTypes
      /\ hour \in Hours /\ bucket[t] \in Hours /\ day[t] \in Days
      /\ WorkerOf[t] \in Workers
  BY TypesAreTheirParts DEF countTypes, callTypes
<1>a. LocalDay[hour] \in Days /\ UtcDay[bucket[t]] \in Days
  BY <1>0 DEF Hours, Days
<1>1. tableTypes'
  <2> USE <1>0 DEF tableTypes, judgingTypes
  <2>1. CASE FillRead(t)
    BY <2>1 DEF FillRead
  <2>2. CASE FillStore(t)
    BY <2>2 DEF FillStore
  <2>3. CASE FillRaises(t)
    BY <2>3 DEF FillRaises
  <2>4. CASE Begin(t) \/ Refuse(t) \/ Pass(t) \/ Record(t) \/ Hit(t) \/ Hold(t) \/ Execute(t)
             \/ Append(t) \/ AppendRaises(t)
    BY <2>4 DEF Begin, Refuse, Pass, Record, Hit, Hold, Execute, Append, AppendRaises, table
  <2>5. QED BY <2>1, <2>2, <2>3, <2>4 DEF RequestStep
<1>2. countTypes'
  <2> USE <1>0 DEF countTypes
  <2>1. CASE Begin(t)
    BY <2>1 DEF Begin, counts
  <2>2. CASE Pass(t)
    <3>1. UNCHANGED <<hourly, daily, hour, calls>>
      BY <2>2 DEF Pass
    <3>2. limitLock' = [limitLock EXCEPT ![WorkerOf[t]] = t]
      BY <2>2 DEF Pass
    <3>3. QED BY <3>1, <3>2
  <2>3. CASE Record(t)
    <3>1. actor[t] \in Actors
      BY <2>3 DEF callTypes, Record
    <3>2. /\ limitLock' = [limitLock EXCEPT ![WorkerOf[t]] = None]
          /\ hourly' = [hourly EXCEPT ![bucket[t]][actor[t]] = @ + 1]
          /\ daily' = [daily EXCEPT ![UtcDay[bucket[t]]] = @ + 1]
          /\ UNCHANGED <<hour, calls>>
      BY <2>3 DEF Record
    <3>3. hourly' \in [Hours -> [Actors -> Nat]]
      BY <3>1, <3>2
    <3>4. daily' \in [Days -> Nat]
      BY <1>a, <3>2
    <3>5. QED BY <3>2, <3>3, <3>4
  <2>4. CASE Refuse(t) \/ Hit(t) \/ FillRead(t) \/ FillStore(t) \/ FillRaises(t) \/ Hold(t)
             \/ Execute(t) \/ Append(t) \/ AppendRaises(t)
    <3>1. UNCHANGED <<counts, hour, calls>>
      BY <2>4 DEF Refuse, Hit, FillRead, FillStore, FillRaises, Hold, Execute, Append,
                  AppendRaises
    <3>2. QED BY <3>1 DEF counts
  <2>5. QED BY <2>1, <2>2, <2>3, <2>4 DEF RequestStep
<1>3. moneyTypes'
  <2> USE <1>0 DEF moneyTypes
  <2>1. CASE Append(t)
    <3>1. /\ spent' = Count(spent, LocalDay[hour], named[t])
          /\ UNCHANGED <<made, unseen>>
      BY <2>1 DEF Append
    <3>2. spent' \in [Days -> Nat]
      BY <1>a, <3>1, CountsStay
    <3>3. QED BY <3>1, <3>2
  <2>2. CASE AppendRaises(t)
    <3>1. /\ unseen' = Count(unseen, day[t], capped[t] /\ named[t])
          /\ UNCHANGED <<made, spent>>
      BY <2>2 DEF AppendRaises
    <3>2. unseen' \in [Days -> Nat]
      BY <3>1, CountsStay
    <3>3. QED BY <3>1, <3>2
  <2>3. CASE Execute(t)
    <3>1. /\ made' = Count(made, LocalDay[hour], capped'[t])
          /\ \E n \in BOOLEAN : unseen' = Count(unseen, LocalDay[hour], capped'[t] /\ ~n)
          /\ UNCHANGED spent
      BY <2>3 DEF Execute
    <3>2. made' \in [Days -> Nat]
      BY <1>a, <3>1, CountsStay
    <3>3. unseen' \in [Days -> Nat]
      BY <1>a, <3>1, CountsStay
    <3>4. QED BY <3>1, <3>2, <3>3
  <2>4. CASE Begin(t) \/ Refuse(t) \/ Pass(t) \/ Record(t) \/ Hit(t) \/ FillRead(t)
             \/ FillStore(t) \/ FillRaises(t) \/ Hold(t)
    BY <2>4 DEF Begin, Refuse, Pass, Record, Hit, FillRead, FillStore, FillRaises, Hold, money
  <2>5. QED BY <2>1, <2>2, <2>3, <2>4 DEF RequestStep
<1>4. callTypes'
  <2> USE <1>0 DEF callTypes, PCs, Go, charge, verdict
  <2>1. CASE Begin(t)
    BY <2>1 DEF Begin
  <2>2. CASE Refuse(t) \/ Record(t)
    <3>1. 0 \in Hours
      BY DEF Hours
    <3>2. pc' = [pc EXCEPT ![t] = "idle"] \/ pc' = [pc EXCEPT ![t] = "evaluate"]
      BY <2>2 DEF Refuse, Record
    <3>3. pc' \in [Requests -> PCs]
      BY <3>2
    <3>4. actor' = [actor EXCEPT ![t] = None] /\ bucket' = [bucket EXCEPT ![t] = 0]
      BY <2>2 DEF Refuse, Record, Charged
    <3>5. UNCHANGED <<day, capped, named>>
      BY <2>2 DEF Refuse, Record
    <3>6. QED BY <3>1, <3>2, <3>3, <3>4, <3>5
  <2>3. CASE Pass(t)
    BY <2>3 DEF Pass
  <2>4. CASE Hit(t) \/ FillRead(t) \/ FillStore(t) \/ FillRaises(t) \/ Hold(t)
    BY <2>4 DEF Hit, FillRead, FillStore, FillRaises, Hold
  <2>5. CASE Execute(t)
    <3>1. /\ day' \in [Requests -> Days] /\ capped' \in [Requests -> BOOLEAN]
          /\ named' \in [Requests -> BOOLEAN]
      BY <1>a, <2>5 DEF Execute
    <3>2. pc' = [pc EXCEPT ![t] = "append"] /\ UNCHANGED <<actor, bucket>>
      BY <2>5 DEF Execute
    <3>3. QED BY <3>1, <3>2
  <2>6. CASE Append(t) \/ AppendRaises(t)
    <3>1. /\ day' = [day EXCEPT ![t] = 0] /\ capped' = [capped EXCEPT ![t] = FALSE]
          /\ named' = [named EXCEPT ![t] = FALSE]
      BY <2>6 DEF Append, AppendRaises, Bought
    <3>2. 0 \in Days
      BY DEF Days
    <3>3. pc' = [pc EXCEPT ![t] = "idle"] /\ UNCHANGED <<actor, bucket>>
      BY <2>6 DEF Append, AppendRaises, Bought
    <3>4. QED BY <3>1, <3>2, <3>3
  <2>7. QED BY <2>1, <2>2, <2>3, <2>4, <2>5, <2>6 DEF RequestStep
<1>5. judgingTypes'
  <2> USE <1>0 DEF judgingTypes
  <2>1. CASE Record(t)
    <3>1. policies \cup (Changing \cap Rules) \subseteq Rules
      BY DEF tableTypes
    <3>2. Changing \subseteq Rules
      BY DEF tableTypes, Changing
    <3>3. QED BY <2>1, <3>1, <3>2 DEF Record
  <2>2. CASE Hit(t) \/ FillRead(t)
    BY <2>2 DEF tableTypes, Hit, FillRead
  <2>3. CASE FillRaises(t) \/ Hold(t) \/ Execute(t)
    BY <2>3 DEF FillRaises, Hold, Execute, Judged
  <2>4. CASE Begin(t) \/ Refuse(t) \/ Pass(t) \/ FillStore(t) \/ Append(t) \/ AppendRaises(t)
    BY <2>4 DEF judging, Begin, Refuse, Pass, FillStore, Append, AppendRaises
  <2>5. QED BY <2>1, <2>2, <2>3, <2>4 DEF RequestStep
<1>6. QED BY <1>1, <1>2, <1>3, <1>4, <1>5
  DEF Typed, TypeOK, tableTypes, countTypes, moneyTypes, callTypes, judgingTypes

LEMMA OwnerKeepsTypes ==
    ASSUME Typed, NEW o \in Owners,
           Invalidate(o) \/ \E r \in Rules : AddPolicy(o, r) \/ DeletePolicy(o, r)
    PROVE  Typed'
<1> USE PolicyAssumption
<1>0. tableTypes /\ countTypes /\ moneyTypes /\ callTypes /\ judgingTypes
  BY TypesAreTheirParts
<1>1. CASE Invalidate(o)
  <2>1. tableTypes'
    BY <1>0, <1>1 DEF Invalidate, tableTypes
  <2>2. UNCHANGED <<counts, money, judging, charge, verdict, hour, calls, pc>>
    BY <1>1 DEF Invalidate
  <2>3. QED
    BY <1>0, <2>1, <2>2 DEF Typed, TypeOK, tableTypes, countTypes, moneyTypes, callTypes,
       judgingTypes, counts, money, judging, charge, verdict
<1>2. ASSUME NEW r \in Rules, AddPolicy(o, r) \/ DeletePolicy(o, r)
      PROVE  Typed'
  <2>1. tableTypes'
    BY <1>0, <1>2 DEF AddPolicy, DeletePolicy, tableTypes
  <2>2. judgingTypes'
    BY <1>0, <1>2 DEF AddPolicy, DeletePolicy, judgingTypes
  <2>3. UNCHANGED <<counts, money, charge, verdict, hour, calls, pc>>
    BY <1>2 DEF AddPolicy, DeletePolicy
  <2>4. QED
    BY <1>0, <2>1, <2>2, <2>3 DEF Typed, TypeOK, tableTypes, countTypes, moneyTypes,
       callTypes, judgingTypes, counts, money, charge, verdict
<1>3. QED BY <1>1, <1>2

LEMMA RestartKeepsTypes ==
    ASSUME Typed, NEW w \in Workers, Restart(w)
    PROVE  Typed'
<1> USE PolicyAssumption
<1>0. tableTypes /\ countTypes /\ moneyTypes /\ callTypes /\ judgingTypes
  BY TypesAreTheirParts
<1>1. tableTypes'
  BY <1>0 DEF Restart, tableTypes
<1>2. countTypes'
  BY <1>0 DEF Restart, countTypes
<1>3. callTypes'
  <2>1. 0 \in Hours /\ 0 \in Days
    BY DEF Hours, Days
  <2>2. QED BY <1>0, <2>1 DEF Restart, callTypes, PCs, Dies
<1>4. judgingTypes'
  <2>1. policies' \subseteq Rules
    BY <1>1 DEF tableTypes
  <2>2. QED BY <1>0, <2>1 DEF Restart, judgingTypes
<1>5. moneyTypes'
  <2>1. ASSUME NEW d \in Days
        PROVE  unseen[d] + Cardinality({t \in Pending(d) : Dies(t, w)}) \in Nat
    <3>1. {t \in Pending(d) : Dies(t, w)} \subseteq Pending(d)
      OBVIOUS
    <3>2. Cardinality({t \in Pending(d) : Dies(t, w)}) \in Nat
      BY <3>1, PendingIsFinite, FS_Subset, FS_CardinalityType
    <3>3. QED BY <1>0, <3>2 DEF moneyTypes
  <2>2. unseen' = [d \in Days |-> unseen[d] + Cardinality({t \in Pending(d) : Dies(t, w)})]
    BY DEF Restart
  <2>3. unseen' \in [Days -> Nat]
    BY <2>1, <2>2
  <2>4. QED BY <1>0, <2>3 DEF Restart, moneyTypes
<1>6. QED BY <1>1, <1>2, <1>3, <1>4, <1>5
  DEF Typed, TypeOK, tableTypes, countTypes, moneyTypes, callTypes, judgingTypes

LEMMA TypesAreInductive == Typed /\ [Next]_vars => Typed'
<1> SUFFICES ASSUME Typed, [Next]_vars PROVE Typed'
  OBVIOUS
<1> USE PolicyAssumption
<1>1. CASE Tick
  <2>1. hour' \in Hours
    BY <1>1 DEF Tick, Typed, TypeOK, Hours
  <2>2. UNCHANGED <<table, counts, money, judging, charge, verdict, calls, pc>>
    BY <1>1 DEF Tick
  <2>3. QED
    BY <2>1, <2>2 DEF Typed, TypeOK, table, counts, money, judging, charge, verdict
<1>2. CASE UNCHANGED vars
  BY <1>2 DEF vars, Typed, TypeOK, table, counts, money, judging, charge, verdict, Hours, Days
<1>3. QED
  BY <1>1, <1>2, RequestKeepsTypes, OwnerKeepsTypes, RestartKeepsTypes DEF Next

\* Every variable of the policy engine keeps its type, for any number of processes
\* (policy.py:32-34, limits.py:29-56).
THEOREM TypeCorrect == Spec => []TypeOK
<1>1. Init => Typed
  BY PolicyAssumption DEF Init, Typed, TypeOK, Hours, Days, PCs
<1>2. Typed => TypeOK
  BY DEF Typed
<1>3. QED
  BY <1>1, <1>2, TypesAreInductive, PTL DEF Spec

----------------------------------------------------------------------------
(* Locks *)

\* Who is inside holds the lock, and the holder is inside: so no two are.
LockInv ==
    /\ LocksAreReleased
    /\ \A t \in Requests :
          /\ pc[t] = "fill" => cacheLock[WorkerOf[t]] = t
          /\ pc[t] = "record" => limitLock[WorkerOf[t]] = t

LEMMA LocksAreInductive == Typed /\ LockInv /\ [Next]_vars => LockInv'
<1> SUFFICES ASSUME Typed, LockInv, [Next]_vars PROVE LockInv'
  OBVIOUS
<1> USE PolicyAssumption DEF LockInv, LocksAreReleased
<1>0. /\ pc \in [Requests -> PCs]
      /\ cacheLock \in [Workers -> {None} \cup Requests]
      /\ limitLock \in [Workers -> {None} \cup Requests]
  BY DEF Typed, TypeOK
<1>1. ASSUME NEW t \in Requests, Begin(t) \/ RequestStep(t)
      PROVE  LockInv'
  <2> USE <1>0 DEF Go
  <2>1. CASE Begin(t) \/ Refuse(t) \/ Hit(t) \/ Hold(t) \/ Execute(t) \/ Append(t)
             \/ AppendRaises(t)
    <3>1. /\ pc[t] \notin {"fill", "record"}
          /\ \E p : p \notin {"fill", "record"} /\ pc' = [pc EXCEPT ![t] = p]
          /\ UNCHANGED <<cacheLock, limitLock>>
      BY <2>1 DEF Begin, Refuse, Hit, Hold, Execute, Append, AppendRaises, Bought, table, counts
    <3>2. QED BY <3>1
  <2>2. CASE Pass(t)
    BY <2>2 DEF Pass, table
  <2>3. CASE Record(t)
    BY <2>3 DEF Record, table
  <2>4. CASE FillRead(t)
    BY <2>4 DEF FillRead, counts
  <2>5. CASE FillStore(t)
    BY <2>5 DEF FillStore, counts
  <2>6. CASE FillRaises(t)
    BY <2>6 DEF FillRaises, counts
  <2>7. QED BY <1>1, <2>1, <2>2, <2>3, <2>4, <2>5, <2>6 DEF RequestStep
<1>2. ASSUME NEW w \in Workers, Restart(w)
      PROVE  LockInv'
  BY <1>0, <1>2 DEF Restart, Dies
<1>3. CASE UNCHANGED <<pc, cacheLock, limitLock>>
  BY <1>3
<1>4. ASSUME NEW o \in Owners,
             Invalidate(o) \/ \E r \in Rules : AddPolicy(o, r) \/ DeletePolicy(o, r)
      PROVE  UNCHANGED <<pc, cacheLock, limitLock>>
  BY <1>4 DEF Invalidate, AddPolicy, DeletePolicy, counts
<1>5. Tick \/ UNCHANGED vars => UNCHANGED <<pc, cacheLock, limitLock>>
  BY DEF Tick, vars, table, counts
<1>6. QED BY <1>1, <1>2, <1>3, <1>4, <1>5 DEF Next

LEMMA LocksHold == Spec => [](Typed /\ LockInv)
<1>1. Init => Typed /\ LockInv
  BY PolicyAssumption
  DEF Init, Typed, TypeOK, Hours, Days, PCs, LockInv, LocksAreReleased
<1>2. QED
  BY <1>1, TypesAreInductive, LocksAreInductive, PTL DEF Spec

\* Only the call that works under a lock holds it, in any number of processes: a read
\* that raises and a refusal give it back (policy.py:157-160, limits.py:80-102).
THEOREM NoLockStaysTaken == Spec => []LocksAreReleased
<1>1. Typed /\ LockInv => LocksAreReleased
  BY DEF LockInv
<1>2. QED
  BY <1>1, LocksHold, PTL

----------------------------------------------------------------------------
(* The cache *)

\* One process serves every thread.
Alone(w) == Workers = {w}

\* What is read from the table or the cache is right up to the changes under way; what
\* stood through an evaluation is in the table and not under way, what may not
\* apply is neither.
CacheInv ==
    /\ CacheCoherent
    /\ \A t \in Requests, r \in Rules :
          /\ pc[t] = "fill" /\ r \notin Changing => (r \in rules[t] <=> r \in policies)
          /\ pc[t] \in Evaluating /\ r \in stood[t] => r \in policies /\ r \notin Changing
          /\ pc[t] \in Evaluating /\ (r \in policies \/ r \in Changing) => r \in mayApply[t]
          /\ pc[t] \in {"fill", "judge"} =>
                /\ r \in stood[t] => r \in rules[t]
                /\ r \in rules[t] => r \in mayApply[t]

LEMMA RequestKeepsCache ==
    ASSUME NEW w, Alone(w), Typed, LockInv, CacheInv, NEW t \in Requests,
           Begin(t) \/ RequestStep(t)
    PROVE  CacheInv'
<1> USE PolicyAssumption DEF CacheInv, CacheCoherent, Evaluating
<1>0. /\ pc \in [Requests -> PCs] /\ rules \in [Requests -> SUBSET Rules]
      /\ stood \in [Requests -> SUBSET Rules] /\ mayApply \in [Requests -> SUBSET Rules]
      /\ policies \subseteq Rules /\ filled \in [Workers -> BOOLEAN]
      /\ cache \in [Workers -> SUBSET Rules] /\ WorkerOf[t] \in Workers
  BY DEF Typed, TypeOK
<1>1. Changing' = Changing /\ policies' = policies
  BY DEF RequestStep, Begin, Refuse, Pass, Record, Hit, FillRead, FillStore, FillRaises,
     Hold, Execute, Append, AppendRaises, Bought, table, Changing
<1> HIDE DEF Changing
<1> USE <1>0, <1>1 DEF Go, judging, table
<1>2. CASE Begin(t) \/ Refuse(t) \/ Pass(t) \/ Append(t) \/ AppendRaises(t)
  BY <1>2 DEF Begin, Refuse, Pass, Append, AppendRaises, Bought
<1>3. CASE Record(t)
  BY <1>3 DEF Record
<1>4. CASE Hit(t)
  BY <1>4 DEF Hit
<1>5. CASE FillRead(t)
  BY <1>5 DEF FillRead
<1>6. CASE FillStore(t)
  BY <1>6 DEF FillStore
<1>7. CASE FillRaises(t) \/ Hold(t) \/ Execute(t)
  BY <1>7 DEF FillRaises, Hold, Execute, Judged
<1>8. QED BY <1>2, <1>3, <1>4, <1>5, <1>6, <1>7 DEF RequestStep

LEMMA OwnerKeepsCache ==
    ASSUME NEW w, Alone(w), Typed, LockInv, CacheInv, NEW o \in Owners,
           Invalidate(o) \/ \E r \in Rules : AddPolicy(o, r) \/ DeletePolicy(o, r)
    PROVE  CacheInv'
<1> USE PolicyAssumption DEF CacheInv, CacheCoherent, Evaluating
<1>0. /\ pc \in [Requests -> PCs] /\ rules \in [Requests -> SUBSET Rules]
      /\ stood \in [Requests -> SUBSET Rules] /\ mayApply \in [Requests -> SUBSET Rules]
      /\ policies \subseteq Rules /\ filled \in [Workers -> BOOLEAN]
      /\ cache \in [Workers -> SUBSET Rules] /\ WorkerOf[o] = w
      /\ opc \in [Owners -> {"idle", "invalidate"}]
      /\ change \in [Owners -> Rules \cup {None}]
  BY DEF Typed, TypeOK, Alone
<1>1. CASE Invalidate(o)
  <2>1. \A t \in Requests : pc[t] # "fill"
    BY <1>0, <1>1 DEF Invalidate, LockInv, Alone
  <2>2. \A r \in Rules : r \in Changing' => r \in Changing
    BY <1>0, <1>1 DEF Invalidate, Changing
  <2>3. \A v \in Workers : ~filled'[v]
    BY <1>0, <1>1 DEF Invalidate, Alone
  <2>4. UNCHANGED <<policies, judging, pc>>
    BY <1>1 DEF Invalidate
  <2>5. QED BY <1>0, <2>1, <2>2, <2>3, <2>4 DEF judging
<1>2. ASSUME NEW r \in Rules, AddPolicy(o, r)
      PROVE  CacheInv'
  <2>1. \A q \in Rules : q \in Changing' <=> q \in Changing \/ q = r
    BY <1>0, <1>2 DEF AddPolicy, Changing
  <2>2. /\ r \notin policies /\ policies' = policies \cup {r}
        /\ mayApply' = [t \in Requests |->
              IF pc[t] \in Evaluating THEN mayApply[t] \cup {r} ELSE {}]
        /\ UNCHANGED <<filled, cache, rules, stood, pc>>
    BY <1>2 DEF AddPolicy
  <2>3. QED BY <1>0, <2>1, <2>2
<1>3. ASSUME NEW r \in Rules, DeletePolicy(o, r)
      PROVE  CacheInv'
  <2>1. \A q \in Rules : q \in Changing' <=> q \in Changing \/ q = r
    BY <1>0, <1>3 DEF DeletePolicy, Changing
  <2>2. /\ r \in policies /\ policies' = policies \ {r}
        /\ stood' = [t \in Requests |-> stood[t] \ {r}]
        /\ UNCHANGED <<filled, cache, rules, mayApply, pc>>
    BY <1>3 DEF DeletePolicy
  <2>3. QED BY <1>0, <2>1, <2>2
<1>4. QED BY <1>1, <1>2, <1>3

LEMMA CacheIsInductive ==
    ASSUME NEW w, Alone(w)
    PROVE  Typed /\ LockInv /\ CacheInv /\ [Next]_vars => CacheInv'
<1> SUFFICES ASSUME Typed, LockInv, CacheInv, [Next]_vars PROVE CacheInv'
  OBVIOUS
<1>1. ASSUME NEW v \in Workers, Restart(v)
      PROVE  CacheInv'
  <2>1. \A t \in Requests : pc'[t] = "idle"
    BY <1>1, PolicyAssumption DEF Restart, Dies, Alone
  <2>2. \A u \in Workers : ~filled'[u]
    BY <1>1 DEF Restart, Alone, Typed, TypeOK
  <2>3. QED BY <2>1, <2>2 DEF CacheInv, CacheCoherent, Evaluating
<1>2. CASE Tick \/ UNCHANGED vars
  BY <1>2 DEF Tick, vars, table, judging, CacheInv, CacheCoherent, Changing, Evaluating
<1>3. QED BY <1>1, <1>2, RequestKeepsCache, OwnerKeepsCache DEF Next

LEMMA CacheHolds ==
    ASSUME NEW w, Alone(w)
    PROVE  Spec => []CacheInv
<1>1. Init => CacheInv
  BY DEF Init, CacheInv, CacheCoherent, Evaluating
<1>2. QED
  BY <1>1, CacheIsInductive, LocksHold, PTL DEF Spec

\* In one process the cached rules are those of the table, up to changes that have not
\* returned: no fill outlives an invalidation (policy.py:149-160, 182, 198).
THEOREM CacheIsCoherent ==
    ASSUME NEW w, Alone(w)
    PROVE  Spec => []CacheCoherent
<1>1. CacheInv => CacheCoherent
  BY DEF CacheInv
<1>2. QED
  BY <1>1, CacheHolds, PTL

\* In one process every request is judged by the rules in force when it was made
\* (policy.py:163-199, 230-235).
THEOREM RulesApplyAtOnce ==
    ASSUME NEW w, Alone(w)
    PROVE  Spec => []RulesInForceApply
<1>1. Typed /\ CacheInv => RulesInForceApply
  BY DEF Typed, TypeOK, CacheInv, RulesInForceApply
<1>2. QED
  BY <1>1, CacheHolds, LocksHold, PTL

----------------------------------------------------------------------------
(* The limits *)

\* A call that is about to be counted has still a place in its buckets.
CapsInv ==
    /\ CapsHold
    /\ \A t \in Requests : pc[t] = "record" =>
          /\ HourlyLimit > 0 => hourly[bucket[t]][actor[t]] < HourlyLimit
          /\ DailyCap > 0 => daily[UtcDay[bucket[t]]] < DailyCap

LEMMA CapsAreInductive ==
    ASSUME NEW w, Alone(w)
    PROVE  Typed /\ LockInv /\ CapsInv /\ [Next]_vars => CapsInv'
<1> SUFFICES ASSUME Typed, LockInv, CapsInv, [Next]_vars PROVE CapsInv'
  OBVIOUS
<1> USE PolicyAssumption DEF CapsInv, CapsHold
<1>0. /\ pc \in [Requests -> PCs]
      /\ hourly \in [Hours -> [Actors -> Nat]] /\ daily \in [Days -> Nat]
      /\ actor \in [Requests -> Actors \cup {None}] /\ bucket \in [Requests -> Hours]
      /\ HourlyLimit \in Nat /\ DailyCap \in Nat
      /\ \A t \in Requests : UtcDay[bucket[t]] \in Days /\ WorkerOf[t] = w
  BY DEF Typed, TypeOK, Hours, Days, Alone
<1>1. ASSUME NEW t \in Requests, Begin(t) \/ RequestStep(t)
      PROVE  CapsInv'
  <2> USE <1>0 DEF Go
  <2>1. CASE Begin(t) \/ Refuse(t) \/ Hit(t) \/ FillRead(t) \/ FillStore(t)
             \/ FillRaises(t) \/ Hold(t) \/ Execute(t) \/ Append(t) \/ AppendRaises(t)
    <3>1. /\ \E p : p # "record" /\ pc' = [pc EXCEPT ![t] = p]
          /\ UNCHANGED <<hourly, daily>>
          /\ \A u \in Requests : u # t => actor'[u] = actor[u] /\ bucket'[u] = bucket[u]
      BY <2>1 DEF Begin, Refuse, Hit, FillRead, FillStore, FillRaises, Hold, Execute, Append,
         AppendRaises, Bought, Charged, charge, counts
    <3>2. QED BY <3>1
  <2>2. CASE Pass(t)
    <3>1. /\ HourlyLimit > 0 => hourly[bucket[t]][actor[t]] < HourlyLimit
          /\ DailyCap > 0 => daily[UtcDay[bucket[t]]] < DailyCap
      <4>1. actor[t] \in Actors
        BY <2>2 DEF Pass, Typed
      <4>2. hourly[bucket[t]][actor[t]] \in Nat /\ daily[UtcDay[bucket[t]]] \in Nat
        BY <4>1
      <4>3. QED BY <2>2, <4>2 DEF Pass, OverLimit
    <3>2. pc' = [pc EXCEPT ![t] = "record"] /\ UNCHANGED <<hourly, daily, actor, bucket>>
      BY <2>2 DEF Pass, charge
    <3>3. QED BY <3>1, <3>2
  <2>3. CASE Record(t)
    <3>1. \A u \in Requests : u # t => pc[u] # "record"
      BY <2>3 DEF Record, LockInv
    <3>2. PICK h \in Hours, a \in Actors : h = bucket[t] /\ a = actor[t]
      BY <2>3 DEF Record, Typed
    <3>3. PICK d \in Days : d = UtcDay[h]
      BY <3>2
    <3>4. /\ hourly' = [hourly EXCEPT ![h][a] = @ + 1]
          /\ daily' = [daily EXCEPT ![d] = @ + 1]
          /\ pc' = [pc EXCEPT ![t] = "evaluate"]
      BY <2>3, <3>2, <3>3 DEF Record
    <3>5. /\ HourlyLimit > 0 => hourly[h][a] < HourlyLimit
          /\ DailyCap > 0 => daily[d] < DailyCap
      BY <2>3, <3>2, <3>3 DEF Record
    <3>6. HourlyLimit > 0 => \A g \in Hours, b \in Actors : hourly'[g][b] <= HourlyLimit
      BY <3>4, <3>5
    <3>7. DailyCap > 0 => \A e \in Days : daily'[e] <= DailyCap
      BY <3>4, <3>5
    <3>8. \A u \in Requests : pc'[u] # "record"
      BY <3>1, <3>4
    <3>9. QED BY <3>6, <3>7, <3>8
  <2>4. QED BY <1>1, <2>1, <2>2, <2>3 DEF RequestStep
<1>2. ASSUME NEW v \in Workers, Restart(v)
      PROVE  CapsInv'
  BY <1>0, <1>2 DEF Restart, Dies, Alone
<1>3. ASSUME NEW o \in Owners,
             Invalidate(o) \/ \E r \in Rules : AddPolicy(o, r) \/ DeletePolicy(o, r)
      PROVE  UNCHANGED <<pc, hourly, daily, actor, bucket>>
  BY <1>3 DEF Invalidate, AddPolicy, DeletePolicy, counts, charge
<1>4. Tick \/ UNCHANGED vars => UNCHANGED <<pc, hourly, daily, actor, bucket>>
  BY DEF Tick, vars, counts, charge
<1>5. CASE UNCHANGED <<pc, hourly, daily, actor, bucket>>
  BY <1>5
<1>6. QED BY <1>1, <1>2, <1>3, <1>4, <1>5 DEF Next

\* In one process no hour and no day counts more than its limit, however many requests
\* arrive at once (limits.py:76-114).
THEOREM CapsAlwaysHold ==
    ASSUME NEW w, Alone(w)
    PROVE  Spec => []CapsHold
<1>1. Init => CapsInv
  BY PolicyAssumption DEF Init, CapsInv, CapsHold
<1>2. CapsInv => CapsHold
  BY DEF CapsInv
<1>3. QED
  BY <1>1, <1>2, CapsAreInductive, LocksHold, PTL DEF Spec

----------------------------------------------------------------------------
(* The day cap *)

\* A later hour is never of an earlier local day.
DaysGoOn == \A g, h \in Hours : g <= h => LocalDay[g] <= LocalDay[h]

\* What a day cap has let through is in the sum that the rules read, on its way there, or
\* never to be found, from the day on that the clock shows.
OvershootInv ==
    /\ OvershootBounded
    /\ \A d \in Days : LocalDay[hour] <= d =>
          made[d] <= spent[d] + Cardinality(Pending(d)) + unseen[d]
    /\ \A t \in Requests : pc[t] = "append" => day[t] <= LocalDay[hour]

\* The counts of a day are numbers.
LEMMA DayTypes ==
    ASSUME Typed, NEW d \in Days
    PROVE  /\ made[d] \in Nat /\ spent[d] \in Nat /\ unseen[d] \in Nat /\ DayCap \in Nat
           /\ Cardinality(Pending(d)) \in Nat /\ Cardinality(Requests) \in Nat
BY PolicyAssumption, PendingIsFinite DEF Typed, TypeOK

LEMMA RequestKeepsOvershoot ==
    ASSUME Typed, OvershootInv, NEW t \in Requests, Begin(t) \/ RequestStep(t)
    PROVE  OvershootInv'
<1>0. /\ pc \in [Requests -> PCs] /\ day \in [Requests -> Days]
      /\ capped \in [Requests -> BOOLEAN] /\ named \in [Requests -> BOOLEAN]
      /\ spent \in [Days -> Nat] /\ made \in [Days -> Nat] /\ unseen \in [Days -> Nat]
      /\ LocalDay[hour] \in Days
  BY PolicyAssumption DEF Typed, TypeOK, Hours, Days
<1>a. Typed'
  BY RequestKeepsTypes
<1>1. CASE Execute(t)
  <2> DEFINE today == LocalDay[hour]
  <2>1. PICK n \in BOOLEAN :
          /\ day' = [day EXCEPT ![t] = today] /\ pc' = [pc EXCEPT ![t] = "append"]
          /\ named' = [named EXCEPT ![t] = n] /\ capped' = [capped EXCEPT ![t] = capped'[t]]
          /\ made' = Count(made, today, capped'[t])
          /\ unseen' = Count(unseen, today, capped'[t] /\ ~n)
          /\ UNCHANGED <<hour, spent>> /\ pc[t] = "judge"
          /\ capped'[t] = ("daycap" \in KindsOf(t))
    BY <1>0, <1>1 DEF Execute, Go
  <2>2. ASSUME NEW d \in Days
        PROVE  /\ made'[d] + 1 <= DayCap + Cardinality(Requests) + unseen'[d]
               /\ today <= d => made'[d] <= spent'[d] + Cardinality(Pending(d)') + unseen'[d]
    <3>1. t \notin Pending(d) /\ IsFiniteSet(Pending(d))
      BY <2>1, PendingIsFinite DEF Pending
    <3>a. /\ made[d] \in Nat /\ spent[d] \in Nat /\ unseen[d] \in Nat /\ DayCap \in Nat
          /\ Cardinality(Pending(d)) \in Nat /\ Cardinality(Requests) \in Nat
      BY DayTypes
    <3>2. CASE d = today /\ capped'[t]
      <4>1. spent[d] + 1 <= DayCap
        BY <1>0, <1>1, <2>1, <3>2 DEF Execute, Allows
      <4>2. made[d] <= spent[d] + Cardinality(Pending(d)) + unseen[d]
        BY <1>0, <3>2 DEF OvershootInv, Days
      <4>3. Cardinality(Pending(d)) + 1 <= Cardinality(Requests)
        <5>1. Pending(d) \cup {t} \subseteq Requests
          BY DEF Pending
        <5>2. Cardinality(Pending(d) \cup {t}) = Cardinality(Pending(d)) + 1
          BY <3>1, FS_AddElement
        <5>3. Cardinality(Pending(d) \cup {t}) <= Cardinality(Requests)
          BY <5>1, PoolAssumption, FS_Subset
        <5>4. QED BY <5>2, <5>3
      <4>4. made'[d] = made[d] + 1 /\ spent'[d] = spent[d]
        BY <1>0, <2>1, <3>2 DEF Count
      <4>5. CASE n
        <5>1. unseen'[d] = unseen[d]
          BY <1>0, <2>1, <4>5, <3>2 DEF Count
        <5>2. Pending(d)' = Pending(d) \cup {t}
          BY <1>0, <2>1, <4>5, <3>2 DEF Pending
        <5>3. Cardinality(Pending(d)') = Cardinality(Pending(d)) + 1
          BY <3>1, <5>2, FS_AddElement
        <5>4. made'[d] + 1 <= DayCap + Cardinality(Requests) + unseen'[d]
          BY <3>a, <4>1, <4>2, <4>3, <4>4, <5>1
        <5>5. made'[d] <= spent'[d] + Cardinality(Pending(d)') + unseen'[d]
          BY <3>a, <4>2, <4>4, <5>1, <5>3
        <5>6. QED BY <5>4, <5>5
      <4>6. CASE ~n
        <5>1. unseen'[d] = unseen[d] + 1
          BY <1>0, <2>1, <4>6, <3>2 DEF Count
        <5>2. Pending(d)' = Pending(d)
          BY <1>0, <2>1, <4>6, <3>1 DEF Pending
        <5>3. made'[d] + 1 <= DayCap + Cardinality(Requests) + unseen'[d]
          BY <3>a, <4>1, <4>2, <4>3, <4>4, <5>1
        <5>4. made'[d] <= spent'[d] + Cardinality(Pending(d)') + unseen'[d]
          BY <3>a, <4>2, <4>4, <5>1, <5>2
        <5>5. QED BY <5>3, <5>4
      <4>7. QED BY <4>5, <4>6
    <3>3. CASE ~(d = today /\ capped'[t])
      <4>1. Pending(d)' = Pending(d)
        BY <1>0, <2>1, <3>1, <3>3 DEF Pending
      <4>2. made'[d] = made[d] /\ unseen'[d] = unseen[d] /\ spent'[d] = spent[d]
        BY <1>0, <2>1, <3>3 DEF Count
      <4>3. QED BY <4>1, <4>2 DEF OvershootInv, OvershootBounded
    <3>4. QED BY <3>2, <3>3
  <2>3. \A u \in Requests : pc'[u] = "append" => day'[u] <= LocalDay[hour']
    BY <1>0, <2>1 DEF OvershootInv, Days
  <2>4. QED BY <2>1, <2>2, <2>3 DEF OvershootInv, OvershootBounded
<1>2. CASE Append(t) \/ AppendRaises(t)
  <2>1. /\ day' = [day EXCEPT ![t] = 0] /\ pc' = [pc EXCEPT ![t] = "idle"]
        /\ capped' = [capped EXCEPT ![t] = FALSE] /\ named' = [named EXCEPT ![t] = FALSE]
        /\ UNCHANGED <<hour, made>> /\ pc[t] = "append"
    BY <1>2 DEF Append, AppendRaises, Bought, Go
  <2>2. ASSUME NEW d \in Days
        PROVE  /\ made'[d] + 1 <= DayCap + Cardinality(Requests) + unseen'[d]
               /\ LocalDay[hour'] <= d =>
                     made'[d] <= spent'[d] + Cardinality(Pending(d)') + unseen'[d]
    <3>1. Pending(d)' = Pending(d) \ {t}
      BY <1>0, <2>1 DEF Pending
    <3>2. IsFiniteSet(Pending(d)) /\ made'[d] = made[d]
      BY <2>1, PendingIsFinite
    <3>a. /\ made[d] \in Nat /\ spent[d] \in Nat /\ unseen[d] \in Nat /\ DayCap \in Nat
          /\ Cardinality(Pending(d)) \in Nat /\ Cardinality(Requests) \in Nat
      BY DayTypes
    <3>b. LocalDay[hour'] <= d => made[d] <= spent[d] + Cardinality(Pending(d)) + unseen[d]
      BY <2>1 DEF OvershootInv
    <3>3. spent[d] <= spent'[d] /\ unseen[d] <= unseen'[d]
      <4>1. /\ spent' = spent \/ spent' = [spent EXCEPT ![LocalDay[hour]] = @ + 1]
            /\ unseen' = unseen \/ unseen' = [unseen EXCEPT ![day[t]] = @ + 1]
        BY <1>2 DEF Append, AppendRaises, Count
      <4>2. QED BY <1>0, <4>1
    <3>4. /\ spent'[d] \in Nat /\ unseen'[d] \in Nat
          /\ made[d] + 1 <= DayCap + Cardinality(Requests) + unseen[d]
      BY <1>a DEF Typed, TypeOK, OvershootInv, OvershootBounded
    <3>5. CASE t \notin Pending(d)
      <4>1. Pending(d)' = Pending(d)
        BY <3>1, <3>5
      <4>2. made'[d] + 1 <= DayCap + Cardinality(Requests) + unseen'[d]
        BY <3>a, <3>2, <3>3, <3>4
      <4>3. ASSUME LocalDay[hour'] <= d
            PROVE  made'[d] <= spent'[d] + Cardinality(Pending(d)') + unseen'[d]
        BY <3>a, <3>b, <3>2, <3>3, <3>4, <4>1, <4>3
      <4>4. QED BY <4>2, <4>3
    <3>6. CASE t \in Pending(d)
      <4>1. Cardinality(Pending(d)') = Cardinality(Pending(d)) - 1
        BY <3>1, <3>2, <3>6, FS_RemoveElement
      <4>2. capped[t] /\ named[t] /\ day[t] = d /\ d <= LocalDay[hour]
        BY <3>6 DEF Pending, OvershootInv
      <4>3. LocalDay[hour'] <= d => d = LocalDay[hour]
        BY <1>0, <2>1, <4>2 DEF Days
      <4>4. LocalDay[hour'] <= d =>
               spent'[d] + unseen'[d] = spent[d] + unseen[d] + 1
        BY <1>0, <1>2, <2>1, <4>2, <4>3 DEF Append, AppendRaises, Count
      <4>5. made'[d] + 1 <= DayCap + Cardinality(Requests) + unseen'[d]
        BY <3>a, <3>2, <3>3, <3>4
      <4>6. ASSUME LocalDay[hour'] <= d
            PROVE  made'[d] <= spent'[d] + Cardinality(Pending(d)') + unseen'[d]
        BY <3>a, <3>b, <3>2, <3>4, <4>1, <4>4, <4>6
      <4>7. QED BY <4>5, <4>6
    <3>7. QED BY <3>5, <3>6
  <2>3. \A u \in Requests : pc'[u] = "append" => day'[u] <= LocalDay[hour']
    BY <1>0, <2>1 DEF OvershootInv
  <2>4. QED BY <2>2, <2>3 DEF OvershootInv, OvershootBounded
<1>3. CASE Begin(t) \/ Refuse(t) \/ Pass(t) \/ Record(t) \/ Hit(t) \/ FillRead(t)
           \/ FillStore(t) \/ FillRaises(t) \/ Hold(t)
  <2>1. /\ pc[t] # "append" /\ \E p : p # "append" /\ pc' = [pc EXCEPT ![t] = p]
        /\ UNCHANGED <<verdict, money, hour>>
    BY <1>3 DEF Begin, Refuse, Pass, Record, Hit, FillRead, FillStore, FillRaises, Hold, Go
  <2>2. \A u \in Requests : pc'[u] = "append" <=> pc[u] = "append"
    BY <1>0, <2>1
  <2>3. \A d : Pending(d)' = Pending(d)
    BY <2>1, <2>2 DEF Pending, verdict
  <2>4. QED BY <2>1, <2>2, <2>3 DEF OvershootInv, OvershootBounded, verdict, money
<1>4. QED BY <1>1, <1>2, <1>3 DEF RequestStep

\* A restart loses the entries that are on their way, and counts them as lost.
LEMMA RestartKeepsOvershoot ==
    ASSUME Typed, OvershootInv, NEW w \in Workers, Restart(w)
    PROVE  OvershootInv'
<1>0. /\ pc \in [Requests -> PCs] /\ day \in [Requests -> Days]
      /\ capped \in [Requests -> BOOLEAN] /\ named \in [Requests -> BOOLEAN]
      /\ LocalDay[hour] \in Days
  BY PolicyAssumption DEF Typed, TypeOK, Hours, Days
<1>a. Typed'
  BY RestartKeepsTypes
<1>1. /\ pc' = [t \in Requests |-> IF Dies(t, w) THEN "idle" ELSE pc[t]]
      /\ day' = [t \in Requests |-> IF Dies(t, w) THEN 0 ELSE day[t]]
      /\ capped' = [t \in Requests |-> capped[t] /\ ~Dies(t, w)]
      /\ named' = [t \in Requests |-> named[t] /\ ~Dies(t, w)]
      /\ unseen' = [d \in Days |-> unseen[d] + Cardinality({t \in Pending(d) : Dies(t, w)})]
      /\ UNCHANGED <<spent, made, hour>>
  BY DEF Restart
<1>2. \A t \in Requests :
         /\ Dies(t, w) => pc'[t] # "append"
         /\ ~Dies(t, w) => /\ pc'[t] = pc[t] /\ day'[t] = day[t] /\ capped'[t] = capped[t]
                           /\ named'[t] = named[t]
  BY <1>0, <1>1
<1>3. ASSUME NEW d \in Days
      PROVE  /\ made'[d] + 1 <= DayCap + Cardinality(Requests) + unseen'[d]
             /\ LocalDay[hour'] <= d =>
                   made'[d] <= spent'[d] + Cardinality(Pending(d)') + unseen'[d]
  <2> DEFINE Lost == {t \in Pending(d) : Dies(t, w)}
  <2>1. Pending(d)' = Pending(d) \ Lost
    BY <1>2 DEF Pending
  <2>2. IsFiniteSet(Pending(d)) /\ Lost \subseteq Pending(d)
    BY PendingIsFinite
  <2>3. Cardinality(Lost) \in Nat
    BY <2>2, FS_Subset, FS_CardinalityType
  <2>4. made'[d] = made[d] /\ spent'[d] = spent[d] /\ unseen'[d] = unseen[d] + Cardinality(Lost)
    BY <1>1
  <2>5. LocalDay[hour'] <= d => made[d] <= spent[d] + Cardinality(Pending(d)) + unseen[d]
    BY <1>1 DEF OvershootInv
  <2>6. made[d] + 1 <= DayCap + Cardinality(Requests) + unseen[d]
    BY DEF OvershootInv, OvershootBounded
  <2>7. /\ made[d] \in Nat /\ spent[d] \in Nat /\ unseen[d] \in Nat /\ DayCap \in Nat
        /\ Cardinality(Pending(d)) \in Nat /\ Cardinality(Requests) \in Nat
    BY DayTypes
  <2>8. Cardinality(Pending(d)') = Cardinality(Pending(d)) - Cardinality(Lost)
    <3>1. Pending(d) \cap Lost = Lost
      BY <2>2
    <3>2. Cardinality(Pending(d) \ Lost) =
             Cardinality(Pending(d)) - Cardinality(Pending(d) \cap Lost)
      BY <2>2, FS_Difference
    <3>3. QED BY <2>1, <3>1, <3>2, Zenon
  <2>9. Cardinality(Pending(d)') \in Nat
    BY <2>1, <2>2, FS_Subset, FS_CardinalityType
  <2>10. made'[d] + 1 <= DayCap + Cardinality(Requests) + unseen'[d]
    BY <2>3, <2>4, <2>6, <2>7
  <2>11. ASSUME LocalDay[hour'] <= d
         PROVE  made'[d] <= spent'[d] + Cardinality(Pending(d)') + unseen'[d]
    BY <2>3, <2>4, <2>5, <2>7, <2>8, <2>9, <2>11
  <2>12. QED BY <2>10, <2>11
<1>4. \A t \in Requests : pc'[t] = "append" => day'[t] <= LocalDay[hour']
  BY <1>1, <1>2 DEF OvershootInv
<1>5. QED BY <1>3, <1>4 DEF OvershootInv, OvershootBounded

LEMMA OvershootIsInductive ==
    ASSUME DaysGoOn
    PROVE  Typed /\ OvershootInv /\ [Next]_vars => OvershootInv'
<1> SUFFICES ASSUME Typed, OvershootInv, [Next]_vars PROVE OvershootInv'
  OBVIOUS
<1> USE PolicyAssumption
<1>0. /\ day \in [Requests -> Days] /\ hour \in Hours
      /\ \A h \in Hours : LocalDay[h] \in Days
  BY DEF Typed, TypeOK, Hours, Days
<1>2. CASE Tick
  <2>1. /\ hour' = hour + 1 /\ hour < MaxHour
        /\ UNCHANGED <<pc, verdict, money>>
    BY <1>2 DEF Tick
  <2>2. hour' \in Hours /\ hour <= hour'
    BY <1>0, <2>1 DEF Hours
  <2>3. LocalDay[hour] <= LocalDay[hour']
    BY <1>0, <2>2 DEF DaysGoOn
  <2>4. \A d \in Days : LocalDay[hour'] <= d => LocalDay[hour] <= d
    BY <1>0, <2>2, <2>3 DEF Days
  <2>5. \A t \in Requests : pc'[t] = "append" => day'[t] <= LocalDay[hour']
    BY <1>0, <2>1, <2>2, <2>3 DEF OvershootInv, Days, verdict
  <2>6. \A d : Pending(d)' = Pending(d)
    BY <2>1 DEF Pending, verdict
  <2>7. QED BY <2>1, <2>4, <2>5, <2>6 DEF OvershootInv, OvershootBounded, money
<1>3. CASE UNCHANGED <<pc, verdict, money, hour>>
  BY <1>3 DEF OvershootInv, OvershootBounded, Pending, verdict, money
<1>4. ASSUME NEW o \in Owners,
             Invalidate(o) \/ \E r \in Rules : AddPolicy(o, r) \/ DeletePolicy(o, r)
      PROVE  UNCHANGED <<pc, verdict, money, hour>>
  BY <1>4 DEF Invalidate, AddPolicy, DeletePolicy
<1>5. UNCHANGED vars => UNCHANGED <<pc, verdict, money, hour>>
  BY DEF vars
<1>6. QED BY <1>2, <1>3, <1>4, <1>5, RequestKeepsOvershoot, RestartKeepsOvershoot DEF Next

\* The day cap is exceeded by fewer purchases than there are threads that buy, and by those
\* that the sum of the day never finds, in any number of processes and across restarts, as
\* long as the local date does not go back (policy.py:214-250, ledger.py:211-242,
\* consent.py:289-290).
THEOREM OvershootStaysBounded ==
    ASSUME Requests # {}, DaysGoOn
    PROVE  Spec => []OvershootBounded
<1>0. Init => Typed
  BY PolicyAssumption DEF Init, Typed, TypeOK, Hours, Days, PCs
<1>1. Init => OvershootInv
  <2> SUFFICES ASSUME Init PROVE OvershootInv
    OBVIOUS
  <2>1. Cardinality(Requests) \in Nat /\ Cardinality(Requests) # 0
    BY PoolAssumption, FS_CardinalityType, FS_EmptySet
  <2>2. \A d : Pending(d) = {}
    BY DEF Init, Pending
  <2>3. \A d : Cardinality(Pending(d)) = 0
    BY <2>2, FS_EmptySet
  <2>4. QED
    BY <2>1, <2>3, PolicyAssumption DEF Init, OvershootInv, OvershootBounded, Days
<1>2. OvershootInv => OvershootBounded
  BY DEF OvershootInv
<1>3. QED
  BY <1>0, <1>1, <1>2, TypesAreInductive, OvershootIsInductive, PTL DEF Spec
=============================================================================
