------------------------- MODULE ToolRequestsProofs -------------------------
(***************************************************************************)
(* Proofs about a guarded request from the call to its effect, for any     *)
(* calls, rules, homes, inboxes and number of requests.                    *)
(***************************************************************************)
EXTENDS ToolRequests, FiniteSetTheorems, SequenceTheorems, WellFoundedInduction, TLAPS

----------------------------------------------------------------------------
(* Amounts and scores *)

LEMMA LeastOfTwo ==
    ASSUME NEW a \in Int, NEW b \in Int
    PROVE  Min({a, b}) = (IF a <= b THEN a ELSE b) /\ Max({a, b}) = IF a <= b THEN b ELSE a
<1> DEFINE low == IF a <= b THEN a ELSE b
           high == IF a <= b THEN b ELSE a
<1>1. \A x \in {a, b} : (\A y \in {a, b} : x <= y) <=> x = low
  OBVIOUS
<1>2. \A x \in {a, b} : (\A y \in {a, b} : x >= y) <=> x = high
  OBVIOUS
<1>3. low \in {a, b} /\ high \in {a, b}
  OBVIOUS
<1> HIDE DEF low, high
<1>4. Min({a, b}) = low
  BY <1>1, <1>3 DEF Min
<1>5. Max({a, b}) = high
  BY <1>2, <1>3 DEF Max
<1>6. QED BY <1>4, <1>5 DEF low, high

\* The first of the keys for an amount that is given.
LEMMA FirstKey ==
    ASSUME NEW S, S \subseteq 1..4, S # {}
    PROVE  Min(S) \in S /\ \A i \in S : Min(S) <= i
<1>1. \E x \in S : \A y \in S : x <= y
  <2>1. CASE 1 \in S
    BY <2>1
  <2>2. CASE 1 \notin S /\ 2 \in S
    BY <2>2
  <2>3. CASE 1 \notin S /\ 2 \notin S /\ 3 \in S
    BY <2>3
  <2>4. CASE 1 \notin S /\ 2 \notin S /\ 3 \notin S
    <3>1. \A x \in S : x \in 1..4 /\ x = 4
      BY <2>4
    <3>2. 4 \in S
      BY <3>1
    <3>3. QED BY <3>1, <3>2
  <2>5. QED BY <2>1, <2>2, <2>3, <2>4
<1>2. QED BY <1>1 DEF Min

LEMMA KeysAreFour ==
    /\ DOMAIN AmountKeys = 1..4
    /\ AmountKeys[1] = "amount" /\ AmountKeys[2] = "cost"
    /\ AmountKeys[3] = "price" /\ AmountKeys[4] = "total"
BY DEF AmountKeys

\* An amount under the first key is the one that is judged.
LEMMA JudgedAmount ==
    ASSUME NEW args, "amount" \in DOMAIN args
    PROVE  Amount(args) = Number(args["amount"])
<1> DEFINE given == {i \in DOMAIN AmountKeys : AmountKeys[i] \in DOMAIN args}
<1>1. 1 \in given /\ given \subseteq 1..4
  BY KeysAreFour
<1>2. Amount(args) = Number(args[AmountKeys[Min(given)]])
  BY <1>1 DEF Amount
<1> HIDE DEF given
<1>3. Min(given) = 1
  <2>1. Min(given) \in given /\ Min(given) <= 1
    BY <1>1, FirstKey
  <2>2. Min(given) \in 1..4
    BY <1>1, <2>1
  <2>3. QED BY <2>1, <2>2
<1>4. QED BY <1>2, <1>3, KeysAreFour

\* The keys for an amount have what float() takes, or something that it refuses.
Counted(args) ==
    \A k \in DOMAIN args \cap {"amount", "cost", "price", "total"} :
        args[k] \in Int \cup {NaN, Junk}

LEMMA ExposureIsNumber ==
    ASSUME NEW args, Counted(args)
    PROVE  Exposure(args) \in Int \cup {NaN}
<1> DEFINE given == {i \in DOMAIN AmountKeys :
                       AmountKeys[i] \in DOMAIN args /\ args[AmountKeys[i]] # Junk}
<1>1. CASE given = {}
  BY <1>1 DEF Exposure
<1>2. CASE given # {}
  <2>1. given \subseteq 1..4
    BY KeysAreFour
  <2>2. \A i \in given : args[AmountKeys[i]] \in Int \cup {NaN}
    BY KeysAreFour DEF Counted
  <2>3. Exposure(args) = args[AmountKeys[Min(given)]]
    BY <1>2 DEF Exposure
  <2> HIDE DEF given
  <2>4. Min(given) \in given
    BY <1>2, <2>1, FirstKey
  <2>5. QED BY <2>2, <2>3, <2>4
<1>3. QED BY <1>1, <1>2

LEMMA ScoreIsPercent ==
    ASSUME NEW action, NEW args, Counted(args), NEW decision
    PROVE  Score(action, args, decision) \in 0..100
<1> DEFINE base == Base[Category(action)]
           money == IF action = "make_purchase" THEN Min({Exposure(args) \div 20, 40}) ELSE 0
           sum == base + Reaction(decision) + money
<1>0. CASE action = "make_purchase" /\ Exposure(args) = NaN
  BY <1>0 DEF Score
<1> SUFFICES ASSUME ~(action = "make_purchase" /\ Exposure(args) = NaN)
             PROVE  Score(action, args, decision) \in 0..100
  BY <1>0
<1>1. base \in Int
  BY DEF Base, Category
<1>2. Reaction(decision) \in Int
  BY DEF Reaction
<1>3. money \in Int
  <2>1. CASE action = "make_purchase"
    <3>1. Exposure(args) \div 20 \in Int
      BY <2>1, ExposureIsNumber
    <3>2. QED BY <3>1, LeastOfTwo
  <2>2. CASE action # "make_purchase"
    BY <2>2
  <2>3. QED BY <2>1, <2>2
<1>4. sum \in Int
  BY <1>1, <1>2, <1>3
<1>5. Score(action, args, decision) = Max({0, Min({100, sum})})
  BY DEF Score
<1> HIDE DEF sum
<1>6. Min({100, sum}) \in Int /\ Min({100, sum}) <= 100
  BY <1>4, LeastOfTwo
<1> DEFINE low == Min({100, sum})
<1>7. low \in Int /\ low <= 100 /\ Score(action, args, decision) = Max({0, low})
  BY <1>5, <1>6
<1> HIDE DEF low
<1>8. Max({0, low}) = IF 0 <= low THEN low ELSE 0
  BY <1>7, LeastOfTwo
<1>9. QED BY <1>7, <1>8

----------------------------------------------------------------------------
(* The loop over the rules *)

Decisions == {"allow", "hold", "deny"}
Judgement == [decision : Decisions, why : Int]

\* What the loop has found after the first n rules: the strictest verdict of any, and the first
\* rule that has it.
Strictest(decision, why, n, of) ==
    /\ decision \in Decisions /\ why \in 0..n
    /\ why > 0 => /\ decision # "allow" /\ of[why] = decision
                  /\ \A i \in 1..n : IF i < why THEN Severity[of[i]] < Severity[decision]
                                                 ELSE Severity[of[i]] <= Severity[decision]
    /\ why = 0 => decision = "allow" /\ \A i \in 1..n : of[i] = "allow"

LEMMA SeverityOrders ==
    /\ Severity["allow"] = 0 /\ Severity["hold"] = 1 /\ Severity["deny"] = 2
    /\ \A d \in Decisions : Severity[d] \in 0..2
BY DEF Severity, Decisions

\* One rule more: it has the strictest verdict, or what was found before has.
LEMMA OneMoreRule ==
    ASSUME NEW n \in Nat, NEW of \in [1..(n + 1) -> Decisions], NEW d, NEW w,
           Strictest(d, w, n, of)
    PROVE  /\ Severity[of[n + 1]] > Severity[d] => Strictest(of[n + 1], n + 1, n + 1, of)
           /\ ~(Severity[of[n + 1]] > Severity[d]) => Strictest(d, w, n + 1, of)
<1>1. \A i \in 1..(n + 1) : (i \in 1..n \/ i = n + 1) /\ of[i] \in Decisions
  OBVIOUS
<1>2. d \in Decisions /\ w \in 0..n /\ of[n + 1] \in Decisions /\ n + 1 \in 1..(n + 1)
  BY <1>1 DEF Strictest
<1>3. ASSUME Severity[of[n + 1]] > Severity[d]
      PROVE  Strictest(of[n + 1], n + 1, n + 1, of)
  <2>1. \A i \in 1..n : Severity[of[i]] <= Severity[d]
    BY <1>1, <1>2, SeverityOrders DEF Strictest
  <2>2. \A i \in 1..n : Severity[of[i]] < Severity[of[n + 1]]
    BY <1>1, <1>2, <1>3, <2>1, SeverityOrders
  <2>3. of[n + 1] # "allow"
    BY <1>2, <1>3, SeverityOrders
  <2>4. QED BY <1>1, <1>2, <2>2, <2>3, SeverityOrders DEF Strictest
<1>4. ASSUME ~(Severity[of[n + 1]] > Severity[d])
      PROVE  Strictest(d, w, n + 1, of)
  <2>1. Severity[of[n + 1]] <= Severity[d] /\ w \in 0..(n + 1) /\ w # n + 1
    BY <1>2, <1>4, SeverityOrders
  <2>2. CASE w > 0
    <3>1. /\ d # "allow" /\ of[w] = d
          /\ \A i \in 1..n : IF i < w THEN Severity[of[i]] < Severity[d]
                                       ELSE Severity[of[i]] <= Severity[d]
      BY <2>2 DEF Strictest
    <3>2. \A i \in 1..(n + 1) : IF i < w THEN Severity[of[i]] < Severity[d]
                                       ELSE Severity[of[i]] <= Severity[d]
      BY <1>1, <1>2, <2>1, <3>1
    <3>3. w # 0
      BY <2>2
    <3>4. QED BY <1>2, <2>1, <3>1, <3>2, <3>3 DEF Strictest
  <2>3. CASE w = 0
    <3>1. d = "allow" /\ \A i \in 1..n : of[i] = "allow"
      BY <2>3 DEF Strictest
    <3>2. of[n + 1] = "allow"
      BY <1>2, <2>1, <3>1, SeverityOrders DEF Decisions
    <3>3. \A i \in 1..(n + 1) : of[i] = "allow"
      BY <1>1, <3>1, <3>2
    <3>4. ~(w > 0)
      BY <2>3
    <3>5. QED BY <1>2, <2>1, <3>1, <3>3, <3>4 DEF Strictest
  <2>4. QED BY <1>2, <2>2, <2>3
<1>5. QED BY <1>3, <1>4

LEMMA OneRuleDecides ==
    ASSUME NEW rule, NEW action, NEW args, NEW now, NEW spent
    PROVE  OneRule(rule, action, args, now, spent) \in Decisions
BY Zenon DEF OneRule, Decisions

LEMMA LeastIn ==
    ASSUME NEW S, S \subseteq Nat, S # {}
    PROVE  \E m \in S : \A j \in S : m <= j
<1>1. PICK m \in S : \A j \in S : <<j, m>> \notin OpToRel(<, Nat)
  BY WFMin, NatLessThanWellFounded, Zenon
<1>2. \A j \in S : ~(j < m)
  BY <1>1, Zenon DEF OpToRel
<1>3. QED BY <1>2

\* f is what the loop computes, from mild and the verdicts in item.
IsLoop(f, n, mild, item) ==
    f = [i \in 0..n |-> IF i = 0 THEN mild ELSE Stricter(f[i - 1], item[i])]

\* The loop has a value: one round more goes on from what there is.
LEMMA LoopEnds ==
    ASSUME NEW all \in Nat, NEW mild, NEW item
    PROVE  \E f : IsLoop(f, all, mild, item)
<1> DEFINE Loop(f, n) == IsLoop(f, n, mild, item)
           missing == {n \in Nat : ~ \E f : Loop(f, n)}
<1>1. Loop([i \in 0..0 |-> mild], 0)
  BY DEF IsLoop
<1>2. ASSUME NEW n \in Nat, NEW f, Loop(f, n)
      PROVE  \E g : Loop(g, n + 1)
  <2> DEFINE next == Stricter(f[n], item[n + 1])
             g == [i \in 0..(n + 1) |-> IF i = n + 1 THEN next ELSE f[i]]
  <2>1. \A i \in 0..n : f[i] = IF i = 0 THEN mild ELSE Stricter(f[i - 1], item[i])
    BY <1>2 DEF IsLoop
  <2>2. ASSUME NEW i \in 0..(n + 1)
        PROVE  g[i] = IF i = 0 THEN mild ELSE Stricter(g[i - 1], item[i])
    <3>1. CASE i = 0
      BY <2>1, <3>1
    <3>2. CASE i = n + 1
      <4>1. g[i] = next /\ g[i - 1] = f[n] /\ i # 0
        BY <3>2
      <4>2. QED BY <3>2, <4>1
    <3>3. CASE i \in 1..n
      <4>1. g[i] = f[i] /\ g[i - 1] = f[i - 1] /\ i # 0 /\ i \in 0..n
        BY <3>3
      <4>2. QED BY <2>1, <4>1
    <3>4. QED BY <3>1, <3>2, <3>3
  <2>3. g = [i \in 0..(n + 1) |-> g[i]]
    OBVIOUS
  <2> HIDE DEF g
  <2>4. Loop(g, n + 1)
    BY <2>2, <2>3 DEF IsLoop
  <2>5. QED BY <2>4
<1>3. missing = {}
  <2> SUFFICES ASSUME missing # {} PROVE FALSE
    OBVIOUS
  <2> HIDE DEF Loop
  <2>1. PICK n \in missing : \A j \in missing : n <= j
    BY LeastIn
  <2>2. n \in Nat /\ n # 0
    BY <1>1, <2>1
  <2>3. n - 1 \in Nat /\ n - 1 \notin missing /\ (n - 1) + 1 = n
    BY <2>1, <2>2
  <2>4. PICK f : Loop(f, n - 1)
    BY <2>3
  <2>5. \E g : Loop(g, n)
    BY <1>2, <2>3, <2>4
  <2>6. QED BY <2>1, <2>5
<1>4. QED BY <1>3

LEMMA RulesAreList ==
    ASSUME rules \in RuleLists
    PROVE  Len(rules) \in Nat /\ DOMAIN rules = 1..Len(rules)
<1> DEFINE S == Range(rules)
<1>1. rules \in Seq(S)
  BY ToolAssumption
<1> HIDE DEF S
<1>2. QED BY <1>1

\* What the loop computes, whatever the number of rules.
LEMMA EvaluateIsStrictest ==
    ASSUME rules \in RuleLists, NEW action, NEW args, NEW now, NEW spent
    PROVE  LET v == Evaluate(action, args, now, spent) IN
           Strictest(v.decision, v.why, Len(rules),
                     [i \in 1..Len(rules) |-> OneRule(rules[i], action, args, now, spent)])
<1> DEFINE all == Len(rules)
           of == [i \in 1..all |-> OneRule(rules[i], action, args, now, spent)]
           mild == [decision |-> "allow", why |-> 0]
           item == [i \in 1..all |-> [decision |-> OneRule(rules[i], action, args, now, spent),
                                      why |-> i]]
           Is(f) == f = [i \in 0..all |->
                           IF i = 0 THEN mild
                           ELSE Stricter(f[i - 1],
                                         [decision |-> OneRule(rules[i], action, args, now, spent),
                                          why |-> i])]
           best == CHOOSE f : Is(f)
<1>1. all \in Nat /\ of \in [1..all -> Decisions]
  BY RulesAreList, OneRuleDecides
<1>2. \E f : Is(f)
  <2>1. PICK f : IsLoop(f, all, mild, item)
    <3> HIDE DEF mild, item, all
    <3>1. QED BY <1>1, LoopEnds, Zenon
  <2>2. \A i \in 0..all :
           i # 0 => item[i] = [decision |-> OneRule(rules[i], action, args, now, spent), why |-> i]
    BY <1>1
  <2>3. Is(f)
    <3> HIDE DEF item
    <3>1. QED BY <2>1, <2>2, Zenon DEF IsLoop
  <2>4. QED BY <2>3
<1>3. Is(best)
  BY <1>2
<1>4. Evaluate(action, args, now, spent) = best[all]
  BY DEF Evaluate
<1>5. best[0] = mild /\ mild.decision = "allow" /\ mild.why = 0
  <2>1. 0 \in 0..all
    BY <1>1
  <2>2. QED BY <1>3, <2>1
<1>6. ASSUME NEW n \in Nat, n < all
      PROVE  best[n + 1] = Stricter(best[n], [decision |-> of[n + 1], why |-> n + 1])
  <2>1. n + 1 \in 0..all /\ n + 1 \in 1..all /\ n + 1 # 0 /\ (n + 1) - 1 = n
    BY <1>1, <1>6
  <2>2. QED BY <1>3, <2>1
<1> HIDE DEF best, mild, of
<1> DEFINE Right(n) == Strictest(best[n].decision, best[n].why, n, of)
           wrong == {n \in 0..all : ~Right(n)}
<1>7. Right(0)
  BY <1>5 DEF Strictest, Decisions
<1>8. ASSUME NEW n \in Nat, n < all, Right(n)
      PROVE  Right(n + 1)
  <2> DEFINE part == [i \in 1..(n + 1) |-> of[i]]
             d == best[n].decision
             w == best[n].why
  <2>1. part \in [1..(n + 1) -> Decisions] /\ \A i \in 1..(n + 1) : part[i] = of[i]
    BY <1>1, <1>8
  <2>2. n + 1 \in 1..(n + 1)
    OBVIOUS
  <2> HIDE DEF part
  <2>3. Strictest(d, w, n, part)
    BY <1>8, <2>1 DEF Strictest
  <2>4. Strictest(best[n + 1].decision, best[n + 1].why, n + 1, part)
    <3> HIDE DEF d, w
    <3>1. /\ Severity[part[n + 1]] > Severity[d] => Strictest(part[n + 1], n + 1, n + 1, part)
          /\ ~(Severity[part[n + 1]] > Severity[d]) => Strictest(d, w, n + 1, part)
      BY <2>1, <2>3, OneMoreRule
    <3>2. part[n + 1] = of[n + 1]
      BY <2>1, <2>2
    <3> DEFINE next == [decision |-> of[n + 1], why |-> n + 1]
    <3>3. next.decision = of[n + 1] /\ next.why = n + 1
      OBVIOUS
    <3>4. best[n + 1] = Stricter(best[n], next)
      BY <1>6, <1>8
    <3> HIDE DEF next
    <3>5. CASE Severity[of[n + 1]] > Severity[d]
      BY <3>1, <3>2, <3>3, <3>4, <3>5 DEF Stricter, d
    <3>6. CASE ~(Severity[of[n + 1]] > Severity[d])
      BY <3>1, <3>2, <3>3, <3>4, <3>6 DEF Stricter, d, w
    <3>7. QED BY <3>5, <3>6
  <2>5. QED
    <3> DEFINE d1 == best[n + 1].decision
               w1 == best[n + 1].why
    <3>1. Strictest(d1, w1, n + 1, part)
      BY <2>4
    <3> HIDE DEF d1, w1
    <3>2. Strictest(d1, w1, n + 1, of)
      BY <2>1, <3>1 DEF Strictest
    <3>3. QED BY <3>2 DEF d1, w1
<1>9. Right(all)
  <2> HIDE DEF Right
  <2> SUFFICES ASSUME wrong # {} PROVE FALSE
    BY <1>1
  <2>1. wrong \subseteq Nat
    BY <1>1
  <2>2. PICK n \in wrong : \A j \in wrong : n <= j
    BY <2>1, LeastIn
  <2>3. n \in 0..all /\ n # 0 /\ ~Right(n)
    BY <1>7, <2>2
  <2>4. n - 1 \in Nat /\ n - 1 < all /\ (n - 1) + 1 = n /\ n - 1 \in 0..all
    BY <1>1, <2>3
  <2>5. Right(n - 1)
    BY <2>2, <2>4
  <2>6. Right(n)
    BY <1>8, <2>4, <2>5
  <2>7. QED BY <2>3, <2>6
<1>10. QED
  BY <1>4, <1>9 DEF of

----------------------------------------------------------------------------
(* Which device words name *)

NamesDiffer == \A i, j \in DOMAIN Devices : Devices[i].name = Devices[j].name => i = j

LEMMA DevicesAreList ==
    Len(Devices) \in Nat /\ DOMAIN Devices = 1..Len(Devices)
<1> DEFINE S == Range(Devices)
<1>1. Devices \in Seq(S)
  BY ToolAssumption
<1> HIDE DEF S
<1>2. QED BY <1>1

LEMMA GreatestIn ==
    ASSUME NEW n \in Nat, NEW S, S \subseteq 1..n, S # {}
    PROVE  Max(S) \in S
<1> DEFINE D == {m \in Nat : \E j \in S : m = n - j}
<1>1. D \subseteq Nat /\ D # {}
  <2>1. PICK j \in S : TRUE
    OBVIOUS
  <2>2. n - j \in D
    BY <2>1
  <2>3. QED BY <2>2
<1>2. PICK m \in D : \A k \in D : m <= k
  <2> HIDE DEF D
  <2>1. QED BY <1>1, LeastIn
<1>3. PICK i \in S : m = n - i
  BY <1>2
<1>4. ASSUME NEW j \in S PROVE i >= j
  <2>1. j \in 1..n /\ i \in 1..n /\ n - j \in D
    OBVIOUS
  <2>2. m <= n - j
    BY <1>2, <2>1
  <2>3. QED BY <1>3, <2>1, <2>2
<1>5. \E x \in S : \A y \in S : x >= y
  BY <1>4
<1>6. QED BY <1>5 DEF Max

LEMMA IdsAreFinite == IsFiniteSet(Ids)
<1> DEFINE n == Len(Devices)
           f == [i \in 1..n |-> Devices[i].id]
<1>1. n \in Nat /\ DOMAIN Devices = 1..n
  BY DevicesAreList
<1>2. Ids = {Devices[i].id : i \in 1..n}
  BY <1>1 DEF Ids, DeviceSet
<1> HIDE DEF n
<1>3. f \in [1..n -> Ids] /\ \A d \in Ids : \E i \in 1..n : f[i] = d
  BY <1>2
<1>4. f \in Surjection(1..n, Ids)
  BY <1>3 DEF Surjection
<1>5. IsFiniteSet(1..n)
  BY <1>1, FS_Interval
<1> HIDE DEF f
<1>6. QED BY <1>4, <1>5, FS_Surjection

\* A device is found by its id.
LEMMA DeviceOfId ==
    ASSUME NEW i \in DOMAIN Devices
    PROVE  Devices[i].id \in Ids /\ Device(Devices[i].id) = Devices[i]
<1>1. Devices[i] \in DeviceSet /\ Devices[i].id \in Ids
  BY DEF DeviceSet, Ids
<1>2. \A d \in DeviceSet : d.id = Devices[i].id => d = Devices[i]
  <2> SUFFICES ASSUME NEW d \in DeviceSet, d.id = Devices[i].id PROVE d = Devices[i]
    OBVIOUS
  <2>1. PICK j \in DOMAIN Devices : d = Devices[j]
    BY DEF DeviceSet
  <2>2. j = i
    BY <2>1, ToolAssumption
  <2>3. QED BY <2>1, <2>2
<1>3. QED BY <1>1, <1>2 DEF Device

LEMMA IdsAreDevices == \A d \in Ids : \E i \in DOMAIN Devices : d = Devices[i].id
BY DEF Ids, DeviceSet

Named(words) == {i \in DOMAIN Devices : Devices[i].name = words}

LEMMA MatchCases ==
    ASSUME NEW words
    PROVE  /\ words = "" => MatchEntity(words) = None
           /\ words # "" /\ words \in Ids => MatchEntity(words) = words
           /\ words # "" /\ words \notin Ids /\ Named(words) # {} =>
                 MatchEntity(words) = Devices[Max(Named(words))].id
           /\ words # "" /\ words \notin Ids /\ Named(words) = {} =>
                 IF Cardinality(Within[words]) = 1
                 THEN MatchEntity(words) = CHOOSE d \in Within[words] : TRUE
                 ELSE MatchEntity(words) = None
<1> DEFINE exact == {d \in Ids : d = words}
           named == {i \in DOMAIN Devices : Devices[i].name = words}
<1>1. named = Named(words) /\ (exact = {} <=> words \notin Ids)
  BY DEF Named
<1>2. MatchEntity(words) =
        CASE words = "" -> None
          [] words # "" /\ exact # {} -> words
          [] words # "" /\ exact = {} /\ named # {} -> Devices[Max(named)].id
          [] words # "" /\ exact = {} /\ named = {} /\ Cardinality(Within[words]) = 1 ->
                CHOOSE d \in Within[words] : TRUE
          [] OTHER -> None
  BY Zenon DEF MatchEntity
<1> HIDE DEF exact, named
<1>3. words = "" => MatchEntity(words) = None
  BY <1>2, Zenon
<1>4. words # "" /\ exact # {} => MatchEntity(words) = words
  BY <1>2, Zenon
<1>5. words # "" /\ exact = {} /\ named # {} => MatchEntity(words) = Devices[Max(named)].id
  BY <1>2, Zenon
<1>6. words # "" /\ exact = {} /\ named = {} /\ Cardinality(Within[words]) = 1 =>
         MatchEntity(words) = CHOOSE d \in Within[words] : TRUE
  BY <1>2, Zenon
<1>7. words # "" /\ exact = {} /\ named = {} /\ Cardinality(Within[words]) # 1 =>
         MatchEntity(words) = None
  BY <1>2, Zenon
<1>8. QED BY <1>1, <1>3, <1>4, <1>5, <1>6, <1>7

\* The words that a call may name a device by.
Speakable == DOMAIN Within \cup {""}

LEMMA OnlyOneWithin ==
    ASSUME NEW words \in Speakable, words # "", Cardinality(Within[words]) = 1
    PROVE  \E d \in Ids : Within[words] = {d}
<1>1. Within[words] \subseteq Ids
  <2>1. words \in DOMAIN Within
    BY DEF Speakable
  <2>2. Within[words] \subseteq {Devices[i].id : i \in DOMAIN Devices}
    BY <2>1, ToolAssumption
  <2>3. QED BY <2>2, DeviceOfId
<1>2. IsFiniteSet(Within[words])
  BY <1>1, IdsAreFinite, FS_Subset
<1>3. QED BY <1>1, <1>2, FS_Singleton

LEMMA NamedIsDevice ==
    ASSUME NEW words, Named(words) # {}
    PROVE  Max(Named(words)) \in DOMAIN Devices /\ Devices[Max(Named(words))].name = words
<1>1. Named(words) \subseteq 1..Len(Devices) /\ Len(Devices) \in Nat
  BY DevicesAreList DEF Named
<1>2. Max(Named(words)) \in Named(words)
  BY <1>1, GreatestIn
<1>3. QED BY <1>2 DEF Named

\* Words name a device, or none.
LEMMA MatchIsDevice ==
    ASSUME NEW words \in Speakable
    PROVE  MatchEntity(words) \in Ids \cup {None}
<1>1. CASE words = ""
  BY <1>1, MatchCases
<1>2. CASE words # "" /\ words \in Ids
  BY <1>2, MatchCases
<1>3. CASE words # "" /\ words \notin Ids /\ Named(words) # {}
  BY <1>3, MatchCases, NamedIsDevice, DeviceOfId
<1>4. CASE words # "" /\ words \notin Ids /\ Named(words) = {}
  <2>1. CASE Cardinality(Within[words]) = 1
    <3>1. PICK d \in Ids : Within[words] = {d}
      BY <1>4, <2>1, OnlyOneWithin
    <3>2. QED BY <1>4, <2>1, <3>1, MatchCases
  <2>2. CASE Cardinality(Within[words]) # 1
    BY <1>4, <2>2, MatchCases
  <2>3. QED BY <2>1, <2>2
<1>5. QED BY <1>1, <1>2, <1>3, <1>4

LEMMA FitCases ==
    ASSUME NEW words, NEW d
    PROVE  /\ words = d => Fit(words, d) = 3
           /\ words # d /\ words = Device(d).name => Fit(words, d) = 2
           /\ words # d /\ words # Device(d).name =>
                 Fit(words, d) = IF words # "" /\ d \in Within[words] THEN 1 ELSE 0
<1>1. words = d => Fit(words, d) = 3
  BY Zenon DEF Fit
<1>2. words # d /\ words = Device(d).name => Fit(words, d) = 2
  BY Zenon DEF Fit
<1>3. words # d /\ words # Device(d).name /\ words # "" /\ d \in Within[words] => Fit(words, d) = 1
  BY Zenon DEF Fit
<1>4. words # d /\ words # Device(d).name /\ ~(words # "" /\ d \in Within[words]) =>
         Fit(words, d) = 0
  BY Zenon DEF Fit
<1>5. QED BY <1>1, <1>2, <1>3, <1>4

\* No other device fits the words as well as the one they name.
LEMMA MatchFitsBest ==
    ASSUME NamesDiffer, NEW words \in Speakable, NEW d \in Ids, MatchEntity(words) = d, d # None
    PROVE  \A e \in Ids \ {d} : Fit(words, d) > Fit(words, e)
<1> SUFFICES ASSUME NEW e \in Ids \ {d} PROVE Fit(words, d) > Fit(words, e)
  OBVIOUS
<1>1. CASE words \in Ids /\ words # ""
  <2>1. words = d /\ words # e
    BY <1>1, MatchCases
  <2>2. Fit(words, d) = 3 /\ Fit(words, e) \in 0..2
    <3>1. Fit(words, d) = 3
      BY <2>1, FitCases
    <3>2. CASE words = Device(e).name
      <4>1. Fit(words, e) = 2
        BY <2>1, <3>2, FitCases
      <4>2. QED BY <3>1, <4>1
    <3>3. CASE words # Device(e).name
      <4>1. Fit(words, e) \in {0, 1}
        BY <2>1, <3>3, FitCases
      <4>2. QED BY <3>1, <4>1
    <3>4. QED BY <3>1, <3>2, <3>3
  <2>3. QED BY <2>2
<1>2. CASE words \notin Ids /\ words # "" /\ Named(words) # {}
  <2> DEFINE i == Max(Named(words))
  <2>1. i \in DOMAIN Devices /\ Devices[i].name = words /\ d = Devices[i].id
    BY <1>2, MatchCases, NamedIsDevice
  <2> HIDE DEF i
  <2>2. Device(d) = Devices[i] /\ words # d /\ words # e
    BY <1>2, <2>1, DeviceOfId
  <2>3. PICK j \in DOMAIN Devices : e = Devices[j].id
    BY IdsAreDevices
  <2>4. Device(e) = Devices[j] /\ j # i
    BY <2>1, <2>3, DeviceOfId
  <2>5. Device(e).name # words
    BY <2>1, <2>4 DEF NamesDiffer
  <2>6. Fit(words, d) = 2
    BY <2>1, <2>2, FitCases
  <2>7. Fit(words, e) \in {0, 1}
    BY <2>2, <2>5, FitCases
  <2>8. QED BY <2>6, <2>7
<1>3. CASE words \notin Ids /\ words # "" /\ Named(words) = {}
  <2>1. Cardinality(Within[words]) = 1 /\ d = CHOOSE x \in Within[words] : TRUE
    BY <1>3, MatchCases
  <2>2. PICK x \in Ids : Within[words] = {x}
    BY <1>3, <2>1, OnlyOneWithin
  <2>3. d \in Within[words] /\ e \notin Within[words]
    BY <2>1, <2>2
  <2>4. \A y \in Ids : words # y /\ words # Device(y).name
    <3> SUFFICES ASSUME NEW y \in Ids PROVE words # y /\ words # Device(y).name
      OBVIOUS
    <3>1. PICK j \in DOMAIN Devices : y = Devices[j].id
      BY IdsAreDevices
    <3>2. Device(y).name = Devices[j].name
      BY <3>1, DeviceOfId
    <3>3. QED BY <1>3, <3>2 DEF Named
  <2>5. words # d /\ words # e /\ words # Device(d).name /\ words # Device(e).name
    BY <2>4
  <2>6. Fit(words, d) = 1 /\ Fit(words, e) = 0
    BY <1>3, <2>3, <2>5, FitCases
  <2>7. QED BY <2>6
<1>4. words # ""
  BY MatchCases
<1>5. QED BY <1>1, <1>2, <1>3, <1>4

----------------------------------------------------------------------------
(* What a request does *)

\* What an effect has: a command of a device is for a device, or does nothing.
Harmless(effect) ==
    effect.kind = "control_device" /\ effect.does # "nothing" =>
        effect.on \in Ids /\ effect.on # None

\* What a command comes to when the words name a device: a service of its domain.
DeviceEffect(effect, words, extra) ==
    /\ effect.kind = "control_device" /\ effect.cost = 0 /\ effect.extra = extra
    /\ Harmless(effect) /\ effect.on = MatchEntity(words)
    /\ effect.does # "nothing" =>
          \E command : effect.does = ServiceFor(Device(effect.on).domain, command)

LEMMA ControlDoes ==
    ASSUME NEW words \in Speakable, NEW command, NEW extra
    PROVE  DeviceEffect(Control(words, command, extra), words, extra)
<1> DEFINE effect == Control(words, command, extra)
<1>1. /\ effect.kind = "control_device" /\ effect.on = MatchEntity(words)
      /\ effect.cost = 0 /\ effect.extra = extra
      /\ effect.does = IF effect.on = None THEN "nothing"
                       ELSE ServiceFor(Device(effect.on).domain, command)
  BY DEF Control
<1> HIDE DEF effect
<1>2. Harmless(effect)
  BY <1>1, MatchIsDevice DEF Harmless
<1>3. DeviceEffect(effect, words, extra)
  BY <1>1, <1>2 DEF DeviceEffect
<1>4. QED BY <1>3 DEF effect

LEMMA EffectFields ==
    ASSUME NEW kind, NEW does, NEW on, NEW cost
    PROVE  LET effect == Effect(kind, does, on, cost) IN
           effect.kind = kind /\ effect.does = does /\ effect.cost = cost
BY DEF Effect

LEMMA EffectInstead ==
    ASSUME NEW kind, NEW does, NEW on, NEW cost, NEW other
    PROVE  Effect(kind, other, on, cost) = [Effect(kind, does, on, cost) EXCEPT !.does = other]
BY DEF Effect

LEMMA ExecutorCases ==
    ASSUME NEW action, NEW args
    PROVE  /\ action = "control_device" =>
                 Executor(action, args) =
                    Control(Value(args, "device", ""), Value(args, "action", ""), NoExtra)
           /\ action = "make_purchase" =>
                 Executor(action, args) =
                    IF Value(args, "amount", 0) = Junk THEN Raises
                    ELSE Effect(action, "order", None, Value(args, "amount", 0))
           /\ action = "send_message" =>
                 Executor(action, args) =
                    Effect(action, "send", Value(args, "recipient", "someone"), 0)
           /\ action = "send_email" =>
                 Executor(action, args) = Effect(action, "send", Value(args, "to", ""), 0)
           /\ action = "reply_to_email" =>
                 Executor(action, args) = Effect(action, "send", Value(args, "email_id", ""), 0)
           /\ action \notin {"control_device", "make_purchase", "send_message"} \cup MailActions =>
                 Executor(action, args) = Raises
<1>1. action = "control_device" =>
         Executor(action, args) =
            Control(Value(args, "device", ""), Value(args, "action", ""), NoExtra)
  BY Zenon DEF Executor
<1>2. action = "make_purchase" =>
         Executor(action, args) = IF Value(args, "amount", 0) = Junk THEN Raises
                                  ELSE Effect(action, "order", None, Value(args, "amount", 0))
  BY Zenon DEF Executor
<1>3. action = "send_message" =>
         Executor(action, args) = Effect(action, "send", Value(args, "recipient", "someone"), 0)
  BY Zenon DEF Executor
<1>4. action = "send_email" =>
         Executor(action, args) = Effect(action, "send", Value(args, "to", ""), 0)
  BY Zenon DEF Executor
<1>5. action = "reply_to_email" =>
         Executor(action, args) = Effect(action, "send", Value(args, "email_id", ""), 0)
  BY Zenon DEF Executor
<1>6. action \notin {"control_device", "make_purchase", "send_message"} \cup MailActions =>
         Executor(action, args) = Raises
  <2>1. action \notin {"control_device", "make_purchase", "send_message"} \cup MailActions =>
           /\ action # "control_device" /\ action # "make_purchase" /\ action # "send_message"
           /\ action # "send_email" /\ action # "reply_to_email"
    BY DEF MailActions
  <2>2. QED BY <2>1, Zenon DEF Executor
<1>7. QED BY <1>1, <1>2, <1>3, <1>4, <1>5, <1>6

\* What the tools of the agent and of the MCP server are given.
LEMMA ArgumentsOfTools ==
    ASSUME NEW c \in Calls, c.via \in {"agent", "mcp"}
    PROVE  /\ c.action = "make_purchase" => "amount" \in DOMAIN c.args /\ c.args.amount # Junk
           /\ c.action = "send_message" => "recipient" \in DOMAIN c.args
           /\ c.via = "agent" =>
                 /\ c.action \in {"control_device", "make_purchase", "send_message", "send_email",
                                  "reply_to_email", "read_inbox"}
                 /\ c.action = "control_device" => {"device", "action"} \subseteq DOMAIN c.args
                 /\ c.action = "send_email" => "to" \in DOMAIN c.args
                 /\ c.action = "reply_to_email" => "email_id" \in DOMAIN c.args
           /\ c.via = "mcp" =>
                 /\ c.action \in {"control_device", "make_purchase", "send_message"}
                 /\ c.action = "control_device" => DOMAIN c.args = {"entity", "command"}
<1>1. /\ c.action \in DOMAIN Needed[c.via] /\ DOMAIN c.args = Needed[c.via][c.action]
      /\ c.action = "make_purchase" => c.args.amount # Junk
  <2>1. c.via \in DOMAIN Needed
    BY DEF Needed
  <2>2. QED BY <2>1, ToolAssumption
<1>2. CASE c.via = "agent"
  BY <1>1, <1>2 DEF Needed
<1>3. CASE c.via = "mcp"
  BY <1>1, <1>3 DEF Needed
<1>4. QED BY <1>2, <1>3

\* The agent's tools and a signed call do what the executor does, and the page also sets a
\* brightness; the MCP server queues what the executor orders or sends.
LEMMA DirectCases ==
    ASSUME NEW c \in Calls
    PROVE  /\ c.via = "mcp" /\ c.action = "control_device" =>
                 Direct(c) = Control(c.args.entity, c.args.command, NoExtra)
           /\ c.via = "mcp" /\ c.action = "make_purchase" =>
                 /\ Direct(c) = Effect(c.action, "queue", None, c.args.amount)
                 /\ Executor(c.action, c.args) = Effect(c.action, "order", None, c.args.amount)
           /\ c.via = "mcp" /\ c.action = "send_message" =>
                 /\ Direct(c) = Effect(c.action, "queue", c.args.recipient, 0)
                 /\ Executor(c.action, c.args) = Effect(c.action, "send", c.args.recipient, 0)
           /\ c.via = "http" => Direct(c) = Control(c.args.device, c.args.action, Clamped(c.extra))
           /\ c.via \in {"agent", "signed"} => Direct(c) = Executor(c.action, c.args)
<1>1. /\ c.via = "agent" => Direct(c) = AgentTool(c)
      /\ c.via = "mcp" => Direct(c) = McpTool(c)
      /\ c.via = "http" => Direct(c) = Control(c.args.device, c.args.action, Clamped(c.extra))
      /\ c.via = "signed" => Direct(c) = Executor(c.action, c.args)
  <2>1. c.via = "agent" => Direct(c) = AgentTool(c)
    BY Zenon DEF Direct
  <2>2. c.via = "mcp" => Direct(c) = McpTool(c)
    BY Zenon DEF Direct
  <2>3. c.via = "http" => Direct(c) = Control(c.args.device, c.args.action, Clamped(c.extra))
    BY Zenon DEF Direct
  <2>4. c.via = "signed" => Direct(c) = Executor(c.action, c.args)
    BY Zenon DEF Direct
  <2>5. QED BY <2>1, <2>2, <2>3, <2>4
<1>2. /\ c.action = "control_device" =>
            McpTool(c) = Control(c.args.entity, c.args.command, NoExtra)
      /\ c.action = "make_purchase" =>
            McpTool(c) = Effect(c.action, "queue", None, c.args.amount)
      /\ c.action = "send_message" =>
            McpTool(c) = Effect(c.action, "queue", c.args.recipient, 0)
  <2>1. c.action = "control_device" =>
           McpTool(c) = Control(c.args.entity, c.args.command, NoExtra)
    BY Zenon DEF McpTool
  <2>2. c.action = "make_purchase" => McpTool(c) = Effect(c.action, "queue", None, c.args.amount)
    BY Zenon DEF McpTool
  <2>3. c.action = "send_message" => McpTool(c) = Effect(c.action, "queue", c.args.recipient, 0)
    BY Zenon DEF McpTool
  <2>4. QED BY <2>1, <2>2, <2>3
<1>3. c.via \in {"agent", "mcp"} /\ c.action = "make_purchase" =>
         Executor(c.action, c.args) = Effect(c.action, "order", None, c.args.amount)
  BY ArgumentsOfTools, ExecutorCases DEF Value
<1>4. c.via \in {"agent", "mcp"} /\ c.action = "send_message" =>
         Executor(c.action, c.args) = Effect(c.action, "send", c.args.recipient, 0)
  BY ArgumentsOfTools, ExecutorCases DEF Value
<1>5. c.via = "agent" => AgentTool(c) = Executor(c.action, c.args)
  <2> SUFFICES ASSUME c.via = "agent" PROVE AgentTool(c) = Executor(c.action, c.args)
    OBVIOUS
  <2>1. CASE c.action = "control_device"
    <3>1. AgentTool(c) = Control(c.args.device, c.args.action, NoExtra)
      BY <2>1, Zenon DEF AgentTool
    <3>2. QED BY <2>1, <3>1, ArgumentsOfTools, ExecutorCases DEF Value
  <2>2. CASE c.action = "make_purchase"
    <3>1. AgentTool(c) = Effect(c.action, "order", None, c.args.amount)
      BY <2>2, Zenon DEF AgentTool
    <3>2. QED BY <1>3, <2>2, <3>1
  <2>3. CASE c.action = "send_message"
    <3>1. AgentTool(c) = Effect(c.action, "send", c.args.recipient, 0)
      BY <2>3, Zenon DEF AgentTool
    <3>2. QED BY <1>4, <2>3, <3>1
  <2>4. CASE c.action = "send_email"
    <3>1. AgentTool(c) = Effect(c.action, "send", c.args.to, 0)
      BY <2>4, Zenon DEF AgentTool
    <3>2. QED BY <2>4, <3>1, ArgumentsOfTools, ExecutorCases DEF Value
  <2>5. CASE c.action = "reply_to_email"
    <3>1. AgentTool(c) = Effect(c.action, "send", c.args.email_id, 0)
      BY <2>5, Zenon DEF AgentTool
    <3>2. QED BY <2>5, <3>1, ArgumentsOfTools, ExecutorCases DEF Value
  <2>6. CASE c.action = "read_inbox"
    <3>1. AgentTool(c) = Raises
      <4>1. /\ c.action # "control_device" /\ c.action # "make_purchase"
            /\ c.action # "send_message" /\ c.action # "send_email"
            /\ c.action # "reply_to_email"
        BY <2>6
      <4>2. QED BY <4>1, Zenon DEF AgentTool
    <3>2. QED BY <2>6, <3>1, ExecutorCases DEF MailActions
  <2>7. QED BY <2>1, <2>2, <2>3, <2>4, <2>5, <2>6, ArgumentsOfTools
<1>6. QED BY <1>1, <1>2, <1>3, <1>4, <1>5

\* The words of a call name a device of the home, or nothing.
LEMMA WordsAreSpeakable ==
    ASSUME NEW c \in Calls, c.action = "control_device"
    PROVE  /\ Words(c) \in Speakable
           /\ Value(c.args, "device", "") \in Speakable
           /\ c.via = "mcp" => c.args.entity = Words(c) /\ Value(c.args, "device", "") = ""
           /\ c.via = "http" => c.args.device = Words(c)
           /\ c.via # "mcp" => Value(c.args, "device", "") = Words(c)
<1>1. \A k \in DOMAIN c.args \cap {"device", "entity"} : c.args[k] \in Speakable
  BY ToolAssumption DEF Speakable
<1>2. "" \in Speakable
  BY DEF Speakable
<1>3. c.via = "mcp" => DOMAIN c.args = {"entity", "command"}
  BY ArgumentsOfTools
<1>4. c.via = "http" => "device" \in DOMAIN c.args
  BY ToolAssumption
<1>5. QED BY <1>1, <1>2, <1>3, <1>4 DEF Words, Value

\* What is carried out at once, and what is carried out on approval.
Effects(c) == {Direct(c), Executor(c.action, c.args)}

\* Only a command of a device does something to one, and only a purchase costs something: what
\* it says under the executor's key.
LEMMA KindOfEffect ==
    ASSUME NEW c \in Calls, NEW effect \in Effects(c)
    PROVE  \/ c.action = "control_device"
           \/ /\ c.action # "control_device" /\ effect.kind \in {"raises", c.action}
              /\ \/ effect.cost = 0
                 \/ /\ c.action = "make_purchase" /\ effect.cost # Junk
                    /\ effect.cost = Value(c.args, "amount", 0)
<1>0. c.action # "control_device" => c.via \in {"agent", "mcp", "signed"}
  BY ToolAssumption DEF Vias
<1>1. Raises.kind = "raises" /\ Raises.cost = 0
  BY DEF Raises
<1>2. CASE c.action = "make_purchase" /\ effect = Executor(c.action, c.args)
  <2>1. CASE Value(c.args, "amount", 0) = Junk
    BY <1>1, <1>2, <2>1, ExecutorCases
  <2>2. CASE Value(c.args, "amount", 0) # Junk
    <3>1. effect = Effect(c.action, "order", None, Value(c.args, "amount", 0))
      BY <1>2, <2>2, ExecutorCases
    <3>2. QED BY <1>2, <2>2, <3>1, EffectFields
  <2>3. QED BY <2>1, <2>2
<1>3. CASE c.action = "make_purchase" /\ c.via = "mcp"
  <2>1. c.args.amount = Value(c.args, "amount", 0) /\ c.args.amount # Junk
    BY <1>3, ArgumentsOfTools DEF Value
  <2>2. effect \in {Effect(c.action, "queue", None, c.args.amount),
                   Effect(c.action, "order", None, c.args.amount)}
    BY <1>3, DirectCases DEF Effects
  <2>3. effect.kind = c.action /\ effect.cost = c.args.amount
    BY <2>2, EffectFields
  <2>4. QED BY <1>3, <2>1, <2>3
<1>4. CASE c.action = "send_message" /\ c.via = "mcp"
  <2>1. effect \in {Effect(c.action, "queue", c.args.recipient, 0),
                   Effect(c.action, "send", c.args.recipient, 0)}
    BY <1>4, DirectCases DEF Effects
  <2>2. effect.kind = c.action /\ effect.cost = 0
    BY <2>1, EffectFields
  <2>3. QED BY <1>4, <2>2
<1>5. CASE /\ c.action # "control_device" /\ c.action # "make_purchase"
           /\ effect = Executor(c.action, c.args)
  <2>1. CASE c.action = "send_message"
    <3>1. effect = Effect(c.action, "send", Value(c.args, "recipient", "someone"), 0)
      BY <1>5, <2>1, ExecutorCases
    <3>2. QED BY <1>5, <3>1, EffectFields
  <2>2. CASE c.action = "send_email"
    <3>1. effect = Effect(c.action, "send", Value(c.args, "to", ""), 0)
      BY <1>5, <2>2, ExecutorCases
    <3>2. effect.kind = c.action /\ effect.cost = 0
      BY <3>1 DEF Effect
    <3>3. QED BY <1>5, <3>2
  <2>3. CASE c.action = "reply_to_email"
    <3>1. effect = Effect(c.action, "send", Value(c.args, "email_id", ""), 0)
      BY <1>5, <2>3, ExecutorCases
    <3>2. effect.kind = c.action /\ effect.cost = 0
      BY <3>1 DEF Effect
    <3>3. QED BY <1>5, <3>2
  <2>4. CASE c.action \notin {"send_message"} \cup MailActions
    <3>1. c.action \notin {"control_device", "make_purchase", "send_message"} \cup MailActions
      BY <1>5, <2>4
    <3>2. effect = Raises
      BY <1>5, <3>1, ExecutorCases
    <3>3. QED BY <1>1, <1>5, <3>2
  <2>5. QED BY <2>1, <2>2, <2>3, <2>4 DEF MailActions
<1>6. CASE c.action # "control_device" /\ c.via # "mcp"
  <2>1. effect = Executor(c.action, c.args)
    BY <1>0, <1>6, DirectCases DEF Effects
  <2>2. QED BY <1>2, <1>5, <1>6, <2>1
<1>7. CASE c.action # "control_device" /\ c.via = "mcp"
  <2>1. c.action \in {"make_purchase", "send_message"}
    BY <1>7, ArgumentsOfTools
  <2>2. QED BY <1>3, <1>4, <1>7, <2>1
<1>8. QED BY <1>6, <1>7

\* A command of a device is for the one that the words name.
LEMMA EffectOfDevice ==
    ASSUME NEW c \in Calls, NEW effect \in Effects(c), c.action = "control_device"
    PROVE  /\ effect.kind = "control_device" /\ effect.cost = 0 /\ Harmless(effect)
           /\ effect.does # "nothing" =>
                 /\ MatchEntity(Words(c)) = effect.on
                 /\ \E command : effect.does = ServiceFor(Device(effect.on).domain, command)
           /\ effect.extra \in {NoExtra, Clamped(c.extra)}
<1>1. /\ Words(c) \in Speakable /\ Value(c.args, "device", "") \in Speakable
      /\ c.via = "mcp" => c.args.entity = Words(c) /\ Value(c.args, "device", "") = ""
      /\ c.via = "http" => c.args.device = Words(c)
      /\ c.via # "mcp" => Value(c.args, "device", "") = Words(c)
  BY WordsAreSpeakable
<1>2. ASSUME NEW words \in {Words(c), ""}, NEW extra \in {NoExtra, Clamped(c.extra)},
             DeviceEffect(effect, words, extra)
      PROVE  /\ effect.kind = "control_device" /\ effect.cost = 0 /\ Harmless(effect)
             /\ effect.does # "nothing" =>
                   /\ MatchEntity(Words(c)) = effect.on
                   /\ \E command : effect.does = ServiceFor(Device(effect.on).domain, command)
             /\ effect.extra \in {NoExtra, Clamped(c.extra)}
  <2>1. MatchEntity("") = None
    BY MatchCases
  <2>2. QED BY <1>2, <2>1 DEF DeviceEffect, Harmless
<1>3. CASE effect = Executor(c.action, c.args)
  <2>1. effect = Control(Value(c.args, "device", ""), Value(c.args, "action", ""), NoExtra)
    BY <1>3, ExecutorCases
  <2>2. DeviceEffect(effect, Value(c.args, "device", ""), NoExtra)
    BY <1>1, <2>1, ControlDoes
  <2>3. Value(c.args, "device", "") \in {Words(c), ""}
    BY <1>1
  <2>4. QED BY <1>2, <2>2, <2>3
<1>4. CASE effect = Direct(c) /\ c.via = "mcp"
  <2>1. effect = Control(c.args.entity, c.args.command, NoExtra)
    BY <1>4, DirectCases
  <2>2. DeviceEffect(effect, Words(c), NoExtra)
    BY <1>1, <1>4, <2>1, ControlDoes
  <2>3. QED BY <1>2, <2>2
<1>5. CASE effect = Direct(c) /\ c.via = "http"
  <2>1. effect = Control(c.args.device, c.args.action, Clamped(c.extra))
    BY <1>5, DirectCases
  <2>2. DeviceEffect(effect, Words(c), Clamped(c.extra))
    BY <1>1, <1>5, <2>1, ControlDoes
  <2>3. QED BY <1>2, <2>2
<1>6. CASE effect = Direct(c) /\ c.via \in {"agent", "signed"}
  <2>1. effect = Executor(c.action, c.args)
    BY <1>6, DirectCases
  <2>2. QED BY <1>3, <2>1
<1>7. c.via \in Vias
  BY ToolAssumption
<1>8. QED BY <1>3, <1>4, <1>5, <1>6, <1>7 DEF Effects, Vias

\* What is done costs nothing, or the amount that is judged, a number or NaN.
LEMMA EffectCosts ==
    ASSUME NEW c \in Calls, NEW effect \in Effects(c)
    PROVE  \/ effect.cost = 0
           \/ /\ c.action = "make_purchase" /\ effect.cost \in Int \cup {NaN}
              /\ effect.cost = Amount(c.args)
<1>1. CASE c.action = "control_device"
  BY <1>1, EffectOfDevice
<1>2. CASE c.action # "control_device" /\ effect.cost # 0
  <2>1. /\ c.action = "make_purchase" /\ effect.cost # Junk
        /\ effect.cost = Value(c.args, "amount", 0)
    BY <1>2, KindOfEffect
  <2>2. "amount" \in DOMAIN c.args /\ effect.cost = c.args["amount"]
    BY <1>2, <2>1 DEF Value
  <2>3. c.args["amount"] \in Int \cup {NaN, Junk}
    BY <2>2, ToolAssumption
  <2>4. Amount(c.args) = effect.cost
    BY <2>1, <2>2, JudgedAmount DEF Number
  <2>5. QED BY <2>1, <2>2, <2>3, <2>4
<1>3. QED BY <1>1, <1>2

----------------------------------------------------------------------------
(* How far a request is *)

Domains ==
    /\ DOMAIN house = Ids
    /\ DOMAIN verdict = Requests /\ DOMAIN scanned = Requests /\ DOMAIN ran = Requests
    /\ DOMAIN shown = Requests

ForInbox(r) == status[r] # "idle" /\ ReadsInbox(call[r])

\* Each stage of a request has what belongs to it; status is "executed" for an inbox too, and
\* what has raised may have had its effect.
StageInv(r) ==
    LET c == call[r]
        once == <<Executor(c.action, c.args)>> IN
    /\ status[r] # "idle" => c \in Calls
    /\ status[r] \in {"idle", "asked"} => verdict[r] = NoVerdict
    /\ approval[r] # "none" <=> status[r] = "held"
    /\ ForInbox(r) => status[r] \in {"asked", "executed"} /\ verdict[r] = NoVerdict
    /\ status[r] = "executed" /\ ~ForInbox(r) => ran[r] = <<Direct(c)>>
    /\ status[r] = "raised" => ran[r] \in {<<>>, <<Direct(c)>>}
    /\ approval[r] = "executed" => ran[r] = once
    /\ approval[r] = "error" => ran[r] \in {<<>>, once}
    /\ status[r] \notin {"executed", "raised"} \/ ForInbox(r) => ByOwner(r) \/ ran[r] = <<>>
    /\ mode = "enforced" /\ ~ForInbox(r) =>
          /\ status[r] \in {"cleared", "executed"} => verdict[r].decision = "allow"
          /\ status[r] = "raised" /\ ran[r] # <<>> => verdict[r].decision = "allow"

\* What the caller was told fits how far the request is.
ToldInv(r) ==
    /\ told[r] # "nothing" => status[r] \notin {"idle", "asked"} /\ ~ForInbox(r)
    /\ told[r] = "done" => status[r] = "executed"
    /\ told[r] = "held" => status[r] = "held"
    /\ told[r] = "blocked" => status[r] = "denied"
    /\ told[r] = "unavailable" => status[r] = "raised"

\* The verdicts of the rules on a call.
Rulings(c, now, spent) == [i \in 1..Len(rules) |-> OneRule(rules[i], c.action, c.args, now, spent)]

\* A verdict is that of the limits, that of flagged content no rule objects to, or the loop's.
VerdictInv(r) ==
    LET v == verdict[r]
        rulings == Rulings(call[r], v.hour, v.spent) IN
    Judged(r) =>
        \/ v.why = OverLimit.why /\ v.decision = "hold"
        \/ /\ v.why = Flagged.why /\ v.decision = "hold"
           /\ \A i \in 1..Len(rules) : rulings[i] = "allow"
        \/ /\ Strictest(v.decision, v.why, Len(rules), rulings)
           /\ v.decision = "allow" => ~Suspicious(scanned[r])

RequestInv(r) == StageInv(r) /\ ToldInv(r) /\ VerdictInv(r)

ToolInv == TypeOK /\ Domains /\ \A r \in Requests : RequestInv(r)

----------------------------------------------------------------------------
(* Types *)

HouseTypes(h) ==
    /\ DOMAIN h = Ids
    /\ \A d \in Ids : h[d].level \in Int /\ (Device(d).domain # "climate" => h[d].level \in 0..255)

\* Only a thermostat has a temperature set.
LEMMA TemperatureIsClimates ==
    ASSUME NEW domain, NEW command, ServiceFor(domain, command) = "set_temperature"
    PROVE  domain = "climate"
<1>1. /\ DOMAIN ByDomain = {"lock", "cover", "climate"}
      /\ DOMAIN ByDomain["lock"] = {"lock", "unlock", "on", "off"}
      /\ DOMAIN ByDomain["cover"] = {"open", "close", "on", "off"}
      /\ DOMAIN Generic = {"on", "off", "toggle"}
  BY DEF ByDomain, Generic
<1>2. CASE domain \notin DOMAIN ByDomain \/ command \notin DOMAIN ByDomain[domain]
  <2>1. Value(Generic, command, "nothing") = "set_temperature"
    BY <1>2 DEF ServiceFor
  <2>2. \A k \in DOMAIN Generic : Generic[k] # "set_temperature"
    BY <1>1 DEF Generic
  <2>3. QED BY <2>1, <2>2 DEF Value
<1>3. CASE domain = "lock" /\ command \in DOMAIN ByDomain[domain]
  BY <1>1, <1>3 DEF ServiceFor, ByDomain
<1>4. CASE domain = "cover" /\ command \in DOMAIN ByDomain[domain]
  BY <1>1, <1>4 DEF ServiceFor, ByDomain
<1>5. QED BY <1>1, <1>2, <1>3, <1>4

LEMMA ExtraLevels ==
    ASSUME NEW c \in Calls, NEW extra \in {NoExtra, Clamped(c.extra)}, NEW level
    PROVE  /\ \/ Value(extra, "brightness", level) = level
              \/ Value(extra, "brightness", level) \in 0..255
           /\ \/ Value(extra, "temperature", level) = level
              \/ Value(extra, "temperature", level) \in Int
<1>1. CASE extra = NoExtra
  <2>1. DOMAIN NoExtra = {}
    BY DEF NoExtra
  <2>2. QED BY <1>1, <2>1 DEF Value
<1>2. CASE extra = Clamped(c.extra)
  <2>1. /\ DOMAIN extra = DOMAIN c.extra
        /\ \A k \in DOMAIN extra :
              extra[k] = IF k = "brightness" THEN Max({0, Min({255, c.extra[k]})})
                         ELSE c.extra[k]
        /\ \A k \in DOMAIN extra : c.extra[k] \in Int
    BY <1>2, ToolAssumption DEF Clamped
  <2>2. "brightness" \in DOMAIN extra => extra["brightness"] \in 0..255
    <3> SUFFICES ASSUME "brightness" \in DOMAIN extra PROVE extra["brightness"] \in 0..255
      OBVIOUS
    <3> DEFINE given == c.extra["brightness"]
               low == Min({255, given})
    <3>1. given \in Int /\ extra["brightness"] = Max({0, low})
      BY <2>1
    <3> HIDE DEF given
    <3>2. low = IF 255 <= given THEN 255 ELSE given
      BY <3>1, LeastOfTwo
    <3>3. low \in Int /\ low <= 255
      BY <3>1, <3>2
    <3> HIDE DEF low
    <3>4. Max({0, low}) = IF 0 <= low THEN low ELSE 0
      BY <3>3, LeastOfTwo
    <3>5. QED BY <3>1, <3>3, <3>4
  <2>3. "temperature" \in DOMAIN extra => extra["temperature"] \in Int
    BY <2>1
  <2>4. QED BY <2>2, <2>3 DEF Value
<1>3. QED BY <1>1, <1>2

LEMMA AfterCases ==
    ASSUME NEW device, NEW effect
    PROVE  /\ effect.does = "turn_on" =>
                 After(device, effect).level = Value(effect.extra, "brightness", device.level)
           /\ effect.does = "set_temperature" =>
                 After(device, effect).level = Value(effect.extra, "temperature", device.level)
           /\ effect.does \notin {"turn_on", "set_temperature"} =>
                 After(device, effect).level = device.level
<1> DEFINE level == CASE effect.does = "turn_on" -> Value(effect.extra, "brightness", device.level)
                      [] effect.does = "set_temperature" ->
                             Value(effect.extra, "temperature", device.level)
                      [] OTHER -> device.level
<1>1. effect.does = "turn_on" => level = Value(effect.extra, "brightness", device.level)
  BY Zenon
<1>2. effect.does = "set_temperature" => level = Value(effect.extra, "temperature", device.level)
  BY Zenon
<1>3. effect.does \notin {"turn_on", "set_temperature"} => level = device.level
  BY Zenon
<1>4. After(device, effect).level = level
  <2> HIDE DEF level
  <2>1. After(device, effect) = [state |-> IF effect.does = "toggle" THEN Toggled(device.state)
                                           ELSE Value(ResultState, effect.does, device.state),
                                 level |-> level]
    BY Zenon DEF After, level
  <2>2. QED BY <2>1
<1>5. QED BY <1>1, <1>2, <1>3, <1>4

\* The lights stay in their range, whatever is asked of the home.
LEMMA EffectKeepsHouse ==
    ASSUME HouseTypes(house), NEW c \in Calls, NEW effect \in Effects(c)
    PROVE  HouseTypes(HouseAfter(effect))
<1>1. CASE ~(effect.kind = "control_device" /\ effect.does # "nothing")
  BY <1>1 DEF HouseAfter
<1>2. CASE effect.kind = "control_device" /\ effect.does # "nothing"
  <2> DEFINE d == effect.on
  <2>1. c.action = "control_device"
    BY <1>2, KindOfEffect
  <2>2. /\ d \in Ids /\ effect.extra \in {NoExtra, Clamped(c.extra)}
        /\ \E command : effect.does = ServiceFor(Device(d).domain, command)
    BY <1>2, <2>1, EffectOfDevice DEF Harmless
  <2> HIDE DEF d
  <2>3. HouseAfter(effect) = [house EXCEPT ![d] = After(house[d], effect)]
    BY <1>2 DEF HouseAfter, d
  <2> DEFINE level == house[d].level
             next == After(house[d], effect).level
  <2>4. next \in Int /\ (Device(d).domain # "climate" => next \in 0..255)
    <3>1. level \in Int /\ (Device(d).domain # "climate" => level \in 0..255)
      BY <2>2 DEF HouseTypes
    <3>2. CASE effect.does = "turn_on"
      <4>1. next = level \/ next \in 0..255
        BY <2>2, <3>2, AfterCases, ExtraLevels
      <4> HIDE DEF next, level
      <4>2. QED BY <3>1, <4>1
    <3>3. CASE effect.does = "set_temperature"
      <4>1. Device(d).domain = "climate"
        BY <2>2, <3>3, TemperatureIsClimates
      <4>2. next = level \/ next \in Int
        BY <2>2, <3>3, AfterCases, ExtraLevels
      <4> HIDE DEF next, level
      <4>3. QED BY <3>1, <4>1, <4>2
    <3>4. CASE effect.does \notin {"turn_on", "set_temperature"}
      BY <3>1, <3>4, AfterCases
    <3>5. QED BY <3>2, <3>3, <3>4
  <2>5. QED BY <2>2, <2>3, <2>4 DEF HouseTypes
<1>3. QED BY <1>1, <1>2

----------------------------------------------------------------------------
(* Every step keeps the stages *)

requestOf(r) == <<call[r], scanned[r], status[r], verdict[r], score[r], approval[r], ran[r],
                  told[r], shown[r]>>

Asking(r) == AskTool(r) \/ AskMcp(r) \/ AskPage(r) \/ AskSigned(r)

RequestStep(r) ==
    \/ Asking(r) \/ Judge(r) \/ SumRaises(r) \/ Run(r) \/ Tell(r) \/ Approve(r) \/ Refuse(r)
    \/ ReadInbox(r)

\* A request whose own state stays keeps its invariant.
LEMMA RequestStays ==
    ASSUME NEW r, RequestInv(r), UNCHANGED settings, requestOf(r)' = requestOf(r)
    PROVE  RequestInv(r)'
<1>1. /\ UNCHANGED <<rules, mode>>
      /\ call'[r] = call[r] /\ scanned'[r] = scanned[r] /\ status'[r] = status[r]
      /\ verdict'[r] = verdict[r] /\ approval'[r] = approval[r] /\ ran'[r] = ran[r]
      /\ told'[r] = told[r]
  BY DEF settings, requestOf
<1>2. StageInv(r)' /\ ToldInv(r)'
  BY <1>1 DEF RequestInv, StageInv, ToldInv, ForInbox, ByOwner
<1>3. VerdictInv(r)'
  BY <1>1 DEF RequestInv, VerdictInv, Judged, Rulings
<1>4. QED BY <1>2, <1>3 DEF RequestInv

\* A call of some content arrives.
LEMMA AskingArrives ==
    ASSUME NEW r, Asking(r)
    PROVE  \E c \in Calls : \E content \in {c.content, None} : Arrive(r, c, content)
BY DEF Asking, AskTool, AskMcp, AskPage, AskSigned, Through, Previewed, Given

\* A step of one request leaves the others, the rules and the mode alone.
LEMMA OthersStay ==
    ASSUME ToolInv, NEW r \in Requests, RequestStep(r), NEW q \in Requests, q # r
    PROVE  UNCHANGED settings /\ requestOf(q)' = requestOf(q)
<1>1. /\ DOMAIN call = Requests /\ DOMAIN scanned = Requests /\ DOMAIN status = Requests
      /\ DOMAIN verdict = Requests /\ DOMAIN score = Requests /\ DOMAIN approval = Requests
      /\ DOMAIN ran = Requests /\ DOMAIN told = Requests /\ DOMAIN shown = Requests
  BY DEF ToolInv, TypeOK, Domains
<1>2. CASE Asking(r)
  <2>1. PICK c, content : Arrive(r, c, content)
    BY <1>2, AskingArrives
  <2>2. QED BY <1>1, <2>1 DEF Arrive, requestOf
<1>3. CASE SumRaises(r)
  BY <1>1, <1>3 DEF SumRaises, requestOf
<1>4. CASE Judge(r)
  BY <1>1, <1>4 DEF Judge, requestOf
<1>5. CASE Run(r)
  <2>1. /\ UNCHANGED <<settings, call, scanned, verdict, score, approval, told, shown>>
        /\ \E s : status' = [status EXCEPT ![r] = s]
        /\ UNCHANGED ran \/ \E runs : ran' = [ran EXCEPT ![r] = runs]
    BY <1>5 DEF Run, RaisesOver, Happens
  <2>2. QED BY <1>1, <2>1 DEF requestOf
<1>6. CASE Tell(r)
  BY <1>1, <1>6 DEF Tell, request, requestOf
<1>7. CASE Approve(r)
  <2>1. /\ UNCHANGED <<settings, call, scanned, status, verdict, score, told, shown>>
        /\ \E s : approval' = [approval EXCEPT ![r] = s]
        /\ UNCHANGED ran \/ \E runs : ran' = [ran EXCEPT ![r] = runs]
    BY <1>7 DEF Approve, RaisesOver, Happens
  <2>2. QED BY <1>1, <2>1 DEF requestOf
<1>8. CASE Refuse(r)
  BY <1>1, <1>8 DEF Refuse, requestOf
<1>9. CASE ReadInbox(r)
  BY <1>1, <1>9 DEF ReadInbox, requestOf
<1>10. QED BY <1>2, <1>3, <1>4, <1>5, <1>6, <1>7, <1>8, <1>9 DEF RequestStep

LEMMA AskingKeeps ==
    ASSUME ToolInv, NEW r \in Requests, Asking(r)
    PROVE  TypeOK' /\ Domains' /\ RequestInv(r)'
<1>0. PICK c \in Calls : \E content \in {c.content, None} : Arrive(r, c, content)
  BY AskingArrives
<1>1. PICK content \in {c.content, None} : Arrive(r, c, content)
  BY <1>0
<1>2. /\ status[r] = "idle" /\ call' = [call EXCEPT ![r] = c]
      /\ scanned' = [scanned EXCEPT ![r] = content]
      /\ status' = [status EXCEPT ![r] = "asked"]
      /\ UNCHANGED <<settings, hour, house, verdict, score, approval, ran, told, shown>>
  BY <1>1 DEF Arrive
<1>3. content = None \/ content \subseteq Signals
  <2>1. c.content = None \/ c.content \subseteq Signals
    BY ToolAssumption
  <2>2. QED BY <2>1
<1>4. TypeOK'
  BY <1>2, <1>3 DEF ToolInv, TypeOK, Domains, Statuses, settings
<1>5. Domains'
  BY <1>2 DEF ToolInv, Domains
<1>6. /\ call'[r] = c /\ status'[r] = "asked" /\ UNCHANGED <<verdict, approval, ran, told>>
  BY <1>2 DEF ToolInv, TypeOK
<1>7. StageInv(r) /\ ToldInv(r) /\ VerdictInv(r)
  BY DEF ToolInv, RequestInv
<1>8. verdict[r] = NoVerdict /\ approval[r] = "none" /\ ran[r] = <<>>
  BY <1>2, <1>7 DEF StageInv, ForInbox, ByOwner
<1>9. told[r] = "nothing"
  BY <1>2, <1>7 DEF ToldInv
<1>10. StageInv(r)'
  BY <1>6, <1>8 DEF StageInv, ForInbox, ByOwner
<1>11. VerdictInv(r)'
  BY <1>6, <1>8 DEF VerdictInv, Judged, NoVerdict
<1>12. ToldInv(r)'
  BY <1>6, <1>9 DEF ToldInv
<1>13. QED BY <1>4, <1>5, <1>10, <1>11, <1>12 DEF RequestInv

\* A request that the day's sum has failed has had no verdict and no effect.
LEMMA SumRaisesKeeps ==
    ASSUME ToolInv, NEW r \in Requests, SumRaises(r)
    PROVE  TypeOK' /\ Domains' /\ RequestInv(r)'
<1>1. /\ status[r] = "asked" /\ call[r].action = "make_purchase"
      /\ status' = [status EXCEPT ![r] = "raised"]
      /\ UNCHANGED <<settings, hour, house, call, scanned, verdict, score, approval, ran, told,
                     shown>>
  BY DEF SumRaises
<1>2. TypeOK' /\ Domains' /\ status'[r] = "raised"
  BY <1>1 DEF ToolInv, TypeOK, Domains, Statuses, settings
<1>3. RequestInv(r) /\ ~ReadsInbox(call[r])
  BY <1>1 DEF ToolInv, ReadsInbox
<1>4. /\ call[r] \in Calls /\ verdict[r] = NoVerdict /\ approval[r] = "none" /\ ran[r] = <<>>
      /\ told[r] = "nothing"
  BY <1>1, <1>3 DEF RequestInv, StageInv, ToldInv, ForInbox, ByOwner
<1>5. StageInv(r)'
  BY <1>1, <1>2, <1>3, <1>4 DEF StageInv, ForInbox, ByOwner, settings
<1>6. VerdictInv(r)'
  BY <1>1, <1>4 DEF VerdictInv, Judged, NoVerdict
<1>7. ToldInv(r)'
  BY <1>1, <1>4 DEF ToldInv
<1>8. QED BY <1>2, <1>5, <1>6, <1>7 DEF RequestInv

\* What the gate may decide: the limits', that of flagged content, or the rules' verdict.
LEMMA DecideCases ==
    ASSUME rules \in RuleLists, NEW r, NEW tripped
    PROVE  LET v == Decide(r, tripped)
               e == Evaluate(call[r].action, call[r].args, hour, Spent) IN
           /\ Strictest(e.decision, e.why, Len(rules), Rulings(call[r], hour, Spent))
           /\ \/ v = OverLimit
              \/ v = Flagged /\ e.decision = "allow"
              \/ v = e /\ (e.decision = "allow" => ~Suspicious(scanned[r]))
<1> DEFINE e == Evaluate(call[r].action, call[r].args, hour, Spent)
<1>1. Strictest(e.decision, e.why, Len(rules), Rulings(call[r], hour, Spent))
  BY EvaluateIsStrictest DEF Rulings
<1>2. Decide(r, tripped) =
        IF tripped THEN IF Suspicious(scanned[r]) /\ OverLimit.decision = "allow" THEN Flagged
                        ELSE OverLimit
        ELSE IF Suspicious(scanned[r]) /\ e.decision = "allow" THEN Flagged ELSE e
  BY DEF Decide
<1>3. OverLimit.decision # "allow"
  BY DEF OverLimit
<1> HIDE DEF e
<1>4. \/ Decide(r, tripped) = OverLimit
      \/ Decide(r, tripped) = Flagged /\ e.decision = "allow"
      \/ Decide(r, tripped) = e /\ (e.decision = "allow" => ~Suspicious(scanned[r]))
  BY <1>2, <1>3
<1>5. QED BY <1>1, <1>4 DEF e

LEMMA AllowedByAll ==
    ASSUME NEW n \in Nat, NEW of, NEW why, Strictest("allow", why, n, of)
    PROVE  \A i \in 1..n : of[i] = "allow"
BY DEF Strictest

LEMMA JudgeKeeps ==
    ASSUME ToolInv, NEW r \in Requests, Judge(r)
    PROVE  TypeOK' /\ Domains' /\ RequestInv(r)'
<1>1. PICK tripped \in BOOLEAN : LET v == Decide(r, tripped) IN
        /\ verdict' = [verdict EXCEPT ![r] = [decision |-> v.decision, why |-> v.why,
                                              hour |-> hour, spent |-> Spent]]
        /\ score' = [score EXCEPT ![r] = Score(call[r].action, call[r].args, v.decision)]
        /\ status' = [status EXCEPT ![r] =
                CASE mode # "enforced" \/ v.decision = "allow" -> "cleared"
                  [] mode = "enforced" /\ v.decision = "hold" -> "held"
                  [] mode = "enforced" /\ v.decision = "deny" -> "denied"]
        /\ approval' = [approval EXCEPT ![r] =
                IF mode = "enforced" /\ v.decision = "hold" THEN "pending" ELSE "none"]
  BY DEF Judge
<1> DEFINE v == Decide(r, tripped)
           e == Evaluate(call[r].action, call[r].args, hour, Spent)
           stage == CASE mode # "enforced" \/ v.decision = "allow" -> "cleared"
                      [] mode = "enforced" /\ v.decision = "hold" -> "held"
                      [] mode = "enforced" /\ v.decision = "deny" -> "denied"
           percent == Score(call[r].action, call[r].args, v.decision)
           full == [decision |-> v.decision, why |-> v.why, hour |-> hour, spent |-> Spent]
           answer == IF mode = "enforced" /\ v.decision = "hold" THEN "pending" ELSE "none"
<1>2. /\ status[r] = "asked" /\ ~ReadsInbox(call[r])
      /\ UNCHANGED <<settings, hour, house, call, scanned, ran, told, shown>>
  BY DEF Judge
<1>3. /\ verdict' = [verdict EXCEPT ![r] = full] /\ score' = [score EXCEPT ![r] = percent]
      /\ status' = [status EXCEPT ![r] = stage] /\ approval' = [approval EXCEPT ![r] = answer]
  BY <1>1
<1>4. rules \in RuleLists /\ RequestInv(r) /\ call[r] \in Calls
  BY <1>2 DEF ToolInv, TypeOK, RequestInv, StageInv
<1>5. /\ Strictest(e.decision, e.why, Len(rules), Rulings(call[r], hour, Spent))
      /\ \/ v = OverLimit
         \/ v = Flagged /\ e.decision = "allow"
         \/ v = e /\ (e.decision = "allow" => ~Suspicious(scanned[r]))
  BY <1>4, DecideCases
<1>6. percent \in 0..100
  <2>1. Counted(call[r].args)
    BY <1>4, ToolAssumption DEF Counted
  <2>2. QED BY <2>1, ScoreIsPercent
<1>7. full.decision = v.decision /\ full.why = v.why /\ full.hour = hour /\ full.spent = Spent
  OBVIOUS
<1>8. e.decision \in Decisions /\ Len(rules) \in Nat
  BY <1>4, <1>5, RulesAreList DEF Strictest
<1> HIDE DEF e
<1>9. v.decision \in Decisions
  BY <1>5, <1>8 DEF OverLimit, Flagged, Decisions
<1>10. /\ mode # "enforced" \/ v.decision = "allow" => stage = "cleared"
       /\ mode = "enforced" /\ v.decision = "hold" => stage = "held"
       /\ mode = "enforced" /\ v.decision = "deny" => stage = "denied"
  <2> HIDE DEF v
  <2>1. mode # "enforced" \/ v.decision = "allow" => stage = "cleared"
    BY Zenon
  <2>2. mode = "enforced" /\ v.decision = "hold" => stage = "held"
    <3> SUFFICES ASSUME mode = "enforced", v.decision = "hold" PROVE stage = "held"
      OBVIOUS
    <3>1. ~(mode # "enforced" \/ v.decision = "allow")
      OBVIOUS
    <3>2. QED BY <3>1, Zenon
  <2>3. mode = "enforced" /\ v.decision = "deny" => stage = "denied"
    <3> SUFFICES ASSUME mode = "enforced", v.decision = "deny" PROVE stage = "denied"
      OBVIOUS
    <3>1. /\ ~(mode # "enforced" \/ v.decision = "allow")
          /\ ~(mode = "enforced" /\ v.decision = "hold")
      OBVIOUS
    <3>2. QED BY <3>1, Zenon
  <2>4. QED BY <2>1, <2>2, <2>3
<1> HIDE DEF v, stage, percent, full
<1>11. stage \in {"cleared", "held", "denied"} /\ answer \in {"pending", "none"}
  BY <1>9, <1>10 DEF Decisions
<1>12. TypeOK'
  BY <1>2, <1>3, <1>6, <1>7, <1>9, <1>11 DEF ToolInv, TypeOK, Domains, Statuses, settings, Decisions
<1>13. Domains'
  BY <1>2, <1>3 DEF ToolInv, Domains
<1>14. /\ verdict'[r] = full /\ status'[r] = stage /\ approval'[r] = answer
       /\ UNCHANGED <<rules, mode, call, scanned, ran, told>>
  BY <1>2, <1>3 DEF ToolInv, TypeOK, Domains, settings
<1>15. told[r] = "nothing" /\ ran[r] = <<>>
  BY <1>2, <1>4 DEF RequestInv, StageInv, ToldInv, ForInbox, ByOwner
<1>16. answer # "none" <=> stage = "held"
  BY <1>9, <1>10, <1>11 DEF Decisions
<1>17. mode = "enforced" /\ stage = "cleared" => v.decision = "allow"
  BY <1>9, <1>10 DEF Decisions
<1>18. StageInv(r)'
  BY <1>2, <1>4, <1>7, <1>11, <1>14, <1>15, <1>16, <1>17 DEF StageInv, ForInbox, ByOwner, NoVerdict
<1>19. VerdictInv(r)'
  <2>1. /\ verdict'[r].decision = v.decision /\ verdict'[r].why = v.why
        /\ verdict'[r].hour = hour /\ verdict'[r].spent = Spent
    BY <1>7, <1>14
  <2>2. CASE v = OverLimit
    BY <2>1, <2>2 DEF VerdictInv, OverLimit
  <2>3. CASE v = Flagged /\ e.decision = "allow"
    <3>1. Strictest("allow", e.why, Len(rules), Rulings(call[r], hour, Spent))
      BY <1>5, <2>3
    <3>2. \A i \in 1..Len(rules) : Rulings(call[r], hour, Spent)[i] = "allow"
      BY <1>8, <3>1, AllowedByAll
    <3>3. \A i \in 1..Len(rules) :
             OneRule(rules[i], call[r].action, call[r].args, hour, Spent) = "allow"
      BY <3>2 DEF Rulings
    <3>4. v.decision = "hold" /\ v.why = Flagged.why
      BY <2>3 DEF Flagged
    <3>5. QED BY <1>14, <2>1, <3>3, <3>4 DEF VerdictInv, Rulings
  <2>4. CASE v = e /\ (e.decision = "allow" => ~Suspicious(scanned[r]))
    <3>1. Strictest(v.decision, v.why, Len(rules), Rulings(call[r], hour, Spent))
      BY <1>5, <2>4
    <3>2. v.decision = "allow" => ~Suspicious(scanned[r])
      BY <2>4
    <3>3. QED BY <1>14, <2>1, <3>1, <3>2 DEF VerdictInv, Rulings
  <2>5. QED BY <1>5, <2>2, <2>3, <2>4
<1>20. ToldInv(r)'
  BY <1>14, <1>15 DEF ToldInv
<1>21. QED BY <1>12, <1>13, <1>18, <1>19, <1>20 DEF RequestInv

LEMMA ToolKeepsHouse == ASSUME ToolInv PROVE HouseTypes(house)
<1>1. DOMAIN house = Ids
  BY DEF ToolInv, Domains
<1>2. \A d \in Ids :
         /\ house[d].level \in Int
         /\ Device(d).domain # "climate" => house[d].level \in 0..255
  BY DEF ToolInv, TypeOK
<1>3. QED BY <1>1, <1>2 DEF HouseTypes

\* A request that is cleared to run has been let through, and has had no effect.
LEMMA ClearedHasNotRun ==
    ASSUME ToolInv, NEW r \in Requests, status[r] = "cleared"
    PROVE  /\ call[r] \in Calls /\ ran[r] = <<>> /\ ~ReadsInbox(call[r]) /\ approval[r] = "none"
           /\ mode = "enforced" => verdict[r].decision = "allow"
           /\ told[r] \notin {"done", "held", "blocked", "unavailable"}
<1>1. StageInv(r) /\ ToldInv(r)
  BY DEF ToolInv, RequestInv
<1>2. call[r] \in Calls /\ ~ReadsInbox(call[r]) /\ approval[r] = "none"
  BY <1>1 DEF StageInv, ForInbox
<1>3. ran[r] = <<>>
  BY <1>1, <1>2 DEF StageInv, ByOwner
<1>4. ASSUME mode = "enforced" PROVE verdict[r].decision = "allow"
  <2>1. ~ForInbox(r) /\ status[r] \in {"cleared", "executed"}
    BY <1>2 DEF ForInbox
  <2>2. QED BY <1>1, <1>4, <2>1, Zenon DEF StageInv
<1>5. told[r] \notin {"done", "held", "blocked", "unavailable"}
  BY <1>1 DEF ToldInv
<1>6. QED BY <1>2, <1>3, <1>4, <1>5

\* What is carried out is done once, and keeps the home's types.
LEMMA RunKeeps ==
    ASSUME ToolInv, NEW r \in Requests, Run(r)
    PROVE  TypeOK' /\ Domains' /\ RequestInv(r)'
<1> DEFINE effect == Direct(call[r])
<1>1. /\ status[r] = "cleared"
      /\ UNCHANGED <<settings, hour, call, scanned, verdict, score, approval, told, shown>>
  BY DEF Run
<1>2. PICK s \in {"executed", "raised"} :
        /\ status' = [status EXCEPT ![r] = s]
        /\ \/ Happens(r, effect)
           \/ s = "raised" /\ UNCHANGED <<ran, house>>
  BY DEF Run, RaisesOver
<1>3. effect \in Effects(call[r])
  BY DEF Effects
<1> HIDE DEF effect
<1>4. RequestInv(r) /\ call[r] \in Calls /\ HouseTypes(house)
  <2>1. RequestInv(r) /\ call[r] \in Calls
    BY <1>1 DEF ToolInv, RequestInv, StageInv
  <2>2. HouseTypes(house)
    BY ToolKeepsHouse
  <2>3. QED BY <2>1, <2>2
<1>5. /\ ran[r] = <<>> /\ ~ReadsInbox(call[r]) /\ approval[r] = "none"
      /\ mode = "enforced" => verdict[r].decision = "allow"
      /\ told[r] \notin {"done", "held", "blocked", "unavailable"}
  BY <1>1, ClearedHasNotRun
<1>6. VerdictInv(r)'
  BY <1>1, <1>4 DEF RequestInv, VerdictInv, Judged, Rulings, settings
<1>7. status'[r] = s
  BY <1>2 DEF ToolInv, TypeOK
<1>8. ToldInv(r)'
  BY <1>1, <1>4, <1>5, <1>7 DEF RequestInv, ToldInv, ForInbox
<1>9. CASE Happens(r, effect)
  <2>1. ran' = [ran EXCEPT ![r] = Append(@, effect)] /\ house' = HouseAfter(effect)
    BY <1>9 DEF Happens
  <2>2. ran' = [ran EXCEPT ![r] = <<effect>>]
    BY <1>5, <2>1
  <2>3. HouseTypes(house')
    BY <1>3, <1>4, <2>1, EffectKeepsHouse
  <2>4. TypeOK'
    BY <1>1, <1>2, <2>2, <2>3 DEF ToolInv, TypeOK, Domains, Statuses, settings, HouseTypes
  <2>5. Domains'
    BY <1>1, <2>2, <2>3 DEF ToolInv, Domains, HouseTypes
  <2>6. ran'[r] = <<effect>>
    BY <2>2 DEF ToolInv, Domains
  <2>7. StageInv(r)'
    <3>1. Direct(call[r])' = effect
      BY <1>1 DEF effect
    <3>2. QED BY <1>1, <1>2, <1>4, <1>5, <1>7, <2>6, <3>1
               DEF RequestInv, StageInv, ForInbox, ByOwner, settings
  <2>8. QED BY <1>6, <1>8, <2>4, <2>5, <2>7 DEF RequestInv
<1>10. CASE s = "raised" /\ UNCHANGED <<ran, house>>
  <2>1. TypeOK' /\ Domains'
    BY <1>1, <1>2, <1>10 DEF ToolInv, TypeOK, Domains, Statuses, settings
  <2>2. StageInv(r)'
    BY <1>1, <1>4, <1>5, <1>7, <1>10 DEF RequestInv, StageInv, ForInbox, ByOwner, settings
  <2>3. QED BY <1>6, <1>8, <2>1, <2>2 DEF RequestInv
<1>11. QED BY <1>2, <1>9, <1>10

LEMMA ApproveKeeps ==
    ASSUME ToolInv, NEW r \in Requests, Approve(r)
    PROVE  TypeOK' /\ Domains' /\ RequestInv(r)'
<1> DEFINE effect == Executor(call[r].action, call[r].args)
<1>1. /\ approval[r] = "pending"
      /\ UNCHANGED <<settings, hour, call, scanned, status, verdict, score, told, shown>>
  BY DEF Approve
<1>2. PICK s \in {"executed", "error"} :
        /\ approval' = [approval EXCEPT ![r] = s]
        /\ \/ Happens(r, effect)
           \/ s = "error" /\ UNCHANGED <<ran, house>>
  BY DEF Approve, RaisesOver
<1>3. effect \in Effects(call[r])
  BY DEF Effects
<1> HIDE DEF effect
<1>4. RequestInv(r) /\ status[r] = "held" /\ call[r] \in Calls /\ HouseTypes(house)
  <2>1. RequestInv(r) /\ status[r] = "held" /\ call[r] \in Calls
    BY <1>1 DEF ToolInv, RequestInv, StageInv
  <2>2. HouseTypes(house)
    BY ToolKeepsHouse
  <2>3. QED BY <2>1, <2>2
<1>5. ran[r] = <<>> /\ ~ForInbox(r)
  BY <1>1, <1>4 DEF RequestInv, StageInv, ForInbox, ByOwner
<1>6. VerdictInv(r)' /\ ToldInv(r)'
  BY <1>1, <1>4 DEF RequestInv, VerdictInv, ToldInv, ForInbox, Judged, Rulings, settings
<1>7. approval'[r] = s
  BY <1>2 DEF ToolInv, TypeOK
<1>8. CASE Happens(r, effect)
  <2>1. ran' = [ran EXCEPT ![r] = Append(@, effect)] /\ house' = HouseAfter(effect)
    BY <1>8 DEF Happens
  <2>2. ran' = [ran EXCEPT ![r] = <<effect>>]
    BY <1>5, <2>1
  <2>3. HouseTypes(house')
    BY <1>3, <1>4, <2>1, EffectKeepsHouse
  <2>4. TypeOK'
    BY <1>1, <1>2, <2>2, <2>3 DEF ToolInv, TypeOK, Domains, settings, HouseTypes
  <2>5. Domains'
    BY <1>1, <2>2, <2>3 DEF ToolInv, Domains, HouseTypes
  <2>6. ran'[r] = <<effect>>
    BY <2>2 DEF ToolInv, Domains
  <2>7. StageInv(r)'
    <3>1. Executor(call[r].action, call[r].args)' = effect
      BY <1>1 DEF effect
    <3>2. QED BY <1>1, <1>2, <1>4, <1>5, <1>7, <2>6, <3>1
               DEF RequestInv, StageInv, ForInbox, ByOwner, settings
  <2>8. QED BY <1>6, <2>4, <2>5, <2>7 DEF RequestInv
<1>9. CASE s = "error" /\ UNCHANGED <<ran, house>>
  <2>1. TypeOK' /\ Domains'
    BY <1>1, <1>2, <1>9 DEF ToolInv, TypeOK, Domains, settings
  <2>2. StageInv(r)'
    BY <1>1, <1>4, <1>5, <1>7, <1>9 DEF RequestInv, StageInv, ForInbox, ByOwner, settings
  <2>3. QED BY <1>6, <2>1, <2>2 DEF RequestInv
<1>10. QED BY <1>2, <1>8, <1>9

LEMMA RefuseKeeps ==
    ASSUME ToolInv, NEW r \in Requests, Refuse(r)
    PROVE  TypeOK' /\ Domains' /\ RequestInv(r)'
<1>1. /\ approval[r] = "pending" /\ approval' = [approval EXCEPT ![r] = "refused"]
      /\ UNCHANGED <<settings, hour, house, call, scanned, status, verdict, score, ran, told,
                     shown>>
  BY DEF Refuse
<1>2. TypeOK' /\ Domains' /\ approval'[r] = "refused"
  BY <1>1 DEF ToolInv, TypeOK, Domains, settings
<1>3. RequestInv(r) /\ status[r] = "held"
  BY <1>1 DEF ToolInv, RequestInv, StageInv
<1>4. StageInv(r)'
  BY <1>1, <1>2, <1>3 DEF RequestInv, StageInv, ForInbox, ByOwner, settings
<1>5. VerdictInv(r)' /\ ToldInv(r)'
  BY <1>1, <1>3 DEF RequestInv, VerdictInv, ToldInv, ForInbox, Judged, Rulings, settings
<1>6. QED BY <1>2, <1>4, <1>5 DEF RequestInv

----------------------------------------------------------------------------
(* What the caller is told *)

LEMMA MessageFits ==
    ASSUME NEW r, call[r].via \in Vias, status[r] \in {"executed", "held", "denied", "raised"}
    PROVE  /\ Message(r) \in Answers
           /\ Message(r) = "done" => status[r] = "executed"
           /\ Message(r) = "held" => status[r] = "held"
           /\ Message(r) = "blocked" => status[r] = "denied"
           /\ Message(r) = "unavailable" => status[r] = "raised"
<1>1. /\ status[r] = "executed" => ToolMessage(r) = "done" /\ RouteMessage(r) = "done"
      /\ status[r] = "held" => ToolMessage(r) = "held" /\ RouteMessage(r) = "held"
      /\ status[r] = "denied" => ToolMessage(r) = "blocked" /\ RouteMessage(r) = "blocked"
  <2>1. status[r] = "executed" => ToolMessage(r) = "done"
    BY Zenon DEF ToolMessage
  <2>2. status[r] = "executed" => RouteMessage(r) = "done"
    BY Zenon DEF RouteMessage
  <2>3. status[r] = "held" => ToolMessage(r) = "held"
    BY Zenon DEF ToolMessage
  <2>4. status[r] = "held" => RouteMessage(r) = "held"
    BY Zenon DEF RouteMessage
  <2>5. status[r] = "denied" => ToolMessage(r) = "blocked"
    BY Zenon DEF ToolMessage
  <2>6. status[r] = "denied" => RouteMessage(r) = "blocked"
    BY Zenon DEF RouteMessage
  <2>7. QED BY <2>1, <2>2, <2>3, <2>4, <2>5, <2>6
<1>2. status[r] = "raised" =>
         ToolMessage(r) \in {"unavailable", "error"} /\ RouteMessage(r) = "error"
  <2>1. status[r] = "raised" =>
           ToolMessage(r) = IF call[r].action \in MailActions THEN "unavailable" ELSE "error"
    BY Zenon DEF ToolMessage
  <2>2. status[r] = "raised" => RouteMessage(r) = "error"
    BY Zenon DEF RouteMessage
  <2>3. QED BY <2>1, <2>2
<1>3. call[r].via = "agent" => Message(r) = ToolMessage(r)
  BY Zenon DEF Message
<1>4. call[r].via = "mcp" => Message(r) = "error"
  BY Zenon DEF Message, McpMessage
<1>5. call[r].via \in {"http", "signed"} => Message(r) = RouteMessage(r)
  <2>1. call[r].via \in {"http", "signed"} => call[r].via # "agent" /\ call[r].via # "mcp"
    OBVIOUS
  <2>2. QED BY <2>1, Zenon DEF Message
<1>6. QED BY <1>1, <1>2, <1>3, <1>4, <1>5 DEF Vias, Answers

LEMMA TellKeeps ==
    ASSUME ToolInv, NEW r \in Requests, Tell(r)
    PROVE  TypeOK' /\ Domains' /\ RequestInv(r)'
<1> DEFINE answer == Message(r)
<1>1. /\ status[r] \in {"executed", "held", "denied", "raised"} /\ ~ReadsInbox(call[r])
      /\ told' = [told EXCEPT ![r] = answer]
      /\ UNCHANGED <<settings, hour, house, request, ran, shown>>
  BY DEF Tell
<1>2. RequestInv(r) /\ call[r].via \in Vias
  <2>1. call[r] \in Calls /\ RequestInv(r)
    BY <1>1 DEF ToolInv, RequestInv, StageInv
  <2>2. QED BY <2>1, ToolAssumption
<1>3. /\ answer \in Answers
      /\ answer = "done" => status[r] = "executed"
      /\ answer = "held" => status[r] = "held"
      /\ answer = "blocked" => status[r] = "denied"
      /\ answer = "unavailable" => status[r] = "raised"
  BY <1>1, <1>2, MessageFits
<1> HIDE DEF answer
<1>4. TypeOK' /\ Domains'
  BY <1>1, <1>3 DEF ToolInv, TypeOK, Domains, request, settings
<1>5. /\ told'[r] = answer
      /\ UNCHANGED <<rules, mode, call, scanned, status, verdict, approval, ran>>
  BY <1>1 DEF ToolInv, TypeOK, request, settings
<1>6. ToldInv(r)'
  BY <1>1, <1>3, <1>5 DEF ToldInv, ForInbox
<1>7. StageInv(r)' /\ VerdictInv(r)'
  BY <1>2, <1>5 DEF RequestInv, StageInv, VerdictInv, ForInbox, ByOwner, Judged, Rulings
<1>8. QED BY <1>4, <1>6, <1>7 DEF RequestInv

----------------------------------------------------------------------------
(* The inbox *)

LEMMA EnoughLines == MaxLines \in Nat /\ MaxLines >= 2
<1>1. MaxLines \in Nat \ {0, 1}
  BY Zenon, ToolAssumption
<1>2. QED BY <1>1

\* What is left of a list has its first two lines, and is no longer than the limit allows.
LEMMA TruncatedKeepsTwo ==
    ASSUME NEW S, NEW lines \in Seq(S)
    PROVE  /\ Len(Truncated(lines)) <= MaxLines + 1
           /\ Len(lines) >= 2 => 2 \in DOMAIN Truncated(lines) /\ Truncated(lines)[2] = lines[2]
<1>0. MaxLines \in Nat /\ MaxLines >= 2 /\ Len(lines) \in Nat
  BY EnoughLines
<1>1. CASE Len(lines) > MaxLines
  <2> DEFINE kept == SubSeq(lines, 1, MaxLines)
  <2>1. kept \in Seq(S) /\ Len(kept) = MaxLines /\ kept[2] = lines[2]
    BY <1>0, <1>1
  <2>2. Truncated(lines) = Append(kept, "truncated")
    BY <1>1 DEF Truncated
  <2> HIDE DEF kept
  <2>3. QED BY <1>0, <2>1, <2>2
<1>2. CASE ~(Len(lines) > MaxLines)
  BY <1>0, <1>2 DEF Truncated
<1>3. QED BY <1>1, <1>2

Shown == {"head", Mail, Warning}

\* The warning is the second line.
LEMMA WarnedAtTwo ==
    ASSUME NEW mails, NEW n \in Nat, DOMAIN mails = 1..n
    PROVE  /\ Warned(mails) \in Seq(Shown)
           /\ ScanSources(mails) # {} => Len(Warned(mails)) >= 2 /\ Warned(mails)[2] = Warning
<1> DEFINE lines == Lines(mails)
<1>1. lines \in Seq(Shown) /\ Len(lines) = n + 1
  <2> DEFINE rest == [i \in 1..n |-> Mail]
  <2>1. rest \in Seq(Shown) /\ Len(rest) = n
    BY DEF Shown
  <2>2. lines = <<"head">> \o rest
    BY DEF Lines
  <2> HIDE DEF rest, lines
  <2>3. <<"head">> \in Seq(Shown) /\ Len(<<"head">>) = 1
    BY DEF Shown
  <2>4. QED BY <2>1, <2>2, <2>3, ConcatProperties
<1>2. Warned(mails) = IF ScanSources(mails) # {} THEN InsertAt(lines, 2, Warning) ELSE lines
  BY DEF Warned
<1> HIDE DEF lines
<1>3. ScanSources(mails) = {} => Warned(mails) = lines
  BY <1>2
<1>4. ASSUME ScanSources(mails) # {}
      PROVE  Warned(mails) \in Seq(Shown) /\ Len(Warned(mails)) >= 2 /\ Warned(mails)[2] = Warning
  <2> DEFINE first == SubSeq(lines, 1, 1)
             rest == SubSeq(lines, 2, Len(lines))
  <2>1. first \in Seq(Shown) /\ Len(first) = 1 /\ rest \in Seq(Shown) /\ Len(rest) \in Nat
    BY <1>1
  <2> DEFINE line == <<Warning>>
  <2>2. Warned(mails) = first \o line \o rest
    BY <1>2, <1>4 DEF InsertAt
  <2>3. line \in Seq(Shown) /\ Len(line) = 1 /\ line[1] = Warning
    BY DEF Shown
  <2> HIDE DEF first, rest, line
  <2> DEFINE start == first \o line
  <2>4. start \in Seq(Shown) /\ Len(start) = 2 /\ start[2] = Warning
    <3>1. /\ start \in Seq(Shown) /\ Len(start) = Len(first) + Len(line)
          /\ \A i \in 1..(Len(first) + Len(line)) :
                start[i] = IF i <= Len(first) THEN first[i] ELSE line[i - Len(first)]
      BY <2>1, <2>3, ConcatProperties, Zenon
    <3> HIDE DEF start
    <3>2. Len(start) = 2 /\ 2 \in 1..(Len(first) + Len(line))
      BY <2>1, <2>3, <3>1
    <3>3. start[2] = line[1]
      BY <2>1, <2>3, <3>1, <3>2
    <3>4. QED BY <2>3, <3>1, <3>2, <3>3
  <2>5. Warned(mails) = start \o rest
    BY <2>2
  <2> HIDE DEF start
  <2>6. QED BY <2>1, <2>4, <2>5, ConcatProperties
<1>5. QED BY <1>1, <1>3, <1>4

\* At least one mail is read, if there is one, and no more than there are.
LEMMA MailsAreRead ==
    ASSUME NEW inbox \in Inboxes, NEW limit \in Int
    PROVE  \E n \in Nat :
             DOMAIN SubSeq(inbox, 1, Min({Len(inbox), Max({1, Min({limit, 50})})})) = 1..n
<1> DEFINE few == Min({limit, 50})
           some == Max({1, few})
           n == Min({Len(inbox), some})
<1>1. inbox \in Seq(SUBSET Signals) /\ Len(inbox) \in Nat
  <2>1. Inboxes \subseteq Seq(SUBSET Signals)
    BY Zenon, ToolAssumption
  <2>2. QED BY <2>1
<1>2. few \in Int
  BY LeastOfTwo
<1> HIDE DEF few
<1>3. some \in Int /\ some >= 1
  BY <1>2, LeastOfTwo
<1> HIDE DEF some
<1>4. n \in Nat /\ n <= Len(inbox)
  BY <1>1, <1>3, LeastOfTwo
<1> HIDE DEF n
<1>5. DOMAIN SubSeq(inbox, 1, n) = 1..n
  BY <1>1, <1>4
<1>6. QED BY <1>4, <1>5 DEF n, some, few

\* One request's part of InboxWarningIsSeen.
Seen(inbox) == inbox.signals # {} => \E i \in DOMAIN inbox.lines : inbox.lines[i] = Warning

LEMMA ShownIsSeen ==
    ASSUME NEW r, call[r] \in Calls, ReadInbox(r)
    PROVE  \E inbox : /\ shown' = [shown EXCEPT ![r] = inbox]
                      /\ Seen(inbox) /\ Len(inbox.lines) <= MaxLines + 1
<1>1. call[r].args.limit \in Int
  BY ToolAssumption DEF ReadInbox, ReadsInbox
<1> DEFINE Mails(inbox) ==
             SubSeq(inbox, 1, Min({Len(inbox), Max({1, Min({call[r].args.limit, 50})})}))
<1>2. PICK inbox \in Inboxes :
        shown' = [shown EXCEPT ![r] =
                [lines |-> IF Mails(inbox) = <<>> THEN <<"empty">>
                           ELSE Truncated(Warned(Mails(inbox))),
                 signals |-> UNION {Scan(Mails(inbox)[i]) : i \in DOMAIN Mails(inbox)}]]
  BY DEF ReadInbox
<1> DEFINE mails == Mails(inbox)
<1>3. PICK n \in Nat : DOMAIN mails = 1..n
  BY <1>1, MailsAreRead
<1> HIDE DEF Mails, mails
<1> DEFINE lines == IF mails = <<>> THEN <<"empty">> ELSE Truncated(Warned(mails))
           signals == UNION {Scan(mails[i]) : i \in DOMAIN mails}
           result == [lines |-> lines, signals |-> signals]
<1>4. shown' = [shown EXCEPT ![r] = result]
  BY <1>2 DEF mails
<1>5. ScanSources(mails) = signals
  BY DEF ScanSources
<1>6. mails = <<>> => signals = {}
  OBVIOUS
<1>7. /\ Warned(mails) \in Seq(Shown)
      /\ signals # {} => Len(Warned(mails)) >= 2 /\ Warned(mails)[2] = Warning
  BY <1>3, <1>5, WarnedAtTwo
<1> HIDE DEF signals
<1>8. Len(lines) <= MaxLines + 1
  <2>1. Len(<<"empty">>) = 1 /\ MaxLines \in Nat
    BY ToolAssumption
  <2>2. QED BY <1>7, <2>1, TruncatedKeepsTwo
<1>9. signals # {} => 2 \in DOMAIN lines /\ lines[2] = Warning
  BY <1>6, <1>7, TruncatedKeepsTwo
<1> HIDE DEF lines
<1>10. result.lines = lines /\ result.signals = signals
  OBVIOUS
<1> HIDE DEF result
<1>11. Seen(result) /\ Len(result.lines) <= MaxLines + 1
  BY <1>8, <1>9, <1>10 DEF Seen
<1>12. QED BY <1>4, <1>11

LEMMA ReadInboxKeeps ==
    ASSUME ToolInv, NEW r \in Requests, ReadInbox(r)
    PROVE  TypeOK' /\ Domains' /\ RequestInv(r)'
<1>1. /\ status[r] = "asked" /\ ReadsInbox(call[r]) /\ status' = [status EXCEPT ![r] = "executed"]
      /\ UNCHANGED <<settings, hour, house, call, scanned, verdict, score, approval, ran, told>>
  BY DEF ReadInbox
<1>2. RequestInv(r) /\ call[r] \in Calls
  BY <1>1 DEF ToolInv, RequestInv, StageInv
<1>3. PICK inbox : shown' = [shown EXCEPT ![r] = inbox] /\ Len(inbox.lines) <= MaxLines + 1
  BY <1>2, ShownIsSeen
<1>4. TypeOK' /\ Domains' /\ status'[r] = "executed"
  BY <1>1, <1>3 DEF ToolInv, TypeOK, Domains, Statuses, settings
<1>5. /\ verdict[r] = NoVerdict /\ approval[r] = "none" /\ ran[r] = <<>>
      /\ told[r] = "nothing"
  BY <1>1, <1>2 DEF RequestInv, StageInv, ToldInv, ForInbox, ByOwner
<1>6. StageInv(r)'
  BY <1>1, <1>2, <1>4, <1>5 DEF RequestInv, StageInv, ForInbox, ByOwner, settings
<1>7. ToldInv(r)'
  BY <1>1, <1>5 DEF ToldInv
<1>8. VerdictInv(r)'
  BY <1>1, <1>5 DEF VerdictInv, Judged, NoVerdict
<1>9. QED BY <1>4, <1>6, <1>7, <1>8 DEF RequestInv

----------------------------------------------------------------------------
(* The invariant *)

LEMMA RequestStepKeeps ==
    ASSUME ToolInv, NEW r \in Requests, RequestStep(r)
    PROVE  ToolInv'
<1>1. TypeOK' /\ Domains' /\ RequestInv(r)'
  BY AskingKeeps, JudgeKeeps, SumRaisesKeeps, RunKeeps, TellKeeps, ApproveKeeps, RefuseKeeps,
     ReadInboxKeeps DEF RequestStep
<1>2. ASSUME NEW q \in Requests, q # r
      PROVE  RequestInv(q)'
  <2>1. UNCHANGED settings /\ requestOf(q)' = requestOf(q)
    BY <1>2, OthersStay
  <2>2. RequestInv(q)
    BY DEF ToolInv
  <2>3. QED BY <2>1, <2>2, RequestStays
<1>3. QED BY <1>1, <1>2 DEF ToolInv

\* The clock changes nothing that has been judged.
LEMMA TickKeeps ==
    ASSUME ToolInv, Tick
    PROVE  ToolInv'
<1>1. hour' \in Hours /\ UNCHANGED <<settings, house, request, ran, told, shown>>
  BY DEF Tick
<1>2. TypeOK'
  BY <1>1 DEF ToolInv, TypeOK, settings, request
<1>3. Domains'
  BY <1>1 DEF ToolInv, Domains, request
<1>4. ASSUME NEW q \in Requests PROVE RequestInv(q)'
  <2>1. UNCHANGED settings /\ requestOf(q)' = requestOf(q)
    BY <1>1 DEF request, requestOf
  <2>2. RequestInv(q)
    BY DEF ToolInv
  <2>3. QED BY <2>1, <2>2, RequestStays
<1>5. QED BY <1>2, <1>3, <1>4 DEF ToolInv

LEMMA NextCases ==
    ASSUME Next
    PROVE  Tick \/ \E r \in Requests : RequestStep(r)
BY DEF Next, RequestStep, Asking

LEMMA StutterKeeps ==
    ASSUME ToolInv, UNCHANGED vars
    PROVE  ToolInv'
<1>1. UNCHANGED <<settings, hour, house, request, ran, told, shown>>
  BY DEF vars
<1>2. TypeOK'
  BY <1>1 DEF ToolInv, TypeOK, settings, request
<1>3. Domains'
  BY <1>1 DEF ToolInv, Domains, request
<1>4. ASSUME NEW q \in Requests PROVE RequestInv(q)'
  <2>1. UNCHANGED settings /\ requestOf(q)' = requestOf(q)
    BY <1>1 DEF request, requestOf
  <2>2. RequestInv(q)
    BY DEF ToolInv
  <2>3. QED BY <2>1, <2>2, RequestStays
<1>5. QED BY <1>2, <1>3, <1>4 DEF ToolInv

LEMMA InitHolds == Init => ToolInv
<1> SUFFICES ASSUME Init PROVE ToolInv
  OBVIOUS
<1>1. HouseTypes(house)
  <2>1. DOMAIN house = Ids /\ \A d \in Ids : house[d].level = Device(d).level
    BY DEF Init
  <2>2. ASSUME NEW d \in Ids PROVE Device(d).level \in 0..255
    <3>1. PICK i \in DOMAIN Devices : d = Devices[i].id
      BY IdsAreDevices
    <3>2. Device(d) = Devices[i]
      BY <3>1, DeviceOfId
    <3>3. Devices[i].level \in 0..255
      BY Zenon, ToolAssumption
    <3>4. QED BY <3>2, <3>3
  <2>3. ASSUME NEW d \in Ids
        PROVE  house[d].level \in Int /\ house[d].level \in 0..255
    <3>1. house[d].level \in 0..255
      BY <2>1, <2>2
    <3>2. QED BY <3>1
  <2>4. QED BY <2>1, <2>3 DEF HouseTypes
<1>2. /\ rules \in RuleLists /\ mode \in Modes /\ hour \in Hours
      /\ call = [r \in Requests |-> None] /\ scanned = [r \in Requests |-> None]
      /\ status = [r \in Requests |-> "idle"] /\ verdict = [r \in Requests |-> NoVerdict]
      /\ score = [r \in Requests |-> 0] /\ approval = [r \in Requests |-> "none"]
      /\ ran = [r \in Requests |-> <<>>] /\ told = [r \in Requests |-> "nothing"]
      /\ shown = [r \in Requests |-> NoInbox]
  BY DEF Init
<1>3. TypeOK
  <2>1. MaxLines + 1 >= 0 /\ Len(NoInbox.lines) = 0 /\ NoVerdict.decision = "none"
    BY EnoughLines DEF NoInbox, NoVerdict
  <2> HIDE DEF NoInbox, NoVerdict
  <2>2. QED BY <1>1, <1>2, <2>1 DEF TypeOK, HouseTypes, Statuses, Answers
<1>4. Domains
  BY <1>1, <1>2 DEF Domains, HouseTypes
<1>5. ASSUME NEW r \in Requests PROVE RequestInv(r)
  BY <1>2 DEF RequestInv, StageInv, ToldInv, VerdictInv, ForInbox, ByOwner, Judged, NoVerdict
<1>6. QED BY <1>3, <1>4, <1>5 DEF ToolInv

LEMMA ToolInvStays == ToolInv /\ [Next]_vars => ToolInv'
BY NextCases, RequestStepKeeps, TickKeeps, StutterKeeps

LEMMA ToolInvHolds == Spec => []ToolInv
BY InitHolds, ToolInvStays, PTL DEF Spec

\* Whatever is asked, in whatever order: the lights stay in their range, scores between 0 and
\* 100, no request has more than one effect, and no list of mails is longer than its limit
\* (main.py:656-660, home_assistant.py:189-201, risk.py:37-60, message_tools.py:156-184).
THEOREM ToolTypesCorrect == Spec => []TypeOK
<1>1. ToolInv => TypeOK
  BY DEF ToolInv
<1>2. QED BY <1>1, ToolInvHolds, PTL

----------------------------------------------------------------------------
(* Decisions *)

LEMMA JudgedByRules ==
    ASSUME ToolInv, NEW r \in Requests, verdict[r].decision = "allow"
    PROVE  /\ ~Suspicious(scanned[r])
           /\ Len(rules) \in Nat
           /\ \A i \in 1..Len(rules) :
                 OneRule(rules[i], call[r].action, call[r].args, verdict[r].hour, verdict[r].spent)
                    = "allow"
<1> DEFINE rulings == Rulings(call[r], verdict[r].hour, verdict[r].spent)
<1>1. VerdictInv(r) /\ rules \in RuleLists
  BY DEF ToolInv, TypeOK, RequestInv
<1>2. Len(rules) \in Nat
  BY <1>1, RulesAreList
<1>3. Strictest("allow", verdict[r].why, Len(rules), rulings) /\ ~Suspicious(scanned[r])
  BY <1>1 DEF VerdictInv, Judged
<1>4. \A i \in 1..Len(rules) : rulings[i] = "allow"
  <2> HIDE DEF rulings
  <2>1. QED BY <1>2, <1>3, AllowedByAll
<1>5. QED BY <1>2, <1>3, <1>4 DEF Rulings

\* What has run without the owner, under enforcement, was allowed.
LEMMA AllowedToRun ==
    ASSUME ToolInv, NEW r \in Requests, mode = "enforced", ran[r] # <<>>, ~ByOwner(r)
    PROVE  /\ verdict[r].decision = "allow" /\ call[r] \in Calls /\ ran[r] = <<Direct(call[r])>>
BY DEF ToolInv, RequestInv, StageInv

\* Content with an injection signal never leads to an effect, under enforcement, that the owner
\* has not approved: for any number of requests and any rules (consent.py:253-255,
\* provenance.py:120-189).
THEOREM FlaggedContentWaits == Spec => []FlaggedWaitsForOwner
<1>1. ToolInv => FlaggedWaitsForOwner
  BY AllowedToRun, JudgedByRules DEF FlaggedWaitsForOwner
<1>2. QED BY <1>1, ToolInvHolds, PTL

\* The loop over the rules ends with the strictest verdict of any rule and the first rule that
\* has it, however many rules there are and in whatever order (policy.py:231-272).
THEOREM StrictestOfAllRules == Spec => []StrictestRuleDecides
<1>1. ASSUME ToolInv, NEW r \in Requests, Judged(r), verdict[r].why # OverLimit.why
      PROVE  LET v == verdict[r]
                 of(i) == OneRule(rules[i], call[r].action, call[r].args, v.hour, v.spent) IN
             IF v.why > 0
             THEN /\ of(v.why) = v.decision /\ v.decision # "allow"
                  /\ \A i \in DOMAIN rules :
                       IF i < v.why THEN Severity[of(i)] < Severity[v.decision]
                                    ELSE Severity[of(i)] <= Severity[v.decision]
             ELSE \A i \in DOMAIN rules : of(i) = "allow"
  <2> DEFINE n == Len(rules)
             decision == verdict[r].decision
             why == verdict[r].why
             of(i) == OneRule(rules[i], call[r].action, call[r].args, verdict[r].hour,
                              verdict[r].spent)
             rulings == Rulings(call[r], verdict[r].hour, verdict[r].spent)
  <2>1. n \in Nat /\ DOMAIN rules = 1..n
    BY <1>1, RulesAreList DEF ToolInv, TypeOK
  <2>2. \A i \in 1..n : rulings[i] = of(i)
    BY DEF Rulings
  <2>3. \/ why = Flagged.why /\ \A i \in 1..n : rulings[i] = "allow"
        \/ Strictest(decision, why, n, rulings)
    BY <1>1 DEF ToolInv, RequestInv, VerdictInv
  <2> HIDE DEF n, of, rulings, decision, why
  <2>4. Flagged.why = -2
    BY DEF Flagged
  <2>5. CASE why = Flagged.why /\ \A i \in 1..n : rulings[i] = "allow"
    <3>1. ~(why > 0) /\ \A i \in DOMAIN rules : of(i) = "allow"
      BY <2>1, <2>2, <2>4, <2>5
    <3>2. QED BY <3>1 DEF why, of
  <2>6. CASE Strictest(decision, why, n, rulings) /\ why > 0
    <3>1. /\ why \in 1..n /\ rulings[why] = decision /\ decision # "allow"
          /\ \A i \in 1..n : IF i < why THEN Severity[rulings[i]] < Severity[decision]
                                        ELSE Severity[rulings[i]] <= Severity[decision]
      BY <2>1, <2>6 DEF Strictest
    <3>2. /\ of(why) = decision
          /\ \A i \in DOMAIN rules : IF i < why THEN Severity[of(i)] < Severity[decision]
                                                ELSE Severity[of(i)] <= Severity[decision]
      BY <2>1, <2>2, <3>1
    <3>3. QED BY <2>6, <3>1, <3>2 DEF why, of, decision
  <2>7. CASE Strictest(decision, why, n, rulings) /\ ~(why > 0)
    <3>1. \A i \in 1..n : rulings[i] = "allow"
      BY <2>1, <2>7 DEF Strictest
    <3>2. \A i \in DOMAIN rules : of(i) = "allow"
      BY <2>1, <2>2, <3>1
    <3>3. QED BY <2>7, <3>2 DEF why, of
  <2>8. QED BY <2>3, <2>5, <2>6, <2>7
<1>2. ToolInv => StrictestRuleDecides
  BY <1>1, Zenon DEF StrictestRuleDecides
<1>3. QED BY <1>2, ToolInvHolds, PTL

\* No rule has a limit below zero (a rule may: then what costs nothing is above its limit).
LimitsAreAmounts ==
    \A l \in RuleLists : \A i \in DOMAIN l :
        l[i].type = "spend_limit" /\ l[i].max_amount # None => l[i].max_amount >= 0

LEMMA OverTheLimit ==
    ASSUME NEW rule, NEW args, NEW now, NEW spent, rule.type = "spend_limit",
           rule.max_amount # None, Exceeds(Amount(args), rule.max_amount)
    PROVE  OneRule(rule, "make_purchase", args, now, spent) = "hold"
BY Zenon DEF OneRule

\* No purchase that the owner has not approved is above a limit per purchase, under
\* enforcement, but one whose amount is not a number (policy.py:214-221, 238-243,
\* agent.py:91-95).
THEOREM PurchasesWithinLimits ==
    ASSUME LimitsAreAmounts
    PROVE  Spec => []PurchasesStayInLimits
<1>1. ASSUME ToolInv, NEW r \in Requests, mode = "enforced", ran[r] # <<>>, ~ByOwner(r),
             ran[r][1].cost # NaN, NEW i \in DOMAIN rules, rules[i].type = "spend_limit",
             rules[i].max_amount # None
      PROVE  ran[r][1].cost <= rules[i].max_amount
  <2> DEFINE c == call[r]
             effect == Direct(c)
             limit == rules[i].max_amount
  <2>1. verdict[r].decision = "allow" /\ c \in Calls /\ ran[r] = <<effect>>
    BY <1>1, AllowedToRun
  <2>2. ran[r][1] = effect /\ effect \in Effects(c)
    BY <2>1 DEF Effects
  <2>3. rules \in RuleLists /\ i \in 1..Len(rules)
    <3>1. rules \in RuleLists
      BY <1>1 DEF ToolInv, TypeOK
    <3>2. QED BY <1>1, <3>1, RulesAreList
  <2>4. limit \in Int /\ limit >= 0
    <3>1. \A l \in RuleLists :
             /\ l \in Seq(Range(l))
             /\ \A j \in DOMAIN l :
                   /\ l[j].type \in RuleTypes
                   /\ l[j].type = "spend_limit" =>
                         {l[j].max_amount, l[j].max_per_day} \subseteq Int \cup {None}
      BY Zenon, ToolAssumption
    <3>2. limit \in Int \cup {None}
      BY <1>1, <2>3, <3>1
    <3>3. limit >= 0
      BY <1>1, <2>3 DEF LimitsAreAmounts
    <3>4. QED BY <1>1, <3>2, <3>3
  <2>5. OneRule(rules[i], c.action, c.args, verdict[r].hour, verdict[r].spent) = "allow"
    BY <1>1, <2>1, <2>3, JudgedByRules
  <2> HIDE DEF c, effect, limit
  <2>6. CASE effect.cost = 0
    BY <2>2, <2>4, <2>6 DEF limit
  <2>7. CASE /\ c.action = "make_purchase" /\ effect.cost \in Int \cup {NaN}
             /\ effect.cost = Amount(c.args)
    <3>1. ~Exceeds(Amount(c.args), limit)
      BY <1>1, <2>5, <2>7, OverTheLimit DEF limit
    <3>2. effect.cost # NaN
      BY <1>1, <2>2
    <3>3. effect.cost <= limit
      BY <2>4, <2>7, <3>1, <3>2 DEF Exceeds
    <3>4. QED BY <2>2, <3>3 DEF limit
  <2>8. QED BY <2>1, <2>2, <2>6, <2>7, EffectCosts
<1>2. ToolInv => PurchasesStayInLimits
  BY <1>1 DEF PurchasesStayInLimits
<1>3. QED BY <1>2, ToolInvHolds, PTL

----------------------------------------------------------------------------
(* The owner's approval, and what the caller hears *)

LEMMA ControlOfNothing ==
    ASSUME NEW command
    PROVE  /\ Control("", command, NoExtra).on = None
           /\ Control("", command, NoExtra).does = "nothing"
<1>1. MatchEntity("") = None
  BY MatchCases
<1>2. QED BY <1>1 DEF Control

LEMMA ControlWithExtra ==
    ASSUME NEW words, NEW command, NEW extra
    PROVE  Control(words, command, NoExtra) =
              [Control(words, command, extra) EXCEPT !.extra = NoExtra]
BY DEF Control

\* What runs on approval is what was held, but for what three entry points keep from the
\* executor or give the gate in its place, whatever is asked (agent.py:84-110,
\* mcp_server.py:78-127, main.py:653-667).
THEOREM ApprovalRunsIt == Spec => []ApprovalRunsWhatWasHeld
<1>1. ASSUME ToolInv, NEW r \in Requests, ByOwner(r), ran[r] # <<>>
      PROVE  LET did == ran[r][1]
                 due == Direct(call[r]) IN
             \/ did = due
             \/ /\ call[r].via = "mcp" /\ call[r].action = "control_device"
                /\ did.on = None /\ did.does = "nothing"
             \/ /\ call[r].via = "mcp" /\ due.does = "queue"
                /\ did = [due EXCEPT !.does = IF call[r].action = "make_purchase" THEN "order"
                                              ELSE "send"]
             \/ call[r].via = "http" /\ did = [due EXCEPT !.extra = NoExtra]
  <2> DEFINE c == call[r]
             did == ran[r][1]
             due == Direct(c)
             same(how) == [due EXCEPT !.does = how]
  <2>1. ran[r] = <<Executor(c.action, c.args)>> /\ c \in Calls
    <3>1. StageInv(r) /\ approval[r] # "none"
      BY <1>1 DEF ToolInv, RequestInv, ByOwner
    <3>2. QED BY <1>1, <3>1 DEF StageInv, ByOwner
  <2>2. did = Executor(c.action, c.args)
    BY <2>1
  <2> HIDE DEF c, did, due
  <2>3. CASE c.via = "mcp" /\ c.action = "control_device"
    <3>1. did = Control(Value(c.args, "device", ""), Value(c.args, "action", ""), NoExtra)
      BY <2>2, <2>3, ExecutorCases
    <3>2. Value(c.args, "device", "") = ""
      BY <2>1, <2>3, WordsAreSpeakable
    <3>3. did.on = None /\ did.does = "nothing"
      BY <3>1, <3>2, ControlOfNothing
    <3>4. QED BY <2>3, <3>3 DEF did, c
  <2>4. CASE c.via = "mcp" /\ c.action = "make_purchase"
    <3>1. /\ due = Effect(c.action, "queue", None, c.args.amount)
          /\ did = Effect(c.action, "order", None, c.args.amount)
      BY <2>1, <2>2, <2>4, DirectCases DEF due
    <3>2. due.does = "queue" /\ did = same("order")
      BY <3>1, EffectFields, EffectInstead
    <3>3. QED BY <2>4, <3>2 DEF did, due, c
  <2>5. CASE c.via = "mcp" /\ c.action = "send_message"
    <3>1. /\ due = Effect(c.action, "queue", c.args.recipient, 0)
          /\ did = Effect(c.action, "send", c.args.recipient, 0)
      BY <2>1, <2>2, <2>5, DirectCases DEF due
    <3>2. due.does = "queue" /\ did = same("send")
      BY <3>1, EffectFields, EffectInstead
    <3>3. QED BY <2>5, <3>2 DEF did, due, c
  <2>6. CASE c.via = "http"
    <3>1. c.action = "control_device" /\ {"device", "action"} \subseteq DOMAIN c.args
      BY <2>1, <2>6, ToolAssumption
    <3>2. Value(c.args, "device", "") = c.args.device /\ Value(c.args, "action", "") = c.args.action
      BY <3>1 DEF Value
    <3>3. did = Control(c.args.device, c.args.action, NoExtra)
      BY <2>2, <3>1, <3>2, ExecutorCases
    <3>4. due = Control(c.args.device, c.args.action, Clamped(c.extra))
      BY <2>1, <2>6, DirectCases DEF due
    <3>5. did = [due EXCEPT !.extra = NoExtra]
      BY <3>3, <3>4, ControlWithExtra
    <3>6. QED BY <2>6, <3>5 DEF did, due, c
  <2>7. CASE c.via \in {"agent", "signed"}
    <3>1. did = due
      BY <2>1, <2>2, <2>7, DirectCases DEF due
    <3>2. QED BY <3>1 DEF did, due, c
  <2>8. /\ c.via \in {"agent", "mcp", "http", "signed"}
        /\ c.via = "mcp" => c.action \in {"control_device", "make_purchase", "send_message"}
    BY <2>1, ToolAssumption, ArgumentsOfTools DEF Vias
  <2>9. QED BY <2>3, <2>4, <2>5, <2>6, <2>7, <2>8
<1>2. ToolInv => ApprovalRunsWhatWasHeld
  BY <1>1, Zenon DEF ApprovalRunsWhatWasHeld
<1>3. QED BY <1>2, ToolInvHolds, PTL

\* Nobody hears that a request was done, held or blocked when it was not (home_tools.py:31-43,
\* message_tools.py:31-39, 67-77, main.py:669-674).
THEOREM AnswersTrue == Spec => []AnswersAreTrue
<1>1. ASSUME ToolInv, NEW r \in Requests
      PROVE  /\ told[r] = "done" => ran[r] # <<>> /\ ~ByOwner(r)
             /\ told[r] = "held" => approval[r] # "none" /\ (ran[r] # <<>> => ByOwner(r))
             /\ told[r] = "blocked" => ran[r] = <<>>
  <2>1. StageInv(r) /\ ToldInv(r)
    BY <1>1 DEF ToolInv, RequestInv
  <2>2. told[r] = "done" => ran[r] # <<>> /\ ~ByOwner(r)
    <3> SUFFICES ASSUME told[r] = "done" PROVE ran[r] # <<>> /\ ~ByOwner(r)
      OBVIOUS
    <3>1. status[r] = "executed" /\ ~ForInbox(r)
      BY <2>1 DEF ToldInv
    <3>2. ran[r] = <<Direct(call[r])>> /\ approval[r] = "none"
      BY <2>1, <3>1 DEF StageInv
    <3>3. QED BY <3>2 DEF ByOwner
  <2>3. told[r] = "held" => approval[r] # "none" /\ (ran[r] # <<>> => ByOwner(r))
    BY <2>1 DEF StageInv, ToldInv
  <2>4. told[r] = "blocked" => ran[r] = <<>>
    BY <2>1 DEF StageInv, ToldInv, ByOwner
  <2>5. QED BY <2>2, <2>3, <2>4
<1>2. ToolInv => AnswersAreTrue
  BY <1>1 DEF AnswersAreTrue
<1>3. QED BY <1>2, ToolInvHolds, PTL

\* However many mails are read, and wherever the list is cut off, the warning about any of
\* them is left (message_tools.py:156-178).
THEOREM InboxWarningSeen == Spec => []InboxWarningIsSeen
<1>1. InboxWarningIsSeen <=> \A r \in Requests : Seen(shown[r])
  BY DEF InboxWarningIsSeen, Seen
<1>2. Init => InboxWarningIsSeen
  <2> SUFFICES ASSUME Init PROVE \A r \in Requests : Seen(shown[r])
    BY <1>1
  <2>1. \A r \in Requests : shown[r] = NoInbox
    BY DEF Init
  <2>2. Seen(NoInbox)
    BY DEF Seen, NoInbox
  <2>3. QED BY <2>1, <2>2
<1>3. ToolInv /\ InboxWarningIsSeen /\ [Next]_vars => InboxWarningIsSeen'
  <2> SUFFICES ASSUME ToolInv, \A r \in Requests : Seen(shown[r]), [Next]_vars
               PROVE  \A r \in Requests : Seen(shown'[r])
    BY <1>1 DEF InboxWarningIsSeen, Seen
  <2>1. CASE UNCHANGED shown
    BY <2>1
  <2>2. CASE \E r \in Requests : ReadInbox(r)
    <3>1. PICK r \in Requests : ReadInbox(r)
      BY <2>2
    <3>2. call[r] \in Calls /\ DOMAIN shown = Requests
      BY <3>1 DEF ToolInv, Domains, RequestInv, StageInv, ReadInbox
    <3>3. PICK inbox : shown' = [shown EXCEPT ![r] = inbox] /\ Seen(inbox)
      BY <3>1, <3>2, ShownIsSeen
    <3>4. QED BY <3>2, <3>3
  <2>3. UNCHANGED shown \/ \E r \in Requests : ReadInbox(r)
    <3>1. CASE UNCHANGED vars
      BY <3>1 DEF vars
    <3>2. CASE Tick
      BY <3>2 DEF Tick
    <3>3. CASE \E r \in Requests : RequestStep(r)
      <4>1. PICK r \in Requests : RequestStep(r)
        BY <3>3
      <4>2. Asking(r) => UNCHANGED shown
        BY AskingArrives DEF Arrive
      <4>3. QED BY <4>1, <4>2 DEF RequestStep, Judge, SumRaises, Run, Tell, Approve, Refuse
    <3>4. QED BY <3>1, <3>2, <3>3, NextCases
  <2>4. QED BY <2>1, <2>2, <2>3
<1>4. QED BY <1>2, <1>3, ToolInvHolds, PTL DEF Spec

----------------------------------------------------------------------------
(* What moves a device *)

\* What is carried out on a device is carried out on the one that the words fit best.
LEMMA EffectMovesNamed ==
    ASSUME NamesDiffer, DOMAIN house = Ids, NEW c \in Calls, NEW effect \in Effects(c),
           NEW d \in Ids, HouseAfter(effect)[d] # house[d]
    PROVE  /\ c.action = "control_device"
           /\ \A e \in Ids \ {d} : Fit(Words(c), d) > Fit(Words(c), e)
<1>1. effect.kind = "control_device" /\ effect.does # "nothing"
  BY DEF HouseAfter
<1>2. c.action = "control_device"
  BY <1>1, KindOfEffect
<1>3. MatchEntity(Words(c)) = effect.on /\ effect.on # None
  BY <1>1, <1>2, EffectOfDevice DEF Harmless
<1>4. d = effect.on
  BY <1>1 DEF HouseAfter
<1>5. Words(c) \in Speakable
  BY <1>2, WordsAreSpeakable
<1>6. QED BY <1>2, <1>3, <1>4, <1>5, MatchFitsBest

\* A device moves only by a request that names it better than any other device and that the
\* rules, the mode or the owner have let through, when no two devices have one name
\* (home_assistant.py:84-108, 308-331).
THEOREM OnlyNamedMove ==
    ASSUME NamesDiffer
    PROVE  Spec => OnlyNamedDevicesMove
<1> DEFINE Moved ==
      \A d \in Ids : house'[d] # house[d] =>
          \E r \in Requests :
            /\ ran'[r] # ran[r] /\ call[r].action = "control_device"
            /\ \A e \in Ids \ {d} : Fit(Words(call[r]), d) > Fit(Words(call[r]), e)
            /\ mode = "enforced" => verdict[r].decision = "allow" \/ approval'[r] = "executed"
<1>1. ASSUME ToolInv, NEW r \in Requests, NEW effect \in Effects(call[r]), Happens(r, effect),
             call[r] \in Calls, ran[r] = <<>>, NEW d \in Ids, house'[d] # house[d]
      PROVE  /\ ran'[r] # ran[r] /\ call[r].action = "control_device"
             /\ \A e \in Ids \ {d} : Fit(Words(call[r]), d) > Fit(Words(call[r]), e)
  <2>1. /\ ran' = [ran EXCEPT ![r] = Append(ran[r], effect)] /\ house' = HouseAfter(effect)
        /\ DOMAIN ran = Requests /\ DOMAIN house = Ids
    BY <1>1 DEF Happens, ToolInv, Domains
  <2>2. ran'[r] = <<effect>>
    BY <1>1, <2>1
  <2>3. HouseAfter(effect)[d] # house[d]
    BY <1>1, <2>1
  <2>4. /\ call[r].action = "control_device"
        /\ \A e \in Ids \ {d} : Fit(Words(call[r]), d) > Fit(Words(call[r]), e)
    BY <1>1, <2>1, <2>3, EffectMovesNamed
  <2>5. QED BY <1>1, <2>2, <2>4
<1>2. ASSUME ToolInv, [Next]_vars, NEW d \in Ids, house'[d] # house[d]
      PROVE  \E r \in Requests : Run(r) \/ Approve(r)
  <2>1. ~UNCHANGED vars /\ ~Tick
    BY <1>2 DEF vars, Tick
  <2>2. PICK r \in Requests : RequestStep(r)
    BY <1>2, <2>1, NextCases
  <2>3. Asking(r) => UNCHANGED house
    BY AskingArrives DEF Arrive
  <2>4. Run(r) \/ Approve(r)
    BY <1>2, <2>2, <2>3 DEF RequestStep, Judge, SumRaises, Tell, Refuse, ReadInbox
  <2>5. QED BY <2>4
<1>3. ASSUME ToolInv, [Next]_vars, NEW d \in Ids, house'[d] # house[d]
      PROVE  \E r \in Requests :
               /\ ran'[r] # ran[r] /\ call[r].action = "control_device"
               /\ \A e \in Ids \ {d} : Fit(Words(call[r]), d) > Fit(Words(call[r]), e)
               /\ mode = "enforced" => verdict[r].decision = "allow" \/ approval'[r] = "executed"
  <2>1. PICK r \in Requests : Run(r) \/ Approve(r)
    BY <1>2, <1>3
  <2>2. RequestInv(r) /\ DOMAIN approval = Requests
    BY <1>3 DEF ToolInv, TypeOK
  <2>3. CASE Run(r)
    <3>1. status[r] = "cleared" /\ Happens(r, Direct(call[r]))
      BY <1>3, <2>3 DEF Run, RaisesOver
    <3>2. /\ call[r] \in Calls /\ ran[r] = <<>>
          /\ mode = "enforced" => verdict[r].decision = "allow"
      BY <1>3, <3>1, ClearedHasNotRun
    <3>3. Direct(call[r]) \in Effects(call[r])
      BY DEF Effects
    <3>4. /\ ran'[r] # ran[r] /\ call[r].action = "control_device"
          /\ \A e \in Ids \ {d} : Fit(Words(call[r]), d) > Fit(Words(call[r]), e)
      BY <1>1, <1>3, <3>1, <3>2, <3>3
    <3>5. QED BY <3>2, <3>4
  <2>4. CASE Approve(r)
    <3>0. /\ approval[r] = "pending" /\ Happens(r, Executor(call[r].action, call[r].args))
          /\ \/ approval' = [approval EXCEPT ![r] = "executed"]
             \/ MayRaise(Executor(call[r].action, call[r].args))
      BY <1>3, <2>4 DEF Approve, RaisesOver
    <3>1. approval[r] = "pending" /\ approval' = [approval EXCEPT ![r] = "executed"]
      <4> DEFINE effect == Executor(call[r].action, call[r].args)
      <4>1. HouseAfter(effect)[d] # house[d]
        BY <1>3, <3>0 DEF Happens
      <4>2. effect.kind = "control_device"
        BY <4>1 DEF HouseAfter
      <4>3. ~MayRaise(effect)
        BY <4>2 DEF MayRaise, MailActions
      <4>4. QED BY <3>0, <4>3
    <3>2. call[r] \in Calls /\ ran[r] = <<>> /\ approval'[r] = "executed"
      <4>1. StageInv(r) /\ status[r] = "held"
        BY <2>2, <3>1 DEF RequestInv, StageInv
      <4>2. call[r] \in Calls /\ ran[r] = <<>>
        BY <3>1, <4>1 DEF StageInv, ByOwner
      <4>3. QED BY <2>2, <3>1, <4>2
    <3>3. Executor(call[r].action, call[r].args) \in Effects(call[r])
      BY DEF Effects
    <3>4. /\ ran'[r] # ran[r] /\ call[r].action = "control_device"
          /\ \A e \in Ids \ {d} : Fit(Words(call[r]), d) > Fit(Words(call[r]), e)
      BY <1>1, <1>3, <3>0, <3>2, <3>3
    <3>5. QED BY <3>2, <3>4
  <2>5. QED BY <2>1, <2>3, <2>4
<1>4. ToolInv /\ [Next]_vars => [Moved]_vars
  BY <1>3
<1>5. QED BY <1>4, ToolInvHolds, PTL DEF Spec, OnlyNamedDevicesMove
=============================================================================
