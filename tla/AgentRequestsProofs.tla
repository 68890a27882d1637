------------------------ MODULE AgentRequestsProofs ------------------------
(* Proofs about signed agent requests, for any window, skew and delay. *)
EXTENDS AgentRequests, TLAPS

----------------------------------------------------------------------------
(* Types *)

LEMMA TypesAreInductive == TypeOK /\ [Next]_vars => TypeOK'
<1> SUFFICES ASSUME TypeOK, [Next]_vars PROVE TypeOK'
  OBVIOUS
<1> USE RequestAssumption DEF TypeOK, Times, PCs, Timed, nonces, network, calls, history
<1>1. ASSUME NEW a \in Agents, Register(a) PROVE TypeOK'
  BY <1>1 DEF Register
<1>2. ASSUME NEW a \in Agents, NEW st \in {"active", "revoked"}, SetAgentStatus(a, st)
      PROVE  TypeOK'
  BY <1>2 DEF SetAgentStatus
<1>3. ASSUME NEW m \in Messages, Sign(m) PROVE TypeOK'
  BY <1>3 DEF Sign
<1>4. ASSUME NEW c \in Calls, NEW m \in Messages, Receive(c, m) PROVE TypeOK'
  BY <1>4 DEF Receive
<1>5. ASSUME NEW c \in Calls, ReadAgent(c) PROVE TypeOK'
  <2>1. CASE status[SenderOf[msg[c]]] = "active"
    BY <1>5, <2>1 DEF ReadAgent, Proceed
  <2>2. CASE status[SenderOf[msg[c]]] # "active"
    <3>1. End(c) /\ UNCHANGED <<now, status, network, nonces, history>>
      BY <1>5, <2>2 DEF ReadAgent
    <3>2. QED BY <3>1 DEF End
  <2>3. QED BY <2>1, <2>2
<1>6. ASSUME NEW c \in Calls, CheckFresh(c) PROVE TypeOK'
  <2>1. CASE IsFresh(stamp[msg[c]])
    BY <1>6, <2>1 DEF CheckFresh, Proceed
  <2>2. CASE ~IsFresh(stamp[msg[c]])
    <3>1. End(c) /\ UNCHANGED <<now, status, network, nonces, history>>
      BY <1>6, <2>2 DEF CheckFresh
    <3>2. QED BY <3>1 DEF End
  <2>3. QED BY <2>1, <2>2
<1>7. ASSUME NEW c \in Calls, CheckSignature(c) PROVE TypeOK'
  <2>1. CASE genuine[c]
    BY <1>7, <2>1 DEF CheckSignature, Proceed
  <2>2. CASE ~genuine[c]
    <3>1. End(c) /\ UNCHANGED <<now, status, network, nonces, history>>
      BY <1>7, <2>2 DEF CheckSignature
    <3>2. QED BY <3>1 DEF End
  <2>3. QED BY <2>1, <2>2
<1>8. ASSUME NEW c \in Calls, Consume(c) PROVE TypeOK'
  BY <1>8 DEF Consume, Remember, NonceIn, Accept, End
<1>9. ASSUME NEW c \in Calls, ReadClock(c) PROVE TypeOK'
  BY <1>9 DEF ReadClock
<1>10. ASSUME NEW c \in Calls, Refuse(c) PROVE TypeOK'
  BY <1>10 DEF Refuse, End
<1>11. ASSUME Tick PROVE TypeOK'
  BY <1>11 DEF Tick
<1>12. ASSUME Restart PROVE TypeOK'
  BY <1>12 DEF Restart
<1>13. ASSUME UNCHANGED vars PROVE TypeOK'
  BY <1>13 DEF vars
<1>14. QED
  BY <1>1, <1>2, <1>3, <1>4, <1>5, <1>6, <1>7, <1>8, <1>9, <1>10, <1>11, <1>12, <1>13
  DEF Next, CallStep

\* Every variable keeps its type.
THEOREM TypeCorrect == Spec => []TypeOK
<1>1. Init => TypeOK
  BY RequestAssumption DEF Init, TypeOK, Times, PCs
<1>2. QED BY <1>1, TypesAreInductive, PTL DEF Spec

----------------------------------------------------------------------------
(* What a call has checked is still nearly so when it uses up the nonce *)

\* A stamp is ahead of the server's clock by the agent's skew at most.
StampsInTime == \A m \in sent : stamp[m] <= now + MaxSkew

\* What a call knows of its message, and how long ago it read the clock.
CallChecked(c) ==
    /\ pc[c] # "idle" => msg[c] \in sent
    /\ pc[c] \in Timed =>
          /\ now <= readAt[c] + MaxDelay
          /\ readAt[c] < stamp[msg[c]] + TTL
    /\ pc[c] \in {"clock", "insert"} => genuine[c]
    /\ pc[c] = "insert" =>
          /\ rereadAt[c] <= now
          /\ stamp[msg[c]] <= rereadAt[c] + MaxSkew

\* An accepted message is remembered, or its nonce has had its time.
Kept(m) ==
    /\ m \in sent
    /\ last[m] <= now
    /\ stamp[m] <= first[m] + MaxSkew
    /\ \/ NonceOf[m] \in remembered /\ last[m] + TTL <= expires[NonceOf[m]]
       \/ last[m] + TTL < now

WindowInv ==
    /\ TypeOK
    /\ StampsInTime
    /\ \A c \in Calls : CallChecked(c)
    /\ \A m \in accepted : Kept(m)
    /\ NoncesAreEarned

LEMMA CallKeepsWindow ==
    ASSUME WindowInv, TypeOK', NEW c \in Calls, CallStep(c)
    PROVE  WindowInv'
<1> USE RequestAssumption DEF TypeOK, Times, PCs, Timed, nonces, network, calls, history,
        WindowInv, StampsInTime, CallChecked, Kept, NoncesAreEarned
<1>1. CASE ReadAgent(c)
  BY <1>1 DEF ReadAgent, Proceed, End
<1>2. CASE CheckFresh(c)
  BY <1>2 DEF CheckFresh, Proceed, End, IsFresh
<1>3. CASE CheckSignature(c)
  BY <1>3 DEF CheckSignature, Proceed, End
<1>4. CASE ReadClock(c)
  BY <1>4 DEF ReadClock
<1>5. CASE Consume(c)
  <2> DEFINE m == msg[c]
             t == rereadAt[c]
  <2>1. m \in sent /\ m \in Messages /\ NonceOf[m] \in Nonces /\ NonceOf[m] \notin remembered
    BY <1>5 DEF Consume, NonceIn
  <2>2. genuine[c] /\ accepted' = accepted \cup {m} /\ last' = [last EXCEPT ![m] = t]
        /\ first' = [first EXCEPT ![m] = IF m \in accepted THEN @ ELSE t]
    BY <1>5 DEF Consume, Accept
  <2>3. /\ remembered' = {n \in remembered : expires[n] >= t} \cup {NonceOf[m]}
        /\ expires' = [expires EXCEPT ![NonceOf[m]] = t + TTL]
        /\ now' = now /\ stamp' = stamp /\ sent' = sent
    BY <1>5 DEF Consume, Remember, NonceIn
  <2>4. t <= now /\ stamp[m] <= t + MaxSkew /\ t \in Nat
    BY <1>5 DEF Consume
  <2>5. StampsInTime'
    BY <2>3
  <2>6. \A d \in Calls : CallChecked(d)'
    BY <1>5, <2>3 DEF Consume, End
  <2>7. ASSUME NEW k \in accepted' PROVE Kept(k)'
    <3>1. CASE k = m
      BY <3>1, <2>1, <2>2, <2>3, <2>4
    <3>2. CASE k # m
      <4>1. k \in accepted /\ k \in Messages /\ last'[k] = last[k] /\ first'[k] = first[k]
        BY <3>2, <2>2
      <4>2. Kept(k)
        BY <4>1
      <4>3. CASE last[k] + TTL < now
        BY <4>1, <4>2, <4>3, <2>3
      <4>4. CASE ~(last[k] + TTL < now)
        <5>1. /\ NonceOf[k] \in remembered /\ NonceOf[k] # NonceOf[m]
              /\ last[k] + TTL <= expires[NonceOf[k]]
          BY <4>2, <4>4, <2>1
        <5>2. NonceOf[k] \in remembered' /\ expires'[NonceOf[k]] = expires[NonceOf[k]]
          BY <5>1, <4>1, <4>4, <2>1, <2>3, <2>4
        <5>3. QED BY <4>1, <4>2, <5>1, <5>2, <2>3
      <4>5. QED BY <4>3, <4>4
    <3>3. QED BY <3>1, <3>2
  <2>8. NoncesAreEarned'
    BY <2>2, <2>3
  <2>9. QED BY <2>5, <2>6, <2>7, <2>8
<1>6. CASE Refuse(c)
  BY <1>6 DEF Refuse, End
<1>7. QED BY <1>1, <1>2, <1>3, <1>4, <1>5, <1>6 DEF CallStep

LEMMA WindowIsInductive == WindowInv /\ [Next]_vars => WindowInv'
<1> SUFFICES ASSUME WindowInv, [Next]_vars PROVE WindowInv'
  OBVIOUS
<1>0. TypeOK'
  BY TypesAreInductive DEF WindowInv
<1> USE RequestAssumption, <1>0 DEF TypeOK, Times, PCs, Timed, nonces, network, calls, history,
        WindowInv, StampsInTime, CallChecked, Kept, NoncesAreEarned
<1>1. ASSUME NEW a \in Agents, Register(a) PROVE WindowInv'
  BY <1>1 DEF Register
<1>2. ASSUME NEW a \in Agents, NEW st \in {"active", "revoked"}, SetAgentStatus(a, st)
      PROVE  WindowInv'
  BY <1>2 DEF SetAgentStatus
<1>3. ASSUME NEW m \in Messages, Sign(m) PROVE WindowInv'
  <2>1. m \notin sent /\ m \notin accepted /\ \A c \in Calls : pc[c] # "idle" => msg[c] # m
    BY <1>3 DEF Sign
  <2>2. QED BY <1>3, <2>1 DEF Sign
<1>4. ASSUME NEW c \in Calls, NEW m \in Messages, Receive(c, m) PROVE WindowInv'
  BY <1>4 DEF Receive
<1>5. ASSUME NEW c \in Calls, CallStep(c) PROVE WindowInv'
  BY <1>5, CallKeepsWindow
<1>6. ASSUME Tick PROVE WindowInv'
  BY <1>6 DEF Tick
<1>7. ASSUME Restart PROVE WindowInv'
  BY <1>7 DEF Restart
<1>8. ASSUME UNCHANGED vars PROVE WindowInv'
  BY <1>8 DEF vars
<1>9. QED BY <1>1, <1>2, <1>3, <1>4, <1>5, <1>6, <1>7, <1>8 DEF Next

LEMMA WindowHolds == Spec => []WindowInv
<1>1. Init => WindowInv
  BY RequestAssumption DEF Init, WindowInv, TypeOK, Times, PCs, StampsInTime, CallChecked,
     Kept, NoncesAreEarned
<1>2. QED BY <1>1, WindowIsInductive, PTL DEF Spec

\* Only an accepted request uses up a nonce.
THEOREM NoncesStayEarned == Spec => []NoncesAreEarned
<1>1. WindowInv => NoncesAreEarned
  BY DEF WindowInv
<1>2. QED BY <1>1, WindowHolds, PTL

\* A repeated acceptance has its place in time.
LEMMA RepeatIsLate ==
    ASSUME WindowInv, NEW m \in accepted, Accepts(m)
    PROVE  last[m] + TTL < now /\ now < first[m] + TTL + MaxSkew + MaxDelay
<1>1. PICK c \in Calls : pc[c] = "insert" /\ msg[c] = m /\ Consume(c)
  BY DEF Accepts
<1>2. Kept(m) /\ CallChecked(c)
  BY DEF WindowInv
<1>3. NonceOf[m] \notin remembered
  BY <1>1 DEF Consume, NonceIn
<1>4. last[m] + TTL < now
  BY <1>2, <1>3 DEF Kept
<1>5. now < first[m] + TTL + MaxSkew + MaxDelay
  <2>1. now <= readAt[c] + MaxDelay /\ readAt[c] < stamp[m] + TTL
    BY <1>1, <1>2 DEF CallChecked, Timed
  <2>2. stamp[m] <= first[m] + MaxSkew
    BY <1>2 DEF Kept
  <2>3. m \in Messages /\ stamp[m] \in Nat /\ first[m] \in Nat /\ readAt[c] \in Nat /\ now \in Nat
        /\ MaxSkew \in Nat /\ MaxDelay \in Nat /\ TTL \in Nat
    BY RequestAssumption DEF WindowInv, TypeOK, Times
  <2>4. QED BY <2>1, <2>2, <2>3
<1>6. QED BY <1>4, <1>5

\* A request delivered again is accepted again only when its nonce has been forgotten
\* and it is still fresh.
THEOREM RepeatsAreLate == Spec => RepeatsOnlyLate
<1>1. WindowInv =>
        [\A m \in accepted :
           Accepts(m) => /\ last[m] + TTL < now
                         /\ now < first[m] + TTL + MaxSkew + MaxDelay]_vars
  BY RepeatIsLate
<1>2. QED BY <1>1, WindowHolds, PTL DEF RepeatsOnlyLate
=============================================================================
