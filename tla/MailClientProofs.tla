-------------------------- MODULE MailClientProofs --------------------------
(***************************************************************************)
(* Proofs about the mail client: its types, what becomes of the copies of  *)
(* a mail, and which tokens its threads use, for any number of threads,    *)
(* mails and faults and for any lifetimes.                                 *)
(***************************************************************************)
EXTENDS MailClient, TLAPS

----------------------------------------------------------------------------
(* Types *)

\* Clock, caches, files and bounds; calls; mails.
Stores ==
    /\ now \in 0..MaxTime
    /\ {capJwt, capExp, capFile, sessFile} \subseteq Tokens
    /\ mixed \in BOOLEAN
    /\ faults \in 0..MaxFaults /\ reads \in 0..MaxReads

CallTypes ==
    /\ pc \in [Threads -> PCs]
    /\ job \in [Threads -> Mails \cup {None}]
    /\ legs \in [Threads -> 0..2]
    /\ readAt \in [Threads -> 0..MaxTime]
    /\ tok \in [Threads -> Tokens]
    /\ disturbed \in [Threads -> BOOLEAN]

MailTypes ==
    /\ mail \in [Mails -> {"pending", "resolving", "executed", "error", "denied"}]
    /\ sent \in [Mails -> Nat] /\ unsure \subseteq Mails

LEMMA TypesSplit == TypeOK <=> Stores /\ CallTypes /\ MailTypes
BY DEF TypeOK, Stores, CallTypes, MailTypes

LEMMA InitTypes == Init => TypeOK
<1> SUFFICES ASSUME Init PROVE TypeOK
  OBVIOUS
<1>1. 0 \in Tokens /\ 0 \in 0..MaxTime /\ 0 \in 0..MaxFaults /\ 0 \in 0..MaxReads
  BY MailAssumption DEF Tokens
<1>2. Stores
  BY <1>1 DEF Init, Stores
<1>3. CallTypes
  BY <1>1 DEF Init, CallTypes, PCs
<1>4. MailTypes
  BY DEF Init, MailTypes
<1>5. QED BY <1>2, <1>3, <1>4, TypesSplit

\* A thread that moves on after a request has forgotten what that needed.
LEMMA ForgetTypes ==
    ASSUME NEW t \in Threads, NEW to \in PCs, TypeOK, Forget(t),
           pc' = [pc EXCEPT ![t] = to], UNCHANGED job
    PROVE  CallTypes'
<1>1. CallTypes
  BY TypesSplit
<1>2. 0 \in Tokens /\ 0 \in 0..MaxTime
  BY MailAssumption DEF Tokens
<1>3. QED BY <1>1, <1>2 DEF Forget, CallTypes

LEMMA FailTypes ==
    ASSUME NEW t \in Threads, TypeOK, Fail(t)
    PROVE  CallTypes'
<1>1. CASE job[t] = None
  BY <1>1, ForgetTypes DEF Fail, PCs
<1>2. CASE job[t] # None
  BY <1>2, ForgetTypes DEF Fail, PCs
<1>3. QED BY <1>1, <1>2

\* Where a thread is in the gate or waits for an answer, it has a mail in hand.
Handling == {"answer", "close", "update", "failed"}

HandleInv == \A t \in Threads : pc[t] \in Handling => job[t] # None

LEMMA StepTypes ==
    ASSUME TypeOK, NEW t \in Threads, Step(t)
    PROVE  TypeOK'
<1>1. Stores /\ CallTypes /\ MailTypes
  BY TypesSplit
<1>2. /\ now \in Nat /\ now <= MaxTime
      /\ now + SessionLife \in Tokens /\ now + TokenLife \in Tokens
      /\ 0 \in Tokens /\ 1 \in 0..2
  BY <1>1, MailAssumption DEF Stores, Tokens
<1>3. CASE ReadClock(t)
  <2>1. Stores'
    BY <1>1, <1>2, <1>3 DEF ReadClock, Stores, CallTypes, memory, files, bounds
  <2>2. CallTypes'
    BY <1>1, <1>2, <1>3 DEF ReadClock, Go, Stores, CallTypes, PCs, call, memory, files
  <2>3. MailTypes'
    BY <1>1, <1>3 DEF ReadClock, MailTypes, mails
  <2>4. QED BY <2>1, <2>2, <2>3 DEF TypeOK, Stores, CallTypes, MailTypes
<1>4. CASE MemoryHit(t)
  <2>1. Stores'
    BY <1>1, <1>2, <1>4 DEF MemoryHit, Stores, CallTypes, memory, files, bounds
  <2>2. CallTypes'
    BY <1>1, <1>2, <1>4 DEF MemoryHit, Go, Stores, CallTypes, PCs, call, memory, files
  <2>3. MailTypes'
    BY <1>1, <1>4 DEF MemoryHit, MailTypes, mails
  <2>4. QED BY <2>1, <2>2, <2>3 DEF TypeOK, Stores, CallTypes, MailTypes
<1>5. CASE Take(t)
  <2>1. Stores'
    BY <1>1, <1>2, <1>5 DEF Take, Stores, CallTypes, memory, files, bounds
  <2>2. CallTypes'
    BY <1>1, <1>2, <1>5 DEF Take, Go, Stores, CallTypes, PCs, call, memory, files
  <2>3. MailTypes'
    BY <1>1, <1>5 DEF Take, MailTypes, mails
  <2>4. QED BY <2>1, <2>2, <2>3 DEF TypeOK, Stores, CallTypes, MailTypes
<1>6. CASE MemoryMiss(t)
  <2>1. Stores'
    BY <1>1, <1>2, <1>6 DEF MemoryMiss, Stores, CallTypes, memory, files, bounds
  <2>2. CallTypes'
    BY <1>1, <1>2, <1>6 DEF MemoryMiss, Go, Stores, CallTypes, PCs, call, memory, files
  <2>3. MailTypes'
    BY <1>1, <1>6 DEF MemoryMiss, MailTypes, mails
  <2>4. QED BY <2>1, <2>2, <2>3 DEF TypeOK, Stores, CallTypes, MailTypes
<1>7. CASE FileHit(t)
  <2>1. Stores'
    BY <1>1, <1>2, <1>7 DEF FileHit, Stores, CallTypes, memory, files, bounds
  <2>2. CallTypes'
    BY <1>1, <1>2, <1>7 DEF FileHit, Go, Stores, CallTypes, PCs, call, memory, files
  <2>3. MailTypes'
    BY <1>1, <1>7 DEF FileHit, MailTypes, mails
  <2>4. QED BY <2>1, <2>2, <2>3 DEF TypeOK, Stores, CallTypes, MailTypes
<1>8. CASE FileMiss(t)
  <2>1. Stores'
    BY <1>1, <1>2, <1>8 DEF FileMiss, Stores, CallTypes, memory, files, bounds
  <2>2. CallTypes'
    BY <1>1, <1>2, <1>8 DEF FileMiss, Go, Stores, CallTypes, PCs, call, memory, files
  <2>3. MailTypes'
    BY <1>1, <1>8 DEF FileMiss, MailTypes, mails
  <2>4. QED BY <2>1, <2>2, <2>3 DEF TypeOK, Stores, CallTypes, MailTypes
<1>9. CASE SessionHit(t)
  <2>1. Stores'
    BY <1>1, <1>2, <1>9 DEF SessionHit, Stores, CallTypes, memory, files, bounds
  <2>2. CallTypes'
    <3>1. sessFile \in Tokens /\ "refresh" \in PCs
      BY <1>1 DEF Stores, PCs
    <3>2. QED BY <1>1, <1>9, <3>1 DEF SessionHit, Go, CallTypes, call
  <2>3. MailTypes'
    BY <1>1, <1>9 DEF SessionHit, MailTypes, mails
  <2>4. QED BY <2>1, <2>2, <2>3 DEF TypeOK, Stores, CallTypes, MailTypes
<1>10. CASE SessionMiss(t)
  <2>1. Stores'
    BY <1>1, <1>2, <1>10 DEF SessionMiss, Stores, CallTypes, memory, files, bounds
  <2>2. CallTypes'
    BY <1>1, <1>2, <1>10 DEF SessionMiss, Go, Stores, CallTypes, PCs, call, memory, files
  <2>3. MailTypes'
    BY <1>1, <1>10 DEF SessionMiss, MailTypes, mails
  <2>4. QED BY <2>1, <2>2, <2>3 DEF TypeOK, Stores, CallTypes, MailTypes
<1>11. CASE ProveWork(t)
  <2>1. Stores'
    BY <1>1, <1>2, <1>11 DEF ProveWork, Stores, CallTypes, memory, files, bounds
  <2>2. CallTypes'
    BY <1>1, <1>2, <1>11 DEF ProveWork, Go, Stores, CallTypes, PCs, call, memory, files
  <2>3. MailTypes'
    BY <1>1, <1>11 DEF ProveWork, MailTypes, mails
  <2>4. QED BY <2>1, <2>2, <2>3 DEF TypeOK, Stores, CallTypes, MailTypes
<1>12. CASE Refresh(t)
  <2>1. Stores'
    BY <1>1, <1>2, <1>12 DEF Refresh, Stores, CallTypes, memory, files, bounds
  <2>2. CallTypes'
    BY <1>1, <1>2, <1>12 DEF Refresh, Go, Stores, CallTypes, PCs, call, memory, files
  <2>3. MailTypes'
    BY <1>1, <1>12 DEF Refresh, MailTypes, mails
  <2>4. QED BY <2>1, <2>2, <2>3 DEF TypeOK, Stores, CallTypes, MailTypes
<1>13. CASE WriteFile(t)
  <2>1. Stores'
    BY <1>1, <1>2, <1>13 DEF WriteFile, Stores, CallTypes, memory, files, bounds
  <2>2. CallTypes'
    BY <1>1, <1>2, <1>13 DEF WriteFile, Go, Stores, CallTypes, PCs, call, memory, files
  <2>3. MailTypes'
    BY <1>1, <1>13 DEF WriteFile, MailTypes, mails
  <2>4. QED BY <2>1, <2>2, <2>3 DEF TypeOK, Stores, CallTypes, MailTypes
<1>14. CASE StoreJwt(t)
  <2>1. Stores'
    BY <1>1, <1>2, <1>14 DEF StoreJwt, Stores, CallTypes, memory, files, bounds
  <2>2. CallTypes'
    BY <1>1, <1>2, <1>14 DEF StoreJwt, Go, Stores, CallTypes, PCs, call, memory, files
  <2>3. MailTypes'
    BY <1>1, <1>14 DEF StoreJwt, MailTypes, mails
  <2>4. QED BY <2>1, <2>2, <2>3 DEF TypeOK, Stores, CallTypes, MailTypes
<1>15. CASE StoreExp(t)
  <2>1. Stores'
    BY <1>1, <1>2, <1>15 DEF StoreExp, Stores, CallTypes, memory, files, bounds
  <2>2. CallTypes'
    BY <1>1, <1>2, <1>15 DEF StoreExp, Go, Stores, CallTypes, PCs, call, memory, files
  <2>3. MailTypes'
    BY <1>1, <1>15 DEF StoreExp, MailTypes, mails
  <2>4. QED BY <2>1, <2>2, <2>3 DEF TypeOK, Stores, CallTypes, MailTypes
<1>16. CASE Discover(t)
  <2>1. Stores'
    BY <1>1, <1>2, <1>16 DEF Discover, Stores, CallTypes, memory, files, bounds
  <2>2. CallTypes'
    BY <1>1, <1>2, <1>16 DEF Discover, Go, Stores, CallTypes, PCs, call, memory, files
  <2>3. MailTypes'
    BY <1>1, <1>16 DEF Discover, MailTypes, mails
  <2>4. QED BY <2>1, <2>2, <2>3 DEF TypeOK, Stores, CallTypes, MailTypes
<1>17. CASE PostFirst(t)
  <2>1. Stores'
    BY <1>1, <1>17 DEF PostFirst, Stores, memory, files, bounds
  <2>2. CallTypes'
    BY <1>1, <1>2, <1>17 DEF PostFirst, Go, CallTypes, PCs
  <2>3. MailTypes'
    BY <1>1, <1>17 DEF PostFirst, MailTypes, mails
  <2>4. QED BY <2>1, <2>2, <2>3 DEF TypeOK, Stores, CallTypes, MailTypes
<1>18. CASE PostRead(t)
  <2>1. Stores'
    BY <1>1, <1>18 DEF PostRead, Stores, memory, files, bounds
  <2>2. CallTypes'
    BY <1>18, ForgetTypes DEF PostRead, Go, PCs
  <2>3. MailTypes'
    BY <1>1, <1>18 DEF PostRead, MailTypes, mails
  <2>4. QED BY <2>1, <2>2, <2>3 DEF TypeOK, Stores, CallTypes, MailTypes
<1>19. CASE Post(t)
  <2>1. Stores'
    BY <1>1, <1>19 DEF Post, Stores, memory, files, bounds
  <2>2. CallTypes'
    BY <1>19, ForgetTypes DEF Post, Go, PCs
  <2>3. MailTypes'
    BY <1>1, <1>19 DEF Post, MailTypes, CallTypes
  <2>4. QED BY <2>1, <2>2, <2>3 DEF TypeOK, Stores, CallTypes, MailTypes
<1>20. CASE Refused(t)
  <2>1. Stores'
    BY <1>1, <1>20 DEF Refused, Fail, Stores, memory, files
  <2>2. CallTypes'
    BY <1>20, FailTypes DEF Refused
  <2>3. MailTypes'
    BY <1>1, <1>20 DEF Refused, Fail, MailTypes
  <2>4. QED BY <2>1, <2>2, <2>3 DEF TypeOK, Stores, CallTypes, MailTypes
<1>21. CASE Answered(t)
  <2>1. Stores'
    BY <1>1, <1>21 DEF Answered, Stores, memory, files, bounds
  <2>2. CallTypes'
    BY <1>1, <1>21 DEF Answered, Go, CallTypes, PCs, call
  <2>3. MailTypes'
    BY <1>1, <1>21 DEF Answered, MailTypes, mails
  <2>4. QED BY <2>1, <2>2, <2>3 DEF TypeOK, Stores, CallTypes, MailTypes
<1>22. CASE Close(t)
  <2>1. Stores'
    BY <1>1, <1>22 DEF Close, Stores, memory, files, bounds
  <2>2. CallTypes'
    BY <1>1, <1>22 DEF Close, Go, CallTypes, PCs, call
  <2>3. MailTypes'
    BY <1>1, <1>22 DEF Close, MailTypes
  <2>4. QED BY <2>1, <2>2, <2>3 DEF TypeOK, Stores, CallTypes, MailTypes
<1>23. CASE Update(t)
  <2>1. Stores'
    BY <1>1, <1>23 DEF Update, Stores, memory, files, bounds
  <2>2. CallTypes'
    BY <1>1, <1>23 DEF Update, Go, CallTypes, PCs
  <2>3. MailTypes'
    BY <1>1, <1>23 DEF Update, MailTypes, mails
  <2>4. QED BY <2>1, <2>2, <2>3 DEF TypeOK, Stores, CallTypes, MailTypes
<1>24. CASE CloseFailed(t)
  <2>1. Stores'
    BY <1>1, <1>24 DEF CloseFailed, Stores, memory, files, bounds
  <2>2. CallTypes'
    BY <1>1, <1>24 DEF CloseFailed, Go, CallTypes, PCs
  <2>3. MailTypes'
    BY <1>1, <1>24 DEF CloseFailed, MailTypes
  <2>4. QED BY <2>1, <2>2, <2>3 DEF TypeOK, Stores, CallTypes, MailTypes
<1>25. QED
  BY <1>3, <1>4, <1>5, <1>6, <1>7, <1>8, <1>9, <1>10, <1>11, <1>12, <1>13, <1>14, <1>15,
     <1>16, <1>17, <1>18, <1>19, <1>20, <1>21, <1>22, <1>23, <1>24 DEF Step

\* A thread that waits for an answer or has come back to the gate has a mail in hand.
LEMMA FaultTypes ==
    ASSUME TypeOK, HandleInv, NEW t \in Threads, Fault(t)
    PROVE  TypeOK'
<1>1. Stores /\ CallTypes /\ MailTypes
  BY TypesSplit
<1>2. CASE RequestLost(t)
  <2>1. Stores'
    BY <1>1, <1>2, MailAssumption DEF RequestLost, Fail, Stores, memory, files
  <2>2. CallTypes'
    BY <1>2, FailTypes DEF RequestLost
  <2>3. MailTypes'
    BY <1>1, <1>2 DEF RequestLost, Fail, MailTypes
  <2>4. QED BY <2>1, <2>2, <2>3 DEF TypeOK, Stores, CallTypes, MailTypes
<1>3. CASE AnswerLost(t) \/ RecordRaises(t)
  <2>1. Fail(t) /\ faults < MaxFaults /\ faults' = faults + 1
    BY <1>3 DEF AnswerLost, RecordRaises
  <2>2. Stores'
    BY <1>1, <2>1, MailAssumption DEF Fail, Stores, memory, files
  <2>3. CallTypes'
    BY <2>1, FailTypes
  <2>4. job[t] \in Mails
    BY <1>1, <1>3 DEF AnswerLost, RecordRaises, HandleInv, Handling, CallTypes
  <2>5. unsure' = unsure \cup {job[t]}
    BY <1>3 DEF AnswerLost, RecordRaises
  <2>6. MailTypes'
    BY <1>1, <2>1, <2>4, <2>5 DEF Fail, MailTypes
  <2>7. QED BY <2>2, <2>3, <2>6 DEF TypeOK, Stores, CallTypes, MailTypes
<1>4. CASE CloseRaises(t)
  <2>1. Stores'
    BY <1>1, <1>4, MailAssumption DEF CloseRaises, Stores, memory, files
  <2>2. CallTypes'
    BY <1>1, <1>4 DEF CloseRaises, Go, CallTypes, PCs
  <2>3. MailTypes'
    BY <1>1, <1>4 DEF CloseRaises, MailTypes, mails
  <2>4. QED BY <2>1, <2>2, <2>3 DEF TypeOK, Stores, CallTypes, MailTypes
<1>5. QED BY <1>2, <1>3, <1>4 DEF Fault

LEMMA NextTypes == TypeOK /\ HandleInv /\ [Next]_vars => TypeOK'
<1> SUFFICES ASSUME TypeOK, HandleInv, [Next]_vars PROVE TypeOK'
  OBVIOUS
<1>1. Stores /\ CallTypes /\ MailTypes
  BY TypesSplit
<1>2. 0 \in Tokens /\ 0 \in 0..MaxTime /\ {0, 1, 2} \subseteq 0..2 /\ {"idle", "call"} \subseteq PCs
  BY MailAssumption DEF Tokens, PCs
<1>3. ASSUME NEW t \in Threads, NEW m \in Mails, Approve(t, m) PROVE TypeOK'
  <2>1. Stores'
    BY <1>1, <1>3 DEF Approve, Stores, memory, files, bounds
  <2>2. CallTypes'
    BY <1>1, <1>2, <1>3 DEF Approve, Go, CallTypes
  <2>3. MailTypes'
    BY <1>1, <1>3 DEF Approve, MailTypes
  <2>4. QED BY <2>1, <2>2, <2>3 DEF TypeOK, Stores, CallTypes, MailTypes
<1>4. ASSUME NEW t \in Threads, Read(t) PROVE TypeOK'
  <2>1. Stores'
    BY <1>1, <1>4, MailAssumption DEF Read, Stores, memory, files
  <2>2. CallTypes'
    BY <1>1, <1>2, <1>4 DEF Read, Go, CallTypes
  <2>3. MailTypes'
    BY <1>1, <1>4 DEF Read, MailTypes, mails
  <2>4. QED BY <2>1, <2>2, <2>3 DEF TypeOK, Stores, CallTypes, MailTypes
<1>5. ASSUME NEW t \in Threads, Step(t) PROVE TypeOK'
  BY <1>5, StepTypes
<1>6. ASSUME NEW t \in Threads, Fault(t) PROVE TypeOK'
  BY <1>6, FaultTypes
<1>8. ASSUME NEW m \in Mails, Deny(m) PROVE TypeOK'
  BY <1>1, <1>8 DEF TypeOK, Stores, CallTypes, MailTypes, Deny, memory, files, call, bounds
<1>9. CASE Restart
  <2>1. Stores'
    <3>1. faults' \in 0..MaxFaults
      BY <1>1, <1>9, MailAssumption DEF Restart, Stores
    <3>2. capJwt' = 0 /\ capExp' = 0 /\ mixed' = FALSE
      BY <1>9 DEF Restart
    <3>3. UNCHANGED <<now, capFile, sessFile, reads>>
      BY <1>9 DEF Restart, files
    <3>4. mixed' \in BOOLEAN
      BY <3>2
    <3>5. QED BY <1>1, <1>2, <3>1, <3>2, <3>3, <3>4 DEF Stores
  <2>2. CallTypes'
    BY <1>2, <1>9 DEF Restart, CallTypes
  <2>3. Unrecorded \subseteq Mails
    BY <1>1 DEF Unrecorded, HandleInv, Handling, CallTypes
  <2>4. MailTypes'
    BY <1>1, <1>9, <2>3 DEF Restart, MailTypes
  <2>5. QED BY <2>1, <2>2, <2>4 DEF TypeOK, Stores, CallTypes, MailTypes
<1>10. CASE Tick
  <2>1. Stores'
    BY <1>1, <1>10, MailAssumption DEF Tick, Stores, memory, files, bounds
  <2>2. QED BY <1>1, <1>10, <2>1 DEF TypeOK, Stores, CallTypes, MailTypes, Tick, call, mails
<1>11. CASE UNCHANGED vars
  BY <1>11 DEF TypeOK, vars, memory, files, call, mails, bounds
<1>12. QED
  BY <1>3, <1>4, <1>5, <1>6, <1>8, <1>9, <1>10, <1>11 DEF Next

LEMMA StepHandles ==
    ASSUME TypeOK, HandleInv, NEW t \in Threads, Step(t) \/ Fault(t)
    PROVE  HandleInv'
<1> USE DEF TypeOK, HandleInv, Handling
<1>1. CASE \/ ReadClock(t) \/ MemoryHit(t) \/ Take(t) \/ MemoryMiss(t) \/ FileHit(t)
           \/ FileMiss(t) \/ SessionHit(t) \/ SessionMiss(t) \/ ProveWork(t)
  BY <1>1 DEF ReadClock, MemoryHit, Take, MemoryMiss, FileHit, FileMiss, SessionHit,
              SessionMiss, ProveWork, Go, call
<1>2. CASE \/ Refresh(t) \/ WriteFile(t) \/ StoreJwt(t) \/ StoreExp(t) \/ Discover(t)
           \/ PostFirst(t) \/ PostRead(t) \/ Post(t)
  BY <1>2 DEF Refresh, WriteFile, StoreJwt, StoreExp, Discover, PostFirst, PostRead, Post, Go,
              call
<1>3. CASE Answered(t) \/ Close(t)
  BY <1>3 DEF Answered, Close, Go, call
<1>4. CASE Update(t) \/ CloseFailed(t) \/ CloseRaises(t)
  BY <1>4 DEF Update, CloseFailed, CloseRaises, Go
<1>5. CASE Refused(t) \/ RequestLost(t) \/ AnswerLost(t) \/ RecordRaises(t)
  <2>1. Fail(t)
    BY <1>5 DEF Refused, RequestLost, AnswerLost, RecordRaises
  <2>2. QED BY <2>1 DEF Fail
<1>6. QED BY <1>1, <1>2, <1>3, <1>4, <1>5 DEF Step, Fault

LEMMA NextHandles == TypeOK /\ HandleInv /\ [Next]_vars => HandleInv'
<1> SUFFICES ASSUME TypeOK, HandleInv, [Next]_vars PROVE HandleInv'
  OBVIOUS
<1> USE DEF TypeOK, HandleInv, Handling
<1>1. ASSUME NEW t \in Threads, NEW m \in Mails, Approve(t, m) PROVE HandleInv'
  BY <1>1 DEF Approve, Go
<1>2. ASSUME NEW t \in Threads, Read(t) PROVE HandleInv'
  BY <1>2 DEF Read, Go
<1>3. ASSUME NEW t \in Threads, Step(t) \/ Fault(t) PROVE HandleInv'
  BY <1>3, StepHandles
<1>4. ASSUME NEW m \in Mails, Deny(m) PROVE HandleInv'
  BY <1>4 DEF Deny, call
<1>5. CASE Restart
  BY <1>5 DEF Restart
<1>6. CASE Tick \/ UNCHANGED vars
  BY <1>6 DEF Tick, vars, call
<1>7. QED BY <1>1, <1>2, <1>3, <1>4, <1>5, <1>6 DEF Next

LEMMA InitHandles == Init => HandleInv
BY DEF Init, HandleInv, Handling

LEMMA TypesHold == Spec => [](TypeOK /\ HandleInv)
BY InitTypes, InitHandles, NextTypes, NextHandles, PTL DEF Spec

\* Every variable of the mail client keeps its type.
THEOREM TypeCorrect == Spec => []TypeOK
BY TypesHold, PTL

----------------------------------------------------------------------------
(* The copies of a mail *)

\* What is so of the mail a thread has in hand: until the request, nothing has been sent; then
\* the row is open until it is closed; and a failure after the submission is known of.
InHand(t) ==
    /\ pc[t] \notin Handling => mail[job[t]] = "resolving" /\ sent[job[t]] = 0
    /\ pc[t] \in {"answer", "close"} => mail[job[t]] = "resolving" /\ sent[job[t]] = 1
    /\ pc[t] = "update" => mail[job[t]] = "executed"
    /\ pc[t] = "failed" =>
          /\ mail[job[t]] \in {"resolving", "executed"}
          /\ sent[job[t]] = 1 => job[t] \in unsure

\* A thread is alone with its mail.
JobInv ==
    /\ \A t \in Threads : job[t] # None => InHand(t)
    /\ \A t, u \in Threads : job[t] # None /\ job[t] = job[u] => t = u

\* One mail's part of CopiesAccounted.
Accounted(m) ==
    /\ sent[m] <= 1
    /\ mail[m] = "executed" => sent[m] = 1
    /\ mail[m] \in {"pending", "denied"} => sent[m] = 0
    /\ sent[m] = 1 /\ mail[m] # "executed" => m \in unsure \cup Unrecorded
    /\ m \in unsure => sent[m] = 1

CopiesInv == TypeOK /\ HandleInv /\ JobInv /\ CopiesAccounted

LEMMA InitCopies == Init => CopiesInv
<1> SUFFICES ASSUME Init PROVE JobInv /\ CopiesAccounted
  BY InitTypes, InitHandles DEF CopiesInv
<1>1. JobInv
  BY DEF Init, JobInv
<1>2. CopiesAccounted
  BY DEF Init, CopiesAccounted
<1>3. QED BY <1>1, <1>2

\* Steps that leave jobs and mails alone.
LEMMA QuietCopies ==
    ASSUME JobInv, CopiesAccounted, UNCHANGED <<job, mails>>,
           \A u \in Threads : \/ pc'[u] = pc[u]
                              \/ pc[u] \notin Handling /\ pc'[u] \notin Handling
    PROVE  JobInv' /\ CopiesAccounted'
<1>1. UNCHANGED <<job, mail, sent, unsure>>
  BY DEF mails
<1>2. JobInv'
  <2>1. ASSUME NEW u \in Threads, job'[u] # None PROVE InHand(u)'
    BY <1>1, <2>1 DEF JobInv, InHand, Handling
  <2>2. QED BY <1>1, <2>1 DEF JobInv
<1>3. Unrecorded' = Unrecorded
  BY <1>1 DEF Unrecorded, Handling
<1>4. CopiesAccounted'
  BY <1>1, <1>3 DEF CopiesAccounted
<1>5. QED BY <1>2, <1>4

\* Steps that concern the mail of one thread.
LEMMA OneMail ==
    ASSUME TypeOK, JobInv, CopiesAccounted, NEW t \in Threads, job[t] # None,
           \A u \in Threads \ {t} : pc'[u] = pc[u] /\ job'[u] = job[u],
           \A m \in Mails \ {job[t]} : mail'[m] = mail[m] /\ sent'[m] = sent[m],
           unsure' \in {unsure, unsure \cup {job[t]}},
           job'[t] \in {job[t], None},
           job'[t] # None => InHand(t)',
           \A m \in Mails : m = job[t] => Accounted(m)'
    PROVE  JobInv' /\ CopiesAccounted'
<1>1. \A u \in Threads : job[u] # None => job[u] \in Mails
  BY DEF TypeOK
<1>2. JobInv'
  <2>1. ASSUME NEW u \in Threads, job'[u] # None PROVE InHand(u)'
    <3>1. CASE u = t
      BY <2>1, <3>1
    <3>2. CASE u # t
      <4>1. pc'[u] = pc[u] /\ job'[u] = job[u]
        BY <3>2
      <4>2. job[u] \in Mails \ {job[t]} /\ InHand(u)
        BY <1>1, <2>1, <3>2, <4>1 DEF JobInv
      <4>3. mail'[job[u]] = mail[job[u]] /\ sent'[job[u]] = sent[job[u]]
        BY <4>2
      <4>4. job[u] \in unsure <=> job[u] \in unsure'
        BY <4>2
      <4>5. QED BY <4>1, <4>2, <4>3, <4>4 DEF InHand
    <3>3. QED BY <3>1, <3>2
  <2>2. ASSUME NEW u \in Threads, NEW v \in Threads, job'[u] # None, job'[u] = job'[v]
        PROVE  u = v
    <3>1. job[u] = job'[u] /\ job[v] = job'[v]
      BY <2>2
    <3>2. QED BY <2>2, <3>1 DEF JobInv
  <2>3. QED BY <2>1, <2>2 DEF JobInv
<1>3. ASSUME NEW m \in Mails PROVE Accounted(m)'
  <2>1. CASE m = job[t]
    BY <2>1
  <2>2. CASE m # job[t]
    <3>1. Accounted(m)
      BY DEF CopiesAccounted, Accounted
    <3>2. mail'[m] = mail[m] /\ sent'[m] = sent[m] /\ (m \in unsure' <=> m \in unsure)
      BY <2>2
    <3>3. m \in Unrecorded => m \in Unrecorded'
      <4> SUFFICES ASSUME m \in Unrecorded PROVE m \in Unrecorded'
        OBVIOUS
      <4>1. PICK u \in Threads : pc[u] \in {"answer", "close"} /\ job[u] = m
        BY DEF Unrecorded
      <4>2. pc'[u] = pc[u] /\ job'[u] = job[u]
        BY <2>2, <4>1
      <4>3. QED BY <4>1, <4>2 DEF Unrecorded
    <3>4. QED BY <3>1, <3>2, <3>3 DEF Accounted
  <2>3. QED BY <2>1, <2>2
<1>4. CopiesAccounted'
  BY <1>3 DEF CopiesAccounted, Accounted
<1>5. QED BY <1>2, <1>4

LEMMA StepCopies ==
    ASSUME TypeOK, HandleInv, JobInv, CopiesAccounted, NEW t \in Threads, Step(t) \/ Fault(t)
    PROVE  JobInv' /\ CopiesAccounted'
<1>0. /\ pc \in [Threads -> PCs] /\ job \in [Threads -> Mails \cup {None}]
      /\ mail \in [Mails -> {"pending", "resolving", "executed", "error", "denied"}]
      /\ sent \in [Mails -> Nat]
  BY DEF TypeOK
<1>j. ASSUME job[t] # None PROVE InHand(t) /\ Accounted(job[t]) /\ job[t] \in Mails
  BY <1>0, <1>j DEF JobInv, CopiesAccounted, Accounted
<1>h. pc[t] \in Handling => job[t] # None
  BY DEF HandleInv
<1>1. CASE \/ ReadClock(t) \/ MemoryHit(t) \/ Take(t) \/ MemoryMiss(t) \/ FileHit(t)
           \/ FileMiss(t) \/ SessionHit(t) \/ SessionMiss(t)
  <2>1. UNCHANGED <<job, mails>>
    BY <1>1 DEF ReadClock, MemoryHit, Take, MemoryMiss, FileHit, FileMiss, SessionHit,
                SessionMiss, call
  <2>2. \A u \in Threads : \/ pc'[u] = pc[u]
                           \/ pc[u] \notin Handling /\ pc'[u] \notin Handling
    BY <1>0, <1>1 DEF ReadClock, MemoryHit, Take, MemoryMiss, FileHit, FileMiss, SessionHit,
                SessionMiss, Go, Handling
  <2>3. QED BY <2>1, <2>2, QuietCopies
<1>2. CASE \/ ProveWork(t) \/ Refresh(t) \/ WriteFile(t) \/ StoreJwt(t) \/ StoreExp(t)
           \/ Discover(t) \/ PostFirst(t) \/ PostRead(t)
  <2>1. UNCHANGED <<job, mails>>
    BY <1>2 DEF ProveWork, Refresh, WriteFile, StoreJwt, StoreExp, Discover, PostFirst,
                PostRead, call
  <2>2. \A u \in Threads : \/ pc'[u] = pc[u]
                           \/ pc[u] \notin Handling /\ pc'[u] \notin Handling
    BY <1>0, <1>2 DEF ProveWork, Refresh, WriteFile, StoreJwt, StoreExp, Discover, PostFirst,
                PostRead, Go, Handling
  <2>3. QED BY <2>1, <2>2, QuietCopies
<1>3. CASE Post(t)
  <2>1. /\ pc[t] = "post" /\ job[t] # None /\ pc' = [pc EXCEPT ![t] = "answer"]
        /\ sent' = [sent EXCEPT ![job[t]] = @ + 1]
        /\ UNCHANGED <<job, mail, unsure>>
    BY <1>3 DEF Post, Go
  <2>2. mail[job[t]] = "resolving" /\ sent[job[t]] = 0 /\ job[t] \in Mails
    BY <1>j, <2>1 DEF InHand, Handling
  <2>3. job[t] \notin unsure
    BY <1>j, <2>1, <2>2 DEF Accounted
  <2>4. pc'[t] = "answer" /\ sent'[job[t]] = 1
    BY <1>0, <2>1, <2>2
  <2>5. InHand(t)'
    BY <2>1, <2>2, <2>4 DEF InHand, Handling
  <2>6. job[t] \in Unrecorded'
    BY <2>1, <2>4 DEF Unrecorded
  <2>7. ASSUME NEW m \in Mails, m = job[t] PROVE Accounted(m)'
    BY <2>1, <2>2, <2>4, <2>6, <2>7 DEF Accounted
  <2>8. /\ \A u \in Threads \ {t} : pc'[u] = pc[u] /\ job'[u] = job[u]
        /\ \A m \in Mails \ {job[t]} : mail'[m] = mail[m] /\ sent'[m] = sent[m]
    BY <1>0, <2>1
  <2>9. QED BY <2>1, <2>5, <2>7, <2>8, OneMail
<1>4. CASE Answered(t)
  <2>1. /\ pc[t] = "answer" /\ pc' = [pc EXCEPT ![t] = "close"]
        /\ UNCHANGED <<job, mail, sent, unsure>>
    BY <1>4 DEF Answered, Go, call, mails
  <2>2. job[t] # None
    BY <1>h, <2>1 DEF Handling
  <2>3. pc'[t] = "close"
    BY <1>0, <2>1
  <2>4. InHand(t)'
    BY <1>j, <2>1, <2>2, <2>3 DEF InHand, Handling
  <2>5. job[t] \in Unrecorded'
    BY <2>1, <2>3 DEF Unrecorded
  <2>6. ASSUME NEW m \in Mails, m = job[t] PROVE Accounted(m)'
    BY <1>j, <2>1, <2>2, <2>5, <2>6 DEF Accounted
  <2>7. \A u \in Threads \ {t} : pc'[u] = pc[u] /\ job'[u] = job[u]
    BY <1>0, <2>1
  <2>8. QED BY <2>1, <2>2, <2>4, <2>6, <2>7, OneMail
<1>5. CASE Close(t)
  <2>1. /\ pc[t] = "close" /\ pc' = [pc EXCEPT ![t] = "update"]
        /\ mail' = [mail EXCEPT ![job[t]] = "executed"]
        /\ UNCHANGED <<job, sent, unsure>>
    BY <1>5 DEF Close, Go, call
  <2>2. job[t] # None
    BY <1>h, <2>1 DEF Handling
  <2>3. pc'[t] = "update" /\ mail'[job[t]] = "executed" /\ sent[job[t]] = 1
    BY <1>0, <1>j, <2>1, <2>2 DEF InHand
  <2>4. InHand(t)'
    BY <2>1, <2>3 DEF InHand, Handling
  <2>5. ASSUME NEW m \in Mails, m = job[t] PROVE Accounted(m)'
    BY <2>1, <2>3, <2>5 DEF Accounted
  <2>6. /\ \A u \in Threads \ {t} : pc'[u] = pc[u] /\ job'[u] = job[u]
        /\ \A m \in Mails \ {job[t]} : mail'[m] = mail[m] /\ sent'[m] = sent[m]
    BY <1>0, <2>1
  <2>7. QED BY <2>1, <2>2, <2>4, <2>5, <2>6, OneMail
<1>6. CASE Update(t)
  <2>1. /\ pc[t] = "update" /\ pc' = [pc EXCEPT ![t] = "idle"]
        /\ job' = [job EXCEPT ![t] = None]
        /\ UNCHANGED <<mail, sent, unsure>>
    BY <1>6 DEF Update, Go, mails
  <2>2. job[t] # None
    BY <1>h, <2>1 DEF Handling
  <2>3. mail[job[t]] = "executed" /\ sent[job[t]] = 1 /\ job'[t] = None
    BY <1>0, <1>j, <2>1, <2>2 DEF InHand, Accounted
  <2>4. ASSUME NEW m \in Mails, m = job[t] PROVE Accounted(m)'
    BY <2>1, <2>3, <2>4 DEF Accounted
  <2>5. \A u \in Threads \ {t} : pc'[u] = pc[u] /\ job'[u] = job[u]
    BY <1>0, <2>1
  <2>6. QED BY <2>1, <2>2, <2>3, <2>4, <2>5, OneMail
<1>7. CASE CloseFailed(t) \/ CloseRaises(t)
  <2>1. /\ pc[t] = "failed" /\ pc' = [pc EXCEPT ![t] = "idle"]
        /\ job' = [job EXCEPT ![t] = None]
        /\ mail' \in {mail, [mail EXCEPT ![job[t]] = "error"]}
        /\ UNCHANGED <<sent, unsure>>
    BY <1>7 DEF CloseFailed, CloseRaises, Go, mails
  <2>2. job[t] # None
    BY <1>h, <2>1 DEF Handling
  <2>3. /\ job'[t] = None /\ job[t] \in Mails
        /\ mail[job[t]] \in {"resolving", "executed"} /\ mail'[job[t]] \in {mail[job[t]], "error"}
        /\ sent[job[t]] = 1 => job[t] \in unsure
    BY <1>0, <1>j, <2>1, <2>2 DEF InHand
  <2>4. ASSUME NEW m \in Mails, m = job[t] PROVE Accounted(m)'
    BY <1>j, <2>1, <2>2, <2>3, <2>4 DEF Accounted
  <2>5. /\ \A u \in Threads \ {t} : pc'[u] = pc[u] /\ job'[u] = job[u]
        /\ \A m \in Mails \ {job[t]} : mail'[m] = mail[m] /\ sent'[m] = sent[m]
    BY <1>0, <2>1
  <2>6. QED BY <2>1, <2>2, <2>3, <2>4, <2>5, OneMail
<1>8. CASE Refused(t) \/ RequestLost(t)
  <2>1. /\ pc[t] \notin Handling
        /\ pc' = [pc EXCEPT ![t] = IF job[t] = None THEN "idle" ELSE "failed"]
        /\ UNCHANGED <<job, mail, sent, unsure>>
    BY <1>8 DEF Refused, RequestLost, Fail, Handling
  <2>2. CASE job[t] = None
    <3>1. \A u \in Threads : \/ pc'[u] = pc[u]
                             \/ pc[u] \notin Handling /\ pc'[u] \notin Handling
      BY <1>0, <2>1, <2>2 DEF Handling
    <3>2. QED BY <2>1, <3>1, QuietCopies DEF mails
  <2>3. CASE job[t] # None
    <3>1. pc'[t] = "failed" /\ mail[job[t]] = "resolving" /\ sent[job[t]] = 0
      BY <1>0, <1>j, <2>1, <2>3 DEF InHand
    <3>2. InHand(t)'
      BY <2>1, <3>1 DEF InHand, Handling
    <3>3. ASSUME NEW m \in Mails, m = job[t] PROVE Accounted(m)'
      BY <1>j, <2>1, <2>3, <3>1, <3>3 DEF Accounted
    <3>4. \A u \in Threads \ {t} : pc'[u] = pc[u] /\ job'[u] = job[u]
      BY <1>0, <2>1
    <3>5. QED BY <2>1, <2>3, <3>2, <3>3, <3>4, OneMail
  <2>4. QED BY <2>2, <2>3
<1>9. CASE AnswerLost(t) \/ RecordRaises(t)
  <2>1. /\ pc[t] \in {"answer", "close", "update"}
        /\ pc' = [pc EXCEPT ![t] = IF job[t] = None THEN "idle" ELSE "failed"]
        /\ unsure' = unsure \cup {job[t]}
        /\ UNCHANGED <<job, mail, sent>>
    BY <1>9 DEF AnswerLost, RecordRaises, Fail
  <2>2. job[t] # None
    BY <1>h, <2>1 DEF Handling
  <2>3. pc'[t] = "failed" /\ job[t] \in unsure'
    BY <1>0, <2>1, <2>2
  <2>4. mail[job[t]] \in {"resolving", "executed"} /\ sent[job[t]] = 1
    BY <1>j, <2>1, <2>2 DEF InHand, Accounted
  <2>5. InHand(t)'
    BY <2>1, <2>3, <2>4 DEF InHand, Handling
  <2>6. ASSUME NEW m \in Mails, m = job[t] PROVE Accounted(m)'
    BY <2>1, <2>3, <2>4, <2>6 DEF Accounted
  <2>7. \A u \in Threads \ {t} : pc'[u] = pc[u] /\ job'[u] = job[u]
    BY <1>0, <2>1
  <2>8. QED BY <2>1, <2>2, <2>5, <2>6, <2>7, OneMail
<1>10. QED
  BY <1>1, <1>2, <1>3, <1>4, <1>5, <1>6, <1>7, <1>8, <1>9 DEF Step, Fault

LEMMA NextCopies == CopiesInv /\ [Next]_vars => CopiesInv'
<1> SUFFICES ASSUME TypeOK, HandleInv, JobInv, CopiesAccounted, [Next]_vars
             PROVE  JobInv' /\ CopiesAccounted'
  BY NextTypes, NextHandles DEF CopiesInv
<1>1. ASSUME NEW t \in Threads, NEW m \in Mails, Approve(t, m)
      PROVE  JobInv' /\ CopiesAccounted'
  <2>1. /\ mail[m] = "pending" /\ mail' = [mail EXCEPT ![m] = "resolving"]
        /\ job' = [job EXCEPT ![t] = m]
        /\ pc[t] = "idle" /\ pc' = [pc EXCEPT ![t] = "call"]
        /\ UNCHANGED <<sent, unsure>>
    BY <1>1 DEF Approve, Go
  <2>2. \A u \in Threads : job[u] # None => mail[job[u]] # "pending"
    BY DEF JobInv, InHand, Handling, TypeOK, PCs
  <2>3. sent[m] = 0 /\ m # None
    BY <2>1, MailAssumption DEF CopiesAccounted
  <2>4. ASSUME NEW u \in Threads, job'[u] # None PROVE InHand(u)'
    BY <2>1, <2>2, <2>3, <2>4 DEF JobInv, InHand, Handling, TypeOK
  <2>5. JobInv'
    <3>1. ASSUME NEW u \in Threads, NEW v \in Threads, job'[u] # None, job'[u] = job'[v]
          PROVE  u = v
      BY <2>1, <2>2, <2>3, <3>1 DEF JobInv, TypeOK
    <3>2. QED BY <2>4, <3>1 DEF JobInv
  <2>6. Unrecorded' = Unrecorded
    BY <2>1 DEF Unrecorded, TypeOK
  <2>7. CopiesAccounted'
    BY <2>1, <2>3, <2>6 DEF CopiesAccounted, TypeOK
  <2>8. QED BY <2>5, <2>7
<1>2. ASSUME NEW t \in Threads, Read(t) PROVE JobInv' /\ CopiesAccounted'
  <2>1. \A u \in Threads : \/ pc'[u] = pc[u]
                           \/ pc[u] \notin Handling /\ pc'[u] \notin Handling
    BY <1>2 DEF Read, Go, Handling, TypeOK
  <2>2. QED BY <1>2, <2>1, QuietCopies DEF Read
<1>3. ASSUME NEW t \in Threads, Step(t) \/ Fault(t) PROVE JobInv' /\ CopiesAccounted'
  BY <1>3, StepCopies
<1>4. ASSUME NEW m \in Mails, Deny(m) PROVE JobInv' /\ CopiesAccounted'
  <2>1. /\ mail[m] = "pending" /\ mail' = [mail EXCEPT ![m] = "denied"]
        /\ UNCHANGED <<job, pc, sent, unsure>>
    BY <1>4 DEF Deny, call
  <2>2. \A u \in Threads : job[u] # None => mail[job[u]] # "pending"
    BY DEF JobInv, InHand, Handling, TypeOK, PCs
  <2>3. JobInv'
    BY <2>1, <2>2 DEF JobInv, InHand, TypeOK
  <2>4. CopiesAccounted'
    BY <2>1 DEF CopiesAccounted, Unrecorded, TypeOK
  <2>5. QED BY <2>3, <2>4
<1>5. CASE Restart
  <2>1. /\ \A t \in Threads : job'[t] = None
        /\ unsure' = unsure \cup Unrecorded
        /\ UNCHANGED <<mail, sent>>
    BY <1>5 DEF Restart
  <2>2. JobInv'
    BY <2>1 DEF JobInv
  <2>3. \A m \in Mails : m \in Unrecorded => sent[m] = 1
    BY MailAssumption DEF Unrecorded, JobInv, InHand, HandleInv, Handling
  <2>4. CopiesAccounted'
    BY <2>1, <2>3 DEF CopiesAccounted
  <2>5. QED BY <2>2, <2>4
<1>6. CASE Tick \/ UNCHANGED vars
  <2>1. UNCHANGED <<pc, job, mails>>
    BY <1>6 DEF Tick, vars, call
  <2>2. QED BY <2>1, QuietCopies
<1>7. QED
  BY <1>1, <1>2, <1>3, <1>4, <1>5, <1>6 DEF Next

\* An approval sends one copy at most, and its row is true to what was sent, but when an
\* answer or a row was lost, or the process died, after the mail was submitted
\* (atomicmail_client.py:265-277, consent.py:304-341).
THEOREM CopiesStayAccounted == Spec => []CopiesAccounted
<1>1. CopiesInv => CopiesAccounted
  BY DEF CopiesInv
<1>2. QED BY <1>1, InitCopies, NextCopies, PTL DEF Spec

----------------------------------------------------------------------------
(* The token in hand *)

\* The two variables of the cache are of one token, but while a thread is between the two
\* stores, and when two threads were there at once.
PairInv ==
    ~mixed =>
        /\ \A t, u \in Threads : pc[t] = "storeExp" /\ pc[u] = "storeExp" => t = u
        /\ \A t \in Threads : pc[t] = "storeExp" => capJwt = tok[t]
        /\ (\A t \in Threads : pc[t] # "storeExp") => capJwt = capExp

\* A token that a call may use: it was good when the call read the clock, or is younger.
Usable(t) == Good(tok[t], t) \/ tok[t] >= readAt[t] + TokenLife

HandInv ==
    \A t \in Threads :
        /\ readAt[t] <= now
        /\ pc[t] \in {"write", "storeJwt", "storeExp"} => Usable(t)
        /\ pc[t] = "take" /\ ~disturbed[t] => Good(capJwt, t)
        /\ pc[t] \in {"discover", "post"} /\ ~disturbed[t] => Usable(t)

TokenInv == TypeOK /\ HandleInv /\ PairInv /\ HandInv

LEMMA InitTokens == Init => TokenInv
<1> SUFFICES ASSUME Init PROVE PairInv /\ HandInv
  BY InitTypes, InitHandles DEF TokenInv
<1>1. PairInv
  BY DEF Init, PairInv
<1>2. now = 0 /\ \A t \in Threads : readAt[t] = 0 /\ pc[t] = "idle"
  BY DEF Init
<1>3. HandInv
  <2> SUFFICES ASSUME NEW t \in Threads
               PROVE  readAt[t] <= now /\ pc[t] \notin {"write", "storeJwt", "storeExp", "take",
                                                        "discover", "post"}
    BY DEF HandInv
  <2>1. QED BY <1>2
<1>4. QED BY <1>1, <1>3

\* A thread that ends, one that begins again and one that waits has no token in hand.
LEMMA LeavingKeepsTokens ==
    ASSUME TypeOK, PairInv, HandInv, NEW t \in Threads, 
           NEW to \in {"idle", "call", "answer", "close", "update", "failed"},
           pc[t] # "storeExp", pc' = [pc EXCEPT ![t] = to],
           \A u \in Threads \ {t} : tok'[u] = tok[u] /\ readAt'[u] = readAt[u]
                                     /\ disturbed'[u] = disturbed[u],
           readAt'[t] \in {0, readAt[t]}, UNCHANGED <<now, capJwt, capExp, mixed>>
    PROVE  PairInv' /\ HandInv'
<1>1. PairInv'
  BY DEF TypeOK, PairInv
<1>2. HandInv'
  <2> SUFFICES ASSUME NEW u \in Threads
               PROVE  /\ readAt'[u] <= now'
                      /\ pc'[u] \in {"write", "storeJwt", "storeExp"} => Usable(u)'
                      /\ pc'[u] = "take" /\ ~disturbed'[u] => Good(capJwt, u)'
                      /\ pc'[u] \in {"discover", "post"} /\ ~disturbed'[u] => Usable(u)'
    BY DEF HandInv
  <2>1. CASE u = t
    BY <2>1 DEF TypeOK, HandInv
  <2>2. CASE u # t
    BY <2>2 DEF TypeOK, HandInv, Usable, Good
  <2>3. QED BY <2>1, <2>2
<1>3. QED BY <1>1, <1>2

LEMMA StepTokens ==
    ASSUME TypeOK, PairInv, HandInv, NEW t \in Threads, Step(t)
    PROVE  PairInv' /\ HandInv'
<1> USE DEF TypeOK
<1>0. /\ now \in Nat /\ \A u \in Threads : readAt[u] \in Nat /\ tok[u] \in Nat
      /\ {capJwt, capExp, capFile, sessFile} \subseteq Nat
  BY MailAssumption DEF Tokens
<1>1. CASE ReadClock(t)
  <2>1. PairInv'
    BY <1>1 DEF ReadClock, Go, PairInv, memory
  <2>2. HandInv'
    BY <1>0, <1>1, MailAssumption DEF ReadClock, Go, HandInv, Usable, Good, memory
  <2>3. QED BY <2>1, <2>2
<1>2. CASE Take(t)
  <2>1. PairInv'
    BY <1>2 DEF Take, Go, PairInv, memory
  <2>2. HandInv'
    BY <1>0, <1>2, MailAssumption DEF Take, Go, HandInv, Usable, Good, memory
  <2>3. QED BY <2>1, <2>2
<1>3. CASE MemoryMiss(t)
  <2>1. PairInv'
    BY <1>3 DEF MemoryMiss, Go, PairInv, memory
  <2>2. HandInv'
    BY <1>0, <1>3, MailAssumption DEF MemoryMiss, Go, HandInv, Usable, Good, memory
  <2>3. QED BY <2>1, <2>2
<1>4. CASE FileHit(t)
  <2>1. PairInv'
    BY <1>4 DEF FileHit, Go, PairInv, memory
  <2>2. HandInv'
    BY <1>0, <1>4, MailAssumption DEF FileHit, Go, HandInv, Usable, Good, memory
  <2>3. QED BY <2>1, <2>2
<1>5. CASE FileMiss(t)
  <2>1. PairInv'
    BY <1>5 DEF FileMiss, Go, PairInv, memory
  <2>2. HandInv'
    BY <1>0, <1>5, MailAssumption DEF FileMiss, Go, HandInv, Usable, Good, memory
  <2>3. QED BY <2>1, <2>2
<1>6. CASE SessionHit(t)
  <2>1. PairInv'
    BY <1>6 DEF SessionHit, Go, PairInv, memory
  <2>2. HandInv'
    BY <1>0, <1>6, MailAssumption DEF SessionHit, Go, HandInv, Usable, Good, memory
  <2>3. QED BY <2>1, <2>2
<1>7. CASE SessionMiss(t)
  <2>1. PairInv'
    BY <1>7 DEF SessionMiss, Go, PairInv, memory
  <2>2. HandInv'
    BY <1>0, <1>7, MailAssumption DEF SessionMiss, Go, HandInv, Usable, Good, memory
  <2>3. QED BY <2>1, <2>2
<1>8. CASE ProveWork(t)
  <2>1. PairInv'
    BY <1>8 DEF ProveWork, Go, PairInv, memory
  <2>2. HandInv'
    BY <1>0, <1>8, MailAssumption DEF ProveWork, Go, HandInv, Usable, Good, memory
  <2>3. QED BY <2>1, <2>2
<1>9. CASE Refresh(t)
  <2>1. PairInv'
    BY <1>9 DEF Refresh, Go, PairInv, memory
  <2>2. HandInv'
    BY <1>0, <1>9, MailAssumption DEF Refresh, Go, HandInv, Usable, Good, memory
  <2>3. QED BY <2>1, <2>2
<1>10. CASE WriteFile(t)
  <2>1. PairInv'
    BY <1>10 DEF WriteFile, Go, PairInv, memory
  <2>2. HandInv'
    BY <1>0, <1>10, MailAssumption DEF WriteFile, Go, HandInv, Usable, Good, memory
  <2>3. QED BY <2>1, <2>2
<1>11. CASE Discover(t)
  <2>1. PairInv'
    BY <1>11 DEF Discover, Go, PairInv, memory
  <2>2. HandInv'
    BY <1>0, <1>11, MailAssumption DEF Discover, Go, HandInv, Usable, Good, memory
  <2>3. QED BY <2>1, <2>2
<1>12. CASE MemoryHit(t)
  <2>1. PairInv'
    BY <1>12 DEF MemoryHit, Go, PairInv, memory
  <2>2. ~mixed /\ Storing = {} => Good(capJwt, t)
    BY <1>12 DEF MemoryHit, PairInv, Storing
  <2>3. HandInv'
    BY <1>0, <1>12, <2>2 DEF MemoryHit, Go, HandInv, Usable, Good, memory
  <2>4. QED BY <2>1, <2>3
<1>13. CASE StoreJwt(t)
  <2>1. PairInv'
    BY <1>13 DEF StoreJwt, Go, PairInv
  <2>2. HandInv'
    BY <1>0, <1>13 DEF StoreJwt, Go, HandInv, Usable, Good
  <2>3. QED BY <2>1, <2>2
<1>14. CASE StoreExp(t)
  <2>1. PairInv'
    BY <1>14 DEF StoreExp, Go, PairInv
  <2>2. HandInv'
    BY <1>0, <1>14 DEF StoreExp, Go, HandInv, Usable, Good
  <2>3. QED BY <2>1, <2>2
<1>15. CASE PostFirst(t)
  BY <1>15, LeavingKeepsTokens DEF PostFirst, Go, memory
<1>16. CASE PostRead(t) \/ Post(t)
  BY <1>16, LeavingKeepsTokens DEF PostRead, Post, Go, Forget, memory
<1>17. CASE Refused(t)
  BY <1>17, LeavingKeepsTokens DEF Refused, Fail, Forget, memory
<1>18. CASE Answered(t) \/ Close(t) \/ Update(t) \/ CloseFailed(t)
  BY <1>18, LeavingKeepsTokens DEF Answered, Close, Update, CloseFailed, Go, memory
<1>19. QED
  BY <1>1, <1>2, <1>3, <1>4, <1>5, <1>6, <1>7, <1>8, <1>9, <1>10, <1>11, <1>12, <1>13,
     <1>14, <1>15, <1>16, <1>17, <1>18 DEF Step

LEMMA NextTokens == TokenInv /\ [Next]_vars => TokenInv'
<1> SUFFICES ASSUME TypeOK, HandleInv, PairInv, HandInv, [Next]_vars
             PROVE  PairInv' /\ HandInv'
  BY NextTypes, NextHandles DEF TokenInv
<1>1. ASSUME NEW t \in Threads, NEW m \in Mails, Approve(t, m) PROVE PairInv' /\ HandInv'
  BY <1>1, LeavingKeepsTokens DEF Approve, Go, memory
<1>2. ASSUME NEW t \in Threads, Read(t) PROVE PairInv' /\ HandInv'
  BY <1>2, LeavingKeepsTokens DEF Read, Go, memory
<1>3. ASSUME NEW t \in Threads, Step(t) PROVE PairInv' /\ HandInv'
  BY <1>3, StepTokens
<1>4. ASSUME NEW t \in Threads, RequestLost(t) \/ AnswerLost(t) \/ RecordRaises(t)
      PROVE  PairInv' /\ HandInv'
  BY <1>4, LeavingKeepsTokens DEF RequestLost, AnswerLost, RecordRaises, Fail, Forget, memory,
                                  TypeOK
<1>5. ASSUME NEW t \in Threads, CloseRaises(t) PROVE PairInv' /\ HandInv'
  BY <1>5, LeavingKeepsTokens DEF CloseRaises, Go, memory
<1>6. ASSUME NEW m \in Mails, Deny(m) PROVE PairInv' /\ HandInv'
  BY <1>6 DEF Deny, PairInv, HandInv, Usable, Good, memory
<1>7. CASE Restart
  BY <1>7, MailAssumption DEF Restart, PairInv, HandInv, TypeOK
<1>8. CASE Tick
  BY <1>8, MailAssumption DEF Tick, PairInv, HandInv, Usable, Good, memory, TypeOK
<1>9. CASE UNCHANGED vars
  BY <1>9 DEF vars, PairInv, HandInv, Usable, Good, memory
<1>10. QED
  BY <1>1, <1>2, <1>3, <1>4, <1>5, <1>6, <1>7, <1>8, <1>9 DEF Next, Fault

LEMMA TokensHold == Spec => []TokenInv
BY InitTokens, NextTokens, PTL DEF Spec

\* The cached token and the cached expiry are of one token, unless two threads stored theirs
\* at once (atomicmail_client.py:184-185, 220-221).
THEOREM CachedPairIsOneToken == Spec => []PairIsOneToken
<1>1. TokenInv => PairIsOneToken
  BY DEF TokenInv, PairInv, PairIsOneToken
<1>2. QED BY <1>1, TokensHold, PTL

\* A token that is used was good when the call read the clock, or minted since, unless
\* another thread stored one between the check and the taking
\* (atomicmail_client.py:175-200).
THEOREM UsedTokensAreGood == Spec => []TokenInHandIsGood
<1>1. TokenInv => TokenInHandIsGood
  BY DEF TokenInv, HandInv, Usable, TokenInHandIsGood
<1>2. QED BY <1>1, TokensHold, PTL
=============================================================================
