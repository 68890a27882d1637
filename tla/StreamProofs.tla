---------------------------- MODULE StreamProofs ----------------------------
(***************************************************************************)
(* Proofs about the two streams that main.py serves: the chat, for any     *)
(* pool, queue and number of chats, and the events of the devices, for any *)
(* home, any number of pages and any queue.                                *)
(***************************************************************************)
EXTENDS ChatStream, DeviceEvents, SequenceTheorems, WellFoundedInduction, TLAPS

----------------------------------------------------------------------------
(* The chat stream: types *)

LEMMA LoopKeepsTypes ==
    ASSUME TypeOK, NEW c \in Chats, LoopStep(c)
    PROVE  TypeOK'
<1> USE DEF TypeOK, pumping, reading, Frames, PumpStates, ReaderStates, ReaderMoves, Record
<1>1. CASE Open(c)
  BY <1>1 DEF Open
<1>2. CASE OpenFails(c)
  BY <1>2 DEF OpenFails
<1>3. CASE GetFrame(c)
  <2>1. queue[c] \in Seq(Frames \cup {End}) /\ queue[c] # <<>> /\ Head(queue[c]) # End
    BY <1>3 DEF GetFrame, FrameArrives
  <2>2. Head(queue[c]) \in Frames /\ Tail(queue[c]) \in Seq(Frames \cup {End})
    BY <2>1, HeadTailProperties
  <2>3. Append(sent[c], Head(queue[c])) \in Seq(Frames)
    BY <2>2, AppendProperties
  <2>4. QED BY <1>3, <2>2, <2>3 DEF GetFrame
<1>4. CASE GetSentinel(c)
  <2>1. queue[c] \in Seq(Frames \cup {End}) /\ queue[c] # <<>>
    BY <1>4 DEF GetSentinel
  <2>2. Tail(queue[c]) \in Seq(Frames \cup {End})
    BY <2>1, HeadTailProperties
  <2>3. QED BY <1>4, <2>2 DEF GetSentinel
<1>5. CASE Join(c)
  BY <1>5 DEF Join
<1>6. CASE JoinRaises(c)
  BY <1>6 DEF JoinRaises
<1>7. CASE Apologised(c)
  BY <1>7 DEF Apologised
<1>8. CASE FinishPut(c)
  <2>1. PICK f \in puts[c] : /\ puts' = [puts EXCEPT ![c] = @ \ {f}]
                             /\ queue' = [queue EXCEPT ![c] = Append(@, f)]
    BY <1>8 DEF FinishPut
  <2>2. Append(queue[c], f) \in Seq(Frames \cup {End})
    BY <2>1, AppendProperties
  <2>3. QED BY <1>8, <2>1, <2>2 DEF FinishPut
<1>9. QED BY <1>1, <1>2, <1>3, <1>4, <1>5, <1>6, <1>7, <1>8 DEF LoopStep, ReaderStep

LEMMA PumpKeepsTypes ==
    ASSUME TypeOK, NEW c \in Chats, PumpStep(c)
    PROVE  TypeOK'
<1> USE ChatAssumption DEF TypeOK, pumping, reading, Frames, PumpStates, ReaderStates, PumpMoves
<1>1. CASE StartPump(c)
  BY <1>1 DEF StartPump
<1>2. CASE NextEvent(c)
  BY <1>2 DEF NextEvent
<1>3. CASE SourceEnds(c)
  BY <1>3 DEF SourceEnds
<1>4. CASE PutFrame(c)
  BY <1>4 DEF PutFrame
<1>5. CASE PutSentinel(c)
  BY <1>5 DEF PutSentinel
<1>6. CASE EndPump(c)
  BY <1>6 DEF EndPump
<1>7. QED BY <1>1, <1>2, <1>3, <1>4, <1>5, <1>6 DEF PumpStep

LEMMA TypesAreInductive == TypeOK /\ [Next]_vars => TypeOK'
<1> SUFFICES ASSUME TypeOK, [Next]_vars PROVE TypeOK'
  OBVIOUS
<1>1. ASSUME NEW c \in Chats, Ask(c) \/ Leave(c) PROVE TypeOK'
  BY <1>1 DEF Ask, Leave, ReaderMoves, TypeOK, pumping, reading, ReaderStates
<1>2. ASSUME UNCHANGED vars PROVE TypeOK'
  BY <1>2 DEF vars, TypeOK, pumping, reading
<1>3. QED BY <1>1, <1>2, LoopKeepsTypes, PumpKeepsTypes DEF Next

\* Every variable keeps its type.
THEOREM TypeCorrect == Spec => []TypeOK
<1>1. Init => TypeOK
  BY DEF Init, TypeOK, PumpStates, ReaderStates
<1>2. QED BY <1>1, TypesAreInductive, PTL DEF Spec

----------------------------------------------------------------------------
(* What the pump has handed over is sent, in the queue, or in one put, in order *)

Closed(c) == pump[c] \in {"closing", "ended"}

\* The items a pump hands over: its frames, then the end marker.
Item(c, k) == IF Closed(c) /\ k = produced[c] + 1 THEN End ELSE k

Handed(c) == scheduled[c] + (IF Closed(c) THEN 1 ELSE 0)

Total(c) == Len(sent[c]) + Len(queue[c])

\* They are still under way ...
InFlight(c) ==
    /\ \A i \in 1..Len(queue[c]) : queue[c][i] = Item(c, Len(sent[c]) + i)
    /\ \/ puts[c] = {} /\ Total(c) = Handed(c)
       \/ puts[c] = {Item(c, Total(c) + 1)} /\ Total(c) + 1 = Handed(c)
    /\ pump[c] = "ended" => puts[c] = {}

\* ... or the end marker has arrived.
Arrived(c) ==
    /\ Closed(c) /\ queue[c] = <<>> /\ puts[c] = {}
    /\ Len(sent[c]) = produced[c]

PumpFits(c) ==
    /\ pump[c] \in {"none", "waiting"} => produced[c] = 0 /\ ~raised[c]
    /\ pump[c] = "running" => ~raised[c]
    /\ scheduled[c] <= produced[c]
    /\ pump[c] \in {"finally", "closing", "ended"} => scheduled[c] = produced[c]
    /\ pump[c] = "finally" => puts[c] = {}

ReaderFits(c) ==
    /\ reader[c] = "reading" => InFlight(c)
    /\ reader[c] \in {"joining", "failed", "done"} => Arrived(c)
    /\ reader[c] \in {"failed", "done"} => pump[c] = "ended"
    /\ reader[c] = "failed" => raised[c]
    /\ reader[c] \in {"none", "opening"} => pump[c] = "none"
    /\ reader[c] = "done" => (recorded[c] <=> (parts[c] # {} \/ raised[c]))
    /\ recorded[c] => reader[c] = "done"

SentFits(c) ==
    /\ \A i \in 1..Len(sent[c]) : sent[c][i] = i
    /\ parts[c] = Texts \cap 1..Len(sent[c])

AheadFits(c) ==
    /\ Len(queue[c]) <= Capacity
    /\ scheduled[c] < produced[c] => produced[c] <= scheduled[c] + MaxEvent
    /\ produced[c] <= Len(sent[c]) + Capacity + MaxEvent

ChatInv(c) ==
    /\ InFlight(c) \/ Arrived(c)
    /\ PumpFits(c) /\ ReaderFits(c) /\ SentFits(c) /\ AheadFits(c)

StreamInv == TypeOK /\ \A c \in Chats : ChatInv(c)

\* Nothing has happened to chat d.
Same(d) ==
    /\ pump'[d] = pump[d] /\ produced'[d] = produced[d] /\ scheduled'[d] = scheduled[d]
    /\ puts'[d] = puts[d] /\ queue'[d] = queue[d] /\ raised'[d] = raised[d]
    /\ reader'[d] = reader[d] /\ sent'[d] = sent[d] /\ parts'[d] = parts[d]
    /\ recorded'[d] = recorded[d]

LEMMA SameKeeps ==
    ASSUME NEW d \in Chats, ChatInv(d), Same(d)
    PROVE  ChatInv(d)'
<1> USE DEF Same, Item, Handed, Total, Closed
<1>1. InFlight(d)' <=> InFlight(d)
  BY DEF InFlight
<1>2. Arrived(d)' <=> Arrived(d)
  BY DEF Arrived
<1>3. PumpFits(d)' /\ SentFits(d)' /\ AheadFits(d)'
  BY DEF ChatInv, PumpFits, SentFits, AheadFits
<1>4. ReaderFits(d)'
  BY <1>1, <1>2 DEF ChatInv, ReaderFits
<1>5. QED BY <1>1, <1>2, <1>3, <1>4 DEF ChatInv

LEMMA OthersAreSame ==
    ASSUME TypeOK, NEW c \in Chats, Ask(c) \/ Leave(c) \/ LoopStep(c) \/ PumpStep(c),
           NEW d \in Chats, d # c
    PROVE  Same(d)
<1> USE DEF TypeOK, pumping, reading, Same, ReaderMoves, PumpMoves, Record
<1>1. CASE Ask(c) \/ Leave(c)
  BY <1>1 DEF Ask, Leave
<1>2. CASE PumpStep(c)
  <2>1. CASE StartPump(c) \/ NextEvent(c) \/ SourceEnds(c)
    BY <2>1 DEF StartPump, NextEvent, SourceEnds
  <2>2. CASE PutFrame(c) \/ PutSentinel(c) \/ EndPump(c)
    BY <2>2 DEF PutFrame, PutSentinel, EndPump
  <2>3. QED BY <1>2, <2>1, <2>2 DEF PumpStep
<1>3. CASE LoopStep(c)
  <2>1. CASE Open(c) \/ OpenFails(c)
    BY <2>1 DEF Open, OpenFails
  <2>2. CASE GetFrame(c) \/ GetSentinel(c)
    BY <2>2 DEF GetFrame, GetSentinel
  <2>3. CASE Join(c) \/ JoinRaises(c) \/ Apologised(c)
    BY <2>3 DEF Join, JoinRaises, Apologised
  <2>4. CASE FinishPut(c)
    BY <2>4 DEF FinishPut
  <2>5. QED BY <1>3, <2>1, <2>2, <2>3, <2>4 DEF LoopStep, ReaderStep
<1>4. QED BY <1>1, <1>2, <1>3

LEMMA PumpKeepsStream ==
    ASSUME TypeOK, NEW c \in Chats, ChatInv(c), PumpStep(c)
    PROVE  ChatInv(c)'
<1> USE ChatAssumption DEF TypeOK, pumping, reading, Frames, PumpStates, ReaderStates,
        PumpMoves, ChatInv, InFlight, Arrived, PumpFits, ReaderFits, SentFits, AheadFits,
        Item, Handed, Total, Closed
<1>1. CASE StartPump(c)
  BY <1>1 DEF StartPump
<1>2. CASE NextEvent(c)
  <2>1. PICK n \in 1..MaxEvent : produced' = [produced EXCEPT ![c] = @ + n]
    BY <1>2 DEF NextEvent
  <2>2. produced[c] = Total(c)
    BY <1>2 DEF NextEvent, Returned
  <2>3. QED BY <1>2, <2>1, <2>2 DEF NextEvent
<1>3. CASE SourceEnds(c)
  BY <1>3 DEF SourceEnds, Returned
<1>4. CASE PutFrame(c)
  <2>1. puts[c] = {} /\ Total(c) = scheduled[c] /\ ~Closed(c)
    BY <1>4 DEF PutFrame, Returned
  <2>2. puts'[c] = {Total(c) + 1} /\ scheduled'[c] = scheduled[c] + 1
    BY <1>4, <2>1 DEF PutFrame
  <2>3. QED BY <1>4, <2>1, <2>2 DEF PutFrame
<1>5. CASE PutSentinel(c)
  <2>1. puts[c] = {} /\ Total(c) = scheduled[c] /\ ~Closed(c) /\ scheduled[c] = produced[c]
    <3>1. pump[c] = "finally"
      BY <1>5 DEF PutSentinel
    <3>2. ~Closed(c) /\ puts[c] = {} /\ scheduled[c] = produced[c]
      BY <3>1
    <3>3. InFlight(c)
      BY <3>2
    <3>4. puts[c] # {Item(c, Total(c) + 1)}
      BY <3>2
    <3>5. Total(c) = Handed(c)
      BY <3>3, <3>4
    <3>6. QED BY <3>2, <3>5
  <2>2. puts'[c] = {End} /\ pump'[c] = "closing"
    BY <1>5, <2>1 DEF PutSentinel
  <2>3. QED BY <1>5, <2>1, <2>2 DEF PutSentinel
<1>6. CASE EndPump(c)
  BY <1>6 DEF EndPump, Returned
<1>7. QED BY <1>1, <1>2, <1>3, <1>4, <1>5, <1>6 DEF PumpStep

LEMMA PutKeepsStream ==
    ASSUME TypeOK, NEW c \in Chats, ChatInv(c), FinishPut(c)
    PROVE  ChatInv(c)'
<1> USE ChatAssumption DEF TypeOK, pumping, reading, Frames, PumpStates, ReaderStates,
        ChatInv, InFlight, Arrived, PumpFits, ReaderFits, SentFits, AheadFits,
        Item, Handed, Total, Closed
<1>1. PICK f \in puts[c] : /\ puts' = [puts EXCEPT ![c] = @ \ {f}]
                           /\ queue' = [queue EXCEPT ![c] = Append(@, f)]
  BY DEF FinishPut
<1>2. f = Item(c, Total(c) + 1) /\ puts[c] = {f} /\ Total(c) + 1 = Handed(c)
  BY <1>1
<1>3. puts'[c] = {} /\ queue'[c] = Append(queue[c], f)
  BY <1>1, <1>2
<1>4. /\ Len(queue'[c]) = Len(queue[c]) + 1
      /\ \A i \in 1..Len(queue[c]) : queue'[c][i] = queue[c][i]
      /\ queue'[c][Len(queue[c]) + 1] = f
  BY <1>1, <1>3, AppendProperties
<1>5. pump' = pump /\ produced' = produced /\ scheduled' = scheduled /\ raised' = raised
      /\ reader' = reader /\ sent' = sent /\ parts' = parts /\ recorded' = recorded
      /\ Len(queue[c]) < Capacity
  BY DEF FinishPut, Room
<1>6. InFlight(c)'
  <2>1. \A i \in 1..Len(queue'[c]) : queue'[c][i] = Item(c, Len(sent[c]) + i)
    <3> SUFFICES ASSUME NEW i \in 1..Len(queue'[c])
                 PROVE  queue'[c][i] = Item(c, Len(sent[c]) + i)
      OBVIOUS
    <3>1. InFlight(c)
      BY <1>2
    <3>2. CASE i \in 1..Len(queue[c])
      BY <3>1, <3>2, <1>4
    <3>3. CASE i = Len(queue[c]) + 1
      <4>1. Total(c) + 1 = Len(sent[c]) + i
        BY <3>3
      <4>2. QED BY <3>3, <4>1, <1>2, <1>4
    <3>4. QED BY <3>2, <3>3, <1>4
  <2>2. Total(c)' = Total(c) + 1 /\ Handed(c)' = Handed(c) /\ Total(c)' = Handed(c)'
    BY <1>2, <1>4, <1>5
  <2>3. QED BY <2>1, <2>2, <1>3, <1>5
<1>7. PumpFits(c)' /\ SentFits(c)'
  BY <1>3, <1>5
<1>8. AheadFits(c)'
  BY <1>4, <1>5
<1>9. ReaderFits(c)'
  <2>1. ~Arrived(c)
    BY <1>2
  <2>2. QED BY <2>1, <1>5, <1>6
<1>10. QED BY <1>6, <1>7, <1>8, <1>9

LEMMA GetKeepsStream ==
    ASSUME TypeOK, NEW c \in Chats, ChatInv(c), GetFrame(c) \/ GetSentinel(c)
    PROVE  ChatInv(c)'
<1> USE ChatAssumption DEF TypeOK, pumping, reading, Frames, PumpStates, ReaderStates,
        ReaderMoves, ChatInv, PumpFits, Item, Handed, Total, Closed
<1>1. InFlight(c) /\ queue[c] # <<>> /\ reader[c] = "reading"
  BY DEF GetFrame, FrameArrives, GetSentinel, ReaderFits
<1>2. /\ Head(queue[c]) = queue[c][1] /\ Len(queue[c]) \in Nat \ {0}
      /\ Len(Tail(queue[c])) = Len(queue[c]) - 1
      /\ \A i \in 1..(Len(queue[c]) - 1) : Tail(queue[c])[i] = queue[c][i + 1]
  BY <1>1, HeadTailProperties
<1>3. Head(queue[c]) = Item(c, Len(sent[c]) + 1)
  BY <1>1, <1>2 DEF InFlight
<1>4. CASE GetFrame(c)
  <2> DEFINE n == Len(sent[c])
  <2>1. n \in Nat /\ Head(queue[c]) = n + 1
    BY <1>3, <1>4 DEF GetFrame, FrameArrives
  <2>2. /\ queue'[c] = Tail(queue[c]) /\ sent'[c] = Append(sent[c], n + 1)
        /\ parts'[c] = parts[c] \cup ({n + 1} \cap Texts)
        /\ pump' = pump /\ produced' = produced /\ scheduled' = scheduled /\ puts' = puts
        /\ raised' = raised /\ reader' = reader /\ recorded' = recorded
    BY <1>4, <2>1 DEF GetFrame
  <2>3. /\ Len(sent'[c]) = n + 1
        /\ \A i \in 1..n : sent'[c][i] = sent[c][i]
        /\ sent'[c][n + 1] = n + 1
    BY <2>1, <2>2, AppendProperties
  <2>4. Total(c)' = Total(c) /\ Handed(c)' = Handed(c)
    BY <1>2, <2>1, <2>2, <2>3
  <2>5. InFlight(c)'
    <3>1. \A i \in 1..Len(queue'[c]) : queue'[c][i] = Item(c, n + 1 + i)
      <4> SUFFICES ASSUME NEW i \in 1..Len(queue'[c])
                   PROVE  queue'[c][i] = Item(c, n + 1 + i)
        OBVIOUS
      <4>1. i \in 1..(Len(queue[c]) - 1) /\ i + 1 \in 1..Len(queue[c])
        BY <1>2, <2>2
      <4>2. queue'[c][i] = queue[c][i + 1] /\ n + (i + 1) = n + 1 + i
        BY <4>1, <1>2, <2>1, <2>2
      <4>3. QED BY <4>1, <4>2, <1>1 DEF InFlight
    <3>2. QED BY <3>1, <1>1, <2>1, <2>2, <2>3, <2>4 DEF InFlight
  <2>6. PumpFits(c)'
    BY <2>2
  <2>7. ReaderFits(c)'
    BY <1>1, <2>2, <2>5 DEF ReaderFits
  <2>8. SentFits(c)'
    <3>1. parts'[c] = Texts \cap 1..(n + 1)
      BY <2>1, <2>2 DEF SentFits
    <3>2. \A i \in 1..(n + 1) : sent'[c][i] = i
      <4>1. \A i \in 1..n : sent[c][i] = i
        BY DEF SentFits
      <4>2. \A i \in 1..(n + 1) : i \in 1..n \/ i = n + 1
        BY <2>1
      <4>3. QED BY <4>1, <4>2, <2>3
    <3>3. QED BY <3>1, <3>2, <2>3 DEF SentFits
  <2>9. AheadFits(c)'
    BY <1>2, <2>1, <2>2, <2>3 DEF AheadFits
  <2>10. QED BY <2>5, <2>6, <2>7, <2>8, <2>9
<1>5. CASE GetSentinel(c)
  <2>1. Closed(c) /\ Len(sent[c]) = produced[c] /\ produced[c] = scheduled[c]
    BY <1>3, <1>5 DEF GetSentinel, End
  <2>2. Len(queue[c]) = 1 /\ puts[c] = {}
    BY <1>1, <1>2, <2>1 DEF InFlight
  <2>3. /\ queue'[c] = Tail(queue[c]) /\ reader'[c] = "joining"
        /\ pump' = pump /\ produced' = produced /\ scheduled' = scheduled /\ puts' = puts
        /\ raised' = raised /\ sent' = sent /\ parts' = parts /\ recorded' = recorded
    BY <1>5 DEF GetSentinel
  <2>4. Len(queue'[c]) = 0 /\ queue'[c] = <<>>
    <3>1. Tail(queue[c]) \in Seq(Frames \cup {End})
      BY <1>1, HeadTailProperties
    <3>2. Len(Tail(queue[c])) = 0
      BY <1>2, <2>2
    <3>3. Tail(queue[c]) = <<>>
      BY <3>1, <3>2, EmptySeq
    <3>4. QED BY <2>3, <3>2, <3>3
  <2>5. Arrived(c)'
    BY <2>1, <2>2, <2>3, <2>4 DEF Arrived
  <2>6. PumpFits(c)' /\ SentFits(c)' /\ AheadFits(c)'
    BY <2>2, <2>3, <2>4 DEF SentFits, AheadFits
  <2>7. ReaderFits(c)'
    BY <1>1, <2>3, <2>5 DEF ReaderFits
  <2>8. QED BY <2>5, <2>6, <2>7
<1>6. QED BY <1>4, <1>5

LEMMA ReaderKeepsStream ==
    ASSUME TypeOK, NEW c \in Chats, ChatInv(c), Ask(c) \/ Leave(c) \/ ReaderStep(c)
    PROVE  ChatInv(c)'
<1> USE DEF TypeOK, pumping, reading, PumpStates, ReaderStates,
        ReaderMoves, Record, ChatInv, InFlight, Arrived, PumpFits, ReaderFits, SentFits,
        AheadFits, Item, Handed, Total, Closed
<1>1. CASE Ask(c)
  BY <1>1 DEF Ask
<1>2. CASE Leave(c)
  BY <1>2 DEF Leave
<1>3. CASE Open(c)
  <2>1. ~Closed(c) /\ InFlight(c) /\ produced[c] = 0 /\ ~raised[c]
    BY <1>3 DEF Open
  <2>2. QED BY <1>3, <2>1 DEF Open
<1>4. CASE OpenFails(c)
  BY <1>4 DEF OpenFails
<1>5. CASE Join(c)
  BY <1>5 DEF Join
<1>6. CASE JoinRaises(c)
  BY <1>6 DEF JoinRaises
<1>7. CASE Apologised(c)
  BY <1>7 DEF Apologised
<1>8. QED
  BY <1>1, <1>2, <1>3, <1>4, <1>5, <1>6, <1>7, GetKeepsStream DEF ReaderStep

LEMMA StreamIsInductive == StreamInv /\ [Next]_vars => StreamInv'
<1> SUFFICES ASSUME StreamInv, [Next]_vars PROVE StreamInv'
  OBVIOUS
<1>1. TypeOK /\ TypeOK'
  BY TypesAreInductive DEF StreamInv
<1>2. ASSUME NEW c \in Chats, Ask(c) \/ Leave(c) \/ LoopStep(c) \/ PumpStep(c),
             NEW d \in Chats
      PROVE  ChatInv(d)'
  <2>1. CASE d = c
    <3>1. ChatInv(c)
      BY DEF StreamInv
    <3>2. QED
      BY <1>1, <1>2, <2>1, <3>1, ReaderKeepsStream, PumpKeepsStream, PutKeepsStream
      DEF LoopStep
  <2>2. CASE d # c
    BY <1>1, <1>2, <2>2, OthersAreSame, SameKeeps DEF StreamInv
  <2>3. QED BY <2>1, <2>2
<1>3. ASSUME UNCHANGED vars, NEW d \in Chats PROVE ChatInv(d)'
  BY <1>3, SameKeeps DEF StreamInv, vars, pumping, reading, Same
<1>4. QED BY <1>1, <1>2, <1>3 DEF Next, StreamInv

LEMMA StreamHolds == Spec => []StreamInv
<1>1. Init => StreamInv
  <2> SUFFICES ASSUME Init PROVE StreamInv
    OBVIOUS
  <2>1. TypeOK
    BY DEF Init, TypeOK, PumpStates, ReaderStates
  <2>2. ASSUME NEW c \in Chats PROVE ChatInv(c)
    BY <2>2, ChatAssumption DEF Init, ChatInv, InFlight, Arrived, PumpFits, ReaderFits,
       SentFits, AheadFits, Item, Handed, Total, Closed
  <2>3. QED BY <2>1, <2>2 DEF StreamInv
<1>2. QED BY <1>1, StreamIsInductive, PTL DEF Spec

\* The page sees the agent's frames in order, without a gap or a repetition.
THEOREM FramesStayInOrder == Spec => []SentInOrder
<1>1. StreamInv => SentInOrder
  BY DEF StreamInv, ChatInv, SentFits, SentInOrder
<1>2. QED BY <1>1, StreamHolds, PTL

\* A stream that is over has sent everything and is in the history as it was sent.
THEOREM CompleteWhenDone == Spec => []DoneIsComplete
<1>1. StreamInv => DoneIsComplete
  BY DEF StreamInv, ChatInv, SentFits, ReaderFits, Arrived, DoneIsComplete
<1>2. QED BY <1>1, StreamHolds, PTL

\* The page sees what the agent said, in order and in the end whole.
THEOREM PagesSeeTheReply == Spec => []PageSeesTheReply
BY FramesStayInOrder, CompleteWhenDone, PTL DEF PageSeesTheReply

\* The agent is ahead of the page by one event and a full queue at most.
THEOREM AgentIsHeldBack == Spec => []Backpressure
<1>1. StreamInv => Backpressure
  BY DEF StreamInv, ChatInv, AheadFits, Backpressure
<1>2. QED BY <1>1, StreamHolds, PTL

----------------------------------------------------------------------------
(* Runs of events *)

\* Event i is the last about d.
IsLast(i, events, d) ==
    i \in About(events, d) /\ \A j \in About(events, d) : j <= i

LEMMA LeastIn ==
    ASSUME NEW S, S \subseteq Nat, S # {}
    PROVE  \E m \in S : \A j \in S : m <= j
<1>1. PICK m \in S : \A j \in S : <<j, m>> \notin OpToRel(<, Nat)
  BY WFMin, NatLessThanWellFounded, Zenon
<1>2. \A j \in S : ~(j < m)
  BY <1>1, Zenon DEF OpToRel
<1>3. QED BY <1>2

LEMMA LastExists ==
    ASSUME NEW T, NEW events \in Seq(T), NEW d, About(events, d) # {}
    PROVE  \E i \in 1..Len(events) : IsLast(i, events, d)
<1> DEFINE n == Len(events)
           D == {m \in Nat : \E j \in About(events, d) : m = n - j}
<1>0. n \in Nat /\ About(events, d) \subseteq 1..n
  BY DEF About
<1> HIDE DEF n
<1>1. D \subseteq Nat /\ D # {}
  <2>1. PICK j \in About(events, d) : TRUE
    OBVIOUS
  <2>2. n - j \in D
    BY <1>0, <2>1
  <2>3. QED BY <2>2
<1>2. PICK m \in D : \A k \in D : m <= k
  <2> HIDE DEF D
  <2>1. QED BY <1>1, LeastIn
<1>3. PICK i \in About(events, d) : m = n - i
  BY <1>2
<1>4. ASSUME NEW j \in About(events, d) PROVE j <= i
  <2>1. j \in 1..n /\ i \in 1..n /\ n - j \in D
    BY <1>0
  <2>2. m <= n - j
    BY <1>2, <2>1
  <2>3. QED BY <1>0, <1>3, <2>1, <2>2
<1>5. i \in 1..Len(events)
  BY <1>0 DEF n
<1>6. QED BY <1>4, <1>5 DEF IsLast

LEMMA AfterNone ==
    ASSUME NEW s, NEW events, NEW d, About(events, d) = {}
    PROVE  After(s, events, d) = s
BY DEF After

LEMMA AfterLast ==
    ASSUME NEW s, NEW T, NEW events \in Seq(T), NEW d, NEW i \in Nat, IsLast(i, events, d)
    PROVE  After(s, events, d) = events[i][2]
<1> DEFINE last == CHOOSE j \in About(events, d) : \A k \in About(events, d) : k <= j
<1>1. last \in About(events, d) /\ \A k \in About(events, d) : k <= last
  BY DEF IsLast
<1>2. About(events, d) \subseteq Nat
  BY DEF About
<1>3. last = i
  <2> HIDE DEF last
  <2>1. QED BY <1>1, <1>2 DEF IsLast
<1>4. About(events, d) # {}
  BY DEF IsLast
<1>5. QED BY <1>3, <1>4 DEF After

\* When there is an event about d, what was before is of no account.
LEMMA AfterAny ==
    ASSUME NEW s, NEW t, NEW events, NEW d, About(events, d) # {}
    PROVE  After(s, events, d) = After(t, events, d)
BY DEF After

LEMMA AfterAppend ==
    ASSUME NEW s, NEW T, NEW events \in Seq(T), NEW e \in T, NEW d
    PROVE  After(s, Append(events, e), d) = IF e[1] = d THEN e[2] ELSE After(s, events, d)
<1> DEFINE n == Len(events)
           more == Append(events, e)
<1>1. /\ n \in Nat /\ more \in Seq(T) /\ Len(more) = n + 1 /\ more[n + 1] = e
      /\ \A i \in 1..n : more[i] = events[i]
  OBVIOUS
<1>2. CASE e[1] = d
  <2>1. IsLast(n + 1, more, d)
    BY <1>1, <1>2 DEF IsLast, About
  <2> HIDE DEF n, more
  <2>2. n + 1 \in Nat
    BY <1>1
  <2>3. After(s, more, d) = more[n + 1][2]
    BY <1>1, <2>1, <2>2, AfterLast
  <2>4. QED BY <1>1, <1>2, <2>3 DEF more
<1>3. CASE e[1] # d
  <2>1. About(more, d) = About(events, d)
    BY <1>1, <1>3 DEF About
  <2>2. CASE About(events, d) = {}
    BY <1>3, <2>1, <2>2, AfterNone
  <2>3. CASE About(events, d) # {}
    <3>1. PICK i \in 1..Len(events) : IsLast(i, events, d)
      BY <2>3, LastExists
    <3>2. IsLast(i, more, d) /\ more[i] = events[i] /\ i \in Nat
      BY <1>1, <2>1, <3>1 DEF IsLast
    <3>3. After(s, more, d) = more[i][2] /\ After(s, events, d) = events[i][2]
      <4> HIDE DEF more
      <4>1. QED BY <1>1, <3>1, <3>2, AfterLast
    <3>4. QED BY <1>3, <3>2, <3>3
  <2>4. QED BY <2>2, <2>3
<1>4. QED BY <1>2, <1>3

\* The first event, and then the others.
LEMMA AfterRest ==
    ASSUME NEW s, NEW T, NEW events \in Seq(T), events # <<>>, NEW d
    PROVE  After(s, events, d) =
             IF Head(events)[1] = d THEN After(Head(events)[2], Tail(events), d)
             ELSE After(s, Tail(events), d)
<1> DEFINE n == Len(events)
           rest == Tail(events)
           t == IF Head(events)[1] = d THEN Head(events)[2] ELSE s
<1>1. /\ n \in Nat /\ n > 0 /\ rest \in Seq(T) /\ Len(rest) = n - 1 /\ Head(events) = events[1]
      /\ \A i \in 1..(n - 1) : rest[i] = events[i + 1]
  OBVIOUS
<1>2. \A i \in 1..(n - 1) : i \in About(rest, d) <=> i + 1 \in About(events, d)
  BY <1>1 DEF About
<1>3. CASE About(rest, d) # {}
  <2>1. PICK i \in 1..Len(rest) : IsLast(i, rest, d)
    BY <1>1, <1>3, LastExists
  <2>2. i \in 1..(n - 1) /\ i + 1 \in Nat
    BY <1>1
  <2>3. IsLast(i + 1, events, d)
    <3>1. i + 1 \in About(events, d)
      BY <1>2, <2>1, <2>2 DEF IsLast
    <3>2. ASSUME NEW j \in About(events, d) PROVE j <= i + 1
      <4>1. j \in 1..n
        BY DEF About
      <4>2. CASE j = 1
        BY <2>2, <4>2
      <4>3. CASE j # 1
        <5>1. j - 1 \in 1..(n - 1) /\ (j - 1) + 1 = j
          BY <1>1, <4>1, <4>3
        <5>2. j - 1 \in About(rest, d)
          BY <1>2, <5>1
        <5>3. j - 1 <= i
          BY <2>1, <5>2 DEF IsLast
        <5>4. QED BY <2>2, <4>1, <5>3
      <4>4. QED BY <4>2, <4>3
    <3>3. QED BY <3>1, <3>2 DEF IsLast
  <2>4. After(s, events, d) = events[i + 1][2]
    BY <2>2, <2>3, AfterLast
  <2>5. \A u : After(u, rest, d) = rest[i][2]
    <3> HIDE DEF rest
    <3>1. QED BY <1>1, <2>1, <2>2, AfterLast
  <2>6. QED BY <1>1, <2>2, <2>4, <2>5
<1>4. CASE About(rest, d) = {}
  <2>1. \A i \in 2..n : i \notin About(events, d)
    <3> SUFFICES ASSUME NEW i \in 2..n, i \in About(events, d) PROVE FALSE
      OBVIOUS
    <3>1. i - 1 \in 1..(n - 1) /\ (i - 1) + 1 = i
      BY <1>1
    <3>2. QED BY <1>2, <1>4, <3>1
  <2>2. About(events, d) \subseteq 1..n
    BY DEF About
  <2>3. CASE Head(events)[1] = d
    <3>1. 1 \in About(events, d)
      BY <1>1, <2>3 DEF About
    <3>2. IsLast(1, events, d)
      BY <1>1, <2>1, <2>2, <3>1 DEF IsLast
    <3>3. After(s, events, d) = events[1][2]
      BY <3>2, AfterLast
    <3>4. After(Head(events)[2], rest, d) = Head(events)[2]
      BY <1>4, AfterNone
    <3>5. QED BY <1>1, <2>3, <3>3, <3>4
  <2>4. CASE Head(events)[1] # d
    <3>1. About(events, d) = {}
      BY <1>1, <2>1, <2>2, <2>4 DEF About
    <3>2. QED BY <1>4, <2>4, <3>1, AfterNone
  <2>5. QED BY <2>3, <2>4
<1>5. QED BY <1>3, <1>4

LEMMA AfterConcat ==
    ASSUME NEW s, NEW T, NEW first \in Seq(T), NEW second \in Seq(T), NEW d
    PROVE  After(s, first \o second, d) = After(After(s, first, d), second, d)
<1> DEFINE m == Len(first)
           n == Len(second)
           both == first \o second
<1>1. /\ m \in Nat /\ n \in Nat /\ both \in Seq(T) /\ Len(both) = m + n
      /\ \A i \in 1..m : both[i] = first[i]
      /\ \A i \in 1..n : both[m + i] = second[i]
  OBVIOUS
<1>2. \A i \in 1..(m + n) : i \in 1..m \/ (i - m \in 1..n /\ m + (i - m) = i)
  BY <1>1
<1> HIDE DEF both, m, n
<1>3. /\ \A i \in 1..m : i \in About(both, d) <=> i \in About(first, d)
      /\ \A i \in 1..n : m + i \in About(both, d) <=> i \in About(second, d)
      /\ About(both, d) \subseteq 1..(m + n)
      /\ About(first, d) \subseteq 1..m /\ About(second, d) \subseteq 1..n
  BY <1>1 DEF About, m, n
<1>4. CASE About(second, d) # {}
  <2>1. PICK i \in 1..n : IsLast(i, second, d)
    BY <1>4, LastExists DEF n
  <2>2. IsLast(m + i, both, d)
    <3>1. m + i \in About(both, d)
      BY <1>3, <2>1 DEF IsLast
    <3>2. ASSUME NEW j \in About(both, d) PROVE j <= m + i
      <4>1. j \in 1..(m + n)
        BY <1>3
      <4>2. CASE j \in 1..m
        BY <1>1, <2>1, <4>2
      <4>3. CASE j - m \in 1..n /\ m + (j - m) = j
        <5>1. j - m \in About(second, d)
          BY <1>3, <4>3
        <5>2. j - m <= i
          BY <2>1, <5>1 DEF IsLast
        <5>3. QED BY <1>1, <4>1, <5>2
      <4>4. QED BY <1>2, <4>1, <4>2, <4>3
    <3>3. QED BY <3>1, <3>2 DEF IsLast
  <2>3. m + i \in Nat /\ i \in Nat
    BY <1>1
  <2>4. After(s, both, d) = both[m + i][2]
    BY <1>1, <2>2, <2>3, AfterLast
  <2>5. \A u : After(u, second, d) = second[i][2]
    BY <2>1, <2>3, AfterLast
  <2>6. QED BY <1>1, <2>4, <2>5 DEF both
<1>5. CASE About(second, d) = {}
  <2>1. \A u : After(u, second, d) = u
    BY <1>5, AfterNone
  <2>2. About(both, d) = About(first, d)
    <3>1. \A i \in 1..(m + n) : i \in About(both, d) <=> i \in About(first, d)
      <4> SUFFICES ASSUME NEW i \in 1..(m + n)
                   PROVE  i \in About(both, d) <=> i \in About(first, d)
        OBVIOUS
      <4>1. CASE i \in 1..m
        BY <1>3, <4>1
      <4>2. CASE i - m \in 1..n /\ m + (i - m) = i
        <5>1. i \notin About(both, d)
          BY <1>3, <1>5, <4>2
        <5>2. i \notin 1..m
          BY <1>1, <4>2
        <5>3. QED BY <1>3, <5>1, <5>2
      <4>3. QED BY <1>2, <4>1, <4>2
    <3>2. 1..m \subseteq 1..(m + n)
      BY <1>1
    <3>3. QED BY <1>3, <3>1, <3>2
  <2>3. CASE About(first, d) = {}
    BY <2>1, <2>2, <2>3, AfterNone DEF both
  <2>4. CASE About(first, d) # {}
    <3>1. PICK i \in 1..m : IsLast(i, first, d)
      BY <2>4, LastExists DEF m
    <3>2. IsLast(i, both, d) /\ both[i] = first[i] /\ i \in Nat
      BY <1>1, <2>2, <3>1 DEF IsLast
    <3>3. After(s, both, d) = both[i][2] /\ After(s, first, d) = first[i][2]
      BY <1>1, <3>1, <3>2, AfterLast
    <3>4. QED BY <2>1, <3>2, <3>3 DEF both
  <2>5. QED BY <2>3, <2>4
<1>6. QED BY <1>4, <1>5

\* Events cut off that were not about d are of no account.
LEMMA AfterCut ==
    ASSUME NEW s, NEW T, NEW events \in Seq(T), NEW d, NEW n \in 0..Len(events),
           \A i \in (n + 1)..Len(events) : events[i][1] # d
    PROVE  /\ SubSeq(events, 1, n) \in Seq(T)
           /\ After(s, SubSeq(events, 1, n), d) = After(s, events, d)
<1> DEFINE kept == SubSeq(events, 1, n)
<1>1. /\ kept \in Seq(T) /\ Len(kept) = n /\ Len(events) \in Nat /\ n \in Nat
      /\ \A i \in 1..n : kept[i] = events[i]
  OBVIOUS
<1> HIDE DEF kept
<1>2. About(kept, d) = About(events, d)
  <2>1. About(kept, d) \subseteq About(events, d)
    BY <1>1 DEF About
  <2>2. ASSUME NEW i \in About(events, d) PROVE i \in About(kept, d)
    <3>1. i \in 1..Len(events) /\ events[i][1] = d
      BY DEF About
    <3>2. i \in 1..n
      <4>1. ~(i \in (n + 1)..Len(events))
        BY <3>1
      <4>2. QED BY <1>1, <3>1, <4>1
    <3>3. QED BY <1>1, <3>1, <3>2 DEF About
  <2>3. QED BY <2>1, <2>2
<1>3. CASE About(events, d) = {}
  BY <1>1, <1>2, <1>3, AfterNone DEF kept
<1>4. CASE About(events, d) # {}
  <2>1. PICK i \in 1..n : IsLast(i, kept, d)
    BY <1>1, <1>2, <1>4, LastExists
  <2>2. IsLast(i, events, d) /\ kept[i] = events[i] /\ i \in Nat
    BY <1>1, <1>2, <2>1 DEF IsLast
  <2>3. After(s, kept, d) = kept[i][2] /\ After(s, events, d) = events[i][2]
    BY <1>1, <2>1, <2>2, AfterLast
  <2>4. QED BY <1>1, <2>2, <2>3 DEF kept
<1>5. QED BY <1>3, <1>4

----------------------------------------------------------------------------
(* The device events: types *)

LEMMA ListsAreStates ==
    ASSUME EventsTypeOK
    PROVE  /\ Listed \in [Devices -> Seen]
           /\ \A list \in [Devices -> Seen] : Overlaid(list) \in [Devices -> Seen]
           /\ Nothing \in [Devices -> Seen]
BY DEF EventsTypeOK, Listed, Overlaid, Nothing, Seen

\* What the handler passes on is a state of a controllable device.
LEMMA ForwardedIsState ==
    ASSUME EventsTypeOK, wire # <<>>
    PROVE  /\ Head(wire) \in Devices \X (State \cup {Gone})
           /\ Tail(wire) \in Seq(Devices \X (State \cup {Gone}))
           /\ Forwarded(Head(wire)) =>
                 /\ Head(wire) \in Controllable \X State
                 /\ Head(wire)[1] \in Controllable /\ Head(wire)[1] \in Devices
                 /\ Head(wire)[2] \in State /\ Head(wire)[2] # None
<1>1. wire \in Seq(Devices \X (State \cup {Gone}))
  BY DEF EventsTypeOK
<1>2. /\ Head(wire) \in Devices \X (State \cup {Gone})
      /\ Tail(wire) \in Seq(Devices \X (State \cup {Gone}))
  BY <1>1
<1>3. None \notin State
  BY DeviceAssumption DEF State
<1>4. QED BY <1>2, <1>3 DEF Forwarded

LEMMA HomeKeepsTypes ==
    ASSUME EventsTypeOK, LoseConnection \/ \E d \in Devices : Change(d)
    PROVE  EventsTypeOK'
<1> USE DeviceAssumption DEF outside, listener, pages, asking
<1>1. ASSUME NEW d \in Devices, Change(d) PROVE EventsTypeOK'
  <2>1. changes' \in State
    BY <1>1 DEF Change, EventsTypeOK, State
  <2>2. home' \in [Devices -> State \cup {Gone}] /\ home'[d] \in State \cup {Gone}
    BY <1>1, <2>1 DEF Change, EventsTypeOK
  <2>3. wire' \in Seq(Devices \X (State \cup {Gone}))
    <3>1. <<d, home'[d]>> \in Devices \X (State \cup {Gone})
      BY <2>2
    <3>2. wire \in Seq(Devices \X (State \cup {Gone}))
      BY DEF EventsTypeOK
    <3>3. QED BY <1>1, <3>1, <3>2 DEF Change
  <2>4. missed' \subseteq Devices
    BY <1>1 DEF Change, EventsTypeOK
  <2>5. UNCHANGED <<link, cache, subs, queued, pages, asking, losses>>
    BY <1>1 DEF Change
  <2>6. QED BY <2>1, <2>2, <2>3, <2>4, <2>5 DEF EventsTypeOK
<1>2. CASE LoseConnection
  <2>1. PICK n \in 0..Len(wire) :
          /\ wire' = SubSeq(wire, 1, n)
          /\ missed' = missed \cup {wire[i][1] : i \in n+1..Len(wire)}
    BY <1>2 DEF LoseConnection
  <2>2. wire \in Seq(Devices \X (State \cup {Gone}))
    BY DEF EventsTypeOK
  <2>3. wire' \in Seq(Devices \X (State \cup {Gone}))
    BY <2>1, <2>2
  <2>4. missed' \subseteq Devices
    <3>1. \A i \in n+1..Len(wire) : wire[i] \in Devices \X (State \cup {Gone})
      BY <2>2
    <3>2. QED BY <2>1, <3>1 DEF EventsTypeOK
  <2>5. losses' \in 0..MaxLosses
    BY <1>2 DEF LoseConnection, EventsTypeOK
  <2>6. link' \in {"down", "hello", "auth", "asked", "up", "lost"}
    BY <1>2 DEF LoseConnection
  <2>7. UNCHANGED <<home, changes, cache, subs, queued, pages, asking>>
    BY <1>2 DEF LoseConnection
  <2>8. QED BY <2>3, <2>4, <2>5, <2>6, <2>7 DEF EventsTypeOK
<1>3. QED BY <1>1, <1>2

LEMMA ListenerKeepsTypes ==
    ASSUME EventsTypeOK, Listening \/ Refuse
    PROVE  EventsTypeOK'
<1> USE DeviceAssumption DEF outside, listener, pages, asking
<1>1. CASE Connect \/ AuthRequired \/ AuthOk \/ Subscribed \/ Reconnect
  <2>1. /\ link' \in {"down", "hello", "auth", "asked", "up", "lost"}
        /\ UNCHANGED <<outside, wire, cache, subs, queued, pages, asking, losses>>
    BY <1>1 DEF Connect, AuthRequired, AuthOk, Subscribed, Reconnect, Advance
  <2>2. QED BY <2>1 DEF EventsTypeOK
<1>2. CASE Refuse
  <2>1. /\ link' \in {"down", "hello", "auth", "asked", "up", "lost"}
        /\ UNCHANGED <<outside, wire, cache, subs, queued, pages, asking>>
    BY <1>2 DEF Refuse, Advance
  <2>2. losses' \in 0..MaxLosses
    BY <1>2 DEF Refuse, EventsTypeOK
  <2>3. QED BY <2>1, <2>2 DEF EventsTypeOK
<1>3. CASE SkipEvent
  <2>1. wire' \in Seq(Devices \X (State \cup {Gone}))
    BY <1>3, ForwardedIsState DEF SkipEvent
  <2>2. QED BY <1>3, <2>1 DEF SkipEvent, EventsTypeOK
<1>4. CASE Handle
  <2> DEFINE e == Head(wire)
  <2>1. /\ e \in Controllable \X State /\ e[1] \in Devices /\ e[2] \in State
        /\ wire' \in Seq(Devices \X (State \cup {Gone}))
    BY <1>4, ForwardedIsState DEF Handle
  <2> HIDE DEF e
  <2>2. cache' \in [Devices -> Seen]
    <3>1. cache' = [cache EXCEPT ![e[1]] = e[2]]
      BY <1>4 DEF Handle, e
    <3>2. QED BY <2>1, <3>1 DEF EventsTypeOK, Seen
  <2>3. queued' = [p \in Pages |-> IF p \in subs /\ ~Full(p) THEN Append(queued[p], e)
                                                            ELSE queued[p]]
    BY <1>4 DEF Handle, e
  <2>4. ASSUME NEW p \in Pages
        PROVE  queued'[p] \in Seq(Controllable \X State) /\ Len(queued'[p]) <= QueueMax
    <3>1. queued[p] \in Seq(Controllable \X State) /\ Len(queued[p]) <= QueueMax
          /\ Len(queued[p]) \in Nat
      BY DEF EventsTypeOK
    <3>2. CASE p \in subs /\ ~Full(p)
      <4>1. queued'[p] = Append(queued[p], e)
        BY <2>3, <3>2
      <4>2. Len(queued'[p]) = Len(queued[p]) + 1 /\ queued'[p] \in Seq(Controllable \X State)
        BY <2>1, <3>1, <4>1
      <4>3. QED BY <3>1, <3>2, <4>2 DEF Full
    <3>3. CASE ~(p \in subs /\ ~Full(p))
      BY <2>3, <3>1, <3>3
    <3>4. QED BY <3>2, <3>3
  <2>5. queued' \in [Pages -> Seq(Controllable \X State)]
    BY <2>3, <2>4
  <2>6. subs' \subseteq Pages
    BY <1>4 DEF Handle, EventsTypeOK
  <2>7. UNCHANGED <<outside, link, pages, asking, losses>>
    BY <1>4 DEF Handle
  <2>8. QED BY <2>1, <2>2, <2>4, <2>5, <2>6, <2>7 DEF EventsTypeOK
<1>5. QED BY <1>1, <1>2, <1>3, <1>4 DEF Listening

\* What a page does, one action of its stream or of its request.
PageStep(p) ==
    \/ Serving(p)
    \/ Subscribe(p) \/ SnapshotError(p) \/ Close(p) \/ Abandon(p)
    \/ AskList(p)

LEMMA PageKeepsTypes ==
    ASSUME EventsTypeOK, NEW p \in Pages, PageStep(p)
    PROVE  EventsTypeOK'
<1> USE DeviceAssumption DEF outside, listener, pages, asking
<1>1. CASE Subscribe(p) \/ Close(p)
  <2>1. /\ queued' = [queued EXCEPT ![p] = <<>>]
        /\ subs' = subs \cup {p} \/ subs' = subs \ {p}
        /\ stream' = [stream EXCEPT ![p] = "opened"] \/ stream' = [stream EXCEPT ![p] = "closed"]
    BY <1>1 DEF Subscribe, Close
  <2>2. queued' \in [Pages -> Seq(Controllable \X State)]
    <3>1. <<>> \in Seq(Controllable \X State)
      OBVIOUS
    <3>2. QED BY <2>1, <3>1 DEF EventsTypeOK
  <2>3. \A q \in Pages : Len(queued'[q]) <= QueueMax
    <3>1. Len(<<>>) = 0
      OBVIOUS
    <3>2. \A q \in Pages : queued'[q] = <<>> \/ queued'[q] = queued[q]
      BY <2>1 DEF EventsTypeOK
    <3>3. QED BY <3>1, <3>2 DEF EventsTypeOK
  <2>4. /\ view' \in [Pages -> [Devices -> Seen]] /\ got' \in [Pages -> [Devices -> Seen]]
    <3>1. view' = [view EXCEPT ![p] = Nothing] \/ view' = view
      BY <1>1 DEF Subscribe, Close
    <3>2. got' = [got EXCEPT ![p] = Nothing] \/ got' = got
      BY <1>1 DEF Subscribe, Close
    <3>3. QED BY <3>1, <3>2, ListsAreStates DEF EventsTypeOK
  <2>5. /\ stale' \in [Pages -> SUBSET Devices] /\ overtaken' \in [Pages -> SUBSET Devices]
        /\ reload' \in [Pages -> {"none", "listed", "answered"}]
    BY <1>1 DEF Subscribe, Close, EventsTypeOK
  <2>6. /\ stream' \in [Pages -> {"closed", "opened", "live", "abandoned"}]
        /\ subs' \subseteq Pages
    BY <2>1 DEF EventsTypeOK
  <2>7. UNCHANGED <<outside, listener, cache, reloads, losses>>
    BY <1>1 DEF Subscribe, Close
  <2>8. QED BY <2>2, <2>3, <2>4, <2>5, <2>6, <2>7 DEF EventsTypeOK
<1>2. CASE Snapshot(p) \/ SnapshotError(p) \/ Abandon(p)
  <2>1. view' \in [Pages -> [Devices -> Seen]]
    <3>1. view' = view \/ view' = [view EXCEPT ![p] = Overlaid(Listed)]
      BY <1>2 DEF Snapshot, SnapshotError, Abandon
    <3>2. QED BY <3>1, ListsAreStates DEF EventsTypeOK
  <2>2. losses' \in 0..MaxLosses
    BY <1>2 DEF Snapshot, SnapshotError, Abandon, EventsTypeOK
  <2>3. stream' \in [Pages -> {"closed", "opened", "live", "abandoned"}]
    BY <1>2 DEF Snapshot, SnapshotError, Abandon, EventsTypeOK
  <2>4. UNCHANGED <<outside, listener, cache, subs, queued, stale, asking>>
    BY <1>2 DEF Snapshot, SnapshotError, Abandon
  <2>5. QED BY <2>1, <2>2, <2>3, <2>4 DEF EventsTypeOK
<1>3. CASE Deliver(p)
  <2> DEFINE e == Head(queued[p])
  <2>1. queued[p] \in Seq(Controllable \X State) /\ queued[p] # <<>> /\ Len(queued[p]) <= QueueMax
    BY <1>3 DEF Deliver, EventsTypeOK
  <2>2. /\ e \in Controllable \X State /\ Tail(queued[p]) \in Seq(Controllable \X State)
        /\ Len(Tail(queued[p])) <= QueueMax
    BY <2>1
  <2>3. e[1] \in Devices /\ e[2] \in State
    BY <2>2
  <2>4. /\ queued' = [queued EXCEPT ![p] = Tail(@)]
        /\ view' = [view EXCEPT ![p][e[1]] = IF @ = None THEN @ ELSE e[2]]
        /\ overtaken' = [overtaken EXCEPT ![p] =
              IF reload[p] = "answered" THEN @ \cup {e[1]} ELSE @]
        /\ stale' = [stale EXCEPT ![p] = @ \ {e[1]}]
    BY <1>3 DEF Deliver
  <2> HIDE DEF e
  <2>5. queued' \in [Pages -> Seq(Controllable \X State)]
    BY <2>2, <2>4 DEF EventsTypeOK
  <2>6. \A q \in Pages : Len(queued'[q]) <= QueueMax
    BY <2>2, <2>4 DEF EventsTypeOK
  <2>7. view' \in [Pages -> [Devices -> Seen]]
    <3>1. [view[p] EXCEPT ![e[1]] = IF @ = None THEN @ ELSE e[2]] \in [Devices -> Seen]
      BY <2>3 DEF EventsTypeOK, Seen
    <3>2. QED BY <2>4, <3>1 DEF EventsTypeOK
  <2>8. overtaken' \in [Pages -> SUBSET Devices] /\ stale' \in [Pages -> SUBSET Devices]
    BY <2>3, <2>4 DEF EventsTypeOK
  <2>9. UNCHANGED <<outside, listener, cache, subs, stream, reload, got, reloads, losses>>
    BY <1>3 DEF Deliver
  <2>10. QED BY <2>5, <2>6, <2>7, <2>8, <2>9 DEF EventsTypeOK
<1>4. CASE AskList(p) \/ Answer(p)
  <2>1. got' \in [Pages -> [Devices -> Seen]]
    <3>1. got' = [got EXCEPT ![p] = Listed] \/ got' = [got EXCEPT ![p] = Overlaid(@)]
      BY <1>4 DEF AskList, Answer
    <3>2. got[p] \in [Devices -> Seen] /\ got \in [Pages -> [Devices -> Seen]]
      BY DEF EventsTypeOK
    <3>3. Overlaid(got[p]) \in [Devices -> Seen] /\ Listed \in [Devices -> Seen]
      BY <3>2, ListsAreStates
    <3>4. QED BY <3>1, <3>2, <3>3
  <2>2. reload' \in [Pages -> {"none", "listed", "answered"}]
    BY <1>4 DEF AskList, Answer, EventsTypeOK
  <2>3. reloads' \in 0..MaxReloads
    BY <1>4 DEF AskList, Answer, EventsTypeOK
  <2>4. UNCHANGED <<outside, listener, cache, subs, queued, pages, overtaken, losses>>
    BY <1>4 DEF AskList, Answer
  <2>5. QED BY <2>1, <2>2, <2>3, <2>4 DEF EventsTypeOK
<1>5. CASE Arrive(p)
  <2>1. view' \in [Pages -> [Devices -> Seen]] /\ got' \in [Pages -> [Devices -> Seen]]
    BY <1>5, ListsAreStates DEF Arrive, EventsTypeOK
  <2>2. stale' \in [Pages -> SUBSET Devices] /\ overtaken' \in [Pages -> SUBSET Devices]
        /\ reload' \in [Pages -> {"none", "listed", "answered"}]
    BY <1>5 DEF Arrive, EventsTypeOK
  <2>3. UNCHANGED <<outside, listener, cache, subs, queued, stream, reloads, losses>>
    BY <1>5 DEF Arrive
  <2>4. QED BY <2>1, <2>2, <2>3 DEF EventsTypeOK
<1>6. QED BY <1>1, <1>2, <1>3, <1>4, <1>5 DEF PageStep, Serving

LEMMA EventTypesAreInductive == EventsTypeOK /\ [EventsNext]_eventVars => EventsTypeOK'
<1> SUFFICES ASSUME EventsTypeOK, [EventsNext]_eventVars PROVE EventsTypeOK'
  OBVIOUS
<1>1. CASE UNCHANGED eventVars
  BY <1>1 DEF EventsTypeOK, eventVars, outside, listener, pages, asking
<1>2. QED
  BY <1>1, HomeKeepsTypes, ListenerKeepsTypes, PageKeepsTypes DEF EventsNext, PageStep

LEMMA EventTypesStart == EventsInit => EventsTypeOK
<1> SUFFICES ASSUME EventsInit PROVE EventsTypeOK
  OBVIOUS
<1>1. Nothing \in [Devices -> Seen]
  BY DEF Nothing, Seen
<1>2. wire = <<>> /\ queued = [p \in Pages |-> <<>>] /\ 0 \in State /\ Len(<<>>) = 0
      /\ <<>> \in Seq(Devices \X (State \cup {Gone})) /\ <<>> \in Seq(Controllable \X State)
  BY DeviceAssumption DEF EventsInit, State
<1>3. \A p \in Pages : Len(queued[p]) <= QueueMax
  BY <1>2, DeviceAssumption
<1>4. QED
  BY <1>1, <1>2, <1>3, DeviceAssumption DEF EventsInit, EventsTypeOK

\* Every variable keeps its type: no subscriber's queue holds more events than it may, and
\* nothing but states of controllable devices gets into one (main.py:93-109, 614-651).
THEOREM EventsTypeCorrect == EventsSpec => []EventsTypeOK
BY EventTypesStart, EventTypesAreInductive, PTL DEF EventsSpec

----------------------------------------------------------------------------
(* The device events: what is on its way *)

\* An event has told of the last change of d, and d is still there.
Told(d) == d \notin missed /\ home[d] # Gone

Source(d) == IF cache[d] = None THEN home[d] ELSE cache[d]

\* The cache, followed by the wire, is the home.
SourceInv == \A d \in Controllable : Told(d) => After(Source(d), wire, d) = home[d]

\* A queue ends with what the cache has, and is about nothing else.
QueueInv(p) ==
    \A d \in Controllable :
        /\ cache[d] = None => About(queued[p], d) = {}
        /\ cache[d] # None => After(cache[d], queued[p], d) = cache[d]

\* State s of d becomes, for page p, what the cache has, or the home when the cache is empty.
Leads(s, p, d) ==
    /\ cache[d] # None => After(s, queued[p], d) = cache[d]
    /\ cache[d] = None /\ Told(d) => After(s, wire, d) = home[d]

ViewInv(p) == \A d \in Shown(p) \ stale[p] : Leads(view[p][d], p, d)

\* A list that the cache has not been laid over yet is good only for what the cache lacks.
GotInv(p) ==
    \A d \in Controllable : got[p][d] # None =>
        /\ reload[p] = "answered" /\ d \notin overtaken[p] => Leads(got[p][d], p, d)
        /\ reload[p] = "listed" /\ cache[d] = None => Leads(got[p][d], p, d)

PageInv(p) ==
    /\ stream[p] # "live" => view[p] = Nothing /\ reload[p] = "none"
    /\ p \in subs => QueueInv(p)
    /\ p \in subs /\ stream[p] = "live" => ViewInv(p) /\ GotInv(p)

EventsInv == EventsTypeOK /\ SourceInv /\ \A p \in Pages : PageInv(p)

behind == <<home, missed, wire, cache>>
pageOf(p) == <<stream[p], queued[p], view[p], stale[p], reload[p], got[p], overtaken[p]>>

\* A page whose own state stays keeps its invariant when the rest stays.
LEMMA PageStays ==
    ASSUME NEW p, PageInv(p), UNCHANGED behind, pageOf(p)' = pageOf(p), p \in subs' => p \in subs
    PROVE  PageInv(p)'
BY DEF PageInv, QueueInv, ViewInv, GotInv, Shown, Leads, Told, behind, pageOf

\* What the home does to the wire: either the last event about d has been sent now, or
\* nothing about d has changed or been lost.
LEMMA HomeTells ==
    ASSUME EventsTypeOK, LoseConnection \/ \E x \in Devices : Change(x),
           NEW d \in Controllable, Told(d)'
    PROVE  \/ \A s : After(s, wire', d) = home'[d]
           \/ Told(d) /\ home'[d] = home[d] /\ \A s : After(s, wire', d) = After(s, wire, d)
<1> DEFINE Event == Devices \X (State \cup {Gone})
<1>0. wire \in Seq(Event) /\ home \in [Devices -> State \cup {Gone}] /\ d \in Devices
  BY DeviceAssumption DEF EventsTypeOK
<1>1. ASSUME NEW x \in Devices, Change(x)
      PROVE  \/ \A s : After(s, wire', d) = home'[d]
             \/ Told(d) /\ home'[d] = home[d] /\ \A s : After(s, wire', d) = After(s, wire, d)
  <2>0. changes + 1 \in State
    BY <1>1, DeviceAssumption DEF Change, EventsTypeOK, State
  <2>1. PICK y \in State \cup {Gone} : home' = [home EXCEPT ![x] = y]
    BY <1>1, <2>0 DEF Change
  <2>2. <<x, y>> \in Event /\ <<x, y>>[1] = x /\ <<x, y>>[2] = y /\ home'[x] = y
    BY <1>0, <2>1
  <2>3. wire' = IF link = "up" THEN Append(wire, <<x, y>>) ELSE wire
    BY <1>1, <2>2 DEF Change
  <2>4. missed' = IF link = "up" THEN missed \ {x} ELSE missed \cup {x}
    BY <1>1 DEF Change
  <2> HIDE DEF Event
  <2>5. \A s : After(s, Append(wire, <<x, y>>), d) = IF x = d THEN y ELSE After(s, wire, d)
    BY <1>0, <2>2, AfterAppend
  <2>6. CASE x = d
    BY <2>2, <2>3, <2>4, <2>5, <2>6 DEF Told
  <2>7. CASE x # d
    <3>1. home'[d] = home[d]
      BY <1>0, <2>1, <2>7
    <3>2. \A s : After(s, wire', d) = After(s, wire, d)
      BY <2>3, <2>5, <2>7
    <3>3. QED BY <2>4, <2>7, <3>1, <3>2 DEF Told
  <2>8. QED BY <2>6, <2>7
<1>2. CASE LoseConnection
  <2>1. PICK n \in 0..Len(wire) :
          /\ wire' = SubSeq(wire, 1, n)
          /\ missed' = missed \cup {wire[i][1] : i \in n+1..Len(wire)}
    BY <1>2 DEF LoseConnection
  <2>2. \A i \in (n + 1)..Len(wire) : wire[i][1] # d
    BY <2>1 DEF Told
  <2> HIDE DEF Event
  <2>3. \A s : After(s, wire', d) = After(s, wire, d)
    BY <1>0, <2>1, <2>2, AfterCut
  <2>4. home' = home
    BY <1>2 DEF LoseConnection
  <2>5. QED BY <2>1, <2>3, <2>4 DEF Told
<1>3. QED BY <1>1, <1>2

LEMMA HomeKeepsEvents ==
    ASSUME EventsInv, LoseConnection \/ \E d \in Devices : Change(d)
    PROVE  EventsInv'
<1>1. UNCHANGED <<cache, subs, queued, pages, asking>>
  BY DEF LoseConnection, Change
<1>2. EventsTypeOK /\ EventsTypeOK'
  BY HomeKeepsTypes DEF EventsInv
<1>3. SourceInv'
  <2> SUFFICES ASSUME NEW d \in Controllable, Told(d)'
               PROVE  After(Source(d)', wire', d) = home'[d]
    BY DEF SourceInv
  <2>1. CASE \A s : After(s, wire', d) = home'[d]
    BY <2>1
  <2>2. CASE Told(d) /\ home'[d] = home[d] /\ \A s : After(s, wire', d) = After(s, wire, d)
    BY <1>1, <2>2 DEF EventsInv, SourceInv, Source
  <2>3. QED BY <1>2, <2>1, <2>2, HomeTells
<1>4. ASSUME NEW s, NEW p, NEW d \in Controllable, Leads(s, p, d)
      PROVE  Leads(s, p, d)'
  <2>1. cache'[d] # None => After(s, queued'[p], d) = cache'[d]
    BY <1>1, <1>4 DEF Leads
  <2>2. ASSUME cache'[d] = None, Told(d)' PROVE After(s, wire', d) = home'[d]
    BY <1>1, <1>2, <1>4, <2>2, HomeTells DEF Leads
  <2>3. QED BY <2>1, <2>2 DEF Leads
<1>5. ASSUME NEW p \in Pages PROVE PageInv(p)'
  <2>1. PageInv(p)
    BY DEF EventsInv
  <2>2. /\ stream'[p] # "live" => view'[p] = Nothing /\ reload'[p] = "none"
        /\ p \in subs' => QueueInv(p)'
    BY <1>1, <2>1 DEF PageInv, QueueInv, pages, asking
  <2>3. ASSUME p \in subs', stream'[p] = "live" PROVE ViewInv(p)'
    <3>1. ViewInv(p) /\ Shown(p)' = Shown(p) /\ view'[p] = view[p] /\ stale'[p] = stale[p]
      BY <1>1, <2>1, <2>3 DEF PageInv, Shown, pages
    <3>2. \A d \in Shown(p) \ stale[p] : d \in Controllable /\ Leads(view[p][d], p, d)
      BY <3>1 DEF ViewInv, Shown
    <3>3. \A d \in Shown(p) \ stale[p] : Leads(view[p][d], p, d)'
      BY <1>1, <1>4, <3>2 DEF Leads, pages
    <3>4. QED BY <3>1, <3>3 DEF ViewInv
  <2>4. ASSUME p \in subs', stream'[p] = "live" PROVE GotInv(p)'
    <3>1. GotInv(p)
      BY <1>1, <2>1, <2>4 DEF PageInv, pages
    <3>2. UNCHANGED <<got, reload, overtaken, cache>>
      BY <1>1 DEF asking
    <3>3. \A s, d : d \in Controllable /\ Leads(s, p, d) => Leads(s, p, d)'
      BY <1>4
    <3>4. QED BY <3>1, <3>2, <3>3 DEF GotInv
  <2>5. QED BY <2>2, <2>3, <2>4 DEF PageInv
<1>6. QED BY <1>2, <1>3, <1>5 DEF EventsInv

\* The head of the wire is passed over or handled: what is behind it leads to the same.
LEMMA WireRest ==
    ASSUME EventsTypeOK, wire # <<>>, NEW d \in Controllable, NEW s,
           Told(d), After(s, wire, d) = home[d],
           Head(wire)[1] # d \/ Head(wire)[2] = Gone
    PROVE  After(s, Tail(wire), d) = home[d]
<1> DEFINE Event == Devices \X (State \cup {Gone})
<1>0. wire \in Seq(Event)
  BY DEF EventsTypeOK
<1> HIDE DEF Event
<1>1. CASE Head(wire)[1] # d
  BY <1>0, <1>1, AfterRest
<1>2. CASE Head(wire)[1] = d /\ Head(wire)[2] = Gone
  <2>1. After(Gone, Tail(wire), d) = home[d]
    BY <1>0, <1>2, AfterRest
  <2>2. About(Tail(wire), d) # {}
    BY <2>1, AfterNone DEF Told
  <2>3. QED BY <2>1, <2>2, AfterAny
<1>3. QED BY <1>1, <1>2

LEMMA SkipKeepsEvents ==
    ASSUME EventsInv, SkipEvent
    PROVE  EventsInv'
<1>1. /\ wire # <<>> /\ wire' = Tail(wire) /\ ~Forwarded(Head(wire))
      /\ UNCHANGED <<outside, link, cache, subs, queued, pages, asking, losses>>
  BY DEF SkipEvent
<1>2. EventsTypeOK /\ EventsTypeOK'
  BY ListenerKeepsTypes DEF EventsInv, Listening
<1>3. \A s : \A d \in Controllable :
         Told(d) /\ After(s, wire, d) = home[d] => After(s, wire', d) = home[d]
  BY <1>1, <1>2, WireRest DEF Forwarded
<1>4. SourceInv'
  BY <1>1, <1>3 DEF EventsInv, SourceInv, Source, Told, outside
<1>5. ASSUME NEW p \in Pages PROVE PageInv(p)'
  <2>1. PageInv(p) /\ UNCHANGED <<home, missed, cache, subs, queued, pages, asking>>
    BY <1>1 DEF EventsInv, outside
  <2>2. \A s : \A d \in Controllable : Leads(s, p, d) => Leads(s, p, d)'
    BY <1>3, <2>1 DEF Leads, Told
  <2>3. ViewInv(p) => ViewInv(p)'
    BY <2>1, <2>2 DEF ViewInv, Shown, pages
  <2>4. GotInv(p) => GotInv(p)'
    BY <2>1, <2>2 DEF GotInv, asking
  <2>5. QED BY <2>1, <2>3, <2>4 DEF PageInv, QueueInv, pages, asking
<1>6. QED BY <1>2, <1>4, <1>5 DEF EventsInv

LEMMA HandleKeepsEvents ==
    ASSUME EventsInv, Handle
    PROVE  EventsInv'
<1> DEFINE e == Head(wire)
<1>1. /\ wire # <<>> /\ wire' = Tail(wire) /\ Forwarded(e)
      /\ cache' = [cache EXCEPT ![e[1]] = e[2]]
      /\ queued' = [p \in Pages |-> IF p \in subs /\ ~Full(p) THEN Append(queued[p], e)
                                                             ELSE queued[p]]
      /\ subs' = {p \in subs : ~Full(p)}
      /\ UNCHANGED <<outside, pages, asking>>
  BY DEF Handle
<1>2. EventsTypeOK /\ EventsTypeOK'
  BY ListenerKeepsTypes DEF EventsInv, Listening
<1>3. /\ e \in Controllable \X State /\ e[1] \in Controllable /\ e[2] # None
      /\ wire \in Seq(Devices \X (State \cup {Gone}))
      /\ cache \in [Devices -> Seen] /\ Controllable \subseteq Devices
  BY <1>1, <1>2, ForwardedIsState, DeviceAssumption DEF EventsTypeOK
<1>4. /\ cache'[e[1]] = e[2]
      /\ \A d \in Controllable : d # e[1] => cache'[d] = cache[d]
  BY <1>1, <1>3
<1>5. \A s, d : After(s, wire, d) = IF e[1] = d THEN After(e[2], wire', d) ELSE After(s, wire', d)
  BY <1>1, <1>3, AfterRest
<1> HIDE DEF e
<1>6. SourceInv'
  <2> SUFFICES ASSUME NEW d \in Controllable, Told(d)'
               PROVE  After(Source(d)', wire', d) = home'[d]
    BY DEF SourceInv
  <2>1. Told(d) /\ home' = home
    BY <1>1 DEF Told, outside
  <2>2. After(Source(d), wire, d) = home[d]
    BY <2>1 DEF EventsInv, SourceInv
  <2>3. CASE d = e[1]
    <3>1. Source(d)' = e[2]
      BY <1>3, <1>4, <2>3 DEF Source
    <3>2. QED BY <1>5, <2>1, <2>2, <2>3, <3>1
  <2>4. CASE d # e[1]
    <3>1. Source(d)' = Source(d)
      BY <1>4, <2>1, <2>4 DEF Source
    <3>2. QED BY <1>5, <2>1, <2>2, <2>4, <3>1
  <2>5. QED BY <2>3, <2>4
<1>7. ASSUME NEW p \in Pages, p \in subs'
      PROVE  QueueInv(p)' /\ \A s : \A d \in Controllable : Leads(s, p, d) => Leads(s, p, d)'
  <2>1. p \in subs /\ queued'[p] = Append(queued[p], e)
    BY <1>1, <1>7
  <2>2. queued[p] \in Seq(Controllable \X State)
    BY <1>2 DEF EventsTypeOK
  <2>3. \A s, d : After(s, queued'[p], d) = IF e[1] = d THEN e[2] ELSE After(s, queued[p], d)
    <3> DEFINE Event == Controllable \X State
    <3>1. queued[p] \in Seq(Event) /\ e \in Event
      BY <1>3, <2>2
    <3> HIDE DEF Event
    <3>2. QED BY <2>1, <3>1, AfterAppend
  <2>4. \A d : d # e[1] /\ About(queued[p], d) = {} => About(queued'[p], d) = {}
    <3> SUFFICES ASSUME NEW d, d # e[1], About(queued[p], d) = {},
                        NEW i \in 1..Len(queued'[p]), queued'[p][i][1] = d
                 PROVE  FALSE
      BY DEF About
    <3>1. (i \in 1..Len(queued[p]) /\ queued'[p][i] = queued[p][i]) \/ queued'[p][i] = e
      BY <1>3, <2>1, <2>2
    <3>2. QED BY <3>1 DEF About
  <2>5. QueueInv(p)'
    <3>1. QueueInv(p)
      BY <2>1 DEF EventsInv, PageInv
    <3>2. ASSUME NEW d \in Controllable
          PROVE  /\ cache'[d] = None => About(queued'[p], d) = {}
                 /\ cache'[d] # None => After(cache'[d], queued'[p], d) = cache'[d]
      BY <1>3, <1>4, <2>3, <2>4, <3>1 DEF QueueInv
    <3>3. QED BY <3>2 DEF QueueInv
  <2>6. ASSUME NEW s, NEW d \in Controllable, Leads(s, p, d)
        PROVE  Leads(s, p, d)'
    <3>1. CASE d = e[1]
      BY <1>3, <1>4, <2>3, <3>1 DEF Leads
    <3>2. CASE d # e[1]
      <4>1. cache'[d] = cache[d] /\ After(s, queued'[p], d) = After(s, queued[p], d)
            /\ After(s, wire', d) = After(s, wire, d)
        BY <1>4, <1>5, <2>3, <3>2
      <4>2. UNCHANGED <<home, missed>>
        BY <1>1 DEF outside
      <4>3. QED BY <2>6, <4>1, <4>2 DEF Leads, Told
    <3>3. QED BY <3>1, <3>2
  <2>7. QED BY <2>5, <2>6
<1>8. ASSUME NEW p \in Pages PROVE PageInv(p)'
  <2>1. PageInv(p) /\ UNCHANGED <<pages, asking>> /\ (p \in subs' => p \in subs)
    BY <1>1 DEF EventsInv
  <2>2. p \in subs' /\ ViewInv(p) => ViewInv(p)'
    <3> SUFFICES ASSUME p \in subs', ViewInv(p) PROVE ViewInv(p)'
      OBVIOUS
    <3>1. UNCHANGED <<view, stale>>
      BY <2>1 DEF pages
    <3>2. \A s : \A d \in Controllable : Leads(s, p, d) => Leads(s, p, d)'
      BY <1>7
    <3>3. QED BY <3>1, <3>2 DEF ViewInv, Shown
  <2>3. p \in subs' /\ GotInv(p) => GotInv(p)'
    <3> SUFFICES ASSUME p \in subs', GotInv(p) PROVE GotInv(p)'
      OBVIOUS
    <3>1. UNCHANGED <<got, reload, overtaken>>
      BY <2>1 DEF asking
    <3>2. \A s : \A d \in Controllable : Leads(s, p, d) => Leads(s, p, d)'
      BY <1>7
    <3>3. \A d \in Controllable : cache'[d] = None => cache[d] = None
      BY <1>3, <1>4
    <3>4. QED BY <3>1, <3>2, <3>3 DEF GotInv
  <2>4. p \in subs' => QueueInv(p)'
    BY <1>7
  <2>5. QED BY <2>1, <2>2, <2>3, <2>4 DEF PageInv, pages, asking
<1>9. QED BY <1>2, <1>6, <1>8 DEF EventsInv

LEMMA ListenerKeepsEvents ==
    ASSUME EventsInv, Listening \/ Refuse
    PROVE  EventsInv'
<1>1. CASE Connect \/ AuthRequired \/ AuthOk \/ Subscribed \/ Reconnect \/ Refuse
  <2>1. UNCHANGED <<outside, wire, cache, subs, queued, pages, asking>>
    BY <1>1 DEF Connect, AuthRequired, AuthOk, Subscribed, Reconnect, Refuse, Advance
  <2>2. EventsTypeOK'
    BY ListenerKeepsTypes DEF EventsInv
  <2>3. UNCHANGED behind /\ \A p : pageOf(p)' = pageOf(p) /\ subs' = subs
    BY <2>1 DEF behind, pageOf, outside, pages, asking
  <2>4. SourceInv'
    BY <2>3 DEF EventsInv, SourceInv, Source, Told, behind
  <2>5. \A p \in Pages : PageInv(p)'
    BY <2>3, PageStays DEF EventsInv
  <2>6. QED BY <2>2, <2>4, <2>5 DEF EventsInv
<1>2. QED BY <1>1, SkipKeepsEvents, HandleKeepsEvents DEF Listening

\* What a page shows, or has been listed, after a step: each state leads where it must.
LEMMA ViewGiven ==
    ASSUME NEW p,
           \A d \in Controllable : view'[p][d] # None /\ d \notin stale'[p] =>
               \E s : s = view'[p][d] /\ Leads(s, p, d)'
    PROVE  ViewInv(p)'
BY DEF ViewInv, Shown

LEMMA GotGiven ==
    ASSUME NEW p,
           \A d \in Controllable :
               /\ got'[p][d] # None
               /\ \/ reload'[p] = "answered" /\ d \notin overtaken'[p]
                  \/ reload'[p] = "listed" /\ cache'[d] = None
               => \E s : s = got'[p][d] /\ Leads(s, p, d)'
    PROVE  GotInv(p)'
BY DEF GotInv

LEMMA LeadsStays ==
    ASSUME NEW p, UNCHANGED <<behind, queued>>
    PROVE  \A s, d : Leads(s, p, d) => Leads(s, p, d)'
BY DEF Leads, Told, behind

LEMMA ViewStays ==
    ASSUME NEW p, UNCHANGED <<behind, queued, view, stale>>, ViewInv(p)
    PROVE  ViewInv(p)'
<1>1. \A s, d : Leads(s, p, d) => Leads(s, p, d)'
  BY LeadsStays
<1>2. QED BY <1>1, ViewGiven DEF ViewInv, Shown

\* A page that delivers an event: what is behind it leads to the same.
LEMMA QueueRest ==
    ASSUME EventsTypeOK, NEW p \in Pages, queued[p] # <<>>, QueueInv(p), NEW e, e = Head(queued[p])
    PROVE  /\ e[1] \in Controllable /\ e[2] \in State /\ cache[e[1]] # None
           /\ \A d \in Controllable :
                 /\ About(queued[p], d) = {} => About(Tail(queued[p]), d) = {}
                 /\ cache[d] # None => After(cache[d], Tail(queued[p]), d) = cache[d]
           /\ \A s : \A d \in Controllable \ {e[1]} :
                 After(s, Tail(queued[p]), d) = After(s, queued[p], d)
           /\ After(e[2], Tail(queued[p]), e[1]) = cache[e[1]]
<1> DEFINE Event == Controllable \X State
           rest == Tail(queued[p])
<1>1. queued[p] \in Seq(Event) /\ e \in Event /\ e = queued[p][1] /\ 1 \in 1..Len(queued[p])
  BY DEF EventsTypeOK
<1>2. e[1] \in Controllable /\ e[2] \in State
  BY <1>1
<1>3. \A d : About(queued[p], d) = {} => About(rest, d) = {}
  <2> SUFFICES ASSUME NEW d, NEW i \in 1..Len(rest), rest[i][1] = d
               PROVE  About(queued[p], d) # {}
    BY DEF About
  <2>1. i + 1 \in 1..Len(queued[p]) /\ rest[i] = queued[p][i + 1]
    BY <1>1
  <2>2. i + 1 \in About(queued[p], d)
    BY <2>1 DEF About
  <2>3. QED BY <2>2
<1>4. cache[e[1]] # None
  <2>1. 1 \in About(queued[p], e[1])
    BY <1>1 DEF About
  <2>2. QED BY <1>2, <2>1 DEF QueueInv
<1> HIDE DEF Event
<1>5. \A s, d :
         After(s, queued[p], d) = IF e[1] = d THEN After(e[2], rest, d) ELSE After(s, rest, d)
  BY <1>1, AfterRest
<1>6. After(e[2], rest, e[1]) = cache[e[1]]
  BY <1>2, <1>4, <1>5 DEF QueueInv
<1>7. ASSUME NEW d \in Controllable, cache[d] # None
      PROVE  After(cache[d], rest, d) = cache[d]
  <2>1. CASE d # e[1]
    BY <1>5, <1>7, <2>1 DEF QueueInv
  <2>2. CASE d = e[1] /\ About(rest, d) = {}
    BY <2>2, AfterNone
  <2>3. CASE d = e[1] /\ About(rest, d) # {}
    BY <1>6, <2>3, AfterAny
  <2>4. QED BY <2>1, <2>2, <2>3
<1>8. \A s : \A d \in Controllable \ {e[1]} : After(s, rest, d) = After(s, queued[p], d)
  BY <1>5
<1>9. QED BY <1>2, <1>3, <1>4, <1>6, <1>7, <1>8

LEMMA DeliverKeepsPage ==
    ASSUME EventsInv, NEW p \in Pages, Deliver(p)
    PROVE  PageInv(p)'
<1>3. PICK e : e = Head(queued[p])
  OBVIOUS
<1>1. /\ stream[p] = "live" /\ queued[p] # <<>>
      /\ queued' = [queued EXCEPT ![p] = Tail(@)]
      /\ view' = [view EXCEPT ![p][e[1]] = IF @ = None THEN @ ELSE e[2]]
      /\ overtaken' = [overtaken EXCEPT ![p] =
            IF reload[p] = "answered" THEN @ \cup {e[1]} ELSE @]
      /\ stale' = [stale EXCEPT ![p] = @ \ {e[1]}]
      /\ UNCHANGED <<behind, subs, stream, reload, got>>
  BY <1>3 DEF Deliver, outside, listener, behind
<1>2. /\ queued \in [Pages -> Seq(Controllable \X State)]
      /\ view \in [Pages -> [Devices -> Seen]] /\ Controllable \subseteq Devices
      /\ overtaken \in [Pages -> SUBSET Devices] /\ stale \in [Pages -> SUBSET Devices]
      /\ PageInv(p) /\ EventsTypeOK
  BY DeviceAssumption DEF EventsInv, EventsTypeOK
<1>4. SUFFICES ASSUME p \in subs PROVE PageInv(p)'
  BY <1>1, <1>2 DEF PageInv
<1>5. QueueInv(p) /\ ViewInv(p) /\ GotInv(p)
  BY <1>1, <1>2, <1>4 DEF PageInv
<1>6. queued'[p] = Tail(queued[p])
  BY <1>1, <1>2
<1>7. /\ e[1] \in Controllable /\ e[2] \in State /\ cache[e[1]] # None
      /\ \A d \in Controllable :
            /\ About(queued[p], d) = {} => About(queued'[p], d) = {}
            /\ cache[d] # None => After(cache[d], queued'[p], d) = cache[d]
      /\ \A s : \A d \in Controllable \ {e[1]} : After(s, queued'[p], d) = After(s, queued[p], d)
      /\ After(e[2], queued'[p], e[1]) = cache[e[1]]
  <2>1. \A x : x = Head(queued[p]) =>
           /\ x[1] \in Controllable /\ x[2] \in State /\ cache[x[1]] # None
           /\ \A d \in Controllable :
                 /\ About(queued[p], d) = {} => About(Tail(queued[p]), d) = {}
                 /\ cache[d] # None => After(cache[d], Tail(queued[p]), d) = cache[d]
           /\ \A s : \A d \in Controllable \ {x[1]} :
                 After(s, Tail(queued[p]), d) = After(s, queued[p], d)
           /\ After(x[2], Tail(queued[p]), x[1]) = cache[x[1]]
    BY <1>1, <1>2, <1>5, QueueRest
  <2>2. QED BY <1>3, <1>6, <2>1
<1>8. QueueInv(p)'
  BY <1>1, <1>5, <1>7 DEF QueueInv, behind
<1>9. \A s : \A d \in Controllable \ {e[1]} : Leads(s, p, d) => Leads(s, p, d)'
  BY <1>1, <1>7 DEF Leads, Told, behind
<1>10. Leads(e[2], p, e[1])'
  BY <1>1, <1>7 DEF Leads, behind
<1>11. ViewInv(p)'
  <2> SUFFICES ASSUME NEW d \in Controllable, view'[p][d] # None, d \notin stale'[p]
               PROVE  \E s : s = view'[p][d] /\ Leads(s, p, d)'
    BY ViewGiven
  <2>1. CASE d = e[1]
    <3>1. view'[p][d] = e[2]
      BY <1>1, <1>2, <2>1
    <3>2. QED BY <1>10, <2>1, <3>1
  <2>2. CASE d # e[1]
    <3>1. view'[p][d] = view[p][d] /\ d \notin stale[p]
      BY <1>1, <1>2, <2>2
    <3>2. Leads(view[p][d], p, d)
      BY <1>5, <3>1 DEF ViewInv, Shown
    <3>3. \A s : Leads(s, p, d) => Leads(s, p, d)'
      BY <1>9, <2>2
    <3>4. QED BY <3>1, <3>2, <3>3
  <2>3. QED BY <2>1, <2>2
<1>12. GotInv(p)'
  <2>1. \A d \in Controllable : cache[d] = None => d # e[1]
    BY <1>7
  <2>2. \A d \in Controllable : reload[p] = "answered" /\ d \notin overtaken'[p] =>
           d # e[1] /\ d \notin overtaken[p]
    BY <1>1, <1>2
  <2>3. UNCHANGED <<reload, got, cache>>
    BY <1>1 DEF behind
  <2>4. \A d \in Controllable :
           /\ got'[p][d] # None
           /\ \/ reload'[p] = "answered" /\ d \notin overtaken'[p]
              \/ reload'[p] = "listed" /\ cache'[d] = None
           => d \in Controllable \ {e[1]} /\ Leads(got[p][d], p, d) /\ got'[p][d] = got[p][d]
    BY <1>5, <2>1, <2>2, <2>3 DEF GotInv
  <2>5. QED BY <1>9, <2>4, GotGiven
<1>13. QED BY <1>1, <1>8, <1>11, <1>12 DEF PageInv

LEMMA PageKeepsOwn ==
    ASSUME EventsInv, NEW p \in Pages, PageStep(p)
    PROVE  PageInv(p)'
<1>0. /\ PageInv(p) /\ EventsTypeOK /\ SourceInv /\ Controllable \subseteq Devices
      /\ \A f \in {stream, queued, view, stale, reload, got, overtaken} : p \in DOMAIN f
      /\ Listed = [d \in Devices |-> IF d \in Controllable /\ home[d] # Gone
                                     THEN home[d] ELSE None]
      /\ \A list : Overlaid(list) =
            [d \in Devices |-> IF list[d] # None /\ cache[d] # None THEN cache[d] ELSE list[d]]
  BY DeviceAssumption DEF EventsInv, EventsTypeOK, Listed, Overlaid
<1>1. CASE Subscribe(p)
  <2>1. queued'[p] = <<>> /\ view'[p] = view[p] /\ reload'[p] = reload[p]
        /\ stream[p] = "closed" /\ stream'[p] = "opened"
    BY <1>0, <1>1 DEF Subscribe, asking
  <2>2. \A d : About(<<>>, d) = {}
    BY DEF About
  <2>3. \A s, d : After(s, <<>>, d) = s
    BY <2>2, AfterNone
  <2>4. QED BY <1>0, <2>1, <2>2, <2>3 DEF PageInv, QueueInv
<1>2. CASE Close(p)
  BY <1>0, <1>2 DEF Close, PageInv
<1>3. CASE Abandon(p)
  BY <1>0, <1>3 DEF Abandon, PageInv, QueueInv, asking
<1>4. CASE Snapshot(p)
  <2>1. /\ stream[p] = "opened" /\ view'[p] = Overlaid(Listed) /\ reload[p] = "none"
        /\ UNCHANGED <<behind, subs, queued, asking>>
    BY <1>0, <1>4 DEF Snapshot, PageInv, outside, listener, behind
  <2>2. p \in subs => QueueInv(p) /\ QueueInv(p)'
    BY <1>0, <2>1 DEF PageInv, QueueInv, behind
  <2>3. ASSUME p \in subs PROVE ViewInv(p)'
    <3> SUFFICES ASSUME NEW d \in Controllable, view'[p][d] # None
                 PROVE  \E s : s = view'[p][d] /\ Leads(s, p, d)'
      BY ViewGiven
    <3>1. d \in Devices /\ home[d] # Gone /\ view'[p][d] = Source(d)
      BY <1>0, <2>1 DEF Source
    <3>2. Leads(Source(d), p, d)
      BY <1>0, <2>2, <2>3 DEF Leads, Source, SourceInv, QueueInv
    <3>3. QED BY <2>1, <3>1, <3>2, LeadsStays
  <2>4. GotInv(p)'
    BY <2>1 DEF GotInv, asking
  <2>5. QED BY <1>0, <1>4, <2>1, <2>2, <2>3, <2>4 DEF Snapshot, PageInv
<1>5. CASE SnapshotError(p)
  <2>1. stream[p] = "opened" /\ view[p] = Nothing /\ reload[p] = "none" /\ stream'[p] = "live"
        /\ UNCHANGED <<behind, subs, queued, view, asking>>
    BY <1>0, <1>5 DEF SnapshotError, PageInv, outside, listener, behind
  <2>2. Shown(p)' = {}
    BY <1>0, <2>1 DEF Shown, Nothing
  <2>3. ViewInv(p)' /\ GotInv(p)'
    BY <2>1, <2>2 DEF ViewInv, GotInv, asking
  <2>4. p \in subs' => QueueInv(p)'
    BY <1>0, <2>1 DEF PageInv, QueueInv, behind
  <2>5. QED BY <2>1, <2>3, <2>4 DEF PageInv
<1>6. CASE AskList(p)
  <2>1. /\ stream[p] = "live" /\ reload'[p] = "listed" /\ got'[p] = Listed
        /\ UNCHANGED <<behind, subs, queued, pages>>
    BY <1>0, <1>6 DEF AskList, outside, listener, behind
  <2>2. p \in subs => QueueInv(p)'
    BY <1>0, <2>1 DEF PageInv, QueueInv, behind
  <2>3. p \in subs => ViewInv(p)'
    BY <1>0, <2>1, ViewStays DEF PageInv, pages
  <2>4. GotInv(p)'
    <3> SUFFICES ASSUME NEW d \in Controllable, got'[p][d] # None, cache[d] = None
                 PROVE  \E s : s = got'[p][d] /\ Leads(s, p, d)'
      BY <2>1, GotGiven DEF behind
    <3>1. d \in Devices /\ home[d] # Gone /\ got'[p][d] = Source(d)
      BY <1>0, <2>1 DEF Source
    <3>2. Leads(Source(d), p, d)
      BY <1>0 DEF Leads, Source, SourceInv
    <3>3. QED BY <2>1, <3>1, <3>2, LeadsStays
  <2>5. QED BY <2>1, <2>2, <2>3, <2>4 DEF PageInv, pages
<1>7. CASE Answer(p)
  <2>1. /\ reload[p] = "listed" /\ reload'[p] = "answered" /\ got'[p] = Overlaid(got[p])
        /\ UNCHANGED <<behind, subs, queued, pages, overtaken>> /\ stream[p] = "live"
    BY <1>0, <1>7 DEF Answer, PageInv, outside, listener, behind
  <2>2. p \in subs => QueueInv(p)'
    BY <1>0, <2>1 DEF PageInv, QueueInv, behind
  <2>3. p \in subs => ViewInv(p)'
    BY <1>0, <2>1, ViewStays DEF PageInv, pages
  <2>4. ASSUME p \in subs PROVE GotInv(p)'
    <3> SUFFICES ASSUME NEW d \in Controllable, got'[p][d] # None
                 PROVE  \E s : s = got'[p][d] /\ Leads(s, p, d)'
      BY GotGiven
    <3>1. d \in Devices /\ got[p][d] # None /\ QueueInv(p) /\ GotInv(p)
      BY <1>0, <2>1, <2>4 DEF PageInv
    <3>2. CASE cache[d] # None
      <4>1. got'[p][d] = cache[d]
        BY <1>0, <2>1, <3>1, <3>2
      <4>2. Leads(cache[d], p, d)
        BY <3>1, <3>2 DEF Leads, QueueInv
      <4>3. QED BY <2>1, <4>1, <4>2, LeadsStays
    <3>3. CASE cache[d] = None
      <4>1. got'[p][d] = got[p][d]
        BY <1>0, <2>1, <3>1, <3>3
      <4>2. Leads(got[p][d], p, d)
        BY <2>1, <3>1, <3>3 DEF GotInv
      <4>3. QED BY <2>1, <4>1, <4>2, LeadsStays
    <3>4. QED BY <3>2, <3>3
  <2>5. QED BY <2>1, <2>2, <2>3, <2>4 DEF PageInv, pages
<1>8. CASE Arrive(p)
  <2>1. /\ reload[p] = "answered" /\ reload'[p] = "none" /\ view'[p] = got[p]
        /\ stale'[p] = overtaken[p] /\ UNCHANGED <<behind, subs, queued, stream>>
        /\ stream[p] = "live"
    BY <1>0, <1>8 DEF Arrive, PageInv, outside, listener, behind
  <2>2. p \in subs => QueueInv(p)'
    BY <1>0, <2>1 DEF PageInv, QueueInv, behind
  <2>3. p \in subs => ViewInv(p)'
    <3> SUFFICES ASSUME p \in subs, NEW d \in Controllable, got[p][d] # None, d \notin overtaken[p]
                 PROVE  \E s : s = got[p][d] /\ Leads(s, p, d)'
      BY <2>1, ViewGiven
    <3>1. Leads(got[p][d], p, d)
      BY <1>0, <2>1 DEF PageInv, GotInv
    <3>2. QED BY <2>1, <3>1, LeadsStays
  <2>4. GotInv(p)'
    BY <2>1 DEF GotInv
  <2>5. QED BY <2>1, <2>2, <2>3, <2>4 DEF PageInv
<1>9. QED
  BY <1>1, <1>2, <1>3, <1>4, <1>5, <1>6, <1>7, <1>8, DeliverKeepsPage DEF PageStep, Serving

LEMMA PageKeepsEvents ==
    ASSUME EventsInv, NEW p \in Pages, PageStep(p)
    PROVE  EventsInv'
<1>1. UNCHANGED behind
  BY DEF PageStep, Serving, Subscribe, Snapshot, SnapshotError, Deliver, Close, Abandon, AskList,
     Answer, Arrive, behind, outside, listener
<1>2. EventsTypeOK /\ EventsTypeOK'
  BY PageKeepsTypes DEF EventsInv
<1>3. SourceInv'
  BY <1>1 DEF EventsInv, SourceInv, Source, Told, behind
<1>4. ASSUME NEW q \in Pages \ {p} PROVE PageInv(q)'
  <2>1. pageOf(q)' = pageOf(q) /\ (q \in subs' => q \in subs)
    <3>1. /\ \A f \in {stream, queued, view, stale, reload, got, overtaken} : DOMAIN f = Pages
      BY <1>2 DEF EventsTypeOK
    <3>2. CASE Subscribe(p)
      BY <1>4, <3>1, <3>2 DEF Subscribe, asking, pageOf
    <3>3. CASE Close(p)
      BY <1>4, <3>1, <3>3 DEF Close, pageOf
    <3>4. CASE Snapshot(p) \/ SnapshotError(p) \/ Abandon(p)
      BY <1>4, <3>1, <3>4 DEF Snapshot, SnapshotError, Abandon, asking, pageOf
    <3>5. CASE Deliver(p)
      BY <1>4, <3>1, <3>5 DEF Deliver, pageOf
    <3>6. CASE AskList(p) \/ Answer(p) \/ Arrive(p)
      BY <1>4, <3>1, <3>6 DEF AskList, Answer, Arrive, pages, pageOf
    <3>7. QED BY <3>2, <3>3, <3>4, <3>5, <3>6 DEF PageStep, Serving
  <2>2. PageInv(q)
    BY DEF EventsInv
  <2>3. QED BY <1>1, <2>1, <2>2, PageStays
<1>5. PageInv(p)'
  BY PageKeepsOwn
<1>6. QED BY <1>2, <1>3, <1>4, <1>5 DEF EventsInv

LEMMA EventsAreInductive == EventsInv /\ [EventsNext]_eventVars => EventsInv'
<1> SUFFICES ASSUME EventsInv, [EventsNext]_eventVars PROVE EventsInv'
  OBVIOUS
<1>1. CASE UNCHANGED eventVars
  <2>1. EventsTypeOK'
    BY EventTypesAreInductive DEF EventsInv
  <2>2. UNCHANGED behind /\ subs' = subs /\ \A p : pageOf(p)' = pageOf(p)
    BY <1>1 DEF eventVars, outside, listener, pages, asking, behind, pageOf
  <2>3. SourceInv'
    BY <2>2 DEF EventsInv, SourceInv, Source, Told, behind
  <2>4. \A p \in Pages : PageInv(p)'
    BY <2>2, PageStays DEF EventsInv
  <2>5. QED BY <2>1, <2>3, <2>4 DEF EventsInv
<1>2. QED
  BY <1>1, HomeKeepsEvents, ListenerKeepsEvents, PageKeepsEvents DEF EventsNext, PageStep

\* What a subscribed page shows of a device, followed by the events in its queue and on the
\* wire, is the home's own state, however connections, queues, snapshots and lists interleave,
\* but for changes that no event told and answers that newer events had overtaken
\* (main.py:93-109, 602-651, home_assistant.py:217-275).
THEOREM PagesDoCatchUp == EventsSpec => []PagesCatchUp
<1>1. EventsInit => EventsInv
  <2> SUFFICES ASSUME EventsInit PROVE EventsInv
    OBVIOUS
  <2>1. \A s, d : After(s, <<>>, d) = s
    <3>1. \A d : About(<<>>, d) = {}
      BY DEF About
    <3>2. QED BY <3>1, AfterNone
  <2>2. SourceInv
    BY <2>1, DeviceAssumption DEF EventsInit, SourceInv, Source, Nothing
  <2>3. \A p \in Pages : PageInv(p)
    BY DEF EventsInit, PageInv
  <2>4. QED BY <2>2, <2>3, EventTypesStart DEF EventsInv
<1>2. EventsInv => PagesCatchUp
  <2> SUFFICES ASSUME EventsInv, NEW p \in subs, stream[p] = "live",
                      NEW d \in Shown(p) \ (stale[p] \cup missed), home[d] # Gone
               PROVE  After(view[p][d], queued[p] \o wire, d) = home[d]
    BY DEF PagesCatchUp
  <2> DEFINE Event == Devices \X (State \cup {Gone})
  <2>1. p \in Pages /\ queued[p] \in Seq(Event) /\ wire \in Seq(Event)
    <3>1. Controllable \X State \subseteq Event
      BY DeviceAssumption
    <3>2. p \in Pages /\ queued[p] \in Seq(Controllable \X State) /\ wire \in Seq(Event)
      BY DEF EventsInv, EventsTypeOK
    <3> HIDE DEF Event
    <3>3. QED BY <3>1, <3>2
  <2>2. /\ d \in Controllable /\ Told(d) /\ QueueInv(p) /\ Leads(view[p][d], p, d)
        /\ After(Source(d), wire, d) = home[d]
    BY <2>1 DEF EventsInv, PageInv, ViewInv, Shown, SourceInv, Told
  <2> HIDE DEF Event
  <2>3. After(view[p][d], queued[p] \o wire, d) = After(After(view[p][d], queued[p], d), wire, d)
    BY <2>1, AfterConcat
  <2>4. CASE cache[d] # None
    BY <2>2, <2>3, <2>4 DEF Leads, Source
  <2>5. CASE cache[d] = None
    BY <2>2, <2>3, <2>5, AfterNone DEF Leads, QueueInv
  <2>6. QED BY <2>4, <2>5
<1>3. QED
  BY <1>1, <1>2, EventsAreInductive, PTL DEF EventsSpec
=============================================================================
