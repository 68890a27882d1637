----------------------------- MODULE ChatStream -----------------------------
(***************************************************************************)
(* The stream of a chat: POST /chat of main.py over deerflow_to_sse of     *)
(* domestic_oracle/stream.py.  A pump on a thread of the event loop's pool *)
(* drains the agent's blocking generator and hands every frame to the loop *)
(* through a bounded queue; the reader, a coroutine on the loop, sends     *)
(* them to the page.  The page may close the connection at any time, which *)
(* cancels the reader and nobody else.                                     *)
(* Abstracted: the frames of a chat are numbered as the agent produces     *)
(* them; Texts says which are text and which are approval cards.           *)
(***************************************************************************)
EXTENDS Integers, Sequences, FiniteSets

CONSTANTS
    Chats,      \* calls of POST /chat
    Impatient,  \* those whose page may go away
    PoolSize,   \* threads of the loop's default executor
    Capacity,   \* maxsize of the queue, 64 in the code
    MaxEvent,   \* frames that one event is translated to, at most
    Texts,      \* the numbers of the text frames
    MaxFrames   \* bound: [Chats -> Nat], frames of a chat

ASSUME ChatAssumption ==
    /\ Impatient \subseteq Chats
    /\ {PoolSize, Capacity, MaxEvent} \subseteq Nat \ {0}
    /\ Texts \subseteq Nat \ {0}
    /\ MaxFrames \in [Chats -> Nat]

VARIABLES
    pump,      \* where the thread of each chat is
    produced,  \* number of frames the agent has produced
    scheduled, \* number of frames whose put has been handed to the loop
    puts,      \* puts the loop has not finished
    queue,     \* the queue
    raised,    \* has the agent raised an error?
    reader,    \* where the reader of each chat is
    sent,      \* the frames sent to the page
    parts,     \* full_reply_parts, without the apology
    recorded   \* has a reply gone to the history?

pumping == <<pump, produced, scheduled, raised>>
reading == <<reader, sent, parts, recorded>>
vars == <<pumping, puts, queue, reading>>

End == 0     \* _SENTINEL
Frames == Nat \ {0}

PumpStates == {"none", "waiting", "running", "finally", "closing", "ended"}
OnThread == {"running", "finally", "closing"}
ReaderStates == {"none", "opening", "reading", "joining", "failed", "done", "broken", "left"}

TypeOK ==
    /\ pump \in [Chats -> PumpStates]
    /\ produced \in [Chats -> Nat] /\ scheduled \in [Chats -> Nat]
    /\ puts \in [Chats -> SUBSET (Frames \cup {End})]
    /\ queue \in [Chats -> Seq(Frames \cup {End})]
    /\ raised \in [Chats -> BOOLEAN]
    /\ reader \in [Chats -> ReaderStates]
    /\ sent \in [Chats -> Seq(Frames)]
    /\ parts \in [Chats -> SUBSET Frames]
    /\ recorded \in [Chats -> BOOLEAN]

Init ==
    /\ pump = [c \in Chats |-> "none"]
    /\ produced = [c \in Chats |-> 0] /\ scheduled = [c \in Chats |-> 0]
    /\ puts = [c \in Chats |-> {}] /\ queue = [c \in Chats |-> <<>>]
    /\ raised = [c \in Chats |-> FALSE]
    /\ reader = [c \in Chats |-> "none"]
    /\ sent = [c \in Chats |-> <<>>] /\ parts = [c \in Chats |-> {}]
    /\ recorded = [c \in Chats |-> FALSE]

----------------------------------------------------------------------------
(* The route and the reader, on the loop *)

ReaderMoves(c, from, to) ==
    /\ reader[c] = from
    /\ reader' = [reader EXCEPT ![c] = to]

\* The question is in the history; the page waits for the stream.
Ask(c) ==
    /\ ReaderMoves(c, "none", "opening")
    /\ UNCHANGED <<pumping, puts, queue, sent, parts, recorded>>

\* The pump is submitted to the pool.
Open(c) ==
    /\ ReaderMoves(c, "opening", "reading")
    /\ pump' = [pump EXCEPT ![c] = "waiting"]
    /\ UNCHANGED <<produced, scheduled, raised, puts, queue, sent, parts, recorded>>

\* get_client raises, outside the try: the stream breaks off.
OpenFails(c) ==
    /\ ReaderMoves(c, "opening", "broken")
    /\ UNCHANGED <<pumping, puts, queue, sent, parts, recorded>>

FrameArrives(c) == queue[c] # <<>> /\ Head(queue[c]) # End

\* A frame is sent as it arrives and, if it is text, kept for the history.
GetFrame(c) ==
    /\ reader[c] = "reading" /\ FrameArrives(c)
    /\ queue' = [queue EXCEPT ![c] = Tail(@)]
    /\ sent' = [sent EXCEPT ![c] = Append(@, Head(queue[c]))]
    /\ parts' = [parts EXCEPT ![c] = @ \cup ({Head(queue[c])} \cap Texts)]
    /\ UNCHANGED <<pumping, puts, reader, recorded>>

GetSentinel(c) ==
    /\ queue[c] # <<>> /\ Head(queue[c]) = End
    /\ ReaderMoves(c, "reading", "joining")
    /\ queue' = [queue EXCEPT ![c] = Tail(@)]
    /\ UNCHANGED <<pumping, puts, sent, parts, recorded>>

\* The parts and the apology, joined, go to the history unless that is empty.
Record(c) ==
    recorded' = [recorded EXCEPT ![c] = parts[c] # {} \/ raised[c]]

\* Mutant: nobody waits for the pump, and its exception is lost.
JoinNothing(c) ==
    /\ ReaderMoves(c, "joining", "done")
    /\ recorded' = [recorded EXCEPT ![c] = parts[c] # {}]
    /\ UNCHANGED <<pumping, puts, queue, sent, parts>>

\* The reader waits for the thread: the reply is complete.
Join(c) ==
    /\ pump[c] = "ended" /\ ~raised[c]
    /\ ReaderMoves(c, "joining", "done")
    /\ Record(c)
    /\ UNCHANGED <<pumping, puts, queue, sent, parts>>

\* What the pump raised comes out of the join, and an apology is sent.
JoinRaises(c) ==
    /\ pump[c] = "ended" /\ raised[c]
    /\ ReaderMoves(c, "joining", "failed")
    /\ UNCHANGED <<pumping, puts, queue, sent, parts, recorded>>

Apologised(c) ==
    /\ ReaderMoves(c, "failed", "done")
    /\ Record(c)
    /\ UNCHANGED <<pumping, puts, queue, sent, parts>>

\* The page closes the connection: the reader is cancelled wherever it waits.
Leave(c) ==
    /\ c \in Impatient
    /\ \E from \in {"opening", "reading", "joining", "failed"} : ReaderMoves(c, from, "left")
    /\ UNCHANGED <<pumping, puts, queue, sent, parts, recorded>>

ReaderStep(c) ==
    \/ Open(c) \/ OpenFails(c)
    \/ GetFrame(c) \/ GetSentinel(c)
    \/ Join(c) \/ JoinRaises(c) \/ Apologised(c)

----------------------------------------------------------------------------
(* The pump, on its thread, and the puts it leaves to the loop *)

\* Mutant: the pump does not wait for the result of a put.
ReturnedAtOnce(c) == TRUE

\* run_coroutine_threadsafe(...).result() blocks the thread until the put is done.
Returned(c) == puts[c] = {}

PumpMoves(c, from, to) ==
    /\ pump[c] = from
    /\ pump' = [pump EXCEPT ![c] = to]

Busy == {c \in Chats : pump[c] \in OnThread}

\* A thread of the pool becomes free for the pump.
StartPump(c) ==
    /\ Cardinality(Busy) < PoolSize
    /\ PumpMoves(c, "waiting", "running")
    /\ UNCHANGED <<produced, scheduled, raised, puts, queue, reading>>

\* The agent yields an event, which is translated to some frames.
NextEvent(c) ==
    /\ pump[c] = "running" /\ scheduled[c] = produced[c] /\ Returned(c)
    /\ \E n \in 1..MaxEvent :
          /\ produced[c] + n <= MaxFrames[c]
          /\ produced' = [produced EXCEPT ![c] = @ + n]
    /\ UNCHANGED <<pump, scheduled, raised, puts, queue, reading>>

\* Its next frame is handed to the loop.
PutFrame(c) ==
    /\ pump[c] = "running" /\ scheduled[c] < produced[c] /\ Returned(c)
    /\ scheduled' = [scheduled EXCEPT ![c] = @ + 1]
    /\ puts' = [puts EXCEPT ![c] = @ \cup {scheduled[c] + 1}]
    /\ UNCHANGED <<pump, produced, raised, queue, reading>>

\* The agent has nothing more to say, or raises.
SourceEnds(c) ==
    /\ scheduled[c] = produced[c] /\ Returned(c)
    /\ PumpMoves(c, "running", "finally")
    /\ \E e \in BOOLEAN : raised' = [raised EXCEPT ![c] = e]
    /\ UNCHANGED <<produced, scheduled, puts, queue, reading>>

\* Mutant: no finally, so an error of the agent leaves the queue without its end.
PutSentinelIfEnded(c) ==
    /\ PumpMoves(c, "finally", "closing")
    /\ puts' = [puts EXCEPT ![c] = IF raised[c] THEN @ ELSE @ \cup {End}]
    /\ UNCHANGED <<produced, scheduled, raised, queue, reading>>

\* The finally clause puts the end marker.
PutSentinel(c) ==
    /\ PumpMoves(c, "finally", "closing")
    /\ puts' = [puts EXCEPT ![c] = @ \cup {End}]
    /\ UNCHANGED <<produced, scheduled, raised, queue, reading>>

\* The thread goes back to the pool.
EndPump(c) ==
    /\ Returned(c)
    /\ PumpMoves(c, "closing", "ended")
    /\ UNCHANGED <<produced, scheduled, raised, puts, queue, reading>>

PumpStep(c) ==
    \/ StartPump(c)
    \/ NextEvent(c) \/ SourceEnds(c)
    \/ PutFrame(c) \/ PutSentinel(c)
    \/ EndPump(c)

Room(c) == Len(queue[c]) < Capacity

\* The loop finishes a put when there is room; of several any may be the next.
FinishPut(c) ==
    /\ Room(c)
    /\ \E f \in puts[c] :
          /\ puts' = [puts EXCEPT ![c] = @ \ {f}]
          /\ queue' = [queue EXCEPT ![c] = Append(@, f)]
    /\ UNCHANGED <<pumping, reading>>

----------------------------------------------------------------------------
(* The specification *)

\* What the loop does for a chat.
LoopStep(c) == ReaderStep(c) \/ FinishPut(c)

Next == \E c \in Chats : Ask(c) \/ Leave(c) \/ LoopStep(c) \/ PumpStep(c)

Spec == Init /\ [][Next]_vars

\* The loop turns, a thread that runs goes on, the agent's stream ends, and a pump that
\* waits for a thread gets one that keeps becoming free; nobody has to ask or to leave.
FairSpec ==
    /\ Spec
    /\ \A c \in Chats : WF_vars(LoopStep(c)) /\ SF_vars(PumpStep(c))

----------------------------------------------------------------------------
(* Properties *)

\* The page sees the frames in the order in which the agent produced them, without a
\* gap or a repetition, although three parties pass them on (stream.py:41-57).
SentInOrder ==
    \A c \in Chats : \A i \in 1..Len(sent[c]) : sent[c][i] = i

\* A stream that is over has sent everything, has apologised exactly when the agent
\* raised, and its reply in the history is the text that was sent; a chat whose page
\* has gone leaves no reply (stream.py:46-57, main.py:336-353).
DoneIsComplete ==
    \A c \in Chats :
        /\ reader[c] = "done" =>
              /\ pump[c] = "ended" /\ Len(sent[c]) = produced[c]
              /\ parts[c] = Texts \cap 1..produced[c]
              /\ recorded[c] <=> (parts[c] # {} \/ raised[c])
        /\ recorded[c] => reader[c] = "done"

\* The page sees what the agent said: in its order while it is sent, whole when it is over
\* (stream.py:41-57, main.py:336-353).
PageSeesTheReply == SentInOrder /\ DoneIsComplete

\* The agent is ahead of the page by one event and a full queue at most, whether or not
\* the page reads or is still there (stream.py:35-36).
Backpressure ==
    \A c \in Chats : produced[c] <= Len(sent[c]) + Capacity + MaxEvent

\* When fewer pages may go away than the pool has threads, every chat whose page stays
\* comes to its end (stream.py:15-23).
ChatsEnd ==
    \A c \in Chats \ Impatient : reader[c] # "none" ~> reader[c] \in {"done", "broken"}
=============================================================================
