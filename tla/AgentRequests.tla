---------------------------- MODULE AgentRequests ----------------------------
(***************************************************************************)
(* Signed requests of external agents: consent.verify_agent_request, with  *)
(* the freshness window and the nonce table of backend/crypto.py, as POST  *)
(* /agent/act calls it.  An agent signs a request with its own clock; the  *)
(* network delivers it late, more than once or with other contents; the    *)
(* calls run on threads of any processes, which share the database.        *)
(* The clock is read twice, for the freshness and for the nonce, and goes  *)
(* on in between and after.  Abstracted: the request's contents, and the signature   *)
(* itself: a delivery is genuine or not.                                   *)
(***************************************************************************)
EXTENDS Integers

CONSTANTS
    Agents,     \* external agents
    Messages,   \* signed requests
    Nonces,     \* the nonces they carry
    SenderOf,   \* [Messages -> Agents]
    NonceOf,    \* [Messages -> Nonces]
    Calls,      \* threads that serve POST /agent/act
    TTL,        \* REQUEST_TTL_SECONDS
    MaxSkew,    \* how far an agent's clock is ahead at most
    MaxDelay,   \* how long a call takes from its first reading of the clock to its end
    Failures,   \* BOOLEAN: may the database raise, or a process die?
    MaxTime     \* bound: the time

ASSUME RequestAssumption ==
    /\ SenderOf \in [Messages -> Agents]
    /\ NonceOf \in [Messages -> Nonces]
    /\ TTL \in Nat \ {0}
    /\ {MaxSkew, MaxDelay, MaxTime} \subseteq Nat
    /\ Failures \in BOOLEAN

VARIABLES
    now,       \* the server's clock
    status,    \* agents table: "absent", "active" or "revoked"
    stamp,     \* ts of each message
    sent,      \* the messages that have been signed
    remembered,\* the nonces in the table
    expires,   \* their expires_at
    pc,        \* where each call is
    msg,       \* the message it has received
    genuine,   \* does its signature verify?
    readAt,    \* when it has read the clock for the freshness,
    rereadAt,  \* and when for the nonce
    accepted,  \* history: the messages that have been accepted,
    first,     \* when each was accepted first, as that call has read the clock,
    last       \* and when last

nonces == <<remembered, expires>>
network == <<stamp, sent>>
calls == <<pc, msg, genuine, readAt, rereadAt>>
history == <<accepted, first, last>>
vars == <<now, status, network, nonces, calls, history>>

Times == 0..MaxTime
PCs == {"idle", "agent", "fresh", "signature", "clock", "insert"}
Timed == {"signature", "clock", "insert"}

TypeOK ==
    /\ now \in Times
    /\ status \in [Agents -> {"absent", "active", "revoked"}]
    /\ stamp \in [Messages -> Nat]
    /\ sent \subseteq Messages
    /\ remembered \subseteq Nonces
    /\ expires \in [Nonces -> Nat]
    /\ pc \in [Calls -> PCs]
    /\ msg \in [Calls -> Messages]
    /\ genuine \in [Calls -> BOOLEAN]
    /\ readAt \in [Calls -> Times]
    /\ rereadAt \in [Calls -> Times]
    /\ accepted \subseteq Messages
    /\ first \in [Messages -> Times]
    /\ last \in [Messages -> Times]

Init ==
    /\ now = 0
    /\ status = [a \in Agents |-> "absent"]
    /\ stamp = [m \in Messages |-> 0] /\ sent = {}
    /\ remembered = {} /\ expires = [n \in Nonces |-> 0]
    /\ pc = [c \in Calls |-> "idle"]
    /\ msg \in [Calls -> Messages]
    /\ genuine = [c \in Calls |-> FALSE]
    /\ readAt = [c \in Calls |-> 0] /\ rereadAt = [c \in Calls |-> 0]
    /\ accepted = {}
    /\ first = [m \in Messages |-> 0] /\ last = [m \in Messages |-> 0]

----------------------------------------------------------------------------
(* The owner, the agents and the network *)

\* consent.register_agent
Register(a) ==
    /\ status[a] = "absent"
    /\ status' = [status EXCEPT ![a] = "active"]
    /\ UNCHANGED <<now, network, nonces, calls, history>>

\* consent.set_agent_status: an UPDATE, which no absent row feels.
SetAgentStatus(a, st) ==
    /\ status[a] # "absent"
    /\ status' = [status EXCEPT ![a] = st]
    /\ UNCHANGED <<now, network, nonces, calls, history>>

\* A registered agent signs a request; its clock may be behind or ahead.
Sign(m) ==
    /\ m \notin sent /\ status[SenderOf[m]] # "absent"
    /\ \E t \in 0..(now + MaxSkew) : stamp' = [stamp EXCEPT ![m] = t]
    /\ sent' = sent \cup {m}
    /\ UNCHANGED <<now, status, nonces, calls, history>>

\* The network delivers it, any number of times, or something else in its place.
Receive(c, m) ==
    /\ pc[c] = "idle" /\ m \in sent
    /\ msg' = [msg EXCEPT ![c] = m]
    /\ \E g \in BOOLEAN : genuine' = [genuine EXCEPT ![c] = g]
    /\ pc' = [pc EXCEPT ![c] = "agent"]
    /\ UNCHANGED <<now, status, network, nonces, readAt, rereadAt, history>>

----------------------------------------------------------------------------
(* verify_agent_request *)

\* What a call has received and read is of no use when it is over.
End(c) ==
    /\ pc' = [pc EXCEPT ![c] = "idle"]
    /\ genuine' = [genuine EXCEPT ![c] = FALSE]
    /\ readAt' = [readAt EXCEPT ![c] = 0]
    /\ rereadAt' = [rereadAt EXCEPT ![c] = 0]
    /\ UNCHANGED msg

Proceed(c, to) ==
    /\ pc' = [pc EXCEPT ![c] = to]
    /\ UNCHANGED <<msg, genuine, rereadAt>>

\* The agent's row is read first: revoked agents are refused.
ReadAgent(c) ==
    /\ pc[c] = "agent"
    /\ \/ status[SenderOf[msg[c]]] = "active" /\ Proceed(c, "fresh") /\ UNCHANGED readAt
       \/ status[SenderOf[msg[c]]] # "active" /\ End(c)
    /\ UNCHANGED <<now, status, network, nonces, history>>

\* crypto.is_fresh: abs(now - ts) < TTL
IsFresh(t) == now < t + TTL /\ t < now + TTL

CheckFresh(c) ==
    /\ pc[c] = "fresh"
    /\ \/ /\ IsFresh(stamp[msg[c]])
          /\ Proceed(c, "signature")
          /\ readAt' = [readAt EXCEPT ![c] = now]
       \/ ~IsFresh(stamp[msg[c]]) /\ End(c)
    /\ UNCHANGED <<now, status, network, nonces, history>>

\* The signature is verified before the nonce is used up.
CheckSignature(c) ==
    /\ pc[c] = "signature"
    /\ \/ genuine[c] /\ Proceed(c, "clock") /\ UNCHANGED readAt
       \/ ~genuine[c] /\ End(c)
    /\ UNCHANGED <<now, status, network, nonces, history>>

\* Mutant: a nonce expires one unit too early.
RememberLess(n, t) == expires' = [expires EXCEPT ![n] = t + TTL - 1]

\* The nonce is remembered until its expiry.
Remember(n, t) == expires' = [expires EXCEPT ![n] = t + TTL]

NonceIn(c) == NonceOf[msg[c]]

Accept(m, t) ==
    /\ accepted' = accepted \cup {m}
    /\ first' = [first EXCEPT ![m] = IF m \in accepted THEN @ ELSE t]
    /\ last' = [last EXCEPT ![m] = t]

\* crypto.consume_nonce reads the clock before it opens the database.
ReadClock(c) ==
    /\ pc[c] = "clock"
    /\ pc' = [pc EXCEPT ![c] = "insert"]
    /\ rereadAt' = [rereadAt EXCEPT ![c] = now]
    /\ UNCHANGED <<now, status, network, nonces, msg, genuine, readAt, history>>

\* One transaction inserts the nonce, which fails when it is there, and prunes
\* those that had expired when the clock was read.
Consume(c) ==
    /\ pc[c] = "insert"
    /\ NonceIn(c) \notin remembered
    /\ Remember(NonceIn(c), rereadAt[c])
    /\ remembered' = {n \in remembered : expires[n] >= rereadAt[c]} \cup {NonceIn(c)}
    /\ IF genuine[c] THEN Accept(msg[c], rereadAt[c]) ELSE UNCHANGED history
    /\ End(c)
    /\ UNCHANGED <<now, status, network>>

\* The nonce is there, or the database raises.
Refuse(c) ==
    /\ pc[c] = "insert"
    /\ NonceIn(c) \in remembered \/ Failures
    /\ End(c)
    /\ UNCHANGED <<now, status, network, nonces, history>>

CallStep(c) ==
    \/ ReadAgent(c)
    \/ CheckFresh(c)
    \/ CheckSignature(c)
    \/ ReadClock(c)
    \/ Consume(c)
    \/ Refuse(c)

----------------------------------------------------------------------------
(* Time and restarts *)

\* Time goes on while calls run, but none of them takes longer than MaxDelay.
Tick ==
    /\ now < MaxTime
    /\ \A c \in Calls : pc[c] \in Timed => now < readAt[c] + MaxDelay
    /\ now' = now + 1
    /\ UNCHANGED <<status, network, nonces, calls, history>>

\* A process dies with some of the calls; the table of nonces stays.
Restart ==
    /\ Failures
    /\ \E dead \in SUBSET Calls :
          /\ pc' = [c \in Calls |-> IF c \in dead THEN "idle" ELSE pc[c]]
          /\ genuine' = [c \in Calls |-> genuine[c] /\ c \notin dead]
          /\ readAt' = [c \in Calls |-> IF c \in dead THEN 0 ELSE readAt[c]]
          /\ rereadAt' = [c \in Calls |-> IF c \in dead THEN 0 ELSE rereadAt[c]]
    /\ UNCHANGED <<now, status, network, nonces, msg, history>>

Next ==
    \/ \E a \in Agents : Register(a) \/ \E st \in {"active", "revoked"} : SetAgentStatus(a, st)
    \/ \E m \in Messages : Sign(m) \/ \E c \in Calls : Receive(c, m)
    \/ \E c \in Calls : CallStep(c)
    \/ Tick
    \/ Restart

Spec == Init /\ [][Next]_vars

----------------------------------------------------------------------------
(* Properties *)

\* Only an accepted request uses up a nonce: what the network makes of a request, or
\* a late, revoked or failed delivery, does not keep the genuine one out
\* (consent.py:191-196).
NoncesAreEarned ==
    \A n \in remembered : \E m \in accepted : NonceOf[m] = n

Accepts(m) == \E c \in Calls : pc[c] = "insert" /\ msg[c] = m /\ Consume(c)

\* A request delivered again is accepted again only after its nonce has been
\* forgotten, and only as long as it is fresh: more than TTL after the last time, and
\* less than the agent's skew and the call's delay after that.  With accurate clocks
\* and prompt calls that is never (crypto.py:213-240, consent.py:188-197).
RepeatsOnlyLate ==
    [][\A m \in accepted :
          Accepts(m) => /\ last[m] + TTL < now
                        /\ now < first[m] + TTL + MaxSkew + MaxDelay]_vars
=============================================================================
