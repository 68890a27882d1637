----------------------------- MODULE MailClient -----------------------------
(***************************************************************************)
(* The mail client of backend/domestic_oracle/atomicmail_client.py, as the *)
(* gate's executor calls it from several threads: the capability token     *)
(* with its cache in memory (two variables, no lock) and in a file, the    *)
(* session token it is renewed with, the proof of work that renews that,   *)
(* and the mails that approvals send, over a network that may lose a       *)
(* request or its answer, up to the row of the approval, which records     *)
(* what became of it (consent.resolve) and may fail to.                    *)
(*                                                                         *)
(* A token is the time it expires at; 0 is no token.  The locks of the     *)
(* gate are left out: ConsentGate shows that an approval is claimed once,  *)
(* and what its ledger entry tells.                                        *)
(***************************************************************************)
EXTENDS Naturals

CONSTANTS
    Threads,     \* threads of one server process
    Mails,       \* outgoing mails that wait for the owner
    Kind,        \* [Mails -> {"send", "reply"}]
    Margin,      \* the 30 s a token must be good for
    TokenLife,   \* what the server gives a capability token
    SessionLife, \* and a session token
    MaxTime,     \* bound: the clock
    MaxFaults,   \* bound: requests and answers lost, rows not written, restarts
    MaxReads,    \* bound: calls that only read mail
    None         \* no mail

ASSUME MailAssumption ==
    /\ Kind \in [Mails -> {"send", "reply"}]
    /\ {Margin, MaxTime, MaxFaults, MaxReads} \subseteq Nat
    /\ {TokenLife, SessionLife} \subseteq Nat \ {0}
    /\ None \notin Mails

VARIABLES
    now,       \* the clock, of the server and of the mail service
    capJwt,    \* _cached_cap_jwt
    capExp,    \* _cached_cap_exp
    capFile,   \* capability.jwt
    sessFile,  \* session.jwt
    pc,        \* where each thread is in _jmap
    job,       \* the mail it sends, if any
    legs,      \* the requests it has still to make
    readAt,    \* when it read the clock
    tok,       \* the token it holds
    mail,      \* the approval of each mail
    sent,      \* external: copies that the service submitted
    unsure,    \* history: mails submitted, and then an answer or a row lost, or a death
    mixed,     \* history: did two threads store a token at once?
    disturbed, \* history: was a token stored while the thread took one?
    faults, reads

memory == <<capJwt, capExp, mixed>>
files == <<capFile, sessFile>>
call == <<job, legs>>
mails == <<mail, sent, unsure>>
bounds == <<faults, reads>>
vars == <<now, memory, files, call, pc, readAt, tok, disturbed, mails, bounds>>

Tokens == 0..(MaxTime + TokenLife + SessionLife)

PCs == {"idle", "call", "memory", "take", "file", "session", "pow", "refresh",
        "write", "storeJwt", "storeExp", "discover", "post",
        "answer", "close", "update", "failed"}

TypeOK ==
    /\ now \in 0..MaxTime
    /\ {capJwt, capExp, capFile, sessFile} \subseteq Tokens
    /\ pc \in [Threads -> PCs]
    /\ job \in [Threads -> Mails \cup {None}]
    /\ legs \in [Threads -> 0..2]
    /\ readAt \in [Threads -> 0..MaxTime]
    /\ tok \in [Threads -> Tokens]
    /\ mail \in [Mails -> {"pending", "resolving", "executed", "error", "denied"}]
    /\ sent \in [Mails -> Nat] /\ unsure \subseteq Mails
    /\ mixed \in BOOLEAN /\ disturbed \in [Threads -> BOOLEAN]
    /\ faults \in 0..MaxFaults /\ reads \in 0..MaxReads

Init ==
    /\ now = 0
    /\ capJwt = 0 /\ capExp = 0 /\ capFile = 0 /\ sessFile = 0
    /\ pc = [t \in Threads |-> "idle"]
    /\ job = [t \in Threads |-> None]
    /\ legs = [t \in Threads |-> 0]
    /\ readAt = [t \in Threads |-> 0]
    /\ tok = [t \in Threads |-> 0]
    /\ mail = [m \in Mails |-> "pending"]
    /\ sent = [m \in Mails |-> 0] /\ unsure = {}
    /\ mixed = FALSE /\ disturbed = [t \in Threads |-> FALSE]
    /\ faults = 0 /\ reads = 0

Go(t, from, to) == pc[t] = from /\ pc' = [pc EXCEPT ![t] = to]

----------------------------------------------------------------------------
(* What the owner and the tools ask for *)

\* An approval is claimed, and its executor called: send makes one request, reply reads
\* the mail it answers first.
Approve(t, m) ==
    /\ mail[m] = "pending"
    /\ mail' = [mail EXCEPT ![m] = "resolving"]
    /\ job' = [job EXCEPT ![t] = m]
    /\ legs' = [legs EXCEPT ![t] = IF Kind[m] = "reply" THEN 2 ELSE 1]
    /\ Go(t, "idle", "call")
    /\ UNCHANGED <<now, memory, files, readAt, tok, disturbed, sent, unsure, bounds>>

Deny(m) ==
    /\ mail[m] = "pending"
    /\ mail' = [mail EXCEPT ![m] = "denied"]
    /\ UNCHANGED <<now, memory, files, call, pc, readAt, tok, disturbed, sent, unsure, bounds>>

\* list_inbox, search, get_email_preview; list_inbox may have to ask for the inbox first.
Read(t) ==
    /\ reads < MaxReads /\ reads' = reads + 1
    /\ \E n \in 1..2 : legs' = [legs EXCEPT ![t] = n]
    /\ Go(t, "idle", "call")
    /\ UNCHANGED <<now, memory, files, job, readAt, tok, disturbed, mails, faults>>

----------------------------------------------------------------------------
(* _get_capability_jwt *)

Good(token, t) == token > readAt[t] + Margin

ReadClock(t) ==
    /\ Go(t, "call", "memory")
    /\ readAt' = [readAt EXCEPT ![t] = now]
    /\ UNCHANGED <<now, memory, files, call, tok, disturbed, mails, bounds>>

Storing == {t \in Threads : pc[t] \in {"storeJwt", "storeExp"}}

\* Mutant: the token is returned whenever there is one.
MemoryHitAny(t) ==
    /\ capJwt # 0
    /\ Go(t, "memory", "take")
    /\ disturbed' = [disturbed EXCEPT ![t] = mixed \/ Storing # {}]
    /\ UNCHANGED <<now, memory, files, call, readAt, tok, mails, bounds>>

\* The expiry is compared first ...
MemoryHit(t) ==
    /\ capJwt # 0 /\ Good(capExp, t)
    /\ Go(t, "memory", "take")
    /\ disturbed' = [disturbed EXCEPT ![t] = mixed \/ Storing # {}]
    /\ UNCHANGED <<now, memory, files, call, readAt, tok, mails, bounds>>

\* ... and the token read again to be returned.
Take(t) ==
    /\ Go(t, "take", "discover")
    /\ tok' = [tok EXCEPT ![t] = capJwt]
    /\ UNCHANGED <<now, memory, files, call, readAt, disturbed, mails, bounds>>

MemoryMiss(t) ==
    /\ ~(capJwt # 0 /\ Good(capExp, t))
    /\ Go(t, "memory", "file")
    /\ UNCHANGED <<now, memory, files, call, readAt, tok, disturbed, mails, bounds>>

FileHit(t) ==
    /\ Good(capFile, t)
    /\ Go(t, "file", "storeJwt")
    /\ tok' = [tok EXCEPT ![t] = capFile]
    /\ UNCHANGED <<now, memory, files, call, readAt, disturbed, mails, bounds>>

FileMiss(t) ==
    /\ ~Good(capFile, t)
    /\ Go(t, "file", "session")
    /\ UNCHANGED <<now, memory, files, call, readAt, tok, disturbed, mails, bounds>>

SessionHit(t) ==
    /\ Good(sessFile, t)
    /\ Go(t, "session", "refresh")
    /\ tok' = [tok EXCEPT ![t] = sessFile]
    /\ UNCHANGED <<now, memory, files, call, readAt, disturbed, mails, bounds>>

SessionMiss(t) ==
    /\ ~Good(sessFile, t)
    /\ Go(t, "session", "pow")
    /\ UNCHANGED <<now, memory, files, call, readAt, tok, disturbed, mails, bounds>>

\* _perform_pow_session
ProveWork(t) ==
    /\ Go(t, "pow", "refresh")
    /\ sessFile' = now + SessionLife
    /\ tok' = [tok EXCEPT ![t] = now + SessionLife]
    /\ UNCHANGED <<now, memory, capFile, call, readAt, disturbed, mails, bounds>>

\* _refresh_capability: the service takes a session token that has not expired ...
Refresh(t) ==
    /\ tok[t] > now
    /\ Go(t, "refresh", "write")
    /\ tok' = [tok EXCEPT ![t] = now + TokenLife]
    /\ UNCHANGED <<now, memory, files, call, readAt, disturbed, mails, bounds>>

\* ... and the new token is stored, in the file first.
WriteFile(t) ==
    /\ Go(t, "write", "storeJwt")
    /\ capFile' = tok[t]
    /\ UNCHANGED <<now, memory, sessFile, call, readAt, tok, disturbed, mails, bounds>>

StoreJwt(t) ==
    /\ Go(t, "storeJwt", "storeExp")
    /\ capJwt' = tok[t]
    /\ mixed' = (\E u \in Threads \ {t} : pc[u] = "storeExp")
    /\ disturbed' = [u \in Threads |-> disturbed[u] \/ pc[u] = "take"]
    /\ UNCHANGED <<now, capExp, files, call, readAt, tok, mails, bounds>>

StoreExp(t) ==
    /\ Go(t, "storeExp", "discover")
    /\ capExp' = tok[t]
    /\ UNCHANGED <<now, capJwt, mixed, files, call, readAt, tok, disturbed, mails, bounds>>

----------------------------------------------------------------------------
(* _jmap *)

\* _get_jmap_session, from its cache or from the service.
Discover(t) ==
    /\ Go(t, "discover", "post")
    /\ UNCHANGED <<now, memory, files, call, readAt, tok, disturbed, mails, bounds>>

\* What a request needed is of no use after it.
Forget(t) ==
    /\ legs' = [legs EXCEPT ![t] = 0]
    /\ readAt' = [readAt EXCEPT ![t] = 0]
    /\ tok' = [tok EXCEPT ![t] = 0]
    /\ disturbed' = [disturbed EXCEPT ![t] = FALSE]

\* The first request of two is answered.
PostFirst(t) ==
    /\ tok[t] > now /\ legs[t] = 2
    /\ Go(t, "post", "call")
    /\ legs' = [legs EXCEPT ![t] = 1]
    /\ tok' = [tok EXCEPT ![t] = 0]
    /\ disturbed' = [disturbed EXCEPT ![t] = FALSE]
    /\ UNCHANGED <<now, memory, files, job, readAt, mails, bounds>>

\* The last one is, and the call was one that reads.
PostRead(t) ==
    /\ tok[t] > now /\ legs[t] = 1 /\ job[t] = None
    /\ Go(t, "post", "idle")
    /\ Forget(t)
    /\ UNCHANGED <<now, memory, files, job, mails, bounds>>

\* The last request of a mail arrives: the service submits it.
Post(t) ==
    /\ tok[t] > now /\ legs[t] = 1 /\ job[t] # None
    /\ Go(t, "post", "answer")
    /\ sent' = [sent EXCEPT ![job[t]] = @ + 1]
    /\ Forget(t)
    /\ UNCHANGED <<now, memory, files, job, mail, unsure, bounds>>

\* Its answer arrives, and the executor returns.
Answered(t) ==
    /\ Go(t, "answer", "close")
    /\ UNCHANGED <<now, memory, files, call, readAt, tok, disturbed, mails, bounds>>

\* AtomicMailError: a tool that reads says so; for a mail the gate closes its row as an error.
Fail(t) ==
    /\ pc' = [pc EXCEPT ![t] = IF job[t] = None THEN "idle" ELSE "failed"]
    /\ Forget(t)
    /\ UNCHANGED <<now, memory, files, job, mail, sent, reads>>

\* The service refuses a token that has expired.
Refused(t) ==
    /\ pc[t] \in {"refresh", "post"} /\ tok[t] <= now
    /\ Fail(t)
    /\ UNCHANGED <<unsure, faults>>

\* A request is lost, refused or fails ...
RequestLost(t) ==
    /\ faults < MaxFaults /\ faults' = faults + 1
    /\ pc[t] \in {"pow", "refresh", "discover", "post"}
    /\ Fail(t)
    /\ UNCHANGED unsure

\* Mutant: a request whose answer is lost is made again.
AnswerLostRetried(t) ==
    /\ faults < MaxFaults /\ faults' = faults + 1
    /\ pc[t] = "answer"
    /\ sent' = [sent EXCEPT ![job[t]] = @ + 1]
    /\ UNCHANGED <<now, memory, files, call, pc, readAt, tok, disturbed, mail, unsure, reads>>

\* ... or its answer is, or cannot be read, after the mail was submitted.
AnswerLost(t) ==
    /\ faults < MaxFaults /\ faults' = faults + 1
    /\ pc[t] = "answer"
    /\ unsure' = unsure \cup {job[t]}
    /\ Fail(t)

----------------------------------------------------------------------------
(* consent.resolve, after the executor *)

\* The row is closed ...
Close(t) ==
    /\ Go(t, "close", "update")
    /\ mail' = [mail EXCEPT ![job[t]] = "executed"]
    /\ UNCHANGED <<now, memory, files, call, readAt, tok, disturbed, sent, unsure, bounds>>

\* ... and the ledger entry brought up to date.
Update(t) ==
    /\ Go(t, "update", "idle")
    /\ job' = [job EXCEPT ![t] = None]
    /\ UNCHANGED <<now, memory, files, legs, readAt, tok, disturbed, mails, bounds>>

\* Either of the two raises, like the executor, and is handled as if the action had failed.
RecordRaises(t) ==
    /\ faults < MaxFaults /\ faults' = faults + 1
    /\ pc[t] \in {"close", "update"}
    /\ unsure' = unsure \cup {job[t]}
    /\ Fail(t)

\* The handler closes the row as an error, and brings the entry up to date.
CloseFailed(t) ==
    /\ Go(t, "failed", "idle")
    /\ mail' = [mail EXCEPT ![job[t]] = "error"]
    /\ job' = [job EXCEPT ![t] = None]
    /\ UNCHANGED <<now, memory, files, legs, readAt, tok, disturbed, sent, unsure, bounds>>

\* Or it raises as well, and the row stays as it is.
CloseRaises(t) ==
    /\ faults < MaxFaults /\ faults' = faults + 1
    /\ Go(t, "failed", "idle")
    /\ job' = [job EXCEPT ![t] = None]
    /\ UNCHANGED <<now, memory, files, legs, readAt, tok, disturbed, mails, reads>>

----------------------------------------------------------------------------

\* Mails that have been submitted, with their rows still to be written.
Unrecorded == {job[t] : t \in {u \in Threads : pc[u] \in {"answer", "close"}}}

\* The process dies: the files stay, and the approvals it had claimed stay claimed.
Restart ==
    /\ faults < MaxFaults /\ faults' = faults + 1
    /\ capJwt' = 0 /\ capExp' = 0 /\ mixed' = FALSE
    /\ unsure' = unsure \cup Unrecorded
    /\ pc' = [t \in Threads |-> "idle"]
    /\ job' = [t \in Threads |-> None]
    /\ legs' = [t \in Threads |-> 0]
    /\ readAt' = [t \in Threads |-> 0]
    /\ tok' = [t \in Threads |-> 0]
    /\ disturbed' = [t \in Threads |-> FALSE]
    /\ UNCHANGED <<now, files, mail, sent, reads>>

Tick ==
    /\ now < MaxTime
    /\ now' = now + 1
    /\ UNCHANGED <<memory, files, call, pc, readAt, tok, disturbed, mails, bounds>>

Step(t) ==
    \/ ReadClock(t) \/ MemoryHit(t) \/ Take(t) \/ MemoryMiss(t)
    \/ FileHit(t) \/ FileMiss(t) \/ SessionHit(t) \/ SessionMiss(t)
    \/ ProveWork(t) \/ Refresh(t) \/ WriteFile(t) \/ StoreJwt(t) \/ StoreExp(t)
    \/ Discover(t) \/ PostFirst(t) \/ PostRead(t) \/ Post(t) \/ Refused(t)
    \/ Answered(t) \/ Close(t) \/ Update(t) \/ CloseFailed(t)

\* What else may happen to a call.
Fault(t) == RequestLost(t) \/ AnswerLost(t) \/ RecordRaises(t) \/ CloseRaises(t)

Next ==
    \/ \E t \in Threads :
          \/ \E m \in Mails : Approve(t, m)
          \/ Read(t)
          \/ Step(t) \/ Fault(t)
    \/ \E m \in Mails : Deny(m)
    \/ Restart \/ Tick

Spec == Init /\ [][Next]_vars

----------------------------------------------------------------------------
(* Properties *)

\* An approval sends one copy at most, and its row tells the truth about it: a denied one
\* and one that waits have sent nothing, an executed one has sent its copy, and any other
\* has sent nothing but when, after the submission, the answer or a row was lost or the
\* process died (atomicmail_client.py:265-277, 344-347, consent.py:304-341).
CopiesAccounted ==
    \A m \in Mails :
        /\ sent[m] <= 1
        /\ mail[m] = "executed" => sent[m] = 1
        /\ mail[m] \in {"pending", "denied"} => sent[m] = 0
        /\ sent[m] = 1 /\ mail[m] # "executed" => m \in unsure \cup Unrecorded
        /\ m \in unsure => sent[m] = 1

\* The cached token and the cached expiry are of one token, unless two threads stored
\* theirs at once: then the pair may be of two until the next store
\* (atomicmail_client.py:184-185, 220-221).
PairIsOneToken ==
    ~mixed =>
        \/ \E t \in Threads : pc[t] = "storeExp" /\ capJwt = tok[t]
        \/ capJwt = capExp

\* A token that is used was good for another Margin when the call read the clock, or
\* was minted since; only a store by another thread between the check and the taking
\* can make it an older one (atomicmail_client.py:175-200).
TokenInHandIsGood ==
    \A t \in Threads :
        pc[t] \in {"discover", "post"} /\ ~disturbed[t] =>
            Good(tok[t], t) \/ tok[t] >= readAt[t] + TokenLife
=============================================================================
