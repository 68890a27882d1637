------------------------- MODULE OwnerControlProofs -------------------------
(***************************************************************************)
(* Proofs about the server key, in a deployment of one process in which    *)
(* one thread at a time serves the key routes: any number of rotations,    *)
(* with files that cannot be written, a keyset that is emptied before it   *)
(* is written, and restarts at any step.  Then about                       *)
(* the owner's sessions, for any number of processes, threads and tokens,  *)
(* and about the key routes behind them: the routes implement both of      *)
(* their parts, so what is proved of a part holds of the routes.           *)
(***************************************************************************)
EXTENDS OwnerControl, TLAPS

----------------------------------------------------------------------------
(* The server key *)

\* One thread of one process serves the key routes.
Alone(t, w) == Rotators = {t} /\ Workers = {w}

(* The types, for any number of processes and threads *)

\* A thread that is to store a new key has one.
Typed ==
    /\ TypeOK
    /\ \A t \in Rotators : pc[t] \in {"replace", "install", "open", "write"} => fresh[t] \in Keys

LEMMA StepKeepsTypes ==
    ASSUME Typed, NEW t \in Rotators, Begin(t) \/ BeginStatus(t) \/ RotateStep(t)
    PROVE  Typed'
<1> USE RotationAssumption DEF Typed, TypeOK, deployment, files, noted, Go, Done, Raise, PCs, Keys
<1>0. WorkerOf[t] \in Workers /\ \A w \in Workers : ServerKey(w) \in 1..MaxKeys
  BY DEF ServerKey
<1>1. CASE Begin(t)
  BY <1>1 DEF Begin
<1>2. CASE BeginStatus(t)
  BY <1>2 DEF BeginStatus
<1>3. CASE EnsureOpen(t)
  <2>1. key' \in [Workers -> 0..MaxKeys]
    BY <1>0, <1>3 DEF EnsureOpen, LoadKey
  <2>2. /\ loaded' \in [Rotators -> SUBSET Keys] /\ pc' \in [Rotators -> PCs]
        /\ pc'[t] \in {"ensureWrite", "idle"}
        /\ \A u \in Rotators \ {t} : pc'[u] = pc[u]
    BY <1>0, <1>3 DEF EnsureOpen
  <2>3. QED BY <1>3, <2>1, <2>2 DEF EnsureOpen, Truncate
<1>4. CASE EnsureWrite(t)
  <2>1. keyset' \subseteq Keys /\ torn' \in BOOLEAN
    BY <1>4 DEF EnsureWrite, Dump, Truncate
  <2>2. QED BY <1>4, <2>1 DEF EnsureWrite
<1>4a. CASE DumpRaises(t)
  <2>1. keyset' \subseteq Keys /\ torn' \in BOOLEAN
    BY <1>4a DEF DumpRaises, Truncate
  <2>2. QED BY <1>4a, <2>1 DEF DumpRaises
<1>5. CASE Load(t)
  <2>1. key' \in [Workers -> 0..MaxKeys]
    BY <1>0, <1>5 DEF Load, LoadKey
  <2>2. /\ loaded' \in [Rotators -> SUBSET Keys] /\ pc' \in [Rotators -> PCs]
        /\ pc'[t] \in {"generate", "idle"}
        /\ \A u \in Rotators \ {t} : pc'[u] = pc[u]
    BY <1>5 DEF Load
  <2>3. QED BY <1>5, <2>1, <2>2 DEF Load
<1>6. CASE Generate(t)
  BY <1>6 DEF Generate
<1>7. CASE ReplaceKeyFile(t)
  BY <1>7 DEF ReplaceKeyFile
<1>8. CASE Install(t)
  BY <1>0, <1>8 DEF Install
<1>9. CASE OpenKeyset(t)
  <2>1. keyset' \subseteq Keys /\ torn' \in BOOLEAN
    BY <1>9 DEF OpenKeyset, Truncate
  <2>2. QED BY <1>9, <2>1 DEF OpenKeyset
<1>10. CASE WriteKeyset(t)
  <2>1. fresh[t] \in Keys
    BY <1>10 DEF WriteKeyset
  <2>2. keyset' \subseteq Keys /\ torn' \in BOOLEAN
    BY <1>10, <2>1 DEF WriteKeyset, Dump, Truncate
  <2>3. QED BY <1>10, <2>2 DEF WriteKeyset
<1>11. QED
  BY <1>1, <1>2, <1>3, <1>4, <1>5, <1>6, <1>7, <1>8, <1>9, <1>10, <1>4a
  DEF RotateStep, PartStep

LEMMA WorkerKeepsTypes ==
    ASSUME Typed, NEW w \in Workers, Sign(w) \/ Restart(w)
    PROVE  Typed'
<1> USE DEF Typed, TypeOK, deployment, files, noted, PCs, Keys
<1>1. CASE Sign(w)
  <2>1. ServerKey(w) \in Keys /\ ServerKey(w) \in 0..MaxKeys
    BY RotationAssumption DEF ServerKey
  <2>2. key' \in [Workers -> 0..MaxKeys] /\ signed' \subseteq Keys
    BY <1>1, <2>1 DEF Sign, LoadKey
  <2>3. UNCHANGED <<fromEnv, made, keyFile, keyset, torn, pc, serving, loaded, fresh, retired, cut>>
    BY <1>1 DEF Sign
  <2>4. QED BY <2>2, <2>3, Zenon
<1>2. CASE Restart(w)
  BY <1>2, RotationAssumption DEF Restart
<1>3. QED BY <1>1, <1>2

LEMMA TypedHolds == Spec => []Typed
<1>1. Init => Typed
  <2> SUFFICES ASSUME Init PROVE Typed
    OBVIOUS
  <2>1. 1 \in Keys /\ 0 \in 0..MaxKeys
    BY RotationAssumption DEF Keys
  <2>2. QED BY <2>1 DEF Init, Typed, TypeOK, PCs
<1>2. Typed /\ [Next]_vars => Typed'
  <2>1. Typed /\ UNCHANGED vars => Typed'
    BY DEF Typed, TypeOK, vars, deployment, files, noted
  <2>2. QED BY <2>1, StepKeepsTypes, WorkerKeepsTypes DEF Next
<1>3. QED BY <1>1, <1>2, PTL DEF Spec

\* Every variable keeps its type (crypto.py:24-162).
THEOREM TypeCorrect == Spec => []TypeOK
<1>1. Typed => TypeOK
  BY DEF Typed
<1>2. QED BY <1>1, TypedHolds, PTL

----------------------------------------------------------------------------
(* The inductive invariant *)

\* The keyset does not change under the thread that has read it, but that the thread empties
\* it to write it again; and a new key is new.
PhaseInv(t, w) ==
    /\ pc[t] \in {"ensure", "ensureWrite"} => keyset = {} /\ keyFile = 1 /\ key[w] \in {0, 1}
    /\ pc[t] = "ensureWrite" => loaded[t] = {1} /\ key[w] = 1
    /\ pc[t] \in {"load", "generate", "replace", "install", "open"} => keyset # {}
    /\ pc[t] \in {"generate", "replace", "install", "open"} => loaded[t] = keyset
    /\ pc[t] \in {"generate", "replace", "install", "open", "write"} =>
          key[w] # 0 /\ 1 \in loaded[t] /\ \A k \in loaded[t] : k <= made
    /\ pc[t] \in {"replace", "install", "open", "write"} =>
          fresh[t] \notin loaded[t] \cup retired /\ fresh[t] <= made
    /\ pc[t] \in {"install", "open", "write"} => keyFile = fresh[t]
    /\ pc[t] \in {"open", "write"} => key[w] = fresh[t]

\* The keyset is torn while it is written, and for good once the writing is cut short.
TornInv(t) ==
    /\ torn => keyset = {}
    /\ torn => pc[t] \in {"idle", "ensureWrite", "write"}
    /\ pc[t] \in {"ensureWrite", "write"} => torn
    /\ torn /\ pc[t] = "idle" => cut

\* The first key is in every keyset, and nothing else is in use before there is one.
FirstKeyInv(w) ==
    /\ keyset # {} => 1 \in keyset
    /\ keyset = {} /\ ~torn => keyFile = 1 /\ key[w] \in {0, 1}
    /\ \A k \in keyset : k <= made

\* Without the environment's key, the process has the key of the file, which is not
\* retired, but for the moment before it takes the new one.
RetiredInv(t, w) ==
    /\ ~torn => retired \subseteq keyset
    /\ pc[t] = "write" => retired \subseteq loaded[t]
    /\ pc[t] = "ensureWrite" => retired = {}
    /\ \A k \in retired : k <= made
    /\ ~fromEnv => /\ keyFile \notin retired
                   /\ key[w] \notin retired
                   /\ pc[t] # "install" => key[w] \in {0, keyFile}

\* While nothing is cut short, only a key that is being recorded is not recorded.
RecordedInv(t, w) ==
    ~cut =>
      /\ pc[t] \notin {"install", "open", "write"} => keyFile \in keyset \cup {1}
      /\ pc[t] \notin {"open", "write"} => key[w] \in keyset \cup {0, 1}
      /\ \A k \in signed : \/ k \in keyset \cup {1}
                           \/ pc[t] = "write" /\ k \in loaded[t]
                           \/ pc[t] \in {"open", "write"} /\ k = fresh[t]

KeyInv(t, w) ==
    /\ Typed
    /\ PhaseInv(t, w)
    /\ TornInv(t)
    /\ FirstKeyInv(w)
    /\ RetiredInv(t, w)
    /\ RecordedInv(t, w)

----------------------------------------------------------------------------
(* The invariant is inductive *)

LEMMA InvStarts ==
    ASSUME NEW t, NEW w, Alone(t, w)
    PROVE  Init => KeyInv(t, w)
<1> SUFFICES ASSUME Init PROVE KeyInv(t, w)
  OBVIOUS
<1> USE RotationAssumption DEF Init, Alone
<1>1. Typed
  <2>1. 1 \in Keys /\ 0 \in 0..MaxKeys
    BY DEF Keys
  <2>2. QED BY <2>1 DEF Typed, TypeOK, PCs
<1>2. PhaseInv(t, w) /\ TornInv(t) /\ FirstKeyInv(w) /\ RetiredInv(t, w) /\ RecordedInv(t, w)
  BY DEF PhaseInv, TornInv, FirstKeyInv, RetiredInv, RecordedInv
<1>3. QED BY <1>1, <1>2 DEF KeyInv

\* A step of a call that serves a key route.
LEMMA StepKeepsInv ==
    ASSUME NEW t, NEW w, Alone(t, w), KeyInv(t, w), Begin(t) \/ BeginStatus(t) \/ RotateStep(t)
    PROVE  KeyInv(t, w)'
<1>0. Typed'
  BY StepKeepsTypes DEF Alone, KeyInv
<1> USE RotationAssumption
    DEF Alone, KeyInv, PhaseInv, TornInv, FirstKeyInv, RetiredInv, RecordedInv, Typed, TypeOK,
        Keys, PCs, deployment, files, noted, Go, Done, Raise, Truncate, Dump
<1>a. WorkerOf[t] = w /\ t \in Rotators /\ w \in Workers
  OBVIOUS
<1>1. CASE Begin(t) \/ BeginStatus(t)
  BY <1>0, <1>1 DEF Begin, BeginStatus
<1>2. CASE EnsureOpen(t)
  <2>1. key'[w] = 1 /\ ServerKey(w) = 1
    BY <1>a, <1>2 DEF EnsureOpen, LoadKey, ServerKey
  <2>2. keyset = {} /\ keyset' = {} /\ keyFile = 1 /\ retired = {} /\ ~torn /\ pc[t] = "ensure"
    BY <1>2 DEF EnsureOpen
  <2>3. UNCHANGED <<fromEnv, made, keyFile, fresh, retired, signed>>
    BY <1>2 DEF EnsureOpen
  <2>4. \/ pc'[t] = "ensureWrite" /\ torn' /\ loaded'[t] = {1} /\ cut' = cut
        \/ pc'[t] = "idle" /\ ~torn' /\ cut'
    BY <1>a, <1>2, <2>1 DEF EnsureOpen
  <2>5. QED BY <1>0, <2>1, <2>2, <2>3, <2>4
<1>3. CASE EnsureWrite(t)
  BY <1>0, <1>3 DEF EnsureWrite
<1>3a. CASE DumpRaises(t)
  <2>1. torn /\ keyset = {} /\ torn' /\ keyset' = {} /\ cut' /\ pc'[t] = "idle"
    BY <1>3a DEF DumpRaises
  <2>2. UNCHANGED <<fromEnv, made, keyFile, key, fresh, retired, signed>>
    BY <1>3a DEF DumpRaises
  <2>3. pc[t] # "install"
    BY <1>3a DEF DumpRaises
  <2>4. QED BY <1>0, <2>1, <2>2, <2>3
<1>4. CASE Load(t)
  <2>1. key'[w] = ServerKey(w) /\ ServerKey(w) # 0
    BY <1>a, <1>4 DEF Load, LoadKey, ServerKey
  <2>2. QED BY <1>0, <1>a, <1>4, <2>1 DEF Load, ServerKey
<1>5. CASE Generate(t)
  BY <1>0, <1>5 DEF Generate
<1>6. CASE ReplaceKeyFile(t)
  BY <1>0, <1>6 DEF ReplaceKeyFile
<1>7. CASE Install(t)
  BY <1>0, <1>a, <1>7 DEF Install
<1>8. CASE OpenKeyset(t)
  BY <1>0, <1>8 DEF OpenKeyset
<1>9. CASE WriteKeyset(t)
  BY <1>0, <1>9 DEF WriteKeyset
<1>10. QED
  BY <1>1, <1>2, <1>3, <1>4, <1>5, <1>6, <1>7, <1>8, <1>9, <1>3a DEF RotateStep, PartStep

\* Another call signs an entry, or the process starts again.
LEMMA WorkerKeepsInv ==
    ASSUME NEW t, NEW w, Alone(t, w), KeyInv(t, w), Sign(w) \/ Restart(w)
    PROVE  KeyInv(t, w)'
<1>0. Typed'
  BY WorkerKeepsTypes DEF Alone, KeyInv
<1> USE RotationAssumption
    DEF Alone, KeyInv, PhaseInv, TornInv, FirstKeyInv, RetiredInv, RecordedInv, Typed, TypeOK,
        Keys, PCs, deployment, files, noted
<1>1. CASE Sign(w)
  BY <1>0, <1>1 DEF Sign, LoadKey, ServerKey
<1>2. CASE Restart(w)
  <2>1. pc'[t] = "idle" /\ key'[w] = 0 /\ (~cut' => ~cut /\ pc[t] = "idle")
    BY <1>2 DEF Restart
  <2>2. UNCHANGED <<fromEnv, made, keyFile, keyset, torn, retired, signed>>
    BY <1>2 DEF Restart
  <2>3. QED BY <1>0, <2>1, <2>2
<1>3. QED BY <1>1, <1>2

LEMMA InvIsInductive ==
    ASSUME NEW t, NEW w, Alone(t, w)
    PROVE  KeyInv(t, w) /\ [Next]_vars => KeyInv(t, w)'
<1>1. KeyInv(t, w) /\ UNCHANGED vars => KeyInv(t, w)'
  BY DEF KeyInv, PhaseInv, TornInv, FirstKeyInv, RetiredInv, RecordedInv, Typed, TypeOK, vars,
         deployment, files, noted
<1>2. QED BY <1>1, StepKeepsInv, WorkerKeepsInv DEF Next, Alone

LEMMA InvHolds ==
    ASSUME NEW t, NEW w, Alone(t, w)
    PROVE  Spec => []KeyInv(t, w)
BY InvStarts, InvIsInductive, PTL DEF Spec

----------------------------------------------------------------------------
(* What it gives *)

\* Whoever has signed an entry is among the keys that verification tries, while no
\* rotation has been cut short (crypto.py:89-96, 120-155).
THEOREM SignersAreKnown ==
    ASSUME NEW t, NEW w, Alone(t, w)
    PROVE  Spec => []SignersKnownUnlessCut
<1>1. KeyInv(t, w) => SignersKnownUnlessCut
  BY DEF KeyInv, Alone, Typed, TypeOK, Keys, PhaseInv, TornInv, FirstKeyInv, RecordedInv,
         SignersKnownUnlessCut, SignersKnown, AllPublicKeys, ServerKey
<1>2. QED BY <1>1, InvHolds, PTL

\* A retired key signs nothing any more, unless it is the environment's
\* (crypto.py:31-57, 151-153).
THEOREM RetiredKeysRest ==
    ASSUME NEW t, NEW w, Alone(t, w)
    PROVE  Spec => []RetiredStaysRetired
<1>1. KeyInv(t, w) => RetiredStaysRetired
  BY DEF KeyInv, Alone, RetiredInv, RetiredStaysRetired, ServerKey
<1>2. QED BY <1>1, InvHolds, PTL

\* The next rotation keeps the key that the next start loads (crypto.py:74-86, 151-155).
THEOREM FileKeyIsRecorded ==
    ASSUME NEW t, NEW w, Alone(t, w)
    PROVE  Spec => []FileKeyInKeyset
<1>1. KeyInv(t, w) => FileKeyInKeyset
  BY DEF KeyInv, Alone, FirstKeyInv, RecordedInv, FileKeyInKeyset, AtRest
<1>2. QED BY <1>1, InvHolds, PTL

\* No keyset that can be read lacks a retired key, wherever a rotation was cut short: such a
\* cut can only leave no readable keyset at all (crypto.py:64-72, 120-155).
THEOREM RetiredKeysAreRecorded ==
    ASSUME NEW t, NEW w, Alone(t, w)
    PROVE  Spec => []RetiredRecorded
<1>1. KeyInv(t, w) => RetiredRecorded
  BY DEF KeyInv, RetiredInv, RetiredRecorded
<1>2. QED BY <1>1, InvHolds, PTL

----------------------------------------------------------------------------
(* The inductive invariant of the sessions *)

\* A call in validate has a cookie, and writes soon after it has read the clock; one that
\* came after the logout gets no further than the row.
CallInv(t) ==
    /\ spc[t] \in {"select", "expire", "extend"} => cookie[t] \in Tokens
    /\ spc[t] \in {"select", "extend"} => readAt[t] <= clock /\ clock <= readAt[t] + MaxDelay
    /\ late[t] => spc[t] = "select" /\ cookie[t] \in revoked

RowInv(k) ==
    /\ k \in revoked => row[k] = "gone"
    /\ lastUse[k] <= clock
    /\ row[k] = "there" => /\ expires[k] <= lastUse[k] + TTL
                           /\ lastUse[k] + TTL <= expires[k] + MaxDelay

SessionInv ==
    /\ SessionTypeOK
    /\ \A t \in Callers : CallInv(t)
    /\ \A k \in Tokens : RowInv(k)

LEMMA SessionStarts == SessionInit => SessionInv
<1> SUFFICES ASSUME SessionInit PROVE SessionInv
  OBVIOUS
<1> USE DEF SessionInit
<1>1. SessionTypeOK
  <2>1. 0 \in 0..MaxTime /\ 0 \in Nat
    BY SessionAssumption
  <2>2. QED BY <2>1 DEF SessionTypeOK, SPCs, Boots
<1>2. ASSUME NEW t \in Callers PROVE CallInv(t)
  BY DEF CallInv
<1>3. ASSUME NEW k \in Tokens PROVE RowInv(k)
  BY DEF RowInv
<1>4. QED BY <1>1, <1>2, <1>3 DEF SessionInv

\* A step of a call.
LEMMA CallKeepsSession ==
    ASSUME SessionInv, NEW t \in Callers, Validate(t) \/ Leave(t)
    PROVE  SessionInv'
<1> USE SessionAssumption
    DEF SessionInv, SessionTypeOK, CallInv, RowInv, SPCs, table, secret, calling, SGo, Over
<1>1. ASSUME NEW k \in Tokens, Present(t, k) PROVE SessionInv'
  BY <1>1 DEF Present
<1>2. CASE Select(t)
  BY <1>2 DEF Select
<1>3. CASE Unknown(t) \/ SessionRaises(t) \/ Leave(t)
  <2>1. Over(t) /\ UNCHANGED <<clock, table, secret>>
    BY <1>3 DEF Unknown, SessionRaises, Leave
  <2>2. QED BY <2>1
<1>4. CASE Expire(t)
  BY <1>4 DEF Expire
<1>5. CASE Extend(t)
  <2>1. cookie[t] \in Tokens /\ ~late[t] /\ readAt[t] + TTL \in Nat
    BY <1>5 DEF Extend
  <2>2. expires' \in [Tokens -> Nat] /\ lastUse' \in [Tokens -> Nat]
    BY <1>5, <2>1 DEF Extend, Later
  <2>3. SessionTypeOK'
    BY <1>5, <2>2 DEF Extend, Enter
  <2>4. \A u \in Callers : CallInv(u)'
    BY <1>5, <2>1 DEF Extend, Enter
  <2>5. ASSUME NEW k \in Tokens PROVE RowInv(k)'
    BY <1>5, <2>1, <2>3 DEF Extend, Later
  <2>6. QED BY <2>3, <2>4, <2>5
<1>6. QED
  BY <1>1, <1>2, <1>3, <1>4, <1>5 DEF Validate

\* Anything else: the start of a process, a login, a logout, the clock.
LEMMA ServerKeepsSession ==
    ASSUME SessionInv,
           \/ \E p \in Processes : Boot(p) \/ SessionRestart(p) \/ \E k \in Tokens : Login(p, k)
           \/ \E k \in Tokens : Logout(k)
           \/ SessionTick
    PROVE  SessionInv'
<1> USE SessionAssumption
    DEF SessionInv, SessionTypeOK, CallInv, RowInv, SPCs, Boots, table, secret, calling
<1>1. ASSUME NEW p \in Processes, Prune(p) PROVE SessionInv'
  BY <1>1 DEF Prune
<1>2. ASSUME NEW p \in Processes, ReadPass(p) \/ OpenPass(p) \/ WritePass(p) PROVE SessionInv'
  BY <1>2 DEF ReadPass, EnvPass, OpenPass, WritePass
<1>3. ASSUME NEW p \in Processes, SessionRestart(p) PROVE SessionInv'
  BY <1>3 DEF SessionRestart
<1>4. ASSUME NEW p \in Processes, NEW k \in Tokens, Login(p, k) PROVE SessionInv'
  BY <1>4 DEF Login
<1>5. ASSUME NEW k \in Tokens, Logout(k) PROVE SessionInv'
  BY <1>5 DEF Logout
<1>6. CASE SessionTick
  BY <1>6 DEF SessionTick
<1>7. QED
  BY <1>1, <1>2, <1>3, <1>4, <1>5, <1>6 DEF Boot

LEMMA SessionHolds == SessionSpec => []SessionInv
<1>1. SessionInv /\ UNCHANGED sessionVars => SessionInv'
  BY DEF SessionInv, SessionTypeOK, CallInv, RowInv, sessionVars, table, calling, secret
<1>2. SessionInv /\ [SessionNext]_sessionVars => SessionInv'
  BY <1>1, CallKeepsSession, ServerKeepsSession DEF SessionNext
<1>3. QED BY <1>2, SessionStarts, PTL DEF SessionSpec

----------------------------------------------------------------------------
(* What it gives *)

\* A session that was logged out does not come back, whichever calls had read it before
\* (sessions.py:41-68).
THEOREM RevokedSessionsStayOut == SessionSpec => []RevokedStaysOut
<1>1. SessionInv => RevokedStaysOut
  BY DEF SessionInv, SessionTypeOK, RowInv, RevokedStaysOut
<1>2. QED BY <1>1, SessionHolds, PTL

\* A call that comes after the logout is not let in (sessions.py:41-68, auth.py:94-104).
THEOREM LoggedOutIsOut == SessionSpec => []NoEntryAfterLogout
<1>1. SessionInv => NoEntryAfterLogout
  BY DEF SessionInv, CallInv, NoEntryAfterLogout
<1>2. QED BY <1>1, SessionHolds, PTL

\* A logout wins over the calls that overlap with it (sessions.py:41-68).
THEOREM LogoutAlwaysWins == SessionSpec => []LogoutWins
BY RevokedSessionsStayOut, LoggedOutIsOut, PTL DEF LogoutWins

\* A session ends TTL after its last call, but for the length of a call
\* (sessions.py:8-9, 46-60).
THEOREM SessionWindowSlides == SessionSpec => []WindowSlides
<1>1. SessionInv => WindowSlides
  BY DEF SessionInv, RowInv, WindowSlides
<1>2. QED BY <1>1, SessionHolds, PTL

----------------------------------------------------------------------------
(* The passphrase, with one process *)

PassInv(p) ==
    ~bootCut /\ passEnv # "blank" =>
                /\ boot[p] \in {"up", "write"} => pass[p] = "full"
                /\ passFile = "empty" => boot[p] = "write"

\* A server that has started has a passphrase that is not empty, unless a start was cut short
\* while it wrote the file, or the environment's is blank (auth.py:47-82).
THEOREM PassphraseIsKnown ==
    ASSUME NEW p, Processes = {p}
    PROVE  SessionSpec => []OwnerCanLogIn
<1> DEFINE Inv == SessionInv /\ PassInv(p)
<1>1. SessionInit => PassInv(p)
  BY DEF SessionInit, PassInv
<1>2. SessionInv /\ PassInv(p) /\ [SessionNext]_sessionVars => PassInv(p)'
  <2> SUFFICES ASSUME SessionInv, PassInv(p), [SessionNext]_sessionVars PROVE PassInv(p)'
    OBVIOUS
  <2> USE DEF SessionInv, SessionTypeOK, PassInv
  <2>1. CASE UNCHANGED secret
    BY <2>1 DEF secret
  <2>2. CASE Prune(p) \/ ReadPass(p) \/ OpenPass(p) \/ WritePass(p)
    BY <2>2 DEF Prune, ReadPass, EnvPass, OpenPass, WritePass
  <2>3. CASE SessionRestart(p)
    BY <2>3 DEF SessionRestart
  <2>4. QED
    BY <2>1, <2>2, <2>3
    DEF SessionNext, sessionVars, Boot, Login, Logout, Validate, Present, Select, Unknown,
        Expire, Extend, SessionRaises, Leave, SessionTick
<1>3. Inv => OwnerCanLogIn
  BY DEF PassInv, OwnerCanLogIn
<1>4. QED BY <1>1, <1>2, <1>3, SessionHolds, PTL DEF SessionSpec

----------------------------------------------------------------------------
(* The key routes implement both of their parts *)

\* The key changes as KeyRotation lets it (main.py:403-457).
THEOREM RoutesImplementRotation == OwnerSpec => Spec
<1>1. OwnerInit => Init
  BY DEF OwnerInit
<1>2. [OwnerNext]_ownerVars => [Next]_vars
  BY RotationAssumption
  DEF OwnerNext, ownerVars, Rotate, Status, Export, KeyStep, RotateStep, Announce,
      AnnounceRaises, Backup, Return, OwnerRestart, Others, Next
<1>3. QED BY <1>1, <1>2, PTL DEF OwnerSpec, Spec

\* The sessions change as Sessions lets them (main.py:204-228, 403-457).
THEOREM RoutesImplementSessions == OwnerSpec => SessionSpec
<1>1. OwnerInit => SessionInit
  BY DEF OwnerInit
<1>2. [OwnerNext]_ownerVars => [SessionNext]_sessionVars
  BY OwnerAssumption
  DEF OwnerNext, ownerVars, Rotate, Status, Export, KeyStep, Announce, AnnounceRaises, Finish,
      Backup, Return, OwnerRestart, Others, SessionNext
<1>3. QED BY <1>1, <1>2, PTL DEF OwnerSpec, SessionSpec

----------------------------------------------------------------------------
(* What the composition adds *)

\* A route of the owner works for a call that was let in, and nothing else ends the call while
\* it does; the export works for a call that has shown no session, and only makes a keyset.
RouteInv ==
    /\ route \in [Rotators -> Routes]
    /\ \A t \in Rotators :
          /\ route[t] \in {"rotate", "status", "announce"} => spc[t] = "in"
          /\ route[t] = "export" => /\ spc[t] = "idle" /\ serving[t] = "status"
                                    /\ pc[t] \in {"ensure", "ensureWrite"}
          /\ route[t] = "announce" => pc[t] = "idle"

LEMMA RoutesHold == OwnerSpec => []RouteInv
<1>1. OwnerInit => RouteInv
  BY DEF OwnerInit, RouteInv, Routes
<1>2. Typed /\ SessionInv /\ RouteInv /\ [OwnerNext]_ownerVars => RouteInv'
  <2> SUFFICES ASSUME Typed, SessionInv, RouteInv, [OwnerNext]_ownerVars PROVE RouteInv'
    OBVIOUS
  <2> USE OwnerAssumption
      DEF Typed, TypeOK, SessionInv, SessionTypeOK, RouteInv, Routes, Take, sessionVars, calling
  <2>1. ASSUME NEW t \in Rotators, Rotate(t) \/ Status(t) \/ Export(t) PROVE RouteInv'
    BY <2>1 DEF Rotate, Status, Export, Begin, BeginStatus, Go
  <2>2. ASSUME NEW t \in Rotators, KeyStep(t) PROVE RouteInv'
    <3>1. CASE WriteKeyset(t) /\ Take(t, "announce") /\ UNCHANGED sessionVars
      BY <2>2, <3>1 DEF KeyStep, WriteKeyset, Go, Done
    <3>2. CASE PartStep(t) /\ pc'[t] = "idle" /\ Finish(t)
      <4>1. /\ serving' = serving /\ \A u \in Rotators \ {t} : pc'[u] = pc[u]
            /\ route' = [route EXCEPT ![t] = "none"]
        BY <3>2 DEF PartStep, EnsureOpen, EnsureWrite, DumpRaises, Load, Generate, ReplaceKeyFile,
                    Install, OpenKeyset, Go, Done, Raise, noted, deployment, files, Finish
      <4>2. \A u \in Callers \ {t} : spc'[u] = spc[u]
        BY <3>2 DEF Finish, Leave, Over, SGo
      <4>3. QED BY <4>1, <4>2
    <3>3. CASE PartStep(t) /\ pc'[t] # "idle" /\ UNCHANGED <<route, sessionVars>>
      <4>1. /\ serving' = serving /\ \A u \in Rotators \ {t} : pc'[u] = pc[u]
            /\ route[t] = "export" => pc'[t] = "ensureWrite"
        BY <2>2, <3>3 DEF KeyStep, PartStep, EnsureOpen, EnsureWrite, DumpRaises, Load, Generate,
                    ReplaceKeyFile, Install, OpenKeyset, Go, Done, Raise
      <4>2. route[t] # "announce"
        BY <2>2 DEF KeyStep
      <4>3. QED BY <3>3, <4>1, <4>2
    <3>4. QED BY <2>2, <3>1, <3>2, <3>3 DEF KeyStep
  <2>3. ASSUME NEW t \in Rotators, Announce(t) \/ AnnounceRaises(t) PROVE RouteInv'
    <3>1. route' = [route EXCEPT ![t] = "none"] /\ UNCHANGED <<pc, serving>>
      BY <2>3 DEF Announce, AnnounceRaises, Finish, Sign, vars
    <3>2. \A u \in Callers \ {t} : spc'[u] = spc[u]
      BY <2>3 DEF Announce, AnnounceRaises, Finish, Leave, Over, SGo
    <3>3. QED BY <3>1, <3>2
  <2>4. ASSUME NEW t \in Callers, Return(t) \/ (t \in Rotators /\ Backup(t)) PROVE RouteInv'
    <3>1. UNCHANGED <<route, pc, serving>> /\ (t \in Rotators => route[t] = "none")
      BY <2>4 DEF Return, Backup, Sign, vars, routeVars
    <3>2. \A u \in Callers \ {t} : spc'[u] = spc[u]
      BY <2>4 DEF Return, Backup, Leave, Over, SGo
    <3>3. QED BY <3>1, <3>2
  <2>5. ASSUME NEW w \in Workers, OwnerRestart(w) PROVE RouteInv'
    BY <2>5 DEF OwnerRestart, SessionRestart, Restart
  <2>6. CASE Others
    <3>1. UNCHANGED <<route, pc, serving>>
      BY <2>6 DEF Others, routeVars, Sign, vars
    <3>2. CASE UNCHANGED spc
      BY <3>1, <3>2
    <3>3. ASSUME NEW t \in Callers, Validate(t), t \in Rotators => route[t] = "none"
          PROVE  RouteInv'
      <4>1. \A u \in Callers \ {t} : spc'[u] = spc[u]
        BY <3>3 DEF Validate, Present, Select, Unknown, Expire, Extend, SessionRaises, Enter,
                    Over, SGo
      <4>2. QED BY <3>1, <3>3, <4>1
    <3>4. QED
      BY <2>6, <3>2, <3>3
      DEF Others, Boot, Prune, ReadPass, OpenPass, WritePass, Login, Logout, SessionTick
  <2>7. CASE UNCHANGED ownerVars
    BY <2>7 DEF ownerVars, routeVars, vars
  <2>8. QED BY <2>1, <2>2, <2>3, <2>4, <2>5, <2>6, <2>7 DEF OwnerNext
<1>3. QED
  BY <1>1, <1>2, TypedHolds, SessionHolds, RoutesImplementRotation, RoutesImplementSessions, PTL
  DEF OwnerSpec

\* Every variable keeps its type, with any number of processes and threads: an entry can
\* only name a key that was made (main.py:403-457).
THEOREM OwnerTypesHold == OwnerSpec => []OwnerTypeOK
<1> DEFINE Drawn == /\ announced \subseteq Keys
                    /\ \A t \in Rotators : route[t] = "announce" => fresh[t] \in Keys
<1>1. OwnerInit => Drawn
  BY DEF OwnerInit
<1>2. Typed /\ RouteInv /\ Drawn /\ [OwnerNext]_ownerVars => Drawn'
  <2> SUFFICES ASSUME Typed, RouteInv, Drawn, [OwnerNext]_ownerVars PROVE Drawn'
    OBVIOUS
  <2> USE DEF Typed, TypeOK, RouteInv, Take
  <2>1. CASE UNCHANGED <<fresh, route, announced>>
    BY <2>1
  <2>2. ASSUME NEW t \in Rotators, Rotate(t) \/ Status(t) \/ Export(t) PROVE Drawn'
    BY <2>2 DEF Rotate, Status, Export, Begin, BeginStatus
  <2>3. ASSUME NEW t \in Rotators, KeyStep(t) PROVE Drawn'
    <3>1. UNCHANGED announced /\ route[t] \in {"rotate", "status", "export"}
      BY <2>3 DEF KeyStep
    <3>2. \A u \in Rotators \ {t} : fresh'[u] = fresh[u] /\ route'[u] = route[u]
      BY <2>3 DEF KeyStep, PartStep, EnsureOpen, EnsureWrite, DumpRaises, Load, Generate,
                  ReplaceKeyFile, Install, OpenKeyset, WriteKeyset, Finish
    <3>3. route'[t] = "announce" => pc[t] = "write" /\ fresh'[t] = fresh[t]
      BY <2>3, <3>1 DEF KeyStep, Finish, WriteKeyset
    <3>4. QED BY <3>1, <3>2, <3>3
  <2>4. ASSUME NEW t \in Rotators, Announce(t) \/ AnnounceRaises(t) PROVE Drawn'
    BY <2>4 DEF Announce, AnnounceRaises, Finish, Sign, vars
  <2>5. ASSUME NEW w \in Workers, OwnerRestart(w) PROVE Drawn'
    BY <2>5 DEF OwnerRestart, Restart
  <2>6. ASSUME NEW t \in Callers, Return(t) \/ Backup(t) PROVE Drawn'
    BY <2>6 DEF Return, Backup, Sign, vars, routeVars
  <2>7. CASE Others
    BY <2>7 DEF Others, Sign, vars, routeVars
  <2>8. QED
    BY <2>1, <2>2, <2>3, <2>4, <2>5, <2>6, <2>7, OwnerAssumption
    DEF OwnerNext, ownerVars, routeVars, vars
<1>3. Typed /\ SessionInv /\ RouteInv /\ Drawn => OwnerTypeOK
  BY DEF Typed, SessionInv, RouteInv, OwnerTypeOK
<1>4. QED
  BY <1>1, <1>2, <1>3, TypedHolds, SessionHolds, RoutesImplementRotation,
     RoutesImplementSessions, RoutesHold, PTL DEF OwnerSpec

\* Only for a call that a session let in, and that had not been logged out when it came, is
\* a key made or a keyset rewritten; anyone's export can do no more than record the one key
\* there is, with one thread at the key routes of one process (main.py:380-417).
THEOREM KeysAreForTheOwner ==
    ASSUME NEW t, NEW w, Alone(t, w)
    PROVE  OwnerSpec => KeysNeedASession
<1> DEFINE Guarded == ForTheOwner \/ OnlyFirstKeyset \/ UNCHANGED <<made, keyFile, keyset>>
<1>1. KeyInv(t, w) /\ SessionInv /\ RouteInv /\ OwnerNext => Guarded
  <2> SUFFICES ASSUME KeyInv(t, w), SessionInv, RouteInv, OwnerNext,
                      ~UNCHANGED <<made, keyFile, keyset>>
               PROVE  Guarded
    OBVIOUS
  <2> USE DEF Alone
  <2>1. KeyStep(t)
    BY DEF OwnerNext, Rotate, Status, Export, Announce, AnnounceRaises, Backup, Return,
           OwnerRestart, Others, Begin, BeginStatus, Sign, Restart, deployment, files, vars
  <2>2. CASE route[t] # "export"
    <3>1. spc[t] = "in"
      BY <2>1, <2>2 DEF RouteInv, KeyStep
    <3>2. ~late[t]
      BY <3>1, OwnerAssumption DEF SessionInv, CallInv
    <3>3. QED BY <3>1, <3>2 DEF ForTheOwner
  <2>3. CASE route[t] = "export"
    <3>1. pc[t] \in {"ensure", "ensureWrite"}
      BY <2>3 DEF RouteInv
    <3>2. EnsureOpen(t) \/ EnsureWrite(t) \/ DumpRaises(t)
      BY <2>1, <3>1 DEF KeyStep, PartStep, Load, Generate, ReplaceKeyFile, Install, OpenKeyset,
                        WriteKeyset
    <3>3. keyset = {} /\ ServerKey(w) = 1 /\ (pc[t] = "ensureWrite" => loaded[t] = {1})
      BY <3>1 DEF KeyInv, PhaseInv, ServerKey
    <3>4. UNCHANGED <<made, keyFile>> /\ keyset' \subseteq {1}
      BY <3>2, <3>3 DEF EnsureOpen, EnsureWrite, DumpRaises, Dump, Truncate, deployment
    <3>5. QED BY <3>3, <3>4 DEF OnlyFirstKeyset
  <2>4. QED BY <2>2, <2>3
<1>2. KeyInv(t, w) /\ SessionInv /\ RouteInv /\ [OwnerNext]_ownerVars => [Guarded]_ownerVars
  BY <1>1
<1>3. QED
  BY <1>2, InvHolds, SessionHolds, RoutesImplementRotation, RoutesImplementSessions, RoutesHold,
     PTL DEF OwnerSpec, KeysNeedASession

\* A keyset that can be read has the announced keys, and the one that is to be announced.
AnnounceInv(t) ==
    /\ ~torn => announced \subseteq keyset
    /\ pc[t] = "write" => announced \subseteq loaded[t]
    /\ pc[t] = "ensureWrite" => announced = {}
    /\ route[t] = "announce" /\ ~torn => fresh[t] \in keyset

\* A key that the ledger announces is in every keyset that can be read, with one thread at the
\* key routes of one process, wherever it was cut short (main.py:418-429, crypto.py:69-72,
\* 151-155).
THEOREM AnnouncedStayRecorded ==
    ASSUME NEW t, NEW w, Alone(t, w)
    PROVE  OwnerSpec => []AnnouncedKeysAreRecorded
<1>1. OwnerInit => AnnounceInv(t)
  BY DEF OwnerInit, Init, AnnounceInv, Alone
<1>2. KeyInv(t, w) /\ RouteInv /\ AnnounceInv(t) /\ [OwnerNext]_ownerVars => AnnounceInv(t)'
  <2> SUFFICES ASSUME KeyInv(t, w), RouteInv, AnnounceInv(t), [OwnerNext]_ownerVars
               PROVE  AnnounceInv(t)'
    OBVIOUS
  <2>0. /\ pc \in [Rotators -> PCs] /\ route \in [Rotators -> Routes]
        /\ fresh \in [Rotators -> 0..MaxKeys]
        /\ loaded \in [Rotators -> SUBSET Keys]
    BY DEF KeyInv, Typed, TypeOK, RouteInv
  <2> USE DEF Alone, AnnounceInv
  <2>1. CASE UNCHANGED <<keyset, torn, pc, loaded, fresh, route, announced>>
    BY <2>1
  <2>2. CASE Rotate(t) \/ Status(t) \/ Export(t)
    BY <2>0, <2>2 DEF Rotate, Status, Export, Begin, BeginStatus, files, Take, Go
  <2>3. CASE KeyStep(t)
    <3>1. UNCHANGED announced /\ route[t] # "announce"
      BY <2>3 DEF KeyStep
    <3>2. CASE WriteKeyset(t)
      BY <2>0, <3>1, <3>2 DEF WriteKeyset, Dump, Truncate, Done, Go
    <3>3. CASE PartStep(t) /\ route'[t] # "announce"
      BY <2>0, <3>1, <3>3
      DEF KeyInv, PhaseInv, TornInv, PartStep, EnsureOpen, EnsureWrite, DumpRaises, Load,
          Generate, ReplaceKeyFile, Install, OpenKeyset, Dump, Truncate, Done, Go, Raise, files
    <3>4. PartStep(t) => route'[t] # "announce" \/ WriteKeyset(t)
      BY <2>0, <2>3, <3>1 DEF KeyStep, Finish, Take
    <3>5. QED BY <2>3, <3>2, <3>3, <3>4 DEF KeyStep
  <2>4. CASE Announce(t)
    <3>1. announced' = announced \cup {fresh[t]} /\ route[t] = "announce" /\ pc[t] = "idle"
      BY <2>4 DEF Announce, RouteInv
    <3>2. UNCHANGED <<keyset, torn, pc, fresh, loaded>>
      BY <2>4 DEF Announce, Sign, files
    <3>3. route'[t] = "none"
      BY <2>0, <2>4 DEF Announce, Finish, Take
    <3>4. QED BY <3>1, <3>2, <3>3
  <2>5. CASE AnnounceRaises(t)
    BY <2>0, <2>5 DEF AnnounceRaises, vars, files, Finish, Take
  <2>6. CASE OwnerRestart(w)
    <3>1. UNCHANGED <<keyset, torn, announced>> /\ pc'[t] = "idle" /\ route'[t] = "none"
      BY <2>6, RotationAssumption DEF OwnerRestart, Restart, files
    <3>2. QED BY <3>1
  <2>7. ASSUME NEW u \in Callers, Return(u) \/ Backup(u) PROVE AnnounceInv(t)'
    BY <2>7 DEF Return, Backup, Sign, vars, routeVars, files
  <2>8. CASE Others
    BY <2>8 DEF Others, Sign, vars, routeVars, files
  <2>9. QED
    BY <2>1, <2>2, <2>3, <2>4, <2>5, <2>6, <2>7, <2>8, OwnerAssumption
    DEF OwnerNext, ownerVars, routeVars, vars, files
<1>3. AnnounceInv(t) => AnnouncedKeysAreRecorded
  BY DEF AnnounceInv, AnnouncedKeysAreRecorded
<1>4. QED
  BY <1>1, <1>2, <1>3, InvHolds, RoutesImplementRotation, RoutesHold, PTL DEF OwnerSpec
=============================================================================
