------------------------------ MODULE Sessions ------------------------------
(***************************************************************************)
(* The owner's sessions (backend/sessions.py) and the passphrase they are  *)
(* opened with (backend/auth.py, the login and logout routes of main.py).  *)
(* Every owner route validates its cookie: it reads the clock, then the    *)
(* row, and then extends or deletes the row in a statement of its own, so  *)
(* that a logout or another validation may come in between.                *)
(***************************************************************************)
EXTENDS Naturals

CONSTANTS
    Callers,    \* threads that serve owner routes
    Processes,  \* server processes on one database
    ProcessOf,  \* [Callers -> Processes]
    Tokens,     \* session tokens that may be issued
    TTL,        \* SESSION_TTL
    MaxDelay,   \* most time from reading the clock to the write it is for
    MaxTime,    \* bound: the clock
    Faults,     \* BOOLEAN: may a statement raise, or a process die?
    NoToken     \* no cookie

ASSUME SessionAssumption ==
    /\ ProcessOf \in [Callers -> Processes]
    /\ {TTL, MaxDelay, MaxTime} \subseteq Nat
    /\ Faults \in BOOLEAN
    /\ NoToken \notin Tokens

VARIABLES
    clock,     \* the time
    row,       \* the sessions table: has each token "never", "there" or "gone"
    expires,   \* expires_at of each row
    lastUse,   \* history: the latest time a login or an admitted call has read
    revoked,   \* history: tokens that have been logged out
    spc,       \* where each caller is in validate
    cookie,    \* the token it presents
    readAt,    \* the time it has read
    late,      \* history: had its token been logged out when it came?
    passEnv,   \* ORA_OWNER_TOKEN: "unset", "blank" (only whitespace) or "full"
    passFile,  \* owner.token: "absent", "empty" or "full"
    pass,      \* _passphrase of each process: "none", "empty" or "full"
    boot,      \* where each process is in its start
    bootCut    \* history: a start was cut short while it wrote the file

table == <<row, expires, lastUse, revoked>>
calling == <<spc, cookie, readAt, late>>
secret == <<passEnv, passFile, pass, boot, bootCut>>
sessionVars == <<clock, table, calling, secret>>

SPCs == {"idle", "select", "expire", "extend", "in"}
Boots == {"prune", "pass", "write", "up"}

SessionTypeOK ==
    /\ clock \in 0..MaxTime
    /\ row \in [Tokens -> {"never", "there", "gone"}]
    /\ expires \in [Tokens -> Nat]
    /\ lastUse \in [Tokens -> Nat]
    /\ revoked \subseteq Tokens
    /\ spc \in [Callers -> SPCs]
    /\ cookie \in [Callers -> Tokens \cup {NoToken}]
    /\ readAt \in [Callers -> Nat]
    /\ late \in [Callers -> BOOLEAN]
    /\ passEnv \in {"unset", "blank", "full"}
    /\ passFile \in {"absent", "empty", "full"}
    /\ pass \in [Processes -> {"none", "empty", "full"}]
    /\ boot \in [Processes -> Boots]
    /\ bootCut \in BOOLEAN

SessionInit ==
    /\ clock = 0
    /\ row = [k \in Tokens |-> "never"]
    /\ expires = [k \in Tokens |-> 0]
    /\ lastUse = [k \in Tokens |-> 0]
    /\ revoked = {}
    /\ spc = [t \in Callers |-> "idle"]
    /\ cookie = [t \in Callers |-> NoToken]
    /\ readAt = [t \in Callers |-> 0]
    /\ late = [t \in Callers |-> FALSE]
    /\ passEnv \in {"unset", "blank", "full"}
    /\ passFile = "absent"
    /\ pass = [p \in Processes |-> "none"]
    /\ boot = [p \in Processes |-> "prune"]
    /\ bootCut = FALSE

----------------------------------------------------------------------------
(* The start of a process: sessions.prune, then auth.owner_token *)

Prune(p) ==
    /\ boot[p] = "prune"
    /\ row' = [k \in Tokens |-> IF row[k] = "there" /\ expires[k] < clock THEN "gone" ELSE row[k]]
    /\ boot' = [boot EXCEPT ![p] = "pass"]
    /\ UNCHANGED <<clock, expires, lastUse, revoked, calling, passEnv, passFile, pass, bootCut>>

\* What the environment gives; it is stripped once it has been found to be set.
EnvPass == IF passEnv = "blank" THEN "empty" ELSE "full"

\* The passphrase of the environment, else that of the file, if there is one.
ReadPass(p) ==
    /\ boot[p] = "pass" /\ (passEnv # "unset" \/ passFile # "absent")
    /\ pass' = [pass EXCEPT ![p] = IF passEnv # "unset" THEN EnvPass ELSE passFile]
    /\ boot' = [boot EXCEPT ![p] = "up"]
    /\ UNCHANGED <<clock, table, calling, passEnv, passFile, bootCut>>

\* Else a new one; opening the file makes it empty ...
OpenPass(p) ==
    /\ boot[p] = "pass" /\ passEnv = "unset" /\ passFile = "absent"
    /\ pass' = [pass EXCEPT ![p] = "full"]
    /\ passFile' = "empty"
    /\ boot' = [boot EXCEPT ![p] = "write"]
    /\ UNCHANGED <<clock, table, calling, passEnv, bootCut>>

\* Mutant: the file is left empty.
WriteNoPass(p) ==
    /\ boot[p] = "write"
    /\ boot' = [boot EXCEPT ![p] = "up"]
    /\ UNCHANGED <<clock, table, calling, passEnv, passFile, pass, bootCut>>

\* ... before it is written.
WritePass(p) ==
    /\ boot[p] = "write"
    /\ passFile' = "full"
    /\ boot' = [boot EXCEPT ![p] = "up"]
    /\ UNCHANGED <<clock, table, calling, passEnv, pass, bootCut>>

----------------------------------------------------------------------------
(* Login and logout *)

\* The passphrase that is submitted: "blank" is only whitespace.
Submissions == {"", "blank", "full"}

\* auth.verify_passphrase tests what is submitted as it came, and compares it stripped: where
\* the stored passphrase is empty, a blank one equals it.  ("full" is the right one.)
Accepted(p, submitted) ==
    /\ submitted # ""
    /\ (IF submitted = "blank" THEN "empty" ELSE submitted) = pass[p]

\* A session is opened.
Login(p, k) ==
    /\ boot[p] = "up" /\ row[k] = "never"
    /\ \E submitted \in Submissions : Accepted(p, submitted)
    /\ row' = [row EXCEPT ![k] = "there"]
    /\ expires' = [expires EXCEPT ![k] = clock + TTL]
    /\ lastUse' = [lastUse EXCEPT ![k] = clock]
    /\ UNCHANGED <<clock, revoked, calling, secret>>

\* sessions.revoke: whoever has the cookie can end the session.
Logout(k) ==
    /\ row[k] # "never" /\ \E p \in Processes : boot[p] = "up"
    /\ row' = [row EXCEPT ![k] = "gone"]
    /\ revoked' = revoked \cup {k}
    /\ UNCHANGED <<clock, expires, lastUse, calling, secret>>

----------------------------------------------------------------------------
(* auth.require_owner, sessions.validate *)

SGo(t, to) == spc' = [spc EXCEPT ![t] = to]

\* A call is over: what it has read is of no use.
Over(t) ==
    /\ SGo(t, "idle")
    /\ cookie' = [cookie EXCEPT ![t] = NoToken]
    /\ readAt' = [readAt EXCEPT ![t] = 0]
    /\ late' = [late EXCEPT ![t] = FALSE]

\* A call comes with a cookie; the clock is read.
Present(t, k) ==
    /\ spc[t] = "idle" /\ boot[ProcessOf[t]] = "up" /\ row[k] # "never"
    /\ SGo(t, "select")
    /\ cookie' = [cookie EXCEPT ![t] = k]
    /\ readAt' = [readAt EXCEPT ![t] = clock]
    /\ late' = [late EXCEPT ![t] = k \in revoked]
    /\ UNCHANGED <<clock, table, secret>>

\* The row is read: it has expired or not.
Select(t) ==
    /\ spc[t] = "select" /\ row[cookie[t]] = "there"
    /\ SGo(t, IF readAt[t] > expires[cookie[t]] THEN "expire" ELSE "extend")
    /\ UNCHANGED <<clock, table, cookie, readAt, late, secret>>

\* There is no row: 401.
Unknown(t) ==
    /\ spc[t] = "select" /\ row[cookie[t]] # "there"
    /\ Over(t)
    /\ UNCHANGED <<clock, table, secret>>

\* The row is deleted, whatever it has become: 401.
Expire(t) ==
    /\ spc[t] = "expire"
    /\ row' = [row EXCEPT ![cookie[t]] = "gone"]
    /\ Over(t)
    /\ UNCHANGED <<clock, expires, lastUse, revoked, secret>>

\* The call is let in: it needs its cookie no more.
Enter(t) ==
    /\ SGo(t, "in")
    /\ cookie' = [cookie EXCEPT ![t] = NoToken]
    /\ readAt' = [readAt EXCEPT ![t] = 0]
    /\ UNCHANGED late

Later(a, b) == IF a > b THEN a ELSE b

\* Mutant: the row is inserted again when it is not there.
ExtendUpsert(t) ==
    /\ spc[t] = "extend"
    /\ row' = [row EXCEPT ![cookie[t]] = "there"]
    /\ expires' = [expires EXCEPT ![cookie[t]] = readAt[t] + TTL]
    /\ lastUse' = [lastUse EXCEPT ![cookie[t]] = Later(@, readAt[t])]
    /\ Enter(t)
    /\ UNCHANGED <<clock, revoked, secret>>

\* Mutant: the window is added to what is left of it.
ExtendMore(t) ==
    /\ spc[t] = "extend"
    /\ expires' = [expires EXCEPT ![cookie[t]] = @ + TTL]
    /\ lastUse' = [lastUse EXCEPT ![cookie[t]] = Later(@, readAt[t])]
    /\ Enter(t)
    /\ UNCHANGED <<clock, row, revoked, secret>>

\* The row is updated if it is still there; the call is let in either way.
Extend(t) ==
    /\ spc[t] = "extend"
    /\ IF row[cookie[t]] = "there"
       THEN /\ expires' = [expires EXCEPT ![cookie[t]] = readAt[t] + TTL]
            /\ lastUse' = [lastUse EXCEPT ![cookie[t]] = Later(@, readAt[t])]
       ELSE UNCHANGED <<expires, lastUse>>
    /\ Enter(t)
    /\ UNCHANGED <<clock, row, revoked, secret>>

\* A statement raises.
SessionRaises(t) ==
    /\ Faults /\ spc[t] \in {"select", "expire", "extend"}
    /\ Over(t)
    /\ UNCHANGED <<clock, table, secret>>

\* The route that was let in returns.
Leave(t) ==
    /\ spc[t] = "in"
    /\ Over(t)
    /\ UNCHANGED <<clock, table, secret>>

----------------------------------------------------------------------------

\* A call that has read the clock writes within MaxDelay.
SessionTick ==
    /\ clock < MaxTime
    /\ \A t \in Callers : spc[t] \in {"select", "extend"} => clock < readAt[t] + MaxDelay
    /\ clock' = clock + 1
    /\ UNCHANGED <<table, calling, secret>>

\* A process dies and is started again; its calls are over.
SessionRestart(p) ==
    /\ Faults
    /\ boot' = [boot EXCEPT ![p] = "prune"]
    /\ pass' = [pass EXCEPT ![p] = "none"]
    /\ bootCut' = (bootCut \/ boot[p] = "write")
    /\ spc' = [t \in Callers |-> IF ProcessOf[t] = p THEN "idle" ELSE spc[t]]
    /\ cookie' = [t \in Callers |-> IF ProcessOf[t] = p THEN NoToken ELSE cookie[t]]
    /\ readAt' = [t \in Callers |-> IF ProcessOf[t] = p THEN 0 ELSE readAt[t]]
    /\ late' = [t \in Callers |-> IF ProcessOf[t] = p THEN FALSE ELSE late[t]]
    /\ UNCHANGED <<clock, table, passEnv, passFile>>

Boot(p) == Prune(p) \/ ReadPass(p) \/ OpenPass(p) \/ WritePass(p)

Validate(t) ==
    \/ \E k \in Tokens : Present(t, k)
    \/ Select(t) \/ Unknown(t) \/ Expire(t) \/ Extend(t) \/ SessionRaises(t)

SessionNext ==
    \/ \E p \in Processes :
          \/ Boot(p) \/ SessionRestart(p)
          \/ \E k \in Tokens : Login(p, k)
    \/ \E k \in Tokens : Logout(k)
    \/ \E t \in Callers : Validate(t) \/ Leave(t)
    \/ SessionTick

SessionSpec == SessionInit /\ [][SessionNext]_sessionVars

----------------------------------------------------------------------------
(* Properties *)

\* A session that has been logged out does not come back, though a call that has read it
\* before extends it after (sessions.py:41-68).
RevokedStaysOut == \A k \in revoked : row[k] # "there"

\* A call that comes after the logout of its session is not let in (sessions.py:41-68,
\* auth.py:94-104).
NoEntryAfterLogout == \A t \in Callers : spc[t] \in {"extend", "in"} => ~late[t]

\* A logout wins, however calls that were on their way before it or come after it overlap
\* with it (sessions.py:41-68).
LogoutWins == RevokedStaysOut /\ NoEntryAfterLogout

\* The window slides with the calls: a session ends TTL after the last call it let in, or a
\* call's length earlier, when an older call of the same session writes after it
\* (sessions.py:8-9, 46-60).
WindowSlides ==
    \A k \in Tokens : row[k] = "there" =>
        /\ expires[k] <= lastUse[k] + TTL
        /\ lastUse[k] + TTL <= expires[k] + MaxDelay

\* With one process, a server that has started has a passphrase, the one that was stored or
\* set, and not the empty one that whitespace opens: unless a start has been cut short between
\* opening and writing its file, or the environment's is blank (auth.py:47-82).
OwnerCanLogIn ==
    ~bootCut /\ passEnv # "blank" => \A p \in Processes : boot[p] = "up" => pass[p] = "full"
=============================================================================
