---------------------------- MODULE OwnerControl ----------------------------
(***************************************************************************)
(* The routes about the server key (main.py, /keys/...), composed of their *)
(* parts: a call is let in by its session (Sessions), rotates the key or   *)
(* makes the keyset (KeyRotation), or hands out the key, and appends a     *)
(* ledger entry about it.  GET /ledger/export, which anyone may call, may  *)
(* make the keyset as well.  Restarts and time are common to both parts.   *)
(***************************************************************************)
EXTENDS KeyRotation, Sessions

ASSUME OwnerAssumption ==
    /\ Rotators \subseteq Callers
    /\ Workers = Processes
    /\ \A t \in Rotators : WorkerOf[t] = ProcessOf[t]

VARIABLES
    route,      \* the route each rotator serves
    announced   \* the new keys that ledger entries of rotations name

routeVars == <<route, announced>>
ownerVars == <<vars, sessionVars, routeVars>>

Routes == {"none", "rotate", "status", "export", "announce"}

OwnerTypeOK ==
    /\ TypeOK /\ SessionTypeOK
    /\ route \in [Rotators -> Routes]
    /\ announced \subseteq Keys

OwnerInit ==
    /\ Init /\ SessionInit
    /\ route = [t \in Rotators |-> "none"]
    /\ announced = {}

----------------------------------------------------------------------------

Take(t, what) == route' = [route EXCEPT ![t] = what]

\* Mutant: the route does not depend on the owner's session.
RotateForAnyone(t) ==
    /\ boot[WorkerOf[t]] = "up" /\ spc[t] \in {"idle", "in"} /\ route[t] = "none"
    /\ Begin(t)
    /\ Take(t, "rotate")
    /\ UNCHANGED <<sessionVars, announced>>

\* POST /keys/rotate
Rotate(t) ==
    /\ spc[t] = "in" /\ route[t] = "none"
    /\ Begin(t)
    /\ Take(t, "rotate")
    /\ UNCHANGED <<sessionVars, announced>>

\* GET /keys/status
Status(t) ==
    /\ spc[t] = "in" /\ route[t] = "none"
    /\ BeginStatus(t)
    /\ Take(t, "status")
    /\ UNCHANGED <<sessionVars, announced>>

\* GET /ledger/export begins like GET /keys/status, but asks for no session.
Export(t) ==
    /\ boot[WorkerOf[t]] = "up" /\ spc[t] = "idle" /\ route[t] = "none"
    /\ BeginStatus(t)
    /\ Take(t, "export")
    /\ UNCHANGED <<sessionVars, announced>>

\* The route is over, and so is the call that was let in for it.
Finish(t) == Take(t, "none") /\ IF spc[t] = "in" THEN Leave(t) ELSE UNCHANGED sessionVars

\* A step of any of these; a rotation that completes goes on to its entry.
KeyStep(t) ==
    /\ route[t] \in {"rotate", "status", "export"}
    /\ \/ WriteKeyset(t) /\ Take(t, "announce") /\ UNCHANGED sessionVars
       \/ /\ PartStep(t)
          /\ IF pc'[t] = "idle" THEN Finish(t) ELSE UNCHANGED <<route, sessionVars>>
    /\ UNCHANGED announced

\* Mutant: the entry is written as soon as the process has the new key.
AnnounceEarly(t) ==
    /\ route[t] = "announce" \/ pc[t] = "open"
    /\ Sign(WorkerOf[t])
    /\ announced' = announced \cup {fresh[t]}
    /\ IF route[t] = "announce" THEN Finish(t) ELSE UNCHANGED <<route, sessionVars>>

\* The entry of the rotation, signed with the new key.
Announce(t) ==
    /\ route[t] = "announce"
    /\ Sign(WorkerOf[t])
    /\ announced' = announced \cup {fresh[t]}
    /\ Finish(t)

\* The append raises: the key is rotated, and the owner is told of an error.
AnnounceRaises(t) ==
    /\ Failures /\ route[t] = "announce"
    /\ Finish(t)
    /\ UNCHANGED <<vars, announced>>

\* GET /keys/backup: an entry is appended, and the key is handed out.
Backup(t) ==
    /\ spc[t] = "in" /\ route[t] = "none" /\ pc[t] = "idle"
    /\ Sign(WorkerOf[t])
    /\ Leave(t)
    /\ UNCHANGED routeVars

\* Any other owner route, and an append that raises.
Return(t) ==
    /\ t \in Rotators => route[t] = "none"
    /\ Leave(t)
    /\ UNCHANGED <<vars, routeVars>>

\* The process dies with all that it does, and starts again.
OwnerRestart(w) ==
    /\ Restart(w) /\ SessionRestart(w)
    /\ route' = [t \in Rotators |-> IF WorkerOf[t] = w THEN "none" ELSE route[t]]
    /\ UNCHANGED announced

\* The rest of the server: other calls sign entries, the owner logs in and out.
Others ==
    \/ /\ \E w \in Workers : boot[w] = "up" /\ Sign(w)
       /\ UNCHANGED <<sessionVars, routeVars>>
    \/ /\ \/ \E p \in Processes : Boot(p) \/ \E k \in Tokens : Login(p, k)
          \/ \E k \in Tokens : Logout(k)
          \/ \E t \in Callers : (t \in Rotators => route[t] = "none") /\ Validate(t)
          \/ SessionTick
       /\ UNCHANGED <<vars, routeVars>>

OwnerNext ==
    \/ \E t \in Rotators :
          \/ Rotate(t) \/ Status(t) \/ Export(t) \/ KeyStep(t)
          \/ Announce(t) \/ AnnounceRaises(t) \/ Backup(t)
    \/ \E t \in Callers : Return(t)
    \/ \E w \in Workers : OwnerRestart(w)
    \/ Others

OwnerSpec == OwnerInit /\ [][OwnerNext]_ownerVars

----------------------------------------------------------------------------
(* Properties *)

\* A key that the ledger announces is in every keyset that can be read after, wherever the
\* process died: who reads the entry can verify what the key signs.  A death while
\* keyset.json is written, or a dump that raises, leaves a file that does not parse, and then
\* no key is recorded any more (main.py:418-429, crypto.py:69-72, 151-155).
AnnouncedKeysAreRecorded == ~torn => announced \subseteq keyset

\* The only change to the keys that needs no session: the first keyset of a deployment, with
\* the key in use, or the attempt at it (main.py:380-393, crypto.py:74-86).
OnlyFirstKeyset ==
    /\ UNCHANGED <<made, keyFile>>
    /\ keyset = {} /\ \E w \in Workers : keyset' \subseteq {ServerKey(w)}

\* A call is in that a session has let in, and that had not been logged out when it came.
ForTheOwner == \E t \in Rotators : spc[t] = "in" /\ ~late[t]

\* Only for such a call is a key made or put in the place of another, and is a keyset that
\* there is written again (main.py:380-417, auth.py:94-104).
KeysNeedASession ==
    [][ForTheOwner \/ OnlyFirstKeyset \/ UNCHANGED <<made, keyFile, keyset>>]_ownerVars
=============================================================================
