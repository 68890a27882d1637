---------------------------- MODULE KeyRotation ----------------------------
(***************************************************************************)
(* The server key of backend/crypto.py: the key file, the process's cached *)
(* key, and keyset.json, which rotate_server_key rewrites one after the    *)
(* other with no lock; GET /keys/status may write it as well.  Requests    *)
(* sign ledger entries at any time.  Keys are numbers in the order they    *)
(* are made; the ledger is the set of keys that have signed an entry.      *)
(***************************************************************************)
EXTENDS Naturals

CONSTANTS
    Workers,      \* server processes on the same files
    Rotators,     \* threads that serve POST /keys/rotate and GET /keys/status
    WorkerOf,     \* [Rotators -> Workers]
    Failures,     \* BOOLEAN: may writing a file raise, or a process die?
    MaxKeys       \* bound: keys made

ASSUME RotationAssumption ==
    /\ WorkerOf \in [Rotators -> Workers]
    /\ MaxKeys \in Nat \ {0}
    /\ Failures \in BOOLEAN

VARIABLES
    fromEnv,  \* is ORA_LEDGER_KEY set (to key 1)?
    made,     \* how many keys have been generated
    keyFile,  \* the key in server_ed25519.hex
    keyset,   \* the public keys in keyset.json ({}: no file, or a torn one)
    torn,     \* keyset.json is truncated or garbled: it does not parse
    key,      \* _server_key of each process (0: not loaded)
    pc,       \* where each rotator is in rotate_server_key
    serving,  \* what it serves: "rotate" or "status"
    loaded,   \* the keyset it has loaded or made
    fresh,    \* the key it has generated
    retired,  \* history: the keys that completed rotations have retired
    cut,      \* history: a rotation has been cut short by a failure
    signed    \* the keys that have signed a ledger entry

files == <<keyFile, keyset, torn>>
deployment == <<fromEnv, made>>
noted == <<retired, cut, signed>>
vars == <<deployment, files, key, pc, serving, loaded, fresh, noted>>

Keys == 1..MaxKeys
PCs == {"idle", "ensure", "ensureWrite", "load", "generate", "replace", "install",
        "open", "write"}

TypeOK ==
    /\ fromEnv \in BOOLEAN
    /\ made \in Keys
    /\ keyFile \in Keys
    /\ keyset \subseteq Keys
    /\ torn \in BOOLEAN
    /\ key \in [Workers -> 0..MaxKeys]
    /\ pc \in [Rotators -> PCs]
    /\ serving \in [Rotators -> {"rotate", "status"}]
    /\ loaded \in [Rotators -> SUBSET Keys]
    /\ fresh \in [Rotators -> 0..MaxKeys]
    /\ retired \subseteq Keys
    /\ cut \in BOOLEAN
    /\ signed \subseteq Keys

\* The first start has made a key, or found one in the environment.
Init ==
    /\ fromEnv \in BOOLEAN
    /\ made = 1 /\ keyFile = 1 /\ keyset = {} /\ torn = FALSE
    /\ key = [w \in Workers |-> 0]
    /\ pc = [t \in Rotators |-> "idle"]
    /\ serving = [t \in Rotators |-> "rotate"]
    /\ loaded = [t \in Rotators |-> {}]
    /\ fresh = [t \in Rotators |-> 0]
    /\ retired = {} /\ cut = FALSE /\ signed = {}

----------------------------------------------------------------------------
(* The key of a process *)

\* _load_or_create_server_key: the cached key, the environment's, the file's.
ServerKey(w) == IF key[w] # 0 THEN key[w] ELSE IF fromEnv THEN 1 ELSE keyFile

LoadKey(w) == key' = [key EXCEPT ![w] = ServerKey(w)]

\* Any append of this process signs its entry.
Sign(w) ==
    /\ LoadKey(w)
    /\ signed' = signed \cup {ServerKey(w)}
    /\ UNCHANGED <<deployment, files, pc, serving, loaded, fresh, retired, cut>>

----------------------------------------------------------------------------
(* rotate_server_key *)

Go(t, to) == pc' = [pc EXCEPT ![t] = to]

\* A call returns: the keyset it has loaded is of no use.
Done(t) == Go(t, "idle") /\ loaded' = [loaded EXCEPT ![t] = {}]

\* A step that raises ends the rotation where it stands.
Raise(t) == Failures /\ Done(t) /\ cut' = TRUE

\* Mutant: the current key of a deployment without a keyset is not recorded.
BeginWithoutEnsuring(t) ==
    /\ pc[t] = "idle" /\ made < MaxKeys
    /\ ~torn
    /\ serving' = [serving EXCEPT ![t] = "rotate"]
    /\ Go(t, "load")
    /\ UNCHANGED <<deployment, files, key, loaded, fresh, noted>>

\* _ensure_keyset reads the file; a torn one does not parse.
Begin(t) ==
    /\ pc[t] = "idle" /\ made < MaxKeys
    /\ ~torn
    /\ serving' = [serving EXCEPT ![t] = "rotate"]
    /\ Go(t, IF keyset = {} THEN "ensure" ELSE "load")
    /\ UNCHANGED <<deployment, files, key, loaded, fresh, noted>>

\* keyset_info begins in the same way, and only reads a keyset that is there.
BeginStatus(t) ==
    /\ pc[t] = "idle" /\ ~torn /\ keyset = {}
    /\ serving' = [serving EXCEPT ![t] = "status"]
    /\ Go(t, "ensure")
    /\ UNCHANGED <<deployment, files, key, loaded, fresh, noted>>

\* _save_keyset opens the file with "w", which empties it ...
Truncate == keyset' = {} /\ torn' = TRUE

\* ... and dumps the keys into it; if another has dumped its own since, the texts may mix.
Dump(keys) ==
    \/ keyset' = keys /\ torn' = FALSE
    \/ ~torn /\ Truncate

\* A dump that raises leaves the file as it is, or garbled.
DumpRaises(t) ==
    /\ pc[t] \in {"ensureWrite", "write"}
    /\ Raise(t)
    /\ Truncate \/ UNCHANGED <<keyset, torn>>
    /\ UNCHANGED <<deployment, keyFile, key, serving, fresh, retired, signed>>

\* A deployment from before rotation: the current key becomes the keyset.
EnsureOpen(t) ==
    /\ pc[t] = "ensure"
    /\ LoadKey(WorkerOf[t])
    /\ \/ /\ Truncate /\ Go(t, "ensureWrite") /\ UNCHANGED cut
          /\ loaded' = [loaded EXCEPT ![t] = {ServerKey(WorkerOf[t])}]
       \/ Raise(t) /\ UNCHANGED <<keyset, torn>>
    /\ UNCHANGED <<deployment, keyFile, serving, fresh, retired, signed>>

EnsureWrite(t) ==
    /\ pc[t] = "ensureWrite"
    /\ Dump(loaded[t])
    /\ IF serving[t] = "rotate" THEN Go(t, "load") /\ UNCHANGED loaded ELSE Done(t)
    /\ UNCHANGED <<deployment, keyFile, key, serving, fresh, noted>>

Load(t) ==
    /\ pc[t] = "load"
    /\ LoadKey(WorkerOf[t])
    /\ \/ ~torn /\ loaded' = [loaded EXCEPT ![t] = keyset] /\ Go(t, "generate")
       \/ torn /\ Done(t)
    /\ UNCHANGED <<deployment, files, serving, fresh, noted>>

Generate(t) ==
    /\ pc[t] = "generate" /\ made < MaxKeys
    /\ made' = made + 1
    /\ fresh' = [fresh EXCEPT ![t] = made + 1]
    /\ Go(t, "replace")
    /\ UNCHANGED <<fromEnv, files, key, serving, loaded, noted>>

\* Mutant: the key file is left as it is.
ReplaceNothing(t) ==
    /\ pc[t] = "replace"
    /\ Go(t, "install")
    /\ UNCHANGED <<deployment, files, key, serving, loaded, fresh, noted>>

\* The key file is replaced at once ...
ReplaceKeyFile(t) ==
    /\ pc[t] = "replace"
    /\ \/ keyFile' = fresh[t] /\ Go(t, "install") /\ UNCHANGED <<loaded, cut>>
       \/ Raise(t) /\ UNCHANGED keyFile
    /\ UNCHANGED <<deployment, keyset, torn, key, serving, fresh, retired, signed>>

\* ... then the process signs with the new key ...
Install(t) ==
    /\ pc[t] = "install"
    /\ key' = [key EXCEPT ![WorkerOf[t]] = fresh[t]]
    /\ Go(t, "open")
    /\ UNCHANGED <<deployment, files, serving, loaded, fresh, noted>>

\* ... and then the keyset is rewritten in place.
OpenKeyset(t) ==
    /\ pc[t] = "open"
    /\ \/ Truncate /\ Go(t, "write") /\ UNCHANGED <<loaded, cut>>
       \/ Raise(t) /\ UNCHANGED <<keyset, torn>>
    /\ UNCHANGED <<deployment, keyFile, key, serving, fresh, retired, signed>>

WriteKeyset(t) ==
    /\ pc[t] = "write"
    /\ Dump(loaded[t] \cup {fresh[t]})
    /\ retired' = retired \cup (loaded[t] \ {fresh[t]})
    /\ Done(t)
    /\ UNCHANGED <<deployment, keyFile, key, serving, fresh, cut, signed>>

\* Every step but the one that completes a rotation.
PartStep(t) ==
    \/ EnsureOpen(t)
    \/ EnsureWrite(t)
    \/ DumpRaises(t)
    \/ Load(t)
    \/ Generate(t)
    \/ ReplaceKeyFile(t)
    \/ Install(t)
    \/ OpenKeyset(t)

RotateStep(t) == PartStep(t) \/ WriteKeyset(t)

\* The process dies and is started again: it has no cached key, and its rotations are
\* cut short.
Restart(w) ==
    /\ Failures
    /\ key' = [key EXCEPT ![w] = 0]
    /\ cut' = (cut \/ \E t \in Rotators : WorkerOf[t] = w /\ pc[t] # "idle")
    /\ pc' = [t \in Rotators |-> IF WorkerOf[t] = w THEN "idle" ELSE pc[t]]
    /\ loaded' = [t \in Rotators |-> IF WorkerOf[t] = w THEN {} ELSE loaded[t]]
    /\ UNCHANGED <<deployment, files, serving, fresh, retired, signed>>

Next ==
    \/ \E w \in Workers : Sign(w) \/ Restart(w)
    \/ \E t \in Rotators : Begin(t) \/ BeginStatus(t) \/ RotateStep(t)

Spec == Init /\ [][Next]_vars

----------------------------------------------------------------------------
(* Properties *)

\* crypto.all_public_keys
AllPublicKeys(w) == {ServerKey(w)} \cup keyset

AtRest == \A t \in Rotators : pc[t] = "idle"

SignersKnown == \A w \in Workers : signed \subseteq AllPublicKeys(w)

\* Through rotations one after the other, with restarts between them, whoever has signed
\* an entry is among the keys that verification tries, also in the middle of a
\* rotation, when the keyset can be read (crypto.py:89-96, 120-155).
SignersKnownUnlessCut == ~cut /\ ~torn => SignersKnown

\* A key that a rotation retired signs nothing any more: the process holds another one,
\* also after a restart that loads it from the file, and wherever a rotation was cut
\* short (crypto.py:31-57, 151-153).
RetiredStaysRetired == ~fromEnv => \A w \in Workers : ServerKey(w) \notin retired

\* Once there is a keyset, it has the key that the next start loads: the next rotation
\* will keep it (crypto.py:74-86, 151-155).
FileKeyInKeyset == ~cut /\ AtRest /\ keyset # {} => keyFile \in keyset

\* A key that a completed rotation retired is in every keyset that can be read after, so
\* that what it signed can be verified: no later rotation, however it is cut short, leaves a
\* keyset without it; it can only leave none that parses (crypto.py:64-72, 120-155).
RetiredRecorded == ~torn => retired \subseteq keyset

=============================================================================
