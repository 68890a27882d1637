------------------------------- MODULE Ledger -------------------------------
(***************************************************************************)
(* The audit ledger of backend/ledger.py: the hash chain in SQLite, the    *)
(* anchor file written after each append, and the checks of both.  Every   *)
(* append and every integrity check runs on a thread of its own; a lock    *)
(* holds inside one process only.                                          *)
(* Hashes and signatures are symbolic: Hash is injective, and a signature  *)
(* is the number of the key that made it.  A rotation of the key is the    *)
(* files it writes, one after the other, and any of them may be the last;  *)
(* module KeyRotation has its smaller steps and the other writers of the   *)
(* keyset.  Abstracted: the contents of an entry, its timestamp among      *)
(* them, which the hash covers as one value, distinct for every entry; and *)
(* the Countersig mirror, whose failures append swallows.                  *)
(***************************************************************************)
EXTENDS Naturals, FiniteSets

CONSTANTS
    Appenders,     \* threads that call append
    Verifiers,     \* threads that call integrity
    Workers,       \* server processes on the same database and files
    WorkerOf,      \* [Appenders \cup Verifiers -> Workers]
    FullChoices,   \* the values of 'full' that integrity is called with
    MaxEntries,    \* bound: rows of the ledger
    MaxKeys,       \* bound: server keys
    StorageFails,  \* BOOLEAN: may a write to the database or to a file raise?
    Crashes,       \* BOOLEAN: may a process die and be restarted?
    Damages,       \* BOOLEAN: may rows be edited, rewritten or deleted by hand?
    None           \* no holder of a lock

ASSUME LedgerAssumption ==
    /\ WorkerOf \in [Appenders \cup Verifiers -> Workers]
    /\ MaxEntries \in Nat /\ MaxKeys \in Nat \ {0}
    /\ FullChoices \subseteq BOOLEAN
    /\ {StorageFails, Crashes, Damages} \subseteq BOOLEAN
    /\ None \notin Appenders

VARIABLES
    ids,       \* the ids of the rows of the ledger table
    lastId,    \* its AUTOINCREMENT counter
    body,      \* of each row: its contents (its id as inserted, 0 when edited),
    prev,      \*   prev_hash,
    hash,      \*   hash,
    signer,    \*   and the key its signature verifies with (0: none)
    before,    \* history: the rows there were when it was inserted
    anchorId,  \* the last line of the anchor file: id (0: no line),
    anchorHash,\*   hash,
    anchorKey, \*   and the key that signed it
    keyFile,   \* the key in the key file
    keyset,    \* the public keys of keyset.json ({}: none can be read)
    torn,      \* keyset.json has been opened for writing and not written: it does not parse
    key,       \* crypto._server_key of each process
    loaded,    \* the keyset that each rotation under way holds
    cut,       \* history: a rotation has ended between the new key and its keyset
    mislaid,   \* history: a rotation has begun after a cut one, or beside another
    lock,      \* ledger._lock of each process
    apc,       \* where each appender is
    aprev,     \* the last hash it has read
    lineId,    \* the anchor line it writes: id,
    lineHash,  \*   hash,
    lineKey,   \*   and key
    ckptId,    \* _verify_checkpoint of each process: id
    ckptHash,  \*   and hash
    vpc,       \* where each verifier is
    full,      \* how it was called
    readId,    \* the anchor line it has read: id,
    readHash,  \*   hash,
    readKey,   \*   and key
    chainOk,   \* what verify_chain has told it
    anchorOk   \* what verify_anchor has told it

rows == <<ids, lastId, body, prev, hash, signer, before>>
rotation == <<keyFile, keyset, torn, key, loaded>>
keys == <<rotation, cut, mislaid>>
anchor == <<anchorId, anchorHash, anchorKey>>
line == <<lineId, lineHash, lineKey>>
read == <<readId, readHash, readKey>>
appending == <<apc, aprev, line>>
checkpoint == <<ckptId, ckptHash>>
verifying == <<vpc, full, read, chainOk, anchorOk>>
vars == <<rows, anchor, keys, lock, appending, checkpoint, verifying>>

Ids == 1..MaxEntries
Keys == 1..MaxKeys
Genesis == <<>>
Hash(b, h) == <<b, h>>

Rotating == {"replace", "open", "keyset"}
AppenderPCs == {"idle", "begin", "insert", "sign", "write"} \cup Rotating
VerifierPCs == {"idle", "anchor", "check"}

TypeOK ==
    /\ ids \subseteq Ids /\ lastId \in 0..MaxEntries
    /\ body \in [Ids -> 0..MaxEntries]
    /\ signer \in [Ids -> 0..MaxKeys]
    /\ before \in [Ids -> SUBSET Ids]
    /\ DOMAIN prev = Ids /\ DOMAIN hash = Ids
    /\ anchorId \in 0..MaxEntries
    /\ anchorId # 0 => anchorKey \in Keys
    /\ keyFile \in Keys /\ keyset \subseteq Keys
    /\ torn \in BOOLEAN /\ cut \in BOOLEAN /\ mislaid \in BOOLEAN
    /\ key \in [Workers -> Keys]
    /\ loaded \in [Appenders -> SUBSET Keys]
    /\ lock \in [Workers -> Appenders \cup {None}]
    /\ apc \in [Appenders -> AppenderPCs]
    /\ lineId \in [Appenders -> 0..MaxEntries]
    /\ lineKey \in [Appenders -> 0..MaxKeys]
    /\ DOMAIN aprev = Appenders /\ DOMAIN lineHash = Appenders
    /\ DOMAIN ckptId = Workers /\ DOMAIN ckptHash = Workers
    /\ vpc \in [Verifiers -> VerifierPCs]
    /\ readId \in [Verifiers -> 0..MaxEntries]
    /\ readKey \in [Verifiers -> 0..MaxKeys]
    /\ DOMAIN readHash = Verifiers
    /\ full \in [Verifiers -> BOOLEAN]
    /\ chainOk \in [Verifiers -> BOOLEAN]
    /\ anchorOk \in [Verifiers -> BOOLEAN]

\* The columns of ids not yet used are of no account.
Init ==
    /\ ids = {} /\ lastId = 0
    /\ body = [i \in Ids |-> 0]
    /\ prev = [i \in Ids |-> Genesis]
    /\ hash = [i \in Ids |-> Genesis]
    /\ signer = [i \in Ids |-> 0]
    /\ before = [i \in Ids |-> {}]
    /\ anchorId = 0 /\ anchorHash = Genesis /\ anchorKey = 0
    /\ keyFile = 1 /\ key = [w \in Workers |-> 1]
    /\ keyset = {} /\ torn = FALSE
    /\ loaded = [t \in Appenders |-> {}]
    /\ cut = FALSE /\ mislaid = FALSE
    /\ lock = [w \in Workers |-> None]
    /\ apc = [t \in Appenders |-> "idle"]
    /\ aprev = [t \in Appenders |-> Genesis]
    /\ lineId = [t \in Appenders |-> 0]
    /\ lineHash = [t \in Appenders |-> Genesis]
    /\ lineKey = [t \in Appenders |-> 0]
    /\ ckptId = [w \in Workers |-> 0]
    /\ ckptHash = [w \in Workers |-> Genesis]
    /\ vpc = [v \in Verifiers |-> "idle"]
    /\ full = [v \in Verifiers |-> FALSE]
    /\ readId = [v \in Verifiers |-> 0]
    /\ readHash = [v \in Verifiers |-> Genesis]
    /\ readKey = [v \in Verifiers |-> 0]
    /\ chainOk = [v \in Verifiers |-> TRUE]
    /\ anchorOk = [v \in Verifiers |-> TRUE]

----------------------------------------------------------------------------
(* append *)

Go(t, to) == apc' = [apc EXCEPT ![t] = to]

\* The last row of a set of rows, by id.
Highest(S) == CHOOSE i \in S : \A j \in S : j <= i

\* SELECT hash FROM ledger ORDER BY id DESC LIMIT 1
HeadHash == IF ids = {} THEN Genesis ELSE hash[Highest(ids)]

\* The bound: an append begins only when there is a row left for it.
Room ==
    LET coming == {t \in Appenders : apc[t] \in {"begin", "insert"} \cup Rotating}
    IN  lastId + Cardinality(coming) < MaxEntries

\* Mutant: no lock around the read of the head and the insert.
ReadHeadUnlocked(t) ==
    /\ apc[t] = "begin" \/ (apc[t] = "idle" /\ Room)
    /\ aprev' = [aprev EXCEPT ![t] = HeadHash]
    /\ Go(t, "insert")
    /\ UNCHANGED <<rows, anchor, keys, lock, line, checkpoint, verifying>>

\* The head is read under the lock, before the transaction begins.
ReadHead(t) ==
    /\ apc[t] = "begin" \/ (apc[t] = "idle" /\ Room)
    /\ lock[WorkerOf[t]] = None
    /\ lock' = [lock EXCEPT ![WorkerOf[t]] = t]
    /\ aprev' = [aprev EXCEPT ![t] = HeadHash]
    /\ Go(t, "insert")
    /\ UNCHANGED <<rows, anchor, keys, line, checkpoint, verifying>>

\* The row is hashed, signed with the key of this process and committed; or the
\* insert raises and is rolled back.
InsertRow(t, id) ==
    /\ ids' = ids \cup {id}
    /\ lastId' = id
    /\ body' = [body EXCEPT ![id] = id]
    /\ prev' = [prev EXCEPT ![id] = aprev[t]]
    /\ hash' = [hash EXCEPT ![id] = Hash(id, aprev[t])]
    /\ signer' = [signer EXCEPT ![id] = key[WorkerOf[t]]]
    /\ before' = [before EXCEPT ![id] = ids]

\* What the anchor line of the new row says.
PrepareLine(t, id) ==
    /\ lineId' = [lineId EXCEPT ![t] = id]
    /\ lineHash' = [lineHash EXCEPT ![t] = Hash(id, aprev[t])]
    /\ UNCHANGED lineKey

\* Mutant: the lock is kept when the insert raises.
InsertKeepingLock(t) ==
    /\ apc[t] = "insert"
    /\ lastId < MaxEntries
    /\ \/ /\ InsertRow(t, lastId + 1)
          /\ PrepareLine(t, lastId + 1)
          /\ lock' = [lock EXCEPT ![WorkerOf[t]] = None]
          /\ Go(t, "sign")
       \/ /\ StorageFails
          /\ Go(t, "idle")
          /\ UNCHANGED <<rows, line, lock>>
    /\ aprev' = [aprev EXCEPT ![t] = Genesis]
    /\ UNCHANGED <<anchor, keys, checkpoint, verifying>>

\* Mutant: an insert that raised is anchored all the same.
InsertAnchoringFailure(t) ==
    /\ apc[t] = "insert"
    /\ lastId < MaxEntries
    /\ InsertRow(t, lastId + 1) \/ (StorageFails /\ UNCHANGED rows)
    /\ PrepareLine(t, lastId + 1)
    /\ Go(t, "sign")
    /\ lock' = [lock EXCEPT ![WorkerOf[t]] = None]
    /\ aprev' = [aprev EXCEPT ![t] = Genesis]
    /\ UNCHANGED <<anchor, keys, checkpoint, verifying>>

Insert(t) ==
    /\ apc[t] = "insert"
    /\ lastId < MaxEntries
    /\ \/ /\ InsertRow(t, lastId + 1)
          /\ PrepareLine(t, lastId + 1)
          /\ Go(t, "sign")
       \/ /\ StorageFails
          /\ Go(t, "idle")
          /\ UNCHANGED <<rows, line>>
    /\ lock' = [lock EXCEPT ![WorkerOf[t]] = None]
    /\ aprev' = [aprev EXCEPT ![t] = Genesis]
    /\ UNCHANGED <<anchor, keys, checkpoint, verifying>>

\* _write_anchor, outside the lock: the line is signed ...
SignAnchor(t) ==
    /\ apc[t] = "sign"
    /\ lineKey' = [lineKey EXCEPT ![t] = key[WorkerOf[t]]]
    /\ Go(t, "write")
    /\ UNCHANGED <<rows, anchor, keys, lock, aprev, lineId, lineHash, checkpoint, verifying>>

\* ... and then written at the end of the file, or the write raises.
WriteAnchor(t) ==
    /\ apc[t] = "write"
    /\ \/ /\ anchorId' = lineId[t]
          /\ anchorHash' = lineHash[t]
          /\ anchorKey' = lineKey[t]
       \/ StorageFails /\ UNCHANGED anchor
    /\ Go(t, "idle")
    /\ lineId' = [lineId EXCEPT ![t] = 0]
    /\ lineHash' = [lineHash EXCEPT ![t] = Genesis]
    /\ lineKey' = [lineKey EXCEPT ![t] = 0]
    /\ UNCHANGED <<rows, keys, lock, aprev, checkpoint, verifying>>

----------------------------------------------------------------------------
(* POST /keys/rotate: rotate_server_key, then an append of its own entry *)

\* _ensure_keyset, for the key of process w: a keyset that is not there is written, or
\* opened and then not written; one that does not parse raises.
EnsureKeyset(w) ==
    /\ ~torn
    /\ \/ keyset' = (IF keyset = {} THEN {key[w]} ELSE keyset) /\ torn' = FALSE
       \/ (StorageFails \/ Crashes) /\ keyset = {} /\ keyset' = {} /\ torn' = TRUE

\* The bound: a rotation begins only when there is a key left for it.
KeyLeft == keyFile + Cardinality({t \in Appenders : apc[t] = "replace"}) < MaxKeys

BeginRotation(t) ==
    /\ apc[t] = "idle" /\ Room /\ KeyLeft
    /\ EnsureKeyset(WorkerOf[t])
    /\ IF torn' THEN UNCHANGED <<apc, loaded, mislaid>>
       ELSE /\ Go(t, "replace")
            /\ loaded' = [loaded EXCEPT ![t] = keyset']
            /\ mislaid' = (mislaid \/ cut \/ \E s \in Appenders : apc[s] \in Rotating)
    /\ UNCHANGED <<rows, anchor, keyFile, key, cut, lock, aprev, line, checkpoint, verifying>>

\* A rotation whose key is in use and not in the keyset.
Unrecorded == {"open", "keyset"}

\* The rotation ends where it stands: a file cannot be written.
RotationRaises(t) ==
    /\ StorageFails /\ apc[t] \in Rotating
    /\ Go(t, "idle")
    /\ loaded' = [loaded EXCEPT ![t] = {}]
    /\ cut' = (cut \/ apc[t] \in Unrecorded)
    /\ UNCHANGED <<rows, anchor, keyFile, keyset, torn, key, mislaid, lock, aprev, line,
                   checkpoint, verifying>>

\* The key file is replaced, and the process signs with the new key.  A death between the
\* two is one after both: the next start loads the key of the file.
ReplaceKey(t) ==
    /\ apc[t] = "replace"
    /\ keyFile < MaxKeys
    /\ keyFile' = keyFile + 1
    /\ key' = [key EXCEPT ![WorkerOf[t]] = keyFile + 1]
    /\ loaded' = [loaded EXCEPT ![t] = @ \cup {keyFile + 1}]
    /\ Go(t, "open")
    /\ UNCHANGED <<rows, anchor, keyset, torn, cut, mislaid, lock, aprev, line, checkpoint,
                   verifying>>

\* open(..., 'w') empties the keyset ...
OpenKeyset(t) ==
    /\ apc[t] = "open"
    /\ keyset' = {} /\ torn' = TRUE
    /\ Go(t, "keyset")
    /\ UNCHANGED <<rows, anchor, keyFile, key, loaded, cut, mislaid, lock, aprev, line,
                   checkpoint, verifying>>

\* Mutant: the keyset is written without the new key.
WriteOldKeyset(t) ==
    /\ apc[t] = "keyset"
    /\ keyset' = loaded[t] \ {keyFile} /\ torn' = FALSE
    /\ loaded' = [loaded EXCEPT ![t] = {}]
    /\ Go(t, "begin")
    /\ UNCHANGED <<rows, anchor, keyFile, key, cut, mislaid, lock, aprev, line, checkpoint,
                   verifying>>

\* ... and json.dump writes the keys that the rotation holds: over those of another
\* rotation, if that has written since, and then the file may no longer parse.
WriteKeyset(t) ==
    /\ apc[t] = "keyset"
    /\ \/ keyset' = loaded[t] /\ torn' = FALSE
       \/ ~torn /\ keyset' = {} /\ torn' = TRUE
    /\ loaded' = [loaded EXCEPT ![t] = {}]
    /\ Go(t, "begin")
    /\ UNCHANGED <<rows, anchor, keyFile, key, cut, mislaid, lock, aprev, line, checkpoint,
                   verifying>>

RotationStep(t) == ReplaceKey(t) \/ OpenKeyset(t) \/ WriteKeyset(t)

Rotation(t) == BeginRotation(t) \/ RotationStep(t) \/ RotationRaises(t)

----------------------------------------------------------------------------
(* integrity: verify_chain, then verify_anchor *)

\* crypto.all_public_keys
AllPublicKeys(w) == {key[w]} \cup keyset

\* The prev_hash that the walk expects at row i, when it starts behind row 'from'
\* with hash h.
Expected(i, from, h) ==
    LET earlier == {j \in ids : from < j /\ j < i}
    IN  IF earlier = {} THEN h ELSE hash[Highest(earlier)]

\* Mutant: the walk does not compare prev_hash.
HashesOnly(w, i, from, h) ==
    hash[i] = Hash(body[i], prev[i]) /\ signer[i] \in AllPublicKeys(w)

RowVerifies(w, i, from, h) ==
    /\ prev[i] = Expected(i, from, h)
    /\ hash[i] = Hash(body[i], prev[i])
    /\ signer[i] \in AllPublicKeys(w)

\* No row from which the walk starts is broken.
WalkVerifies(w, from, h) ==
    \A i \in ids : from < i => RowVerifies(w, i, from, h)

\* The walk over the rows behind 'from', which are one SELECT.  When it meets no
\* broken row, it advances this process's checkpoint to the last of them.
Walk(v, w, from, h) ==
    LET seen == {i \in ids : from < i}
        valid == WalkVerifies(w, from, h)
    IN  /\ chainOk' = [chainOk EXCEPT ![v] = valid]
        /\ ckptId' = [ckptId EXCEPT ![w] =
              IF ~valid THEN @ ELSE IF seen = {} THEN from ELSE Highest(seen)]
        /\ ckptHash' = [ckptHash EXCEPT ![w] =
              IF ~valid THEN @ ELSE IF seen = {} THEN h ELSE hash[Highest(seen)]]

\* The first signature that a walk comes to cannot be checked: the keyset does not parse,
\* and integrity raises.
WalkRaises(from, h) ==
    /\ torn
    /\ \E i \in ids :
          /\ from < i /\ \A j \in ids : j < i => j <= from
          /\ prev[i] = h /\ hash[i] = Hash(body[i], prev[i])

\* verify_chain starts from genesis or from the checkpoint.
VerifyChain(v) ==
    /\ vpc[v] = "idle"
    /\ \E f \in FullChoices :
          LET from == IF f THEN 0 ELSE ckptId[WorkerOf[v]]
              h == IF f THEN Genesis ELSE ckptHash[WorkerOf[v]]
          IN  /\ ~WalkRaises(from, h)
              /\ full' = [full EXCEPT ![v] = f]
              /\ Walk(v, WorkerOf[v], from, h)
    /\ vpc' = [vpc EXCEPT ![v] = "anchor"]
    /\ UNCHANGED <<rows, anchor, keys, lock, appending, read, anchorOk>>

\* verify_anchor reads the last line of the file; without one it is content.
ReadAnchor(v) ==
    /\ vpc[v] = "anchor"
    /\ \/ /\ anchorId = 0
          /\ anchorOk' = [anchorOk EXCEPT ![v] = TRUE]
          /\ vpc' = [vpc EXCEPT ![v] = "idle"]
          /\ full' = [full EXCEPT ![v] = FALSE]
          /\ UNCHANGED read
       \/ /\ anchorId # 0
          /\ readId' = [readId EXCEPT ![v] = anchorId]
          /\ readHash' = [readHash EXCEPT ![v] = anchorHash]
          /\ readKey' = [readKey EXCEPT ![v] = anchorKey]
          /\ vpc' = [vpc EXCEPT ![v] = "check"]
          /\ UNCHANGED <<full, anchorOk>>
    /\ UNCHANGED <<rows, anchor, keys, lock, appending, checkpoint, chainOk>>

\* Mutant: an anchored row that is missing is taken for one not yet there.
AnchorMatchesIfThere(w, id, h, k) ==
    k = key[w] /\ (id \in ids => hash[id] = h)

\* Signed with the key of this process, the row is there and has that hash.
AnchorMatches(w, id, h, k) ==
    /\ k = key[w]
    /\ id \in ids
    /\ hash[id] = h

CheckAnchor(v) ==
    /\ vpc[v] = "check"
    /\ anchorOk' = [anchorOk EXCEPT ![v] =
                        AnchorMatches(WorkerOf[v], readId[v], readHash[v], readKey[v])]
    /\ vpc' = [vpc EXCEPT ![v] = "idle"]
    /\ full' = [full EXCEPT ![v] = FALSE]
    /\ readId' = [readId EXCEPT ![v] = 0]
    /\ readHash' = [readHash EXCEPT ![v] = Genesis]
    /\ readKey' = [readKey EXCEPT ![v] = 0]
    /\ UNCHANGED <<rows, anchor, keys, lock, appending, checkpoint, chainOk>>

----------------------------------------------------------------------------
(* What happens to the process and to the data *)

\* A process dies between any two steps and is started again.
Restart(w) ==
    /\ Crashes
    /\ lock' = [lock EXCEPT ![w] = None]
    /\ apc' = [t \in Appenders |-> IF WorkerOf[t] = w THEN "idle" ELSE apc[t]]
    /\ aprev' = [t \in Appenders |-> IF WorkerOf[t] = w THEN Genesis ELSE aprev[t]]
    /\ lineId' = [t \in Appenders |-> IF WorkerOf[t] = w THEN 0 ELSE lineId[t]]
    /\ lineHash' = [t \in Appenders |-> IF WorkerOf[t] = w THEN Genesis ELSE lineHash[t]]
    /\ lineKey' = [t \in Appenders |-> IF WorkerOf[t] = w THEN 0 ELSE lineKey[t]]
    /\ ckptId' = [ckptId EXCEPT ![w] = 0]
    /\ ckptHash' = [ckptHash EXCEPT ![w] = Genesis]
    /\ key' = [key EXCEPT ![w] = keyFile]
    /\ loaded' = [t \in Appenders |-> IF WorkerOf[t] = w THEN {} ELSE loaded[t]]
    /\ cut' = (cut \/ \E t \in Appenders : WorkerOf[t] = w /\ apc[t] \in Unrecorded)
    /\ vpc' = [v \in Verifiers |-> IF WorkerOf[v] = w THEN "idle" ELSE vpc[v]]
    /\ full' = [v \in Verifiers |-> IF WorkerOf[v] = w THEN FALSE ELSE full[v]]
    /\ readId' = [v \in Verifiers |-> IF WorkerOf[v] = w THEN 0 ELSE readId[v]]
    /\ readHash' = [v \in Verifiers |-> IF WorkerOf[v] = w THEN Genesis ELSE readHash[v]]
    /\ readKey' = [v \in Verifiers |-> IF WorkerOf[v] = w THEN 0 ELSE readKey[v]]
    /\ UNCHANGED <<rows, anchor, keyFile, keyset, torn, mislaid, chainOk, anchorOk>>

untouched == <<lastId, prev, before, anchor, keys, lock, appending,
               checkpoint, verifying>>

\* UPDATE of a row's contents, as the tests do it.
EditRow(i) ==
    /\ body' = [body EXCEPT ![i] = 0]
    /\ UNCHANGED <<ids, hash, signer, untouched>>

\* The same with a hash that fits: the signature no longer verifies.
RewriteRow(i) ==
    /\ body' = [body EXCEPT ![i] = 0]
    /\ hash' = [hash EXCEPT ![i] = Hash(0, prev[i])]
    /\ signer' = [signer EXCEPT ![i] = 0]
    /\ UNCHANGED <<ids, untouched>>

\* DELETE of every row behind row i: the database is rolled back.
Truncate(i) ==
    /\ ids' = {j \in ids : j <= i}
    /\ UNCHANGED <<body, hash, signer, untouched>>

DeleteRow(i) ==
    /\ ids' = ids \ {i}
    /\ UNCHANGED <<body, hash, signer, untouched>>

Damage ==
    /\ Damages
    /\ \E i \in ids :
          \/ EditRow(i)
          \/ RewriteRow(i)
          \/ Truncate(i)
          \/ DeleteRow(i)

AppendStep(t) ==
    \/ RotationStep(t)
    \/ apc[t] = "begin" /\ ReadHead(t)
    \/ Insert(t)
    \/ SignAnchor(t)
    \/ WriteAnchor(t)

IntegrityStep(v) == ReadAnchor(v) \/ CheckAnchor(v)

Next ==
    \/ \E t \in Appenders :
          ReadHead(t) \/ Insert(t) \/ SignAnchor(t) \/ WriteAnchor(t) \/ Rotation(t)
    \/ \E v \in Verifiers : VerifyChain(v) \/ IntegrityStep(v)
    \/ \E w \in Workers : Restart(w)
    \/ Damage

Spec == Init /\ [][Next]_vars

\* A call that has begun goes on, and gets a lock that keeps becoming free; the
\* monitor's loop begins another check after every one.
Fairness ==
    /\ \A t \in Appenders : SF_vars(AppendStep(t))
    /\ \A v \in Verifiers : WF_vars(IntegrityStep(v)) /\ WF_vars(VerifyChain(v))

FairSpec == Spec /\ Fairness

----------------------------------------------------------------------------
(* What holds of an undamaged ledger of one process *)

\* Every row is linked to the one before it and carries the hash of its contents, whatever
\* raises, rotates or restarts (ledger.py:133-153): appends are one after the other.  It
\* verifies with a known key as long as the keyset parses and no rotation has begun beside
\* another or after one that was cut short between the key and the keyset (crypto.py:151-155).
ChainLinked ==
    \A w \in Workers, i \in ids :
        /\ prev[i] = Expected(i, 0, Genesis) /\ hash[i] = Hash(body[i], prev[i])
        /\ ~mislaid /\ ~torn => signer[i] \in AllPublicKeys(w)

\* verify_chain accepts what append wrote: an undamaged ledger is not reported broken, from
\* genesis or from a checkpoint, in the middle of a rotation or after one that was cut short
\* (ledger.py:322-349).  Only the next rotation after one cut short between the key and the
\* keyset, or one beside another, forgets a key that has signed (crypto.py:129-155).
NoChainAlarm == ~mislaid => \A v \in Verifiers : chainOk[v]

\* A checkpoint lies on the chain: its hash is the hash of its row
\* (ledger.py:345-349).
CheckpointOnChain ==
    \A w \in Workers :
        ckptHash[w] = IF ckptId[w] = 0 THEN Genesis ELSE hash[ckptId[w]]

\* As long as the key has not been rotated, verify_anchor accepts what _write_anchor
\* wrote, even the line of an earlier row (ledger.py:363-378).
NoAnchorAlarm == keyFile = 1 => \A v \in Verifiers : anchorOk[v]

----------------------------------------------------------------------------
(* What a check tells of a damaged ledger *)

\* The row has the contents it was inserted with, and no row before it is missing.
Intact(i) == body[i] = i /\ before[i] \subseteq ids

\* A verification that finds nothing vouches for all it has walked: a full walk for every
\* row, a walk from a checkpoint for the rows behind it and for the checkpoint's place in
\* the chain: they are as inserted, and none has gone missing among them
\* (ledger.py:322-349).
WalksDetect ==
    [][\A v \in Verifiers :
          vpc'[v] = "anchor" /\ vpc[v] = "idle" /\ chainOk'[v] =>
             /\ full'[v] => \A i \in ids : Intact(i)
             /\ \A i \in ids : ckptId[WorkerOf[v]] < i =>
                   /\ body[i] = i
                   /\ \A j \in before[i] : ckptId[WorkerOf[v]] < j => j \in ids]_vars

\* When the full walk and the anchor are both content, the ledger reaches as far as
\* the last anchored row and is whole up to it: a rollback behind it shows
\* (ledger.py:366-383).
IntegrityVouches ==
    \A w \in Workers :
        /\ anchorId # 0
        /\ WalkVerifies(w, 0, Genesis)
        /\ AnchorMatches(w, anchorId, anchorHash, anchorKey)
        => \A i \in before[anchorId] \cup {anchorId} : i \in ids /\ Intact(i)

----------------------------------------------------------------------------
(* Liveness *)

\* Every append that has begun ends.
AppendsEnd == \A t \in Appenders : apc[t] # "idle" ~> apc[t] = "idle"

=============================================================================
