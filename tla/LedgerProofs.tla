---------------------------- MODULE LedgerProofs ----------------------------
(***************************************************************************)
(* Proofs about the audit ledger, for any number of threads, rows and      *)
(* keys, with failing writes and restarts.                                 *)
(***************************************************************************)
EXTENDS LedgerExport, WellFoundedInduction, TLAPS

\* The last of a run of ids is its end.
LEMMA HighestOfRun ==
    ASSUME NEW m \in Nat, NEW n \in Nat, m <= n, NEW S, S = m..n
    PROVE  Highest(S) = n
<1>1. n \in S /\ \A j \in S : j <= n
  OBVIOUS
<1>2. Highest(S) \in S /\ \A j \in S : j <= Highest(S)
  BY <1>1 DEF Highest
<1>3. Highest(S) \in Nat /\ Highest(S) <= n
  BY <1>1, <1>2
<1>4. QED
  BY <1>1, <1>2, <1>3

----------------------------------------------------------------------------
(* Types *)

\* A line is made of a row that is there, and signed before it is written.
LineReady(t) ==
    /\ apc[t] \in {"sign", "write"} => lineId[t] \in Ids
    /\ apc[t] = "write" => lineKey[t] \in Keys

Typed == TypeOK /\ \A t \in Appenders : LineReady(t)

LEMMA RotationKeepsTypes ==
    ASSUME Typed, NEW t \in Appenders, Rotation(t)
    PROVE  Typed'
<1> USE LedgerAssumption
    DEF Typed, LineReady, TypeOK, rows, anchor, rotation, keys, line, read, appending, checkpoint,
        verifying, Keys, Go, AppenderPCs, Rotating
<1>1. key[WorkerOf[t]] \in Keys
  OBVIOUS
<1>2. CASE BeginRotation(t)
  <2>1. keyset' \subseteq Keys /\ torn' \in BOOLEAN
    BY <1>1, <1>2 DEF BeginRotation, EnsureKeyset
  <2>2. /\ loaded' \in [Appenders -> SUBSET Keys] /\ mislaid' \in BOOLEAN
        /\ apc' \in [Appenders -> AppenderPCs]
        /\ \A u \in Appenders : LineReady(u)'
    <3>1. CASE torn'
      BY <1>2, <3>1 DEF BeginRotation
    <3>2. CASE ~torn'
      <4>1. /\ apc' = [apc EXCEPT ![t] = "replace"]
            /\ loaded' = [loaded EXCEPT ![t] = keyset']
            /\ mislaid' \in BOOLEAN /\ UNCHANGED line
        BY <1>2, <3>2 DEF BeginRotation
      <4>2. QED BY <2>1, <4>1
    <3>3. QED BY <2>1, <3>1, <3>2
  <2>3. UNCHANGED <<rows, anchor, keyFile, key, cut, lock, aprev, line, checkpoint, verifying>>
    BY <1>2 DEF BeginRotation
  <2>4. QED BY <2>1, <2>2, <2>3
<1>3. CASE RotationRaises(t)
  <2>1. /\ loaded' \in [Appenders -> SUBSET Keys] /\ cut' \in BOOLEAN
        /\ apc' \in [Appenders -> AppenderPCs]
        /\ \A u \in Appenders : LineReady(u)'
    BY <1>3 DEF RotationRaises
  <2>2. QED BY <1>3, <2>1 DEF RotationRaises
<1>4. CASE ReplaceKey(t)
  <2>1. keyFile + 1 \in Keys
    BY <1>4 DEF ReplaceKey
  <2>2. /\ keyFile' \in Keys /\ key' \in [Workers -> Keys]
        /\ loaded' \in [Appenders -> SUBSET Keys]
        /\ apc' \in [Appenders -> AppenderPCs]
        /\ \A u \in Appenders : LineReady(u)'
    BY <1>4, <2>1 DEF ReplaceKey
  <2>3. QED BY <1>4, <2>2 DEF ReplaceKey
<1>5. CASE OpenKeyset(t)
  BY <1>5 DEF OpenKeyset
<1>6. CASE WriteKeyset(t)
  BY <1>6 DEF WriteKeyset
<1>7. QED
  BY <1>2, <1>3, <1>4, <1>5, <1>6 DEF Rotation, RotationStep

LEMMA InsertKeepsIds ==
    ASSUME NEW t, NEW id \in Ids, ids \subseteq Ids, InsertRow(t, id)
    PROVE  ids' \subseteq Ids /\ lastId' \in 0..MaxEntries /\ ids \in SUBSET Ids
<1>1. ids' = ids \cup {id} /\ lastId' = id
  BY DEF InsertRow
<1>2. id \in 0..MaxEntries
  BY LedgerAssumption DEF Ids
<1>3. QED BY <1>1, <1>2

LEMMA AppendKeepsTypes ==
    ASSUME Typed, NEW t \in Appenders,
           ReadHead(t) \/ Insert(t) \/ SignAnchor(t) \/ WriteAnchor(t) \/ Rotation(t)
    PROVE  Typed'
<1> USE LedgerAssumption
    DEF Typed, LineReady, TypeOK, rows, anchor, rotation, keys, line, read, appending,
        checkpoint, verifying, Ids, Keys, Go, AppenderPCs
<1>1. CASE ReadHead(t)
  BY <1>1 DEF ReadHead
<1>2. CASE Insert(t)
  <2> DEFINE id == lastId + 1
  <2>1. id \in Ids /\ key[WorkerOf[t]] \in 0..MaxKeys
    BY <1>2 DEF Insert
  <2>2. CASE InsertRow(t, id) /\ PrepareLine(t, id) /\ Go(t, "sign")
    <3> HIDE DEF id
    <3>1. ids' \subseteq Ids /\ lastId' \in 0..MaxEntries /\ ids \in SUBSET Ids
      <4>1. ids \subseteq Ids
        OBVIOUS
      <4>2. QED
        <5> HIDE DEF Typed, TypeOK, LineReady, Ids
        <5>1. QED BY <2>1, <2>2, <4>1, InsertKeepsIds
    <3>2. body' \in [Ids -> 0..MaxEntries]
      BY <2>1, <2>2 DEF InsertRow
    <3>3. signer' \in [Ids -> 0..MaxKeys]
      BY <2>1, <2>2 DEF InsertRow
    <3>4. before' \in [Ids -> SUBSET Ids]
      <4>1. before' = [before EXCEPT ![id] = ids] /\ before \in [Ids -> SUBSET Ids]
        BY <2>2 DEF InsertRow
      <4>2. QED BY <2>1, <3>1, <4>1
    <3>5. DOMAIN prev' = Ids /\ DOMAIN hash' = Ids
      BY <2>1, <2>2 DEF InsertRow
    <3>6. lineId' \in [Appenders -> 0..MaxEntries] /\ DOMAIN lineHash' = Appenders
      BY <2>1, <2>2 DEF PrepareLine
    <3>7. lineKey' = lineKey
      BY <2>2 DEF PrepareLine
    <3>8. \A u \in Appenders : LineReady(u)'
      BY <2>1, <2>2, <3>7 DEF PrepareLine
    <3>9. lock' \in [Workers -> Appenders \cup {None}]
      BY <1>2 DEF Insert
    <3>10. apc' \in [Appenders -> AppenderPCs]
      BY <2>2
    <3>11. DOMAIN aprev' = Appenders /\ UNCHANGED <<anchor, keys, checkpoint, verifying>>
      BY <1>2 DEF Insert
    <3>12. QED
      BY <3>1, <3>2, <3>3, <3>4, <3>5, <3>6, <3>7, <3>8, <3>9, <3>10, <3>11
  <2>3. CASE UNCHANGED <<rows, line>> /\ Go(t, "idle")
    BY <1>2, <2>3 DEF Insert
  <2>4. QED BY <1>2, <2>2, <2>3 DEF Insert
<1>3. CASE SignAnchor(t)
  <2>1. key[WorkerOf[t]] \in Keys
    OBVIOUS
  <2>2. lineKey' \in [Appenders -> 0..MaxKeys] /\ apc' \in [Appenders -> AppenderPCs]
    BY <1>3, <2>1 DEF SignAnchor
  <2>3. \A u \in Appenders : LineReady(u)'
    BY <1>3, <2>1 DEF SignAnchor
  <2>4. UNCHANGED <<rows, anchor, keys, lock, aprev, lineId, lineHash, checkpoint, verifying>>
    BY <1>3 DEF SignAnchor
  <2>5. QED BY <2>2, <2>3, <2>4
<1>4. CASE WriteAnchor(t)
  <2>1. anchorId' \in 0..MaxEntries /\ (anchorId' # 0 => anchorKey' \in Keys)
    <3>1. lineId[t] \in Ids /\ lineKey[t] \in Keys
      BY <1>4 DEF WriteAnchor
    <3>2. CASE UNCHANGED anchor
      BY <3>2
    <3>3. CASE anchorId' = lineId[t] /\ anchorKey' = lineKey[t]
      BY <3>1, <3>3
    <3>4. QED BY <1>4, <3>2, <3>3 DEF WriteAnchor
  <2>2. /\ apc' \in [Appenders -> AppenderPCs]
        /\ lineId' \in [Appenders -> 0..MaxEntries]
        /\ lineKey' \in [Appenders -> 0..MaxKeys]
        /\ DOMAIN lineHash' = Appenders
    BY <1>4 DEF WriteAnchor
  <2>3. \A u \in Appenders : LineReady(u)'
    BY <1>4 DEF WriteAnchor
  <2>4. UNCHANGED <<rows, keys, lock, aprev, checkpoint, verifying>>
    BY <1>4 DEF WriteAnchor
  <2>5. QED BY <2>1, <2>2, <2>3, <2>4
<1>5. CASE Rotation(t)
  BY <1>5, RotationKeepsTypes
<1>6. QED
  BY <1>1, <1>2, <1>3, <1>4, <1>5

LEMMA CheckKeepsTypes ==
    ASSUME Typed, NEW v \in Verifiers,
           VerifyChain(v) \/ ReadAnchor(v) \/ CheckAnchor(v)
    PROVE  Typed'
<1> USE LedgerAssumption
    DEF Typed, LineReady, TypeOK, rows, anchor, rotation, keys, line, read, appending,
        checkpoint, verifying, Ids, Keys, VerifierPCs
<1>1. CASE VerifyChain(v)
  <2>1. full' \in [Verifiers -> BOOLEAN]
    BY <1>1 DEF VerifyChain
  <2>2. /\ chainOk' \in [Verifiers -> BOOLEAN]
        /\ DOMAIN ckptId' = Workers /\ DOMAIN ckptHash' = Workers
    <3>1. PICK w, from, h : Walk(v, w, from, h)
      BY <1>1 DEF VerifyChain
    <3>2. WalkVerifies(w, from, h) \in BOOLEAN
      BY DEF WalkVerifies
    <3>3. QED BY <3>1, <3>2 DEF Walk
  <2>3. vpc' \in [Verifiers -> VerifierPCs]
    BY <1>1 DEF VerifyChain
  <2>4. UNCHANGED <<rows, anchor, keys, lock, appending, read, anchorOk>>
    BY <1>1 DEF VerifyChain
  <2>5. QED BY <2>1, <2>2, <2>3, <2>4
<1>2. CASE ReadAnchor(v)
  <2>1. vpc' \in [Verifiers -> VerifierPCs] /\ anchorOk' \in [Verifiers -> BOOLEAN]
    BY <1>2 DEF ReadAnchor
  <2>full. full' \in [Verifiers -> BOOLEAN]
    BY <1>2 DEF ReadAnchor
  <2>2. \/ UNCHANGED read
        \/ /\ anchorId # 0
           /\ readId' = [readId EXCEPT ![v] = anchorId]
           /\ readHash' = [readHash EXCEPT ![v] = anchorHash]
           /\ readKey' = [readKey EXCEPT ![v] = anchorKey]
    BY <1>2 DEF ReadAnchor
  <2>3. /\ readId' \in [Verifiers -> 0..MaxEntries] /\ DOMAIN readHash' = Verifiers
        /\ readKey' \in [Verifiers -> 0..MaxKeys]
    <3>1. anchorId # 0 => anchorKey \in 0..MaxKeys
      OBVIOUS
    <3>2. CASE UNCHANGED read
      BY <3>2
    <3>3. CASE /\ anchorId # 0
               /\ readId' = [readId EXCEPT ![v] = anchorId]
               /\ readHash' = [readHash EXCEPT ![v] = anchorHash]
               /\ readKey' = [readKey EXCEPT ![v] = anchorKey]
      <4>1. readId' \in [Verifiers -> 0..MaxEntries]
        BY <3>3
      <4>2. readKey' \in [Verifiers -> 0..MaxKeys]
        BY <3>1, <3>3
      <4>3. DOMAIN readHash' = Verifiers
        BY <3>3
      <4>4. QED BY <4>1, <4>2, <4>3
    <3>4. QED BY <2>2, <3>2, <3>3
  <2>4. UNCHANGED <<rows, anchor, keys, lock, appending, checkpoint, chainOk>>
    BY <1>2 DEF ReadAnchor
  <2>5. QED BY <2>1, <2>2, <2>3, <2>4, <2>full
<1>3. CASE CheckAnchor(v)
  <2>1. \A w, id, h, k : AnchorMatches(w, id, h, k) \in BOOLEAN
    BY DEF AnchorMatches
  <2>2. /\ anchorOk' \in [Verifiers -> BOOLEAN] /\ vpc' \in [Verifiers -> VerifierPCs]
        /\ full' \in [Verifiers -> BOOLEAN]
    BY <1>3, <2>1 DEF CheckAnchor
  <2>3. /\ readId' \in [Verifiers -> 0..MaxEntries]
        /\ readKey' \in [Verifiers -> 0..MaxKeys]
        /\ DOMAIN readHash' = Verifiers
    BY <1>3 DEF CheckAnchor
  <2>4. UNCHANGED <<rows, anchor, keys, lock, appending, checkpoint, chainOk>>
    BY <1>3 DEF CheckAnchor
  <2>5. QED BY <2>2, <2>3, <2>4
<1>4. QED
  BY <1>1, <1>2, <1>3

LEMMA TypesAreInductive == Typed /\ [Next]_vars => Typed'
<1> SUFFICES ASSUME Typed, [Next]_vars PROVE Typed'
  OBVIOUS
<1> USE LedgerAssumption
    DEF Typed, LineReady, TypeOK, rows, anchor, rotation, keys, line, read, appending,
        checkpoint, verifying, Ids, Keys
<1>1. ASSUME NEW t \in Appenders,
             ReadHead(t) \/ Insert(t) \/ SignAnchor(t) \/ WriteAnchor(t) \/ Rotation(t)
      PROVE  Typed'
  BY <1>1, AppendKeepsTypes
<1>2. ASSUME NEW v \in Verifiers, VerifyChain(v) \/ IntegrityStep(v) PROVE Typed'
  BY <1>2, CheckKeepsTypes DEF IntegrityStep
<1>3. ASSUME NEW w \in Workers, Restart(w) PROVE Typed'
  <2>1. /\ lock' \in [Workers -> Appenders \cup {None}]
        /\ apc' \in [Appenders -> AppenderPCs] /\ DOMAIN aprev' = Appenders
        /\ lineId' \in [Appenders -> 0..MaxEntries] /\ DOMAIN lineHash' = Appenders
        /\ lineKey' \in [Appenders -> 0..MaxKeys]
        /\ \A t \in Appenders : LineReady(t)'
    BY <1>3 DEF Restart, AppenderPCs
  <2>2. /\ DOMAIN ckptId' = Workers /\ DOMAIN ckptHash' = Workers
        /\ key' \in [Workers -> Keys] /\ loaded' \in [Appenders -> SUBSET Keys]
        /\ cut' \in BOOLEAN
    BY <1>3 DEF Restart
  <2>3. vpc' \in [Verifiers -> VerifierPCs] /\ full' \in [Verifiers -> BOOLEAN]
    BY <1>3 DEF Restart, VerifierPCs
  <2>4. /\ readId' \in [Verifiers -> 0..MaxEntries] /\ DOMAIN readHash' = Verifiers
        /\ readKey' \in [Verifiers -> 0..MaxKeys]
    BY <1>3 DEF Restart
  <2>5. UNCHANGED <<rows, anchor, keyFile, keyset, torn, mislaid, chainOk, anchorOk>>
    BY <1>3 DEF Restart
  <2>6. QED BY <2>1, <2>2, <2>3, <2>4, <2>5
<1>4. CASE Damage
  <2>1. PICK i \in ids : EditRow(i) \/ RewriteRow(i) \/ Truncate(i) \/ DeleteRow(i)
    BY <1>4 DEF Damage
  <2>2. CASE EditRow(i)
    BY <2>2, SMTT(30) DEF EditRow, untouched
  <2>3. CASE RewriteRow(i)
    <3>1. body' \in [Ids -> 0..MaxEntries]
      <4>1. body' = [body EXCEPT ![i] = 0] /\ 0 \in 0..MaxEntries
        BY <2>3 DEF RewriteRow
      <4>2. QED BY <4>1
    <3>2. signer' \in [Ids -> 0..MaxKeys]
      BY <2>3 DEF RewriteRow
    <3>3. DOMAIN hash' = Ids
      BY <2>3 DEF RewriteRow
    <3>4. UNCHANGED <<ids, untouched>>
      BY <2>3 DEF RewriteRow
    <3>5. QED BY <3>1, <3>2, <3>3, <3>4 DEF untouched
  <2>4. CASE Truncate(i)
    BY <2>4 DEF Truncate, untouched
  <2>5. CASE DeleteRow(i)
    BY <2>5 DEF DeleteRow, untouched
  <2>6. QED BY <2>1, <2>2, <2>3, <2>4, <2>5
<1>5. CASE UNCHANGED vars
  BY <1>5 DEF vars
<1>6. QED
  BY <1>1, <1>2, <1>3, <1>4, <1>5 DEF Next

LEMMA TypedStarts == Init => Typed
<1> SUFFICES ASSUME Init PROVE Typed
  OBVIOUS
<1>1. 0 \in 0..MaxEntries /\ 0 \in 0..MaxKeys /\ 1 \in Keys
  BY LedgerAssumption DEF Keys
<1>2. /\ ids \subseteq Ids /\ lastId \in 0..MaxEntries
      /\ body \in [Ids -> 0..MaxEntries] /\ signer \in [Ids -> 0..MaxKeys]
      /\ before \in [Ids -> SUBSET Ids]
      /\ DOMAIN prev = Ids /\ DOMAIN hash = Ids
  BY <1>1 DEF Init
<1>3. /\ anchorId \in 0..MaxEntries /\ (anchorId # 0 => anchorKey \in Keys)
      /\ keyFile \in Keys /\ keyset \subseteq Keys /\ key \in [Workers -> Keys]
      /\ torn \in BOOLEAN /\ cut \in BOOLEAN /\ mislaid \in BOOLEAN
      /\ loaded \in [Appenders -> SUBSET Keys]
      /\ lock \in [Workers -> Appenders \cup {None}]
  BY <1>1 DEF Init
<1>4. /\ apc \in [Appenders -> AppenderPCs] /\ DOMAIN aprev = Appenders
      /\ lineId \in [Appenders -> 0..MaxEntries] /\ DOMAIN lineHash = Appenders
      /\ lineKey \in [Appenders -> 0..MaxKeys]
      /\ \A t \in Appenders : LineReady(t)
  BY <1>1 DEF Init, AppenderPCs, LineReady
<1>5. /\ DOMAIN ckptId = Workers /\ DOMAIN ckptHash = Workers
      /\ vpc \in [Verifiers -> VerifierPCs] /\ full \in [Verifiers -> BOOLEAN]
      /\ readId \in [Verifiers -> 0..MaxEntries] /\ DOMAIN readHash = Verifiers
      /\ readKey \in [Verifiers -> 0..MaxKeys]
      /\ chainOk \in [Verifiers -> BOOLEAN] /\ anchorOk \in [Verifiers -> BOOLEAN]
  BY <1>1 DEF Init, VerifierPCs
<1>6. QED
  BY <1>2, <1>3, <1>4, <1>5 DEF Typed, TypeOK

\* Every variable keeps its type, also in a damaged ledger (ledger.py:125-391).
THEOREM TypeCorrect == Spec => []TypeOK
<1>1. Init => Typed
  BY TypedStarts
<1>2. Typed => TypeOK
  BY DEF Typed
<1>3. QED
  BY <1>1, <1>2, TypesAreInductive, PTL DEF Spec

----------------------------------------------------------------------------
(* One process and an undamaged ledger: the chain is linked *)

\* The only process is p; rows may be edited, rewritten and deleted.
Single(p) == Workers = {p}

\* The same, and nobody edits rows by hand.
Alone(p) == Single(p) /\ ~Damages

\* The hash of the last of the rows 1..n.
HashAt(n) == IF n = 0 THEN Genesis ELSE hash[n]

RowLinked(i) ==
    /\ prev[i] = HashAt(i - 1)
    /\ hash[i] = Hash(body[i], prev[i])

\* Whoever inserts holds the lock and has the hash of the last row.
HeadKnown(p, t) == apc[t] = "insert" => lock[p] = t /\ aprev[t] = HashAt(lastId)

\* The keyset while no rotation has forgotten a key: one rotation at a time goes from the key
\* to the keyset, and holds what it is to write; before and after it, if none was cut short,
\* the keyset has the key in use.
KeysetInv ==
    /\ \A t, u \in Appenders : apc[t] \in Rotating /\ apc[u] \in Rotating => t = u
    /\ \A t \in Appenders :
          /\ apc[t] = "replace" => ~torn /\ keyFile \in keyset /\ loaded[t] = keyset
          /\ apc[t] = "open" => ~torn /\ keyset # {} /\ keyset \cup {keyFile} \subseteq loaded[t]
          /\ apc[t] = "keyset" => torn /\ keyFile \in loaded[t]
    /\ \/ torn \/ cut \/ keyset = {} \/ keyFile \in keyset
       \/ \E t \in Appenders : apc[t] = "open"

KeyInv(p) ==
    /\ Typed
    /\ key[p] = keyFile
    /\ torn => keyset = {}
    /\ keyset \subseteq 1..keyFile
    /\ \A t \in Appenders : loaded[t] \subseteq 1..keyFile
    /\ ~mislaid => KeysetInv

\* A key that has signed is in use, in the keyset, or held by the rotation that writes it.
SignerKept(i) ==
    ~mislaid => /\ ~torn => signer[i] \in {keyFile} \cup keyset
                /\ \A t \in Appenders : apc[t] = "keyset" => signer[i] \in loaded[t]

ChainInv(p) ==
    /\ KeyInv(p)
    /\ ids = 1..lastId
    /\ \A i \in ids : RowLinked(i) /\ SignerKept(i)
    /\ \A t \in Appenders : HeadKnown(p, t)
    /\ ckptId[p] \in 0..lastId /\ ckptHash[p] = HashAt(ckptId[p])
    /\ NoChainAlarm

----------------------------------------------------------------------------
(* One process: the key and the keyset, whatever is done to the rows *)

\* A rotation leaves the rows, and the appends that are under way.
LEMMA RotationLeaves ==
    ASSUME Typed, NEW t \in Appenders, Rotation(t)
    PROVE  /\ UNCHANGED <<rows, anchor, lock, aprev, line, checkpoint, verifying>>
           /\ \A u \in Appenders : apc'[u] \in {"insert", "sign", "write"} => apc[u] = apc'[u]
<1> USE DEF Typed, TypeOK, Go
<1>1. CASE BeginRotation(t)
  BY <1>1 DEF BeginRotation
<1>2. CASE RotationRaises(t)
  BY <1>2 DEF RotationRaises
<1>3. CASE RotationStep(t)
  BY <1>3 DEF RotationStep, ReplaceKey, OpenKeyset, WriteKeyset
<1>4. QED BY <1>1, <1>2, <1>3 DEF Rotation

LEMMA EnsureKeepsKeys ==
    ASSUME NEW p, KeyInv(p), EnsureKeyset(p), Typed',
           UNCHANGED <<keyFile, key, loaded, cut, mislaid, apc>>
    PROVE  /\ KeyInv(p)'
           /\ \A i : SignerKept(i) /\ signer'[i] = signer[i] => SignerKept(i)'
<1>1. \/ keyset' = keyset /\ ~torn' /\ ~torn
      \/ keyset = {} /\ ~torn /\ keyset' = {keyFile} /\ ~torn'
      \/ keyset = {} /\ ~torn /\ keyset' = {} /\ torn'
  BY DEF EnsureKeyset, KeyInv
<1>2. keyFile \in Nat \ {0}
  BY LedgerAssumption DEF KeyInv, Typed, TypeOK, Keys
<1>3. keyset = {} /\ ~torn /\ ~mislaid => \A t \in Appenders : apc[t] \notin Rotating
  BY DEF KeyInv, KeysetInv, Rotating
<1>4. KeyInv(p)'
  <2>1. ~mislaid' => KeysetInv'
    <3>1. CASE keyset' = keyset /\ ~torn' /\ ~torn
      BY <3>1 DEF KeyInv, KeysetInv
    <3>2. CASE keyset = {} /\ ~torn
      <4>1. ~mislaid' => \A t \in Appenders : apc'[t] \notin Rotating
        BY <1>3, <3>2
      <4>2. torn' \/ keyset' = {} \/ keyFile' \in keyset'
        BY <1>1, <3>2
      <4>3. QED BY <4>1, <4>2 DEF KeysetInv, Rotating
    <3>3. QED BY <1>1, <3>1, <3>2
  <2>2. keyset' \subseteq 1..keyFile' /\ (torn' => keyset' = {})
    <3>1. keyset \subseteq 1..keyFile /\ {keyFile} \subseteq 1..keyFile /\ keyFile' = keyFile
      BY <1>2 DEF KeyInv
    <3>2. QED BY <1>1, <3>1
  <2>3. QED BY <2>1, <2>2 DEF KeyInv
<1>5. ASSUME NEW i, SignerKept(i), signer'[i] = signer[i] PROVE SignerKept(i)'
  BY <1>1, <1>3, <1>5 DEF SignerKept, Rotating
<1>6. QED BY <1>4, <1>5

LEMMA RotationKeepsKeys ==
    ASSUME NEW p, Single(p), KeyInv(p), NEW t \in Appenders, Rotation(t)
    PROVE  /\ KeyInv(p)'
           /\ \A i : SignerKept(i) => SignerKept(i)'
<1>0. /\ WorkerOf[t] = p /\ p \in Workers /\ keyFile \in Nat \ {0}
      /\ key \in [Workers -> Keys] /\ apc \in [Appenders -> AppenderPCs]
      /\ loaded \in [Appenders -> SUBSET Keys] /\ UNCHANGED signer
  BY LedgerAssumption, RotationLeaves DEF Single, KeyInv, Typed, TypeOK, Keys, rows
<1>1. Typed'
  BY RotationKeepsTypes DEF KeyInv
<1> USE DEF Go, Rotating
<1>2. CASE BeginRotation(t)
  <2>1. CASE torn'
    <3>1. UNCHANGED <<keyFile, key, loaded, cut, mislaid, apc>> /\ EnsureKeyset(p)
      BY <1>0, <1>2, <2>1 DEF BeginRotation
    <3>2. QED BY <1>0, <1>1, <3>1, EnsureKeepsKeys
  <2>2. CASE ~torn'
    <3>1. /\ UNCHANGED <<keyFile, key, cut>>
          /\ keyset' = (IF keyset = {} THEN {keyFile} ELSE keyset) /\ ~torn /\ ~torn'
      BY <1>0, <1>2, <2>2 DEF BeginRotation, EnsureKeyset, KeyInv
    <3>2. /\ apc'[t] = "replace" /\ loaded'[t] = keyset'
          /\ \A u \in Appenders \ {t} : apc'[u] = apc[u] /\ loaded'[u] = loaded[u]
          /\ ~mislaid' => ~mislaid /\ ~cut /\ \A u \in Appenders : apc[u] \notin Rotating
      BY <1>0, <1>2, <2>2 DEF BeginRotation
    <3>3. /\ keyset' \subseteq 1..keyFile
          /\ \A u \in Appenders : loaded'[u] \subseteq 1..keyFile
      BY <1>0, <3>1, <3>2 DEF KeyInv
    <3>4. ~mislaid' => keyFile \in keyset'
      BY <3>1, <3>2 DEF KeyInv, KeysetInv
    <3>5. ~mislaid' => KeysetInv'
      BY <3>1, <3>2, <3>4 DEF KeysetInv
    <3>6. KeyInv(p)'
      BY <1>1, <3>1, <3>3, <3>5 DEF KeyInv
    <3>7. ASSUME NEW i, SignerKept(i) PROVE SignerKept(i)'
      BY <1>0, <3>1, <3>2, <3>7 DEF SignerKept
    <3>8. QED BY <3>6, <3>7
  <2>3. QED BY <2>1, <2>2
<1>3. CASE RotationRaises(t)
  <2>1. /\ UNCHANGED <<keyFile, keyset, torn, key, mislaid>> /\ apc[t] \in Rotating
        /\ apc'[t] = "idle" /\ loaded'[t] = {} /\ cut' = (cut \/ apc[t] \in Unrecorded)
        /\ \A u \in Appenders \ {t} : apc'[u] = apc[u] /\ loaded'[u] = loaded[u]
    BY <1>0, <1>3 DEF RotationRaises
  <2>2. ~mislaid' => KeysetInv'
    BY <2>1 DEF KeyInv, KeysetInv, Unrecorded
  <2>3. KeyInv(p)'
    BY <1>1, <2>1, <2>2 DEF KeyInv
  <2>4. ASSUME NEW i, SignerKept(i) PROVE SignerKept(i)'
    BY <1>0, <2>1, <2>4 DEF SignerKept
  <2>5. QED BY <2>3, <2>4
<1>4. CASE ReplaceKey(t)
  <2>1. /\ UNCHANGED <<keyset, torn, cut, mislaid>> /\ apc[t] = "replace" /\ apc'[t] = "open"
        /\ keyFile' = keyFile + 1 /\ key'[p] = keyFile + 1
        /\ loaded'[t] = loaded[t] \cup {keyFile + 1}
        /\ \A u \in Appenders \ {t} : apc'[u] = apc[u] /\ loaded'[u] = loaded[u]
    BY <1>0, <1>4 DEF ReplaceKey
  <2>2. ~mislaid => /\ ~torn /\ keyFile \in keyset /\ loaded[t] = keyset
                    /\ \A u \in Appenders \ {t} : apc[u] \notin Rotating
    BY <2>1 DEF KeyInv, KeysetInv
  <2>3. ~mislaid' => KeysetInv'
    BY <2>1, <2>2 DEF KeysetInv
  <2>4. /\ keyset' \subseteq 1..keyFile'
        /\ \A u \in Appenders : loaded'[u] \subseteq 1..keyFile'
    <3>1. 1..keyFile \subseteq 1..(keyFile + 1) /\ keyFile + 1 \in 1..(keyFile + 1)
      BY <1>0
    <3>2. QED BY <2>1, <3>1 DEF KeyInv
  <2>5. KeyInv(p)'
    BY <1>1, <2>1, <2>3, <2>4 DEF KeyInv
  <2>6. ASSUME NEW i, SignerKept(i) PROVE SignerKept(i)'
    BY <1>0, <2>1, <2>2, <2>6 DEF SignerKept
  <2>7. QED BY <2>5, <2>6
<1>5. CASE OpenKeyset(t)
  <2>1. /\ UNCHANGED <<keyFile, key, loaded, cut, mislaid>> /\ apc[t] = "open"
        /\ apc'[t] = "keyset" /\ keyset' = {} /\ torn'
        /\ \A u \in Appenders \ {t} : apc'[u] = apc[u]
    BY <1>0, <1>5 DEF OpenKeyset
  <2>2. ~mislaid => /\ ~torn /\ keyset \cup {keyFile} \subseteq loaded[t]
                    /\ \A u \in Appenders \ {t} : apc[u] \notin Rotating
    BY <2>1 DEF KeyInv, KeysetInv
  <2>3. KeyInv(p)'
    BY <1>1, <2>1, <2>2 DEF KeyInv, KeysetInv
  <2>4. ASSUME NEW i, SignerKept(i) PROVE SignerKept(i)'
    BY <1>0, <2>1, <2>2, <2>4 DEF SignerKept
  <2>5. QED BY <2>3, <2>4
<1>6. CASE WriteKeyset(t)
  <2>1. /\ UNCHANGED <<keyFile, key, cut, mislaid>> /\ apc[t] = "keyset" /\ apc'[t] = "begin"
        /\ loaded'[t] = {}
        /\ \A u \in Appenders \ {t} : apc'[u] = apc[u] /\ loaded'[u] = loaded[u]
        /\ \/ keyset' = loaded[t] /\ ~torn'
           \/ ~torn /\ keyset' = {} /\ torn'
    BY <1>0, <1>6 DEF WriteKeyset
  <2>2. ~mislaid => /\ torn /\ keyFile \in loaded[t]
                    /\ \A u \in Appenders \ {t} : apc[u] \notin Rotating
    BY <2>1 DEF KeyInv, KeysetInv
  <2>3. KeyInv(p)'
    BY <1>0, <1>1, <2>1, <2>2 DEF KeyInv, KeysetInv
  <2>4. ASSUME NEW i, SignerKept(i) PROVE SignerKept(i)'
    BY <1>0, <2>1, <2>2, <2>4 DEF SignerKept
  <2>5. QED BY <2>3, <2>4
<1>7. QED
  BY <1>2, <1>3, <1>4, <1>5, <1>6 DEF Rotation, RotationStep

\* What neither rotates nor touches the keys keeps them; a row it inserts is signed with the
\* key in use.
LEMMA OthersKeepKeys ==
    ASSUME NEW p, KeyInv(p), Typed', UNCHANGED keys,
           \A u \in Appenders : apc'[u] = apc[u] \/ {apc[u], apc'[u]} \cap Rotating = {}
    PROVE  /\ KeyInv(p)'
           /\ \A i : \/ SignerKept(i) /\ signer'[i] = signer[i]
                     \/ signer'[i] = keyFile
                     => SignerKept(i)'
<1> USE DEF keys, rotation, Rotating
<1>1. \A u \in Appenders :
        /\ apc'[u] \in Rotating \/ apc[u] \in Rotating => apc'[u] = apc[u]
        /\ \A pc \in Rotating : apc'[u] = pc <=> apc[u] = pc
  OBVIOUS
<1>2. UNCHANGED <<keyFile, keyset, torn, key, loaded, cut, mislaid>>
  OBVIOUS
<1>3. KeyInv(p)'
  BY <1>1, <1>2 DEF KeyInv, KeysetInv
<1>4. ASSUME NEW i, SignerKept(i) /\ signer'[i] = signer[i] PROVE SignerKept(i)'
  BY <1>1, <1>2, <1>4 DEF SignerKept
<1>5. ASSUME NEW i, signer'[i] = keyFile PROVE SignerKept(i)'
  BY <1>1, <1>2, <1>5 DEF SignerKept, KeyInv, KeysetInv
<1>6. QED BY <1>3, <1>4, <1>5

LEMMA RestartKeepsKeys ==
    ASSUME NEW p, Single(p), KeyInv(p), NEW w \in Workers, Restart(w), Typed'
    PROVE  /\ KeyInv(p)'
           /\ \A i : SignerKept(i) => SignerKept(i)'
<1>1. /\ w = p /\ \A t \in Appenders : WorkerOf[t] = p
      /\ key \in [Workers -> Keys] /\ keyFile \in Nat \ {0}
  BY LedgerAssumption DEF Single, KeyInv, Typed, TypeOK, Keys
<1>2. /\ UNCHANGED <<signer, keyFile, keyset, torn, mislaid>> /\ key'[p] = keyFile
      /\ \A t \in Appenders : apc'[t] = "idle" /\ loaded'[t] = {}
      /\ cut' = (cut \/ \E t \in Appenders : apc[t] \in Unrecorded)
  BY <1>1 DEF Restart, rows
<1>3. KeyInv(p)'
  BY <1>1, <1>2 DEF KeyInv, KeysetInv, Rotating, Unrecorded
<1>4. ASSUME NEW i, SignerKept(i) PROVE SignerKept(i)'
  BY <1>2, <1>4 DEF SignerKept
<1>5. QED BY <1>3, <1>4

----------------------------------------------------------------------------
(* One process and an undamaged ledger: appends and checks keep the chain linked *)

LEMMA HeadOfRun ==
    ASSUME lastId \in Nat, ids = 1..lastId
    PROVE  HeadHash = HashAt(lastId)
<1>1. CASE lastId = 0
  BY <1>1 DEF HeadHash, HashAt
<1>2. CASE lastId # 0
  <2>1. Highest(ids) = lastId
    BY <1>2, HighestOfRun
  <2>2. QED BY <1>2, <2>1 DEF HeadHash, HashAt
<1>3. QED BY <1>1, <1>2

\* From a place on the chain a row is linked to the one the walk has come from.
LEMMA LinkedRowFollows ==
    ASSUME lastId \in Nat, ids = 1..lastId, NEW from \in 0..lastId, NEW h, h = HashAt(from),
           NEW i \in ids, from < i, RowLinked(i)
    PROVE  prev[i] = Expected(i, from, h)
<1> DEFINE earlier == {j \in ids : from < j /\ j < i}
<1>1. earlier = (from + 1)..(i - 1)
  OBVIOUS
<1>2. CASE i = from + 1
  <2>1. earlier = {}
    BY <1>1, <1>2
  <2>2. Expected(i, from, h) = h
    BY <2>1 DEF Expected
  <2>3. QED BY <1>2, <2>2 DEF RowLinked
<1>3. CASE i # from + 1
  <2>1. from + 1 \in Nat /\ i - 1 \in Nat /\ from + 1 <= i - 1
    BY <1>3
  <2>2. Highest(earlier) = i - 1 /\ earlier # {}
    <3>1. Highest((from + 1)..(i - 1)) = i - 1
      BY <2>1, HighestOfRun
    <3>2. from + 1 \in (from + 1)..(i - 1)
      BY <2>1
    <3>3. QED BY <1>1, <3>1, <3>2
  <2>3. Expected(i, from, h) = hash[i - 1]
    BY <2>2 DEF Expected
  <2>4. QED BY <2>1, <2>3 DEF RowLinked, HashAt
<1>4. QED BY <1>2, <1>3

LEMMA LinkedRowsVerify ==
    ASSUME NEW p, lastId \in Nat, ids = 1..lastId,
           \A i \in ids : RowLinked(i) /\ signer[i] \in AllPublicKeys(p),
           NEW from \in 0..lastId, NEW h, h = HashAt(from)
    PROVE  WalkVerifies(p, from, h)
<1> SUFFICES ASSUME NEW i \in ids, from < i PROVE RowVerifies(p, i, from, h)
  BY DEF WalkVerifies
<1>1. prev[i] = Expected(i, from, h)
  BY LinkedRowFollows
<1>2. QED BY <1>1 DEF RowVerifies, RowLinked

LEMMA AppendKeepsChain ==
    ASSUME NEW p, Single(p), ChainInv(p), NEW t \in Appenders,
           ReadHead(t) \/ Insert(t) \/ SignAnchor(t) \/ WriteAnchor(t) \/ Rotation(t)
    PROVE  ChainInv(p)'
<1>1. Typed'
  BY AppendKeepsTypes DEF ChainInv, KeyInv
<1>2. /\ WorkerOf[t] = p /\ lastId \in Nat
      /\ DOMAIN prev = 1..MaxEntries /\ DOMAIN hash = 1..MaxEntries
      /\ body \in [1..MaxEntries -> 0..MaxEntries] /\ signer \in [1..MaxEntries -> 0..MaxKeys]
      /\ apc \in [Appenders -> AppenderPCs] /\ DOMAIN aprev = Appenders
      /\ lock \in [Workers -> Appenders \cup {None}]
      /\ p \in Workers /\ None \notin Appenders /\ MaxEntries \in Nat
      /\ key[p] = keyFile
  BY LedgerAssumption DEF Single, ChainInv, KeyInv, Typed, TypeOK, Ids
<1> USE DEF ChainInv, HeadKnown, HashAt, RowLinked, NoChainAlarm,
            rows, anchor, line, appending, checkpoint, verifying, Go
<1>3. CASE ReadHead(t)
  <2>1. aprev'[t] = HashAt(lastId) /\ lock[p] = None /\ lock'[p] = t
    BY <1>2, <1>3, HeadOfRun DEF ReadHead
  <2>2. UNCHANGED <<rows, keys, checkpoint, chainOk>>
    BY <1>3 DEF ReadHead
  <2>3. \A u \in Appenders : HeadKnown(p, u)'
    BY <1>2, <1>3, <2>1, <2>2 DEF ReadHead
  <2>4. KeyInv(p)' /\ \A i : SignerKept(i) => SignerKept(i)'
    <3>1. \A u \in Appenders : apc'[u] = apc[u] \/ {apc[u], apc'[u]} \cap Rotating = {}
      BY <1>2, <1>3 DEF ReadHead, Rotating
    <3>2. QED BY <1>1, <2>2, <3>1, OthersKeepKeys
  <2>5. mislaid' = mislaid
    BY <2>2 DEF keys
  <2>6. QED BY <2>2, <2>3, <2>4, <2>5
<1>4. CASE Insert(t)
  <2>0. PICK n \in Nat : n = lastId
    BY <1>2
  <2> DEFINE id == n + 1
  <2>1. apc[t] = "insert" /\ lock[p] = t /\ aprev[t] = HashAt(n) /\ id \in 1..MaxEntries
    BY <1>2, <1>4, <2>0 DEF Insert
  <2>2. UNCHANGED <<keys, checkpoint, chainOk>> /\ mislaid' = mislaid
    BY <1>4 DEF Insert, keys
  <2>keys. /\ KeyInv(p)'
        /\ \A i : \/ SignerKept(i) /\ signer'[i] = signer[i]
                  \/ signer'[i] = keyFile
                  => SignerKept(i)'
    <3>1. \A u \in Appenders : apc'[u] = apc[u] \/ {apc[u], apc'[u]} \cap Rotating = {}
      BY <1>2, <1>4 DEF Insert, Rotating
    <3>2. QED BY <1>1, <2>2, <3>1, OthersKeepKeys
  <2>holder. \A u \in Appenders : apc'[u] = "insert" => apc[u] = "insert" /\ u # t
    BY <1>2, <1>4 DEF Insert
  <2>3. CASE InsertRow(t, id) /\ Go(t, "sign")
    <3>1. ids' = 1..lastId' /\ lastId' = id /\ ids = 1..n
      BY <1>2, <2>0, <2>3 DEF InsertRow
    <3>2. /\ prev'[id] = HashAt(n)
          /\ hash'[id] = Hash(id, prev'[id])
          /\ body'[id] = id
          /\ signer'[id] = keyFile
      BY <1>2, <2>1, <2>3 DEF InsertRow
    <3>3. \A i \in ids : /\ prev'[i] = prev[i] /\ hash'[i] = hash[i]
                         /\ body'[i] = body[i] /\ signer'[i] = signer[i]
      BY <1>2, <2>0, <2>1, <2>3 DEF InsertRow
    <3>4. \A m \in 0..n : HashAt(m)' = HashAt(m)
      BY <2>0, <3>1, <3>3
    <3>5. \A i \in ids' : SignerKept(i)'
      <4>1. \A i \in ids' : i \in ids \/ i = id
        BY <1>2, <2>0, <2>3 DEF InsertRow
      <4> HIDE DEF id, KeyInv, ChainInv
      <4>2. \A i \in ids : SignerKept(i)
        BY DEF ChainInv
      <4>3. QED BY <2>keys, <3>2, <3>3, <4>1, <4>2
    <3>6. \A i \in ids : RowLinked(i)'
      <4> SUFFICES ASSUME NEW i \in ids PROVE RowLinked(i)'
        OBVIOUS
      <4>1. i - 1 \in 0..n /\ RowLinked(i)
        <5>1. \A j \in 1..n : j - 1 \in 0..n
          OBVIOUS
        <5>2. RowLinked(i)
          OBVIOUS
        <5> HIDE DEF ChainInv, RowLinked
        <5>3. QED BY <3>1, <5>1, <5>2
      <4>2. HashAt(i - 1)' = HashAt(i - 1)
        BY <3>4, <4>1
      <4>3. QED
        <5> HIDE DEF HashAt
        <5>1. QED BY <3>3, <4>1, <4>2
    <3>7. RowLinked(id)'
      <4>1. HashAt(id - 1)' = HashAt(n)
        <5>1. id - 1 = n /\ n \in 0..n
          OBVIOUS
        <5>2. QED
          <6> HIDE DEF HashAt
          <6>1. QED BY <3>4, <5>1
      <4>2. QED
        <5> HIDE DEF HashAt
        <5>1. QED BY <3>2, <4>1
    <3>8. \A i \in ids' : RowLinked(i)'
      <4>1. \A i \in ids' : i \in ids \/ i = id
        <5>1. \A j \in 1..(n + 1) : j \in 1..n \/ j = n + 1
          OBVIOUS
        <5> HIDE DEF ChainInv
        <5>2. QED BY <3>1, <5>1
      <4>2. QED
        <5> HIDE DEF RowLinked, id
        <5>1. QED BY <3>6, <3>7, <4>1
    <3>9. \A u \in Appenders : apc'[u] # "insert"
      BY <1>2, <2>1, <2>3
    <3>10. PICK c \in 0..n : c = ckptId[p]
      BY <2>0
    <3>11. ckptId'[p] \in 0..lastId' /\ ckptHash'[p] = HashAt(c)'
      <4> HIDE DEF HashAt
      <4>1. QED BY <2>2, <3>1, <3>4, <3>10
    <3>12. QED
      <4>1. ckptHash'[p] = HashAt(ckptId[p])'
        BY <2>2, <3>10, <3>11
      <4> HIDE DEF RowLinked, HashAt
      <4>2. QED BY <2>2, <2>keys, <3>1, <3>5, <3>8, <3>9, <3>11, <4>1
  <2>4. CASE UNCHANGED rows /\ Go(t, "idle")
    <3>1. \A u \in Appenders : ~(apc'[u] = "insert")
      BY <1>2, <2>1, <2>holder
    <3>2. QED BY <2>2, <2>4, <2>keys, <3>1
  <2>5. QED BY <1>4, <2>0, <2>3, <2>4 DEF Insert
<1>5. CASE SignAnchor(t) \/ WriteAnchor(t)
  <2>1. \A u \in Appenders : apc'[u] = "insert" => apc[u] = "insert"
    BY <1>2, <1>5 DEF SignAnchor, WriteAnchor
  <2>2. UNCHANGED <<rows, keys, lock, aprev, checkpoint, chainOk>> /\ mislaid' = mislaid
    BY <1>5 DEF SignAnchor, WriteAnchor, keys
  <2>3. KeyInv(p)' /\ \A i : SignerKept(i) => SignerKept(i)'
    <3>1. \A u \in Appenders : apc'[u] = apc[u] \/ {apc[u], apc'[u]} \cap Rotating = {}
      BY <1>2, <1>5 DEF SignAnchor, WriteAnchor, Rotating
    <3>2. QED BY <1>1, <2>2, <3>1, OthersKeepKeys
  <2>4. QED BY <2>1, <2>2, <2>3
<1>6. CASE Rotation(t)
  <2>1. /\ \A u \in Appenders : apc'[u] = "insert" => apc[u] = "insert"
        /\ UNCHANGED <<rows, lock, aprev, checkpoint, chainOk>>
    BY <1>6, RotationLeaves DEF KeyInv
  <2>2. KeyInv(p)' /\ \A i : SignerKept(i) => SignerKept(i)'
    BY <1>6, RotationKeepsKeys
  <2>3. mislaid => mislaid'
    BY <1>6 DEF Rotation, RotationStep, BeginRotation, RotationRaises, ReplaceKey, OpenKeyset,
                WriteKeyset
  <2>4. QED BY <2>1, <2>2, <2>3
<1>7. QED
  BY <1>3, <1>4, <1>5, <1>6

\* What leaves the rows and starts no insert keeps the chain, if it keeps the keys and
\* moves the checkpoint along the rows.
LEMMA ChainStays ==
    ASSUME NEW p, ChainInv(p), KeyInv(p)', \A i : SignerKept(i) => SignerKept(i)',
           UNCHANGED rows,
           \A t \in Appenders : apc'[t] = "insert" =>
               apc[t] = "insert" /\ lock'[p] = lock[p] /\ aprev'[t] = aprev[t],
           ckptId'[p] \in 0..lastId, ckptHash'[p] = HashAt(ckptId'[p]),
           NoChainAlarm'
    PROVE  ChainInv(p)'
<1>1. UNCHANGED <<ids, lastId, body, prev, hash>>
  BY DEF rows
<1>2. \A i \in ids' : RowLinked(i)' /\ SignerKept(i)'
  BY <1>1 DEF ChainInv, RowLinked, HashAt
<1>3. \A t \in Appenders : HeadKnown(p, t)'
  BY <1>1 DEF ChainInv, HeadKnown, HashAt
<1>4. ckptHash'[p] = HashAt(ckptId[p])'
  BY <1>1 DEF HashAt
<1>5. QED
  BY <1>1, <1>2, <1>3, <1>4 DEF ChainInv

\* The same, when the keys, too, stay as they are.
LEMMA KeysStay ==
    ASSUME NEW p, KeyInv(p), Typed', UNCHANGED <<keys, apc, signer>>
    PROVE  KeyInv(p)' /\ \A i : SignerKept(i) => SignerKept(i)'
BY OthersKeepKeys

\* Nobody is told that the chain is broken, if the keyset parses or there is nothing to
\* look a key up for.
LEMMA ChainVerifies ==
    ASSUME NEW p, ChainInv(p), ~mislaid, NEW from \in 0..lastId, NEW h, h = HashAt(from),
           ~WalkRaises(from, h)
    PROVE  WalkVerifies(p, from, h)
<1>1. lastId \in Nat /\ ids = 1..lastId /\ key[p] = keyFile /\ torn \in BOOLEAN
  BY LedgerAssumption DEF ChainInv, KeyInv, Typed, TypeOK
<1>2. CASE ~torn
  <2>1. \A i \in ids : RowLinked(i) /\ signer[i] \in AllPublicKeys(p)
    BY <1>1, <1>2 DEF ChainInv, SignerKept, AllPublicKeys
  <2>2. QED BY <1>1, <2>1, LinkedRowsVerify
<1>3. CASE torn
  <2>1. CASE from = lastId
    BY <1>1, <2>1 DEF WalkVerifies
  <2>2. CASE from # lastId
    <3> DEFINE i == from + 1
    <3>1. i \in ids /\ from < i /\ i - 1 = from /\ \A j \in ids : j < i => j <= from
      BY <1>1, <2>2
    <3>2. RowLinked(i)
      BY <3>1 DEF ChainInv
    <3>3. prev[i] = h /\ hash[i] = Hash(body[i], prev[i])
      BY <3>1, <3>2 DEF RowLinked
    <3> HIDE DEF i
    <3>4. QED BY <1>3, <3>1, <3>3 DEF WalkRaises
  <2>3. QED BY <2>1, <2>2
<1>4. QED BY <1>1, <1>2, <1>3

LEMMA CheckKeepsChain ==
    ASSUME NEW p, Single(p), ChainInv(p), NEW v \in Verifiers,
           VerifyChain(v) \/ ReadAnchor(v) \/ CheckAnchor(v)
    PROVE  ChainInv(p)'
<1>1. Typed'
  BY CheckKeepsTypes DEF ChainInv, KeyInv
<1>2. /\ WorkerOf[v] = p /\ lastId \in Nat /\ ids = 1..lastId /\ p \in Workers
      /\ chainOk \in [Verifiers -> BOOLEAN]
      /\ DOMAIN ckptId = Workers /\ DOMAIN ckptHash = Workers
      /\ ckptId[p] \in 0..lastId /\ ckptHash[p] = HashAt(ckptId[p]) /\ NoChainAlarm
  BY LedgerAssumption DEF Single, ChainInv, KeyInv, Typed, TypeOK
<1>3. UNCHANGED <<rows, keys, lock, appending>>
  BY DEF VerifyChain, ReadAnchor, CheckAnchor
<1>4. KeyInv(p)' /\ \A i : SignerKept(i) => SignerKept(i)'
  BY <1>1, <1>3, KeysStay DEF ChainInv, rows, appending
<1>5. CASE VerifyChain(v)
  <2>1. PICK f \in FullChoices :
          /\ ~WalkRaises(IF f THEN 0 ELSE ckptId[p], IF f THEN Genesis ELSE ckptHash[p])
          /\ Walk(v, p, IF f THEN 0 ELSE ckptId[p], IF f THEN Genesis ELSE ckptHash[p])
    BY <1>2, <1>5 DEF VerifyChain
  <2> DEFINE from == IF f THEN 0 ELSE ckptId[p]
             h == IF f THEN Genesis ELSE ckptHash[p]
             seen == {i \in ids : from < i}
  <2>2. from \in 0..lastId /\ h = HashAt(from)
    BY <1>2 DEF HashAt
  <2>3. ~WalkRaises(from, h) /\ Walk(v, p, from, h)
    BY <2>1
  <2> HIDE DEF from, h
  <2>4. NoChainAlarm'
    <3>1. SUFFICES ASSUME ~mislaid PROVE \A u \in Verifiers : chainOk'[u]
      BY <1>3 DEF NoChainAlarm, keys
    <3>2. WalkVerifies(p, from, h)
      BY <2>2, <2>3, <3>1, ChainVerifies
    <3>3. WalkVerifies(p, from, h) = TRUE
      BY <3>2 DEF WalkVerifies
    <3>4. chainOk' = [chainOk EXCEPT ![v] = TRUE]
      BY <2>3, <3>3 DEF Walk
    <3>5. QED BY <1>2, <3>1, <3>4 DEF NoChainAlarm
  <2>5. ckptId'[p] \in 0..lastId /\ ckptHash'[p] = HashAt(ckptId'[p])
    <3>1. CASE ~WalkVerifies(p, from, h)
      <4>1. ckptId'[p] = ckptId[p] /\ ckptHash'[p] = ckptHash[p]
        BY <1>2, <2>3, <3>1 DEF Walk
      <4>2. QED BY <1>2, <4>1
    <3>2. CASE WalkVerifies(p, from, h) /\ seen = {}
      <4>1. ckptId'[p] = from /\ ckptHash'[p] = h
        BY <1>2, <2>3, <3>2 DEF Walk
      <4>2. QED BY <2>2, <4>1
    <3>3. CASE WalkVerifies(p, from, h) /\ seen # {}
      <4>1. seen = (from + 1)..lastId /\ from + 1 \in Nat /\ from + 1 <= lastId
        BY <1>2, <2>2, <3>3
      <4>2. Highest((from + 1)..lastId) = lastId
        BY <1>2, <4>1, HighestOfRun
      <4>3. Highest(seen) = lastId
        BY <4>1, <4>2
      <4>4. ckptId'[p] = lastId /\ ckptHash'[p] = hash[lastId]
        BY <1>2, <2>3, <3>3, <4>3 DEF Walk
      <4>5. lastId # 0
        BY <1>2, <2>2, <4>1
      <4>6. QED BY <1>2, <4>4, <4>5 DEF HashAt
    <3>4. QED BY <3>1, <3>2, <3>3
  <2>6. QED
    BY <1>3, <1>4, <2>4, <2>5, ChainStays DEF appending
<1>6. CASE ReadAnchor(v) \/ CheckAnchor(v)
  <2>1. UNCHANGED <<checkpoint, chainOk, mislaid>>
    BY <1>3, <1>6 DEF ReadAnchor, CheckAnchor, keys
  <2>2. QED
    BY <1>2, <1>3, <1>4, <2>1, ChainStays DEF appending, checkpoint, NoChainAlarm
<1>7. QED BY <1>5, <1>6

LEMMA RestartKeepsChain ==
    ASSUME NEW p, Single(p), ChainInv(p), NEW w \in Workers, Restart(w), Typed'
    PROVE  ChainInv(p)'
<1>1. /\ w = p /\ \A t \in Appenders : WorkerOf[t] = p
      /\ lastId \in Nat
      /\ DOMAIN ckptId = Workers /\ DOMAIN ckptHash = Workers
  BY LedgerAssumption DEF Single, ChainInv, KeyInv, Typed, TypeOK
<1>2. KeyInv(p)' /\ \A i : SignerKept(i) => SignerKept(i)'
  BY RestartKeepsKeys DEF ChainInv
<1>3. UNCHANGED <<rows, mislaid, chainOk>> /\ \A t \in Appenders : apc'[t] = "idle"
  BY <1>1 DEF Restart
<1>4. ckptId'[p] = 0 /\ ckptHash'[p] = Genesis
  BY <1>1 DEF Restart
<1>5. ckptId'[p] \in 0..lastId /\ ckptHash'[p] = HashAt(ckptId'[p])
  BY <1>1, <1>4 DEF HashAt
<1>6. NoChainAlarm'
  BY <1>3 DEF ChainInv, NoChainAlarm
<1>7. QED
  BY <1>2, <1>3, <1>5, <1>6, ChainStays

LEMMA StutterKeepsChain ==
    ASSUME NEW p, ChainInv(p), Typed',
           UNCHANGED <<rows, keys, lock, appending, checkpoint, chainOk>>
    PROVE  ChainInv(p)'
<1>1. KeyInv(p)' /\ \A i : SignerKept(i) => SignerKept(i)'
  BY KeysStay DEF ChainInv, rows, appending
<1>2. QED
  BY <1>1, ChainStays DEF ChainInv, NoChainAlarm, keys, appending, checkpoint

LEMMA ChainIsInductive ==
    ASSUME NEW p, Alone(p)
    PROVE  ChainInv(p) /\ [Next]_vars => ChainInv(p)'
<1> SUFFICES ASSUME ChainInv(p), [Next]_vars PROVE ChainInv(p)'
  OBVIOUS
<1>1. Typed'
  BY TypesAreInductive DEF ChainInv, KeyInv
<1>2. ASSUME NEW t \in Appenders,
             ReadHead(t) \/ Insert(t) \/ SignAnchor(t) \/ WriteAnchor(t) \/ Rotation(t)
      PROVE  ChainInv(p)'
  BY <1>2, AppendKeepsChain DEF Alone
<1>3. ASSUME NEW v \in Verifiers, VerifyChain(v) \/ IntegrityStep(v) PROVE ChainInv(p)'
  BY <1>3, CheckKeepsChain DEF Alone, IntegrityStep
<1>4. ASSUME NEW w \in Workers, Restart(w) PROVE ChainInv(p)'
  BY <1>1, <1>4, RestartKeepsChain DEF Alone
<1>5. ~Damage
  BY DEF Damage, Alone
<1>6. CASE UNCHANGED vars
  BY <1>1, <1>6, StutterKeepsChain DEF vars, verifying
<1>7. QED
  BY <1>2, <1>3, <1>4, <1>5, <1>6 DEF Next

LEMMA KeysStart ==
    ASSUME NEW p, Single(p), Init, Typed
    PROVE  KeyInv(p)
BY LedgerAssumption DEF Init, Single, KeyInv, KeysetInv, Rotating

LEMMA ChainHolds ==
    ASSUME NEW p, Alone(p)
    PROVE  Spec => []ChainInv(p)
<1>1. Init => ChainInv(p)
  <2> SUFFICES ASSUME Init PROVE ChainInv(p)
    OBVIOUS
  <2>1. Typed
    BY TypedStarts
  <2>2. ids = 1..lastId
    BY DEF Init
  <2>3. KeyInv(p)
    BY <2>1, KeysStart DEF Alone
  <2>4. QED
    BY <2>2, <2>3 DEF Init, Alone, Single, ChainInv, HeadKnown, HashAt, NoChainAlarm
<1>2. QED
  BY <1>1, ChainIsInductive, PTL DEF Spec

\* In one process the rows are one chain, through every interleaving of appends, failing
\* writes, restarts and rotations, whole ones and cut ones; and the keyset names every signer
\* until a rotation begins after one cut short between the key and the keyset, or beside
\* another (ledger.py:133-153, crypto.py:129-155).
THEOREM ChainIsLinked ==
    ASSUME NEW p, Alone(p)
    PROVE  Spec => []ChainLinked
<1>1. ChainInv(p) => ChainLinked
  <2> SUFFICES ASSUME ChainInv(p) PROVE ChainLinked
    OBVIOUS
  <2>1. /\ lastId \in Nat /\ ids = 1..lastId /\ Workers = {p} /\ key[p] = keyFile
        /\ \A i \in ids : RowLinked(i) /\ SignerKept(i)
    BY LedgerAssumption DEF ChainInv, KeyInv, Typed, TypeOK, Alone, Single
  <2>2. ASSUME NEW i \in ids PROVE prev[i] = Expected(i, 0, Genesis)
    <3>1. 0 \in 0..lastId /\ Genesis = HashAt(0)
      BY <2>1 DEF HashAt
    <3>2. QED BY <2>1, <2>2, <3>1, LinkedRowFollows
  <2>3. \A i \in ids : ~mislaid /\ ~torn => signer[i] \in AllPublicKeys(p)
    BY <2>1 DEF SignerKept, AllPublicKeys
  <2>4. QED BY <2>1, <2>2, <2>3 DEF ChainLinked, RowLinked
<1>2. QED
  BY <1>1, ChainHolds, PTL

\* In one process verify_chain calls no undamaged ledger broken, from genesis or from a
\* checkpoint, in the middle of a rotation or after a cut one, until the next rotation has
\* forgotten a key (ledger.py:315-351, crypto.py:129-155).
THEOREM ChainNeverAlarms ==
    ASSUME NEW p, Alone(p)
    PROVE  Spec => []NoChainAlarm
<1>1. ChainInv(p) => NoChainAlarm
  BY DEF ChainInv
<1>2. QED
  BY <1>1, ChainHolds, PTL

\* In one process every checkpoint lies on the chain (ledger.py:345-349).
THEOREM CheckpointsAreOnChain ==
    ASSUME NEW p, Alone(p)
    PROVE  Spec => []CheckpointOnChain
<1>1. ChainInv(p) => CheckpointOnChain
  BY DEF ChainInv, CheckpointOnChain, HashAt, Alone, Single
<1>2. QED
  BY <1>1, ChainHolds, PTL
----------------------------------------------------------------------------
(* One process and an undamaged ledger: the anchor lines name its rows *)

\* A line names a row with its hash, and key 1 has signed it while there is no other.
Named(id, h) == id \in ids /\ hash[id] = h

AnchorInv ==
    /\ \A t \in Appenders :
          /\ apc[t] \in {"sign", "write"} => Named(lineId[t], lineHash[t])
          /\ apc[t] = "write" /\ keyFile = 1 => lineKey[t] = 1
    /\ anchorId # 0 => Named(anchorId, anchorHash) /\ (keyFile = 1 => anchorKey = 1)
    /\ \A v \in Verifiers :
          vpc[v] = "check" => Named(readId[v], readHash[v]) /\ (keyFile = 1 => readKey[v] = 1)
    /\ NoAnchorAlarm

LEMMA AppendKeepsAnchor ==
    ASSUME NEW p, Alone(p), ChainInv(p), AnchorInv, NEW t \in Appenders,
           ReadHead(t) \/ Insert(t) \/ SignAnchor(t) \/ WriteAnchor(t) \/ Rotation(t)
    PROVE  AnchorInv'
<1>1. /\ WorkerOf[t] = p /\ lastId \in Nat /\ ids = 1..lastId /\ key[p] = keyFile
      /\ DOMAIN hash = Ids /\ DOMAIN apc = Appenders /\ DOMAIN lineHash = Appenders
      /\ DOMAIN lineId = Appenders /\ DOMAIN lineKey = Appenders /\ keyFile \in Nat \ {0}
  BY LedgerAssumption DEF Alone, Single, ChainInv, KeyInv, Typed, TypeOK, Keys
<1> USE DEF AnchorInv, Named, NoAnchorAlarm, Go
<1>2. CASE ReadHead(t)
  BY <1>1, <1>2 DEF ReadHead, rows, anchor, keys, rotation, line, verifying, read
<1>3. CASE Insert(t)
  <2>1. CASE InsertRow(t, lastId + 1) /\ PrepareLine(t, lastId + 1) /\ Go(t, "sign")
    <3>1. ids \subseteq ids' /\ \A i \in ids : hash'[i] = hash[i]
      BY <1>1, <2>1 DEF InsertRow
    <3>2. lastId + 1 \in ids' /\ hash'[lastId + 1] = Hash(lastId + 1, aprev[t])
      BY <1>1, <1>3, <2>1, LedgerAssumption DEF InsertRow, Insert, Ids
    <3>3. lineId'[t] = lastId + 1 /\ lineHash'[t] = Hash(lastId + 1, aprev[t])
      BY <1>1, <2>1 DEF PrepareLine
    <3>4. \A u \in Appenders \ {t} :
            apc'[u] = apc[u] /\ lineId'[u] = lineId[u] /\ lineHash'[u] = lineHash[u]
      BY <1>1, <2>1 DEF PrepareLine
    <3>5. UNCHANGED <<lineKey, anchor, keys, verifying>> /\ apc'[t] = "sign"
      <4>1. UNCHANGED <<anchor, keys, verifying>>
        BY <1>3 DEF Insert
      <4>2. lineKey' = lineKey
        BY <2>1 DEF PrepareLine
      <4>3. apc'[t] = "sign"
        BY <1>1, <2>1
      <4>4. QED BY <4>1, <4>2, <4>3
    <3>6. QED
      BY <3>1, <3>2, <3>3, <3>4, <3>5 DEF anchor, keys, rotation, verifying, read
  <2>2. CASE UNCHANGED <<rows, line>> /\ Go(t, "idle")
    BY <1>1, <1>3, <2>2 DEF Insert, rows, line, anchor, keys, rotation, verifying, read
  <2>3. QED BY <1>3, <2>1, <2>2 DEF Insert
<1>4. CASE SignAnchor(t)
  BY <1>1, <1>4 DEF SignAnchor, rows, anchor, keys, rotation, verifying, read
<1>5. CASE WriteAnchor(t)
  BY <1>1, <1>5 DEF WriteAnchor, rows, anchor, keys, rotation, verifying, read
<1>6. CASE Rotation(t)
  <2>1. /\ UNCHANGED <<rows, anchor, line, verifying>>
        /\ \A u \in Appenders : apc'[u] \in {"sign", "write"} => apc[u] = apc'[u]
    BY <1>6, RotationLeaves DEF ChainInv, KeyInv
  <2>2. keyFile' = 1 => keyFile = 1
    BY <1>1, <1>6 DEF Rotation, RotationStep, BeginRotation, RotationRaises, ReplaceKey,
                      OpenKeyset, WriteKeyset
  <2>3. QED BY <2>1, <2>2 DEF rows, anchor, line, verifying, read
<1>7. QED
  BY <1>2, <1>3, <1>4, <1>5, <1>6

LEMMA CheckKeepsAnchor ==
    ASSUME NEW p, Alone(p), ChainInv(p), AnchorInv, NEW v \in Verifiers,
           VerifyChain(v) \/ ReadAnchor(v) \/ CheckAnchor(v)
    PROVE  AnchorInv'
<1>1. /\ WorkerOf[v] = p /\ key[p] = keyFile
      /\ DOMAIN vpc = Verifiers /\ DOMAIN readId = Verifiers /\ DOMAIN readHash = Verifiers
      /\ DOMAIN readKey = Verifiers /\ DOMAIN anchorOk = Verifiers
  BY LedgerAssumption DEF Alone, Single, ChainInv, KeyInv, Typed, TypeOK
<1> USE DEF AnchorInv, Named, NoAnchorAlarm
<1>2. CASE VerifyChain(v)
  BY <1>1, <1>2 DEF VerifyChain, rows, anchor, keys, rotation, line, appending, read
<1>3. CASE ReadAnchor(v)
  BY <1>1, <1>3 DEF ReadAnchor, rows, anchor, keys, rotation, line, appending, read
<1>4. CASE CheckAnchor(v)
  BY <1>1, <1>4 DEF CheckAnchor, AnchorMatches, rows, anchor, keys, rotation, line, appending
<1>5. QED BY <1>2, <1>3, <1>4

LEMMA AnchorHolds ==
    ASSUME NEW p, Alone(p)
    PROVE  Spec => []AnchorInv
<1>1. Init => AnchorInv
  BY DEF Init, AnchorInv, NoAnchorAlarm
<1>2. ChainInv(p) /\ AnchorInv /\ [Next]_vars => AnchorInv'
  <2> SUFFICES ASSUME ChainInv(p), AnchorInv, [Next]_vars PROVE AnchorInv'
    OBVIOUS
  <2>1. ASSUME NEW w \in Workers, Restart(w) PROVE AnchorInv'
    <3>1. \A t \in Appenders : apc'[t] = "idle"
      BY <2>1, LedgerAssumption DEF Restart, Alone, Single
    <3>2. \A v \in Verifiers : vpc'[v] = "idle"
      BY <2>1, LedgerAssumption DEF Restart, Alone, Single
    <3>3. UNCHANGED <<rows, anchor, keyFile, anchorOk>>
      BY <2>1 DEF Restart
    <3>4. QED BY <3>1, <3>2, <3>3 DEF AnchorInv, Named, NoAnchorAlarm, rows, anchor
  <2>2. ~Damage
    BY DEF Damage, Alone
  <2>3. CASE UNCHANGED vars
    BY <2>3 DEF AnchorInv, Named, NoAnchorAlarm, vars, rows, anchor, keys, rotation, line,
                appending, verifying, read
  <2>4. QED
    BY <2>1, <2>2, <2>3, AppendKeepsAnchor, CheckKeepsAnchor DEF Next, IntegrityStep
<1>3. QED
  BY <1>1, <1>2, ChainHolds, PTL DEF Spec

\* In one process verify_anchor accepts every line _write_anchor has written, of whichever
\* row, until the key is rotated (ledger.py:354-378).
THEOREM AnchorNeverAlarms ==
    ASSUME NEW p, Alone(p)
    PROVE  Spec => []NoAnchorAlarm
<1>1. AnchorInv => NoAnchorAlarm
  BY DEF AnchorInv
<1>2. QED BY <1>1, AnchorHolds, PTL

----------------------------------------------------------------------------
(* One process and a ledger that is damaged by hand: what a walk vouches for *)

\* A row that is linked to hash h has been inserted behind the rows S.
Bounds(h, S) ==
    /\ h = Genesis => S = {}
    /\ \A b \in Ids : \A g : h = Hash(b, g) => \A k \in S : k <= b

\* The rows there were when row i came are those it is linked to and older ones, and those
\* that are older than row j were there when row j came.
RowPast(i) ==
    /\ before[i] \subseteq 1..(i - 1)
    /\ Bounds(prev[i], before[i])
    /\ \A j \in 1..(i - 1) : \A k \in before[i] : k < j => k \in before[j]
    /\ \A k \in ids : k < i => k \in before[i]

\* A signature is that of the row as it came; a hash names its row, or was made by hand.
RowSigned(i) ==
    /\ signer[i] # 0 => hash[i] = Hash(i, prev[i])
    /\ hash[i] # Genesis
    /\ \A b \in Ids : \A g : hash[i] = Hash(b, g) => b = i

InsertKnows(p, t) == apc[t] = "insert" => lock[p] = t /\ Bounds(aprev[t], ids)

\* A hash with which a walk may start behind row c.
StartsBehind(c, h) ==
    \/ c = 0 /\ h = Genesis
    \/ c \in Ids /\ \E g : h = Hash(c, g)

TamperInv(p) ==
    /\ Typed
    /\ ids \subseteq 1..lastId
    /\ \A i \in 1..lastId : RowPast(i)
    /\ \A i \in ids : RowSigned(i)
    /\ \A t \in Appenders : InsertKnows(p, t)
    /\ StartsBehind(ckptId[p], ckptHash[p])

LEMMA HashesDiffer ==
    /\ \A b, g : Hash(b, g) # Genesis
    /\ \A b, g, c, h : Hash(b, g) = Hash(c, h) => b = c /\ g = h
BY DEF Hash, Genesis

LEMMA LeastIn ==
    ASSUME NEW S, S \subseteq Nat, S # {}
    PROVE  \E m \in S : \A j \in S : m <= j
<1>1. PICK m \in S : \A j \in S : <<j, m>> \notin OpToRel(<, Nat)
  BY WFMin, NatLessThanWellFounded, Zenon
<1>2. \A j \in S : ~(j < m)
  BY <1>1, Zenon DEF OpToRel
<1>3. QED BY <1>2

LEMMA HighestIn ==
    ASSUME NEW n \in Nat, NEW S, S \subseteq 1..n, S # {}
    PROVE  Highest(S) \in S /\ \A j \in S : j <= Highest(S)
<1> DEFINE D == {m \in Nat : \E j \in S : m = n - j}
<1>1. D \subseteq Nat /\ D # {}
  <2>1. PICK j \in S : TRUE
    OBVIOUS
  <2>2. n - j \in D
    BY <2>1
  <2>3. QED BY <2>2
<1>2. PICK m \in D : \A d \in D : m <= d
  <2> HIDE DEF D
  <2>1. QED BY <1>1, LeastIn
<1>3. PICK i \in S : m = n - i
  BY <1>2
<1>4. \A j \in S : j <= i
  <2> SUFFICES ASSUME NEW j \in S PROVE j <= i
    OBVIOUS
  <2>1. j \in 1..n /\ i \in 1..n /\ n - j \in D
    OBVIOUS
  <2>2. m <= n - j
    BY <1>2, <2>1
  <2>3. QED BY <1>3, <2>1, <2>2
<1>5. QED
  BY <1>4 DEF Highest

\* A walk that meets only rows that are linked, hashed and signed has met them all.
LEMMA WalkVouches ==
    ASSUME NEW p, TamperInv(p), NEW c, NEW h, StartsBehind(c, h),
           \A i \in ids : c < i => /\ prev[i] = Expected(i, c, h)
                                   /\ hash[i] = Hash(body[i], prev[i])
                                   /\ signer[i] # 0
    PROVE  \A i \in ids : c < i => /\ body[i] = i
                                   /\ \A k \in before[i] : c < k => k \in ids
<1>1. lastId \in Nat /\ MaxEntries \in Nat /\ c \in Nat
      /\ ids \subseteq 1..lastId /\ ids \subseteq Ids
  BY LedgerAssumption DEF TamperInv, Typed, TypeOK, StartsBehind, Ids
<1>2. \A i \in ids : c < i => body[i] = i /\ hash[i] = Hash(i, prev[i])
  <2> SUFFICES ASSUME NEW i \in ids, c < i PROVE body[i] = i /\ hash[i] = Hash(i, prev[i])
    OBVIOUS
  <2>1. hash[i] = Hash(i, prev[i]) /\ hash[i] = Hash(body[i], prev[i])
    BY DEF TamperInv, RowSigned
  <2>2. Hash(i, prev[i]) = Hash(body[i], prev[i])
    BY <2>1
  <2>3. i = body[i]
    <3> HIDE DEF Hash
    <3>1. \A b, g, d, k : Hash(b, g) = Hash(d, k) => b = d
      BY HashesDiffer, Zenon
    <3>2. Hash(i, prev[i]) = Hash(body[i], prev[i]) => i = body[i]
      BY <3>1, Zenon
    <3>3. QED BY <2>2, <3>2
  <2>4. QED BY <2>1, <2>3
<1> DEFINE Bad == {i \in ids : c < i /\ \E k \in before[i] : c < k /\ k \notin ids}
<1>3. ASSUME Bad # {} PROVE FALSE
  <2>1. Bad \subseteq Nat
    <3>1. \A i \in 1..lastId : i \in Nat
      BY <1>1
    <3>2. QED BY <1>1, <3>1, Zenon
  <2>2. PICK i \in Bad : \A j \in Bad : i <= j
    <3> HIDE DEF Bad
    <3>1. QED BY <1>3, <2>1, LeastIn
  <2>3. PICK k \in before[i] : c < k /\ k \notin ids
    BY <2>2
  <2>4. /\ i \in 1..lastId /\ RowPast(i) /\ k \in Nat /\ k < i
        /\ Bounds(prev[i], before[i])
    <3>1. i \in ids /\ i \in 1..lastId
      BY <1>1, <2>2
    <3>2. RowPast(i)
      BY <3>1 DEF TamperInv
    <3>3. k \in 1..(i - 1)
      BY <2>3, <3>2 DEF RowPast
    <3>4. QED BY <1>1, <3>1, <3>2, <3>3, SMTT(30) DEF RowPast
  <2> DEFINE earlier == {j \in ids : c < j /\ j < i}
  <2>5. CASE earlier = {}
    <3>1. prev[i] = h
      BY <2>2, <2>5 DEF Expected
    <3>2. CASE c = 0 /\ h = Genesis
      BY <2>3, <2>4, <3>1, <3>2 DEF Bounds
    <3>3. CASE c \in Ids /\ \E g : h = Hash(c, g)
      <4>1. k <= c
        BY <2>3, <2>4, <3>1, <3>3 DEF Bounds
      <4>2. QED BY <1>1, <2>3, <2>4, <4>1
    <3>4. QED BY <3>2, <3>3 DEF StartsBehind
  <2>6. CASE earlier # {}
    <3> DEFINE j == Highest(earlier)
    <3>1. j \in earlier
      <4>1. earlier \subseteq 1..lastId
        BY <1>1
      <4> HIDE DEF earlier
      <4>2. QED BY <1>1, <2>6, <4>1, HighestIn
    <3>2. prev[i] = hash[j]
      BY <2>2, <2>6 DEF Expected
    <3> HIDE DEF j
    <3>3. j \in ids /\ c < j /\ j < i /\ j \in Nat
      BY <1>1, <3>1
    <3>4. hash[j] = Hash(j, prev[j])
      BY <1>2, <3>3
    <3>5. k <= j
      BY <1>1, <2>3, <2>4, <3>2, <3>3, <3>4 DEF Bounds
    <3>6. k # j
      BY <2>3, <3>3
    <3>7. k \in before[j]
      <4>1. j \in 1..(i - 1) /\ k < j
        BY <1>1, <2>4, <3>3, <3>5, <3>6
      <4>2. QED BY <2>3, <2>4, <4>1 DEF RowPast
    <3>8. j \in Bad
      BY <2>3, <3>3, <3>7
    <3>9. i <= j
      BY <2>2, <3>8
    <3>10. QED BY <1>1, <2>4, <3>3, <3>9
  <2>7. QED BY <2>5, <2>6
<1>4. QED
  BY <1>2, <1>3
\* Fewer rows are bounded as well.
LEMMA BoundsShrink ==
    ASSUME NEW h, NEW S, NEW R, Bounds(h, S), R \subseteq S
    PROVE  Bounds(h, R)
BY DEF Bounds

\* A step that adds no row, signs nothing and moves no insert keeps the invariant.
LEMMA RowsStay ==
    ASSUME NEW p, TamperInv(p), Typed',
           ids' \subseteq ids,
           UNCHANGED <<lastId, prev, before>>,
           \A i \in ids' : RowSigned(i)',
           \A t \in Appenders : apc'[t] = "insert" =>
               apc[t] = "insert" /\ lock'[p] = lock[p] /\ aprev'[t] = aprev[t],
           StartsBehind(ckptId'[p], ckptHash'[p])
    PROVE  TamperInv(p)'
<1>1. \A i \in 1..lastId' : RowPast(i)'
  BY DEF TamperInv, RowPast, Bounds
<1>2. \A t \in Appenders : InsertKnows(p, t)'
  <2> SUFFICES ASSUME NEW t \in Appenders, apc'[t] = "insert"
               PROVE  lock'[p] = t /\ Bounds(aprev'[t], ids')
    BY DEF InsertKnows, Bounds
  <2>1. lock[p] = t /\ Bounds(aprev[t], ids)
    BY DEF TamperInv, InsertKnows
  <2>2. QED BY <2>1, BoundsShrink
<1>3. ids' \subseteq 1..lastId'
  BY DEF TamperInv
<1>4. QED
  BY <1>1, <1>2, <1>3 DEF TamperInv, StartsBehind, Bounds

LEMMA AppendKeepsTamper ==
    ASSUME NEW p, Single(p), TamperInv(p), NEW t \in Appenders,
           ReadHead(t) \/ Insert(t) \/ SignAnchor(t) \/ WriteAnchor(t) \/ Rotation(t)
    PROVE  TamperInv(p)'
<1>1. Typed'
  BY AppendKeepsTypes DEF TamperInv
<1>2. /\ WorkerOf[t] = p /\ p \in Workers /\ lastId \in Nat /\ MaxEntries \in Nat
      /\ lastId \in 0..MaxEntries
      /\ DOMAIN prev = Ids /\ DOMAIN hash = Ids /\ signer \in [Ids -> 0..MaxKeys]
      /\ before \in [Ids -> SUBSET Ids]
      /\ apc \in [Appenders -> AppenderPCs] /\ DOMAIN aprev = Appenders
      /\ lock \in [Workers -> Appenders \cup {None}] /\ None \notin Appenders
      /\ ids \subseteq 1..lastId /\ ids \subseteq Ids
  BY LedgerAssumption DEF Single, TamperInv, Typed, TypeOK, Ids
<1>3. CASE ReadHead(t)
  <2>1. UNCHANGED <<rows, checkpoint>>
    BY <1>3 DEF ReadHead
  <2>2. /\ lock[p] = None /\ lock'[p] = t /\ aprev'[t] = HeadHash
        /\ \A u \in Appenders : u # t => apc'[u] = apc[u]
    BY <1>2, <1>3 DEF ReadHead, Go
  <2>3. Bounds(HeadHash, ids)
    <3>1. CASE ids = {}
      BY <3>1 DEF Bounds
    <3>2. CASE ids # {}
      <4>1. Highest(ids) \in ids /\ \A k \in ids : k <= Highest(ids)
        BY <1>2, <3>2, HighestIn
      <4>2. HeadHash = hash[Highest(ids)] /\ RowSigned(Highest(ids))
        BY <3>2, <4>1 DEF HeadHash, TamperInv
      <4> DEFINE j == Highest(ids)
      <4> HIDE DEF j
      <4>3. j \in ids /\ (\A k \in ids : k <= j) /\ HeadHash = hash[j] /\ RowSigned(j)
        BY <4>1, <4>2 DEF j
      <4>4. QED BY <4>3 DEF Bounds, RowSigned
    <3>3. QED BY <3>1, <3>2
  <2>4. \A u \in Appenders : InsertKnows(p, u)'
    <3> SUFFICES ASSUME NEW u \in Appenders, apc'[u] = "insert"
                 PROVE  lock'[p] = u /\ Bounds(aprev'[u], ids')
      BY DEF InsertKnows, Bounds
    <3>1. u = t
      BY <1>2, <2>2 DEF TamperInv, InsertKnows
    <3>2. QED BY <2>1, <2>2, <2>3, <3>1 DEF rows
  <2>5. /\ ids' \subseteq 1..lastId' /\ StartsBehind(ckptId[p], ckptHash[p])'
        /\ (\A i \in 1..lastId' : RowPast(i)') /\ (\A i \in ids' : RowSigned(i)')
    BY <2>1 DEF TamperInv, RowPast, RowSigned, Bounds, StartsBehind, rows, checkpoint
  <2>6. QED BY <1>1, <2>4, <2>5 DEF TamperInv
<1>4. CASE Insert(t)
  <2>0. PICK n \in Nat : n = lastId
    BY <1>2
  <2> DEFINE id == n + 1
  <2>1. /\ apc[t] = "insert" /\ lock[p] = t /\ Bounds(aprev[t], ids)
        /\ id \in Ids /\ UNCHANGED checkpoint
    BY <1>2, <1>4, <2>0 DEF Insert, TamperInv, InsertKnows, Ids
  <2>2. \A u \in Appenders : apc'[u] # "insert"
    <3>1. apc'[t] # "insert" /\ \A u \in Appenders : u # t => apc'[u] = apc[u]
      BY <1>2, <1>4 DEF Insert, Go
    <3>2. QED BY <2>1, <3>1 DEF TamperInv, InsertKnows
  <2>3. StartsBehind(ckptId[p], ckptHash[p])'
    BY <2>1 DEF TamperInv, StartsBehind, checkpoint
  <2>4. CASE InsertRow(t, id)
    <3>1. /\ ids' = ids \cup {id} /\ lastId' = id
          /\ prev'[id] = aprev[t] /\ hash'[id] = Hash(id, aprev[t]) /\ before'[id] = ids
          /\ \A i \in Ids : i # id => /\ prev'[i] = prev[i] /\ hash'[i] = hash[i]
                                      /\ signer'[i] = signer[i] /\ before'[i] = before[i]
      BY <1>2, <2>1, <2>4 DEF InsertRow
    <3> HIDE DEF id
    <3>2. /\ id \notin ids /\ ids \subseteq 1..n /\ id = n + 1
          /\ \A i \in 1..n : i # id /\ i \in Ids
      BY <1>2, <2>0, <2>1 DEF id, Ids
    <3>3. \A i \in 1..n : RowPast(i)'
      <4> SUFFICES ASSUME NEW i \in 1..n PROVE RowPast(i)'
        OBVIOUS
      <4>1. RowPast(i)
        BY <2>0 DEF TamperInv
      <4>2. before'[i] = before[i] /\ prev'[i] = prev[i]
        BY <3>1, <3>2
      <4>3. \A j \in 1..(i - 1) : before'[j] = before[j]
        BY <3>1, <3>2
      <4>4. \A k \in ids' : k < i => k \in ids
        BY <3>1, <3>2
      <4>5. QED BY <4>1, <4>2, <4>3, <4>4 DEF RowPast, Bounds
    <3>4. RowPast(id)'
      <4>1. before'[id] \subseteq 1..(id - 1) /\ Bounds(prev'[id], before'[id])
        BY <2>1, <3>1, <3>2
      <4>2. \A j \in 1..(id - 1) : \A k \in before'[id] : k < j => k \in before'[j]
        <5> SUFFICES ASSUME NEW j \in 1..(id - 1), NEW k \in before'[id], k < j
                     PROVE  k \in before'[j]
          OBVIOUS
        <5>0. j \in 1..n /\ k \in ids
          BY <3>1, <3>2
        <5>1. RowPast(j)
          BY <2>0, <5>0 DEF TamperInv
        <5>2. k \in before[j] /\ before'[j] = before[j]
          BY <3>1, <3>2, <5>0, <5>1 DEF RowPast
        <5>3. QED BY <5>2
      <4>3. \A k \in ids' : k < id => k \in before'[id]
        BY <3>1, <3>2
      <4>4. QED BY <4>1, <4>2, <4>3 DEF RowPast, Bounds
    <3>5. \A i \in 1..lastId' : RowPast(i)'
      <4>1. \A i \in 1..lastId' : i \in 1..n \/ i = id
        BY <3>1, <3>2
      <4>2. QED BY <3>3, <3>4, <4>1
    <3>6. \A i \in ids' : RowSigned(i)'
      <4>1. \A i \in ids : RowSigned(i)'
        <5> SUFFICES ASSUME NEW i \in ids PROVE RowSigned(i)'
          OBVIOUS
        <5>1. RowSigned(i) /\ prev'[i] = prev[i] /\ hash'[i] = hash[i] /\ signer'[i] = signer[i]
          BY <3>1, <3>2 DEF TamperInv
        <5>2. QED BY <5>1 DEF RowSigned
      <4>2. RowSigned(id)'
        BY <3>1, HashesDiffer DEF RowSigned
      <4>3. QED BY <3>1, <4>1, <4>2
    <3>7. ids' \subseteq 1..lastId'
      BY <3>1, <3>2
    <3>8. QED
      BY <1>1, <2>2, <2>3, <3>5, <3>6, <3>7 DEF TamperInv, InsertKnows
  <2>5. CASE UNCHANGED rows
    <3>1. \A i \in ids' : RowSigned(i)'
      BY <2>5 DEF TamperInv, RowSigned, rows
    <3>2. UNCHANGED <<ids, lastId, prev, before>> /\ StartsBehind(ckptId'[p], ckptHash'[p])
      BY <2>3, <2>5 DEF rows, StartsBehind
    <3>3. QED BY <1>1, <2>2, <3>1, <3>2, RowsStay
  <2>6. QED BY <1>4, <2>0, <2>4, <2>5 DEF Insert
<1>5. CASE SignAnchor(t) \/ WriteAnchor(t) \/ Rotation(t)
  <2>1. UNCHANGED <<rows, lock, aprev, checkpoint>>
    BY <1>5, RotationLeaves DEF SignAnchor, WriteAnchor, TamperInv
  <2>2. \A u \in Appenders : apc'[u] = "insert" => apc[u] = "insert"
    BY <1>2, <1>5, RotationLeaves DEF SignAnchor, WriteAnchor, Go, TamperInv
  <2>3. \A i \in ids' : RowSigned(i)'
    BY <2>1 DEF TamperInv, RowSigned, rows
  <2>4. StartsBehind(ckptId'[p], ckptHash'[p]) /\ UNCHANGED <<ids, lastId, prev, before>>
    BY <2>1 DEF TamperInv, StartsBehind, rows, checkpoint
  <2>5. QED BY <1>1, <2>1, <2>2, <2>3, <2>4, RowsStay
<1>6. QED
  BY <1>3, <1>4, <1>5
\* A walk from a place where walks start, by the rule of verify_chain.
LEMMA ServerWalkVouches ==
    ASSUME NEW p, Single(p), TamperInv(p), NEW c, NEW h, StartsBehind(c, h),
           WalkVerifies(p, c, h)
    PROVE  /\ \A i \in ids : c < i => /\ body[i] = i
                                      /\ \A k \in before[i] : c < k => k \in ids
           /\ \A i \in ids : c < i => hash[i] = Hash(i, prev[i])
<1>1. AllPublicKeys(p) \subseteq Keys /\ 0 \notin Keys
  <2>1. key[p] \in Keys /\ keyset \subseteq Keys
    BY DEF Single, TamperInv, Typed, TypeOK
  <2>2. 0 \notin Keys
    BY LedgerAssumption DEF Keys
  <2>3. QED BY <2>1, <2>2 DEF AllPublicKeys
<1>2. \A i \in ids : c < i => /\ prev[i] = Expected(i, c, h)
                              /\ hash[i] = Hash(body[i], prev[i])
                              /\ signer[i] # 0
  BY <1>1 DEF WalkVerifies, RowVerifies
<1>3. \A i \in ids : c < i => /\ body[i] = i
                              /\ \A k \in before[i] : c < k => k \in ids
  BY <1>2, WalkVouches
<1>4. QED
  BY <1>2, <1>3

LEMMA CheckKeepsTamper ==
    ASSUME NEW p, Single(p), TamperInv(p), NEW v \in Verifiers,
           VerifyChain(v) \/ ReadAnchor(v) \/ CheckAnchor(v)
    PROVE  TamperInv(p)'
<1>1. Typed'
  BY CheckKeepsTypes DEF TamperInv
<1>2. UNCHANGED <<rows, lock, appending>>
  BY DEF VerifyChain, ReadAnchor, CheckAnchor
<1>3. \A i \in ids' : RowSigned(i)'
  BY <1>2 DEF TamperInv, RowSigned, rows
<1>4. StartsBehind(ckptId[p], ckptHash[p])
  BY DEF TamperInv
<1>5. StartsBehind(ckptId'[p], ckptHash'[p])
  <2>1. CASE VerifyChain(v)
    <3>1. WorkerOf[v] = p /\ p \in Workers /\ DOMAIN ckptId = Workers /\ DOMAIN ckptHash = Workers
          /\ lastId \in Nat /\ ids \subseteq 1..lastId /\ ids \subseteq Ids
      BY LedgerAssumption DEF Single, TamperInv, Typed, TypeOK
    <3>2. PICK f \in FullChoices :
            Walk(v, p, IF f THEN 0 ELSE ckptId[p], IF f THEN Genesis ELSE ckptHash[p])
      BY <2>1, <3>1 DEF VerifyChain
    <3> DEFINE c == IF f THEN 0 ELSE ckptId[p]
               h == IF f THEN Genesis ELSE ckptHash[p]
               seen == {i \in ids : c < i}
    <3>3. StartsBehind(c, h)
      BY <1>4 DEF StartsBehind
    <3>4. CASE ~WalkVerifies(p, c, h)
      <4>1. ckptId'[p] = ckptId[p] /\ ckptHash'[p] = ckptHash[p]
        BY <3>1, <3>2, <3>4 DEF Walk
      <4>2. QED BY <1>4, <4>1
    <3>5. CASE WalkVerifies(p, c, h)
      <4>1. /\ ckptId'[p] = IF seen = {} THEN c ELSE Highest(seen)
            /\ ckptHash'[p] = IF seen = {} THEN h ELSE hash[Highest(seen)]
        BY <3>1, <3>2, <3>5 DEF Walk
      <4> HIDE DEF c, h
      <4>2. CASE seen = {}
        BY <3>3, <4>1, <4>2
      <4>3. CASE seen # {}
        <5>1. seen \subseteq 1..lastId
          BY <3>1
        <5>2. Highest(seen) \in seen
          <6> HIDE DEF seen
          <6>1. QED BY <3>1, <4>3, <5>1, HighestIn
        <5> DEFINE j == Highest(seen)
        <5>3. hash[j] = Hash(j, prev[j]) /\ j \in Ids
          BY <3>1, <3>3, <3>5, <5>2, ServerWalkVouches
        <5>4. ckptId'[p] = j /\ ckptHash'[p] = hash[j]
          BY <4>1, <4>3
        <5> HIDE DEF j
        <5>5. QED BY <5>3, <5>4 DEF StartsBehind
      <4>4. QED BY <4>2, <4>3
    <3>6. QED BY <3>4, <3>5
  <2>2. CASE ReadAnchor(v) \/ CheckAnchor(v)
    BY <1>4, <2>2 DEF ReadAnchor, CheckAnchor, checkpoint
  <2>3. QED BY <2>1, <2>2
<1>6. QED
  BY <1>1, <1>2, <1>3, <1>5, RowsStay DEF rows, appending

LEMMA DamageKeepsTamper ==
    ASSUME NEW p, Single(p), TamperInv(p), Damage, Typed'
    PROVE  TamperInv(p)'
<1>1. PICK i \in ids : EditRow(i) \/ RewriteRow(i) \/ Truncate(i) \/ DeleteRow(i)
  BY DEF Damage
<1>2. ids' \subseteq ids /\ UNCHANGED <<lastId, prev, before, lock, appending, checkpoint>>
  BY <1>1 DEF EditRow, RewriteRow, Truncate, DeleteRow, untouched
<1>3. \A j \in ids' : RowSigned(j)'
  <2> SUFFICES ASSUME NEW j \in ids' PROVE RowSigned(j)'
    OBVIOUS
  <2>1. RowSigned(j) /\ prev'[j] = prev[j]
    BY <1>2 DEF TamperInv
  <2>2. CASE hash'[j] = hash[j] /\ signer'[j] = signer[j]
    BY <2>1, <2>2 DEF RowSigned
  <2>3. CASE hash'[j] = Hash(0, prev[j]) /\ signer'[j] = 0
    <3>1. 0 \notin Ids
      BY LedgerAssumption DEF Ids
    <3>2. \A b \in Ids : \A g : Hash(0, prev[j]) # Hash(b, g)
      BY <3>1, HashesDiffer
    <3>3. QED BY <2>3, <3>2, HashesDiffer DEF RowSigned
  <2>4. \/ hash'[j] = hash[j] /\ signer'[j] = signer[j]
        \/ hash'[j] = Hash(0, prev[j]) /\ signer'[j] = 0
    <3>1. CASE RewriteRow(i)
      <4>1. i \in Ids /\ DOMAIN hash = Ids /\ DOMAIN signer = Ids /\ j \in Ids
        BY <1>2 DEF TamperInv, Typed, TypeOK
      <4>2. QED BY <3>1, <4>1 DEF RewriteRow
    <3>2. CASE EditRow(i) \/ Truncate(i) \/ DeleteRow(i)
      BY <3>2 DEF EditRow, Truncate, DeleteRow
    <3>3. QED BY <1>1, <3>1, <3>2
  <2>5. QED BY <2>2, <2>3, <2>4
<1>4. StartsBehind(ckptId'[p], ckptHash'[p])
  BY <1>2 DEF TamperInv, StartsBehind, checkpoint
<1>5. QED
  BY <1>2, <1>3, <1>4, RowsStay DEF appending

LEMMA TamperIsInductive ==
    ASSUME NEW p, Single(p)
    PROVE  TamperInv(p) /\ [Next]_vars => TamperInv(p)'
<1> SUFFICES ASSUME TamperInv(p), [Next]_vars PROVE TamperInv(p)'
  OBVIOUS
<1>1. Typed'
  BY TypesAreInductive DEF TamperInv
<1>2. ASSUME NEW t \in Appenders,
             ReadHead(t) \/ Insert(t) \/ SignAnchor(t) \/ WriteAnchor(t) \/ Rotation(t)
      PROVE  TamperInv(p)'
  BY <1>2, AppendKeepsTamper
<1>3. ASSUME NEW v \in Verifiers, VerifyChain(v) \/ IntegrityStep(v) PROVE TamperInv(p)'
  BY <1>3, CheckKeepsTamper DEF IntegrityStep
<1>4. ASSUME NEW w \in Workers, Restart(w) PROVE TamperInv(p)'
  <2>1. /\ w = p /\ \A t \in Appenders : WorkerOf[t] = p
        /\ DOMAIN ckptId = Workers /\ DOMAIN ckptHash = Workers
    BY LedgerAssumption DEF Single, TamperInv, Typed, TypeOK
  <2>2. UNCHANGED rows /\ \A t \in Appenders : apc'[t] = "idle"
    BY <1>4, <2>1 DEF Restart
  <2>3. StartsBehind(ckptId'[p], ckptHash'[p])
    BY <1>4, <2>1 DEF Restart, StartsBehind
  <2>4. \A i \in ids' : RowSigned(i)'
    BY <2>2 DEF TamperInv, RowSigned, rows
  <2>5. QED BY <1>1, <2>2, <2>3, <2>4, RowsStay DEF rows
<1>5. CASE Damage
  BY <1>1, <1>5, DamageKeepsTamper
<1>6. CASE UNCHANGED vars
  <2>1. \A i \in ids' : RowSigned(i)'
    BY <1>6 DEF TamperInv, RowSigned, vars, rows
  <2>2. StartsBehind(ckptId'[p], ckptHash'[p])
    BY <1>6 DEF TamperInv, StartsBehind, vars, checkpoint
  <2>3. QED BY <1>1, <1>6, <2>1, <2>2, RowsStay DEF vars, rows, appending
<1>7. QED
  BY <1>2, <1>3, <1>4, <1>5, <1>6 DEF Next

LEMMA TamperStarts ==
    ASSUME NEW p, Single(p)
    PROVE  Init => TamperInv(p)
<1> SUFFICES ASSUME Init PROVE TamperInv(p)
  OBVIOUS
<1>1. Typed
  BY TypedStarts
<1>2. QED
  BY <1>1 DEF Init, Single, TamperInv, InsertKnows, StartsBehind

LEMMA TamperHolds ==
    ASSUME NEW p, Single(p)
    PROVE  Spec => []TamperInv(p)
BY TamperStarts, TamperIsInductive, PTL DEF Spec

LEMMA GenesisStarts == StartsBehind(0, Genesis)
BY DEF StartsBehind

\* All that precedes a row is behind genesis.
LEMMA IntactBehindGenesis ==
    ASSUME NEW p, Single(p), TamperInv(p), NEW i \in ids, body[i] = i,
           \A k \in before[i] : 0 < k => k \in ids
    PROVE  Intact(i)
<1>1. \A k \in before[i] : 0 < k
  BY LedgerAssumption DEF TamperInv, RowPast, Typed, TypeOK, Ids
<1>2. QED
  BY <1>1 DEF Intact

\* In one process, whatever is done to the rows: when the full walk and the last anchor are
\* content, every row up to the anchored one is there and as it was inserted
\* (ledger.py:323-383).
THEOREM IntegrityVouchesForAnchored ==
    ASSUME NEW p, Single(p)
    PROVE  Spec => []IntegrityVouches
<1>1. TamperInv(p) => IntegrityVouches
  <2> SUFFICES ASSUME TamperInv(p), anchorId # 0, WalkVerifies(p, 0, Genesis),
                      AnchorMatches(p, anchorId, anchorHash, anchorKey)
               PROVE  \A i \in before[anchorId] \cup {anchorId} : i \in ids /\ Intact(i)
    BY DEF IntegrityVouches, Single
  <2>1. \A i \in ids : 0 < i
    <3>1. ids \subseteq 1..MaxEntries /\ MaxEntries \in Nat
      BY LedgerAssumption DEF TamperInv, Typed, TypeOK, Ids
    <3>2. QED BY <3>1
  <2>2. \A i \in ids : body[i] = i /\ \A k \in before[i] : 0 < k => k \in ids
    BY <2>1, GenesisStarts, ServerWalkVouches
  <2>3. \A i \in ids : Intact(i)
    BY <2>2, IntactBehindGenesis
  <2>4. anchorId \in ids
    BY DEF AnchorMatches
  <2>5. QED BY <2>3, <2>4 DEF Intact
<1>2. QED
  BY <1>1, TamperHolds, PTL

\* A verifier that goes on to the anchor has walked the chain.
LEMMA WalkBegins ==
    ASSUME Typed, [Next]_vars, NEW v \in Verifiers, vpc'[v] = "anchor", vpc[v] = "idle"
    PROVE  VerifyChain(v)
<1> USE DEF vars, verifying, Typed, TypeOK
<1>1. ASSUME NEW u \in Verifiers, VerifyChain(u) \/ IntegrityStep(u) PROVE VerifyChain(v)
  <2>1. u = v
    BY <1>1 DEF VerifyChain, IntegrityStep, ReadAnchor, CheckAnchor
  <2>2. ~IntegrityStep(v)
    BY DEF IntegrityStep, ReadAnchor, CheckAnchor
  <2>3. QED BY <1>1, <2>1, <2>2
<1>2. ASSUME NEW t \in Appenders,
             ReadHead(t) \/ Insert(t) \/ SignAnchor(t) \/ WriteAnchor(t) \/ Rotation(t)
      PROVE  FALSE
  BY <1>2, RotationLeaves DEF ReadHead, Insert, SignAnchor, WriteAnchor
<1>3. ASSUME NEW w \in Workers, Restart(w) PROVE FALSE
  BY <1>3 DEF Restart
<1>4. ~Damage
  BY DEF Damage, EditRow, RewriteRow, Truncate, DeleteRow, untouched
<1>5. vars' # vars
  OBVIOUS
<1>6. QED BY <1>1, <1>2, <1>3, <1>4, <1>5 DEF Next

\* A full walk that is content has found every row as it was inserted.
LEMMA FullWalkFinds ==
    ASSUME NEW p, Single(p), TamperInv(p), NEW v \in Verifiers, VerifyChain(v),
           full'[v], chainOk'[v], NEW i \in ids
    PROVE  Intact(i)
<1>1. WorkerOf[v] = p /\ full \in [Verifiers -> BOOLEAN] /\ chainOk \in [Verifiers -> BOOLEAN]
  BY LedgerAssumption DEF Single, TamperInv, Typed, TypeOK
<1>2. PICK f \in FullChoices : /\ full' = [full EXCEPT ![v] = f]
                               /\ Walk(v, p, IF f THEN 0 ELSE ckptId[p],
                                       IF f THEN Genesis ELSE ckptHash[p])
  BY <1>1 DEF VerifyChain
<1>3. f
  BY <1>1, <1>2
<1>4. WalkVerifies(p, 0, Genesis)
  BY <1>1, <1>2, <1>3 DEF Walk
<1>5. 0 < i
  BY LedgerAssumption DEF TamperInv, Typed, TypeOK, Ids
<1>6. body[i] = i /\ \A k \in before[i] : 0 < k => k \in ids
  BY <1>4, <1>5, GenesisStarts, ServerWalkVouches
<1>7. QED BY <1>6, IntactBehindGenesis

\* Any walk that is content has found the rows behind its process's checkpoint as they were
\* inserted, and none missing there before the last.
LEMMA TailWalkFinds ==
    ASSUME NEW p, Single(p), TamperInv(p), NEW v \in Verifiers, VerifyChain(v),
           chainOk'[v], NEW i \in ids, ckptId[WorkerOf[v]] < i
    PROVE  /\ body[i] = i
           /\ \A j \in before[i] : ckptId[WorkerOf[v]] < j => j \in ids
<1>1. WorkerOf[v] = p /\ full \in [Verifiers -> BOOLEAN] /\ chainOk \in [Verifiers -> BOOLEAN]
  BY LedgerAssumption DEF Single, TamperInv, Typed, TypeOK
<1>2. PICK f \in FullChoices : Walk(v, p, IF f THEN 0 ELSE ckptId[p],
                                          IF f THEN Genesis ELSE ckptHash[p])
  BY <1>1 DEF VerifyChain
<1>3. StartsBehind(ckptId[p], ckptHash[p]) /\ ckptId[p] \in Nat
  BY LedgerAssumption DEF TamperInv, StartsBehind, Ids
<1>4. CASE f
  <2>1. WalkVerifies(p, 0, Genesis)
    BY <1>1, <1>2, <1>4 DEF Walk
  <2>2. 0 < i /\ \A j \in before[i] : 0 < j
    BY LedgerAssumption DEF TamperInv, RowPast, Typed, TypeOK, Ids
  <2>3. QED BY <2>1, <2>2, GenesisStarts, ServerWalkVouches
<1>5. CASE ~f
  <2>1. WalkVerifies(p, ckptId[p], ckptHash[p])
    BY <1>1, <1>2, <1>5 DEF Walk
  <2>2. QED BY <1>1, <1>3, <2>1, ServerWalkVouches
<1>6. QED BY <1>4, <1>5

\* In one process a verification that is content vouches for all it has walked, from the
\* first row or from a checkpoint (ledger.py:322-349).
THEOREM WalksFindDamage ==
    ASSUME NEW p, Single(p)
    PROVE  Spec => WalksDetect
<1>1. TamperInv(p) /\ [Next]_vars =>
        [\A v \in Verifiers :
           vpc'[v] = "anchor" /\ vpc[v] = "idle" /\ chainOk'[v] =>
             /\ full'[v] => \A i \in ids : Intact(i)
             /\ \A i \in ids : ckptId[WorkerOf[v]] < i =>
                   /\ body[i] = i
                   /\ \A j \in before[i] : ckptId[WorkerOf[v]] < j => j \in ids]_vars
  <2> SUFFICES ASSUME TamperInv(p), [Next]_vars, NEW v \in Verifiers,
                      vpc'[v] = "anchor", vpc[v] = "idle", chainOk'[v]
               PROVE  /\ full'[v] => \A i \in ids : Intact(i)
                      /\ \A i \in ids : ckptId[WorkerOf[v]] < i =>
                            /\ body[i] = i
                            /\ \A j \in before[i] : ckptId[WorkerOf[v]] < j => j \in ids
    OBVIOUS
  <2>1. VerifyChain(v)
    BY WalkBegins DEF TamperInv
  <2>2. QED BY <2>1, FullWalkFinds, TailWalkFinds
<1>2. QED
  BY <1>1, TamperHolds, PTL DEF Spec, WalksDetect

----------------------------------------------------------------------------
(* The export and the tool *)

ExportTamperInv(p) == TamperInv(p) /\ exportKeys \subseteq Keys

\* A step of the export, too, keeps the invariant: it adds a first keyset at most.
LEMMA ReadKeysKeepsTamper ==
    ASSUME NEW p, Single(p), TamperInv(p), ReadKeys
    PROVE  TamperInv(p)'
<1>1. key[ExportWorker] \in Keys /\ keyset \subseteq Keys
  BY ExportAssumption DEF TamperInv, Typed, TypeOK
<1>2. keyset' \subseteq Keys /\ torn' \in BOOLEAN
  BY <1>1 DEF ReadKeys, EnsureKeyset
<1>3. UNCHANGED <<rows, anchor, keyFile, key, loaded, cut, mislaid, lock, appending,
                  checkpoint, verifying>>
  BY DEF ReadKeys
<1>4. Typed'
  BY <1>2, <1>3
  DEF TamperInv, Typed, LineReady, TypeOK, rows, anchor, appending, line, checkpoint,
      verifying, read
<1>5. \A i \in ids' : RowSigned(i)'
  BY <1>3 DEF TamperInv, RowSigned, rows
<1>6. StartsBehind(ckptId'[p], ckptHash'[p])
  BY <1>3 DEF TamperInv, StartsBehind, checkpoint
<1>7. QED BY <1>3, <1>4, <1>5, <1>6, RowsStay DEF rows, appending

LEMMA ExportKeepsTamper ==
    ASSUME NEW p, Single(p)
    PROVE  ExportTamperInv(p) /\ [ExportNext]_allVars => ExportTamperInv(p)'
<1> SUFFICES ASSUME TamperInv(p), exportKeys \subseteq Keys, [ExportNext]_allVars
             PROVE  TamperInv(p)' /\ exportKeys' \subseteq Keys
  BY DEF ExportTamperInv
<1>1. CASE Next /\ UNCHANGED exportVars
  BY <1>1, TamperIsInductive DEF exportVars
<1>2. CASE ReadKeys
  <2>1. TamperInv(p)'
    BY <1>2, ReadKeysKeepsTamper
  <2>2. key'[ExportWorker] \in Keys /\ keyset' \subseteq Keys
    BY <2>1, ExportAssumption DEF TamperInv, Typed, TypeOK
  <2>3. QED BY <1>2, <2>1, <2>2 DEF ReadKeys, exportVars
<1>3. CASE ReadRows
  BY <1>3, TamperIsInductive DEF ReadRows
<1>4. CASE UNCHANGED allVars
  BY <1>4, TamperIsInductive DEF allVars, exportVars
<1>5. QED
  BY <1>1, <1>2, <1>3, <1>4 DEF ExportNext

\* In one process, whatever is done to the rows: an export that the tool accepts has every
\* row as it was inserted, and lacks none before the last (verify_ledger.py:107-152).
THEOREM ToolFindsDamage ==
    ASSUME NEW p, Single(p)
    PROVE  ExportSpec => AcceptedExportIsWhole
<1>1. ExportInit => ExportTamperInv(p)
  BY TamperStarts DEF ExportInit, ExportTamperInv
<1>2. ExportTamperInv(p) /\ [ExportNext]_allVars =>
        [exporting /\ ~exporting' /\ toolSays' = "ok" => \A i \in ids : Intact(i)]_allVars
  <2> SUFFICES ASSUME TamperInv(p), exportKeys \subseteq Keys, [ExportNext]_allVars,
                      exporting, ~exporting', toolSays' = "ok", NEW i \in ids
               PROVE  Intact(i)
    BY DEF ExportTamperInv
  <2>1. ToolVerifies
    BY DEF ExportNext, exportVars, allVars, ReadKeys, ReadRows
  <2>2. 0 \notin exportKeys
    BY LedgerAssumption DEF Keys
  <2>3. \A j \in ids : 0 < j => /\ prev[j] = Expected(j, 0, Genesis)
                                /\ hash[j] = Hash(body[j], prev[j])
                                /\ signer[j] # 0
    BY <2>1, <2>2 DEF ToolVerifies, CheckHash, PubKeys
  <2>4. 0 < i
    BY LedgerAssumption DEF TamperInv, Typed, TypeOK, Ids
  <2>5. body[i] = i /\ \A k \in before[i] : 0 < k => k \in ids
    BY <2>3, <2>4, GenesisStarts, WalkVouches
  <2>6. QED BY <2>5, IntactBehindGenesis
<1>3. QED
  BY <1>1, <1>2, ExportKeepsTamper, PTL DEF ExportSpec, AcceptedExportIsWhole

----------------------------------------------------------------------------
(* One process: an undamaged ledger alarms nobody, here or elsewhere *)

LEMMA KeysAreInductive ==
    ASSUME NEW p, Single(p)
    PROVE  KeyInv(p) /\ [Next]_vars => KeyInv(p)'
<1> SUFFICES ASSUME KeyInv(p), [Next]_vars PROVE KeyInv(p)'
  OBVIOUS
<1>1. Typed' /\ apc \in [Appenders -> AppenderPCs]
  BY TypesAreInductive DEF KeyInv, Typed, TypeOK
<1>2. ASSUME NEW t \in Appenders, ReadHead(t) \/ Insert(t) \/ SignAnchor(t) \/ WriteAnchor(t)
      PROVE  KeyInv(p)'
  <2>1. \A u \in Appenders : apc'[u] = apc[u] \/ {apc[u], apc'[u]} \cap Rotating = {}
    BY <1>1, <1>2 DEF ReadHead, Insert, SignAnchor, WriteAnchor, Rotating, Go
  <2>2. UNCHANGED keys
    BY <1>2 DEF ReadHead, Insert, SignAnchor, WriteAnchor
  <2>3. QED BY <1>1, <2>1, <2>2, OthersKeepKeys
<1>3. ASSUME NEW t \in Appenders, Rotation(t) PROVE KeyInv(p)'
  BY <1>3, RotationKeepsKeys
<1>4. ASSUME NEW v \in Verifiers, VerifyChain(v) \/ IntegrityStep(v) PROVE KeyInv(p)'
  <2>1. UNCHANGED <<keys, apc, signer>>
    BY <1>4 DEF VerifyChain, IntegrityStep, ReadAnchor, CheckAnchor, rows, appending
  <2>2. QED BY <1>1, <2>1, KeysStay
<1>5. ASSUME NEW w \in Workers, Restart(w) PROVE KeyInv(p)'
  BY <1>1, <1>5, RestartKeepsKeys
<1>6. CASE Damage \/ UNCHANGED vars
  <2>1. UNCHANGED <<keys, apc>>
    BY <1>6 DEF Damage, EditRow, RewriteRow, Truncate, DeleteRow, untouched, vars, appending
  <2>2. \A u \in Appenders : apc'[u] = apc[u]
    BY <2>1
  <2>3. QED BY <1>1, <2>1, <2>2, OthersKeepKeys
<1>7. QED
  BY <1>2, <1>3, <1>4, <1>5, <1>6 DEF Next

\* Rows may be damaged by hand; as long as none is, the chain is linked.
SoundInv(p) == TamperInv(p) /\ KeyInv(p) /\ (Undamaged => ChainInv(p))

\* What is damaged stays so: no append adds a lost row or mends an edited one.
LEMMA DamageStays ==
    ASSUME NEW p, Single(p), TamperInv(p), NEW t \in Appenders,
           ReadHead(t) \/ Insert(t) \/ SignAnchor(t) \/ WriteAnchor(t) \/ Rotation(t),
           Undamaged'
    PROVE  Undamaged
<1>1. CASE UNCHANGED rows
  BY <1>1 DEF Undamaged, Intact, rows
<1>2. CASE Insert(t) /\ InsertRow(t, lastId + 1)
  <2>0. /\ lastId \in Nat /\ DOMAIN body = Ids /\ DOMAIN before = Ids
        /\ MaxEntries \in Nat /\ lastId <= MaxEntries
    BY LedgerAssumption DEF TamperInv, Typed, TypeOK
  <2> SUFFICES ASSUME NEW i \in 1..lastId PROVE i \in ids /\ Intact(i)
    BY DEF Undamaged
  <2>1. i \in 1..(lastId + 1) /\ i # lastId + 1 /\ i \in Ids
    BY <2>0 DEF Ids
  <2>2. i \in ids' /\ Intact(i)'
    BY <1>2, <2>1 DEF InsertRow, Undamaged
  <2>3. ids' = ids \cup {lastId + 1} /\ body'[i] = body[i] /\ before'[i] = before[i]
    BY <1>2, <2>0, <2>1 DEF InsertRow
  <2>4. before[i] \subseteq 1..(i - 1)
    BY DEF TamperInv, RowPast
  <2>5. lastId + 1 \notin before[i]
    BY <2>0, <2>1, <2>4
  <2>6. QED BY <2>1, <2>2, <2>3, <2>5 DEF Intact
<1>3. QED
  BY <1>1, <1>2, RotationLeaves DEF ReadHead, Insert, SignAnchor, WriteAnchor, rows, TamperInv

\* A damage that leaves no trace has deleted what lies behind the last row.
LEMMA DamageShows ==
    ASSUME NEW p, SoundInv(p), Damage, Undamaged'
    PROVE  UNCHANGED <<rows, keys, lock, appending, checkpoint, chainOk>>
<1>0. lastId \in Nat /\ ids \subseteq 1..lastId /\ DOMAIN body = Ids /\ ids \subseteq Ids
  BY LedgerAssumption DEF SoundInv, TamperInv, Typed, TypeOK
<1>1. PICK i \in ids : EditRow(i) \/ RewriteRow(i) \/ Truncate(i) \/ DeleteRow(i)
  BY DEF Damage
<1>2. i \in 1..lastId /\ i \in Ids /\ i # 0
  BY <1>0
<1>3. lastId' = lastId
  BY <1>1 DEF EditRow, RewriteRow, Truncate, DeleteRow, untouched
<1>4. i \in ids' /\ body'[i] = i
  BY <1>2, <1>3 DEF Undamaged, Intact
<1>5. ~EditRow(i) /\ ~RewriteRow(i) /\ ~DeleteRow(i)
  BY <1>0, <1>2, <1>4 DEF EditRow, RewriteRow, DeleteRow
<1>6. Truncate(i)
  BY <1>1, <1>5
<1>7. ids' \subseteq ids /\ 1..lastId \subseteq ids'
  BY <1>3, <1>6 DEF Undamaged, Truncate
<1>8. ids' = ids
  BY <1>0, <1>7
<1>9. UNCHANGED <<rows, keys, lock, appending, checkpoint, chainOk>>
  BY <1>6, <1>8 DEF Truncate, untouched, rows, verifying
<1>10. QED BY <1>9

LEMMA SoundIsInductive ==
    ASSUME NEW p, Single(p)
    PROVE  SoundInv(p) /\ [Next]_vars => SoundInv(p)'
<1> SUFFICES ASSUME SoundInv(p), [Next]_vars, Undamaged' PROVE ChainInv(p)'
  BY TamperIsInductive, KeysAreInductive DEF SoundInv
<1>1. Typed' /\ TamperInv(p)
  BY TypesAreInductive DEF SoundInv, TamperInv
<1>2. ASSUME NEW t \in Appenders,
             ReadHead(t) \/ Insert(t) \/ SignAnchor(t) \/ WriteAnchor(t) \/ Rotation(t)
      PROVE  ChainInv(p)'
  <2>1. ChainInv(p)
    BY <1>1, <1>2, DamageStays DEF SoundInv
  <2>2. QED BY <1>2, <2>1, AppendKeepsChain
<1>3. UNCHANGED rows => ChainInv(p)
  BY DEF SoundInv, Undamaged, Intact, rows
<1>4. ASSUME NEW v \in Verifiers, VerifyChain(v) \/ IntegrityStep(v) PROVE ChainInv(p)'
  <2>1. ChainInv(p)
    BY <1>3, <1>4 DEF VerifyChain, IntegrityStep, ReadAnchor, CheckAnchor
  <2>2. QED BY <1>4, <2>1, CheckKeepsChain DEF IntegrityStep
<1>5. ASSUME NEW w \in Workers, Restart(w) PROVE ChainInv(p)'
  <2>1. ChainInv(p)
    BY <1>3, <1>5 DEF Restart
  <2>2. QED BY <1>1, <1>5, <2>1, RestartKeepsChain
<1>6. CASE Damage
  BY <1>1, <1>3, <1>6, DamageShows, StutterKeepsChain
<1>7. CASE UNCHANGED vars
  BY <1>1, <1>3, <1>7, StutterKeepsChain DEF vars, verifying
<1>8. QED
  BY <1>2, <1>4, <1>5, <1>6, <1>7 DEF Next

LEMMA SoundStarts ==
    ASSUME NEW p, Single(p)
    PROVE  Init => SoundInv(p)
<1> SUFFICES ASSUME Init PROVE SoundInv(p)
  OBVIOUS
<1>1. TamperInv(p) /\ ids = 1..lastId
  <2>1. ids = {} /\ lastId = 0
    BY DEF Init
  <2>2. QED BY <2>1, TamperStarts
<1>2. KeyInv(p)
  BY <1>1, KeysStart DEF TamperInv
<1>3. QED
  BY <1>1, <1>2 DEF Init, Single, SoundInv, ChainInv, HeadKnown, HashAt, NoChainAlarm

\* In one process verify_chain reports no broken chain as long as nothing has been done to the
\* rows, in a run in which it may be done too, and no rotation has forgotten a key
\* (ledger.py:322-349, crypto.py:129-155).
THEOREM OnlyDamageAlarms ==
    ASSUME NEW p, Single(p)
    PROVE  Spec => [](Undamaged => NoChainAlarm)
<1>1. SoundInv(p) => (Undamaged => NoChainAlarm)
  BY DEF SoundInv, ChainInv
<1>2. QED
  BY <1>1, SoundStarts, SoundIsInductive, PTL DEF Spec

\* An export holds keys that there are, and every signer's as long as the key has not been
\* replaced since.
ExportSoundInv(p) ==
    /\ SoundInv(p)
    /\ exporting => exportKeys \subseteq 1..keyFile
    /\ exporting /\ Undamaged /\ ~mislaid /\ keyFile \in exportKeys
          => \A i \in ids : signer[i] \in exportKeys

\* A step that leaves no damage began with none, and signs with the key in use at most.
LEMMA SignersStay ==
    ASSUME NEW p, Single(p), SoundInv(p), [Next]_vars, Undamaged'
    PROVE  /\ Undamaged
           /\ \A i \in ids' : (i \in ids /\ signer'[i] = signer[i]) \/ signer'[i] = keyFile
<1>1. CASE UNCHANGED rows
  BY <1>1 DEF Undamaged, Intact, rows
<1>2. ASSUME NEW t \in Appenders, Insert(t), InsertRow(t, lastId + 1)
      PROVE  /\ Undamaged
             /\ \A i \in ids' : (i \in ids /\ signer'[i] = signer[i]) \/ signer'[i] = keyFile
  <2>1. Undamaged
    BY <1>2, DamageStays DEF SoundInv
  <2>2. WorkerOf[t] = p /\ key[p] = keyFile /\ DOMAIN signer = Ids /\ ids \subseteq Ids
    BY LedgerAssumption DEF Single, SoundInv, KeyInv, Typed, TypeOK
  <2>3. \A i \in ids' : IF i = lastId + 1 THEN signer'[i] = keyFile \/ i \in ids
                                          ELSE i \in ids /\ signer'[i] = signer[i]
    <3>1. ids' = ids \cup {lastId + 1} /\ signer' = [signer EXCEPT ![lastId + 1] = keyFile]
      BY <1>2, <2>2 DEF InsertRow
    <3> HIDE DEF Undamaged
    <3>2. ids \subseteq DOMAIN signer
      BY <2>2
    <3>3. lastId + 1 \in DOMAIN signer
      <4>1. lastId \in 0..MaxEntries /\ lastId < MaxEntries /\ MaxEntries \in Nat
        BY <1>2, LedgerAssumption DEF Insert, SoundInv, TamperInv, Typed, TypeOK
      <4>2. lastId + 1 \in 1..MaxEntries
        BY <4>1
      <4>3. QED BY <2>2, <4>2 DEF Ids
    <3>4. QED BY <3>1, <3>2, <3>3
  <2>4. lastId + 1 \notin ids
    BY LedgerAssumption DEF SoundInv, TamperInv, Typed, TypeOK
  <2>5. QED BY <2>1, <2>3, <2>4
<1>3. ASSUME NEW t \in Appenders, Rotation(t) PROVE UNCHANGED rows
  BY <1>3, RotationLeaves DEF SoundInv, TamperInv
<1>4. CASE Damage
  BY <1>1, <1>4, DamageShows
<1>5. ASSUME ~Damage, ~UNCHANGED rows
      PROVE  \E t \in Appenders : Insert(t) /\ InsertRow(t, lastId + 1)
  BY <1>3, <1>5
  DEF Next, ReadHead, Insert, SignAnchor, WriteAnchor, VerifyChain, IntegrityStep, ReadAnchor,
      CheckAnchor, Restart, vars
<1>6. QED BY <1>1, <1>2, <1>4, <1>5

\* The key of the file grows by one at most; a key once forgotten stays so.
LEMMA KeyFileGrows ==
    ASSUME Typed, [Next]_vars
    PROVE  keyFile' \in {keyFile, keyFile + 1} /\ (mislaid => mislaid')
<1>1. ASSUME NEW t \in Appenders, Rotation(t)
      PROVE  keyFile' \in {keyFile, keyFile + 1} /\ (mislaid => mislaid')
  <2>1. CASE BeginRotation(t)
    BY <2>1 DEF BeginRotation
  <2>2. CASE RotationRaises(t) \/ ReplaceKey(t) \/ OpenKeyset(t) \/ WriteKeyset(t)
    BY <2>2 DEF RotationRaises, ReplaceKey, OpenKeyset, WriteKeyset
  <2>3. QED BY <1>1, <2>1, <2>2 DEF Rotation, RotationStep
<1>2. ASSUME \A t \in Appenders : ~Rotation(t) PROVE UNCHANGED <<keyFile, mislaid>>
  BY <1>2
  DEF Next, ReadHead, Insert, SignAnchor, WriteAnchor, VerifyChain, IntegrityStep, ReadAnchor,
      CheckAnchor, Restart, Damage, EditRow, RewriteRow, Truncate, DeleteRow, untouched, vars,
      keys, rotation
<1>3. QED BY <1>1, <1>2

LEMMA ExportKeepsSound ==
    ASSUME NEW p, Single(p)
    PROVE  ExportSoundInv(p) /\ [ExportNext]_allVars => ExportSoundInv(p)'
<1> SUFFICES ASSUME ExportSoundInv(p), [ExportNext]_allVars PROVE ExportSoundInv(p)'
  OBVIOUS
<1>0. SoundInv(p) /\ Typed /\ keyFile \in Nat \ {0}
  BY LedgerAssumption DEF ExportSoundInv, SoundInv, TamperInv, Typed, TypeOK, Keys
<1>1. CASE [Next]_vars /\ (UNCHANGED exportVars \/ ~exporting')
  <2>1. SoundInv(p)' /\ keyFile' \in {keyFile, keyFile + 1} /\ (mislaid => mislaid')
    BY <1>0, <1>1, SoundIsInductive, KeyFileGrows
  <2>2. ASSUME exporting' PROVE exporting /\ exportKeys' = exportKeys
    BY <1>1, <2>2 DEF exportVars
  <2>3. exporting' => exportKeys' \subseteq 1..keyFile'
    <3>1. 1..keyFile \subseteq 1..keyFile'
      BY <1>0, <2>1
    <3>2. QED BY <2>2, <3>1 DEF ExportSoundInv
  <2>4. ASSUME exporting', Undamaged', ~mislaid', keyFile' \in exportKeys', NEW i \in ids'
        PROVE  signer'[i] \in exportKeys'
    <3>1. keyFile' = keyFile /\ keyFile \in exportKeys
      <4>1. keyFile' \in 1..keyFile
        BY <2>2, <2>4 DEF ExportSoundInv
      <4>2. QED BY <1>0, <2>1, <2>2, <2>4, <4>1
    <3>2. Undamaged /\ ((i \in ids /\ signer'[i] = signer[i]) \/ signer'[i] = keyFile)
      BY <1>0, <1>1, <2>4, SignersStay
    <3>3. QED BY <2>1, <2>2, <2>4, <3>1, <3>2 DEF ExportSoundInv
  <2>5. QED BY <2>1, <2>3, <2>4 DEF ExportSoundInv
<1>2. CASE ReadKeys
  <2>1. ExportWorker = p /\ key[p] = keyFile /\ KeyInv(p)
    BY ExportAssumption DEF Single, ExportSoundInv, SoundInv, KeyInv
  <2>2. EnsureKeyset(p) /\ UNCHANGED <<rows, anchor, keyFile, key, loaded, cut, mislaid, lock,
                                       appending, checkpoint, verifying>>
    BY <1>2, <2>1 DEF ReadKeys
  <2>3. TamperInv(p)' /\ Typed'
    BY <1>0, <1>2, ReadKeysKeepsTamper DEF SoundInv, TamperInv
  <2>4. KeyInv(p)' /\ \A i : SignerKept(i) => SignerKept(i)'
    <3>1. UNCHANGED <<keyFile, key, loaded, cut, mislaid, apc, signer>>
      BY <2>2 DEF rows, appending
    <3>2. QED BY <2>1, <2>2, <2>3, <3>1, EnsureKeepsKeys
  <2>5. ASSUME Undamaged' PROVE ChainInv(p)'
    <3>1. ChainInv(p)
      BY <1>0, <2>2, <2>5 DEF SoundInv, Undamaged, Intact, rows
    <3>2. QED
      BY <2>2, <2>4, <3>1, ChainStays
      DEF ChainInv, NoChainAlarm, appending, checkpoint, verifying
  <2>6. SoundInv(p)'
    BY <2>3, <2>4, <2>5 DEF SoundInv
  <2>7. CASE torn'
    <3>1. UNCHANGED exportVars /\ ~exporting
      BY <1>2, <2>7 DEF ReadKeys
    <3>2. QED BY <2>6, <3>1 DEF ExportSoundInv, exportVars
  <2>8. CASE ~torn'
    <3>1. exportKeys' = {keyFile'} \cup keyset'
      BY <1>2, <2>1, <2>2, <2>8 DEF ReadKeys
    <3>2. exportKeys' \subseteq 1..keyFile'
      <4>1. keyset' \subseteq 1..keyFile'
        BY <2>4 DEF KeyInv
      <4>2. keyFile' \in 1..keyFile'
        BY <1>0, <2>2
      <4>3. QED BY <3>1, <4>1, <4>2
    <3>3. ASSUME Undamaged', ~mislaid', NEW i \in ids' PROVE signer'[i] \in exportKeys'
      BY <2>5, <2>8, <3>1, <3>3 DEF ChainInv, SignerKept
    <3>4. QED BY <2>6, <3>2, <3>3 DEF ExportSoundInv
  <2>9. QED BY <2>7, <2>8
<1>3. CASE ReadRows
  BY <1>1, <1>3 DEF ReadRows
<1>4. CASE Next /\ UNCHANGED exportVars
  BY <1>1, <1>4
<1>5. CASE UNCHANGED allVars
  BY <1>1, <1>5 DEF allVars
<1>6. QED
  BY <1>2, <1>3, <1>4, <1>5 DEF ExportNext

\* In one process the tool accepts every export of a ledger nobody has damaged, whatever keys
\* its rows were signed with and whichever rotations were cut short, if the key was not
\* replaced between the reading of the keys and of the rows and no rotation has forgotten a
\* key (main.py:387-393, verify_ledger.py:107-152).
THEOREM ToolAcceptsSound ==
    ASSUME NEW p, Single(p)
    PROVE  ExportSpec => SoundExportVerifies
<1>1. ExportInit => ExportSoundInv(p)
  BY SoundStarts DEF ExportInit, ExportSoundInv
<1>2. ExportSoundInv(p) /\ [ExportNext]_allVars =>
        [exporting /\ ~exporting' /\ Undamaged /\ ~mislaid /\ key[ExportWorker] \in exportKeys
            => toolSays' = "ok"]_allVars
  <2> SUFFICES ASSUME ExportSoundInv(p), [ExportNext]_allVars, exporting, ~exporting',
                      Undamaged, ~mislaid, key[ExportWorker] \in exportKeys
               PROVE  toolSays' = "ok"
    OBVIOUS
  <2>1. ReadRows
    BY DEF ExportNext, exportVars, allVars, ReadKeys
  <2>2. /\ ChainInv(p) /\ lastId \in Nat /\ ids = 1..lastId
        /\ ExportWorker = p /\ key[p] = keyFile
    BY LedgerAssumption, ExportAssumption
    DEF ExportSoundInv, SoundInv, ChainInv, KeyInv, Typed, TypeOK, Single
  <2>3. \A i \in ids : signer[i] \in exportKeys
    BY <2>2 DEF ExportSoundInv
  <2>4. ASSUME NEW i \in ids PROVE prev[i] = Expected(i, 0, Genesis)
    <3>1. 0 \in 0..lastId /\ Genesis = HashAt(0) /\ 0 < i /\ RowLinked(i)
      BY <2>2 DEF ChainInv, HashAt
    <3>2. QED BY <2>2, <3>1, LinkedRowFollows
  <2>5. ToolVerifies
    BY <2>2, <2>3, <2>4 DEF ChainInv, RowLinked, ToolVerifies, CheckHash, PubKeys
  <2>6. QED BY <2>1, <2>5 DEF ReadRows
<1>3. QED
  BY <1>1, <1>2, ExportKeepsSound, PTL DEF ExportSpec, SoundExportVerifies
=============================================================================
