---------------------------- MODULE LedgerExport ----------------------------
(***************************************************************************)
(* The export of the ledger (GET /ledger/export of main.py) and the tool   *)
(* that verifies it elsewhere (tools/verify_ledger.py).  The export reads  *)
(* the keys, and then the rows: a rotation and appends may come between.   *)
(***************************************************************************)
EXTENDS Ledger

CONSTANT ExportWorker  \* the process that serves the export

ASSUME ExportAssumption == ExportWorker \in Workers

VARIABLES
    exporting,   \* have the keys been read and the rows not yet?
    exportKeys,  \* public_key_hex and the keyset of the export
    toolSays     \* what the tool says of the last export: "nothing", "ok" or "fail"

exportVars == <<exporting, exportKeys, toolSays>>
allVars == <<vars, exportVars>>

ExportInit ==
    /\ Init
    /\ exporting = FALSE /\ exportKeys = {} /\ toolSays = "nothing"

\* keyset_info makes the keyset if there is none, and tells of all its keys and the current;
\* when the keyset cannot be made or read, there is no export.
ReadKeys ==
    /\ ~exporting
    /\ EnsureKeyset(ExportWorker)
    /\ IF torn' THEN UNCHANGED exportVars
       ELSE /\ exporting' = TRUE
            /\ exportKeys' = {key[ExportWorker]} \cup keyset'
            /\ toolSays' = "nothing"
    /\ UNCHANGED <<rows, anchor, keyFile, key, loaded, cut, mislaid, lock, appending,
                   checkpoint, verifying>>

\* _build_pub_keys
PubKeys == exportKeys

\* Mutant: the hash of an entry is taken as it stands.
AnyHash(i) == TRUE

\* _check_hash
CheckHash(i) == hash[i] = Hash(body[i], prev[i])

\* verify, on the rows as they are exported.
ToolVerifies ==
    \A i \in ids :
        /\ CheckHash(i)
        /\ prev[i] = Expected(i, 0, Genesis)
        /\ signer[i] \in PubKeys

ReadRows ==
    /\ exporting
    /\ exporting' = FALSE
    /\ exportKeys' = {}
    /\ toolSays' = IF ToolVerifies THEN "ok" ELSE "fail"
    /\ UNCHANGED vars

ExportNext ==
    \/ Next /\ UNCHANGED exportVars
    \/ ReadKeys \/ ReadRows

ExportSpec == ExportInit /\ [][ExportNext]_allVars

\* Nobody has to ask for an export.
ExportFairSpec == ExportSpec /\ Fairness

----------------------------------------------------------------------------
(* Properties *)

Undamaged == \A i \in 1..lastId : i \in ids /\ Intact(i)

\* The tool accepts the export of an undamaged ledger, keys retired or not and rotations cut
\* short or not, if the key was not replaced between the reading of the keys and of the rows,
\* and no rotation has forgotten one (NoChainAlarm; main.py:387-393, verify_ledger.py:107-152).
SoundExportVerifies ==
    [][exporting /\ ~exporting' /\ Undamaged /\ ~mislaid /\ key[ExportWorker] \in exportKeys
          => toolSays' = "ok"]_allVars

\* What the tool accepts is whole: no row is edited, and none before the last is missing
\* (verify_ledger.py:126-145).
AcceptedExportIsWhole ==
    [][exporting /\ ~exporting' /\ toolSays' = "ok" => \A i \in ids : Intact(i)]_allVars
=============================================================================
