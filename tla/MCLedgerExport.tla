--------------------------- MODULE MCLedgerExport ---------------------------
(* Small instances of the audit ledger and its export for TLC. *)
EXTENDS LedgerExport

CONSTANTS t1, t2, v1, w1

\* One process serves every thread.
OneProcess == [t \in Appenders \cup Verifiers |-> w1]
=============================================================================
