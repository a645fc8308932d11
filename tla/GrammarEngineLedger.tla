------------------------ MODULE GrammarEngineLedger ------------------------
(* The refinement mapping from the engine to the ledger it implements.      *)
EXTENDS GrammarEngine

Phase == IF work_session_id = 0 THEN "closed" ELSE work_session_status

Ledger == INSTANCE WorkSessionLedger WITH
            phase   <- Phase,
            pending <- AuditOf(BufferedOf(work_session_id)),
            stock   <- bin_stock,
            audit   <- audit_log

(* The engine implements the ledger: whatever the scanner, the panel, the  *)
(* ticker and restarts do, stock and audit log change together, by commit  *)
(* only, and by every row then in the buffer of the session.               *)
ImplementsLedger == Ledger!Spec
=============================================================================
