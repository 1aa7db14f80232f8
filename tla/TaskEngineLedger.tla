--------------------------- MODULE TaskEngineLedger ---------------------------
(* The task engine implements the step ledger. *)
EXTENDS TaskEngine

LedgerStatus ==
  [s \in Step |->
     IF stepStatus[s] = "none" THEN "absent"
     ELSE IF s \in reconciled THEN "vouched"
     ELSE IF stepStatus[s] \in Undecided THEN "open"
     ELSE IF stepStatus[s] = "running" THEN "held"
     ELSE IF stepStatus[s] = "uncertain" THEN "doubtful"
     ELSE IF stepStatus[s] = "succeeded" THEN "done"
     ELSE "dropped"]

Ledger == INSTANCE StepLedger WITH status <- LedgerStatus

\* engine.py:1-5, as a refinement: claim, fence, finish, cancel, freeze, device,
\* reconcile and lease expiry together keep the ledger's promise to every step.
ImplementsLedger == Ledger!Spec
=============================================================================
