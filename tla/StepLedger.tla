------------------------------ MODULE StepLedger ------------------------------
(***************************************************************************)
(* What the engine promises about one step of work, whatever mechanism     *)
(* keeps it: a step is granted once, acts at most once, and its record is   *)
(* true unless it says that it is in doubt or that a person vouched for it. *)
(***************************************************************************)
EXTENDS Naturals

CONSTANT Step
VARIABLES status, effects
ledger == <<status, effects>>

Init == status = [s \in Step |-> "absent"] /\ effects = [s \in Step |-> 0]

Goes(s, from, to) == status[s] = from /\ status'[s] = to
Still(s) == effects'[s] = effects[s]

Enter(s)   == Goes(s, "absent", "open") /\ Still(s)
Grant(s)   == Goes(s, "open", "held") /\ Still(s)
Drop(s)    == Goes(s, "open", "dropped") /\ Still(s)
Settle(s)  == /\ \/ Goes(s, "held", "done") /\ effects[s] = 1
                 \/ Goes(s, "held", "dropped") /\ effects[s] = 0
              /\ Still(s)
Doubt(s)   == Goes(s, "held", "doubtful") /\ Still(s)
Vouch(s)   == Goes(s, "doubtful", "vouched") /\ Still(s)
\* A dispatched call cannot be recalled, so it may act after its claim was
\* retired, and even after a person vouched for an outcome.
Act(s)     == /\ status[s] \in {"held", "doubtful", "vouched"} /\ status'[s] = status[s]
              /\ effects[s] = 0 /\ effects'[s] = 1

Stay(s) == status'[s] = status[s] /\ Still(s)

\* A freeze, a cancellation or one claim moves many steps in one transaction.
Next == /\ \A s \in Step : \/ Stay(s) \/ Enter(s) \/ Grant(s) \/ Drop(s) \/ Settle(s)
                           \/ Doubt(s) \/ Vouch(s) \/ Act(s)
        /\ DOMAIN status' = Step /\ DOMAIN effects' = Step

Spec == Init /\ [][Next]_ledger
=============================================================================
