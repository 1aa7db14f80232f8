------------------------------ MODULE Escalation ------------------------------
(***************************************************************************)
(* The escalation coordinator (platform_runtime/escalation.py): overdue items   *)
(* of a register are claimed in a ledger and reported to a manager, a batch at   *)
(* a time, by ordinary engine tasks whose verdicts are read back.               *)
(*                                                                         *)
(* One tenant, one schedule.  A delivery task is named by its idempotency key,   *)
(* the day and the batch (_delivery_key): the text may drift, the key may not.   *)
(***************************************************************************)
EXTENDS Naturals, FiniteSets

CONSTANTS
  Item,          \* work items: person, task and due date
  Ticker,        \* worker processes
  MaxDay,        \* bound: days
  MaxPerCycle,   \* items of one message
  MaxDeliveries, \* MAX_DELIVERY_ATTEMPTS
  MaxClaims      \* bound: claims of one item

ASSUME EscalationAssumption ==
  /\ {MaxDay, MaxPerCycle, MaxDeliveries, MaxClaims} \subseteq Nat \ {0}
  /\ MaxDeliveries <= MaxClaims

VARIABLES
  notice,    \* p_escalation_ledger: status, attempt, cooldown over, task of each item
  escTask,   \* the engine's delivery tasks, by key
  ticker,    \* memory of the workers during a cycle
  escalation,\* p_escalation: "off", "waiting" for next_due, or "due"
  escWorld,  \* the day, and what the tenant and the owner allow: "ok", "frozen", "revoked"
  overlapped \* history: a worker died in a cycle, or two cycles ran at once

escalationVars == <<notice, escTask, ticker, escalation, escWorld, overlapped>>

Batch == {b \in SUBSET Item : b # {} /\ Cardinality(b) <= MaxPerCycle}
NoticeKey == (1..MaxDay) \X Batch
NoKey == <<0, {}>>

Resting == [pc |-> "idle", todo |-> {}, batch |-> {}, day |-> 0, key |-> NoKey]

EscalationInit ==
  /\ notice = [i \in Item |-> [status |-> "none", attempt |-> 0, cooled |-> FALSE, key |-> NoKey]]
  /\ escTask = [k \in NoticeKey |-> "none"]
  /\ ticker = [w \in Ticker |-> Resting]
  /\ escalation = "off"
  /\ escWorld = [day |-> 1, allows |-> "ok"]
  /\ overlapped = FALSE

-----------------------------------------------------------------------------
\* configure and disable, by the owner; next_due starts anew.
PutEscalation(to) ==
  /\ escWorld.allows = "ok" \/ (to = "off" /\ escWorld.allows = "frozen")
  /\ escalation # to /\ escalation' = to
  /\ UNCHANGED <<notice, escTask, ticker, escWorld, overlapped>>

EscalationComesDue ==
  /\ escalation = "waiting" /\ escalation' = "due"
  /\ UNCHANGED <<notice, escTask, ticker, escWorld, overlapped>>

\* The surroundings: midnight, a freeze, a revoked owner.
EscWorldChanges ==
  /\ \/ escWorld.day < MaxDay /\ escWorld' = [escWorld EXCEPT !.day = @ + 1]
     \/ \E to \in {"ok", "frozen", "revoked"} : escWorld' = [escWorld EXCEPT !.allows = to]
  /\ UNCHANGED <<notice, escTask, ticker, escalation, overlapped>>

CooldownEnds(i) ==
  /\ notice[i].status = "failed" /\ ~notice[i].cooled /\ notice' = [notice EXCEPT ![i].cooled = TRUE]
  /\ UNCHANGED <<escTask, ticker, escalation, escWorld, overlapped>>

-----------------------------------------------------------------------------
\* _advance and _disable write the row as it is by now.
Later == IF escalation = "off" THEN "off" ELSE "waiting"

\* tick: a due schedule of a tenant that is not frozen; an owner without authority ends it.
StartTick(w) ==
  /\ ticker[w].pc = "idle" /\ escalation = "due" /\ escWorld.allows # "frozen"
  /\ IF escWorld.allows = "revoked"
     THEN escalation' = "off" /\ UNCHANGED <<ticker, overlapped>>
     ELSE /\ ticker' = [ticker EXCEPT ![w].pc = "read"]
          /\ overlapped' = (overlapped \/ \E v \in Ticker : ticker[v].pc # "idle")
          /\ UNCHANGED escalation
  /\ UNCHANGED <<notice, escTask, escWorld>>

\* _overdue_items: the items the register has overdue, and not too old, by now: any.  A refused
\* read ends the schedule, a failed one is not "nothing overdue".
ReadOverdue(w) ==
  /\ ticker[w].pc = "read"
  /\ \/ /\ \E items \in SUBSET Item :
             ticker' = [ticker EXCEPT ![w].pc = "claim", ![w].day = escWorld.day, ![w].todo = items]
        /\ UNCHANGED escalation
     \/ ticker' = [ticker EXCEPT ![w] = Resting] /\ escalation' \in {"off", Later}
  /\ UNCHANGED <<notice, escTask, escWorld, overlapped>>

\* Mutant of Claimable: an item in flight may be claimed again.
ClaimableInFlight(i) ==
  /\ notice[i].status \notin {"sent", "uncertain"}
  /\ notice[i].status = "failed" => notice[i].attempt < MaxDeliveries /\ notice[i].cooled

\* _claim: never what is sent, in flight or in doubt; a failed item after its cooldown, up to
\* the cap; an item left queued at once.
Claimable(i) ==
  /\ notice[i].status \notin {"sent", "submitted", "uncertain"}
  /\ notice[i].status = "failed" => notice[i].attempt < MaxDeliveries /\ notice[i].cooled

\* One item of the read, in a transaction of its own.
ConsiderItem(w, i) ==
  /\ ticker[w].pc = "claim" /\ i \in ticker[w].todo
  /\ Cardinality(ticker[w].batch) < MaxPerCycle
  /\ IF Claimable(i)
     THEN /\ notice[i].attempt < MaxClaims
          /\ notice' = [notice EXCEPT ![i] =
               [status |-> "queued", attempt |-> @.attempt + 1, cooled |-> FALSE, key |-> NoKey]]
          /\ ticker' = [ticker EXCEPT ![w].todo = @ \ {i}, ![w].batch = @ \union {i}]
     ELSE ticker' = [ticker EXCEPT ![w].todo = @ \ {i}] /\ UNCHANGED notice
  /\ UNCHANGED <<escTask, escalation, escWorld, overlapped>>

ClaimsOver(w) ==
  ticker[w].pc = "claim" /\ (ticker[w].todo = {} \/ Cardinality(ticker[w].batch) = MaxPerCycle)

NothingToReport(w) ==
  /\ ClaimsOver(w) /\ ticker[w].batch = {}
  /\ ticker' = [ticker EXCEPT ![w] = Resting] /\ escalation' = Later
  /\ UNCHANGED <<notice, escTask, escWorld, overlapped>>

\* _deliver: the task of this day and batch is submitted, or found again.
Deliver(w) ==
  LET k == <<ticker[w].day, ticker[w].batch>>
  IN /\ ClaimsOver(w) /\ ticker[w].batch # {}
     /\ \/ /\ escTask[k] # "none" \/ escWorld.allows = "ok"
           /\ escTask' = [escTask EXCEPT ![k] = IF @ = "none" THEN "open" ELSE @]
           /\ ticker' = [ticker EXCEPT ![w].pc = "mark", ![w].key = k, ![w].day = 0]
        \/ /\ \E pc \in {"refused", "failed"} : ticker' = [ticker EXCEPT ![w].pc = pc, ![w].day = 0]
           /\ UNCHANGED escTask
     /\ UNCHANGED <<notice, escalation, escWorld, overlapped>>

\* _mark, one item at a time and without a look at the row; then the schedule moves on or,
\* where the engine refused the delivery, ends.
MarkItem(w, i) ==
  /\ ticker[w].pc \in {"mark", "refused", "failed"} /\ i \in ticker[w].batch
  /\ notice' = [notice EXCEPT ![i].status = IF ticker[w].pc = "mark" THEN "submitted" ELSE "failed",
                              ![i].key = ticker[w].key]
  /\ ticker' = [ticker EXCEPT ![w].batch = @ \ {i}]
  /\ UNCHANGED <<escTask, escalation, escWorld, overlapped>>

EndTick(w) ==
  /\ ticker[w].pc \in {"mark", "refused", "failed"} /\ ticker[w].batch = {}
  /\ ticker' = [ticker EXCEPT ![w] = Resting]
  /\ escalation' = IF ticker[w].pc = "refused" THEN "off" ELSE Later
  /\ UNCHANGED <<notice, escTask, escWorld, overlapped>>

TickerDies(w) ==
  /\ ticker[w].pc # "idle" /\ ticker' = [ticker EXCEPT ![w] = Resting] /\ overlapped' = TRUE
  /\ UNCHANGED <<notice, escTask, escalation, escWorld>>

-----------------------------------------------------------------------------
\* _TASK_TO_LEDGER: what an ended task says of the items it carried.
Verdict == [succeeded |-> "sent", failed |-> "failed", uncertain |-> "uncertain"]

\* The engine ends a delivery; a person settles one in doubt.
DeliveryEnds(k) ==
  /\ \/ escTask[k] = "open" /\ \E end \in DOMAIN Verdict : escTask' = [escTask EXCEPT ![k] = end]
     \/ escTask[k] = "uncertain" /\ \E end \in {"succeeded", "failed"} : escTask' = [escTask EXCEPT ![k] = end]
  /\ UNCHANGED <<notice, ticker, escalation, escWorld, overlapped>>

\* _settle: the verdict reaches every item still marked with that task; the task of a settled
\* row is read no more.
SettleNotices(k) ==
  LET told == {i \in Item : notice[i].status = "submitted" /\ notice[i].key = k}
  IN /\ escTask[k] \in DOMAIN Verdict /\ told # {}
     /\ notice' = [i \in Item |-> IF i \in told THEN [notice[i] EXCEPT !.status = Verdict[escTask[k]], !.key = NoKey]
                                               ELSE notice[i]]
     /\ UNCHANGED <<escTask, ticker, escalation, escWorld, overlapped>>

EscalationNext ==
  \/ \E to \in {"off", "waiting"} : PutEscalation(to)
  \/ EscalationComesDue \/ EscWorldChanges
  \/ \E i \in Item : CooldownEnds(i)
  \/ \E w \in Ticker : \/ StartTick(w) \/ ReadOverdue(w) \/ NothingToReport(w) \/ Deliver(w)
                       \/ EndTick(w) \/ TickerDies(w)
  \/ \E w \in Ticker, i \in Item : ConsiderItem(w, i) \/ MarkItem(w, i)
  \/ \E k \in NoticeKey : DeliveryEnds(k) \/ SettleNotices(k)

EscalationSpec == EscalationInit /\ [][EscalationNext]_escalationVars

-----------------------------------------------------------------------------
Reports(i) == {k \in NoticeKey : i \in k[2] /\ escTask[k] = "succeeded"}

\* A row says "sent" only of an item some delivered message carried, and as long as no worker
\* died in a cycle and no two cycles overlapped, an item is in at most one delivered
\* message, whatever the failures, the doubts, the days and the edits of the register
\* (escalation.py:50-58; the claim, the key and the marks are three steps).
ToldOnceUnlessInterrupted ==
  \A i \in Item :
    /\ notice[i].status = "sent" => Reports(i) # {}
    /\ ~overlapped => Cardinality(Reports(i)) <= 1

\* What escalation.py:50 says without a condition: a task is escalated at most once, ever.
EscalatedOnce == \A i \in Item : Cardinality(Reports(i)) <= 1
=============================================================================
