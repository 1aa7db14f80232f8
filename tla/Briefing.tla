------------------------------- MODULE Briefing -------------------------------
(***************************************************************************)
(* The briefing coordinator (platform_runtime/briefing.py): once a day a digest *)
(* of authorised reads is claimed in a ledger, assembled and handed to the       *)
(* engine as an ordinary task whose verdict is read back.                       *)
(*                                                                         *)
(* One tenant.  The ledger is kept for the day that is: a row of an earlier day  *)
(* is claimed by nobody, and a cycle begun on it writes that row alone.          *)
(***************************************************************************)
EXTENDS Naturals, Sequences, FiniteSets, SequencesExt

CONSTANTS
  Digest,    \* briefing schedules
  Clerk,     \* worker processes
  Endings,   \* how the engine may end a delivery: some of _TASK_TO_LEDGER
  MaxDeaths  \* bound: deaths of a worker within a cycle

VARIABLES
  dueLine,   \* enabled schedules whose next_due has passed, in the order of next_due
  sleeping,  \* enabled schedules whose next_due is to come
  dayRow,    \* p_briefing_ledger: today's row of each schedule
  dayTask,   \* today's delivery task of each schedule, keyed by the schedule and the day
  clerk,     \* memory of the workers during a cycle
  briefWorld \* what the tenant and the owner allow ("ok", "frozen", "revoked"), whether the tenant's
             \* configuration can be read, and the deaths so far

briefingVars == <<dueLine, sleeping, dayRow, dayTask, clerk, briefWorld>>

Free == [pc |-> "idle", digest |-> CHOOSE d \in Digest : TRUE, today |-> TRUE]

BriefingInit ==
  /\ dueLine = <<>> /\ sleeping = {}
  /\ dayRow = [d \in Digest |-> "none"] /\ dayTask = [d \in Digest |-> "none"]
  /\ clerk = [w \in Clerk |-> Free]
  /\ briefWorld = [allows |-> "ok", readable |-> TRUE, deaths |-> 0]

Enabled(d) == d \in sleeping \/ d \in Range(dueLine)
Without(d) == SelectSeq(dueLine, LAMBDA e : e # d)

\* _advance: next_due is moved past now, on the row as it is by now.
Advance(d) == dueLine' = Without(d) /\ sleeping' = IF Enabled(d) THEN sleeping \union {d} ELSE sleeping
Disable(d) == dueLine' = Without(d) /\ sleeping' = sleeping \ {d}

-----------------------------------------------------------------------------
\* configure: the owner puts a schedule, enabled or not; next_due starts anew.
PutDigest(d, on) ==
  /\ briefWorld.allows = "ok" /\ dueLine' = Without(d)
  /\ sleeping' = IF on THEN sleeping \union {d} ELSE sleeping \ {d}
  /\ UNCHANGED <<dayRow, dayTask, clerk, briefWorld>>

DigestComesDue(d) ==
  /\ d \in sleeping /\ sleeping' = sleeping \ {d} /\ dueLine' = Append(dueLine, d)
  /\ UNCHANGED <<dayRow, dayTask, clerk, briefWorld>>

\* Midnight of the schedules' day; the tasks of yesterday go on unseen.
NextDay ==
  /\ dayRow' = [d \in Digest |-> "none"] /\ dayTask' = [d \in Digest |-> "none"]
  /\ clerk' = [w \in Clerk |-> IF clerk[w].pc = "idle" THEN Free ELSE [clerk[w] EXCEPT !.today = FALSE]]
  /\ UNCHANGED <<dueLine, sleeping, briefWorld>>

BriefWorldChanges(to) ==
  /\ briefWorld.allows # to /\ briefWorld' = [briefWorld EXCEPT !.allows = to]
  /\ UNCHANGED <<dueLine, sleeping, dayRow, dayTask, clerk>>

\* The tenant's configuration file is broken, or mended.
ConfigurationChanges ==
  /\ briefWorld' = [briefWorld EXCEPT !.readable = ~@]
  /\ UNCHANGED <<dueLine, sleeping, dayRow, dayTask, clerk>>

-----------------------------------------------------------------------------
\* tick: the schedule due first, of a tenant that is not frozen.
LookDue(w) ==
  /\ clerk[w].pc = "idle" /\ dueLine # <<>> /\ briefWorld.allows # "frozen"
  /\ clerk' = [clerk EXCEPT ![w] = [Free EXCEPT !.pc = "look", !.digest = Head(dueLine)]]
  /\ UNCHANGED <<dueLine, sleeping, dayRow, dayTask, briefWorld>>

\* An owner without authority, or a freeze since that read, disables it; a row of today that is
\* not queued leaves next_due where it is; otherwise the day is claimed (_claim).
ClaimDay(w) ==
  LET d == clerk[w].digest
  IN /\ clerk[w].pc = "look"
     /\ \/ /\ briefWorld.allows # "ok" /\ Disable(d)
           /\ clerk' = [clerk EXCEPT ![w] = Free] /\ UNCHANGED dayRow
        \/ /\ briefWorld.allows = "ok" /\ dayRow[d] \notin {"none", "queued"}
           /\ clerk' = [clerk EXCEPT ![w] = Free] /\ UNCHANGED <<dueLine, sleeping, dayRow>>
        \/ /\ briefWorld.allows = "ok" /\ dayRow[d] \in {"none", "queued"}
           /\ dayRow' = [dayRow EXCEPT ![d] = "queued"]
           /\ clerk' = [clerk EXCEPT ![w].pc = "claimed", ![w].today = TRUE] /\ UNCHANGED <<dueLine, sleeping>>
     /\ UNCHANGED <<dayTask, briefWorld>>

\* _mark, without a look at the row: today's, unless the cycle began before midnight.
Marked(w, status) == IF clerk[w].today THEN [dayRow EXCEPT ![clerk[w].digest] = status] ELSE dayRow
To(w, pc) == clerk' = [clerk EXCEPT ![w].pc = pc]

\* _digest: assembled, or refused, or failed as a whole.  What graph_config raises of a
\* configuration that cannot be read is caught nowhere in tick: the row stays queued and
\* next_due where it is.
Assemble(w) ==
  /\ clerk[w].pc = "claimed"
  /\ \/ briefWorld.readable /\ To(w, "assembled") /\ UNCHANGED dayRow
     \/ briefWorld.readable /\ To(w, "advance") /\ dayRow' = Marked(w, "failed")
     \/ To(w, "disable") /\ dayRow' = Marked(w, "failed")
     \/ ~briefWorld.readable /\ clerk' = [clerk EXCEPT ![w] = Free] /\ UNCHANGED dayRow
  /\ UNCHANGED <<dueLine, sleeping, dayTask, briefWorld>>

\* _deliver: the task of the day is submitted, or found again by its key.
DeliverDigest(w) ==
  LET d == clerk[w].digest
  IN /\ clerk[w].pc = "assembled"
     /\ \/ /\ briefWorld.allows = "ok" \/ ~clerk[w].today \/ dayTask[d] # "none"
           /\ dayTask' = IF clerk[w].today /\ dayTask[d] = "none" THEN [dayTask EXCEPT ![d] = "open"] ELSE dayTask
           /\ To(w, "delivered") /\ UNCHANGED dayRow
        \/ \E pc \in {"disable", "advance"} : To(w, pc) /\ dayRow' = Marked(w, "failed") /\ UNCHANGED dayTask
     /\ UNCHANGED <<dueLine, sleeping, briefWorld>>

MarkDelivered(w) ==
  /\ clerk[w].pc = "delivered" /\ dayRow' = Marked(w, "submitted") /\ To(w, "advance")
  /\ UNCHANGED <<dueLine, sleeping, dayTask, briefWorld>>

\* Mutant of EndDigest: a cycle that failed does not move next_due.
EndDigestKept(w) ==
  LET d == clerk[w].digest
  IN /\ clerk[w].pc \in {"disable", "advance"}
     /\ IF clerk[w].pc = "disable" THEN Disable(d)
        ELSE IF dayRow[d] = "failed" THEN UNCHANGED <<dueLine, sleeping>> ELSE Advance(d)
     /\ clerk' = [clerk EXCEPT ![w] = Free] /\ UNCHANGED <<dayRow, dayTask, briefWorld>>

\* The end of a cycle: the schedule is disabled, or its next_due moves.
EndDigest(w) ==
  LET d == clerk[w].digest
  IN /\ clerk[w].pc \in {"disable", "advance"}
     /\ IF clerk[w].pc = "disable" THEN Disable(d) ELSE Advance(d)
     /\ clerk' = [clerk EXCEPT ![w] = Free] /\ UNCHANGED <<dayRow, dayTask, briefWorld>>

ClerkDies(w) ==
  /\ clerk[w].pc # "idle" /\ briefWorld.deaths < MaxDeaths
  /\ clerk' = [clerk EXCEPT ![w] = Free] /\ briefWorld' = [briefWorld EXCEPT !.deaths = @ + 1]
  /\ UNCHANGED <<dueLine, sleeping, dayRow, dayTask>>

\* The engine ends the delivery; _settle, first in every tick, reads the verdict back.
DigestEnds(d, end) ==
  /\ dayTask[d] = "open" /\ dayTask' = [dayTask EXCEPT ![d] = end]
  /\ UNCHANGED <<dueLine, sleeping, dayRow, clerk, briefWorld>>

SettleDigest(d) ==
  /\ dayRow[d] = "submitted" /\ dayTask[d] \notin {"none", "open"}
  /\ dayRow' = [dayRow EXCEPT ![d] = IF dayTask[d] = "succeeded" THEN "sent" ELSE dayTask[d]]
  /\ UNCHANGED <<dueLine, sleeping, dayTask, clerk, briefWorld>>

Cycle(w) == LookDue(w) \/ ClaimDay(w) \/ Assemble(w) \/ DeliverDigest(w) \/ MarkDelivered(w) \/ EndDigest(w)

BriefingNext ==
  \/ NextDay \/ ConfigurationChanges
  \/ \E to \in {"ok", "frozen", "revoked"} : BriefWorldChanges(to)
  \/ \E d \in Digest : \/ DigestComesDue(d) \/ SettleDigest(d)
                       \/ \E on \in BOOLEAN : PutDigest(d, on)
                       \/ \E end \in Endings : DigestEnds(d, end)
  \/ \E w \in Clerk : Cycle(w) \/ ClerkDies(w)

\* The worker loop ticks on, and midnight comes.
BriefingFairness == WF_briefingVars(NextDay) /\ \A w \in Clerk : WF_briefingVars(Cycle(w))
BriefingSpec == BriefingInit /\ [][BriefingNext]_briefingVars /\ BriefingFairness

-----------------------------------------------------------------------------
\* A schedule that is due is served in the end, or the tenant is frozen, or its configuration
\* cannot be read: a schedule already served today keeps the head of the line, and with it every
\* other schedule, only until midnight (briefing.py:491-540: one due schedule a tick, and next_due
\* left alone when today's row is there, after a death too).
DueDigestComes ==
  \A d \in Digest :
    d \in Range(dueLine)
      ~> (d \notin Range(dueLine) \/ briefWorld.allows = "frozen" \/ ~briefWorld.readable)
=============================================================================
