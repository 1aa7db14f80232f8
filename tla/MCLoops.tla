-------------------------------- MODULE MCLoops --------------------------------
(***************************************************************************)
(* The three loops of the worker that must come to an end or come round, in one  *)
(* run: each behaviour is of one of them, the subject, chosen at the start, and       *)
(* the others keep their initial state.  Fairness is each loop's own.                  *)
(***************************************************************************)
EXTENDS AgentRun, Briefing, Schedules

VARIABLE subject

loopVars == <<subject, vars, briefingVars, schedulesVars>>

\* Only the subject moves.
OfRuns(Step) == subject = "runs" /\ UNCHANGED <<subject, briefingVars, schedulesVars>> /\ Step
OfBriefing(Step) == subject = "briefing" /\ UNCHANGED <<subject, vars, schedulesVars>> /\ Step
OfSchedules(Step) == subject = "schedules" /\ UNCHANGED <<subject, vars, briefingVars>> /\ Step

LoopsInit == subject \in {"runs", "briefing", "schedules"} /\ Init /\ BriefingInit /\ SchedulesInit
LoopsNext == OfRuns(Next) \/ OfBriefing(BriefingNext) \/ OfSchedules(SchedulesNext)

\* Fairness, BriefingFairness and SchedulesFairness, each of its subject's behaviours.
LoopsFairness ==
  /\ WF_loopVars(OfRuns(Tick))
  /\ \A p \in Thread : WF_loopVars(OfRuns(Plan(p)))
  /\ \A p \in Thread, r \in Run : WF_loopVars(OfRuns(Retire(p, r)))
  /\ WF_loopVars(OfBriefing(NextDay)) /\ \A w \in Clerk : WF_loopVars(OfBriefing(Cycle(w)))
  /\ \A w \in Runner : WF_loopVars(OfSchedules(Pass(w)))
LoopsSpec == LoopsInit /\ [][LoopsNext]_loopVars /\ LoopsFairness
=============================================================================
