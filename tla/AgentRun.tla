------------------------------- MODULE AgentRun -------------------------------
(***************************************************************************)
(* Result-fed planning (platform_runtime/agent_loop.py): a run reserves one   *)
(* planner call, makes it with no transaction open, commits the decision      *)
(* under its claim, waits for the task it submitted, and goes on from its     *)
(* result.                                                                   *)
(*                                                                         *)
(* One tenant.  A run is one request key.  Its tasks are modelled by their    *)
(* status; TaskEngine models them in full and sees of the run what             *)
(* require_task_parent reads.  A claim is the number of the call it was        *)
(* reserved for.  Time is what is left of a lease or of the wall deadline.    *)
(***************************************************************************)
EXTENDS Integers, FiniteSets

CONSTANTS
  Run,         \* request keys
  Worker,      \* worker processes
  Slot,        \* planner threads of each
  NoRun,
  MaxSteps,    \* max_steps of a run (at most 12); max_calls is one more
  MaxActive,   \* ceiling of active runs (100)
  RunTicks,    \* max_seconds
  LeaseTicks   \* life of a planner's claim (180 s)

ASSUME RunAssumption ==
  /\ NoRun \notin Run
  /\ MaxSteps \in Nat \ {0} /\ MaxActive \in Nat \ {0}
  /\ RunTicks \in Nat \ {0} /\ LeaseTicks \in Nat \ {0}

Thread == Worker \X Slot
MaxCalls == MaxSteps + 1

VARIABLES
  status, steps, calls, claim, lease, deadline,  \* p_agent_runs
  task,                                          \* status of the task of each turn
  frozen, allowed,                               \* kill switch, the creator's authority
  job,                                           \* memory of the planner threads
  made                                           \* history: calls the provider received

runVars == <<status, steps, calls, claim, lease, deadline>>
envVars == <<frozen, allowed>>
vars == <<runVars, task, envVars, job, made>>

ACTIVE == {"pending", "planning", "waiting_task"}
TERMINAL == {"succeeded", "needs_input", "escalated", "uncertain", "cancelled"}
TaskStatus == {"none", "open", "running", "succeeded", "failed", "cancelled", "uncertain"}
Unfinished == {"open", "running"}

\* What a planner returns: a decision the run may use, one that is rejected for its
\* shape (and may be repaired), one that policy refuses, or an exception.
Outcome == {"tool", "final", "ask", "malformed", "refused", "error"}

Idle == [pc |-> "idle", run |-> NoRun, claim |-> 0, repairs |-> 0, out |-> "error"]
Job == [pc : {"idle", "reserved", "calling", "returned"}, run : Run \union {NoRun},
        claim : 0..MaxCalls, repairs : 0..1, out : Outcome]

TypeOK ==
  /\ status \in [Run -> ACTIVE \union TERMINAL \union {"none"}]
  /\ steps \in [Run -> 0..MaxSteps] /\ calls \in [Run -> 0..MaxCalls]
  /\ claim \in [Run -> 0..MaxCalls]
  /\ lease \in [Run -> 0..LeaseTicks] /\ deadline \in [Run -> 0..RunTicks]
  /\ task \in [Run -> [1..MaxSteps -> TaskStatus]]
  /\ frozen \in BOOLEAN /\ allowed \in BOOLEAN
  /\ job \in [Thread -> Job] /\ made \in [Run -> Nat]

Init ==
  /\ status = [r \in Run |-> "none"] /\ steps = [r \in Run |-> 0] /\ calls = [r \in Run |-> 0]
  /\ claim = [r \in Run |-> 0] /\ lease = [r \in Run |-> 0] /\ deadline = [r \in Run |-> 0]
  /\ task = [r \in Run |-> [i \in 1..MaxSteps |-> "none"]]
  /\ frozen = FALSE /\ allowed = TRUE
  /\ job = [p \in Thread |-> Idle] /\ made = [r \in Run |-> 0]

-----------------------------------------------------------------------------
Create(r) ==
  /\ status[r] = "none" /\ allowed /\ ~frozen
  /\ Cardinality({q \in Run : status[q] \in ACTIVE}) < MaxActive
  /\ status' = [status EXCEPT ![r] = "pending"]
  /\ deadline' = [deadline EXCEPT ![r] = RunTicks]
  /\ UNCHANGED <<steps, calls, claim, lease, task, envVars, job, made>>

\* The status of current_task; a run that has none, or whose last task succeeded, has
\* nothing to retire.
CurrentTask(r) == IF steps[r] = 0 THEN "none" ELSE task[r][steps[r]]

\* Mutant of Stop: the run's task is left as it is.
StopRunOnly(r, verdict) ==
  /\ status' = [status EXCEPT ![r] = verdict]
  /\ claim' = [claim EXCEPT ![r] = 0] /\ lease' = [lease EXCEPT ![r] = 0]
  /\ UNCHANGED <<steps, calls, deadline, task>>

\* Mutant of Stop: the run says what it was told, in spite of its task.
StopAsTold(r, verdict) ==
  /\ task' = IF CurrentTask(r) \notin Unfinished THEN task
             ELSE [task EXCEPT ![r][steps[r]] = IF @ = "running" THEN "uncertain" ELSE "cancelled"]
  /\ status' = [status EXCEPT ![r] = verdict]
  /\ claim' = [claim EXCEPT ![r] = 0] /\ lease' = [lease EXCEPT ![r] = 0]
  /\ UNCHANGED <<steps, calls, deadline>>

\* _stop: the unfinished task is retired with the run; doubt about it is the run's.
Stop(r, verdict) ==
  /\ task' = IF CurrentTask(r) \notin Unfinished THEN task
             ELSE [task EXCEPT ![r][steps[r]] = IF @ = "running" THEN "uncertain" ELSE "cancelled"]
  /\ status' = [status EXCEPT ![r] = IF CurrentTask(r) \in {"running", "uncertain"}
                                     THEN "uncertain" ELSE verdict]
  /\ claim' = [claim EXCEPT ![r] = 0] /\ lease' = [lease EXCEPT ![r] = 0]
  /\ UNCHANGED <<steps, calls, deadline>>

Cancel(r) ==
  /\ status[r] \in ACTIVE /\ Stop(r, "cancelled")
  /\ UNCHANGED <<envVars, job, made>>

-----------------------------------------------------------------------------
(* _reserve, by an idle thread; its process skips the runs it is planning. *)

Skipped(p, r) == \E i \in Slot : job[<<p[1], i>>].run = r

Look(p, r) == job[p].pc = "idle" /\ status[r] \in ACTIVE /\ ~Skipped(p, r)

\* Every earlier turn's task succeeded: _observations.
Observed(r) == \A i \in 1..steps[r] : task[r][i] = "succeeded"

\* Mutant of Overdue: the kill switch is asked first.
OverdueThawed(r) ==
  ~frozen /\ (deadline[r] = 0 \/ ~allowed \/ (status[r] = "planning" /\ lease[r] = 0))

\* What stops a run whatever the kill switch says.
Overdue(r) == deadline[r] = 0 \/ ~allowed \/ (status[r] = "planning" /\ lease[r] = 0)

\* A task that ended without success, or no call left.
Exhausted(r) ==
  /\ ~frozen
  /\ \/ status[r] = "waiting_task" /\ CurrentTask(r) \in {"failed", "cancelled", "uncertain"}
     \/ /\ status[r] = "pending" \/ (status[r] = "waiting_task" /\ CurrentTask(r) = "succeeded")
        /\ calls[r] >= MaxCalls \/ ~Observed(r)

Retire(p, r) ==
  /\ Look(p, r)
  /\ \/ Overdue(r) /\ Stop(r, "escalated")
     \/ /\ ~Overdue(r) /\ Exhausted(r)
        /\ Stop(r, IF status[r] = "waiting_task" /\ CurrentTask(r) = "cancelled"
                   THEN "cancelled" ELSE "escalated")
     \/ ~Overdue(r) /\ ~frozen /\ Stop(r, "escalated")  \* a result above the context bound
        /\ status[r] # "planning" /\ steps[r] > 0 /\ Observed(r)
  /\ UNCHANGED <<envVars, job, made>>

\* Mutant of Due: a lapsed planner's run is planned again.
DueAgain(r) ==
  \/ status[r] = "pending"
  \/ status[r] = "planning" /\ lease[r] = 0
  \/ status[r] = "waiting_task" /\ CurrentTask(r) = "succeeded"

Due(r) == status[r] = "pending" \/ (status[r] = "waiting_task" /\ CurrentTask(r) = "succeeded")

NewLease(r) == IF deadline[r] < LeaseTicks THEN deadline[r] ELSE LeaseTicks

\* The call is counted before the provider is asked.
Reserve(p, r) ==
  /\ Look(p, r) /\ Due(r)
  /\ deadline[r] > 0 /\ allowed /\ ~frozen
  /\ calls[r] < MaxCalls /\ Observed(r)
  /\ status' = [status EXCEPT ![r] = "planning"]
  /\ calls' = [calls EXCEPT ![r] = @ + 1]
  /\ claim' = [claim EXCEPT ![r] = calls[r] + 1]
  /\ lease' = [lease EXCEPT ![r] = NewLease(r)]
  /\ \E repairs \in 0..1 :
       job' = [job EXCEPT ![p] = [Idle EXCEPT !.pc = "reserved", !.run = r,
                                              !.claim = calls[r] + 1, !.repairs = repairs]]
  /\ UNCHANGED <<steps, deadline, task, envVars, made>>

-----------------------------------------------------------------------------
(* plan: fence, provider, commit. *)

Holds(p) == status[job[p].run] = "planning" /\ claim[job[p].run] = job[p].claim

\* _planner_dispatch_allowed: a refusal is committed as a failure.
Fence(p) ==
  /\ job[p].pc = "reserved"
  /\ LET r == job[p].run
         go == Holds(p) /\ lease[r] > 0 /\ deadline[r] > 0 /\ ~frozen /\ allowed
     IN  job' = [job EXCEPT ![p] = IF go THEN [@ EXCEPT !.pc = "calling"]
                                   ELSE [@ EXCEPT !.pc = "returned", !.out = "error"]]
  /\ UNCHANGED <<runVars, task, envVars, made>>

Call(p) ==
  /\ job[p].pc = "calling"
  /\ made' = [made EXCEPT ![job[p].run] = @ + 1]
  /\ \E out \in Outcome : job' = [job EXCEPT ![p] = [@ EXCEPT !.pc = "returned", !.out = out]]
  /\ UNCHANGED <<runVars, task, envVars>>

Return(p) == job' = [job EXCEPT ![p] = Idle] /\ UNCHANGED <<envVars, made>>

Late(p) == lease[job[p].run] = 0 \/ deadline[job[p].run] = 0

Discard(p) == ~Holds(p) /\ UNCHANGED <<runVars, task>> /\ Return(p)

\* Usable decisions: a tool while steps are left, an answer that cites a result, a
\* question.
MayAct(p) == job[p].out = "tool" /\ steps[job[p].run] < MaxSteps

MayAnswer(p) == job[p].out = "final" /\ steps[job[p].run] > 0

Accepted(p) == Holds(p) /\ ~Late(p) /\ ~frozen /\ allowed /\ Observed(job[p].run)

Act(p) ==
  LET r == job[p].run
  IN  /\ Accepted(p) /\ MayAct(p)
      /\ task' = [task EXCEPT ![r][steps[r] + 1] = "open"]
      /\ steps' = [steps EXCEPT ![r] = @ + 1]
      /\ status' = [status EXCEPT ![r] = "waiting_task"]
      /\ claim' = [claim EXCEPT ![r] = 0] /\ lease' = [lease EXCEPT ![r] = 0]
      /\ UNCHANGED <<calls, deadline>> /\ Return(p)

Answer(p) ==
  LET r == job[p].run
  IN  /\ Accepted(p) /\ (MayAnswer(p) \/ job[p].out = "ask")
      /\ status' = [status EXCEPT ![r] = IF job[p].out = "ask" THEN "needs_input" ELSE "succeeded"]
      /\ claim' = [claim EXCEPT ![r] = 0] /\ lease' = [lease EXCEPT ![r] = 0]
      /\ UNCHANGED <<steps, calls, deadline, task>> /\ Return(p)

\* Rejected for its shape: also a tool without steps left, an answer without evidence,
\* and a repeated action.
Malformed(p) == job[p].out \in {"tool", "final", "malformed"}

Repairable(p) == Malformed(p) /\ job[p].repairs > 0 /\ calls[job[p].run] < MaxCalls

\* Mutant of Repair: the second call is not counted.
RepairUncounted(p) ==
  LET r == job[p].run
  IN  /\ Accepted(p) /\ Repairable(p)
      /\ lease' = [lease EXCEPT ![r] = NewLease(r)]
      /\ job' = [job EXCEPT ![p] = [@ EXCEPT !.pc = "reserved", !.repairs = job[p].repairs - 1]]
      /\ UNCHANGED <<status, steps, calls, claim, deadline, task, envVars, made>>

\* One more call under the same claim, counted like any other.
Repair(p) ==
  LET r == job[p].run
  IN  /\ Accepted(p) /\ Repairable(p)
      /\ calls' = [calls EXCEPT ![r] = @ + 1]
      /\ lease' = [lease EXCEPT ![r] = NewLease(r)]
      /\ job' = [job EXCEPT ![p] = [@ EXCEPT !.pc = "reserved", !.repairs = job[p].repairs - 1]]
      /\ UNCHANGED <<status, steps, claim, deadline, task, envVars, made>>

\* A late result, a freeze, a lost authority, a failed call, or a decision that is
\* rejected for good; the task queue may refuse a tool, too.
Escalate(p) ==
  /\ Holds(p)
  /\ ~Accepted(p) \/ job[p].out \in {"error", "refused", "tool"} \/ (Malformed(p) /\ ~Repairable(p))
  /\ Stop(job[p].run, "escalated") /\ Return(p)

Commit(p) ==
  /\ job[p].pc = "returned"
  /\ Discard(p) \/ Act(p) \/ Answer(p) \/ Repair(p) \/ Escalate(p)

Crash(p) ==
  /\ job[p].pc # "idle" /\ job' = [job EXCEPT ![p] = Idle]
  /\ UNCHANGED <<runVars, task, envVars, made>>

-----------------------------------------------------------------------------
(* The engine moves the run's task; require_task_parent lets it start only while the
   run waits for it and has time left. *)

Waits(r, i) == status[r] = "waiting_task" /\ steps[r] = i /\ deadline[r] > 0

TaskMoves(r, i) ==
  /\ \E next \in TaskStatus :
       /\ \/ task[r][i] = "open" /\ next = "running" /\ Waits(r, i)
          \/ task[r][i] = "open" /\ next \in {"failed", "cancelled"}
          \/ task[r][i] = "running" /\ next \in {"succeeded", "failed", "uncertain"}
          \/ task[r][i] = "uncertain" /\ next \in {"succeeded", "failed"}
       /\ task' = [task EXCEPT ![r][i] = next]
  /\ UNCHANGED <<runVars, envVars, job, made>>

Tick ==
  /\ \E r \in Run : lease[r] > 0 \/ deadline[r] > 0
  /\ lease' = [r \in Run |-> IF lease[r] > 0 THEN lease[r] - 1 ELSE 0]
  /\ deadline' = [r \in Run |-> IF deadline[r] > 0 THEN deadline[r] - 1 ELSE 0]
  /\ UNCHANGED <<status, steps, calls, claim, task, envVars, job, made>>

Control ==
  /\ \/ frozen' = ~frozen /\ UNCHANGED allowed
     \/ allowed' = ~allowed /\ UNCHANGED frozen
  /\ UNCHANGED <<runVars, task, job, made>>

Coordinate(p) == \E r \in Run : Retire(p, r) \/ Reserve(p, r)

Plan(p) == Fence(p) \/ Call(p) \/ Commit(p)

Next ==
  \/ \E r \in Run : Create(r) \/ Cancel(r) \/ \E i \in 1..MaxSteps : TaskMoves(r, i)
  \/ \E p \in Thread : Coordinate(p) \/ Plan(p) \/ Crash(p)
  \/ Tick \/ Control

Spec == Init /\ [][Next]_vars

-----------------------------------------------------------------------------
(* Properties. *)

\* agent_loop.py:1-7: the provider never receives more calls than were reserved, and
\* a run never reserves more than its budget, whatever lapses, dies or is repaired.
WithinBudget == \A r \in Run : made[r] <= calls[r] /\ calls[r] <= MaxCalls

\* "Expired planner leases are escalated, not automatically retried": two planners
\* never hold the same run, not even a live one and one whose claim lapsed.
OnePlanner == \A p, q \in Thread : p # q /\ job[p].run = job[q].run => job[p].run = NoRun

\* _decision and _stop: a run that answered has results, and all of them stand.
GroundedAnswer == \A r \in Run : status[r] = "succeeded" => steps[r] > 0 /\ Observed(r)

\* _stop: a run that ended leaves no task behind that could still act.
NothingLeftBehind ==
  \A r \in Run : status[r] \in TERMINAL => \A i \in 1..MaxSteps : task[r][i] \notin Unfinished

\* _stop: a run whose task may or may not have acted does not say anything else.
DoubtIsTold ==
  \A r \in Run : status[r] \in TERMINAL /\ CurrentTask(r) = "uncertain" => status[r] = "uncertain"

\* _commit: no late decision changes a run that ended, or gives it another task.
EndedStaysEnded ==
  [][\A r \in Run : status[r] \in TERMINAL => status'[r] = status[r] /\ steps'[r] = steps[r]]_vars

\* The worker pumps its planner pool in every pass and a thread that reserved a call
\* goes on to its end; time passes.
Fairness ==
  /\ WF_vars(Tick)
  /\ \A p \in Thread : WF_vars(Plan(p)) /\ \A r \in Run : WF_vars(Retire(p, r))

FairSpec == Spec /\ Fairness

\* Every run ends, though planners die, and also while the tenant is frozen.
RunsEnd == \A r \in Run : status[r] \in ACTIVE ~> status[r] \in TERMINAL

=============================================================================
