------------------------------ MODULE TaskEngine ------------------------------
(***************************************************************************)
(* The durable task engine of platform_runtime/engine.py: tasks, steps and *)
(* approvals in SQLite, the claim / fence / handler / finish cycle of the   *)
(* cloud workers and of the device runners, and every control-plane         *)
(* operation that can race with it.                                        *)
(*                                                                         *)
(* One tenant, one agent.  A task slot stands for one idempotency key      *)
(* (channel, event_key): a replay of a key returns the task and changes     *)
(* nothing, so it is a stutter here.  One action is one `with self.tx()`    *)
(* (BEGIN IMMEDIATE serialises them) or one step of a process between two   *)
(* transactions.  Time is what is left of a lease or of an approval, in     *)
(* ticks: `lease <= now` in the code is lease = 0 here.                     *)
(***************************************************************************)
EXTENDS Integers, Sequences, FiniteSets

CONSTANTS
  Task,            \* idempotency keys a task may be submitted under
  MaxSteps,        \* longest plan
  Cloud,           \* the place '' of a step that no device executes
  Device,          \* device identities
  Worker,          \* cloud worker processes
  Actor,           \* workspace members and outside senders
  Customer,        \* those of Actor that are outside senders, not members
  Nobody,          \* '' as the actor of an approval
  Policy,          \* the versions of the agent's policy
  IndependentPolicy, \* the versions with independent_approval
  OwnerPolicy,     \* the versions with approver_role 'owner'
  Plans,           \* the plans callers submit
  NoStep,          \* what an idle process holds
  LeaseTicks, ApprovalTicks,  \* lifetimes of a claim and of an approval
  MaxPending,      \* ceiling of open tasks (1000 in the code)
  MaxChanges       \* bound: role, workspace and policy changes in one behaviour

Place == Device \union {Cloud}
Process == Worker \union Device
Step == Task \X (1..MaxSteps)
StepKind == [gated : BOOLEAN, write : BOOLEAN, place : Place]

ASSUME EngineAssumption ==
  /\ MaxSteps \in Nat \ {0} /\ MaxPending \in Nat \ {0} /\ MaxChanges \in Nat
  /\ LeaseTicks \in Nat \ {0} /\ ApprovalTicks \in Nat \ {0}
  /\ Customer \subseteq Actor /\ Nobody \notin Actor
  /\ Cloud \notin Device /\ Worker \intersect Device = {}
  /\ NoStep \notin Step
  /\ IndependentPolicy \subseteq Policy /\ OwnerPolicy \subseteq Policy /\ Policy # {}
  /\ \A p \in Plans : p \in Seq(StepKind) /\ Len(p) \in 1..MaxSteps

VARIABLES
  taskStatus, plan, creator, fingerprint, parent, order,      \* p_tasks, p_agent_runs
  stepStatus, claim, lease, attempts,                         \* p_steps
  approval, approver, expires,                                \* p_approvals
  frozen, device, session,                                    \* p_freeze, p_devices
  role, suspended, policy, changes,                           \* directory and pack
  job,                                                        \* memory of the processes
  effects, reconciled                                         \* history: the outside world

taskVars     == <<plan, creator, fingerprint, order>>
stepVars     == <<stepStatus, claim, lease, attempts, taskStatus>>
approvalVars == <<approval, approver, expires>>
controlVars  == <<frozen, device, session>>
envVars      == <<role, suspended, policy, changes>>
history      == <<effects, reconciled>>
vars == <<taskVars, parent, stepVars, approvalVars, controlVars, envVars, job, history>>

Open == {"queued", "waiting_approval", "running"}
Undecided == {"queued", "waiting_approval"}
StepStatus == Open \union {"none", "succeeded", "failed", "cancelled", "uncertain"}
Role == {"owner", "operator", "none"}
Staff == {"owner", "operator"}

Busy == {"claimed", "refused", "allowed", "done"}
Job == [pc : {"idle", "checked"} \union Busy, step : Step \union {NoStep}, claim : Nat,
        out : {"none", "succeeded", "failed", "uncertain"}]
Idle == [pc |-> "idle", step |-> NoStep, claim |-> 0, out |-> "none"]

TypeOK ==
  /\ taskStatus \in [Task -> StepStatus]
  /\ plan \in [Task -> Plans \union {<<>>}]
  /\ creator \in [Task -> Actor \union {Nobody}]
  /\ fingerprint \in [Task -> Policy]
  /\ parent \in [Task -> {"none", "waiting", "late", "ended"}]
  /\ order \in Seq(Task)
  /\ stepStatus \in [Step -> StepStatus]
  /\ claim \in [Step -> Nat] /\ attempts \in [Step -> Nat]
  /\ lease \in [Step -> 0..LeaseTicks] /\ expires \in [Step -> 0..ApprovalTicks]
  /\ approval \in [Step -> {"none", "pending", "approved", "rejected", "consumed"}]
  /\ approver \in [Step -> Actor \union {Nobody}]
  /\ frozen \in BOOLEAN /\ suspended \in BOOLEAN
  /\ device \in [Device -> {"unknown", "enrolled", "revoked"}]
  /\ session \in [Device -> BOOLEAN]
  /\ role \in [Actor -> Role] /\ policy \in Policy /\ changes \in 0..MaxChanges
  /\ job \in [Process -> Job]
  /\ \A p \in Process : /\ job[p].pc \in Busy => job[p].step \in Step
                        /\ job[p].pc \in {"refused", "done"} => job[p].out # "none"
  /\ effects \in [Step -> Nat] /\ reconciled \subseteq Step

-----------------------------------------------------------------------------
(* Authority: Engine.require_authority, wired to app/runtime_authority.py. *)

Holds(a, roles) == ~suspended /\ a \in Actor \ Customer /\ role[a] \in roles

\* A task's creator still stands: the workspace is active and, on a member
\* channel, the creator is still owner or operator of it.
Stands(a) == ~suspended /\ (a \in Customer \/ Holds(a, Staff))

Thawed == ~frozen
Active == ~suspended /\ Thawed

ApproverRoles(p) == IF p \in OwnerPolicy THEN {"owner"} ELSE Staff

\* require_task_parent: a task of an agent run lives while the run waits on it.
ParentAllows(t) == parent[t] \in {"none", "waiting"}

-----------------------------------------------------------------------------
(* Steps and the status derived from them. *)

Kind(s) == plan[s[1]][s[2]]
Gated(s) == Kind(s).gated
Sibling(s, r) == s[1] = r[1]
StepsOf(t) == {s \in Step : s[1] = t /\ stepStatus[s] # "none"}
TasksOf(S) == {s[1] : s \in S}

Derived(status, t) ==
  LET states == {status[s] : s \in {r \in Step : r[1] = t}} \ {"none"}
  IN  IF states = {} THEN "none"
      ELSE IF "uncertain" \in states THEN "uncertain"
      ELSE IF "failed" \in states THEN "failed"
      ELSE IF "cancelled" \in states THEN "cancelled"
      ELSE IF states = {"succeeded"} THEN "succeeded"
      ELSE IF "running" \in states THEN "running"
      ELSE IF "waiting_approval" \in states THEN "waiting_approval"
      ELSE "queued"

\* _refresh of the tasks T, after the step rows were written.
Refresh(T) ==
  taskStatus' = [t \in Task |-> IF t \in T THEN Derived(stepStatus', t) ELSE taskStatus[t]]

\* Mutant of Retire: work in flight is recorded as if it had never started.
RetireAsCancelled(S) ==
  /\ stepStatus' = [s \in Step |-> IF s \in S THEN "cancelled" ELSE stepStatus[s]]
  /\ claim' = [s \in Step |-> IF s \in S THEN 0 ELSE claim[s]]

\* Mutant of Retire: only the running steps are retired.
RetireRunning(S) ==
  /\ stepStatus' = [s \in Step |-> IF s \in S /\ stepStatus[s] = "running" THEN "uncertain"
                                   ELSE stepStatus[s]]
  /\ claim' = [s \in Step |-> IF s \in S THEN 0 ELSE claim[s]]

\* Steps taken out of play: a running one may have reached the provider.
Retire(S) ==
  /\ stepStatus' = [s \in Step |-> IF s \notin S THEN stepStatus[s]
                                   ELSE IF stepStatus[s] = "running" THEN "uncertain"
                                   ELSE "cancelled"]
  /\ claim' = [s \in Step |-> IF s \in S THEN 0 ELSE claim[s]]

\* Undecided and unused approvals of the steps S are withdrawn.
Withdraw(S) ==
  approval' = [s \in Step |-> IF s \in S /\ approval[s] \in {"pending", "approved"}
                              THEN "rejected" ELSE approval[s]]

Signed(S, a) ==
  approver' = [s \in Step |-> IF s \in S /\ approval[s] \in {"pending", "approved"}
                              THEN a ELSE approver[s]]

-----------------------------------------------------------------------------
Init ==
  /\ taskStatus = [t \in Task |-> "none"] /\ plan = [t \in Task |-> <<>>]
  /\ creator = [t \in Task |-> Nobody] /\ parent = [t \in Task |-> "none"]
  /\ policy \in Policy /\ fingerprint = [t \in Task |-> policy] /\ order = <<>>
  /\ stepStatus = [s \in Step |-> "none"]
  /\ claim = [s \in Step |-> 0] /\ attempts = [s \in Step |-> 0]
  /\ lease = [s \in Step |-> 0] /\ expires = [s \in Step |-> 0]
  /\ approval = [s \in Step |-> "none"] /\ approver = [s \in Step |-> Nobody]
  /\ frozen = FALSE /\ suspended = FALSE /\ changes = 0
  /\ device = [d \in Device |-> "unknown"] /\ session = [d \in Device |-> FALSE]
  /\ role \in [Actor -> Role] /\ \A a \in Actor : role[a] = "none" <=> a \in Customer
  /\ job = [p \in Process |-> Idle]
  /\ effects = [s \in Step |-> 0] /\ reconciled = {}

(* Tasks enter: submit, a planner's committed decision, an operator's reply. *)

\* _create_task for a new key; `by` decided its approvals already, or Nobody.
Create(t, a, p, by, run) ==
  LET rows == {s \in Step : s[1] = t /\ s[2] <= Len(p)}
      gated == {s \in rows : p[s[2]].gated}
  IN  /\ taskStatus[t] = "none" /\ Stands(a) /\ Active
      /\ Cardinality({u \in Task : taskStatus[u] \in Open}) < MaxPending
      /\ plan' = [plan EXCEPT ![t] = p]
      /\ creator' = [creator EXCEPT ![t] = a]
      /\ fingerprint' = [fingerprint EXCEPT ![t] = policy]
      /\ order' = Append(order, t)
      /\ parent' = [parent EXCEPT ![t] = run]
      /\ stepStatus' = [s \in Step |-> IF s \in rows THEN "queued" ELSE stepStatus[s]]
      /\ approval' = [s \in Step |-> IF s \notin gated THEN approval[s]
                                     ELSE IF by = Nobody THEN "pending" ELSE "approved"]
      /\ approver' = [s \in Step |-> IF s \in gated THEN by ELSE approver[s]]
      /\ expires' = [s \in Step |-> IF s \in gated THEN ApprovalTicks ELSE expires[s]]
      /\ Refresh({t})
      /\ UNCHANGED <<claim, lease, attempts, controlVars, envVars, job, history>>

Submit(t, a, p) == Create(t, a, p, Nobody, "none")

\* AgentLoop._commit of a 'tool' decision: one cloud step, linked to its run.
SubmitForRun(t, a, p) ==
  /\ Len(p) = 1 /\ p[1].place = Cloud
  /\ Create(t, a, p, Nobody, "waiting")

Reply == <<[gated |-> TRUE, write |-> TRUE, place |-> Cloud]>>

\* Mutant of OperatorReply: the author's own decision always counts.
ReplySelfApproved(t, a) ==
  /\ Reply \in Plans
  /\ Holds(a, ApproverRoles(policy))
  /\ Create(t, a, Reply, a, "none")

OperatorReply(t, a) ==
  /\ Reply \in Plans
  /\ Holds(a, ApproverRoles(policy))
  /\ Create(t, a, Reply, IF policy \in IndependentPolicy THEN Nobody ELSE a, "none")

-----------------------------------------------------------------------------
(* A person decides. *)

Approve(s, a, decision) ==
  /\ approval[s] = "pending" /\ stepStatus[s] \in Undecided /\ expires[s] > 0
  /\ Active /\ ParentAllows(s[1])
  /\ Holds(a, ApproverRoles(policy))
  /\ ~(decision = "approved" /\ policy \in IndependentPolicy /\ a = creator[s[1]])
  /\ approval' = [approval EXCEPT ![s] = decision]
  /\ approver' = [approver EXCEPT ![s] = a]
  /\ stepStatus' = [stepStatus EXCEPT ![s] = IF decision = "approved" THEN "queued"
                                             ELSE "cancelled"]
  /\ Refresh({s[1]})
  /\ UNCHANGED <<taskVars, parent, claim, lease, attempts, expires, controlVars, envVars, job,
                 history>>

Cancel(t, a) ==
  /\ Holds(a, Staff)
  /\ taskStatus[t] \notin {"none", "succeeded", "failed", "cancelled"}
  /\ Retire({s \in StepsOf(t) : stepStatus[s] \in Open})
  /\ Withdraw(StepsOf(t))
  /\ Refresh({t})
  /\ UNCHANGED <<taskVars, parent, lease, attempts, approver, expires, controlVars, envVars, job,
                 history>>

Reconcile(s, a, outcome) ==
  /\ Holds(a, {"owner"})
  /\ stepStatus[s] = "uncertain"
  /\ stepStatus' = [stepStatus EXCEPT ![s] = outcome]
  /\ reconciled' = reconciled \union {s}
  /\ Refresh({s[1]})
  /\ UNCHANGED <<taskVars, parent, claim, lease, attempts, approvalVars, controlVars, envVars, job,
                 effects>>

\* Mutant of Freeze: claims that are already out are left to finish.
FreezeNewWorkOnly(a) ==
  /\ Holds(a, {"owner"})
  /\ frozen' = TRUE
  /\ UNCHANGED <<taskVars, parent, stepVars, approvalVars, device, session, envVars, job, history>>

Freeze(a) ==
  /\ Holds(a, {"owner"})
  /\ frozen' = TRUE
  /\ LET running == {s \in Step : stepStatus[s] = "running"}
     IN  Retire(running) /\ Refresh(TasksOf(running))
  /\ UNCHANGED <<taskVars, parent, lease, attempts, approvalVars, device, session, envVars, job,
                 history>>

Resume(a) ==
  /\ Holds(a, {"owner"}) /\ frozen
  /\ frozen' = FALSE
  /\ UNCHANGED <<taskVars, parent, stepVars, approvalVars, device, session, envVars, job, history>>

\* Engine.device: enrolment and revocation both rotate the generation, so the
\* session of the runner's old token ends.
ChangeDevice(d, a, state) ==
  LET bound == {s \in Step : stepStatus[s] \in Open /\ Kind(s).place = d}
  IN  /\ Holds(a, {"owner"})
      /\ state = "enrolled" => Active
      /\ device' = [device EXCEPT ![d] = state]
      /\ session' = [session EXCEPT ![d] = FALSE]
      /\ Retire(bound) /\ Withdraw(bound) /\ Signed(bound, a) /\ Refresh(TasksOf(bound))
      /\ lease' = [s \in Step |-> IF s \in bound THEN 0 ELSE lease[s]]
      /\ UNCHANGED <<taskVars, parent, attempts, expires, frozen, envVars, job, history>>

-----------------------------------------------------------------------------
(* Agent runs, as far as they bear on their task (agent_loop.py). *)

RunDeadline(t) ==
  /\ parent[t] = "waiting"
  /\ parent' = [parent EXCEPT ![t] = "late"]
  /\ UNCHANGED <<taskVars, stepVars, approvalVars, controlVars, envVars, job, history>>

\* AgentLoop._stop on a run that waits on task t: cancelled by a member, or
\* found by the coordinator past its deadline, without its creator's authority,
\* or on a task that ended without success.
StopRun(t) ==
  LET bound == {s \in StepsOf(t) : stepStatus[s] \in Open}
  IN  /\ parent[t] \in {"waiting", "late"}
      /\ \/ \E a \in Actor : Holds(a, Staff)
         \/ parent[t] = "late" \/ ~Stands(creator[t])
         \/ Thawed /\ taskStatus[t] \in {"failed", "cancelled", "uncertain"}
      /\ parent' = [parent EXCEPT ![t] = "ended"]
      /\ IF taskStatus[t] \in Open
         THEN /\ Retire(bound) /\ Refresh({t})
              /\ lease' = [s \in Step |-> IF s \in bound THEN 0 ELSE lease[s]]
         ELSE UNCHANGED <<stepStatus, claim, lease, taskStatus>>
      /\ Withdraw(StepsOf(t)) /\ Signed(StepsOf(t), Nobody)
      /\ UNCHANGED <<taskVars, attempts, expires, controlVars, envVars, job, history>>

\* The run reads its task's result and plans the next step.
RunAdvances(t) ==
  /\ parent[t] = "waiting" /\ taskStatus[t] = "succeeded" /\ Thawed /\ Stands(creator[t])
  /\ parent' = [parent EXCEPT ![t] = "ended"]
  /\ UNCHANGED <<taskVars, stepVars, approvalVars, controlVars, envVars, job, history>>

-----------------------------------------------------------------------------
(* Engine.claim. *)

\* Mutant of Lapsed: `lease<now` for `lease<=now`, on a clock that stops at 0.
LapsedLate == {s \in Step : stepStatus[s] = "running" /\ lease[s] < 0}

Lapsed == {s \in Step : stepStatus[s] = "running" /\ lease[s] = 0}

\* Mutant of Candidates: the predecessors are not looked at.
CandidatesAnyOrder(place) ==
  {s \in Step : /\ stepStatus[s] \in Undecided /\ Kind(s).place = place
                /\ taskStatus[s[1]] \in Open}

\* Steps whose every predecessor succeeded, of a task still open once the
\* lapsed leases of this transaction are recorded.
Candidates(place) ==
  LET status == [s \in Step |-> IF s \in Lapsed THEN "uncertain" ELSE stepStatus[s]]
      task == [t \in Task |-> IF t \in TasksOf(Lapsed) THEN Derived(status, t) ELSE taskStatus[t]]
  IN  {s \in Step : /\ stepStatus[s] \in Undecided /\ Kind(s).place = place
                    /\ task[s[1]] \in Open
                    /\ \A r \in Step : Sibling(r, s) /\ r[2] < s[2] => status[r] = "succeeded"}

Before(r, s) == \E i, j \in 1..Len(order) : i < j /\ order[i] = r[1] /\ order[j] = s[1]

\* Mutant of Verdict: any live approval row will do.
VerdictUndecided(s) ==
  IF ~ParentAllows(s[1]) THEN "cancelled"
  ELSE IF ~Stands(creator[s[1]]) \/ fingerprint[s[1]] # policy THEN "failed"
  ELSE IF Gated(s) /\ expires[s] = 0 THEN "failed"
  ELSE "running"

\* Mutant of Verdict: the decision is asked before its expiry.
VerdictWaitsOn(s) ==
  IF ~ParentAllows(s[1]) THEN "cancelled"
  ELSE IF ~Stands(creator[s[1]]) \/ fingerprint[s[1]] # policy THEN "failed"
  ELSE IF ~Gated(s) THEN "running"
  ELSE IF approval[s] # "approved" THEN "waiting_approval"
  ELSE IF expires[s] = 0 \/ ~Holds(approver[s], ApproverRoles(policy)) THEN "failed"
  ELSE "running"

\* What claim makes of a candidate, in the order the code asks.
Verdict(s) ==
  IF ~ParentAllows(s[1]) THEN "cancelled"
  ELSE IF ~Stands(creator[s[1]]) \/ fingerprint[s[1]] # policy THEN "failed"
  ELSE IF ~Gated(s) THEN "running"
  ELSE IF expires[s] = 0 THEN "failed"
  ELSE IF approval[s] # "approved" THEN "waiting_approval"
  ELSE IF ~Holds(approver[s], ApproverRoles(policy)) THEN "failed"
  ELSE "running"

\* The rows one claim writes: `taken` is claimed (at most one step), the
\* candidates `passed` before it get their verdicts, lapsed leases are recorded.
Record(taken, passed) ==
  LET dropped == {s \in passed : Verdict(s) = "cancelled"}
  IN  /\ stepStatus' = [s \in Step |-> IF s \in Lapsed THEN "uncertain"
                                       ELSE IF s \in taken \union passed THEN Verdict(s)
                                       ELSE stepStatus[s]]
      /\ claim' = [s \in Step |-> IF s \in Lapsed \union dropped THEN 0
                                  ELSE IF s \in taken THEN attempts[s] + 1 ELSE claim[s]]
      /\ attempts' = [s \in Step |-> IF s \in taken THEN attempts[s] + 1 ELSE attempts[s]]
      /\ lease' = [s \in Step |-> IF s \in dropped THEN 0
                                  ELSE IF s \in taken THEN LeaseTicks ELSE lease[s]]
      /\ approval' = [s \in Step |->
           IF s \in taken /\ Gated(s) THEN "consumed"
           ELSE IF s \in dropped /\ approval[s] \in {"pending", "approved"} THEN "rejected"
           ELSE approval[s]]
      /\ Signed(dropped, Nobody)
      /\ Refresh(TasksOf(Lapsed \union taken \union passed))
      /\ UNCHANGED <<taskVars, parent, expires, controlVars, envVars, history>>

PlaceOf(p) == IF p \in Device THEN p ELSE Cloud

\* A runner's heartbeat is checked in one transaction and claims in the next.
MayClaim(p) == job[p].pc = IF p \in Device THEN "checked" ELSE "idle"

ClaimStep(p, s) ==
  LET ready == {r \in Candidates(PlaceOf(p)) : Verdict(r) = "running"}
  IN  /\ MayClaim(p) /\ Active /\ (p \in Device => device[p] = "enrolled")
      /\ s \in ready /\ \A r \in ready : ~Before(r, s)
      /\ Record({s}, {r \in Candidates(PlaceOf(p)) : Before(r, s)})
      /\ job' = [job EXCEPT ![p] = [pc |-> "claimed", step |-> s, claim |-> attempts[s] + 1,
                                    out |-> "none"]]

\* Mutant of ClaimNothing: a candidate that may not run raises, and the queue
\* stays as it was.
ClaimNothingRaises(p) ==
  /\ MayClaim(p)
  /\ IF Active /\ \E s \in Candidates(PlaceOf(p)) : Verdict(s) = "failed"
     THEN UNCHANGED <<taskVars, parent, stepVars, approvalVars, controlVars, envVars, history>>
     ELSE Record({}, IF Active THEN Candidates(PlaceOf(p)) ELSE {})
  /\ job' = [job EXCEPT ![p] = Idle]

\* No candidate can run, or the tenant is stopped.  A revoked device's claim
\* raises, and its transaction is rolled back.
ClaimNothing(p) ==
  /\ MayClaim(p)
  /\ IF ~Active THEN Record({}, {})
     ELSE IF p \in Device /\ device[p] # "enrolled"
     THEN UNCHANGED <<taskVars, parent, stepVars, approvalVars, controlVars, envVars, history>>
     ELSE /\ \A s \in Candidates(PlaceOf(p)) : Verdict(s) # "running"
          /\ Record({}, Candidates(PlaceOf(p)))
  /\ job' = [job EXCEPT ![p] = Idle]

-----------------------------------------------------------------------------
(* Engine.tick after the claim: fence, handler, finish. *)

Owns(p) == LET s == job[p].step
           IN  stepStatus[s] = "running" /\ claim[s] = job[p].claim /\ lease[s] > 0

\* What dispatch_allowed raises Forbidden for.
Refused(s) ==
  \/ ~Active \/ ~ParentAllows(s[1]) \/ ~Stands(creator[s[1]])
  \/ Gated(s) /\ ~Holds(approver[s], ApproverRoles(policy))

Fence(w) ==
  /\ job[w].pc = "claimed"
  /\ job' = [job EXCEPT ![w] = IF Refused(job[w].step)
                               THEN [@ EXCEPT !.pc = "refused", !.out = "failed"]
                               ELSE IF Owns(w) THEN [@ EXCEPT !.pc = "allowed"] ELSE Idle]
  /\ UNCHANGED <<taskVars, parent, stepVars, approvalVars, controlVars, envVars, history>>

\* A tool call returns, is rejected by the provider, or ends in doubt: only an
\* external write can have taken effect without its receipt.
Execute(p) ==
  LET s == job[p].step
  IN  /\ \E out \in {"succeeded", "failed", "uncertain"}, effect \in 0..1 :
           /\ out = "succeeded" => effect = 1
           /\ out = "failed" => effect = 0
           /\ out = "uncertain" => Kind(s).write \/ p \in Device
           /\ job' = [job EXCEPT ![p].pc = "done", ![p].out = out]
           /\ effects' = [effects EXCEPT ![s] = @ + effect]
      /\ UNCHANGED <<taskVars, parent, stepVars, approvalVars, controlVars, envVars, reconciled>>

Handler(w) == job[w].pc = "allowed" /\ Execute(w)

\* Engine.finish; a stale claim or an expired lease raises Conflict.
Finish(p) ==
  LET s == job[p].step
  IN  /\ IF Owns(p)
         THEN /\ stepStatus' = [stepStatus EXCEPT ![s] = job[p].out]
              /\ claim' = [claim EXCEPT ![s] = 0] /\ lease' = [lease EXCEPT ![s] = 0]
              /\ Refresh({s[1]})
         ELSE UNCHANGED <<stepStatus, claim, lease, taskStatus>>
      /\ job' = [job EXCEPT ![p] = Idle]
      /\ UNCHANGED <<taskVars, parent, attempts, approvalVars, controlVars, envVars, history>>

FinishStep(w) == w \in Worker /\ job[w].pc \in {"refused", "done"} /\ Finish(w)

\* The process dies, the runner's connection drops, or the result is too large
\* for finish to accept: whatever was in memory is gone.
Crash(p) ==
  /\ job[p].pc # "idle"
  /\ job' = [job EXCEPT ![p] = Idle]
  /\ UNCHANGED <<taskVars, parent, stepVars, approvalVars, controlVars, envVars, history>>

-----------------------------------------------------------------------------
(* The runner's web socket (app/platform_api.py, apps/runner/runner.js). *)

Connected(d) == session[d] /\ device[d] = "enrolled"

\* The runner reconnects with a token of the present generation.
Connect(d) ==
  /\ device[d] = "enrolled" /\ ~session[d]
  /\ session' = [session EXCEPT ![d] = TRUE]
  /\ UNCHANGED <<taskVars, parent, stepVars, approvalVars, frozen, device, envVars, job, history>>

Heartbeat(d) ==
  /\ job[d].pc = "idle" /\ Connected(d)
  /\ job' = [job EXCEPT ![d].pc = "checked"]
  /\ UNCHANGED <<taskVars, parent, stepVars, approvalVars, controlVars, envVars, history>>

\* There is no second fence on this path: the runner executes what the heartbeat
\* handed it, if its lease is still good.
RunnerExecute(d) == job[d].pc = "claimed" /\ lease[job[d].step] > 0 /\ Execute(d)

\* A result on a rotated session closes the socket.
Result(d) == job[d].pc = "done" /\ IF Connected(d) THEN Finish(d) ELSE Crash(d)

-----------------------------------------------------------------------------
(* Time, and what other parts of the system change under the engine. *)

Tick ==
  /\ \E s \in Step : lease[s] > 0 \/ expires[s] > 0
  /\ lease' = [s \in Step |-> IF lease[s] > 0 THEN lease[s] - 1 ELSE 0]
  /\ expires' = [s \in Step |-> IF expires[s] > 0 THEN expires[s] - 1 ELSE 0]
  /\ UNCHANGED <<taskVars, parent, stepStatus, claim, attempts, taskStatus, approval, approver,
                 controlVars, envVars, job, history>>

Change ==
  /\ changes < MaxChanges /\ changes' = changes + 1
  /\ UNCHANGED <<taskVars, parent, stepVars, approvalVars, controlVars, job, history>>

ChangeRole(a, r) ==
  /\ a \notin Customer /\ r # role[a] /\ role' = [role EXCEPT ![a] = r]
  /\ UNCHANGED <<suspended, policy>> /\ Change

ChangeWorkspace == suspended' = ~suspended /\ UNCHANGED <<role, policy>> /\ Change

EditPolicy(p) == p # policy /\ policy' = p /\ UNCHANGED <<role, suspended>> /\ Change

-----------------------------------------------------------------------------
Arrival == \E t \in Task, a \in Actor :
  \/ \E p \in Plans : Submit(t, a, p) \/ SubmitForRun(t, a, p)
  \/ OperatorReply(t, a)

Control == \E a \in Actor :
  \/ \E s \in Step, d \in {"approved", "rejected"} : Approve(s, a, d)
  \/ \E s \in Step, o \in {"succeeded", "failed"} : Reconcile(s, a, o)
  \/ \E t \in Task : Cancel(t, a)
  \/ Freeze(a) \/ Resume(a)
  \/ \E d \in Device, state \in {"enrolled", "revoked"} : ChangeDevice(d, a, state)

Runs == \E t \in Task : RunDeadline(t) \/ StopRun(t) \/ RunAdvances(t)

Claim(p) == ClaimNothing(p) \/ \E s \in Step : ClaimStep(p, s)

CloudWorker(w) == Claim(w) \/ Fence(w) \/ Handler(w) \/ FinishStep(w)

Runner(d) == Connect(d) \/ Heartbeat(d) \/ Claim(d) \/ RunnerExecute(d) \/ Result(d)

Environment ==
  \/ Tick \/ ChangeWorkspace
  \/ \E a \in Actor, r \in Role : ChangeRole(a, r)
  \/ \E p \in Policy : EditPolicy(p)
  \/ \E p \in Process : Crash(p)

Next ==
  \/ Arrival \/ Control \/ Runs
  \/ \E w \in Worker : CloudWorker(w)
  \/ \E d \in Device : Runner(d)
  \/ Environment

Spec == Init /\ [][Next]_vars

(* Properties. *)

\* engine.py:1-5: a step reaches the outside world at most once, whatever
\* crashes, expired leases, freezes and reconciliations come between.
AtMostOneEffect == \A s \in Step : effects[s] <= 1

\* _validated and claim: no gated step takes effect without an approval that a
\* person gave to this very step and that this dispatch used up.
ApprovedBeforeEffect ==
  \A s \in Step : effects[s] > 0 /\ Gated(s) => approval[s] = "consumed" /\ approver[s] \in Actor

\* The claim query: a step takes effect only after every earlier step of its
\* task is recorded as succeeded, and stays so.
InOrder ==
  \A r, s \in Step : Sibling(r, s) /\ r[2] < s[2] /\ effects[s] > 0
                     => stepStatus[r] = "succeeded"

\* finish, cancel, freeze, device, _stop and lease expiry: what a step row says
\* is true of the outside world; doubt is said to be doubt until an owner
\* reconciles it.
HonestOutcome ==
  \A s \in Step \ reconciled :
    /\ stepStatus[s] = "succeeded" => effects[s] = 1
    /\ stepStatus[s] \in {"failed", "cancelled"} => effects[s] = 0

\* freeze and device: once the kill switch or a revocation has committed, no
\* claim is live under it, and none can be made.
StoppedMeansStopped ==
  \A s \in Step : stepStatus[s] = "running" =>
    /\ ~frozen
    /\ \A d \in Device : Kind(s).place = d => device[d] = "enrolled"

\* Every operation of the engine that writes p_steps refreshes p_tasks in the same
\* transaction.
TaskStatusFresh == \A t \in Task : taskStatus[t] = Derived(stepStatus, t)

\* A step of an open task that waits for a person (claim) waits in its turn at a place that still
\* serves it, and either its approval is one that approve takes (pending and not expired, its
\* run waiting on it), or the next claim of its place withdraws it: it never waits for ever.
DecisionReachable ==
  \A s \in Step : stepStatus[s] = "waiting_approval" /\ taskStatus[s[1]] \in Open =>
    /\ s \in Candidates(Kind(s).place)
    /\ \A d \in Device : Kind(s).place = d => device[d] = "enrolled"
    /\ \/ approval[s] = "pending" /\ expires[s] > 0 /\ ParentAllows(s[1])
       \/ Verdict(s) \in {"cancelled", "failed"}

\* prd-v02 AG-05: where the policy a task was bound to asks for an independent
\* approval, its creator's own approval never lets a step take effect.
IndependentApproval ==
  \A s \in Step : effects[s] > 0 /\ Gated(s) /\ fingerprint[s[1]] \in IndependentPolicy
                  => approver[s] # creator[s[1]]

\* Engine.cancel refuses a task as 'Terminal task': nothing of it runs any more.
TerminalTaskIdle ==
  \A s \in Step : stepStatus[s] = "running"
                  => taskStatus[s[1]] \notin {"succeeded", "failed", "cancelled"}

\* Outcomes are final; doubt is resolved by Reconcile alone, and a decided
\* approval never becomes another decision.
OutcomesAreFinal ==
  [][\A s \in Step :
       /\ stepStatus[s] \in {"succeeded", "failed", "cancelled"} => stepStatus'[s] = stepStatus[s]
       /\ stepStatus[s] = "uncertain" /\ stepStatus'[s] # "uncertain" => s \in reconciled'
       /\ approval[s] \in {"rejected", "consumed"} => approval'[s] = approval[s]]_vars

-----------------------------------------------------------------------------
(* Liveness: the worker loop (app/worker.py main) calls tick for every tenant
   for ever, and a restarted process begins that loop again; time passes. *)
Fairness ==
  /\ WF_vars(Tick)
  /\ \A w \in Worker : WF_vars(Claim(w)) /\ WF_vars(Fence(w) \/ Handler(w) \/ FinishStep(w))

FairSpec == Spec /\ Fairness

\* No claim lives for ever: whatever happens to its holder, the step is finished,
\* retired or recorded as uncertain, even while the tenant is frozen.
ClaimsEnd == \A s \in Step : stepStatus[s] = "running" ~> stepStatus[s] # "running"

\* A queued cloud step whose turn it is gets its verdict, unless the tenant is
\* stopped or its task is taken out of play first.
TurnComes ==
  \A s \in Step : Active /\ stepStatus[s] = "queued" /\ s \in Candidates(Cloud)
                  ~> ~Active \/ stepStatus[s] # "queued" \/ taskStatus[s[1]] \notin Open

\* Nobody has to decide: a cloud step of an open task that waits for a person is decided, expires or
\* is taken out of play with its task, unless the tenant is stopped first.
WaitsEnd ==
  \A s \in Step : /\ Active /\ stepStatus[s] = "waiting_approval" /\ Kind(s).place = Cloud
                  /\ taskStatus[s[1]] \in Open
                  ~> ~Active \/ stepStatus[s] # "waiting_approval" \/ taskStatus[s[1]] \notin Open

=============================================================================
