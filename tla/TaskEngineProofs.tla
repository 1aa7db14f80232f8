--------------------------- MODULE TaskEngineProofs ---------------------------
(* Theorems about TaskEngine, for every value of its constants. *)
EXTENDS TaskEngine, TLAPS

USE EngineAssumption

LEMMA DerivedType ==
  ASSUME NEW status, NEW t \in Task, \A s \in Step : status[s] \in StepStatus
  PROVE  Derived(status, t) \in StepStatus
BY DEF Derived, StepStatus, Open

LEMMA RefreshType ==
  ASSUME NEW T, taskStatus \in [Task -> StepStatus], Refresh(T),
         \A s \in Step : stepStatus'[s] \in StepStatus
  PROVE  taskStatus' \in [Task -> StepStatus]
BY DerivedType DEF Refresh

\* What TypeOK says of the processes' memory.
JobOK == /\ job \in [Process -> Job]
         /\ \A p \in Process : /\ job[p].pc \in Busy => job[p].step \in Step
                               /\ job[p].pc \in {"refused", "done"} => job[p].out # "none"

LEMMA JobUpdate ==
  ASSUME JobOK, NEW p \in Process, NEW j \in Job, job' = [job EXCEPT ![p] = j],
         j.pc \in Busy => j.step \in Step, j.pc \in {"refused", "done"} => j.out # "none"
  PROVE  JobOK'
BY DEF JobOK

LEMMA JobIs == ASSUME JobOK, NEW p \in Process PROVE job[p] \in Job
BY DEF JobOK

LEMMA IdleJob == Idle \in Job /\ Idle.pc = "idle" /\ Idle.out = "none" /\ "idle" \notin Busy
BY DEF Idle, Job, Busy

LEMMA TypeInit == Init => TypeOK
<1> SUFFICES ASSUME Init PROVE TypeOK
  OBVIOUS
<1>1. /\ job \in [Process -> Job]
      /\ \A p \in Process : /\ job[p].pc \in Busy => job[p].step \in Step
                            /\ job[p].pc \in {"refused", "done"} => job[p].out # "none"
  BY DEF Init, Idle, Job, Busy
<1>2. order \in Seq(Task) /\ plan \in [Task -> Plans \union {<<>>}]
  BY DEF Init
<1>3. taskStatus \in [Task -> StepStatus] /\ stepStatus \in [Step -> StepStatus]
  BY DEF Init, StepStatus, Open
<1>4. changes \in 0..MaxChanges /\ reconciled \subseteq Step
  BY DEF Init
<1>5. /\ lease \in [Step -> 0..LeaseTicks] /\ expires \in [Step -> 0..ApprovalTicks]
      /\ claim \in [Step -> Nat] /\ attempts \in [Step -> Nat] /\ effects \in [Step -> Nat]
  BY DEF Init
<1> QED
  BY <1>1, <1>2, <1>3, <1>4, <1>5 DEF Init, TypeOK

LEMMA TypeStep == TypeOK /\ [Next]_vars => TypeOK'
<1> SUFFICES ASSUME TypeOK, [Next]_vars PROVE TypeOK'
  OBVIOUS
<1> USE DEF TypeOK
<1>1. ASSUME NEW t \in Task, NEW a \in Actor, NEW p \in Plans, NEW by \in Actor \union {Nobody},
             NEW run \in {"none", "waiting"}, Create(t, a, p, by, run)
      PROVE  TypeOK'
  <2>1. stepStatus' \in [Step -> StepStatus]
    BY <1>1 DEF Create, StepStatus, Open
  <2>2. taskStatus' \in [Task -> StepStatus]
    BY <1>1, <2>1, RefreshType DEF Create
  <2>3. order' \in Seq(Task)
    BY <1>1 DEF Create
  <2>4. /\ plan' \in [Task -> Plans \union {<<>>}] /\ creator' \in [Task -> Actor \union {Nobody}]
        /\ fingerprint' \in [Task -> Policy]
        /\ parent' \in [Task -> {"none", "waiting", "late", "ended"}]
    BY <1>1 DEF Create, envVars
  <2>5. /\ approval' \in [Step -> {"none", "pending", "approved", "rejected", "consumed"}]
        /\ approver' \in [Step -> Actor \union {Nobody}]
    BY <1>1 DEF Create
  <2>6. expires' \in [Step -> 0..ApprovalTicks]
    BY <1>1 DEF Create
  <2> QED
    BY <1>1, <2>1, <2>2, <2>3, <2>4, <2>5, <2>6 DEF Create, controlVars, envVars, history
<1>2. ASSUME NEW s \in Step, NEW a \in Actor, NEW d \in {"approved", "rejected"}, Approve(s, a, d)
      PROVE  TypeOK'
  <2>1. stepStatus' \in [Step -> StepStatus]
    BY <1>2 DEF Approve, StepStatus, Open
  <2>2. taskStatus' \in [Task -> StepStatus]
    BY <1>2, <2>1, RefreshType DEF Approve
  <2> QED
    BY <1>2, <2>1, <2>2 DEF Approve, taskVars, controlVars, envVars, history
<1>3. ASSUME NEW s \in Step, NEW a \in Actor, NEW o \in {"succeeded", "failed"}, Reconcile(s, a, o)
      PROVE  TypeOK'
  <2>1. stepStatus' \in [Step -> StepStatus]
    BY <1>3 DEF Reconcile, StepStatus, Open
  <2>2. taskStatus' \in [Task -> StepStatus]
    BY <1>3, <2>1, RefreshType DEF Reconcile
  <2> QED
    BY <1>3, <2>1, <2>2 DEF Reconcile, taskVars, approvalVars, controlVars, envVars
<1>4. ASSUME NEW t \in Task, NEW a \in Actor, Cancel(t, a) PROVE TypeOK'
  <2>1. stepStatus' \in [Step -> StepStatus] /\ claim' \in [Step -> Nat]
    BY <1>4 DEF Cancel, Retire, StepStatus, Open
  <2>2. taskStatus' \in [Task -> StepStatus]
    BY <1>4, <2>1, RefreshType DEF Cancel
  <2>3. approval' \in [Step -> {"none", "pending", "approved", "rejected", "consumed"}]
    BY <1>4 DEF Cancel, Withdraw
  <2> QED
    BY <1>4, <2>1, <2>2, <2>3 DEF Cancel, taskVars, controlVars, envVars, history
<1>5. ASSUME NEW a \in Actor, Freeze(a) \/ Resume(a) PROVE TypeOK'
  <2>1. CASE Freeze(a)
    <3>1. stepStatus' \in [Step -> StepStatus] /\ claim' \in [Step -> Nat]
      BY <2>1 DEF Freeze, Retire, StepStatus, Open
    <3>2. taskStatus' \in [Task -> StepStatus]
      BY <2>1, <3>1, RefreshType DEF Freeze
    <3> QED
      BY <2>1, <3>1, <3>2 DEF Freeze, taskVars, approvalVars, envVars, history
  <2>2. CASE Resume(a)
    BY <2>2 DEF Resume, taskVars, stepVars, approvalVars, envVars, history
  <2> QED
    BY <1>5, <2>1, <2>2
<1>6. ASSUME NEW d \in Device, NEW a \in Actor, NEW x \in {"enrolled", "revoked"},
             ChangeDevice(d, a, x)
      PROVE  TypeOK'
  <2>1. stepStatus' \in [Step -> StepStatus] /\ claim' \in [Step -> Nat]
    BY <1>6 DEF ChangeDevice, Retire, StepStatus, Open
  <2>2. taskStatus' \in [Task -> StepStatus]
    BY <1>6, <2>1, RefreshType DEF ChangeDevice
  <2>3. /\ approval' \in [Step -> {"none", "pending", "approved", "rejected", "consumed"}]
        /\ approver' \in [Step -> Actor \union {Nobody}]
    BY <1>6 DEF ChangeDevice, Withdraw, Signed
  <2>4. lease' \in [Step -> 0..LeaseTicks]
    BY <1>6 DEF ChangeDevice
  <2>5. device' \in [Device -> {"unknown", "enrolled", "revoked"}] /\ session' \in [Device -> BOOLEAN]
    BY <1>6 DEF ChangeDevice
  <2> QED
    BY <1>6, <2>1, <2>2, <2>3, <2>4, <2>5 DEF ChangeDevice, taskVars, envVars, history
<1>7. ASSUME NEW t \in Task, RunDeadline(t) \/ StopRun(t) \/ RunAdvances(t) PROVE TypeOK'
  <2>1. CASE RunDeadline(t) \/ RunAdvances(t)
    <3>1. \E x \in {"late", "ended"} : parent' = [parent EXCEPT ![t] = x]
      BY <2>1 DEF RunDeadline, RunAdvances
    <3>2. parent' \in [Task -> {"none", "waiting", "late", "ended"}]
      BY <3>1
    <3> QED
      BY <2>1, <3>2 DEF RunDeadline, RunAdvances, taskVars, stepVars, approvalVars, controlVars,
                        envVars, history
  <2>2. CASE StopRun(t)
    <3> DEFINE bound == {s \in StepsOf(t) : stepStatus[s] \in Open}
    <3>1. /\ parent' = [parent EXCEPT ![t] = "ended"]
          /\ \/ UNCHANGED <<stepStatus, claim, lease, taskStatus>>
             \/ /\ Retire(bound) /\ Refresh({t})
                /\ lease' = [s \in Step |-> IF s \in bound THEN 0 ELSE lease[s]]
          /\ Withdraw(StepsOf(t)) /\ Signed(StepsOf(t), Nobody)
          /\ UNCHANGED <<taskVars, attempts, expires, controlVars, envVars, job, history>>
      <4> HIDE DEF TypeOK
      <4> QED
        BY <2>2 DEF StopRun
    <3> HIDE DEF bound
    <3>2. parent' \in [Task -> {"none", "waiting", "late", "ended"}]
      BY <3>1
    <3>3. /\ approval' \in [Step -> {"none", "pending", "approved", "rejected", "consumed"}]
          /\ approver' \in [Step -> Actor \union {Nobody}]
      BY <3>1 DEF Withdraw, Signed
    <3>4. CASE UNCHANGED <<stepStatus, claim, lease, taskStatus>>
      BY <3>1, <3>2, <3>3, <3>4 DEF taskVars, controlVars, envVars, history
    <3>5. CASE /\ Retire(bound) /\ Refresh({t})
               /\ lease' = [s \in Step |-> IF s \in bound THEN 0 ELSE lease[s]]
      <4>1. stepStatus' \in [Step -> StepStatus] /\ claim' \in [Step -> Nat]
        BY <3>5 DEF Retire, StepStatus, Open
      <4>2. taskStatus' \in [Task -> StepStatus]
        BY <3>5, <4>1, RefreshType
      <4>3. lease' \in [Step -> 0..LeaseTicks]
        BY <3>5
      <4> QED
        BY <3>1, <3>2, <3>3, <4>1, <4>2, <4>3 DEF taskVars, controlVars, envVars, history
    <3> QED
      BY <3>1, <3>4, <3>5
  <2> QED
    BY <1>7, <2>1, <2>2
<1>8. ASSUME NEW taken \in SUBSET Step, NEW passed \in SUBSET Step, Record(taken, passed),
             JobOK'
      PROVE  TypeOK'
  <2>1. \A s \in Step : Verdict(s) \in StepStatus
    BY DEF Verdict, StepStatus, Open
  <2>2. stepStatus' \in [Step -> StepStatus]
    BY <1>8, <2>1 DEF Record, StepStatus
  <2>3. taskStatus' \in [Task -> StepStatus]
    BY <1>8, <2>2, RefreshType DEF Record
  <2>4. claim' \in [Step -> Nat] /\ attempts' \in [Step -> Nat]
    BY <1>8 DEF Record
  <2>5. lease' \in [Step -> 0..LeaseTicks]
    BY <1>8 DEF Record
  <2>6. /\ approval' \in [Step -> {"none", "pending", "approved", "rejected", "consumed"}]
        /\ approver' \in [Step -> Actor \union {Nobody}]
    BY <1>8 DEF Record, Signed
  <2> QED
    BY <1>8, <2>2, <2>3, <2>4, <2>5, <2>6 DEF Record, taskVars, controlVars, envVars, history, JobOK
<1>9. ASSUME NEW p \in Process, ClaimNothing(p) PROVE TypeOK'
  <2>1. JobOK'
    BY <1>9 DEF ClaimNothing, Idle, JobOK, Job, Busy
  <2>2. Candidates(PlaceOf(p)) \in SUBSET Step
    BY DEF Candidates
  <2>3. \/ Record({}, {}) \/ Record({}, Candidates(PlaceOf(p)))
        \/ UNCHANGED <<taskVars, parent, stepVars, approvalVars, controlVars, envVars, history>>
    BY <1>9 DEF ClaimNothing
  <2> QED
    BY <2>1, <2>2, <2>3, <1>8 DEF JobOK, taskVars, stepVars, approvalVars, controlVars, envVars, history
<1>10. ASSUME NEW p \in Process, NEW s \in Step, ClaimStep(p, s) PROVE TypeOK'
  <2>1. JobOK'
    BY <1>10 DEF ClaimStep, JobOK, Job, Busy
  <2>2. \E passed \in SUBSET Step : Record({s}, passed)
    BY <1>10 DEF ClaimStep, Candidates
  <2> QED
    BY <2>1, <2>2, <1>8
<1>11. ASSUME NEW p \in Process, Execute(p), job[p].pc \in Busy PROVE TypeOK'
  <2>1. PICK out \in {"succeeded", "failed", "uncertain"}, effect \in 0..1 :
             /\ job' = [job EXCEPT ![p].pc = "done", ![p].out = out]
             /\ effects' = [effects EXCEPT ![job[p].step] = @ + effect]
    BY <1>11 DEF Execute
  <2>2. JobOK'
    <3> DEFINE j == [job[p] EXCEPT !.pc = "done", !.out = out]
    <3>1. JobOK
      BY DEF JobOK
    <3> HIDE DEF TypeOK
    <3>2. job' = [job EXCEPT ![p] = j]
      BY <2>1
    <3>3. job[p] \in Job /\ job[p].step \in Step
      BY <3>1, <1>11 DEF JobOK
    <3>4. "done" \in {"idle", "checked"} \union Busy
      BY DEF Busy
    <3>5. j \in Job /\ j.step = job[p].step /\ j.out = out
      BY <3>3, <3>4 DEF Job
    <3> HIDE DEF j
    <3> QED
      BY <3>1, <3>2, <3>3, <3>5, JobUpdate
  <2>3. effects' \in [Step -> Nat]
    BY <1>11, <2>1
  <2> QED
    BY <1>11, <2>2, <2>3 DEF Execute, JobOK, taskVars, stepVars, approvalVars, controlVars, envVars
<1>12. ASSUME NEW p \in Process, Finish(p), job[p].pc \in {"refused", "done"} PROVE TypeOK'
  <2>0. job[p].step \in Step /\ job[p].out \in {"succeeded", "failed", "uncertain"}
    BY <1>12 DEF Job, Busy
  <2>1. stepStatus' \in [Step -> StepStatus] /\ claim' \in [Step -> Nat]
        /\ lease' \in [Step -> 0..LeaseTicks]
    <3>1. CASE Owns(p)
      <4>1. /\ stepStatus' = [stepStatus EXCEPT ![job[p].step] = job[p].out]
            /\ claim' = [claim EXCEPT ![job[p].step] = 0]
            /\ lease' = [lease EXCEPT ![job[p].step] = 0]
        <5> HIDE DEF TypeOK
        <5> QED
          BY <1>12, <3>1 DEF Finish
      <4>2. job[p].out \in StepStatus
        BY <2>0 DEF StepStatus
      <4>3. stepStatus' \in [Step -> StepStatus]
        BY <4>1, <4>2
      <4>4. claim' \in [Step -> Nat]
        BY <4>1
      <4>5. lease' \in [Step -> 0..LeaseTicks]
        <5>1. lease \in [Step -> 0..LeaseTicks] /\ 0 \in 0..LeaseTicks
          OBVIOUS
        <5> HIDE DEF TypeOK
        <5> QED
          BY <4>1, <5>1
      <4> QED
        BY <4>3, <4>4, <4>5
    <3>2. CASE ~Owns(p)
      BY <1>12, <3>2 DEF Finish
    <3> QED
      BY <3>1, <3>2
  <2>2. taskStatus' \in [Task -> StepStatus]
    BY <1>12, <2>1, RefreshType DEF Finish
  <2>3. JobOK'
    BY <1>12, IdleJob, JobUpdate DEF Finish, JobOK
  <2> QED
    BY <1>12, <2>1, <2>2, <2>3 DEF Finish, JobOK, taskVars, approvalVars, controlVars, envVars,
                                   history
<1>13. ASSUME NEW p \in Process, Fence(p) \/ Crash(p) PROVE TypeOK'
  <2>1. JobOK'
    <3>1. \/ job' = [job EXCEPT ![p] = Idle]
          \/ /\ job[p].pc = "claimed"
             /\ \/ job' = [job EXCEPT ![p] = [job[p] EXCEPT !.pc = "refused", !.out = "failed"]]
                \/ job' = [job EXCEPT ![p] = [job[p] EXCEPT !.pc = "allowed"]]
      BY <1>13 DEF Fence, Crash
    <3>2. JobOK
      BY DEF JobOK
    <3> HIDE DEF TypeOK
    <3>3. job[p] \in Job
      BY <3>2, JobIs
    <3>4. {"refused", "allowed", "claimed"} \subseteq {"idle", "checked"} \union Busy
      BY DEF Busy
    <3>5. CASE job' = [job EXCEPT ![p] = Idle]
      BY <3>2, <3>5, IdleJob, JobUpdate
    <3>6. ASSUME job[p].pc = "claimed",
                 job' = [job EXCEPT ![p] = [job[p] EXCEPT !.pc = "refused", !.out = "failed"]]
          PROVE  JobOK'
      <4> DEFINE j == [job[p] EXCEPT !.pc = "refused", !.out = "failed"]
      <4>1. j \in Job /\ j.step = job[p].step /\ j.out = "failed"
        BY <3>3, <3>4 DEF Job
      <4>2. job[p].step \in Step
        BY <3>2, <3>6 DEF JobOK, Busy
      <4>3. job' = [job EXCEPT ![p] = j]
        BY <3>6
      <4> HIDE DEF j
      <4> QED
        BY <3>2, <4>1, <4>2, <4>3, JobUpdate
    <3>7. ASSUME job[p].pc = "claimed",
                 job' = [job EXCEPT ![p] = [job[p] EXCEPT !.pc = "allowed"]]
          PROVE  JobOK'
      <4> DEFINE j == [job[p] EXCEPT !.pc = "allowed"]
      <4>1. j \in Job /\ j.step = job[p].step /\ j.pc = "allowed"
        BY <3>3, <3>4 DEF Job
      <4>2. job[p].step \in Step
        BY <3>2, <3>7 DEF JobOK, Busy
      <4>3. job' = [job EXCEPT ![p] = j]
        BY <3>7
      <4> HIDE DEF j
      <4> QED
        BY <3>2, <4>1, <4>2, <4>3, JobUpdate
    <3> QED
      BY <3>1, <3>5, <3>6, <3>7
  <2> QED
    BY <1>13, <2>1 DEF Fence, Crash, JobOK, taskVars, stepVars, approvalVars, controlVars, envVars,
                       history
<1>14. ASSUME NEW p \in Process, Handler(p) \/ FinishStep(p) \/ RunnerExecute(p) PROVE TypeOK'
  BY <1>14, <1>11, <1>12 DEF Handler, FinishStep, RunnerExecute, Busy
<1>15. ASSUME NEW d \in Device, Connect(d) \/ Heartbeat(d) \/ Result(d) PROVE TypeOK'
  <2>1. CASE Connect(d)
    BY <2>1 DEF Connect, taskVars, stepVars, approvalVars, envVars, history
  <2>2. CASE Heartbeat(d)
    <3>1. JobOK'
      <4>1. d \in Process /\ job' = [job EXCEPT ![d] = [job[d] EXCEPT !.pc = "checked"]]
        BY <2>2 DEF Heartbeat, Process
      <4>2. JobOK
        BY DEF JobOK
      <4> HIDE DEF TypeOK
      <4> DEFINE j == [job[d] EXCEPT !.pc = "checked"]
      <4>3. j \in Job /\ j.pc = "checked"
        <5>1. job[d] \in Job
          BY <4>1, <4>2, JobIs
        <5> QED
          BY <5>1 DEF Job
      <4>4. "checked" \notin Busy
        BY DEF Busy
      <4> HIDE DEF j
      <4>5. job' = [job EXCEPT ![d] = j]
        BY <4>1 DEF j
      <4> QED
        BY <4>1, <4>2, <4>3, <4>4, <4>5, JobUpdate
    <3> QED
      BY <2>2, <3>1 DEF Heartbeat, JobOK, taskVars, stepVars, approvalVars, controlVars, envVars,
                        history
  <2>3. CASE Result(d)
    BY <2>3, <1>12, <1>13 DEF Result, Process
  <2> QED
    BY <1>15, <2>1, <2>2, <2>3
<1>16. CASE Tick
  <2>1. lease' \in [Step -> 0..LeaseTicks]
    BY <1>16 DEF Tick
  <2>2. expires' \in [Step -> 0..ApprovalTicks]
    BY <1>16 DEF Tick
  <2> QED
    BY <1>16, <2>1, <2>2 DEF Tick, taskVars, controlVars, envVars, history
<1>17. ASSUME \/ ChangeWorkspace
              \/ \E a \in Actor, r \in Role : ChangeRole(a, r)
              \/ \E p \in Policy : EditPolicy(p)
       PROVE  TypeOK'
  <2>1. changes' \in 0..MaxChanges
    BY <1>17 DEF ChangeWorkspace, ChangeRole, EditPolicy, Change
  <2>2. role' \in [Actor -> Role] /\ policy' \in Policy
    <3>1. \/ UNCHANGED <<role, policy>>
          \/ \E a \in Actor, r \in Role : role' = [role EXCEPT ![a] = r] /\ UNCHANGED policy
          \/ \E p \in Policy : policy' = p /\ UNCHANGED role
      <4> HIDE DEF TypeOK
      <4> QED
        BY <1>17, Zenon DEF ChangeWorkspace, ChangeRole, EditPolicy
    <3> QED
      BY <3>1
  <2>3. suspended' \in BOOLEAN
    BY <1>17, Zenon DEF ChangeWorkspace, ChangeRole, EditPolicy
  <2> QED
    BY <1>17, <2>1, <2>2, <2>3 DEF ChangeWorkspace, ChangeRole, EditPolicy, Change, taskVars, stepVars,
                             approvalVars, controlVars, history
<1>18. CASE UNCHANGED vars
  BY <1>18 DEF vars, taskVars, stepVars, approvalVars, controlVars, envVars, history
<1>19. ASSUME NEW t \in Task, NEW a \in Actor, NEW p \in Plans,
              Submit(t, a, p) \/ SubmitForRun(t, a, p)
       PROVE  TypeOK'
  BY <1>19, <1>1 DEF Submit, SubmitForRun
<1>20. ASSUME NEW t \in Task, NEW a \in Actor, OperatorReply(t, a) PROVE TypeOK'
  BY <1>20, <1>1 DEF OperatorReply
<1> HIDE DEF TypeOK
<1> QED
  BY <1>2, <1>3, <1>4, <1>5, <1>6, <1>7, <1>9, <1>10, <1>13, <1>14, <1>15, <1>16, <1>17, <1>18, <1>19, <1>20
  DEF Next, Arrival, Control, Runs, CloudWorker, Runner, Claim, Environment, Process

\* Every state the engine reaches is well typed: each transaction, each worker
\* and runner step and each outside change writes only what its column may hold.
THEOREM TypeCorrect == Spec => []TypeOK
BY TypeInit, TypeStep, PTL DEF Spec
=============================================================================
