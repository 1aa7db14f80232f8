--------------------------- MODULE TaskEngineSafety ---------------------------
(***************************************************************************)
(* What the step rows guarantee, for every value of the constants.  Every   *)
(* transition is one of four: a transaction or a move that takes no step    *)
(* (Calm), a claim (Taken), a tool call (Execute) or a recorded result      *)
(* (Finish).  The inductive invariant Sound is proved against those four.   *)
(***************************************************************************)
EXTENDS TaskEngineProofs

Untouched == {"none"} \union Undecided
Terminal == {"succeeded", "failed", "cancelled"}

\* The holder has a claim and has not called the tool.
Underway == {"claimed", "refused", "allowed"}

\* What a transition that takes no step may do to the row of s.
RowStep(s) ==
  /\ \/ stepStatus'[s] = stepStatus[s]
     \/ stepStatus[s] = "none" /\ stepStatus'[s] = "queued"
     \/ stepStatus[s] \in Undecided
        /\ stepStatus'[s] \in {"queued", "waiting_approval", "failed", "cancelled"}
     \/ stepStatus[s] = "running" /\ stepStatus'[s] = "uncertain"
     \/ stepStatus[s] = "uncertain" /\ stepStatus'[s] \in {"succeeded", "failed"} /\ s \in reconciled'
  /\ \/ approval'[s] = approval[s] /\ approver'[s] = approver[s]
     \/ /\ approval[s] \in {"none", "pending", "approved"} /\ approval'[s] # "consumed"
        /\ stepStatus'[s] # "none"
  /\ stepStatus[s] # "none" => plan'[s[1]] = plan[s[1]]

\* A process keeps its claim, drops it, or learns whether it may use it.
JobStep(p) ==
  \/ job'[p] = job[p]
  \/ job'[p].pc \notin Busy
  \/ /\ job[p].pc = "claimed" /\ job'[p].step = job[p].step
     /\ \/ job'[p].pc = "allowed"
        \/ job'[p].pc = "refused" /\ job'[p].out = "failed"

Calm == /\ \A s \in Step : RowStep(s)
        /\ \A p \in Process : JobStep(p)
        /\ attempts' = attempts /\ effects' = effects /\ reconciled \subseteq reconciled'

\* Process p takes step s, and no other row is taken.
Taken(p, s) ==
  /\ stepStatus[s] \in Undecided /\ stepStatus'[s] = "running"
  /\ \A r \in Step : Sibling(r, s) /\ r[2] < s[2] => stepStatus[r] = "succeeded"
  /\ Gated(s) => approval[s] = "approved" /\ approval'[s] = "consumed" /\ approver[s] \in Actor
  /\ ~Gated(s) => approval'[s] = approval[s]
  /\ approver'[s] = approver[s]
  /\ attempts' = [attempts EXCEPT ![s] = @ + 1]
  /\ \A r \in Step \ {s} : RowStep(r)
  /\ job'[p].pc = "claimed" /\ job'[p].step = s
  /\ job[p].pc \notin Busy /\ \A q \in Process \ {p} : job'[q] = job[q]
  /\ plan' = plan /\ effects' = effects /\ reconciled' = reconciled

-----------------------------------------------------------------------------
(* The derived task status. *)

LEMMA DerivedLocal ==
  ASSUME NEW f, NEW g, NEW t \in Task, \A s \in Step : s[1] = t => f[s] = g[s]
  PROVE  Derived(f, t) = Derived(g, t)
<1>1. {f[s] : s \in {r \in Step : r[1] = t}} = {g[s] : s \in {r \in Step : r[1] = t}}
  OBVIOUS
<1> QED
  BY <1>1 DEF Derived

\* Whoever writes a row of a task refreshes the task.
Refreshed ==
  \A t \in Task : \/ taskStatus'[t] = Derived(stepStatus', t)
                 \/ /\ taskStatus'[t] = taskStatus[t]
                    /\ \A s \in Step : s[1] = t => stepStatus'[s] = stepStatus[s]

LEMMA RefreshCovers ==
  ASSUME NEW T, Refresh(T), \A s \in Step : s[1] \notin T => stepStatus'[s] = stepStatus[s]
  PROVE  Refreshed
BY DEF Refresh, Refreshed

LEMMA UnchangedCovers ==
  ASSUME UNCHANGED <<stepStatus, taskStatus>>
  PROVE  Refreshed
BY DEF Refreshed

LEMMA RefreshedFresh ==
  ASSUME TaskStatusFresh, Refreshed
  PROVE  TaskStatusFresh'
<1> SUFFICES ASSUME NEW t \in Task PROVE taskStatus'[t] = Derived(stepStatus', t)
  BY DEF TaskStatusFresh
<1>1. CASE \A s \in Step : s[1] = t => stepStatus'[s] = stepStatus[s]
  BY <1>1, DerivedLocal DEF Refreshed, TaskStatusFresh
<1> QED
  BY <1>1 DEF Refreshed

\* A task without a row in p_tasks has none in p_steps.
NoOrphans == \A s \in Step : taskStatus[s[1]] = "none" => stepStatus[s] = "none"

LEMMA DerivedNone ==
  ASSUME NEW f, NEW s \in Step, Derived(f, s[1]) = "none"
  PROVE  f[s] = "none"
<1>1. f[s] \in {f[r] : r \in {q \in Step : q[1] = s[1]}}
  OBVIOUS
<1> QED
  BY <1>1 DEF Derived

LEMMA FreshNoOrphans ==
  ASSUME TaskStatusFresh
  PROVE  NoOrphans
<1>1. \A s \in Step : s[1] \in Task
  BY DEF Step
<1> QED
  BY <1>1, DerivedNone DEF TaskStatusFresh, NoOrphans

LEMMA RefreshedNoOrphans ==
  ASSUME NoOrphans, Refreshed
  PROVE  NoOrphans'
<1> SUFFICES ASSUME NEW s \in Step, taskStatus'[s[1]] = "none" PROVE stepStatus'[s] = "none"
  BY DEF NoOrphans
<1>1. s[1] \in Task
  BY DEF Step
<1> QED
  BY <1>1, DerivedNone DEF Refreshed, NoOrphans

LEMMA RetireRow ==
  ASSUME NEW S \in SUBSET Step, Retire(S), \A s \in S : stepStatus[s] \in Open
  PROVE  \A s \in Step :
           \/ s \notin S /\ stepStatus'[s] = stepStatus[s]
           \/ s \in S /\ stepStatus[s] \in Undecided /\ stepStatus'[s] = "cancelled"
           \/ s \in S /\ stepStatus[s] = "running" /\ stepStatus'[s] = "uncertain"
BY DEF Retire, Open, Undecided

-----------------------------------------------------------------------------
(* The transitions that take no step. *)

\* A step without a row has no approval.
Rows == \A s \in Step : stepStatus[s] = "none" => approval[s] = "none"

LEMMA CreateCalm ==
  ASSUME TypeOK, NoOrphans, Rows, NEW t \in Task, NEW a \in Actor, NEW p \in Plans,
         NEW by \in Actor \union {Nobody}, NEW run, Create(t, a, p, by, run)
  PROVE  Calm /\ Refreshed
<1> DEFINE rows == {s \in Step : s[1] = t /\ s[2] <= Len(p)}
           gated == {s \in rows : p[s[2]].gated}
<1>1. /\ taskStatus[t] = "none"
      /\ plan' = [plan EXCEPT ![t] = p]
      /\ stepStatus' = [s \in Step |-> IF s \in rows THEN "queued" ELSE stepStatus[s]]
      /\ approval' = [s \in Step |-> IF s \notin gated THEN approval[s]
                                     ELSE IF by = Nobody THEN "pending" ELSE "approved"]
      /\ approver' = [s \in Step |-> IF s \in gated THEN by ELSE approver[s]]
      /\ Refresh({t})
      /\ UNCHANGED <<attempts, job, effects, reconciled>>
  BY DEF Create, history
<1>2. \A s \in Step : s[1] = t => stepStatus[s] = "none"
  BY <1>1 DEF NoOrphans
<1>3. gated \subseteq rows /\ \A s \in rows : s[1] = t
  OBVIOUS
<1> HIDE DEF gated, rows
<1>4. \A s \in Step : RowStep(s)
  <2> SUFFICES ASSUME NEW s \in Step PROVE RowStep(s)
    OBVIOUS
  <2>1. CASE s \in rows
    <3>1. stepStatus[s] = "none" /\ stepStatus'[s] = "queued" /\ approval[s] = "none"
      BY <1>1, <1>2, <1>3, <2>1 DEF Rows
    <3>2. \/ approval'[s] = approval[s] /\ approver'[s] = approver[s]
          \/ approval'[s] \in {"pending", "approved"}
      BY <1>1
    <3> QED
      BY <3>1, <3>2 DEF RowStep
  <2>2. CASE s \notin rows
    <3>1. stepStatus'[s] = stepStatus[s] /\ approval'[s] = approval[s] /\ approver'[s] = approver[s]
      BY <1>1, <1>3, <2>2
    <3>2. stepStatus[s] # "none" => s[1] # t
      BY <1>2
    <3>3. s[1] # t => plan'[s[1]] = plan[s[1]]
      BY <1>1 DEF Step, TypeOK
    <3> QED
      BY <3>1, <3>2, <3>3 DEF RowStep
  <2> QED
    BY <2>1, <2>2
<1>5. Refreshed
  <2>1. \A s \in Step : s[1] \notin {t} => stepStatus'[s] = stepStatus[s]
    BY <1>1, <1>3
  <2> QED
    BY <1>1, <2>1, RefreshCovers
<1> QED
  BY <1>1, <1>4, <1>5 DEF Calm, JobStep

LEMMA ApproveCalm ==
  ASSUME TypeOK, NEW s \in Step, NEW a \in Actor,
         NEW d \in {"approved", "rejected"}, Approve(s, a, d)
  PROVE  Calm /\ Refreshed
<1>1. /\ approval[s] = "pending" /\ stepStatus[s] \in Undecided
      /\ approval' = [approval EXCEPT ![s] = d]
      /\ approver' = [approver EXCEPT ![s] = a]
      /\ stepStatus' = [stepStatus EXCEPT ![s] = IF d = "approved" THEN "queued" ELSE "cancelled"]
      /\ Refresh({s[1]})
      /\ UNCHANGED <<plan, attempts, job, effects, reconciled>>
  BY DEF Approve, taskVars, history
<1>2. /\ stepStatus \in [Step -> StepStatus]
      /\ DOMAIN approval = Step /\ DOMAIN approver = Step
  BY DEF TypeOK
<1>3. \A r \in Step : RowStep(r)
  <2> SUFFICES ASSUME NEW r \in Step PROVE RowStep(r)
    OBVIOUS
  <2>1. CASE r = s
    <3>1. /\ stepStatus'[s] \in {"queued", "cancelled"}
          /\ approval'[s] = d
      BY <1>1, <1>2
    <3> QED
      BY <1>1, <2>1, <3>1 DEF RowStep
  <2>2. CASE r # s
    BY <1>1, <1>2, <2>2 DEF RowStep
  <2> QED
    BY <2>1, <2>2
<1>4. Refreshed
  <2>1. \A r \in Step : r[1] \notin {s[1]} => stepStatus'[r] = stepStatus[r]
    BY <1>1, <1>2
  <2> QED
    BY <1>1, <2>1, RefreshCovers
<1> QED
  BY <1>1, <1>3, <1>4 DEF Calm, JobStep

LEMMA ReconcileCalm ==
  ASSUME TypeOK, NEW s \in Step, NEW a \in Actor,
         NEW o \in {"succeeded", "failed"}, Reconcile(s, a, o)
  PROVE  Calm /\ Refreshed
<1>1. /\ stepStatus[s] = "uncertain"
      /\ stepStatus' = [stepStatus EXCEPT ![s] = o]
      /\ reconciled' = reconciled \union {s}
      /\ Refresh({s[1]})
      /\ UNCHANGED <<plan, attempts, approval, approver, job, effects>>
  BY DEF Reconcile, taskVars, approvalVars
<1>2. stepStatus \in [Step -> StepStatus]
  BY DEF TypeOK
<1>3. \A r \in Step : RowStep(r)
  BY <1>1, <1>2 DEF RowStep
<1>4. Refreshed
  <2>1. \A r \in Step : r[1] \notin {s[1]} => stepStatus'[r] = stepStatus[r]
    BY <1>1, <1>2
  <2> QED
    BY <1>1, <2>1, RefreshCovers
<1> QED
  BY <1>1, <1>3, <1>4 DEF Calm, JobStep

LEMMA WithdrawRow ==
  ASSUME TypeOK, Rows, NEW S, NEW by, Withdraw(S), UNCHANGED approver \/ Signed(S, by),
         NEW s \in Step, stepStatus[s] # "none" => stepStatus'[s] # "none"
  PROVE  \/ approval'[s] = approval[s] /\ approver'[s] = approver[s]
         \/ /\ approval[s] \in {"none", "pending", "approved"} /\ approval'[s] # "consumed"
            /\ stepStatus'[s] # "none"
<1>1. \/ approval[s] \notin {"pending", "approved"} /\ approval'[s] = approval[s]
         /\ approver'[s] = approver[s]
      \/ s \notin S /\ approval'[s] = approval[s] /\ approver'[s] = approver[s]
      \/ approval[s] \in {"pending", "approved"} /\ approval'[s] = "rejected"
  BY DEF Withdraw, Signed
<1>2. approval[s] \in {"pending", "approved"} => stepStatus[s] # "none"
  BY DEF Rows
<1> QED
  BY <1>1, <1>2

\* Retire, a refresh that covers it and a withdrawal make a calm transition.
LEMMA RetireCalm ==
  ASSUME TypeOK, Rows, NEW S \in SUBSET Step, Retire(S),
         \A s \in S : stepStatus[s] \in Open,
         NEW T, Refresh(T), \A s \in S : s[1] \in T,
         \/ UNCHANGED <<approval, approver>>
         \/ \E W \in SUBSET Step, by \in Actor \union {Nobody} :
              Withdraw(W) /\ (UNCHANGED approver \/ Signed(W, by)),
         UNCHANGED <<plan, attempts, job, effects, reconciled>>
  PROVE  Calm /\ Refreshed
<1>1. \A s \in Step : RowStep(s)
  <2> SUFFICES ASSUME NEW s \in Step PROVE RowStep(s)
    OBVIOUS
  <2>1. \/ stepStatus'[s] = stepStatus[s]
        \/ stepStatus[s] \in Undecided /\ stepStatus'[s] = "cancelled"
        \/ stepStatus[s] = "running" /\ stepStatus'[s] = "uncertain"
    BY RetireRow
  <2>2. stepStatus[s] # "none" => stepStatus'[s] # "none"
    BY <2>1
  <2>3. \/ approval'[s] = approval[s] /\ approver'[s] = approver[s]
        \/ /\ approval[s] \in {"none", "pending", "approved"} /\ approval'[s] # "consumed"
           /\ stepStatus'[s] # "none"
    BY <2>2, WithdrawRow
  <2> QED
    BY <2>1, <2>3 DEF RowStep
<1>2. Refreshed
  <2>1. \A s \in Step : s[1] \notin T => stepStatus'[s] = stepStatus[s]
    BY RetireRow
  <2> QED
    BY <2>1, RefreshCovers
<1> QED
  BY <1>1, <1>2 DEF Calm, JobStep

LEMMA CancelCalm ==
  ASSUME TypeOK, Rows, NEW t \in Task, NEW a \in Actor, Cancel(t, a)
  PROVE  Calm /\ Refreshed
<1> DEFINE S == {s \in StepsOf(t) : stepStatus[s] \in Open}
<1>1. /\ Retire(S) /\ Withdraw(StepsOf(t)) /\ Refresh({t})
      /\ UNCHANGED <<plan, attempts, approver, job, effects, reconciled>>
  BY DEF Cancel, taskVars, history
<1>2. /\ S \in SUBSET Step /\ StepsOf(t) \in SUBSET Step
      /\ \A s \in S : stepStatus[s] \in Open /\ s[1] \in {t}
  BY DEF StepsOf
<1> HIDE DEF S
<1> QED
  BY <1>1, <1>2, RetireCalm

LEMMA FreezeCalm ==
  ASSUME TypeOK, Rows, NEW a \in Actor, Freeze(a)
  PROVE  Calm /\ Refreshed
<1> DEFINE S == {s \in Step : stepStatus[s] = "running"}
<1>1. /\ Retire(S) /\ Refresh(TasksOf(S))
      /\ UNCHANGED <<plan, attempts, approval, approver, job, effects, reconciled>>
  BY DEF Freeze, taskVars, approvalVars, history
<1>2. /\ S \in SUBSET Step
      /\ \A s \in S : stepStatus[s] \in Open /\ s[1] \in TasksOf(S)
  BY DEF TasksOf, Open
<1> HIDE DEF S
<1> QED
  BY <1>1, <1>2, RetireCalm

LEMMA ChangeDeviceCalm ==
  ASSUME TypeOK, Rows, NEW d \in Device, NEW a \in Actor, NEW x,
         ChangeDevice(d, a, x)
  PROVE  Calm /\ Refreshed
<1> DEFINE S == {s \in Step : stepStatus[s] \in Open /\ Kind(s).place = d}
<1>1. /\ Retire(S) /\ Withdraw(S) /\ Signed(S, a) /\ Refresh(TasksOf(S))
      /\ UNCHANGED <<plan, attempts, job, effects, reconciled>>
  BY DEF ChangeDevice, taskVars, history
<1>2. /\ S \in SUBSET Step
      /\ \A s \in S : stepStatus[s] \in Open /\ s[1] \in TasksOf(S)
  BY DEF TasksOf
<1> HIDE DEF S
<1> QED
  BY <1>1, <1>2, RetireCalm

LEMMA StopRunCalm ==
  ASSUME TypeOK, Rows, NEW t \in Task, StopRun(t)
  PROVE  Calm /\ Refreshed
<1> DEFINE S == {s \in StepsOf(t) : stepStatus[s] \in Open}
<1>0. /\ \/ UNCHANGED <<stepStatus, claim, lease, taskStatus>>
         \/ /\ Retire(S) /\ Refresh({t})
            /\ lease' = [s \in Step |-> IF s \in S THEN 0 ELSE lease[s]]
      /\ Withdraw(StepsOf(t)) /\ Signed(StepsOf(t), Nobody)
      /\ UNCHANGED <<taskVars, attempts, expires, controlVars, envVars, job, history>>
  BY DEF StopRun
<1>1. /\ S \in SUBSET Step /\ StepsOf(t) \in SUBSET Step
      /\ \A s \in S : stepStatus[s] \in Open /\ s[1] \in {t}
  BY DEF StepsOf
<1> HIDE DEF S
<1>2. UNCHANGED <<plan, attempts, job, effects, reconciled>>
  BY <1>0 DEF taskVars, history
<1>3. CASE Retire(S) /\ Refresh({t})
  BY <1>0, <1>1, <1>2, <1>3, RetireCalm
<1>4. CASE UNCHANGED <<stepStatus, taskStatus>>
  <2>1. \A s \in Step : RowStep(s)
    BY <1>0, <1>2, <1>4, WithdrawRow DEF RowStep
  <2> QED
    BY <1>2, <1>4, <2>1, UnchangedCovers DEF Calm, JobStep
<1> QED
  BY <1>0, <1>3, <1>4

\* Whatever leaves the rows alone and moves a process as JobStep allows is calm.
LEMMA QuietCalm ==
  ASSUME UNCHANGED <<stepStatus, taskStatus, approval, approver, plan, attempts,
                                      effects, reconciled>>,
         \A p \in Process : JobStep(p)
  PROVE  Calm /\ Refreshed
BY UnchangedCovers DEF Calm, RowStep

LEMMA OtherCalm ==
  ASSUME \/ \E a \in Actor : Resume(a)
         \/ \E t \in Task : RunDeadline(t) \/ RunAdvances(t)
         \/ \E d \in Device : Connect(d)
         \/ Tick \/ ChangeWorkspace
         \/ \E a \in Actor, r \in Role : ChangeRole(a, r)
         \/ \E p \in Policy : EditPolicy(p)
  PROVE  Calm /\ Refreshed
<1>1. UNCHANGED <<stepStatus, taskStatus, approval, approver, plan, attempts, effects, reconciled,
                  job>>
  BY DEF Resume, RunDeadline, RunAdvances, Connect, Tick, ChangeWorkspace, ChangeRole, EditPolicy,
         Change, taskVars, stepVars, approvalVars, history
<1> QED
  BY <1>1, QuietCalm DEF JobStep

LEMMA ProcessCalm ==
  ASSUME TypeOK, NEW p \in Process,
         Fence(p) \/ Crash(p) \/ (p \in Device /\ Heartbeat(p))
  PROVE  Calm /\ Refreshed
<1>1. UNCHANGED <<stepStatus, taskStatus, approval, approver, plan, attempts, effects, reconciled>>
  BY DEF Fence, Crash, Heartbeat, taskVars, stepVars, approvalVars, history
<1>2. /\ \A q \in Process \ {p} : job'[q] = job[q]
      /\ \/ job'[p] = Idle
         \/ job'[p].pc = "checked"
         \/ /\ job[p].pc = "claimed" /\ job'[p].step = job[p].step
            /\ \/ job'[p].pc = "allowed"
               \/ job'[p].pc = "refused" /\ job'[p].out = "failed"
  <2>1. /\ job \in [Process -> Job] /\ job[p] \in Job
    BY DEF TypeOK
  <2>2. \/ job' = [job EXCEPT ![p] = Idle]
        \/ job' = [job EXCEPT ![p] = [job[p] EXCEPT !.pc = "checked"]]
        \/ /\ job[p].pc = "claimed"
           /\ \/ job' = [job EXCEPT ![p] = [job[p] EXCEPT !.pc = "refused", !.out = "failed"]]
              \/ job' = [job EXCEPT ![p] = [job[p] EXCEPT !.pc = "allowed"]]
    BY DEF Fence, Crash, Heartbeat
  <2>3. CASE job' = [job EXCEPT ![p] = Idle]
    BY <2>1, <2>3
  <2>4. CASE job' = [job EXCEPT ![p] = [job[p] EXCEPT !.pc = "checked"]]
    BY <2>1, <2>4 DEF Job
  <2>5. CASE /\ job[p].pc = "claimed"
             /\ job' = [job EXCEPT ![p] = [job[p] EXCEPT !.pc = "refused", !.out = "failed"]]
    BY <2>1, <2>5 DEF Job
  <2>6. CASE /\ job[p].pc = "claimed"
             /\ job' = [job EXCEPT ![p] = [job[p] EXCEPT !.pc = "allowed"]]
    BY <2>1, <2>6 DEF Job
  <2> QED
    BY <2>2, <2>3, <2>4, <2>5, <2>6
<1>3. \A q \in Process : JobStep(q)
  BY <1>2, IdleJob DEF JobStep, Busy
<1> QED
  BY <1>1, <1>3, QuietCalm

-----------------------------------------------------------------------------
(* Claims. *)

LEMMA CandidateRow ==
  ASSUME NEW place, NEW s \in Candidates(place)
  PROVE  /\ s \in Step /\ stepStatus[s] \in Undecided /\ s \notin Lapsed
         /\ \A r \in Step : Sibling(r, s) /\ r[2] < s[2] => stepStatus[r] = "succeeded"
<1> DEFINE status == [r \in Step |-> IF r \in Lapsed THEN "uncertain" ELSE stepStatus[r]]
<1>1. /\ s \in Step /\ stepStatus[s] \in Undecided
      /\ \A r \in Step : Sibling(r, s) /\ r[2] < s[2] => status[r] = "succeeded"
  BY DEF Candidates
<1> QED
  BY <1>1 DEF Lapsed, Undecided

LEMMA VerdictRange ==
  ASSUME NEW s
  PROVE  Verdict(s) \in {"cancelled", "failed", "waiting_approval", "running"}
BY DEF Verdict

\* The rows a claim passes over or finds lapsed move as RowStep says.
LEMMA RecordRows ==
  ASSUME NEW place, NEW taken \in SUBSET Candidates(place),
         NEW passed \in SUBSET Candidates(place), \A s \in passed : Verdict(s) # "running",
         Record(taken, passed)
  PROVE  Refreshed /\ \A s \in Step \ taken : RowStep(s)
<1> DEFINE dropped == {s \in passed : Verdict(s) = "cancelled"}
<1>1. /\ stepStatus' = [s \in Step |-> IF s \in Lapsed THEN "uncertain"
                                       ELSE IF s \in taken \union passed THEN Verdict(s)
                                       ELSE stepStatus[s]]
      /\ approval' = [s \in Step |->
           IF s \in taken /\ Gated(s) THEN "consumed"
           ELSE IF s \in dropped /\ approval[s] \in {"pending", "approved"} THEN "rejected"
           ELSE approval[s]]
      /\ Signed(dropped, Nobody)
      /\ Refresh(TasksOf(Lapsed \union taken \union passed))
  BY DEF Record
<1>2. plan' = plan
  BY DEF Record, taskVars
<1>3. \A s \in Step \ taken : RowStep(s)
  <2> SUFFICES ASSUME NEW s \in Step \ taken PROVE RowStep(s)
    OBVIOUS
  <2>1. CASE s \in passed
    <3>1. /\ stepStatus[s] \in Undecided /\ s \notin Lapsed
          /\ stepStatus'[s] \in {"cancelled", "failed", "waiting_approval"}
          /\ s \in dropped => stepStatus'[s] = "cancelled"
      BY <1>1, <2>1, CandidateRow, VerdictRange
    <3>2. \/ approval'[s] = approval[s] /\ approver'[s] = approver[s]
          \/ approval[s] \in {"pending", "approved"} /\ approval'[s] = "rejected"
      BY <1>1, <2>1 DEF Signed
    <3> QED
      BY <1>2, <3>1, <3>2 DEF RowStep
  <2>2. CASE s \notin passed
    <3>1. approval'[s] = approval[s] /\ approver'[s] = approver[s]
      BY <1>1, <2>2 DEF Signed
    <3>2. \/ stepStatus'[s] = stepStatus[s]
          \/ stepStatus[s] = "running" /\ stepStatus'[s] = "uncertain"
      BY <1>1, <2>2 DEF Lapsed
    <3> QED
      BY <1>2, <3>1, <3>2 DEF RowStep
  <2> QED
    BY <2>1, <2>2
<1>4. Refreshed
  <2>1. \A s \in Step : s[1] \notin TasksOf(Lapsed \union taken \union passed)
                        => s \notin Lapsed /\ s \notin taken /\ s \notin passed
    BY DEF TasksOf
  <2>2. \A s \in Step : s[1] \notin TasksOf(Lapsed \union taken \union passed)
                        => stepStatus'[s] = stepStatus[s]
    BY <1>1, <2>1
  <2> QED
    BY <1>1, <2>2, RefreshCovers
<1> QED
  BY <1>3, <1>4

LEMMA ClaimNothingCalm ==
  ASSUME TypeOK, NEW p \in Process, ClaimNothing(p)
  PROVE  Calm /\ Refreshed
<1>1. \A q \in Process : JobStep(q)
  BY IdleJob DEF ClaimNothing, TypeOK, JobStep
<1>2. CASE UNCHANGED <<taskVars, parent, stepVars, approvalVars, controlVars, envVars, history>>
  <2>1. UNCHANGED <<stepStatus, taskStatus, approval, approver, plan, attempts, effects, reconciled>>
    BY <1>2 DEF taskVars, stepVars, approvalVars, history
  <2> QED
    BY <1>1, <2>1, QuietCalm
<1>3. ASSUME NEW passed \in SUBSET Candidates(PlaceOf(p)), \A s \in passed : Verdict(s) # "running",
             Record({}, passed)
      PROVE  Calm /\ Refreshed
  <2>1. attempts' = attempts
    <3>1. attempts' = [s \in Step |-> IF s \in {} THEN attempts[s] + 1 ELSE attempts[s]]
      BY <1>3 DEF Record
    <3> QED
      BY <3>1 DEF TypeOK
  <2>2. UNCHANGED <<effects, reconciled>>
    BY <1>3 DEF Record, history
  <2>3. {} \in SUBSET Candidates(PlaceOf(p)) /\ Step \ {} = Step
    OBVIOUS
  <2>4. Refreshed /\ \A s \in Step : RowStep(s)
    BY <1>3, <2>3, RecordRows
  <2> QED
    BY <1>1, <2>1, <2>2, <2>4 DEF Calm
<1>4. \/ UNCHANGED <<taskVars, parent, stepVars, approvalVars, controlVars, envVars, history>>
      \/ Record({}, {})
      \/ /\ \A s \in Candidates(PlaceOf(p)) : Verdict(s) # "running"
         /\ Record({}, Candidates(PlaceOf(p)))
  BY DEF ClaimNothing
<1> QED
  BY <1>2, <1>3, <1>4

LEMMA ClaimStepTakes ==
  ASSUME TypeOK, NEW p \in Process, NEW s \in Step, ClaimStep(p, s)
  PROVE  Taken(p, s) /\ Refreshed
<1> DEFINE passed == {r \in Candidates(PlaceOf(p)) : Before(r, s)}
<1>1. /\ MayClaim(p) /\ s \in Candidates(PlaceOf(p)) /\ Verdict(s) = "running"
      /\ \A r \in passed : Verdict(r) # "running"
      /\ Record({s}, passed)
      /\ job' = [job EXCEPT ![p] = [pc |-> "claimed", step |-> s, claim |-> attempts[s] + 1,
                                    out |-> "none"]]
  BY DEF ClaimStep
<1>2. passed \in SUBSET Candidates(PlaceOf(p)) /\ {s} \in SUBSET Candidates(PlaceOf(p))
  BY <1>1
<1> HIDE DEF passed
<1>3. Refreshed /\ \A r \in Step \ {s} : RowStep(r)
  BY <1>1, <1>2, RecordRows
<1>4. /\ stepStatus[s] \in Undecided /\ s \notin Lapsed
      /\ \A r \in Step : Sibling(r, s) /\ r[2] < s[2] => stepStatus[r] = "succeeded"
  BY <1>1, CandidateRow
<1>5. /\ stepStatus'[s] = "running"
      /\ attempts' = [r \in Step |-> IF r \in {s} THEN attempts[r] + 1 ELSE attempts[r]]
  BY <1>1, <1>4 DEF Record
<1>6. attempts' = [attempts EXCEPT ![s] = @ + 1]
  BY <1>5 DEF TypeOK
<1>7. /\ Gated(s) => approval'[s] = "consumed"
      /\ ~Gated(s) => approval'[s] = approval[s]
      /\ approver'[s] = approver[s]
  BY <1>1 DEF Record, Signed
<1>8. Gated(s) => approval[s] = "approved" /\ approver[s] \in Actor
  BY <1>1 DEF Verdict, Holds
<1>9. /\ job[p].pc \notin Busy /\ job'[p].pc = "claimed" /\ job'[p].step = s
      /\ \A q \in Process \ {p} : job'[q] = job[q]
  BY <1>1 DEF MayClaim, Busy, TypeOK
<1>10. plan' = plan /\ effects' = effects /\ reconciled' = reconciled
  BY <1>1 DEF Record, taskVars, history
<1> QED
  BY <1>3, <1>4, <1>5, <1>6, <1>7, <1>8, <1>9, <1>10 DEF Taken

-----------------------------------------------------------------------------
(* Tool calls and recorded results. *)

\* Process p, which has not called its tool yet, calls it.
Called(p) ==
  /\ job[p].pc \in Underway
  /\ \E out \in {"succeeded", "failed", "uncertain"}, effect \in 0..1 :
       /\ out = "succeeded" => effect = 1
       /\ out = "failed" => effect = 0
       /\ job'[p].pc = "done" /\ job'[p].out = out /\ job'[p].step = job[p].step
       /\ effects' = [effects EXCEPT ![job[p].step] = @ + effect]
  /\ \A q \in Process \ {p} : job'[q] = job[q]
  /\ UNCHANGED <<stepStatus, approval, approver, plan, attempts, reconciled>>

\* Process p, which holds a result, records it.
Recorded(p) ==
  /\ job[p].pc \in {"refused", "done"} /\ stepStatus[job[p].step] = "running"
  /\ stepStatus' = [stepStatus EXCEPT ![job[p].step] = job[p].out]
  /\ job'[p].pc \notin Busy /\ \A q \in Process \ {p} : job'[q] = job[q]
  /\ UNCHANGED <<approval, approver, plan, attempts, effects, reconciled>>

LEMMA ExecuteCalls ==
  ASSUME TypeOK, NEW p \in Process, Execute(p), job[p].pc \in {"claimed", "allowed"}
  PROVE  Called(p) /\ Refreshed
<1>1. UNCHANGED <<stepStatus, taskStatus, approval, approver, plan, attempts, reconciled>>
  BY DEF Execute, taskVars, stepVars, approvalVars
<1>2. PICK out \in {"succeeded", "failed", "uncertain"}, effect \in 0..1 :
             /\ out = "succeeded" => effect = 1
             /\ out = "failed" => effect = 0
             /\ job' = [job EXCEPT ![p].pc = "done", ![p].out = out]
             /\ effects' = [effects EXCEPT ![job[p].step] = @ + effect]
  BY DEF Execute
<1>3. /\ job'[p].pc = "done" /\ job'[p].out = out /\ job'[p].step = job[p].step
      /\ \A q \in Process \ {p} : job'[q] = job[q]
  <2>1. job \in [Process -> Job] /\ job[p] \in Job
    BY DEF TypeOK
  <2> QED
    BY <1>2, <2>1 DEF Job
<1> QED
  BY <1>1, <1>2, <1>3, UnchangedCovers DEF Called, Underway

LEMMA FinishRecords ==
  ASSUME TypeOK, NEW p \in Process, Finish(p), job[p].pc \in {"refused", "done"}
  PROVE  (Calm \/ Recorded(p)) /\ Refreshed
<1>1. /\ job' = [job EXCEPT ![p] = Idle]
      /\ UNCHANGED <<approval, approver, plan, attempts, effects, reconciled>>
  BY DEF Finish, taskVars, approvalVars, history
<1>2. /\ job'[p].pc \notin Busy /\ \A q \in Process \ {p} : job'[q] = job[q]
      /\ \A q \in Process : JobStep(q)
  BY <1>1, IdleJob DEF TypeOK, JobStep
<1>3. CASE Owns(p)
  <2>1. /\ stepStatus[job[p].step] = "running"
        /\ stepStatus' = [stepStatus EXCEPT ![job[p].step] = job[p].out]
        /\ Refresh({job[p].step[1]})
    BY <1>3 DEF Finish, Owns
  <2>2. \A s \in Step : s[1] \notin {job[p].step[1]} => stepStatus'[s] = stepStatus[s]
    BY <2>1 DEF TypeOK
  <2> QED
    BY <1>1, <1>2, <2>1, <2>2, RefreshCovers DEF Recorded
<1>4. CASE ~Owns(p)
  <2>1. UNCHANGED <<stepStatus, taskStatus>>
    BY <1>4 DEF Finish
  <2> QED
    BY <1>1, <1>2, <2>1, QuietCalm
<1> QED
  BY <1>3, <1>4

\* Requests, decisions, controls, runs and the environment take no step.
LEMMA OthersCalm ==
  ASSUME TypeOK, NoOrphans, Rows, Arrival \/ Control \/ Runs \/ Environment
  PROVE  Calm /\ Refreshed
<1>1. CASE Arrival
  <2>1. PICK t \in Task, a \in Actor : \/ \E p \in Plans : Submit(t, a, p) \/ SubmitForRun(t, a, p)
                                       \/ OperatorReply(t, a)
    BY <1>1 DEF Arrival
  <2>2. \E p \in Plans, by \in Actor \union {Nobody}, run \in {"none", "waiting"} :
           Create(t, a, p, by, run)
    BY <2>1 DEF Submit, SubmitForRun, OperatorReply
  <2> QED
    BY <2>2, CreateCalm
<1>2. CASE Control
  BY <1>2, ApproveCalm, ReconcileCalm, CancelCalm, FreezeCalm, OtherCalm, ChangeDeviceCalm DEF Control
<1>3. CASE Runs
  BY <1>3, StopRunCalm, OtherCalm DEF Runs
<1>4. CASE Environment
  BY <1>4, OtherCalm, ProcessCalm DEF Environment
<1> QED
  BY <1>1, <1>2, <1>3, <1>4

\* Every transition is calm, takes one step, calls one tool or records one result.
LEMMA FourKinds ==
  ASSUME TypeOK, NoOrphans, Rows, Next
  PROVE  /\ Refreshed
         /\ \/ Calm
            \/ \E p \in Process, s \in Step : Taken(p, s)
            \/ \E p \in Process : Called(p) \/ Recorded(p)
<1>1. CASE Arrival \/ Control \/ Runs \/ Environment
  BY <1>1, OthersCalm
<1>4. ASSUME NEW p \in Process, Claim(p)
      PROVE  /\ Refreshed
             /\ Calm \/ \E s \in Step : Taken(p, s)
  BY <1>4, ClaimNothingCalm, ClaimStepTakes DEF Claim
<1>5. ASSUME NEW w \in Worker, CloudWorker(w)
      PROVE  /\ Refreshed
             /\ Calm \/ (\E s \in Step : Taken(w, s)) \/ Called(w) \/ Recorded(w)
  <2>1. w \in Process
    BY DEF Process
  <2> QED
    BY <1>4, <1>5, <2>1, ProcessCalm, ExecuteCalls, FinishRecords
    DEF CloudWorker, Handler, FinishStep
<1>6. ASSUME NEW d \in Device, Runner(d)
      PROVE  /\ Refreshed
             /\ Calm \/ (\E s \in Step : Taken(d, s)) \/ Called(d) \/ Recorded(d)
  <2>1. d \in Process
    BY DEF Process
  <2> QED
    BY <1>4, <1>6, <2>1, ProcessCalm, OtherCalm, ExecuteCalls, FinishRecords
    DEF Runner, RunnerExecute, Result
<1> QED
  BY <1>1, <1>5, <1>6 DEF Next, Process

-----------------------------------------------------------------------------
(* The inductive invariant. *)

\* A step is taken once, by one process, and acts while that process holds it.
Once ==
  /\ \A s \in Step : /\ attempts[s] \in 0..1 /\ effects[s] <= attempts[s]
                     /\ stepStatus[s] \in Untouched => attempts[s] = 0
  /\ \A p \in Process : job[p].pc \in Busy =>
       /\ attempts[job[p].step] = 1
       /\ job[p].pc \in Underway => effects[job[p].step] = 0
       /\ \A q \in Process : job[q].pc \in Busy /\ job[q].step = job[p].step => q = p

\* A step that was taken has only succeeded predecessors.
Ordered == \A r, s \in Step : Sibling(r, s) /\ r[2] < s[2] /\ attempts[s] > 0
                              => stepStatus[r] = "succeeded"

\* A gated step that was taken used its approval up.
Authorised == \A s \in Step : attempts[s] > 0 /\ Gated(s)
                              => approval[s] = "consumed" /\ approver[s] \in Actor

\* What a process is about to record is true, and nobody has recorded it before, except for the
\* steps V that somebody else settled.
TruthfulBut(V) ==
  \A p \in Process : job[p].pc \in Busy =>
    /\ job[p].step \notin V => stepStatus[job[p].step] \in {"running", "uncertain"}
    /\ job[p].pc = "refused" => job[p].out = "failed"
    /\ job[p].pc = "done" /\ job[p].out = "succeeded" => effects[job[p].step] = 1
    /\ job[p].pc = "done" /\ job[p].out = "failed" => effects[job[p].step] = 0

\* What the rows of all but the steps V say of the outside world is true.
HonestBut(V) ==
  \A s \in Step \ V :
    /\ stepStatus[s] = "succeeded" => effects[s] = 1
    /\ stepStatus[s] \in {"failed", "cancelled"} => effects[s] = 0

Truthful == TruthfulBut(reconciled)

Sound == TypeOK /\ TaskStatusFresh /\ Rows /\ Once /\ Ordered /\ Authorised /\ Truthful
         /\ HonestOutcome

LEMMA BusyStep ==
  ASSUME TypeOK, NEW p \in Process, job[p].pc \in Busy
  PROVE  job[p].step \in Step
BY DEF TypeOK

LEMMA CalmOnce ==
  ASSUME TypeOK, Rows, Once, Calm
  PROVE  Once' /\ Rows'
<1>1. \A s \in Step : stepStatus'[s] \in Untouched => stepStatus[s] \in Untouched
  BY DEF Calm, RowStep, Untouched, Undecided
<1>2. \A s \in Step : stepStatus'[s] = "none" => approval'[s] = "none"
  BY DEF Calm, RowStep, Rows, Undecided
<1>3. \A p \in Process : job'[p].pc \in Busy =>
         /\ job[p].pc \in Busy /\ job'[p].step = job[p].step
         /\ job'[p].pc \in Underway => job[p].pc \in Underway
  BY DEF Calm, JobStep, Busy, Underway
<1>4. attempts' = attempts /\ effects' = effects
  BY DEF Calm
<1> QED
  BY <1>1, <1>2, <1>3, <1>4 DEF Once, Rows

LEMMA TakenOnce ==
  ASSUME TypeOK, Rows, Once, NEW p \in Process, NEW s \in Step, Taken(p, s)
  PROVE  Once' /\ Rows'
<1>1. /\ stepStatus[s] \in Untouched /\ stepStatus'[s] = "running"
      /\ attempts' = [attempts EXCEPT ![s] = @ + 1] /\ effects' = effects
      /\ job'[p].pc = "claimed" /\ job'[p].step = s
      /\ \A q \in Process \ {p} : job'[q] = job[q]
      /\ \A r \in Step \ {s} : RowStep(r)
  BY DEF Taken, Untouched
<1>2. attempts[s] = 0 /\ effects[s] = 0 /\ attempts'[s] = 1
  BY <1>1 DEF Once, TypeOK
<1>3. \A r \in Step \ {s} : attempts'[r] = attempts[r]
  BY <1>1 DEF TypeOK
<1>4. \A r \in Step \ {s} : stepStatus'[r] \in Untouched => stepStatus[r] \in Untouched
  BY <1>1 DEF RowStep, Untouched, Undecided
<1>5. \A q \in Process : job[q].pc \in Busy => job[q].step # s
  BY <1>2 DEF Once
<1>6. Rows'
  BY <1>1 DEF RowStep, Rows, Undecided
<1>7. "running" \notin Untouched
  BY DEF Untouched, Undecided
<1>8. \A r \in Step : /\ attempts'[r] \in 0..1 /\ effects'[r] <= attempts'[r]
                      /\ stepStatus'[r] \in Untouched => attempts'[r] = 0
  BY <1>1, <1>2, <1>3, <1>4, <1>7 DEF Once
<1>9. \A q \in Process : job'[q].pc \in Busy =>
        /\ attempts'[job'[q].step] = 1
        /\ job'[q].pc \in Underway => effects'[job'[q].step] = 0
  BY <1>1, <1>2, <1>3, <1>5, BusyStep DEF Once
<1>10. \A q, o \in Process : job'[q].pc \in Busy /\ job'[o].pc \in Busy
                             /\ job'[o].step = job'[q].step => o = q
  BY <1>1, <1>5 DEF Once
<1> QED
  BY <1>6, <1>8, <1>9, <1>10 DEF Once

LEMMA CalledOnce ==
  ASSUME TypeOK, Rows, Once, NEW p \in Process, Called(p)
  PROVE  Once' /\ Rows'
<1>1. PICK out \in {"succeeded", "failed", "uncertain"}, effect \in 0..1 :
             /\ job'[p].pc = "done" /\ job'[p].out = out /\ job'[p].step = job[p].step
             /\ effects' = [effects EXCEPT ![job[p].step] = @ + effect]
  BY DEF Called
<1>2. /\ job[p].pc \in Busy /\ job[p].pc \in Underway
      /\ \A q \in Process \ {p} : job'[q] = job[q]
      /\ UNCHANGED <<stepStatus, approval, attempts>>
  BY DEF Called, Underway, Busy
<1>3. job[p].step \in Step /\ attempts[job[p].step] = 1 /\ effects[job[p].step] = 0
  BY <1>2, BusyStep DEF Once
<1>4. effects'[job[p].step] \in 0..1 /\ \A r \in Step \ {job[p].step} : effects'[r] = effects[r]
  BY <1>1, <1>3 DEF TypeOK
<1>5. \A q \in Process \ {p} : job[q].pc \in Busy => job[q].step # job[p].step
  BY <1>2 DEF Once
<1>6. \A r \in Step : /\ attempts'[r] \in 0..1 /\ effects'[r] <= attempts'[r]
                      /\ stepStatus'[r] \in Untouched => attempts'[r] = 0
  BY <1>2, <1>3, <1>4 DEF Once
<1>7. \A q \in Process : job'[q].pc \in Busy =>
        /\ attempts'[job'[q].step] = 1
        /\ job'[q].pc \in Underway => effects'[job'[q].step] = 0
  <2>1. "done" \notin Underway
    BY DEF Underway
  <2> QED
    BY <1>1, <1>2, <1>3, <1>4, <1>5, <2>1, BusyStep DEF Once
<1>8. \A q, o \in Process : job'[q].pc \in Busy /\ job'[o].pc \in Busy
                             /\ job'[o].step = job'[q].step => o = q
  BY <1>1, <1>2, <1>5 DEF Once
<1>9. Rows'
  BY <1>2 DEF Rows
<1> QED
  BY <1>6, <1>7, <1>8, <1>9 DEF Once

LEMMA RecordedOnce ==
  ASSUME TypeOK, Rows, Once, NEW p \in Process, Recorded(p)
  PROVE  Once' /\ Rows'
<1>1. /\ job[p].pc \in Busy /\ job'[p].pc \notin Busy
      /\ stepStatus[job[p].step] = "running"
      /\ stepStatus' = [stepStatus EXCEPT ![job[p].step] = job[p].out]
      /\ \A q \in Process \ {p} : job'[q] = job[q]
      /\ UNCHANGED <<approval, attempts, effects>>
  BY DEF Recorded, Busy
<1>2. job[p].step \in Step /\ job[p].out \in {"succeeded", "failed", "uncertain"}
  BY <1>1, BusyStep DEF TypeOK, Job, Recorded
<1>3. /\ stepStatus'[job[p].step] = job[p].out
      /\ \A r \in Step \ {job[p].step} : stepStatus'[r] = stepStatus[r]
  BY <1>1, <1>2 DEF TypeOK
<1>4. \A r \in Step : stepStatus'[r] \in Untouched => stepStatus[r] \in Untouched
  BY <1>2, <1>3 DEF Untouched, Undecided
<1>5. Rows'
  BY <1>1, <1>2, <1>3 DEF Rows
<1>6. \A q \in Process : job'[q].pc \in Busy => job'[q] = job[q]
  BY <1>1
<1> QED
  BY <1>1, <1>4, <1>5, <1>6 DEF Once

-----------------------------------------------------------------------------
(* Finality, order and authority. *)

\* What one transition may do to an outcome, to doubt and to a decided approval.
FinalStep ==
  \A s \in Step :
    /\ stepStatus[s] \in Terminal => stepStatus'[s] = stepStatus[s]
    /\ stepStatus[s] = "uncertain" /\ stepStatus'[s] # "uncertain" => s \in reconciled'
    /\ approval[s] \in {"rejected", "consumed"} => approval'[s] = approval[s]
    /\ approval[s] = "consumed" => approver'[s] = approver[s]

AnyKind == \/ Calm
           \/ \E p \in Process, s \in Step : Taken(p, s)
           \/ \E p \in Process : Called(p) \/ Recorded(p)

LEMMA KindsFinal ==
  ASSUME TypeOK, AnyKind
  PROVE  FinalStep
<1>1. ASSUME NEW s \in Step, RowStep(s)
      PROVE  /\ stepStatus[s] \in Terminal => stepStatus'[s] = stepStatus[s]
             /\ stepStatus[s] = "uncertain" /\ stepStatus'[s] # "uncertain" => s \in reconciled'
             /\ approval[s] \in {"rejected", "consumed"} => approval'[s] = approval[s]
             /\ approval[s] = "consumed" => approver'[s] = approver[s]
  BY <1>1 DEF RowStep, Terminal, Undecided
<1>2. CASE Calm
  BY <1>1, <1>2 DEF Calm, FinalStep
<1>3. ASSUME NEW p \in Process, NEW s \in Step, Taken(p, s) PROVE FinalStep
  <2>1. /\ stepStatus[s] \in Undecided /\ approver'[s] = approver[s]
        /\ \/ approval[s] = "approved" \/ approval'[s] = approval[s]
        /\ \A r \in Step \ {s} : RowStep(r)
    BY <1>3 DEF Taken
  <2> QED
    BY <1>1, <2>1 DEF FinalStep, Terminal, Undecided
<1>4. ASSUME NEW p \in Process, Called(p) PROVE FinalStep
  BY <1>4 DEF Called, FinalStep
<1>5. ASSUME NEW p \in Process, Recorded(p) PROVE FinalStep
  BY <1>5 DEF Recorded, FinalStep, Terminal, TypeOK
<1> QED
  BY <1>2, <1>3, <1>4, <1>5 DEF AnyKind

\* Attempts grow at a claim alone.
LEMMA AttemptsGrow ==
  ASSUME TypeOK, Once, AnyKind, NEW s \in Step, attempts'[s] > 0
  PROVE  attempts[s] > 0 \/ \E p \in Process : Taken(p, s)
<1>1. ASSUME NEW p \in Process, NEW r \in Step, Taken(p, r), r # s PROVE attempts[s] > 0
  BY <1>1 DEF Taken, TypeOK
<1> QED
  BY <1>1 DEF AnyKind, Calm, Called, Recorded

LEMMA OrderedStep ==
  ASSUME TypeOK, Once, Ordered, AnyKind
  PROVE  Ordered'
<1> SUFFICES ASSUME NEW r \in Step, NEW s \in Step, Sibling(r, s), r[2] < s[2], attempts'[s] > 0
             PROVE  stepStatus'[r] = "succeeded"
  BY DEF Ordered, Sibling
<1>1. stepStatus[r] = "succeeded"
  BY AttemptsGrow DEF Ordered, Taken
<1> QED
  BY <1>1, KindsFinal DEF FinalStep, Terminal

\* The plan of a step that has a row does not change.
LEMMA PlanKept ==
  ASSUME TypeOK, Once, AnyKind, NEW s \in Step, stepStatus[s] # "none"
  PROVE  plan'[s[1]] = plan[s[1]]
BY DEF AnyKind, Calm, RowStep, Taken, Called, Recorded

LEMMA AuthorisedStep ==
  ASSUME TypeOK, Once, Authorised, AnyKind
  PROVE  Authorised'
<1> SUFFICES ASSUME NEW s \in Step, attempts'[s] > 0, Gated(s)'
             PROVE  approval'[s] = "consumed" /\ approver'[s] \in Actor
  BY DEF Authorised
<1>1. stepStatus[s] # "none"
  <2>1. CASE attempts[s] > 0
    BY <2>1 DEF Once, Untouched
  <2>2. CASE \E p \in Process : Taken(p, s)
    BY <2>2 DEF Taken, Undecided
  <2> QED
    BY <2>1, <2>2, AttemptsGrow
<1>2. Gated(s)
  BY <1>1, PlanKept DEF Gated, Kind
<1>3. CASE attempts[s] > 0
  BY <1>2, <1>3, KindsFinal DEF Authorised, FinalStep
<1>4. CASE \E p \in Process : Taken(p, s)
  BY <1>2, <1>4 DEF Taken
<1> QED
  BY <1>3, <1>4, AttemptsGrow

-----------------------------------------------------------------------------
(* Honesty. *)

\* A row under a claim stays in play until its holder or an owner settles it.
LEMMA RowInPlay ==
  ASSUME NEW s \in Step, RowStep(s), stepStatus[s] \in {"running", "uncertain"}, s \notin reconciled'
  PROVE  stepStatus'[s] \in {"running", "uncertain"}
BY DEF RowStep, Undecided

LEMMA CalmTruth ==
  ASSUME TypeOK, Once, NEW V, TruthfulBut(reconciled \union V),
         HonestBut(reconciled \union V), Calm
  PROVE  TruthfulBut(reconciled \union V)' /\ HonestBut(reconciled \union V)'
<1>1. effects' = effects /\ reconciled \subseteq reconciled'
  BY DEF Calm
<1>2. TruthfulBut(reconciled \union V)'
  <2> SUFFICES ASSUME NEW p \in Process, job'[p].pc \in Busy
               PROVE  /\ job'[p].step \notin reconciled' \union V
                           => stepStatus'[job'[p].step] \in {"running", "uncertain"}
                      /\ job'[p].pc = "refused" => job'[p].out = "failed"
                      /\ job'[p].pc = "done" /\ job'[p].out = "succeeded" => effects'[job'[p].step] = 1
                      /\ job'[p].pc = "done" /\ job'[p].out = "failed" => effects'[job'[p].step] = 0
    BY DEF TruthfulBut
  <2>1. /\ job[p].pc \in Busy /\ job'[p].step = job[p].step
        /\ \/ job'[p] = job[p]
           \/ job'[p].pc = "allowed"
           \/ job'[p].pc = "refused" /\ job'[p].out = "failed"
    BY DEF Calm, JobStep, Busy
  <2>2. job[p].step \in Step /\ RowStep(job[p].step)
    BY <2>1, BusyStep DEF Calm
  <2>3. job'[p].step \notin reconciled' \union V => stepStatus'[job'[p].step] \in {"running", "uncertain"}
    BY <1>1, <2>1, <2>2, RowInPlay DEF TruthfulBut
  <2> QED
    BY <1>1, <2>1, <2>3 DEF TruthfulBut
<1>3. HonestBut(reconciled \union V)'
  <2> SUFFICES ASSUME NEW s \in Step, s \notin reconciled' \union V
               PROVE  /\ stepStatus'[s] = "succeeded" => effects'[s] = 1
                      /\ stepStatus'[s] \in {"failed", "cancelled"} => effects'[s] = 0
    BY DEF HonestBut
  <2>1. RowStep(s) /\ s \notin reconciled \union V
    BY <1>1 DEF Calm
  <2>2. stepStatus[s] \in Undecided => effects[s] = 0
    BY DEF Once, Untouched, TypeOK
  <2> QED
    BY <1>1, <2>1, <2>2 DEF RowStep, HonestBut
<1> QED
  BY <1>2, <1>3

LEMMA TakenTruth ==
  ASSUME TypeOK, Once, NEW V, TruthfulBut(reconciled \union V),
         HonestBut(reconciled \union V), NEW p \in Process, NEW s \in Step, Taken(p, s)
  PROVE  TruthfulBut(reconciled \union V)' /\ HonestBut(reconciled \union V)'
<1>1. /\ stepStatus[s] \in Undecided /\ stepStatus'[s] = "running"
      /\ effects' = effects /\ reconciled' = reconciled
      /\ job'[p].pc = "claimed" /\ job'[p].step = s
      /\ \A q \in Process \ {p} : job'[q] = job[q]
      /\ \A r \in Step \ {s} : RowStep(r)
  BY DEF Taken
<1>2. \A q \in Process : job[q].pc \in Busy => job[q].step # s
  BY <1>1 DEF Once, Untouched
<1>3. TruthfulBut(reconciled \union V)'
  <2> SUFFICES ASSUME NEW q \in Process, job'[q].pc \in Busy
               PROVE  /\ job'[q].step \notin reconciled' \union V
                           => stepStatus'[job'[q].step] \in {"running", "uncertain"}
                      /\ job'[q].pc = "refused" => job'[q].out = "failed"
                      /\ job'[q].pc = "done" /\ job'[q].out = "succeeded" => effects'[job'[q].step] = 1
                      /\ job'[q].pc = "done" /\ job'[q].out = "failed" => effects'[job'[q].step] = 0
    BY DEF TruthfulBut
  <2>1. CASE q = p
    BY <1>1, <2>1
  <2>2. CASE q # p
    <3>1. job'[q] = job[q] /\ job[q].step \in Step \ {s}
      BY <1>1, <1>2, <2>2, BusyStep
    <3>2. job[q].step \notin reconciled' \union V => stepStatus'[job[q].step] \in {"running", "uncertain"}
      BY <1>1, <3>1, RowInPlay DEF TruthfulBut
    <3> QED
      BY <1>1, <3>1, <3>2 DEF TruthfulBut
  <2> QED
    BY <2>1, <2>2
<1>4. HonestBut(reconciled \union V)'
  <2> SUFFICES ASSUME NEW r \in Step, r \notin reconciled' \union V
               PROVE  /\ stepStatus'[r] = "succeeded" => effects'[r] = 1
                      /\ stepStatus'[r] \in {"failed", "cancelled"} => effects'[r] = 0
    BY DEF HonestBut
  <2>1. stepStatus[r] \in Undecided => effects[r] = 0
    BY DEF Once, Untouched, TypeOK
  <2> QED
    BY <1>1, <2>1 DEF RowStep, HonestBut
<1> QED
  BY <1>3, <1>4

LEMMA CalledTruth ==
  ASSUME TypeOK, Once, NEW V, TruthfulBut(reconciled \union V),
         HonestBut(reconciled \union V), NEW p \in Process, Called(p)
  PROVE  TruthfulBut(reconciled \union V)' /\ HonestBut(reconciled \union V)'
<1>1. PICK out \in {"succeeded", "failed", "uncertain"}, effect \in 0..1 :
             /\ out = "succeeded" => effect = 1
             /\ out = "failed" => effect = 0
             /\ job'[p].pc = "done" /\ job'[p].out = out /\ job'[p].step = job[p].step
             /\ effects' = [effects EXCEPT ![job[p].step] = @ + effect]
  BY DEF Called
<1>2. /\ job[p].pc \in Busy /\ job[p].pc \in Underway
      /\ \A q \in Process \ {p} : job'[q] = job[q]
      /\ UNCHANGED <<stepStatus, reconciled>>
  BY DEF Called, Underway, Busy
<1>3. job[p].step \in Step /\ effects[job[p].step] = 0
  BY <1>2, BusyStep DEF Once
<1>4. /\ effects'[job[p].step] = effect
      /\ \A r \in Step \ {job[p].step} : effects'[r] = effects[r]
  BY <1>1, <1>3 DEF TypeOK
<1>5. \A q \in Process \ {p} : job[q].pc \in Busy => job[q].step \in Step \ {job[p].step}
  BY <1>2, BusyStep DEF Once
<1>6. TruthfulBut(reconciled \union V)'
  BY <1>1, <1>2, <1>4, <1>5 DEF TruthfulBut
<1>7. HonestBut(reconciled \union V)'
  BY <1>2, <1>4 DEF TruthfulBut, HonestBut
<1> QED
  BY <1>6, <1>7

LEMMA RecordedTruth ==
  ASSUME TypeOK, Once, NEW V, TruthfulBut(reconciled \union V),
         HonestBut(reconciled \union V), NEW p \in Process, Recorded(p)
  PROVE  TruthfulBut(reconciled \union V)' /\ HonestBut(reconciled \union V)'
<1>1. /\ job[p].pc \in {"refused", "done"} /\ job[p].pc \in Busy /\ job'[p].pc \notin Busy
      /\ stepStatus' = [stepStatus EXCEPT ![job[p].step] = job[p].out]
      /\ \A q \in Process \ {p} : job'[q] = job[q]
      /\ UNCHANGED <<effects, reconciled>>
  BY DEF Recorded, Busy
<1>2. job[p].step \in Step /\ job[p].out \in {"succeeded", "failed", "uncertain"}
  BY <1>1, BusyStep DEF TypeOK, Job
<1>3. /\ stepStatus'[job[p].step] = job[p].out
      /\ \A r \in Step \ {job[p].step} : stepStatus'[r] = stepStatus[r]
  BY <1>1, <1>2 DEF TypeOK
<1>4. /\ job[p].out = "succeeded" => effects[job[p].step] = 1
      /\ job[p].out = "failed" => effects[job[p].step] = 0
  BY <1>1 DEF TruthfulBut, Once, Underway
<1>5. \A q \in Process \ {p} : job[q].pc \in Busy => job[q].step \in Step \ {job[p].step}
  BY <1>1, BusyStep DEF Once
<1>6. TruthfulBut(reconciled \union V)'
  BY <1>1, <1>3, <1>5 DEF TruthfulBut
<1>7. HonestBut(reconciled \union V)'
  BY <1>1, <1>2, <1>3, <1>4 DEF HonestBut
<1> QED
  BY <1>6, <1>7

-----------------------------------------------------------------------------
\* Beside the engine alone, an owner's reconciliation is the only excuse.
LEMMA EngineTruth ==
  /\ Truthful /\ HonestOutcome <=> TruthfulBut(reconciled \union {}) /\ HonestBut(reconciled \union {})
  /\ (Truthful /\ HonestOutcome)' <=> (TruthfulBut(reconciled \union {}) /\ HonestBut(reconciled \union {}))'
BY DEF Truthful, TruthfulBut, HonestOutcome, HonestBut

-----------------------------------------------------------------------------
(* The theorems. *)

LEMMA SoundInit == Init => Sound
<1> SUFFICES ASSUME Init PROVE Sound
  OBVIOUS
<1>1. \A p \in Process : job[p].pc \notin Busy
  BY IdleJob DEF Init
<1>2. TaskStatusFresh
  <2> SUFFICES ASSUME NEW t \in Task PROVE taskStatus[t] = Derived(stepStatus, t)
    BY DEF TaskStatusFresh
  <2>1. {stepStatus[s] : s \in {r \in Step : r[1] = t}} \ {"none"} = {}
    BY DEF Init
  <2> QED
    BY <2>1 DEF Derived, Init
<1>3. Rows /\ Ordered /\ Authorised /\ HonestOutcome
  BY DEF Init, Rows, Ordered, Authorised, HonestOutcome
<1>4. Once /\ Truthful
  BY <1>1 DEF Init, Once, Truthful, TruthfulBut
<1> QED
  BY <1>2, <1>3, <1>4, TypeInit DEF Sound

LEMMA SoundStep == Sound /\ [Next]_vars => Sound'
<1> SUFFICES ASSUME Sound, [Next]_vars PROVE Sound'
  OBVIOUS
<1>1. TypeOK'
  BY TypeStep DEF Sound
<1>2. AnyKind /\ TaskStatusFresh'
  <2>1. CASE Next
    BY <2>1, FourKinds, FreshNoOrphans, RefreshedFresh DEF Sound, AnyKind
  <2>2. CASE UNCHANGED vars
    <3>1. UNCHANGED <<stepStatus, taskStatus, approval, approver, plan, attempts, effects, reconciled,
                      job>>
      BY <2>2 DEF vars, taskVars, stepVars, approvalVars, history
    <3> QED
      BY <3>1, QuietCalm, RefreshedFresh DEF Sound, AnyKind, JobStep
  <2> QED
    BY <2>1, <2>2
<1>3. Once' /\ Rows'
  BY <1>2, CalmOnce, TakenOnce, CalledOnce, RecordedOnce DEF Sound, AnyKind
<1>4. Ordered' /\ Authorised'
  BY <1>2, OrderedStep, AuthorisedStep DEF Sound
<1>5. Truthful' /\ HonestOutcome'
  <2>1. TruthfulBut(reconciled \union {}) /\ HonestBut(reconciled \union {})
    BY EngineTruth DEF Sound
  <2>2. TruthfulBut(reconciled \union {})' /\ HonestBut(reconciled \union {})'
    BY <1>2, <2>1, CalmTruth, TakenTruth, CalledTruth, RecordedTruth DEF Sound, AnyKind
  <2> QED
    BY <2>2, EngineTruth
<1> QED
  BY <1>1, <1>2, <1>3, <1>4, <1>5 DEF Sound

LEMMA SoundAlways == Spec => []Sound
BY SoundInit, SoundStep, PTL DEF Spec

\* No crash, expired lease, freeze or reconciliation lets a step act twice.
THEOREM ActsAtMostOnce == Spec => []AtMostOneEffect
<1>1. Sound => AtMostOneEffect
  <2> SUFFICES ASSUME Sound, NEW s \in Step PROVE effects[s] <= 1
    BY DEF AtMostOneEffect
  <2>1. attempts[s] \in 0..1 /\ effects[s] <= attempts[s]
    BY DEF Sound, Once
  <2>2. effects[s] \in Nat
    BY DEF Sound, TypeOK
  <2> QED
    BY <2>1, <2>2
<1> QED
  BY <1>1, SoundAlways, PTL

\* No gated step acts on anything but an approval a person gave to it and that
\* its dispatch used up (_validated, approve, claim).
THEOREM ActsWithApproval == Spec => []ApprovedBeforeEffect
<1>1. Sound => ApprovedBeforeEffect
  BY DEF Sound, Once, Authorised, ApprovedBeforeEffect, TypeOK
<1> QED
  BY <1>1, SoundAlways, PTL

\* A step acts only after all earlier steps of its plan are recorded as succeeded,
\* and they stay so (the claim query).
THEOREM ActsInOrder == Spec => []InOrder
<1>1. Sound => InOrder
  BY DEF Sound, Once, Ordered, InOrder, TypeOK
<1> QED
  BY <1>1, SoundAlways, PTL

\* Outside an owner's reconciliation, what a step row says of the outside world is true.
THEOREM RowsAreHonest == Spec => []HonestOutcome
BY SoundAlways, PTL DEF Sound

\* Every writer of p_steps leaves p_tasks in agreement with it.
THEOREM TaskRowsAreFresh == Spec => []TaskStatusFresh
BY SoundAlways, PTL DEF Sound

\* Outcomes and decisions are final; only a reconciliation resolves doubt.
THEOREM OutcomesStay == Spec => OutcomesAreFinal
<1>1. Sound /\ [Next]_vars =>
        [\A s \in Step :
           /\ stepStatus[s] \in {"succeeded", "failed", "cancelled"} => stepStatus'[s] = stepStatus[s]
           /\ stepStatus[s] = "uncertain" /\ stepStatus'[s] # "uncertain" => s \in reconciled'
           /\ approval[s] \in {"rejected", "consumed"} => approval'[s] = approval[s]]_vars
  <2> SUFFICES ASSUME Sound, Next
               PROVE  \A s \in Step :
           /\ stepStatus[s] \in {"succeeded", "failed", "cancelled"} => stepStatus'[s] = stepStatus[s]
           /\ stepStatus[s] = "uncertain" /\ stepStatus'[s] # "uncertain" => s \in reconciled'
           /\ approval[s] \in {"rejected", "consumed"} => approval'[s] = approval[s]
    OBVIOUS
  <2>1. AnyKind
    BY FourKinds, FreshNoOrphans DEF Sound, AnyKind
  <2> QED
    BY <2>1, KindsFinal DEF Sound, FinalStep, Terminal
<1> QED
  BY <1>1, SoundAlways, PTL DEF Spec, OutcomesAreFinal
-----------------------------------------------------------------------------
(* The kill switch and revocation. *)

\* Only a claim makes a step run.
LEMMA NothingStarts ==
  ASSUME Sound, Calm \/ \E p \in Process : Called(p) \/ Recorded(p),
         NEW s \in Step, stepStatus'[s] = "running"
  PROVE  stepStatus[s] = "running" /\ plan'[s[1]] = plan[s[1]]
<1>1. CASE Calm
  BY <1>1 DEF Calm, RowStep, Undecided
<1>2. ASSUME NEW p \in Process, Called(p) PROVE stepStatus[s] = "running" /\ plan'[s[1]] = plan[s[1]]
  BY <1>2 DEF Called
<1>3. ASSUME NEW p \in Process, Recorded(p) PROVE stepStatus[s] = "running" /\ plan'[s[1]] = plan[s[1]]
  <2>1. job[p].out \in {"none", "succeeded", "failed", "uncertain"} /\ job[p].step \in Step
    BY <1>3 DEF Sound, TypeOK, Job, Recorded, Busy
  <2> QED
    BY <1>3, <2>1 DEF Recorded, Sound, TypeOK
<1> QED
  BY <1>1, <1>2, <1>3

\* A step that starts nothing, and stops at most the tenant's freeze, leaves stopped what is.
LEMMA StaysStopped ==
  ASSUME Sound, StoppedMeansStopped, Calm \/ \E p \in Process : Called(p) \/ Recorded(p),
         frozen' => frozen, device' = device
  PROVE  StoppedMeansStopped'
<1> SUFFICES ASSUME NEW s \in Step, stepStatus'[s] = "running"
             PROVE  ~frozen' /\ \A d \in Device : Kind(s)'.place = d => device'[d] = "enrolled"
  BY DEF StoppedMeansStopped
<1>1. stepStatus[s] = "running" /\ Kind(s)' = Kind(s)
  BY NothingStarts DEF Kind
<1> QED
  BY <1>1 DEF StoppedMeansStopped

LEMMA FreezeStops ==
  ASSUME Sound, NEW a \in Actor, Freeze(a)
  PROVE  StoppedMeansStopped'
<1>1. Retire({s \in Step : stepStatus[s] = "running"})
  BY DEF Freeze
<1>2. \A s \in Step : stepStatus'[s] # "running"
  BY <1>1 DEF Retire
<1> QED
  BY <1>2 DEF StoppedMeansStopped

LEMMA DeviceStops ==
  ASSUME Sound, StoppedMeansStopped, NEW d \in Device, NEW a \in Actor, NEW x, ChangeDevice(d, a, x)
  PROVE  StoppedMeansStopped'
<1> SUFFICES ASSUME NEW s \in Step, stepStatus'[s] = "running"
             PROVE  ~frozen' /\ \A e \in Device : Kind(s)'.place = e => device'[e] = "enrolled"
  BY DEF StoppedMeansStopped
<1>1. /\ Retire({r \in Step : stepStatus[r] \in Open /\ Kind(r).place = d})
      /\ device' = [device EXCEPT ![d] = x] /\ frozen' = frozen /\ plan' = plan
  BY DEF ChangeDevice, taskVars
<1>2. stepStatus[s] = "running" /\ Kind(s).place # d
  BY <1>1 DEF Retire, Open
<1>3. Kind(s)' = Kind(s)
  BY <1>1 DEF Kind
<1>4. \A e \in Device \ {d} : device'[e] = device[e]
  BY <1>1 DEF Sound, TypeOK
<1> QED
  BY <1>1, <1>2, <1>3, <1>4 DEF StoppedMeansStopped

LEMMA ClaimStopped ==
  ASSUME Sound, StoppedMeansStopped, NEW p \in Process, NEW r \in Step, ClaimStep(p, r)
  PROVE  StoppedMeansStopped'
<1> SUFFICES ASSUME NEW s \in Step, stepStatus'[s] = "running"
             PROVE  ~frozen' /\ \A d \in Device : Kind(s)'.place = d => device'[d] = "enrolled"
  BY DEF StoppedMeansStopped
<1>1. Taken(p, r)
  BY ClaimStepTakes DEF Sound
<1>2. /\ ~frozen /\ (p \in Device => device[p] = "enrolled") /\ r \in Candidates(PlaceOf(p))
      /\ UNCHANGED <<frozen, device, plan>>
  BY DEF ClaimStep, Active, Thawed, Record, taskVars, controlVars
<1>3. Kind(s)' = Kind(s)
  BY <1>2 DEF Kind
<1>4. CASE s = r
  <2>1. Kind(r).place = PlaceOf(p)
    BY <1>2 DEF Candidates
  <2>2. \A d \in Device : PlaceOf(p) = d => p = d
    BY EngineAssumption DEF PlaceOf
  <2> QED
    BY <1>2, <1>3, <1>4, <2>1, <2>2
<1>5. CASE s # r
  <2>1. stepStatus[s] = "running"
    BY <1>1, <1>5 DEF Taken, RowStep, Undecided
  <2> QED
    BY <1>2, <1>3, <2>1 DEF StoppedMeansStopped
<1> QED
  BY <1>4, <1>5

\* After a freeze no step runs for the tenant, and after a revocation none for the device: for any
\* number of workers, runners and tasks, and claims that race with the control.
THEOREM StopsAreStops == Spec => []StoppedMeansStopped
<1>1. Init => StoppedMeansStopped
  BY DEF Init, StoppedMeansStopped
<1>2. ASSUME Sound, StoppedMeansStopped, [Next]_vars PROVE StoppedMeansStopped'
  <2> USE <1>2
  <2>0. TypeOK /\ NoOrphans /\ Rows
    BY FreshNoOrphans DEF Sound
  <2>1. CASE UNCHANGED vars
    <3>1. UNCHANGED <<stepStatus, plan, frozen, device>>
      BY <2>1 DEF vars, taskVars, stepVars, controlVars
    <3> QED
      BY <3>1 DEF StoppedMeansStopped, Kind
  <2>2. CASE Arrival
    <3>1. PICK t \in Task, a \in Actor, p \in Plans, by \in Actor \union {Nobody}, run \in {"none", "waiting"} :
                 Create(t, a, p, by, run)
      BY <2>2 DEF Arrival, Submit, SubmitForRun, OperatorReply
    <3>2. Calm
      BY <2>0, <3>1, CreateCalm
    <3>3. UNCHANGED <<frozen, device>>
      BY <3>1 DEF Create, controlVars
    <3> QED
      BY <3>2, <3>3, StaysStopped
  <2>3. CASE Control
    <3>1. ASSUME NEW a \in Actor, NEW s \in Step, NEW d \in {"approved", "rejected"}, Approve(s, a, d)
          PROVE  StoppedMeansStopped'
      BY <2>0, <3>1, ApproveCalm, StaysStopped DEF Approve, controlVars
    <3>2. ASSUME NEW a \in Actor, NEW s \in Step, NEW o \in {"succeeded", "failed"}, Reconcile(s, a, o)
          PROVE  StoppedMeansStopped'
      BY <2>0, <3>2, ReconcileCalm, StaysStopped DEF Reconcile, controlVars
    <3>3. ASSUME NEW a \in Actor, NEW t \in Task, Cancel(t, a) PROVE StoppedMeansStopped'
      BY <2>0, <3>3, CancelCalm, StaysStopped DEF Cancel, controlVars
    <3>4. ASSUME NEW a \in Actor, Resume(a) PROVE StoppedMeansStopped'
      BY <2>0, <3>4, OtherCalm, StaysStopped DEF Resume
    <3> QED
      BY <2>3, <3>1, <3>2, <3>3, <3>4, FreezeStops, DeviceStops DEF Control
  <2>4. CASE Runs
    <3>1. PICK t \in Task : RunDeadline(t) \/ StopRun(t) \/ RunAdvances(t)
      BY <2>4 DEF Runs
    <3>2. UNCHANGED <<frozen, device>>
      BY <3>1 DEF RunDeadline, StopRun, RunAdvances, controlVars
    <3>3. Calm
      BY <2>0, <3>1, StopRunCalm, OtherCalm
    <3> QED
      BY <3>2, <3>3, StaysStopped
  <2>5. ASSUME NEW p \in Process, Claim(p) PROVE StoppedMeansStopped'
    <3>1. ASSUME ClaimNothing(p) PROVE StoppedMeansStopped'
      <4>1. Calm
        BY <2>0, <3>1, ClaimNothingCalm
      <4>2. UNCHANGED <<frozen, device>>
        BY <3>1 DEF ClaimNothing, Record, controlVars
      <4> QED
        BY <4>1, <4>2, StaysStopped
    <3> QED
      BY <2>5, <3>1, ClaimStopped DEF Claim
  <2>6. ASSUME NEW p \in Process, Fence(p) \/ Crash(p) \/ (Execute(p) /\ job[p].pc \in {"claimed", "allowed"})
                                  \/ (Finish(p) /\ job[p].pc \in {"refused", "done"})
        PROVE  StoppedMeansStopped'
    <3>1. UNCHANGED <<frozen, device>>
      BY <2>6 DEF Fence, Crash, Execute, Finish, controlVars
    <3>2. Calm \/ Called(p) \/ Recorded(p)
      BY <2>0, <2>6, ProcessCalm, ExecuteCalls, FinishRecords
    <3> QED
      BY <3>1, <3>2, StaysStopped
  <2>7. ASSUME NEW d \in Device, Connect(d) \/ Heartbeat(d) PROVE StoppedMeansStopped'
    <3>1. UNCHANGED <<frozen, device>>
      BY <2>7 DEF Connect, Heartbeat, controlVars
    <3>2. CASE Connect(d)
      BY <2>0, <3>1, <3>2, OtherCalm, StaysStopped
    <3>3. CASE Heartbeat(d)
      <4>1. d \in Process
        BY DEF Process
      <4>2. Calm
        BY <2>0, <3>3, <4>1, ProcessCalm
      <4> QED
        BY <3>1, <4>2, StaysStopped
    <3> QED
      BY <2>7, <3>2, <3>3
  <2>8. CASE Tick \/ ChangeWorkspace \/ (\E a \in Actor, r \in Role : ChangeRole(a, r)) \/ (\E p \in Policy : EditPolicy(p))
    <3>1. UNCHANGED <<frozen, device>>
      BY <2>8 DEF Tick, ChangeWorkspace, ChangeRole, EditPolicy, Change, controlVars
    <3>2. Calm
      BY <2>0, <2>8, OtherCalm
    <3> QED
      BY <3>1, <3>2, StaysStopped
  <2>9. \A p : (p \in Worker \/ p \in Device) => p \in Process
    BY DEF Process
  <2> QED
    BY <2>1, <2>2, <2>3, <2>4, <2>5, <2>6, <2>7, <2>8, <2>9
    DEF Next, CloudWorker, Runner, Environment, Handler, FinishStep, RunnerExecute, Result
<1> QED
  BY <1>1, <1>2, SoundAlways, PTL DEF Spec
=============================================================================
