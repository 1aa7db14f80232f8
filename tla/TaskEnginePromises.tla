--------------------------- MODULE TaskEnginePromises ---------------------------
(***************************************************************************)
(* What the engine promises its callers, for every value of the constants:  *)
(* that it implements the step ledger, and what a person's decision is      *)
(* worth - that a step waiting for one can get it, and that a creator's own *)
(* does not count where the policy asks for another's.                      *)
(***************************************************************************)
EXTENDS TaskEngineSafety, TaskEngineLedger

\* Only Reconcile touches the set of steps a person vouched for.
LEMMA OnlyReconcileVouches ==
  ASSUME [Next]_vars
  PROVE  \/ reconciled' = reconciled
         \/ \E s \in Step, a \in Actor, o \in {"succeeded", "failed"} : Reconcile(s, a, o)
<1>1. CASE UNCHANGED vars
  BY <1>1 DEF vars, history
<1>2. ASSUME NEW t, NEW a, NEW p, NEW by, NEW run, Create(t, a, p, by, run)
      PROVE  reconciled' = reconciled
  BY <1>2 DEF Create, history
<1>3. CASE Arrival
  BY <1>2, <1>3 DEF Arrival, Submit, SubmitForRun, OperatorReply
<1>4. ASSUME NEW a \in Actor, NEW s \in Step, NEW d, Approve(s, a, d) PROVE reconciled' = reconciled
  BY <1>4 DEF Approve, history
<1>5. ASSUME NEW a \in Actor, NEW t \in Task, Cancel(t, a) PROVE reconciled' = reconciled
  BY <1>5 DEF Cancel, history
<1>6. ASSUME NEW a \in Actor, Freeze(a) \/ Resume(a) PROVE reconciled' = reconciled
  BY <1>6 DEF Freeze, Resume, history
<1>7. ASSUME NEW a \in Actor, NEW d \in Device, NEW x, ChangeDevice(d, a, x) PROVE reconciled' = reconciled
  BY <1>7 DEF ChangeDevice, history
<1>8. CASE Control
  BY <1>4, <1>5, <1>6, <1>7, <1>8 DEF Control
<1>9. ASSUME NEW t \in Task, RunDeadline(t) \/ StopRun(t) \/ RunAdvances(t) PROVE reconciled' = reconciled
  BY <1>9 DEF RunDeadline, StopRun, RunAdvances, history
<1>10. ASSUME NEW p, Claim(p) PROVE reconciled' = reconciled
  BY <1>10 DEF Claim, ClaimNothing, ClaimStep, Record, history
<1>11. ASSUME NEW p, Fence(p) \/ Execute(p) \/ Finish(p) \/ Crash(p) PROVE reconciled' = reconciled
  BY <1>11 DEF Fence, Execute, Finish, Crash, history
<1>12. ASSUME NEW d \in Device, Connect(d) \/ Heartbeat(d) PROVE reconciled' = reconciled
  BY <1>12 DEF Connect, Heartbeat, history
<1>13. CASE \E w \in Worker : CloudWorker(w)
  BY <1>10, <1>11, <1>13 DEF CloudWorker, Handler, FinishStep
<1>14. CASE \E d \in Device : Runner(d)
  BY <1>10, <1>11, <1>12, <1>14 DEF Runner, RunnerExecute, Result
<1>15. CASE Environment
  <2>1. CASE Tick \/ ChangeWorkspace \/ (\E a \in Actor, r \in Role : ChangeRole(a, r))
             \/ (\E p \in Policy : EditPolicy(p))
    BY <2>1 DEF Tick, ChangeWorkspace, ChangeRole, EditPolicy, Change, history
  <2> QED
    BY <1>11, <1>15, <2>1 DEF Environment
<1> QED
  BY <1>1, <1>3, <1>8, <1>9, <1>13, <1>14, <1>15 DEF Next, Runs

\* An owner vouches for doubt alone, so what he vouched for is an outcome for good.
VouchedIsSettled == \A s \in reconciled : stepStatus[s] \in Terminal

\* A step may become vouched for only out of doubt, and with an outcome.
VouchesForDoubt ==
  /\ reconciled \subseteq reconciled'
  /\ \A s \in reconciled' \ reconciled : /\ s \in Step /\ stepStatus[s] = "uncertain"
                                         /\ stepStatus'[s] \in {"succeeded", "failed"}

LEMMA ReconcileVouches ==
  ASSUME TypeOK, [Next]_vars
  PROVE  VouchesForDoubt
<1>1. CASE reconciled' = reconciled
  BY <1>1 DEF VouchesForDoubt
<1>2. ASSUME NEW s \in Step, NEW a \in Actor, NEW o \in {"succeeded", "failed"}, Reconcile(s, a, o)
      PROVE  VouchesForDoubt
  <2>1. /\ stepStatus[s] = "uncertain" /\ stepStatus' = [stepStatus EXCEPT ![s] = o]
        /\ reconciled' = reconciled \union {s}
    BY <1>2 DEF Reconcile
  <2>2. stepStatus'[s] = o
    BY <2>1 DEF TypeOK
  <2> QED
    BY <2>1, <2>2 DEF VouchesForDoubt
<1> QED
  BY <1>1, <1>2, OnlyReconcileVouches

LEMMA VouchedStep ==
  ASSUME TypeOK, VouchedIsSettled, FinalStep, VouchesForDoubt
  PROVE  VouchedIsSettled'
<1> SUFFICES ASSUME NEW s \in reconciled' PROVE stepStatus'[s] \in Terminal
  BY DEF VouchedIsSettled
<1>1. CASE s \in reconciled
  BY <1>1 DEF VouchedIsSettled, FinalStep, TypeOK
<1>2. CASE s \notin reconciled
  BY <1>2 DEF VouchesForDoubt, Terminal
<1> QED
  BY <1>1, <1>2

-----------------------------------------------------------------------------
(* One transition, one step. *)

\* What the mapping says of one step, case by case.
Maps(entry, row, vouched) ==
  /\ row = "none" => entry = "absent"
  /\ row # "none" /\ vouched => entry = "vouched"
  /\ ~vouched => /\ row \in Undecided => entry = "open"
                 /\ row = "running" => entry = "held"
                 /\ row = "uncertain" => entry = "doubtful"
                 /\ row = "succeeded" => entry = "done"
                 /\ row \in {"failed", "cancelled"} => entry = "dropped"

LEMMA Mapped ==
  ASSUME NEW s \in Step
  PROVE  Maps(LedgerStatus[s], stepStatus[s], s \in reconciled)
BY DEF LedgerStatus, Undecided, Maps

LEMMA MappedNext ==
  ASSUME NEW s \in Step
  PROVE  Maps(LedgerStatus'[s], stepStatus'[s], s \in reconciled')
BY DEF LedgerStatus, Undecided, Maps

\* The ledger's moves of one step.
Moves(s) == \/ Ledger!Stay(s) \/ Ledger!Enter(s) \/ Ledger!Grant(s) \/ Ledger!Drop(s)
            \/ Ledger!Settle(s) \/ Ledger!Doubt(s) \/ Ledger!Vouch(s) \/ Ledger!Act(s)

\* A row that does not change keeps its entry.
LEMMA RowStays ==
  ASSUME VouchesForDoubt, NEW s \in Step, stepStatus'[s] = stepStatus[s]
  PROVE  LedgerStatus'[s] = LedgerStatus[s]
<1>1. s \in reconciled' <=> s \in reconciled
  BY DEF VouchesForDoubt
<1> QED
  BY <1>1 DEF LedgerStatus

LEMMA RowMoves ==
  ASSUME TypeOK, VouchedIsSettled, VouchesForDoubt, NEW s \in Step, RowStep(s), effects'[s] = effects[s]
  PROVE  Moves(s)
<1> USE DEF Ledger!Still, Ledger!Goes
<1>1. CASE stepStatus'[s] = stepStatus[s]
  BY <1>1, RowStays DEF Moves, Ledger!Stay
<1>3. ASSUME stepStatus[s] # "uncertain" PROVE s \in reconciled' => s \in reconciled
  BY <1>3 DEF VouchesForDoubt
<1>4. CASE stepStatus[s] = "none" /\ stepStatus'[s] = "queued"
  <2>1. s \notin reconciled'
    BY <1>3, <1>4 DEF VouchedIsSettled, Terminal
  <2>2. LedgerStatus[s] = "absent" /\ LedgerStatus'[s] = "open"
    BY <1>4, <2>1, Mapped, MappedNext DEF Maps, Undecided
  <2> QED
    BY <2>2 DEF Moves, Ledger!Enter
<1>5. CASE /\ stepStatus[s] \in Undecided
           /\ stepStatus'[s] \in {"queued", "waiting_approval", "failed", "cancelled"}
  <2>1. s \notin reconciled /\ s \notin reconciled'
    BY <1>3, <1>5 DEF VouchedIsSettled, Terminal, Undecided
  <2>2. /\ LedgerStatus[s] = "open"
        /\ LedgerStatus'[s] \in {"open", "dropped"}
    BY <1>5, <2>1, Mapped, MappedNext DEF Maps, Undecided
  <2> QED
    BY <2>2 DEF Moves, Ledger!Stay, Ledger!Drop
<1>6. CASE stepStatus[s] = "running" /\ stepStatus'[s] = "uncertain"
  <2>1. s \notin reconciled /\ s \notin reconciled'
    BY <1>3, <1>6 DEF VouchedIsSettled, Terminal
  <2>2. LedgerStatus[s] = "held" /\ LedgerStatus'[s] = "doubtful"
    BY <1>6, <2>1, Mapped, MappedNext DEF Maps
  <2> QED
    BY <2>2 DEF Moves, Ledger!Doubt
<1>7. CASE stepStatus[s] = "uncertain" /\ stepStatus'[s] \in {"succeeded", "failed"} /\ s \in reconciled'
  <2>1. s \notin reconciled
    BY <1>7 DEF VouchedIsSettled, Terminal
  <2>2. LedgerStatus[s] = "doubtful" /\ LedgerStatus'[s] = "vouched"
    BY <1>7, <2>1, Mapped, MappedNext DEF Maps
  <2> QED
    BY <2>2 DEF Moves, Ledger!Vouch
<1> QED
  BY <1>1, <1>4, <1>5, <1>6, <1>7 DEF RowStep

LEMMA CalmMoves ==
  ASSUME TypeOK, VouchedIsSettled, VouchesForDoubt, Calm
  PROVE  \A s \in Step : Moves(s)
BY RowMoves DEF Calm

LEMMA TakenMoves ==
  ASSUME TypeOK, VouchedIsSettled, VouchesForDoubt, NEW p \in Process, NEW s \in Step, Taken(p, s)
  PROVE  \A r \in Step : Moves(r)
<1>1. /\ stepStatus[s] \in Undecided /\ stepStatus'[s] = "running"
      /\ effects' = effects /\ reconciled' = reconciled
      /\ \A r \in Step \ {s} : RowStep(r)
  BY DEF Taken
<1>2. s \notin reconciled
  BY <1>1 DEF VouchedIsSettled, Terminal, Undecided
<1>3. LedgerStatus[s] = "open" /\ LedgerStatus'[s] = "held"
  BY <1>1, <1>2, Mapped, MappedNext DEF Maps
<1>4. Moves(s)
  BY <1>1, <1>3 DEF Moves, Ledger!Grant, Ledger!Goes, Ledger!Still
<1> QED
  BY <1>1, <1>4, RowMoves

LEMMA CalledMoves ==
  ASSUME Sound, VouchedIsSettled, VouchesForDoubt, NEW p \in Process, Called(p)
  PROVE  \A r \in Step : Moves(r)
<1>1. PICK effect \in 0..1 : effects' = [effects EXCEPT ![job[p].step] = @ + effect]
  BY DEF Called
<1>2. job[p].pc \in Busy /\ job[p].pc \in Underway /\ UNCHANGED <<stepStatus, reconciled>>
  BY DEF Called, Underway, Busy
<1>3. job[p].step \in Step /\ effects[job[p].step] = 0
  BY <1>2, BusyStep DEF Sound, Once
<1>4. /\ effects'[job[p].step] = effect
      /\ \A r \in Step \ {job[p].step} : effects'[r] = effects[r]
  BY <1>1, <1>3 DEF Sound, TypeOK
<1>5. \A r \in Step : LedgerStatus'[r] = LedgerStatus[r]
  BY <1>2, RowStays
<1>6. LedgerStatus[job[p].step] \in {"held", "doubtful", "vouched"}
  <2>1. CASE job[p].step \in reconciled
    BY <1>3, <2>1, Mapped DEF VouchedIsSettled, Terminal, Maps
  <2>2. CASE job[p].step \notin reconciled
    BY <1>2, <1>3, <2>2, Mapped DEF Sound, Truthful, TruthfulBut, Maps
  <2> QED
    BY <2>1, <2>2
<1>7. Moves(job[p].step)
  BY <1>3, <1>4, <1>5, <1>6 DEF Moves, Ledger!Stay, Ledger!Act, Ledger!Still
<1>8. \A r \in Step \ {job[p].step} : Moves(r)
  BY <1>4, <1>5 DEF Moves, Ledger!Stay, Ledger!Still
<1> QED
  BY <1>7, <1>8

LEMMA RecordedMoves ==
  ASSUME Sound, VouchedIsSettled, VouchesForDoubt, NEW p \in Process, Recorded(p)
  PROVE  \A r \in Step : Moves(r)
<1>1. /\ job[p].pc \in {"refused", "done"} /\ job[p].pc \in Busy
      /\ stepStatus[job[p].step] = "running"
      /\ stepStatus' = [stepStatus EXCEPT ![job[p].step] = job[p].out]
      /\ UNCHANGED <<effects, reconciled>>
  BY DEF Recorded, Busy
<1>2. job[p].step \in Step /\ job[p].out \in {"succeeded", "failed", "uncertain"}
  BY <1>1, BusyStep DEF Sound, TypeOK, Job
<1>3. /\ stepStatus'[job[p].step] = job[p].out
      /\ \A r \in Step \ {job[p].step} : stepStatus'[r] = stepStatus[r]
  BY <1>1, <1>2 DEF Sound, TypeOK
<1>4. /\ job[p].out = "succeeded" => effects[job[p].step] = 1
      /\ job[p].out = "failed" => effects[job[p].step] = 0
  BY <1>1 DEF Sound, Truthful, TruthfulBut, Once, Underway
<1>5. job[p].step \notin reconciled
  BY <1>1 DEF VouchedIsSettled, Terminal
<1>6. /\ LedgerStatus[job[p].step] = "held"
      /\ job[p].out = "succeeded" => LedgerStatus'[job[p].step] = "done"
      /\ job[p].out = "failed" => LedgerStatus'[job[p].step] = "dropped"
      /\ job[p].out = "uncertain" => LedgerStatus'[job[p].step] = "doubtful"
  BY <1>1, <1>2, <1>3, <1>5, Mapped, MappedNext DEF Maps
<1>7. Moves(job[p].step)
  BY <1>1, <1>2, <1>4, <1>6 DEF Moves, Ledger!Settle, Ledger!Doubt, Ledger!Goes, Ledger!Still
<1>8. \A r \in Step \ {job[p].step} : Moves(r)
  BY <1>1, <1>3, RowStays DEF Moves, Ledger!Stay, Ledger!Still
<1> QED
  BY <1>7, <1>8

-----------------------------------------------------------------------------
\* Claim, fence, finish, cancel, freeze, device, reconcile, _stop and lease expiry keep the ledger's
\* promise to every step: granted once, acting at most once, its record true unless it says that it
\* is in doubt or that an owner vouched for it (engine.py:1-5).
THEOREM EngineImplementsLedger == Spec => ImplementsLedger
<1> DEFINE IInv == Sound /\ VouchedIsSettled
<1>1. Init => IInv /\ Ledger!Init
  <2> SUFFICES ASSUME Init PROVE IInv /\ Ledger!Init
    OBVIOUS
  <2>1. VouchedIsSettled
    BY DEF Init, VouchedIsSettled
  <2>2. LedgerStatus = [s \in Step |-> "absent"]
    BY DEF Init, LedgerStatus
  <2> QED
    BY <2>1, <2>2, SoundInit DEF Ledger!Init, Init
<1>2. IInv /\ [Next]_vars => IInv' /\ [Ledger!Next]_<<LedgerStatus, effects>>
  <2> SUFFICES ASSUME IInv, [Next]_vars PROVE IInv' /\ [Ledger!Next]_<<LedgerStatus, effects>>
    OBVIOUS
  <2>1. Sound' /\ TypeOK'
    BY SoundStep DEF Sound
  <2>2. VouchesForDoubt
    BY ReconcileVouches DEF Sound
  <2>3. CASE UNCHANGED vars
    <3>1. UNCHANGED <<stepStatus, reconciled, effects>>
      BY <2>3 DEF vars, stepVars, history
    <3>2. VouchedIsSettled' /\ UNCHANGED LedgerStatus
      BY <3>1 DEF VouchedIsSettled, LedgerStatus
    <3> QED
      BY <2>1, <3>1, <3>2
  <2>4. CASE Next
    <3>1. AnyKind
      BY <2>4, FourKinds, FreshNoOrphans DEF Sound, AnyKind
    <3>2. VouchedIsSettled'
      BY <2>2, <3>1, KindsFinal, VouchedStep DEF Sound
    <3>3. \A s \in Step : Moves(s)
      BY <2>2, <3>1, CalmMoves, TakenMoves, CalledMoves, RecordedMoves DEF AnyKind, Sound
    <3>4. DOMAIN LedgerStatus' = Step /\ DOMAIN effects' = Step
      BY <2>1 DEF LedgerStatus, TypeOK
    <3> QED
      BY <2>1, <3>2, <3>3, <3>4 DEF Ledger!Next, Moves
  <2> QED
    BY <2>3, <2>4
<1> QED
  BY <1>1, <1>2, PTL DEF Spec, ImplementsLedger, Ledger!Spec, Ledger!ledger

-----------------------------------------------------------------------------
(* Decisions. *)

\* A task of an agent run has one step, and a row of p_steps is a step of its plan.
OneStepRuns == \A t \in Task : parent[t] # "none" => Len(plan[t]) = 1
RowsPlanned == \A s \in Step : stepStatus[s] # "none" => s[2] <= Len(plan[s[1]])

\* What a transition may do to the approval of step s and to what the step waits for.
DecisionStep(s) ==
  /\ stepStatus[s] # "none" =>
       /\ plan'[s[1]] = plan[s[1]] /\ creator'[s[1]] = creator[s[1]]
       /\ fingerprint'[s[1]] = fingerprint[s[1]]
  /\ \/ /\ approval'[s] = approval[s] /\ approver'[s] = approver[s]
        /\ stepStatus[s] = "none" => stepStatus'[s] = "none"
        /\ stepStatus'[s] \in Undecided =>
             /\ stepStatus[s] \in Undecided
             /\ Gated(s) /\ stepStatus'[s] = "waiting_approval" /\ stepStatus[s] = "queued"
                  => approval[s] # "approved"
     \/ approval'[s] = "rejected" /\ stepStatus'[s] \notin Undecided /\ stepStatus[s] # "none"
     \/ /\ approval[s] = "approved" /\ approval'[s] = "consumed" /\ approver'[s] = approver[s]
        /\ stepStatus[s] # "none" /\ stepStatus'[s] = "running" /\ fingerprint[s[1]] = policy
     \/ /\ stepStatus[s] # "none" /\ stepStatus'[s] = "queued" /\ approval'[s] = "approved"
        /\ policy \in IndependentPolicy => approver'[s] # creator[s[1]]
        /\ policy' = policy
     \/ /\ stepStatus[s] = "none" /\ stepStatus'[s] = "queued" /\ s[2] <= Len(plan'[s[1]])
        /\ fingerprint'[s[1]] = policy /\ policy' = policy
        /\ \/ ~Gated(s)' /\ approval'[s] = approval[s]
           \/ approval'[s] = "pending"
           \/ approval'[s] = "approved" /\ policy \notin IndependentPolicy

\* A run gains a task only as its submission is planned, with one step.
RunStep(t) == \/ plan'[t] = plan[t] /\ (parent'[t] # "none" => parent[t] # "none")
              \/ parent'[t] # "none" => Len(plan'[t]) = 1

Decisions == (\A s \in Step : DecisionStep(s)) /\ (\A t \in Task : RunStep(t))

LEMMA CreateDecides ==
  ASSUME TypeOK, TaskStatusFresh, Rows, NEW t \in Task, NEW a \in Actor, NEW p \in Plans,
         NEW by \in Actor \union {Nobody}, NEW run, Create(t, a, p, by, run),
         run = "none" \/ Len(p) = 1, by = Nobody \/ policy \notin IndependentPolicy
  PROVE  Decisions
<1> DEFINE rows == {s \in Step : s[1] = t /\ s[2] <= Len(p)}
           gated == {s \in rows : p[s[2]].gated}
<1>1. /\ taskStatus[t] = "none"
      /\ plan' = [plan EXCEPT ![t] = p] /\ parent' = [parent EXCEPT ![t] = run]
      /\ creator' = [creator EXCEPT ![t] = a] /\ fingerprint' = [fingerprint EXCEPT ![t] = policy]
      /\ stepStatus' = [s \in Step |-> IF s \in rows THEN "queued" ELSE stepStatus[s]]
      /\ approval' = [s \in Step |-> IF s \notin gated THEN approval[s]
                                     ELSE IF by = Nobody THEN "pending" ELSE "approved"]
      /\ approver' = [s \in Step |-> IF s \in gated THEN by ELSE approver[s]]
      /\ policy' = policy
  BY DEF Create, envVars
<1>2. \A s \in Step : s[1] = t => stepStatus[s] = "none"
  BY <1>1, FreshNoOrphans DEF NoOrphans
<1>3. /\ gated \subseteq rows /\ \A s \in rows : s[1] = t /\ s[2] <= Len(p)
      /\ \A s \in rows \ gated : ~p[s[2]].gated
  OBVIOUS
<1>4. \A u \in Task : /\ plan'[u] = IF u = t THEN p ELSE plan[u]
                      /\ parent'[u] = IF u = t THEN run ELSE parent[u]
                      /\ creator'[u] = IF u = t THEN a ELSE creator[u]
                      /\ fingerprint'[u] = IF u = t THEN policy ELSE fingerprint[u]
  BY <1>1 DEF TypeOK
<1> HIDE DEF gated, rows
<1>5. ASSUME NEW s \in Step PROVE DecisionStep(s)
  <2>1. s[1] \in Task
    BY DEF Step
  <2>2. stepStatus[s] # "none" => s[1] # t
    BY <1>2
  <2>3. CASE s \in rows
    <3>1. /\ s[1] = t /\ stepStatus[s] = "none" /\ stepStatus'[s] = "queued"
          /\ s[2] <= Len(plan'[s[1]]) /\ fingerprint'[s[1]] = policy
      BY <1>1, <1>2, <1>3, <1>4, <2>1, <2>3
    <3>2. CASE s \in gated
      BY <1>1, <3>1, <3>2 DEF DecisionStep
    <3>3. CASE s \notin gated
      <4>1. plan'[s[1]] = p /\ ~p[s[2]].gated
        BY <1>3, <1>4, <2>1, <2>3, <3>1, <3>3
      <4>2. ~Gated(s)' /\ approval'[s] = approval[s]
        BY <1>1, <3>3, <4>1 DEF Gated, Kind
      <4> QED
        BY <1>1, <3>1, <4>2 DEF DecisionStep
    <3> QED
      BY <3>2, <3>3
  <2>4. CASE s \notin rows
    <3>1. stepStatus'[s] = stepStatus[s] /\ approval'[s] = approval[s] /\ approver'[s] = approver[s]
      BY <1>1, <1>3, <2>4
    <3> QED
      BY <1>4, <2>1, <2>2, <3>1 DEF DecisionStep, Undecided
  <2> QED
    BY <2>3, <2>4
<1>6. \A u \in Task : RunStep(u)
  BY <1>4 DEF RunStep
<1> QED
  BY <1>5, <1>6 DEF Decisions

\* A transition that only moves rows out of play and withdraws the approvals of what it moved.
LEMMA RetireDecides ==
  ASSUME TypeOK, Rows, UNCHANGED <<plan, creator, fingerprint>>,
         \A t \in Task : parent'[t] # "none" => parent[t] # "none",
         NEW S \in SUBSET Step, NEW W \in SUBSET Step,
         \A s \in Step : \/ stepStatus'[s] = stepStatus[s] /\ s \notin S
                         \/ stepStatus[s] # "none" /\ stepStatus'[s] \notin Undecided,
         \A s \in W : s \in S \/ stepStatus[s] \notin Undecided,
         \A s \in Step : \/ approval'[s] = approval[s] /\ approver'[s] = approver[s]
                         \/ s \in W /\ approval[s] \in {"pending", "approved"}
                                    /\ approval'[s] = "rejected"
  PROVE  Decisions
<1>1. ASSUME NEW s \in Step PROVE DecisionStep(s)
  <2>1. approval[s] \in {"pending", "approved"} => stepStatus[s] # "none"
    BY DEF Rows
  <2>2. CASE approval'[s] = approval[s] /\ approver'[s] = approver[s]
    BY <2>2 DEF DecisionStep, Undecided
  <2>3. CASE s \in W /\ approval[s] \in {"pending", "approved"} /\ approval'[s] = "rejected"
    <3>1. stepStatus'[s] \notin Undecided
      BY <2>3
    <3> QED
      BY <2>1, <2>3, <3>1 DEF DecisionStep
  <2> QED
    BY <2>2, <2>3
<1>2. \A t \in Task : RunStep(t)
  BY DEF RunStep
<1> QED
  BY <1>1, <1>2 DEF Decisions

\* Rows, approvals and tasks as they were, whatever happens to the policy.
LEMMA QuietDecides ==
  ASSUME UNCHANGED <<stepStatus, approval, approver, plan, creator, fingerprint>>,
         \A t \in Task : parent'[t] # "none" => parent[t] # "none"
  PROVE  Decisions
BY DEF Decisions, DecisionStep, RunStep, Undecided

LEMMA ApproveDecides ==
  ASSUME TypeOK, NEW s \in Step, NEW a \in Actor, NEW d \in {"approved", "rejected"},
         Approve(s, a, d)
  PROVE  Decisions
<1>1. /\ stepStatus[s] \in Undecided
      /\ ~(d = "approved" /\ policy \in IndependentPolicy /\ a = creator[s[1]])
      /\ approval' = [approval EXCEPT ![s] = d] /\ approver' = [approver EXCEPT ![s] = a]
      /\ stepStatus' = [stepStatus EXCEPT ![s] = IF d = "approved" THEN "queued" ELSE "cancelled"]
      /\ UNCHANGED <<plan, creator, fingerprint, parent, policy>>
  BY DEF Approve, taskVars, envVars
<1>2. /\ approval'[s] = d /\ approver'[s] = a
      /\ stepStatus'[s] = IF d = "approved" THEN "queued" ELSE "cancelled"
      /\ \A r \in Step \ {s} : /\ stepStatus'[r] = stepStatus[r]
                              /\ approval'[r] = approval[r] /\ approver'[r] = approver[r]
  BY <1>1 DEF TypeOK
<1>3. DecisionStep(s)
  BY <1>1, <1>2 DEF DecisionStep, Undecided
<1>4. \A r \in Step \ {s} : DecisionStep(r)
  BY <1>1, <1>2 DEF DecisionStep, Undecided
<1>5. \A t \in Task : RunStep(t)
  BY <1>1 DEF RunStep
<1> QED
  BY <1>3, <1>4, <1>5 DEF Decisions

LEMMA CancelDecides ==
  ASSUME TypeOK, Rows, NEW t \in Task, NEW a \in Actor, Cancel(t, a)
  PROVE  Decisions
<1> DEFINE S == {s \in StepsOf(t) : stepStatus[s] \in Open}
<1>1. /\ Retire(S) /\ Withdraw(StepsOf(t))
      /\ UNCHANGED <<plan, creator, fingerprint, parent, approver>>
  BY DEF Cancel, taskVars
<1>2. /\ S \in SUBSET Step /\ StepsOf(t) \in SUBSET Step
      /\ \A s \in S : stepStatus[s] \in Open /\ stepStatus[s] # "none"
      /\ \A s \in StepsOf(t) : s \in S \/ stepStatus[s] \notin Undecided
  BY DEF StepsOf, Open, Undecided
<1> HIDE DEF S
<1>3. \A s \in Step : \/ stepStatus'[s] = stepStatus[s] /\ s \notin S
                      \/ stepStatus[s] # "none" /\ stepStatus'[s] \notin Undecided
  BY <1>1, <1>2, RetireRow DEF Undecided
<1>4. \A s \in Step : \/ approval'[s] = approval[s] /\ approver'[s] = approver[s]
                      \/ s \in StepsOf(t) /\ approval[s] \in {"pending", "approved"}
                                          /\ approval'[s] = "rejected"
  BY <1>1 DEF Withdraw
<1> QED
  BY <1>1, <1>2, <1>3, <1>4, RetireDecides

LEMMA FreezeDecides ==
  ASSUME TypeOK, Rows, NEW a \in Actor, Freeze(a)
  PROVE  Decisions
<1> DEFINE S == {s \in Step : stepStatus[s] = "running"}
<1>1. Retire(S) /\ UNCHANGED <<plan, creator, fingerprint, parent, approval, approver>>
  BY DEF Freeze, taskVars, approvalVars
<1>2. S \in SUBSET Step /\ {} \in SUBSET Step /\ \A s \in S : stepStatus[s] = "running"
  OBVIOUS
<1> HIDE DEF S
<1>3. \A s \in Step : \/ stepStatus'[s] = stepStatus[s] /\ s \notin S
                      \/ stepStatus[s] # "none" /\ stepStatus'[s] \notin Undecided
  BY <1>1, <1>2 DEF Retire, Undecided
<1> QED
  BY <1>1, <1>2, <1>3, RetireDecides

LEMMA ChangeDeviceDecides ==
  ASSUME TypeOK, Rows, NEW d \in Device, NEW a \in Actor, NEW x, ChangeDevice(d, a, x)
  PROVE  Decisions
<1> DEFINE S == {s \in Step : stepStatus[s] \in Open /\ Kind(s).place = d}
<1>1. /\ Retire(S) /\ Withdraw(S) /\ Signed(S, a)
      /\ UNCHANGED <<plan, creator, fingerprint, parent>>
  BY DEF ChangeDevice, taskVars
<1>2. S \in SUBSET Step /\ \A s \in S : stepStatus[s] \in Open /\ stepStatus[s] # "none"
  BY DEF Open
<1> HIDE DEF S
<1>3. \A s \in Step : \/ stepStatus'[s] = stepStatus[s] /\ s \notin S
                      \/ stepStatus[s] # "none" /\ stepStatus'[s] \notin Undecided
  BY <1>1, <1>2, RetireRow DEF Undecided
<1>4. \A s \in Step : \/ approval'[s] = approval[s] /\ approver'[s] = approver[s]
                      \/ s \in S /\ approval[s] \in {"pending", "approved"}
                               /\ approval'[s] = "rejected"
  BY <1>1 DEF Withdraw, Signed
<1> QED
  BY <1>1, <1>2, <1>3, <1>4, RetireDecides

\* The task of a run has one step: once the task has ended, nothing of it is undecided.
LEMMA EndedRunDecided ==
  ASSUME TypeOK, TaskStatusFresh, OneStepRuns, RowsPlanned, NEW t \in Task, parent[t] # "none",
         taskStatus[t] \notin Open, NEW s \in StepsOf(t)
  PROVE  stepStatus[s] \notin Undecided
<1>1. /\ s \in Step /\ s[1] = t /\ stepStatus[s] # "none" /\ s[2] <= Len(plan[t])
      /\ Len(plan[t]) = 1
  BY DEF StepsOf, RowsPlanned, OneStepRuns
<1>2. \A r \in Step : r[1] = t /\ stepStatus[r] # "none" => r = s
  <2> SUFFICES ASSUME NEW r \in Step, r[1] = t, stepStatus[r] # "none" PROVE r = s
    OBVIOUS
  <2>1. r[2] <= Len(plan[t])
    BY DEF RowsPlanned
  <2>2. r[2] = 1 /\ s[2] = 1
    BY <1>1, <2>1, EngineAssumption DEF Step
  <2> QED
    BY <1>1, <2>2 DEF Step
<1>3. {stepStatus[r] : r \in {q \in Step : q[1] = t}} \ {"none"} = {stepStatus[s]}
  BY <1>1, <1>2
<1>4. stepStatus[s] \in Undecided => Derived(stepStatus, t) \in Open
  BY <1>3 DEF Derived, Undecided, Open
<1> QED
  BY <1>4 DEF TaskStatusFresh

LEMMA StopRunDecides ==
  ASSUME TypeOK, TaskStatusFresh, Rows, OneStepRuns, RowsPlanned, NEW t \in Task, StopRun(t)
  PROVE  Decisions
<1> DEFINE S == {s \in StepsOf(t) : stepStatus[s] \in Open}
<1>1. /\ parent[t] \in {"waiting", "late"} /\ parent' = [parent EXCEPT ![t] = "ended"]
      /\ \/ taskStatus[t] \in Open /\ Retire(S)
         \/ taskStatus[t] \notin Open /\ UNCHANGED stepStatus
      /\ Withdraw(StepsOf(t)) /\ Signed(StepsOf(t), Nobody)
      /\ UNCHANGED <<plan, creator, fingerprint>>
  BY DEF StopRun, taskVars
<1>2. /\ S \in SUBSET Step /\ StepsOf(t) \in SUBSET Step /\ {} \in SUBSET Step
      /\ \A s \in S : stepStatus[s] \in Open /\ stepStatus[s] # "none"
      /\ \A s \in StepsOf(t) : s \in S \/ stepStatus[s] \notin Undecided
  BY DEF StepsOf, Open, Undecided
<1> HIDE DEF S
<1>3. \A u \in Task : parent'[u] # "none" => parent[u] # "none"
  BY <1>1 DEF TypeOK
<1>4. \A s \in Step : \/ approval'[s] = approval[s] /\ approver'[s] = approver[s]
                      \/ s \in StepsOf(t) /\ approval[s] \in {"pending", "approved"}
                                          /\ approval'[s] = "rejected"
  BY <1>1 DEF Withdraw, Signed
<1>5. CASE taskStatus[t] \in Open /\ Retire(S)
  <2>1. \A s \in Step : \/ stepStatus'[s] = stepStatus[s] /\ s \notin S
                        \/ stepStatus[s] # "none" /\ stepStatus'[s] \notin Undecided
    BY <1>2, <1>5, RetireRow DEF Undecided
  <2> QED
    BY <1>1, <1>2, <1>3, <1>4, <2>1, RetireDecides
<1>6. CASE taskStatus[t] \notin Open /\ UNCHANGED stepStatus
  <2>1. \A s \in StepsOf(t) : s \in {} \/ stepStatus[s] \notin Undecided
    BY <1>1, <1>6, EndedRunDecided
  <2>2. \A s \in Step : \/ stepStatus'[s] = stepStatus[s] /\ s \notin {}
                        \/ stepStatus[s] # "none" /\ stepStatus'[s] \notin Undecided
    BY <1>6
  <2> QED
    BY <1>1, <1>2, <1>3, <1>4, <2>1, <2>2, RetireDecides
<1> QED
  BY <1>1, <1>5, <1>6

\* What claim asks before it lets a step run, or lets it wait.
LEMMA VerdictAsks ==
  ASSUME NEW s
  PROVE  /\ Verdict(s) = "running" => /\ fingerprint[s[1]] = policy
                                      /\ Gated(s) => approval[s] = "approved"
         /\ Verdict(s) = "waiting_approval" => approval[s] # "approved"
BY DEF Verdict

LEMMA RecordDecides ==
  ASSUME TypeOK, Rows, NEW place, NEW taken \in SUBSET Candidates(place),
         NEW passed \in SUBSET Candidates(place), \A s \in passed : Verdict(s) # "running",
         \A s \in taken : Verdict(s) = "running", Record(taken, passed)
  PROVE  Decisions
<1> DEFINE dropped == {s \in passed : Verdict(s) = "cancelled"}
<1>1. /\ stepStatus' = [s \in Step |-> IF s \in Lapsed THEN "uncertain"
                                       ELSE IF s \in taken \union passed THEN Verdict(s)
                                       ELSE stepStatus[s]]
      /\ approval' = [s \in Step |->
           IF s \in taken /\ Gated(s) THEN "consumed"
           ELSE IF s \in dropped /\ approval[s] \in {"pending", "approved"} THEN "rejected"
           ELSE approval[s]]
      /\ Signed(dropped, Nobody)
      /\ UNCHANGED <<plan, creator, fingerprint, parent>>
  BY DEF Record, taskVars
<1>2. \A s \in dropped : s \in passed /\ s \notin taken /\ Verdict(s) = "cancelled"
  OBVIOUS
<1>3. \A s \in passed : Verdict(s) = "cancelled" => s \in dropped
  OBVIOUS
<1> HIDE DEF dropped
<1>4. ASSUME NEW s \in Step PROVE DecisionStep(s)
  <2>1. CASE s \in taken
    <3>1. /\ stepStatus[s] \in Undecided /\ s \notin Lapsed /\ stepStatus[s] # "none"
          /\ fingerprint[s[1]] = policy
          /\ Gated(s) => approval[s] = "approved"
      BY <2>1, CandidateRow, VerdictAsks DEF Undecided
    <3>2. stepStatus'[s] = "running" /\ s \notin dropped
      BY <1>1, <1>2, <2>1, <3>1
    <3>3. /\ approver'[s] = approver[s]
          /\ approval'[s] = IF Gated(s) THEN "consumed" ELSE approval[s]
      BY <1>1, <2>1, <3>2 DEF Signed
    <3> QED
      BY <1>1, <3>1, <3>2, <3>3 DEF DecisionStep, Undecided
  <2>2. CASE s \in passed
    <3>1. /\ stepStatus[s] \in Undecided /\ s \notin Lapsed /\ s \notin taken
          /\ stepStatus[s] # "none"
      BY <2>2, CandidateRow DEF Undecided
    <3>2. /\ stepStatus'[s] = Verdict(s)
          /\ Verdict(s) \in {"cancelled", "failed", "waiting_approval"}
      BY <1>1, <2>2, <3>1, VerdictRange
    <3>3. CASE s \in dropped /\ approval[s] \in {"pending", "approved"}
      <4>1. approval'[s] = "rejected" /\ stepStatus'[s] = "cancelled"
        BY <1>1, <1>2, <3>1, <3>2, <3>3
      <4> QED
        BY <1>1, <3>1, <4>1 DEF DecisionStep, Undecided
    <3>4. CASE ~(s \in dropped /\ approval[s] \in {"pending", "approved"})
      <4>1. approval'[s] = approval[s] /\ approver'[s] = approver[s]
        BY <1>1, <3>1, <3>4 DEF Signed
      <4>2. stepStatus'[s] = "waiting_approval" => approval[s] # "approved"
        BY <3>2, VerdictAsks
      <4> QED
        BY <1>1, <3>1, <4>1, <4>2 DEF DecisionStep
    <3> QED
      BY <3>3, <3>4
  <2>3. CASE s \notin taken /\ s \notin passed
    <3>1. /\ approval'[s] = approval[s] /\ approver'[s] = approver[s]
          /\ \/ stepStatus'[s] = stepStatus[s]
             \/ stepStatus[s] = "running" /\ stepStatus'[s] = "uncertain"
      BY <1>1, <1>2, <2>3 DEF Signed, Lapsed
    <3> QED
      BY <1>1, <3>1 DEF DecisionStep, Undecided
  <2> QED
    BY <2>1, <2>2, <2>3
<1>5. \A t \in Task : RunStep(t)
  BY <1>1 DEF RunStep
<1> QED
  BY <1>4, <1>5 DEF Decisions

LEMMA ClaimDecides ==
  ASSUME TypeOK, Rows, NEW p \in Process, Claim(p)
  PROVE  Decisions
<1>1. ASSUME NEW s \in Step, ClaimStep(p, s) PROVE Decisions
  <2> DEFINE passed == {r \in Candidates(PlaceOf(p)) : Before(r, s)}
  <2>1. /\ s \in Candidates(PlaceOf(p)) /\ Verdict(s) = "running"
        /\ \A r \in passed : Verdict(r) # "running"
        /\ Record({s}, passed)
    BY <1>1 DEF ClaimStep
  <2>2. /\ passed \in SUBSET Candidates(PlaceOf(p)) /\ {s} \in SUBSET Candidates(PlaceOf(p))
        /\ \A r \in {s} : Verdict(r) = "running"
    BY <2>1
  <2> HIDE DEF passed
  <2> QED
    BY <2>1, <2>2, RecordDecides
<1>2. ASSUME NEW passed \in SUBSET Candidates(PlaceOf(p)), \A s \in passed : Verdict(s) # "running",
             Record({}, passed)
      PROVE  Decisions
  <2>1. {} \in SUBSET Candidates(PlaceOf(p)) /\ \A s \in {} : Verdict(s) = "running"
    OBVIOUS
  <2> QED
    BY <1>2, <2>1, RecordDecides
<1>3. CASE UNCHANGED <<taskVars, parent, stepVars, approvalVars, controlVars, envVars, history>>
  <2>1. UNCHANGED <<stepStatus, approval, approver, plan, creator, fingerprint, parent>>
    BY <1>3 DEF taskVars, stepVars, approvalVars
  <2> QED
    BY <2>1, QuietDecides
<1>4. ClaimNothing(p) =>
        \/ UNCHANGED <<taskVars, parent, stepVars, approvalVars, controlVars, envVars, history>>
        \/ Record({}, {})
        \/ /\ \A s \in Candidates(PlaceOf(p)) : Verdict(s) # "running"
           /\ Record({}, Candidates(PlaceOf(p)))
  BY DEF ClaimNothing
<1> QED
  BY <1>1, <1>2, <1>3, <1>4 DEF Claim

LEMMA FinishDecides ==
  ASSUME TypeOK, NEW p \in Process, Finish(p), job[p].pc \in {"refused", "done"}
  PROVE  Decisions
<1>1. UNCHANGED <<plan, creator, fingerprint, parent, approval, approver>>
  BY DEF Finish, taskVars, approvalVars
<1>2. CASE Owns(p)
  <2>1. /\ stepStatus[job[p].step] = "running"
        /\ stepStatus' = [stepStatus EXCEPT ![job[p].step] = job[p].out]
    BY <1>2 DEF Finish, Owns
  <2>2. job[p].step \in Step /\ job[p].out \in {"succeeded", "failed", "uncertain"}
    BY BusyStep DEF TypeOK, Job, Busy
  <2>3. \A s \in Step : \/ stepStatus'[s] = stepStatus[s]
                        \/ stepStatus[s] = "running" /\ stepStatus'[s] \notin Undecided
    BY <2>1, <2>2 DEF TypeOK, Undecided
  <2> QED
    BY <1>1, <2>3 DEF Decisions, DecisionStep, RunStep, Undecided
<1>3. CASE ~Owns(p)
  <2>1. UNCHANGED stepStatus
    BY <1>3 DEF Finish
  <2> QED
    BY <1>1, <2>1, QuietDecides
<1> QED
  BY <1>2, <1>3

LEMMA ReconcileDecides ==
  ASSUME TypeOK, NEW s \in Step, NEW a \in Actor, NEW o \in {"succeeded", "failed"},
         Reconcile(s, a, o)
  PROVE  Decisions
<1>1. /\ stepStatus[s] = "uncertain" /\ stepStatus' = [stepStatus EXCEPT ![s] = o]
      /\ UNCHANGED <<plan, creator, fingerprint, parent, approval, approver>>
  BY DEF Reconcile, taskVars, approvalVars
<1>2. \A r \in Step : \/ stepStatus'[r] = stepStatus[r]
                      \/ stepStatus[r] = "uncertain" /\ stepStatus'[r] \notin Undecided
  BY <1>1 DEF TypeOK, Undecided
<1> QED
  BY <1>1, <1>2 DEF Decisions, DecisionStep, RunStep, Undecided

LEMMA OtherDecides ==
  ASSUME TypeOK,
         \/ \E a \in Actor : Resume(a)
         \/ \E t \in Task : RunDeadline(t) \/ RunAdvances(t)
         \/ \E d \in Device : Connect(d) \/ Heartbeat(d)
         \/ \E p \in Process : Fence(p) \/ Execute(p) \/ Crash(p)
         \/ Tick \/ ChangeWorkspace
         \/ \E a \in Actor, r \in Role : ChangeRole(a, r)
         \/ \E p \in Policy : EditPolicy(p)
  PROVE  Decisions
<1>1. UNCHANGED <<stepStatus, approval, approver, plan, creator, fingerprint>>
  BY DEF Resume, RunDeadline, RunAdvances, Connect, Heartbeat, Fence, Execute, Crash, Tick,
         ChangeWorkspace, ChangeRole, EditPolicy, Change, taskVars, stepVars, approvalVars
<1>2. ASSUME NEW t \in Task, RunDeadline(t) \/ RunAdvances(t)
      PROVE  \A u \in Task : parent'[u] # "none" => parent[u] # "none"
  BY <1>2 DEF RunDeadline, RunAdvances, TypeOK
<1>3. \/ \E t \in Task : RunDeadline(t) \/ RunAdvances(t)
      \/ parent' = parent
  BY DEF Resume, Connect, Heartbeat, Fence, Execute, Crash, Tick, ChangeWorkspace, ChangeRole,
         EditPolicy, Change
<1> QED
  BY <1>1, <1>2, <1>3, QuietDecides

LEMMA EveryStepDecides ==
  ASSUME TypeOK, TaskStatusFresh, Rows, OneStepRuns, RowsPlanned, [Next]_vars
  PROVE  Decisions
<1>1. CASE UNCHANGED vars
  <2>1. UNCHANGED <<stepStatus, approval, approver, plan, creator, fingerprint, parent>>
    BY <1>1 DEF vars, taskVars, stepVars, approvalVars
  <2> QED
    BY <2>1, QuietDecides
<1>2. CASE Arrival
  <2>1. PICK t \in Task, a \in Actor : \/ \E p \in Plans : Submit(t, a, p) \/ SubmitForRun(t, a, p)
                                       \/ OperatorReply(t, a)
    BY <1>2 DEF Arrival
  <2>2. \E p \in Plans, by \in Actor \union {Nobody}, run \in {"none", "waiting"} :
           /\ Create(t, a, p, by, run)
           /\ run = "none" \/ Len(p) = 1
           /\ by = Nobody \/ policy \notin IndependentPolicy
    BY <2>1 DEF Submit, SubmitForRun, OperatorReply
  <2> QED
    BY <2>2, CreateDecides
<1>3. CASE Control
  BY <1>3, ApproveDecides, ReconcileDecides, CancelDecides, FreezeDecides, ChangeDeviceDecides,
     OtherDecides DEF Control
<1>4. CASE Runs
  BY <1>4, StopRunDecides, OtherDecides DEF Runs
<1>5. ASSUME NEW w \in Worker, CloudWorker(w) PROVE Decisions
  <2>1. w \in Process
    BY DEF Process
  <2> QED
    BY <1>5, <2>1, ClaimDecides, FinishDecides, OtherDecides DEF CloudWorker, Handler, FinishStep
<1>6. ASSUME NEW d \in Device, Runner(d) PROVE Decisions
  <2>1. d \in Process
    BY DEF Process
  <2> QED
    BY <1>6, <2>1, ClaimDecides, FinishDecides, OtherDecides DEF Runner, RunnerExecute, Result
<1>7. CASE Environment
  BY <1>7, OtherDecides DEF Environment
<1> QED
  BY <1>1, <1>2, <1>3, <1>4, <1>5, <1>6, <1>7 DEF Next

\* A step that waits for a person waits in its turn, at a place that still serves it.
InTurn ==
  \A s \in Step : stepStatus[s] = "waiting_approval" =>
    /\ Gated(s)
    /\ \A r \in Step : Sibling(r, s) /\ r[2] < s[2] => stepStatus[r] = "succeeded"
    /\ \A d \in Device : Kind(s).place = d => device[d] = "enrolled"

\* A step that waits after a transition waited before it where nothing was revoked, or is
\* made to wait by a claim of its place, in its turn.
WaitStep(s) == stepStatus'[s] = "waiting_approval" =>
  \/ /\ stepStatus[s] = "waiting_approval"
     /\ \A d \in Device : Kind(s).place = d /\ device[d] = "enrolled" => device'[d] = "enrolled"
  \/ /\ stepStatus[s] \in Undecided /\ Gated(s)
     /\ \A r \in Step : Sibling(r, s) /\ r[2] < s[2] => stepStatus[r] = "succeeded"
     /\ \A d \in Device : Kind(s).place = d => device'[d] = "enrolled"

WaitSteps == \A s \in Step : WaitStep(s)

LEMMA DeviceWaits ==
  ASSUME TypeOK, NEW d \in Device, NEW a \in Actor, NEW x, ChangeDevice(d, a, x)
  PROVE  WaitSteps
<1> SUFFICES ASSUME NEW s \in Step, stepStatus'[s] = "waiting_approval" PROVE WaitStep(s)
  BY DEF WaitSteps, WaitStep
<1>1. /\ Retire({r \in Step : stepStatus[r] \in Open /\ Kind(r).place = d})
      /\ device' = [device EXCEPT ![d] = x]
  BY DEF ChangeDevice
<1>2. stepStatus[s] = "waiting_approval" /\ Kind(s).place # d
  BY <1>1 DEF Retire, Open
<1>3. \A e \in Device \ {d} : device'[e] = device[e]
  BY <1>1 DEF TypeOK
<1> QED
  BY <1>2, <1>3 DEF WaitStep

LEMMA RecordWaits ==
  ASSUME NEW p \in Process, p \in Device => device[p] = "enrolled",
         NEW taken \in SUBSET Candidates(PlaceOf(p)), NEW passed \in SUBSET Candidates(PlaceOf(p)),
         \A s \in taken : Verdict(s) = "running", Record(taken, passed)
  PROVE  WaitSteps
<1> SUFFICES ASSUME NEW s \in Step, stepStatus'[s] = "waiting_approval" PROVE WaitStep(s)
  BY DEF WaitSteps, WaitStep
<1>1. /\ stepStatus' = [r \in Step |-> IF r \in Lapsed THEN "uncertain"
                                       ELSE IF r \in taken \union passed THEN Verdict(r)
                                       ELSE stepStatus[r]]
      /\ device' = device
  BY DEF Record, controlVars
<1>2. CASE s \in passed
  <2>1. /\ stepStatus[s] \in Undecided
        /\ \A r \in Step : Sibling(r, s) /\ r[2] < s[2] => stepStatus[r] = "succeeded"
        /\ s \notin Lapsed
    BY <1>2, CandidateRow
  <2>2. Verdict(s) = "waiting_approval"
    BY <1>1, <1>2, <2>1
  <2>3. Gated(s)
    BY <2>2 DEF Verdict
  <2>4. Kind(s).place = PlaceOf(p)
    BY <1>2 DEF Candidates
  <2>5. \A d \in Device : Kind(s).place = d => device'[d] = "enrolled"
    BY <1>1, <2>4, EngineAssumption DEF PlaceOf
  <2> QED
    BY <2>1, <2>3, <2>5 DEF WaitStep
<1>3. CASE s \notin passed
  <2>1. stepStatus[s] = "waiting_approval"
    BY <1>1, <1>3
  <2> QED
    BY <1>1, <2>1 DEF WaitStep
<1> QED
  BY <1>2, <1>3

LEMMA ClaimWaits ==
  ASSUME TypeOK, NEW p \in Process, Claim(p)
  PROVE  WaitSteps
<1>1. ASSUME NEW s \in Step, ClaimStep(p, s) PROVE WaitSteps
  <2> DEFINE passed == {r \in Candidates(PlaceOf(p)) : Before(r, s)}
  <2>1. /\ {s} \in SUBSET Candidates(PlaceOf(p)) /\ passed \in SUBSET Candidates(PlaceOf(p))
        /\ \A r \in {s} : Verdict(r) = "running"
        /\ Record({s}, passed) /\ (p \in Device => device[p] = "enrolled")
    BY <1>1 DEF ClaimStep
  <2> HIDE DEF passed
  <2> QED
    BY <2>1, RecordWaits
<1>2. ASSUME ClaimNothing(p) PROVE WaitSteps
  <2>1. {} \in SUBSET Candidates(PlaceOf(p)) /\ \A s \in {} : Verdict(s) = "running"
    OBVIOUS
  <2>2. CASE ~Active
    <3>1. Record({}, {}) /\ device' = device
      BY <1>2, <2>2 DEF ClaimNothing, Record, controlVars
    <3>2. \A s \in Step : stepStatus'[s] \in {stepStatus[s], "uncertain"}
      BY <3>1 DEF Record
    <3> QED
      BY <3>1, <3>2 DEF WaitSteps, WaitStep
  <2>3. CASE Active /\ p \in Device /\ device[p] # "enrolled"
    <3>1. UNCHANGED <<stepStatus, device>>
      BY <1>2, <2>3 DEF ClaimNothing, stepVars, controlVars
    <3> QED
      BY <3>1 DEF WaitSteps, WaitStep
  <2>4. CASE Active /\ ~(p \in Device /\ device[p] # "enrolled")
    <3>1. Record({}, Candidates(PlaceOf(p)))
      BY <1>2, <2>4 DEF ClaimNothing
    <3>2. Candidates(PlaceOf(p)) \in SUBSET Candidates(PlaceOf(p))
      OBVIOUS
    <3> QED
      BY <2>1, <2>4, <3>1, <3>2, RecordWaits
  <2> QED
    BY <2>2, <2>3, <2>4
<1> QED
  BY <1>1, <1>2 DEF Claim

\* Any other transition makes nothing wait and revokes no device.
LEMMA OthersWait ==
  ASSUME device' = device,
         \A s \in Step : stepStatus'[s] = "waiting_approval" => stepStatus[s] = "waiting_approval"
  PROVE  WaitSteps
BY DEF WaitSteps, WaitStep

LEMMA ControlWaits ==
  ASSUME TypeOK, Control
  PROVE  WaitSteps
<1>1. ASSUME NEW a \in Actor, NEW s \in Step, NEW d \in {"approved", "rejected"}, Approve(s, a, d)
      PROVE  WaitSteps
  <2>1. device' = device /\ stepStatus' = [stepStatus EXCEPT ![s] = IF d = "approved" THEN "queued"
                                                                  ELSE "cancelled"]
    BY <1>1 DEF Approve, controlVars
  <2> QED
    BY <2>1, OthersWait DEF TypeOK
<1>2. ASSUME NEW a \in Actor, NEW s \in Step, NEW o \in {"succeeded", "failed"}, Reconcile(s, a, o)
      PROVE  WaitSteps
  <2>1. device' = device /\ stepStatus' = [stepStatus EXCEPT ![s] = o]
    BY <1>2 DEF Reconcile, controlVars
  <2> QED
    BY <2>1, OthersWait DEF TypeOK
<1>3. ASSUME NEW a \in Actor, NEW t \in Task, Cancel(t, a) PROVE WaitSteps
  <2>1. device' = device /\ \E S : Retire(S)
    BY <1>3 DEF Cancel, controlVars
  <2> QED
    BY <2>1, OthersWait DEF Retire
<1>4. ASSUME NEW a \in Actor, Freeze(a) \/ Resume(a) PROVE WaitSteps
  <2>1. device' = device /\ (stepStatus' = stepStatus \/ \E S : Retire(S))
    BY <1>4 DEF Freeze, Resume, stepVars
  <2> QED
    BY <2>1, OthersWait DEF Retire
<1> QED
  BY <1>1, <1>2, <1>3, <1>4, DeviceWaits DEF Control

LEMMA EveryStepWaits ==
  ASSUME TypeOK, [Next]_vars
  PROVE  WaitSteps
<1>1. CASE UNCHANGED vars
  BY <1>1, OthersWait DEF vars, stepVars, controlVars
<1>2. CASE Arrival
  <2>1. PICK t \in Task, a \in Actor, p \in Plans, by \in Actor \union {Nobody}, run \in {"none", "waiting"} :
               Create(t, a, p, by, run)
    BY <1>2 DEF Arrival, Submit, SubmitForRun, OperatorReply
  <2>2. device' = device /\ \A s \in Step : stepStatus'[s] \in {"queued", stepStatus[s]}
    BY <2>1 DEF Create, controlVars
  <2> QED
    BY <2>2, OthersWait
<1>3. CASE Runs
  <2>1. PICK t \in Task : RunDeadline(t) \/ StopRun(t) \/ RunAdvances(t)
    BY <1>3 DEF Runs
  <2>2. device' = device /\ (stepStatus' = stepStatus \/ \E S : Retire(S))
    BY <2>1 DEF RunDeadline, StopRun, RunAdvances, stepVars, controlVars
  <2> QED
    BY <2>2, OthersWait DEF Retire
<1>4. ASSUME NEW p \in Process, Finish(p), job[p].pc \in {"refused", "done"} PROVE WaitSteps
  <2>1. device' = device /\ (stepStatus' = stepStatus \/ stepStatus' = [stepStatus EXCEPT ![job[p].step] = job[p].out])
    BY <1>4 DEF Finish, controlVars
  <2>2. job[p].out \in {"none", "succeeded", "failed", "uncertain"} /\ job[p].step \in Step
    BY <1>4 DEF TypeOK, Job, Busy
  <2> QED
    BY <2>1, <2>2, OthersWait DEF TypeOK
<1>5. ASSUME NEW p, Fence(p) \/ Execute(p) \/ Crash(p) PROVE WaitSteps
  BY <1>5, OthersWait DEF Fence, Execute, Crash, stepVars, controlVars
<1>6. ASSUME NEW d \in Device, Connect(d) \/ Heartbeat(d) PROVE WaitSteps
  BY <1>6, OthersWait DEF Connect, Heartbeat, stepVars, controlVars
<1>7. ASSUME Tick \/ ChangeWorkspace \/ (\E a \in Actor, r \in Role : ChangeRole(a, r))
             \/ (\E p \in Policy : EditPolicy(p))
      PROVE  WaitSteps
  BY <1>7, OthersWait DEF Tick, ChangeWorkspace, ChangeRole, EditPolicy, Change, stepVars, controlVars
<1>8. \A p : (p \in Worker \/ p \in Device) => p \in Process
  BY DEF Process
<1>9. ASSUME NEW w \in Worker, CloudWorker(w) PROVE WaitSteps
  BY <1>4, <1>5, <1>8, <1>9, ClaimWaits DEF CloudWorker, Handler, FinishStep
<1>10. ASSUME NEW d \in Device, Runner(d) PROVE WaitSteps
  BY <1>4, <1>5, <1>6, <1>8, <1>10, ClaimWaits DEF Runner, RunnerExecute, Result
<1> QED
  BY <1>1, <1>2, <1>3, <1>5, <1>7, <1>9, <1>10, ControlWaits DEF Next, Environment

LEMMA InTurnStep ==
  ASSUME Sound, InTurn, [Next]_vars
  PROVE  InTurn'
<1>1. WaitSteps /\ FinalStep
  <2>1. CASE Next
    BY <2>1, FourKinds, FreshNoOrphans, KindsFinal, EveryStepWaits DEF Sound, AnyKind
  <2>2. CASE UNCHANGED vars
    BY <2>2, EveryStepWaits DEF Sound, FinalStep, vars, stepVars, approvalVars
  <2> QED
    BY <2>1, <2>2
<1> SUFFICES ASSUME NEW s \in Step, stepStatus'[s] = "waiting_approval"
             PROVE  /\ Gated(s)'
                    /\ \A r \in Step : Sibling(r, s) /\ r[2] < s[2] => stepStatus'[r] = "succeeded"
                    /\ \A d \in Device : Kind(s)'.place = d => device'[d] = "enrolled"
  BY DEF InTurn, Sibling
<1>2. WaitStep(s)
  BY <1>1 DEF WaitSteps
<1>3. stepStatus[s] # "none" /\ Gated(s)
      /\ (\A r \in Step : Sibling(r, s) /\ r[2] < s[2] => stepStatus[r] = "succeeded")
      /\ \A d \in Device : Kind(s).place = d => device'[d] = "enrolled"
  BY <1>2 DEF WaitStep, InTurn, Undecided
<1>4. plan'[s[1]] = plan[s[1]]
  <2>1. CASE Next
    <3>1. AnyKind
      BY <2>1, FourKinds, FreshNoOrphans DEF Sound, AnyKind
    <3> QED
      BY <1>3, <3>1, PlanKept DEF Sound
  <2>2. CASE UNCHANGED vars
    BY <2>2 DEF vars, taskVars
  <2> QED
    BY <2>1, <2>2
<1>5. Kind(s)' = Kind(s) /\ (Gated(s)' <=> Gated(s))
  BY <1>4 DEF Kind, Gated
<1> QED
  BY <1>1, <1>3, <1>5 DEF FinalStep, Terminal

\* An undecided gated step has its approval, and it waits for a pending one alone.
HasApproval ==
  \A s \in Step : stepStatus[s] \in Undecided /\ Gated(s) =>
    /\ approval[s] \in {"pending", "approved"}
    /\ stepStatus[s] = "waiting_approval" => approval[s] = "pending"

\* A step that runs was taken.
RunningTaken == \A s \in Step : stepStatus[s] = "running" => attempts[s] > 0

Decidable == Sound /\ OneStepRuns /\ RowsPlanned /\ HasApproval /\ InTurn /\ RunningTaken

LEMMA RunningTakenStep ==
  ASSUME Sound, RunningTaken, [Next]_vars
  PROVE  RunningTaken'
<1>1. CASE UNCHANGED vars
  BY <1>1 DEF vars, stepVars, RunningTaken
<1>2. ASSUME Calm \/ \E p \in Process : Called(p) \/ Recorded(p) PROVE RunningTaken'
  <2>1. \A s \in Step : stepStatus'[s] = "running" => stepStatus[s] = "running"
    BY <1>2, NothingStarts
  <2>2. attempts' = attempts
    BY <1>2 DEF Calm, Called, Recorded
  <2> QED
    BY <2>1, <2>2 DEF RunningTaken
<1>3. ASSUME NEW p \in Process, NEW s \in Step, Taken(p, s) PROVE RunningTaken'
  <2>1. attempts' = [attempts EXCEPT ![s] = @ + 1] /\ \A r \in Step \ {s} : RowStep(r)
    BY <1>3 DEF Taken
  <2>2. attempts'[s] > 0
    BY <2>1 DEF Sound, TypeOK
  <2>3. \A r \in Step \ {s} : attempts'[r] = attempts[r]
    BY <2>1 DEF Sound, TypeOK
  <2>4. \A r \in Step \ {s} : stepStatus'[r] = "running" => stepStatus[r] = "running"
    BY <2>1 DEF RowStep, Undecided
  <2> QED
    BY <2>2, <2>3, <2>4 DEF RunningTaken
<1>4. CASE Next
  BY <1>2, <1>3, <1>4, FourKinds, FreshNoOrphans DEF Sound
<1> QED
  BY <1>1, <1>4

LEMMA PlansKept ==
  ASSUME TypeOK, OneStepRuns, RowsPlanned, Decisions, TypeOK'
  PROVE  OneStepRuns' /\ RowsPlanned'
<1>1. OneStepRuns'
  BY DEF Decisions, RunStep, OneStepRuns
<1>2. RowsPlanned'
  <2> SUFFICES ASSUME NEW s \in Step, stepStatus'[s] # "none" PROVE s[2] <= Len(plan'[s[1]])
    BY DEF RowsPlanned
  <2>1. CASE stepStatus[s] # "none"
    BY <2>1 DEF Decisions, DecisionStep, RowsPlanned
  <2>2. CASE stepStatus[s] = "none"
    BY <2>2 DEF Decisions, DecisionStep
  <2> QED
    BY <2>1, <2>2
<1> QED
  BY <1>1, <1>2

LEMMA HasApprovalStep ==
  ASSUME Rows, HasApproval, Decisions
  PROVE  HasApproval'
<1> SUFFICES ASSUME NEW s \in Step, stepStatus'[s] \in Undecided, Gated(s)'
             PROVE  /\ approval'[s] \in {"pending", "approved"}
                    /\ stepStatus'[s] = "waiting_approval" => approval'[s] = "pending"
  BY DEF HasApproval
<1>1. DecisionStep(s)
  BY DEF Decisions
<1>2. CASE stepStatus[s] = "none"
  BY <1>1, <1>2 DEF DecisionStep, Undecided
<1>3. CASE stepStatus[s] # "none"
  <2>1. Gated(s)
    BY <1>1, <1>3 DEF DecisionStep, Gated, Kind
  <2>2. CASE approval'[s] = approval[s] /\ stepStatus[s] \in Undecided
    <3>1. /\ approval[s] \in {"pending", "approved"}
          /\ stepStatus[s] = "waiting_approval" => approval[s] = "pending"
      BY <2>1, <2>2 DEF HasApproval
    <3>2. stepStatus'[s] = "waiting_approval" /\ stepStatus[s] = "queued" => approval[s] # "approved"
      BY <1>1, <1>3, <2>1, <2>2 DEF DecisionStep, Undecided
    <3> QED
      BY <2>2, <3>1, <3>2 DEF Undecided
  <2>3. CASE ~(approval'[s] = approval[s] /\ stepStatus[s] \in Undecided)
    BY <1>1, <1>3, <2>3 DEF DecisionStep, Undecided
  <2> QED
    BY <2>2, <2>3
<1> QED
  BY <1>2, <1>3

\* The rows of a task with a step that waits in its turn do not lapse under a claim.
LEMMA WaitersAreCandidates ==
  ASSUME Sound, InTurn, RunningTaken, NEW s \in Step, stepStatus[s] = "waiting_approval",
         taskStatus[s[1]] \in Open
  PROVE  s \in Candidates(Kind(s).place)
<1>1. \A r \in Step : r \in Lapsed => stepStatus[r] = "running" /\ attempts[r] > 0
  BY DEF Lapsed, RunningTaken
<1>2. \A r \in Step : Sibling(r, s) => r \notin Lapsed
  <2> SUFFICES ASSUME NEW r \in Step, Sibling(r, s), r \in Lapsed PROVE FALSE
    OBVIOUS
  <2>1. r[2] \in Int /\ s[2] \in Int /\ r # s
    BY <1>1 DEF Step
  <2>2. r[2] < s[2] \/ s[2] < r[2]
    BY <2>1 DEF Sibling, Step
  <2>3. CASE r[2] < s[2]
    BY <1>1, <2>3 DEF InTurn
  <2>4. CASE s[2] < r[2]
    BY <1>1, <2>4 DEF Sound, Ordered, Sibling
  <2> QED
    BY <2>2, <2>3, <2>4
<1>3. s[1] \notin TasksOf(Lapsed) /\ s[1] \in Task
  BY <1>2 DEF TasksOf, Sibling, Step, Lapsed
<1>4. \A r \in Step : Sibling(r, s) /\ r[2] < s[2] => stepStatus[r] = "succeeded"
  BY DEF InTurn
<1> QED
  BY <1>2, <1>3, <1>4 DEF Candidates, Undecided

LEMMA WaitersCanBeDecided ==
  ASSUME Decidable
  PROVE  DecisionReachable
<1> SUFFICES ASSUME NEW s \in Step, stepStatus[s] = "waiting_approval", taskStatus[s[1]] \in Open
             PROVE  /\ s \in Candidates(Kind(s).place)
                    /\ \A d \in Device : Kind(s).place = d => device[d] = "enrolled"
                    /\ \/ approval[s] = "pending" /\ expires[s] > 0 /\ ParentAllows(s[1])
                       \/ Verdict(s) \in {"cancelled", "failed"}
  BY DEF DecisionReachable
<1>1. s \in Candidates(Kind(s).place)
  BY WaitersAreCandidates DEF Decidable
<1>2. Gated(s) /\ \A d \in Device : Kind(s).place = d => device[d] = "enrolled"
  BY DEF Decidable, InTurn
<1>3. approval[s] = "pending"
  BY <1>2 DEF Decidable, HasApproval, Undecided
<1>4. expires[s] > 0 \/ expires[s] = 0
  BY EngineAssumption DEF Decidable, Sound, TypeOK
<1>5. expires[s] = 0 \/ ~ParentAllows(s[1]) => Verdict(s) \in {"cancelled", "failed"}
  BY <1>2 DEF Verdict
<1> QED
  BY <1>1, <1>2, <1>3, <1>4, <1>5

\* A step that waits for a person can be decided by one, or ends at the next claim: no freeze,
\* lapse, cancellation, revocation, expiry or stopped run (engine.py approve, cancel, device, claim;
\* AgentLoop._stop) leaves it in an open task where neither can happen.
THEOREM WaitingStepsCanBeDecided == Spec => []DecisionReachable
<1>1. Init => Decidable
  <2> SUFFICES ASSUME Init PROVE Decidable
    OBVIOUS
  <2>1. OneStepRuns /\ RowsPlanned /\ HasApproval /\ InTurn /\ RunningTaken
    BY DEF Init, OneStepRuns, RowsPlanned, HasApproval, InTurn, RunningTaken, Undecided
  <2> QED
    BY <2>1, SoundInit DEF Decidable
<1>2. Decidable /\ [Next]_vars => Decidable'
  <2> SUFFICES ASSUME Decidable, [Next]_vars PROVE Decidable'
    OBVIOUS
  <2>1. Decisions
    BY EveryStepDecides DEF Decidable, Sound
  <2>2. Sound' /\ TypeOK'
    BY SoundStep DEF Decidable, Sound
  <2>3. InTurn' /\ RunningTaken'
    BY InTurnStep, RunningTakenStep DEF Decidable
  <2> QED
    BY <2>1, <2>2, <2>3, PlansKept, HasApprovalStep DEF Decidable, Sound
<1>3. Decidable => DecisionReachable
  BY WaitersCanBeDecided
<1> QED
  BY <1>1, <1>2, <1>3, PTL DEF Spec

-----------------------------------------------------------------------------
(* Independent approval. *)

\* No edit of the pack brings back a policy that a task is bound to.
FreshEdit == \A t \in Task : policy' # policy /\ taskStatus[t] # "none" => fingerprint[t] # policy'

\* What a creator approved himself was approved under another policy than his task's.
Independent ==
  \A s \in Step : fingerprint[s[1]] \in IndependentPolicy /\ approver[s] = creator[s[1]]
    => /\ approval[s] # "consumed"
       /\ approval[s] = "approved" => policy # fingerprint[s[1]]

LEMMA IndependentStep ==
  ASSUME TypeOK, TaskStatusFresh, Rows, Independent, Decisions, FreshEdit \/ policy' = policy
  PROVE  Independent'
<1> SUFFICES ASSUME NEW s \in Step, fingerprint'[s[1]] \in IndependentPolicy,
                    approver'[s] = creator'[s[1]]
             PROVE  /\ approval'[s] # "consumed"
                    /\ approval'[s] = "approved" => policy' # fingerprint'[s[1]]
  BY DEF Independent
<1>1. DecisionStep(s) /\ s[1] \in Task
  BY DEF Decisions, Step
<1>2. CASE stepStatus[s] = "none"
  <2>1. approval[s] = "none"
    BY <1>2 DEF Rows
  <2> QED
    BY <1>1, <1>2, <2>1 DEF DecisionStep
<1>3. CASE stepStatus[s] # "none"
  <2>1. creator'[s[1]] = creator[s[1]] /\ fingerprint'[s[1]] = fingerprint[s[1]]
    BY <1>1, <1>3 DEF DecisionStep
  <2>2. taskStatus[s[1]] # "none"
    BY <1>3, FreshNoOrphans DEF NoOrphans
  <2>3. policy # fingerprint[s[1]] => policy' # fingerprint[s[1]]
    BY <1>1, <2>2 DEF FreshEdit
  <2>4. approver'[s] = approver[s] =>
          /\ approval[s] # "consumed"
          /\ approval[s] = "approved" => policy # fingerprint[s[1]]
    BY <2>1 DEF Independent
  <2> QED
    BY <1>1, <1>3, <2>1, <2>3, <2>4 DEF DecisionStep
<1> QED
  BY <1>2, <1>3

\* What an independent decision needs of the other invariants.
LEMMA IndependentActs ==
  ASSUME Sound, Independent
  PROVE  IndependentApproval
<1> SUFFICES ASSUME NEW s \in Step, effects[s] > 0, Gated(s),
                    fingerprint[s[1]] \in IndependentPolicy
             PROVE  approver[s] # creator[s[1]]
  BY DEF IndependentApproval
<1>1. approval[s] = "consumed"
  BY DEF Sound, Once, Authorised, TypeOK
<1> QED
  BY <1>1 DEF Independent

\* prd-v02 AG-05 as the code keeps it: unless an edit of the pack brings back a policy that a task
\* is still bound to, no creator's own approval lets his step act where the policy of the task asks
\* for an independent one (approve, operator_reply, claim).
THEOREM IndependentUnlessEditedBack == Spec /\ [][FreshEdit]_vars => []IndependentApproval
<1> DEFINE IInv == Sound /\ OneStepRuns /\ RowsPlanned /\ Independent
<1>1. Init => IInv
  <2> SUFFICES ASSUME Init PROVE IInv
    OBVIOUS
  <2>1. OneStepRuns /\ RowsPlanned /\ Independent
    BY DEF Init, OneStepRuns, RowsPlanned, Independent
  <2> QED
    BY <2>1, SoundInit
<1>2. IInv /\ [Next]_vars /\ [FreshEdit]_vars => IInv'
  <2> SUFFICES ASSUME IInv, [Next]_vars, [FreshEdit]_vars PROVE IInv'
    OBVIOUS
  <2>1. Decisions
    BY EveryStepDecides DEF Sound
  <2>2. Sound' /\ TypeOK'
    BY SoundStep DEF Sound
  <2>3. FreshEdit \/ policy' = policy
    BY DEF vars, envVars
  <2> QED
    BY <2>1, <2>2, <2>3, PlansKept, IndependentStep DEF Sound
<1>3. IInv => IndependentApproval
  BY IndependentActs
<1> QED
  BY <1>1, <1>2, <1>3, PTL DEF Spec

\* A task is bound to the policy in force as it is created; a change of the policy is counted.
BindStep ==
  \/ UNCHANGED <<fingerprint, policy, changes>>
  \/ /\ \A t \in Task : fingerprint'[t] \in {fingerprint[t], policy}
     /\ UNCHANGED <<policy, changes>>
  \/ changes < MaxChanges /\ changes' = changes + 1 /\ fingerprint' = fingerprint

LEMMA EveryStepBinds ==
  ASSUME TypeOK, [Next]_vars
  PROVE  BindStep
<1> USE DEF BindStep
<1>1. CASE UNCHANGED vars
  BY <1>1 DEF vars, taskVars, envVars
<1>2. ASSUME NEW t \in Task, NEW a, NEW p, NEW by, NEW run, Create(t, a, p, by, run) PROVE BindStep
  <2>1. fingerprint' = [fingerprint EXCEPT ![t] = policy] /\ UNCHANGED <<policy, changes>>
    BY <1>2 DEF Create, envVars
  <2> QED
    BY <2>1 DEF TypeOK
<1>3. CASE Arrival
  BY <1>2, <1>3 DEF Arrival, Submit, SubmitForRun, OperatorReply
<1>4. ASSUME NEW a \in Actor, NEW s \in Step, NEW x, Approve(s, a, x) \/ Reconcile(s, a, x)
      PROVE  BindStep
  BY <1>4 DEF Approve, Reconcile, taskVars, envVars
<1>5. ASSUME NEW a \in Actor, Freeze(a) \/ Resume(a) \/ \E t \in Task : Cancel(t, a) PROVE BindStep
  BY <1>5 DEF Freeze, Resume, Cancel, taskVars, envVars
<1>6. ASSUME NEW a \in Actor, NEW d \in Device, NEW x, ChangeDevice(d, a, x) PROVE BindStep
  BY <1>6 DEF ChangeDevice, taskVars, envVars
<1>7. CASE Control
  BY <1>4, <1>5, <1>6, <1>7 DEF Control
<1>8. CASE Runs
  BY <1>8 DEF Runs, RunDeadline, StopRun, RunAdvances, taskVars, envVars
<1>9. ASSUME NEW p, Claim(p) PROVE BindStep
  BY <1>9 DEF Claim, ClaimNothing, ClaimStep, Record, taskVars, envVars
<1>10. ASSUME NEW p, Fence(p) \/ Execute(p) \/ Finish(p) \/ Crash(p) PROVE BindStep
  BY <1>10 DEF Fence, Execute, Finish, Crash, taskVars, envVars
<1>11. ASSUME NEW d \in Device, Connect(d) \/ Heartbeat(d) PROVE BindStep
  BY <1>11 DEF Connect, Heartbeat, taskVars, envVars
<1>12. CASE \E w \in Worker : CloudWorker(w)
  BY <1>9, <1>10, <1>12 DEF CloudWorker, Handler, FinishStep
<1>13. CASE \E d \in Device : Runner(d)
  BY <1>9, <1>10, <1>11, <1>13 DEF Runner, RunnerExecute, Result
<1>14. CASE Tick
  BY <1>14 DEF Tick, taskVars, envVars
<1>15. CASE ChangeWorkspace \/ (\E a \in Actor, r \in Role : ChangeRole(a, r))
            \/ (\E p \in Policy : EditPolicy(p))
  BY <1>15 DEF ChangeWorkspace, ChangeRole, EditPolicy, Change, taskVars
<1> QED
  BY <1>1, <1>3, <1>7, <1>8, <1>10, <1>12, <1>13, <1>14, <1>15 DEF Next, Environment

BoundBeforeEdit == changes = 0 => \A t \in Task : fingerprint[t] = policy

\* A pack edited at most once keeps the promise without more ado: the edit leaves every task that
\* it finds bound to a policy that does not come back.
THEOREM IndependentOnOneEdit ==
  ASSUME MaxChanges <= 1
  PROVE  Spec => []IndependentApproval
<1>1. Init => TypeOK /\ BoundBeforeEdit
  BY TypeInit DEF Init, BoundBeforeEdit
<1>2. TypeOK /\ BoundBeforeEdit /\ [Next]_vars => TypeOK' /\ BoundBeforeEdit'
  <2> SUFFICES ASSUME TypeOK, BoundBeforeEdit, [Next]_vars PROVE TypeOK' /\ BoundBeforeEdit'
    OBVIOUS
  <2>1. TypeOK' /\ BindStep
    BY TypeStep, EveryStepBinds
  <2>2. changes \in Nat
    BY EngineAssumption DEF TypeOK
  <2> QED
    BY <2>1, <2>2 DEF BindStep, BoundBeforeEdit
<1>3. TypeOK /\ BoundBeforeEdit /\ [Next]_vars => [FreshEdit]_vars
  <2> SUFFICES ASSUME TypeOK, BoundBeforeEdit, [Next]_vars, NEW t \in Task, policy' # policy
               PROVE  fingerprint[t] # policy'
    BY DEF FreshEdit
  <2>1. changes < MaxChanges
    BY EveryStepBinds DEF BindStep
  <2>2. changes = 0
    BY <2>1, EngineAssumption DEF TypeOK
  <2> QED
    BY <2>2 DEF BoundBeforeEdit
<1> QED
  BY <1>1, <1>2, <1>3, IndependentUnlessEditedBack, PTL DEF Spec
=============================================================================
