--------------------------- MODULE ReconcilersProofs ---------------------------
(***************************************************************************)
(* What the engine still guarantees with the two reconcilers beside it, and *)
(* what they guarantee themselves, for every value of the constants.  Every *)
(* transition is one of the engine's four kinds or a settlement, which moves *)
(* one row from doubt to success.                                           *)
(***************************************************************************)
EXTENDS Reconcilers, TaskEngineSafety

\* The row a settlement writes, and all that it leaves alone.
Settlement(s) ==
  /\ stepStatus[s] = "uncertain" /\ s \in evidence
  /\ stepStatus' = [stepStatus EXCEPT ![s] = "succeeded"]
  /\ evidence' = evidence \ {s} /\ settled' = settled \union {s}
  /\ UNCHANGED <<plan, attempts, approval, approver, job, effects, reconciled>>
  /\ \/ ~Crm(s) /\ Refresh({s[1]})
     \/ Crm(s) /\ UNCHANGED taskStatus

\* The engine moves, or nothing but the evidence does, and what is found did happen.
Beside ==
  /\ AnyKind /\ Refreshed /\ settled' = settled
  /\ evidence' \subseteq Step
  /\ \A s \in evidence' : s \in evidence \/ Crm(s) \/ effects[s] > 0

LEMMA QuietBeside ==
  ASSUME UNCHANGED vars, UNCHANGED settled, evidence' \subseteq Step,
         \A s \in evidence' : s \in evidence \/ Crm(s) \/ effects[s] > 0
  PROVE  Beside
<1>1. UNCHANGED <<stepStatus, taskStatus, approval, approver, plan, attempts, effects, reconciled, job>>
  BY DEF vars, taskVars, stepVars, approvalVars, history
<1> QED
  BY <1>1, QuietCalm DEF Beside, AnyKind, JobStep

\* The journal, the account and the connections change beside the rows.
LEMMA EngineIsNext ==
  ASSUME EngineStep
  PROVE  Next
BY DEF EngineStep, Request, Next, CloudWorker

\* What the Google account still holds whole, a request of that step put there.
WholeIsSent == \A s \in Step : box[s] = "whole" => effects[s] > 0

LEMMA FiveKinds ==
  ASSUME TypeOK, NoOrphans, Rows, WholeIsSent, evidence \subseteq Step, [ReconcilersNext]_allVars
  PROVE  Beside \/ \E s \in Step : Settlement(s)
<1>1. CASE UNCHANGED <<vars, evidence, settled>>
  BY <1>1, QuietBeside
<1>2. CASE EngineStep /\ UNCHANGED <<journal, renewed, evidence, settled>>
  BY <1>2, EngineIsNext, FourKinds DEF Beside, AnyKind
<1>3. ASSUME NEW s \in Step, NEW a \in Actor, GoogleLook(s, a) \/ CrmLook(s, a) PROVE Beside
  <2>1. /\ evidence' = evidence \union {s} /\ UNCHANGED <<vars, settled>>
        /\ Crm(s) \/ effects[s] > 0
    BY <1>3 DEF GoogleLook, CrmLook, Found, GoogleMatch, WholeIsSent
  <2> QED
    BY <2>1, QuietBeside
<1>4. ASSUME NEW s \in Step, Drop(s) PROVE Beside
  BY <1>4, QuietBeside DEF Drop
<1>5. ASSUME NEW s \in Step, NEW a \in Actor, GoogleSettle(s, a) PROVE Settlement(s)
  BY <1>5 DEF GoogleSettle, GoogleLoad, Google, Settled, RestKept, Settlement, taskVars,
              approvalVars, history
<1>6. ASSUME NEW s \in Step, CrmSettle(s) PROVE Settlement(s)
  BY <1>6 DEF CrmSettle, Settled, RestKept, Settlement, taskVars, approvalVars, history
<1>7. ASSUME \/ Renew \/ \E s \in Step : Spoil(s)
             \/ \E w \in Worker : JournalDispatch(w) \/ JournalAnswer(w)
      PROVE  UNCHANGED <<vars, evidence, settled>>
  BY <1>7 DEF Renew, Spoil, JournalDispatch, JournalAnswer
<1>8. UNCHANGED allVars => UNCHANGED <<vars, evidence, settled>>
  BY DEF allVars
<1> QED
  BY <1>1, <1>2, <1>3, <1>4, <1>5, <1>6, <1>7, <1>8 DEF ReconcilersNext, Reconciling

\* Types survive both: the engine's own transitions by its theorem, a settlement by inspection.
LEMMA ReconcilersType ==
  ASSUME TypeOK, evidence \subseteq Step, [ReconcilersNext]_allVars
  PROVE  TypeOK'
<1>1. CASE [Next]_vars
  BY <1>1, TypeStep
<1>2. ASSUME NEW s \in Step, stepStatus' = [stepStatus EXCEPT ![s] = "succeeded"],
             \/ claim' = [claim EXCEPT ![s] = 0] /\ lease' = [lease EXCEPT ![s] = 0] /\ Refresh({s[1]})
             \/ UNCHANGED <<claim, lease, taskStatus>>,
             RestKept
      PROVE  TypeOK'
  <2>1. stepStatus' \in [Step -> StepStatus]
    BY <1>2 DEF TypeOK, StepStatus
  <2>2. taskStatus' \in [Task -> StepStatus]
    BY <1>2, <2>1, RefreshType DEF TypeOK
  <2>3. claim' \in [Step -> Nat] /\ lease' \in [Step -> 0..LeaseTicks]
    <3>1. /\ claim \in [Step -> Nat] /\ lease \in [Step -> 0..LeaseTicks]
          /\ 0 \in 0..LeaseTicks
      BY EngineAssumption DEF TypeOK
    <3> QED
      BY <1>2, <3>1
  <2>4. UNCHANGED <<plan, creator, fingerprint, order, parent, attempts, approval, approver, expires,
                    frozen, device, session, role, suspended, policy, changes, job, effects,
                    reconciled>>
    BY <1>2 DEF RestKept, taskVars, approvalVars, controlVars, envVars, history
  <2> QED
    BY <2>1, <2>2, <2>3, <2>4 DEF TypeOK
<1>3. ASSUME NEW s \in Step, CrmSettle(s) \/ \E a \in Actor : GoogleSettle(s, a)
      PROVE  TypeOK'
  BY <1>2, <1>3 DEF CrmSettle, GoogleSettle, Settled
<1>4. ASSUME \/ \E s \in Step : \/ Drop(s) \/ Spoil(s)
                               \/ \E a \in Actor : GoogleLook(s, a) \/ CrmLook(s, a)
             \/ Renew \/ \E w \in Worker : JournalDispatch(w) \/ JournalAnswer(w)
      PROVE  UNCHANGED vars
  BY <1>4 DEF Drop, GoogleLook, CrmLook, Found, Spoil, Renew, JournalDispatch, JournalAnswer
<1>5. UNCHANGED allVars => UNCHANGED vars
  BY DEF allVars
<1> QED
  BY <1>1, <1>3, <1>4, <1>5, EngineIsNext DEF ReconcilersNext, Reconciling

-----------------------------------------------------------------------------
(* The inductive invariant. *)

\* A row the evidence settled is a success for good.
SettledSucceeded == \A s \in settled : stepStatus[s] = "succeeded"

\* What a look-up found, and what evidence settled, did happen - but for the CRM's.
OwnEvidence == \A s \in evidence \union settled : Crm(s) \/ effects[s] > 0

Settling ==
  /\ TypeOK /\ NoOrphans /\ Rows /\ Once /\ Ordered /\ Authorised
  /\ evidence \subseteq Step /\ settled \subseteq Step
  /\ OwnEvidence /\ SettledSucceeded /\ TaskFollowsGoogle
  /\ TruthfulBut(reconciled \union settled) /\ HonestBut(reconciled \union settled)

LEMMA EffectsGrow ==
  ASSUME TypeOK, AnyKind, NEW s \in Step, effects[s] > 0
  PROVE  effects'[s] > 0
<1>1. ASSUME NEW p \in Process, Called(p) PROVE effects'[s] > 0
  <2>1. PICK effect \in 0..1 : effects' = [effects EXCEPT ![job[p].step] = @ + effect]
    BY <1>1 DEF Called
  <2> QED
    BY <2>1 DEF TypeOK
<1> QED
  BY <1>1 DEF AnyKind, Calm, Taken, Recorded

LEMMA FollowsRefreshed ==
  ASSUME TaskFollowsGoogle, Refreshed
  PROVE  TaskFollowsGoogle'
<1> SUFFICES ASSUME NEW t \in Task \ CrmTask PROVE taskStatus'[t] = Derived(stepStatus', t)
  BY DEF TaskFollowsGoogle
<1>1. CASE \A s \in Step : s[1] = t => stepStatus'[s] = stepStatus[s]
  BY <1>1, DerivedLocal DEF Refreshed, TaskFollowsGoogle
<1> QED
  BY <1>1 DEF Refreshed

LEMMA BesideStep ==
  ASSUME Settling, TypeOK', Beside
  PROVE  Settling'
<1> USE DEF Settling
<1>1. NoOrphans' /\ TaskFollowsGoogle'
  BY RefreshedNoOrphans, FollowsRefreshed DEF Beside
<1>2. Once' /\ Rows' /\ Ordered' /\ Authorised'
  BY CalmOnce, TakenOnce, CalledOnce, RecordedOnce, OrderedStep, AuthorisedStep DEF Beside, AnyKind
<1>3. evidence' \subseteq Step /\ settled' \subseteq Step
  BY DEF Beside
<1>4. OwnEvidence'
  BY <1>3, EffectsGrow DEF Beside, OwnEvidence, Crm
<1>5. SettledSucceeded'
  BY KindsFinal DEF Beside, SettledSucceeded, FinalStep, Terminal
<1>6. PICK V : V = settled
  OBVIOUS
<1>7. TruthfulBut(reconciled \union V)' /\ HonestBut(reconciled \union V)'
  BY <1>6, CalmTruth, TakenTruth, CalledTruth, RecordedTruth DEF Beside, AnyKind
<1>8. TruthfulBut(reconciled \union settled)' /\ HonestBut(reconciled \union settled)'
  BY <1>6, <1>7 DEF Beside, TruthfulBut, HonestBut
<1> QED
  BY <1>1, <1>2, <1>3, <1>4, <1>5, <1>8

\* A settlement only turns doubt into success.
LEMMA SettlementRow ==
  ASSUME TypeOK, NEW s \in Step, Settlement(s), NEW r \in Step
  PROVE  /\ r # s => stepStatus'[r] = stepStatus[r]
         /\ r = s => stepStatus[r] = "uncertain" /\ stepStatus'[r] = "succeeded"
BY DEF Settlement, TypeOK

LEMMA SettlementStep ==
  ASSUME Settling, TypeOK', NEW s \in Step, Settlement(s)
  PROVE  Settling'
<1> USE DEF Settling
<1>1. /\ UNCHANGED <<plan, attempts, approval, approver, job, effects, reconciled>>
      /\ evidence' = evidence \ {s} /\ settled' = settled \union {s} /\ s \in evidence
  BY DEF Settlement
<1>2. \A r \in Step : /\ stepStatus'[r] \in Untouched => stepStatus[r] \in Untouched
                      /\ stepStatus[r] = "succeeded" => stepStatus'[r] = "succeeded"
                      /\ stepStatus[r] = "none" <=> stepStatus'[r] = "none"
                      /\ r # s => stepStatus'[r] = stepStatus[r]
  BY SettlementRow DEF Untouched, Undecided
<1>3. NoOrphans'
  <2>1. CASE ~Crm(s)
    <3>1. \A r \in Step : r[1] \notin {s[1]} => stepStatus'[r] = stepStatus[r]
      BY <1>2
    <3> QED
      BY <2>1, <3>1, RefreshCovers, RefreshedNoOrphans DEF Settlement
  <2>2. CASE UNCHANGED taskStatus
    BY <1>2, <2>2 DEF NoOrphans
  <2> QED
    BY <2>1, <2>2 DEF Settlement
<1>4. TaskFollowsGoogle'
  <2>1. CASE ~Crm(s)
    <3>1. \A r \in Step : r[1] \notin {s[1]} => stepStatus'[r] = stepStatus[r]
      BY <1>2
    <3> QED
      BY <2>1, <3>1, RefreshCovers, FollowsRefreshed DEF Settlement
  <2>2. CASE Crm(s) /\ UNCHANGED taskStatus
    <3> SUFFICES ASSUME NEW t \in Task \ CrmTask PROVE taskStatus'[t] = Derived(stepStatus', t)
      BY DEF TaskFollowsGoogle
    <3>1. \A r \in Step : r[1] = t => stepStatus[r] = stepStatus'[r]
      BY <1>2, <2>2 DEF Crm
    <3>2. Derived(stepStatus, t) = Derived(stepStatus', t)
      BY <3>1, DerivedLocal
    <3> QED
      BY <2>2, <3>2 DEF TaskFollowsGoogle
  <2> QED
    BY <2>1, <2>2 DEF Settlement
<1>5. Once' /\ Rows' /\ Ordered'
  BY <1>1, <1>2 DEF Once, Rows, Ordered
<1>6. Authorised'
  BY <1>1 DEF Authorised, Gated, Kind
<1>7. OwnEvidence' /\ SettledSucceeded'
  BY <1>1, <1>2, SettlementRow DEF OwnEvidence, SettledSucceeded, Crm
<1>8. TruthfulBut(reconciled \union settled)' /\ HonestBut(reconciled \union settled)'
  <2>1. \A p \in Process : job[p].pc \in Busy => job[p].step \in Step
    BY BusyStep
  <2> QED
    BY <1>1, <1>2, <2>1 DEF TruthfulBut, HonestBut
<1> QED
  BY <1>1, <1>3, <1>4, <1>5, <1>6, <1>7, <1>8

LEMMA SettlingInit == ReconcilersInit => Settling
<1> SUFFICES ASSUME ReconcilersInit PROVE Settling
  OBVIOUS
<1>1. Sound
  BY SoundInit DEF ReconcilersInit
<1>2. evidence = {} /\ settled = {}
  BY DEF ReconcilersInit
<1>3. TaskFollowsGoogle
  BY <1>1 DEF Sound, TaskStatusFresh, TaskFollowsGoogle
<1>4. TruthfulBut(reconciled \union settled) /\ HonestBut(reconciled \union settled)
  BY <1>1, <1>2 DEF Sound, Truthful, TruthfulBut, HonestOutcome, HonestBut
<1> QED
  BY <1>1, <1>2, <1>3, <1>4, FreshNoOrphans DEF Settling, Sound, OwnEvidence, SettledSucceeded

-----------------------------------------------------------------------------
(* The journal. *)

\* A runner holds steps of its own place alone, so it never sends a Google write.
RunnersStayHome == \A d \in Device : job[d].pc \in Busy => Kind(job[d].step).place = d

\* A worker that has sent, or refused to send, a Google write knows what the journal will say.
AnswersAreJournalled ==
  \A p \in Process : job[p].pc = "done" /\ Google(job[p].step) =>
    \/ job[p].out = "uncertain"
    \/ job[p].out = "succeeded" /\ journal[job[p].step] \in {"dispatching", "succeeded"}

Journalled ==
  /\ journal \in [Step -> {"none", "dispatching", "succeeded", "uncertain"}]
  /\ box \in [Step -> {"absent", "whole", "spoilt"}]
  /\ \A s \in Step : stepStatus[s] = "none" => journal[s] = "none"
  /\ WholeIsSent /\ RunnersStayHome /\ AnswersAreJournalled /\ JournalAgrees

LEMMA JournalledInit == ReconcilersInit => Journalled
<1> SUFFICES ASSUME ReconcilersInit PROVE Journalled
  OBVIOUS
<1>1. /\ journal = [s \in Step |-> "none"] /\ box = [s \in Step |-> "absent"]
      /\ \A s \in Step : stepStatus[s] = "none" /\ ~Google(s)
      /\ \A p \in Process : job[p].pc = "idle"
  BY DEF ReconcilersInit, Init, Idle, Google
<1>2. RunnersStayHome /\ AnswersAreJournalled
  BY <1>1 DEF RunnersStayHome, AnswersAreJournalled, Busy, Process
<1>3. WholeIsSent /\ JournalAgrees
  BY <1>1 DEF WholeIsSent, JournalAgrees
<1> QED
  BY <1>1, <1>2, <1>3 DEF Journalled

\* The engine's transitions as the journal sees them.
JournalKind ==
  \/ Calm /\ box' = box
  \/ \E p \in Process, s \in Step : Taken(p, s) /\ Kind(s).place = PlaceOf(p) /\ box' = box
  \/ \E d \in Device : Called(d) /\ box' = box
  \/ \E w \in Worker :
       /\ Called(w)
       /\ Google(job[w].step) => IF journal[job[w].step] = "dispatching" THEN job'[w].out # "failed"
                                 ELSE job'[w].out = "uncertain" /\ effects' = effects
       /\ box' = [r \in Step |-> IF effects'[r] > effects[r] THEN "whole" ELSE box[r]]
  \/ \E p \in Process : Recorded(p) /\ (p \in Device \/ Returned(p)) /\ box' = box

LEMMA JournalKinds ==
  ASSUME TypeOK, NoOrphans, Rows, EngineStep
  PROVE  JournalKind
<1>1. ASSUME Arrival \/ Control \/ Runs \/ Environment, box' = box PROVE JournalKind
  BY <1>1, OthersCalm DEF JournalKind
<1>2. ASSUME NEW p \in Process, Claim(p), box' = box PROVE JournalKind
  <2>1. ASSUME NEW s \in Step, ClaimStep(p, s) PROVE Taken(p, s) /\ Kind(s).place = PlaceOf(p)
    BY <2>1, ClaimStepTakes DEF ClaimStep, Candidates
  <2> QED
    BY <1>2, <2>1, ClaimNothingCalm DEF Claim, JournalKind
<1>3. ASSUME NEW w \in Worker, Fence(w) \/ (FinishStep(w) /\ Returned(w)), box' = box
      PROVE  JournalKind
  <2>1. w \in Process
    BY DEF Process
  <2> QED
    BY <1>3, <2>1, ProcessCalm, FinishRecords DEF FinishStep, JournalKind
<1>4. ASSUME NEW d \in Device, Runner(d), box' = box PROVE JournalKind
  <2>1. d \in Process
    BY DEF Process
  <2>2. Calm \/ (\E s \in Step : Taken(d, s)) \/ Called(d) \/ Recorded(d) \/ Claim(d)
    BY <1>4, <2>1, ProcessCalm, OtherCalm, ExecuteCalls, FinishRecords
    DEF Runner, RunnerExecute, Result
  <2>3. ~Claim(d) => Calm \/ Called(d) \/ Recorded(d)
    BY <1>4, <2>1, ProcessCalm, OtherCalm, ExecuteCalls, FinishRecords
    DEF Runner, RunnerExecute, Result
  <2> QED
    BY <1>2, <1>4, <2>1, <2>3 DEF JournalKind
<1>5. ASSUME NEW w \in Worker, Request(w) PROVE JournalKind
  <2>1. w \in Process
    BY DEF Process
  <2>2. Called(w)
    BY <1>5, <2>1, ExecuteCalls DEF Request, Handler
  <2> QED
    BY <1>5, <2>2 DEF Request, JournalKind
<1> QED
  BY <1>1, <1>2, <1>3, <1>4, <1>5 DEF EngineStep, Process

\* A step with a row keeps its kind.
LEMMA KindKept ==
  ASSUME TypeOK, Once, AnyKind, NEW s \in Step, stepStatus[s] # "none"
  PROVE  Kind(s)' = Kind(s) /\ Google(s)' = Google(s) /\ stepStatus'[s] # "none"
<1>1. plan'[s[1]] = plan[s[1]]
  BY PlanKept
<1>2. stepStatus'[s] # "none"
  <2>1. ASSUME NEW p \in Process, Recorded(p) PROVE stepStatus'[s] # "none"
    <3>1. job[p].step \in Step /\ job[p].out \in {"succeeded", "failed", "uncertain"}
      BY <2>1, BusyStep DEF TypeOK, Job, Recorded, Busy
    <3> QED
      BY <2>1, <3>1 DEF Recorded, TypeOK
  <2> QED
    BY <2>1 DEF AnyKind, Calm, RowStep, Taken, Called, Undecided
<1> QED
  BY <1>1, <1>2 DEF Kind, Google, Crm

\* A step whose process is busy has a row.
LEMMA BusyRow ==
  ASSUME TypeOK, Once, NEW p \in Process, job[p].pc \in Busy
  PROVE  job[p].step \in Step /\ stepStatus[job[p].step] # "none"
BY BusyStep DEF Once, Untouched

LEMMA CalmJournal ==
  ASSUME Settling, Journalled, Calm, box' = box, journal' = journal
  PROVE  Journalled'
<1> USE DEF Settling, Journalled
<1>1. AnyKind /\ effects' = effects /\ reconciled \subseteq reconciled'
  BY DEF AnyKind, Calm
<1>2. \A p \in Process : job'[p].pc \in Busy =>
         job[p].pc \in Busy /\ job'[p].step = job[p].step
  BY DEF Calm, JobStep, Busy
<1>3. \A p \in Process : job'[p].pc = "done" => job'[p] = job[p]
  BY DEF Calm, JobStep, Busy
<1>4. WholeIsSent'
  BY <1>1 DEF WholeIsSent
<1>5. RunnersStayHome'
  <2> SUFFICES ASSUME NEW d \in Device, job'[d].pc \in Busy
               PROVE  plan'[job'[d].step[1]][job'[d].step[2]].place = d
    BY DEF RunnersStayHome, Kind
  <2>1. job[d].pc \in Busy /\ job'[d].step = job[d].step /\ d \in Process
    BY <1>2 DEF Process
  <2>2. PICK r \in Step : r = job[d].step /\ stepStatus[r] # "none"
    BY <2>1, BusyRow
  <2>3. Kind(r)' = Kind(r)
    BY <1>1, <2>2, KindKept
  <2>4. Kind(r).place = d
    BY <2>1, <2>2 DEF RunnersStayHome
  <2> QED
    BY <2>1, <2>2, <2>3, <2>4 DEF Kind
<1>6. AnswersAreJournalled'
  <2> SUFFICES ASSUME NEW p \in Process, job'[p].pc = "done", Google(job[p].step)', job'[p] = job[p]
               PROVE  \/ job[p].out = "uncertain"
                      \/ job[p].out = "succeeded" /\ journal[job[p].step] \in {"dispatching", "succeeded"}
    BY <1>3 DEF AnswersAreJournalled, Google, Crm, Kind
  <2>1. job[p].pc = "done" /\ job[p].pc \in Busy
    BY DEF Busy
  <2>2. Google(job[p].step)
    BY <1>1, <2>1, BusyRow, KindKept
  <2> QED
    BY <2>1, <2>2 DEF AnswersAreJournalled
<1>7. \A s \in Step : stepStatus'[s] = "none" => journal'[s] = "none"
  BY DEF Calm, RowStep, Undecided
<1>8. JournalAgrees'
  <2> SUFFICES ASSUME NEW s \in Step, Google(s)'
               PROVE  /\ effects[s] > 0 => journal[s] # "none"
                      /\ journal[s] = "succeeded" => effects[s] > 0
                      /\ stepStatus'[s] = "succeeded" /\ s \notin reconciled' => journal[s] = "succeeded"
    BY <1>1 DEF JournalAgrees
  <2>1. CASE stepStatus[s] = "none"
    <3>1. effects[s] <= attempts[s] /\ attempts[s] = 0 /\ effects[s] \in Nat
      BY <2>1 DEF Once, Untouched, TypeOK
    <3>2. journal[s] = "none" /\ stepStatus'[s] # "succeeded"
      BY <2>1 DEF Calm, RowStep, Undecided
    <3> QED
      BY <3>1, <3>2
  <2>2. CASE stepStatus[s] # "none"
    <3>1. Google(s)
      BY <1>1, <2>2, KindKept
    <3>2. stepStatus'[s] = "succeeded" /\ s \notin reconciled' => stepStatus[s] = "succeeded"
      BY DEF Calm, RowStep, Undecided
    <3> QED
      BY <1>1, <3>1, <3>2 DEF JournalAgrees
  <2> QED
    BY <2>1, <2>2
<1> QED
  BY <1>4, <1>5, <1>6, <1>7, <1>8

LEMMA TakenJournal ==
  ASSUME Settling, Journalled, NEW p \in Process, NEW s \in Step, Taken(p, s),
         Kind(s).place = PlaceOf(p), box' = box, journal' = journal
  PROVE  Journalled'
<1> USE DEF Settling, Journalled
<1>1. /\ AnyKind /\ plan' = plan /\ effects' = effects /\ reconciled' = reconciled
      /\ stepStatus[s] \in Undecided /\ stepStatus'[s] = "running"
      /\ job'[p].pc = "claimed" /\ job'[p].step = s /\ \A q \in Process \ {p} : job'[q] = job[q]
      /\ \A r \in Step \ {s} : RowStep(r)
  BY DEF AnyKind, Taken
<1>2. WholeIsSent'
  BY <1>1 DEF WholeIsSent
<1>3. RunnersStayHome'
  <2>1. ASSUME NEW d \in Device, job'[d].pc \in Busy PROVE Kind(job'[d].step).place = d
    <3>1. d \in Process
      BY DEF Process
    <3> QED
      BY <1>1, <2>1, <3>1 DEF RunnersStayHome, PlaceOf
  <2> QED
    BY <1>1, <2>1 DEF RunnersStayHome, Kind
<1>4. AnswersAreJournalled'
  <2> SUFFICES ASSUME NEW q \in Process, job'[q].pc = "done", Google(job[q].step)', job'[q] = job[q]
               PROVE  \/ job[q].out = "uncertain"
                      \/ job[q].out = "succeeded" /\ journal[job[q].step] \in {"dispatching", "succeeded"}
    BY <1>1 DEF AnswersAreJournalled, Google, Crm, Kind
  <2>1. job[q].pc = "done" /\ job[q].pc \in Busy
    BY DEF Busy
  <2>2. Google(job[q].step)
    BY <1>1, <2>1, BusyRow, KindKept
  <2> QED
    BY <2>1, <2>2 DEF AnswersAreJournalled
<1>5. \A r \in Step : stepStatus'[r] = "none" => journal'[r] = "none"
  BY <1>1 DEF RowStep, Undecided
<1>6. JournalAgrees'
  <2> SUFFICES ASSUME NEW r \in Step, Google(r)'
               PROVE  /\ effects[r] > 0 => journal[r] # "none"
                      /\ journal[r] = "succeeded" => effects[r] > 0
                      /\ stepStatus'[r] = "succeeded" /\ r \notin reconciled => journal[r] = "succeeded"
    BY <1>1 DEF JournalAgrees
  <2>1. CASE stepStatus[r] = "none"
    <3>1. effects[r] <= attempts[r] /\ attempts[r] = 0 /\ effects[r] \in Nat
      BY <2>1 DEF Once, Untouched, TypeOK
    <3>2. journal[r] = "none" /\ stepStatus'[r] # "succeeded"
      BY <1>1, <2>1 DEF RowStep, Undecided
    <3> QED
      BY <3>1, <3>2
  <2>2. CASE stepStatus[r] # "none"
    <3>1. Google(r)
      BY <1>1, <2>2, KindKept
    <3>2. stepStatus'[r] = "succeeded" /\ r \notin reconciled => stepStatus[r] = "succeeded"
      BY <1>1 DEF RowStep, Undecided
    <3> QED
      BY <3>1, <3>2 DEF JournalAgrees
  <2> QED
    BY <2>1, <2>2
<1> QED
  BY <1>2, <1>3, <1>4, <1>5, <1>6

\* What a process records of a Google write, the journal says already.
LEMMA RecordedJournal ==
  ASSUME Settling, Journalled, NEW p \in Process, Recorded(p), p \in Device \/ Returned(p),
         box' = box, journal' = journal
  PROVE  Journalled'
<1> USE DEF Settling, Journalled
<1> DEFINE s == job[p].step
<1>1. /\ AnyKind /\ plan' = plan /\ effects' = effects /\ reconciled' = reconciled
      /\ job[p].pc \in {"refused", "done"} /\ job[p].pc \in Busy
      /\ stepStatus[s] = "running" /\ stepStatus' = [stepStatus EXCEPT ![s] = job[p].out]
      /\ job'[p].pc \notin Busy /\ \A q \in Process \ {p} : job'[q] = job[q]
  BY DEF AnyKind, Recorded, Busy
<1>2. s \in Step /\ job[p].out \in {"succeeded", "failed", "uncertain"}
  BY <1>1, BusyStep DEF TypeOK, Job, Busy
<1>3. stepStatus'[s] = job[p].out /\ \A r \in Step \ {s} : stepStatus'[r] = stepStatus[r]
  BY <1>1, <1>2 DEF TypeOK
<1>4. WholeIsSent'
  BY <1>1 DEF WholeIsSent
<1>5. RunnersStayHome'
  <2>1. \A d \in Device : d \in Process
    BY DEF Process
  <2> QED
    BY <1>1, <2>1 DEF RunnersStayHome, Kind
<1>6. AnswersAreJournalled'
  <2> SUFFICES ASSUME NEW q \in Process, job'[q].pc = "done", Google(job[q].step)', job'[q] = job[q]
               PROVE  \/ job[q].out = "uncertain"
                      \/ job[q].out = "succeeded" /\ journal[job[q].step] \in {"dispatching", "succeeded"}
    BY <1>1 DEF AnswersAreJournalled, Google, Crm, Kind, Busy
  <2>1. job[q].pc = "done" /\ job[q].pc \in Busy
    BY DEF Busy
  <2>2. Google(job[q].step)
    BY <1>1, <2>1, BusyRow, KindKept
  <2> QED
    BY <2>1, <2>2 DEF AnswersAreJournalled
<1>7. \A r \in Step : stepStatus'[r] = "none" => journal'[r] = "none"
  BY <1>2, <1>3
<1>8. Google(s) /\ job[p].out = "succeeded" => journal[s] = "succeeded"
  <2> SUFFICES ASSUME Google(s), job[p].out = "succeeded" PROVE journal[s] = "succeeded"
    OBVIOUS
  <2>1. p \notin Device
    BY <1>1, EngineAssumption DEF RunnersStayHome, Google
  <2>2. job[p].pc = "done"
    BY <1>1 DEF TruthfulBut
  <2>3. journal[s] \in {"dispatching", "succeeded"}
    BY <2>2 DEF AnswersAreJournalled
  <2> QED
    BY <2>1, <2>2, <2>3 DEF Returned
<1>9. JournalAgrees'
  <2> SUFFICES ASSUME NEW r \in Step, Google(r)'
               PROVE  /\ effects[r] > 0 => journal[r] # "none"
                      /\ journal[r] = "succeeded" => effects[r] > 0
                      /\ stepStatus'[r] = "succeeded" /\ r \notin reconciled => journal[r] = "succeeded"
    BY <1>1 DEF JournalAgrees
  <2>1. stepStatus[r] # "none"
    BY <1>1, <1>3 DEF Google
  <2>2. Google(r)
    BY <1>1, <2>1, KindKept
  <2>3. CASE r = s
    BY <1>3, <1>8, <2>2, <2>3 DEF JournalAgrees
  <2>4. CASE r # s
    BY <1>3, <2>2, <2>4 DEF JournalAgrees
  <2> QED
    BY <2>3, <2>4
<1> QED
  BY <1>4, <1>5, <1>6, <1>7, <1>9

\* A runner's call is no Google write; a worker's is, once it is journalled.
LEMMA CalledJournal ==
  ASSUME Settling, Journalled, NEW p \in Process, Called(p), journal' = journal,
         \/ p \in Device /\ box' = box
         \/ /\ Google(job[p].step) => IF journal[job[p].step] = "dispatching" THEN job'[p].out # "failed"
                                      ELSE job'[p].out = "uncertain" /\ effects' = effects
            /\ box' = [r \in Step |-> IF effects'[r] > effects[r] THEN "whole" ELSE box[r]]
  PROVE  Journalled'
<1> USE DEF Settling, Journalled
<1> DEFINE s == job[p].step
<1>1. /\ AnyKind /\ plan' = plan /\ stepStatus' = stepStatus /\ reconciled' = reconciled
      /\ job[p].pc \in Busy /\ job[p].pc \in Underway
      /\ job'[p].pc = "done" /\ job'[p].step = s /\ \A q \in Process \ {p} : job'[q] = job[q]
  BY DEF AnyKind, Called, Busy, Underway
<1>2. PICK out \in {"succeeded", "failed", "uncertain"}, effect \in 0..1 :
             /\ job'[p].out = out /\ (out = "failed" => effect = 0)
             /\ effects' = [effects EXCEPT ![s] = @ + effect]
  BY DEF Called
<1>3. s \in Step /\ effects[s] = 0 /\ \A r \in Step : effects[r] \in Nat
  BY <1>1, BusyStep DEF Once, TypeOK
<1>4. effects'[s] = effect /\ \A r \in Step \ {s} : effects'[r] = effects[r]
  BY <1>2, <1>3 DEF TypeOK
<1>5. Google(s) => /\ p \notin Device
                   /\ job'[p].out = "uncertain" \/ job'[p].out = "succeeded"
                   /\ journal[s] = "dispatching" \/ (job'[p].out = "uncertain" /\ effects' = effects)
  <2> SUFFICES ASSUME Google(s)
               PROVE  /\ p \notin Device
                      /\ job'[p].out = "uncertain" \/ job'[p].out = "succeeded"
                      /\ journal[s] = "dispatching" \/ (job'[p].out = "uncertain" /\ effects' = effects)
    OBVIOUS
  <2>1. p \notin Device
    BY <1>1, EngineAssumption DEF RunnersStayHome, Google
  <2>2. CASE p \in Device /\ box' = box
    BY <2>1, <2>2
  <2>3. CASE IF journal[s] = "dispatching" THEN job'[p].out # "failed"
             ELSE job'[p].out = "uncertain" /\ effects' = effects
    <3>1. CASE journal[s] = "dispatching"
      BY <1>2, <2>1, <2>3, <3>1
    <3>2. CASE journal[s] # "dispatching"
      BY <2>1, <2>3, <3>2
    <3> QED
      BY <3>1, <3>2
  <2> QED
    BY <2>2, <2>3
<1>6. \A r \in Step : Google(r)' <=> Google(r)
  BY <1>1 DEF Google, Crm, Kind
<1>7. WholeIsSent' /\ box' \in [Step -> {"absent", "whole", "spoilt"}]
  <2>1. CASE box' = box
    <3>1. \A r \in Step : effects[r] > 0 => effects'[r] > 0
      BY <1>3, <1>4
    <3> QED
      BY <2>1, <3>1 DEF WholeIsSent
  <2>2. CASE box' = [r \in Step |-> IF effects'[r] > effects[r] THEN "whole" ELSE box[r]]
    <3>1. \A r \in Step : /\ box'[r] = "whole" => box[r] = "whole" \/ effects'[r] > effects[r]
                          /\ box'[r] = "whole" \/ box'[r] = box[r]
      BY <2>2
    <3>2. \A r \in Step : effects[r] > 0 \/ effects'[r] > effects[r] => effects'[r] > 0
      BY <1>3, <1>4
    <3>3. box' \in [Step -> {"absent", "whole", "spoilt"}]
      BY <2>2
    <3> QED
      BY <3>1, <3>2, <3>3 DEF WholeIsSent
  <2> QED
    BY <2>1, <2>2
<1>8. RunnersStayHome'
  <2>1. \A d \in Device : d \in Process
    BY DEF Process
  <2> QED
    BY <1>1, <2>1 DEF RunnersStayHome, Kind
<1>9. AnswersAreJournalled'
  <2>1. Google(s) => \/ job'[p].out = "uncertain"
                     \/ job'[p].out = "succeeded" /\ journal[s] \in {"dispatching", "succeeded"}
    BY <1>5
  <2>2. \A q \in Process \ {p} : job'[q] = job[q]
    BY <1>1
  <2>3. \A q \in Process : job'[q].pc = "done" /\ Google(job'[q].step) =>
           \/ job'[q].out = "uncertain"
           \/ job'[q].out = "succeeded" /\ journal[job'[q].step] \in {"dispatching", "succeeded"}
    BY <1>1, <2>1, <2>2 DEF AnswersAreJournalled
  <2>4. \A q \in Process : Google(job[q].step)' <=> Google(job'[q].step)
    BY <1>1 DEF Google, Crm, Kind
  <2> QED
    BY <2>3, <2>4 DEF AnswersAreJournalled
<1>10. JournalAgrees'
  <2> SUFFICES ASSUME NEW r \in Step, Google(r)
               PROVE  /\ effects'[r] > 0 => journal[r] # "none"
                      /\ journal[r] = "succeeded" => effects'[r] > 0
                      /\ stepStatus[r] = "succeeded" /\ r \notin reconciled => journal[r] = "succeeded"
    BY <1>1, <1>6 DEF JournalAgrees
  <2>1. CASE r = s
    BY <1>3, <1>5, <2>1 DEF JournalAgrees
  <2>2. CASE r # s
    BY <1>4, <2>2 DEF JournalAgrees
  <2> QED
    BY <2>1, <2>2
<1> QED
  BY <1>1, <1>7, <1>8, <1>9, <1>10

\* The row of a step turns dispatching or takes the answer; nobody else holds the step.
LEMMA WrittenJournal ==
  ASSUME Settling, Journalled, NEW w \in Worker, JournalDispatch(w) \/ JournalAnswer(w)
  PROVE  Journalled'
<1> USE DEF Settling, Journalled
<1> DEFINE s == job[w].step
<1>1. PICK x : journal' = [journal EXCEPT ![s] = x] /\ x = (IF JournalAnswer(w) THEN job[w].out ELSE "dispatching")
  BY DEF JournalDispatch, JournalAnswer
<1>2. /\ w \in Process /\ job[w].pc \in Busy /\ Google(s)
      /\ UNCHANGED <<plan, stepStatus, effects, reconciled, job, box>>
      /\ JournalAnswer(w) => job[w].pc = "done" /\ journal[s] = "dispatching"
      /\ ~JournalAnswer(w) => job[w].pc = "allowed" /\ journal[s] = "none"
  BY DEF Process, JournalDispatch, JournalAnswer, Busy, vars, taskVars, stepVars, history
<1>3. s \in Step /\ stepStatus[s] # "none"
  BY <1>2, BusyRow
<1>4. journal'[s] = x /\ \A r \in Step \ {s} : journal'[r] = journal[r]
  BY <1>1, <1>3
<1>5. JournalAnswer(w) => /\ x = job[w].out /\ x \in {"succeeded", "uncertain"}
                          /\ x = "succeeded" => effects[s] > 0
  BY <1>1, <1>2 DEF AnswersAreJournalled, TruthfulBut
<1>6. ~JournalAnswer(w) => x = "dispatching"
  BY <1>1
<1>7. journal' \in [Step -> {"none", "dispatching", "succeeded", "uncertain"}]
  BY <1>1, <1>5, <1>6
<1>8. WholeIsSent' /\ RunnersStayHome'
  BY <1>2 DEF WholeIsSent, RunnersStayHome, Kind
<1>9. \A r \in Step : (Google(r)' <=> Google(r)) /\ (stepStatus'[r] = "none" => journal'[r] = "none")
  BY <1>2, <1>3, <1>4 DEF Google, Crm, Kind
<1>10. AnswersAreJournalled'
  <2> SUFFICES ASSUME NEW q \in Process, job[q].pc = "done", Google(job[q].step)
               PROVE  \/ job[q].out = "uncertain"
                      \/ job[q].out = "succeeded" /\ journal'[job[q].step] \in {"dispatching", "succeeded"}
    BY <1>2 DEF AnswersAreJournalled, Google, Crm, Kind
  <2>1. job[q].pc \in Busy /\ job[q].step \in Step
    BY BusyStep DEF Busy
  <2>2. CASE job[q].step = s
    <3>1. q = w
      BY <1>2, <2>1, <2>2 DEF Once
    <3> QED
      BY <1>2, <1>4, <1>5, <1>6, <3>1
  <2>3. CASE job[q].step # s
    BY <1>4, <2>1, <2>3 DEF AnswersAreJournalled
  <2> QED
    BY <2>2, <2>3
<1>11. JournalAgrees'
  <2> SUFFICES ASSUME NEW r \in Step, Google(r)
               PROVE  /\ effects[r] > 0 => journal'[r] # "none"
                      /\ journal'[r] = "succeeded" => effects[r] > 0
                      /\ stepStatus[r] = "succeeded" /\ r \notin reconciled => journal'[r] = "succeeded"
    BY <1>2, <1>9 DEF JournalAgrees
  <2>1. CASE r = s
    BY <1>2, <1>4, <1>5, <1>6, <2>1 DEF JournalAgrees
  <2>2. CASE r # s
    BY <1>4, <2>2 DEF JournalAgrees
  <2> QED
    BY <2>1, <2>2
<1> QED
  BY <1>2, <1>7, <1>8, <1>9, <1>10, <1>11

LEMMA SettledJournal ==
  ASSUME Settling, Journalled, NEW s \in Step,
         CrmSettle(s) \/ \E a \in Actor : GoogleSettle(s, a)
  PROVE  Journalled'
<1> USE DEF Settling, Journalled
<1>1. /\ s \in evidence /\ stepStatus[s] = "uncertain"
      /\ stepStatus' = [stepStatus EXCEPT ![s] = "succeeded"]
      /\ UNCHANGED <<plan, job, effects, reconciled, box>>
      /\ \/ Crm(s) /\ journal' = journal
         \/ ~Crm(s) /\ journal' = [journal EXCEPT ![s] = "succeeded"]
  BY DEF CrmSettle, GoogleSettle, GoogleLoad, Google, Settled, RestKept, googleVars, taskVars, history
<1>2. /\ ~Crm(s) => effects[s] > 0 /\ journal'[s] = "succeeded"
      /\ \A r \in Step \ {s} : journal'[r] = journal[r] /\ stepStatus'[r] = stepStatus[r]
      /\ stepStatus'[s] = "succeeded"
  BY <1>1 DEF OwnEvidence, TypeOK
<1>3. journal' \in [Step -> {"none", "dispatching", "succeeded", "uncertain"}]
  BY <1>1
<1>4. WholeIsSent' /\ RunnersStayHome'
  BY <1>1 DEF WholeIsSent, RunnersStayHome, Kind
<1>5. \A r \in Step : (Google(r)' <=> Google(r)) /\ (stepStatus'[r] = "none" => journal'[r] = "none")
  BY <1>1, <1>2 DEF Google, Crm, Kind
<1>6. AnswersAreJournalled'
  <2> SUFFICES ASSUME NEW q \in Process, job[q].pc = "done", Google(job[q].step)'
               PROVE  \/ job[q].out = "uncertain"
                      \/ job[q].out = "succeeded" /\ journal'[job[q].step] \in {"dispatching", "succeeded"}
    BY <1>1 DEF AnswersAreJournalled, Google, Crm, Kind
  <2>1. job[q].step \in Step
    BY BusyStep DEF Busy
  <2>2. PICK r \in Step : r = job[q].step
    BY <2>1
  <2>3. Google(r)
    BY <1>1, <2>2 DEF Google, Crm, Kind
  <2>4. journal[r] = journal'[r] \/ journal'[r] = "succeeded"
    BY <1>1, <2>3 DEF Google
  <2> QED
    BY <2>2, <2>3, <2>4 DEF AnswersAreJournalled
<1>7. JournalAgrees'
  <2> SUFFICES ASSUME NEW r \in Step, Google(r)
               PROVE  /\ effects[r] > 0 => journal'[r] # "none"
                      /\ journal'[r] = "succeeded" => effects[r] > 0
                      /\ stepStatus'[r] = "succeeded" /\ r \notin reconciled => journal'[r] = "succeeded"
    BY <1>1, <1>5 DEF JournalAgrees
  <2>1. CASE r = s
    BY <1>2, <2>1 DEF Google
  <2>2. CASE r # s
    BY <1>2, <2>2 DEF JournalAgrees
  <2> QED
    BY <2>1, <2>2
<1> QED
  BY <1>1, <1>3, <1>4, <1>5, <1>6, <1>7

LEMMA JournalledStep == Settling /\ Journalled /\ [ReconcilersNext]_allVars => Journalled'
<1> SUFFICES ASSUME Settling, Journalled, [ReconcilersNext]_allVars PROVE Journalled'
  OBVIOUS
<1>1. CASE UNCHANGED <<vars, journal>> /\ (box' = box \/ \E s \in Step : box' = [box EXCEPT ![s] = "spoilt"])
  <2>1. UNCHANGED <<plan, stepStatus, effects, reconciled, job, journal>>
    BY <1>1 DEF vars, taskVars, stepVars, history
  <2>2. \A s \in Step : box'[s] = "whole" => box[s] = "whole"
    BY <1>1 DEF Journalled
  <2>3. box' \in [Step -> {"absent", "whole", "spoilt"}]
    BY <1>1 DEF Journalled
  <2>4. /\ \A s \in Step : Google(s)' <=> Google(s)
        /\ \A p \in Process : Google(job[p].step)' <=> Google(job[p].step)
    BY <2>1 DEF Google, Crm, Kind
  <2>5. WholeIsSent' /\ RunnersStayHome' /\ AnswersAreJournalled' /\ JournalAgrees'
    BY <2>1, <2>2, <2>4
    DEF Journalled, WholeIsSent, RunnersStayHome, AnswersAreJournalled, JournalAgrees, Kind
  <2> QED
    BY <2>1, <2>3, <2>5 DEF Journalled
<1>2. CASE EngineStep /\ UNCHANGED <<journal, renewed, evidence, settled>>
  <2>1. JournalKind
    BY <1>2, JournalKinds DEF Settling
  <2>2. ASSUME NEW d \in Device, Called(d), box' = box PROVE Journalled'
    BY <1>2, <2>2, CalledJournal DEF Process
  <2>3. ASSUME NEW w \in Worker, Called(w),
               Google(job[w].step) => IF journal[job[w].step] = "dispatching" THEN job'[w].out # "failed"
                                      ELSE job'[w].out = "uncertain" /\ effects' = effects,
               box' = [r \in Step |-> IF effects'[r] > effects[r] THEN "whole" ELSE box[r]]
        PROVE  Journalled'
    BY <1>2, <2>3, CalledJournal DEF Process
  <2> QED
    BY <1>2, <2>1, <2>2, <2>3, CalmJournal, TakenJournal, RecordedJournal DEF JournalKind
<1>3. ASSUME NEW s \in Step, Spoil(s) \/ Drop(s) \/ \E a \in Actor : GoogleLook(s, a) \/ CrmLook(s, a)
      PROVE  UNCHANGED <<vars, journal>> /\ (box' = box \/ box' = [box EXCEPT ![s] = "spoilt"])
  BY <1>3 DEF Spoil, Drop, GoogleLook, CrmLook, Found, googleVars
<1>4. Renew \/ UNCHANGED allVars => UNCHANGED <<vars, journal>> /\ box' = box
  BY DEF Renew, allVars, googleVars
<1> QED
  BY <1>1, <1>2, <1>3, <1>4, WrittenJournal, SettledJournal DEF ReconcilersNext, Reconciling

LEMMA SettlingStep == Settling /\ Journalled /\ [ReconcilersNext]_allVars => Settling'
<1> SUFFICES ASSUME Settling, Journalled, [ReconcilersNext]_allVars PROVE Settling'
  OBVIOUS
<1>1. TypeOK'
  BY ReconcilersType DEF Settling
<1>2. Beside \/ \E s \in Step : Settlement(s)
  BY FiveKinds DEF Settling, Journalled
<1> QED
  BY <1>1, <1>2, BesideStep, SettlementStep

LEMMA SettlingAlways == ReconcilersSpec => []Settling /\ []Journalled
BY SettlingInit, JournalledInit, SettlingStep, JournalledStep, PTL DEF ReconcilersSpec

-----------------------------------------------------------------------------
(* The theorems. *)

\* GoogleAdapter and GoogleReconciler: for any number of workers, lapsed leases and look-ups that
\* race with a late answer, nothing reaches Google without its journal row, and the journal and the
\* engine's row tell the same success.
THEOREM JournalsAgree == ReconcilersSpec => []JournalAgrees
BY SettlingAlways, PTL DEF Journalled

\* The row of a task whose steps go to Google agrees with its steps in every state.
THEOREM GoogleTasksFollow == ReconcilersSpec => []TaskFollowsGoogle
BY SettlingAlways, PTL DEF Settling

\* No reconciler, however late, changes an outcome; and only an owner or evidence resolves doubt.
THEOREM SettledForGood == ReconcilersSpec => SettledStaysSettled
<1>1. Settling /\ Journalled /\ [ReconcilersNext]_allVars =>
        [\A s \in Step :
           /\ stepStatus[s] \in {"succeeded", "failed", "cancelled"} => stepStatus'[s] = stepStatus[s]
           /\ stepStatus[s] = "uncertain" /\ stepStatus'[s] # "uncertain"
                => s \in reconciled' \union settled']_allVars
  <2> SUFFICES ASSUME Settling, Journalled, [ReconcilersNext]_allVars, NEW s \in Step
               PROVE  /\ stepStatus[s] \in {"succeeded", "failed", "cancelled"}
                            => stepStatus'[s] = stepStatus[s]
                      /\ stepStatus[s] = "uncertain" /\ stepStatus'[s] # "uncertain"
                            => s \in reconciled' \union settled'
    OBVIOUS
  <2>1. CASE Beside
    BY <2>1, KindsFinal DEF Beside, Settling, FinalStep, Terminal
  <2>2. ASSUME NEW r \in Step, Settlement(r)
        PROVE  /\ stepStatus[s] \in {"succeeded", "failed", "cancelled"}
                     => stepStatus'[s] = stepStatus[s]
               /\ stepStatus[s] = "uncertain" /\ stepStatus'[s] # "uncertain"
                     => s \in reconciled' \union settled'
    <3>1. settled' = settled \union {r} /\ TypeOK
      BY <2>2 DEF Settlement, Settling
    <3> QED
      BY <2>2, <3>1, SettlementRow
  <2> QED
    BY <2>1, <2>2, FiveKinds DEF Settling, Journalled
<1> QED
  BY <1>1, SettlingAlways, PTL DEF ReconcilersSpec, SettledStaysSettled

\* Two more writers of p_steps take nothing from what the engine promises of the outside world:
\* one effect at most, with its approval, and in the order of the plan.
THEOREM ReconcilersKeepTheEngine ==
  ReconcilersSpec => [](AtMostOneEffect /\ ApprovedBeforeEffect /\ InOrder)
<1>1. Settling => AtMostOneEffect
  <2> SUFFICES ASSUME Settling, NEW s \in Step PROVE effects[s] <= 1
    BY DEF AtMostOneEffect
  <2>1. attempts[s] \in 0..1 /\ effects[s] <= attempts[s] /\ effects[s] \in Nat
    BY DEF Settling, Once, TypeOK
  <2> QED
    BY <2>1
<1>2. Settling => ApprovedBeforeEffect
  BY DEF Settling, Once, Authorised, ApprovedBeforeEffect, TypeOK
<1>3. Settling => InOrder
  BY DEF Settling, Once, Ordered, InOrder, TypeOK
<1> QED
  BY <1>1, <1>2, <1>3, SettlingAlways, PTL

\* The outcome of a row that neither an owner nor a CRM look-up settled is true.
HonestBesideCrm ==
  \A s \in Step : /\ s \notin reconciled
                  /\ ~(s \in settled /\ Crm(s))
                  => /\ stepStatus[s] = "succeeded" => effects[s] = 1
                     /\ stepStatus[s] \in {"failed", "cancelled"} => effects[s] = 0

\* Honesty bends in one place beside the owner's word: crm_reconcile.py matches the contact, not the
\* step, and every other row is as true with the reconcilers as without them.
THEOREM OnlyCrmLookupsMislead == ReconcilersSpec => []HonestBesideCrm
<1>1. Settling => HonestBesideCrm
  <2> SUFFICES ASSUME Settling, NEW s \in Step, s \notin reconciled, ~(s \in settled /\ Crm(s))
               PROVE  /\ stepStatus[s] = "succeeded" => effects[s] = 1
                      /\ stepStatus[s] \in {"failed", "cancelled"} => effects[s] = 0
    BY DEF HonestBesideCrm
  <2>1. CASE s \in settled
    <3>1. stepStatus[s] = "succeeded" /\ effects[s] > 0
      BY <2>1 DEF Settling, SettledSucceeded, OwnEvidence
    <3>2. effects[s] \in Nat /\ effects[s] <= attempts[s] /\ attempts[s] \in 0..1
      BY DEF Settling, TypeOK, Once
    <3> QED
      BY <3>1, <3>2
  <2>2. CASE s \notin settled
    BY <2>2 DEF Settling, HonestBut
  <2> QED
    BY <2>1, <2>2
<1> QED
  BY <1>1, SettlingAlways, PTL
================================================================================
