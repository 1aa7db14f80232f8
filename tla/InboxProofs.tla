------------------------------ MODULE InboxProofs ------------------------------
(***************************************************************************)
(* What holds of Inbox for any events, planners and bounds, and, from "Sums over    *)
(* finite sets" on, of ModelCalls: the paid calls that plan an event, and the       *)
(* ledger they spend from.  The two parts share nothing.                             *)
(***************************************************************************)
EXTENDS Inbox, ModelCalls, FiniteSetTheorems, FunctionTheorems, TLAPS

(***************************************************************************)
(* Types.  The one step with substance: there is always a token that nobody *)
(* holds.                                                                   *)
(***************************************************************************)

LEMMA TokensAreFinite ==
  /\ Cardinality(Planner) \in Nat /\ Cardinality(Event) \in Nat
  /\ IsFiniteSet(Token) /\ Cardinality(Token) = Cardinality(Planner) + Cardinality(Event) + 1
  <1>1. Cardinality(Planner) \in Nat /\ Cardinality(Event) \in Nat
    BY FS_CardinalityType, InboxAssumption
  <1> DEFINE n == Cardinality(Planner) + Cardinality(Event) + 1
  <1>2. n \in Nat /\ n >= 1
    BY <1>1
  <1>3. IsFiniteSet(1..n) /\ Cardinality(1..n) = n
    BY <1>2, FS_Interval
  <1>4. QED BY <1>1, <1>3 DEF Token

\* A function on a finite set has no more values than arguments.
LEMMA ValuesOf ==
  ASSUME NEW S, IsFiniteSet(S), NEW f, f = [x \in S |-> f[x]]
  PROVE  /\ IsFiniteSet({f[x] : x \in S})
         /\ Cardinality({f[x] : x \in S}) <= Cardinality(S)
         /\ Cardinality({f[x] : x \in S}) \in Nat
  <1> DEFINE T == {f[x] : x \in S}
  <1>1. f \in Surjection(S, T)
    BY DEF Surjection
  <1>2. IsFiniteSet(T) /\ Cardinality(T) <= Cardinality(S)
    BY <1>1, FS_Surjection
  <1>3. QED BY <1>2, FS_CardinalityType

LEMMA FreshTokenExists ==
  ASSUME TypeOK
  PROVE  /\ FreshToken \in Token
         /\ \A e \in Event : claim[e] # FreshToken
         /\ \A p \in Planner : job[p].token # FreshToken
  <1> DEFINE held == [p \in Planner |-> job[p].token]
             A == {claim[e] : e \in Event}
             B == {held[p] : p \in Planner}
  <1>1. /\ IsFiniteSet(A) /\ Cardinality(A) <= Cardinality(Event) /\ Cardinality(A) \in Nat
        /\ IsFiniteSet(B) /\ Cardinality(B) <= Cardinality(Planner) /\ Cardinality(B) \in Nat
    <2>1. claim = [e \in Event |-> claim[e]] /\ held = [p \in Planner |-> held[p]]
      BY DEF TypeOK
    <2>2. IsFiniteSet(Event) /\ IsFiniteSet(Planner)
      BY InboxAssumption
    <2>3. IsFiniteSet(A) /\ Cardinality(A) <= Cardinality(Event) /\ Cardinality(A) \in Nat
      BY <2>1, <2>2, ValuesOf
    <2>4. IsFiniteSet(B) /\ Cardinality(B) <= Cardinality(Planner) /\ Cardinality(B) \in Nat
      <3> HIDE DEF held
      <3>1. QED BY <2>1, <2>2, ValuesOf
    <2>5. QED BY <2>3, <2>4
  <1>2. /\ IsFiniteSet(A \union B)
        /\ Cardinality(A \union B) <= Cardinality(Planner) + Cardinality(Event)
        /\ Cardinality(A \union B) \in Nat
    <2>1. /\ IsFiniteSet(A \union B)
          /\ Cardinality(A \union B) = Cardinality(A) + Cardinality(B) - Cardinality(A \intersect B)
      BY <1>1, FS_Union
    <2>2. Cardinality(A \intersect B) \in Nat /\ Cardinality(A \union B) \in Nat
      BY <1>1, <2>1, FS_Intersection, FS_CardinalityType
    <2>3. QED BY <1>1, <2>1, <2>2, TokensAreFinite
  <1>3. \E n \in Token : n \notin A \union B
    <2>1. SUFFICES ASSUME Token \subseteq A \union B PROVE FALSE
      OBVIOUS
    <2>2. Cardinality(Token) <= Cardinality(A \union B)
      BY <1>2, <2>1, FS_Subset
    <2>3. QED BY <1>2, <2>2, TokensAreFinite
  <1>4. \E n \in Token : /\ \A e \in Event : claim[e] # n
                         /\ \A p \in Planner : job[p].token # n
    BY <1>3
  <1>5. QED BY <1>4 DEF FreshToken

LEMMA JobTypes ==
  ASSUME TypeOK, NEW p \in Planner
  PROVE  /\ job[p] \in Job
         /\ \A x \in Job : [job EXCEPT ![p] = x] \in [Planner -> Job]
         /\ Idle \in Job
         /\ \A e \in Event, n \in Token :
              [Idle EXCEPT !.pc = "claimed", !.event = e, !.token = n] \in Job
         /\ \A out \in {"task", "turn", "failed"} :
              [job[p] EXCEPT !.pc = "decided", !.out = out] \in Job
         /\ \A pc \in {"looked", "planning"} : [job[p] EXCEPT !.pc = pc] \in Job
         /\ \A plan \in Plan \union {Turn} :
              [job[p] EXCEPT !.pc = "planned", !.plan = plan] \in Job
  <1>1. job[p] \in Job /\ \A x \in Job : [job EXCEPT ![p] = x] \in [Planner -> Job]
    BY DEF TypeOK
  <1>2. Idle \in Job
    BY DEF Idle, Job
  <1>3. QED BY <1>1, <1>2 DEF Job, Idle

LEMMA StepTypes ==
  ASSUME TypeOK, NEW p \in Planner
  PROVE  /\ \A changed : changed \in Job /\ Step(p, changed) => job' \in [Planner -> Job]
         /\ \A out \in {"task", "turn", "failed"} : Decided(p, out) => job' \in [Planner -> Job]
  <1>1. ASSUME NEW changed, changed \in Job, Step(p, changed) PROVE job' \in [Planner -> Job]
    BY <1>1, JobTypes DEF Step
  <1>2. ASSUME NEW out \in {"task", "turn", "failed"}, Decided(p, out)
        PROVE  job' \in [Planner -> Job]
    <2>1. [job[p] EXCEPT !.pc = "decided", !.out = out] \in Job
      BY JobTypes
    <2>2. QED BY <1>2, <1>1, <2>1 DEF Decided
  <1>3. QED BY <1>1, <1>2

LEMMA TypeStep == TypeOK /\ [Next]_vars => TypeOK'
  <1> SUFFICES ASSUME TypeOK, [Next]_vars PROVE TypeOK'
    OBVIOUS
  <1> USE InboxAssumption
  <1>1. ASSUME NEW e \in Event, Accept(e) PROVE TypeOK'
    BY <1>1 DEF TypeOK, Accept, outcomeVars, envVars, Waiting, Settled
  <1>2. ASSUME NEW e \in Event, Retry(e) PROVE TypeOK'
    BY <1>2 DEF TypeOK, Retry, outcomeVars, envVars, Waiting, Settled
  <1>3. ASSUME NEW e \in Event, Deliver(e) PROVE TypeOK'
    BY <1>3 DEF TypeOK, Deliver, eventVars, envVars, Waiting, Settled
  <1>4. ASSUME NEW p \in Planner, ClaimEvent(p) PROVE TypeOK'
    <2>1. PICK e \in Event :
            /\ status' = [status EXCEPT ![e] = "processing"]
            /\ claim' = [claim EXCEPT ![e] = FreshToken]
            /\ lease' = [lease EXCEPT ![e] = LeaseTicks]
            /\ job' = [job EXCEPT ![p] = [Idle EXCEPT !.pc = "claimed", !.event = e,
                                                      !.token = FreshToken]]
      BY <1>4 DEF ClaimEvent, Oldest, Claimable
    <2>2. FreshToken \in Token
      BY FreshTokenExists
    <2>3. job' \in [Planner -> Job]
      BY <2>1, <2>2, JobTypes
    <2>4. LeaseTicks \in 0..LeaseTicks
      OBVIOUS
    <2>5. /\ status' \in [Event -> Waiting \union Settled \union {"none"}]
          /\ claim' \in [Event -> Token \union {0}] /\ lease' \in [Event -> 0..LeaseTicks]
      BY <2>1, <2>2, <2>4 DEF TypeOK, Waiting
    <2>6. QED BY <1>4, <2>3, <2>5 DEF TypeOK, ClaimEvent, outcomeVars, envVars
  <1>5. ASSUME NEW p \in Planner, Settling(p) \/ Crash(p) PROVE TypeOK'
    <2>1. job' \in [Planner -> Job]
      <3>1. CASE Look(p)
        <4>1. [job[p] EXCEPT !.pc = "looked"] \in Job
          BY JobTypes
        <4>2. QED BY <3>1, <4>1, StepTypes DEF Look
      <3>2. CASE Authorise(p)
        <4>1. [job[p] EXCEPT !.pc = "planning"] \in Job
          BY JobTypes
        <4>2. QED BY <3>2, <4>1, StepTypes DEF Authorise
      <3>3. CASE MakePlan(p)
        <4>1. \A plan \in Plan \union {Turn} :
                [job[p] EXCEPT !.pc = "planned", !.plan = plan] \in Job
          BY JobTypes
        <4>2. QED BY <3>3, <4>1, StepTypes DEF MakePlan
      <3>4. CASE RecordTurn(p) \/ SubmitPlan(p)
        BY <3>4, StepTypes DEF RecordTurn, SubmitPlan
      <3>5. CASE Record(p) \/ Crash(p)
        BY <3>5, JobTypes DEF Record, Crash
      <3>6. QED BY <1>5, <3>1, <3>2, <3>3, <3>4, <3>5 DEF Settling
    <2>2. CASE Look(p) \/ Authorise(p) \/ MakePlan(p)
      BY <2>1, <2>2 DEF TypeOK, Look, Authorise, MakePlan, Decided, Step, eventVars, outcomeVars,
                        envVars, Waiting, Settled
    <2>3. CASE RecordTurn(p) \/ SubmitPlan(p)
      BY <2>1, <2>3 DEF TypeOK, RecordTurn, SubmitPlan, Decided, Step, eventVars, outcomeVars,
                        envVars, Waiting, Settled
    <2>4. CASE Record(p)
      <3>1. job[p].out \in {"none", "task", "turn", "failed"}
        BY JobTypes DEF Job
      <3>2. CASE claim[job[p].event] = job[p].token
        <4>1. /\ claim' \in [Event -> Token \union {0}] /\ lease' \in [Event -> 0..LeaseTicks]
          <5>1. 0 \in 0..LeaseTicks /\ 0 \in Token \union {0}
            OBVIOUS
          <5>2. /\ claim' = [claim EXCEPT ![job[p].event] = 0]
                /\ lease' = [lease EXCEPT ![job[p].event] = 0]
            BY <2>4, <3>2 DEF Record
          <5>3. QED BY <5>1, <5>2 DEF TypeOK
        <4>2. result' \in [Event -> {"none", "task", "turn"}]
          BY <2>4, <3>1, <3>2 DEF TypeOK, Record
        <4>3. status' \in [Event -> Waiting \union Settled \union {"none"}]
          BY <2>4, <3>2 DEF TypeOK, Record, Settled
        <4>4. QED BY <2>1, <2>4, <4>1, <4>2, <4>3 DEF TypeOK, Record, outcomeVars, envVars
      <3>3. CASE claim[job[p].event] # job[p].token
        BY <2>1, <2>4, <3>3 DEF TypeOK, Record, outcomeVars, envVars
      <3>4. QED BY <3>2, <3>3
    <2>5. CASE Crash(p)
      BY <2>1, <2>5 DEF TypeOK, Crash, eventVars, outcomeVars, envVars, Waiting, Settled
    <2>6. QED BY <1>5, <2>2, <2>3, <2>4, <2>5 DEF Settling
  <1>6. CASE Tick
    BY <1>6 DEF TypeOK, Tick, outcomeVars, envVars, Waiting, Settled
  <1>7. CASE NewDay
    BY <1>7 DEF TypeOK, NewDay, eventVars, outcomeVars, envVars, Waiting, Settled
  <1>8. CASE Control
    BY <1>8 DEF TypeOK, Control, eventVars, outcomeVars, envVars, Waiting, Settled
  <1>9. CASE UNCHANGED vars
    BY <1>9 DEF TypeOK, vars, eventVars, outcomeVars, envVars, Waiting, Settled
  <1>10. QED BY <1>1, <1>2, <1>3, <1>4, <1>5, <1>6, <1>7, <1>8, <1>9 DEF Next

LEMMA TypeInit == Init => TypeOK
  <1> SUFFICES ASSUME Init PROVE TypeOK
    OBVIOUS
  <1>1. job \in [Planner -> Job]
    BY DEF Init, Job, Idle
  <1>2. /\ today \in 0..DailyQuota /\ upsets \in 0..MaxUpsets
        /\ lease \in [Event -> 0..LeaseTicks] /\ arrived \in Seq(Event)
    BY InboxAssumption DEF Init
  <1>3. QED BY <1>1, <1>2 DEF Init, TypeOK, Settled

\* Every reachable state has the declared types: in particular no ceiling is passed by
\* accept_event, and there is always a token that no row and no planner holds.
THEOREM TypesHold == Spec => []TypeOK
  <1>1. Init => TypeOK
    BY TypeInit
  <1>2. TypeOK /\ [Next]_vars => TypeOK'
    BY TypeStep
  <1>3. QED BY <1>1, <1>2, PTL DEF Spec

(***************************************************************************)
(* A done event stays done, however late the other planners are.            *)
(***************************************************************************)

Busy(p) == job[p].pc # "idle"

\* Only an event in process carries a claim, and whoever plans has one.
Fenced ==
  /\ \A e \in Event : status[e] # "processing" => claim[e] = 0
  /\ \A p \in Planner : Busy(p) => job[p].event \in Event /\ job[p].token \in Token

LEMMA FencedInit == Init => Fenced
  BY DEF Init, Fenced, Busy, Idle

\* A planner that goes on keeps its event and its claim, and leaves the rows and the
\* other planners alone.
LEMMA GoesOn ==
  ASSUME TypeOK, NEW p \in Planner, Settling(p), ~Record(p)
  PROVE  /\ Busy(p) /\ UNCHANGED eventVars
         /\ job'[p].event = job[p].event /\ job'[p].token = job[p].token
         /\ \A q \in Planner : q # p => job'[q] = job[q]
  <1> DEFINE Kept == /\ UNCHANGED eventVars
                     /\ job'[p].event = job[p].event /\ job'[p].token = job[p].token
                     /\ \A q \in Planner : q # p => job'[q] = job[q]
  <1>1. job[p] \in Job /\ job \in [Planner -> Job]
    BY JobTypes DEF TypeOK
  <1>2. ASSUME NEW changed, Step(p, changed), changed.event = job[p].event,
               changed.token = job[p].token
        PROVE  Kept
    BY <1>1, <1>2 DEF Step
  <1>3. ASSUME NEW out, Decided(p, out) PROVE Kept
    <2>1. /\ [job[p] EXCEPT !.pc = "decided", !.out = out].event = job[p].event
          /\ [job[p] EXCEPT !.pc = "decided", !.out = out].token = job[p].token
      BY <1>1 DEF Job
    <2>2. QED BY <1>2, <1>3, <2>1 DEF Decided
  <1>4. ASSUME NEW pc, Step(p, [job[p] EXCEPT !.pc = pc]) PROVE Kept
    <2>1. /\ [job[p] EXCEPT !.pc = pc].event = job[p].event
          /\ [job[p] EXCEPT !.pc = pc].token = job[p].token
      BY <1>1 DEF Job
    <2>2. QED BY <1>2, <1>4, <2>1
  <1>5. ASSUME NEW plan, Step(p, [job[p] EXCEPT !.pc = "planned", !.plan = plan]) PROVE Kept
    <2>1. /\ [job[p] EXCEPT !.pc = "planned", !.plan = plan].event = job[p].event
          /\ [job[p] EXCEPT !.pc = "planned", !.plan = plan].token = job[p].token
      BY <1>1 DEF Job
    <2>2. QED BY <1>2, <1>5, <2>1
  <1> HIDE DEF Kept
  <1>6. ASSUME Look(p) \/ Authorise(p) PROVE Kept /\ Busy(p)
    BY <1>3, <1>4, <1>6 DEF Look, Authorise, Busy
  <1>7. ASSUME MakePlan(p) PROVE Kept /\ Busy(p)
    BY <1>3, <1>5, <1>7 DEF MakePlan, Busy
  <1>8. ASSUME RecordTurn(p) \/ SubmitPlan(p) PROVE Kept /\ Busy(p)
    BY <1>3, <1>8 DEF RecordTurn, SubmitPlan, Busy
  <1>9. Kept /\ Busy(p)
    BY <1>6, <1>7, <1>8 DEF Settling
  <1>10. QED BY <1>9 DEF Kept

LEMMA FencedStep == TypeOK /\ Fenced /\ [Next]_vars => Fenced'
  <1> SUFFICES ASSUME TypeOK, Fenced, [Next]_vars PROVE Fenced'
    OBVIOUS
  <1>1. ASSUME NEW e \in Event, Accept(e) \/ Retry(e) \/ Deliver(e) PROVE Fenced'
    BY <1>1 DEF TypeOK, Fenced, Busy, Accept, Retry, Deliver, eventVars
  <1>2. ASSUME NEW p \in Planner, ClaimEvent(p) PROVE Fenced'
    <2>1. PICK e \in Event :
            /\ status' = [status EXCEPT ![e] = "processing"]
            /\ claim' = [claim EXCEPT ![e] = FreshToken]
            /\ job' = [job EXCEPT ![p] = [Idle EXCEPT !.pc = "claimed", !.event = e,
                                                      !.token = FreshToken]]
      BY <1>2 DEF ClaimEvent, Oldest, Claimable
    <2>2. FreshToken \in Token
      BY FreshTokenExists
    <2>3. /\ job'[p].event = e /\ job'[p].token = FreshToken
          /\ \A q \in Planner : q # p => job'[q] = job[q]
      BY <2>1 DEF TypeOK, Idle
    <2>4. QED BY <2>1, <2>2, <2>3 DEF TypeOK, Fenced, Busy
  <1>3. ASSUME NEW p \in Planner, Settling(p) \/ Crash(p) PROVE Fenced'
    <2>1. CASE Record(p) \/ Crash(p)
      <3>1. /\ ~Busy(p)' /\ \A q \in Planner : q # p => job'[q] = job[q]
        BY <2>1 DEF TypeOK, Busy, Record, Crash, Idle
      <3>2. \A e \in Event : status'[e] # "processing" => claim'[e] = 0
        BY <2>1 DEF TypeOK, Fenced, Record, Crash, eventVars
      <3>3. QED BY <3>1, <3>2 DEF Fenced, Busy
    <2>2. CASE ~(Record(p) \/ Crash(p))
      <3>1. /\ Busy(p) /\ UNCHANGED eventVars
            /\ job'[p].event = job[p].event /\ job'[p].token = job[p].token
            /\ \A q \in Planner : q # p => job'[q] = job[q]
        BY <1>3, <2>2, GoesOn
      <3>2. QED BY <3>1 DEF Fenced, Busy, eventVars
    <2>3. QED BY <2>1, <2>2
  <1>4. CASE Tick \/ NewDay \/ Control
    BY <1>4 DEF Fenced, Busy, Tick, NewDay, Control, eventVars
  <1>5. CASE UNCHANGED vars
    BY <1>5 DEF Fenced, Busy, vars, eventVars
  <1>6. QED BY <1>1, <1>2, <1>3, <1>4, <1>5 DEF Next

\* The step property behind DoneStays.
LEMMA DoneStep ==
  TypeOK /\ Fenced /\ [Next]_vars
    => [\A e \in Event : status[e] = "done" => status'[e] = "done" /\ result'[e] = result[e]]_vars
  <1> SUFFICES ASSUME TypeOK, Fenced, [Next]_vars, NEW e \in Event, status[e] = "done"
               PROVE  status'[e] = "done" /\ result'[e] = result[e]
    OBVIOUS
  <1>1. ASSUME NEW f \in Event, Accept(f) \/ Retry(f) \/ Deliver(f)
        PROVE  status'[e] = "done" /\ result'[e] = result[e]
    BY <1>1 DEF TypeOK, Accept, Retry, Deliver, eventVars
  <1>2. ASSUME NEW p \in Planner, ClaimEvent(p)
        PROVE  status'[e] = "done" /\ result'[e] = result[e]
    BY <1>2 DEF TypeOK, ClaimEvent, Oldest, Claimable
  <1>3. ASSUME NEW p \in Planner, Record(p)
        PROVE  status'[e] = "done" /\ result'[e] = result[e]
    <2>1. claim[e] = 0 /\ job[p].token # 0
      BY <1>3 DEF Fenced, Busy, Record, Token
    <2>2. QED BY <1>3, <2>1 DEF TypeOK, Record
  <1>4. ASSUME NEW p \in Planner, Settling(p) \/ Crash(p), ~Record(p)
        PROVE  status'[e] = "done" /\ result'[e] = result[e]
    BY <1>4 DEF Settling, Crash, Look, Authorise, MakePlan, RecordTurn, SubmitPlan, Decided, Step,
                eventVars
  <1>5. CASE Tick \/ NewDay \/ Control \/ UNCHANGED vars
    BY <1>5 DEF Tick, NewDay, Control, vars, eventVars
  <1>6. QED BY <1>1, <1>2, <1>3, <1>4, <1>5 DEF Next

\* Record is fenced by its claim: no planner, however late, changes the outcome of an
\* event that another planner recorded as done.
THEOREM DoneEventsStay == Spec => DoneStays
  <1>1. Init => TypeOK /\ Fenced
    BY TypeInit, FencedInit
  <1>2. TypeOK /\ Fenced /\ [Next]_vars => (TypeOK /\ Fenced)'
    BY TypeStep, FencedStep
  <1>3. QED BY <1>1, <1>2, DoneStep, PTL DEF Spec, DoneStays

(***************************************************************************)
(* One outcome for each event, where every plan ends inside its lease.      *)
(***************************************************************************)

\* Whoever plans holds the row, so no two planners have the same event.
Exclusive ==
  /\ \A p \in Planner : Busy(p) => /\ claim[job[p].event] = job[p].token
                                   /\ lease[job[p].event] > 0
  /\ \A p, q \in Planner : Busy(p) /\ Busy(q) /\ p # q => job[p].event # job[q].event

Unanswered(e) == task[e] = NoPlan /\ ~turn[e]

Open(p) == job[p].pc \in {"looked", "planning", "planned"}

Sorry(p) == job[p].pc = "decided" /\ job[p].out = "failed"

\* The look-up is still true when its reader uses it.
LookUpHolds == \A p \in Planner : Open(p) \/ Sorry(p) => Unanswered(job[p].event)

SingleOutcome == Fenced /\ Exclusive /\ LookUpHolds /\ OneOutcome /\ FailedIsUnanswered

LEMMA SingleOutcomeInit == Init => SingleOutcome
  BY DEF Init, SingleOutcome, Fenced, Busy, Idle, Exclusive, LookUpHolds, Open, Sorry, Unanswered,
         OneOutcome, FailedIsUnanswered

LEMMA ExclusiveStep ==
  ASSUME PlannerInTime = TRUE, TypeOK, Fenced, Exclusive, [Next]_vars
  PROVE  Exclusive'
  <1>1. ASSUME NEW e \in Event, Accept(e) \/ Retry(e) \/ Deliver(e) PROVE Exclusive'
    BY <1>1 DEF Exclusive, Busy, Accept, Retry, Deliver, eventVars
  <1>2. ASSUME NEW p \in Planner, ClaimEvent(p) PROVE Exclusive'
    <2>1. PICK e \in Claimable :
            /\ claim' = [claim EXCEPT ![e] = FreshToken]
            /\ lease' = [lease EXCEPT ![e] = LeaseTicks]
            /\ job' = [job EXCEPT ![p] = [Idle EXCEPT !.pc = "claimed", !.event = e,
                                                      !.token = FreshToken]]
      BY <1>2 DEF ClaimEvent, Oldest
    <2>2. e \in Event /\ (status[e] = "pending" \/ (status[e] = "processing" /\ lease[e] = 0))
      BY DEF Claimable
    <2>3. \A q \in Planner : Busy(q) => job[q].event # e /\ job[q].event \in Event
      BY <2>2 DEF Fenced, Exclusive, Token
    <2>4. /\ job'[p].event = e /\ job'[p].token = FreshToken
          /\ \A q \in Planner : q # p => job'[q] = job[q]
      BY <2>1 DEF TypeOK, Idle
    <2>5. claim'[e] = FreshToken /\ lease'[e] > 0
      BY <2>1, <2>2, InboxAssumption DEF TypeOK
    <2>6. \A f \in Event : f # e => claim'[f] = claim[f] /\ lease'[f] = lease[f]
      BY <2>1 DEF TypeOK
    <2>7. QED BY <2>2, <2>3, <2>4, <2>5, <2>6 DEF Exclusive, Busy
  <1>3. ASSUME NEW p \in Planner, Settling(p), ~Record(p) PROVE Exclusive'
    <2>1. Busy(p) /\ UNCHANGED <<claim, lease>>
      BY <1>3, GoesOn DEF eventVars
    <2>2. \A q \in Planner : /\ Busy(q)' => Busy(q)
                             /\ job'[q].event = job[q].event /\ job'[q].token = job[q].token
      BY <1>3, <2>1, GoesOn DEF Busy
    <2>3. QED BY <2>1, <2>2 DEF Exclusive
  <1>4. ASSUME NEW p \in Planner, Record(p) \/ Crash(p) PROVE Exclusive'
    <2>1. Busy(p)
      BY <1>4 DEF Busy, Record, Crash
    <2>2. ~Busy(p)' /\ \A q \in Planner : q # p => job'[q] = job[q]
      BY <1>4 DEF TypeOK, Busy, Record, Crash, Idle
    <2>3. \A f \in Event : f # job[p].event => claim'[f] = claim[f] /\ lease'[f] = lease[f]
      BY <1>4 DEF TypeOK, Record, Crash, eventVars
    <2>4. \A q \in Planner : Busy(q) => job[q].event \in Event
      BY DEF Fenced
    <2>5. QED BY <2>1, <2>2, <2>3, <2>4 DEF Exclusive, Busy
  <1>5. CASE Tick
    <2>1. \A p \in Planner : Busy(p) => lease[job[p].event] > 1
      BY <1>5 DEF Tick, Holds, Exclusive, Fenced
    <2>2. \A e \in Event : lease[e] > 1 => lease'[e] > 0
      BY <1>5 DEF Tick, TypeOK
    <2>3. QED BY <1>5, <2>1, <2>2 DEF Tick, Exclusive, Fenced, Busy
  <1>6. CASE NewDay \/ Control \/ UNCHANGED vars
    BY <1>6 DEF Exclusive, Busy, NewDay, Control, vars, eventVars
  <1>7. QED BY <1>1, <1>2, <1>3, <1>4, <1>5, <1>6 DEF Next

OutcomesAnswered == LookUpHolds /\ OneOutcome /\ FailedIsUnanswered

LEMMA AnsweredStep ==
  ASSUME TypeOK, Fenced, Exclusive, OutcomesAnswered, [Next]_vars
  PROVE  OutcomesAnswered'
  <1> USE DEF OutcomesAnswered
  <1>1. ASSUME NEW e \in Event, Accept(e) \/ Retry(e) PROVE OutcomesAnswered'
    BY <1>1 DEF TypeOK, LookUpHolds, OneOutcome, FailedIsUnanswered, Unanswered, Open, Sorry,
                Accept, Retry, outcomeVars
  <1>2. ASSUME NEW e \in Event, Deliver(e) PROVE OutcomesAnswered'
    BY <1>2, InboxAssumption
       DEF TypeOK, LookUpHolds, OneOutcome, FailedIsUnanswered, Unanswered, Open, Sorry, Deliver,
           eventVars
  <1>3. ASSUME NEW p \in Planner, ClaimEvent(p) PROVE OutcomesAnswered'
    <2>1. job'[p].pc = "claimed" /\ \A q \in Planner : q # p => job'[q] = job[q]
      BY <1>3 DEF ClaimEvent, TypeOK, Idle
    <2>2. \A e \in Event : status'[e] = "failed" => status[e] = "failed"
      BY <1>3 DEF ClaimEvent, TypeOK, Oldest, Claimable
    <2>3. QED BY <1>3, <2>1, <2>2 DEF ClaimEvent, LookUpHolds, OneOutcome, FailedIsUnanswered,
                                      Unanswered, Open, Sorry, outcomeVars
  <1>4. ASSUME NEW p \in Planner, Settling(p), ~Record(p) PROVE OutcomesAnswered'
    <2> DEFINE e == job[p].event
    <2>1. /\ Busy(p) /\ UNCHANGED eventVars /\ job'[p].event = e
          /\ \A q \in Planner : q # p => job'[q] = job[q]
      BY <1>4, GoesOn
    <2>2. e \in Event /\ status[e] # "failed"
      BY <2>1 DEF Fenced, Exclusive, Token
    <2>3. \A f \in Event : f # e => task'[f] = task[f] /\ turn'[f] = turn[f]
      BY <1>4 DEF TypeOK, Settling, Look, Authorise, MakePlan, RecordTurn, SubmitPlan, outcomeVars
    <2>4. \A q \in Planner : q # p /\ Busy(q) => job[q].event # e /\ job[q].event \in Event
      BY <2>1 DEF Exclusive, Fenced
    <2>5. ASSUME Open(p)' \/ Sorry(p)' PROVE Unanswered(e)'
      <3>1. job[p] \in Job
        BY JobTypes
      <3>2. ASSUME NEW out \in {"task", "turn"}, Decided(p, out) PROVE FALSE
        BY <2>5, <3>1, <3>2 DEF Decided, Step, TypeOK, Job, Open, Sorry
      <3>3. CASE Look(p) \/ Authorise(p) \/ MakePlan(p)
        <4>1. Unanswered(e)
          BY <3>2, <3>3 DEF Look, Authorise, MakePlan, LookUpHolds, Open, Unanswered
        <4>2. QED BY <2>1, <3>3, <4>1 DEF Look, Authorise, MakePlan, Unanswered, outcomeVars
      <3>4. CASE RecordTurn(p) \/ SubmitPlan(p)
        <4>1. Unanswered(e)
          BY <3>4 DEF RecordTurn, SubmitPlan, LookUpHolds, Open
        <4>2. QED BY <2>1, <3>2, <3>4, <4>1 DEF RecordTurn, SubmitPlan, Unanswered, outcomeVars
      <3>5. QED BY <1>4, <3>3, <3>4 DEF Settling
    <2>6. ~(turn'[e] /\ task'[e] \in Plan)
      <3>1. CASE Look(p) \/ Authorise(p) \/ MakePlan(p)
        BY <2>2, <3>1 DEF Look, Authorise, MakePlan, OneOutcome, outcomeVars
      <3>2. CASE RecordTurn(p) \/ SubmitPlan(p)
        <4>1. Unanswered(e)
          BY <3>2 DEF RecordTurn, SubmitPlan, LookUpHolds, Open
        <4>2. QED BY <2>2, <3>2, <4>1, InboxAssumption
                     DEF RecordTurn, SubmitPlan, Unanswered, TypeOK, outcomeVars
      <3>3. QED BY <1>4, <3>1, <3>2 DEF Settling
    <2>7. LookUpHolds'
      <3>1. ASSUME NEW q \in Planner, q # p, Open(q)' \/ Sorry(q)' PROVE Unanswered(job[q].event)'
        <4>1. (Open(q) \/ Sorry(q)) /\ Busy(q)
          BY <2>1, <3>1 DEF Open, Sorry, Busy
        <4>2. QED BY <2>1, <2>3, <2>4, <3>1, <4>1 DEF LookUpHolds, Unanswered
      <3>2. QED BY <2>1, <2>5, <3>1 DEF LookUpHolds, Open, Sorry, Unanswered
    <2>8. OneOutcome' /\ FailedIsUnanswered'
      BY <2>1, <2>2, <2>3, <2>6 DEF OneOutcome, FailedIsUnanswered, eventVars
    <2>9. QED BY <2>7, <2>8
  <1>5. ASSUME NEW p \in Planner, Record(p) \/ Crash(p) PROVE OutcomesAnswered'
    <2>1. /\ job'[p].pc = "idle" /\ UNCHANGED outcomeVars
          /\ \A q \in Planner : q # p => job'[q] = job[q]
      BY <1>5 DEF TypeOK, Record, Crash, Idle
    <2>2. \A f \in Event : status'[f] = "failed" => Unanswered(f)
      BY <1>5 DEF TypeOK, Record, Crash, eventVars, LookUpHolds, Sorry, FailedIsUnanswered, Unanswered
    <2>3. QED BY <2>1, <2>2 DEF LookUpHolds, OneOutcome, FailedIsUnanswered, Unanswered, Open, Sorry,
                                outcomeVars
  <1>6. CASE Tick \/ NewDay \/ Control \/ UNCHANGED vars
    BY <1>6 DEF LookUpHolds, OneOutcome, FailedIsUnanswered, Unanswered, Open, Sorry, Tick, NewDay,
                Control, vars, eventVars, outcomeVars
  <1>7. QED BY <1>1, <1>2, <1>3, <1>4, <1>5, <1>6 DEF Next

LEMMA SingleOutcomeStep ==
  ASSUME PlannerInTime = TRUE
  PROVE  TypeOK /\ SingleOutcome /\ [Next]_vars => SingleOutcome'
  <1> SUFFICES ASSUME TypeOK, SingleOutcome, [Next]_vars PROVE SingleOutcome'
    OBVIOUS
  <1>1. Fenced /\ Exclusive /\ OutcomesAnswered
    BY DEF SingleOutcome, OutcomesAnswered
  <1>2. Fenced'
    BY <1>1, FencedStep
  <1>3. Exclusive'
    BY <1>1, ExclusiveStep
  <1>4. OutcomesAnswered'
    BY <1>1, AnsweredStep
  <1>5. QED BY <1>2, <1>3, <1>4 DEF SingleOutcome, OutcomesAnswered

\* settle_event: where no plan outlives its lease, an event is answered by a plan or by
\* a turn and never by both, through crashes, retries and changes of the pack.
THEOREM EventsHaveOneOutcome ==
  ASSUME PlannerInTime = TRUE
  PROVE  Spec => []OneOutcome
  <1>1. Init => TypeOK /\ SingleOutcome
    BY TypeInit, SingleOutcomeInit
  <1>2. TypeOK /\ SingleOutcome /\ [Next]_vars => (TypeOK /\ SingleOutcome)'
    BY TypeStep, SingleOutcomeStep
  <1>3. SingleOutcome => OneOutcome
    BY DEF SingleOutcome
  <1>4. QED BY <1>1, <1>2, <1>3, PTL DEF Spec

\* retry_event: under the same assumption an event that reads as failed has had no
\* outcome, so a member who retries it does not answer twice.
THEOREM FailedEventsMayBeRetried ==
  ASSUME PlannerInTime = TRUE
  PROVE  Spec => []FailedIsUnanswered
  <1>1. Init => TypeOK /\ SingleOutcome
    BY TypeInit, SingleOutcomeInit
  <1>2. TypeOK /\ SingleOutcome /\ [Next]_vars => (TypeOK /\ SingleOutcome)'
    BY TypeStep, SingleOutcomeStep
  <1>3. SingleOutcome => FailedIsUnanswered
    BY DEF SingleOutcome
  <1>4. QED BY <1>1, <1>2, <1>3, PTL DEF Spec

(***************************************************************************)
(* Sums over finite sets, for the counters of the spending ledger: what         *)
(* MapThenSumSet adds up, whatever element it chooses first.                      *)
(***************************************************************************)

\* A set of naturals has a least element.
LEMMA LeastOfNat == ASSUME NEW S, S \subseteq Nat, S # {} PROVE \E x \in S : \A y \in S : x <= y
  <1>1. PICK R : R = OpToRel(<, Nat)
    OBVIOUS
  <1>2. IsWellFoundedOn(R, Nat)
    BY <1>1, NatLessThanWellFounded
  <1>3. PICK x \in S : \A y \in S : <<y, x>> \notin R
    BY <1>2, WFMin
  <1>4. \A y \in S : ~(y < x)
    BY <1>1, <1>3 DEF OpToRel
  <1>5. QED BY <1>4

\* A family of subsets that holds a set as soon as it holds it less any element holds them all.
LEMMA SubsetInduction ==
  ASSUME NEW U, IsFiniteSet(U), NEW Good,
         \A s \in SUBSET U : (\A x \in s : s \ {x} \in Good) => s \in Good
  PROVE  \A s \in SUBSET U : s \in Good
  <1> SUFFICES ASSUME (SUBSET U) \ Good # {} PROVE FALSE
    OBVIOUS
  <1>1. PICK Bad : Bad = (SUBSET U) \ Good
    OBVIOUS
  <1>w. IsWellFoundedOn(StrictSubsetOrdering(U), SUBSET U)
    <2>1. FiniteSubsetsOf(U) = SUBSET U
      BY FS_FiniteSubsetsOfFinite
    <2>2. IsWellFoundedOn(StrictSubsetOrdering(U), FiniteSubsetsOf(U))
      BY FS_StrictSubsetOrderingWellFounded
    <2>3. QED BY <2>1, <2>2
  <1>2. PICK R : R = StrictSubsetOrdering(U)
    OBVIOUS
  <1>3. IsWellFoundedOn(R, SUBSET U)
    BY <1>w, <1>2
  <1>4. Bad \subseteq SUBSET U /\ Bad # {}
    BY <1>1
  <1>5. PICK s \in Bad : \A t \in Bad : <<t, s>> \notin R
    BY <1>3, <1>4, WFMin
  <1>6. \A x \in s : <<s \ {x}, s>> \in R
    BY <1>2, <1>4, <1>5 DEF StrictSubsetOrdering
  <1>7. \A x \in s : s \ {x} \in Good
    BY <1>1, <1>4, <1>5, <1>6
  <1>8. s \in Good
    BY <1>4, <1>5, <1>7
  <1>9. QED BY <1>1, <1>5, <1>8

Chosen(s) == CHOOSE x \in s : TRUE
IsSum(F, g, U) ==
  F \in [SUBSET U -> Nat] /\ \A s \in SUBSET U : F[s] = IF s = {} THEN 0 ELSE g[Chosen(s)] + F[s \ {Chosen(s)}]

LEMMA ChosenIsIn == ASSUME NEW s, s # {} PROVE Chosen(s) \in s
  BY DEF Chosen

\* The recursion has a solution: for the sets of at most n elements there is one, for every n.
LEMMA SumExists == ASSUME NEW U, IsFiniteSet(U), NEW g \in [U -> Nat] PROVE \E F : IsSum(F, g, U)
  <1> DEFINE Solves(F, n) ==
        /\ F \in [SUBSET U -> Nat]
        /\ \A s \in SUBSET U : Cardinality(s) <= n => F[s] = IF s = {} THEN 0 ELSE g[Chosen(s)] + F[s \ {Chosen(s)}]
  <1>1. \A s \in SUBSET U : /\ IsFiniteSet(s) /\ Cardinality(s) \in Nat /\ (Cardinality(s) = 0 <=> s = {})
                            /\ Cardinality(s) <= Cardinality(U)
    BY FS_Subset, FS_CardinalityType, FS_EmptySet
  <1>2. \A s \in SUBSET U : s # {} =>
          /\ Chosen(s) \in U /\ s \ {Chosen(s)} \in SUBSET U /\ Cardinality(s \ {Chosen(s)}) = Cardinality(s) - 1
    BY <1>1, ChosenIsIn, FS_RemoveElement
  <1>3. PICK Bad : Bad = {n \in Nat : ~\E F : Solves(F, n)}
    OBVIOUS
  <1>4. Bad = {}
    <2> SUFFICES ASSUME Bad # {} PROVE FALSE
      OBVIOUS
    <2>1. PICK n \in Bad : \A m \in Bad : n <= m
      BY <1>3, LeastOfNat
    <2>2. n \in Nat /\ ~\E F : Solves(F, n)
      BY <1>3, <2>1
    <2>3. CASE n = 0
      <3>1. PICK F : F = [s \in SUBSET U |-> 0]
        OBVIOUS
      <3>2. Solves(F, 0)
        BY <1>1, <3>1
      <3>3. QED BY <2>2, <2>3, <3>2
    <2>4. CASE n > 0
      <3>1. n - 1 \in Nat /\ n - 1 \notin Bad
        BY <2>1, <2>2, <2>4
      <3>2. PICK F : Solves(F, n - 1)
        BY <1>3, <3>1
      <3>3. PICK G : G = [s \in SUBSET U |-> IF Cardinality(s) = n /\ s # {} THEN g[Chosen(s)] + F[s \ {Chosen(s)}] ELSE F[s]]
        OBVIOUS
      <3>4. G \in [SUBSET U -> Nat]
        <4>1. \A s \in SUBSET U : F[s] \in Nat
          BY <3>2
        <4>2. \A s \in SUBSET U : s # {} => g[Chosen(s)] + F[s \ {Chosen(s)}] \in Nat
          BY <1>2, <4>1
        <4>3. QED BY <3>3, <4>1, <4>2
      <3>5. ASSUME NEW s \in SUBSET U, Cardinality(s) <= n
            PROVE  G[s] = IF s = {} THEN 0 ELSE g[Chosen(s)] + G[s \ {Chosen(s)}]
        <4>1. CASE s = {}
          <5>1. Cardinality(s) = 0 /\ 0 <= n - 1
            BY <1>1, <2>2, <3>1, <4>1
          <5>2. F[s] = 0
            BY <3>2, <4>1, <5>1
          <5>3. QED BY <3>3, <4>1, <5>2
        <4>2. CASE s # {}
          <5>1. s \ {Chosen(s)} \in SUBSET U /\ Cardinality(s \ {Chosen(s)}) = Cardinality(s) - 1 /\ Cardinality(s) \in Nat
            BY <1>1, <1>2, <4>2
          <5>2. G[s \ {Chosen(s)}] = F[s \ {Chosen(s)}]
            BY <2>2, <3>3, <3>5, <5>1
          <5>3. CASE Cardinality(s) = n
            BY <3>3, <4>2, <5>2, <5>3
          <5>4. CASE Cardinality(s) < n
            <6>1. Cardinality(s) <= n - 1
              BY <2>2, <5>1, <5>4
            <6>2. F[s] = g[Chosen(s)] + F[s \ {Chosen(s)}]
              BY <3>2, <4>2, <6>1
            <6>3. G[s] = F[s]
              BY <2>2, <3>3, <5>1, <5>4
            <6>4. QED BY <4>2, <5>2, <6>2, <6>3
          <5>5. QED BY <2>2, <3>5, <5>1, <5>3, <5>4
        <4>3. QED BY <4>1, <4>2
      <3>6. QED BY <2>2, <3>4, <3>5
    <2>5. QED BY <2>2, <2>3, <2>4
  <1>5. Cardinality(U) \in Nat
    BY FS_CardinalityType
  <1>6. PICK F : Solves(F, Cardinality(U))
    BY <1>3, <1>4, <1>5
  <1>7. QED BY <1>1, <1>6 DEF IsSum

\* The sum does not depend on the order, nor on what is not summed.
LEMMA SumSplits ==
  ASSUME NEW U, IsFiniteSet(U), NEW g \in [U -> Nat], NEW F, IsSum(F, g, U), NEW s \in SUBSET U, NEW x \in s
  PROVE  F[s] = g[x] + F[s \ {x}]
  <1>1. PICK Good : Good = {t \in SUBSET U : \A y \in t : F[t] = g[y] + F[t \ {y}]}
    OBVIOUS
  <1>2. ASSUME NEW t \in SUBSET U, \A y \in t : t \ {y} \in Good PROVE t \in Good
    <2> SUFFICES ASSUME NEW y \in t PROVE F[t] = g[y] + F[t \ {y}]
      BY <1>1
    <2>1. PICK c : c = Chosen(t)
      OBVIOUS
    <2>2. c \in t /\ c \in U /\ y \in U /\ g[c] \in Nat /\ g[y] \in Nat
      BY <2>1, ChosenIsIn
    <2>3. F[t] = g[c] + F[t \ {c}]
      BY <2>1 DEF IsSum
    <2>4. CASE y # c
      <3>1. t \ {c} \in Good /\ t \ {y} \in Good /\ y \in t \ {c} /\ c \in t \ {y}
        BY <1>2, <2>2, <2>4
      <3>2. F[t \ {c}] = g[y] + F[(t \ {c}) \ {y}] /\ F[t \ {y}] = g[c] + F[(t \ {y}) \ {c}]
        BY <1>1, <3>1
      <3>3. PICK rest : rest = (t \ {c}) \ {y}
        OBVIOUS
      <3>4. rest = (t \ {y}) \ {c} /\ rest \in SUBSET U
        BY <3>3
      <3>5. F[rest] \in Nat
        BY <3>4 DEF IsSum
      <3>6. F[t] = g[c] + (g[y] + F[rest]) /\ F[t \ {y}] = g[c] + F[rest]
        BY <2>3, <3>2, <3>3, <3>4
      <3>7. QED BY <2>2, <3>5, <3>6
    <2>5. QED BY <2>3, <2>4
  <1>3. s \in Good
    BY <1>2, SubsetInduction
  <1>4. QED BY <1>1, <1>3

LEMMA SumAgrees ==
  ASSUME NEW U, IsFiniteSet(U), NEW g \in [U -> Nat], NEW F, IsSum(F, g, U),
         NEW V, NEW h \in [V -> Nat], NEW G, IsSum(G, h, V), U \subseteq V, \A x \in U : g[x] = h[x]
  PROVE  F[U] = G[U]
  <1>1. PICK Good : Good = {t \in SUBSET U : F[t] = G[t]}
    OBVIOUS
  <1>2. ASSUME NEW t \in SUBSET U, \A y \in t : t \ {y} \in Good PROVE t \in Good
    <2>1. CASE t = {}
      BY <1>1, <2>1 DEF IsSum
    <2>2. CASE t # {}
      <3>1. PICK c : c = Chosen(t)
        OBVIOUS
      <3>2. c \in t /\ t \in SUBSET V
        BY <2>2, <3>1, ChosenIsIn
      <3>3. F[t] = g[c] + F[t \ {c}] /\ G[t] = h[c] + G[t \ {c}]
        BY <2>2, <3>1, <3>2 DEF IsSum
      <3>4. F[t \ {c}] = G[t \ {c}]
        BY <1>1, <1>2, <3>2
      <3>5. g[c] = h[c]
        BY <3>2
      <3>6. QED BY <1>1, <3>3, <3>4, <3>5
    <2>3. QED BY <2>1, <2>2
  <1>3. \A t \in SUBSET U : t \in Good
    BY <1>2, SubsetInduction
  <1>4. U \in SUBSET U
    OBVIOUS
  <1>5. QED BY <1>1, <1>3, <1>4

\* What the ledger spent on some attempts, as AccountsBalance adds it up.
Spent(table, S) == MapThenSumSet(LAMBDA r : table[r[1]][r[2]].actual, S)
SpentOf(table, S) == [r \in S |-> table[r[1]][r[2]].actual]

LEMMA SpentIsASum ==
  ASSUME NEW table, NEW S, IsFiniteSet(S), \A r \in S : table[r[1]][r[2]].actual \in Nat
  PROVE  SpentOf(table, S) \in [S -> Nat] /\ \E F : IsSum(F, SpentOf(table, S), S) /\ Spent(table, S) = F[S]
  <1> DEFINE Recurs(F) == F = [s \in SUBSET S |-> IF s = {} THEN 0
                ELSE table[(CHOOSE x \in s : TRUE)[1]][(CHOOSE x \in s : TRUE)[2]].actual + F[s \ {CHOOSE x \in s : TRUE}]]
  <1>1. SpentOf(table, S) \in [S -> Nat]
    BY DEF SpentOf
  <1>2. PICK g : g = SpentOf(table, S)
    OBVIOUS
  <1>3. PICK F : IsSum(F, g, S)
    BY <1>1, <1>2, SumExists
  <1>4. \A s \in SUBSET S : s # {} => g[Chosen(s)] = table[(CHOOSE x \in s : TRUE)[1]][(CHOOSE x \in s : TRUE)[2]].actual
    BY <1>2, ChosenIsIn DEF SpentOf, Chosen
  <1>5. Recurs(F)
    <2>1. \A s \in SUBSET S : F[s] = IF s = {} THEN 0
             ELSE table[(CHOOSE x \in s : TRUE)[1]][(CHOOSE x \in s : TRUE)[2]].actual + F[s \ {CHOOSE x \in s : TRUE}]
      BY <1>3, <1>4 DEF IsSum, Chosen
    <2>2. F = [s \in SUBSET S |-> F[s]]
      BY <1>3 DEF IsSum
    <2>3. QED BY <2>1, <2>2, Zenon
  <1>6. Recurs(CHOOSE G : Recurs(G))
    <2> HIDE DEF Recurs
    <2> QED BY <1>5, Zenon
  <1>7. Spent(table, S) = (CHOOSE G : Recurs(G))[S]
    BY Zenon DEF Spent, MapThenSumSet, MapThenFoldSet
  <1>8. PICK G : Recurs(G) /\ Spent(table, S) = G[S]
    BY <1>6, <1>7
  <1>9. ASSUME NEW s \in SUBSET S PROVE G[s] = IF s = {} THEN 0 ELSE g[Chosen(s)] + G[s \ {Chosen(s)}]
    BY <1>4, <1>8 DEF Chosen
  <1> HIDE DEF Recurs
  <1>e. G[{}] = 0
    BY <1>9
  <1>s. \A s \in SUBSET S : s # {} => G[s] = g[Chosen(s)] + G[s \ {Chosen(s)}]
    BY <1>9
  <1>f. G = [s \in SUBSET S |-> G[s]]
    BY <1>8 DEF Recurs
  <1>10. G \in [SUBSET S -> Nat]
    <2>1. PICK Good : Good = {s \in SUBSET S : G[s] \in Nat}
      OBVIOUS
    <2>2. ASSUME NEW s \in SUBSET S, \A y \in s : s \ {y} \in Good PROVE s \in Good
      <3>1. CASE s = {}
        BY <1>e, <2>1, <3>1
      <3>2. CASE s # {}
        <4>1. Chosen(s) \in s
          BY <3>2, ChosenIsIn
        <4>2. g[Chosen(s)] \in Nat /\ G[s \ {Chosen(s)}] \in Nat
          BY <1>1, <1>2, <2>1, <2>2, <4>1
        <4>3. G[s] = g[Chosen(s)] + G[s \ {Chosen(s)}]
          BY <1>s, <3>2
        <4>4. G[s] \in Nat
          BY <4>2, <4>3
        <4>5. QED BY <2>1, <4>4
      <3>3. QED BY <3>1, <3>2
    <2>3. \A s \in SUBSET S : s \in Good
      BY <2>2, SubsetInduction
    <2>g. \A s \in SUBSET S : G[s] \in Nat
      BY <2>1, <2>3
    <2>4. QED BY <1>f, <2>g
  <1>11. QED BY <1>1, <1>2, <1>8, <1>9, <1>10 DEF IsSum

\* The two facts of a sum that the ledger's steps need.
LEMMA SpentKeeps ==
  ASSUME NEW table, NEW other, NEW S, IsFiniteSet(S), \A r \in S : table[r[1]][r[2]].actual \in Nat,
         \A r \in S : other[r[1]][r[2]].actual = table[r[1]][r[2]].actual
  PROVE  Spent(other, S) = Spent(table, S) /\ Spent(table, S) \in Nat
  <1>1. \A r \in S : other[r[1]][r[2]].actual \in Nat
    OBVIOUS
  <1>2. PICK g, h : g = SpentOf(table, S) /\ h = SpentOf(other, S)
    OBVIOUS
  <1>3. g \in [S -> Nat] /\ h \in [S -> Nat] /\ \A r \in S : g[r] = h[r]
    BY <1>1, <1>2, SpentIsASum DEF SpentOf
  <1>4. PICK F : IsSum(F, g, S) /\ Spent(table, S) = F[S]
    BY <1>2, SpentIsASum
  <1>5. PICK G : IsSum(G, h, S) /\ Spent(other, S) = G[S]
    BY <1>1, <1>2, SpentIsASum
  <1>6. F[S] = G[S]
    BY <1>3, <1>4, <1>5, SumAgrees
  <1>7. F[S] \in Nat
    BY <1>4 DEF IsSum
  <1>8. QED BY <1>4, <1>5, <1>6, <1>7

LEMMA SpentSplits ==
  ASSUME NEW table, NEW S, IsFiniteSet(S), \A r \in S : table[r[1]][r[2]].actual \in Nat, NEW x \in S
  PROVE  Spent(table, S) = table[x[1]][x[2]].actual + Spent(table, S \ {x})
  <1>1. PICK T : T = S \ {x}
    OBVIOUS
  <1>2. IsFiniteSet(T) /\ T \subseteq S
    BY <1>1, FS_RemoveElement
  <1>3. PICK g, h : g = SpentOf(table, S) /\ h = SpentOf(table, T)
    OBVIOUS
  <1>4. g \in [S -> Nat] /\ h \in [T -> Nat] /\ (\A r \in T : h[r] = g[r]) /\ g[x] = table[x[1]][x[2]].actual
    BY <1>2, <1>3, SpentIsASum DEF SpentOf
  <1>5. PICK F : IsSum(F, g, S) /\ Spent(table, S) = F[S]
    BY <1>3, SpentIsASum
  <1>6. PICK H : IsSum(H, h, T) /\ Spent(table, T) = H[T]
    BY <1>2, <1>3, SpentIsASum
  <1>7. H[T] = F[T]
    BY <1>2, <1>4, <1>5, <1>6, SumAgrees
  <1>8. F[S] = g[x] + F[S \ {x}]
    BY <1>4, <1>5, SumSplits
  <1>9. QED BY <1>1, <1>4, <1>5, <1>6, <1>7, <1>8

(***************************************************************************)
(* The spending ledger: a reservation follows its call, held money is not spent   *)
(* yet, and the two counters of a month are the sums of its reservations.            *)
(***************************************************************************)

HoldRow == [status : HELD \union {"none", "settled", "released", "reconciled"}, month : Month, actual : Nat, old : BOOLEAN]
HoldTable == [Call -> [Attempt -> HoldRow]]
Place == [pc : CallPlace, attempt : Attempt, process : Process]
McTyped ==
  /\ budget \in [limit : Limits, parallel : Parallel]
  /\ account \in [Month -> [spent : Nat, reserved : Int]]
  /\ hold \in HoldTable
  /\ callAt \in [Call -> Place]
  /\ billable \in [Call -> SUBSET Attempt] /\ masked \in [Call -> SUBSET Attempt]
  /\ room \in [Process -> Nat] /\ month \in Month /\ cut \in SUBSET Process

HeldIsUnpaid == \A c \in Call, i \in Attempt : hold[c][i].status \in HELD => hold[c][i].actual = 0

Charged == (HELD \ {"reserved"}) \union {"settled", "reconciled"}
\* Held or paid, or released because an HTTP error status answered it.
Accounted(t, m, c, i) == t[c][i].status \in Charged \/ (t[c][i].status = "released" /\ i \in m[c])
\* Where a call is, what its reservations are, and what may have been charged.
CallFits(c) ==
  /\ \A i \in Attempt : i > callAt[c].attempt => hold[c][i].status = "none"
  /\ callAt[c].pc \in {"waiting", "ready"} => hold[c][callAt[c].attempt].status = "none"
  /\ callAt[c].pc = "sent" => hold[c][callAt[c].attempt].status \in {"dispatching", "unreconciled", "reconciled"}
  /\ \A i \in billable[c] :
       /\ i <= callAt[c].attempt
       /\ callAt[c].pc \in {"waiting", "ready", "reserved", "sent"} => i < callAt[c].attempt
       /\ Accounted(hold, masked, c, i)
McInv == McTyped /\ HeldIsUnpaid /\ AccountsBalance /\ \A c \in Call : CallFits(c)

CallTable == Call \X Attempt
Rows(t, m) == {r \in CallTable : t[r[1]][r[2]].status # "none" /\ t[r[1]][r[2]].month = m}
HeldRows(t, m) == {r \in Rows(t, m) : t[r[1]][r[2]].status \in HELD}
Books(t, counters) ==
  \A m \in Month : /\ counters[m].reserved = Estimate * Cardinality(HeldRows(t, m))
                   /\ counters[m].spent = Spent(t, Rows(t, m))

LEMMA BooksAreTheAccounts ==
  (AccountsBalance <=> Books(hold, account)) /\ (AccountsBalance' <=> Books(hold', account'))
  <1>1. AccountsBalance <=> Books(hold, account)
    BY DEF AccountsBalance, Books, Rows, HeldRows, Spent, CallRows, CallTable
  <1>2. (AccountsBalance <=> Books(hold, account))'
    BY <1>1, PTL
  <1>b. Books(hold, account)' <=> Books(hold', account')
    BY DEF Books, Rows, HeldRows
  <1>3. QED BY <1>1, <1>2, <1>b

LEMMA RowsOfAMonth ==
  ASSUME NEW t \in HoldTable, NEW m
  PROVE  /\ Rows(t, m) \subseteq CallTable /\ HeldRows(t, m) \subseteq Rows(t, m)
         /\ IsFiniteSet(Rows(t, m)) /\ IsFiniteSet(HeldRows(t, m)) /\ Cardinality(HeldRows(t, m)) \in Nat
         /\ \A r \in Rows(t, m) : t[r[1]][r[2]].actual \in Nat
  <1>1. Rows(t, m) \subseteq CallTable /\ HeldRows(t, m) \subseteq Rows(t, m)
    BY DEF Rows, HeldRows
  <1>2. IsFiniteSet(Attempt)
    BY ModelCallsAssumption, FS_Interval DEF Attempt
  <1>3. IsFiniteSet(CallTable)
    BY <1>2, ModelCallsAssumption, FS_Product DEF CallTable
  <1>4. IsFiniteSet(Rows(t, m)) /\ IsFiniteSet(HeldRows(t, m))
    BY <1>1, <1>3, FS_Subset
  <1>5. \A r \in CallTable : t[r[1]][r[2]] \in HoldRow
    BY DEF CallTable, HoldTable
  <1>6. QED BY <1>1, <1>4, <1>5, FS_CardinalityType DEF HoldRow

\* A cell whose books are the same: the status may move among those of held money.
SameBooks(new, old) ==
  /\ new.month = old.month /\ new.actual = old.actual
  /\ (new.status = "none") <=> (old.status = "none")
  /\ (new.status \in HELD) <=> (old.status \in HELD)

LEMMA BooksKeep ==
  ASSUME NEW t \in HoldTable, NEW u \in HoldTable, NEW counters, Books(t, counters),
         \A r \in CallTable : SameBooks(u[r[1]][r[2]], t[r[1]][r[2]])
  PROVE  Books(u, counters)
  <1> SUFFICES ASSUME NEW m \in Month PROVE Rows(u, m) = Rows(t, m) /\ HeldRows(u, m) = HeldRows(t, m) /\ Spent(u, Rows(t, m)) = Spent(t, Rows(t, m))
    BY DEF Books
  <1>1. Rows(u, m) = Rows(t, m)
    BY DEF Rows, SameBooks
  <1>2. HeldRows(u, m) = HeldRows(t, m)
    BY <1>1, RowsOfAMonth DEF HeldRows, SameBooks
  <1>3. \A r \in Rows(t, m) : u[r[1]][r[2]].actual = t[r[1]][r[2]].actual
    BY RowsOfAMonth DEF SameBooks
  <1>4. Spent(u, Rows(t, m)) = Spent(t, Rows(t, m))
    BY <1>3, RowsOfAMonth, SpentKeeps
  <1>5. QED BY <1>1, <1>2, <1>4

\* A reservation is made: one more held row, and nothing spent.
LEMMA BooksReserve ==
  ASSUME NEW t \in HoldTable, NEW u \in HoldTable, NEW x \in CallTable, NEW counters, NEW after, NEW m0 \in Month,
         Books(t, counters), t[x[1]][x[2]].status = "none",
         u[x[1]][x[2]].status = "reserved", u[x[1]][x[2]].month = m0, u[x[1]][x[2]].actual = 0,
         \A r \in CallTable \ {x} : SameBooks(u[r[1]][r[2]], t[r[1]][r[2]]),
         \A m \in Month : after[m].spent = counters[m].spent
                          /\ after[m].reserved = IF m = m0 THEN counters[m].reserved + Estimate ELSE counters[m].reserved
  PROVE  Books(u, after)
  <1> SUFFICES ASSUME NEW m \in Month
               PROVE  /\ after[m].reserved = Estimate * Cardinality(HeldRows(u, m))
                      /\ after[m].spent = Spent(u, Rows(u, m))
    BY DEF Books
  <1>1. counters[m].reserved = Estimate * Cardinality(HeldRows(t, m)) /\ counters[m].spent = Spent(t, Rows(t, m))
    BY DEF Books
  <1>2. PICK S, H : S = Rows(t, m) /\ H = HeldRows(t, m)
    OBVIOUS
  <1>3. IsFiniteSet(S) /\ IsFiniteSet(H) /\ Cardinality(H) \in Nat /\ x \notin S /\ x \notin H /\ Estimate \in Nat
    <2>1. IsFiniteSet(S) /\ IsFiniteSet(H) /\ Cardinality(H) \in Nat
      BY <1>2, RowsOfAMonth
    <2>2. x \notin S /\ x \notin H
      BY <1>2 DEF Rows, HeldRows
    <2>3. QED BY <2>1, <2>2, ModelCallsAssumption
  <1>4. \A r \in S : u[r[1]][r[2]].actual = t[r[1]][r[2]].actual /\ t[r[1]][r[2]].actual \in Nat
    BY <1>2, <1>3, RowsOfAMonth DEF SameBooks
  <1>5. Spent(u, S) = Spent(t, S) /\ Spent(t, S) \in Nat
    BY <1>3, <1>4, SpentKeeps
  <1>6. CASE m # m0
    <2>1. Rows(u, m) = S /\ HeldRows(u, m) = H
      BY <1>2, <1>6 DEF Rows, HeldRows, SameBooks
    <2>2. QED BY <1>1, <1>2, <1>5, <1>6, <2>1
  <1>7. CASE m = m0
    <2>1. Rows(u, m) = S \union {x} /\ HeldRows(u, m) = H \union {x}
      BY <1>2, <1>7 DEF Rows, HeldRows, SameBooks, HELD
    <2>2. Cardinality(HeldRows(u, m)) = Cardinality(H) + 1
      BY <1>3, <2>1, FS_AddElement
    <2>3. PICK T : T = Rows(u, m)
      OBVIOUS
    <2>4. x \in T /\ T \ {x} = S /\ IsFiniteSet(T) /\ \A r \in T : u[r[1]][r[2]].actual \in Nat
      BY <1>3, <2>1, <2>3, RowsOfAMonth
    <2>5. Spent(u, T) = u[x[1]][x[2]].actual + Spent(u, S)
      BY <2>4, SpentSplits
    <2>6. Spent(u, T) = Spent(t, S)
      BY <1>5, <2>5
    <2>7. Estimate * (Cardinality(H) + 1) = Estimate * Cardinality(H) + Estimate
      BY <1>3
    <2>8. QED BY <1>1, <1>2, <1>7, <2>2, <2>3, <2>6, <2>7
  <1>8. QED BY <1>6, <1>7

\* A hold is settled: it leaves the held rows of its month, and what it cost is spent there.
LEMMA BooksSettle ==
  ASSUME NEW t \in HoldTable, NEW u \in HoldTable, NEW x \in CallTable, NEW counters, NEW after, NEW m0 \in Month, NEW a \in Nat,
         Books(t, counters), t[x[1]][x[2]].status \in HELD, t[x[1]][x[2]].month = m0, t[x[1]][x[2]].actual = 0,
         u[x[1]][x[2]].status \notin HELD \union {"none"}, u[x[1]][x[2]].month = m0, u[x[1]][x[2]].actual = a,
         \A r \in CallTable \ {x} : SameBooks(u[r[1]][r[2]], t[r[1]][r[2]]),
         after[m0].spent = counters[m0].spent + a, after[m0].reserved = counters[m0].reserved - Estimate,
         \A m \in Month \ {m0} : after[m] = counters[m]
  PROVE  Books(u, after)
  <1> SUFFICES ASSUME NEW m \in Month
               PROVE  /\ after[m].reserved = Estimate * Cardinality(HeldRows(u, m))
                      /\ after[m].spent = Spent(u, Rows(u, m))
    BY DEF Books
  <1>1. counters[m].reserved = Estimate * Cardinality(HeldRows(t, m)) /\ counters[m].spent = Spent(t, Rows(t, m))
    BY DEF Books
  <1>2. PICK S, H : S = Rows(t, m) /\ H = HeldRows(t, m)
    OBVIOUS
  <1>3. IsFiniteSet(S) /\ IsFiniteSet(H) /\ Cardinality(H) \in Nat /\ Estimate \in Nat
    BY <1>2, RowsOfAMonth, ModelCallsAssumption
  <1>4. \A r \in S : t[r[1]][r[2]].actual \in Nat /\ (r # x => u[r[1]][r[2]].actual = t[r[1]][r[2]].actual)
    BY <1>2, RowsOfAMonth DEF SameBooks
  <1>n. "none" \notin HELD
    BY DEF HELD
  <1>5. Rows(u, m) = S
    BY <1>2, <1>n DEF Rows, SameBooks
  <1>6. CASE m # m0
    <2>1. x \notin S
      BY <1>2, <1>6 DEF Rows
    <2>2. HeldRows(u, m) = H
      BY <1>2, <1>5, <2>1, RowsOfAMonth DEF HeldRows, SameBooks
    <2>3. Spent(u, S) = Spent(t, S)
      BY <1>3, <1>4, <2>1, SpentKeeps
    <2>4. QED BY <1>1, <1>2, <1>5, <1>6, <2>2, <2>3
  <1>7. CASE m = m0
    <2>1. x \in S /\ x \in H
      BY <1>2, <1>7, <1>n DEF Rows, HeldRows
    <2>2. HeldRows(u, m) = H \ {x}
      BY <1>2, <1>5, RowsOfAMonth DEF HeldRows, SameBooks
    <2>3. Cardinality(HeldRows(u, m)) = Cardinality(H) - 1
      BY <1>3, <2>1, <2>2, FS_RemoveElement
    <2>4. PICK T : T = S \ {x}
      OBVIOUS
    <2>5. IsFiniteSet(T) /\ \A r \in T : t[r[1]][r[2]].actual \in Nat /\ u[r[1]][r[2]].actual = t[r[1]][r[2]].actual
      BY <1>3, <1>4, <2>4, FS_RemoveElement
    <2>6. Spent(u, T) = Spent(t, T) /\ Spent(t, T) \in Nat
      BY <2>5, SpentKeeps
    <2>c. \A r \in S : t[r[1]][r[2]].actual \in Nat
      BY <1>4
    <2>a. Spent(t, S) = t[x[1]][x[2]].actual + Spent(t, S \ {x})
      BY <1>3, <2>1, <2>c, SpentSplits
    <2>7. Spent(t, S) = 0 + Spent(t, T)
      BY <2>4, <2>a
    <2>8. \A r \in S : u[r[1]][r[2]].actual \in Nat
      BY <1>4, <2>1
    <2>b. Spent(u, S) = u[x[1]][x[2]].actual + Spent(u, S \ {x})
      BY <1>3, <2>1, <2>8, SpentSplits
    <2>9. Spent(u, S) = a + Spent(u, T)
      BY <2>4, <2>b
    <2>10. Estimate * (Cardinality(H) - 1) = Estimate * Cardinality(H) - Estimate
      BY <1>3
    <2>11. Spent(u, S) = Spent(t, S) + a
      BY <2>6, <2>7, <2>9
    <2>12. after[m].reserved = counters[m].reserved - Estimate /\ after[m].spent = counters[m].spent + a
      BY <1>7
    <2>13. after[m].reserved = Estimate * Cardinality(HeldRows(u, m))
      BY <1>1, <1>2, <2>3, <2>10, <2>12
    <2>14. after[m].spent = Spent(u, Rows(u, m))
      BY <1>1, <1>2, <1>5, <2>11, <2>12
    <2>15. QED BY <2>13, <2>14
  <1>8. QED BY <1>6, <1>7

\* What may happen to a cell that a step does not write: a slot that ran out is freed.
Drifts(new, old) ==
  /\ SameBooks(new, old)
  /\ (new.status = old.status) \/ (old.status \in {"dispatching", "uncertain"} /\ new.status = "unreconciled")

LEMMA CellTyped == ASSUME NEW t \in HoldTable, NEW c \in Call, NEW i \in Attempt PROVE t[c][i] \in HoldRow /\ Drifts(t[c][i], t[c][i])
  BY DEF HoldTable, Drifts, SameBooks

LEMMA SlotsExpire ==
  ASSUME NEW t \in HoldTable
  PROVE  /\ ExpireSlots(t) \in HoldTable
         /\ \A c \in Call, i \in Attempt :
              /\ Drifts(ExpireSlots(t)[c][i], t[c][i])
              /\ t[c][i].status \notin {"dispatching", "uncertain"} => ExpireSlots(t)[c][i] = t[c][i]
  <1> SUFFICES ASSUME NEW c \in Call, NEW i \in Attempt
               PROVE  /\ ExpireSlots(t)[c][i] \in HoldRow /\ Drifts(ExpireSlots(t)[c][i], t[c][i])
                      /\ t[c][i].status \notin {"dispatching", "uncertain"} => ExpireSlots(t)[c][i] = t[c][i]
    BY DEF ExpireSlots, HoldTable
  <1>1. t[c][i] \in HoldRow
    BY CellTyped
  <1>2. CASE t[c][i].status \in {"dispatching", "uncertain"} /\ t[c][i].old
    <2>1. PICK row : row = [t[c][i] EXCEPT !.status = "unreconciled", !.old = FALSE]
      OBVIOUS
    <2>2. row \in HoldRow /\ row.status = "unreconciled" /\ row.month = t[c][i].month /\ row.actual = t[c][i].actual
      BY <1>1, <2>1 DEF HoldRow, HELD
    <2>3. ExpireSlots(t)[c][i] = row
      BY <1>2, <2>1 DEF ExpireSlots
    <2>4. QED BY <1>2, <2>2, <2>3 DEF Drifts, SameBooks, HELD
  <1>3. CASE ~(t[c][i].status \in {"dispatching", "uncertain"} /\ t[c][i].old)
    <2>1. ExpireSlots(t)[c][i] = t[c][i]
      BY <1>3 DEF ExpireSlots
    <2>2. QED BY <1>1, <2>1, CellTyped
  <1>4. QED BY <1>2, <1>3

LEMMA CellMarked ==
  ASSUME NEW t \in HoldTable, NEW c \in Call, NEW i \in Attempt, NEW mark \in HELD
  PROVE  /\ Marked(t, c, i, mark) \in HoldTable
         /\ Marked(t, c, i, mark)[c][i].status = mark
         /\ Marked(t, c, i, mark)[c][i].month = t[c][i].month
         /\ Marked(t, c, i, mark)[c][i].actual = t[c][i].actual
         /\ \A d \in Call, j \in Attempt : (d # c \/ j # i) => Marked(t, c, i, mark)[d][j] = t[d][j]
  <1>1. t[c][i] \in HoldRow
    BY CellTyped
  <1>2. PICK row : row = [t[c][i] EXCEPT !.status = mark, !.old = FALSE]
    OBVIOUS
  <1>3. row \in HoldRow /\ row.status = mark /\ row.month = t[c][i].month /\ row.actual = t[c][i].actual
    BY <1>1, <1>2 DEF HoldRow
  <1>4. PICK u : u = Marked(t, c, i, mark)
    OBVIOUS
  <1>5. u = [t EXCEPT ![c][i] = row]
    BY <1>2, <1>4 DEF Marked
  <1>6. u \in HoldTable /\ u[c][i] = row /\ \A d \in Call, j \in Attempt : (d # c \/ j # i) => u[d][j] = t[d][j]
    BY <1>3, <1>5 DEF HoldTable
  <1>7. QED BY <1>3, <1>4, <1>6

LEMMA FitsElsewhere ==
  ASSUME McTyped, NEW d \in Call, CallFits(d), callAt'[d] = callAt[d], billable'[d] = billable[d], masked'[d] = masked[d],
         \A j \in Attempt : Drifts(hold'[d][j], hold[d][j])
  PROVE  CallFits(d)'
  <1>1. callAt[d].attempt \in Attempt /\ billable[d] \subseteq Attempt
    BY DEF McTyped, Place
  <1>2. QED BY <1>1 DEF CallFits, Accounted, Drifts, SameBooks, Charged, HELD

\* Steps that write neither counter.
LEMMA BooksDrift ==
  ASSUME McInv, hold' \in HoldTable, account' = account,
         \A c \in Call, j \in Attempt : SameBooks(hold'[c][j], hold[c][j])
  PROVE  AccountsBalance' /\ HeldIsUnpaid'
  <1>1. PICK t, u, counters : t = hold /\ u = hold' /\ counters = account
    OBVIOUS
  <1>2. t \in HoldTable /\ u \in HoldTable /\ Books(t, counters)
    BY <1>1, BooksAreTheAccounts DEF McInv, McTyped
  <1>3. \A r \in CallTable : SameBooks(u[r[1]][r[2]], t[r[1]][r[2]])
    BY <1>1 DEF CallTable
  <1>4. Books(u, counters)
    BY <1>2, <1>3, BooksKeep
  <1>5. AccountsBalance'
    BY <1>1, <1>4, BooksAreTheAccounts
  <1>6. HeldIsUnpaid'
    BY DEF McInv, HeldIsUnpaid, SameBooks
  <1>7. QED BY <1>5, <1>6

\* Settle, in its two uses: an attempt that ended, and an owner's reconciliation.
LEMMA SettleKeepsBooks ==
  ASSUME McInv, NEW c \in Call, NEW i \in Attempt, NEW a \in Nat, NEW mark \in {"settled", "released", "reconciled"},
         hold[c][i].status \in HELD, Settle(c, i, a, mark)
  PROVE  /\ AccountsBalance' /\ HeldIsUnpaid' /\ hold' \in HoldTable
         /\ account' \in [Month -> [spent : Nat, reserved : Int]]
         /\ hold'[c][i].status = mark
         /\ \A d \in Call, j \in Attempt : (d # c \/ j # i) => hold'[d][j] = hold[d][j]
  <1>1. PICK t, u, counters, after, m0 : t = hold /\ u = hold' /\ counters = account /\ after = account' /\ m0 = hold[c][i].month
    OBVIOUS
  <1>2. t \in HoldTable /\ Books(t, counters) /\ counters \in [Month -> [spent : Nat, reserved : Int]] /\ t[c][i] \in HoldRow
    BY <1>1, BooksAreTheAccounts, CellTyped DEF McInv, McTyped
  <1>3. t[c][i].actual = 0 /\ m0 \in Month
    BY <1>1, <1>2 DEF McInv, HeldIsUnpaid, HoldRow
  <1>4. PICK row : row = [t[c][i] EXCEPT !.status = mark, !.actual = a, !.old = FALSE]
    OBVIOUS
  <1>5. row \in HoldRow /\ row.status = mark /\ row.month = m0 /\ row.actual = a
    BY <1>1, <1>2, <1>4 DEF HoldRow
  <1>6. u = [t EXCEPT ![c][i] = row]
    BY <1>1, <1>4 DEF Settle
  <1>7. u \in HoldTable /\ u[c][i] = row /\ \A d \in Call, j \in Attempt : (d # c \/ j # i) => u[d][j] = t[d][j]
    BY <1>2, <1>5, <1>6 DEF HoldTable
  <1>8. PICK x : x = <<c, i>>
    OBVIOUS
  <1>9. x \in CallTable /\ x[1] = c /\ x[2] = i
    BY <1>8 DEF CallTable
  <1>10. \A r \in CallTable \ {x} : SameBooks(u[r[1]][r[2]], t[r[1]][r[2]])
    BY <1>7, <1>8 DEF CallTable, SameBooks
  <1>11. PICK entry : entry = [spent |-> counters[m0].spent + a, reserved |-> counters[m0].reserved - Estimate]
    OBVIOUS
  <1>12. entry \in [spent : Nat, reserved : Int]
    BY <1>2, <1>3, <1>11, ModelCallsAssumption
  <1>13. after = [counters EXCEPT ![m0] = entry]
    BY <1>1, <1>11 DEF Settle
  <1>14. after \in [Month -> [spent : Nat, reserved : Int]]
    BY <1>2, <1>12, <1>13
  <1>15. /\ after[m0].spent = counters[m0].spent + a /\ after[m0].reserved = counters[m0].reserved - Estimate
         /\ \A m \in Month \ {m0} : after[m] = counters[m]
    BY <1>2, <1>3, <1>11, <1>13
  <1>16. u[x[1]][x[2]].status \notin HELD \union {"none"}
    BY <1>5, <1>7, <1>9 DEF HELD
  <1>o. t[x[1]][x[2]].status \in HELD /\ t[x[1]][x[2]].month = m0 /\ t[x[1]][x[2]].actual = 0
    BY <1>1, <1>3, <1>9
  <1>n. u[x[1]][x[2]].month = m0 /\ u[x[1]][x[2]].actual = a
    BY <1>5, <1>7, <1>9
  <1>17. Books(u, after)
    BY <1>2, <1>3, <1>7, <1>9, <1>o, <1>n, <1>10, <1>15, <1>16, BooksSettle
  <1>18. AccountsBalance'
    BY <1>1, <1>17, BooksAreTheAccounts
  <1>19. HeldIsUnpaid'
    <2>1. \A d \in Call, j \in Attempt : u[d][j].status \in HELD => u[d][j].actual = 0
      BY <1>1, <1>5, <1>7 DEF McInv, HeldIsUnpaid, HELD
    <2>2. QED BY <1>1, <2>1 DEF HeldIsUnpaid
  <1>20. QED BY <1>1, <1>5, <1>7, <1>14, <1>18, <1>19

LEMMA LedgerStarts == ModelCallsInit => McInv
  <1> SUFFICES ASSUME ModelCallsInit PROVE McInv
    OBVIOUS
  <1>1. PICK t, counters : t = hold /\ counters = account
    OBVIOUS
  <1>2. 1 \in Attempt
    BY ModelCallsAssumption DEF Attempt
  <1>3. NoHold \in HoldRow /\ NoHold.status = "none"
    BY DEF NoHold, HoldRow, Month
  <1>4. McTyped
    <2>1. hold \in HoldTable
      BY <1>3 DEF ModelCallsInit, HoldTable
    <2>2. account \in [Month -> [spent : Nat, reserved : Int]]
      BY DEF ModelCallsInit
    <2>3. /\ callAt \in [Call -> Place]
          /\ billable \in [Call -> SUBSET Attempt] /\ masked \in [Call -> SUBSET Attempt]
      <3>1. AnyProcess \in Process
        BY ModelCallsAssumption DEF AnyProcess
      <3>2. QED BY <1>2, <3>1 DEF ModelCallsInit, CallPlace, Place
    <2>4. budget \in [limit : Limits, parallel : Parallel] /\ room \in [Process -> Nat] /\ month \in Month
      BY DEF ModelCallsInit, Month
    <2>5. cut \in SUBSET Process
      BY DEF ModelCallsInit
    <2>6. QED BY <2>1, <2>2, <2>3, <2>4, <2>5 DEF McTyped
  <1>5. HeldIsUnpaid
    BY <1>3 DEF ModelCallsInit, HeldIsUnpaid, HELD
  <1>6. \A c \in Call : CallFits(c)
    BY <1>2, <1>3 DEF ModelCallsInit, CallFits
  <1>7. Books(t, counters)
    <2> SUFFICES ASSUME NEW m \in Month
                 PROVE  counters[m].reserved = Estimate * Cardinality(HeldRows(t, m)) /\ counters[m].spent = Spent(t, Rows(t, m))
      BY DEF Books
    <2>1. Rows(t, m) = {} /\ HeldRows(t, m) = {}
      BY <1>1, <1>3 DEF ModelCallsInit, Rows, HeldRows, CallTable
    <2>2. counters[m].spent = 0 /\ counters[m].reserved = 0
      BY <1>1 DEF ModelCallsInit
    <2>3. Cardinality({}) = 0 /\ IsFiniteSet({})
      BY FS_EmptySet
    <2>4. Spent(t, {}) = 0
      <3>1. PICK S : S = {}
        OBVIOUS
      <3>2. PICK F : IsSum(F, SpentOf(t, S), S) /\ Spent(t, S) = F[S]
        BY <2>3, <3>1, SpentIsASum
      <3>3. F[S] = 0
        BY <3>1, <3>2 DEF IsSum
      <3>4. QED BY <3>1, <3>2, <3>3
    <2>5. Estimate * 0 = 0
      BY ModelCallsAssumption
    <2>6. QED BY <2>1, <2>2, <2>3, <2>4, <2>5
  <1>8. AccountsBalance
    BY <1>1, <1>7, BooksAreTheAccounts
  <1>9. QED BY <1>4, <1>5, <1>6, <1>8 DEF McInv

\* Steps of the pool, of the owner's settings and of time: no reservation is written.
PlaceMoves(d) ==
  /\ callAt'[d].attempt = callAt[d].attempt
  /\ \/ callAt'[d].pc = callAt[d].pc
     \/ callAt'[d].pc \in {"returned", "reaped"}
     \/ callAt[d].pc = "waiting" /\ callAt'[d].pc = "ready"

LEMMA PlacesMove ==
  ASSUME McInv, McTyped', UNCHANGED <<account, hold, billable, masked>>, \A d \in Call : PlaceMoves(d)
  PROVE  McInv'
  <1>1. ASSUME NEW d \in Call PROVE CallFits(d)'
    <2>1. CallFits(d) /\ PlaceMoves(d)
      BY DEF McInv
    <2>2. QED BY <2>1 DEF CallFits, PlaceMoves, Accounted
  <1>2. AccountsBalance' /\ HeldIsUnpaid'
    BY BooksDrift DEF McInv, McTyped, SameBooks
  <1>3. QED BY <1>1, <1>2 DEF McInv

LEMMA Went ==
  ASSUME McTyped, NEW c \in Call, NEW pc \in CallPlace, Goto(c, pc)
  PROVE  /\ callAt' \in [Call -> Place]
         /\ callAt'[c].pc = pc /\ callAt'[c].attempt = callAt[c].attempt
         /\ callAt'[c].process = callAt[c].process
         /\ \A d \in Call \ {c} : callAt'[d] = callAt[d]
  <1>1. callAt[c] \in Place
    BY DEF McTyped
  <1>2. PICK at : at = [callAt[c] EXCEPT !.pc = pc]
    OBVIOUS
  <1>3. at \in Place /\ at.pc = pc /\ at.attempt = callAt[c].attempt /\ at.process = callAt[c].process
    BY <1>1, <1>2 DEF Place
  <1>4. callAt' = [callAt EXCEPT ![c] = at]
    BY <1>2 DEF Goto
  <1>5. QED BY <1>3, <1>4 DEF McTyped

LEMMA RefusedKeeps ==
  ASSUME McInv, NEW c \in Call, ReserveRefused(c) \/ DispatchRefused(c) PROVE McInv'
  <1>1. Goto(c, "returned") /\ UNCHANGED <<budget, account, hold, room, month, masked, cut, billable>>
    BY DEF ReserveRefused, DispatchRefused, callEnvVars
  <1>2. "returned" \in CallPlace
    BY DEF CallPlace
  <1>3. McTyped'
    BY <1>1, <1>2, Went DEF McInv, McTyped
  <1>4. \A d \in Call : PlaceMoves(d)
    BY <1>1, <1>2, Went DEF McInv, PlaceMoves
  <1>5. QED BY <1>1, <1>3, <1>4, PlacesMove

LEMMA Begun ==
  ASSUME McTyped, NEW c \in Call, NEW p \in Process, Started(c, p)
  PROVE  /\ callAt' \in [Call -> Place]
         /\ callAt'[c].pc = "ready" /\ callAt'[c].attempt = callAt[c].attempt /\ callAt'[c].process = p
         /\ \A d \in Call \ {c} : callAt'[d] = callAt[d]
  <1>1. callAt[c] \in Place
    BY DEF McTyped
  <1>2. PICK at : at = [callAt[c] EXCEPT !.pc = "ready", !.process = p]
    OBVIOUS
  <1>3. at \in Place /\ at.pc = "ready" /\ at.attempt = callAt[c].attempt /\ at.process = p
    BY <1>1, <1>2 DEF Place, CallPlace
  <1>4. callAt' = [callAt EXCEPT ![c] = at]
    BY <1>2 DEF Started
  <1>5. QED BY <1>3, <1>4 DEF McTyped

LEMMA TakeKeeps ==
  ASSUME McInv, NEW c \in Call, NEW p \in Process, Take(c, p) PROVE McInv'
  <1>1. Started(c, p) /\ callAt[c].pc = "waiting" /\ UNCHANGED <<budget, account, hold, month, masked, cut, billable>>
    BY DEF Take, callEnvVars
  <1>2. room' \in [Process -> Nat]
    BY DEF Take, McInv, McTyped
  <1>3. McTyped'
    BY <1>1, <1>2, Begun DEF McInv, McTyped
  <1>4. \A d \in Call : PlaceMoves(d)
    BY <1>1, Begun DEF McInv, PlaceMoves
  <1>5. QED BY <1>1, <1>3, <1>4, PlacesMove

\* The room of the pump is a number.
LEMMA SlotsCounted == ASSUME McTyped PROVE Slots \in Nat /\ IsFiniteSet({r \in Call \X Attempt : TakesSlot(hold[r[1]][r[2]])})
  <1>1. IsFiniteSet(Attempt)
    BY ModelCallsAssumption, FS_Interval DEF Attempt
  <1>2. IsFiniteSet(Call \X Attempt)
    BY <1>1, ModelCallsAssumption, FS_Product
  <1>3. PICK S : S = {r \in Call \X Attempt : TakesSlot(hold[r[1]][r[2]])}
    OBVIOUS
  <1>4. IsFiniteSet(S) /\ Cardinality(S) \in Nat
    BY <1>2, <1>3, FS_Subset, FS_CardinalityType
  <1>5. QED BY <1>3, <1>4 DEF Slots

LEMMA CallsCounted == ASSUME NEW S, S \subseteq Call PROVE IsFiniteSet(S) /\ Cardinality(S) \in Nat
  BY ModelCallsAssumption, FS_Subset, FS_CardinalityType

LEMMA LeastOfThree ==
  ASSUME NEW x \in Int, NEW y \in Int, NEW z \in Int PROVE Min({x, y, z}) \in {x, y, z} /\ Min({x, y, z}) <= x /\ Min({x, y, z}) <= y /\ Min({x, y, z}) <= z
  <1>1. PICK S : S = {x, y, z}
    OBVIOUS
  <1>2. \E w \in S : \A v \in S : w <= v
    BY <1>1
  <1>3. Min(S) \in S /\ \A v \in S : Min(S) <= v
    BY <1>2, Zenon DEF Min
  <1>4. QED BY <1>1, <1>3

LEMMA GreatestOfTwo ==
  ASSUME NEW x \in Int, NEW y \in Int PROVE Max({x, y}) \in {x, y} /\ x <= Max({x, y}) /\ y <= Max({x, y})
  <1>1. PICK S : S = {x, y}
    OBVIOUS
  <1>2. \E w \in S : \A v \in S : w >= v
    BY <1>1
  <1>3. Max(S) \in S /\ \A v \in S : Max(S) >= v
    BY <1>2, Zenon DEF Max
  <1>4. QED BY <1>1, <1>3

Working(p) == {c \in InFlight(p) : callAt[c].pc # "returned"}
LEMMA PumpReadsRoom ==
  ASSUME McTyped, NEW p \in Process, Pump(p)
  PROVE  \E n \in Nat : /\ room' = [room EXCEPT ![p] = n]
                        /\ n = 0 \/ (Cardinality(Working(p)) + n <= budget.parallel /\ Slots + n <= budget.parallel)
  <1>1. PICK running : running = Cardinality(Working(p))
    OBVIOUS
  <1>2. running \in Nat
    BY <1>1, CallsCounted DEF Working, InFlight
  <1>3. PICK slots, parallel : slots = Slots /\ parallel = budget.parallel
    OBVIOUS
  <1>4. slots \in Nat /\ parallel \in Nat /\ PerTenant \in Nat
    BY <1>3, SlotsCounted, ModelCallsAssumption DEF McTyped
  <1>5. PICK a, b, c : a = PerTenant - running /\ b = parallel - running /\ c = parallel - slots
    OBVIOUS
  <1>6. PICK free, n : free = Min({a, b, c}) /\ n = Max({free, 0})
    OBVIOUS
  <1>i. a \in Int /\ b \in Int /\ c \in Int
    BY <1>2, <1>4, <1>5
  <1>7. free \in Int /\ free <= b /\ free <= c
    BY <1>i, <1>6, LeastOfThree
  <1>8. room' = [room EXCEPT ![p] = n]
    BY <1>1, <1>3, <1>5, <1>6 DEF Pump, Working
  <1>9. n \in {free, 0} /\ free <= n /\ 0 <= n
    BY <1>6, <1>7, GreatestOfTwo
  <1>10. n \in Nat
    BY <1>7, <1>9
  <1>11. n = 0 \/ (running + n <= parallel /\ slots + n <= parallel)
    BY <1>2, <1>4, <1>5, <1>7, <1>9
  <1>12. QED BY <1>1, <1>3, <1>8, <1>10, <1>11

LEMMA PumpKeeps ==
  ASSUME McInv, NEW p \in Process, Pump(p) PROVE McInv'
  <1>1. UNCHANGED <<budget, account, hold, month, masked, billable>>
    BY DEF Pump
  <1>2. room' \in [Process -> Nat] /\ cut' \in SUBSET Process
    <2>1. PICK n \in Nat : room' = [room EXCEPT ![p] = n]
      BY PumpReadsRoom DEF McInv
    <2>2. QED BY <2>1 DEF Pump, McInv, McTyped
  <1>3. \A d \in Call : callAt'[d] \in Place /\ PlaceMoves(d)
    <2> SUFFICES ASSUME NEW d \in Call PROVE callAt'[d] \in Place /\ PlaceMoves(d)
      OBVIOUS
    <2>1. callAt[d] \in Place
      BY DEF McInv, McTyped
    <2>2. CASE d \in InFlight(p) /\ callAt[d].pc = "returned"
      <3>1. callAt'[d] = [callAt[d] EXCEPT !.pc = "reaped"]
        BY <2>2 DEF Pump
      <3>2. QED BY <2>1, <3>1 DEF PlaceMoves, CallPlace, Place
    <2>3. CASE ~(d \in InFlight(p) /\ callAt[d].pc = "returned")
      <3>1. callAt'[d] = callAt[d]
        BY <2>3 DEF Pump
      <3>2. QED BY <2>1, <3>1 DEF PlaceMoves
    <2>4. QED BY <2>2, <2>3
  <1>4. callAt' = [d \in Call |-> callAt'[d]]
    BY DEF Pump
  <1>5. McTyped'
    BY <1>1, <1>2, <1>3, <1>4 DEF McInv, McTyped
  <1>6. QED BY <1>1, <1>3, <1>5, PlacesMove

LEMMA PumpEndKeeps ==
  ASSUME McInv, NEW p \in Process, PumpEnds(p) PROVE McInv'
  <1>1. UNCHANGED <<budget, account, hold, callAt, month, masked, cut, billable>> /\ room' \in [Process -> Nat]
    BY DEF PumpEnds, callEnvVars, McInv, McTyped
  <1>2. McTyped' /\ \A d \in Call : PlaceMoves(d)
    BY <1>1 DEF McInv, McTyped, PlaceMoves
  <1>3. QED BY <1>1, <1>2, PlacesMove

LEMMA SettingsKeep ==
  ASSUME McInv, MonthEnds \/ \E l \in Limits, q \in Parallel : ConfigureBudget(l, q) PROVE McInv'
  <1>1. UNCHANGED <<account, hold, callAt, room, masked, billable>>
    BY DEF MonthEnds, ConfigureBudget
  <1>2. budget' \in [limit : Limits, parallel : Parallel] /\ month' \in Month /\ cut' \in SUBSET Process
    <2>1. McTyped
      BY DEF McInv
    <2>2. CASE MonthEnds
      BY <2>1, <2>2 DEF MonthEnds, McTyped, Month
    <2>3. ASSUME NEW l \in Limits, NEW q \in Parallel, ConfigureBudget(l, q)
          PROVE  budget' \in [limit : Limits, parallel : Parallel] /\ month' \in Month /\ cut' \in SUBSET Process
      BY <2>1, <2>3 DEF ConfigureBudget, McTyped
    <2>4. QED BY <2>2, <2>3
  <1>3. McTyped'
    BY <1>1, <1>2 DEF McInv, McTyped
  <1>4. \A d \in Call : PlaceMoves(d)
    BY <1>1 DEF PlaceMoves
  <1>5. QED BY <1>1, <1>3, <1>4, PlacesMove

LEMMA DeathKeeps ==
  ASSUME McInv, NEW p \in Process, WorkerDies(p) PROVE McInv'
  <1>1. UNCHANGED <<budget, account, hold, month, masked, cut>> /\ room' \in [Process -> Nat]
    BY DEF WorkerDies, callEnvVars, McInv, McTyped
  <1>2. ASSUME NEW d \in Call
        PROVE  callAt'[d] \in Place /\ billable'[d] \in SUBSET Attempt /\ CallFits(d)'
    <2>1. callAt[d] \in Place /\ billable[d] \in SUBSET Attempt /\ CallFits(d)
      BY DEF McInv, McTyped
    <2>2. CASE d \in InFlight(p)
      <3>1. PICK at : at = [callAt[d] EXCEPT !.pc = "lost"]
        OBVIOUS
      <3>2. callAt'[d] = at
        BY <2>2, <3>1 DEF WorkerDies
      <3>3. at \in Place /\ at.pc = "lost" /\ at.attempt = callAt[d].attempt
        BY <2>1, <3>1 DEF CallPlace, Place
      <3>4. billable'[d] \in SUBSET Attempt /\ \A i \in billable'[d] : i <= callAt[d].attempt /\ Accounted(hold, masked, d, i)
        BY <2>1 DEF WorkerDies, Out, CallFits, Accounted, Charged, HELD, Attempt, Place
      <3>5. QED BY <1>1, <2>1, <3>2, <3>3, <3>4 DEF CallFits, Accounted
    <2>3. CASE d \notin InFlight(p)
      <3>1. callAt'[d] = callAt[d] /\ billable'[d] = billable[d]
        BY <2>3 DEF WorkerDies
      <3>2. QED BY <1>1, <2>1, <3>1 DEF CallFits, Accounted
    <2>4. QED BY <2>2, <2>3
  <1>3. callAt' = [d \in Call |-> callAt'[d]] /\ billable' = [d \in Call |-> billable'[d]]
    BY DEF WorkerDies
  <1>4. McTyped'
    BY <1>1, <1>2, <1>3 DEF McInv, McTyped
  <1>5. AccountsBalance' /\ HeldIsUnpaid'
    BY <1>1, BooksDrift DEF McInv, McTyped, SameBooks
  <1>6. QED BY <1>2, <1>4, <1>5 DEF McInv

LEMMA ReserveKeeps ==
  ASSUME McInv, NEW c \in Call, ReserveCall(c) PROVE McInv'
  <1>1. PICK i, m0 : i = callAt[c].attempt /\ m0 = month
    OBVIOUS
  <1>2. i \in Attempt /\ m0 \in Month /\ hold[c][i].status = "none" /\ CallFits(c)
    BY <1>1 DEF McInv, McTyped, Place, CallFits, ReserveCall
  <1>3. PICK t, u, lapsed, counters, after : t = hold /\ u = hold' /\ lapsed = ExpireSlots(t) /\ counters = account /\ after = account'
    OBVIOUS
  <1>4. t \in HoldTable /\ Books(t, counters) /\ counters \in [Month -> [spent : Nat, reserved : Int]]
    BY <1>3, BooksAreTheAccounts DEF McInv, McTyped
  <1>5. lapsed \in HoldTable /\ \A d \in Call, j \in Attempt : Drifts(lapsed[d][j], t[d][j])
    BY <1>3, <1>4, SlotsExpire
  <1>6. PICK row : row = [status |-> "reserved", month |-> m0, actual |-> 0, old |-> FALSE]
    OBVIOUS
  <1>7. row \in HoldRow /\ row.status = "reserved" /\ row.month = m0 /\ row.actual = 0
    BY <1>2, <1>6 DEF HoldRow, HELD
  <1>8. u = [lapsed EXCEPT ![c][i] = row]
    BY <1>1, <1>3, <1>6 DEF ReserveCall
  <1>9. u \in HoldTable /\ u[c][i] = row /\ \A d \in Call, j \in Attempt : (d # c \/ j # i) => u[d][j] = lapsed[d][j]
    BY <1>2, <1>5, <1>7, <1>8 DEF HoldTable
  <1>10. \A d \in Call, j \in Attempt : (d # c \/ j # i) => Drifts(u[d][j], t[d][j])
    BY <1>5, <1>9
  <1>11. PICK entry : entry = [counters[m0] EXCEPT !.reserved = counters[m0].reserved + Estimate]
    OBVIOUS
  <1>12. entry \in [spent : Nat, reserved : Int] /\ entry.spent = counters[m0].spent /\ entry.reserved = counters[m0].reserved + Estimate
    BY <1>2, <1>4, <1>11, ModelCallsAssumption
  <1>13. after = [counters EXCEPT ![m0] = entry]
    BY <1>1, <1>3, <1>11 DEF ReserveCall
  <1>14. after \in [Month -> [spent : Nat, reserved : Int]] /\ after[m0] = entry /\ \A m \in Month \ {m0} : after[m] = counters[m]
    BY <1>2, <1>4, <1>12, <1>13
  <1>15. PICK x : x = <<c, i>>
    OBVIOUS
  <1>16. x \in CallTable /\ x[1] = c /\ x[2] = i
    BY <1>2, <1>15 DEF CallTable
  <1>17. \A r \in CallTable \ {x} : SameBooks(u[r[1]][r[2]], t[r[1]][r[2]])
    BY <1>10, <1>15 DEF CallTable, Drifts
  <1>18. \A m \in Month : after[m].spent = counters[m].spent
                          /\ after[m].reserved = IF m = m0 THEN counters[m].reserved + Estimate ELSE counters[m].reserved
    BY <1>12, <1>14
  <1>19. t[x[1]][x[2]].status = "none" /\ u[x[1]][x[2]].status = "reserved" /\ u[x[1]][x[2]].month = m0 /\ u[x[1]][x[2]].actual = 0
    BY <1>2, <1>3, <1>7, <1>9, <1>16
  <1>20. Books(u, after)
    BY <1>2, <1>4, <1>9, <1>16, <1>17, <1>18, <1>19, BooksReserve
  <1>21. AccountsBalance'
    BY <1>3, <1>20, BooksAreTheAccounts
  <1>22. HeldIsUnpaid'
    <2>1. \A d \in Call, j \in Attempt : u[d][j].status \in HELD => u[d][j].actual = 0
      BY <1>3, <1>7, <1>9, <1>10 DEF McInv, HeldIsUnpaid, Drifts, SameBooks
    <2>2. QED BY <1>3, <2>1 DEF HeldIsUnpaid
  <1>23. Goto(c, "reserved") /\ "reserved" \in CallPlace /\ callAt[c].pc = "ready" /\ UNCHANGED <<budget, room, month, masked, cut, billable>>
    BY DEF ReserveCall, callEnvVars, CallPlace
  <1>24. McTyped'
    BY <1>3, <1>9, <1>14, <1>23, Went DEF McInv, McTyped
  <1>25. ASSUME NEW d \in Call PROVE CallFits(d)'
    <2>1. CASE d # c
      <3>1. \A j \in Attempt : Drifts(hold'[d][j], hold[d][j])
        BY <1>3, <1>10, <2>1
      <3>2. callAt'[d] = callAt[d] /\ billable'[d] = billable[d] /\ masked'[d] = masked[d]
        BY <1>23, <2>1, Went DEF McInv
      <3>3. QED BY <3>1, <3>2, FitsElsewhere DEF McInv
    <2>2. CASE d = c
      <3>1. callAt'[c].pc = "reserved" /\ callAt'[c].attempt = i /\ billable'[c] = billable[c]
        BY <1>1, <1>23, Went DEF McInv
      <3>2. \A j \in Attempt : j > i => u[c][j].status = "none"
        BY <1>1, <1>2, <1>3, <1>10 DEF CallFits, Drifts, SameBooks, Attempt
      <3>3. \A j \in billable[c] : j \in Attempt /\ j < i /\ Accounted(t, masked, c, j)
        BY <1>1, <1>2, <1>3, <1>23 DEF CallFits, McInv, McTyped
      <3>4. \A j \in billable[c] : j <= i /\ j < i /\ Accounted(u, masked, c, j)
        BY <1>2, <1>10, <3>3 DEF Drifts, Accounted, Charged, HELD, Attempt
      <3>5. QED BY <1>3, <1>23, <2>2, <3>1, <3>2, <3>4 DEF CallFits, Accounted
    <2>3. QED BY <2>1, <2>2
  <1>26. QED BY <1>21, <1>22, <1>24, <1>25 DEF McInv

LEMMA DispatchKeeps ==
  ASSUME McInv, NEW c \in Call, DispatchCall(c) PROVE McInv'
  <1>1. PICK i : i = callAt[c].attempt
    OBVIOUS
  <1>2. i \in Attempt /\ hold[c][i].status = "reserved" /\ CallFits(c)
    BY <1>1 DEF McInv, McTyped, Place, DispatchCall, MayDispatch
  <1>3. PICK t, u, lapsed : t = hold /\ u = hold' /\ lapsed = ExpireSlots(t)
    OBVIOUS
  <1>4. t \in HoldTable /\ lapsed \in HoldTable /\ \A d \in Call, j \in Attempt : Drifts(lapsed[d][j], t[d][j])
    BY <1>3, SlotsExpire DEF McInv, McTyped
  <1>5. lapsed[c][i] = t[c][i]
    BY <1>2, <1>3, <1>4, SlotsExpire
  <1>6. u = Marked(lapsed, c, i, "dispatching") /\ "dispatching" \in HELD
    BY <1>1, <1>3 DEF DispatchCall, HELD
  <1>7. /\ u \in HoldTable /\ u[c][i].status = "dispatching" /\ u[c][i].month = t[c][i].month /\ u[c][i].actual = t[c][i].actual
        /\ \A d \in Call, j \in Attempt : (d # c \/ j # i) => u[d][j] = lapsed[d][j]
    BY <1>2, <1>4, <1>5, <1>6, CellMarked
  <1>8. \A d \in Call, j \in Attempt : (d # c \/ j # i) => Drifts(u[d][j], t[d][j])
    BY <1>4, <1>7
  <1>9. SameBooks(u[c][i], t[c][i])
    BY <1>2, <1>3, <1>7 DEF SameBooks, HELD
  <1>10. Goto(c, "sent") /\ "sent" \in CallPlace /\ callAt[c].pc = "reserved" /\ UNCHANGED <<budget, account, room, month, masked, cut, billable>>
    BY DEF DispatchCall, callEnvVars, CallPlace
  <1>11. \A d \in Call, j \in Attempt : SameBooks(u[d][j], t[d][j])
    BY <1>8, <1>9 DEF Drifts
  <1>12. AccountsBalance' /\ HeldIsUnpaid'
    BY <1>3, <1>7, <1>10, <1>11, BooksDrift
  <1>13. McTyped'
    BY <1>3, <1>7, <1>10, Went DEF McInv, McTyped
  <1>14. ASSUME NEW d \in Call PROVE CallFits(d)'
    <2>1. CASE d # c
      <3>1. \A j \in Attempt : Drifts(hold'[d][j], hold[d][j])
        BY <1>3, <1>8, <2>1
      <3>2. callAt'[d] = callAt[d] /\ billable'[d] = billable[d] /\ masked'[d] = masked[d]
        BY <1>10, <2>1, Went DEF McInv
      <3>3. QED BY <3>1, <3>2, FitsElsewhere DEF McInv
    <2>2. CASE d = c
      <3>1. callAt'[c].pc = "sent" /\ callAt'[c].attempt = i /\ billable'[c] = billable[c]
        BY <1>1, <1>10, Went DEF McInv
      <3>2. \A j \in Attempt : j > i => u[c][j].status = "none"
        BY <1>1, <1>2, <1>3, <1>8 DEF CallFits, Drifts, SameBooks, Attempt
      <3>3. \A j \in billable[c] : j \in Attempt /\ j < i /\ Accounted(t, masked, c, j)
        BY <1>1, <1>2, <1>3, <1>10 DEF CallFits, McInv, McTyped
      <3>4. \A j \in billable[c] : j <= i /\ j < i /\ Accounted(u, masked, c, j)
        BY <1>2, <1>8, <3>3 DEF Drifts, Accounted, Charged, HELD, Attempt
      <3>5. QED BY <1>3, <1>7, <1>10, <2>2, <3>1, <3>2, <3>4 DEF CallFits, Accounted
    <2>3. QED BY <2>1, <2>2
  <1>15. QED BY <1>12, <1>13, <1>14 DEF McInv

LEMMA LapseKeeps ==
  ASSUME McInv, NEW c \in Call, NEW i \in Attempt, SlotLapses(c, i) PROVE McInv'
  <1>1. PICK t, u : t = hold /\ u = hold'
    OBVIOUS
  <1>2. t \in HoldTable /\ t[c][i] \in HoldRow
    BY <1>1, CellTyped DEF McInv, McTyped
  <1>3. PICK row : row = [t[c][i] EXCEPT !.old = TRUE]
    OBVIOUS
  <1>4. row \in HoldRow /\ row.status = t[c][i].status /\ row.month = t[c][i].month /\ row.actual = t[c][i].actual
    BY <1>2, <1>3 DEF HoldRow
  <1>5. u = [t EXCEPT ![c][i] = row]
    BY <1>1, <1>3 DEF SlotLapses
  <1>6. u \in HoldTable /\ u[c][i] = row /\ \A d \in Call, j \in Attempt : (d # c \/ j # i) => u[d][j] = t[d][j]
    BY <1>2, <1>4, <1>5 DEF HoldTable
  <1>7. \A d \in Call, j \in Attempt : Drifts(u[d][j], t[d][j])
    BY <1>4, <1>6 DEF Drifts, SameBooks
  <1>8. UNCHANGED <<budget, account, callAt, room, month, masked, cut, billable>>
    BY DEF SlotLapses, callEnvVars
  <1>9. AccountsBalance' /\ HeldIsUnpaid'
    BY <1>1, <1>6, <1>7, <1>8, BooksDrift DEF Drifts
  <1>10. McTyped'
    BY <1>1, <1>6, <1>8 DEF McInv, McTyped
  <1>11. \A d \in Call : CallFits(d)'
    BY <1>1, <1>7, <1>8, FitsElsewhere DEF McInv
  <1>12. QED BY <1>9, <1>10, <1>11 DEF McInv

LEMMA ReconcileKeeps ==
  ASSUME McInv, NEW c \in Call, NEW i \in Attempt, NEW a \in Receipts, ReconcileHold(c, i, a) PROVE McInv'
  <1>1. a \in Nat /\ hold[c][i].status \in HELD /\ Settle(c, i, a, "reconciled") /\ UNCHANGED <<budget, callAt, room, month, masked, cut, billable>>
    BY ModelCallsAssumption DEF ReconcileHold, callEnvVars
  <1>2. /\ AccountsBalance' /\ HeldIsUnpaid' /\ hold' \in HoldTable
        /\ account' \in [Month -> [spent : Nat, reserved : Int]]
        /\ hold'[c][i].status = "reconciled"
        /\ \A d \in Call, j \in Attempt : (d # c \/ j # i) => hold'[d][j] = hold[d][j]
    BY <1>1, SettleKeepsBooks
  <1>3. McTyped'
    BY <1>1, <1>2 DEF McInv, McTyped
  <1>4. ASSUME NEW d \in Call PROVE CallFits(d)'
    <2>1. callAt[d].attempt \in Attempt /\ billable[d] \subseteq Attempt /\ CallFits(d)
      BY DEF McInv, McTyped, Place
    <2>2. CASE d # c
      <3>1. \A j \in Attempt : hold'[d][j] = hold[d][j]
        BY <1>2, <2>2
      <3>2. QED BY <1>1, <2>1, <3>1 DEF CallFits, Accounted
    <2>3. CASE d = c
      <3>1. \A j \in Attempt : hold[c][j].status = "none" => hold'[c][j] = hold[c][j]
        BY <1>1, <1>2 DEF HELD
      <3>2. \A j \in Attempt : hold'[c][j].status = "reconciled" \/ hold'[c][j].status = hold[c][j].status
        BY <1>2
      <3>3. QED BY <1>1, <2>1, <2>3, <3>1, <3>2 DEF CallFits, Accounted, Charged
    <2>4. QED BY <2>2, <2>3
  <1>5. QED BY <1>2, <1>3, <1>4 DEF McInv

\* An attempt ends: its cell is written or not, and the call goes on to another attempt or returns.
LEMMA EndsFit ==
  ASSUME McInv, NEW c \in Call, Out(c), RetryOrRaise(c), UNCHANGED <<budget, room, month, cut>>,
         masked' = masked \/ masked' = [masked EXCEPT ![c] = masked[c] \union {callAt[c].attempt}],
         AccountsBalance', HeldIsUnpaid', account' \in [Month -> [spent : Nat, reserved : Int]], hold' \in HoldTable,
         \A d \in Call, j \in Attempt : (d # c \/ j # callAt[c].attempt) => hold'[d][j] = hold[d][j],
         hold'[c][callAt[c].attempt].status # "none",
         \/ billable' = billable
         \/ MayBeBilled(c) /\ hold'[c][callAt[c].attempt].status \in Charged
         \/ MayBeBilled(c) /\ hold'[c][callAt[c].attempt].status = "released" /\ callAt[c].attempt \in masked'[c]
  PROVE  McInv'
  <1>1. PICK i : i = callAt[c].attempt
    OBVIOUS
  <1>2. i \in Attempt /\ CallFits(c) /\ billable[c] \subseteq Attempt
    BY <1>1 DEF McInv, McTyped, Place
  <1>3. /\ callAt' \in [Call -> Place]
        /\ \A d \in Call \ {c} : callAt'[d] = callAt[d]
        /\ \/ callAt'[c].pc = "returned" /\ callAt'[c].attempt = i
           \/ callAt'[c].pc = "ready" /\ i + 1 \in Attempt /\ callAt'[c].attempt = i + 1
    <2>1. CASE Goto(c, "returned")
      <3>1. "returned" \in CallPlace
        BY DEF CallPlace
      <3>2. QED BY <1>1, <2>1, <3>1, Went DEF McInv
    <2>2. CASE callAt[c].attempt < MaxAttempts /\ callAt' = [callAt EXCEPT ![c].pc = "ready", ![c].attempt = @ + 1]
      <3>1. PICK k : k = i + 1
        OBVIOUS
      <3>2. k \in Attempt
        BY <1>1, <1>2, <2>2, <3>1, ModelCallsAssumption DEF Attempt
      <3>3. PICK at : at = [callAt[c] EXCEPT !.pc = "ready", !.attempt = k]
        OBVIOUS
      <3>4. at \in Place /\ at.pc = "ready" /\ at.attempt = k
        <4>1. callAt[c] \in Place
          BY DEF McInv, McTyped
        <4>2. QED BY <3>2, <3>3, <4>1 DEF CallPlace, Place
      <3>5. callAt' = [callAt EXCEPT ![c] = at]
        <4>1. callAt[c] \in Place
          BY DEF McInv, McTyped
        <4>2. QED BY <1>1, <2>2, <3>1, <3>3, <4>1 DEF Place
      <3>6. QED BY <3>1, <3>2, <3>4, <3>5 DEF McInv, McTyped
    <2>3. QED BY <2>1, <2>2 DEF RetryOrRaise
  <1>4. /\ billable' \in [Call -> SUBSET Attempt]
        /\ \A d \in Call \ {c} : billable'[d] = billable[d]
        /\ \/ billable'[c] = billable[c]
           \/ billable'[c] = billable[c] \union {i} /\ hold'[c][i].status \in Charged
           \/ billable'[c] = billable[c] \union {i} /\ hold'[c][i].status = "released" /\ i \in masked'[c]
    BY <1>1, <1>2 DEF MayBeBilled, McInv, McTyped
  <1>m. /\ masked' \in [Call -> SUBSET Attempt]
        /\ \A d \in Call \ {c} : masked'[d] = masked[d]
        /\ masked[c] \subseteq masked'[c]
    BY <1>1, <1>2 DEF McInv, McTyped
  <1>5. McTyped'
    BY <1>3, <1>4, <1>m DEF McInv, McTyped
  <1>6. ASSUME NEW d \in Call PROVE CallFits(d)'
    <2>1. CASE d # c
      <3>1. \A j \in Attempt : hold'[d][j] = hold[d][j]
        BY <2>1
      <3>2. callAt'[d] = callAt[d] /\ billable'[d] = billable[d] /\ callAt[d].attempt \in Attempt /\ billable[d] \subseteq Attempt
            /\ masked'[d] = masked[d]
        BY <1>3, <1>4, <1>m, <2>1 DEF McInv, McTyped, Place
      <3>3. QED BY <3>1, <3>2 DEF CallFits, Accounted, McInv
    <2>2. CASE d = c
      <3>1. \A j \in Attempt : j # i => hold'[c][j] = hold[c][j]
        BY <1>1
      <3>2. \A j \in Attempt : j > i => hold'[c][j].status = "none"
        BY <1>1, <1>2, <3>1 DEF CallFits, Attempt
      <3>3. \A j \in billable[c] : j \in Attempt /\ j < i
        BY <1>1, <1>2 DEF CallFits, Out
      <3>4. \A j \in billable[c] : Accounted(hold', masked', c, j)
        BY <1>2, <1>m, <3>1, <3>3 DEF CallFits, Accounted, Attempt
      <3>a. i \in billable'[c] /\ i \notin billable[c] => Accounted(hold', masked', c, i)
        BY <1>4 DEF Accounted
      <3>b. \A j \in billable'[c] : j \in billable[c] \/ j = i
        BY <1>4
      <3>5. \A j \in billable'[c] : j \in Attempt /\ j <= i /\ Accounted(hold', masked', c, j)
        BY <1>2, <3>3, <3>4, <3>a, <3>b DEF Attempt
      <3>6. CASE callAt'[c].pc = "returned" /\ callAt'[c].attempt = i
        BY <2>2, <3>2, <3>5, <3>6 DEF CallFits, Accounted
      <3>7. CASE callAt'[c].pc = "ready" /\ i + 1 \in Attempt /\ callAt'[c].attempt = i + 1
        <4>1. \A j \in Attempt : j > i + 1 => j > i
          BY <1>2 DEF Attempt
        <4>2. hold'[c][i + 1].status = "none" /\ \A j \in Attempt : j > i + 1 => hold'[c][j].status = "none"
          BY <1>2, <3>2, <3>7, <4>1 DEF Attempt
        <4>3. \A j \in billable'[c] : j <= i + 1 /\ j < i + 1
          BY <1>2, <3>5 DEF Attempt
        <4>4. QED BY <2>2, <3>5, <3>7, <4>2, <4>3 DEF CallFits, Accounted
      <3>8. QED BY <1>3, <3>6, <3>7
    <2>3. QED BY <2>1, <2>2
  <1>7. QED BY <1>5, <1>6 DEF McInv

\* What is written of an answer to an attempt that still holds its money.
\* An HTTP error status is noted.
Refused(c) == masked' = [masked EXCEPT ![c] = masked[c] \union {callAt[c].attempt}]

LEMMA EndSettles ==
  ASSUME McInv, NEW c \in Call, Out(c), RetryOrRaise(c), UNCHANGED <<budget, room, month, cut>>,
         Awaiting(c), NEW a \in Nat, NEW mark \in {"settled", "released"}, Settle(c, callAt[c].attempt, a, mark),
         \/ billable' = billable /\ masked' = masked
         \/ MayBeBilled(c) /\ mark = "settled" /\ masked' = masked
         \/ MayBeBilled(c) /\ mark = "released" /\ Refused(c)
  PROVE  McInv'
  <1>1. callAt[c].attempt \in Attempt /\ hold[c][callAt[c].attempt].status \in HELD
    BY DEF McInv, McTyped, Place, Awaiting, HELD
  <1>2. /\ AccountsBalance' /\ HeldIsUnpaid' /\ hold' \in HoldTable
        /\ account' \in [Month -> [spent : Nat, reserved : Int]]
        /\ hold'[c][callAt[c].attempt].status = mark
        /\ \A d \in Call, j \in Attempt : (d # c \/ j # callAt[c].attempt) => hold'[d][j] = hold[d][j]
    <2>1. PICK i : i = callAt[c].attempt
      OBVIOUS
    <2>2. QED BY <1>1, <2>1, SettleKeepsBooks
  <1>3. Refused(c) => callAt[c].attempt \in masked'[c]
    BY DEF Refused, McInv, McTyped
  <1>4. CASE billable' = billable /\ masked' = masked
    BY <1>2, <1>4, EndsFit
  <1>5. CASE MayBeBilled(c) /\ mark = "settled" /\ masked' = masked
    <2>1. hold'[c][callAt[c].attempt].status \in Charged
      BY <1>2, <1>5 DEF Charged
    <2>2. QED BY <1>2, <1>5, <2>1, EndsFit DEF Charged
  <1>6. CASE MayBeBilled(c) /\ mark = "released" /\ Refused(c)
    <2>1. masked' = [masked EXCEPT ![c] = masked[c] \union {callAt[c].attempt}]
      BY <1>6 DEF Refused
    <2>2. QED BY <1>2, <1>3, <1>6, <2>1, EndsFit
  <1>7. QED BY <1>4, <1>5, <1>6

LEMMA EndUncertain ==
  ASSUME McInv, NEW c \in Call, Out(c), RetryOrRaise(c), UNCHANGED <<budget, account, room, month, masked, cut>>,
         Awaiting(c), MoveHold(c, callAt[c].attempt, "uncertain"), MayBeBilled(c)
  PROVE  McInv'
  <1>1. PICK i, t, u : i = callAt[c].attempt /\ t = hold /\ u = hold'
    OBVIOUS
  <1>2. i \in Attempt /\ t \in HoldTable /\ t[c][i].status = "dispatching" /\ "uncertain" \in HELD
    BY <1>1 DEF McInv, McTyped, Place, Awaiting, HELD
  <1>3. u = Marked(t, c, i, "uncertain")
    BY <1>1 DEF MoveHold
  <1>4. /\ u \in HoldTable /\ u[c][i].status = "uncertain" /\ u[c][i].month = t[c][i].month /\ u[c][i].actual = t[c][i].actual
        /\ \A d \in Call, j \in Attempt : (d # c \/ j # i) => u[d][j] = t[d][j]
    BY <1>2, <1>3, CellMarked
  <1>5. \A d \in Call, j \in Attempt : SameBooks(u[d][j], t[d][j])
    BY <1>2, <1>4 DEF SameBooks, HELD
  <1>6. AccountsBalance' /\ HeldIsUnpaid'
    BY <1>1, <1>4, <1>5, BooksDrift
  <1>7. account' \in [Month -> [spent : Nat, reserved : Int]]
    BY DEF McInv, McTyped
  <1>8. u[c][i].status # "none" /\ u[c][i].status \in Charged
    BY <1>4 DEF Charged, HELD
  <1>9. QED BY <1>1, <1>4, <1>6, <1>7, <1>8, EndsFit

LEMMA EndUnwritten ==
  ASSUME McInv, NEW c \in Call, Out(c), RetryOrRaise(c), UNCHANGED <<budget, account, hold, room, month, cut>>,
         masked' = masked \/ Refused(c), ~Awaiting(c), billable' = billable \/ MayBeBilled(c)
  PROVE  McInv'
  <1>1. callAt[c].attempt \in Attempt /\ hold[c][callAt[c].attempt].status \in {"unreconciled", "reconciled"}
    BY DEF McInv, McTyped, Place, CallFits, Out, Awaiting
  <1>2. hold'[c][callAt[c].attempt].status # "none" /\ hold'[c][callAt[c].attempt].status \in Charged
    BY <1>1 DEF Charged, HELD
  <1>3. AccountsBalance' /\ HeldIsUnpaid'
    BY BooksDrift DEF McInv, McTyped, SameBooks
  <1>4. account' \in [Month -> [spent : Nat, reserved : Int]] /\ hold' \in HoldTable
    BY DEF McInv, McTyped
  <1>5. masked' = masked \/ masked' = [masked EXCEPT ![c] = masked[c] \union {callAt[c].attempt}]
    BY DEF Refused
  <1>6. QED BY <1>2, <1>3, <1>4, <1>5, EndsFit

LEMMA AttemptEnds ==
  ASSUME McInv, NEW c \in Call, (\E a \in Receipts : Answered(c, a)) \/ NoReceipt(c) \/ NotSent(c) \/ Rejected(c) \/ NoAnswer(c)
  PROVE  McInv'
  <1>1. Goto(c, "returned") => RetryOrRaise(c)
    BY DEF RetryOrRaise
  <1>2. ASSUME NEW a \in Receipts, Answered(c, a) PROVE McInv'
    <2>1. a \in Nat
      BY ModelCallsAssumption
    <2>2. Out(c) /\ RetryOrRaise(c) /\ MayBeBilled(c) /\ UNCHANGED <<budget, room, month, masked, cut>>
      BY <1>1, <1>2 DEF Answered, callEnvVars
    <2>3. CASE Awaiting(c)
      <3>1. Settle(c, callAt[c].attempt, a, "settled")
        BY <1>2, <2>3 DEF Answered
      <3>2. QED BY <2>1, <2>2, <2>3, <3>1, EndSettles
    <2>4. CASE ~Awaiting(c)
      <3>1. UNCHANGED <<account, hold>>
        BY <1>2, <2>4 DEF Answered
      <3>2. QED BY <2>2, <2>4, <3>1, EndUnwritten
    <2>5. QED BY <2>3, <2>4
  <1>3. ASSUME NoReceipt(c) \/ NoAnswer(c) PROVE McInv'
    <2>1. Out(c) /\ RetryOrRaise(c) /\ MayBeBilled(c) /\ UNCHANGED <<budget, account, room, month, masked, cut>>
      BY <1>1, <1>3 DEF NoReceipt, NoAnswer, callEnvVars
    <2>2. CASE Awaiting(c)
      <3>1. MoveHold(c, callAt[c].attempt, "uncertain")
        BY <1>3, <2>2 DEF NoReceipt, NoAnswer
      <3>2. QED BY <2>1, <2>2, <3>1, EndUncertain
    <2>3. CASE ~Awaiting(c)
      <3>1. UNCHANGED hold
        BY <1>3, <2>3 DEF NoReceipt, NoAnswer
      <3>2. QED BY <2>1, <2>3, <3>1, EndUnwritten
    <2>4. QED BY <2>2, <2>3
  <1>4. ASSUME NotSent(c) \/ Rejected(c) PROVE McInv'
    <2>1. Out(c) /\ ReleasedAtZero(c) /\ UNCHANGED <<budget, room, month, cut>>
      BY <1>4 DEF NotSent, Rejected, callEnvVars
    <2>2. (billable' = billable /\ masked' = masked) \/ (MayBeBilled(c) /\ Refused(c))
      BY <1>4 DEF NotSent, Rejected, Refused, callEnvVars
    <2>3. RetryOrRaise(c)
      BY <1>1, <2>1 DEF ReleasedAtZero
    <2>4. CASE Awaiting(c)
      <3>1. Settle(c, callAt[c].attempt, 0, "released")
        BY <2>1, <2>4 DEF ReleasedAtZero
      <3>2. CASE billable' = billable /\ masked' = masked
        BY <2>1, <2>3, <2>4, <3>1, <3>2, EndSettles
      <3>3. CASE MayBeBilled(c) /\ Refused(c)
        BY <2>1, <2>3, <2>4, <3>1, <3>3, EndSettles
      <3>4. QED BY <2>2, <3>2, <3>3
    <2>5. CASE ~Awaiting(c)
      <3>1. UNCHANGED <<account, hold>>
        BY <2>1, <2>5 DEF ReleasedAtZero
      <3>2. QED BY <2>1, <2>2, <2>3, <2>5, <3>1, EndUnwritten
    <2>6. QED BY <2>4, <2>5
  <1>5. QED BY <1>2, <1>3, <1>4

LEMMA McStep == ASSUME McInv, [ModelCallsNext]_modelCallVars PROVE McInv'
  <1>1. ASSUME NEW c \in Call, CallStep(c) PROVE McInv'
    BY <1>1, ReserveKeeps, RefusedKeeps, DispatchKeeps, AttemptEnds DEF CallStep
  <1>2. ASSUME NEW p \in Process, PoolStep(p) PROVE McInv'
    BY <1>2, PumpKeeps, PumpEndKeeps, DeathKeeps, TakeKeeps DEF PoolStep
  <1>3. CASE MonthEnds \/ \E l \in Limits, q \in Parallel : ConfigureBudget(l, q)
    BY <1>3, SettingsKeep
  <1>5. ASSUME NEW c \in Call, NEW i \in Attempt, SlotLapses(c, i) \/ \E a \in Receipts : ReconcileHold(c, i, a)
        PROVE  McInv'
    BY <1>5, LapseKeeps, ReconcileKeeps
  <1>6. CASE UNCHANGED modelCallVars
    <2>1. UNCHANGED <<account, hold, billable, masked>> /\ \A d \in Call : PlaceMoves(d)
      BY <1>6 DEF modelCallVars, PlaceMoves
    <2>2. McTyped'
      BY <1>6 DEF McInv, McTyped, modelCallVars
    <2>3. QED BY <2>1, <2>2, PlacesMove
  <1>7. QED BY <1>1, <1>2, <1>3, <1>5, <1>6 DEF ModelCallsNext

\* The spending ledger stays honest (usage_budget.py:6-15), for any processes, calls, budgets, receipts
\* and retries: its counters are the sums of its reservations, and an attempt that may have been
\* charged is settled by a receipt, reconciled, or held, unless an HTTP error status answered it:
\* then, and only then, it may be released at zero.
THEOREM LedgerStaysHonest == ModelCallsSpec => []LedgerHonest
  <1>1. McInv => LedgerHonest
    BY DEF McInv, LedgerHonest, CallFits, Accounted, Charged
  <1>2. QED BY <1>1, LedgerStarts, McStep, PTL DEF ModelCallsSpec

(***************************************************************************)
(* The pools: the calls a process runs and the room it has left stay within the  *)
(* parallel calls of the budget, until an owner lowers them.                         *)
(***************************************************************************)

Running(p) == {c \in Call : callAt[c].process = p /\ callAt[c].pc \in {"ready", "reserved", "sent"}}
FitsPool(p) == p \in cut \/ Cardinality(Running(p)) + room[p] <= budget.parallel
WithinParallel == \A p \in Process : FitsPool(p)
PoolInv == McTyped /\ WithinParallel

LEMMA RunningIsWorking == ASSUME McTyped, NEW p PROVE Running(p) = Working(p)
  BY DEF Running, Working, InFlight, McTyped, Place, CallPlace

LEMMA RunningCounted == ASSUME NEW p PROVE IsFiniteSet(Running(p)) /\ Cardinality(Running(p)) \in Nat
  BY CallsCounted DEF Running

\* No more calls run, and there is no more room: reservations, answers, refusals, deaths.
LEMMA FewerRun ==
  ASSUME PoolInv, NEW p \in Process, room'[p] = room[p] \/ room'[p] = 0, budget' = budget,
         p \in cut => p \in cut', Running(p)' \subseteq Running(p)
  PROVE  FitsPool(p)'
  <1>1. PICK before, after : before = Running(p) /\ after = Running(p)'
    OBVIOUS
  <1>2. IsFiniteSet(before) /\ after \subseteq before
    BY <1>1, RunningCounted
  <1>3. Cardinality(after) <= Cardinality(before) /\ Cardinality(after) \in Nat /\ Cardinality(before) \in Nat
    BY <1>2, FS_Subset, FS_CardinalityType
  <1>4. room[p] \in Nat /\ budget.parallel \in Nat
    BY ModelCallsAssumption DEF PoolInv, McTyped
  <1>5. p \in cut \/ Cardinality(before) + room[p] <= budget.parallel
    BY <1>1 DEF PoolInv, WithinParallel, FitsPool
  <1>6. CASE p \in cut
    BY <1>6 DEF FitsPool
  <1>7. CASE Cardinality(before) + room[p] <= budget.parallel
    <2>1. Cardinality(after) + room'[p] <= budget'.parallel
      BY <1>3, <1>4, <1>7
    <2>2. QED BY <1>1, <2>1 DEF FitsPool
  <1>8. QED BY <1>5, <1>6, <1>7

\* A step of a running call keeps it among the running, or ends it.
LEMMA CallsEndOrGoOn == ASSUME PoolInv, NEW c \in Call, CallStep(c) PROVE WithinParallel'
  <1>1. room' = room /\ budget' = budget /\ cut' = cut
    BY DEF CallStep, ReserveCall, ReserveRefused, DispatchCall, DispatchRefused, Answered, NoReceipt, NotSent, Rejected,
           NoAnswer, callEnvVars
  <1>2. callAt[c].pc \in {"ready", "reserved", "sent"}
    BY DEF CallStep, ReserveCall, ReserveRefused, DispatchCall, DispatchRefused, Answered, NoReceipt, NotSent, Rejected,
           NoAnswer, Out
  <1>3. (\E pc \in CallPlace : Goto(c, pc)) \/ RetryOrRaise(c)
    BY DEF CallStep, ReserveCall, ReserveRefused, DispatchCall, DispatchRefused, Answered, NoReceipt, NotSent, Rejected,
           ReleasedAtZero, NoAnswer, CallPlace
  <1>4. callAt'[c].process = callAt[c].process /\ \A d \in Call \ {c} : callAt'[d] = callAt[d]
    <2>1. callAt[c] \in Place
      BY DEF PoolInv, McTyped
    <2>2. CASE \E pc \in CallPlace : Goto(c, pc)
      BY <2>2, Went DEF PoolInv
    <2>3. CASE RetryOrRaise(c) /\ ~Goto(c, "returned")
      <3>1. PICK at : at = [callAt[c] EXCEPT !.pc = "ready", !.attempt = callAt[c].attempt + 1]
        OBVIOUS
      <3>2. callAt' = [callAt EXCEPT ![c] = at] /\ at.process = callAt[c].process
        BY <2>1, <2>3, <3>1 DEF RetryOrRaise, Place
      <3>3. QED BY <3>2 DEF PoolInv, McTyped
    <2>4. "returned" \in CallPlace
      BY DEF CallPlace
    <2>5. QED BY <1>3, <2>2, <2>3, <2>4
  <1>5. \A p \in Process : Running(p)' \subseteq Running(p)
    BY <1>2, <1>4 DEF Running
  <1>6. QED BY <1>1, <1>5, FewerRun DEF WithinParallel

LEMMA TakeUsesRoom == ASSUME PoolInv, NEW p \in Process, NEW c \in Call, Take(c, p) PROVE WithinParallel'
  <1>1. budget' = budget /\ cut' = cut /\ room' = [room EXCEPT ![p] = room[p] - 1] /\ Started(c, p)
    BY DEF Take, callEnvVars
  <1>2. callAt[c].pc = "waiting" /\ callAt'[c].pc = "ready" /\ callAt'[c].process = p /\ \A d \in Call \ {c} : callAt'[d] = callAt[d]
    BY <1>1, Begun DEF PoolInv, Take
  <1>3. FitsPool(p)'
    <2>1. PICK before, after : before = Running(p) /\ after = Running(p)'
      OBVIOUS
    <2>2. c \notin before /\ after = before \union {c}
      BY <1>2, <2>1 DEF Running
    <2>3. IsFiniteSet(before) /\ Cardinality(before) \in Nat
      BY <2>1, RunningCounted
    <2>4. Cardinality(after) = Cardinality(before) + 1
      BY <2>2, <2>3, FS_AddElement
    <2>5. room[p] \in Nat /\ room'[p] = room[p] - 1 /\ budget.parallel \in Nat
      BY <1>1, ModelCallsAssumption DEF PoolInv, McTyped
    <2>6. CASE p \in cut
      BY <1>1, <2>6 DEF FitsPool
    <2>7. CASE p \notin cut
      <3>1. Cardinality(before) + room[p] <= budget.parallel
        BY <2>1, <2>7 DEF PoolInv, WithinParallel, FitsPool
      <3>2. Cardinality(after) + room'[p] <= budget'.parallel
        BY <1>1, <2>3, <2>4, <2>5, <3>1
      <3>3. QED BY <2>1, <3>2 DEF FitsPool
    <2>8. QED BY <2>6, <2>7
  <1>4. ASSUME NEW q \in Process, q # p PROVE FitsPool(q)'
    <2>1. room'[q] = room[q]
      BY <1>1, <1>4 DEF PoolInv, McTyped
    <2>2. Running(q)' \subseteq Running(q)
      BY <1>2, <1>4 DEF Running
    <2>3. QED BY <1>1, <2>1, <2>2, FewerRun
  <1>5. QED BY <1>3, <1>4 DEF WithinParallel

LEMMA PumpFits == ASSUME PoolInv, NEW p \in Process, Pump(p) PROVE WithinParallel'
  <1>1. budget' = budget /\ room[p] = 0 /\ budget.parallel \in Nat
    BY ModelCallsAssumption DEF Pump, PoolInv, McTyped
  <1>2. ASSUME NEW q \in Process PROVE Running(q)' = Running(q)
    <2> SUFFICES ASSUME NEW d \in Call
                 PROVE  /\ callAt'[d].process = callAt[d].process
                        /\ callAt'[d].pc \in {"ready", "reserved", "sent"} <=> callAt[d].pc \in {"ready", "reserved", "sent"}
      BY DEF Running
    <2>1. callAt[d] \in Place
      BY DEF PoolInv, McTyped
    <2>2. CASE d \in InFlight(p) /\ callAt[d].pc = "returned"
      <3>1. callAt'[d] = [callAt[d] EXCEPT !.pc = "reaped"]
        BY <2>2 DEF Pump
      <3>2. callAt'[d].pc = "reaped" /\ callAt'[d].process = callAt[d].process
        BY <2>1, <3>1 DEF Place
      <3>3. QED BY <2>2, <3>2
    <2>3. CASE ~(d \in InFlight(p) /\ callAt[d].pc = "returned")
      BY <2>3 DEF Pump
    <2>4. QED BY <2>2, <2>3
  <1>3. PICK n \in Nat : /\ room' = [room EXCEPT ![p] = n]
                         /\ n = 0 \/ Cardinality(Working(p)) + n <= budget.parallel
    BY PumpReadsRoom DEF PoolInv
  <1>4. PICK running : running = Cardinality(Running(p))
    OBVIOUS
  <1>5. running \in Nat /\ running = Cardinality(Working(p)) /\ room'[p] = n
    BY <1>3, <1>4, RunningCounted, RunningIsWorking DEF PoolInv, McTyped
  <1>6. cut' = IF running <= budget.parallel THEN cut \ {p} ELSE cut
    BY <1>5 DEF Pump, Working
  <1>7. FitsPool(p)'
    <2>1. CASE running <= budget.parallel
      <3>1. running + n <= budget.parallel
        BY <1>1, <1>3, <1>5, <2>1
      <3>2. Cardinality(Running(p)') = running
        BY <1>2, <1>4
      <3>3. QED BY <1>1, <1>5, <3>1, <3>2 DEF FitsPool
    <2>2. CASE ~(running <= budget.parallel)
      <3>1. ~(running + room[p] <= budget.parallel)
        BY <1>1, <1>5, <2>2
      <3>2. p \in cut
        BY <1>4, <3>1 DEF PoolInv, WithinParallel, FitsPool
      <3>3. QED BY <1>6, <2>2, <3>2 DEF FitsPool
    <2>3. QED BY <2>1, <2>2
  <1>8. ASSUME NEW q \in Process, q # p PROVE FitsPool(q)'
    <2>1. room'[q] = room[q] /\ (q \in cut => q \in cut')
      BY <1>3, <1>6, <1>8 DEF PoolInv, McTyped
    <2>2. Running(q)' \subseteq Running(q)
      BY <1>2
    <2>3. QED BY <1>1, <2>1, <2>2, FewerRun
  <1>9. QED BY <1>7, <1>8 DEF WithinParallel

LEMMA LessRoom ==
  ASSUME PoolInv, NEW p \in Process, PumpEnds(p) \/ WorkerDies(p) PROVE WithinParallel'
  <1>1. budget' = budget /\ cut' = cut /\ room' = [room EXCEPT ![p] = 0]
    BY DEF PumpEnds, WorkerDies, callEnvVars
  <1>2. ASSUME NEW d \in Call
        PROVE  /\ callAt'[d].process = callAt[d].process
               /\ callAt'[d].pc \in {"ready", "reserved", "sent"} => callAt[d].pc \in {"ready", "reserved", "sent"}
    <2>1. callAt[d] \in Place
      BY DEF PoolInv, McTyped
    <2>2. CASE WorkerDies(p) /\ d \in InFlight(p)
      <3>1. callAt'[d] = [callAt[d] EXCEPT !.pc = "lost"]
        BY <2>2 DEF WorkerDies
      <3>2. QED BY <2>1, <3>1 DEF Place
    <2>3. CASE ~(WorkerDies(p) /\ d \in InFlight(p))
      BY <2>3 DEF WorkerDies, PumpEnds
    <2>4. QED BY <2>2, <2>3
  <1>3. ASSUME NEW q \in Process PROVE FitsPool(q)'
    <2>1. Running(q)' \subseteq Running(q)
      BY <1>2 DEF Running
    <2>2. room'[q] = room[q] \/ room'[q] = 0
      BY <1>1 DEF PoolInv, McTyped
    <2>3. QED BY <1>1, <2>1, <2>2, FewerRun
  <1>4. QED BY <1>3 DEF WithinParallel

LEMMA SettingsFit ==
  ASSUME PoolInv, NEW l \in Limits, NEW k \in Parallel, ConfigureBudget(l, k) PROVE WithinParallel'
  <1> SUFFICES ASSUME NEW p \in Process PROVE FitsPool(p)'
    BY DEF WithinParallel
  <1>1. PICK running : running = Cardinality(Running(p))
    OBVIOUS
  <1>2. running \in Nat /\ room[p] \in Nat /\ k \in Nat /\ budget.parallel \in Nat
    BY <1>1, RunningCounted, ModelCallsAssumption DEF PoolInv, McTyped
  <1>3. /\ budget'.parallel = k /\ room' = room
        /\ cut' = IF k < budget.parallel THEN Process ELSE cut
    BY DEF ConfigureBudget
  <1>4. Cardinality(Running(p)') = running
    BY <1>1 DEF Running, ConfigureBudget
  <1>5. CASE k < budget.parallel \/ p \in cut
    BY <1>3, <1>5 DEF FitsPool
  <1>6. CASE ~(k < budget.parallel) /\ p \notin cut
    <2>1. running + room[p] <= budget.parallel
      BY <1>1, <1>6 DEF PoolInv, WithinParallel, FitsPool
    <2>2. running + room[p] <= k
      BY <1>2, <1>6, <2>1
    <2>3. QED BY <1>3, <1>4, <2>2 DEF FitsPool
  <1>7. QED BY <1>5, <1>6

LEMMA PoolStaysWithin == ASSUME PoolInv, [ModelCallsNext]_modelCallVars PROVE WithinParallel'
  <1>1. ASSUME NEW c \in Call, CallStep(c) PROVE WithinParallel'
    BY <1>1, CallsEndOrGoOn
  <1>2. ASSUME NEW p \in Process, PoolStep(p) PROVE WithinParallel'
    BY <1>2, PumpFits, LessRoom, TakeUsesRoom DEF PoolStep
  <1>3. ASSUME UNCHANGED <<callAt, room, budget, cut>> PROVE WithinParallel'
    <2>1. \A p \in Process : Running(p)' = Running(p)
      BY <1>3 DEF Running
    <2>2. QED BY <1>3, <2>1, FewerRun DEF WithinParallel
  <1>4. CASE MonthEnds \/ UNCHANGED modelCallVars
    BY <1>3, <1>4 DEF MonthEnds, modelCallVars
  <1>5. CASE \E l \in Limits, k \in Parallel : ConfigureBudget(l, k)
    BY <1>5, SettingsFit
  <1>6. ASSUME NEW c \in Call, NEW i \in Attempt, SlotLapses(c, i) \/ \E a \in Receipts : ReconcileHold(c, i, a)
        PROVE  WithinParallel'
    BY <1>3, <1>6 DEF SlotLapses, ReconcileHold, callEnvVars
  <1>7. QED BY <1>1, <1>2, <1>4, <1>5, <1>6 DEF ModelCallsNext

\* With every slot taken by the current attempt of a call its process runs, a call at the start of
\* an attempt finds a slot free: the process's other calls are too few to hold them all.
LEMMA SlotIsFree ==
  ASSUME PoolInv, NEW p \in Process, p \notin cut, ~HeldByOther(p),
         NEW c \in Call, callAt[c].pc = "ready", callAt[c].process = p
  PROVE  ~SlotRefused(c)
  <1>1. PICK S, B : S = {r \in Call \X Attempt : TakesSlot(hold[r[1]][r[2]])} /\ B = Running(p) \ {c}
    OBVIOUS
  <1>2. IsFiniteSet(B) /\ Cardinality(B) = Cardinality(Running(p)) - 1 /\ Cardinality(Running(p)) \in Nat
    <2>1. PICK all : all = Running(p)
      OBVIOUS
    <2>2. c \in all /\ IsFiniteSet(all) /\ Cardinality(all) \in Nat
      BY <2>1, RunningCounted DEF Running
    <2>3. QED BY <1>1, <2>1, <2>2, FS_RemoveElement
  <1>3. \A r \in S : r = <<r[1], r[2]>> /\ r[1] \in B /\ r[2] = callAt[r[1]].attempt
    <2> SUFFICES ASSUME NEW r \in S PROVE r = <<r[1], r[2]>> /\ r[1] \in B /\ r[2] = callAt[r[1]].attempt
      OBVIOUS
    <2>1. r = <<r[1], r[2]>> /\ r[1] \in Call /\ r[2] \in Attempt /\ TakesSlot(hold[r[1]][r[2]])
      BY <1>1
    <2>2. r[2] = callAt[r[1]].attempt /\ callAt[r[1]].pc \in {"reserved", "sent"} /\ callAt[r[1]].process = p
      BY <2>1 DEF HeldByOther
    <2>3. QED BY <1>1, <2>1, <2>2 DEF Running
  <1>4. PICK f : f = [r \in S |-> r[1]]
    OBVIOUS
  <1>5. f \in Injection(S, B)
    <2>1. f \in [S -> B]
      BY <1>3, <1>4
    <2>2. ASSUME NEW r \in S, NEW q \in S, f[r] = f[q] PROVE r = q
      <3>1. r[1] = q[1]
        BY <1>4, <2>2
      <3>2. r[2] = q[2]
        BY <1>3, <3>1
      <3>3. r = <<r[1], r[2]>> /\ q = <<q[1], q[2]>>
        BY <1>3
      <3>4. QED BY <3>1, <3>2, <3>3
    <2>3. QED BY <2>1, <2>2 DEF Injection, IsInjective
  <1>6. IsFiniteSet(S) /\ Cardinality(S) <= Cardinality(B)
    BY <1>2, <1>5, FS_Injection
  <1>7. Cardinality(S) \in Nat /\ Slots = Cardinality(S)
    BY <1>1, <1>6, FS_CardinalityType DEF Slots
  <1>8. Cardinality(Running(p)) + room[p] <= budget.parallel /\ room[p] \in Nat /\ budget.parallel \in Nat
    BY ModelCallsAssumption DEF PoolInv, WithinParallel, FitsPool, McTyped
  <1>9. Slots < budget.parallel
    BY <1>2, <1>6, <1>7, <1>8
  <1>10. Slots \in Nat
    BY <1>7
  <1>11. QED BY <1>8, <1>9, <1>10 DEF SlotRefused

\* A pool holds a tenant to its parallel calls (worker.py:187-197), for any number of processes: unless an
\* owner lowered them since the pool looked, a call it started is refused a slot only when some
\* slot is left over or held by a call of another process.
THEOREM RefusalsHaveAReason == ModelCallsSpec => SlotRefusalsExplained
  <1>1. ModelCallsInit => WithinParallel
    <2> SUFFICES ASSUME ModelCallsInit, NEW p \in Process PROVE FitsPool(p)
      BY DEF WithinParallel
    <2>1. Running(p) = {} /\ room[p] = 0 /\ budget.parallel \in Nat
      BY ModelCallsAssumption DEF ModelCallsInit, Running
    <2>2. Cardinality({}) = 0
      BY FS_EmptySet
    <2>3. QED BY <2>1, <2>2 DEF FitsPool
  <1>2. ASSUME McInv, WithinParallel, [ModelCallsNext]_modelCallVars
        PROVE  /\ WithinParallel'
               /\ [\A c \in Call : SlotRefused(c) /\ callAt'[c].pc = "returned"
                     => callAt[c].process \in cut \/ HeldByOther(callAt[c].process)]_modelCallVars
    <2>1. PoolInv
      BY <1>2 DEF PoolInv, McInv
    <2>2. ASSUME NEW c \in Call, SlotRefused(c) PROVE callAt[c].process \in cut \/ HeldByOther(callAt[c].process)
      <3>1. PICK p \in Process : p = callAt[c].process
        BY <2>1 DEF PoolInv, McTyped, Place
      <3>2. callAt[c].pc = "ready"
        BY <2>2 DEF SlotRefused
      <3>3. p \in cut \/ HeldByOther(p)
        BY <2>1, <2>2, <3>1, <3>2, SlotIsFree
      <3>4. QED BY <3>1, <3>3
    <2>3. QED BY <1>2, <2>1, <2>2, PoolStaysWithin
  <1>3. QED BY <1>1, <1>2, LedgerStarts, McStep, PTL DEF ModelCallsSpec, SlotRefusalsExplained
===============================================================================
