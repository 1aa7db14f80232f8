--------------------------------- MODULE Inbox ---------------------------------
(***************************************************************************)
(* Inbound events (engine.py, accept_event to retry_event): a verified       *)
(* webhook stores an event, a planner leases it, plans it with no            *)
(* transaction open, submits the plan or records a conversation turn, and    *)
(* writes the outcome under its claim.                                       *)
(*                                                                         *)
(* One tenant, one channel.  The planners are the main thread and the pool   *)
(* threads of every worker process; which of them may take an event depends  *)
(* on the pack (worker.EventRouting) and any of them may here.  A claim      *)
(* token is a uuid: it is a number that no planner and no row holds.         *)
(***************************************************************************)
EXTENDS Integers, Sequences, FiniteSets

CONSTANTS
  Event,         \* event keys of the channel
  Planner,       \* threads that plan
  Plan,          \* plans with steps that the command and model planners return
  Reply,         \* the send that delivers a conversation turn
  Turn,          \* the answer of the planner that names a conversation agent
  NoPlan, NoEvent,
  MaxPending,    \* ceiling of waiting events (1000 in the code)
  DailyQuota,    \* events accepted in one day (10000 in the code)
  LeaseTicks,    \* life of a claim (120 s)
  MaxUpsets,     \* bound: planners that die and members' retries in one behaviour
  PlannerInTime  \* the deadline of the model call keeps every plan inside its lease

ASSUME InboxAssumption ==
  /\ {Reply, Turn, NoPlan} \intersect Plan = {} /\ Cardinality({Reply, Turn, NoPlan}) = 3
  /\ NoEvent \notin Event /\ IsFiniteSet(Planner) /\ IsFiniteSet(Event)
  /\ MaxPending \in Nat \ {0} /\ DailyQuota \in Nat \ {0} /\ LeaseTicks \in Nat \ {0}
  /\ MaxUpsets \in Nat /\ PlannerInTime \in BOOLEAN

VARIABLES
  status, claim, lease, result, arrived,   \* p_events
  today,                                   \* p_quota
  task, turn,                              \* p_tasks, p_conversation_turns, by event key
  frozen, allowed, owned,                  \* kill switch, authority, pack routing
  job, upsets                              \* the planners' memory, the bound's count

eventVars == <<status, claim, lease, result, arrived>>
outcomeVars == <<task, turn>>
envVars == <<frozen, allowed, owned>>
vars == <<eventVars, today, outcomeVars, envVars, job, upsets>>

Token == 1..(Cardinality(Planner) + Cardinality(Event) + 1)
Waiting == {"pending", "processing"}
Settled == {"done", "failed"}
Idle == [pc |-> "idle", event |-> NoEvent, token |-> 0, plan |-> NoPlan, out |-> "none"]
Job == [pc : {"idle", "claimed", "looked", "planning", "planned", "decided"},
        event : Event \union {NoEvent}, token : Token \union {0},
        plan : Plan \union {Turn, NoPlan}, out : {"none", "task", "turn", "failed"}]

TypeOK ==
  /\ status \in [Event -> Waiting \union Settled \union {"none"}]
  /\ claim \in [Event -> Token \union {0}] /\ lease \in [Event -> 0..LeaseTicks]
  /\ result \in [Event -> {"none", "task", "turn"}] /\ arrived \in Seq(Event)
  /\ today \in 0..DailyQuota
  /\ task \in [Event -> Plan \union {Reply, NoPlan}] /\ turn \in [Event -> BOOLEAN]
  /\ frozen \in BOOLEAN /\ allowed \in BOOLEAN /\ owned \in BOOLEAN
  /\ job \in [Planner -> Job] /\ upsets \in 0..MaxUpsets

Init ==
  /\ status = [e \in Event |-> "none"] /\ claim = [e \in Event |-> 0]
  /\ lease = [e \in Event |-> 0] /\ result = [e \in Event |-> "none"]
  /\ arrived = <<>> /\ today = 0
  /\ task = [e \in Event |-> NoPlan] /\ turn = [e \in Event |-> FALSE]
  /\ frozen = FALSE /\ allowed = TRUE /\ owned \in BOOLEAN
  /\ job = [p \in Planner |-> Idle] /\ upsets = 0

-----------------------------------------------------------------------------
(* accept_event: a replay of a stored event changes nothing. *)

Accept(e) ==
  /\ status[e] = "none" /\ allowed /\ ~frozen
  /\ Cardinality({f \in Event : status[f] \in Waiting}) < MaxPending /\ today < DailyQuota
  /\ status' = [status EXCEPT ![e] = "pending"]
  /\ arrived' = Append(arrived, e) /\ today' = today + 1
  /\ UNCHANGED <<claim, lease, result, outcomeVars, envVars, job, upsets>>

(* claim_event. *)

\* Mutant of Claimable: only what nobody ever claimed.
ClaimablePending == {e \in Event : status[e] = "pending"}

Claimable ==
  {e \in Event : status[e] = "pending" \/ (status[e] = "processing" /\ lease[e] = 0)}

\* The rows are read in the order they were stored.
Oldest(S) ==
  {e \in S : \E i \in 1..Len(arrived) :
               arrived[i] = e /\ \A j \in 1..(i - 1) : arrived[j] \notin S}

FreshToken == CHOOSE n \in Token : /\ \A e \in Event : claim[e] # n
                                   /\ \A p \in Planner : job[p].token # n

ClaimEvent(p) ==
  /\ job[p].pc = "idle" /\ ~frozen
  /\ \E e \in Oldest(Claimable) :
       /\ status' = [status EXCEPT ![e] = "processing"]
       /\ claim' = [claim EXCEPT ![e] = FreshToken]
       /\ lease' = [lease EXCEPT ![e] = LeaseTicks]
       /\ job' = [job EXCEPT ![p] = [Idle EXCEPT !.pc = "claimed", !.event = e,
                                                 !.token = FreshToken]]
  /\ UNCHANGED <<result, arrived, today, outcomeVars, envVars, upsets>>

-----------------------------------------------------------------------------
(* settle_event. *)

Step(p, changed) ==
  /\ job' = [job EXCEPT ![p] = changed]
  /\ UNCHANGED <<eventVars, today, envVars, upsets>>

Decided(p, out) == Step(p, [job[p] EXCEPT !.pc = "decided", !.out = out])

\* Mutant of Look: a recorded turn is not asked for.
LookForTask(p) ==
  LET e == job[p].event
  IN  /\ job[p].pc = "claimed"
      /\ IF task[e] # NoPlan THEN Decided(p, "task")
         ELSE Step(p, [job[p] EXCEPT !.pc = "looked"])
      /\ UNCHANGED outcomeVars

\* What an earlier claim of this event left behind is its outcome.
Look(p) ==
  LET e == job[p].event
  IN  /\ job[p].pc = "claimed"
      /\ IF task[e] # NoPlan THEN Decided(p, "task")
         ELSE IF turn[e] THEN Decided(p, "turn")
         ELSE Step(p, [job[p] EXCEPT !.pc = "looked"])
      /\ UNCHANGED outcomeVars

Authorise(p) ==
  /\ job[p].pc = "looked"
  /\ IF allowed THEN Step(p, [job[p] EXCEPT !.pc = "planning"]) ELSE Decided(p, "failed")
  /\ UNCHANGED outcomeVars

\* planning.planner, with the pack as it is now: a conversation agent that owns the
\* channel takes the message; otherwise a command or the model plans it, or fails.
MakePlan(p) ==
  /\ job[p].pc = "planning"
  /\ \/ \E plan \in IF owned THEN {Turn} ELSE Plan :
          Step(p, [job[p] EXCEPT !.pc = "planned", !.plan = plan])
     \/ Decided(p, "failed")
  /\ UNCHANGED outcomeVars

\* record_turn: keyed by the event, recorded once, whatever the kill switch says; it
\* fails when the agent has left the pack or the message has no valid sender.
RecordTurn(p) ==
  /\ job[p].pc = "planned" /\ job[p].plan = Turn
  /\ \/ /\ turn' = [turn EXCEPT ![job[p].event] = TRUE]
        /\ Decided(p, "turn") /\ UNCHANGED task
     \/ Decided(p, "failed") /\ UNCHANGED outcomeVars

\* Engine.submit under the event's key; a full queue or an invalid plan refuses too.
SubmitPlan(p) ==
  LET e == job[p].event
  IN  /\ job[p].pc = "planned" /\ job[p].plan \in Plan
      /\ \/ /\ allowed /\ task[e] = job[p].plan
            /\ Decided(p, "task") /\ UNCHANGED outcomeVars
         \/ /\ allowed /\ task[e] = NoPlan /\ ~frozen
            /\ task' = [task EXCEPT ![e] = job[p].plan]
            /\ Decided(p, "task") /\ UNCHANGED turn
         \/ Decided(p, "failed") /\ UNCHANGED outcomeVars

\* The outcome is written where the row still carries this claim; a lapsed lease
\* that nobody took over does not matter.
Record(p) ==
  LET e == job[p].event
      failed == job[p].out = "failed"
  IN  /\ job[p].pc = "decided"
      /\ IF claim[e] = job[p].token
         THEN /\ status' = [status EXCEPT ![e] = IF failed THEN "failed" ELSE "done"]
              /\ result' = [result EXCEPT ![e] = IF failed THEN "none" ELSE job[p].out]
              /\ claim' = [claim EXCEPT ![e] = 0] /\ lease' = [lease EXCEPT ![e] = 0]
         ELSE UNCHANGED <<status, result, claim, lease>>
      /\ job' = [job EXCEPT ![p] = Idle]
      /\ UNCHANGED <<arrived, today, outcomeVars, envVars, upsets>>

Crash(p) ==
  /\ job[p].pc # "idle" /\ upsets < MaxUpsets
  /\ job' = [job EXCEPT ![p] = Idle] /\ upsets' = upsets + 1
  /\ UNCHANGED <<eventVars, today, outcomeVars, envVars>>

-----------------------------------------------------------------------------
(* The rest of the system. *)

\* retry_event: by a member, on an event that failed.
Retry(e) ==
  /\ status[e] = "failed" /\ allowed /\ ~frozen /\ upsets < MaxUpsets
  /\ status' = [status EXCEPT ![e] = "pending"] /\ upsets' = upsets + 1
  /\ UNCHANGED <<claim, lease, result, arrived, today, outcomeVars, envVars, job>>

\* ConversationTurns._deliver submits the turn's reply under the event's own key.
Deliver(e) ==
  /\ turn[e] /\ task[e] = NoPlan /\ allowed /\ ~frozen
  /\ task' = [task EXCEPT ![e] = Reply]
  /\ UNCHANGED <<eventVars, today, turn, envVars, job, upsets>>

Holds(p, e) == job[p].event = e /\ claim[e] = job[p].token

Tick ==
  /\ \E e \in Event : lease[e] > 0
  /\ PlannerInTime => \A p \in Planner, e \in Event : Holds(p, e) => lease[e] > 1
  /\ lease' = [e \in Event |-> IF lease[e] > 0 THEN lease[e] - 1 ELSE 0]
  /\ UNCHANGED <<status, claim, result, arrived, today, outcomeVars, envVars, job, upsets>>

NewDay ==
  /\ today > 0 /\ today' = 0
  /\ UNCHANGED <<eventVars, outcomeVars, envVars, job, upsets>>

Control ==
  /\ \/ frozen' = ~frozen /\ UNCHANGED <<allowed, owned>>
     \/ allowed' = ~allowed /\ UNCHANGED <<frozen, owned>>
     \/ owned' = ~owned /\ UNCHANGED <<frozen, allowed>>
  /\ UNCHANGED <<eventVars, today, outcomeVars, job, upsets>>

Settling(p) == Look(p) \/ Authorise(p) \/ MakePlan(p) \/ RecordTurn(p) \/ SubmitPlan(p) \/ Record(p)

Next ==
  \/ \E e \in Event : Accept(e) \/ Retry(e) \/ Deliver(e)
  \/ \E p \in Planner : ClaimEvent(p) \/ Settling(p) \/ Crash(p)
  \/ Tick \/ NewDay \/ Control

Spec == Init /\ [][Next]_vars

-----------------------------------------------------------------------------
(* Properties. *)

\* settle_event, its docstring: whichever planner plans second does not create a
\* second task or turn; a message is answered by a turn or by a plan, never by both.
OneOutcome == \A e \in Event : ~(turn[e] /\ task[e] \in Plan)

\* retry_event: an event reported failed, which a member may have planned again,
\* has had no outcome.
FailedIsUnanswered == \A e \in Event : status[e] = "failed" => task[e] = NoPlan /\ ~turn[e]

\* Record and retry_event: a planner whose claim was taken over cannot undo the outcome
\* another recorded, and a done event is never planned again.
DoneStays ==
  [][\A e \in Event : status[e] = "done" => status'[e] = "done" /\ result'[e] = result[e]]_vars

\* The worker loop claims events for every tenant in every pass and a planner
\* thread that started goes on to its end; time passes.
Fairness == WF_vars(Tick) /\ \A p \in Planner : WF_vars(ClaimEvent(p)) /\ WF_vars(Settling(p))

FairSpec == Spec /\ Fairness

\* An accepted event is settled, though planners die, unless the tenant is frozen.
EventsSettle == \A e \in Event : status[e] \in Waiting ~> status[e] \in Settled \/ frozen

=============================================================================
