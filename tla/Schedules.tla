------------------------------ MODULE Schedules ------------------------------
(***************************************************************************)
(* The engine's schedules (Engine.schedule and run_schedules of                *)
(* platform_runtime/engine.py): a due schedule is submitted as a task under the *)
(* key of its period, and its next_due is moved past it, in two transactions.   *)
(*                                                                         *)
(* One tenant.  A put brings steps and an owner; both are named by the put.  The *)
(* owner's row and the schedule's row are one write and two reads.             *)
(***************************************************************************)
EXTENDS Naturals, FiniteSets

CONSTANTS
  Schedule,
  Runner,         \* worker processes
  Put,            \* what owners put: steps and who put them
  MaxPeriod,      \* bound: periods of a schedule
  MaxTroubles,    \* bound: what stands in the way of passes at a time
  MaxRunnerDeaths \* bound: deaths of a worker within a pass

ASSUME SchedulesAssumption == MaxPeriod \in Nat \ {0} /\ {MaxTroubles, MaxRunnerDeaths} \subseteq Nat

Period == 1..MaxPeriod

VARIABLES
  cron,      \* p_schedules and p_schedule_owners: next_due (0: no such row), enabled, the put
  ripe,      \* schedules whose next_due has passed
  cronTask,  \* tasks of the channel 'cron', by the key of schedule and period
  runner,    \* memory of the workers during a pass
  cronWorld  \* frozen or not, the puts whose owner lost authority or whose steps no longer pass
             \* _validated, whether the task queue is full, deaths so far

schedulesVars == <<cron, ripe, cronTask, runner, cronWorld>>

AnyPut == CHOOSE p \in Put : TRUE
NoTask == [steps |-> AnyPut, actor |-> AnyPut, made |-> FALSE]
Offline == [pc |-> "idle", rows |-> {}, now |-> CHOOSE s \in Schedule : TRUE, actor |-> AnyPut]

SchedulesInit ==
  /\ cron = [s \in Schedule |-> [due |-> 0, on |-> FALSE, put |-> AnyPut]]
  /\ ripe = {}
  /\ cronTask = [s \in Schedule |-> [p \in Period |-> NoTask]]
  /\ runner = [w \in Runner |-> Offline]
  /\ cronWorld = [frozen |-> FALSE, revoked |-> {}, unfit |-> {}, full |-> FALSE, deaths |-> 0]

-----------------------------------------------------------------------------
\* schedule: an owner in good standing puts steps; of a row that is there, next_due stays.
PutSchedule(s, p) ==
  /\ ~cronWorld.frozen /\ p \notin cronWorld.revoked \union cronWorld.unfit
  /\ cron' = [cron EXCEPT ![s] = [due |-> IF @.due = 0 THEN 1 ELSE @.due, on |-> TRUE, put |-> p]]
  /\ UNCHANGED <<ripe, cronTask, runner, cronWorld>>

\* The last period of the bound is never due.
Ripens(s) ==
  /\ cron[s].due \in 1..(MaxPeriod - 1) /\ s \notin ripe /\ ripe' = ripe \union {s}
  /\ UNCHANGED <<cron, cronTask, runner, cronWorld>>

Troubles(world) == Cardinality(world.revoked) + Cardinality(world.unfit)
                   + (IF world.frozen THEN 1 ELSE 0) + (IF world.full THEN 1 ELSE 0)

CronWorldChanges ==
  /\ \/ cronWorld' = [cronWorld EXCEPT !.frozen = ~@]
     \/ cronWorld' = [cronWorld EXCEPT !.full = ~@]
     \/ \E p \in Put : \/ cronWorld' = [cronWorld EXCEPT !.revoked = @ \union {p}]
                      \/ cronWorld' = [cronWorld EXCEPT !.unfit = @ \union {p}]
                      \/ cronWorld' = [cronWorld EXCEPT !.unfit = @ \ {p}]
  /\ Troubles(cronWorld') <= MaxTroubles
  /\ UNCHANGED <<cron, ripe, cronTask, runner>>

-----------------------------------------------------------------------------
\* run_schedules: the enabled schedules that are due, of a tenant that is not frozen.
StartPass(w) ==
  /\ runner[w].pc = "idle" /\ ~cronWorld.frozen
  /\ LET due == {s \in ripe : cron[s].on}
     IN /\ due # {}
        /\ runner' = [runner EXCEPT ![w].pc = "pass",
             ![w].rows = {[schedule |-> s, due |-> cron[s].due, steps |-> cron[s].put] : s \in due}]
  /\ UNCHANGED <<cron, ripe, cronTask, cronWorld>>

Row(w) == CHOOSE r \in runner[w].rows : r.schedule = runner[w].now
RowDone(w, pc) == runner' = [runner EXCEPT ![w].pc = pc, ![w].rows = @ \ {Row(w)}, ![w].actor = AnyPut]

\* The owner of the next row, read apart from the row.
ReadOwner(w, r) ==
  /\ runner[w].pc = "pass" /\ r \in runner[w].rows
  /\ runner' = [runner EXCEPT ![w].pc = "submit", ![w].now = r.schedule, ![w].actor = cron[r.schedule].put]
  /\ UNCHANGED <<cron, ripe, cronTask, cronWorld>>

\* What submit answers Forbidden to: steps the pack no longer allows, an owner without authority,
\* a tenant frozen by now.  Steps that no longer validate are refused or raise otherwise.
Denied(w, r) ==
  \/ r.steps \in cronWorld.unfit \/ runner[w].actor \in cronWorld.revoked
  \/ cronWorld.frozen /\ ~cronTask[r.schedule][r.due].made

\* submit, under the key of the row's period: created, or found with the same steps.
SubmitPeriod(w) ==
  LET r == Row(w)
      old == cronTask[r.schedule][r.due]
  IN /\ runner[w].pc = "submit" /\ ~Denied(w, r)
     /\ \/ old.made /\ old.steps = r.steps /\ UNCHANGED cronTask
        \/ /\ ~old.made /\ ~cronWorld.full
           /\ cronTask' = [cronTask EXCEPT ![r.schedule][r.due] =
                [steps |-> r.steps, actor |-> runner[w].actor, made |-> TRUE]]
     /\ runner' = [runner EXCEPT ![w].pc = "move"]
     /\ UNCHANGED <<cron, ripe, cronWorld>>

\* Mutant of RefusePeriod: the refusal leaves the schedule as it is.
RefusePeriodKept(w) ==
  LET r == Row(w)
  IN /\ runner[w].pc = "submit" /\ Denied(w, r)
     /\ RowDone(w, "pass") /\ UNCHANGED <<cron, ripe, cronTask, cronWorld>>

\* Forbidden disables the schedule.
RefusePeriod(w) ==
  LET r == Row(w)
  IN /\ runner[w].pc = "submit" /\ Denied(w, r)
     /\ cron' = [cron EXCEPT ![r.schedule].on = FALSE] /\ RowDone(w, "pass")
     /\ UNCHANGED <<ripe, cronTask, cronWorld>>

\* What else submit raises leaves the loop, and the rows after it: ValueError and LookupError of
\* steps that no longer validate, Conflict of a period's task with other steps, RateLimited of a
\* full queue.
RaiseEndsPass(w) ==
  LET r == Row(w)
      old == cronTask[r.schedule][r.due]
  IN /\ runner[w].pc = "submit"
     /\ \/ r.steps \in cronWorld.unfit
        \/ ~Denied(w, r) /\ IF old.made THEN old.steps # r.steps ELSE cronWorld.full
     /\ runner' = [runner EXCEPT ![w] = Offline] /\ UNCHANGED <<cron, ripe, cronTask, cronWorld>>

\* Mutant of MovePeriod: next_due moves whatever it says by now.
MovePeriodBlindly(w) ==
  LET s == Row(w).schedule
  IN /\ runner[w].pc = "move" /\ RowDone(w, "pass")
     /\ cron' = [cron EXCEPT ![s].due = @ + 1] /\ ripe' = ripe \ {s}
     /\ UNCHANGED <<cronTask, cronWorld>>

\* next_due moves, if it still is the one read.
MovePeriod(w) ==
  LET s == Row(w).schedule
  IN /\ runner[w].pc = "move" /\ RowDone(w, "pass")
     /\ IF cron[s].due = Row(w).due
        THEN cron' = [cron EXCEPT ![s].due = @ + 1] /\ ripe' = ripe \ {s}
        ELSE UNCHANGED <<cron, ripe>>
     /\ UNCHANGED <<cronTask, cronWorld>>

EndPass(w) ==
  /\ runner[w].pc = "pass" /\ runner[w].rows = {}
  /\ runner' = [runner EXCEPT ![w] = Offline] /\ UNCHANGED <<cron, ripe, cronTask, cronWorld>>

RunnerDies(w) ==
  /\ runner[w].pc # "idle" /\ cronWorld.deaths < MaxRunnerDeaths
  /\ runner' = [runner EXCEPT ![w] = Offline] /\ cronWorld' = [cronWorld EXCEPT !.deaths = @ + 1]
  /\ UNCHANGED <<cron, ripe, cronTask>>

Pass(w) == \/ StartPass(w) \/ (\E r \in runner[w].rows : ReadOwner(w, r)) \/ SubmitPeriod(w)
           \/ RefusePeriod(w) \/ RaiseEndsPass(w) \/ MovePeriod(w) \/ EndPass(w)

SchedulesNext ==
  \/ CronWorldChanges
  \/ \E s \in Schedule : Ripens(s) \/ \E p \in Put : PutSchedule(s, p)
  \/ \E w \in Runner : Pass(w) \/ RunnerDies(w)

\* The worker loop passes again and again.
SchedulesFairness == \A w \in Runner : WF_schedulesVars(Pass(w))
SchedulesSpec == SchedulesInit /\ [][SchedulesNext]_schedulesVars /\ SchedulesFairness

-----------------------------------------------------------------------------
\* next_due never moves past a period whose task is not there, nor past one it has not
\* reached, whatever workers die between the submission and the move, overlap, or meet a schedule
\* put anew meanwhile (engine.py:992-1001).
PeriodsAreKept ==
  [][\A s \in Schedule : cron[s].due # 0 /\ cron'[s].due # cron[s].due =>
       s \in ripe /\ cronTask[s][cron[s].due].made]_schedulesVars

\* The period of a schedule whose task was made with steps that were put away since.
Stuck(s) == cron[s].due # 0 /\ cronTask[s][cron[s].due].made /\ cronTask[s][cron[s].due].steps # cron[s].put
\* Steps of a schedule, or of a row that a pass has read, that no longer validate.
UnfitSteps ==
  \/ \E t \in Schedule : cron[t].put \in cronWorld.unfit
  \/ \E w \in Runner : \E r \in runner[w].rows : r.steps \in cronWorld.unfit
ScheduleDue(s) == s \in ripe /\ cron[s].on

\* A due schedule is submitted and moved on, or disabled, or the tenant is frozen - unless a row
\* ends every pass before the rows after it (engine.py:990-1001): a schedule put anew between its
\* submission and the move (after a death, or during the pass), or one whose steps no longer
\* validate; or the task queue is full.
DueScheduleRuns ==
  \A s \in Schedule :
    ScheduleDue(s) ~> \/ ~ScheduleDue(s) \/ cronWorld.frozen \/ cronWorld.full
                      \/ (\E t \in Schedule : Stuck(t)) \/ UnfitSteps
=============================================================================
