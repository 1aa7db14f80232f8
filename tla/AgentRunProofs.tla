---------------------------- MODULE AgentRunProofs ----------------------------
(* What holds of AgentRun for any runs, processes, threads and bounds. *)
EXTENDS AgentRun, TLAPS

(***************************************************************************)
(* What a step does, in the form the proofs use.                            *)
(***************************************************************************)

LEMMA JobTypes ==
  ASSUME TypeOK, NEW p \in Thread
  PROVE  /\ job[p] \in Job /\ Idle \in Job
         /\ \A x \in Job : /\ [job EXCEPT ![p] = x] \in [Thread -> Job]
                           /\ [job EXCEPT ![p] = x][p] = x
                           /\ \A q \in Thread \ {p} : [job EXCEPT ![p] = x][q] = job[q]
         /\ [job[p] EXCEPT !.pc = "calling"] \in Job
         /\ \A out \in Outcome : [job[p] EXCEPT !.pc = "returned", !.out = out] \in Job
         /\ job[p].repairs > 0 =>
              [job[p] EXCEPT !.pc = "reserved", !.repairs = job[p].repairs - 1] \in Job
  <1>1. 0 \in 0..MaxCalls /\ 0 \in 0..1
    BY RunAssumption DEF MaxCalls
  <1>2. Idle \in Job
    BY <1>1 DEF Idle, Job, Outcome
  <1>3. job[p] \in Job
    BY DEF TypeOK
  <1>4. /\ [job[p] EXCEPT !.pc = "calling"] \in Job
        /\ \A out \in Outcome : [job[p] EXCEPT !.pc = "returned", !.out = out] \in Job
    <2> HIDE DEF Outcome
    <2>1. QED BY <1>3 DEF Job
  <1>5. ASSUME job[p].repairs > 0
        PROVE  [job[p] EXCEPT !.pc = "reserved", !.repairs = job[p].repairs - 1] \in Job
    <2>1. job[p].repairs - 1 \in 0..1
      BY <1>3, <1>5 DEF Job
    <2>2. QED BY <1>3, <2>1 DEF Job
  <1>6. QED BY <1>2, <1>3, <1>4, <1>5 DEF TypeOK

\* Retirement of a run: itself and its current task, and nothing else.
LEMMA StopDoes ==
  ASSUME TypeOK, NEW r \in Run, NEW verdict \in {"cancelled", "escalated"}, Stop(r, verdict)
  PROVE  /\ status' \in [Run -> ACTIVE \union TERMINAL \union {"none"}]
         /\ status'[r] \in {"uncertain", verdict}
         /\ task' \in [Run -> [1..MaxSteps -> TaskStatus]]
         /\ \A q \in Run \ {r} : status'[q] = status[q] /\ task'[q] = task[q]
         /\ \A i \in 1..MaxSteps : i # steps[r] => task'[r][i] = task[r][i]
         /\ steps[r] > 0 => /\ task'[r][steps[r]] \notin Unfinished
                            /\ task[r][steps[r]] \notin Unfinished => task'[r] = task[r]
                            /\ task'[r][steps[r]] = "uncertain" => status'[r] = "uncertain"
         /\ steps[r] = 0 => task'[r] = task[r]
         /\ claim' \in [Run -> 0..MaxCalls] /\ lease' \in [Run -> 0..LeaseTicks]
         /\ steps' = steps /\ calls' = calls /\ deadline' = deadline
  <1> USE RunAssumption
  <1>1. /\ status' \in [Run -> ACTIVE \union TERMINAL \union {"none"}]
        /\ status'[r] = IF CurrentTask(r) \in {"running", "uncertain"} THEN "uncertain" ELSE verdict
        /\ \A q \in Run \ {r} : status'[q] = status[q]
    BY DEF Stop, TypeOK, TERMINAL
  <1>2. 0 \in 0..MaxCalls /\ 0 \in 0..LeaseTicks
    BY DEF MaxCalls
  <1>3. claim' \in [Run -> 0..MaxCalls] /\ lease' \in [Run -> 0..LeaseTicks]
    BY <1>2 DEF Stop, TypeOK
  <1>4. /\ task' \in [Run -> [1..MaxSteps -> TaskStatus]]
        /\ \A q \in Run \ {r} : task'[q] = task[q]
        /\ \A i \in 1..MaxSteps : i # steps[r] => task'[r][i] = task[r][i]
        /\ steps[r] > 0 =>
             /\ task'[r][steps[r]] = IF task[r][steps[r]] \in Unfinished
                  THEN IF task[r][steps[r]] = "running" THEN "uncertain" ELSE "cancelled"
                  ELSE task[r][steps[r]]
             /\ task[r][steps[r]] \notin Unfinished => task'[r] = task[r]
        /\ steps[r] = 0 => task'[r] = task[r]
    <2>1. CASE steps[r] = 0
      BY <2>1 DEF Stop, TypeOK, CurrentTask, Unfinished
    <2>2. CASE steps[r] > 0 /\ task[r][steps[r]] \notin Unfinished
      BY <2>2 DEF Stop, TypeOK, CurrentTask
    <2>3. CASE steps[r] > 0 /\ task[r][steps[r]] \in Unfinished
      <3> DEFINE i == steps[r]
                 new == IF task[r][i] = "running" THEN "uncertain" ELSE "cancelled"
      <3>1. /\ i \in 1..MaxSteps /\ task[r] \in [1..MaxSteps -> TaskStatus]
            /\ new \in TaskStatus
        BY <2>3 DEF TypeOK, TaskStatus
      <3>2. task' = [task EXCEPT ![r] = [task[r] EXCEPT ![i] = new]]
        BY <2>3 DEF Stop, CurrentTask, TypeOK
      <3> HIDE DEF new
      <3>3. /\ task' \in [Run -> [1..MaxSteps -> TaskStatus]]
            /\ task'[r] = [task[r] EXCEPT ![i] = new]
            /\ \A q \in Run \ {r} : task'[q] = task[q]
        BY <3>1, <3>2 DEF TypeOK
      <3>4. QED BY <2>3, <3>1, <3>3 DEF new
    <2>4. steps[r] = 0 \/ steps[r] > 0
      BY DEF TypeOK
    <2>5. QED BY <2>1, <2>2, <2>3, <2>4
  <1>5. steps[r] > 0 => /\ task'[r][steps[r]] \notin Unfinished
                        /\ task'[r][steps[r]] = "uncertain" => status'[r] = "uncertain"
    BY <1>1, <1>4 DEF CurrentTask, Unfinished
  <1>6. QED BY <1>1, <1>3, <1>4, <1>5 DEF Stop

\* The three ways to retire a run.
Retired(r) == status[r] \in ACTIVE /\ \E verdict \in {"cancelled", "escalated"} : Stop(r, verdict)

LEMMA WhoRetires ==
  /\ \A r \in Run : Cancel(r) => Retired(r) /\ UNCHANGED <<envVars, job, made>>
  /\ \A r \in Run, p \in Thread : Retire(p, r) => Retired(r) /\ UNCHANGED <<envVars, job, made>>
  /\ \A p \in Thread : Escalate(p) => /\ Retired(job[p].run) /\ status[job[p].run] = "planning"
                                      /\ Return(p)
  <1>1. ASSUME NEW r \in Run, Cancel(r) PROVE Retired(r) /\ UNCHANGED <<envVars, job, made>>
    BY <1>1 DEF Cancel, Retired
  <1>2. ASSUME NEW r \in Run, NEW p \in Thread, Retire(p, r)
        PROVE  Retired(r) /\ UNCHANGED <<envVars, job, made>>
    BY <1>2 DEF Retire, Look, Retired
  <1>3. ASSUME NEW p \in Thread, Escalate(p)
        PROVE  Retired(job[p].run) /\ status[job[p].run] = "planning" /\ Return(p)
    BY <1>3 DEF Escalate, Holds, Retired, ACTIVE
  <1>4. QED BY <1>1, <1>2, <1>3

(***************************************************************************)
(* A thread's memory and the run it is about.  A run that a thread holds is *)
(* still planning or has ended: nothing takes it back to the queue.         *)
(***************************************************************************)

Held ==
  /\ \A p \in Thread : IF job[p].pc = "idle" THEN job[p].run = NoRun
                       ELSE /\ job[p].run \in Run
                            /\ status[job[p].run] \in TERMINAL \union {"planning"}
  /\ OnePlanner

LEMMA TypeStep == TypeOK /\ Held /\ [Next]_vars => TypeOK'
  <1> SUFFICES ASSUME TypeOK, Held, [Next]_vars PROVE TypeOK'
    OBVIOUS
  <1> USE RunAssumption
  <1>1. ASSUME NEW r \in Run, Create(r) PROVE TypeOK'
    <2>1. RunTicks \in 0..RunTicks /\ "pending" \in ACTIVE
      BY DEF ACTIVE
    <2>2. QED BY <1>1, <2>1 DEF Create, TypeOK, envVars
  <1>2. ASSUME NEW r \in Run, Retired(r), UNCHANGED <<envVars, made>>, job' \in [Thread -> Job]
        PROVE  TypeOK'
    <2>1. PICK verdict \in {"cancelled", "escalated"} : Stop(r, verdict)
      BY <1>2 DEF Retired
    <2>2. /\ status' \in [Run -> ACTIVE \union TERMINAL \union {"none"}]
          /\ task' \in [Run -> [1..MaxSteps -> TaskStatus]]
          /\ claim' \in [Run -> 0..MaxCalls] /\ lease' \in [Run -> 0..LeaseTicks]
          /\ steps' = steps /\ calls' = calls /\ deadline' = deadline
      BY <2>1, StopDoes
    <2>3. QED BY <1>2, <2>2 DEF TypeOK, envVars
  <1>3. ASSUME NEW r \in Run, NEW p \in Thread, Reserve(p, r) PROVE TypeOK'
    <2>1. calls[r] + 1 \in 0..MaxCalls
      BY <1>3 DEF Reserve, TypeOK, MaxCalls
    <2>2. NewLease(r) \in 0..LeaseTicks
      BY DEF NewLease, TypeOK
    <2>3. PICK repairs \in 0..1 :
            job' = [job EXCEPT ![p] = [Idle EXCEPT !.pc = "reserved", !.run = r,
                                                   !.claim = calls[r] + 1, !.repairs = repairs]]
      BY <1>3 DEF Reserve
    <2>4. [Idle EXCEPT !.pc = "reserved", !.run = r, !.claim = calls[r] + 1, !.repairs = repairs]
            \in Job
      BY <2>1 DEF Idle, Job, Outcome
    <2>5. job' \in [Thread -> Job]
      BY <2>3, <2>4, JobTypes
    <2>6. QED BY <1>3, <2>1, <2>2, <2>5 DEF Reserve, TypeOK, envVars, ACTIVE
  <1>4. ASSUME NEW p \in Thread, Fence(p) PROVE TypeOK'
    <2>1. /\ [job[p] EXCEPT !.pc = "calling"] \in Job
          /\ [job[p] EXCEPT !.pc = "returned", !.out = "error"] \in Job
      BY JobTypes DEF Outcome
    <2>2. job' \in [Thread -> Job]
      BY <1>4, <2>1, JobTypes DEF Fence
    <2>3. QED BY <1>4, <2>2 DEF Fence, TypeOK, runVars, envVars
  <1>5. ASSUME NEW p \in Thread, Call(p) PROVE TypeOK'
    <2>1. job' \in [Thread -> Job]
      <3>1. PICK out \in Outcome :
              job' = [job EXCEPT ![p] = [job[p] EXCEPT !.pc = "returned", !.out = out]]
        BY <1>5, JobTypes DEF Call, TypeOK
      <3>2. QED BY <3>1, JobTypes
    <2>2. made' \in [Run -> Nat]
      BY <1>5 DEF Call, TypeOK, Held
    <2>3. QED BY <1>5, <2>1, <2>2 DEF Call, TypeOK, runVars, envVars
  <1>6. ASSUME NEW p \in Thread, job[p].pc = "returned", Discard(p) PROVE TypeOK'
    BY <1>6, JobTypes DEF Discard, Return, TypeOK, runVars, envVars
  <1>7. ASSUME NEW p \in Thread, Crash(p) PROVE TypeOK'
    BY <1>7, JobTypes DEF Crash, TypeOK, runVars, envVars
  <1>8. ASSUME NEW p \in Thread, job[p].pc = "returned", Act(p) PROVE TypeOK'
    <2> DEFINE r == job[p].run
    <2>1. r \in Run
      BY <1>8 DEF Held
    <2>2. steps[r] + 1 \in 1..MaxSteps
      BY <1>8, <2>1 DEF Act, MayAct, TypeOK
    <2>3. job' \in [Thread -> Job]
      BY <1>8, JobTypes DEF Act, Return
    <2>4. 0 \in 0..MaxCalls /\ 0 \in 0..LeaseTicks
      BY DEF MaxCalls
    <2>5. task' \in [Run -> [1..MaxSteps -> TaskStatus]]
      BY <1>8, <2>1, <2>2 DEF Act, TypeOK, TaskStatus
    <2>6. /\ status' \in [Run -> ACTIVE \union TERMINAL \union {"none"}]
          /\ steps' \in [Run -> 0..MaxSteps]
          /\ claim' \in [Run -> 0..MaxCalls] /\ lease' \in [Run -> 0..LeaseTicks]
      BY <1>8, <2>1, <2>2, <2>4 DEF Act, TypeOK, ACTIVE
    <2>7. QED BY <1>8, <2>3, <2>5, <2>6 DEF Act, Return, TypeOK, envVars
  <1>9. ASSUME NEW p \in Thread, job[p].pc = "returned", Answer(p) PROVE TypeOK'
    <2>1. job' \in [Thread -> Job] /\ job[p].run \in Run
      BY <1>9, JobTypes DEF Answer, Return, Held
    <2>2. 0 \in 0..MaxCalls /\ 0 \in 0..LeaseTicks
      BY DEF MaxCalls
    <2>3. /\ status' \in [Run -> ACTIVE \union TERMINAL \union {"none"}]
          /\ claim' \in [Run -> 0..MaxCalls] /\ lease' \in [Run -> 0..LeaseTicks]
      BY <1>9, <2>1, <2>2 DEF Answer, TypeOK, TERMINAL
    <2>4. QED BY <1>9, <2>1, <2>3 DEF Answer, Return, TypeOK, envVars
  <1>10. ASSUME NEW p \in Thread, job[p].pc = "returned", Repair(p) PROVE TypeOK'
    <2>1. job[p].run \in Run
      BY <1>10 DEF Held
    <2>2. calls[job[p].run] + 1 \in 0..MaxCalls /\ NewLease(job[p].run) \in 0..LeaseTicks
      BY <1>10, <2>1 DEF Repair, Repairable, TypeOK, NewLease, MaxCalls
    <2>3. [job[p] EXCEPT !.pc = "reserved", !.repairs = job[p].repairs - 1] \in Job
      BY <1>10, JobTypes DEF Repair, Repairable
    <2>4. job' \in [Thread -> Job]
      <3>1. job' = [job EXCEPT ![p] = [job[p] EXCEPT !.pc = "reserved",
                                                     !.repairs = job[p].repairs - 1]]
        BY <1>10 DEF Repair, TypeOK
      <3>2. QED BY <2>3, <3>1, JobTypes
    <2>5. QED BY <1>10, <2>1, <2>2, <2>4 DEF Repair, TypeOK, envVars
  <1>11. ASSUME NEW r \in Run, NEW i \in 1..MaxSteps, TaskMoves(r, i) PROVE TypeOK'
    <2>1. PICK next \in TaskStatus : task' = [task EXCEPT ![r][i] = next]
      BY <1>11 DEF TaskMoves
    <2>2. task' \in [Run -> [1..MaxSteps -> TaskStatus]]
      BY <2>1 DEF TypeOK
    <2>3. QED BY <1>11, <2>2 DEF TaskMoves, TypeOK, runVars, envVars
  <1>12. CASE Tick
    <2>1. lease' \in [Run -> 0..LeaseTicks] /\ deadline' \in [Run -> 0..RunTicks]
      <3>1. \A r \in Run :
              /\ (IF lease[r] > 0 THEN lease[r] - 1 ELSE 0) \in 0..LeaseTicks
              /\ (IF deadline[r] > 0 THEN deadline[r] - 1 ELSE 0) \in 0..RunTicks
        BY DEF TypeOK
      <3>2. QED BY <1>12, <3>1 DEF Tick
    <2>2. QED BY <1>12, <2>1 DEF Tick, TypeOK, envVars
  <1>13. CASE Control
    BY <1>13 DEF Control, TypeOK, runVars
  <1>14. CASE UNCHANGED vars
    BY <1>14 DEF vars, TypeOK, runVars, envVars
  <1>15. ASSUME NEW r \in Run, NEW p \in Thread, Retire(p, r) PROVE TypeOK'
    <2>1. Retired(r) /\ UNCHANGED <<envVars, job, made>>
      BY <1>15, WhoRetires
    <2>2. QED BY <1>2, <2>1 DEF TypeOK
  <1>16. ASSUME NEW p \in Thread, job[p].pc = "returned", Escalate(p) PROVE TypeOK'
    <2>1. Retired(job[p].run) /\ Return(p) /\ job[p].run \in Run
      BY <1>16, WhoRetires DEF Held
    <2>2. QED BY <1>2, <2>1, JobTypes DEF Return
  <1>17. ASSUME NEW r \in Run, Cancel(r) PROVE TypeOK'
    <2>1. Retired(r) /\ UNCHANGED <<envVars, job, made>>
      BY <1>17, WhoRetires
    <2>2. QED BY <1>2, <2>1 DEF TypeOK
  <1>18. QED
    BY <1>1, <1>3, <1>4, <1>5, <1>6, <1>7, <1>8, <1>9, <1>10, <1>11, <1>12, <1>13, <1>14, <1>15,
       <1>16, <1>17 DEF Next, Coordinate, Plan, Commit

\* A thread that lets go, or only moves on, with its run still planning or at its end.
LEMMA HeldKept ==
  ASSUME TypeOK, Held,
         \A p \in Thread : \/ job'[p].pc = "idle" /\ job'[p].run = NoRun
                           \/ /\ job'[p].pc # "idle" /\ job[p].pc # "idle"
                              /\ job'[p].run = job[p].run
                              /\ status'[job[p].run] \in TERMINAL \union {"planning"}
  PROVE  Held'
  <1>1. ASSUME NEW p \in Thread
        PROVE  IF job'[p].pc = "idle" THEN job'[p].run = NoRun
               ELSE /\ job'[p].run \in Run
                    /\ status'[job'[p].run] \in TERMINAL \union {"planning"}
    BY DEF Held
  <1>2. ASSUME NEW p \in Thread, NEW q \in Thread, p # q, job'[p].run = job'[q].run
        PROVE  job'[p].run = NoRun
    BY <1>2 DEF Held, OnePlanner
  <1>3. QED BY <1>1, <1>2 DEF Held, OnePlanner

LEMMA HeldStep == TypeOK /\ Held /\ [Next]_vars => Held'
  <1> SUFFICES ASSUME TypeOK, Held, [Next]_vars PROVE Held'
    OBVIOUS
  <1> USE RunAssumption
  <1>0. ASSUME job' = job, \A r \in Run : status[r] \in TERMINAL \union {"planning"}
                             => status'[r] \in TERMINAL \union {"planning"}
        PROVE  Held'
    BY <1>0, HeldKept DEF Held
  <1>1. ASSUME NEW r \in Run, Create(r) PROVE Held'
    BY <1>1, <1>0 DEF Create, TypeOK, TERMINAL
  <1>2. ASSUME NEW r \in Run, Retired(r)
        PROVE  \A q \in Run : status[q] \in TERMINAL \union {"planning"}
                                => status'[q] \in TERMINAL \union {"planning"}
    <2>1. PICK verdict \in {"cancelled", "escalated"} : Stop(r, verdict)
      BY <1>2 DEF Retired
    <2>2. /\ status'[r] \in {"uncertain", verdict}
          /\ \A q \in Run \ {r} : status'[q] = status[q]
      BY <2>1, StopDoes
    <2>3. QED BY <2>2 DEF TERMINAL
  <1>3. ASSUME NEW r \in Run, NEW p \in Thread, Reserve(p, r) PROVE Held'
    <2>1. PICK repairs \in 0..1 :
            job' = [job EXCEPT ![p] = [Idle EXCEPT !.pc = "reserved", !.run = r,
                                                   !.claim = calls[r] + 1, !.repairs = repairs]]
      BY <1>3 DEF Reserve
    <2>2. /\ job'[p].pc = "reserved" /\ job'[p].run = r
          /\ \A q \in Thread \ {p} : job'[q] = job[q]
      BY <2>1 DEF Idle, TypeOK
    <2>3. status[r] \in {"pending", "waiting_task"}
          /\ status'[r] = "planning" /\ \A q \in Run \ {r} : status'[q] = status[q]
      BY <1>3 DEF Reserve, Due, TypeOK
    <2>4. \A q \in Thread : job[q].run # r
      BY <2>3 DEF Held, TERMINAL
    <2>5. ASSUME NEW q \in Thread
          PROVE  IF job'[q].pc = "idle" THEN job'[q].run = NoRun
                 ELSE /\ job'[q].run \in Run
                      /\ status'[job'[q].run] \in TERMINAL \union {"planning"}
      BY <2>2, <2>3, <2>4 DEF Held
    <2>6. ASSUME NEW q \in Thread, NEW s \in Thread, q # s, job'[q].run = job'[s].run
          PROVE  job'[q].run = NoRun
      BY <2>2, <2>4, <2>6 DEF Held, OnePlanner
    <2>7. QED BY <2>5, <2>6 DEF Held, OnePlanner
  <1>4. ASSUME NEW p \in Thread, NEW x, job[p].pc # "idle", x.pc # "idle", x.run = job[p].run,
               job' = [job EXCEPT ![p] = x], UNCHANGED status
        PROVE  Held'
    <2>1. job'[p] = x /\ \A q \in Thread \ {p} : job'[q] = job[q]
      BY <1>4 DEF TypeOK
    <2>2. QED BY <1>4, <2>1, HeldKept DEF Held
  <1>5. ASSUME NEW p \in Thread, Fence(p) PROVE Held'
    <2>1. PICK x \in {[job[p] EXCEPT !.pc = "calling"],
                      [job[p] EXCEPT !.pc = "returned", !.out = "error"]} :
            job' = [job EXCEPT ![p] = x]
      BY <1>5 DEF Fence, TypeOK
    <2>2. x.pc # "idle" /\ x.run = job[p].run
      <3>1. /\ [job[p] EXCEPT !.pc = "calling"].pc # "idle"
            /\ [job[p] EXCEPT !.pc = "calling"].run = job[p].run
        BY JobTypes DEF Job
      <3>2. /\ [job[p] EXCEPT !.pc = "returned", !.out = "error"].pc # "idle"
            /\ [job[p] EXCEPT !.pc = "returned", !.out = "error"].run = job[p].run
        BY JobTypes DEF Job
      <3>3. QED BY <2>1, <3>1, <3>2
    <2>3. QED BY <1>4, <1>5, <2>1, <2>2 DEF Fence, runVars
  <1>6. ASSUME NEW p \in Thread, Call(p) PROVE Held'
    <2>1. PICK out \in Outcome :
            job' = [job EXCEPT ![p] = [job[p] EXCEPT !.pc = "returned", !.out = out]]
      BY <1>6 DEF Call, TypeOK
    <2> DEFINE x == [job[p] EXCEPT !.pc = "returned", !.out = out]
    <2>2. x.pc # "idle" /\ x.run = job[p].run
      BY JobTypes DEF Job
    <2>3. QED BY <1>4, <1>6, <2>1, <2>2 DEF Call, runVars
  <1>7. ASSUME NEW p \in Thread, job' = [job EXCEPT ![p] = Idle],
               \A r \in Run : \/ status[r] \in TERMINAL \union {"planning"}
                                   => status'[r] \in TERMINAL \union {"planning"}
                              \/ job[p].run = r
        PROVE  Held'
    <2>1. job'[p] = Idle /\ \A q \in Thread \ {p} : job'[q] = job[q]
      BY <1>7 DEF TypeOK
    <2>2. ASSUME NEW q \in Thread \ {p}, job[q].pc # "idle"
          PROVE  status'[job[q].run] \in TERMINAL \union {"planning"}
      BY <1>7, <2>2 DEF Held, OnePlanner
    <2>3. QED BY <2>1, <2>2, HeldKept DEF Idle, Held
  <1>8. ASSUME NEW p \in Thread, Discard(p) \/ Crash(p) PROVE Held'
    BY <1>7, <1>8 DEF Discard, Crash, Return, runVars
  <1>9. ASSUME NEW p \in Thread, job[p].pc = "returned", Act(p) \/ Answer(p) PROVE Held'
    <2>1. job' = [job EXCEPT ![p] = Idle] /\ \A r \in Run \ {job[p].run} : status'[r] = status[r]
      BY <1>9 DEF Act, Answer, Return, TypeOK
    <2>2. QED BY <1>7, <2>1
  <1>10. ASSUME NEW p \in Thread, job[p].pc = "returned", Repair(p) PROVE Held'
    <2> DEFINE x == [job[p] EXCEPT !.pc = "reserved", !.repairs = job[p].repairs - 1]
    <2>1. job' = [job EXCEPT ![p] = x]
      BY <1>10 DEF Repair, TypeOK
    <2>2. x.pc # "idle" /\ x.run = job[p].run
      BY JobTypes DEF Job
    <2>3. QED BY <1>4, <1>10, <2>1, <2>2 DEF Repair
  <1>11. ASSUME NEW p \in Thread, job[p].pc = "returned", Escalate(p) PROVE Held'
    <2>1. Retired(job[p].run) /\ job' = [job EXCEPT ![p] = Idle] /\ job[p].run \in Run
      BY <1>11, WhoRetires DEF Return, Held
    <2>2. QED BY <1>2, <1>7, <2>1
  <1>12. ASSUME NEW r \in Run, Cancel(r) PROVE Held'
    BY <1>12, <1>0, <1>2, WhoRetires
  <1>13. ASSUME NEW r \in Run, NEW p \in Thread, Retire(p, r) PROVE Held'
    BY <1>13, <1>0, <1>2, WhoRetires
  <1>14. ASSUME UNCHANGED <<status, job>> PROVE Held'
    BY <1>0, <1>14
  <1>15. ASSUME NEW r \in Run, NEW i \in 1..MaxSteps, TaskMoves(r, i) PROVE Held'
    BY <1>14, <1>15 DEF TaskMoves, runVars
  <1>16. CASE Tick \/ Control \/ UNCHANGED vars
    BY <1>14, <1>16 DEF Tick, Control, vars, runVars
  <1>17. QED
    BY <1>1, <1>3, <1>5, <1>6, <1>8, <1>9, <1>10, <1>11, <1>12, <1>13, <1>15, <1>16
       DEF Next, Coordinate, Plan, Commit

LEMMA HeldAtFirst == Init => TypeOK /\ Held
  <1> SUFFICES ASSUME Init PROVE TypeOK /\ Held
    OBVIOUS
  <1> USE RunAssumption
  <1>1. /\ 0 \in 0..MaxSteps /\ 0 \in 0..MaxCalls /\ 0 \in 0..1
        /\ 0 \in 0..LeaseTicks /\ 0 \in 0..RunTicks
    BY DEF MaxCalls
  <1>2. Idle \in Job
    BY <1>1 DEF Idle, Job, Outcome
  <1>3. TypeOK
    BY <1>1, <1>2 DEF Init, TypeOK, TaskStatus
  <1>4. Held
    BY DEF Init, Held, OnePlanner, Idle
  <1>5. QED BY <1>3, <1>4

(***************************************************************************)
(* The call budget.  A thread on its way to the provider holds a call that  *)
(* was counted and not yet made; the repair call is counted before the      *)
(* thread may go again.                                                     *)
(***************************************************************************)

Counted ==
  /\ \A r \in Run : made[r] <= calls[r]
  /\ \A p \in Thread : job[p].pc \in {"reserved", "calling"} => made[job[p].run] < calls[job[p].run]

LEMMA CountedStep == TypeOK /\ Held /\ Counted /\ [Next]_vars => Counted'
  <1> SUFFICES ASSUME TypeOK, Held, Counted, [Next]_vars PROVE Counted'
    OBVIOUS
  <1> USE RunAssumption
  <1>1. ASSUME NEW p \in Thread, NEW x, job' = [job EXCEPT ![p] = x], UNCHANGED <<calls, made>>,
               x.pc \in {"reserved", "calling"} =>
                 x.run = job[p].run /\ job[p].pc \in {"reserved", "calling"}
        PROVE  Counted'
    <2>1. job'[p] = x /\ \A q \in Thread \ {p} : job'[q] = job[q]
      BY <1>1 DEF TypeOK
    <2>2. QED BY <1>1, <2>1 DEF Counted
  <1>2. ASSUME NEW r \in Run, NEW p \in Thread, Reserve(p, r) PROVE Counted'
    <2>1. PICK repairs \in 0..1 :
            job' = [job EXCEPT ![p] = [Idle EXCEPT !.pc = "reserved", !.run = r,
                                                   !.claim = calls[r] + 1, !.repairs = repairs]]
      BY <1>2 DEF Reserve
    <2>2. job'[p].run = r /\ \A q \in Thread \ {p} : job'[q] = job[q]
      BY <2>1 DEF Idle, TypeOK
    <2>3. /\ calls'[r] = calls[r] + 1 /\ \A q \in Run \ {r} : calls'[q] = calls[q]
          /\ made' = made
      BY <1>2 DEF Reserve, TypeOK
    <2>4. \A q \in Run : calls'[q] >= calls[q] /\ calls[q] \in Nat /\ made[q] \in Nat
                         /\ calls'[q] \in Nat
      <3>1. \A q \in Run : calls[q] \in Nat /\ made[q] \in Nat
        BY DEF TypeOK, MaxCalls
      <3>2. QED BY <2>3, <3>1
    <2>5. \A q \in Run : made'[q] <= calls'[q]
      BY <2>3, <2>4 DEF Counted
    <2>6. made'[r] < calls'[r]
      BY <2>3, <2>4 DEF Counted
    <2>7. ASSUME NEW q \in Thread, job'[q].pc \in {"reserved", "calling"}
          PROVE  made'[job'[q].run] < calls'[job'[q].run]
      <3>1. CASE q = p
        BY <2>2, <2>6, <3>1
      <3>2. CASE q # p
        <4>1. job[q].run \in Run /\ made[job[q].run] < calls[job[q].run]
          BY <2>2, <2>7, <3>2 DEF Held, Counted
        <4>2. QED BY <2>2, <2>3, <2>4, <3>2, <4>1
      <3>3. QED BY <3>1, <3>2
    <2>8. QED BY <2>5, <2>7 DEF Counted
  <1>3. ASSUME NEW p \in Thread, Fence(p) PROVE Counted'
    <2>1. UNCHANGED <<calls, made>> /\ job[p].pc = "reserved"
      BY <1>3 DEF Fence, runVars
    <2>2. CASE job' = [job EXCEPT ![p] = [job[p] EXCEPT !.pc = "calling"]]
      <3>1. [job[p] EXCEPT !.pc = "calling"].run = job[p].run
        BY JobTypes DEF Job
      <3>2. QED BY <1>1, <2>1, <2>2, <3>1
    <2>3. CASE job' = [job EXCEPT ![p] = [job[p] EXCEPT !.pc = "returned", !.out = "error"]]
      <3>1. [job[p] EXCEPT !.pc = "returned", !.out = "error"].pc = "returned"
        BY JobTypes DEF Job
      <3>2. QED BY <1>1, <2>1, <2>3, <3>1
    <2>4. QED BY <1>3, <2>2, <2>3 DEF Fence, TypeOK
  <1>4. ASSUME NEW p \in Thread, Call(p) PROVE Counted'
    <2> DEFINE r == job[p].run
    <2>1. PICK out \in Outcome :
            job' = [job EXCEPT ![p] = [job[p] EXCEPT !.pc = "returned", !.out = out]]
      BY <1>4 DEF Call, TypeOK
    <2>2. [job[p] EXCEPT !.pc = "returned", !.out = out].pc = "returned"
      BY JobTypes DEF Job
    <2>3. job'[p].pc = "returned" /\ \A q \in Thread \ {p} : job'[q] = job[q]
      BY <2>1, <2>2 DEF TypeOK
    <2>4. r \in Run /\ made[r] < calls[r] /\ \A q \in Thread \ {p} : job[q].run # r
      BY <1>4, RunAssumption DEF Call, Held, OnePlanner, Counted
    <2>5. /\ made'[r] = made[r] + 1 /\ \A q \in Run \ {r} : made'[q] = made[q]
          /\ calls' = calls
      BY <1>4, <2>4 DEF Call, runVars, TypeOK
    <2>6. made[r] \in Nat /\ calls[r] \in Nat
      BY <2>4 DEF TypeOK, MaxCalls
    <2>7. \A q \in Run : made'[q] <= calls'[q]
      BY <2>4, <2>5, <2>6 DEF Counted
    <2>8. ASSUME NEW q \in Thread, job'[q].pc \in {"reserved", "calling"}
          PROVE  made'[job'[q].run] < calls'[job'[q].run]
      BY <2>3, <2>4, <2>5, <2>8 DEF Held, Counted
    <2>9. QED BY <2>7, <2>8 DEF Counted
  <1>5. ASSUME NEW p \in Thread, job[p].pc = "returned", Repair(p) PROVE Counted'
    <2> DEFINE r == job[p].run
               x == [job[p] EXCEPT !.pc = "reserved", !.repairs = job[p].repairs - 1]
    <2>1. job' = [job EXCEPT ![p] = x] /\ made' = made
      BY <1>5 DEF Repair, TypeOK
    <2>2. x.run = r
      BY JobTypes DEF Job
    <2>3. job'[p].run = r /\ \A q \in Thread \ {p} : job'[q] = job[q]
      BY <2>1, <2>2 DEF TypeOK
    <2>4. r \in Run
      BY <1>5 DEF Held
    <2>5. calls'[r] = calls[r] + 1 /\ \A q \in Run \ {r} : calls'[q] = calls[q]
      BY <1>5, <2>4 DEF Repair, TypeOK
    <2>6. \A q \in Run : calls[q] \in Nat /\ made[q] \in Nat
      BY DEF TypeOK, MaxCalls
    <2>7. (\A q \in Run : made'[q] <= calls'[q]) /\ made'[r] < calls'[r]
      BY <2>1, <2>4, <2>5, <2>6 DEF Counted
    <2>8. ASSUME NEW q \in Thread, job'[q].pc \in {"reserved", "calling"}
          PROVE  made'[job'[q].run] < calls'[job'[q].run]
      <3>1. CASE q = p
        BY <2>3, <2>7, <3>1
      <3>2. CASE q # p
        <4>1. job[q].run \in Run \ {r} /\ made[job[q].run] < calls[job[q].run]
          BY <1>5, <2>3, <2>4, <2>8, <3>2, RunAssumption DEF Held, OnePlanner, Counted
        <4>2. QED BY <2>1, <2>3, <2>5, <3>2, <4>1
      <3>3. QED BY <3>1, <3>2
    <2>9. QED BY <2>7, <2>8 DEF Counted
  <1>6. ASSUME UNCHANGED <<calls, made, job>> PROVE Counted'
    BY <1>6 DEF Counted
  <1>7. ASSUME NEW p \in Thread, UNCHANGED <<calls, made>>, job' = [job EXCEPT ![p] = Idle]
        PROVE  Counted'
    BY <1>1, <1>7 DEF Idle
  <1>8. ASSUME NEW r \in Run, Retired(r) PROVE calls' = calls
    BY <1>8 DEF Retired, Stop
  <1>9. ASSUME NEW p \in Thread, job[p].pc = "returned",
               Discard(p) \/ Act(p) \/ Answer(p) \/ Escalate(p)
        PROVE  Counted'
    <2>1. job' = [job EXCEPT ![p] = Idle] /\ made' = made /\ job[p].run \in Run
      BY <1>9 DEF Discard, Act, Answer, Escalate, Return, Held
    <2>2. CASE Discard(p) \/ Act(p) \/ Answer(p)
      BY <1>7, <2>1, <2>2 DEF Discard, Act, Answer, runVars
    <2>3. CASE Escalate(p)
      BY <1>7, <1>8, <2>1, <2>3, WhoRetires
    <2>4. QED BY <1>9, <2>2, <2>3
  <1>10. ASSUME NEW p \in Thread, Crash(p) PROVE Counted'
    BY <1>7, <1>10 DEF Crash, runVars
  <1>11. ASSUME NEW r \in Run, Cancel(r) \/ \E p \in Thread : Retire(p, r) PROVE Counted'
    BY <1>6, <1>8, <1>11, WhoRetires
  <1>12. ASSUME NEW r \in Run, Create(r) \/ \E i \in 1..MaxSteps : TaskMoves(r, i) PROVE Counted'
    BY <1>6, <1>12 DEF Create, TaskMoves, runVars
  <1>13. CASE Tick \/ Control \/ UNCHANGED vars
    BY <1>6, <1>13 DEF Tick, Control, vars, runVars
  <1>14. QED
    BY <1>2, <1>3, <1>4, <1>5, <1>9, <1>10, <1>11, <1>12, <1>13 DEF Next, Coordinate, Plan, Commit

(***************************************************************************)
(* What a run's tasks are at each of its stages: a run that waits has one   *)
(* task that may still move, a run that plans has none, and a run that      *)
(* ended can only still learn what an uncertain task did.                   *)
(***************************************************************************)

Story(r) ==
  /\ status[r] \in {"none", "pending"} => steps[r] = 0
  /\ \A i \in 1..MaxSteps : i > steps[r] => task[r][i] = "none"
  /\ status[r] = "planning" => Observed(r)
  /\ status[r] = "waiting_task" =>
       steps[r] > 0 /\ \A i \in 1..MaxSteps : i < steps[r] => task[r][i] = "succeeded"
  /\ status[r] \in TERMINAL =>
       /\ \A i \in 1..MaxSteps : task[r][i] \notin Unfinished
       /\ CurrentTask(r) = "uncertain" => status[r] = "uncertain"
  /\ status[r] = "succeeded" => steps[r] > 0 /\ Observed(r)

Stories == \A r \in Run : Story(r)

\* A run none of whose columns changed.
LEMMA SameStory ==
  ASSUME NEW r \in Run, Story(r),
         status'[r] = status[r], steps'[r] = steps[r], task'[r] = task[r]
  PROVE  Story(r)'
  BY DEF Story, Observed, CurrentTask

\* In a run with work ahead, only the current task can be unfinished.
LEMMA OneOpen ==
  ASSUME TypeOK, NEW r \in Run, Story(r), status[r] \in ACTIVE,
         NEW i \in 1..MaxSteps, i # steps[r]
  PROVE  task[r][i] \notin Unfinished
  <1>1. steps[r] \in 0..MaxSteps
    BY DEF TypeOK
  <1>2. CASE i > steps[r]
    BY <1>2 DEF Story, Unfinished
  <1>3. CASE i < steps[r]
    BY <1>1, <1>3, RunAssumption DEF Story, Observed, ACTIVE, Unfinished
  <1>4. QED BY <1>1, <1>2, <1>3, RunAssumption

LEMMA StoryOfStop ==
  ASSUME TypeOK, Stories, NEW r \in Run, Retired(r)
  PROVE  Stories'
  <1> USE RunAssumption
  <1>1. PICK verdict \in {"cancelled", "escalated"} : Stop(r, verdict)
    BY DEF Retired
  <1>2. /\ status'[r] \in {"uncertain", verdict}
        /\ \A q \in Run \ {r} : status'[q] = status[q] /\ task'[q] = task[q]
        /\ \A i \in 1..MaxSteps : i # steps[r] => task'[r][i] = task[r][i]
        /\ steps[r] > 0 => /\ task'[r][steps[r]] \notin Unfinished
                           /\ task'[r][steps[r]] = "uncertain" => status'[r] = "uncertain"
        /\ steps' = steps
    BY <1>1, StopDoes
  <1>3. status[r] \in ACTIVE /\ Story(r) /\ steps[r] \in 0..MaxSteps
    BY DEF Retired, Stories, TypeOK
  <1>4. \A i \in 1..MaxSteps : task'[r][i] \notin Unfinished
    BY <1>2, <1>3, OneOpen
  <1>5. \A i \in 1..MaxSteps : i > steps[r] => task'[r][i] = "none"
    BY <1>2, <1>3 DEF Story
  <1>6. CurrentTask(r)' = "uncertain" => status'[r] = "uncertain"
    BY <1>2, <1>3 DEF CurrentTask
  <1>7. Story(r)'
    BY <1>2, <1>4, <1>5, <1>6 DEF Story
  <1>8. \A q \in Run \ {r} : Story(q)'
    BY <1>2, SameStory DEF Stories
  <1>9. QED BY <1>7, <1>8 DEF Stories

LEMMA StoryStep == TypeOK /\ Held /\ Stories /\ [Next]_vars => Stories'
  <1> SUFFICES ASSUME TypeOK, Held, Stories, [Next]_vars PROVE Stories'
    OBVIOUS
  <1> USE RunAssumption
  <1>0. ASSUME UNCHANGED <<status, steps, task>> PROVE Stories'
    BY <1>0, SameStory DEF Stories
  <1>1. ASSUME NEW r \in Run, Create(r) PROVE Stories'
    <2>1. /\ status[r] = "none" /\ status'[r] = "pending"
          /\ steps' = steps /\ task' = task
          /\ \A q \in Run \ {r} : status'[q] = status[q]
      BY <1>1 DEF Create, TypeOK
    <2>2. Story(r)'
      BY <2>1 DEF Stories, Story, TERMINAL
    <2>3. QED BY <2>1, <2>2, SameStory DEF Stories
  <1>2. ASSUME NEW r \in Run, Cancel(r) \/ \E p \in Thread : Retire(p, r) PROVE Stories'
    BY <1>2, WhoRetires, StoryOfStop
  <1>3. ASSUME NEW p \in Thread, job[p].pc = "returned", Escalate(p) PROVE Stories'
    BY <1>3, WhoRetires, StoryOfStop DEF Held
  <1>4. ASSUME NEW r \in Run, NEW p \in Thread, Reserve(p, r) PROVE Stories'
    <2>1. /\ status'[r] = "planning" /\ Observed(r)
          /\ steps' = steps /\ task' = task
          /\ \A q \in Run \ {r} : status'[q] = status[q]
      BY <1>4 DEF Reserve, TypeOK
    <2>2. Story(r)'
      BY <2>1 DEF Stories, Story, TERMINAL, Observed
    <2>3. QED BY <2>1, <2>2, SameStory DEF Stories
  <1>5. ASSUME NEW p \in Thread, job[p].pc = "returned", Act(p) PROVE Stories'
    <2>0. PICK r \in Run : r = job[p].run
      BY <1>5 DEF Held
    <2>1. status[r] = "planning" /\ Observed(r) /\ steps[r] < MaxSteps
          /\ steps[r] \in 0..MaxSteps
      BY <1>5, <2>0 DEF Act, Accepted, Holds, MayAct, TypeOK
    <2>2. /\ status'[r] = "waiting_task" /\ steps'[r] = steps[r] + 1
          /\ task'[r] = [task[r] EXCEPT ![steps[r] + 1] = "open"]
          /\ \A q \in Run \ {r} : /\ status'[q] = status[q] /\ steps'[q] = steps[q]
                                  /\ task'[q] = task[q]
      BY <1>5, <2>0, <2>1 DEF Act, TypeOK
    <2>3. \A i \in 1..MaxSteps : i # steps[r] + 1 => task'[r][i] = task[r][i]
      BY <2>1, <2>2 DEF TypeOK
    <2>4. \A i \in 1..MaxSteps : i > steps'[r] => task'[r][i] = "none"
      BY <2>1, <2>2, <2>3 DEF Stories, Story
    <2>5. \A i \in 1..MaxSteps : i < steps'[r] => task'[r][i] = "succeeded"
      BY <2>1, <2>2, <2>3 DEF Observed
    <2>6. Story(r)'
      BY <2>1, <2>2, <2>4, <2>5 DEF Story, TERMINAL
    <2>7. QED BY <2>2, <2>6, SameStory DEF Stories
  <1>6. ASSUME NEW p \in Thread, job[p].pc = "returned", Answer(p) PROVE Stories'
    <2>0. PICK r \in Run : r = job[p].run
      BY <1>6 DEF Held
    <2>1. status[r] = "planning" /\ Observed(r) /\ steps[r] \in 0..MaxSteps
      BY <1>6, <2>0 DEF Answer, Accepted, Holds, TypeOK
    <2>2. /\ status'[r] \in {"needs_input", "succeeded"}
          /\ status'[r] = "succeeded" => steps[r] > 0
          /\ steps' = steps /\ task' = task
          /\ \A q \in Run \ {r} : status'[q] = status[q]
      BY <1>6, <2>0, <2>1 DEF Answer, MayAnswer, TypeOK
    <2>3. \A i \in 1..MaxSteps : task[r][i] \in {"none", "succeeded"}
      BY <2>1 DEF Stories, Story, Observed
    <2>4. Story(r)'
      BY <2>1, <2>2, <2>3 DEF Stories, Story, Observed, CurrentTask, Unfinished
    <2>5. QED BY <2>2, <2>4, SameStory DEF Stories
  <1>7. ASSUME NEW r \in Run, NEW i \in 1..MaxSteps, TaskMoves(r, i) PROVE Stories'
    <2>1. PICK next \in TaskStatus :
            /\ \/ task[r][i] = "open" /\ next = "running" /\ Waits(r, i)
               \/ task[r][i] = "open" /\ next \in {"failed", "cancelled"}
               \/ task[r][i] = "running" /\ next \in {"succeeded", "failed", "uncertain"}
               \/ task[r][i] = "uncertain" /\ next \in {"succeeded", "failed"}
            /\ task' = [task EXCEPT ![r][i] = next]
      BY <1>7 DEF TaskMoves
    <2>2. /\ status' = status /\ steps' = steps
          /\ task'[r][i] = next
          /\ \A j \in 1..MaxSteps : j # i => task'[r][j] = task[r][j]
          /\ \A q \in Run \ {r} : task'[q] = task[q]
      BY <1>7, <2>1 DEF TaskMoves, runVars, TypeOK
    <2>3. task[r][i] \in {"open", "running", "uncertain"} /\ steps[r] \in 0..MaxSteps /\ Story(r)
      BY <2>1 DEF TypeOK, Stories
    <2>4. i <= steps[r]
      BY <2>3 DEF Story
    <2>5. status[r] \notin {"none", "pending", "planning", "succeeded"}
      BY <2>3, <2>4 DEF Story, Observed
    <2>6. \A j \in 1..MaxSteps : j > steps[r] => task'[r][j] = "none"
      BY <2>2, <2>3, <2>4 DEF Story
    <2>7. CASE status[r] = "waiting_task"
      <3>1. i = steps[r]
        BY <2>3, <2>4, <2>7 DEF Story
      <3>2. \A j \in 1..MaxSteps : j < steps[r] => task'[r][j] = "succeeded"
        BY <2>2, <2>3, <2>7, <3>1 DEF Story
      <3>3. Story(r)'
        BY <2>2, <2>3, <2>6, <2>7, <3>2 DEF Story, TERMINAL
      <3>4. QED BY <2>2, <3>3, SameStory DEF Stories
    <2>8. CASE status[r] \in TERMINAL
      <3>1. task[r][i] = "uncertain" /\ next \in {"succeeded", "failed"}
        BY <2>1, <2>3, <2>8 DEF Story, Unfinished
      <3>2. \A j \in 1..MaxSteps : task'[r][j] \notin Unfinished
        BY <2>2, <2>3, <2>8, <3>1 DEF Story, Unfinished
      <3>3. CurrentTask(r)' = "uncertain" => status'[r] = "uncertain"
        BY <2>2, <2>3, <2>8, <3>1 DEF Story, CurrentTask
      <3>4. Story(r)'
        BY <2>2, <2>5, <2>6, <2>8, <3>2, <3>3 DEF Story, TERMINAL
      <3>5. QED BY <2>2, <3>4, SameStory DEF Stories
    <2>9. QED BY <2>5, <2>7, <2>8 DEF TypeOK, ACTIVE
  <1>8. ASSUME NEW p \in Thread, Fence(p) \/ Call(p) \/ Discard(p) \/ Repair(p) \/ Crash(p)
        PROVE  Stories'
    BY <1>0, <1>8 DEF Fence, Call, Discard, Repair, Crash, runVars
  <1>9. CASE Tick \/ Control \/ UNCHANGED vars
    BY <1>0, <1>9 DEF Tick, Control, vars, runVars
  <1>10. QED
    BY <1>1, <1>2, <1>3, <1>4, <1>5, <1>6, <1>7, <1>8, <1>9 DEF Next, Coordinate, Plan, Commit

(***************************************************************************)
(* The theorems.                                                            *)
(***************************************************************************)

IInv == TypeOK /\ Held /\ Counted /\ Stories

LEMMA Invariance == Spec => []IInv
  <1>1. Init => IInv
    <2> SUFFICES ASSUME Init PROVE IInv
      OBVIOUS
    <2>1. TypeOK /\ Held
      BY HeldAtFirst
    <2>2. Counted
      BY DEF Init, Counted, Idle
    <2>3. Stories
      BY RunAssumption DEF Init, Stories, Story, TERMINAL
    <2>4. QED BY <2>1, <2>2, <2>3 DEF IInv
  <1>2. IInv /\ [Next]_vars => IInv'
    BY TypeStep, HeldStep, CountedStep, StoryStep DEF IInv
  <1>3. QED BY <1>1, <1>2, PTL DEF Spec

\* Every column and every thread's memory keeps its domain.
THEOREM TypesHold == Spec => []TypeOK
  <1>1. IInv => TypeOK
    BY DEF IInv
  <1>2. QED BY <1>1, Invariance, PTL

\* agent_loop.py:1-7, _reserve and _repair: whatever lapses, dies or is repaired, the
\* provider receives no more calls than were reserved, nor a run more than its budget.
THEOREM BudgetHolds == Spec => []WithinBudget
  <1>1. IInv => WithinBudget
    <2> SUFFICES ASSUME IInv, NEW r \in Run PROVE made[r] <= calls[r] /\ calls[r] <= MaxCalls
      BY DEF WithinBudget
    <2>1. made[r] <= calls[r] /\ calls[r] \in 0..MaxCalls
      BY DEF IInv, Counted, TypeOK
    <2>2. QED BY <2>1, RunAssumption DEF MaxCalls
  <1>2. QED BY <1>1, Invariance, PTL

\* _reserve: the SQL claim keeps a second planner off a run, for ever.
THEOREM NeverTwoPlanners == Spec => []OnePlanner
  <1>1. IInv => OnePlanner
    BY DEF IInv, Held
  <1>2. QED BY <1>1, Invariance, PTL

\* Invariance says these of every run.
LEMMA EndingsAreHonest == IInv => GroundedAnswer /\ NothingLeftBehind /\ DoubtIsTold
  BY DEF IInv, Stories, Story, GroundedAnswer, NothingLeftBehind, DoubtIsTold

\* _observations and _decision: an answer rests on the results of tasks that succeeded, of which
\* none is in doubt, whatever was stopped, lapsed or came late.
THEOREM AnswersAreGrounded == Spec => []GroundedAnswer
  BY EndingsAreHonest, Invariance, PTL

\* _stop and engine.cancel: a run that ended left no task that may still act.
THEOREM NothingIsLeft == Spec => []NothingLeftBehind
  BY EndingsAreHonest, Invariance, PTL

\* _stop: the verdict of a run whose last task is in doubt says so.
THEOREM DoubtsAreTold == Spec => []DoubtIsTold
  BY EndingsAreHonest, Invariance, PTL

\* _commit: nothing changes the verdict of a run that ended, or gives it another task.
THEOREM VerdictsStand == Spec => EndedStaysEnded
  <1> DEFINE Stands == \A r \in Run : status[r] \in TERMINAL =>
                         status'[r] = status[r] /\ steps'[r] = steps[r]
  <1>1. IInv /\ [Next]_vars => Stands
    <2> SUFFICES ASSUME IInv, [Next]_vars PROVE Stands
      OBVIOUS
    <2>1. TypeOK /\ Held
      BY DEF IInv
    <2>2. ASSUME NEW q \in Run, status[q] \notin TERMINAL,
                 \A r \in Run \ {q} : status'[r] = status[r] /\ steps'[r] = steps[r]
          PROVE  Stands
      BY <2>2
    <2>3. ASSUME NEW r \in Run, Retired(r) PROVE Stands
      <3>1. PICK verdict \in {"cancelled", "escalated"} : Stop(r, verdict)
        BY <2>3 DEF Retired
      <3>2. (\A q \in Run \ {r} : status'[q] = status[q]) /\ steps' = steps
        BY <2>1, <3>1, StopDoes
      <3>3. status[r] \notin TERMINAL
        BY <2>3 DEF Retired, ACTIVE, TERMINAL
      <3>4. QED BY <2>2, <3>2, <3>3
    <2>4. ASSUME NEW r \in Run, Create(r) \/ \E p \in Thread : Reserve(p, r) PROVE Stands
      BY <2>1, <2>2, <2>4 DEF Create, Reserve, Look, ACTIVE, TERMINAL, TypeOK
    <2>5. ASSUME NEW p \in Thread, job[p].pc = "returned", Act(p) \/ Answer(p) PROVE Stands
      <3>1. job[p].run \in Run /\ status[job[p].run] = "planning"
        BY <2>1, <2>5 DEF Held, Act, Answer, Accepted, Holds
      <3>2. QED BY <2>1, <2>2, <2>5, <3>1 DEF Act, Answer, TERMINAL, TypeOK
    <2>6. ASSUME NEW p \in Thread, job[p].pc = "returned", Escalate(p) PROVE Stands
      BY <2>1, <2>3, <2>6, WhoRetires DEF Held
    <2>7. ASSUME NEW r \in Run, Cancel(r) \/ \E p \in Thread : Retire(p, r) PROVE Stands
      BY <2>3, <2>7, WhoRetires
    <2>8. ASSUME UNCHANGED <<status, steps>> PROVE Stands
      BY <2>8
    <2>9. ASSUME NEW p \in Thread, Fence(p) \/ Call(p) \/ Discard(p) \/ Repair(p) \/ Crash(p)
          PROVE  Stands
      BY <2>8, <2>9 DEF Fence, Call, Discard, Repair, Crash, runVars
    <2>10. ASSUME NEW r \in Run, \E i \in 1..MaxSteps : TaskMoves(r, i) PROVE Stands
      BY <2>8, <2>10 DEF TaskMoves, runVars
    <2>11. CASE Tick \/ Control \/ UNCHANGED vars
      BY <2>8, <2>11 DEF Tick, Control, vars, runVars
    <2> HIDE DEF Stands
    <2>12. QED
      BY <2>4, <2>5, <2>6, <2>7, <2>9, <2>10, <2>11 DEF Next, Coordinate, Plan, Commit
  <1>2. QED BY <1>1, Invariance, PTL DEF Spec, EndedStaysEnded
=============================================================================
