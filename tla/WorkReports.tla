---------------------------- MODULE WorkReports ----------------------------
(***************************************************************************)
(* Who works: people in workforce.py, agents in oversight.py.               *)
(***************************************************************************)
EXTENDS Registers

(***************************************************************************)
(* Attendance, shifts and workload reported from a register                     *)
(* (platform_runtime/workforce.py).  A row is [who, status, hours, due]: who 0    *)
(* and status "" are blank cells, due a day.  An entry declares which statuses      *)
(* mean absent, done and open.                                                       *)
(***************************************************************************)

\* attendance: who is absent; a status nobody declared counts as present, and is named.
Attendance(rows, entry, limit) ==
  LET Kept(row) == row.who # 0 /\ row.status # ""
      Absent(row) == Kept(row) /\ row.status \in entry.absent
      Present(row) == Kept(row) /\ ~Absent(row)
  IN [absent |-> ShownRows(SelectSeq(rows, Absent), limit),
      absentCount |-> Count(rows, Absent), present |-> Count(rows, Present),
      unknown |-> {row.status : row \in {r \in ToSet(rows) : Present(r)}} \ (entry.done \union entry.open),
      skipped |-> Count(rows, LAMBDA row: ~Kept(row)),
      truncated |-> Truncated(SelectSeq(rows, Absent), limit)]

\* shifts: the named rows up to the limit, at which the scan stops.
Shifts(rows, limit) ==
  LET Named(row) == row.who # 0
      Before(n) == Count(SubSeq(rows, 1, n), Named)
      cut == {n \in DOMAIN rows : Named(rows[n]) /\ Before(n - 1) >= limit}
      seen == IF cut = {} THEN rows ELSE SubSeq(rows, 1, (CHOOSE n \in cut : \A k \in cut : n <= k) - 1)
  IN [shifts |-> SelectSeq(seen, Named), truncated |-> cut # {},
      unreadable |-> Count(seen, LAMBDA row: Named(row) /\ ~IsNumber(row.hours)),
      skipped |-> Count(seen, LAMBDA row: ~Named(row))]

\* workload: done statuses decide when any is declared, else open ones, else all is open.
IsOpen(row, entry) ==
  IF row.status # "" /\ entry.done # {} THEN row.status \notin entry.done
  ELSE row.status = "" \/ entry.open = {} \/ row.status \in entry.open
IsOverdue(row, entry, today) == IsOpen(row, entry) /\ IsNumber(row.due) /\ Number(row.due) < today

Workload(rows, entry, today, limit) ==
  LET Named(row) == row.who # 0
      OfPerson(p) == SelectSeq(rows, LAMBDA row: row.who = p)
      person == {[id |-> p, open |-> Count(OfPerson(p), LAMBDA row: IsOpen(row, entry)),
                  overdue |-> Count(OfPerson(p), LAMBDA row: IsOverdue(row, entry, today))]
                 : p \in {row.who : row \in ToSet(rows)} \ {0}}
      Worse(p, q) == \/ p.overdue > q.overdue
                     \/ p.overdue = q.overdue /\ p.open > q.open
                     \/ p.overdue = q.overdue /\ p.open = q.open /\ p.id < q.id
  IN [people |-> Top(person, Worse, limit), truncated |-> Cardinality(person) > limit,
      openCount |-> Count(rows, LAMBDA row: Named(row) /\ IsOpen(row, entry)),
      overdueCount |-> Count(rows, LAMBDA row: Named(row) /\ IsOverdue(row, entry, today)),
      unparsable |-> Count(rows, LAMBDA row: Named(row) /\ IsOpen(row, entry) /\ IsJunk(row.due)),
      skipped |-> Count(rows, LAMBDA row: ~Named(row))]

-----------------------------------------------------------------------------
(***************************************************************************)
(* What a manager sees of an agent (platform_runtime/oversight.py): reports over   *)
(* the engine's own tables.  Tasks, runs, events and reservations are sets of records,  *)
(* each with the time it was made; a record of a task or a run names its agent.         *)
(***************************************************************************)

\* _known: the agent is declared; where the tenant declares none, any name is taken.
KnownAgent(declared, agent) == declared = {} \/ agent \in declared

MadeBy(rows, agent, since) == {row \in rows : row.agent = agent /\ row.at >= since}
ByStatus(rows) ==
  [st \in {row.status : row \in rows} |-> Cardinality({row \in rows : row.status = st})]
Newest(rows) == SetToSortSeq(rows, LAMBDA a, b: a.at > b.at \/ (a.at = b.at /\ a.id > b.id))

\* activity: statuses of what was made since, and the newest events, one more being looked for
\* than is shown; the last activity is of all time.
Activity(tasks, runs, events, agent, since, limit) ==
  LET newest == Newest(MadeBy(events, agent, since))
  IN [tasks |-> ByStatus(MadeBy(tasks, agent, since)), runs |-> ByStatus(MadeBy(runs, agent, since)),
      events |-> SubSeq(newest, 1, IF Len(newest) <= limit THEN Len(newest) ELSE limit),
      truncated |-> Len(newest) > limit,
      last |-> {row.updated : row \in {r \in runs : r.agent = agent
                                        /\ \A o \in runs : o.agent = agent => o.updated <= r.updated}}]

\* cost: the ledger holds no agent; the runs are the agent's, the money is the tenant's.
HeldStatuses == {"reserved", "dispatching", "uncertain", "unreconciled"}
AgentCost(runs, reservations, spent, agent, since) ==
  LET mine == MadeBy(runs, agent, since)
      ledger == {row \in reservations : row.at >= since}
  IN [runs |-> Cardinality(mine), calls |-> MapThenSumSet(LAMBDA run: run.calls, mine), tenantSpent |-> spent,
      byStatus |-> [st \in {row.status : row \in ledger} |->
                      MapThenSumSet(LAMBDA row: row.amount, {row \in ledger : row.status = st})],
      inflight |-> MapThenSumSet(LAMBDA row: row.amount, {row \in ledger : row.status \in HeldStatuses})]

\* health: rates over the runs that ended; what is still expected of the agent and of people.
EndedRuns == {"succeeded", "needs_input", "escalated", "uncertain", "cancelled"}
Health(tasks, runs, approvals, agent, stopped, budget) ==
  LET mine == {run \in runs : run.agent = agent}
      finished == {run \in mine : run.status \in EndedRuns}
      newest == SetToSortSeq(mine, LAMBDA a, b: a.updated > b.updated \/ (a.updated = b.updated /\ a.id > b.id))
  IN [last |-> SubSeq(newest, 1, IF newest = << >> THEN 0 ELSE 1), byStatus |-> ByStatus(mine),
      finished |-> Cardinality(finished),
      failed |-> Cardinality({run \in finished : run.status \in {"escalated", "uncertain"}}),
      hasRate |-> finished # {},
      pendingTasks |-> Cardinality({t \in tasks : t.agent = agent
                                     /\ t.status \in {"queued", "waiting_approval", "running"}}),
      pendingApprovals |-> Cardinality({a \in approvals : a.agent = agent /\ a.status = "pending"}),
      stopped |-> stopped, notRecorded |-> IF budget THEN {} ELSE {"budget"}]
=============================================================================
