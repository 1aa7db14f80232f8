# A verification project for agentic-works

This directory holds TLA+ models of the agentic-works runtime
(`src/api-python/platform_runtime`, `src/api-python/app`, `src/apps/runner`), TLC
configurations that model-check them on small instances, and TLAPS proofs of the
properties that matter most for every size of the system. Paths below are
relative to the repository (`src/`).

    tlc -workers 2 -config TaskEngine_plan.cfg MCTaskEngine.tla
    tlapm TaskEnginePromises.tla

## 1. The system

A tenant describes its agents in a *pack* (tools, autonomy, approval policy).
Customers write on chat channels, members work on a dashboard, cron fires
schedules; all of it becomes rows in one SQLite database, and one or more worker
processes turn the rows into calls to outside providers. Every transaction is
`BEGIN IMMEDIATE` (engine.py:336), so transactions are serial; everything hard
happens between two of them. No provider is called inside a transaction.

| Component | State it keeps | Operations | Hard behaviour |
|---|---|---|---|
| Task engine (`engine.py`) | `p_tasks`, `p_steps` (status, claim token, lease), `p_approvals`, `p_freeze`, `p_devices` | submit, operator_reply, approve, claim, dispatch_allowed, finish, tick, cancel, reconcile, freeze, device | several workers and runners; a crash or a lapsed lease with an external effect in flight; control operations racing with a claim; approvals that expire or whose signer loses the role |
| Runner gateway and runner (`platform_api.py:379`, `runner.js`) | device generation, socket session, the runner's journal | connect, heartbeat (check, then claim), result | session rotated between check and claim; reconnects |
| Cloud worker (`worker.py`) | threads, planner pool, in-flight calls | main loop, drain, pump | one stage failing, model calls on a bounded pool |
| Inbox (`engine.py:871-971`) | `p_events` (status, claim, lease), `p_quota` | accept_event, claim_event, settle_event, retry_event | a plan slower than its lease; a crash between submit and record; failure and retry |
| Schedules (`engine.py:973-1002`) | `p_schedules`, `p_schedule_owners` | schedule, run_schedules | reads apart from the writes that use them |
| Agent runs (`agent_loop.py`) | `p_agent_runs` (status, calls, claim, lease, deadline), `p_agent_turns` | create, reserve, plan, commit, repair, stop, cancel | a late planner, a spent budget, a freeze during planning, the task it waits for |
| Conversations (`conversation.py`, `operator_reply.py`) | `p_conversation_turns`, takeovers | record_turn, tick (close, deliver, settle, open), take_over, release, resolve | one turn at a time per sender; a person taking over while a reply is being delivered |
| Reconcilers (`google_reconcile.py`, `crm/crm_reconcile.py`) | none of their own; step rows, the Google dispatch journal | reconcile, reconcile_step | a look-up outside the transaction that settles |
| Model calls (`usage_budget.py`, `model_transport.py`, planner pool) | reservations, slots, spend | reserve, dispatch, retry, settle, reconcile, lapse | parallel limit, a charge nobody learned of, more threads than slots |
| OAuth (`oauth.py`) | states, tokens, revocation queue | begin, callback, exchange, refresh, store, revoke, drain, recover | single use, concurrent refresh, a refresh whose answer is lost |
| Sync store, Google sync (`sync_store.py`, `google_sync.py`) | cursors, leases, records | claim, page, commit, release, reset | a source that changes while it is walked, two syncers |
| ERP posting (`erp.py`) | the ledger of postings | search, reserve, post, record, recover, reconcile | an answer that never came; the same invoice posted twice |
| Coordinators (`reengagement.py`, `briefing.py`, `escalation.py`) | leads, digests, notices, each with a claim | tick, claim, assemble, deliver, mark, settle | a death between a send and its mark; two tickers |
| Documents (`documents.py`) | parsed invoices, configuration | parse, match, duplicates, posting plan | a history of bounded length, figures read twice |
| WhatsApp (`whatsapp.py`, `whatsapp_inbound.py`) | the 24-hour window's sheet, numbers | route, verify, accept, acknowledge; gate, send | an acknowledgement for what was not kept; a window that closes meanwhile |
| CRM gateway (`crm/`) | connection, approvals by fingerprint | plan, approve, write | a connection moved after the approval |
| First-generation API (`app/pipeline.py`, `approvals.py`, `tools.py`, `ladder.py`) | requests, orders, mirror file, ladder | message, decide, tool, mirror | a process that dies between two statements |
| Supervisor (`supervisor.py`) | grants, ledger of delegations | declare, route | a count read before what it counts is written |
| Reports (`oee.py`, `workforce.py`, `inventory.py`, ...) | their configuration rows | pure readings of registers | rows that are left out and must be told |
| Database gateway (`database/`) | `p_database_dispatch` | dispatch | one statement at most once |
| Directory (`identity_store.py`, `runtime_authority.py`) | users, memberships, invitations, sessions | invite, accept, revoke, sign in, rotate, log out; authority re-check inside each transaction | a token presented late; a role lost between two steps |

`PROJECT.json` lists every component with its status, and the hazards of this
code at the line where each one bites.

### What makes each component correct

* **Engine**: a step acts at most once; a gated step never acts without its own
  approval by somebody who may give it; plans run in order; a row never claims to
  know what nobody knows; the kill switch leaves no claim alive; no claim lives
  for ever; a blocked task does not hold up the others.
* **Inbox**: an event has one outcome, whoever plans it and however often.
* **Agent runs**: never more planner calls than the budget, no decision
  committed after the run was stopped, no retry of a call that may have happened.
* **Conversations**: one open run per sender, one reply per turn, none after a
  person took over.
* **Reconciliation, budget, OAuth, ERP, sync**: one settlement per doubt, one
  use per state, one post per document, in spite of crashes and repeats.
* **Identity**: who was revoked, or whose token was replaced, is out at once.
* **Coordinators and schedules**: what is due comes round, once.
* **Gateways and channels**: what was written is what was approved, for the host it
  was approved for; what was acknowledged is kept.
* **Reports**: what a reading leaves out is told in the reading.

## 2. Plan

Done, in this order:

1. `TaskEngine`, `StepLedger`, `TaskEngineLedger`: the engine and what it
   promises; `TaskEngineProofs`, `TaskEngineSafety`, `TaskEnginePromises`: its
   theorems.
2. `Inbox`, `InboxProofs`: events, leases, planners that race, with and without the
   assumption that a plan ends before its lease.
3. `Reconcilers`: composes with `TaskEngine`, whose rows the Google and the CRM
   reconcilers also write; `ReconcilersProofs`.
4. `AgentRun`, `AgentRunProofs`: reservation, budget, lease, repair, retirement.
5. The services of section 7: `ModelCalls`, `Conversation`, `Outreach`, `Escalation`,
   `Briefing`, `Schedules`, `WhatsAppHook`, `WhatsAppWindow`, `ErpPosting`,
   `OAuthConnection`, `Documents`, `Inventory`, `CrmGateway`, `DatabaseGateway`,
   `FirstOrders`, `GoogleSync`, `Identity`, `Supervisor`, composed for TLC by
   `MCServices` and `MCLoops`; `ServiceProofs` for eleven of them, `CustomerProofs` for the
   four that face the customer, and `ModelCalls` in `InboxProofs`, beside the events it plans.
6. The pure code of section 8: `BusinessGraph`, `Registers`, `WorkReports`,
   `ProductionReports`, `PlantReports`, `Telephony`, `Connectors`, `Knowledge`, with `ReportChecks` and `GatewayChecks`.

Left:

7. Theorems about the pure code of section 8, whose operators are compared with direct
   definitions over small inputs; about `Briefing` and `Supervisor`, of which the runs
   check liveness and a disagreement only; and that the rows of a run in `AgentRun` are
   what `TaskEngine` assumes of them.
8. Liveness of conversations, re-engagement and the synchronisation; the walks
   of Gmail and the calendar; an abstract bounded loop that `AgentRun` implements.

## 3. The task engine

### Modules

* `TaskEngine` - the engine. One action is one transaction, or one step of a
  process between two transactions.
* `StepLedger` - abstract specification: a step is absent, open, held, done,
  dropped, doubtful or vouched for, and acts at most once while held, in doubt or
  vouched.
* `TaskEngineLedger` - the refinement mapping and `ImplementsLedger`.
* `MCTaskEngine` - the plans used by the TLC runs.
* `TaskEngineProofs` (types), `TaskEngineSafety` (the inductive invariant and what follows
  from it), `TaskEnginePromises` (the ledger and the approvals) - theorems.

### State and actions

`taskStatus`, `plan`, `creator`, `fingerprint`, `order` are `p_tasks` (order is
`created`, the queue order of `claim`); `stepStatus`, `claim`, `lease`,
`attempts` are `p_steps`; `approval`, `approver`, `expires` are `p_approvals`;
`frozen`, `device` are `p_freeze`, `p_devices`; `session[d]` says that the runner's
socket was opened with a token of the present generation; `parent[t]` is what the
linked agent run says of its task (`require_task_parent`); `role`, `suspended`,
`policy` are the directory and the pack, which change outside the engine; `job[p]`
is the memory of a worker or a runner, lost in a crash. `effects[s]` and
`reconciled` are history: what reached the outside world, and which steps an owner
vouched for.

| Action | Code |
|---|---|
| `Submit`, `SubmitForRun`, `OperatorReply` (through `Create`) | `submit`, `AgentLoop._commit`, `operator_reply` with `_create_task` |
| `Approve`, `Cancel`, `Reconcile`, `Freeze`, `Resume`, `ChangeDevice` | the methods of the same names |
| `RunDeadline`, `StopRun`, `RunAdvances` | the run's wall deadline, `AgentLoop._stop`, `_reserve` |
| `ClaimStep`, `ClaimNothing` (with `Lapsed`, `Candidates`, `Verdict`, `Record`) | `claim`, one transaction: lapsed leases become uncertain, every candidate before the claimed one gets its verdict |
| `Fence`, `Handler`, `FinishStep` | `tick`: `dispatch_allowed`, the handler, `finish` |
| `Connect`, `Heartbeat`, claim, `RunnerExecute`, `Result` | `platform_api.runner` and `runner.js` |
| `Crash` | a process that dies, a socket that drops, a result too large for `finish` |
| `Tick`, `ChangeRole`, `ChangeWorkspace`, `EditPolicy` | time and the rest of the system |

### Abstractions

* One tenant, one agent; a task slot is one idempotency key, so a replay (which
  returns the old task and writes nothing) is a stutter.
* A policy is a version; two versions differ in the keys the step fingerprint
  covers (the descriptive keys of engine.py:24 are not part of it), so
  `fingerprint[t] # policy` is "the fingerprint differs now".
* A handler succeeds (the effect happened), is rejected (`DeliveryRejected`, or
  an exception of a tool that is not an external write: no effect), or raises in
  doubt (an external write: the effect may or may not have happened).
* Time is what is left of a lease or an approval. `Tick` takes one tick off all
  of them, so leases and approvals lapse in every order the bounds allow.
* Conversation identity (`_operator_origin`) is not part of the state: known
  conversations stay known, so the verdict `conversation_unknown` is unreachable.
* The runner's journal and STOP file are not modelled: the runner may execute
  or die, and it executes a step it was handed once.
* The role claimed by a token is the role in the directory; the code checks both.

### Runs

| Run | Instance | Checks |
|---|---|---|
| `TaskEngine_plan` | 1 task of 2 steps (free write, approved write), 2 workers, 2 members, approval lives 2 ticks, 1 environment change (0.5 million states) | `InOrder`, `ImplementsLedger` |
| `TaskEngine_device` | 1 step, for a device or for the cloud, a runner and a worker, two policies of which one asks for independence, 1 environment change (1 million states) | `StoppedMeansStopped`, `DecisionReachable`, `IndependentApproval`, `ApprovedBeforeEffect` |
| `TaskEngine_queue` | 2 gated tasks, 1 worker, fairness | `TurnComes` |
| `TaskEngine_live` | 2 steps, 2 workers, fairness | `ClaimsEnd`, `WaitsEnd` |
| `TaskEngine_terminal` | as plan, 1 worker | violates `TerminalTaskIdle` |

Two workers are the least that can hold a stale claim beside a live one; two
steps the least that have an order; one tick of lease and two of approval let a
lease lapse before, with and after an approval; two members let a signer lose the
role while another keeps it. The claims carry the attempt number, so a stale
token is told apart from the present one for ever. `MaxChanges` bounds the
changes of role, workspace and policy: one is enough to invalidate each check
once.
The liveness runs make none, because a change only cancels obligations.

### Fairness

`Tick` is weakly fair: time passes. A worker is weakly fair in `Claim` and in what
follows a claim: `worker.main` calls `tick` for every tenant in every pass for as
long as the process lives, a failing stage is isolated (`run_stages`), and a
process that dies is started again and begins that loop. Nothing is assumed of
people, runners, runs or the environment, and a crash is possible at any point,
any number of times. `ClaimsEnd` therefore rests on lapsing leases, also under a
freeze: `claim` records them before it looks at the kill switch.

### What is proved

`TaskEngineProofs` proves `TypeCorrect`: `Spec => []TypeOK`. `TaskEngineSafety`
proves, for any number of tasks, steps, workers, devices, actors, policies and any
bounds that satisfy `EngineAssumption`:

* `ActsInOrder` (`InOrder`), `ActsWithApproval` (`ApprovedBeforeEffect`),
  `StopsAreStops` (`StoppedMeansStopped`) - invariants of the runs above;
* `ActsAtMostOnce` (`AtMostOneEffect`), `RowsAreHonest` (`HonestOutcome`),
  `TaskRowsAreFresh` (`TaskStatusFresh`), `OutcomesStay` (`OutcomesAreFinal`) - no run
  checks these four any more: the first, second and fourth follow from the ledger that
  the engine implements.

`TaskEnginePromises` proves, of the same specification:

* `EngineImplementsLedger` (`ImplementsLedger`) - every step of the engine is a step of
  `StepLedger`, or a stutter;
* `WaitingStepsCanBeDecided` (`DecisionReachable`);
* `IndependentUnlessEditedBack` and `IndependentOnOneEdit` (`IndependentApproval`).

None of the five about effects and rows is inductive. `Sound` strengthens them: `Rows` (what may be in a
row: only steps of the plan exist, a running row carries the claim of its last
attempt), `Once` (an effect, a held claim that may still act and a
startable step exclude one another; a process holds the claim it says it holds),
`Ordered` (a step beyond the first was ever attempted only after its predecessors
succeeded), `Authorised` (attempted and gated: the approval is consumed and
signed), `Truthful` (an outcome in memory is what happened). The proof splits the
steps of the system into four kinds, *Calm* (rows leave play or come into it,
nothing is granted), *Taken* (a claim), *Called* (an external call) and *Recorded*
(a finish); `FourKinds` shows that every action is of one of them, and each part
of `Sound` is shown to survive each kind. The parts were first checked with TLC as
invariants of the plan and device instances.

`StopsAreStops` rests on `Sound` and on one more lemma: of the four kinds only a
claim makes a step run (`NothingStarts`), the claim asks the kill switch and the device
in its own transaction (`ClaimStopped`), and a freeze or a revocation takes every
claim it stops back in its own (`FreezeStops`, `DeviceStops`).

The ledger is refined kind by kind: what a row becomes in a Calm, Taken, Called or
Recorded step is a move of the ledger for that step and a stutter for the others
(`Maps`, `Moves`). The mapping looks at history, so one more invariant is needed:
a row an owner vouched for is final (`VouchedIsSettled`), or a later doubt would be
shown as vouched.

`DecisionReachable` says of a step of an open task that waits for a person that it is a
candidate of its place, and that its approval is one `approve` takes (pending, not expired,
its run waiting) - or that the next claim of its place gives it a verdict that ends it.
It holds because every operation that writes a row or an approval leaves both, closes the
row with the approval, or decides it (`Decisions`), and because nothing before a
waiting step is in the way while the task is open. That rests on two facts about plans:
rows exist for steps of the plan alone (`RowsPlanned`), and the task of a run has one step
(`OneStepRuns`), so that an advance of the run closes all there is. The task must be open:
behind a sibling that was rejected or failed a waiting row is no candidate any more
(engine.py:730) and stays as it is, in a task whose own row says that it is over
(section 9).

`IndependentApproval` is not an invariant of the engine alone: a pack edited from an
independent policy to a lax one and back again brings the old fingerprint back, and an
approval that the creator gave meanwhile is fresh again. `FreshEdit` says that no edit
brings back a policy that a task is bound to; under it the property is proved for any
number of edits, and with one edit at most (`MaxChanges <= 1`, as in the run) it
needs no such assumption.

Only model-checked: liveness (`TurnComes`, `ClaimsEnd`, `WaitsEnd`).

## 4. The inbox

### Module, state and actions

`Inbox` models `accept_event` to `retry_event` (engine.py:871-971) for one channel.
`status`, `claim`, `lease`, `result` are `p_events` (`arrived` is the order of its
rows), `today` is `p_quota`, `task[e]` and `turn[e]` the rows of `p_tasks` and
`p_conversation_turns` under the event's key; `frozen`, `allowed` and `owned` (does
a conversation agent of the pack own the channel) change outside; `job[p]` is the
memory of a planner thread.

| Action | Code |
|---|---|
| `Accept`, `Retry` | `accept_event`, `retry_event` |
| `ClaimEvent` | `claim_event` with `next_event_sql` |
| `Look`, `Authorise`, `MakePlan`, `RecordTurn` or `SubmitPlan`, `Record` | `settle_event`, each its own transaction or the model call |
| `Deliver` | `ConversationTurns._deliver`, which submits a turn's reply under the event's key |
| `Crash`, `Tick`, `NewDay`, `Control` | a process that dies, time, the rest of the system |

A claim token is a uuid: `FreshToken` is one that no row and no planner holds. A
plan is a model value. `PlannerInTime` says that a planner finishes before its
lease lapses: the plan deadline is 100 s and the lease 120 s (app/llm.py:12-16), and
tests keep the two apart (runtime_tests/test_engine.py:44,
test_model_retry.py:293). A paused process can still break it: `Inbox_outcome` runs
in that world, and `DoneStays` is proved in both.

### Runs

| Run | Instance | Checks |
|---|---|---|
| `Inbox_settle` | 2 events, 2 planners, quota 1, 2 upsets, plans in time, fairness (353,000 states) | `OneOutcome`, `FailedIsUnanswered`, `EventsSettle` |
| `Inbox_outcome` | 1 event, 2 planners, leases may lapse at any point | violates `OneOutcome` |

Two planners are the least of which one can be late; `MaxUpsets` bounds deaths and
retries together, and two let an event fail, be retried and lose its planner. The
bound also stops a member from retrying an older event for ever,
which would keep a newer one waiting: rows are claimed in the order of arrival. A
quota of one with two events makes the refusal happen. Fairness: `worker.main`
claims in every pass and a thread that has an event goes on; `ClaimEvent` and
`Settling` are weakly fair per planner, and time passes.

### What is proved

`InboxProofs`, for any events, planners and bounds: `TypesHold` (with substance:
the ceilings hold, and there is always a fresh token, by counting) and
`DoneEventsStay`; and, assuming `PlannerInTime`, `EventsHaveOneOutcome` and
`FailedEventsMayBeRetried`. The inductive invariant says that a planner past its
claim still holds it, that what it has looked up is still true, and that an event
with an outcome is never back in the hands of a planner that has not seen it.
`EventsSettle` is only model-checked. Without `PlannerInTime` the last two do not
hold (disagreement 2 below).

## 5. The reconcilers

`Reconcilers` extends `TaskEngine`: every action of the engine stays, the handler of a
Google write is taken apart (`google_adapters.py`), and the two look-ups and settlements are
added.

`journal[s]` is the row of `p_google_dispatch`, written before the request in a
transaction that asks the claim, the binding, the authorities and the approval again
(`JournalDispatch`) and after it with what the adapter made of the answer
(`JournalAnswer`, only over `dispatching`). `box[s]` is what the Google account holds under the
event id or Message-ID that is derived from the step; the account belongs to
people, who edit, delete or copy the record (`Spoil`), and only a whole one is a match
(`GoogleMatch`). `renewed` are the dispatched steps whose connection was authorized anew
since (`Renew`): the generation in their row is not the connection's any more, and
`_load` refuses them. `evidence` holds the steps whose record a look-up found and
whose settlement has not run: the look-up has no transaction open, so everything may happen
between the two. `settled` is history. `GoogleLoad` is `_load`, asked again in the settling
transaction; the CRM settlement asks the step's status only. A CRM lead is matched by title
or else by phone, so here any one lead of the contact matches. The configuration hash
only refuses, as `Drop` does. No endpoint of the repository calls the CRM
reconciler; its tests do.

| Run | Instance | Checks |
|---|---|---|
| `Reconcilers_both` | a Google write and a CRM write, a task each, 1 worker, 1 member, no change of the pack (1.5 million states) | `JournalAgrees`, `TaskFollowsGoogle`, `SettledStaysSettled` |
| `Reconcilers_match` | 1 task that creates two leads for one contact, 2 members | violates `EvidenceIsOfThisStep` |

Two writes are the least where one may be taken for the other. The CRM settlement
writes the step and not its task (crm_reconcile.py:128, unlike google_reconcile.py:86),
so the task stays `uncertain` with no step in doubt; that is why `TaskFollowsGoogle`
speaks of the other tasks only.

`ReconcilersProofs` proves the three properties of the run for any plans, workers and
bounds: `JournalsAgree` (`JournalAgrees`), `GoogleTasksFollow`
(`TaskFollowsGoogle`), `SettledForGood` (`SettledStaysSettled`). `JournalAgrees` holds
because a request follows its journal row and no other path reaches Google, and because
whoever writes the engine's row of a Google write as succeeded has seen the journal
say so, in a row that never leaves that word. Every step of the
composition is a step beside the rows, which is one of the engine's four kinds, or a
`Settlement`, which moves one row from doubt to success (`FiveKinds`); so the engine's
lemmas about the kinds are used again, and only the settlement is new. `Settling` is
the engine's invariant with *honest* and *truthful* restricted to rows that neither an
owner nor a reconciler wrote (`HonestBut`, `TruthfulBut`), and with the evidence: what a
look-up found did happen, but for the CRM's. Two more theorems say what the second
writer costs: `ReconcilersKeepTheEngine` (at most one effect, with approval, in order,
as without it) and `OnlyCrmLookupsMislead` (a row that says what did not happen was settled
by an owner or by a CRM look-up).

## 6. Agent runs

### Module, state and actions

`AgentRun` models `agent_loop.py`. `status`, `steps`, `calls`, `claim`, `lease`,
`deadline` are `p_agent_runs`; `task[r][i]` is the status of the task of turn `i`,
which `TaskMoves` changes as the engine does (`TaskEngine` has the whole of it, and
sees the run through `require_task_parent`); `job[p]` is the memory of a planner
thread, `made` the history of calls the provider received.

| Action | Code |
|---|---|
| `Create`, `Cancel` | `create`, `cancel` |
| `Retire`, `Reserve` | `_reserve` of one run: one transaction that retires it, reserves a call, or does nothing |
| `Fence`, `Call` | `_planner_dispatch_allowed`, the provider |
| `Commit`: `Discard`, `Act`, `Answer`, `Repair`, `Escalate` | `_commit` with `_decision`, `_repair` and `_stop` |
| `Crash`, `Tick`, `Control`, `TaskMoves` | processes, time, kill switch and authority, the engine |

A decision is one of six outcomes: what `_commit` tells apart. A claim is the
number of the reserved call; a run that lapsed is never planned again, so the
number is as unique as the uuid of the code. That a repeated action is refused
and that the task queue may refuse a task are choices. `_candidates` orders the
runs by age and stops at 100; here any run may be looked at. A thread skips the
runs its own process is planning (`PlannerPool._held`).

### Runs

| Run | Instance | Checks |
|---|---|---|
| `AgentRun_loop` | 1 run of 2 steps, 2 processes of 2 threads, deadline 3 ticks, lease 1, fairness (beside the two loops of section 7, 157,000 states) | `WithinBudget`, `OnePlanner`, `NothingLeftBehind`, `DoubtIsTold`, `RunsEnd` |

Runs do not meet except at the ceiling of active runs, so one run under four
threads is where the races are; two steps give three calls, of which one can be a
repair. Leases of one tick lapse at every point of a call and a deadline of three
outlives two of them. Fairness: `Tick`; every thread that reserved a call goes on
(`Plan`), or dies; every idle thread looks at each active run again and again
(`Retire`): `worker.main` pumps the pool in every pass, as long as a thread has
room. `RunsEnd` needs the deadline to be asked before the kill switch, as it is.

### What is proved

`AgentRunProofs`, for any runs, processes, threads and bounds: `TypesHold`,
`BudgetHolds` (`WithinBudget`), `NeverTwoPlanners` (`OnePlanner`), `AnswersAreGrounded`
(`GroundedAnswer`), `NothingIsLeft` (`NothingLeftBehind`), `DoubtsAreTold`
(`DoubtIsTold`) and `VerdictsStand` (`EndedStaysEnded`). The invariant has three parts beside the types: `Held` (a
run in a thread's hands is still planning or has ended, and in no other thread's
hands), `Counted` (a thread on its way to the provider has a counted call that was
not made) and `Stories` (which tasks may be unfinished or in doubt at each stage of
a run). `GroundedAnswer`,
which a succeeded run's tasks keep because they never change, is checked by no run;
`RunsEnd` is only model-checked.

## 7. The other services

### Modules

Each module is one service with its own state; none of them shares a table with
another except through the task engine, which they see as "a task with this key is
there, and it ends one way or another". The rows of the database are named for their
tables in the module's head; the memory of a process between two transactions is a
variable of its own and is lost when the process dies.

| Module | Code | What can go wrong, and the property |
|---|---|---|
| `ModelCalls` | `usage_budget.py`, `model_transport.py`, the pool of `worker.py`: reserve, dispatch, answer, retry, settle, reconcile, lapse of slots, `PlannerPool.pump` | a charge that nobody learned of is released at zero (`LedgerHonest`); a pool asks for more calls than the budget's slots (`SlotRefusalsExplained`) |
| `Conversation` | `conversation.py`, `operator_reply.py`: record, open, run, close, deliver, settle, takeover, orders, handoffs | two turns of one chat at once or out of order (`TurnsInOrder`); a customer nobody answers and nobody was told of (`NobodyForgotten`) |
| `Outreach` | `reengagement.py`: feed, claim, run, mark, sync, exhaust | a lead closed for good is claimed again (`ClosedLeadsStayClosed`) |
| `Escalation` | `escalation.py`: read, claim, deliver, mark, settle | an item is reported twice, or marked sent unsent (`ToldOnceUnlessInterrupted`) |
| `Briefing` | `briefing.py`: due, claim of the day, assemble, deliver, mark, settle | one schedule keeps the others waiting (`DueDigestComes`) |
| `Schedules` | `schedule`, `run_schedules` of `engine.py` | a period is skipped (`PeriodsAreKept`), or a schedule is left due for ever (`DueScheduleRuns`) |
| `WhatsAppHook` | `whatsapp_api.py`, `whatsapp_inbound.py`: route, verify, accept, acknowledge | a message Meta will not send again is in no inbox (`AckedIsKept`) |
| `WhatsAppWindow` | `whatsapp.py`: the sources of the 24-hour window, the gate, the send | free text to a customer who did not write in time (`TextOnlyInsideWindow`) |
| `ErpPosting` | `erp.py`: search, reserve, post, record, recover, reconcile | an invoice posted twice (`PostedOnce`) |
| `OAuthConnection` | `oauth.py`: begin, callback, exchange, refresh, store, revoke, drain, recover | a token whose refresh ended in doubt, or that was given up, is used again (`ActiveTokenIsSound`) |
| `Documents` | `documents.py`: parse, match, history, plan | a duplicate is planned for payment (`DuplicatesAreHeld`) |
| `BusinessGraph`, `Inventory` | `business_graph.py`, `inventory.py`: merge by priority, catalogue read product by product | a catalogue called whole lacks what a source held (`ListedIsWhole`) |
| `CrmGateway` | `crm/`: plan, approve, write, the readers of requests and rows | a lead or a deal is written elsewhere than approved, or a note in other words (`WrittenAsApproved`) |
| `DatabaseGateway` | `database/`: contract, dispatch, eleven transports | a write lands on another's version or twice (`NothingOverwritten`) |
| `FirstOrders` | `app/` pipeline, limits, approvals, tools, ladder: a `/buy` to its order | a decision cut short loses or doubles the order (`ApprovedIsOrdered`) |
| `GoogleSync` | `google_sync.py`, `sync_store.py`: claim, page, commit, reset | the copy misses a change (`CopyIsCurrent`) |
| `Identity` | `identity_store.py`, `identity_api.py`: invitations, memberships, sign-in, rotation, logout | a token that was replaced, or a membership that was revoked, still opens the door (`AccessIsCurrent`) |
| `Supervisor` | `supervisor.py`: declare, route | disagreement 4 |

Choices of abstraction, and exceptions in the properties, that a reader should know:

* `ModelCalls` has a pool for each worker process: `room[p]` is what process `p` read and has
  not used up, `callAt[c].process` whose thread a call is on; the ledger is one. Two
  processes read the same room and do refuse each other, and an owner may lower
  `max_inflight` under a pool that has looked (`cut`): `SlotRefusalsExplained` says that a
  refusal has one of these reasons, or a slot that no running call stands behind, and so that
  a process alone keeps within the limit. `LedgerHonest` excepts what the head of
  `usage_budget.py` excepts (lines 10-13): an attempt answered with an HTTP error status
  (`Rejected`, kept in `masked`) is released at zero although the provider behind the gateway
  may have finished and charge.
* `WhatsAppWindow`: a row of the inbox says whether it is `named`. The webhook writes the
  number a message was sent to; `ingest` writes none, and `_window_from_events` skips a
  row only when its number is there and another. A row with none opens the
  window of every number, so `TextOnlyInsideWindow` asks Meta's window of the sending number when
  the newest row is named, and of some number otherwise.
* `CrmGateway`: `attach_call` and `attach_message` ask for no fingerprint. A note is bound to
  its words (`NoteBinding`) and goes wherever the connection points when it is sent;
  `WrittenAsApproved` promises no more of it than the words and an allowed host.

* `GoogleSync` walks the Drive. Gmail's history and the calendar's pages go through the
  same claim, commit and reset and are not written out.
* `WhatsAppHook` takes batches within the limits of `unwrap`; what the limits do is in
  the operator `Unwrapped` and in section 9.
* `Identity` is one workspace and people; a session number stands for its tokens, which
  may be presented at any time by whoever had them. Passwords and throttles are left
  out. No code disables a user or revokes an invitation, and the founder is the only
  owner there can be. `select_workspace` checks the access token in one transaction and
  makes the session in another, so a logout of everything in between leaves the new
  session; nothing in the repository promises otherwise.
* `Conversation` leaves out the words; a run ends with an answer, a failure or doubt.
* `DatabaseGateway` runs the Elasticsearch walk call by call, because it is the one
  that is not atomic; the other transports are one conditional statement each, as
  operators.
* `Documents`, `Inventory` and `Outreach` take the rows of their sources from small
  sets; a reading of a file or of a provider is a choice.

### The run `MCServices_all`

Sixteen of these services are checked in one run. `MCServices` extends the modules,
chooses the *subject* in the first step, lets only the subject's next-state relation
act, and tells states apart by the subject's variables (`ServicesView`), so the run is
the disjoint union of sixteen small instances (0.94 million states). An action
property or invariant of a module holds trivially in the others' behaviours.

Every service has the two actors its code allows where a race is possible (two
callers, tickers, posters, OAuth calls, clerks, syncers, steps), a death wherever a
process can die between two transactions, and one or two of everything
else: the least at which a second attempt can meet a first. Each bound in the
`.cfg` is named there and described at its `CONSTANT`. `ServicesBound` trims the
product of independent hazards: e.g. three turns of a chat are explored without an
operator's own message and two turns with it; one source of a catalogue is down at a
time; of two model calls one is retried, and the higher limit of parallel calls is explored among
first attempts (`CallsBound`). What each conjunct leaves out is said at its definition.

Nothing here assumes fairness: the run has safety and action properties only.

### The run `AgentRun_loop`

`MCLoops` does the same for the three loops of the worker that must come round:
agent runs (section 6), briefings and schedules. Fairness is each loop's own:
midnight comes and a clerk's `tick` runs again and again (`worker.main`, every pass);
a runner's `run_schedules` pass goes on. A worker may die in a pass, at most `MaxDeaths` or `MaxRunnerDeaths` times. What
stands in the way of schedules (a freeze, a full queue, an owner who lost authority, steps
that no longer validate) comes and goes, one at a time (`MaxTroubles`; any number at a time in
`MCServices_all`): each is excepted from the promise or disables the schedule by itself. A
delivery ends well or badly here (`Endings`): the third end, in doubt, is treated as the bad one.

Both properties of the loops have exceptions, because the code has gaps there.
`DueDigestComes` excepts a frozen tenant and a configuration that cannot be read: what
`graph_config` raises of it is caught nowhere in `tick` (briefing.py:349, 544), so the
row stays at the head of the line. `DueScheduleRuns` excepts a frozen tenant and whatever
ends every pass at a row, because `run_schedules` catches `Forbidden` alone (engine.py:993):
a schedule that was put anew between the submission of a period and the move of `next_due`
(`Stuck`: the Conflict of its own key), steps that no longer validate (`UnfitSteps`:
ValueError, LookupError), a full task queue (RateLimited). While none of these stands, every
due schedule runs or is disabled.

### What is proved

Every property of `MCServices_all` is proved, for any sets of actors and rows and any
bounds that satisfy the named assumption of the module: `ServiceProofs` (the first
twelve rows), `CustomerProofs` (the next four), `InboxProofs` (the last two).

| Theorem | Property | Why it holds |
|---|---|---|
| `WritesAreApproved` | `WrittenAsApproved` | the fingerprint of an approved lead or deal names host and driver, the writer compares it with the connection it read, and calls with that very connection however the row moves meanwhile; a note carries the words that were approved |
| `ApprovalsBecomeOrders` | `ApprovedIsOrdered` | the order and its mirror are written before the approval is closed, under the approval's own id, and each looks whether it is there; the invariant follows a decision from statement to statement |
| `AccessFollowsRevocation` | `AccessIsCurrent` | of a family at most one session is not revoked, none once the family was ended; revoking a membership revokes its sessions in the same transaction, and rotation hands the joining on |
| `OwnerStays` | `OwnerRemains` | an invitation never makes an owner, so the founder is the only one, and the last owner cannot be revoked |
| `PostsOnce`, `FailedIsFree` | `PostedOnce`, `FailedIsNotHeld` | a POST that was sent, or is about to be, is of a row that claims the invoice or that an owner judged; the unique index allows one claim, and only a definite refusal or the owner releases it |
| `NoPeriodIsSkipped` | `PeriodsAreKept` | a pass that is about to move `next_due` submitted the period under its key, and a row it read is never ahead of the table |
| `AcknowledgedIsAccepted` | `AckedIsKept` | a message of a thread's batch is dropped with a reason, still to be accepted, or in its tenant's inbox; the 2xx waits until none is left, and no inbox row is deleted |
| `NoBlindRefresh` | `ActiveTokenIsSound` | the credential is in the hands of the one attempt the row names, if of any, and not in the queue (`CredentialIsOurs`); what that attempt is to store is held by nobody else (`ToStoreIsSound`); a fence drops the attempt and the credential together |
| `WritesLandOnTheirVersion` | `NothingOverwritten` | a call under way has its row in the dispatch table, where a second one finds it; what the transport of two steps has read is the record that stands, or the sequence number moved and the conditional write is refused |
| `RepeatsAreHeld` | `DuplicatesAreHeld` | documents are only appended, so a number known when a plan began stays known; the duplicate check comes before every other and no later look takes its verdict back |
| `CopyStaysCurrent` | `CopyIsCurrent` | a copy and a cursor promise together: what the listing has passed and the unread log does not name is as in the Drive, what it has not passed is not there (`Sound`); a change joins the unread, a page keeps the promise, and the holder of the lease has read the cursor that stands |
| `CatalogueIsWhole` | `ListedIsWhole` | an item read while a source answered and came short of its limit tells the first row of the id; every source that failed or was cut during any read is kept for the report |
| `TextStaysInWindow` | `TextOnlyInsideWindow` | the stamp of every row of the inbox is that of a message the customer wrote, to that number if the row is named, so the newest usable row is evidence of what it names, wherever the scan stops |
| `TurnsAreAnsweredInOrder`, `NobodyIsForgotten` | `TurnsInOrder`, `NobodyForgotten` | who is about to open a turn holds the head of its queue (`IsHead`), and no operation of another may put a turn before it or make one busy; a line is added only with the status that accounts for it |
| `ManagersAreToldOnce` | `ToldOnceUnlessInterrupted` | outside an overlap an item is in one place: claimable, in the batch of the one cycle, or out with one message |
| `ClosedRowsAreLeftAlone` | `ClosedLeadsStayClosed` | a claim is a conditional update of a queued row; what is not conditional, the mark, is in a worker's memory since its claim |
| `LedgerStaysHonest` | `LedgerHonest` | where a call is and what its reservations are fit (`CallFits`): an attempt that may be charged is past its reservation, and in `masked` if it was released; a step that writes one reservation moves the two counters of its month by what the sums over the rows move |
| `RefusalsHaveAReason` | `SlotRefusalsExplained` | the calls a process runs and the room it may still use stay within the budget's slots unless they were lowered since it looked (`WithinParallel`), so without a slot held by another there is one for each |

Each is the last step of an inductive invariant (`CrmInv`, `LedgerInv`, `SyncInv`,
`ConvInv` and their like, stated where they are proved): what a process remembers between
two transactions is still true of the rows, or its next transaction asks again.
`OwnerRemains` and `FailedIsNotHeld` are checked by no run.

Two kinds of lemma recur. A choice of the oldest turn, the newest row or the end of a
page is a least element of a set of numbers (`LeastOfNat`, `LargestOfNat`). A sum over
rows is a recursive function on the subsets of a finite set; that it has a
solution, and that a row can be taken out of it, is proved by taking a smallest set
of which it would be false (`SumExists`, `SumSplits`, `SpentKeeps`).

Only model-checked: liveness.

### What is not promised

`EscalatedOnce` and `WrittenToOnce`, `SuppressedIsUnsent`, `ClosedMeansClosed`,
`SheetNeverReopens`, `ToleranceOnlyTightens` and `OneReadyPlan` are sentences of comments
that the code does not keep in a corner; they are defined beside the properties that
do hold, checked by no run, and section 9 says what refutes each.

## 8. Pure code

Reports, readers and gateways' contracts keep no state a property could follow. They
are operators, compared with direct definitions over small inputs by the named
assumptions of `ReportChecks` (`WorkReports`, `ProductionReports`, `PlantReports`,
`Telephony`, `Connectors`, `Knowledge`, over `Registers`, which models the reading of
a sheet's rows) and `GatewayChecks` (`BusinessGraph`, `CrmGateway`,
`DatabaseGateway`, `WhatsAppHook`, `ErpPosting`). `MCServices` extends both, so TLC evaluates every one of
them before the first state of `MCServices_all`. They say, for instance, that what a
cut or failed reading leaves out is named in the report, that counts add up to the rows
that were read, that a consent is on record for a call that is placed, that a
reading tool can never write, that no transport overwrites another version, that each
message of a webhook's body is an event or a drop with its reason (`Unwrapped`), and that
a posting carries nothing nobody declared (`ResolvedPosting`).

## 9. Disagreements found

Each of the first four is a run that TLC must find violated.

1. `TaskEngine_terminal` - `cancel` refuses a task as terminal (engine.py:819)
   while one of its steps is running, because `_refresh` ranks a failed or
   cancelled sibling above a running one.
2. `Inbox_outcome` - the docstring of `settle_event` (engine.py:927) promises that
   the look-ups keep a second planner from creating a second task or turn; they
   are read before the planner runs and used after it, and a turn and a task do
   not exclude one another. Needs a plan that outlives its lease.
3. `Reconcilers_match` - crm_reconcile.py:3 promises exact-match evidence; one lead of
   the same phone settles a step that never reached the CRM.
4. `Supervisor_hops` - `max_hops` (supervisor.py:41) caps the delegations to one target;
   the count is read before the run is created and the ledger's row written after it.
   Two routes that overlap, or one whose server died in between, exceed the cap. The
   same gap lets a refused row overwrite a routed one in `_record`, and a key that
   was refused replays its old record for ever.

Smaller ones, met while reading, of which no run speaks:

* Inventory: when every source is down at the moment the ids are read, the catalogue is
  empty and reported complete (inventory.py:46-49 says otherwise).
* OEE: availability sums `run` over the rows of a line but keeps the last row's planned
  time (oee.py:511-533).
* Business graph: `search` and `conflicts` leave out ids above their ceiling and do not
  say so.
* WhatsApp: the walk of a body leaves out what is beyond its limits (50 messages a
  change, and its ceilings of entries and changes) and still answers that it was
  complete (whatsapp_inbound.py:365, 407, 411, 785-809). Of two messages that
  arrive out of order the older decides, and the window reads closed although Meta holds
  it open (`ClosedMeansClosed`); a message that
  `ingest` stored names no number and opens the window of every number of the tenant
  (whatsapp.py:540-542); a verified message older than the rows that are scanned
  leaves the window to the typed sheet (`SheetNeverReopens`).
* Conversation: an answer that reads as suppressed can have been sent, when the process died
  after it submitted the reply and a takeover came before the next look (`SuppressedIsUnsent`).
* Re-engagement: a lead whose cooldown passes while the run of its first attempt is still
  open is claimed again, and both runs write (`WrittenToOnce`).
* Escalation: two cycles that overlap, or a death between a send and its mark, with the
  day turning in between, report one item twice (`EscalatedOnce`).
* Documents: the tolerance among a step's arguments replaces the operator's, also where it is
  wider (`ToleranceOnlyTightens`); a document that was parsed first counts as a duplicate of
  itself, and two plans of one invoice that are begun together are both ready (`OneReadyPlan`); a match called partial
  needs attention and is yet ready for approval.
* Schedules: `run_schedules` catches `Forbidden` alone (engine.py:993-994), so a row whose
  submission raises anything else ends every pass, and the rows after it wait: a schedule
  put anew between submission and the move of `next_due` (Conflict), one whose steps or tools
  no longer validate (ValueError, LookupError of tools.py:150), a full queue (RateLimited,
  engine.py:549).
* Briefings: a configuration that cannot be read raises a RuntimeError that `_section_rows`
  and `tick` do not catch (briefing.py:349, 544): today's row stays queued, the schedule keeps
  the head of the line, and no digest comes until somebody mends it.
* Engine: a step that waits for approval beside a sibling that was rejected or failed is no
  candidate any more (engine.py:730) and nothing closes its row; its task has ended.
* Model calls: two worker processes read the same room of a tenant, so a call the pool
  started can be refused for lack of a slot, which its comment means to prevent
  (app/worker.py:195). A gateway's 5xx in front of a provider that finished is released at
  zero, as the head of usage_budget.py says.
* Telephony: a granted consent beats a withdrawal of a later row, and a consent that
  cannot be read is only counted; the queue's docstring promises more than the code keeps.
* Manufacturing: a negative number of defects yields more than one, a blank one counts
  as none.
* CRM: an approved note follows a connection that moved, because `attach_call` and
  `attach_message` ask for no fingerprint (crm_gateway.py:177-202). No planning tool returns the fingerprint that approving a deal asks for, and a
  follow-up of a lead writes only the audit trail.
* Assets: a tree asked for with a path and a depth returns more levels than the depth
  (assets.py:239, 261-262), and never says that it was cut.
* First-generation API: an approval whose process died after the order was stored can be
  rejected afterwards, and the order stays; the ladder can count one decision twice; the
  key of a message is remembered before the quota is asked, so a refused message is a
  duplicate when it is sent again; a mirror with a foreign header is renamed, and the
  append after it fails once.
* OAuth: a refresh that ended in doubt erases its refresh token without queueing it for
  revocation.

## 10. Conventions and reach

An operator with a comment "Mutant of X" is a plausible bug in the code X models
(`PROJECT.json` pairs it with the property that must fail when it replaces X); it
stands before X and is used by nothing. Every bound on a counter is a constant
whose comment says so. `MCServices` and `MCLoops` compose services for TLC only; no
theorem is about them.

Every safety and action property of the passing runs is stated by a theorem. Only
model-checked are the liveness properties (`TurnComes`, `ClaimsEnd`, `WaitsEnd`, `EventsSettle`,
`RunsEnd`, `DueDigestComes`, `DueScheduleRuns`): fairness and ENABLED are out of the
prover's reach. So is what a recursive definition computes for every input, unless an
argument by a least element does, as for the sums above; the readings of section 8
are compared with their definitions over small inputs only, and no theorem rests on
what a fold or `SelectSeq` returns. Where a theorem needs the elements of a selection, the
model writes it by positions (`AtPositions`), which can be counted.

Assumptions are the named ones of the modules (`EngineAssumption`, `SyncAssumption`, ...),
which TLC evaluates on every run, and three that a theorem states: `PlannerInTime`,
`FreshEdit` and `MaxChanges <= 1`.

### Not modelled

* `speech.py`, `mcp.py`, `display_name.py`: calls to a provider, and text.
* The first generation's chat channels and pages (`main.py`, `telegram.py`,
  `instagram.py`, `responder.py`, `shop_api.py`, ...): input and output around the path
  `FirstOrders` models.
* The user interface, the packs' data, evaluations, scripts and configuration.
* Of components that are modelled in part: ciphers of the vault, password hashing and
  throttles, wire protocols and drivers of databases, request bodies of the ERP and CRM
  drivers, embeddings and ranking weights, texts and templates, the runner's journal
  and STOP file. They decide no state change that a property here could tell apart, or
  belong to external programs.
