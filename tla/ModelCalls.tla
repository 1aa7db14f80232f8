------------------------------ MODULE ModelCalls ------------------------------
(***************************************************************************)
(* Paid model calls: the planner pools that start them (app/worker.py), the *)
(* attempts of one call and their retries (model_transport.py), and the       *)
(* spending ledger each attempt goes through (usage_budget.py).  Each worker    *)
(* process has a pool of its own; the ledger is one table, in the database.       *)
(*                                                                         *)
(* One tenant.  A call is one decision or event plan the pool took; each of   *)
(* its attempts has a request key of its own, hence a reservation of its own. *)
(* A month passes once; a reservation is `old' when UNCERTAIN_SLOT_SECONDS     *)
(* have passed since its last write.                                         *)
(***************************************************************************)
EXTENDS Integers, FiniteSets, FiniteSetsExt

CONSTANTS
  Call,            \* calls there is work for
  Process,         \* worker processes
  PerTenant,       \* PLANNER_CONCURRENCY_PER_TENANT, capped by PLANNER_WORKERS
  MaxAttempts,     \* MAX_MODEL_ATTEMPTS
  Estimate,        \* the hold of an attempt, in microunits
  Receipts,        \* what a provider's receipt may amount to
  Limits,          \* limits an owner may configure
  Parallel         \* max_inflight an owner may configure

ASSUME ModelCallsAssumption ==
  /\ PerTenant \in Nat \ {0} /\ MaxAttempts \in Nat \ {0} /\ Estimate \in Nat
  /\ Receipts \subseteq Nat /\ Limits \subseteq Nat \ {0} /\ Parallel \subseteq Nat \ {0}
  /\ IsFiniteSet(Call) /\ Process # {}

Month == 0..1
Attempt == 1..MaxAttempts

VARIABLES
  budget,      \* p_budget_settings: limit and parallel calls
  account,     \* p_budget_accounts: spent and reserved of each month
  hold,        \* p_budget_reservations, by call and attempt
  callAt,      \* where the call's thread is, its attempt and its process
  room,        \* by process: how many more calls its pump may start
  month,
  billable,    \* history: attempts the provider may have charged
  masked,      \* history: of these, the ones an HTTP error status answered
  cut          \* history: processes whose pool has not looked since an owner lowered max_inflight

modelCallVars == <<budget, account, hold, callAt, room, month, billable, masked, cut>>
callEnvVars == <<month, masked, cut>>

HELD == {"reserved", "dispatching", "uncertain", "unreconciled"}
NoHold == [status |-> "none", month |-> 0, actual |-> 0, old |-> FALSE]

\* Where a call is: not taken, at the start of an attempt, between reserve and
\* dispatch, in the provider, returned but not reaped, reaped, or gone with its process.
CallPlace == {"waiting", "ready", "reserved", "sent", "returned", "reaped", "lost"}

AnyProcess == CHOOSE p \in Process : TRUE  \* of a call that is not taken yet

ModelCallsInit ==
  /\ budget \in [limit : Limits, parallel : Parallel]
  /\ account = [m \in Month |-> [spent |-> 0, reserved |-> 0]]
  /\ hold = [c \in Call |-> [i \in Attempt |-> NoHold]]
  /\ callAt = [c \in Call |-> [pc |-> "waiting", attempt |-> 1, process |-> AnyProcess]]
  /\ room = [p \in Process |-> 0] /\ month = 0
  /\ billable = [c \in Call |-> {}] /\ masked = [c \in Call |-> {}] /\ cut = {}

-----------------------------------------------------------------------------
(* The ledger *)

\* _slots: undispatched reservations, and calls younger than the slot lease.
TakesSlot(h) == h.status = "reserved" \/ (h.status \in {"dispatching", "uncertain"} /\ ~h.old)
Slots == Cardinality({r \in Call \X Attempt : TakesSlot(hold[r[1]][r[2]])})

\* _expire_slots: the slot is freed, the money stays held.
ExpireSlots(table) ==
  [c \in Call |-> [i \in Attempt |->
     IF table[c][i].status \in {"dispatching", "uncertain"} /\ table[c][i].old
     THEN [table[c][i] EXCEPT !.status = "unreconciled", !.old = FALSE] ELSE table[c][i]]]

Marked(table, c, i, status) == [table EXCEPT ![c][i] = [@ EXCEPT !.status = status, !.old = FALSE]]
MoveHold(c, i, status) == hold' = Marked(hold, c, i, status)

\* _settle: the hold leaves the month it was made in, the actual cost is spent there.
Settle(c, i, actual, status) ==
  /\ account' = [account EXCEPT ![hold[c][i].month] =
       [spent |-> @.spent + actual, reserved |-> @.reserved - Estimate]]
  /\ hold' = [hold EXCEPT ![c][i] = [@ EXCEPT !.status = status, !.actual = actual, !.old = FALSE]]

Goto(c, pc) == callAt' = [callAt EXCEPT ![c].pc = pc]

\* reserve succeeds: slots that ran out are freed first, then the slot limit and the
\* month's money are asked.
ReserveCall(c) ==
  LET i == callAt[c].attempt
  IN /\ callAt[c].pc = "ready"
     /\ Slots < budget.parallel
     /\ account[month].spent + account[month].reserved + Estimate <= budget.limit
     /\ hold' = [ExpireSlots(hold) EXCEPT ![c][i] =
                   [status |-> "reserved", month |-> month, actual |-> 0, old |-> FALSE]]
     /\ account' = [account EXCEPT ![month].reserved = @ + Estimate]
     /\ Goto(c, "reserved")
     /\ UNCHANGED <<budget, room, callEnvVars, billable>>

\* reserve raises: no slot, no money, or the kill switch is on at that moment.  It is no
\* transport failure, so never retried; the transaction rolls the freed slots back.
SlotRefused(c) == callAt[c].pc = "ready" /\ Slots >= budget.parallel
ReserveRefused(c) ==
  /\ callAt[c].pc = "ready" /\ Goto(c, "returned")
  /\ UNCHANGED <<budget, account, hold, room, callEnvVars, billable>>

\* dispatch, under the settings of this moment; the request leaves right after it.
MayDispatch(c) ==
  LET h == hold[c][callAt[c].attempt]
  IN /\ h.status = "reserved" /\ h.month = month
     /\ account[h.month].spent + account[h.month].reserved <= budget.limit
     /\ Slots <= budget.parallel

DispatchCall(c) ==
  LET i == callAt[c].attempt
  IN /\ callAt[c].pc = "reserved" /\ MayDispatch(c)
     /\ hold' = Marked(ExpireSlots(hold), c, i, "dispatching")
     /\ Goto(c, "sent")
     /\ UNCHANGED <<budget, account, room, callEnvVars, billable>>

\* A refused dispatch, by its guards or by the kill switch, leaves the reservation, and
\* its slot, as it stands.
DispatchRefused(c) ==
  /\ callAt[c].pc = "reserved"
  /\ Goto(c, "returned")
  /\ UNCHANGED <<budget, account, hold, room, callEnvVars, billable>>

-----------------------------------------------------------------------------
(* The provider, and what the attempt writes of its answer.  A hold that is no      *)
(* longer dispatching (its slot expired, an owner reconciled it) refuses the write: *)
(* the exception is no transport failure, so the call ends with no retry.            *)

Out(c) == callAt[c].pc = "sent"
Awaiting(c) == hold[c][callAt[c].attempt].status = "dispatching"
MayBeBilled(c) == billable' = [billable EXCEPT ![c] = @ \union {callAt[c].attempt}]

\* with_retries: another attempt, when there is one left, the failure allows it and it
\* would end before the deadline; otherwise the failure is raised.
RetryOrRaise(c) ==
  \/ /\ callAt[c].attempt < MaxAttempts
     /\ callAt' = [callAt EXCEPT ![c].pc = "ready", ![c].attempt = @ + 1]
  \/ Goto(c, "returned")

\* An answer with a readable receipt.
Answered(c, receipt) ==
  /\ Out(c) /\ MayBeBilled(c)
  /\ IF Awaiting(c) THEN Settle(c, callAt[c].attempt, receipt, "settled")
     ELSE UNCHANGED <<account, hold>>
  /\ Goto(c, "returned")
  /\ UNCHANGED <<budget, room, callEnvVars>>

\* An answer with no readable receipt, or an exception that is no transport failure.
NoReceipt(c) ==
  /\ Out(c) /\ MayBeBilled(c)
  /\ IF Awaiting(c) THEN MoveHold(c, callAt[c].attempt, "uncertain") ELSE UNCHANGED hold
  /\ Goto(c, "returned")
  /\ UNCHANGED <<budget, account, room, callEnvVars>>

ReleasedAtZero(c) ==
  IF Awaiting(c) THEN Settle(c, callAt[c].attempt, 0, "released") /\ RetryOrRaise(c)
  ELSE Goto(c, "returned") /\ UNCHANGED <<account, hold>>

\* The request never left: settled at zero.
NotSent(c) ==
  /\ Out(c) /\ ReleasedAtZero(c)
  /\ UNCHANGED <<budget, room, callEnvVars, billable>>

\* An HTTP error status: settled at zero too, though the gateway that answered may stand
\* before a provider that had finished, and charges.
Rejected(c) ==
  /\ Out(c) /\ MayBeBilled(c) /\ ReleasedAtZero(c)
  /\ masked' = [masked EXCEPT ![c] = @ \union {callAt[c].attempt}]
  /\ UNCHANGED <<budget, room, month, cut>>

\* Mutant of NoAnswer: a call that timed out is released like one that never left.
NoAnswerReleased(c) ==
  /\ Out(c) /\ MayBeBilled(c) /\ ReleasedAtZero(c)
  /\ UNCHANGED <<budget, room, callEnvVars>>

\* The request left and no complete answer came: the money stays reserved, the retry is
\* a second reservation.
NoAnswer(c) ==
  /\ Out(c) /\ MayBeBilled(c)
  /\ IF Awaiting(c) THEN MoveHold(c, callAt[c].attempt, "uncertain") /\ RetryOrRaise(c)
     ELSE Goto(c, "returned") /\ UNCHANGED hold
  /\ UNCHANGED <<budget, account, room, callEnvVars>>

-----------------------------------------------------------------------------
(* The pool of a process, on its main thread *)

InFlight(p) ==
  {c \in Call : callAt[c].process = p /\ callAt[c].pc \notin {"waiting", "reaped", "lost"}}

\* pump begins: the process's finished calls are reaped, then the room of the tenant is read
\* once: its own calls and the ledger's slots against the bounds.
Pump(p) ==
  LET running == Cardinality({c \in InFlight(p) : callAt[c].pc # "returned"})
      free == Min({PerTenant - running, budget.parallel - running, budget.parallel - Slots})
  IN /\ room[p] = 0
     /\ callAt' = [c \in Call |-> IF c \in InFlight(p) /\ callAt[c].pc = "returned"
                                  THEN [callAt[c] EXCEPT !.pc = "reaped"] ELSE callAt[c]]
     /\ room' = [room EXCEPT ![p] = Max({free, 0})]
     /\ cut' = IF running <= budget.parallel THEN cut \ {p} ELSE cut
     /\ UNCHANGED <<budget, account, hold, month, masked, billable>>

Started(c, p) == callAt' = [callAt EXCEPT ![c].pc = "ready", ![c].process = p]

\* Mutant of Take: the room is not used up.
TakeAll(c, p) ==
  /\ room[p] > 0 /\ Cardinality(InFlight(p)) < PerTenant
  /\ callAt[c].pc = "waiting" /\ Started(c, p)
  /\ UNCHANGED <<budget, account, hold, room, callEnvVars, billable>>

\* A run is reserved, or an event claimed, and its call starts on a thread at once.
Take(c, p) ==
  /\ room[p] > 0
  /\ callAt[c].pc = "waiting" /\ Started(c, p)
  /\ room' = [room EXCEPT ![p] = @ - 1]
  /\ UNCHANGED <<budget, account, hold, callEnvVars, billable>>

\* The tenant has nothing more to take.
PumpEnds(p) ==
  /\ room[p] > 0 /\ room' = [room EXCEPT ![p] = 0]
  /\ UNCHANGED <<budget, account, hold, callAt, callEnvVars, billable>>

-----------------------------------------------------------------------------
(* Owners, time, and the death of a process *)

ConfigureBudget(limit, parallel) ==
  /\ budget' = [limit |-> limit, parallel |-> parallel] /\ budget' # budget
  /\ cut' = IF parallel < budget.parallel THEN Process ELSE cut
  /\ UNCHANGED <<account, hold, callAt, room, month, masked, billable>>

\* reconcile: an owner settles any money still held, on evidence.
ReconcileHold(c, i, actual) ==
  /\ hold[c][i].status \in HELD
  /\ Settle(c, i, actual, "reconciled")
  /\ UNCHANGED <<budget, callAt, room, callEnvVars, billable>>

SlotLapses(c, i) ==
  /\ hold[c][i].status \in {"dispatching", "uncertain"} /\ ~hold[c][i].old
  /\ hold' = [hold EXCEPT ![c][i].old = TRUE]
  /\ UNCHANGED <<budget, account, callAt, room, callEnvVars, billable>>

MonthEnds ==
  /\ month = 0 /\ month' = 1
  /\ UNCHANGED <<budget, account, hold, callAt, room, billable, masked, cut>>

\* A process dies: its threads are gone, the ledger stays as it was written.
WorkerDies(p) ==
  /\ InFlight(p) # {}
  /\ callAt' = [c \in Call |-> IF c \in InFlight(p) THEN [callAt[c] EXCEPT !.pc = "lost"] ELSE callAt[c]]
  /\ billable' = [c \in Call |-> IF c \in InFlight(p) /\ Out(c)
                                 THEN billable[c] \union {callAt[c].attempt} ELSE billable[c]]
  /\ room' = [room EXCEPT ![p] = 0]
  /\ UNCHANGED <<budget, account, hold, callEnvVars>>

CallStep(c) ==
  \/ ReserveCall(c) \/ ReserveRefused(c) \/ DispatchCall(c) \/ DispatchRefused(c)
  \/ \E a \in Receipts : Answered(c, a)
  \/ NoReceipt(c) \/ NotSent(c) \/ Rejected(c) \/ NoAnswer(c)

PoolStep(p) == Pump(p) \/ PumpEnds(p) \/ WorkerDies(p) \/ \E c \in Call : Take(c, p)

ModelCallsNext ==
  \/ \E c \in Call : CallStep(c)
  \/ \E p \in Process : PoolStep(p)
  \/ MonthEnds
  \/ \E l \in Limits, parallel \in Parallel : ConfigureBudget(l, parallel)
  \/ \E c \in Call, i \in Attempt :
       SlotLapses(c, i) \/ \E a \in Receipts : ReconcileHold(c, i, a)

ModelCallsSpec == ModelCallsInit /\ [][ModelCallsNext]_modelCallVars

-----------------------------------------------------------------------------
CallRows(m) == {r \in Call \X Attempt : hold[r[1]][r[2]].status # "none" /\ hold[r[1]][r[2]].month = m}

\* The two counters of a month say what its reservations say: reserved is the sum of the
\* holds, spent the sum of what was settled.
AccountsBalance ==
  \A m \in Month :
    /\ account[m].reserved = Estimate * Cardinality({r \in CallRows(m) : hold[r[1]][r[2]].status \in HELD})
    /\ account[m].spent = MapThenSumSet(LAMBDA r : hold[r[1]][r[2]].actual, CallRows(m))

\* The ledger stays honest whatever the order of answers, time-outs, retries, lapsed slots,
\* deaths of a worker and reconciliations (usage_budget.py:6-15): its counters balance, and an
\* attempt the provider may have charged is settled by a receipt, reconciled by an owner, or
\* still held.  It is released at zero in one case only, the one the module's doc names: an HTTP
\* error status answered it.
LedgerHonest ==
  /\ AccountsBalance
  /\ \A c \in Call : \A i \in billable[c] :
       \/ hold[c][i].status \in (HELD \ {"reserved"}) \union {"settled", "reconciled"}
       \/ hold[c][i].status = "released" /\ i \in masked[c]

\* A slot that no running call stands behind, or that a call of another process holds.
HeldByOther(p) == \E c \in Call, i \in Attempt :
  /\ TakesSlot(hold[c][i])
  /\ ~(i = callAt[c].attempt /\ callAt[c].pc \in {"reserved", "sent"} /\ callAt[c].process = p)

\* A pool holds a tenant to the parallel calls of its budget (worker.py:187-197): unless an owner
\* lowered the number since it looked, a call it started is refused a slot only because of a
\* slot left over by a call that timed out, was refused at dispatch or died, or because of a
\* call of another process, whose pool read the same room.
SlotRefusalsExplained ==
  [][\A c \in Call : SlotRefused(c) /\ callAt'[c].pc = "returned"
       => callAt[c].process \in cut \/ HeldByOther(callAt[c].process)]_modelCallVars
=============================================================================
