------------------------------- MODULE Outreach -------------------------------
(***************************************************************************)
(* The re-engagement coordinator (platform_runtime/reengagement.py): a stalled  *)
(* lead is claimed in a ledger, one agent run is opened for it, and the run's    *)
(* verdict is read back into the ledger.                                       *)
(*                                                                         *)
(* One tenant, one connection; its policies share the ledger, so a policy is   *)
(* named by the attempt cap it brings.  The run of an attempt is modelled by   *)
(* whether it goes on and by whether it wrote to the customer.                 *)
(***************************************************************************)
EXTENDS Naturals, FiniteSets

CONSTANTS
  Lead,
  Caller,      \* worker processes
  AttemptCaps  \* max_attempts of the policies of the connection

ASSUME OutreachAssumption == AttemptCaps \subseteq Nat \ {0} /\ AttemptCaps # {}

HighestCap == CHOOSE n \in AttemptCaps : \A m \in AttemptCaps : m <= n
Try == 1..HighestCap

VARIABLES
  ledger,    \* p_reengagement_ledger: status, attempt, linked run, cooldown over
  reRun,     \* the agent run of each attempt
  wrote,     \* history: attempts whose run wrote to the customer
  caller,    \* memory of the workers during a cycle
  policy,    \* p_reengagement: "off", "waiting" for next_due, or "due"
  outreach   \* what the tenant and the policies' owner allow: "ok", "frozen", "revoked"

outreachVars == <<ledger, reRun, wrote, caller, policy, outreach>>

\* RUN_TO_LEDGER: every end of a run closes the row; the five of them are one here.
Closed == {"settled", "exhausted", "failed"}

AtEase == [pc |-> "idle", cap |-> HighestCap, lead |-> CHOOSE l \in Lead : TRUE, attempt |-> 0]

OutreachInit ==
  /\ ledger = [l \in Lead |-> [status |-> "none", attempt |-> 0, run |-> 0, cooled |-> FALSE]]
  /\ reRun = [l \in Lead |-> [k \in Try |-> "none"]]
  /\ wrote = [l \in Lead |-> {}]
  /\ caller = [w \in Caller |-> AtEase]
  /\ policy = [p \in AttemptCaps |-> "off"]
  /\ outreach = "ok"

KeepRuns == UNCHANGED <<reRun, wrote>>
Go(w, pc) == caller' = [caller EXCEPT ![w].pc = pc]

-----------------------------------------------------------------------------
\* configure: the owner, of a tenant that is not frozen, puts a policy; next_due starts anew.
ConfigureOutreach(p, on) ==
  /\ outreach = "ok" /\ policy' = [policy EXCEPT ![p] = IF on THEN "waiting" ELSE "off"]
  /\ KeepRuns /\ UNCHANGED <<ledger, caller, outreach>>

ComesDue(p) ==
  /\ policy[p] = "waiting" /\ policy' = [policy EXCEPT ![p] = "due"]
  /\ KeepRuns /\ UNCHANGED <<ledger, caller, outreach>>

OutreachChanges(to) ==
  /\ outreach # to /\ outreach' = to /\ KeepRuns /\ UNCHANGED <<ledger, caller, policy>>

\* tick: a due policy of a tenant that is not frozen; an owner without authority disables it.
StartCycle(w, p) ==
  /\ caller[w].pc = "idle" /\ policy[p] = "due" /\ outreach # "frozen"
  /\ IF outreach = "revoked"
     THEN policy' = [policy EXCEPT ![p] = "off"] /\ UNCHANGED caller
     ELSE caller' = [caller EXCEPT ![w] = [AtEase EXCEPT !.pc = "feed", !.cap = p]] /\ UNCHANGED policy
  /\ KeepRuns /\ UNCHANGED <<ledger, outreach>>

\* _advance, on the row as it is by now: the policy waits for its next period.
Advanced(p) == [policy EXCEPT ![p] = IF @ = "off" THEN "off" ELSE "waiting"]

\* _read_feed: the leads; a refusal disables the policy, an unreachable provider is no empty feed.
ReadFeed(w) ==
  /\ caller[w].pc = "feed"
  /\ \/ Go(w, "leads") /\ UNCHANGED policy
     \/ /\ caller' = [caller EXCEPT ![w] = AtEase]
        /\ policy' \in {[policy EXCEPT ![caller[w].cap] = "off"], Advanced(caller[w].cap)}
  /\ KeepRuns /\ UNCHANGED <<ledger, outreach>>

EndCycle(w) ==
  /\ caller[w].pc = "leads" /\ caller' = [caller EXCEPT ![w] = AtEase]
  /\ policy' = Advanced(caller[w].cap) /\ KeepRuns /\ UNCHANGED <<ledger, outreach>>

-----------------------------------------------------------------------------
\* Mutant of Repeatable: a closed row may be repeated too.
RepeatableOnceClosed(l, cap) ==
  ledger[l].cooled /\ ledger[l].attempt < cap

\* _claim: only a queued attempt may be repeated, after its cooldown, up to the cap.
Repeatable(l, cap) ==
  /\ ledger[l].status = "queued" /\ ledger[l].attempt < cap
  /\ ledger[l].cooled

\* One lead of the feed is claimed, in a transaction of its own.
ClaimLead(w, l) ==
  /\ caller[w].pc = "leads"
  /\ ledger[l].status = "none" \/ Repeatable(l, caller[w].cap)
  /\ ledger' = [ledger EXCEPT ![l] =
       [status |-> "queued", attempt |-> @.attempt + 1, run |-> 0, cooled |-> FALSE]]
  /\ caller' = [caller EXCEPT ![w].pc = "claimed", ![w].lead = l, ![w].attempt = ledger[l].attempt + 1]
  /\ KeepRuns /\ UNCHANGED <<policy, outreach>>

\* A queued lead at the cap of the policy that meets it is closed.
ExhaustLead(w, l) ==
  /\ caller[w].pc = "leads" /\ ledger[l].status = "queued" /\ ledger[l].attempt >= caller[w].cap
  /\ ledger' = [ledger EXCEPT ![l].status = "exhausted"]
  /\ KeepRuns /\ UNCHANGED <<caller, policy, outreach>>

\* AgentLoop.create, under a key of the policy, the lead and the attempt, where the tenant allows it.
OpenLeadRun(w) ==
  LET c == caller[w]
  IN /\ c.pc = "claimed" /\ outreach = "ok" /\ Go(w, "created")
     /\ reRun' = [reRun EXCEPT ![c.lead][c.attempt] = "active"]
     /\ UNCHANGED <<ledger, wrote, policy, outreach>>

\* _mark, without a look at what the row says by now: create raised, or the run is linked.
MarkLead(w) ==
  LET l == caller[w].lead
  IN /\ caller[w].pc \in {"claimed", "created"} /\ Go(w, "leads")
     /\ ledger' = IF caller[w].pc = "claimed"
                  THEN [ledger EXCEPT ![l].status = "failed", ![l].run = 0]
                  ELSE [ledger EXCEPT ![l].status = "queued", ![l].run = caller[w].attempt]
     /\ KeepRuns /\ UNCHANGED <<policy, outreach>>

\* sync_ledger: the verdict of the linked run closes the row.
SyncLead(l) ==
  /\ ledger[l].status = "queued" /\ ledger[l].run # 0 /\ reRun[l][ledger[l].run] = "ended"
  /\ ledger' = [ledger EXCEPT ![l].status = "settled"]
  /\ KeepRuns /\ UNCHANGED <<caller, policy, outreach>>

-----------------------------------------------------------------------------
\* The run's outreach step is approved and sent; the run ends, having written or not.
LeadRunWrites(l, k) ==
  /\ reRun[l][k] = "active" /\ wrote' = [wrote EXCEPT ![l] = @ \union {k}]
  /\ UNCHANGED <<ledger, reRun, caller, policy, outreach>>

LeadRunEnds(l, k) ==
  /\ reRun[l][k] = "active" /\ reRun' = [reRun EXCEPT ![l][k] = "ended"]
  /\ UNCHANGED <<ledger, wrote, caller, policy, outreach>>

CooldownPasses(l) ==
  /\ ledger[l].status # "none" /\ ~ledger[l].cooled
  /\ ledger' = [ledger EXCEPT ![l].cooled = TRUE]
  /\ KeepRuns /\ UNCHANGED <<caller, policy, outreach>>

CallerDies(w) ==
  /\ caller[w].pc # "idle" /\ caller' = [caller EXCEPT ![w] = AtEase]
  /\ KeepRuns /\ UNCHANGED <<ledger, policy, outreach>>

OutreachNext ==
  \/ \E p \in AttemptCaps : ComesDue(p) \/ \E on \in BOOLEAN : ConfigureOutreach(p, on)
  \/ \E to \in {"ok", "frozen", "revoked"} : OutreachChanges(to)
  \/ \E w \in Caller, p \in AttemptCaps : StartCycle(w, p)
  \/ \E w \in Caller : ReadFeed(w) \/ EndCycle(w) \/ OpenLeadRun(w) \/ MarkLead(w) \/ CallerDies(w)
  \/ \E w \in Caller, l \in Lead : ClaimLead(w, l) \/ ExhaustLead(w, l)
  \/ \E l \in Lead : SyncLead(l) \/ CooldownPasses(l)
  \/ \E l \in Lead, k \in Try : LeadRunWrites(l, k) \/ LeadRunEnds(l, k)

OutreachSpec == OutreachInit /\ [][OutreachNext]_outreachVars

-----------------------------------------------------------------------------
\* A row closed by its run's verdict, by the cap or by a failed start is claimed by nobody
\* again, whatever the policies that share the connection and the deaths of workers: only
\* the late mark of a worker that claimed an earlier attempt can still touch its status
\* (reengagement.py:23-25, and _mark, which looks at nothing).
ClosedLeadsStayClosed ==
  [][\A l \in Lead : ledger[l].status \in Closed =>
       /\ ledger'[l].attempt = ledger[l].attempt
       /\ ledger'[l].status # ledger[l].status =>
            \E w \in Caller : caller[w].lead = l /\ caller[w].pc \in {"claimed", "created"}]_outreachVars

\* What reengagement.py:215-216 says of the claim: a customer is never messaged twice by automation.
WrittenToOnce == \A l \in Lead : Cardinality(wrote[l]) <= 1
=============================================================================
