------------------------------ MODULE Reconcilers ------------------------------
(***************************************************************************)
(* The journal of Google writes (google_adapters.py) and the two read-only    *)
(* reconcilers beside the engine (google_reconcile.py, crm/crm_reconcile.py): *)
(* each looks an uncertain write up at its provider, with no transaction      *)
(* open, and settles the step when it finds the record.  They are a second   *)
(* and a third writer of p_steps, racing with everything TaskEngine does,     *)
(* with the worker's late answer and with the owner's own verdict.            *)
(***************************************************************************)
EXTENDS TaskEngine

CONSTANT
  CrmTask   \* tasks whose steps create CRM leads, all for one contact; the others
            \* write to Google
ASSUME ReconcilersAssumption == CrmTask \subseteq Task

VARIABLES
  journal,  \* p_google_dispatch: what is known of the one request a step may send
  renewed,  \* dispatched steps whose connection was authorized anew since
  box,      \* what the Google account holds under the id or Message-ID of a step
  evidence, \* steps whose record a look-up has found and not yet settled
  settled   \* history: steps that provider evidence settled

googleVars == <<journal, renewed, box>>
allVars == <<vars, googleVars, evidence, settled>>

ReconcilersInit ==
  /\ Init /\ evidence = {} /\ settled = {} /\ renewed = {}
  /\ journal = [s \in Step |-> "none"] /\ box = [s \in Step |-> "absent"]

Crm(s) == s[1] \in CrmTask
Google(s) == ~Crm(s) /\ stepStatus[s] # "none" /\ Kind(s).write /\ Kind(s).place = Cloud

-----------------------------------------------------------------------------
(* GoogleAdapter.execute: journal, request, answer. *)

\* The transaction that journals the dispatch: the claim, the binding, the authorities and the
\* approval are asked again, and a step that has a row is never sent.
JournalDispatch(w) ==
  LET s == job[w].step
  IN  /\ w \in Worker /\ job[w].pc = "allowed" /\ Google(s) /\ journal[s] = "none"
      /\ Owns(w) /\ fingerprint[s[1]] = policy /\ ParentAllows(s[1]) /\ Stands(creator[s[1]])
      /\ Gated(s) => /\ approval[s] = "consumed" /\ expires[s] > 0
                     /\ Holds(approver[s], ApproverRoles(policy))
      /\ journal' = [journal EXCEPT ![s] = "dispatching"]
      /\ UNCHANGED <<vars, renewed, box, evidence, settled>>

\* The request leaves after its journal row alone; whatever is refused or raised, before it or
\* after, tick records as doubt.
Request(w) ==
  LET s == job[w].step
  IN  /\ Handler(w)
      /\ Google(s) => IF journal[s] = "dispatching" THEN job'[w].out # "failed"
                      ELSE job'[w].out = "uncertain" /\ effects' = effects
      /\ box' = [r \in Step |-> IF effects'[r] > effects[r] THEN "whole" ELSE box[r]]

\* Mutant of JournalAnswer: the row is not asked to be dispatching still.
JournalAnswerBlindly(w) ==
  LET s == job[w].step
  IN  /\ w \in Worker /\ job[w].pc = "done" /\ Google(s) /\ journal[s] # "none"
      /\ journal' = [journal EXCEPT ![s] = job[w].out]
      /\ UNCHANGED <<vars, renewed, box, evidence, settled>>

\* What the adapter makes of the answer; a row that a reconciler has settled is left to it.
JournalAnswer(w) ==
  LET s == job[w].step
  IN  /\ w \in Worker /\ job[w].pc = "done" /\ Google(s) /\ journal[s] = "dispatching"
      /\ journal' = [journal EXCEPT ![s] = job[w].out]
      /\ UNCHANGED <<vars, renewed, box, evidence, settled>>

\* The handler returns, or raises, once its row is no longer dispatching.
Returned(w) == job[w].pc = "refused" \/ (Google(job[w].step) => journal[job[w].step] # "dispatching")

-----------------------------------------------------------------------------
(* The account, which belongs to people. *)

\* Its owner edits, deletes or copies the record of a step.
Spoil(s) ==
  /\ box[s] = "whole" /\ box' = [box EXCEPT ![s] = "spoilt"]
  /\ UNCHANGED <<vars, journal, renewed, evidence, settled>>

\* OAuthManager._store: the connection has a new generation.
Renew ==
  /\ \E s \in Step : journal[s] # "none" /\ s \notin renewed
  /\ renewed' = {s \in Step : journal[s] # "none"}
  /\ UNCHANGED <<vars, journal, box, evidence, settled>>

-----------------------------------------------------------------------------
(* What the provider answers. *)

\* _calendar and _gmail: one record under the step's own id or Message-ID, with all that
\* the request asked for.
GoogleMatch(s) == box[s] = "whole"

\* One lead in the CRM carries the title, or the phone, of the request.
CrmMatch(s) == Cardinality({r \in Step : Crm(r) /\ effects[r] > 0}) = 1

-----------------------------------------------------------------------------
Found(s) ==
  /\ evidence' = evidence \union {s}
  /\ UNCHANGED <<vars, googleVars, settled>>

\* GoogleReconciler._load: what holds before every request and again at the end.
GoogleLoad(s, a) ==
  /\ stepStatus[s] = "uncertain" /\ Google(s)
  /\ Active /\ Holds(a, {"owner"}) /\ fingerprint[s[1]] = policy
  /\ journal[s] # "none" /\ s \notin renewed

GoogleLook(s, a) == GoogleLoad(s, a) /\ GoogleMatch(s) /\ Found(s)

CrmLook(s, a) ==
  /\ Crm(s) /\ stepStatus[s] = "uncertain"
  /\ Active /\ Holds(a, Staff)
  /\ CrmMatch(s) /\ Found(s)

\* Rows a settlement leaves alone.
RestKept == UNCHANGED <<taskVars, parent, attempts, approvalVars, controlVars, envVars, job,
                         history>>

Settled(s) ==
  /\ stepStatus' = [stepStatus EXCEPT ![s] = "succeeded"]
  /\ evidence' = evidence \ {s} /\ settled' = settled \union {s}

\* Mutant of GoogleSettle: the task row is not refreshed.
GoogleSettleStepOnly(s, a) ==
  /\ s \in evidence /\ GoogleLoad(s, a)
  /\ Settled(s)
  /\ claim' = [claim EXCEPT ![s] = 0] /\ lease' = [lease EXCEPT ![s] = 0]
  /\ journal' = [journal EXCEPT ![s] = "succeeded"] /\ UNCHANGED <<renewed, box>>
  /\ UNCHANGED taskStatus /\ RestKept

GoogleSettle(s, a) ==
  /\ s \in evidence /\ GoogleLoad(s, a)
  /\ Settled(s)
  /\ claim' = [claim EXCEPT ![s] = 0] /\ lease' = [lease EXCEPT ![s] = 0]
  /\ journal' = [journal EXCEPT ![s] = "succeeded"] /\ UNCHANGED <<renewed, box>>
  /\ Refresh({s[1]}) /\ RestKept

\* Mutant of CrmSettle: the step is not read again.
CrmSettleUnchecked(s) ==
  /\ s \in evidence /\ Crm(s)
  /\ Settled(s)
  /\ UNCHANGED <<claim, lease, taskStatus, googleVars>> /\ RestKept

\* Only the step is asked again, and only the step is written.
CrmSettle(s) ==
  /\ s \in evidence /\ Crm(s) /\ stepStatus[s] = "uncertain"
  /\ Settled(s)
  /\ UNCHANGED <<claim, lease, taskStatus, googleVars>> /\ RestKept

\* The second check refuses, the credential is fenced, or the process dies.
Drop(s) ==
  /\ s \in evidence /\ evidence' = evidence \ {s}
  /\ UNCHANGED <<vars, googleVars, settled>>

Reconciling ==
  \E s \in Step : \/ CrmSettle(s) \/ Drop(s)
                  \/ \E a \in Actor : GoogleLook(s, a) \/ GoogleSettle(s, a) \/ CrmLook(s, a)

\* The engine's own steps, with the handler of a Google write taken apart.
EngineStep ==
  \/ /\ \/ Arrival \/ Control \/ Runs \/ Environment
        \/ \E w \in Worker : Claim(w) \/ Fence(w) \/ (FinishStep(w) /\ Returned(w))
        \/ \E d \in Device : Runner(d)
     /\ UNCHANGED box
  \/ \E w \in Worker : Request(w)

ReconcilersNext ==
  \/ Reconciling \/ Renew \/ \E s \in Step : Spoil(s)
  \/ \E w \in Worker : JournalDispatch(w) \/ JournalAnswer(w)
  \/ EngineStep /\ UNCHANGED <<journal, renewed, evidence, settled>>

ReconcilersSpec == ReconcilersInit /\ [][ReconcilersNext]_allVars

-----------------------------------------------------------------------------
(* Properties. *)

\* The look-up is not in the transaction that uses it: a step that an owner, a late
\* finish or the other reconciler settled meanwhile keeps its outcome, and doubt is
\* only ever resolved by an owner or by evidence.
SettledStaysSettled ==
  [][\A s \in Step :
       /\ stepStatus[s] \in {"succeeded", "failed", "cancelled"} => stepStatus'[s] = stepStatus[s]
       /\ stepStatus[s] = "uncertain" /\ stepStatus'[s] # "uncertain"
            => s \in reconciled' \union settled']_allVars

\* crm_reconcile.py:3 and google_reconcile.py:3: only evidence that matches the step
\* settles it, so a step that evidence settled did reach its provider.
EvidenceIsOfThisStep == \A s \in settled : effects[s] > 0

\* The engine's row and the journal's are written by the worker and by the reconciler, each in
\* transactions of its own (google_adapters.py, google_reconcile.py): no request leaves without its row, a
\* journal says succeeded of what reached Google alone, and, short of an owner's verdict, a
\* step that succeeded has a journal that says so, whoever comes late.
JournalAgrees ==
  \A s \in Step : Google(s) =>
    /\ effects[s] > 0 => journal[s] # "none"
    /\ journal[s] = "succeeded" => effects[s] > 0
    /\ stepStatus[s] = "succeeded" /\ s \notin reconciled => journal[s] = "succeeded"

\* GoogleReconciler.reconcile: a task follows its steps also through a settlement, so
\* its later steps become candidates again.
TaskFollowsGoogle == \A t \in Task \ CrmTask : taskStatus[t] = Derived(stepStatus, t)

=============================================================================
