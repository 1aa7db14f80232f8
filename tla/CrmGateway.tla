------------------------------- MODULE CrmGateway -------------------------------
(***************************************************************************)
(* Customer systems behind one gateway (platform_runtime/crm): a lead or a deal   *)
(* is planned, shown to a person with its fingerprint, and written by a later step    *)
(* that recomputes the fingerprint from the connection as it then is.  A note (a call   *)
(* or a message attached to a lead's timeline) is approved by its words alone.  The       *)
(* owner may move the connection, and its provider may answer, refuse, accept without an   *)
(* id or be lost, in between.  The approval of a step is TaskEngine's.                      *)
(***************************************************************************)
EXTENDS Integers, FiniteSets, Sequences

CONSTANTS
  CrmHost,      \* hosts on the connection's allowlist, and NoHost outside it
  NoHost,
  CrmDriver,    \* drivers the connection may name
  CrmRequest,   \* requests: [kind: "lead", "deal" or "note", legal: what their parse answers]
  CrmStep,      \* steps that write
  MaxMoves      \* bound: times the owner changes the connection

ASSUME CrmAssumption == NoHost \notin CrmHost /\ CrmRequest \subseteq [kind : {"lead", "deal", "note"}, legal : BOOLEAN, what : Nat]

VARIABLES
  crm,      \* the connection: host, driver, capabilities, whether it is enabled and the agent's
  approvals,\* fingerprints a person approved
  writers,  \* a write under way, by step
  records,  \* what the provider holds, and where it was written
  moves

crmVars == <<crm, approvals, writers, records, moves>>

Ready == [host |-> CHOOSE h \in CrmHost : TRUE, driver |-> CHOOSE d \in CrmDriver : TRUE,
          caps |-> {"read", "plan_write", "execute_write"}, enabled |-> TRUE, agent |-> TRUE]
NoWrite == [pc |-> "idle"]

CrmInit ==
  /\ crm = Ready /\ approvals = {} /\ records = {} /\ moves = 0
  /\ writers = [s \in CrmStep |-> NoWrite]

-----------------------------------------------------------------------------
\* _check_agent_allowed and validate_crm_config: an empty allowlist permits nothing.
MayUse(c, capability) == c.agent /\ c.enabled /\ capability \in c.caps /\ c.host \in CrmHost

\* Mutant of Fingerprint: of the request alone.
FingerprintOfRequest(c, request) == [host |-> "any", driver |-> "any", request |-> request]

\* plan_crm_fingerprint: the connection's driver and host, and the request.
Fingerprint(c, request) == [host |-> c.host, driver |-> c.driver, request |-> request]

\* What the approval of attach_call and attach_message binds: the step's arguments name the
\* connection and carry the words, and nothing of where the connection points.
NoteBinding(request) == [host |-> "any", driver |-> "any", request |-> request]

\* The owner edits the connection: another host or driver, fewer or more capabilities.
ConfigureCrm(c) == moves < MaxMoves /\ moves' = moves + 1 /\ crm' = c /\ UNCHANGED <<approvals, writers, records>>

\* crm.lead.plan, and the person who approves the step with this fingerprint.  Only a lead has
\* a plan tool; a deal's fingerprint comes from whoever builds the step.
Approve(request) ==
  /\ request.kind # "note" /\ request.legal /\ (request.kind = "lead" => MayUse(crm, "plan_write"))
  /\ approvals' = approvals \union {Fingerprint(crm, request)}
  /\ UNCHANGED <<crm, writers, records, moves>>

\* The person who approves a note sees its words; they are parsed when it is sent.
ApproveNote(request) ==
  /\ request.kind = "note"
  /\ approvals' = approvals \union {NoteBinding(request)}
  /\ UNCHANGED <<crm, writers, records, moves>>

\* crm.lead.create and crm.deal.create, up to the call: the connection is read once, and the
\* fingerprint of the request with it must be the approved one.
Write(s, plan) ==
  /\ writers[s].pc = "idle" /\ plan.request.kind # "note" /\ MayUse(crm, "execute_write") /\ plan.request.legal
  /\ Fingerprint(crm, plan.request) = plan
  /\ writers' = [writers EXCEPT ![s] = [pc |-> "call", config |-> crm, request |-> plan.request]]
  /\ UNCHANGED <<crm, approvals, records, moves>>
WriteRefused(s, plan) ==
  /\ writers[s].pc = "idle" /\ plan.request.kind # "note"
  /\ ~(MayUse(crm, "execute_write") /\ plan.request.legal /\ Fingerprint(crm, plan.request) = plan)
  /\ writers' = [writers EXCEPT ![s] = [pc |-> "refused"]]
  /\ UNCHANGED <<crm, approvals, records, moves>>

\* crm.timeline.attach_call and attach_message, up to the call: no fingerprint is asked for.
Attach(s, plan) ==
  /\ writers[s].pc = "idle" /\ plan.request.kind = "note"
  /\ MayUse(crm, "execute_write") /\ plan.request.legal
  /\ writers' = [writers EXCEPT ![s] = [pc |-> "call", config |-> crm, request |-> plan.request]]
  /\ UNCHANGED <<crm, approvals, records, moves>>
AttachRefused(s, plan) ==
  /\ writers[s].pc = "idle" /\ plan.request.kind = "note"
  /\ ~(MayUse(crm, "execute_write") /\ plan.request.legal)
  /\ writers' = [writers EXCEPT ![s] = [pc |-> "refused"]]
  /\ UNCHANGED <<crm, approvals, records, moves>>

\* The adapter's call, never repeated by the gateway: what the provider did, and what the step is told.
Answers == {"created", "no id", "lost", "error"}
Wrote(answer) == answer \in {"created", "no id"}
Called(s, answer, landed) ==
  LET w == writers[s]
  IN /\ w.pc = "call" /\ (Wrote(answer) => landed) /\ (answer = "error" => ~landed)
     /\ records' = IF landed THEN records \union {[step |-> s, host |-> w.config.host, driver |-> w.config.driver,
                                                  request |-> w.request]} ELSE records
     /\ writers' = [writers EXCEPT ![s] = [pc |-> IF answer = "created" THEN "done" ELSE "raised"]]
     /\ UNCHANGED <<crm, approvals, moves>>

CrmNext ==
  \/ \E h \in CrmHost \union {NoHost}, d \in CrmDriver, caps \in {Ready.caps, {"read"}}, on \in BOOLEAN :
       ConfigureCrm([host |-> h, driver |-> d, caps |-> caps, enabled |-> on, agent |-> TRUE])
  \/ ConfigureCrm([Ready EXCEPT !.agent = FALSE])
  \/ \E request \in CrmRequest : Approve(request) \/ ApproveNote(request)
  \/ \E s \in CrmStep :
       \/ \E plan \in approvals :
            Write(s, plan) \/ WriteRefused(s, plan) \/ Attach(s, plan) \/ AttachRefused(s, plan)
       \/ \E answer \in Answers, landed \in BOOLEAN : Called(s, answer, landed)

CrmSpec == CrmInit /\ [][CrmNext]_crmVars

(* What a provider holds is what a person approved.  A lead or a deal was approved for the very   *)
(* host and driver that hold it: the connection may have moved since, and a write that no longer     *)
(* fits is refused (crm_gateway.py:124: "CRM lead plan changed or fingerprint mismatch; re-plan       *)
(* and re-approve").  A note was approved by its words alone, and lies wherever the connection          *)
(* pointed when it was sent, but never at a host outside the allowlist.                                  *)
WrittenAsApproved ==
  \A r \in records :
    /\ r.host \in CrmHost
    /\ IF r.request.kind = "note" THEN NoteBinding(r.request) \in approvals
       ELSE [host |-> r.host, driver |-> r.driver, request |-> r.request] \in approvals
-----------------------------------------------------------------------------
(* The reads, and the forms of what is read: pure.                          *)

\* search_mode, find_leads_by_mode: a driver without a text search gets phone and email alone.
SearchArgs(queryDriver, args) ==
  LET Filled(k) == args[k] # << >>
      text == IF Filled("query") THEN args.query ELSE IF Filled("phone") THEN args.phone ELSE args.email
  IN IF queryDriver THEN [query |-> text] ELSE [phone |-> args.phone, email |-> args.email]

\* find_leads, find_contacts of an adapter: at most fifty rows; a stalled lead needs an id.
Clamp(limit, low, high) == IF limit < low THEN low ELSE IF limit > high THEN high ELSE limit
Listing(rows, limit) ==
  SubSeq(rows, 1, IF Len(rows) <= Clamp(limit, 1, 50) THEN Len(rows) ELSE Clamp(limit, 1, 50))
Stalled(rows, limit) == SelectSeq(Listing(rows, limit), LAMBDA lead: lead.id # 0)

\* The stalled-lead feed: only a driver that has one, and its failure is a Conflict.
StalledFeed(declares, answer, rows, limit) ==
  IF ~declares THEN [kind |-> "forbidden"] ELSE IF answer = "error" THEN [kind |-> "conflict"]
  ELSE [kind |-> "leads", leads |-> Stalled(rows, limit)]

\* normalize_phone: an international number of seven to fifteen digits, the prefixes of two
\* countries filled in; <<>> is refused.
Starts(prefix, digits) == Len(digits) >= Len(prefix) /\ SubSeq(digits, 1, Len(prefix)) = prefix
Normalized(plus, digits) ==
  LET n == Len(digits)
      full == IF ~plus /\ Starts(<<8>>, digits) /\ n = 11
              THEN <<7>> \o Tail(digits) ELSE digits
  IN IF (plus \/ n \in 9..12) /\ n \in 7..15 THEN full ELSE << >>

\* provider_price: what a provider calls a price is a number of its range, or zero.
Price(value, ceiling) ==
  IF value.kind \in {"int", "float", "text"} /\ value.number \in 0..ceiling THEN value.number ELSE 0

\* parse_lead_request and its like: a title, and a phone or an email for a lead; the first that
\* is wrong is an error, an absent optional field its default.
LeadParses(data) ==
  /\ data.title = "text" /\ data.name # "bad" /\ data.phone # "bad" /\ data.email # "bad"
  /\ data.phone = "good" \/ data.email = "good"
  /\ data.price \in Nat /\ data.currency # "bad" /\ data.source # "bad" /\ data.comments # "bad"
DealParses(data) ==
  /\ data.title = "text" /\ data.price \in Nat
  /\ \A f \in {"currency", "stage", "contact", "lead"} : data[f] # "bad"
\* The words a call, a message and a follow-up may use.
CallWords == [direction |-> {"inbound", "outbound"}, sentiment |-> {"positive", "neutral", "negative", "urgent"}]
MessageWords == [direction |-> {"inbound", "outbound"}, channel |-> {"telegram", "whatsapp", "instagram", "web", "sms"}]
FollowupWords == [action |-> {"message", "call", "escalate"}]
WordsFit(data, words) == \A f \in DOMAIN words : data[f] \in words[f]

\* The tools: what each does to the world and whether it leaves the platform.  A follow-up is only
\* written in the audit.
CrmTools ==
  [read |-> {"crm.lead.search", "crm.lead.plan", "crm.contact.lookup", "crm.lead.stalled"},
   write |-> {"crm.lead.create", "crm.deal.create", "crm.timeline.attach_call",
              "crm.timeline.attach_message", "crm.lead.followup"},
   external |-> {"crm.lead.search", "crm.contact.lookup", "crm.lead.stalled", "crm.lead.create", "crm.deal.create",
                 "crm.timeline.attach_call", "crm.timeline.attach_message"}]
CrmStatus(c, implemented) ==
  IF c.lifecycle = "revoked" THEN "revoked"
  ELSE IF implemented THEN "configured_not_live_verified" ELSE "adapter_required"
=============================================================================
