------------------------------- MODULE MCServices -------------------------------
(***************************************************************************)
(* Small instances of the services that do not share state, checked in one run:  *)
(* each behaviour is of one of them, the subject chosen at the start, and the rest    *)
(* keep their initial state.  Their pure operators are checked by the assumptions of    *)
(* ReportChecks and GatewayChecks.                                                        *)
(***************************************************************************)
EXTENDS ModelCalls, Conversation, Outreach, Escalation, Schedules, WhatsAppHook, WhatsAppWindow,
        ErpPosting, OAuthConnection, Documents, Inventory, FirstOrders, GoogleSync, Identity,
        ReportChecks, GatewayChecks

VARIABLE subject

Entity == [order |-> <<"s1", "s2">>, attrs |-> {"price", "cost"},
           attrOrder |-> [price |-> << >>, cost |-> <<"s2", "s1">>]]
CellPairs == {[price |-> 2, cost |-> 1]}
SourceLimits == [s1 |-> 1, s2 |-> 2]

Invoices ==
  {[number |-> "n1", total |-> 2, currency |-> "usd", account |-> "x", lines |-> <<[quantity |-> 2, amount |-> 1]>>],
   [number |-> "n1", total |-> 3, currency |-> "usd", account |-> "x", lines |-> << >>],
   [number |-> "n2", total |-> 6, currency |-> "usd", account |-> "y", lines |-> << >>]}
Papers == {[total |-> 2, currency |-> "usd"]}

CrmRequests == {[kind |-> "lead", legal |-> TRUE, what |-> 1], [kind |-> "deal", legal |-> TRUE, what |-> 2],
                [kind |-> "deal", legal |-> FALSE, what |-> 2],
                [kind |-> "note", legal |-> TRUE, what |-> 3], [kind |-> "note", legal |-> FALSE, what |-> 3]}

DbRequests == [d1 |-> [op |-> "update", tenant |-> "a", key |-> "k", expected |-> 1, legal |-> TRUE],
               d2 |-> [op |-> "insert", tenant |-> "a", key |-> "k", expected |-> 0, legal |-> TRUE]]
Orders == [kind |-> "table", fields |-> TRUE, trigger |-> FALSE, foreign |-> FALSE, unique |-> TRUE]

Subjects == {"calls", "conversation", "outreach", "escalation", "schedules", "hook", "window", "erp",
             "oauth", "documents", "inventory", "crm", "database", "orders", "sync", "identity"}

ServicesInit ==
  /\ subject = "none"
  /\ ModelCallsInit /\ ConversationInit /\ OutreachInit /\ EscalationInit /\ SchedulesInit
  /\ HookInit /\ WindowInit /\ ErpInit /\ OAuthInit /\ DocumentsInit /\ InventoryInit /\ CrmInit
  /\ DatabaseInit /\ FirstOrdersInit /\ SyncInit /\ IdentityInit

everyService ==
  <<modelCallVars, convVars, outreachVars, escalationVars, schedulesVars, hookVars, windowVars, erpVars,
    oauthVars, docVars, inventoryVars, crmVars, dbVars, orderVars, syncVars, identityVars>>

\* The services that are not the subject stand still.
Still ==
  /\ UNCHANGED subject
  /\ subject # "calls" => UNCHANGED modelCallVars
  /\ subject # "conversation" => UNCHANGED convVars
  /\ subject # "outreach" => UNCHANGED outreachVars
  /\ subject # "escalation" => UNCHANGED escalationVars
  /\ subject # "schedules" => UNCHANGED schedulesVars
  /\ subject # "hook" => UNCHANGED hookVars
  /\ subject # "window" => UNCHANGED windowVars
  /\ subject # "erp" => UNCHANGED erpVars
  /\ subject # "oauth" => UNCHANGED oauthVars
  /\ subject # "documents" => UNCHANGED docVars
  /\ subject # "inventory" => UNCHANGED inventoryVars
  /\ subject # "crm" => UNCHANGED crmVars
  /\ subject # "database" => UNCHANGED dbVars
  /\ subject # "orders" => UNCHANGED orderVars
  /\ subject # "sync" => UNCHANGED syncVars
  /\ subject # "identity" => UNCHANGED identityVars

ChooseSubject == subject = "none" /\ subject' \in Subjects /\ UNCHANGED everyService

ServicesNext ==
  \/ ChooseSubject
  \/ subject = "calls" /\ Still /\ ModelCallsNext
  \/ subject = "conversation" /\ Still /\ ConversationNext
  \/ subject = "outreach" /\ Still /\ OutreachNext
  \/ subject = "escalation" /\ Still /\ EscalationNext
  \/ subject = "schedules" /\ Still /\ SchedulesNext
  \/ subject = "hook" /\ Still /\ HookNext
  \/ subject = "window" /\ Still /\ WindowNext
  \/ subject = "erp" /\ Still /\ ErpNext
  \/ subject = "oauth" /\ Still /\ OAuthNext
  \/ subject = "documents" /\ Still /\ DocumentsNext
  \/ subject = "inventory" /\ Still /\ InventoryNext
  \/ subject = "crm" /\ Still /\ CrmNext
  \/ subject = "database" /\ Still /\ DatabaseNext
  \/ subject = "orders" /\ Still /\ FirstOrdersNext
  \/ subject = "sync" /\ Still /\ SyncNext
  \/ subject = "identity" /\ Still /\ IdentityNext

\* States are told apart by the subject's variables alone: the others never change.
ServicesView ==
  <<subject,
    CASE subject = "none" -> everyService
      [] subject = "calls" -> modelCallVars [] subject = "conversation" -> convVars
      [] subject = "outreach" -> outreachVars [] subject = "escalation" -> escalationVars
      [] subject = "schedules" -> schedulesVars [] subject = "hook" -> hookVars
      [] subject = "window" -> windowVars [] subject = "erp" -> erpVars [] subject = "oauth" -> oauthVars
      [] subject = "documents" -> docVars [] subject = "inventory" -> inventoryVars
      [] subject = "crm" -> crmVars [] subject = "database" -> dbVars [] subject = "orders" -> orderVars
      [] subject = "sync" -> syncVars [] subject = "identity" -> identityVars>>

\* Bounds: an operator writes, and an order is made, among two turns of a chat and not among three; nor
\* both at once.
\* A behaviour is followed up to a handled handoff: no guard reads that it is handled.
ConversationBound ==
  /\ \A t \in Turn : ~turn[t].handled
  /\ turn[MaxTurns].status # "none" =>
       \A o \in OperatorTask, t \in Turn : opTask[o].status = "none" /\ order[t] = "none"
  /\ (\E o \in OperatorTask : opTask[o].status # "none") => \A t \in Turn : order[t] = "none"

\* One call of two is retried, and one reservation reconciled, before the second month and under the
\* lower budget; a second parallel call is allowed, and taken back, among first attempts.
CallsBound ==
  LET firstAttempts == \A c \in Call : callAt[c].attempt = 1
      reconciled == {c \in Call : \E i \in Attempt : hold[c][i].status = "reconciled"}
  IN /\ \A c, d \in Call : c # d => callAt[c].attempt = 1 \/ callAt[d].attempt = 1
     /\ Cardinality(reconciled) <= 1
     /\ month = 1 => firstAttempts /\ budget.limit = 4
     /\ budget.limit = 5 => firstAttempts
     /\ budget.parallel = 2 \/ cut # {} =>
          /\ budget.limit = 4 /\ month = 0 /\ firstAttempts /\ reconciled = {}
          /\ \A c \in Call : ~hold[c][1].old

\* An outreach is frozen or revoked under one cycle, not two.
OutreachBound == outreach # "ok" => \E w \in Caller : \A v \in Caller \ {w} : caller[v].pc = "idle"

\* The second day comes while no cycles have overlapped: of those that have, the number of
\* messages is not promised.
EscalationBound == overlapped => escWorld.day = 1

\* Of an account that has the first object or has changed: two calls at once read its first pages while it
\* changes at most once; the second account has the first object, changes at most once, and
\* follows an account that has not changed.
SyncBound ==
  /\ drive[1].content[1] # 0 \/ drive[1].log # << >>
  /\ driveAccount = 1 => \A o \in Object : drive[2].content[o] # 0 <=> o = 1
  /\ driveAccount = 2 => drive[1].log = << >> /\ Len(drive[2].log) <= 1
  /\ (\E w, v \in Syncer : w # v /\ syncer[w].pc # "idle" /\ syncer[v].pc # "idle") =>
       driveAccount = 1 /\ syncStream.revision < 3 /\ Len(drive[1].log) <= 1

\* One source of a catalogue is down at a time; its agent loses the policy in a read, with both up.
InventoryBound ==
  /\ \E s \in GraphSource : feeds[s].up
  /\ ~allowed => catalogue.pc = "items" /\ \A s \in GraphSource : feeds[s].up

\* The founder is not invited; a family lapses, and a request is looked at, before a second invitation,
\* which is open once the first was accepted.
IdentityBound ==
  /\ \A i \in DOMAIN invitation : invitation[i].to # Founder
  /\ lapsedFamilies # {} => Cardinality(lapsedFamilies) = 1 /\ Len(invitation) <= 1
  /\ \A w \in WebRequest : webRequest[w] # {} => Len(invitation) <= 1 /\ lapsedFamilies = {}
  /\ Len(invitation) = 2 /\ invitation[2].status = "open" => invitation[1].status = "accepted"

ServicesBound ==
  /\ ConversationBound /\ OutreachBound /\ EscalationBound
  /\ CallsBound /\ SyncBound /\ InventoryBound /\ IdentityBound

ServicesSpec == ServicesInit /\ [][ServicesNext]_<<subject, everyService>>
=============================================================================
