----------------------------- MODULE WhatsAppHook -----------------------------
(***************************************************************************)
(* The WhatsApp webhook: a delivery of customers' messages is routed by the    *)
(* business numbers it names, verified by their tenants' secrets and accepted, *)
(* a message at a time, into the tenants' inboxes.  Meta delivers again what   *)
(* was not answered with a 2xx, in other batches too.                          *)
(*                                                                             *)
(* A message is what Meta sends under one id, addressed to a number of its     *)
(* tenant; a body whose signature nobody's secret made is left out.            *)
(***************************************************************************)
EXTENDS Naturals, FiniteSets, SequencesExt

CONSTANTS
  ShopA, ShopB, \* messages to the numbers of two tenants; tenant a comes first in order
  Hook          \* threads of the web server

ASSUME HookAssumption == ShopA \intersect ShopB = {} /\ ShopA # {} /\ ShopB # {}

WaMsg == ShopA \union ShopB
Shop == {"a", "b"}
ShopOf(m) == IF m \in ShopA THEN "a" ELSE "b"

VARIABLES
  meta,     \* Meta's view of a message: "unwritten", "due", "acked" (2xx), "refused" (dropped)
  waInbox,  \* p_events of the channel: the messages each tenant accepted
  hook,     \* memory of the threads: the batch, what is to accept, what is dropped
  shop      \* each tenant: how its configuration reads and whether its inbox takes events

hookVars == <<meta, waInbox, hook, shop>>

\* A tenant's number is declared and its own secret signs; or another Meta app's secret does;
\* or nobody declares it; or its configuration cannot be read, or two tenants declare it.
Config == {"declared", "othersecret", "undeclared", "unroutable"}

HookIdle == [pc |-> "idle", batch |-> {}, todo |-> {}, dropped |-> {}]

HookInit ==
  /\ meta = [m \in WaMsg |-> "unwritten"]
  /\ waInbox = [s \in Shop |-> {}]
  /\ hook = [h \in Hook |-> HookIdle]
  /\ shop = [s \in Shop |-> [config |-> "declared", takes |-> TRUE]]

-----------------------------------------------------------------------------
MessageWritten(m) ==
  /\ meta[m] = "unwritten" /\ meta' = [meta EXCEPT ![m] = "due"]
  /\ UNCHANGED <<waInbox, hook, shop>>

\* A tenant is frozen or its inbox full, and is not again; an operator edits its configuration.
ShopChanges(s) ==
  /\ \/ shop' = [shop EXCEPT ![s].takes = ~@]
     \/ \E c \in Config \ {shop[s].config} : shop' = [shop EXCEPT ![s].config = c]
  /\ UNCHANGED <<meta, waInbox, hook>>

\* Meta posts what it still has to deliver, in batches of its own making; a batch it thinks
\* unanswered may be on its way twice.
Post(h, batch) ==
  /\ hook[h].pc = "idle" /\ batch # {} /\ \A m \in batch : meta[m] = "due"
  /\ hook' = [hook EXCEPT ![h] = [HookIdle EXCEPT !.pc = "route", !.batch = batch]]
  /\ UNCHANGED <<meta, waInbox, shop>>

\* _routes: the tenants that own the numbers the delivery names.
Owners(batch) == {s \in Shop : shop[s].config # "undeclared" /\ \E m \in batch : ShopOf(m) = s}

\* _verified: those of them whose secret signed these bytes.
Verified(batch) == {s \in Owners(batch) : shop[s].config = "declared"}

\* Strict reading: one tenant that cannot be read or routed refuses the whole delivery.
Routable == \A s \in Shop : shop[s].config # "unroutable"

\* Up to the first acceptance.  No owner: acknowledged (_ignored).  Owners none of whom
\* verifies: 401.  Else the messages of the verified owners go on, the others are dropped.
Route(h) ==
  LET batch == hook[h].batch
      mine  == {m \in batch : ShopOf(m) \in Verified(batch)}
  IN /\ hook[h].pc = "route"
     /\ hook' = [hook EXCEPT ![h] =
          IF ~Routable \/ (Owners(batch) # {} /\ Verified(batch) = {}) THEN HookIdle
          ELSE [@ EXCEPT !.pc = "accept", !.todo = mine, !.dropped = batch \ mine]]
     /\ UNCHANGED <<meta, waInbox, shop>>

\* Mutant of AcceptMessage: a tenant that takes no events has its messages skipped.
AcceptMessageOrSkip(h, m) ==
  LET s == ShopOf(m)
  IN /\ hook[h].pc = "accept" /\ m \in hook[h].todo
     /\ hook' = [hook EXCEPT ![h].todo = @ \ {m}]
     /\ waInbox' = IF shop[s].takes THEN [waInbox EXCEPT ![s] = @ \union {m}] ELSE waInbox
     /\ UNCHANGED <<meta, shop>>

\* accept_customer_messages, tenant by tenant: a message of the inbox is a duplicate; a frozen
\* tenant or a full inbox raises, and the tenants already served keep theirs.
AcceptMessage(h, m) ==
  LET s == ShopOf(m)
  IN /\ hook[h].pc = "accept" /\ m \in hook[h].todo
     /\ s = "a" \/ hook[h].todo \intersect ShopA = {}
     /\ IF m \in waInbox[s] \/ shop[s].takes
        THEN /\ hook' = [hook EXCEPT ![h].todo = @ \ {m}]
             /\ waInbox' = [waInbox EXCEPT ![s] = @ \union {m}]
        ELSE hook' = [hook EXCEPT ![h] = HookIdle] /\ UNCHANGED waInbox
     /\ UNCHANGED <<meta, shop>>

\* The 2xx: Meta delivers nothing of the batch again.
Acknowledge(h) ==
  LET lost == hook[h].dropped \intersect {m \in WaMsg : meta[m] = "due"}
      kept == hook[h].batch \ hook[h].dropped
  IN /\ hook[h].pc = "accept" /\ hook[h].todo = {}
     /\ meta' = [m \in WaMsg |-> IF m \in kept THEN "acked" ELSE IF m \in lost THEN "refused" ELSE meta[m]]
     /\ hook' = [hook EXCEPT ![h] = HookIdle] /\ UNCHANGED <<waInbox, shop>>

\* The thread or the connection dies: no answer.
HookDies(h) ==
  /\ hook[h].pc # "idle" /\ hook' = [hook EXCEPT ![h] = HookIdle]
  /\ UNCHANGED <<meta, waInbox, shop>>

HookNext ==
  \/ \E m \in WaMsg : MessageWritten(m)
  \/ \E s \in Shop : ShopChanges(s)
  \/ \E h \in Hook, batch \in SUBSET WaMsg : Post(h, batch)
  \/ \E h \in Hook : Route(h) \/ Acknowledge(h) \/ HookDies(h) \/ \E m \in WaMsg : AcceptMessage(h, m)

HookSpec == HookInit /\ [][HookNext]_hookVars

-----------------------------------------------------------------------------
(* Rules 2 and 4 of app/whatsapp_api.py: a message Meta will not deliver again is in  *)
(* its tenant's inbox, whatever batches it travelled in and whatever failed or was     *)
(* reconfigured between, unless the configuration read for a delivery of it gave its   *)
(* number to no tenant that signed.                                                    *)
AckedIsKept == \A m \in WaMsg : meta[m] = "acked" => m \in waInbox[ShopOf(m)]
-----------------------------------------------------------------------------
(* The walk of one body (unwrap), pure.  A message is [shaped, from, kind, text, stamp], stamp 0    *)
(* for a timestamp that does not read; a change [field, shaped, messages, statuses], of which          *)
(* statuses is a number; an entry is a sequence of changes, and a body a sequence of entries.  An        *)
(* entry that is no object stands as one change without shape, which is dropped for the same reason.       *)

\* _message: the reason it is dropped for, in this order, or the event it becomes, whose window is
\* opened by Meta's own timestamp alone.
Refusal(m, declared) ==
  CASE ~m.shaped -> "not_a_message"
    [] m.shaped /\ m.from \notin DOMAIN declared -> "undeclared_contact"
    [] m.shaped /\ m.from \in DOMAIN declared /\ m.kind # "text" -> "unsupported_type"
    [] m.shaped /\ m.from \in DOMAIN declared /\ m.kind = "text" /\ ~m.text -> "empty_text"
    [] OTHER -> ""
EventOf(m, declared, window) ==
  [sender |-> declared[m.from], until |-> IF m.stamp = 0 THEN 0 ELSE m.stamp + window]

FirstUpTo(seq, limit) == SubSeq(seq, 1, IF Len(seq) < limit THEN Len(seq) ELSE limit)

\* _change: the customers' messages of a subscribed field, each an event or a drop, and a drop for
\* each delivery status.
ChangeWalk(change, declared, window, limit) ==
  LET walked == FirstUpTo(change.messages, limit)
      Taken(m) == Refusal(m, declared) = ""
      events == SelectSeq(walked, Taken)
      refused == SelectSeq(walked, LAMBDA m: ~Taken(m))
      statuses == IF change.statuses < limit THEN change.statuses ELSE limit
  IN IF change.field # "messages" THEN [events |-> << >>, drops |-> <<"field_not_subscribed">>]
     ELSE IF ~change.shaped THEN [events |-> << >>, drops |-> <<"not_a_message">>]
     ELSE [events |-> [i \in DOMAIN events |-> EventOf(events[i], declared, window)],
           drops |-> [i \in DOMAIN refused |-> Refusal(refused[i], declared)]
                     \o [i \in 1..statuses |-> "status_callback"]]

\* unwrap: entries and changes up to their limits; what is beyond is neither an event nor a drop.
Unwrapped(entries, declared, window, limit) ==
  LET walked == FlattenSeq([i \in DOMAIN FirstUpTo(entries, limit) |-> FirstUpTo(entries[i], limit)])
      results == [i \in DOMAIN walked |-> ChangeWalk(walked[i], declared, window, limit)]
  IN [events |-> FlattenSeq([i \in DOMAIN results |-> results[i].events]),
      drops |-> FlattenSeq([i \in DOMAIN results |-> results[i].drops])]
=============================================================================
