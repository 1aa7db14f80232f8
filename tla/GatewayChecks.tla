----------------------------- MODULE GatewayChecks -----------------------------
(***************************************************************************)
(* What the answers of the business graph may not hide, what the readers of CRM  *)
(* and database configurations may not let through, and what the intake of messages  *)
(* and postings may neither lose nor guess, over small inputs.  The ceilings of the     *)
(* graph are the constants of BusinessGraph.                                               *)
(***************************************************************************)
EXTENDS BusinessGraph, CrmGateway, DatabaseGateway, WhatsAppHook, ErpPosting

ProductEntry == [order |-> <<"erp", "till">>, attrs |-> {"price"}, attrOrder |-> [price |-> <<"till">>]]
CellRow == [id : 1..2, cells : [{"price"} -> 0..2]]
RowSeqs == UNION {[1..n -> CellRow] : n \in 0..2}
Feeds == [up : BOOLEAN, rows : RowSeqs]
Seen2(erp, till, limit) == [erp |-> Fetched(erp, limit), till |-> Fetched(till, limit)]
Rules == {"primary_wins", "report"}

(* A disputed value is decided by a declared priority or by nobody, what is selected was observed,  *)
(* and a source that was down or cut before its row was found is named in the answer                   *)
(* (business_graph.py, _view and _primary).                                                              *)
ASSUME NothingChosenSilently == \A erp, till \in Feeds, rule \in Rules, limit \in 1..2 :
  LET seen == Seen2(erp, till, limit)
      view == ViewOf(ProductEntry, seen, 1, rule)
      values == view.values["price"]
      chosen == view.selected["price"]
  IN /\ ToSet(chosen) \subseteq ToSet(values) /\ Len(chosen) <= 1
     /\ rule = "report" /\ chosen # << >> => "price" \notin view.conflicts
     /\ values # << >> /\ chosen = << >> => "price" \in view.conflicts /\ rule = "report"
     /\ "price" \in view.conflicts /\ rule = "primary_wins" => chosen[1].source = "till"
     /\ \A s \in {"erp", "till"} :
          view.errors = {} /\ ~view.truncated /\ OfId([erp |-> erp, till |-> till][s].rows, 1) # << >>
            => s \in Matching(ProductEntry, seen, 1)

(* The ids of a list that is neither cut nor short of a source are those of every row its sources   *)
(* returned, each once (business_graph.py, identifiers).                                                *)
ASSUME IdsAreWhole == \A erp, till \in Feeds, limit \in 1..2 :
  LET seen == Seen2(erp, till, 2)
      r == Identifiers(ProductEntry, seen, limit)
  IN /\ Cardinality(ToSet(r.ids)) = Len(r.ids) /\ Len(r.ids) <= limit
     /\ ~r.cut => ToSet(r.ids) = UNION {{row.id : row \in ToSet(seen[s].rows)} : s \in {"erp", "till"}}

(* A search or a list of conflicts that calls itself whole and complete found every match among the  *)
(* ids it walked, and a timeline every row of the id (business_graph.py, search, conflicts, timeline).  *)
ASSUME AnswersSayTheirCuts == \A erp, till \in Feeds, limit \in 1..2 :
  LET seen == Seen2(erp, till, 2)
      found == SearchEntities(ProductEntry, seen, "price", 1, limit, "report")
      disputes == Conflicts(ProductEntry, seen, limit, "report")
      walked == ToSet(Identifiers(ProductEntry, seen, MaxMatches).ids)
      line == Timeline(ProductEntry, seen, 1, limit)
  IN /\ ~found.truncated => \A id \in walked :
          1 \in Distinct(Observations(ProductEntry, seen, id, "price")) <=> id \in ToSet(found.matches)
     /\ ~disputes.truncated => \A id \in walked :
          Disputed(Observations(ProductEntry, seen, id, "price")) <=> <<id, "price">> \in ToSet(disputes.conflicts)
     /\ ~line.truncated /\ line.complete =>
          Len(line.events) = Len(OfId(erp.rows, 1)) + Len(OfId(till.rows, 1))
     /\ LET told == Explain(ProductEntry, seen, 1, "price", "report", {"erp", "till"})
        IN told.observed \intersect told.missing = {} /\ told.observed \union told.missing = {"erp", "till"}
-----------------------------------------------------------------------------
(* CRM.                                                                     *)

Digits == UNION {[1..n -> {7, 8}] : n \in {5, 7, 11}} \union {[k \in 1..n |-> 9] : n \in 8..16}
(* A number that was normalized is international and stays what it is when normalized again          *)
(* (crm_contract.py, normalize_phone), so that one customer is not two in the customer system.           *)
ASSUME PhonesSettle == \A plus \in BOOLEAN, digits \in Digits :
  LET once == Normalized(plus, digits)
  IN once # << >> => Len(once) \in 7..15 /\ Normalized(TRUE, once) = once

LeadRow == [id : 0..2]
(* A list of stalled leads holds only what can be followed up and no more than fifty rows, whatever  *)
(* limit is asked for, and a driver without the feed is never asked (tool_crm_lead_stalled).              *)
ASSUME StalledAreNamed == \A rows \in UNION {[1..n -> LeadRow] : n \in 0..3}, limit \in {-1, 2, 99}, declares \in BOOLEAN,
                             told \in {"rows", "error"} :
  LET r == StalledFeed(declares, told, rows, limit)
  IN IF r.kind = "leads" THEN declares /\ told = "rows" /\ \A i \in DOMAIN r.leads : r.leads[i].id # 0
                              /\ Len(r.leads) <= Clamp(limit, 1, 50)
     ELSE declares => r.kind = "conflict"
-----------------------------------------------------------------------------
(* Databases.                                                               *)

TableFacts == [kind : {"table", "view"}, fields : BOOLEAN, unique : BOOLEAN, trigger : BOOLEAN, foreign : BOOLEAN]
Rec(there, version) == [there |-> there, version |-> version, mine |-> 0, theirs |-> 0, seq |-> 0, by |-> "customer"]
(* No transport, whatever its database says of the table, overwrites a record of another version or   *)
(* inserts over one, and a refused table is never written (the eleven backends of                         *)
(* platform_runtime/database).                                                                             *)
ASSUME TransportsAgree == \A d \in OneStep, t \in TableFacts, there \in BOOLEAN, version \in 1..2, op \in {"insert", "update"} :
  LET request == [op |-> op, expected |-> IF op = "insert" THEN 0 ELSE 1]
      verdict == TransportVerdict(d, t, Rec(there, version), request)
      safe == t.kind = "table" /\ t.unique /\ t.fields /\ ~t.trigger /\ ~t.foreign
  IN /\ verdict = "lands" => IF op = "insert" THEN ~there ELSE there /\ version = 1
     /\ safe => verdict = (IF (op = "insert" /\ ~there) \/ (op = "update" /\ there /\ version = 1) THEN "lands" ELSE "conflict")

DbConfig == [version : {"1.1"}, enabled : BOOLEAN, lifecycle : {"healthy", "revoked"}, generation : 0..1, agents : {{"a"}},
             caps : {{"read"}, {"read", "execute_write"}}, isolation : {"tenant_column", "dedicated_database"},
             bound : {"none", "t1"}, scope : {{}, {"tenant"}}, protected : {{"tenant", "version"}},
             writable : {{"sum"}, {"sum", "tenant"}}, readable : {{"sum", "version"}, {"sum", "tenant", "version"}},
             inline : {FALSE}]
(* A connection that reads as valid never lets a write reach the tenant, key or version column, and   *)
(* shares no dedicated database with another tenant (contract.py, validate_config and normalize).         *)
ASSUME ProtectedStays == \A c \in DbConfig, op \in {"insert", "update"}, fields \in SUBSET {"sum", "tenant", "version"} :
  LET request == [op |-> op, keyed |-> TRUE, fields |-> fields, expected |-> 1, limit |-> 1]
  IN /\ ValidDb(c, "t1", "a", "execute_write") /\ DbRequestFits(c, request, 9) =>
          fields \intersect c.protected = {} /\ "execute_write" \in c.caps
     /\ c.isolation = "dedicated_database" => ~ValidDb(c, "t2", "a", "read")
(* A result is returned whole and within its bytes, or not at all (transports.py, _rows).               *)
ASSUME ResultsAreWhole == \A sizes \in UNION {[1..n -> 1..4] : n \in 0..3} :
  Shown(sizes, 3, 6) => /\ \A k \in DOMAIN sizes : sizes[k] <= 3
                        /\ FoldSeq(LAMBDA size, sum: sum + size, 0, sizes) <= 6
-----------------------------------------------------------------------------
(* Intake.                                                                  *)

Contacts == [n1 |-> "ali"]
Sent(shaped, from, kind, text, stamp) == [shaped |-> shaped, from |-> from, kind |-> kind, text |-> text, stamp |-> stamp]
SentMessages == {Sent(TRUE, "n1", "text", TRUE, 5), Sent(TRUE, "n1", "text", TRUE, 0), Sent(FALSE, "n1", "text", TRUE, 5),
                 Sent(TRUE, "n2", "text", TRUE, 5), Sent(TRUE, "n1", "image", TRUE, 5), Sent(TRUE, "n1", "text", FALSE, 5)}
SentChanges == [field : {"messages", "account_update"}, shaped : BOOLEAN, statuses : 0..1,
                messages : UNION {[1..n -> SentMessages] : n \in 0..2}]
(* Each message and status of a body within its limits is decided once: an event for every text of a  *)
(* declared contact, in order and with a window only from a stamp that reads, or a drop with its         *)
(* reason; a change of another field brings neither event nor silence (whatsapp_inbound.py, unwrap).       *)
ASSUME EveryMessageIsDecided == \A change \in SentChanges, other \in {c \in SentChanges : Len(c.messages) = 1 /\ c.statuses = 0} :
  LET r == Unwrapped(<<<<change, other>>>>, Contacts, 24, 2)
      read == SelectSeq(<<change, other>>, LAMBDA c: c.field = "messages" /\ c.shaped)
      said == FlattenSeq([i \in DOMAIN read |-> read[i].messages])
      meant == SelectSeq(said, LAMBDA m: m.shaped /\ m.from = "n1" /\ m.kind = "text" /\ m.text)
  IN /\ Len(r.events) + Len(r.drops) = Len(said) + FoldSeq(LAMBDA c, sum: sum + c.statuses, 0, read) + 2 - Len(read)
     /\ r.events = [i \in DOMAIN meant |-> [sender |-> "ali", until |-> IF meant[i].stamp = 0 THEN 0 ELSE 29]]

Register(enabled) == [enabled |-> enabled, accounts |-> <<"x", "y">>, counterparties |-> <<"c">>]
(* A posting is made of a whole document and of two declared aliases, whose targets are the           *)
(* register's; otherwise the refusal names all that is absent, and only when nothing given is wrong       *)
(* (erp.py, resolve_posting: "no field is inferred").                                                      *)
ASSUME NothingGuessed == \A document \in [DocumentFields -> {"absent", "bad", "good"}], enabled \in BOOLEAN,
                            account \in 0..3, counterparty \in 0..2 :
  LET r == ResolvedPosting(Register(enabled), document, account, counterparty)
  IN /\ (r.refusal = "") <=> enabled /\ account \in 1..2 /\ counterparty = 1
                            /\ \A f \in DocumentFields : document[f] = "good"
     /\ r.refusal = "" => r.account = <<"x", "y">>[account] /\ r.counterparty = "c"
     /\ r.refusal = "incomplete" =>
          /\ \A f \in DocumentFields : document[f] = "good" <=> f \notin r.missing
          /\ ("account" \in r.missing) = (account = 0) /\ ("counterparty" \in r.missing) = (counterparty = 0)
=============================================================================
