------------------------------- MODULE Documents -------------------------------
(***************************************************************************)
(* Accounts-payable documents (platform_runtime/documents.py): an extracted    *)
(* invoice is normalised, stored once under the supplier's own number, compared  *)
(* with its order, its delivery and the supplier's earlier invoices, and ends as a *)
(* recorded posting plan.  The plan's reads and its two writes are transactions of  *)
(* their own, so tools of the same supplier interleave.                              *)
(***************************************************************************)
EXTENDS Integers, SequencesExt

CONSTANTS
  Invoice,      \* submissions: [number, total, currency, account, lines]; account "" is none
  Paper,        \* counterparts: [total, currency]
  NoPaper,      \* none was attached
  DocClerk,     \* workers running document tools
  Tolerance,    \* the operator's tolerance_minor
  Tolerances,   \* tolerance_minor of a step's arguments
  OutlierRatio,
  HistoryLimit, \* rows supplier_history returns
  MaxPlans      \* bound: plans recorded

ASSUME DocumentsAssumption ==
  /\ NoPaper \notin Paper /\ {Tolerance} \union Tolerances \subseteq Nat
  /\ {OutlierRatio, HistoryLimit} \subseteq Nat \ {0} /\ MaxPlans \in Nat

VARIABLES
  docs,   \* p_documents of one supplier, in the order they were created
  plans,  \* p_posting_plans: the key, the recommendation, [tolerance, began] of its making
  dclerk  \* memory of the tools

docVars == <<docs, plans, dclerk>>

NoDoc == [pc |-> "idle"]
DocumentsInit == docs = << >> /\ plans = << >> /\ dclerk = [w \in DocClerk |-> NoDoc]

-----------------------------------------------------------------------------
LineTotal(lines) == FoldSeq(LAMBDA line, sum: sum + line.quantity * line.amount, 0, lines)

\* normalize: line items, when there are any, must add up to the stated total.
Normal(doc) == doc.lines = << >> \/ LineTotal(doc.lines) = doc.total

\* Mutant of DocumentKey: a re-issued invoice with another amount is another document.
DocumentKeyWithAmount(doc) == <<doc.number, doc.total>>

\* document_key, within one supplier and kind.
DocumentKey(doc) == doc.number

Stored(doc) == {row \in ToSet(docs) : DocumentKey(row) = DocumentKey(doc)}

\* match: each attached paper agrees within the tolerance, in the invoice's currency.
Agrees(doc, paper, tolerance) ==
  /\ paper.currency = doc.currency
  /\ doc.total - paper.total \in -tolerance..tolerance
Match(doc, papers, tolerance) ==
  LET attached == {i \in DOMAIN papers : papers[i] # NoPaper}
      agreed == \A i \in attached : Agrees(doc, papers[i], tolerance)
  IN IF attached = {} THEN "incomplete"
     ELSE IF ~agreed THEN "mismatch"
     ELSE IF attached = DOMAIN papers THEN "matched" ELSE "partial"

\* _median: the middle of the sorted totals, the integer mean of the two when even.
Median(totals) ==
  LET sorted == SortSeq(totals, <)
      middle == Len(sorted) \div 2
  IN IF Len(sorted) % 2 = 1 THEN sorted[middle + 1]
     ELSE (sorted[middle] + sorted[middle + 1]) \div 2

\* supplier_history, without the document under test and other currencies, newest last.
Prior(doc) ==
  LET history == SubSeq(docs, Len(docs) - HistoryLimit + 1, Len(docs))
      recent == IF Len(docs) <= HistoryLimit THEN docs ELSE history
  IN SelectSeq(recent, LAMBDA row: row.currency = doc.currency /\ DocumentKey(row) # DocumentKey(doc))

\* fraud_signals over the history: amount_outlier, bank_account_changed.
Outlier(doc, prior) ==
  LET median == Median([i \in DOMAIN prior |-> prior[i].total])
  IN prior # << >> /\ median > 0 /\ doc.total >= median * OutlierRatio
AccountChanged(doc, prior) ==
  /\ prior # << >> /\ doc.account # ""
  /\ Last(prior).account \notin {"", doc.account}

Altered(doc) == \E row \in Stored(doc) : row.total # doc.total \/ row.currency # doc.currency

\* posting_plan: what the approver is recommended.
Recommendation(m) ==
  IF m.duplicate THEN "hold_for_duplicate_review"
  ELSE IF m.matched = "mismatch" THEN "hold_for_mismatch_review"
  ELSE IF m.matched = "incomplete" THEN "attach_missing_document"
  ELSE IF m.material THEN "review_fraud_signals"
  ELSE "ready_for_approval"

DocGo(w, m) == dclerk' = [dclerk EXCEPT ![w] = m]
Remembered(doc) == IF Stored(doc) = {} THEN Append(docs, doc) ELSE docs

-----------------------------------------------------------------------------
\* document.parse: the document is stored, or is a duplicate of the original kept.
ParseDocument(w, doc) ==
  /\ dclerk[w].pc = "idle" /\ Normal(doc)
  /\ docs' = Remembered(doc) /\ UNCHANGED <<plans, dclerk>>

\* _plan_tool to the first read: the tolerance of the step, or the operator's.
StartPlan(w, doc, papers, tolerance) ==
  /\ dclerk[w].pc = "idle" /\ Normal(doc) /\ Len(plans) < MaxPlans
  /\ DocGo(w, [pc |-> "history", doc |-> doc, began |-> Len(docs), tolerance |-> tolerance,
               matched |-> Match(doc, papers, tolerance), duplicate |-> Stored(doc) # {},
               material |-> FALSE])
  /\ UNCHANGED <<docs, plans>>

ReadHistory(w) ==
  LET m == dclerk[w]
  IN /\ m.pc = "history"
     /\ DocGo(w, [m EXCEPT !.pc = "altered",
          !.material = Outlier(m.doc, Prior(m.doc)) \/ AccountChanged(m.doc, Prior(m.doc))])
     /\ UNCHANGED <<docs, plans>>

\* The second look at the original, for duplicate_altered.
ReadOriginal(w) ==
  LET m == dclerk[w]
  IN /\ m.pc = "altered"
     /\ DocGo(w, [m EXCEPT !.pc = "remember", !.material = @ \/ Altered(m.doc)])
     /\ UNCHANGED <<docs, plans>>

RememberPlanned(w) ==
  /\ dclerk[w].pc = "remember" /\ docs' = Remembered(dclerk[w].doc)
  /\ DocGo(w, [dclerk[w] EXCEPT !.pc = "record"]) /\ UNCHANGED plans

RecordPlan(w) ==
  LET m == dclerk[w]
  IN /\ m.pc = "record" /\ Len(plans) < MaxPlans /\ DocGo(w, NoDoc)
     /\ plans' = Append(plans, [doc |-> m.doc, tolerance |-> m.tolerance, began |-> m.began,
                                recommendation |-> Recommendation(m)])
     /\ UNCHANGED docs

\* The worker dies, the tenant is frozen at a write, or the step's lease runs out.
PlanAbandoned(w) ==
  /\ dclerk[w].pc # "idle" /\ DocGo(w, NoDoc) /\ UNCHANGED <<docs, plans>>

DocumentsNext ==
  \E w \in DocClerk :
    \/ \E doc \in Invoice :
         \/ ParseDocument(w, doc)
         \/ \E order, delivery \in Paper \union {NoPaper}, t \in {Tolerance} \union Tolerances :
              StartPlan(w, doc, <<order, delivery>>, t)
    \/ ReadHistory(w) \/ ReadOriginal(w) \/ RememberPlanned(w) \/ RecordPlan(w) \/ PlanAbandoned(w)

DocumentsSpec == DocumentsInit /\ [][DocumentsNext]_docVars

-----------------------------------------------------------------------------
(* "Any duplicate holds the document: an exact repeat is a double-payment risk and an   *)
(* altered one is worse, so both must stop before an approver": a plan begun when the    *)
(* supplier's number was stored, whatever its amount, currency or account, is held.       *)
DuplicatesAreHeld ==
  \A i \in DOMAIN plans : \A k \in 1..plans[i].began :
    docs[k].number = plans[i].doc.number => plans[i].recommendation = "hold_for_duplicate_review"

(* The docstring of _plan_tool: a step's tolerance "can only tighten them, never widen    *)
(* them past what the operator set".  The argument replaces the operator's, whatever it is. *)
ToleranceOnlyTightens ==
  \A i \in DOMAIN plans : plans[i].recommendation = "ready_for_approval" =>
    plans[i].tolerance <= Tolerance

(* Of two plans for one number an approver meets at most one that is ready.                 *)
OneReadyPlan ==
  \A i, j \in DOMAIN plans :
    /\ i # j /\ plans[i].doc.number = plans[j].doc.number
    /\ plans[i].recommendation = "ready_for_approval"
    => plans[j].recommendation # "ready_for_approval"
=============================================================================
