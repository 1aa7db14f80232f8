------------------------------ MODULE ErpPosting ------------------------------
(***************************************************************************)
(* Posting one invoice to the customer's ERP (platform_runtime/erp.py): the     *)
(* ledger row that claims the invoice is written before the POST, an outcome     *)
(* nobody learned keeps the claim, and only a definite refusal or the owner's     *)
(* verdict releases it.  Every row of the module is of the same invoice, whose    *)
(* identity (driver, kind, supplier, number) is the key of the unique index.      *)
(***************************************************************************)
EXTENDS Naturals, Sequences

CONSTANTS
  Poster,     \* processes that run erp.posting_submit
  Searchable, \* whether the operator declared a search_path
  MaxPostings \* bound: rows of the ledger for this invoice

ASSUME ErpAssumption == Searchable \in BOOLEAN /\ MaxPostings \in Nat

VARIABLES
  postings, \* p_erp_postings: [status, claims, aged, judged], in the order written
  poster,   \* memory of the submits: where they are, and the row they reserved
  sentDocs,     \* POSTs on their way to the ERP, by row
  held,     \* rows whose POST made the ERP hold a document
  answer,   \* what the ERP answered to a row's POST, if it did
  books     \* the tenant is active; the ERP holds the invoice from elsewhere

erpVars == <<postings, poster, sentDocs, held, answer, books>>

Submitting == [pc |-> "idle", row |-> 0]
Posting == DOMAIN postings

ErpInit ==
  /\ postings = << >>
  /\ poster = [p \in Poster |-> Submitting]
  /\ sentDocs = {} /\ held = {} /\ answer = << >>
  /\ books = [active |-> TRUE, elsewhere |-> FALSE]

-----------------------------------------------------------------------------
\* recover_postings, run by everything that reads the ledger: a reservation older than any
\* POST becomes uncertain and keeps its claim.
Recovered ==
  [i \in Posting |-> IF postings[i].status = "posting" /\ postings[i].aged
                     THEN [postings[i] EXCEPT !.status = "uncertain"] ELSE postings[i]]

\* A row that occupies the unique index p_erp_postings_claim.
Claimed == \E i \in Posting : postings[i].claims

\* Mutant of Settled: an outcome nobody learned releases the claim, to keep a retry possible.
SettledRetryable(i, status) ==
  IF postings[i].status \notin {"posting", "uncertain"} THEN postings
  ELSE [postings EXCEPT ![i] = [@ EXCEPT !.status = status, !.claims = (status \in {"posted", "unconfirmed"})]]

\* _finish: an outcome is written over "posting" or "uncertain" only, and "failed" releases.
Settled(i, status) ==
  IF postings[i].status \notin {"posting", "uncertain"} THEN postings
  ELSE [postings EXCEPT ![i] = [@ EXCEPT !.status = status, !.claims = (status # "failed")]]

NewRow(status) == [status |-> status, claims |-> TRUE, aged |-> FALSE, judged |-> FALSE]
At(p, pc) == poster' = [poster EXCEPT ![p] = [@ EXCEPT !.pc = pc]]
Back(p) == poster' = [poster EXCEPT ![p] = Submitting]

\* submit, up to its own ledger: a claiming row ends it.
StartSubmit(p) ==
  /\ poster[p].pc = "idle" /\ Len(postings) < MaxPostings
  /\ postings' = Recovered
  /\ IF Claimed THEN UNCHANGED poster ELSE At(p, IF Searchable THEN "search" ELSE "reserve")
  /\ UNCHANGED <<sentDocs, held, answer, books>>

\* find_posted: a hit is recorded, an unreadable search refuses, no hit goes on.
Search(p) ==
  /\ poster[p].pc = "search"
  /\ \/ Back(p)
     \/ At(p, IF held # {} \/ books.elsewhere THEN "record" ELSE "reserve")
  /\ UNCHANGED <<postings, sentDocs, held, answer, books>>

\* _record of skipped_existing: the index refuses it beside another claim.
RecordExisting(p) ==
  /\ poster[p].pc = "record" /\ Back(p)
  /\ postings' = IF books.active /\ ~Claimed /\ Len(postings) < MaxPostings
                 THEN Append(postings, NewRow("skipped_existing")) ELSE postings
  /\ UNCHANGED <<sentDocs, held, answer, books>>

\* _reserve: the claim of a new attempt, or Conflict, or a frozen tenant.
Reserve(p) ==
  /\ poster[p].pc = "reserve"
  /\ IF books.active /\ ~Claimed /\ Len(postings) < MaxPostings
     THEN /\ postings' = Append(postings, NewRow("posting"))
          /\ poster' = [poster EXCEPT ![p] = [pc |-> "post", row |-> Len(postings) + 1]]
     ELSE Back(p) /\ UNCHANGED postings
  /\ UNCHANGED <<sentDocs, held, answer, books>>

PostInvoice(p) ==
  /\ poster[p].pc = "post" /\ At(p, "wait") /\ sentDocs' = sentDocs \union {poster[p].row}
  /\ UNCHANGED <<postings, held, answer, books>>

\* The ERP takes a POST: it creates the document and names it or not, answers a definite 4xx,
\* or fails in a way that may have created it.
ErpTakes(i, what, creates) ==
  /\ i \in sentDocs /\ sentDocs' = sentDocs \ {i}
  /\ what \in {"posted", "unconfirmed"} => creates
  /\ what = "failed" => ~creates
  /\ held' = IF creates THEN held \union {i} ELSE held
  /\ answer' = [j \in DOMAIN answer \union {i} |-> IF j = i THEN what ELSE answer[j]]
  /\ UNCHANGED <<postings, poster, books>>

\* The answer, or its absence (a timeout, a reset), is written on the reservation.
AnswerComes(p) ==
  LET i == poster[p].row
  IN /\ poster[p].pc = "wait" /\ Back(p)
     /\ \/ i \in DOMAIN answer /\ postings' = Settled(i, answer[i])
        \/ postings' = Settled(i, "uncertain")
     /\ UNCHANGED <<sentDocs, held, answer, books>>

PosterDies(p) ==
  /\ poster[p].pc # "idle" /\ Back(p)
  /\ UNCHANGED <<postings, sentDocs, held, answer, books>>

\* RESERVATION_STALE_SECONDS pass.
ReservationAges(i) ==
  /\ postings[i].status = "posting" /\ ~postings[i].aged
  /\ postings' = [postings EXCEPT ![i].aged = TRUE]
  /\ UNCHANGED <<poster, sentDocs, held, answer, books>>

\* reconcile_posting: the owner's verdict on an unknown outcome.
ReconcilePosting(i, outcome) ==
  /\ Recovered[i].status \in {"uncertain", "unconfirmed"}
  /\ postings' = [Recovered EXCEPT ![i] =
       [@ EXCEPT !.status = outcome, !.claims = (outcome = "posted"), !.judged = TRUE]]
  /\ UNCHANGED <<poster, sentDocs, held, answer, books>>

\* freeze: the owner stops the tenant, or lets it go on; a submit looks when it writes its row.
ErpFreeze ==
  /\ books' = [books EXCEPT !.active = ~@] /\ UNCHANGED <<postings, poster, sentDocs, held, answer>>

\* Somebody enters the invoice in the ERP itself.
InvoiceEntered ==
  /\ ~books.elsewhere /\ books' = [books EXCEPT !.elsewhere = TRUE]
  /\ UNCHANGED <<postings, poster, sentDocs, held, answer>>

ErpNext ==
  \/ \E p \in Poster :
       \/ StartSubmit(p) \/ Search(p) \/ RecordExisting(p) \/ Reserve(p)
       \/ PostInvoice(p) \/ AnswerComes(p) \/ PosterDies(p)
  \/ \E i \in sentDocs, what \in {"posted", "unconfirmed", "failed", "uncertain"}, creates \in BOOLEAN :
       ErpTakes(i, what, creates)
  \/ \E i \in Posting : ReservationAges(i) \/ \E o \in {"posted", "failed"} : ReconcilePosting(i, o)
  \/ ErpFreeze \/ InvoiceEntered

ErpSpec == ErpInit /\ [][ErpNext]_erpVars

-----------------------------------------------------------------------------
(* "A duplicate posting is prevented": of two POSTs that reached the ERP or still may,  *)
(* one is of an attempt the ERP itself refused or the owner judged.  A timeout, a crash  *)
(* between the POST and its record, a late answer or a race of two submits never sends    *)
(* an invoice a second time.                                                               *)
PostedOnce ==
  \A i, j \in held \union sentDocs : i = j \/ postings[i].judged \/ postings[j].judged

(* What the ledger calls failed without the owner's verdict the ERP does not hold. *)
FailedIsNotHeld ==
  \A i \in held : postings[i].status = "failed" => postings[i].judged
-----------------------------------------------------------------------------
(* The document that may become a posting: pure. *)

DocumentFields == {"supplier", "number", "doc_date", "currency", "total_minor"}
NoPosting(refusal, missing) == [refusal |-> refusal, missing |-> missing, account |-> 0, counterparty |-> 0]

\* resolve_posting: a field is "absent", "bad" or "good"; an account and a counterparty are aliases of the
\* operator's registers, 0 for none given.  What does not read is told before what is missing.
ResolvedPosting(register, document, account, counterparty) ==
  LET absent == {f \in DocumentFields : document[f] = "absent"}
      unnamed == (IF account = 0 THEN {"account"} ELSE {}) \union (IF counterparty = 0 THEN {"counterparty"} ELSE {})
      unknown == (account # 0 /\ account \notin DOMAIN register.accounts)
                 \/ (counterparty # 0 /\ counterparty \notin DOMAIN register.counterparties)
  IN IF ~register.enabled THEN NoPosting("forbidden", {})
     ELSE IF unknown \/ \E f \in DocumentFields : document[f] = "bad" THEN NoPosting("malformed", {})
     ELSE IF absent \union unnamed # {} THEN NoPosting("incomplete", absent \union unnamed)
     ELSE [refusal |-> "", missing |-> {}, account |-> register.accounts[account],
           counterparty |-> register.counterparties[counterparty]]
=============================================================================
