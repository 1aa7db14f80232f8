---------------------------- MODULE WhatsAppWindow ----------------------------
(***************************************************************************)
(* The 24-hour service window and the send gate of platform_runtime/whatsapp.py *)
(* for one customer: free-form text leaves only while the tenant's evidence     *)
(* says the customer wrote to that business number within the window.  The       *)
(* evidence is the inbox, read newest row first and only so far, and, failing a   *)
(* message there, the operator's sheet.                                        *)
(***************************************************************************)
EXTENDS Naturals, FiniteSets, Sequences

CONSTANTS
  Phone,      \* business numbers customers write to
  RegisteredPhone,  \* the subset each declared by exactly one register
  WindowTicks, \* WINDOW_SECONDS in ticks of the clock
  MaxScanned,  \* MAX_EVENTS_SCANNED
  MaxNow, MaxRows, MaxWritten \* bounds: the clock, the rows of the inbox, what the customer writes

ASSUME WindowAssumption ==
  /\ RegisteredPhone \subseteq Phone
  /\ WindowTicks \in Nat \ {0} /\ MaxScanned \in Nat \ {0} /\ {MaxNow, MaxRows, MaxWritten} \subseteq Nat

VARIABLES
  now,      \* the engine's clock
  written,  \* what the customer wrote: [stamp, number], as Meta knows it
  rows,     \* p_events of the channel, oldest first: [who, number, named, until]; a row that
            \* is not named carries no phone_number_id
  cell,     \* whether the contact is declared, and the time in its sheet (0: none that reads as one)
  sending   \* the step of whatsapp.send under way

windowVars == <<now, written, rows, cell, sending>>

NoStamp == 0
NotSending == [pc |-> "idle"]

WindowInit ==
  /\ now = 1 /\ written = {} /\ rows = << >>
  /\ cell \in [declared : BOOLEAN, value : {0}]
  /\ sending = NotSending

-----------------------------------------------------------------------------
ClockTicks == now < MaxNow /\ now' = now + 1 /\ UNCHANGED <<written, rows, cell, sending>>

CustomerWritesTo(n) ==
  /\ Cardinality(written) < MaxWritten
  /\ written' = written \union {[stamp |-> now, number |-> n]}
  /\ UNCHANGED <<now, rows, cell, sending>>

\* _customer_message through the webhook: the window ends WINDOW_SECONDS after Meta's own
\* stamp, or is not opened by this message when Meta sends none it can read.  The route writes
\* the number it was sent to; ingest, which takes declared contacts only, writes none.
\* Deliveries come in any order.
MessageArrives(m, readable, named) ==
  /\ Len(rows) < MaxRows /\ (named \/ cell.declared)
  /\ LET until == IF readable THEN m.stamp + WindowTicks ELSE NoStamp
     IN rows' = Append(rows, [who |-> "customer", number |-> m.number, named |-> named, until |-> until])
  /\ UNCHANGED <<now, written, cell, sending>>

OthersWrite ==
  /\ Len(rows) < MaxRows
  /\ rows' = Append(rows, [who |-> "other", number |-> CHOOSE n \in RegisteredPhone : TRUE,
                           named |-> TRUE, until |-> now + WindowTicks])
  /\ UNCHANGED <<now, written, cell, sending>>

\* Somebody types the last inbound time into the sheet of a declared contact.
SheetEdited(v) ==
  /\ cell.declared /\ cell' = [cell EXCEPT !.value = v]
  /\ UNCHANGED <<now, written, rows, sending>>

-----------------------------------------------------------------------------
Scanned == {i \in DOMAIN rows : i + MaxScanned > Len(rows)}
\* Only a row that names a different number is skipped.
UsableRow(n) == {i \in Scanned : /\ rows[i].who = "customer" /\ rows[i].until # NoStamp
                                 /\ rows[i].named => rows[i].number = n}
Latest(S) == CHOOSE i \in S : \A j \in S : j <= i

\* Mutant of LastInbound: the expiry taken for the last inbound time.
LastInboundUnconverted(n) == rows[Latest(UsableRow(n))].until

\* _window_from_events: the last inbound time of the newest usable row, the stored expiry
\* turned back into the time it was made from.
LastInbound(n) == rows[Latest(UsableRow(n))].until - WindowTicks

\* window_sources: a verified message wins outright, the sheet is the fallback.
Source(n) == IF UsableRow(n) # {} THEN "event" ELSE IF cell.declared THEN "register" ELSE "none"

\* window_state: a time that is missing or unreadable is closed.
WindowOpen(last) == last + WindowTicks > now
GateOpen(n) ==
  \/ Source(n) = "event" /\ WindowOpen(LastInbound(n))
  \/ Source(n) = "register" /\ cell.value # 0 /\ WindowOpen(cell.value)

\* _verified_inbound without an event of the step's own: the newest row of the signed wa_id's
\* conversation, which is one of the route's.
NewestIs(n) ==
  LET mine == {i \in DOMAIN rows : rows[i].who = "customer" /\ rows[i].named}
  IN mine # {} /\ rows[Latest(mine)].number = n

Refused(why) == [pc |-> "failed", reason |-> why]
PostMessage(n, form) ==
  [pc |-> "posting", number |-> n, form |-> form, from |-> Source(n), at |-> now,
   named |-> Source(n) = "event" => rows[Latest(UsableRow(n))].named]

\* The gate of send once the number is known: a template needs no window, text does.
Gated(n, form) ==
  IF form = "text" /\ ~GateOpen(n) THEN Refused("window_closed") ELSE PostMessage(n, form)

\* A reply {contact, text} to message i of the inbox: it leaves from the number written to, when
\* exactly one register declares it.  Its contact is the signed wa_id, which has no sheet row.
Reply(i) ==
  /\ sending.pc = "idle" /\ rows[i].who = "customer"
  /\ sending' = IF ~rows[i].named \/ rows[i].number \notin RegisteredPhone THEN Refused("no_register")
                ELSE IF UsableRow(rows[i].number) = {} THEN Refused("window_closed")
                ELSE Gated(rows[i].number, "text")
  /\ UNCHANGED <<now, written, rows, cell>>

\* A send that names its register: to a declared contact, or to who wrote to its number last.
SendFrom(n, form) ==
  /\ sending.pc = "idle" /\ n \in RegisteredPhone
  /\ sending' = IF cell.declared \/ NewestIs(n) THEN Gated(n, form) ELSE Refused("not_a_customer")
  /\ UNCHANGED <<now, written, rows, cell>>

\* Meta's own view of the window when the call arrives.
MetaOpen(n, t) == \E m \in written : m.number = n /\ m.stamp + WindowTicks > t

\* _bounded_json: a 4xx is a definite non-delivery (131047 among them), a 5xx or a dead
\* connection says nothing of what happened.
Answer(how) ==
  /\ sending.pc = "posting"
  /\ how = "sent" => sending.form = "template" \/ MetaOpen(sending.number, now)
  /\ sending' = IF how = "failed" THEN Refused("meta_code") ELSE [sending EXCEPT !.pc = how]
  /\ UNCHANGED <<now, written, rows, cell>>

\* The step is over; the next one may start.
WindowSendEnds == sending.pc \notin {"idle", "posting"} /\ sending' = NotSending /\ UNCHANGED <<now, written, rows, cell>>

WindowNext ==
  \/ ClockTicks \/ OthersWrite \/ WindowSendEnds
  \/ \E n \in Phone : CustomerWritesTo(n)
  \/ \E m \in written, readable \in BOOLEAN, named \in BOOLEAN : MessageArrives(m, readable, named)
  \/ \E v \in 0..MaxNow : SheetEdited(v)
  \/ \E i \in DOMAIN rows : Reply(i)
  \/ \E n \in Phone, form \in {"text", "template"} : SendFrom(n, form)
  \/ \E how \in {"sent", "failed", "uncertain"} : Answer(how)

WindowSpec == WindowInit /\ [][WindowNext]_windowVars

-----------------------------------------------------------------------------
(* "The window is the gate" (send): text that leaves on the evidence of a message      *)
(* leaves to a customer who, by Meta's own record, wrote to that very number within     *)
(* the window, whatever order the messages arrived in and however far the scan goes.     *)
(* A row that carries no number cannot say which one was written to: it opens the        *)
(* window of each, and then the customer wrote within the window to some number.          *)
TextOnlyInsideWindow ==
  sending.pc = "posting" /\ sending.form = "text" /\ sending.from = "event"
    => IF sending.named THEN MetaOpen(sending.number, sending.at)
       ELSE \E n \in Phone : MetaOpen(n, sending.at)

(* The comment of _window_from_events: the first row seen is the customer's latest     *)
(* message, and "later rows are older and cannot widen a window that a newer message    *)
(* already set".  So a closed window is one no row of the scan would hold open.         *)
ClosedMeansClosed ==
  \A n \in RegisteredPhone : ~GateOpen(n) => \A i \in UsableRow(n) : rows[i].until <= now

(* window_sources: "Taking the newer of the two sources would let a hand-typed sheet    *)
(* cell re-open a window the events say is closed": a number the customer's messages    *)
(* were recorded for is never opened by the sheet.                                       *)
SheetNeverReopens ==
  \A n \in RegisteredPhone :
    GateOpen(n) /\ Source(n) = "register"
      => ~\E i \in DOMAIN rows : rows[i].who = "customer" /\ (rows[i].named => rows[i].number = n) /\ rows[i].until # NoStamp
=============================================================================
