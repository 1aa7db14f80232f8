----------------------------- MODULE CustomerProofs -----------------------------
(***************************************************************************)
(* What holds of the parts that face the customer, for any number of           *)
(* conversations, workers and messages and any bounds: the service window of     *)
(* WhatsApp, the turns of a conversation, the escalation of overdue items, the    *)
(* re-engagement of cold leads.  Each part has one inductive invariant; the parts *)
(* share only the lemmas about sequences and about the numbers a CHOOSE picks from. *)
(***************************************************************************)
EXTENDS WhatsAppWindow, Conversation, Escalation, Outreach, FiniteSetTheorems, WellFoundedInduction, TLAPS

\* A set of naturals has a least element, and one that is bounded a largest: what the choices of
\* the oldest turn, of the newest row and of the highest cap rest on.
LEMMA LeastOfNat == ASSUME NEW S, S \subseteq Nat, S # {} PROVE \E x \in S : \A y \in S : x <= y
  <1>1. PICK R : R = OpToRel(<, Nat)
    OBVIOUS
  <1>2. IsWellFoundedOn(R, Nat)
    BY <1>1, NatLessThanWellFounded
  <1>3. PICK x \in S : \A y \in S : <<y, x>> \notin R
    BY <1>2, WFMin
  <1>4. \A y \in S : ~(y < x)
    BY <1>1, <1>3 DEF OpToRel
  <1>5. QED BY <1>4

LEMMA LargestOfNat ==
  ASSUME NEW N \in Nat, NEW S, S \subseteq 0..N, S # {} PROVE \E x \in S : \A y \in S : y <= x
  <1>1. PICK T : T = {N - x : x \in S}
    OBVIOUS
  <1>2. T \subseteq Nat /\ T # {}
    <2>1. \A x \in S : N - x \in Nat
      OBVIOUS
    <2>2. PICK x \in S : TRUE
      OBVIOUS
    <2>3. N - x \in T
      BY <1>1
    <2>4. QED BY <1>1, <2>1, <2>3
  <1>3. PICK z \in T : \A y \in T : z <= y
    BY <1>2, LeastOfNat
  <1>4. PICK x \in S : z = N - x
    BY <1>1, <1>3
  <1>5. \A y \in S : z <= N - y
    BY <1>1, <1>3
  <1>6. \A y \in S : y <= x
    BY <1>4, <1>5
  <1>7. QED BY <1>6

\* What appending leaves of a sequence.
LEMMA Appended ==
  ASSUME NEW S, NEW s \in Seq(S), NEW e \in S, NEW t, t = Append(s, e)
  PROVE  /\ t \in Seq(S) /\ Len(t) = Len(s) + 1 /\ Len(s) \in Nat
         /\ \A i \in DOMAIN t : (i \in DOMAIN s /\ t[i] = s[i]) \/ (i = Len(s) + 1 /\ t[i] = e)
         /\ \A i \in DOMAIN s : i \in DOMAIN t /\ t[i] = s[i]
         /\ Len(s) + 1 \in DOMAIN t /\ t[Len(s) + 1] = e
  <1>1. t \in Seq(S) /\ Len(t) = Len(s) + 1 /\ Len(s) \in Nat
    OBVIOUS
  <1>2. DOMAIN s = 1..Len(s) /\ DOMAIN t = 1..(Len(s) + 1)
    BY <1>1
  <1>3. \A i \in 1..Len(s) : t[i] = s[i]
    OBVIOUS
  <1>4. t[Len(s) + 1] = e
    OBVIOUS
  <1>5. \A i \in DOMAIN t : i \in DOMAIN s \/ i = Len(s) + 1
    BY <1>1, <1>2
  <1>6. \A i \in DOMAIN s : i \in DOMAIN t
    BY <1>1, <1>2
  <1>7. \A i \in DOMAIN s : t[i] = s[i]
    BY <1>2, <1>3
  <1>8. Len(s) + 1 \in DOMAIN t
    BY <1>1, <1>2
  <1>9. \A i \in DOMAIN t : (i \in DOMAIN s /\ t[i] = s[i]) \/ (i = Len(s) + 1 /\ t[i] = e)
    <2> SUFFICES ASSUME NEW i \in DOMAIN t PROVE (i \in DOMAIN s /\ t[i] = s[i]) \/ (i = Len(s) + 1 /\ t[i] = e)
      OBVIOUS
    <2>1. CASE i \in DOMAIN s
      BY <1>7, <2>1, Zenon
    <2>2. CASE i = Len(s) + 1
      BY <1>4, <2>2
    <2>3. QED BY <1>5, <2>1, <2>2, Zenon
  <1>10. QED BY <1>1, <1>4, <1>6, <1>7, <1>8, <1>9, Zenon

(***************************************************************************)
(* The window: what the inbox says of a customer is what the customer wrote,  *)
(* so the newest usable row is evidence, wherever the scan stops.               *)
(***************************************************************************)

WindowRow ==
  [who : {"customer", "other"}, number : Phone \union {CHOOSE n \in RegisteredPhone : TRUE},
   named : BOOLEAN, until : Nat]
RowsAreEvidence ==
  \A i \in DOMAIN rows : rows[i].who = "customer" /\ rows[i].until # NoStamp =>
    \E m \in written : m.number = rows[i].number /\ rows[i].until = m.stamp + WindowTicks
\* What the gate asks of the evidence: the number itself, when the row names one.
EvidenceFor(n, named) == IF named THEN MetaOpen(n, now) ELSE \E k \in Phone : MetaOpen(k, now)
WindowInv ==
  /\ now \in Nat /\ written \subseteq [stamp : Nat, number : Phone] /\ rows \in Seq(WindowRow)
  /\ RowsAreEvidence /\ TextOnlyInsideWindow

LEMMA WindowStart == WindowInit => WindowInv
  BY DEF WindowInit, WindowInv, RowsAreEvidence, TextOnlyInsideWindow, NotSending

\* Text that passes the gate on a message's evidence passes it inside the window.
LEMMA GateHasEvidence ==
  ASSUME WindowInv, NEW n, Source(n) = "event", GateOpen(n)
  PROVE  EvidenceFor(n, Source(n) = "event" => rows[Latest(UsableRow(n))].named)
  <1> USE DEF WindowInv
  <1>1. PICK S : S = UsableRow(n)
    OBVIOUS
  <1>2. S # {} /\ S \subseteq 0..Len(rows) /\ Len(rows) \in Nat
    BY <1>1 DEF Source, UsableRow, Scanned
  <1>3. Latest(S) \in S
    <2>1. \E x \in S : \A y \in S : y <= x
      BY <1>2, LargestOfNat
    <2>2. QED BY <2>1 DEF Latest
  <1>4. PICK i \in DOMAIN rows : i = Latest(S)
    BY <1>1, <1>3 DEF UsableRow, Scanned
  <1>5. /\ rows[i].who = "customer" /\ rows[i].until # NoStamp /\ rows[i].until \in Nat
        /\ rows[i].named => rows[i].number = n
    <2>1. rows[i] \in WindowRow
      OBVIOUS
    <2>2. QED BY <1>1, <1>3, <1>4, <2>1 DEF UsableRow, WindowRow
  <1>6. PICK m \in written : m.number = rows[i].number /\ rows[i].until = m.stamp + WindowTicks
    BY <1>5 DEF RowsAreEvidence
  <1>7. LastInbound(n) = rows[i].until - WindowTicks
    BY <1>1, <1>4 DEF LastInbound
  <1>8. WindowOpen(LastInbound(n))
    BY DEF GateOpen
  <1>9. m.stamp + WindowTicks > now
    BY <1>5, <1>6, <1>7, <1>8, WindowAssumption DEF WindowOpen
  <1>10. MetaOpen(rows[i].number, now) /\ rows[i].number \in Phone
    BY <1>6, <1>9 DEF MetaOpen
  <1>11. CASE rows[i].named
    BY <1>1, <1>4, <1>5, <1>10, <1>11 DEF EvidenceFor
  <1>12. CASE ~rows[i].named
    BY <1>1, <1>4, <1>10, <1>12 DEF EvidenceFor
  <1>13. QED BY <1>11, <1>12

LEMMA GatedKeeps ==
  ASSUME WindowInv, NEW n, NEW form, sending' = Gated(n, form), UNCHANGED <<now, written, rows>>
  PROVE  TextOnlyInsideWindow'
  <1>1. CASE form = "text" /\ ~GateOpen(n)
    BY <1>1 DEF Gated, Refused, TextOnlyInsideWindow
  <1>2. CASE ~(form = "text" /\ ~GateOpen(n))
    <2>1. PICK named : named = (Source(n) = "event" => rows[Latest(UsableRow(n))].named)
      OBVIOUS
    <2>2. /\ sending'.form = form /\ sending'.from = Source(n) /\ sending'.at = now /\ sending'.number = n
          /\ sending'.named = named
      BY <1>2, <2>1 DEF Gated, PostMessage
    <2>3. form = "text" /\ Source(n) = "event" => EvidenceFor(n, named)
      BY <1>2, <2>1, GateHasEvidence
    <2>4. QED BY <2>2, <2>3 DEF TextOnlyInsideWindow, MetaOpen, EvidenceFor
  <1>3. QED BY <1>1, <1>2

LEMMA WindowStays == WindowInv /\ [WindowNext]_windowVars => WindowInv'
  <1> SUFFICES ASSUME WindowInv, [WindowNext]_windowVars PROVE WindowInv'
    OBVIOUS
  <1> USE WindowAssumption DEF WindowInv, RowsAreEvidence, TextOnlyInsideWindow, MetaOpen
  <1>1. ASSUME UNCHANGED windowVars PROVE WindowInv'
    BY <1>1 DEF windowVars
  <1>2. ASSUME ClockTicks PROVE WindowInv'
    BY <1>2 DEF ClockTicks
  <1>3. ASSUME NEW n \in Phone, CustomerWritesTo(n) PROVE WindowInv'
    BY <1>3 DEF CustomerWritesTo
  <1>4. ASSUME NEW m \in written, NEW readable \in BOOLEAN, NEW named \in BOOLEAN,
               MessageArrives(m, readable, named) PROVE WindowInv'
    <2>1. PICK until \in Nat : until = IF readable THEN m.stamp + WindowTicks ELSE NoStamp
      BY DEF NoStamp
    <2>2. PICK row : row = [who |-> "customer", number |-> m.number, named |-> named, until |-> until]
      OBVIOUS
    <2>3. row \in WindowRow
      BY <2>2 DEF WindowRow
    <2>4. rows' = Append(rows, row)
      BY <1>4, <2>1, <2>2 DEF MessageArrives
    <2>5. RowsAreEvidence'
      <3>1. row.until # NoStamp => row.number = m.number /\ row.until = m.stamp + WindowTicks
        BY <2>1, <2>2 DEF NoStamp
      <3>2. \A i \in DOMAIN rows' : (i \in DOMAIN rows /\ rows'[i] = rows[i]) \/ rows'[i] = row
        BY <2>3, <2>4, Appended
      <3>3. written' = written /\ row.who = "customer"
        BY <1>4, <2>2 DEF MessageArrives
      <3>4. SUFFICES ASSUME NEW i \in DOMAIN rows', rows'[i].who = "customer", rows'[i].until # NoStamp
                     PROVE  \E m2 \in written : m2.number = rows'[i].number /\ rows'[i].until = m2.stamp + WindowTicks
        BY <3>3
      <3>5. CASE rows'[i] = row
        BY <3>1, <3>4, <3>5
      <3>6. CASE i \in DOMAIN rows /\ rows'[i] = rows[i]
        BY <3>4, <3>6
      <3>7. QED BY <3>2, <3>5, <3>6
    <2>6. rows' \in Seq(WindowRow)
      BY <2>3, <2>4
    <2>7. QED BY <1>4, <2>5, <2>6 DEF MessageArrives
  <1>5. ASSUME OthersWrite PROVE WindowInv'
    <2>1. PICK row : row = [who |-> "other", number |-> CHOOSE n \in RegisteredPhone : TRUE,
                           named |-> TRUE, until |-> now + WindowTicks]
      OBVIOUS
    <2>2. row \in WindowRow /\ row.who = "other"
      BY <2>1 DEF WindowRow
    <2>3. rows' = Append(rows, row)
      BY <1>5, <2>1 DEF OthersWrite
    <2>4. \A i \in DOMAIN rows' : (i \in DOMAIN rows /\ rows'[i] = rows[i]) \/ rows'[i] = row
      BY <2>2, <2>3, Appended
    <2>5. RowsAreEvidence'
      <3>1. written' = written
        BY <1>5 DEF OthersWrite
      <3>2. SUFFICES ASSUME NEW i \in DOMAIN rows', rows'[i].who = "customer", rows'[i].until # NoStamp
                     PROVE  \E m \in written : m.number = rows'[i].number /\ rows'[i].until = m.stamp + WindowTicks
        BY <3>1
      <3>3. i \in DOMAIN rows /\ rows'[i] = rows[i]
        BY <2>2, <2>4, <3>2
      <3>4. QED BY <3>2, <3>3
    <2>6. rows' \in Seq(WindowRow)
      BY <2>2, <2>3
    <2>7. QED BY <1>5, <2>5, <2>6 DEF OthersWrite
  <1>6. ASSUME NEW v \in 0..MaxNow, SheetEdited(v) PROVE WindowInv'
    BY <1>6 DEF SheetEdited
  <1>7. ASSUME NEW how \in {"sent", "failed", "uncertain"}, Answer(how) PROVE WindowInv'
    BY <1>7 DEF Answer, Refused
  <1>8. ASSUME WindowSendEnds PROVE WindowInv'
    BY <1>8 DEF WindowSendEnds, NotSending
  <1>9. ASSUME NEW why, sending' = Refused(why) PROVE TextOnlyInsideWindow'
    BY <1>9 DEF Refused
  <1> HIDE DEF TextOnlyInsideWindow
  <1>10. ASSUME NEW i \in DOMAIN rows, Reply(i) PROVE WindowInv'
    <2>1. TextOnlyInsideWindow'
      BY <1>9, <1>10, GatedKeeps DEF Reply
    <2>2. QED BY <1>10, <2>1 DEF Reply
  <1>11. ASSUME NEW n \in Phone, NEW form \in {"text", "template"}, SendFrom(n, form) PROVE WindowInv'
    <2>1. TextOnlyInsideWindow'
      BY <1>9, <1>11, GatedKeeps DEF SendFrom
    <2>2. QED BY <1>11, <2>1 DEF SendFrom
  <1>12. QED
    BY <1>1, <1>2, <1>3, <1>4, <1>5, <1>6, <1>7, <1>8, <1>10, <1>11 DEF WindowNext

\* Free text leaves on a message's evidence only inside the window Meta itself measures, whatever
\* order messages arrive in and however far the scan of the inbox reaches.
THEOREM TextStaysInWindow == WindowSpec => []TextOnlyInsideWindow
  <1>1. WindowInv => TextOnlyInsideWindow
    BY DEF WindowInv
  <1>2. QED BY <1>1, WindowStart, WindowStays, PTL DEF WindowSpec

(***************************************************************************)
(* Conversations: the turns of a chat leave its queue from the head, so what   *)
(* is busy, what waits and what was said stand in the order they came in.        *)
(***************************************************************************)

TurnStatus == {"none", "queued"} \union BUSY \union Ended
TurnRow ==
  [chat : Chat \union {NoTurn.chat}, status : TurnStatus, run : {"none", "active", "answer", "nothing"},
   task : BOOLEAN, handoff : BOOLEAN, handled : BOOLEAN]
Waiting == {"leave", "open", "opening"}
DeskRow == [pc : Waiting \union {"idle", "check", "submit", "record"}, turn : Turn]
ConvTyped ==
  /\ turn \in [Turn -> TurnRow]
  /\ order \in [Turn -> {"none", "pending"}]
  /\ sent \in [Turn -> {"none", "open", "succeeded", "failed", "uncertain"}]
  /\ lines \in [Chat -> Seq(0..MaxTurns)] /\ takeover \subseteq Chat
  /\ desk \in [Desk -> DeskRow]
  /\ opTask \in [OperatorTask -> [chat : Chat \union {NoTurn.chat},
                                  status : {"none", "open", "succeeded", "failed"}, marked : BOOLEAN]]
  /\ \A o \in OperatorTask : opTask[o].status # "none" => opTask[o].chat \in Chat

\* Turns are recorded one after the other, each in a conversation, and owe nothing before.
RecordedInOrder ==
  \A t \in Turn :
    /\ turn[t].status # "none" => turn[t].chat \in Chat /\ \A u \in Turn : u < t => turn[u].status # "none"
    /\ turn[t].status = "none" => order[t] = "none" /\ sent[t] = "none"

SameChat(t, u) == turn[t].chat = turn[u].chat

\* While t waits, no turn of its chat is busy and none that came before waits.
IsHead(t) ==
  turn[t].status = "queued" =>
    \A u \in Turn : SameChat(t, u) /\ u # t =>
      turn[u].status \notin BUSY /\ (u < t => turn[u].status # "queued")
DesksHoldHeads == \A d \in Desk : desk[d].pc \in Waiting => IsHead(desk[d].turn)
DesksHaveTurns == \A d \in Desk : desk[d].pc # "idle" => turn[desk[d].turn].status # "none"
LaterTurnsWait ==
  \A t, u \in Turn :
    t < u /\ SameChat(t, u) /\ turn[t].status \in {"queued"} \union BUSY =>
      turn[u].status \in {"none", "queued", "throttled"}
QueueInv == RecordedInOrder /\ DesksHoldHeads /\ DesksHaveTurns /\ LaterTurnsWait

LinesAreDelivered ==
  \A c \in Chat : \A i \in DOMAIN lines[c] :
    lines[c][i] # 0 => turn[lines[c][i]].chat = c /\ turn[lines[c][i]].status = "delivered"
LinesInOrder ==
  \A c \in Chat : \A i, j \in DOMAIN lines[c] :
    i < j /\ lines[c][i] # 0 /\ lines[c][j] # 0 => lines[c][i] < lines[c][j]
TakenOverIsAnswered == \A c \in takeover : \E i \in DOMAIN lines[c] : lines[c][i] = 0

ConvInv ==
  /\ ConvTyped /\ QueueInv /\ LinesAreDelivered /\ LinesInOrder /\ TakenOverIsAnswered /\ NobodyForgotten

LEMMA OldestIsFirst ==
  ASSUME NEW S, S \subseteq Turn, S # {}
  PROVE  Oldest(S) \in S /\ \A u \in S : Oldest(S) <= u
  <1>1. S \subseteq Nat
    BY ConversationAssumption DEF Turn
  <1>2. \E t \in S : \A u \in S : t <= u
    BY <1>1, LeastOfNat
  <1>3. QED BY <1>2 DEF Oldest

\* The turn a worker opens, or leaves to a person, is the head of its chat when it is read.
LEMMA OpenableIsHead ==
  ASSUME ConvTyped, Openable # {}
  PROVE  Oldest(Openable) \in Turn /\ IsHead(Oldest(Openable)) /\ turn[Oldest(Openable)].status = "queued"
  <1>1. PICK t : t = Oldest(Openable)
    OBVIOUS
  <1>2. /\ t \in Openable /\ t \in Turn /\ turn[t].status = "queued" /\ InChat(turn[t].chat, BUSY) = {}
        /\ \A u \in Openable : t <= u
    BY <1>1, OldestIsFirst DEF Openable, WithStatus
  <1>3. ASSUME NEW u \in Turn, SameChat(t, u), u # t PROVE turn[u].status \notin BUSY
    BY <1>2, <1>3 DEF InChat, WithStatus, SameChat
  <1>4. ASSUME NEW u \in Turn, SameChat(t, u), u < t PROVE turn[u].status # "queued"
    <2>1. SUFFICES ASSUME turn[u].status = "queued" PROVE FALSE
      OBVIOUS
    <2>2. u \in Openable
      BY <1>2, <1>4, <2>1 DEF Openable, WithStatus, SameChat
    <2>3. t <= u /\ t \in Nat /\ u \in Nat
      BY <1>2, <2>2, ConversationAssumption DEF Turn
    <2>4. QED BY <1>4, <2>3
  <1>5. QED BY <1>1, <1>2, <1>3, <1>4 DEF IsHead

\* Which turns a step moves: no chat changes, no handoff is taken back, and only x has a new status.
OnlyMoves(x) ==
  \A t \in Turn :
    /\ turn'[t].chat = turn[t].chat /\ (turn[t].handoff => turn'[t].handoff)
    /\ t # x => turn'[t].status = turn[t].status
DesksKeep ==
  \A d \in Desk :
    /\ desk'[d].pc \in Waiting =>
         \/ desk[d].pc \in Waiting /\ desk'[d].turn = desk[d].turn
         \/ IsHead(desk'[d].turn) /\ desk'[d].turn \in Turn
    /\ desk'[d].pc # "idle" =>
         \/ desk[d].pc # "idle" /\ desk'[d].turn = desk[d].turn
         \/ turn[desk'[d].turn].status # "none" /\ desk'[d].turn \in Turn

LEMMA QueueKeeps ==
  ASSUME ConvTyped, QueueInv, NEW x \in Turn, OnlyMoves(x), DesksKeep,
         \/ turn'[x].status = turn[x].status
         \/ turn[x].status = "queued" /\ IsHead(x) /\ turn'[x].status \in {"open", "operator"}
         \/ turn[x].status \in BUSY /\ turn'[x].status \in BUSY \union (Ended \ {"throttled"}),
         \A t \in Turn : turn[t].status = "none" => order'[t] = "none" /\ sent'[t] = "none"
  PROVE  QueueInv'
  <1>1. \A t \in Turn : (turn'[t].status = "none") <=> (turn[t].status = "none")
    BY DEF OnlyMoves, BUSY, Ended
  <1>2. \A t \in Turn : /\ turn'[t].chat = turn[t].chat
                        /\ turn'[t].status = "queued" => turn[t].status = "queued"
    BY DEF OnlyMoves, BUSY, Ended
  <1>3. \A t \in Turn : turn'[t].status \in BUSY =>
          turn[t].status \in BUSY \/ (t = x /\ turn[t].status = "queued" /\ IsHead(t))
    BY DEF OnlyMoves, BUSY, Ended
  <1>4. Turn \subseteq Nat
    BY ConversationAssumption DEF Turn
  <1>5. RecordedInOrder'
    BY <1>1, <1>2 DEF QueueInv, RecordedInOrder
  <1>6. ASSUME NEW t \in Turn, IsHead(t) PROVE IsHead(t)'
    <2> SUFFICES ASSUME turn'[t].status = "queued", NEW u \in Turn, turn'[t].chat = turn'[u].chat, u # t
                 PROVE  turn'[u].status \notin BUSY /\ (u < t => turn'[u].status # "queued")
      BY DEF IsHead, SameChat
    <2>1. turn[t].status = "queued" /\ SameChat(t, u) /\ SameChat(u, t)
      BY <1>2 DEF SameChat
    <2>2. turn[u].status \notin BUSY /\ (u < t => turn[u].status # "queued")
      BY <1>6, <2>1 DEF IsHead
    <2>3. ~(turn[u].status = "queued" /\ IsHead(u))
      <3>1. u < t \/ t < u
        BY <1>4
      <3>2. QED BY <2>1, <2>2, <3>1 DEF IsHead
    <2>4. QED BY <1>2, <1>3, <2>2, <2>3
  <1>7. DesksHoldHeads'
    BY <1>6 DEF QueueInv, DesksHoldHeads, DesksKeep, ConvTyped, DeskRow
  <1>h. DesksHaveTurns'
    BY <1>1 DEF QueueInv, DesksHaveTurns, DesksKeep, ConvTyped, DeskRow
  <1>8. LaterTurnsWait'
    <2> SUFFICES ASSUME NEW t \in Turn, NEW u \in Turn, t < u, turn'[t].chat = turn'[u].chat,
                        turn'[t].status \in {"queued"} \union BUSY
                 PROVE  turn'[u].status \in {"none", "queued", "throttled"}
      BY DEF LaterTurnsWait, SameChat
    <2>1. SameChat(t, u) /\ SameChat(u, t) /\ turn[t].status \in {"queued"} \union BUSY /\ t # u
      BY <1>2, <1>3, <1>4 DEF SameChat
    <2>2. turn[u].status \in {"none", "queued", "throttled"}
      BY <2>1 DEF QueueInv, LaterTurnsWait
    <2>3. ~(turn[u].status = "queued" /\ IsHead(u))
      BY <2>1 DEF IsHead
    <2>4. QED BY <2>2, <2>3 DEF OnlyMoves, BUSY
  <1>9. QED BY <1>5, <1>7, <1>8, <1>h DEF QueueInv

\* What a turn that ends owes the customer, but for its orders.
OneOrder ==
  \A t \in Turn : order[t] = "pending" =>
    \A u \in Turn : turn[u].chat = turn[t].chat /\ order[u] = "pending" => u = t
TurnsAccountedFor ==
  \A t \in Turn :
    /\ turn[t].status \in {"failed", "uncertain", "operator"} => turn[t].handoff
    /\ turn[t].status = "suppressed" => \E i \in DOMAIN lines[turn[t].chat] : lines[turn[t].chat][i] = 0
    /\ turn[t].status = "delivered" => /\ sent[t] = "succeeded"
                                       /\ \E i \in DOMAIN lines[turn[t].chat] : lines[turn[t].chat][i] = t
LEMMA ForgottenParts == NobodyForgotten <=> TurnsAccountedFor /\ OneOrder
  BY DEF NobodyForgotten, TurnsAccountedFor, OneOrder

LEMMA OrdersKeep ==
  ASSUME OneOrder, NEW x, OnlyMoves(x), \A t \in Turn : order'[t] = "pending" => order[t] = "pending"
  PROVE  OneOrder'
  BY DEF OneOrder, OnlyMoves

LEMMA LineIsTurn ==
  ASSUME ConvTyped, NEW c \in Chat, NEW i \in DOMAIN lines[c], lines[c][i] # 0 PROVE lines[c][i] \in Turn
  <1>1. lines[c] \in Seq(0..MaxTurns) /\ MaxTurns \in Nat
    BY ConversationAssumption DEF ConvTyped
  <1>2. lines[c][i] \in 0..MaxTurns
    BY <1>1
  <1>3. QED BY <1>1, <1>2 DEF Turn

\* A step that appends no line keeps the promises if the turn it ends keeps its own.
LEMMA PromisesKeep ==
  ASSUME ConvTyped, QueueInv, LinesAreDelivered, LinesInOrder, TakenOverIsAnswered, TurnsAccountedFor,
         NEW x \in Turn, OnlyMoves(x), lines' = lines, takeover' \subseteq takeover,
         \A t \in Turn : sent[t] = "succeeded" => sent'[t] = "succeeded",
         \/ turn'[x].status = turn[x].status
         \/ turn[x].status # "delivered" /\ turn'[x].status \in {"queued", "throttled"} \union BUSY
         \/ /\ turn[x].status # "delivered" /\ turn'[x].status \in {"failed", "uncertain", "operator"}
            /\ turn'[x].handoff
         \/ turn[x].status # "delivered" /\ turn'[x].status = "suppressed" /\ turn[x].chat \in takeover
  PROVE  LinesAreDelivered' /\ LinesInOrder' /\ TakenOverIsAnswered' /\ TurnsAccountedFor'
  <1>1. \A t \in Turn : turn[t].status = "delivered" <=> turn'[t].status = "delivered"
    BY DEF OnlyMoves, BUSY
  <1>2. \A t \in Turn : turn'[t].chat = turn[t].chat
    BY DEF OnlyMoves
  <1>3. LinesAreDelivered'
    <2>1. \A c \in Chat : \A i \in DOMAIN lines[c] : lines[c][i] # 0 => lines[c][i] \in Turn
      BY LineIsTurn
    <2>2. QED BY <1>1, <1>2, <2>1 DEF LinesAreDelivered
  <1>4. LinesInOrder' /\ TakenOverIsAnswered'
    BY DEF LinesInOrder, TakenOverIsAnswered
  <1>5. TurnsAccountedFor'
    <2> SUFFICES ASSUME NEW t \in Turn
        PROVE  /\ turn'[t].status \in {"failed", "uncertain", "operator"} => turn'[t].handoff
               /\ turn'[t].status = "suppressed" => \E i \in DOMAIN lines[turn[t].chat] : lines[turn[t].chat][i] = 0
               /\ turn'[t].status = "delivered" => /\ sent'[t] = "succeeded"
                                       /\ \E i \in DOMAIN lines[turn[t].chat] : lines[turn[t].chat][i] = t
      BY <1>2 DEF TurnsAccountedFor
    <2>1. turn'[t].status = "delivered" => /\ sent'[t] = "succeeded"
                                       /\ \E i \in DOMAIN lines[turn[t].chat] : lines[turn[t].chat][i] = t
      BY <1>1 DEF TurnsAccountedFor
    <2>2. CASE turn'[t].status = turn[t].status
      BY <2>1, <2>2 DEF TurnsAccountedFor, OnlyMoves
    <2>3. CASE turn'[t].status # turn[t].status
      <3>1. t = x
        BY <2>3 DEF OnlyMoves
      <3>2. QED BY <2>1, <2>3, <3>1 DEF TakenOverIsAnswered, BUSY
    <2>4. QED BY <2>2, <2>3
  <1>6. QED BY <1>3, <1>4, <1>5

LEMMA ConvStart == ConversationInit => ConvInv
  <1> SUFFICES ASSUME ConversationInit PROVE ConvInv
    OBVIOUS
  <1>1. /\ \A t \in Turn : turn[t] = NoTurn /\ order[t] = "none" /\ sent[t] = "none"
        /\ \A c \in Chat : lines[c] = << >>
        /\ \A d \in Desk : desk[d] = AtRest
        /\ \A o \in OperatorTask : opTask[o].status = "none"
        /\ takeover = {}
    BY DEF ConversationInit
  <1>2. NoTurn.status = "none"
    BY DEF NoTurn
  <1>3. NoTurn \in TurnRow /\ AtRest \in DeskRow
    BY ConversationAssumption DEF NoTurn, TurnRow, TurnStatus, AtRest, DeskRow, Turn
  <1>4. ConvTyped
    BY <1>1, <1>3 DEF ConversationInit, ConvTyped
  <1>5. QueueInv
    BY <1>1, <1>2 DEF QueueInv, RecordedInOrder, DesksHoldHeads, DesksHaveTurns, LaterTurnsWait, AtRest, Waiting, BUSY
  <1>6. LinesAreDelivered /\ LinesInOrder /\ TakenOverIsAnswered
    BY <1>1 DEF LinesAreDelivered, LinesInOrder, TakenOverIsAnswered
  <1>7. NobodyForgotten
    BY <1>1, <1>2 DEF NobodyForgotten
  <1>8. QED BY <1>4, <1>5, <1>6, <1>7 DEF ConvInv

\* One row of turn rewritten.
LEMMA RowWritten ==
  ASSUME ConvTyped, NEW t \in Turn, NEW row \in TurnRow, turn' = [turn EXCEPT ![t] = row]
  PROVE  turn' \in [Turn -> TurnRow] /\ turn'[t] = row /\ \A u \in Turn \ {t} : turn'[u] = turn[u]
  BY DEF ConvTyped

LEMMA EndsRow ==
  ASSUME ConvTyped, NEW t \in Turn, NEW status \in Ended, Ends(t, status)
  PROVE  turn' \in [Turn -> TurnRow] /\ OnlyMoves(t) /\ turn'[t].status = status /\ turn'[t].handoff
  <1>1. turn[t] \in TurnRow
    BY DEF ConvTyped
  <1>2. PICK row : row = [turn[t] EXCEPT !.status = status, !.handoff = TRUE]
    OBVIOUS
  <1>3. row \in TurnRow /\ row.chat = turn[t].chat /\ row.status = status /\ row.handoff
    BY <1>1, <1>2 DEF TurnRow, TurnStatus
  <1>4. turn' = [turn EXCEPT ![t] = row]
    BY <1>2 DEF Ends, HandOff
  <1>5. QED BY <1>3, <1>4, RowWritten DEF OnlyMoves

LEMMA StatusRow ==
  ASSUME ConvTyped, NEW t \in Turn, NEW status \in TurnStatus, turn' = [turn EXCEPT ![t].status = status]
  PROVE  turn' \in [Turn -> TurnRow] /\ OnlyMoves(t) /\ turn'[t].status = status
  <1>1. turn[t] \in TurnRow
    BY DEF ConvTyped
  <1>2. PICK row : row = [turn[t] EXCEPT !.status = status]
    OBVIOUS
  <1>3. row \in TurnRow /\ row.chat = turn[t].chat /\ row.status = status /\ row.handoff = turn[t].handoff
    BY <1>1, <1>2 DEF TurnRow, TurnStatus
  <1>4. turn' = [turn EXCEPT ![t] = row]
    BY <1>2
  <1>5. QED BY <1>3, <1>4, RowWritten DEF OnlyMoves

LEMMA RunRow ==
  ASSUME ConvTyped, NEW t \in Turn, NEW run \in {"none", "active", "answer", "nothing"},
         turn' = [turn EXCEPT ![t].run = run]
  PROVE  turn' \in [Turn -> TurnRow] /\ OnlyMoves(t) /\ turn'[t].status = turn[t].status
  <1>1. turn[t] \in TurnRow
    BY DEF ConvTyped
  <1>2. PICK row : row = [turn[t] EXCEPT !.run = run]
    OBVIOUS
  <1>3. row \in TurnRow /\ row.chat = turn[t].chat /\ row.status = turn[t].status /\ row.handoff = turn[t].handoff
    BY <1>1, <1>2 DEF TurnRow, TurnStatus
  <1>4. turn' = [turn EXCEPT ![t] = row]
    BY <1>2
  <1>5. QED BY <1>3, <1>4, RowWritten DEF OnlyMoves

\* The memory of a worker.
LEMMA DeskRested ==
  ASSUME ConvTyped, NEW d \in Desk, Rest(d)
  PROVE  desk' \in [Desk -> DeskRow] /\ DesksKeep
  <1>1. AtRest \in DeskRow /\ AtRest.pc = "idle"
    BY ConversationAssumption DEF AtRest, DeskRow, Turn, Waiting
  <1>2. desk' \in [Desk -> DeskRow] /\ desk'[d] = AtRest /\ \A e \in Desk \ {d} : desk'[e] = desk[e]
    BY <1>1 DEF Rest, ConvTyped
  <1>3. QED BY <1>1, <1>2 DEF DesksKeep, Waiting

LEMMA DeskRemembers ==
  ASSUME ConvTyped, NEW d \in Desk, NEW t \in Turn, NEW pc, [pc |-> pc, turn |-> t] \in DeskRow, Remember(d, pc, t),
         pc \in Waiting => IsHead(t) \/ (desk[d].pc \in Waiting /\ t = desk[d].turn),
         turn[t].status # "none" \/ (desk[d].pc # "idle" /\ t = desk[d].turn)
  PROVE  desk' \in [Desk -> DeskRow] /\ DesksKeep
  <1>1. PICK row : row = [pc |-> pc, turn |-> t]
    OBVIOUS
  <1>2. row \in DeskRow /\ row.pc = pc /\ row.turn = t
    BY <1>1
  <1>3. desk' = [desk EXCEPT ![d] = row]
    BY <1>1 DEF Remember
  <1>4. desk' \in [Desk -> DeskRow] /\ desk'[d] = row /\ \A e \in Desk \ {d} : desk'[e] = desk[e]
    BY <1>2, <1>3 DEF ConvTyped
  <1>5. QED BY <1>2, <1>4 DEF DesksKeep

LEMMA DesksUntouched == ASSUME ConvTyped, desk' = desk PROVE desk' \in [Desk -> DeskRow] /\ DesksKeep
  BY DEF ConvTyped, DesksKeep

\* Nothing but a worker's memory moves.
LEMMA NoTurnMoves == ASSUME ConvTyped, turn' = turn, NEW t \in Turn PROVE turn' \in [Turn -> TurnRow] /\ OnlyMoves(t)
  BY DEF ConvTyped, OnlyMoves

\* The common shape of a step: one turn moves as the queue allows, no line is written.
LEMMA ConvKeeps ==
  ASSUME ConvInv, NEW x \in Turn, turn' \in [Turn -> TurnRow], OnlyMoves(x),
         desk' \in [Desk -> DeskRow], DesksKeep, UNCHANGED <<lines, takeover, opTask>>,
         \/ turn'[x].status = turn[x].status
         \/ turn[x].status = "queued" /\ IsHead(x) /\ turn'[x].status = "open"
         \/ turn[x].status = "queued" /\ IsHead(x) /\ turn'[x].status = "operator" /\ turn'[x].handoff
         \/ turn[x].status \in BUSY /\ turn'[x].status = "delivering"
         \/ turn[x].status \in BUSY /\ turn'[x].status \in {"failed", "uncertain"} /\ turn'[x].handoff
         \/ turn[x].status \in BUSY /\ turn'[x].status = "suppressed" /\ turn[x].chat \in takeover,
         order' \in [Turn -> {"none", "pending"}], OneOrder',
         sent' \in [Turn -> {"none", "open", "succeeded", "failed", "uncertain"}],
         \A t \in Turn : sent[t] = "succeeded" => sent'[t] = "succeeded",
         \A t \in Turn : turn[t].status = "none" => order'[t] = "none" /\ sent'[t] = "none"
  PROVE  ConvInv'
  <1>1. ConvTyped'
    BY DEF ConvInv, ConvTyped
  <1>2. QueueInv'
    <2>1. \/ turn'[x].status = turn[x].status
          \/ turn[x].status = "queued" /\ IsHead(x) /\ turn'[x].status \in {"open", "operator"}
          \/ turn[x].status \in BUSY /\ turn'[x].status \in BUSY \union (Ended \ {"throttled"})
      BY DEF BUSY, Ended
    <2>2. QED BY <2>1, QueueKeeps DEF ConvInv
  <1>3. LinesAreDelivered' /\ LinesInOrder' /\ TakenOverIsAnswered' /\ TurnsAccountedFor'
    <2>1. \/ turn'[x].status = turn[x].status
          \/ turn[x].status # "delivered" /\ turn'[x].status \in {"queued", "throttled"} \union BUSY
          \/ /\ turn[x].status # "delivered" /\ turn'[x].status \in {"failed", "uncertain", "operator"}
             /\ turn'[x].handoff
          \/ turn[x].status # "delivered" /\ turn'[x].status = "suppressed" /\ turn[x].chat \in takeover
      BY DEF BUSY
    <2>2. takeover' \subseteq takeover
      OBVIOUS
    <2>3. QED BY <2>1, <2>2, PromisesKeep, ForgottenParts DEF ConvInv
  <1>4. NobodyForgotten'
    BY <1>3 DEF NobodyForgotten, TurnsAccountedFor, OneOrder
  <1>5. QED BY <1>1, <1>2, <1>3, <1>4 DEF ConvInv

LEMMA QuietFacts ==
  ASSUME ConvInv
  PROVE  /\ ConvTyped /\ OneOrder /\ order \in [Turn -> {"none", "pending"}]
         /\ sent \in [Turn -> {"none", "open", "succeeded", "failed", "uncertain"}]
         /\ \A t \in Turn : turn[t].status = "none" => order[t] = "none" /\ sent[t] = "none"
         /\ \A d \in Desk : desk[d].turn \in Turn /\ desk[d] \in DeskRow
  BY ForgottenParts DEF ConvInv, ConvTyped, QueueInv, RecordedInOrder, DeskRow

\* A step of a worker.
LEMMA DeskKeeps == ASSUME ConvInv, NEW d \in Desk, DeskStep(d) \/ DeskDies(d) PROVE ConvInv'
  <1>q. /\ ConvTyped /\ OneOrder /\ order \in [Turn -> {"none", "pending"}]
        /\ sent \in [Turn -> {"none", "open", "succeeded", "failed", "uncertain"}]
        /\ \A t \in Turn : turn[t].status = "none" => order[t] = "none" /\ sent[t] = "none"
        /\ \A e \in Desk : desk[e].turn \in Turn /\ desk[e] \in DeskRow
    BY QuietFacts
  <1>t. PICK t \in Turn : t = desk[d].turn
    BY <1>q
  <1>o. OnlyMoves(t) /\ order' = order => OneOrder'
    BY <1>q, OrdersKeep
  <1>1. CASE OpenRead(d)
    <2>1. Oldest(Openable) \in Turn /\ IsHead(Oldest(Openable)) /\ turn[Oldest(Openable)].status = "queued"
      BY <1>1, <1>q, OpenableIsHead DEF OpenRead
    <2>2. PICK u \in Turn : u = Oldest(Openable) /\ IsHead(u) /\ turn[u].status = "queued"
      BY <2>1
    <2>3. Remember(d, "leave", u) \/ Remember(d, "open", u)
      BY <1>1, <2>2 DEF OpenRead
    <2>4. [pc |-> "leave", turn |-> u] \in DeskRow /\ [pc |-> "open", turn |-> u] \in DeskRow
      BY DEF DeskRow, Waiting
    <2>5. desk' \in [Desk -> DeskRow] /\ DesksKeep
      BY <1>q, <2>2, <2>3, <2>4, DeskRemembers
    <2>6. QED BY <1>1, <1>q, <1>o, <2>5, NoTurnMoves, ConvKeeps DEF OpenRead
  <1>2. CASE LeaveToOperator(d)
    <2>1. desk' \in [Desk -> DeskRow] /\ DesksKeep
      BY <1>2, <1>q, DeskRested DEF LeaveToOperator
    <2>2. IsHead(t)
      BY <1>2, <1>t DEF LeaveToOperator, ConvInv, QueueInv, DesksHoldHeads, Waiting
    <2>3. CASE turn[t].status = "queued"
      <3>1. turn' \in [Turn -> TurnRow] /\ OnlyMoves(t) /\ turn'[t].status = "operator" /\ turn'[t].handoff
        BY <1>2, <1>q, <1>t, <2>3, EndsRow DEF LeaveToOperator, Ended
      <3>2. QED BY <1>2, <1>q, <1>o, <2>1, <2>2, <2>3, <3>1, ConvKeeps DEF LeaveToOperator
    <2>4. CASE turn[t].status # "queued"
      BY <1>2, <1>q, <1>o, <1>t, <2>1, <2>4, NoTurnMoves, ConvKeeps DEF LeaveToOperator
    <2>5. QED BY <2>3, <2>4
  <1>3. CASE OpenCreate(d)
    <2>1. PICK run \in {"none", "active", "answer", "nothing"} : turn' = [turn EXCEPT ![t].run = run]
      <3>1. turn[t].run \in {"none", "active", "answer", "nothing"}
        BY <1>q DEF ConvTyped, TurnRow
      <3>2. QED BY <1>3, <1>t, <3>1 DEF OpenCreate
    <2>2. turn' \in [Turn -> TurnRow] /\ OnlyMoves(t) /\ turn'[t].status = turn[t].status
      BY <1>q, <2>1, RunRow
    <2>3. [pc |-> "opening", turn |-> t] \in DeskRow
      BY DEF DeskRow, Waiting
    <2>4. desk' \in [Desk -> DeskRow] /\ DesksKeep
      BY <1>3, <1>q, <1>t, <2>3, DeskRemembers DEF OpenCreate, Waiting
    <2>5. QED BY <1>3, <1>q, <1>o, <2>2, <2>4, ConvKeeps DEF OpenCreate
  <1>4. CASE OpenWrite(d)
    <2>1. desk' \in [Desk -> DeskRow] /\ DesksKeep
      BY <1>4, <1>q, DeskRested DEF OpenWrite
    <2>2. IsHead(t)
      BY <1>4, <1>t DEF OpenWrite, ConvInv, QueueInv, DesksHoldHeads, Waiting
    <2>3. CASE turn' = [turn EXCEPT ![t].status = "open"] /\ turn[t].status = "queued"
      <3>1. turn' \in [Turn -> TurnRow] /\ OnlyMoves(t) /\ turn'[t].status = "open"
        BY <1>q, <2>3, StatusRow DEF TurnStatus, BUSY
      <3>2. QED BY <1>4, <1>q, <1>o, <2>1, <2>2, <2>3, <3>1, ConvKeeps DEF OpenWrite
    <2>4. CASE turn' = turn
      BY <1>4, <1>q, <1>o, <2>1, <2>4, NoTurnMoves, ConvKeeps DEF OpenWrite
    <2>5. QED BY <1>4, <1>t, <2>3, <2>4 DEF OpenWrite
  <1>5. CASE DeliverRead(d)
    <2>1. Oldest(Undelivered) \in Turn /\ turn[Oldest(Undelivered)].status = "delivering"
      BY <1>5, OldestIsFirst DEF DeliverRead, Undelivered, WithStatus
    <2>2. PICK u \in Turn : u = Oldest(Undelivered) /\ turn[u].status = "delivering"
      BY <2>1
    <2>3. [pc |-> "check", turn |-> u] \in DeskRow
      BY DEF DeskRow
    <2>4. desk' \in [Desk -> DeskRow] /\ DesksKeep
      BY <1>5, <1>q, <2>2, <2>3, DeskRemembers DEF DeliverRead, Waiting
    <2>5. QED BY <1>5, <1>q, <1>o, <2>4, NoTurnMoves, ConvKeeps DEF DeliverRead
  <1>6. CASE DeliverCheck(d)
    <2>1. desk' \in [Desk -> DeskRow] /\ DesksKeep
      <3>1. CASE Rest(d)
        BY <1>q, <3>1, DeskRested
      <3>2. CASE Remember(d, "submit", t)
        <4>1. [pc |-> "submit", turn |-> t] \in DeskRow
          BY DEF DeskRow
        <4>2. desk[d].pc # "idle"
          BY <1>6 DEF DeliverCheck
        <4>3. QED BY <1>q, <1>t, <3>2, <4>1, <4>2, DeskRemembers DEF Waiting
      <3>3. QED BY <1>6, <1>t, <3>1, <3>2 DEF DeliverCheck
    <2>2. CASE turn' = [turn EXCEPT ![t].status = "suppressed"] /\ t \in Undelivered /\ turn[t].chat \in takeover
      <3>1. turn' \in [Turn -> TurnRow] /\ OnlyMoves(t) /\ turn'[t].status = "suppressed"
        BY <1>q, <2>2, StatusRow DEF TurnStatus, Ended
      <3>2. turn[t].status \in BUSY
        BY <2>2 DEF Undelivered, WithStatus, BUSY
      <3>3. QED BY <1>6, <1>q, <1>o, <2>1, <2>2, <3>1, <3>2, ConvKeeps DEF DeliverCheck
    <2>3. CASE turn' = turn
      BY <1>6, <1>q, <1>o, <2>1, <2>3, NoTurnMoves, ConvKeeps DEF DeliverCheck
    <2>4. QED BY <1>6, <1>t, <2>2, <2>3 DEF DeliverCheck
  <1>7. CASE DeliverSubmit(d)
    <2>1. [pc |-> "record", turn |-> t] \in DeskRow
      BY DEF DeskRow
    <2>2. desk' \in [Desk -> DeskRow] /\ DesksKeep
      BY <1>7, <1>q, <1>t, <2>1, DeskRemembers DEF DeliverSubmit, Waiting
    <2>3. turn[t].status # "none"
      BY <1>7, <1>t DEF DeliverSubmit, ConvInv, QueueInv, DesksHaveTurns
    <2>4. /\ sent' \in [Turn -> {"none", "open", "succeeded", "failed", "uncertain"}]
          /\ \A u \in Turn : sent[u] = "succeeded" => sent'[u] = "succeeded"
          /\ \A u \in Turn : u # t => sent'[u] = sent[u]
      BY <1>7, <1>q, <1>t DEF DeliverSubmit
    <2>5. \A u \in Turn : turn[u].status = "none" => order'[u] = "none" /\ sent'[u] = "none"
      BY <1>7, <1>q, <2>3, <2>4 DEF DeliverSubmit
    <2>6. QED BY <1>7, <1>q, <1>o, <2>2, <2>4, <2>5, NoTurnMoves, ConvKeeps DEF DeliverSubmit
  <1>8. CASE DeliverRefused(d)
    <2>1. desk' \in [Desk -> DeskRow] /\ DesksKeep
      BY <1>8, <1>q, DeskRested DEF DeliverRefused
    <2>2. CASE turn[t].status = "delivering"
      <3>1. turn' \in [Turn -> TurnRow] /\ OnlyMoves(t) /\ turn'[t].status = "failed" /\ turn'[t].handoff
        BY <1>8, <1>q, <1>t, <2>2, EndsRow DEF DeliverRefused, Ended
      <3>2. QED BY <1>8, <1>q, <1>o, <2>1, <2>2, <3>1, ConvKeeps DEF DeliverRefused, BUSY
    <2>3. CASE turn[t].status # "delivering"
      BY <1>8, <1>q, <1>o, <1>t, <2>1, <2>3, NoTurnMoves, ConvKeeps DEF DeliverRefused
    <2>4. QED BY <2>2, <2>3
  <1>9. CASE DeliverRecord(d)
    <2>1. desk' \in [Desk -> DeskRow] /\ DesksKeep
      BY <1>9, <1>q, DeskRested DEF DeliverRecord
    <2>2. CASE turn' = [turn EXCEPT ![t].task = TRUE]
      <3>1. PICK row : row = [turn[t] EXCEPT !.task = TRUE]
        OBVIOUS
      <3>2. row \in TurnRow /\ row.chat = turn[t].chat /\ row.status = turn[t].status /\ row.handoff = turn[t].handoff
        <4>1. turn[t] \in TurnRow
          BY <1>q DEF ConvTyped
        <4>2. QED BY <3>1, <4>1 DEF TurnRow
      <3>3. turn' = [turn EXCEPT ![t] = row]
        BY <2>2, <3>1
      <3>4. turn' \in [Turn -> TurnRow] /\ OnlyMoves(t) /\ turn'[t].status = turn[t].status
        BY <1>q, <3>2, <3>3, RowWritten DEF OnlyMoves
      <3>5. QED BY <1>9, <1>q, <1>o, <2>1, <3>4, ConvKeeps DEF DeliverRecord
    <2>3. CASE turn' = turn
      BY <1>9, <1>q, <1>o, <2>1, <2>3, NoTurnMoves, ConvKeeps DEF DeliverRecord
    <2>4. QED BY <1>9, <1>t, <2>2, <2>3 DEF DeliverRecord
  <1>10. CASE DeskDies(d)
    <2>1. desk' \in [Desk -> DeskRow] /\ DesksKeep
      BY <1>10, <1>q, DeskRested DEF DeskDies
    <2>2. QED BY <1>10, <1>q, <1>o, <2>1, NoTurnMoves, ConvKeeps DEF DeskDies
  <1>11. QED
    BY <1>1, <1>2, <1>3, <1>4, <1>5, <1>6, <1>7, <1>8, <1>9, <1>10 DEF DeskStep

\* Nothing is recorded over a turn: the first that is free is the next, with the number after all.
LEMMA RecordKeeps == ASSUME ConvInv, NEW t \in Turn, NEW c \in Chat, RecordTurn(t, c) PROVE ConvInv'
  <1>q. /\ ConvTyped /\ QueueInv /\ \A d \in Desk : desk[d].turn \in Turn
        /\ TurnsAccountedFor /\ OneOrder /\ LinesAreDelivered /\ LinesInOrder /\ TakenOverIsAnswered
    BY QuietFacts, ForgottenParts DEF ConvInv
  <1>1. PICK status \in {"queued", "throttled"} :
          turn' = [turn EXCEPT ![t] = [NoTurn EXCEPT !.chat = c, !.status = status]]
    BY DEF RecordTurn
  <1>2. PICK row : row = [NoTurn EXCEPT !.chat = c, !.status = status]
    OBVIOUS
  <1>3. row \in TurnRow /\ row.chat = c /\ row.status = status
    BY <1>2 DEF TurnRow, TurnStatus, NoTurn, Ended
  <1>4. turn' \in [Turn -> TurnRow] /\ turn'[t] = row /\ \A u \in Turn \ {t} : turn'[u] = turn[u]
    BY <1>q, <1>1, <1>2, <1>3, RowWritten
  <1>5. UNCHANGED <<order, sent, lines, takeover, opTask, desk>>
    BY DEF RecordTurn
  <1>6. turn[t].status = "none" /\ \A u \in Turn : u < t => turn[u].status # "none"
    BY DEF RecordTurn
  <1>7. \A u \in Turn : t < u => turn[u].status = "none"
    BY <1>q, <1>6 DEF QueueInv, RecordedInOrder
  <1>8. Turn \subseteq Nat
    BY ConversationAssumption DEF Turn
  <1>9. \A u \in Turn : u # t => u < t \/ turn[u].status = "none"
    BY <1>7, <1>8
  <1>10. ConvTyped'
    BY <1>q, <1>4, <1>5 DEF ConvTyped
  <1>11. RecordedInOrder'
    <2>1. \A u \in Turn : turn[u].status # "none" => u # t /\ turn'[u] = turn[u]
      BY <1>4, <1>6
    <2>2. \A u \in Turn : turn'[u].status # "none" <=> turn[u].status # "none" \/ u = t
      BY <1>3, <1>4, <1>6
    <2>3. \A u \in Turn : turn'[u].status # "none" => turn'[u].chat \in Chat
      BY <1>3, <1>4, <1>q DEF QueueInv, RecordedInOrder
    <2>4. \A u, v \in Turn : turn'[u].status # "none" /\ v < u => turn'[v].status # "none"
      BY <1>6, <1>q, <2>2 DEF QueueInv, RecordedInOrder
    <2>5. QED BY <1>5, <1>q, <2>2, <2>3, <2>4 DEF QueueInv, RecordedInOrder
  <1>12. DesksHoldHeads'
    <2> SUFFICES ASSUME NEW d \in Desk, desk[d].pc \in Waiting, NEW h \in Turn, h = desk[d].turn PROVE IsHead(h)'
      BY <1>5, <1>q DEF DesksHoldHeads
    <2>1. IsHead(h) /\ turn[h].status # "none"
      BY <1>q DEF QueueInv, DesksHoldHeads, DesksHaveTurns, Waiting
    <2>2. h # t /\ h < t /\ turn'[h] = turn[h] /\ h \in Nat /\ t \in Nat
      BY <1>4, <1>6, <1>8, <1>9, <2>1
    <2> SUFFICES ASSUME turn[h].status = "queued", NEW u \in Turn, turn[h].chat = turn'[u].chat, u # h
                 PROVE  turn'[u].status \notin BUSY /\ (u < h => turn'[u].status # "queued")
      BY <2>2 DEF IsHead, SameChat
    <2>3. CASE u = t
      BY <1>3, <1>4, <2>2, <2>3 DEF BUSY
    <2>4. CASE u # t
      BY <1>4, <2>1, <2>4 DEF IsHead, SameChat
    <2>5. QED BY <2>3, <2>4
  <1>13. DesksHaveTurns'
    BY <1>3, <1>4, <1>5, <1>q DEF QueueInv, DesksHaveTurns
  <1>14. LaterTurnsWait'
    <2> SUFFICES ASSUME NEW u \in Turn, NEW v \in Turn, u < v, turn'[u].chat = turn'[v].chat,
                        turn'[u].status \in {"queued"} \union BUSY
                 PROVE  turn'[v].status \in {"none", "queued", "throttled"}
      BY DEF LaterTurnsWait, SameChat
    <2>1. CASE v = t
      BY <1>3, <1>4, <2>1
    <2>2. CASE v # t /\ u = t
      BY <1>4, <1>7, <2>2
    <2>3. CASE v # t /\ u # t
      BY <1>4, <1>q, <2>3 DEF QueueInv, LaterTurnsWait, SameChat
    <2>4. QED BY <2>1, <2>2, <2>3
  <1>15. LinesAreDelivered' /\ LinesInOrder' /\ TakenOverIsAnswered'
    <2>1. ASSUME NEW e \in Chat, NEW i \in DOMAIN lines[e], lines[e][i] # 0
          PROVE  turn'[lines[e][i]].chat = e /\ turn'[lines[e][i]].status = "delivered"
      <3>1. lines[e][i] \in Turn
        BY <1>q, <2>1, LineIsTurn
      <3>2. turn[lines[e][i]].chat = e /\ turn[lines[e][i]].status = "delivered"
        BY <1>q, <2>1 DEF LinesAreDelivered
      <3>3. QED BY <1>4, <1>6, <3>1, <3>2
    <2>2. QED BY <1>5, <1>q, <2>1 DEF LinesAreDelivered, LinesInOrder, TakenOverIsAnswered
  <1>16. TurnsAccountedFor'
    BY <1>3, <1>4, <1>5, <1>q DEF TurnsAccountedFor
  <1>17. OneOrder'
    <2>1. \A u \in Turn : order[u] = "pending" => turn'[u] = turn[u]
      BY <1>4, <1>6, <1>q DEF QueueInv, RecordedInOrder
    <2>2. QED BY <1>5, <1>q, <2>1 DEF OneOrder
  <1>18. NobodyForgotten'
    BY <1>16, <1>17 DEF NobodyForgotten, TurnsAccountedFor, OneOrder
  <1>19. QED BY <1>10, <1>11, <1>12, <1>13, <1>14, <1>15, <1>18 DEF ConvInv, QueueInv

\* The reply is kept, and its draft becomes the one order of its sender.
LEMMA SettleKeeps == ASSUME ConvInv, NEW t \in Turn, SettleTurn(t) PROVE ConvInv'
  <1>q. /\ ConvTyped /\ OneOrder /\ order \in [Turn -> {"none", "pending"}] /\ desk' = desk
        /\ sent \in [Turn -> {"none", "open", "succeeded", "failed", "uncertain"}]
        /\ \A u \in Turn : turn[u].status = "none" => order[u] = "none" /\ sent[u] = "none"
    BY QuietFacts DEF SettleTurn
  <1>1. /\ turn[t].status = "open" /\ UNCHANGED <<sent, lines, takeover, opTask, desk>>
        /\ \/ order' = order
           \/ order' = [order EXCEPT ![t] = "pending"] /\ ~OrderPending(turn[t].chat)
    BY DEF SettleTurn
  <1>2. PICK row : /\ turn' = [turn EXCEPT ![t] = row]
                   /\ \/ row = [turn[t] EXCEPT !.status = "delivering"]
                      \/ row = [turn[t] EXCEPT !.status = "delivering", !.handoff = TRUE]
    BY DEF SettleTurn, HandOff
  <1>3. row \in TurnRow /\ row.chat = turn[t].chat /\ row.status = "delivering" /\ (turn[t].handoff => row.handoff)
    <2>1. turn[t] \in TurnRow
      BY <1>q DEF ConvTyped
    <2>2. CASE row = [turn[t] EXCEPT !.status = "delivering"]
      BY <2>1, <2>2 DEF TurnRow, TurnStatus, BUSY
    <2>3. CASE row = [turn[t] EXCEPT !.status = "delivering", !.handoff = TRUE]
      BY <2>1, <2>3 DEF TurnRow, TurnStatus, BUSY
    <2>4. QED BY <1>2, <2>2, <2>3
  <1>4. turn' \in [Turn -> TurnRow] /\ OnlyMoves(t) /\ turn'[t].status = "delivering"
    BY <1>q, <1>2, <1>3, RowWritten DEF OnlyMoves
  <1>5. OneOrder' /\ order' \in [Turn -> {"none", "pending"}] /\ \A u \in Turn : u # t => order'[u] = order[u]
    <2>1. CASE order' = order
      BY <1>q, <1>4, <2>1, OrdersKeep
    <2>2. CASE order' = [order EXCEPT ![t] = "pending"] /\ ~OrderPending(turn[t].chat)
      <3>1. \A u \in Turn : turn'[u].chat = turn[u].chat
        BY <1>4 DEF OnlyMoves
      <3>2. \A u \in Turn : turn[u].chat = turn[t].chat => order[u] # "pending"
        BY <2>2 DEF OrderPending
      <3>3. /\ order' \in [Turn -> {"none", "pending"}]
            /\ \A u \in Turn : u # t => order'[u] = order[u]
        BY <1>q, <2>2
      <3>4. OneOrder'
        BY <1>q, <3>1, <3>2, <3>3 DEF OneOrder
      <3>5. QED BY <3>3, <3>4
    <2>3. QED BY <1>1, <2>1, <2>2
  <1>6. \A u \in Turn : turn[u].status = "none" => order'[u] = "none" /\ sent'[u] = "none"
    BY <1>1, <1>5, <1>q
  <1>7. QED BY <1>1, <1>4, <1>5, <1>6, <1>q, ConvKeeps, DesksUntouched DEF BUSY

\* The agent's line joins a history all of whose lines are of turns before.
LEMMA LineJoins ==
  ASSUME ConvTyped, LinesAreDelivered, LinesInOrder, TakenOverIsAnswered, TurnsAccountedFor,
         NEW c \in Chat, NEW n \in 0..MaxTurns, lines' = [lines EXCEPT ![c] = Append(@, n)]
  PROVE  /\ lines' \in [Chat -> Seq(0..MaxTurns)]
         /\ \A e \in Chat : \A i \in DOMAIN lines'[e] :
              (i \in DOMAIN lines[e] /\ lines'[e][i] = lines[e][i]) \/ (e = c /\ i = Len(lines[c]) + 1 /\ lines'[e][i] = n)
         /\ \A e \in Chat : \A i \in DOMAIN lines[e] : i \in DOMAIN lines'[e] /\ lines'[e][i] = lines[e][i]
         /\ Len(lines[c]) + 1 \in DOMAIN lines'[c] /\ lines'[c][Len(lines[c]) + 1] = n
         /\ \A i \in DOMAIN lines[c] : i < Len(lines[c]) + 1
         /\ DOMAIN lines[c] \subseteq Nat /\ Len(lines[c]) \in Nat
  <1>1. lines[c] \in Seq(0..MaxTurns) /\ lines \in [Chat -> Seq(0..MaxTurns)]
    BY DEF ConvTyped
  <1>2. PICK s : s = Append(lines[c], n)
    OBVIOUS
  <1>3. /\ s \in Seq(0..MaxTurns) /\ Len(lines[c]) \in Nat
        /\ \A i \in DOMAIN s : (i \in DOMAIN lines[c] /\ s[i] = lines[c][i]) \/ (i = Len(lines[c]) + 1 /\ s[i] = n)
        /\ \A i \in DOMAIN lines[c] : i \in DOMAIN s /\ s[i] = lines[c][i]
        /\ Len(lines[c]) + 1 \in DOMAIN s /\ s[Len(lines[c]) + 1] = n
    BY <1>1, <1>2, Appended
  <1>4. /\ lines' \in [Chat -> Seq(0..MaxTurns)] /\ lines'[c] = s
        /\ \A e \in Chat : e # c => lines'[e] = lines[e]
    BY <1>1, <1>2, <1>3
  <1>5. DOMAIN lines[c] = 1..Len(lines[c])
    BY <1>1
  <1>6. \A i \in DOMAIN lines[c] : i \in Nat /\ i < Len(lines[c]) + 1
    BY <1>3, <1>5
  <1>7. \A e \in Chat : \A i \in DOMAIN lines'[e] :
          (i \in DOMAIN lines[e] /\ lines'[e][i] = lines[e][i]) \/ (e = c /\ i = Len(lines[c]) + 1 /\ lines'[e][i] = n)
    BY <1>3, <1>4
  <1>8. \A e \in Chat : \A i \in DOMAIN lines[e] : i \in DOMAIN lines'[e] /\ lines'[e][i] = lines[e][i]
    BY <1>3, <1>4
  <1>9. QED BY <1>3, <1>4, <1>6, <1>7, <1>8

LEMMA CloseKeeps == ASSUME ConvInv, NEW t \in Turn, Close(t) PROVE ConvInv'
  <1>q. /\ ConvTyped /\ QueueInv /\ OneOrder /\ TurnsAccountedFor /\ order \in [Turn -> {"none", "pending"}]
        /\ LinesAreDelivered /\ LinesInOrder /\ TakenOverIsAnswered
        /\ sent \in [Turn -> {"none", "open", "succeeded", "failed", "uncertain"}]
        /\ \A u \in Turn : turn[u].status = "none" => order[u] = "none" /\ sent[u] = "none"
        /\ turn[t].status = "delivering" /\ UNCHANGED <<order, sent, takeover, opTask, desk>>
    BY QuietFacts, ForgottenParts DEF Close, ConvInv
  <1>1. CASE sent[t] \in {"failed", "uncertain"} /\ Ends(t, sent[t]) /\ lines' = lines
    <2>1. turn' \in [Turn -> TurnRow] /\ OnlyMoves(t) /\ turn'[t].status \in {"failed", "uncertain"} /\ turn'[t].handoff
      BY <1>1, <1>q, EndsRow DEF Ended
    <2>2. QED BY <1>1, <1>q, <2>1, ConvKeeps, DesksUntouched, OrdersKeep DEF BUSY
  <1>2. CASE /\ sent[t] = "succeeded" /\ turn' = [turn EXCEPT ![t].status = "delivered"]
             /\ lines' = [lines EXCEPT ![turn[t].chat] = Append(@, t)]
    <2>1. turn' \in [Turn -> TurnRow] /\ OnlyMoves(t) /\ turn'[t].status = "delivered"
      BY <1>2, <1>q, StatusRow DEF TurnStatus, Ended
    <2>2. PICK c \in Chat : c = turn[t].chat
      BY <1>q DEF QueueInv, RecordedInOrder
    <2>3. t \in 0..MaxTurns /\ t # 0 /\ t \in Nat
      BY ConversationAssumption DEF Turn
    <2>4. lines' = [lines EXCEPT ![c] = Append(@, t)]
      BY <1>2, <2>2
    <2>5. /\ lines' \in [Chat -> Seq(0..MaxTurns)]
          /\ \A e \in Chat : \A i \in DOMAIN lines'[e] :
              (i \in DOMAIN lines[e] /\ lines'[e][i] = lines[e][i]) \/ (e = c /\ i = Len(lines[c]) + 1 /\ lines'[e][i] = t)
          /\ \A e \in Chat : \A i \in DOMAIN lines[e] : i \in DOMAIN lines'[e] /\ lines'[e][i] = lines[e][i]
          /\ Len(lines[c]) + 1 \in DOMAIN lines'[c] /\ lines'[c][Len(lines[c]) + 1] = t
          /\ \A i \in DOMAIN lines[c] : i < Len(lines[c]) + 1
          /\ DOMAIN lines[c] \subseteq Nat /\ Len(lines[c]) \in Nat
      BY <1>q, <2>3, <2>4, LineJoins
    <2>6. ConvTyped'
      BY <1>q, <2>1, <2>5 DEF ConvTyped
    <2>7. QueueInv'
      BY <1>q, <2>1, QueueKeeps, DesksUntouched DEF BUSY, Ended
    <2>8. \A u \in Turn : turn'[u].chat = turn[u].chat /\ (turn[u].status = "delivered" => turn'[u].status = "delivered")
      BY <2>1 DEF OnlyMoves
    <2>9. LinesAreDelivered'
      <3> SUFFICES ASSUME NEW e \in Chat, NEW i \in DOMAIN lines'[e], lines'[e][i] # 0
                   PROVE  turn'[lines'[e][i]].chat = e /\ turn'[lines'[e][i]].status = "delivered"
        BY DEF LinesAreDelivered
      <3>1. CASE i \in DOMAIN lines[e] /\ lines'[e][i] = lines[e][i]
        <4>1. lines[e][i] \in Turn
          BY <1>q, <3>1, LineIsTurn
        <4>2. turn[lines[e][i]].chat = e /\ turn[lines[e][i]].status = "delivered"
          BY <1>q, <3>1 DEF LinesAreDelivered
        <4>3. QED BY <2>8, <3>1, <4>1, <4>2
      <3>2. CASE e = c /\ lines'[e][i] = t
        BY <2>1, <2>2, <2>8, <3>2
      <3>3. QED BY <2>5, <3>1, <3>2
    <2>10. LinesInOrder'
      <3> SUFFICES ASSUME NEW e \in Chat, NEW i \in DOMAIN lines'[e], NEW j \in DOMAIN lines'[e], i < j,
                          lines'[e][i] # 0, lines'[e][j] # 0
                   PROVE  lines'[e][i] < lines'[e][j]
        BY DEF LinesInOrder
      <3>1. CASE i \in DOMAIN lines[e] /\ j \in DOMAIN lines[e]
        BY <1>q, <2>5, <3>1 DEF LinesInOrder
      <3>2. CASE e = c /\ j = Len(lines[c]) + 1 /\ lines'[e][j] = t /\ i \in DOMAIN lines[e] /\ lines'[e][i] = lines[e][i]
        <4>1. PICK u \in Turn : u = lines[e][i]
          BY <1>q, <3>2, LineIsTurn
        <4>2. turn[u].chat = c /\ turn[u].status = "delivered"
          BY <1>q, <3>2, <4>1 DEF LinesAreDelivered
        <4>3. u # t /\ SameChat(t, u)
          BY <1>q, <2>2, <4>2 DEF SameChat
        <4>4. ~(t < u)
          BY <1>q, <4>2, <4>3 DEF QueueInv, LaterTurnsWait, BUSY
        <4>5. u \in Nat
          BY ConversationAssumption DEF Turn
        <4>6. QED BY <2>3, <3>2, <4>1, <4>3, <4>4, <4>5
      <3>3. CASE e = c /\ i = Len(lines[c]) + 1
        <4>1. j \in DOMAIN lines[c] \/ j = Len(lines[c]) + 1
          BY <2>5, <3>3
        <4>2. QED BY <2>5, <3>3, <4>1
      <3>4. QED BY <2>5, <3>1, <3>2, <3>3
    <2>11. TakenOverIsAnswered'
      <3>1. takeover \subseteq Chat
        BY <1>q DEF ConvTyped
      <3>2. QED BY <1>q, <2>5, <3>1 DEF TakenOverIsAnswered
    <2>12. TurnsAccountedFor'
      <3> SUFFICES ASSUME NEW u \in Turn
          PROVE  /\ turn'[u].status \in {"failed", "uncertain", "operator"} => turn'[u].handoff
                 /\ turn'[u].status = "suppressed" => \E i \in DOMAIN lines'[turn[u].chat] : lines'[turn[u].chat][i] = 0
                 /\ turn'[u].status = "delivered" => /\ sent[u] = "succeeded"
                                       /\ \E i \in DOMAIN lines'[turn[u].chat] : lines'[turn[u].chat][i] = u
        BY <1>q, <2>8 DEF TurnsAccountedFor
      <3>1. CASE u = t
        BY <1>2, <2>1, <2>2, <2>5, <3>1
      <3>2. CASE u # t /\ turn[u].status = "none"
        BY <2>1, <3>2 DEF OnlyMoves
      <3>3. CASE u # t /\ turn[u].status # "none"
        <4>1. turn'[u].status = turn[u].status /\ (turn[u].handoff => turn'[u].handoff) /\ turn[u].chat \in Chat
          BY <1>q, <2>1, <3>3 DEF OnlyMoves, QueueInv, RecordedInOrder
        <4>2. QED BY <1>q, <2>5, <4>1 DEF TurnsAccountedFor
      <3>4. QED BY <3>1, <3>2, <3>3
    <2>13. OneOrder'
      BY <1>q, <2>1, OrdersKeep
    <2>14. NobodyForgotten'
      BY <2>12, <2>13 DEF NobodyForgotten, TurnsAccountedFor, OneOrder
    <2>15. QED BY <2>6, <2>7, <2>9, <2>10, <2>11, <2>14 DEF ConvInv
  <1>3. QED BY <1>1, <1>2 DEF Close

\* A person's line stands in the history before the chat counts as taken over.
LEMMA OperatorKeeps == ASSUME ConvInv, NEW o \in OperatorTask, SettleOperatorReply(o) PROVE ConvInv'
  <1>q. /\ ConvTyped /\ QueueInv /\ OneOrder /\ TurnsAccountedFor
        /\ LinesAreDelivered /\ LinesInOrder /\ TakenOverIsAnswered
        /\ UNCHANGED <<turn, order, sent, desk>>
    BY QuietFacts, ForgottenParts DEF SettleOperatorReply, ConvInv
  <1>1. PICK c \in Chat : c = opTask[o].chat
    BY <1>q DEF ConvTyped, SettleOperatorReply
  <1>2. lines' = [lines EXCEPT ![c] = Append(@, 0)] /\ takeover' = takeover \union {c}
    BY <1>1 DEF SettleOperatorReply
  <1>3. 0 \in 0..MaxTurns
    BY ConversationAssumption
  <1>4. /\ lines' \in [Chat -> Seq(0..MaxTurns)]
        /\ \A e \in Chat : \A i \in DOMAIN lines'[e] :
            (i \in DOMAIN lines[e] /\ lines'[e][i] = lines[e][i]) \/ (e = c /\ i = Len(lines[c]) + 1 /\ lines'[e][i] = 0)
        /\ \A e \in Chat : \A i \in DOMAIN lines[e] : i \in DOMAIN lines'[e] /\ lines'[e][i] = lines[e][i]
        /\ Len(lines[c]) + 1 \in DOMAIN lines'[c] /\ lines'[c][Len(lines[c]) + 1] = 0
    BY <1>q, <1>2, <1>3, LineJoins
  <1>5. ConvTyped'
    <2>1. opTask' \in [OperatorTask -> [chat : Chat \union {NoTurn.chat},
                                        status : {"none", "open", "succeeded", "failed"}, marked : BOOLEAN]]
      BY <1>q DEF SettleOperatorReply, ConvTyped
    <2>2. \A p \in OperatorTask : opTask'[p].status # "none" => opTask'[p].chat \in Chat
      <3>1. \A p \in OperatorTask : opTask'[p].status = opTask[p].status /\ opTask'[p].chat = opTask[p].chat
        BY <1>q DEF SettleOperatorReply, ConvTyped
      <3>2. QED BY <1>q, <3>1 DEF ConvTyped
    <2>3. QED BY <1>q, <1>2, <1>4, <2>1, <2>2 DEF ConvTyped
  <1>6. QueueInv'
    BY <1>q DEF QueueInv, RecordedInOrder, DesksHoldHeads, DesksHaveTurns, LaterTurnsWait, IsHead, SameChat
  <1>7. LinesAreDelivered' /\ LinesInOrder'
    <2>1. \A e \in Chat : \A i \in DOMAIN lines'[e] : lines'[e][i] # 0 => i \in DOMAIN lines[e] /\ lines'[e][i] = lines[e][i]
      BY <1>4
    <2>2. QED BY <1>q, <2>1 DEF LinesAreDelivered, LinesInOrder
  <1>8. TakenOverIsAnswered'
    <2>1. takeover \subseteq Chat
      BY <1>q DEF ConvTyped
    <2>2. QED BY <1>q, <1>2, <1>4, <2>1 DEF TakenOverIsAnswered
  <1>9. NobodyForgotten'
    <2>1. \A t \in Turn : turn[t].status # "none" => turn[t].chat \in Chat
      BY <1>q DEF QueueInv, RecordedInOrder
    <2>2. TurnsAccountedFor'
      BY <1>q, <1>4, <2>1 DEF TurnsAccountedFor
    <2>3. QED BY <1>q, <2>2 DEF NobodyForgotten, TurnsAccountedFor, OneOrder
  <1>10. QED BY <1>5, <1>6, <1>7, <1>8, <1>9 DEF ConvInv

LEMMA HandoffKeeps == ASSUME ConvInv, NEW t \in Turn, ResolveHandoff(t) PROVE ConvInv'
  <1>q. /\ ConvTyped /\ OneOrder /\ order \in [Turn -> {"none", "pending"}]
        /\ sent \in [Turn -> {"none", "open", "succeeded", "failed", "uncertain"}]
        /\ \A u \in Turn : turn[u].status = "none" => order[u] = "none" /\ sent[u] = "none"
        /\ UNCHANGED <<order, sent, lines, takeover, opTask, desk>>
    BY QuietFacts DEF ResolveHandoff
  <1>1. \A u \in Turn : turn'[u] = turn[u] \/ turn'[u] = [turn[u] EXCEPT !.handled = TRUE]
    BY DEF ResolveHandoff
  <1>2. \A u \in Turn : /\ turn'[u] \in TurnRow /\ turn'[u].chat = turn[u].chat
                        /\ turn'[u].status = turn[u].status /\ (turn[u].handoff => turn'[u].handoff)
    <2> SUFFICES ASSUME NEW u \in Turn
                 PROVE  /\ turn'[u] \in TurnRow /\ turn'[u].chat = turn[u].chat
                        /\ turn'[u].status = turn[u].status /\ (turn[u].handoff => turn'[u].handoff)
      OBVIOUS
    <2>1. turn[u] \in TurnRow
      BY <1>q DEF ConvTyped
    <2>2. PICK row : row = turn'[u]
      OBVIOUS
    <2>3. CASE row = turn[u]
      BY <2>1, <2>2, <2>3
    <2>4. CASE row = [turn[u] EXCEPT !.handled = TRUE]
      <3>1. row \in TurnRow /\ row.chat = turn[u].chat /\ row.status = turn[u].status
        BY <2>1, <2>4 DEF TurnRow
      <3>2. turn[u].handoff => row.handoff
        BY <2>1, <2>4 DEF TurnRow
      <3>3. QED BY <2>2, <3>1, <3>2
    <2>5. QED BY <1>1, <2>2, <2>3, <2>4
  <1>3. turn' \in [Turn -> TurnRow]
    <2>1. turn' = [u \in Turn |-> turn'[u]]
      BY DEF ResolveHandoff
    <2>2. QED BY <1>2, <2>1
  <1>4. OnlyMoves(t)
    BY <1>2 DEF OnlyMoves
  <1>5. QED BY <1>2, <1>3, <1>4, <1>q, ConvKeeps, DesksUntouched, OrdersKeep

LEMMA ConvStays == ConvInv /\ [ConversationNext]_convVars => ConvInv'
  <1> SUFFICES ASSUME ConvInv, [ConversationNext]_convVars PROVE ConvInv'
    OBVIOUS
  <1>q. /\ ConvTyped /\ OneOrder /\ order \in [Turn -> {"none", "pending"}]
        /\ sent \in [Turn -> {"none", "open", "succeeded", "failed", "uncertain"}]
        /\ \A u \in Turn : turn[u].status = "none" => order[u] = "none" /\ sent[u] = "none"
    BY QuietFacts
  <1>1. ASSUME UNCHANGED convVars PROVE ConvInv'
    <2>1. PICK t \in Turn : TRUE
      BY ConversationAssumption DEF Turn
    <2>2. QED BY <1>1, <1>q, <2>1, ConvKeeps, DesksUntouched, OrdersKeep, NoTurnMoves DEF convVars
  <1>2. ASSUME NEW t \in Turn, RunEnds(t) PROVE ConvInv'
    <2>1. PICK run \in {"answer", "nothing"} : turn' = [turn EXCEPT ![t].run = run]
      BY <1>2 DEF RunEnds
    <2>2. turn' \in [Turn -> TurnRow] /\ OnlyMoves(t) /\ turn'[t].status = turn[t].status
      BY <1>q, <2>1, RunRow
    <2>3. QED BY <1>2, <1>q, <2>2, ConvKeeps, DesksUntouched, OrdersKeep DEF RunEnds
  <1>3. ASSUME NEW t \in Turn, OrderDecided(t) PROVE ConvInv'
    <2>1. /\ order' \in [Turn -> {"none", "pending"}]
          /\ \A u \in Turn : order'[u] = "pending" => order[u] = "pending"
          /\ UNCHANGED <<turn, sent, lines, takeover, opTask, desk>>
      BY <1>3, <1>q DEF OrderDecided
    <2>2. \A u \in Turn : turn[u].status = "none" => order'[u] = "none" /\ sent'[u] = "none"
      BY <1>q, <2>1
    <2>3. OneOrder'
      BY <1>q, <2>1, NoTurnMoves, OrdersKeep
    <2>4. QED BY <1>q, <2>1, <2>2, <2>3, ConvKeeps, DesksUntouched, NoTurnMoves
  <1>4. ASSUME NEW t \in Turn, SendEnds(t) PROVE ConvInv'
    <2>1. /\ sent' \in [Turn -> {"none", "open", "succeeded", "failed", "uncertain"}]
          /\ \A u \in Turn : sent[u] = "succeeded" => sent'[u] = "succeeded"
          /\ \A u \in Turn : sent[u] = "none" => sent'[u] = "none"
          /\ UNCHANGED <<turn, order, lines, takeover, opTask, desk>>
      BY <1>4, <1>q DEF SendEnds
    <2>2. \A u \in Turn : turn[u].status = "none" => order'[u] = "none" /\ sent'[u] = "none"
      BY <1>q, <2>1
    <2>3. OneOrder'
      BY <1>q, <2>1, NoTurnMoves, OrdersKeep
    <2>4. QED BY <1>q, <2>1, <2>2, <2>3, ConvKeeps, DesksUntouched, NoTurnMoves
  <1>5. ASSUME UNCHANGED <<turn, order, sent, lines, desk>>, takeover' \subseteq takeover, ConvTyped' PROVE ConvInv'
    BY <1>5 DEF ConvInv, QueueInv, RecordedInOrder, DesksHoldHeads, DesksHaveTurns, LaterTurnsWait, IsHead, SameChat,
       LinesAreDelivered, LinesInOrder, TakenOverIsAnswered, NobodyForgotten
  <1>6. ASSUME NEW o \in OperatorTask, NEW c \in Chat, OperatorReplies(o, c) PROVE ConvInv'
    <2>1. ConvTyped'
      BY <1>6, <1>q DEF OperatorReplies, ConvTyped
    <2>2. QED BY <1>5, <1>6, <2>1 DEF OperatorReplies
  <1>7. ASSUME NEW o \in OperatorTask, OperatorTaskEnds(o) PROVE ConvInv'
    <2>1. ConvTyped'
      <3>1. PICK outcome \in {"succeeded", "failed"} : opTask' = [opTask EXCEPT ![o].status = outcome]
        BY <1>7 DEF OperatorTaskEnds
      <3>2. \A p \in OperatorTask : opTask'[p].chat = opTask[p].chat
        BY <1>q, <3>1 DEF ConvTyped
      <3>3. opTask[o].chat \in Chat /\ \A p \in OperatorTask \ {o} : opTask'[p] = opTask[p]
        BY <1>7, <1>q, <3>1 DEF OperatorTaskEnds, ConvTyped
      <3>4. opTask' \in [OperatorTask -> [chat : Chat \union {NoTurn.chat},
                                        status : {"none", "open", "succeeded", "failed"}, marked : BOOLEAN]]
        BY <1>q, <3>1 DEF ConvTyped
      <3>5. \A p \in OperatorTask : opTask'[p].status # "none" => opTask'[p].chat \in Chat
        BY <1>q, <3>2, <3>3 DEF ConvTyped
      <3>6. QED BY <1>7, <1>q, <3>4, <3>5 DEF OperatorTaskEnds, ConvTyped
    <2>2. QED BY <1>5, <1>7, <2>1 DEF OperatorTaskEnds
  <1>8. ASSUME NEW c \in Chat, TakeoverEnds(c) PROVE ConvInv'
    <2>1. ConvTyped'
      BY <1>8, <1>q DEF TakeoverEnds, ConvTyped
    <2>2. QED BY <1>5, <1>8, <2>1 DEF TakeoverEnds
  <1>9. QED
    BY <1>1, <1>2, <1>3, <1>4, <1>6, <1>7, <1>8, DeskKeeps, RecordKeeps, SettleKeeps, CloseKeeps, OperatorKeeps, HandoffKeeps
       DEF ConversationNext, TurnStep

\* At most one turn of a chat is busy, since of two the later would have overtaken the earlier.
LEMMA OneBusy == ASSUME ConvInv, NEW c \in Chat PROVE Cardinality(InChat(c, BUSY)) <= 1
  <1>1. ASSUME NEW t \in InChat(c, BUSY), NEW u \in InChat(c, BUSY) PROVE t = u
    <2>1. t \in Turn /\ u \in Turn /\ t \in Nat /\ u \in Nat
      BY ConversationAssumption DEF InChat, WithStatus, Turn
    <2>2. SameChat(t, u) /\ SameChat(u, t) /\ turn[t].status \in BUSY /\ turn[u].status \in BUSY
      BY DEF InChat, WithStatus, SameChat
    <2>3. ~(t < u) /\ ~(u < t)
      BY <2>1, <2>2 DEF ConvInv, QueueInv, LaterTurnsWait, BUSY
    <2>4. QED BY <2>1, <2>3
  <1>2. CASE InChat(c, BUSY) = {}
    BY <1>2, FS_EmptySet
  <1>3. CASE InChat(c, BUSY) # {}
    <2>1. PICK t : InChat(c, BUSY) = {t}
      BY <1>1, <1>3
    <2>2. QED BY <2>1, FS_Singleton
  <1>4. QED BY <1>2, <1>3

\* A conversation is answered one turn at a time and in the order its messages came in, for any
\* number of conversations, workers and turns and whatever the ceilings.
THEOREM TurnsAreAnsweredInOrder == ConversationSpec => []TurnsInOrder
  <1>1. ConvInv => TurnsInOrder
    <2> SUFFICES ASSUME ConvInv PROVE TurnsInOrder
      OBVIOUS
    <2>1. \A c \in Chat : Cardinality(InChat(c, BUSY)) <= 1
      BY OneBusy
    <2>2. \A t, u \in Turn : t < u /\ turn[t].chat = turn[u].chat /\ turn[t].status = "queued"
                               => turn[u].status \in {"none", "queued", "throttled"}
      BY DEF ConvInv, QueueInv, LaterTurnsWait, SameChat
    <2>3. ASSUME NEW c \in Chat
          PROVE \A i, j \in 1..Len(lines[c]) :
                  i < j /\ lines[c][i] # 0 /\ lines[c][j] # 0 => lines[c][i] < lines[c][j]
      <3>1. lines[c] \in Seq(0..MaxTurns)
        BY DEF ConvInv, ConvTyped
      <3>2. QED BY <3>1 DEF ConvInv, LinesInOrder
    <2>4. QED BY <2>1, <2>2, <2>3 DEF TurnsInOrder
  <1>2. QED BY <1>1, ConvStart, ConvStays, PTL DEF ConversationSpec

\* No customer is left with nobody: a turn that ended without its reply was handed to a person or
\* finds a person's line in the chat, for any number of conversations, workers and replies.
THEOREM NobodyIsForgotten == ConversationSpec => []NobodyForgotten
  <1>1. ConvInv => NobodyForgotten
    BY DEF ConvInv
  <1>2. QED BY <1>1, ConvStart, ConvStays, PTL DEF ConversationSpec

(***************************************************************************)
(* Escalation: while no two cycles meet and none is cut short, an item is in   *)
(* one place: claimable, in the batch of the one cycle, or out with one message. *)
(***************************************************************************)

NoticeRow ==
  [status : {"none", "queued", "submitted", "sent", "failed", "uncertain"}, attempt : Nat, cooled : BOOLEAN,
   key : Nat \X SUBSET Item]
TickerRow ==
  [pc : {"idle", "read", "claim", "mark", "refused", "failed"}, todo : SUBSET Item, batch : SUBSET Item, day : Nat,
   key : Nat \X SUBSET Item]
EscWorldRow == [day : Nat, allows : {"ok", "frozen", "revoked"}]
EscTyped ==
  /\ notice \in [Item -> NoticeRow] /\ ticker \in [Ticker -> TickerRow]
  /\ escTask \in [NoticeKey -> {"none", "open", "succeeded", "failed", "uncertain"}]
  /\ escWorld \in EscWorldRow /\ overlapped \in BOOLEAN

\* A row waits for the verdict of a message that carries its item.
MarkedWithItsOwn ==
  /\ \A i \in Item : notice[i].status = "submitted" => i \in notice[i].key[2]
  /\ \A w \in Ticker : ticker[w].pc = "mark" => ticker[w].batch \subseteq ticker[w].key[2]
SentWasReported == \A i \in Item : notice[i].status = "sent" => \E k \in NoticeKey : i \in k[2] /\ escTask[k] = "succeeded"

\* A message that is out, or may be, and the one place of an item it carries.
MayBeOut(k) == escTask[k] \in {"open", "uncertain", "succeeded"}
OneCycle == \A v, w \in Ticker : ticker[v].pc # "idle" /\ ticker[w].pc # "idle" => v = w
BatchIsQueued == \A w \in Ticker : \A i \in ticker[w].batch : ticker[w].pc # "idle" /\ notice[i].status = "queued"
OutIsMarked ==
  \A k \in NoticeKey : \A i \in k[2] : MayBeOut(k) =>
    \/ notice[i].status = "submitted" /\ notice[i].key = k
    \/ notice[i].status \in {"sent", "uncertain"}
    \/ \E w \in Ticker : ticker[w].pc = "mark" /\ ticker[w].key = k /\ i \in ticker[w].batch
OutOnce == \A i \in Item : \A k, l \in NoticeKey : i \in k[2] /\ i \in l[2] /\ MayBeOut(k) /\ MayBeOut(l) => k = l
Uninterrupted == OneCycle /\ BatchIsQueued /\ OutIsMarked /\ OutOnce

EscInv == EscTyped /\ MarkedWithItsOwn /\ SentWasReported /\ (~overlapped => Uninterrupted)

LEMMA EscStart == EscalationInit => EscInv
  <1> SUFFICES ASSUME EscalationInit PROVE EscInv
    OBVIOUS
  <1>1. NoKey \in Nat \X SUBSET Item
    BY DEF NoKey
  <1>2. EscTyped
    BY <1>1 DEF EscalationInit, EscTyped, NoticeRow, TickerRow, EscWorldRow, Resting
  <1>3. MarkedWithItsOwn /\ SentWasReported
    BY DEF EscalationInit, MarkedWithItsOwn, SentWasReported, Resting
  <1>4. Uninterrupted
    BY DEF EscalationInit, Uninterrupted, OneCycle, BatchIsQueued, OutIsMarked, OutOnce, MayBeOut, Resting
  <1>5. QED BY <1>2, <1>3, <1>4 DEF EscInv

\* A worker's row rewritten.
LEMMA TickerWritten ==
  ASSUME EscTyped, NEW w \in Ticker, NEW row \in TickerRow, ticker' = [ticker EXCEPT ![w] = row]
  PROVE  ticker' \in [Ticker -> TickerRow] /\ ticker'[w] = row /\ \A v \in Ticker \ {w} : ticker'[v] = ticker[v]
  BY DEF EscTyped

\* A step of one worker that leaves the ledger and the messages alone.
LEMMA TickerKeeps ==
  ASSUME EscInv, NEW w \in Ticker, NEW row \in TickerRow, ticker' = [ticker EXCEPT ![w] = row],
         UNCHANGED <<notice, escTask, escWorld>>, overlapped' = overlapped,
         row.pc # "mark" \/ (ticker[w].pc = "mark" /\ row.key = ticker[w].key /\ row.batch = ticker[w].batch),
         row.batch \subseteq ticker[w].batch, row.pc = "idle" => row.batch = {},
         ticker[w].pc = "mark" => ticker[w].batch \subseteq row.batch /\ (row.pc = "mark" \/ ticker[w].batch = {}),
         row.pc # "idle" /\ ~overlapped => ticker[w].pc # "idle" \/ \A v \in Ticker : ticker[v].pc = "idle"
  PROVE  EscInv'
  <1>1. ticker' \in [Ticker -> TickerRow] /\ ticker'[w] = row /\ \A v \in Ticker \ {w} : ticker'[v] = ticker[v]
    BY TickerWritten DEF EscInv
  <1>2. EscTyped'
    BY <1>1 DEF EscInv, EscTyped
  <1>3. MarkedWithItsOwn' /\ SentWasReported'
    BY <1>1 DEF EscInv, MarkedWithItsOwn, SentWasReported
  <1>4. ASSUME ~overlapped PROVE Uninterrupted'
    <2>1. OneCycle /\ BatchIsQueued /\ OutIsMarked /\ OutOnce
      BY <1>4 DEF EscInv, Uninterrupted
    <2>2. OneCycle'
      BY <1>1, <1>4, <2>1 DEF OneCycle
    <2>3. BatchIsQueued'
      BY <1>1, <2>1 DEF BatchIsQueued
    <2>4. OutIsMarked'
      <3> SUFFICES ASSUME NEW k \in NoticeKey, NEW i \in k[2], MayBeOut(k)
                   PROVE  \/ notice[i].status = "submitted" /\ notice[i].key = k
                          \/ notice[i].status \in {"sent", "uncertain"}
                          \/ \E v \in Ticker : ticker'[v].pc = "mark" /\ ticker'[v].key = k /\ i \in ticker'[v].batch
        BY DEF OutIsMarked, MayBeOut
      <3>1. CASE \E v \in Ticker : ticker[v].pc = "mark" /\ ticker[v].key = k /\ i \in ticker[v].batch
        BY <1>1, <3>1
      <3>2. QED BY <2>1, <3>1 DEF OutIsMarked
    <2>5. OutOnce'
      BY <2>1 DEF OutOnce, MayBeOut
    <2>6. QED BY <2>2, <2>3, <2>4, <2>5 DEF Uninterrupted
  <1>5. QED BY <1>2, <1>3, <1>4 DEF EscInv

\* A step of nobody's cycle that ends messages or reads their verdicts.
LEMMA VerdictKeeps ==
  ASSUME EscInv, UNCHANGED <<ticker, overlapped>>, escWorld' \in EscWorldRow, notice' \in [Item -> NoticeRow],
         escTask' \in [NoticeKey -> {"none", "open", "succeeded", "failed", "uncertain"}],
         \A k \in NoticeKey : MayBeOut(k)' => MayBeOut(k),
         \A k \in NoticeKey : escTask[k] = "succeeded" => escTask'[k] = "succeeded",
         \A i \in Item :
           \/ notice'[i].status = notice[i].status /\ notice'[i].key = notice[i].key
           \/ /\ notice[i].status = "submitted" /\ notice[i].key \in NoticeKey
              /\ notice'[i].status = Verdict[escTask[notice[i].key]]
              /\ escTask[notice[i].key] \in DOMAIN Verdict /\ escTask' = escTask
  PROVE  EscInv'
  <1>v. Verdict.succeeded = "sent" /\ Verdict.failed = "failed" /\ Verdict.uncertain = "uncertain"
        /\ DOMAIN Verdict = {"succeeded", "failed", "uncertain"}
    BY DEF Verdict
  <1>1. EscTyped'
    BY DEF EscInv, EscTyped
  <1>2. \A i \in Item : notice'[i].status \in {"submitted", "queued"} =>
          notice'[i].status = notice[i].status /\ notice'[i].key = notice[i].key
    BY <1>v
  <1>3. MarkedWithItsOwn'
    BY <1>2 DEF EscInv, MarkedWithItsOwn
  <1>4. SentWasReported'
    <2> SUFFICES ASSUME NEW i \in Item, notice'[i].status = "sent"
                 PROVE  \E k \in NoticeKey : i \in k[2] /\ escTask'[k] = "succeeded"
      BY DEF SentWasReported
    <2>1. CASE notice[i].status = "sent"
      BY <2>1 DEF EscInv, SentWasReported
    <2>2. CASE notice[i].status # "sent"
      <3>1. notice[i].status = "submitted" /\ notice[i].key \in NoticeKey /\ escTask'[notice[i].key] = "succeeded"
        BY <1>v, <2>2
      <3>2. QED BY <3>1 DEF EscInv, MarkedWithItsOwn
    <2>3. QED BY <2>1, <2>2
  <1>5. ASSUME ~overlapped PROVE Uninterrupted'
    <2>1. OneCycle /\ BatchIsQueued /\ OutIsMarked /\ OutOnce
      BY <1>5 DEF EscInv, Uninterrupted
    <2>2. \A w \in Ticker : ticker[w].batch \subseteq Item
      BY DEF EscInv, EscTyped, TickerRow
    <2>3. BatchIsQueued' /\ OneCycle'
      <3>1. \A i \in Item : notice[i].status = "queued" => notice'[i].status = "queued"
        OBVIOUS
      <3>2. QED BY <2>1, <2>2, <3>1 DEF BatchIsQueued, OneCycle
    <2>4. OutIsMarked'
      <3> SUFFICES ASSUME NEW k \in NoticeKey, NEW i \in k[2], MayBeOut(k)'
                   PROVE  \/ notice'[i].status = "submitted" /\ notice'[i].key = k
                          \/ notice'[i].status \in {"sent", "uncertain"}
                          \/ \E v \in Ticker : ticker[v].pc = "mark" /\ ticker[v].key = k /\ i \in ticker[v].batch
        BY DEF OutIsMarked
      <3>1. i \in Item
        BY DEF NoticeKey, Batch
      <3>2. CASE notice'[i].status = notice[i].status /\ notice'[i].key = notice[i].key
        BY <2>1, <3>2 DEF OutIsMarked
      <3>3. CASE /\ notice[i].status = "submitted" /\ notice[i].key \in NoticeKey
                 /\ notice'[i].status = Verdict[escTask[notice[i].key]]
                 /\ escTask[notice[i].key] \in DOMAIN Verdict /\ escTask' = escTask
        <4>1. notice[i].key = k \/ \E v \in Ticker : ticker[v].pc = "mark" /\ ticker[v].key = k /\ i \in ticker[v].batch
          BY <2>1, <3>3 DEF OutIsMarked
        <4>2. CASE notice[i].key = k
          BY <1>v, <3>3, <4>2 DEF MayBeOut
        <4>3. QED BY <4>1, <4>2
      <3>4. QED BY <3>1, <3>2, <3>3
    <2>5. OutOnce'
      BY <2>1 DEF OutOnce
    <2>6. QED BY <2>3, <2>4, <2>5 DEF Uninterrupted
  <1>6. QED BY <1>1, <1>3, <1>4, <1>5 DEF EscInv

LEMMA QuietKeeps ==
  ASSUME EscInv, UNCHANGED <<notice, escTask, ticker, overlapped>>, escWorld' \in EscWorldRow
  PROVE  EscInv'
  <1>1. notice' \in [Item -> NoticeRow] /\ escTask' \in [NoticeKey -> {"none", "open", "succeeded", "failed", "uncertain"}]
    BY DEF EscInv, EscTyped
  <1>2. QED BY <1>1, VerdictKeeps DEF MayBeOut

\* An item a cycle has claimed is carried by no message that is out, or may be.
LEMMA ClaimedIsNotOut ==
  ASSUME EscInv, ~overlapped, NEW w \in Ticker, ticker[w].pc \in {"claim", "refused", "failed"}, NEW i \in Item,
         notice[i].status \notin {"sent", "submitted", "uncertain"}, NEW k \in NoticeKey, i \in k[2]
  PROVE  ~MayBeOut(k)
  <1>1. OneCycle /\ OutIsMarked
    BY DEF EscInv, Uninterrupted
  <1>2. \A v \in Ticker : ticker[v].pc # "mark"
    BY <1>1 DEF OneCycle
  <1>3. QED BY <1>1, <1>2 DEF OutIsMarked

LEMMA NoticeWritten ==
  ASSUME EscTyped, NEW i \in Item, NEW row \in NoticeRow, notice' = [notice EXCEPT ![i] = row]
  PROVE  notice' \in [Item -> NoticeRow] /\ notice'[i] = row /\ \A j \in Item \ {i} : notice'[j] = notice[j]
  BY DEF EscTyped

LEMMA ConsiderKeeps == ASSUME EscInv, NEW w \in Ticker, NEW i \in Item, ConsiderItem(w, i) PROVE EscInv'
  <1>t. EscTyped /\ ticker[w] \in TickerRow /\ notice[i] \in NoticeRow
    BY DEF EscInv, EscTyped
  <1>u. UNCHANGED <<escTask, escalation, escWorld, overlapped>> /\ ticker[w].pc = "claim"
    BY DEF ConsiderItem
  <1>1. CASE ~Claimable(i)
    <2>1. PICK row : row = [ticker[w] EXCEPT !.todo = @ \ {i}]
      OBVIOUS
    <2>2. /\ row \in TickerRow /\ row.pc = ticker[w].pc /\ row.batch = ticker[w].batch /\ row.key = ticker[w].key
      BY <1>t, <2>1 DEF TickerRow
    <2>3. ticker' = [ticker EXCEPT ![w] = row] /\ notice' = notice
      BY <1>1, <2>1 DEF ConsiderItem
    <2>4. QED BY <1>u, <2>2, <2>3, TickerKeeps
  <1>2. CASE Claimable(i)
    <2>1. PICK row : row = [ticker[w] EXCEPT !.todo = @ \ {i}, !.batch = @ \union {i}]
      OBVIOUS
    <2>2. /\ row \in TickerRow /\ row.pc = "claim" /\ row.batch = ticker[w].batch \union {i}
      BY <1>t, <1>u, <2>1 DEF TickerRow
    <2>3. ticker' = [ticker EXCEPT ![w] = row]
      BY <1>2, <2>1 DEF ConsiderItem
    <2>4. PICK new : new = [status |-> "queued", attempt |-> notice[i].attempt + 1, cooled |-> FALSE, key |-> NoKey]
      OBVIOUS
    <2>5. new \in NoticeRow /\ new.status = "queued"
      <3>1. NoKey \in Nat \X SUBSET Item /\ notice[i].attempt + 1 \in Nat
        BY <1>t DEF NoKey, NoticeRow
      <3>2. QED BY <2>4, <3>1 DEF NoticeRow
    <2>6. notice' = [notice EXCEPT ![i] = new]
      BY <1>2, <2>4 DEF ConsiderItem
    <2>7. ticker' \in [Ticker -> TickerRow] /\ ticker'[w] = row /\ \A v \in Ticker \ {w} : ticker'[v] = ticker[v]
      BY <1>t, <2>2, <2>3, TickerWritten
    <2>8. notice' \in [Item -> NoticeRow] /\ notice'[i] = new /\ \A j \in Item \ {i} : notice'[j] = notice[j]
      BY <1>t, <2>5, <2>6, NoticeWritten
    <2>9. EscTyped'
      BY <1>t, <1>u, <2>7, <2>8 DEF EscTyped
    <2>10. MarkedWithItsOwn' /\ SentWasReported'
      BY <1>u, <2>2, <2>5, <2>7, <2>8 DEF EscInv, MarkedWithItsOwn, SentWasReported
    <2>11. ASSUME ~overlapped PROVE Uninterrupted'
      <3>1. OneCycle /\ BatchIsQueued /\ OutIsMarked /\ OutOnce
        BY <2>11 DEF EscInv, Uninterrupted
      <3>2. OneCycle'
        BY <1>u, <2>2, <2>7, <3>1 DEF OneCycle
      <3>3. BatchIsQueued'
        <4> SUFFICES ASSUME NEW v \in Ticker, NEW j \in ticker'[v].batch
                     PROVE  ticker'[v].pc # "idle" /\ notice'[j].status = "queued"
          BY DEF BatchIsQueued
        <4>1. j \in Item
          BY <2>7 DEF TickerRow
        <4>2. CASE v = w /\ j = i
          BY <2>2, <2>5, <2>7, <2>8, <4>2
        <4>3. CASE j \in ticker[v].batch /\ j # i
          <5>1. ticker[v].pc # "idle" /\ notice[j].status = "queued"
            BY <3>1, <4>3 DEF BatchIsQueued
          <5>2. QED BY <1>u, <2>2, <2>7, <2>8, <4>1, <4>3, <5>1
        <4>4. CASE v # w /\ j = i
          BY <1>u, <2>7, <3>1, <4>4 DEF OneCycle, BatchIsQueued
        <4>5. QED BY <2>2, <2>7, <4>2, <4>3, <4>4
      <3>4. \A k \in NoticeKey : i \in k[2] => ~MayBeOut(k)
        BY <1>2, <1>u, <2>11, ClaimedIsNotOut DEF Claimable
      <3>5. \A v \in Ticker : ticker[v].pc = "mark" => v # w
        BY <1>u
      <3>6. OutIsMarked'
        <4> SUFFICES ASSUME NEW k \in NoticeKey, NEW j \in k[2], MayBeOut(k)
                     PROVE  \/ notice'[j].status = "submitted" /\ notice'[j].key = k
                            \/ notice'[j].status \in {"sent", "uncertain"}
                            \/ \E v \in Ticker : ticker'[v].pc = "mark" /\ ticker'[v].key = k /\ j \in ticker'[v].batch
          BY <1>u DEF OutIsMarked, MayBeOut
        <4>1. j # i /\ j \in Item
          BY <3>4 DEF NoticeKey, Batch
        <4>2. notice'[j] = notice[j]
          BY <2>8, <4>1
        <4>3. \A v \in Ticker : ticker[v].pc = "mark" => ticker'[v] = ticker[v]
          BY <2>7, <3>5
        <4>4. QED BY <3>1, <4>2, <4>3 DEF OutIsMarked
      <3>7. OutOnce'
        BY <1>u, <3>1 DEF OutOnce, MayBeOut
      <3>8. QED BY <3>2, <3>3, <3>6, <3>7 DEF Uninterrupted
    <2>12. QED BY <1>u, <2>9, <2>10, <2>11 DEF EscInv
  <1>3. QED BY <1>1, <1>2

LEMMA MarkKeeps == ASSUME EscInv, NEW w \in Ticker, NEW i \in Item, MarkItem(w, i) PROVE EscInv'
  <1>t. EscTyped /\ ticker[w] \in TickerRow /\ notice[i] \in NoticeRow
    BY DEF EscInv, EscTyped
  <1>u. /\ UNCHANGED <<escTask, escalation, escWorld, overlapped>>
        /\ ticker[w].pc \in {"mark", "refused", "failed"} /\ i \in ticker[w].batch
    BY DEF MarkItem
  <1>1. PICK row : row = [ticker[w] EXCEPT !.batch = @ \ {i}]
    OBVIOUS
  <1>2. /\ row \in TickerRow /\ row.pc = ticker[w].pc /\ row.key = ticker[w].key /\ row.batch = ticker[w].batch \ {i}
    BY <1>t, <1>1 DEF TickerRow
  <1>3. ticker' = [ticker EXCEPT ![w] = row]
    BY <1>1 DEF MarkItem
  <1>4. PICK status \in {"submitted", "failed"} : status = IF ticker[w].pc = "mark" THEN "submitted" ELSE "failed"
    OBVIOUS
  <1>5. PICK new : new = [notice[i] EXCEPT !.status = status, !.key = ticker[w].key]
    OBVIOUS
  <1>6. new \in NoticeRow /\ new.status = status /\ new.key = ticker[w].key
    BY <1>t, <1>5 DEF NoticeRow, TickerRow
  <1>7. notice' = [notice EXCEPT ![i] = new]
    BY <1>4, <1>5 DEF MarkItem
  <1>8. ticker' \in [Ticker -> TickerRow] /\ ticker'[w] = row /\ \A v \in Ticker \ {w} : ticker'[v] = ticker[v]
    BY <1>t, <1>2, <1>3, TickerWritten
  <1>9. notice' \in [Item -> NoticeRow] /\ notice'[i] = new /\ \A j \in Item \ {i} : notice'[j] = notice[j]
    BY <1>t, <1>6, <1>7, NoticeWritten
  <1>10. EscTyped'
    BY <1>t, <1>u, <1>8, <1>9 DEF EscTyped
  <1>11. MarkedWithItsOwn' /\ SentWasReported'
    <2>1. ticker[w].pc = "mark" => i \in ticker[w].key[2]
      BY <1>u DEF EscInv, MarkedWithItsOwn
    <2>2. MarkedWithItsOwn'
      BY <1>2, <1>4, <1>6, <1>8, <1>9, <2>1 DEF EscInv, MarkedWithItsOwn
    <2>3. SentWasReported'
      BY <1>u, <1>4, <1>6, <1>9 DEF EscInv, SentWasReported
    <2>4. QED BY <2>2, <2>3
  <1>12. ASSUME ~overlapped PROVE Uninterrupted'
    <2>1. OneCycle /\ BatchIsQueued /\ OutIsMarked /\ OutOnce
      BY <1>12 DEF EscInv, Uninterrupted
    <2>2. OneCycle'
      BY <1>2, <1>8, <2>1 DEF OneCycle
    <2>3. BatchIsQueued'
      <3> SUFFICES ASSUME NEW v \in Ticker, NEW j \in ticker'[v].batch
                   PROVE  ticker'[v].pc # "idle" /\ notice'[j].status = "queued"
        BY DEF BatchIsQueued
      <3>1. j \in Item /\ j \in ticker[v].batch
        BY <1>2, <1>8 DEF TickerRow
      <3>2. ticker[v].pc # "idle" /\ notice[j].status = "queued"
        BY <2>1, <3>1 DEF BatchIsQueued
      <3>3. v = w
        BY <1>u, <2>1, <3>2 DEF OneCycle
      <3>4. j # i
        BY <1>2, <1>8, <3>3
      <3>5. QED BY <1>2, <1>8, <1>9, <3>1, <3>2, <3>3, <3>4
    <2>4. OutIsMarked'
      <3> SUFFICES ASSUME NEW k \in NoticeKey, NEW j \in k[2], MayBeOut(k)
                   PROVE  \/ notice'[j].status = "submitted" /\ notice'[j].key = k
                          \/ notice'[j].status \in {"sent", "uncertain"}
                          \/ \E v \in Ticker : ticker'[v].pc = "mark" /\ ticker'[v].key = k /\ j \in ticker'[v].batch
        BY <1>u DEF OutIsMarked, MayBeOut
      <3>0. j \in Item
        BY DEF NoticeKey, Batch
      <3>1. CASE j = i
        <4>1. notice[i].status = "queued"
          BY <1>u, <2>1 DEF BatchIsQueued
        <4>2. PICK v \in Ticker : ticker[v].pc = "mark" /\ ticker[v].key = k /\ i \in ticker[v].batch
          BY <2>1, <3>1, <4>1 DEF OutIsMarked
        <4>3. v = w
          BY <1>u, <2>1, <4>2 DEF OneCycle
        <4>4. QED BY <1>4, <1>6, <1>9, <3>1, <4>2, <4>3
      <3>2. CASE j # i
        <4>1. notice'[j] = notice[j]
          BY <1>9, <3>0, <3>2
        <4>2. \A v \in Ticker : ticker[v].pc = "mark" /\ ticker[v].key = k /\ j \in ticker[v].batch
                => ticker'[v].pc = "mark" /\ ticker'[v].key = k /\ j \in ticker'[v].batch
          BY <1>2, <1>8, <3>2
        <4>3. QED BY <2>1, <4>1, <4>2 DEF OutIsMarked
      <3>3. QED BY <3>1, <3>2
    <2>5. OutOnce'
      BY <1>u, <2>1 DEF OutOnce, MayBeOut
    <2>6. QED BY <2>2, <2>3, <2>4, <2>5 DEF Uninterrupted
  <1>13. QED BY <1>u, <1>10, <1>11, <1>12 DEF EscInv

LEMMA DeliverKeeps == ASSUME EscInv, NEW w \in Ticker, Deliver(w) PROVE EscInv'
  <1>t. EscTyped /\ ticker[w] \in TickerRow
    BY DEF EscInv, EscTyped
  <1>u. UNCHANGED <<notice, escalation, escWorld, overlapped>> /\ ticker[w].pc = "claim"
    BY DEF Deliver, ClaimsOver
  <1>k. PICK k : k = <<ticker[w].day, ticker[w].batch>>
    OBVIOUS
  <1>l. k \in Nat \X SUBSET Item /\ k[2] = ticker[w].batch
    BY <1>t, <1>k DEF TickerRow
  <1>1. CASE \E pc \in {"refused", "failed"} : /\ ticker' = [ticker EXCEPT ![w].pc = pc, ![w].day = 0]
                                               /\ escTask' = escTask
    <2>1. PICK pc \in {"refused", "failed"} : ticker' = [ticker EXCEPT ![w].pc = pc, ![w].day = 0]
      BY <1>1
    <2>2. PICK row : row = [ticker[w] EXCEPT !.pc = pc, !.day = 0]
      OBVIOUS
    <2>3. row \in TickerRow /\ row.pc = pc /\ row.batch = ticker[w].batch
      BY <1>t, <2>2 DEF TickerRow
    <2>4. ticker' = [ticker EXCEPT ![w] = row]
      BY <2>1, <2>2
    <2>5. QED BY <1>1, <1>u, <2>3, <2>4, TickerKeeps
  <1>2. CASE /\ escTask' = [escTask EXCEPT ![k] = IF @ = "none" THEN "open" ELSE @]
             /\ ticker' = [ticker EXCEPT ![w].pc = "mark", ![w].key = k, ![w].day = 0]
    <2>1. PICK row : row = [ticker[w] EXCEPT !.pc = "mark", !.key = k, !.day = 0]
      OBVIOUS
    <2>2. row \in TickerRow /\ row.pc = "mark" /\ row.batch = ticker[w].batch /\ row.key = k
      BY <1>t, <1>l, <2>1 DEF TickerRow
    <2>3. ticker' = [ticker EXCEPT ![w] = row]
      BY <1>2, <2>1
    <2>4. ticker' \in [Ticker -> TickerRow] /\ ticker'[w] = row /\ \A v \in Ticker \ {w} : ticker'[v] = ticker[v]
      BY <1>t, <2>2, <2>3, TickerWritten
    <2>5. /\ escTask' \in [NoticeKey -> {"none", "open", "succeeded", "failed", "uncertain"}]
          /\ \A l \in NoticeKey : l # k => escTask'[l] = escTask[l]
          /\ \A l \in NoticeKey : escTask[l] = "succeeded" => escTask'[l] = "succeeded"
      BY <1>2, <1>t DEF EscTyped
    <2>6. EscTyped'
      BY <1>t, <1>u, <2>4, <2>5 DEF EscTyped
    <2>7. MarkedWithItsOwn' /\ SentWasReported'
      BY <1>u, <1>l, <2>2, <2>4, <2>5 DEF EscInv, MarkedWithItsOwn, SentWasReported
    <2>8. ASSUME ~overlapped PROVE Uninterrupted'
      <3>1. OneCycle /\ BatchIsQueued /\ OutIsMarked /\ OutOnce
        BY <2>8 DEF EscInv, Uninterrupted
      <3>2. \A l \in NoticeKey : \A i \in l[2] : i \in ticker[w].batch => ~MayBeOut(l)
        <4> SUFFICES ASSUME NEW l \in NoticeKey, NEW i \in l[2], i \in ticker[w].batch PROVE ~MayBeOut(l)
          OBVIOUS
        <4>1. i \in Item /\ notice[i].status = "queued"
          BY <1>t, <3>1 DEF BatchIsQueued, TickerRow
        <4>2. QED BY <1>u, <2>8, <4>1, ClaimedIsNotOut
      <3>3. \A l \in NoticeKey : l # k => (MayBeOut(l)' <=> MayBeOut(l))
        BY <2>5 DEF MayBeOut
      <3>4. OneCycle' /\ BatchIsQueued'
        BY <1>u, <2>2, <2>4, <3>1 DEF OneCycle, BatchIsQueued
      <3>5. OutIsMarked'
        <4> SUFFICES ASSUME NEW l \in NoticeKey, NEW i \in l[2], MayBeOut(l)'
                     PROVE  \/ notice[i].status = "submitted" /\ notice[i].key = l
                            \/ notice[i].status \in {"sent", "uncertain"}
                            \/ \E v \in Ticker : ticker'[v].pc = "mark" /\ ticker'[v].key = l /\ i \in ticker'[v].batch
          BY <1>u DEF OutIsMarked
        <4>1. CASE l = k
          BY <1>l, <2>2, <2>4, <4>1
        <4>2. CASE l # k
          <5>1. MayBeOut(l)
            BY <3>3, <4>2
          <5>2. \A v \in Ticker : ticker[v].pc = "mark" => ticker'[v] = ticker[v]
            BY <1>u, <2>4
          <5>3. QED BY <3>1, <5>1, <5>2 DEF OutIsMarked
        <4>3. QED BY <4>1, <4>2
      <3>6. OutOnce'
        <4> SUFFICES ASSUME NEW i \in Item, NEW l \in NoticeKey, NEW m \in NoticeKey, i \in l[2], i \in m[2],
                            MayBeOut(l)', MayBeOut(m)'
                     PROVE  l = m
          BY DEF OutOnce
        <4>1. CASE l # k /\ m # k
          BY <3>1, <3>3, <4>1 DEF OutOnce
        <4>2. CASE l = k /\ m # k
          BY <1>l, <3>2, <3>3, <4>2
        <4>3. CASE l # k /\ m = k
          BY <1>l, <3>2, <3>3, <4>3
        <4>4. QED BY <4>1, <4>2, <4>3
      <3>7. QED BY <3>4, <3>5, <3>6 DEF Uninterrupted
    <2>9. QED BY <1>u, <2>6, <2>7, <2>8 DEF EscInv
  <1>3. QED BY <1>1, <1>2, <1>k DEF Deliver

\* A cycle ends, or dies.
LEMMA RestKeeps ==
  ASSUME EscInv, NEW w \in Ticker, ticker' = [ticker EXCEPT ![w] = Resting], UNCHANGED <<notice, escTask, escWorld>>,
         (overlapped' = overlapped /\ (ticker[w].pc = "mark" => ticker[w].batch = {})) \/ overlapped' = TRUE
  PROVE  EscInv'
  <1>1. NoKey \in Nat \X SUBSET Item
    BY DEF NoKey
  <1>2. Resting \in TickerRow /\ Resting.pc = "idle" /\ Resting.batch = {}
    BY <1>1 DEF Resting, TickerRow
  <1>3. CASE overlapped' = overlapped /\ (ticker[w].pc = "mark" => ticker[w].batch = {})
    BY <1>2, <1>3, TickerKeeps
  <1>4. CASE overlapped' = TRUE
    <2>1. ticker' \in [Ticker -> TickerRow] /\ ticker'[w] = Resting /\ \A v \in Ticker \ {w} : ticker'[v] = ticker[v]
      BY <1>2, TickerWritten DEF EscInv
    <2>2. EscTyped'
      BY <1>4, <2>1 DEF EscInv, EscTyped
    <2>3. MarkedWithItsOwn' /\ SentWasReported'
      BY <1>2, <2>1 DEF EscInv, MarkedWithItsOwn, SentWasReported
    <2>4. QED BY <1>4, <2>2, <2>3 DEF EscInv
  <1>5. QED BY <1>3, <1>4

LEMMA StartKeeps == ASSUME EscInv, NEW w \in Ticker, StartTick(w) PROVE EscInv'
  <1>t. EscTyped /\ ticker[w] \in TickerRow /\ ticker[w].pc = "idle"
    BY DEF EscInv, EscTyped, StartTick
  <1>1. CASE ticker' = ticker /\ overlapped' = overlapped
    <2>1. UNCHANGED <<notice, escTask, escWorld>> /\ escWorld \in EscWorldRow
      BY <1>t DEF StartTick, EscTyped
    <2>2. QED BY <1>1, <2>1, QuietKeeps
  <1>2. CASE /\ ticker' = [ticker EXCEPT ![w].pc = "read"]
             /\ overlapped' = (overlapped \/ \E v \in Ticker : ticker[v].pc # "idle")
    <2>1. PICK row : row = [ticker[w] EXCEPT !.pc = "read"]
      OBVIOUS
    <2>2. row \in TickerRow /\ row.pc = "read" /\ row.batch = ticker[w].batch
      BY <1>t, <2>1 DEF TickerRow
    <2>3. ticker' = [ticker EXCEPT ![w] = row]
      BY <1>2, <2>1
    <2>4. CASE overlapped \/ \E v \in Ticker : ticker[v].pc # "idle"
      <3>1. ticker' \in [Ticker -> TickerRow] /\ ticker'[w] = row /\ \A v \in Ticker \ {w} : ticker'[v] = ticker[v]
        BY <1>t, <2>2, <2>3, TickerWritten
      <3>2. overlapped' = TRUE /\ UNCHANGED <<notice, escTask, escWorld>>
        BY <1>2, <2>4 DEF StartTick
      <3>3. EscTyped' /\ MarkedWithItsOwn' /\ SentWasReported'
        BY <2>2, <3>1, <3>2 DEF EscInv, EscTyped, MarkedWithItsOwn, SentWasReported
      <3>4. QED BY <3>2, <3>3 DEF EscInv
    <2>5. CASE ~overlapped /\ \A v \in Ticker : ticker[v].pc = "idle"
      <3>1. overlapped' = overlapped /\ UNCHANGED <<notice, escTask, escWorld>>
        BY <1>2, <1>t, <2>5 DEF StartTick, EscTyped
      <3>2. QED BY <1>t, <2>2, <2>3, <2>5, <3>1, TickerKeeps
    <2>6. QED BY <1>t, <2>4, <2>5 DEF EscTyped
  <1>3. QED BY <1>1, <1>2 DEF StartTick

LEMMA ReadKeeps == ASSUME EscInv, NEW w \in Ticker, ReadOverdue(w) PROVE EscInv'
  <1>t. EscTyped /\ ticker[w] \in TickerRow /\ ticker[w].pc = "read" /\ UNCHANGED <<notice, escTask, escWorld, overlapped>>
    BY DEF EscInv, EscTyped, ReadOverdue
  <1>1. ASSUME NEW items \in SUBSET Item,
               ticker' = [ticker EXCEPT ![w].pc = "claim", ![w].day = escWorld.day, ![w].todo = items]
        PROVE  EscInv'
    <2>1. PICK row : row = [ticker[w] EXCEPT !.pc = "claim", !.day = escWorld.day, !.todo = items]
      OBVIOUS
    <2>2. row \in TickerRow /\ row.pc = "claim" /\ row.batch = ticker[w].batch
      <3>1. escWorld.day \in Nat
        BY <1>t DEF EscTyped, EscWorldRow
      <3>2. QED BY <1>t, <2>1, <3>1 DEF TickerRow
    <2>3. ticker' = [ticker EXCEPT ![w] = row]
      BY <1>1, <2>1
    <2>4. QED BY <1>t, <2>2, <2>3, TickerKeeps
  <1>2. CASE ticker' = [ticker EXCEPT ![w] = Resting]
    BY <1>2, <1>t, RestKeeps
  <1>3. QED BY <1>1, <1>2 DEF ReadOverdue

LEMMA SettleNoticesKeeps == ASSUME EscInv, NEW k \in NoticeKey, SettleNotices(k) PROVE EscInv'
  <1>t. EscTyped /\ UNCHANGED <<escTask, ticker, escalation, escWorld, overlapped>> /\ escTask[k] \in DOMAIN Verdict
    BY DEF EscInv, SettleNotices
  <1>1. \A i \in Item :
          \/ notice'[i] = notice[i]
          \/ /\ notice[i].status = "submitted" /\ notice[i].key = k
             /\ notice'[i] = [notice[i] EXCEPT !.status = Verdict[escTask[k]], !.key = NoKey]
    BY DEF SettleNotices
  <1>2. Verdict[escTask[k]] \in {"sent", "failed", "uncertain"}
    BY <1>t DEF Verdict
  <1>3. NoKey \in Nat \X SUBSET Item
    BY DEF NoKey
  <1>4. PICK verdict : verdict = Verdict[escTask[k]]
    OBVIOUS
  <1>5. \A i \in Item :
          /\ notice'[i] \in NoticeRow
          /\ \/ notice'[i] = notice[i]
             \/ notice[i].status = "submitted" /\ notice[i].key = k /\ notice'[i].status = verdict
    <2> SUFFICES ASSUME NEW i \in Item
        PROVE  /\ notice'[i] \in NoticeRow
               /\ \/ notice'[i] = notice[i]
                  \/ notice[i].status = "submitted" /\ notice[i].key = k /\ notice'[i].status = verdict
      OBVIOUS
    <2>1. notice[i] \in NoticeRow
      BY <1>t DEF EscTyped
    <2>2. CASE notice'[i] = [notice[i] EXCEPT !.status = verdict, !.key = NoKey] /\ notice[i].status = "submitted"
               /\ notice[i].key = k
      <3>1. PICK row : row = [notice[i] EXCEPT !.status = verdict, !.key = NoKey]
        OBVIOUS
      <3>2. row \in NoticeRow /\ row.status = verdict
        BY <1>2, <1>3, <1>4, <2>1, <3>1 DEF NoticeRow
      <3>3. QED BY <2>2, <3>1, <3>2
    <2>3. QED BY <1>1, <1>4, <2>1, <2>2
  <1>6. notice' \in [Item -> NoticeRow]
    <2>1. notice' = [i \in Item |-> notice'[i]]
      BY DEF SettleNotices
    <2>2. QED BY <1>5, <2>1
  <1>7. \A l \in NoticeKey : (MayBeOut(l)' => MayBeOut(l)) /\ (escTask[l] = "succeeded" => escTask'[l] = "succeeded")
    BY <1>t DEF MayBeOut
  <1>8. \A i \in Item :
           \/ notice'[i].status = notice[i].status /\ notice'[i].key = notice[i].key
           \/ /\ notice[i].status = "submitted" /\ notice[i].key \in NoticeKey
              /\ notice'[i].status = Verdict[escTask[notice[i].key]]
              /\ escTask[notice[i].key] \in DOMAIN Verdict /\ escTask' = escTask
    BY <1>t, <1>4, <1>5
  <1>9. escTask' \in [NoticeKey -> {"none", "open", "succeeded", "failed", "uncertain"}] /\ escWorld' \in EscWorldRow
    BY <1>t DEF EscTyped
  <1>10. QED BY <1>t, <1>6, <1>7, <1>8, <1>9, VerdictKeeps

LEMMA EscStays == EscInv /\ [EscalationNext]_escalationVars => EscInv'
  <1> SUFFICES ASSUME EscInv, [EscalationNext]_escalationVars PROVE EscInv'
    OBVIOUS
  <1>t. EscTyped
    BY DEF EscInv
  <1>1. ASSUME UNCHANGED escalationVars PROVE EscInv'
    BY <1>1, <1>t, QuietKeeps DEF escalationVars, EscTyped
  <1>2. ASSUME NEW to, PutEscalation(to) PROVE EscInv'
    BY <1>2, <1>t, QuietKeeps DEF PutEscalation, EscTyped
  <1>3. ASSUME EscalationComesDue PROVE EscInv'
    BY <1>3, <1>t, QuietKeeps DEF EscalationComesDue, EscTyped
  <1>4. ASSUME EscWorldChanges PROVE EscInv'
    <2>1. escWorld' \in EscWorldRow
      BY <1>4, <1>t DEF EscWorldChanges, EscTyped, EscWorldRow
    <2>2. QED BY <1>4, <2>1, QuietKeeps DEF EscWorldChanges
  <1>5. ASSUME NEW i \in Item, CooldownEnds(i) PROVE EscInv'
    <2>1. UNCHANGED <<escTask, ticker, escWorld, overlapped>> /\ notice[i] \in NoticeRow
      BY <1>5, <1>t DEF CooldownEnds, EscTyped
    <2>2. PICK row : row = [notice[i] EXCEPT !.cooled = TRUE]
      OBVIOUS
    <2>3. row \in NoticeRow /\ row.status = notice[i].status /\ row.key = notice[i].key
      BY <2>1, <2>2 DEF NoticeRow
    <2>4. notice' = [notice EXCEPT ![i] = row]
      BY <1>5, <2>2 DEF CooldownEnds
    <2>5. notice' \in [Item -> NoticeRow] /\ \A j \in Item : notice'[j].status = notice[j].status /\ notice'[j].key = notice[j].key
      BY <1>t, <2>3, <2>4, NoticeWritten
    <2>6. QED BY <1>t, <2>1, <2>5, VerdictKeeps DEF EscTyped, MayBeOut
  <1>6. ASSUME NEW w \in Ticker, NothingToReport(w) PROVE EscInv'
    BY <1>6, RestKeeps DEF NothingToReport
  <1>7. ASSUME NEW w \in Ticker, EndTick(w) PROVE EscInv'
    BY <1>7, RestKeeps DEF EndTick
  <1>8. ASSUME NEW w \in Ticker, TickerDies(w) PROVE EscInv'
    BY <1>8, RestKeeps DEF TickerDies
  <1>9. ASSUME NEW k \in NoticeKey, DeliveryEnds(k) PROVE EscInv'
    <2>1. UNCHANGED <<notice, ticker, escWorld, overlapped>>
      BY <1>9 DEF DeliveryEnds
    <2>2. /\ escTask' \in [NoticeKey -> {"none", "open", "succeeded", "failed", "uncertain"}]
          /\ \A l \in NoticeKey : MayBeOut(l)' => MayBeOut(l)
          /\ \A l \in NoticeKey : escTask[l] = "succeeded" => escTask'[l] = "succeeded"
      BY <1>9, <1>t DEF DeliveryEnds, EscTyped, MayBeOut, Verdict
    <2>3. QED BY <1>t, <2>1, <2>2, VerdictKeeps DEF EscTyped
  <1>10. QED
    BY <1>1, <1>2, <1>3, <1>4, <1>5, <1>6, <1>7, <1>8, <1>9, StartKeeps, ReadKeeps, ConsiderKeeps, DeliverKeeps,
       MarkKeeps, SettleNoticesKeeps
       DEF EscalationNext

\* While no cycle is cut short and no two meet, a manager is told of an item at most once, and a
\* row that says so is always right: for any number of workers, items, days and messages.
THEOREM ManagersAreToldOnce == EscalationSpec => []ToldOnceUnlessInterrupted
  <1>1. EscInv => ToldOnceUnlessInterrupted
    <2> SUFFICES ASSUME EscInv, NEW i \in Item
                 PROVE  /\ notice[i].status = "sent" => Reports(i) # {}
                        /\ ~overlapped => Cardinality(Reports(i)) <= 1
      BY DEF ToldOnceUnlessInterrupted
    <2>1. notice[i].status = "sent" => Reports(i) # {}
      BY DEF EscInv, SentWasReported, Reports
    <2>2. ASSUME ~overlapped PROVE Cardinality(Reports(i)) <= 1
      <3>1. ASSUME NEW k \in Reports(i), NEW l \in Reports(i) PROVE k = l
        BY <2>2 DEF EscInv, Uninterrupted, OutOnce, MayBeOut, Reports
      <3>2. CASE Reports(i) = {}
        BY <3>2, FS_EmptySet
      <3>3. CASE Reports(i) # {}
        <4>1. PICK k : Reports(i) = {k}
          BY <3>1, <3>3
        <4>2. Cardinality({k}) = 1
          BY FS_Singleton
        <4>3. QED BY <4>1, <4>2
      <3>4. QED BY <3>2, <3>3
    <2>3. QED BY <2>1, <2>2
  <1>2. QED BY <1>1, EscStart, EscStays, PTL DEF EscalationSpec

(***************************************************************************)
(* Re-engagement: what a step may do to a closed row.                          *)
(***************************************************************************)

LeadRow == [status : {"none", "queued"} \union Closed, attempt : Nat, run : Nat, cooled : BOOLEAN]
CallerRow == [pc : {"idle", "feed", "leads", "claimed", "created"}, cap : AttemptCaps \union {HighestCap},
              lead : Lead \union {AtEase.lead}, attempt : Nat]
OutreachTyped == ledger \in [Lead -> LeadRow] /\ caller \in [Caller -> CallerRow]

LEMMA AtEaseIsARow == AtEase \in CallerRow /\ AtEase.pc = "idle"
  <1>1. PICK lead : lead = AtEase.lead
    OBVIOUS
  <1>2. AtEase = [pc |-> "idle", cap |-> HighestCap, lead |-> lead, attempt |-> 0]
    BY <1>1 DEF AtEase
  <1>3. QED BY <1>1, <1>2 DEF CallerRow

LEMMA LeadWritten ==
  ASSUME OutreachTyped, NEW l \in Lead, NEW row \in LeadRow, ledger' = [ledger EXCEPT ![l] = row]
  PROVE  ledger' \in [Lead -> LeadRow] /\ ledger'[l] = row /\ \A m \in Lead \ {l} : ledger'[m] = ledger[m]
  BY DEF OutreachTyped

LEMMA CallerWritten ==
  ASSUME OutreachTyped, NEW w \in Caller, NEW row \in CallerRow, caller' = [caller EXCEPT ![w] = row]
  PROVE  caller' \in [Caller -> CallerRow]
  BY DEF OutreachTyped

\* The promise of one step, and that the rows stay rows.
StaysClosed ==
  \A l \in Lead : ledger[l].status \in Closed =>
    /\ ledger'[l].attempt = ledger[l].attempt
    /\ ledger'[l].status # ledger[l].status =>
         \E w \in Caller : caller[w].lead = l /\ caller[w].pc \in {"claimed", "created"}

LEMMA PcMoves ==
  ASSUME OutreachTyped, NEW w \in Caller, NEW pc \in {"idle", "feed", "leads", "claimed", "created"}, Go(w, pc)
  PROVE  caller' \in [Caller -> CallerRow]
  <1>1. caller[w] \in CallerRow
    BY DEF OutreachTyped
  <1>2. PICK row : row = [caller[w] EXCEPT !.pc = pc]
    OBVIOUS
  <1>3. row \in CallerRow
    BY <1>1, <1>2 DEF CallerRow
  <1>4. caller' = [caller EXCEPT ![w] = row]
    BY <1>2 DEF Go
  <1>5. QED BY <1>3, <1>4, CallerWritten

LEMMA ClaimMoves ==
  ASSUME OutreachTyped, NEW w \in Caller, NEW l \in Lead, ClaimLead(w, l) PROVE OutreachTyped' /\ StaysClosed
  <1>1. ledger[l] \in LeadRow /\ caller[w] \in CallerRow /\ ledger[l].status \in {"none", "queued"}
    BY DEF OutreachTyped, ClaimLead, Repeatable
  <1>2. PICK n : n = ledger[l].attempt + 1
    OBVIOUS
  <1>3. n \in Nat
    BY <1>1, <1>2 DEF LeadRow
  <1>4. PICK row : row = [status |-> "queued", attempt |-> n, run |-> 0, cooled |-> FALSE]
    OBVIOUS
  <1>5. row \in LeadRow
    BY <1>3, <1>4 DEF LeadRow
  <1>6. ledger' = [ledger EXCEPT ![l] = row]
    BY <1>2, <1>4 DEF ClaimLead
  <1>7. ledger' \in [Lead -> LeadRow] /\ \A m \in Lead \ {l} : ledger'[m] = ledger[m]
    BY <1>5, <1>6, LeadWritten
  <1>8. PICK mine : mine = [caller[w] EXCEPT !.pc = "claimed", !.lead = l, !.attempt = n]
    OBVIOUS
  <1>9. mine \in CallerRow
    BY <1>1, <1>3, <1>8 DEF CallerRow
  <1>10. caller' = [caller EXCEPT ![w] = mine]
    BY <1>2, <1>8 DEF ClaimLead
  <1>11. caller' \in [Caller -> CallerRow]
    BY <1>9, <1>10, CallerWritten
  <1>12. StaysClosed
    BY <1>1, <1>7 DEF StaysClosed, Closed
  <1>13. QED BY <1>7, <1>11, <1>12 DEF OutreachTyped

LEMMA MarkMoves ==
  ASSUME OutreachTyped, NEW w \in Caller, MarkLead(w) PROVE OutreachTyped' /\ StaysClosed
  <1>1. PICK l : l = caller[w].lead
    OBVIOUS
  <1>2. PICK status, run : /\ status = IF caller[w].pc = "claimed" THEN "failed" ELSE "queued"
                           /\ run = IF caller[w].pc = "claimed" THEN 0 ELSE caller[w].attempt
    OBVIOUS
  <1>3. caller[w] \in CallerRow /\ caller[w].pc \in {"claimed", "created"}
    BY DEF OutreachTyped, MarkLead
  <1>4. status \in {"failed", "queued"} /\ run \in Nat
    BY <1>2, <1>3 DEF CallerRow
  <1>5. ledger' = [ledger EXCEPT ![l].status = status, ![l].run = run]
    BY <1>1, <1>2, <1>3 DEF MarkLead
  <1>6. caller' \in [Caller -> CallerRow]
    BY PcMoves DEF MarkLead
  <1>7. CASE l \in Lead
    <2>1. ledger[l] \in LeadRow
      BY <1>7 DEF OutreachTyped
    <2>2. PICK row : row = [ledger[l] EXCEPT !.status = status, !.run = run]
      OBVIOUS
    <2>3. row \in LeadRow /\ row.attempt = ledger[l].attempt
      BY <1>4, <2>1, <2>2 DEF LeadRow, Closed
    <2>4. ledger' = [ledger EXCEPT ![l] = row]
      BY <1>5, <2>2
    <2>5. ledger' \in [Lead -> LeadRow] /\ ledger'[l] = row /\ \A m \in Lead \ {l} : ledger'[m] = ledger[m]
      BY <1>7, <2>3, <2>4, LeadWritten
    <2>6. StaysClosed
      BY <1>1, <1>3, <2>3, <2>5 DEF StaysClosed
    <2>7. QED BY <1>6, <2>5, <2>6 DEF OutreachTyped
  <1>8. CASE l \notin Lead
    <2>1. ledger' = ledger
      BY <1>5, <1>8 DEF OutreachTyped
    <2>2. QED BY <1>6, <2>1 DEF OutreachTyped, StaysClosed
  <1>9. QED BY <1>7, <1>8

\* What the other steps write of a row: its status, of a row that waits, or that its cooldown is over.
LEMMA RowMoves ==
  ASSUME OutreachTyped, NEW l \in Lead, NEW row \in LeadRow, ledger' = [ledger EXCEPT ![l] = row], caller' = caller,
         row.attempt = ledger[l].attempt, ledger[l].status = "queued" \/ row.status = ledger[l].status
  PROVE  OutreachTyped' /\ StaysClosed
  <1>1. ledger' \in [Lead -> LeadRow] /\ ledger'[l] = row /\ \A m \in Lead \ {l} : ledger'[m] = ledger[m]
    BY LeadWritten
  <1>2. StaysClosed
    BY <1>1 DEF StaysClosed, Closed
  <1>3. QED BY <1>1, <1>2 DEF OutreachTyped

LEMMA OutreachSteps == ASSUME OutreachTyped, [OutreachNext]_outreachVars PROVE OutreachTyped' /\ StaysClosed
  <1>1. ASSUME ledger' = ledger, caller' \in [Caller -> CallerRow] PROVE OutreachTyped' /\ StaysClosed
    BY <1>1 DEF OutreachTyped, StaysClosed
  <1>2. ASSUME ledger' = ledger, caller' = caller PROVE OutreachTyped' /\ StaysClosed
    BY <1>2 DEF OutreachTyped, StaysClosed
  <1>3. ASSUME NEW p \in AttemptCaps, NEW on \in BOOLEAN, ComesDue(p) \/ ConfigureOutreach(p, on)
        PROVE  OutreachTyped' /\ StaysClosed
    BY <1>2, <1>3 DEF ComesDue, ConfigureOutreach
  <1>4. ASSUME NEW to, OutreachChanges(to) PROVE OutreachTyped' /\ StaysClosed
    BY <1>2, <1>4 DEF OutreachChanges
  <1>5. ASSUME NEW w \in Caller, NEW p \in AttemptCaps, StartCycle(w, p) PROVE OutreachTyped' /\ StaysClosed
    <2>1. PICK row : row = [AtEase EXCEPT !.pc = "feed", !.cap = p]
      OBVIOUS
    <2>2. row \in CallerRow
      BY <2>1, AtEaseIsARow DEF CallerRow
    <2>3. ledger' = ledger /\ (caller' = caller \/ caller' = [caller EXCEPT ![w] = row])
      BY <1>5, <2>1 DEF StartCycle
    <2>4. QED BY <1>1, <1>2, <2>2, <2>3, CallerWritten
  <1>6. ASSUME NEW w \in Caller, ReadFeed(w) \/ EndCycle(w) \/ CallerDies(w) \/ OpenLeadRun(w)
        PROVE  OutreachTyped' /\ StaysClosed
    <2>1. ledger' = ledger /\ (caller' = [caller EXCEPT ![w] = AtEase] \/ Go(w, "leads") \/ Go(w, "created"))
      BY <1>6 DEF ReadFeed, EndCycle, CallerDies, OpenLeadRun
    <2>2. caller' \in [Caller -> CallerRow]
      BY <2>1, AtEaseIsARow, CallerWritten, PcMoves
    <2>3. QED BY <1>1, <2>1, <2>2
  <1>7. ASSUME NEW w \in Caller, NEW l \in Lead, ExhaustLead(w, l) PROVE OutreachTyped' /\ StaysClosed
    <2>1. PICK row : row = [ledger[l] EXCEPT !.status = "exhausted"]
      OBVIOUS
    <2>2. row \in LeadRow /\ row.attempt = ledger[l].attempt
      BY <2>1 DEF OutreachTyped, LeadRow, Closed
    <2>3. ledger' = [ledger EXCEPT ![l] = row] /\ caller' = caller /\ ledger[l].status = "queued"
      BY <1>7, <2>1 DEF ExhaustLead
    <2>4. QED BY <2>2, <2>3, RowMoves
  <1>8. ASSUME NEW l \in Lead, SyncLead(l) PROVE OutreachTyped' /\ StaysClosed
    <2>1. PICK row : row = [ledger[l] EXCEPT !.status = "settled"]
      OBVIOUS
    <2>2. row \in LeadRow /\ row.attempt = ledger[l].attempt
      BY <2>1 DEF OutreachTyped, LeadRow, Closed
    <2>3. ledger' = [ledger EXCEPT ![l] = row] /\ caller' = caller /\ ledger[l].status = "queued"
      BY <1>8, <2>1 DEF SyncLead
    <2>4. QED BY <2>2, <2>3, RowMoves
  <1>9. ASSUME NEW l \in Lead, CooldownPasses(l) PROVE OutreachTyped' /\ StaysClosed
    <2>1. PICK row : row = [ledger[l] EXCEPT !.cooled = TRUE]
      OBVIOUS
    <2>2. row \in LeadRow /\ row.attempt = ledger[l].attempt /\ row.status = ledger[l].status
      BY <2>1 DEF OutreachTyped, LeadRow
    <2>3. ledger' = [ledger EXCEPT ![l] = row] /\ caller' = caller
      BY <1>9, <2>1 DEF CooldownPasses
    <2>4. QED BY <2>2, <2>3, RowMoves
  <1>10. ASSUME NEW l \in Lead, NEW k \in Try, LeadRunWrites(l, k) \/ LeadRunEnds(l, k) PROVE OutreachTyped' /\ StaysClosed
    BY <1>2, <1>10 DEF LeadRunWrites, LeadRunEnds
  <1>11. QED BY <1>2, <1>3, <1>4, <1>5, <1>6, <1>7, <1>8, <1>9, <1>10, ClaimMoves, MarkMoves DEF OutreachNext, outreachVars

\* A closed row is claimed by nobody again, and only the late mark of a worker that claimed an
\* earlier attempt moves its status: for any leads, workers, policies and caps.
THEOREM ClosedRowsAreLeftAlone == OutreachSpec => ClosedLeadsStayClosed
  <1>1. OutreachInit => OutreachTyped
    BY AtEaseIsARow DEF OutreachInit, OutreachTyped, LeadRow
  <1>2. OutreachTyped /\ [OutreachNext]_outreachVars => OutreachTyped' /\ StaysClosed
    BY OutreachSteps
  <1>3. QED BY <1>1, <1>2, PTL DEF OutreachSpec, ClosedLeadsStayClosed, StaysClosed
===============================================================================
