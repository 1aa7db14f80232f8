----------------------------- MODULE Conversation -----------------------------
(***************************************************************************)
(* Conversation turns (platform_runtime/conversation.py) and operator replies *)
(* (operator_reply.py): an inbound message is recorded as a turn, answered by   *)
(* a bounded agent run, and the reply is sent as one task; a person who        *)
(* answers in the chat takes it over.                                        *)
(*                                                                         *)
(* One tenant, one sender per conversation.  Turns are numbered in the order   *)
(* they are recorded.  The run, the send and the order are rows of other        *)
(* components, modelled by their status (AgentRun, TaskEngine have them in      *)
(* full); the text of an answer by whether it may be said.  A frozen tenant is  *)
(* a stage that does not run, or a submission that is refused.                 *)
(***************************************************************************)
EXTENDS Naturals, FiniteSets, Sequences

CONSTANTS
  Chat,          \* conversations
  Desk,          \* worker processes
  OperatorTask,  \* replies an operator may send
  MaxTurns,      \* turns recorded in all
  MaxQueued,     \* MAX_QUEUED_TURNS_PER_SENDER
  MaxOpenTurns   \* MAX_OPEN_TURNS

ASSUME ConversationAssumption ==
  MaxTurns \in Nat \ {0} /\ MaxQueued \in Nat \ {0} /\ MaxOpenTurns \in Nat \ {0}

Turn == 1..MaxTurns

VARIABLES
  turn,       \* p_conversation_turns: chat, status, run, task, handoff, and whether a person handled that
  order,      \* order task captured from the turn's run
  sent,       \* the send task keyed by the turn's event
  lines,      \* p_conversation_history, agent and operator lines
  takeover,   \* chats a takeover is in force in
  opTask,     \* operator replies: chat, status, whether their line is in the history
  desk        \* memory of the workers between a read and its write

convVars == <<turn, order, sent, lines, takeover, opTask, desk>>

BUSY == {"open", "delivering"}
Ended == {"delivered", "failed", "uncertain", "operator", "suppressed", "throttled"}
NoTurn == [chat |-> CHOOSE c \in Chat : TRUE, status |-> "none", run |-> "none",
           task |-> FALSE, handoff |-> FALSE, handled |-> FALSE]
AtRest == [pc |-> "idle", turn |-> 1]

ConversationInit ==
  /\ turn = [t \in Turn |-> NoTurn]
  /\ order = [t \in Turn |-> "none"] /\ sent = [t \in Turn |-> "none"]
  /\ lines = [c \in Chat |-> <<>>]
  /\ takeover = {}
  /\ opTask = [o \in OperatorTask |-> [chat |-> NoTurn.chat, status |-> "none", marked |-> FALSE]]
  /\ desk = [d \in Desk |-> AtRest]

Rest(d) == desk' = [desk EXCEPT ![d] = AtRest]
Remember(d, pc, t) == desk' = [desk EXCEPT ![d] = [pc |-> pc, turn |-> t]]
WithStatus(S) == {t \in Turn : turn[t].status \in S}
InChat(c, S) == {t \in WithStatus(S) : turn[t].chat = c}
Oldest(S) == CHOOSE t \in S : \A u \in S : t <= u

\* _handoff: one record of a turn, kept for good.
HandOff(row) == [row EXCEPT !.handoff = TRUE]
Ends(t, status) == turn' = [turn EXCEPT ![t] = HandOff([@ EXCEPT !.status = status])]

-----------------------------------------------------------------------------
\* record_turn: a sender with MaxQueued turns waiting is throttled.
RecordTurn(t, c) ==
  /\ turn[t].status = "none" /\ \A u \in Turn : u < t => turn[u].status # "none"
  /\ turn' = [turn EXCEPT ![t] = [NoTurn EXCEPT !.chat = c, !.status =
       IF Cardinality(InChat(c, {"queued"})) < MaxQueued THEN "queued" ELSE "throttled"]]
  /\ UNCHANGED <<order, sent, lines, takeover, opTask, desk>>

\* Mutant of Openable: another turn of the chat may be busy.
AnyQueued == WithStatus({"queued"})

\* The oldest queued turn whose conversation has no busy one.
Openable == {t \in WithStatus({"queued"}) : InChat(turn[t].chat, BUSY) = {}}

InFlightTurns == Cardinality(WithStatus({"open"}))

\* _open, first read: the turn, and whether a person holds its chat.
OpenRead(d) ==
  /\ desk[d].pc = "idle" /\ Openable # {}
  /\ LET t == Oldest(Openable)
     IN IF turn[t].chat \in takeover THEN Remember(d, "leave", t)
        ELSE InFlightTurns < MaxOpenTurns /\ Remember(d, "open", t)
  /\ UNCHANGED <<turn, order, sent, lines, takeover, opTask>>

\* _leave_to_operator: no run, no reply, handed off.
LeaveToOperator(d) ==
  /\ desk[d].pc = "leave" /\ Rest(d)
  /\ IF turn[desk[d].turn].status = "queued" THEN Ends(desk[d].turn, "operator") ELSE UNCHANGED turn
  /\ UNCHANGED <<order, sent, lines, takeover, opTask>>

\* The run is created under a key of the event, or found; it may be refused, or not
\* wanted (model off, conversation disabled), which opens the turn with an error.
OpenCreate(d) ==
  LET t == desk[d].turn
  IN /\ desk[d].pc = "open" /\ Remember(d, "opening", t)
     /\ \E run \in IF turn[t].run = "none" THEN {"active", "none"} ELSE {turn[t].run} :
          turn' = [turn EXCEPT ![t].run = run]
     /\ UNCHANGED <<order, sent, lines, takeover, opTask>>

\* The ceiling is counted again in the write; a turn that is no longer queued is left.
OpenWrite(d) ==
  LET t == desk[d].turn
  IN /\ desk[d].pc = "opening" /\ Rest(d)
     /\ turn' = IF InFlightTurns < MaxOpenTurns /\ turn[t].status = "queued"
                THEN [turn EXCEPT ![t].status = "open"] ELSE turn
     /\ UNCHANGED <<order, sent, lines, takeover, opTask>>

\* The agent loop ends a run: with an answer that may be said, or with none (an
\* ungrounded number, an empty reply, an escalation).
RunEnds(t) ==
  /\ turn[t].run = "active"
  /\ \E run \in {"answer", "nothing"} : turn' = [turn EXCEPT ![t].run = run]
  /\ UNCHANGED <<order, sent, lines, takeover, opTask, desk>>

OrderPending(c) == \E t \in Turn : turn[t].chat = c /\ order[t] = "pending"

\* _settle and _capture_order, one transaction: the reply is kept (the fallback and a
\* handoff when there is no answer), a valid draft becomes one order task, unless the
\* sender has one undecided or it is refused: then it is handed off.
SettleTurn(t) ==
  /\ turn[t].status = "open" /\ turn[t].run # "active"
  /\ \E draft \in BOOLEAN, accepted \in BOOLEAN :
       LET captured == draft /\ accepted /\ ~OrderPending(turn[t].chat)
           row == [turn[t] EXCEPT !.status = "delivering"]
       IN /\ draft => turn[t].run # "none"
          /\ order' = IF captured THEN [order EXCEPT ![t] = "pending"] ELSE order
          /\ turn' = [turn EXCEPT ![t] =
               IF turn[t].run # "answer" \/ (draft /\ ~captured) THEN HandOff(row) ELSE row]
  /\ UNCHANGED <<sent, lines, takeover, opTask, desk>>

OrderDecided(t) ==
  /\ order[t] = "pending" /\ order' = [order EXCEPT ![t] = "none"]
  /\ UNCHANGED <<turn, sent, lines, takeover, opTask, desk>>

-----------------------------------------------------------------------------
Undelivered == {t \in WithStatus({"delivering"}) : ~turn[t].task}

\* _deliver: the oldest reply with no task of its own.
DeliverRead(d) ==
  /\ desk[d].pc = "idle" /\ Undelivered # {} /\ Remember(d, "check", Oldest(Undelivered))
  /\ UNCHANGED <<turn, order, sent, lines, takeover, opTask>>

\* The write that retires the turn of a chat a person took over.
DeliverCheck(d) ==
  LET t == desk[d].turn
  IN /\ desk[d].pc = "check"
     /\ IF turn[t].chat \in takeover
        THEN /\ turn' = IF t \in Undelivered THEN [turn EXCEPT ![t].status = "suppressed"] ELSE turn
             /\ Rest(d)
        ELSE Remember(d, "submit", t) /\ UNCHANGED turn
     /\ UNCHANGED <<order, sent, lines, takeover, opTask>>

\* submit, keyed by the event: the same task for the same steps, whoever asks again.
DeliverSubmit(d) ==
  LET t == desk[d].turn
  IN /\ desk[d].pc = "submit" /\ Remember(d, "record", t)
     /\ sent' = IF sent[t] = "none" THEN [sent EXCEPT ![t] = "open"] ELSE sent
     /\ UNCHANGED <<turn, order, lines, takeover, opTask>>

\* submit is refused: _finish, only if the turn is still delivering.
DeliverRefused(d) ==
  LET t == desk[d].turn
  IN /\ desk[d].pc = "submit" /\ sent[t] = "none" /\ Rest(d)
     /\ IF turn[t].status = "delivering" THEN Ends(t, "failed") ELSE UNCHANGED turn
     /\ UNCHANGED <<order, sent, lines, takeover, opTask>>

DeliverRecord(d) ==
  LET t == desk[d].turn
  IN /\ desk[d].pc = "record" /\ Rest(d)
     /\ turn' = IF t \in Undelivered THEN [turn EXCEPT ![t].task = TRUE] ELSE turn
     /\ UNCHANGED <<order, sent, lines, takeover, opTask>>

\* The send ends: delivered, refused by a person or the provider, or in doubt.
SendEnds(t) ==
  /\ sent[t] = "open"
  /\ \E outcome \in {"succeeded", "failed", "uncertain"} : sent' = [sent EXCEPT ![t] = outcome]
  /\ UNCHANGED <<turn, order, lines, takeover, opTask, desk>>

\* Mutant of Close: a send that failed is closed with no handoff.
CloseQuietly(t) ==
  /\ turn[t].status = "delivering" /\ turn[t].task
  /\ sent[t] \in {"succeeded", "failed", "uncertain"}
  /\ turn' = [turn EXCEPT ![t].status = IF sent[t] = "succeeded" THEN "delivered" ELSE sent[t]]
  /\ lines' = IF sent[t] = "succeeded" THEN [lines EXCEPT ![turn[t].chat] = Append(@, t)] ELSE lines
  /\ UNCHANGED <<order, sent, takeover, opTask, desk>>

\* _close: the agent's line joins the history once the customer has it; a send that
\* failed or is in doubt is handed off, never sent again.
Close(t) ==
  /\ turn[t].status = "delivering" /\ turn[t].task
  /\ \/ /\ sent[t] = "succeeded"
        /\ turn' = [turn EXCEPT ![t].status = "delivered"]
        /\ lines' = [lines EXCEPT ![turn[t].chat] = Append(@, t)]
     \/ /\ sent[t] \in {"failed", "uncertain"} /\ Ends(t, sent[t])
        /\ UNCHANGED lines
  /\ UNCHANGED <<order, sent, takeover, opTask, desk>>

-----------------------------------------------------------------------------
\* Engine.operator_reply: only to a chat that has written.
OperatorReplies(o, c) ==
  /\ opTask[o].status = "none" /\ \E t \in Turn : turn[t].status # "none" /\ turn[t].chat = c
  /\ opTask' = [opTask EXCEPT ![o] = [chat |-> c, status |-> "open", marked |-> FALSE]]
  /\ UNCHANGED <<turn, order, sent, lines, takeover, desk>>

OperatorTaskEnds(o) ==
  /\ opTask[o].status = "open"
  /\ \E outcome \in {"succeeded", "failed"} : opTask' = [opTask EXCEPT ![o].status = outcome]
  /\ UNCHANGED <<turn, order, sent, lines, takeover, desk>>

\* settle_operator_replies: line, marker and takeover in one transaction.
SettleOperatorReply(o) ==
  /\ opTask[o].status = "succeeded" /\ ~opTask[o].marked
  /\ opTask' = [opTask EXCEPT ![o].marked = TRUE]
  /\ lines' = [lines EXCEPT ![opTask[o].chat] = Append(@, 0)]
  /\ takeover' = takeover \union {opTask[o].chat}
  /\ UNCHANGED <<turn, order, sent, desk>>

\* The window ends, or release_takeover hands the chat back.
TakeoverEnds(c) ==
  /\ c \in takeover /\ takeover' = takeover \ {c}
  /\ UNCHANGED <<turn, order, sent, lines, opTask, desk>>

\* resolve_handoff: the records of this conversation up to this one are handled; those of later
\* turns, which are handed off later (TurnsInOrder), stay open.
ResolveHandoff(t) ==
  /\ turn[t].handoff /\ ~turn[t].handled
  /\ turn' = [u \in Turn |-> IF u <= t /\ turn[u].chat = turn[t].chat /\ turn[u].handoff
                              THEN [turn[u] EXCEPT !.handled = TRUE] ELSE turn[u]]
  /\ UNCHANGED <<order, sent, lines, takeover, opTask, desk>>

\* A worker dies between a read and its write.
DeskDies(d) ==
  /\ desk[d].pc # "idle" /\ Rest(d)
  /\ UNCHANGED <<turn, order, sent, lines, takeover, opTask>>

DeskStep(d) ==
  \/ OpenRead(d) \/ LeaveToOperator(d) \/ OpenCreate(d) \/ OpenWrite(d)
  \/ DeliverRead(d) \/ DeliverCheck(d) \/ DeliverSubmit(d) \/ DeliverRefused(d) \/ DeliverRecord(d)

TurnStep(t) == SettleTurn(t) \/ Close(t)

ConversationNext ==
  \/ \E t \in Turn, c \in Chat : RecordTurn(t, c)
  \/ \E d \in Desk : DeskStep(d) \/ DeskDies(d)
  \/ \E t \in Turn : TurnStep(t) \/ ResolveHandoff(t) \/ RunEnds(t) \/ SendEnds(t) \/ OrderDecided(t)
  \/ \E o \in OperatorTask : OperatorTaskEnds(o) \/ SettleOperatorReply(o) \/ \E c \in Chat : OperatorReplies(o, c)
  \/ \E c \in Chat : TakeoverEnds(c)

ConversationSpec == ConversationInit /\ [][ConversationNext]_convVars

-----------------------------------------------------------------------------
\* A conversation is answered one turn at a time and in order (conversation.py:349): no two of its
\* turns are busy, none is opened while an older one waits, and the agent's lines
\* stand in the history in the order of the messages they answer.
TurnsInOrder ==
  /\ \A c \in Chat : Cardinality(InChat(c, BUSY)) <= 1
  /\ \A t, u \in Turn :
       /\ t < u /\ turn[t].chat = turn[u].chat /\ turn[t].status = "queued"
       => turn[u].status \in {"none", "queued", "throttled"}
  /\ \A c \in Chat : \A i, j \in 1..Len(lines[c]) :
       i < j /\ lines[c][i] # 0 /\ lines[c][j] # 0 => lines[c][i] < lines[c][j]

\* No customer is left with nobody (conversation.py:758): a turn that ended with no delivered reply was handed
\* to a person, or a person's own line is already in that chat, or the turn is one of a
\* flood.  A delivered turn has its line in the history, and no sender
\* has two orders undecided.
NobodyForgotten ==
  \A t \in Turn :
    /\ turn[t].status \in {"failed", "uncertain", "operator"} => turn[t].handoff
    /\ turn[t].status = "suppressed" => \E i \in DOMAIN lines[turn[t].chat] : lines[turn[t].chat][i] = 0
    /\ turn[t].status = "delivered" => /\ sent[t] = "succeeded"
                                       /\ \E i \in DOMAIN lines[turn[t].chat] : lines[turn[t].chat][i] = t
    /\ order[t] = "pending" => \A u \in Turn :
         turn[u].chat = turn[t].chat /\ order[u] = "pending" => u = t

\* What conversation.py:36 says of a crash between submit and the ledger's update: the
\* send is found again.  So a turn that reads as suppressed has sent nothing.
SuppressedIsUnsent == \A t \in Turn : turn[t].status = "suppressed" => sent[t] = "none"
=============================================================================
