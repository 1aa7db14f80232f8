------------------------------- MODULE Supervisor -------------------------------
(***************************************************************************)
(* Routing of a manager's question to a section's agent                         *)
(* (platform_runtime/supervisor.py).  A route is a chain of separate transactions: *)
(* the ledger is looked up, the sections are read, the hops of the target are         *)
(* counted, the run is created under a key made of the request's, and the outcome is   *)
(* written last, over whatever the ledger holds of that request.  A server may die      *)
(* between any two of them, and two servers may route at once.                           *)
(***************************************************************************)
EXTENDS Integers, FiniteSets, TLC

CONSTANTS
  Section,     \* section ids, numbers: their order is the precedence
  MaxSections, \* MAX_SECTIONS
  Agent, Router, \* agents with a policy, and those that hold the route tool
  Word,        \* keywords: sets of numbers, a longer word being a larger one
  Questions,   \* questions asked: sets of the words they contain
  Request,     \* request keys, of different requests
  Server, NoAgent, NoSection,
  MaxHops, MaxRuns, \* hops a target may take; runs a tenant may have open
  MaxServerDeaths   \* bound

VARIABLES
  sections, \* declared sections: agent, keywords, enabled
  halted,   \* the tenant is frozen
  routes,   \* the ledger, by request key
  started,  \* runs created, by the request key theirs is made of: agent and question
  routers,  \* a server's route under way
  deaths

supervisorVars == <<sections, halted, routes, started, routers, deaths>>

NoRoute == [status |-> "none", question |-> {}, section |-> NoSection, agent |-> NoAgent, run |-> FALSE]
NoCall == [pc |-> "idle"]
NoRun == [agent |-> NoAgent, question |-> {}]

SupervisorInit ==
  /\ sections = << >> /\ halted = FALSE /\ deaths = 0
  /\ routes = [k \in Request |-> NoRoute] /\ started = [k \in Request |-> NoRun]
  /\ routers = [v \in Server |-> NoCall]

-----------------------------------------------------------------------------
\* declare: the owner's; the ceiling is for a new section only.
Declare(s, a, words, enabled) ==
  /\ ~halted /\ (s \in DOMAIN sections \/ Cardinality(DOMAIN sections) < MaxSections)
  /\ sections' = (s :> [agent |-> a, keywords |-> words, enabled |-> enabled]) @@ sections
  /\ UNCHANGED <<halted, routes, started, routers, deaths>>

\* The freeze of a tenant, and its end.
Halt == halted' = ~halted /\ UNCHANGED <<sections, routes, started, routers, deaths>>

-----------------------------------------------------------------------------
Routable == {s \in DOMAIN sections : sections[s].enabled}

\* _match: the longest keyword the question contains; of two, the first section's.
Hits(question) == {<<s, w>> \in Routable \X question : w \in sections[s].keywords}
Match(question) ==
  LET hits == Hits(question)
  IN IF hits = {} THEN NoSection
     ELSE (CHOOSE hit \in hits : \A other \in hits :
             other[2] < hit[2] \/ (other[2] = hit[2] /\ other[1] >= hit[1]))[1]

\* _depth: the requests routed to the agent.
Depth(a) == Cardinality({k \in Request : routes[k].status = "routed" /\ routes[k].agent = a})

Move(v, call) == routers' = [routers EXCEPT ![v] = call] /\ UNCHANGED <<sections, halted, deaths>>
Read == UNCHANGED <<routes, started>>

\* route: a request known to the ledger is answered from it, or is a Conflict.
Ask(v, k, question) ==
  /\ routers[v].pc = "idle" /\ routes[k].status = "none"
  /\ Move(v, [pc |-> "choose", key |-> k, question |-> question]) /\ Read

\* route: the sections are read.  A pinned section must be one of them; a question nothing
\* matches, or a router, is a refusal that is recorded.
Outcome(call, status, s, a) ==
  [pc |-> "record", key |-> call.key, status |-> status, section |-> s, agent |-> a, question |-> call.question]
Choose(v, s) ==
  LET call == routers[v]
  IN /\ call.pc = "choose" /\ ~halted /\ Routable # {} /\ Read
     /\ \/ s = NoSection /\ Match(call.question) = NoSection
           /\ Move(v, Outcome(call, "unrouted", NoSection, NoAgent))
        \/ LET chosen == IF s = NoSection THEN Match(call.question) ELSE s
               agent == sections[chosen].agent
           IN /\ chosen \in Routable
              /\ Move(v, IF agent \in Router THEN Outcome(call, "refused", chosen, agent)
                         ELSE [call EXCEPT !.pc = "hops"] @@ [section |-> chosen, agent |-> agent])

\* route: a tenant that is frozen, has no section, or not the pinned one, is refused unrecorded.
ChooseRefused(v, s) ==
  /\ routers[v].pc = "choose" /\ (halted \/ Routable = {} \/ (s # NoSection /\ s \notin Routable))
  /\ Move(v, NoCall) /\ Read

CountHops(v) ==
  LET call == routers[v]
  IN /\ call.pc = "hops" /\ Read
     /\ Move(v, IF Depth(call.agent) + 1 > MaxHops THEN Outcome(call, "refused", call.section, call.agent)
                ELSE [call EXCEPT !.pc = "create"])

\* AgentLoop.create: a known key answers the run it has; the same key for another input is a Conflict.
Fits(call) == started[call.key] \in {NoRun, [agent |-> call.agent, question |-> call.question]}
Open == Cardinality({k \in Request : started[k] # NoRun})
Creatable(call) == Fits(call) /\ (started[call.key] # NoRun \/ (~halted /\ Open < MaxRuns))
CreateRun(v) ==
  LET call == routers[v]
  IN /\ call.pc = "create" /\ UNCHANGED routes
     /\ IF Creatable(call)
        THEN /\ started' = [started EXCEPT ![call.key] = [agent |-> call.agent, question |-> call.question]]
             /\ Move(v, Outcome(call, "routed", call.section, call.agent))
        ELSE UNCHANGED started /\ Move(v, Outcome(call, "refused", call.section, call.agent))

\* _record: over a row of the same request, whose question stays.
Record(v) ==
  LET call == routers[v]  old == routes[call.key]
  IN /\ call.pc = "record" /\ UNCHANGED started /\ Move(v, NoCall)
     /\ routes' = [routes EXCEPT ![call.key] =
          [status |-> call.status, section |-> call.section, agent |-> call.agent,
           question |-> IF old.status = "none" THEN call.question ELSE old.question,
           run |-> call.status = "routed"]]

\* A server dies in a route.
ServerDies(v) ==
  /\ routers[v].pc # "idle" /\ deaths < MaxServerDeaths /\ deaths' = deaths + 1
  /\ routers' = [routers EXCEPT ![v] = NoCall] /\ UNCHANGED <<sections, halted, routes, started>>

SupervisorNext ==
  \/ Halt
  \/ \E s \in Section, a \in Agent, words \in SUBSET Word, enabled \in BOOLEAN : Declare(s, a, words, enabled)
  \/ \E v \in Server :
       \/ \E k \in Request, question \in Questions : Ask(v, k, question)
       \/ \E s \in Section \union {NoSection} : Choose(v, s) \/ ChooseRefused(v, s)
       \/ CountHops(v) \/ CreateRun(v) \/ Record(v) \/ ServerDies(v)

SupervisorSpec == SupervisorInit /\ [][SupervisorNext]_supervisorVars
-----------------------------------------------------------------------------
(* What supervisor.py:41 says:    max_hops "caps how many delegations may be made to the same  *)
(* target", the count read from the ledger.  The run is created after the count and before the     *)
(* ledger's row, so two routes that overlap, or one that died before its row, are counted late.      *)
HopsAreCapped == \A a \in Agent : Cardinality({k \in Request : started[k].agent = a}) <= MaxHops
=============================================================================
