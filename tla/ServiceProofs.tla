----------------------------- MODULE ServiceProofs -----------------------------
(***************************************************************************)
(* What holds of eleven of the services checked by MCServices for any number of *)
(* actors and any bounds.  Each part has one inductive invariant, and the          *)
(* property it gives; the parts share nothing.                                       *)
(***************************************************************************)
EXTENDS CrmGateway, FirstOrders, Identity, ErpPosting, Schedules, WhatsAppHook, OAuthConnection,
        DatabaseGateway, Documents, GoogleSync, Inventory,
        FiniteSetTheorems, TLAPS

(***************************************************************************)
(* CRM: a write that passed its fingerprint stays approved while the          *)
(* connection moves, because the call keeps the connection it was judged with.  *)
(***************************************************************************)

CallsAreApproved ==
  \A s \in CrmStep : writers[s].pc = "call" =>
    /\ writers[s].config.host \in CrmHost
    /\ IF writers[s].request.kind = "note" THEN NoteBinding(writers[s].request) \in approvals
       ELSE Fingerprint(writers[s].config, writers[s].request) \in approvals

\* What was approved is a fingerprint, or the words of a note.
NotesAreWords == \A plan \in approvals : plan.request.kind = "note" => plan = NoteBinding(plan.request)

CrmInv == CallsAreApproved /\ NotesAreWords /\ WrittenAsApproved /\ DOMAIN writers = CrmStep

LEMMA CrmStart == CrmInit => CrmInv
  BY DEF CrmInit, CrmInv, CallsAreApproved, NotesAreWords, WrittenAsApproved, NoWrite

LEMMA CrmStays == CrmInv /\ [CrmNext]_crmVars => CrmInv'
  <1> USE DEF CrmInv, CallsAreApproved, NotesAreWords, WrittenAsApproved, Fingerprint, NoteBinding
  <1> SUFFICES ASSUME CrmInv, [CrmNext]_crmVars PROVE CrmInv'
    OBVIOUS
  <1>1. ASSUME UNCHANGED crmVars PROVE CrmInv'
    BY <1>1 DEF crmVars
  <1>2. ASSUME NEW c, ConfigureCrm(c) PROVE CrmInv'
    BY <1>2 DEF ConfigureCrm
  <1>3. ASSUME NEW request \in CrmRequest, Approve(request) PROVE CrmInv'
    BY <1>3 DEF Approve
  <1>4. ASSUME NEW s \in CrmStep, NEW plan \in approvals, Write(s, plan) PROVE CrmInv'
    BY <1>4 DEF Write, MayUse
  <1>5. ASSUME NEW s \in CrmStep, NEW plan \in approvals, WriteRefused(s, plan) \/ AttachRefused(s, plan)
        PROVE  CrmInv'
    BY <1>5 DEF WriteRefused, AttachRefused
  <1>8. ASSUME NEW s \in CrmStep, NEW plan \in approvals, Attach(s, plan) PROVE CrmInv'
    BY <1>8 DEF Attach, MayUse
  <1>9. ASSUME NEW request \in CrmRequest, ApproveNote(request) PROVE CrmInv'
    BY <1>9 DEF ApproveNote
  <1>6. ASSUME NEW s \in CrmStep, NEW says \in Answers, NEW landed \in BOOLEAN, Called(s, says, landed)
        PROVE  CrmInv'
    BY <1>6 DEF Called
  <1>7. QED BY <1>1, <1>2, <1>3, <1>4, <1>5, <1>6, <1>8, <1>9 DEF CrmNext

\* A lead or a deal the provider holds was approved for the host and driver it was written to, and a
\* note was approved by its words and lies inside the allowlist, whatever hosts, drivers and requests
\* there are and however often the owner moves the connection.
THEOREM WritesAreApproved == CrmSpec => []WrittenAsApproved
  <1>1. CrmInv => WrittenAsApproved
    BY DEF CrmInv
  <1>2. QED BY <1>1, CrmStart, CrmStays, PTL DEF CrmSpec

(***************************************************************************)
(* Orders: a decision past a statement has that statement's row, and a row     *)
(* once written stays.                                                            *)
(***************************************************************************)

MirrorFollowsTable == \A m \in Buy : mirror[m] \in {0, 1} /\ (mirror[m] = 1 => m \in ordered)
ApprovedHasRows == \A m \in Buy : asked[m] = "approved" => m \in ordered /\ mirror[m] = 1
DecisionHasRows ==
  /\ deciding.pc \in {"idle", "order", "mirror", "ladder", "close"}
  /\ deciding.pc # "idle" => deciding.buy \in Buy /\ deciding.decision \in {"approved", "rejected"}
  /\ deciding.pc = "order" => deciding.decision = "approved"
  /\ deciding.pc = "mirror" => deciding.decision = "approved" /\ deciding.buy \in ordered
  /\ deciding.pc \in {"ladder", "close"} /\ deciding.decision = "approved" =>
       deciding.buy \in ordered /\ mirror[deciding.buy] = 1
OrdersInv ==
  /\ mirror \in [Buy -> {0, 1}] /\ DOMAIN asked = Buy
  /\ MirrorFollowsTable /\ ApprovedHasRows /\ DecisionHasRows

LEMMA OrdersStart == FirstOrdersInit => OrdersInv
  BY DEF FirstOrdersInit, OrdersInv, MirrorFollowsTable, ApprovedHasRows, DecisionHasRows, NoDecision

LEMMA OrdersStay == OrdersInv /\ [FirstOrdersNext]_orderVars => OrdersInv'
  <1> USE DEF OrdersInv, MirrorFollowsTable, ApprovedHasRows, DecisionHasRows, NoDecision
  <1> SUFFICES ASSUME OrdersInv, [FirstOrdersNext]_orderVars PROVE OrdersInv'
    OBVIOUS
  <1>1. ASSUME UNCHANGED orderVars PROVE OrdersInv'
    BY <1>1 DEF orderVars
  <1>2. ASSUME NEW m \in Buy, RememberBuy(m) \/ CheckQuota(m) \/ Submit(m) PROVE OrdersInv'
    BY <1>2 DEF RememberBuy, CheckQuota, Submit
  <1>3. ASSUME NEW m \in Buy, NEW decision \in {"approved", "rejected"}, BeginDecision(m, decision) PROVE OrdersInv'
    BY <1>3 DEF BeginDecision
  <1>4. CASE StoreOrder
    BY <1>4 DEF StoreOrder
  <1>5. CASE MirrorOrder
    BY <1>5 DEF MirrorOrder, MirrorRows
  <1>6. CASE RecordOutcome
    BY <1>6 DEF RecordOutcome
  <1>7. CASE CloseApproval
    BY <1>7 DEF CloseApproval
  <1>8. ASSUME NEW level \in DOMAIN Levels, SetLevel(level) PROVE OrdersInv'
    BY <1>8 DEF SetLevel
  <1>9. CASE PackChanges \/ DayTurns \/ ProcessDies
    BY <1>9 DEF PackChanges, DayTurns, ProcessDies
  <1>10. QED BY <1>1, <1>2, <1>3, <1>4, <1>5, <1>6, <1>7, <1>8, <1>9 DEF FirstOrdersNext

\* An approved order is in the table and once in the file, for any number of messages, any quota
\* and however often the process dies.
THEOREM ApprovalsBecomeOrders == FirstOrdersSpec => []ApprovedIsOrdered
  <1>1. OrdersInv => ApprovedIsOrdered
    BY DEF OrdersInv, MirrorFollowsTable, ApprovedHasRows, ApprovedIsOrdered
  <1>2. QED BY <1>1, OrdersStart, OrdersStay, PTL DEF FirstOrdersSpec

(***************************************************************************)
(* The directory.  A session that is not revoked is the only one of its family  *)
(* that is not, its family was never ended, and a session of the workspace is of  *)
(* the present membership: revoking the membership revokes it, and rotation hands   *)
(* its joining on.  A family is of one person, so that a person who logs out of       *)
(* everything ends families whole.                                                      *)
(***************************************************************************)

MemberRow == [role : {"none", "operator", "owner"}, active : BOOLEAN, version : Nat]
InvitationRow == [to : Person, by : Person, status : {"open", "accepted", "expired"}]
SessionRow == [user : Person, place : {"account", "shop"}, family : Nat, version : Nat, revoked : BOOLEAN]
Histories == [ended : SUBSET Nat, joins : [Person -> Nat], joined : Seq(Nat)]

SessionsType == session \in Seq(SessionRow)
HistoryType == past \in Histories /\ Len(past.joined) = Len(session)
PeopleType == /\ member \in [Person -> MemberRow]
              /\ invitation \in Seq(InvitationRow)
              /\ webRequest \in [WebRequest -> SUBSET Person]

FamiliesAreOld == /\ \A s \in DOMAIN session : session[s].family \in 1..Len(session)
                  /\ past.ended \subseteq 1..Len(session)
FamilyOfOne == \A r, s \in DOMAIN session : session[r].family = session[s].family => session[r].user = session[s].user
OneUnrevoked == \A r, s \in DOMAIN session :
  session[r].family = session[s].family /\ ~session[r].revoked /\ ~session[s].revoked => r = s
EndedIsRevoked == \A s \in DOMAIN session : session[s].family \in past.ended => session[s].revoked
ShopIsOfMember == \A s \in DOMAIN session :
  ~session[s].revoked /\ session[s].place = "shop" =>
    member[session[s].user].active /\ past.joined[s] = past.joins[session[s].user]
Families == FamiliesAreOld /\ FamilyOfOne /\ OneUnrevoked /\ EndedIsRevoked
DirectoryInv == SessionsType /\ HistoryType /\ PeopleType /\ Families /\ ShopIsOfMember

LEMMA DirectoryStart == IdentityInit => DirectoryInv
  <1> SUFFICES ASSUME IdentityInit PROVE DirectoryInv
    OBVIOUS
  <1>1. SessionsType /\ Families /\ ShopIsOfMember
    BY DEF IdentityInit, SessionsType, Families, FamiliesAreOld, FamilyOfOne, OneUnrevoked, EndedIsRevoked, ShopIsOfMember
  <1>2. HistoryType
    BY DEF IdentityInit, HistoryType, Histories
  <1>3. PeopleType
    BY IdentityAssumption DEF IdentityInit, PeopleType, MemberRow, Nobody
  <1>4. QED BY <1>1, <1>2, <1>3 DEF DirectoryInv

LEMMA SessionFacts ==
  ASSUME SessionsType
  PROVE  /\ Len(session) \in Nat /\ DOMAIN session = 1..Len(session)
         /\ \A s \in DOMAIN session :
              /\ session[s] \in SessionRow
              /\ session[s].user \in Person /\ session[s].place \in {"account", "shop"}
              /\ session[s].family \in Nat /\ session[s].revoked \in BOOLEAN
  <1>1. /\ Len(session) \in Nat /\ DOMAIN session = 1..Len(session)
        /\ \A s \in DOMAIN session : session[s] \in SessionRow
    BY DEF SessionsType
  <1>2. \A row \in SessionRow : /\ row.user \in Person /\ row.place \in {"account", "shop"}
                               /\ row.family \in Nat /\ row.revoked \in BOOLEAN
    BY DEF SessionRow
  <1>3. QED BY <1>1, <1>2

LEMMA HistoryFacts ==
  ASSUME HistoryType
  PROVE  /\ past.ended \in SUBSET Nat /\ past.joins \in [Person -> Nat]
         /\ past.joined \in Seq(Nat) /\ Len(past.joined) = Len(session)
  BY DEF HistoryType, Histories

\* Revoking rows changes nothing else of them.
LEMMA RevokedRows ==
  ASSUME SessionsType, NEW S
  PROVE  /\ Revoked(S) \in Seq(SessionRow) /\ Len(Revoked(S)) = Len(session)
         /\ DOMAIN Revoked(S) = DOMAIN session
         /\ \A s \in DOMAIN session :
              /\ Revoked(S)[s].family = session[s].family /\ Revoked(S)[s].user = session[s].user
              /\ Revoked(S)[s].place = session[s].place
              /\ (Revoked(S)[s].revoked <=> session[s].revoked \/ s \in S)
  <1> DEFINE n == Len(session)
  <1>1. n \in Nat /\ DOMAIN session = 1..n /\ \A s \in 1..n : session[s] \in SessionRow
    BY SessionFacts
  <1>2. ASSUME NEW row \in SessionRow
        PROVE  /\ [row EXCEPT !.revoked = TRUE] \in SessionRow
               /\ [row EXCEPT !.revoked = TRUE].family = row.family /\ [row EXCEPT !.revoked = TRUE].user = row.user
               /\ [row EXCEPT !.revoked = TRUE].place = row.place /\ [row EXCEPT !.revoked = TRUE].revoked = TRUE
    BY DEF SessionRow
  <1>3. Revoked(S) = [s \in 1..n |-> IF s \in S THEN [session[s] EXCEPT !.revoked = TRUE] ELSE session[s]]
    BY <1>1 DEF Revoked
  <1>4. \A s \in 1..n : Revoked(S)[s] = IF s \in S THEN [session[s] EXCEPT !.revoked = TRUE] ELSE session[s]
    BY <1>3
  <1>5. Revoked(S) \in [1..n -> SessionRow]
    BY <1>1, <1>2, <1>3
  <1>6. Revoked(S) \in Seq(SessionRow) /\ Len(Revoked(S)) = n /\ DOMAIN Revoked(S) = 1..n
    BY <1>1, <1>3, <1>5
  <1>7. ASSUME NEW s \in 1..n
        PROVE  /\ Revoked(S)[s].family = session[s].family /\ Revoked(S)[s].user = session[s].user
               /\ Revoked(S)[s].place = session[s].place
    BY <1>1, <1>2, <1>4
  <1>8. ASSUME NEW s \in 1..n PROVE Revoked(S)[s].revoked <=> session[s].revoked \/ s \in S
    <2>1. session[s].revoked \in BOOLEAN
      BY SessionFacts, <1>1
    <2>2. CASE s \in S
      BY <1>1, <1>2, <1>4, <2>2
    <2>3. CASE s \notin S
      BY <1>4, <2>1, <2>3
    <2>4. QED BY <2>2, <2>3
  <1>9. QED BY <1>1, <1>6, <1>7, <1>8

\* What a revocation of the rows S leaves true, whatever else the step does to people.
LEMMA RevocationKeeps ==
  ASSUME SessionsType, HistoryType, Families, NEW S, session' = Revoked(S),
         past'.joins = past.joins, past'.joined = past.joined, past' \in Histories,
         past'.ended \subseteq 1..Len(session),
         \A s \in DOMAIN session : session[s].family \in past'.ended =>
           session[s].family \in past.ended \/ session[s].revoked \/ s \in S
  PROVE  SessionsType' /\ HistoryType' /\ Families'
  <1>1. /\ session' \in Seq(SessionRow) /\ Len(session') = Len(session) /\ DOMAIN session' = DOMAIN session
        /\ \A s \in DOMAIN session :
             /\ session'[s].family = session[s].family /\ session'[s].user = session[s].user
             /\ session'[s].place = session[s].place /\ (session'[s].revoked <=> session[s].revoked \/ s \in S)
    BY RevokedRows
  <1>2. SessionsType'
    BY <1>1 DEF SessionsType, SessionRow
  <1>3. HistoryType'
    BY <1>1, HistoryFacts DEF HistoryType, Histories
  <1>4. FamiliesAreOld'
    BY <1>1 DEF Families, FamiliesAreOld
  <1>5. FamilyOfOne'
    BY <1>1 DEF Families, FamilyOfOne
  <1>6. OneUnrevoked'
    <2> SUFFICES ASSUME NEW r \in DOMAIN session, NEW s \in DOMAIN session, session'[r].family = session'[s].family,
                        ~session'[r].revoked, ~session'[s].revoked
                 PROVE  r = s
      BY <1>1 DEF OneUnrevoked
    <2>1. session[r].family = session[s].family /\ ~session[r].revoked /\ ~session[s].revoked
      BY <1>1
    <2>2. QED BY <2>1 DEF Families, OneUnrevoked
  <1>7. EndedIsRevoked'
    BY <1>1 DEF Families, EndedIsRevoked
  <1>8. QED BY <1>2, <1>3, <1>4, <1>5, <1>6, <1>7 DEF Families

\* A step that only revokes.
LEMMA OnlyRevokes ==
  ASSUME DirectoryInv, NEW S \in SUBSET DOMAIN session, session' = Revoked(S),
         UNCHANGED <<member, invitation>>, webRequest' \in [WebRequest -> SUBSET Person],
         NEW T \in SUBSET DOMAIN session, EndFamilies(T),
         \A t \in T, s \in DOMAIN session : session[s].family = session[t].family => s \in S
  PROVE  DirectoryInv'
  <1>1. /\ SessionsType /\ HistoryType /\ PeopleType /\ Families /\ ShopIsOfMember
    BY DEF DirectoryInv
  <1>2. {session[t].family : t \in T} \subseteq 1..Len(session) /\ Len(session) \in Nat
    BY <1>1, SessionFacts DEF Families, FamiliesAreOld
  <1>3. past' = [past EXCEPT !.ended = @ \union {session[t].family : t \in T}]
    BY DEF EndFamilies
  <1>4. /\ past'.joins = past.joins /\ past'.joined = past.joined
        /\ past'.ended = past.ended \union {session[t].family : t \in T}
    BY <1>1, <1>3 DEF HistoryType, Histories
  <1>5. past' \in Histories
    <2>1. past.ended \union {session[t].family : t \in T} \in SUBSET Nat
      <3>1. past.ended \subseteq Nat /\ 1..Len(session) \subseteq Nat
        BY <1>1, <1>2, HistoryFacts
      <3>2. QED BY <1>2, <3>1
    <2>2. QED BY <1>1, <1>3, <2>1 DEF HistoryType, Histories
  <1>6. past'.ended \subseteq 1..Len(session)
    BY <1>1, <1>2, <1>4 DEF Families, FamiliesAreOld
  <1>7. \A s \in DOMAIN session : session[s].family \in past'.ended =>
          session[s].family \in past.ended \/ session[s].revoked \/ s \in S
    BY <1>4
  <1>8. SessionsType' /\ HistoryType' /\ Families'
    BY <1>1, <1>4, <1>5, <1>6, <1>7, RevocationKeeps
  <1>9. PeopleType'
    BY <1>1 DEF PeopleType
  <1>10. ShopIsOfMember'
    BY <1>1, <1>4, RevokedRows DEF ShopIsOfMember
  <1>11. QED BY <1>8, <1>9, <1>10 DEF DirectoryInv

\* A step that adds a session of u, of a family that is new or whose rows it revokes.
LEMMA AddsSession ==
  ASSUME DirectoryInv, NEW S \in SUBSET DOMAIN session, NEW u \in Person, NEW place \in {"account", "shop"},
         NEW f \in 1..(Len(session) + 1), NEW j \in Nat,
         session' = WithNew(Revoked(S), u, place, f), UNCHANGED <<member, invitation>>,
         webRequest' \in [WebRequest -> SUBSET Person],
         past' = [past EXCEPT !.joined = Append(@, j)],
         f \notin past.ended,
         \A r \in DOMAIN session : session[r].family = f => session[r].user = u /\ (session[r].revoked \/ r \in S),
         place = "shop" => member[u].active /\ j = past.joins[u]
  PROVE  DirectoryInv'
  <1> DEFINE n == Len(session)
             new == [user |-> u, place |-> place, family |-> f, version |-> VersionOf(u, place), revoked |-> FALSE]
  <1>0. /\ SessionsType /\ HistoryType /\ PeopleType /\ Families /\ ShopIsOfMember
    BY DEF DirectoryInv
  <1>1. /\ Revoked(S) \in Seq(SessionRow) /\ Len(Revoked(S)) = n
        /\ \A s \in DOMAIN session :
             /\ Revoked(S)[s].family = session[s].family /\ Revoked(S)[s].user = session[s].user
             /\ Revoked(S)[s].place = session[s].place /\ (Revoked(S)[s].revoked <=> session[s].revoked \/ s \in S)
    BY <1>0, RevokedRows
  <1>2. n \in Nat /\ DOMAIN session = 1..n
    BY <1>0, SessionFacts
  <1>3. VersionOf(u, place) \in Nat
    BY <1>0 DEF VersionOf, PeopleType, MemberRow
  <1>4. new \in SessionRow /\ new.family = f /\ new.user = u /\ new.place = place /\ new.revoked = FALSE
    BY <1>2, <1>3 DEF SessionRow
  <1>5. session' = Append(Revoked(S), new)
    BY DEF WithNew
  <1> HIDE DEF new, n
  <1>6. /\ session' \in Seq(SessionRow) /\ Len(session') = n + 1 /\ DOMAIN session' = 1..(n + 1)
        /\ session'[n + 1] = new /\ \A s \in 1..n : session'[s] = Revoked(S)[s]
    BY <1>1, <1>2, <1>4, <1>5
  <1>7. \A s \in 1..n : /\ session'[s].family = session[s].family /\ session'[s].user = session[s].user
                        /\ session'[s].place = session[s].place /\ (session'[s].revoked <=> session[s].revoked \/ s \in S)
    BY <1>1, <1>2, <1>6
  <1>8. /\ session'[n + 1].family = f /\ session'[n + 1].user = u /\ session'[n + 1].place = place
        /\ session'[n + 1].revoked = FALSE
    BY <1>4, <1>6
  <1>9. /\ past.joined \in Seq(Nat) /\ Len(past.joined) = n /\ past.joins \in [Person -> Nat] /\ past.ended \in SUBSET Nat
    BY <1>0, HistoryFacts DEF n
  <1>10. past' \in Histories /\ past'.ended = past.ended /\ past'.joins = past.joins /\ past'.joined = Append(past.joined, j)
    <2>1. Append(past.joined, j) \in Seq(Nat)
      BY <1>9
    <2>2. QED BY <1>0, <2>1 DEF HistoryType, Histories
  <1>11. /\ Len(past'.joined) = n + 1 /\ past'.joined[n + 1] = j
         /\ \A s \in 1..n : past'.joined[s] = past.joined[s]
    BY <1>2, <1>9, <1>10
  <1>12. SessionsType'
    BY <1>6 DEF SessionsType, SessionRow
  <1>13. HistoryType'
    BY <1>6, <1>10, <1>11 DEF HistoryType, Histories
  <1>14. PeopleType'
    BY <1>0 DEF PeopleType
  <1>15. \A s \in 1..n : session[s].family \in 1..n
    BY <1>0, <1>2 DEF Families, FamiliesAreOld, n
  <1>16. FamiliesAreOld'
    <2>1. past.ended \subseteq 1..n /\ f \in 1..(n + 1)
      BY <1>0 DEF Families, FamiliesAreOld, n
    <2>2. ASSUME NEW s \in 1..(n + 1) PROVE session'[s].family \in 1..(n + 1)
      <3>1. CASE s \in 1..n
        BY <1>2, <1>7, <1>15, <3>1
      <3>2. CASE s = n + 1
        BY <1>8, <2>1, <3>2
      <3>3. QED BY <1>2, <3>1, <3>2
    <2>3. past'.ended \subseteq 1..(n + 1)
      BY <1>2, <1>10, <2>1
    <2>4. QED BY <1>6, <2>2, <2>3 DEF FamiliesAreOld
  <1>17. FamilyOfOne'
    BY <1>0, <1>2, <1>6, <1>7, <1>8 DEF Families, FamilyOfOne
  <1>18. OneUnrevoked'
    BY <1>0, <1>2, <1>6, <1>7, <1>8 DEF Families, OneUnrevoked
  <1>19. EndedIsRevoked'
    BY <1>0, <1>2, <1>6, <1>7, <1>8, <1>10 DEF Families, EndedIsRevoked
  <1>20. ShopIsOfMember'
    BY <1>0, <1>2, <1>6, <1>7, <1>8, <1>10, <1>11 DEF ShopIsOfMember
  <1>21. QED BY <1>12, <1>13, <1>14, <1>16, <1>17, <1>18, <1>19, <1>20 DEF DirectoryInv, Families

LEMMA DirectoryStays == DirectoryInv /\ [IdentityNext]_identityVars => DirectoryInv'
  <1> SUFFICES ASSUME DirectoryInv, [IdentityNext]_identityVars PROVE DirectoryInv'
    OBVIOUS
  <1>t. SessionsType /\ HistoryType /\ PeopleType /\ Families /\ ShopIsOfMember
    BY DEF DirectoryInv
  <1>s. /\ Len(session) \in Nat /\ DOMAIN session = 1..Len(session)
        /\ \A s \in DOMAIN session : session[s].user \in Person /\ session[s].place \in {"account", "shop"}
    BY <1>t, SessionFacts
  <1>i. \A i \in DOMAIN invitation : invitation[i].to \in Person
    <2>1. \A row \in InvitationRow : row.to \in Person
      BY DEF InvitationRow
    <2>2. \A i \in DOMAIN invitation : invitation[i] \in InvitationRow
      BY <1>t DEF PeopleType
    <2>3. QED BY <2>1, <2>2
  <1>0. ASSUME UNCHANGED <<session, past, member>>, PeopleType' PROVE DirectoryInv'
    <2>1. SessionsType' /\ HistoryType'
      BY <1>0, <1>t DEF SessionsType, HistoryType, SessionRow, Histories
    <2>2. Families' /\ ShopIsOfMember'
      BY <1>0, <1>t DEF Families, FamiliesAreOld, FamilyOfOne, OneUnrevoked, EndedIsRevoked, ShopIsOfMember
    <2>3. QED BY <1>0, <2>1, <2>2 DEF DirectoryInv
  <1>1. ASSUME UNCHANGED identityVars PROVE DirectoryInv'
    BY <1>0, <1>1, <1>t DEF identityVars, PeopleType
  <1>2. ASSUME NEW actor \in Person, NEW u \in Person, Invite(actor, u) PROVE DirectoryInv'
    <2>1. [to |-> u, by |-> actor, status |-> "open"] \in InvitationRow
      BY DEF InvitationRow
    <2>2. invitation' \in Seq(InvitationRow) /\ UNCHANGED <<session, past, member, webRequest>>
      BY <1>2, <1>t, <2>1 DEF Invite, PeopleType
    <2>3. QED BY <1>0, <1>t, <2>2 DEF PeopleType
  <1>3. ASSUME NEW actor \in Person, NEW u \in Person, RevokeMember(actor, u) PROVE DirectoryInv'
    <2> DEFINE S == {s \in DOMAIN session : session[s].user = u /\ session[s].place = "shop"}
    <2>1. session' = Revoked(S) /\ UNCHANGED <<past, invitation, webRequest>>
      BY <1>3 DEF RevokeMember
    <2>2. member' = [member EXCEPT ![u].active = FALSE, ![u].version = @ + 1]
      BY <1>3 DEF RevokeMember
    <2>3. member[u] \in MemberRow
      BY <1>t DEF PeopleType
    <2>4. PeopleType' /\ \A v \in Person \ {u} : member'[v] = member[v]
      <3>1. member' \in [Person -> MemberRow] /\ \A v \in Person \ {u} : member'[v] = member[v]
        BY <1>t, <2>2, <2>3 DEF PeopleType, MemberRow
      <3>2. QED BY <1>t, <2>1, <3>1 DEF PeopleType
    <2>5. past \in Histories /\ past.ended \subseteq 1..Len(session)
      BY <1>t DEF HistoryType, Families, FamiliesAreOld
    <2>6. /\ DOMAIN session' = DOMAIN session
          /\ \A s \in DOMAIN session :
               /\ session'[s].user = session[s].user /\ session'[s].place = session[s].place
               /\ (session'[s].revoked <=> session[s].revoked \/ s \in S)
      BY <1>t, <2>1, RevokedRows
    <2>7. past' \in Histories /\ past' = past
      BY <2>1, <2>5 DEF Histories
    <2>8. SessionsType' /\ HistoryType' /\ Families'
      <3> HIDE DEF S
      <3>1. \A s \in DOMAIN session : session[s].family \in past'.ended =>
              session[s].family \in past.ended \/ session[s].revoked \/ s \in S
        BY <2>7
      <3>2. QED BY <1>t, <2>1, <2>5, <2>7, <3>1, RevocationKeeps
    <2>9. ShopIsOfMember'
      <3> SUFFICES ASSUME NEW s \in DOMAIN session, ~session'[s].revoked, session'[s].place = "shop"
                   PROVE  member'[session[s].user].active /\ past.joined[s] = past.joins[session[s].user]
        BY <2>6, <2>7 DEF ShopIsOfMember
      <3>1. ~session[s].revoked /\ session[s].place = "shop" /\ session[s].user # u
        BY <2>6
      <3>2. QED BY <1>t, <1>s, <2>4, <3>1 DEF ShopIsOfMember
    <2>10. QED BY <2>4, <2>8, <2>9 DEF DirectoryInv
  <1>4. ASSUME NEW i \in DOMAIN invitation, Accept(i) PROVE DirectoryInv'
    <2> DEFINE u == invitation[i].to
    <2>1. u \in Person /\ UNCHANGED <<session, webRequest>>
      BY <1>4, <1>i DEF Accept
    <2>2. invitation' \in Seq(InvitationRow)
      <3>1. invitation[i] \in InvitationRow /\ i \in 1..Len(invitation)
        BY <1>t DEF PeopleType
      <3>2. [invitation[i] EXCEPT !.status = "accepted"] \in InvitationRow
        BY <3>1 DEF InvitationRow
      <3>3. invitation' = [invitation EXCEPT ![i] = [invitation[i] EXCEPT !.status = "accepted"]]
        BY <1>4 DEF Accept
      <3>4. QED BY <1>t, <3>1, <3>2, <3>3 DEF PeopleType
    <2>3. CASE member[u].active
      <3>1. UNCHANGED <<member, past>>
        BY <1>4, <2>3 DEF Accept
      <3>2. QED BY <1>0, <1>t, <2>1, <2>2, <3>1 DEF PeopleType
    <2>4. CASE ~member[u].active
      <3>1. /\ member' = [member EXCEPT ![u] = [role |-> "operator", active |-> TRUE, version |-> @.version + 1]]
            /\ past' = [past EXCEPT !.joins[u] = @ + 1]
        BY <1>4, <2>4 DEF Accept
      <3>2. [role |-> "operator", active |-> TRUE, version |-> member[u].version + 1] \in MemberRow
        BY <1>t, <2>1 DEF PeopleType, MemberRow
      <3>3. PeopleType' /\ \A v \in Person \ {u} : member'[v] = member[v]
        BY <1>t, <2>1, <2>2, <3>1, <3>2 DEF PeopleType
      <3>4. /\ past.joins \in [Person -> Nat]
            /\ past.joined \in Seq(Nat) /\ Len(past.joined) = Len(session) /\ past.ended \in SUBSET Nat
        BY <1>t, HistoryFacts
      <3>5. [past.joins EXCEPT ![u] = @ + 1] \in [Person -> Nat]
        BY <2>1, <3>4
      <3>6. past' = [past EXCEPT !.joins = [past.joins EXCEPT ![u] = @ + 1]]
        BY <3>1
      <3>7. /\ past' \in Histories /\ past'.ended = past.ended /\ past'.joined = past.joined
            /\ past'.joins = [past.joins EXCEPT ![u] = @ + 1]
        BY <1>t, <3>5, <3>6 DEF HistoryType, Histories
      <3>8. SessionsType' /\ HistoryType' /\ Families'
        <4>1. SessionsType' /\ HistoryType'
          BY <1>t, <2>1, <3>4, <3>7 DEF SessionsType, HistoryType, SessionRow, Histories
        <4>2. Families'
          BY <1>t, <2>1, <3>7 DEF Families, FamiliesAreOld, FamilyOfOne, OneUnrevoked, EndedIsRevoked
        <4>3. QED BY <4>1, <4>2
      <3>9. ShopIsOfMember'
        <4> SUFFICES ASSUME NEW s \in DOMAIN session, ~session[s].revoked, session[s].place = "shop"
                     PROVE  member'[session[s].user].active /\ past'.joined[s] = past'.joins[session[s].user]
          BY <2>1 DEF ShopIsOfMember
        <4>1. /\ member[session[s].user].active /\ past.joined[s] = past.joins[session[s].user]
              /\ session[s].user \in Person
          BY <1>t, <1>s DEF ShopIsOfMember
        <4>2. session[s].user # u
          BY <2>4, <4>1
        <4>3. QED BY <3>3, <3>4, <3>7, <4>1, <4>2
      <3>10. QED BY <3>3, <3>8, <3>9 DEF DirectoryInv
    <2>5. QED BY <2>3, <2>4
  <1>5. ASSUME NEW i \in DOMAIN invitation, InvitationExpires(i) PROVE DirectoryInv'
    <2>1. invitation[i] \in InvitationRow /\ i \in 1..Len(invitation)
      BY <1>t DEF PeopleType
    <2>2. [invitation[i] EXCEPT !.status = "expired"] \in InvitationRow
      BY <2>1 DEF InvitationRow
    <2>3. /\ invitation' = [invitation EXCEPT ![i] = [invitation[i] EXCEPT !.status = "expired"]]
          /\ UNCHANGED <<session, past, member, webRequest>>
      BY <1>5 DEF InvitationExpires
    <2>4. invitation' \in Seq(InvitationRow)
      BY <1>t, <2>1, <2>2, <2>3 DEF PeopleType
    <2>5. QED BY <1>0, <1>t, <2>3, <2>4 DEF PeopleType
  <1>6. ASSUME NEW u \in Person, NEW place \in {"account", "shop"}, CreateSession(u, place),
               UNCHANGED <<member, invitation>>, webRequest' \in [WebRequest -> SUBSET Person]
        PROVE  DirectoryInv'
    <2> DEFINE f == Len(session) + 1
    <2>1. session = Revoked({})
      BY <1>t DEF Revoked, SessionsType
    <2>2. \A s \in DOMAIN session : session[s].family \in 1..Len(session)
      BY <1>t DEF Families, FamiliesAreOld
    <2>3. /\ f \in 1..(Len(session) + 1) /\ f \notin past.ended
          /\ \A r \in DOMAIN session : session[r].family = f => session[r].user = u /\ (session[r].revoked \/ r \in {})
      BY <1>t, <1>s, <2>2 DEF Families, FamiliesAreOld
    <2>4. /\ session' = WithNew(Revoked({}), u, place, f) /\ past' = [past EXCEPT !.joined = Append(@, past.joins[u])]
          /\ place = "shop" => member[u].active /\ past.joins[u] = past.joins[u]
      BY <1>6, <2>1 DEF CreateSession, MayHold
    <2>5. past.joins[u] \in Nat
      BY <1>t, HistoryFacts
    <2> HIDE DEF f
    <2>6. {} \in SUBSET DOMAIN session
      OBVIOUS
    <2>7. QED BY <1>6, <2>3, <2>4, <2>5, <2>6, AddsSession
  <1>7. ASSUME NEW u \in Person, NEW place \in {"account", "shop"}, SignIn(u, place) PROVE DirectoryInv'
    <2>1. /\ CreateSession(u, place) /\ UNCHANGED <<member, invitation>>
          /\ webRequest' \in [WebRequest -> SUBSET Person]
      BY <1>7, <1>t DEF SignIn, PeopleType
    <2>2. QED BY <1>6, <2>1
  <1>8. ASSUME NEW w \in WebRequest, SelectWorkspace(w) PROVE DirectoryInv'
    <2>1. PICK u \in webRequest[w] : CreateSession(u, "shop")
      BY <1>8 DEF SelectWorkspace
    <2>2. u \in Person /\ UNCHANGED <<member, invitation>> /\ webRequest' \in [WebRequest -> SUBSET Person]
      BY <1>8, <1>t DEF SelectWorkspace, PeopleType
    <2>3. QED BY <1>6, <2>1, <2>2
  <1>9. ASSUME NEW w \in WebRequest, LogOutAll(w) PROVE DirectoryInv'
    <2> DEFINE S == {s \in DOMAIN session : session[s].user \in webRequest[w]}
    <2>1. /\ session' = Revoked(S) /\ EndFamilies(S) /\ UNCHANGED <<member, invitation>>
          /\ webRequest' \in [WebRequest -> SUBSET Person]
      BY <1>9, <1>t DEF LogOutAll, PeopleType
    <2>2. \A t \in S, s \in DOMAIN session : session[s].family = session[t].family => s \in S
      BY <1>t DEF Families, FamilyOfOne
    <2>3. S \in SUBSET DOMAIN session
      OBVIOUS
    <2> HIDE DEF S
    <2>4. QED BY <2>1, <2>2, <2>3, OnlyRevokes
  <1>10. ASSUME NEW w \in WebRequest, RequestEnds(w) PROVE DirectoryInv'
    <2>1. PeopleType' /\ UNCHANGED <<session, past, member>>
      BY <1>10, <1>t DEF RequestEnds, PeopleType
    <2>2. QED BY <1>0, <2>1
  <1>11. ASSUME NEW w \in WebRequest, NEW s \in DOMAIN session, CheckAccess(w, s) PROVE DirectoryInv'
    <2>1. PeopleType' /\ UNCHANGED <<session, past, member>>
      BY <1>11, <1>t, <1>s DEF CheckAccess, PeopleType
    <2>2. QED BY <1>0, <2>1
  <1>12. ASSUME NEW s \in DOMAIN session, Rotate(s) PROVE DirectoryInv'
    <2>1. UNCHANGED <<member, invitation>> /\ webRequest' \in [WebRequest -> SUBSET Person]
      BY <1>12, <1>t DEF Rotate, PeopleType
    <2>2. CASE Valid(s)
      <3>1. /\ session' = WithNew(Revoked({s}), session[s].user, session[s].place, session[s].family)
            /\ past' = [past EXCEPT !.joined = Append(@, past.joined[s])]
        BY <1>12, <2>2 DEF Rotate
      <3>2. /\ session[s].user \in Person /\ session[s].place \in {"account", "shop"}
            /\ session[s].family \in 1..(Len(session) + 1) /\ {s} \in SUBSET DOMAIN session
        BY <1>t, <1>s DEF Families, FamiliesAreOld
      <3>3. ~session[s].revoked
        BY <2>2 DEF Valid
      <3>4. session[s].family \notin past.ended
        BY <1>t, <3>3 DEF Families, EndedIsRevoked
      <3>5. \A r \in DOMAIN session : session[r].family = session[s].family =>
              session[r].user = session[s].user /\ (session[r].revoked \/ r \in {s})
        BY <1>t, <3>3 DEF Families, FamilyOfOne, OneUnrevoked
      <3>6. session[s].place = "shop" => member[session[s].user].active /\ past.joined[s] = past.joins[session[s].user]
        BY <1>t, <3>3 DEF ShopIsOfMember
      <3>7. past.joined[s] \in Nat
        <4>1. /\ past.joined \in Seq(Nat) /\ s \in 1..Len(past.joined)
          BY <1>t, <1>s, HistoryFacts
        <4>2. QED BY <4>1
      <3> DEFINE S == {s}  user == session[s].user  place == session[s].place  family == session[s].family
                 j == past.joined[s]
      <3> HIDE DEF S, user, place, family, j
      <3>8. /\ session' = WithNew(Revoked(S), user, place, family) /\ past' = [past EXCEPT !.joined = Append(@, j)]
            /\ user \in Person /\ place \in {"account", "shop"} /\ family \in 1..(Len(session) + 1)
            /\ S \in SUBSET DOMAIN session /\ family \notin past.ended /\ j \in Nat
            /\ \A r \in DOMAIN session : session[r].family = family =>
                 session[r].user = user /\ (session[r].revoked \/ r \in S)
            /\ place = "shop" => member[user].active /\ j = past.joins[user]
        BY <3>1, <3>2, <3>4, <3>5, <3>6, <3>7 DEF S, user, place, family, j
      <3>9. QED BY <2>1, <3>8, AddsSession
    <2>3. CASE ~Valid(s)
      <3>1. session' = Revoked(FamilyOf(s)) /\ EndFamilies({s})
        BY <1>12, <2>3 DEF Rotate
      <3>2. /\ FamilyOf(s) \in SUBSET DOMAIN session /\ {s} \in SUBSET DOMAIN session
            /\ \A t \in {s}, r \in DOMAIN session : session[r].family = session[t].family => r \in FamilyOf(s)
        BY DEF FamilyOf
      <3>3. QED BY <2>1, <3>1, <3>2, OnlyRevokes
    <2>4. QED BY <2>2, <2>3
  <1>13. ASSUME NEW s \in DOMAIN session, LogOut(s) PROVE DirectoryInv'
    <2>1. UNCHANGED <<member, invitation>> /\ webRequest' \in [WebRequest -> SUBSET Person]
      BY <1>13, <1>t DEF LogOut, PeopleType
    <2>2. session' = Revoked(FamilyOf(s)) /\ EndFamilies({s})
      BY <1>13 DEF LogOut
    <2>3. /\ FamilyOf(s) \in SUBSET DOMAIN session /\ {s} \in SUBSET DOMAIN session
          /\ \A t \in {s}, r \in DOMAIN session : session[r].family = session[t].family => r \in FamilyOf(s)
      BY DEF FamilyOf
    <2>4. QED BY <2>1, <2>2, <2>3, OnlyRevokes
  <1>14. ASSUME NEW s \in DOMAIN session, FamilyLapses(s) PROVE DirectoryInv'
    <2>1. PeopleType' /\ UNCHANGED <<session, past, member>>
      BY <1>14, <1>t DEF FamilyLapses, PeopleType
    <2>2. QED BY <1>0, <2>1
  <1>15. QED BY <1>1, <1>2, <1>3, <1>4, <1>5, <1>7, <1>8, <1>9, <1>10, <1>11, <1>12, <1>13, <1>14 DEF IdentityNext

\* A session that is accepted is the only one of its family that is not revoked, its family was never
\* ended, and it descends from a sign-in of the present membership: for any people, any number of
\* sessions and requests, and tokens presented in any order.
THEOREM AccessFollowsRevocation == IdentitySpec => []AccessIsCurrent
  <1>1. DirectoryInv => AccessIsCurrent
    BY DEF DirectoryInv, AccessIsCurrent, Valid, FamilyOf, Families, OneUnrevoked, EndedIsRevoked, ShopIsOfMember
  <1>2. QED BY <1>1, DirectoryStart, DirectoryStays, PTL DEF IdentitySpec

(***************************************************************************)
(* The founder is the only owner there can be, and the guard on the last owner    *)
(* keeps him.                                                                       *)
(***************************************************************************)

FounderOwns == member \in [Person -> MemberRow] /\ IsOwner(Founder) /\ \A u \in Person : IsOwner(u) => u = Founder
NobodyElse == \A u \in Person : member[u].role = "owner" => u = Founder

\* The workspace always has an owner, whoever is invited or revoked by whom.
THEOREM OwnerStays == IdentitySpec => []OwnerRemains
  <1>1. IdentityInit => FounderOwns /\ NobodyElse
    BY IdentityAssumption DEF IdentityInit, FounderOwns, NobodyElse, IsOwner, MemberRow, Nobody
  <1>2. ASSUME FounderOwns, NobodyElse, [IdentityNext]_identityVars PROVE FounderOwns' /\ NobodyElse'
    <2>1. ASSUME UNCHANGED member PROVE FounderOwns' /\ NobodyElse'
      BY <1>2, <2>1 DEF FounderOwns, NobodyElse, IsOwner, MemberRow
    <2>2. ASSUME NEW i \in DOMAIN invitation, Accept(i) PROVE FounderOwns' /\ NobodyElse'
      <3>1. CASE member[invitation[i].to].active
        BY <2>1, <2>2, <3>1 DEF Accept
      <3>2. CASE ~member[invitation[i].to].active
        <4> DEFINE u == invitation[i].to
                   row == [role |-> "operator", active |-> TRUE, version |-> member[u].version + 1]
        <4>1. member' = [member EXCEPT ![u] = row]
          BY <2>2, <3>2 DEF Accept
        <4>2. CASE u \in Person
          <5>1. row \in MemberRow /\ row.role = "operator"
            BY <1>2, <4>2 DEF FounderOwns, MemberRow
          <5>2. u # Founder
            BY <1>2, <3>2 DEF FounderOwns, IsOwner
          <5> HIDE DEF u, row
          <5>3. QED BY <1>2, <4>1, <4>2, <5>1, <5>2, IdentityAssumption DEF FounderOwns, NobodyElse, IsOwner, MemberRow
        <4>3. CASE u \notin Person
          <5>1. member' = member
            BY <1>2, <4>1, <4>3 DEF FounderOwns
          <5>2. QED BY <2>1, <5>1
        <4>4. QED BY <4>2, <4>3
      <3>3. QED BY <3>1, <3>2
    <2>3. ASSUME NEW actor \in Person, NEW u \in Person, RevokeMember(actor, u) PROVE FounderOwns' /\ NobodyElse'
      <3>1. u # Founder
        <4>1. SUFFICES ASSUME u = Founder PROVE FALSE
          OBVIOUS
        <4>2. {v \in Person : IsOwner(v)} = {Founder}
          BY <1>2, IdentityAssumption DEF FounderOwns
        <4>3. Cardinality({Founder}) = 1
          BY FS_Singleton
        <4>4. Cardinality({v \in Person : IsOwner(v)}) > 1
          BY <1>2, <2>3, <4>1 DEF RevokeMember, FounderOwns, IsOwner
        <4>5. QED BY <4>2, <4>3, <4>4
      <3>2. member[u] \in MemberRow /\ member' = [member EXCEPT ![u].active = FALSE, ![u].version = @ + 1]
        BY <1>2, <2>3 DEF RevokeMember, FounderOwns
      <3>3. /\ member' \in [Person -> MemberRow] /\ member'[u].active = FALSE /\ member'[u].role = member[u].role
            /\ \A v \in Person \ {u} : member'[v] = member[v]
        BY <1>2, <3>2 DEF FounderOwns, MemberRow
      <3>4. QED BY <1>2, <3>1, <3>3, IdentityAssumption DEF FounderOwns, NobodyElse, IsOwner
    <2>4. QED BY <1>2, <2>1, <2>2, <2>3 DEF IdentityNext, identityVars, Invite, InvitationExpires, SignIn, SelectWorkspace,
              LogOutAll, RequestEnds, CheckAccess, Rotate, LogOut, FamilyLapses
  <1>3. FounderOwns => OwnerRemains
    BY IdentityAssumption DEF FounderOwns, OwnerRemains
  <1>4. QED BY <1>1, <1>2, <1>3, PTL DEF IdentitySpec

(***************************************************************************)
(* ERP.  One row claims the invoice; a POST that was sent, or is about to be,    *)
(* is of a row that claims it or that the owner judged, because a claim is          *)
(* released only by a refusal, which is of a POST that made nothing, or by him.      *)
(***************************************************************************)

Outcomes == {"posted", "unconfirmed", "failed", "uncertain"}
PostingRow == [status : Outcomes \union {"posting", "skipped_existing"}, claims : BOOLEAN, aged : BOOLEAN, judged : BOOLEAN]
PosterRow == [pc : {"idle", "search", "record", "reserve", "post", "wait"}, row : Nat]
RowSound(row) == /\ row.status \in {"posting", "uncertain", "unconfirmed"} => row.claims
                 /\ row.status = "failed" => ~row.claims

LedgerType == postings \in Seq(PostingRow) /\ poster \in [Poster -> PosterRow]
RowsSound == \A i \in Posting : RowSound(postings[i])
OneClaim == \A i, j \in Posting : postings[i].claims /\ postings[j].claims => i = j
PostersApart ==
  /\ \A p \in Poster : poster[p].pc \in {"post", "wait"} => poster[p].row \in Posting
  /\ \A p, q \in Poster : poster[p].pc \in {"post", "wait"} /\ poster[q].pc \in {"post", "wait"}
                          /\ poster[p].row = poster[q].row => p = q
SentOnce ==
  /\ held \subseteq Posting /\ sentDocs \subseteq Posting /\ DOMAIN answer \subseteq Posting
  /\ \A i \in sentDocs : i \notin held /\ i \notin DOMAIN answer
  /\ \A i \in DOMAIN answer : answer[i] \in Outcomes /\ (answer[i] = "failed" => i \notin held)
  /\ \A p \in Poster : poster[p].pc = "post" =>
       poster[p].row \notin held /\ poster[p].row \notin sentDocs /\ poster[p].row \notin DOMAIN answer
\* A POST of the row was sent or is about to be.
Acting(i) == i \in held \/ i \in sentDocs \/ \E p \in Poster : poster[p].pc = "post" /\ poster[p].row = i
ActsOnClaim == \A i \in Posting : Acting(i) => postings[i].claims \/ postings[i].judged
LedgerInv == LedgerType /\ RowsSound /\ OneClaim /\ PostersApart /\ SentOnce /\ ActsOnClaim

LEMMA LedgerStart == ErpInit => LedgerInv
  BY DEF ErpInit, LedgerInv, LedgerType, PosterRow, Submitting, RowsSound, OneClaim, PostersApart, SentOnce, ActsOnClaim,
     Acting, Posting

LEMMA LedgerFacts ==
  ASSUME LedgerType
  PROVE  /\ Len(postings) \in Nat /\ Posting = 1..Len(postings)
         /\ \A i \in Posting : postings[i] \in PostingRow
         /\ \A p \in Poster : poster[p] \in PosterRow
  BY DEF LedgerType, Posting

\* A step that appends no row, sends nothing and lets posters only stop or go on before the POST: a claim
\* it releases is of a row that is judged or has nothing acting.
LEMMA LedgerMoves ==
  ASSUME LedgerInv, UNCHANGED <<sentDocs, held, answer>>,
         postings' \in Seq(PostingRow), Len(postings') = Len(postings), poster' \in [Poster -> PosterRow],
         \A p \in Poster : poster'[p] = poster[p] \/ poster'[p].pc \notin {"post", "wait"},
         \A i \in Posting : RowSound(postings'[i]),
         \A i \in Posting : postings'[i].claims => postings[i].claims,
         \A i \in Posting : postings[i].judged => postings'[i].judged,
         \A i \in Posting : postings[i].claims /\ ~postings'[i].claims /\ ~postings'[i].judged => ~Acting(i)'
  PROVE  LedgerInv'
  <1>1. /\ LedgerType /\ RowsSound /\ OneClaim /\ PostersApart /\ SentOnce /\ ActsOnClaim
    BY DEF LedgerInv
  <1>2. Posting' = Posting
    BY <1>1 DEF Posting, LedgerType
  <1>3. LedgerType' /\ RowsSound' /\ OneClaim'
    <2>1. LedgerType'
      BY DEF LedgerType, PostingRow, PosterRow
    <2>2. RowsSound'
      BY <1>2 DEF RowsSound, RowSound
    <2>3. OneClaim'
      BY <1>1, <1>2 DEF OneClaim
    <2>4. QED BY <2>1, <2>2, <2>3
  <1>4. PostersApart'
    BY <1>1, <1>2 DEF PostersApart
  <1>5. SentOnce'
    BY <1>1, <1>2 DEF SentOnce
  <1>6. ActsOnClaim'
    <2> SUFFICES ASSUME NEW i \in Posting, Acting(i)' PROVE postings'[i].claims \/ postings'[i].judged
      BY <1>2 DEF ActsOnClaim
    <2>1. Acting(i)
      BY DEF Acting
    <2>2. QED BY <1>1, <2>1 DEF ActsOnClaim
  <1>7. QED BY <1>3, <1>4, <1>5, <1>6 DEF LedgerInv

LEMMA RecoveredRows ==
  ASSUME LedgerInv
  PROVE  /\ Recovered \in Seq(PostingRow) /\ Len(Recovered) = Len(postings)
         /\ \A i \in Posting : /\ Recovered[i] \in PostingRow /\ RowSound(Recovered[i])
                               /\ (Recovered[i].claims <=> postings[i].claims)
                               /\ (Recovered[i].judged <=> postings[i].judged)
  <1>1. LedgerType /\ RowsSound
    BY DEF LedgerInv
  <1>2. /\ Len(postings) \in Nat /\ Posting = 1..Len(postings)
        /\ \A i \in Posting : postings[i] \in PostingRow /\ RowSound(postings[i])
    BY <1>1, LedgerFacts DEF RowsSound
  <1>3. ASSUME NEW i \in Posting
        PROVE  /\ Recovered[i] \in PostingRow /\ RowSound(Recovered[i])
               /\ (Recovered[i].claims <=> postings[i].claims) /\ (Recovered[i].judged <=> postings[i].judged)
    <2>1. Recovered[i] = IF postings[i].status = "posting" /\ postings[i].aged
                         THEN [postings[i] EXCEPT !.status = "uncertain"] ELSE postings[i]
      BY DEF Recovered
    <2>2. QED BY <1>2, <2>1 DEF PostingRow, Outcomes, RowSound
  <1>4. Recovered \in [1..Len(postings) -> PostingRow]
    BY <1>2, <1>3 DEF Recovered
  <1>5. QED BY <1>2, <1>3, <1>4

LEMMA SettledRows ==
  ASSUME LedgerInv, NEW i \in Posting, NEW status \in Outcomes
  PROVE  /\ Settled(i, status) \in Seq(PostingRow) /\ Len(Settled(i, status)) = Len(postings)
         /\ \A j \in Posting : /\ RowSound(Settled(i, status)[j])
                               /\ Settled(i, status)[j].claims => postings[j].claims
                               /\ postings[j].judged => Settled(i, status)[j].judged
                               /\ postings[j].claims /\ ~Settled(i, status)[j].claims => j = i /\ status = "failed"
  <1>1. LedgerType /\ RowsSound
    BY DEF LedgerInv
  <1>2. /\ Len(postings) \in Nat /\ Posting = 1..Len(postings)
        /\ \A j \in Posting : postings[j] \in PostingRow /\ RowSound(postings[j])
    BY <1>1, LedgerFacts DEF RowsSound
  <1>3. CASE postings[i].status \notin {"posting", "uncertain"}
    BY <1>1, <1>2, <1>3 DEF Settled, LedgerType
  <1>4. CASE postings[i].status \in {"posting", "uncertain"}
    <2> DEFINE row == [postings[i] EXCEPT !.status = status, !.claims = (status # "failed")]
    <2>1. row \in PostingRow /\ RowSound(row) /\ (row.judged <=> postings[i].judged) /\ (row.claims <=> status # "failed")
      BY <1>2 DEF PostingRow, Outcomes, RowSound
    <2>2. Settled(i, status) = [postings EXCEPT ![i] = row]
      BY <1>4 DEF Settled
    <2>3. postings[i].claims
      BY <1>2, <1>4 DEF RowSound
    <2> HIDE DEF row
    <2>4. /\ Settled(i, status) \in Seq(PostingRow) /\ Len(Settled(i, status)) = Len(postings)
          /\ Settled(i, status)[i] = row /\ \A j \in Posting \ {i} : Settled(i, status)[j] = postings[j]
      BY <1>1, <1>2, <2>1, <2>2 DEF LedgerType
    <2>5. QED BY <1>2, <2>1, <2>3, <2>4
  <1>5. QED BY <1>3, <1>4

\* A row that claims is appended, when none does.
LEMMA LedgerGrows ==
  ASSUME LedgerInv, UNCHANGED <<sentDocs, held, answer>>, ~Claimed, NEW row \in PostingRow,
         RowSound(row), row.claims, postings' = Append(postings, row), poster' \in [Poster -> PosterRow],
         NEW p \in Poster, \A q \in Poster \ {p} : poster'[q] = poster[q],
         poster'[p].pc \in {"post", "wait"} => poster'[p].row = Len(postings) + 1
  PROVE  LedgerInv'
  <1> DEFINE n == Len(postings)
  <1>1. /\ LedgerType /\ RowsSound /\ OneClaim /\ PostersApart /\ SentOnce /\ ActsOnClaim
    BY DEF LedgerInv
  <1>2. n \in Nat /\ Posting = 1..n
    BY <1>1, LedgerFacts
  <1>3. /\ postings' \in Seq(PostingRow) /\ Len(postings') = n + 1 /\ postings'[n + 1] = row
        /\ \A i \in 1..n : postings'[i] = postings[i]
    BY <1>1 DEF LedgerType
  <1>4. Posting' = 1..(n + 1)
    BY <1>3 DEF Posting
  <1> HIDE DEF n
  <1>5. LedgerType'
    BY <1>3 DEF LedgerType, PostingRow, PosterRow
  <1>6. RowsSound'
    BY <1>1, <1>2, <1>3, <1>4 DEF RowsSound, RowSound
  <1>7. \A i \in 1..n : ~postings[i].claims
    BY <1>2 DEF Claimed
  <1>8. OneClaim'
    BY <1>2, <1>3, <1>4, <1>7 DEF OneClaim
  <1>9. PostersApart'
    BY <1>1, <1>2, <1>4 DEF PostersApart, n
  <1>10. SentOnce'
    BY <1>1, <1>2, <1>4 DEF SentOnce, n
  <1>11. ActsOnClaim'
    <2> SUFFICES ASSUME NEW i \in 1..n, Acting(i)' PROVE postings'[i].claims \/ postings'[i].judged
      BY <1>2, <1>3, <1>4 DEF ActsOnClaim
    <2>1. Acting(i)
      BY <1>2 DEF Acting, n
    <2>2. QED BY <1>1, <1>2, <1>3, <2>1 DEF ActsOnClaim
  <1>12. QED BY <1>5, <1>6, <1>8, <1>9, <1>10, <1>11 DEF LedgerInv

LEMMA LedgerStays == LedgerInv /\ [ErpNext]_erpVars => LedgerInv'
  <1> SUFFICES ASSUME LedgerInv, [ErpNext]_erpVars PROVE LedgerInv'
    OBVIOUS
  <1>i. /\ LedgerType /\ RowsSound /\ OneClaim /\ PostersApart /\ SentOnce /\ ActsOnClaim
    BY DEF LedgerInv
  <1>f. /\ Len(postings) \in Nat /\ Posting = 1..Len(postings)
        /\ \A i \in Posting : postings[i] \in PostingRow /\ RowSound(postings[i])
        /\ \A p \in Poster : poster[p] \in PosterRow
    BY <1>i, LedgerFacts DEF RowsSound
  \* A step that moves posters short of the POST, and no row.
  <1>0. ASSUME UNCHANGED <<postings, sentDocs, held, answer>>, poster' \in [Poster -> PosterRow],
               \A p \in Poster : poster'[p] = poster[p] \/ poster'[p].pc \notin {"post", "wait"}
        PROVE  LedgerInv'
    <2>1. postings' = postings /\ postings \in Seq(PostingRow)
      BY <1>0, <1>i DEF LedgerType
    <2>2. QED BY <1>0, <1>f, <2>1, LedgerMoves
  <1>b. ASSUME NEW p \in Poster, NEW pc \in {"idle", "search", "record", "reserve"}, At(p, pc) \/ Back(p)
        PROVE  /\ poster' \in [Poster -> PosterRow]
               /\ \A q \in Poster : poster'[q] = poster[q] \/ poster'[q].pc \notin {"post", "wait"}
               /\ \A q \in Poster \ {p} : poster'[q] = poster[q] /\ poster'[p].pc \notin {"post", "wait"}
    <2>1. poster \in [Poster -> PosterRow] /\ poster[p] \in PosterRow
      BY <1>i DEF LedgerType
    <2>2. [poster[p] EXCEPT !.pc = pc] \in PosterRow /\ Submitting \in PosterRow
      BY <2>1 DEF PosterRow, Submitting
    <2>3. CASE At(p, pc)
      BY <2>1, <2>2, <2>3 DEF At, PosterRow
    <2>4. CASE Back(p)
      BY <2>1, <2>2, <2>4 DEF Back, Submitting, PosterRow
    <2>5. QED BY <1>b, <2>3, <2>4
  <1>1. ASSUME UNCHANGED erpVars PROVE LedgerInv'
    BY <1>0, <1>1, <1>i DEF erpVars, LedgerType
  <1>2. ASSUME NEW p \in Poster, StartSubmit(p) PROVE LedgerInv'
    <2>1. postings' = Recovered /\ UNCHANGED <<sentDocs, held, answer>>
      BY <1>2 DEF StartSubmit
    <2>2. \/ UNCHANGED poster
          \/ \E pc \in {"idle", "search", "record", "reserve"} : At(p, pc)
      BY <1>2 DEF StartSubmit
    <2>3. /\ poster' \in [Poster -> PosterRow]
          /\ \A q \in Poster : poster'[q] = poster[q] \/ poster'[q].pc \notin {"post", "wait"}
      BY <1>b, <1>i, <2>2 DEF LedgerType
    <2>4. QED BY <2>1, <2>3, RecoveredRows, LedgerMoves
  <1>3. ASSUME NEW p \in Poster, Search(p) PROVE LedgerInv'
    <2>1. /\ UNCHANGED <<postings, sentDocs, held, answer>>
          /\ \E pc \in {"idle", "search", "record", "reserve"} : At(p, pc) \/ Back(p)
      BY <1>3 DEF Search
    <2>2. QED BY <1>0, <1>b, <2>1
  <1>4. ASSUME NEW p \in Poster, RecordExisting(p) PROVE LedgerInv'
    <2>1. UNCHANGED <<sentDocs, held, answer>> /\ Back(p)
      BY <1>4 DEF RecordExisting
    <2>2. CASE UNCHANGED postings
      BY <1>0, <1>b, <2>1, <2>2
    <2>3. CASE ~Claimed /\ postings' = Append(postings, NewRow("skipped_existing"))
      <3>1. /\ NewRow("skipped_existing") \in PostingRow /\ RowSound(NewRow("skipped_existing"))
            /\ NewRow("skipped_existing").claims
        BY DEF NewRow, PostingRow, RowSound
      <3>2. /\ poster' \in [Poster -> PosterRow] /\ \A q \in Poster \ {p} : poster'[q] = poster[q]
            /\ poster'[p].pc \notin {"post", "wait"}
        <4>1. poster' = [poster EXCEPT ![p] = Submitting] /\ Submitting \in PosterRow
          BY <2>1 DEF Back, Submitting, PosterRow
        <4>2. QED BY <1>i, <4>1 DEF LedgerType, Submitting
      <3>3. QED BY <2>1, <2>3, <3>1, <3>2, LedgerGrows
    <2>4. QED BY <1>4, <2>2, <2>3 DEF RecordExisting
  <1>5. ASSUME NEW p \in Poster, Reserve(p) PROVE LedgerInv'
    <2>1. UNCHANGED <<sentDocs, held, answer>>
      BY <1>5 DEF Reserve
    <2>2. CASE Back(p) /\ UNCHANGED postings
      BY <1>0, <1>b, <2>1, <2>2
    <2>3. CASE /\ ~Claimed /\ postings' = Append(postings, NewRow("posting"))
               /\ poster' = [poster EXCEPT ![p] = [pc |-> "post", row |-> Len(postings) + 1]]
      <3>1. NewRow("posting") \in PostingRow /\ RowSound(NewRow("posting")) /\ NewRow("posting").claims
        BY DEF NewRow, PostingRow, RowSound
      <3>2. [pc |-> "post", row |-> Len(postings) + 1] \in PosterRow
        BY <1>f DEF PosterRow
      <3>3. /\ poster' \in [Poster -> PosterRow] /\ \A q \in Poster \ {p} : poster'[q] = poster[q]
            /\ poster'[p].row = Len(postings) + 1
        BY <1>i, <2>3, <3>2 DEF LedgerType
      <3>4. QED BY <2>1, <2>3, <3>1, <3>3, LedgerGrows
    <2>4. QED BY <1>5, <2>2, <2>3 DEF Reserve
  <1>6. ASSUME NEW p \in Poster, PostInvoice(p) PROVE LedgerInv'
    <2> DEFINE r == poster[p].row
    <2>1. /\ poster[p].pc = "post" /\ sentDocs' = sentDocs \union {r} /\ UNCHANGED <<postings, held, answer>>
          /\ poster' = [poster EXCEPT ![p] = [poster[p] EXCEPT !.pc = "wait"]]
      BY <1>6 DEF PostInvoice, At
    <2>2. [poster[p] EXCEPT !.pc = "wait"] \in PosterRow
      BY <1>f DEF PosterRow
    <2>3. /\ poster' \in [Poster -> PosterRow] /\ poster'[p].pc = "wait" /\ poster'[p].row = r
          /\ \A q \in Poster \ {p} : poster'[q] = poster[q]
      BY <1>f, <1>i, <2>1, <2>2 DEF LedgerType, PosterRow
    <2>4. Posting' = Posting /\ \A i \in Posting : postings'[i] = postings[i]
      BY <2>1 DEF Posting
    <2>5. r \in Posting /\ r \notin held /\ r \notin sentDocs /\ r \notin DOMAIN answer
      BY <1>i, <2>1 DEF PostersApart, SentOnce
    <2>6. LedgerType' /\ RowsSound' /\ OneClaim'
      BY <1>i, <2>1, <2>3, <2>4 DEF LedgerType, RowsSound, RowSound, OneClaim, PostingRow, PosterRow
    <2>7. PostersApart'
      BY <1>i, <2>1, <2>3, <2>4 DEF PostersApart
    <2>8. \A q \in Poster \ {p} : poster[q].pc = "post" => poster[q].row # r
      BY <1>i, <2>1 DEF PostersApart
    <2> HIDE DEF r
    <2>9. SentOnce'
      BY <1>i, <2>1, <2>3, <2>4, <2>5, <2>8 DEF SentOnce
    <2>10. ActsOnClaim'
      <3> SUFFICES ASSUME NEW i \in Posting, Acting(i)' PROVE postings[i].claims \/ postings[i].judged
        BY <2>4 DEF ActsOnClaim
      <3>1. Acting(i)
        BY <2>1, <2>3 DEF Acting, r
      <3>2. QED BY <1>i, <3>1 DEF ActsOnClaim
    <2>11. QED BY <2>6, <2>7, <2>9, <2>10 DEF LedgerInv
  <1>7. ASSUME NEW i \in sentDocs, NEW what \in Outcomes, NEW creates \in BOOLEAN, ErpTakes(i, what, creates)
        PROVE  LedgerInv'
    <2>1. /\ sentDocs' = sentDocs \ {i} /\ held' = IF creates THEN held \union {i} ELSE held
          /\ what = "failed" => ~creates
          /\ answer' = [j \in DOMAIN answer \union {i} |-> IF j = i THEN what ELSE answer[j]]
          /\ UNCHANGED <<postings, poster>>
      BY <1>7 DEF ErpTakes
    <2>2. DOMAIN answer' = DOMAIN answer \union {i} /\ answer'[i] = what
          /\ \A j \in DOMAIN answer \ {i} : answer'[j] = answer[j]
      BY <2>1
    <2>3. Posting' = Posting /\ \A j \in Posting : postings'[j] = postings[j]
      BY <2>1 DEF Posting
    <2>4. LedgerType' /\ RowsSound' /\ OneClaim' /\ PostersApart'
      BY <1>i, <2>1, <2>3 DEF LedgerType, RowsSound, RowSound, OneClaim, PostersApart, PostingRow, PosterRow
    <2>5. SentOnce'
      BY <1>i, <2>1, <2>2, <2>3 DEF SentOnce
    <2>6. ActsOnClaim'
      BY <1>i, <2>1, <2>3 DEF ActsOnClaim, Acting
    <2>7. QED BY <2>4, <2>5, <2>6 DEF LedgerInv
  <1>8. ASSUME NEW p \in Poster, AnswerComes(p) PROVE LedgerInv'
    <2>1. poster[p].pc = "wait" /\ Back(p) /\ UNCHANGED <<sentDocs, held, answer>>
      BY <1>8 DEF AnswerComes
    <2>2. PICK i \in Posting : i = poster[p].row
      BY <1>i, <2>1 DEF PostersApart
    <2>3. PICK status \in Outcomes : /\ postings' = Settled(i, status)
                                     /\ status = "failed" => i \in DOMAIN answer /\ answer[i] = "failed"
      BY <1>8, <1>i, <2>2 DEF AnswerComes, SentOnce, Outcomes
    <2>4. /\ poster' = [poster EXCEPT ![p] = Submitting] /\ poster' \in [Poster -> PosterRow]
          /\ \A q \in Poster : poster'[q] = poster[q] \/ poster'[q].pc \notin {"post", "wait"}
          /\ \A q \in Poster \ {p} : poster'[q] = poster[q]
          /\ poster'[p].pc = "idle"
      <3>1. Submitting \in PosterRow /\ Submitting.pc = "idle"
        BY DEF Submitting, PosterRow
      <3>2. poster' = [poster EXCEPT ![p] = Submitting]
        BY <2>1 DEF Back
      <3>3. QED BY <1>i, <3>1, <3>2 DEF LedgerType
    <2>5. ASSUME status = "failed" PROVE ~Acting(i)'
      <3>1. i \notin held /\ i \notin sentDocs
        BY <1>i, <2>3, <2>5 DEF SentOnce
      <3>2. \A q \in Poster : poster'[q].pc = "post" => poster'[q].row # i
        BY <1>i, <2>1, <2>2, <2>4 DEF PostersApart
      <3>3. QED BY <2>1, <3>1, <3>2 DEF Acting
    <2>6. \A j \in Posting : postings[j].claims /\ ~postings'[j].claims => ~Acting(j)'
      BY <2>3, <2>2, <2>5, SettledRows
    <2>7. QED BY <2>1, <2>3, <2>2, <2>4, <2>6, SettledRows, LedgerMoves
  <1>9. ASSUME NEW p \in Poster, PosterDies(p) PROVE LedgerInv'
    <2>1. UNCHANGED <<postings, sentDocs, held, answer>> /\ Back(p)
      BY <1>9 DEF PosterDies
    <2>2. QED BY <1>0, <1>b, <2>1
  <1>10. ASSUME NEW i \in Posting, ReservationAges(i) PROVE LedgerInv'
    <2> DEFINE row == [postings[i] EXCEPT !.aged = TRUE]
    <2>1. postings' = [postings EXCEPT ![i] = row] /\ UNCHANGED <<poster, sentDocs, held, answer>>
      BY <1>10 DEF ReservationAges
    <2>2. /\ row \in PostingRow /\ RowSound(row) /\ (row.claims <=> postings[i].claims) /\ (row.judged <=> postings[i].judged)
      BY <1>f DEF PostingRow, RowSound
    <2> HIDE DEF row
    <2>3. /\ postings' \in Seq(PostingRow) /\ Len(postings') = Len(postings) /\ postings'[i] = row
          /\ \A j \in Posting \ {i} : postings'[j] = postings[j]
      BY <1>f, <1>i, <2>1, <2>2 DEF LedgerType
    <2>4. poster' \in [Poster -> PosterRow] /\ poster' = poster
      BY <1>i, <2>1 DEF LedgerType
    <2>5. QED BY <1>f, <2>1, <2>2, <2>3, <2>4, LedgerMoves
  <1>11. ASSUME NEW i \in Posting, NEW outcome \in {"posted", "failed"}, ReconcilePosting(i, outcome) PROVE LedgerInv'
    <2> DEFINE row == [Recovered[i] EXCEPT !.status = outcome, !.claims = (outcome = "posted"), !.judged = TRUE]
    <2>1. /\ postings' = [Recovered EXCEPT ![i] = row] /\ UNCHANGED <<poster, sentDocs, held, answer>>
          /\ Recovered[i].status \in {"uncertain", "unconfirmed"}
      BY <1>11 DEF ReconcilePosting
    <2>2. postings[i].claims
      BY <2>1, RecoveredRows DEF RowSound
    <2>3. Recovered[i] \in PostingRow
      BY RecoveredRows
    <2>4. row \in PostingRow /\ RowSound(row) /\ row.judged
      BY <2>3 DEF PostingRow, Outcomes, RowSound
    <2> HIDE DEF row
    <2>5. /\ postings' \in Seq(PostingRow) /\ Len(postings') = Len(postings) /\ postings'[i] = row
          /\ \A j \in Posting \ {i} : postings'[j] = Recovered[j]
      BY <1>f, <2>1, <2>4, RecoveredRows
    <2>6. poster' \in [Poster -> PosterRow] /\ poster' = poster
      BY <1>i, <2>1 DEF LedgerType
    <2>7. \A j \in Posting : /\ RowSound(postings'[j]) /\ (postings'[j].claims => postings[j].claims)
                             /\ (postings[j].judged => postings'[j].judged)
                             /\ (postings[j].claims /\ ~postings'[j].claims => postings'[j].judged)
      BY <2>2, <2>4, <2>5, RecoveredRows
    <2>8. QED BY <2>1, <2>5, <2>6, <2>7, LedgerMoves
  <1>12. CASE ErpFreeze \/ InvoiceEntered
    BY <1>0, <1>12, <1>i DEF ErpFreeze, InvoiceEntered, LedgerType
  <1>13. QED BY <1>1, <1>2, <1>3, <1>4, <1>5, <1>6, <1>7, <1>8, <1>9, <1>10, <1>11, <1>12 DEF ErpNext, Outcomes

\* Of two POSTs that reached the ERP or still may, one was judged by the owner: for any number of
\* submits and rows, whatever was answered late or never.
THEOREM PostsOnce == ErpSpec => []PostedOnce
  <1>1. LedgerInv => PostedOnce
    BY DEF LedgerInv, PostedOnce, SentOnce, ActsOnClaim, Acting, OneClaim
  <1>2. QED BY <1>1, LedgerStart, LedgerStays, PTL DEF ErpSpec

\* What the ledger calls failed, and no owner did, is not in the ERP's books and cannot get there: its
\* invoice may be posted again.
THEOREM FailedIsFree == ErpSpec => []FailedIsNotHeld
  <1>1. LedgerInv => FailedIsNotHeld
    BY DEF LedgerInv, FailedIsNotHeld, SentOnce, ActsOnClaim, Acting, RowsSound, RowSound
  <1>2. QED BY <1>1, LedgerStart, LedgerStays, PTL DEF ErpSpec

(***************************************************************************)
(* Schedules.  A row in a worker's memory is of the period next_due names, which  *)
(* then is ripe, or of an earlier one; a worker about to move next_due has seen      *)
(* the task of its row's period, and tasks are never taken back.                       *)
(***************************************************************************)

CronRow == [due : Nat, on : BOOLEAN, put : Put \union {AnyPut}]
PeriodTask == [steps : Put \union {AnyPut}, actor : Put \union {AnyPut}, made : BOOLEAN]
DueRow == [schedule : Schedule, due : Period, steps : Put \union {AnyPut}]
RunnerRow == [pc : {"idle", "pass", "submit", "move"}, rows : SUBSET DueRow, now : Schedule \union {CHOOSE s \in Schedule : TRUE},
              actor : Put \union {AnyPut}]

CronType == /\ cron \in [Schedule -> CronRow]
            /\ cronTask \in [Schedule -> [Period -> PeriodTask]]
            /\ runner \in [Runner -> RunnerRow]
            /\ ripe \subseteq Schedule
RipeIsDue == \A s \in ripe : cron[s].due \in 1..(MaxPeriod - 1)
RowIsOld(r) == /\ r.due <= cron[r.schedule].due
               /\ r.due = cron[r.schedule].due => r.schedule \in ripe
RowsAreOld == \A w \in Runner : \A r \in runner[w].rows : RowIsOld(r)
RowIsThere == \A w \in Runner : runner[w].pc \in {"submit", "move"} => \E r \in runner[w].rows : r.schedule = runner[w].now
MoveIsSubmitted == \A w \in Runner : runner[w].pc = "move" => cronTask[Row(w).schedule][Row(w).due].made
CronInv == CronType /\ RipeIsDue /\ RowsAreOld /\ RowIsThere /\ MoveIsSubmitted

\* Row(w) of the memory row.
PickedRow(row) == CHOOSE r \in row.rows : r.schedule = row.now

LEMMA CronStart == SchedulesInit => CronInv
  <1> SUFFICES ASSUME SchedulesInit PROVE CronInv
    OBVIOUS
  <1>1. cron \in [Schedule -> CronRow] /\ ripe \subseteq Schedule
    BY DEF SchedulesInit, CronRow
  <1>2. cronTask \in [Schedule -> [Period -> PeriodTask]]
    BY DEF SchedulesInit, PeriodTask, NoTask
  <1>3. Offline \in RunnerRow /\ Offline.pc = "idle" /\ Offline.rows = {}
    BY DEF Offline, RunnerRow
  <1>4. runner \in [Runner -> RunnerRow] /\ \A w \in Runner : runner[w].pc = "idle" /\ runner[w].rows = {}
    BY <1>3 DEF SchedulesInit
  <1>5. QED BY <1>1, <1>2, <1>4 DEF SchedulesInit, CronInv, CronType, RipeIsDue, RowsAreOld, RowIsThere, MoveIsSubmitted

LEMMA CronFacts ==
  ASSUME CronType
  PROVE  /\ \A s \in Schedule : cron[s] \in CronRow /\ cron[s].due \in Nat
         /\ \A w \in Runner : runner[w] \in RunnerRow /\ runner[w].rows \subseteq DueRow
         /\ \A r \in DueRow : r.schedule \in Schedule /\ r.due \in Period /\ r.due \in Nat
  <1>1. /\ \A row \in CronRow : row.due \in Nat
        /\ \A row \in RunnerRow : row.rows \subseteq DueRow
        /\ \A r \in DueRow : r.schedule \in Schedule /\ r.due \in Period
    BY DEF CronRow, RunnerRow, DueRow
  <1>2. Period \subseteq Nat
    BY SchedulesAssumption DEF Period
  <1>3. QED BY <1>1, <1>2 DEF CronType

\* The row a worker is at is one of its rows.
LEMMA RowAt ==
  ASSUME CronType, NEW w \in Runner, \E r \in runner[w].rows : r.schedule = runner[w].now
  PROVE  Row(w) \in runner[w].rows /\ Row(w) \in DueRow /\ Row(w).schedule = runner[w].now
  BY CronFacts DEF Row

\* A step of one worker that keeps its rows or drops some, and lets no row in memory get ahead.
LEMMA PassMoves ==
  ASSUME CronInv, NEW w \in Runner, NEW row \in RunnerRow,
         runner' = [runner EXCEPT ![w] = row],
         cron' \in [Schedule -> CronRow], ripe' \subseteq Schedule, RipeIsDue',
         \A r \in DueRow : RowIsOld(r) => RowIsOld(r)',
         \A r \in row.rows : RowIsOld(r),
         cronTask' \in [Schedule -> [Period -> PeriodTask]],
         \A s \in Schedule, p \in Period : cronTask[s][p].made => cronTask'[s][p].made,
         row.pc \in {"submit", "move"} => \E r \in row.rows : r.schedule = row.now,
         row.pc = "move" => cronTask'[PickedRow(row).schedule][PickedRow(row).due].made
  PROVE  CronInv'
  <1>1. CronType /\ RipeIsDue /\ RowsAreOld /\ RowIsThere /\ MoveIsSubmitted
    BY DEF CronInv
  <1>2. /\ runner' \in [Runner -> RunnerRow] /\ runner'[w] = row /\ \A v \in Runner \ {w} : runner'[v] = runner[v]
    BY <1>1 DEF CronType
  <1>3. CronType'
    BY <1>1, <1>2 DEF CronType
  <1>4. RowsAreOld'
    <2> SUFFICES ASSUME NEW v \in Runner, NEW r \in runner'[v].rows PROVE RowIsOld(r)'
      BY DEF RowsAreOld
    <2>1. r \in DueRow
      BY <1>2 DEF RunnerRow
    <2>2. RowIsOld(r)
      BY <1>1, <1>2 DEF RowsAreOld
    <2>3. QED BY <2>1, <2>2
  <1>5. RowIsThere'
    BY <1>1, <1>2 DEF RowIsThere
  <1>6. MoveIsSubmitted'
    <2> SUFFICES ASSUME NEW v \in Runner, runner'[v].pc = "move" PROVE cronTask'[Row(v)'.schedule][Row(v)'.due].made
      BY DEF MoveIsSubmitted
    <2>1. CASE v = w
      <3>1. Row(v)' = PickedRow(row)
        BY <1>2, <2>1 DEF Row, PickedRow
      <3>2. QED BY <1>2, <2>1, <3>1
    <2>2. CASE v # w
      <3>1. runner'[v] = runner[v] /\ Row(v)' = Row(v)
        BY <1>2, <2>2 DEF Row
      <3>2. Row(v) \in DueRow /\ cronTask[Row(v).schedule][Row(v).due].made
        BY <1>1, <3>1, RowAt DEF RowIsThere, MoveIsSubmitted
      <3>3. QED BY <1>1, <3>1, <3>2, CronFacts
    <2>3. QED BY <2>1, <2>2
  <1>7. QED BY <1>3, <1>4, <1>5, <1>6 DEF CronInv

LEMMA WorkerMoves ==
  ASSUME CronInv, UNCHANGED <<cron, ripe>>, NEW w \in Runner, NEW row \in RunnerRow,
         runner' = [runner EXCEPT ![w] = row],
         \A r \in row.rows : RowIsOld(r),
         cronTask' \in [Schedule -> [Period -> PeriodTask]],
         \A s \in Schedule, p \in Period : cronTask[s][p].made => cronTask'[s][p].made,
         row.pc \in {"submit", "move"} => \E r \in row.rows : r.schedule = row.now,
         row.pc = "move" => cronTask'[PickedRow(row).schedule][PickedRow(row).due].made
  PROVE  CronInv'
  <1>1. cron' \in [Schedule -> CronRow] /\ ripe' \subseteq Schedule /\ RipeIsDue'
    BY DEF CronInv, CronType, RipeIsDue
  <1>2. \A r \in DueRow : RowIsOld(r) => RowIsOld(r)'
    BY DEF RowIsOld
  <1>3. QED BY <1>1, <1>2, PassMoves

LEMMA OfflineRow == Offline \in RunnerRow /\ Offline.pc = "idle" /\ Offline.rows = {}
  BY DEF Offline, RunnerRow

\* MovePeriod is the only step that moves next_due of a schedule that has one.
LEMMA MoveKeeps ==
  ASSUME CronInv, NEW w \in Runner, MovePeriod(w), NEW s \in Schedule, cron'[s].due # cron[s].due
  PROVE  s = Row(w).schedule /\ cron[s].due = Row(w).due /\ s \in ripe /\ cronTask[s][cron[s].due].made
  <1>1. CronType /\ RowsAreOld /\ RowIsThere /\ MoveIsSubmitted /\ runner[w].pc = "move"
    BY DEF CronInv, MovePeriod
  <1>2. Row(w) \in runner[w].rows /\ Row(w) \in DueRow
    BY <1>1, RowAt DEF RowIsThere
  <1>3. cron[Row(w).schedule].due = Row(w).due /\ cron' = [cron EXCEPT ![Row(w).schedule].due = @ + 1]
    BY DEF MovePeriod
  <1>4. s = Row(w).schedule
    BY <1>1, <1>3 DEF CronType, CronRow
  <1>5. QED BY <1>1, <1>2, <1>3, <1>4 DEF RowsAreOld, RowIsOld, MoveIsSubmitted

LEMMA CronStays == CronInv /\ [SchedulesNext]_schedulesVars => CronInv'
  <1> SUFFICES ASSUME CronInv, [SchedulesNext]_schedulesVars PROVE CronInv'
    OBVIOUS
  <1>i. CronType /\ RipeIsDue /\ RowsAreOld /\ RowIsThere /\ MoveIsSubmitted
    BY DEF CronInv
  \* A step of the rows of schedules that moves no next_due back, and of no worker.
  <1>0. ASSUME UNCHANGED <<runner, cronTask>>, cron' \in [Schedule -> CronRow], ripe \subseteq ripe', ripe' \subseteq Schedule,
               \A s \in Schedule : cron'[s].due = cron[s].due \/ cron[s].due = 0,
               \A s \in ripe' : cron'[s].due \in 1..(MaxPeriod - 1)
        PROVE  CronInv'
    <2>1. CronType' /\ RipeIsDue'
      BY <1>0, <1>i DEF CronType, RipeIsDue
    <2>2. RowsAreOld'
      <3> SUFFICES ASSUME NEW w \in Runner, NEW r \in runner[w].rows PROVE RowIsOld(r)'
        BY <1>0 DEF RowsAreOld
      <3>1. RowIsOld(r) /\ r.schedule \in Schedule /\ r.due \in Period
        BY <1>i, CronFacts DEF RowsAreOld
      <3>2. cron[r.schedule].due \in Nat /\ r.due >= 1 /\ r.due \in Nat
        BY <1>i, <3>1, CronFacts, SchedulesAssumption DEF Period
      <3>3. cron'[r.schedule].due = cron[r.schedule].due
        BY <1>0, <3>1, <3>2 DEF RowIsOld
      <3>4. QED BY <1>0, <3>1, <3>3 DEF RowIsOld
    <2>3. RowIsThere' /\ MoveIsSubmitted'
      BY <1>0, <1>i DEF RowIsThere, MoveIsSubmitted, Row
    <2>4. QED BY <2>1, <2>2, <2>3 DEF CronInv
  <1>1. ASSUME UNCHANGED schedulesVars PROVE CronInv'
    BY <1>0, <1>1, <1>i DEF schedulesVars, CronType, RipeIsDue
  <1>2. ASSUME NEW s \in Schedule, NEW p \in Put, PutSchedule(s, p) PROVE CronInv'
    <2> DEFINE row == [due |-> IF cron[s].due = 0 THEN 1 ELSE cron[s].due, on |-> TRUE, put |-> p]
    <2>1. cron' = [cron EXCEPT ![s] = row] /\ UNCHANGED <<runner, cronTask, ripe>>
      BY <1>2 DEF PutSchedule
    <2>2. row \in CronRow /\ (row.due = cron[s].due \/ cron[s].due = 0)
      BY <1>i, CronFacts DEF CronRow
    <2> HIDE DEF row
    <2>3. cron' \in [Schedule -> CronRow] /\ \A t \in Schedule : cron'[t].due = cron[t].due \/ cron[t].due = 0
      BY <1>i, <2>1, <2>2 DEF CronType
    <2>4. \A t \in ripe : cron'[t].due = cron[t].due
      BY <1>i, <2>3, SchedulesAssumption DEF CronType, RipeIsDue
    <2>5. QED BY <1>0, <1>i, <2>1, <2>3, <2>4 DEF CronType, RipeIsDue
  <1>3. ASSUME NEW s \in Schedule, Ripens(s) PROVE CronInv'
    BY <1>0, <1>3, <1>i DEF Ripens, CronType, RipeIsDue
  <1>4. CASE CronWorldChanges
    BY <1>0, <1>4, <1>i DEF CronWorldChanges, CronType, RipeIsDue
  <1>5. ASSUME NEW w \in Runner, StartPass(w) PROVE CronInv'
    <2> DEFINE rows == {[schedule |-> s, due |-> cron[s].due, steps |-> cron[s].put] : s \in {s \in ripe : cron[s].on}}
               row == [runner[w] EXCEPT !.pc = "pass", !.rows = rows]
    <2>1. runner' = [runner EXCEPT ![w] = row] /\ UNCHANGED <<cron, ripe, cronTask>>
      BY <1>5, <1>i DEF StartPass, CronType, RunnerRow
    <2>2. rows \subseteq DueRow
      <3> SUFFICES ASSUME NEW s \in ripe PROVE [schedule |-> s, due |-> cron[s].due, steps |-> cron[s].put] \in DueRow
        OBVIOUS
      <3>1. s \in Schedule /\ cron[s].due \in 1..(MaxPeriod - 1) /\ cron[s] \in CronRow
        BY <1>i DEF CronType, RipeIsDue
      <3>2. QED BY <3>1, SchedulesAssumption DEF DueRow, Period, CronRow
    <2>3. \A r \in rows : RowIsOld(r)
      BY <1>i, CronFacts DEF RowIsOld, CronType
    <2>4. runner[w] \in RunnerRow
      BY <1>i, CronFacts
    <2>5. row \in RunnerRow /\ row.pc = "pass" /\ row.rows = rows
      <3> HIDE DEF rows
      <3>1. QED BY <2>2, <2>4 DEF RunnerRow
    <2> HIDE DEF rows, row
    <2>6. QED BY <1>i, <2>1, <2>3, <2>5, WorkerMoves DEF CronType
  <1>6. ASSUME NEW w \in Runner, NEW r \in runner[w].rows, ReadOwner(w, r) PROVE CronInv'
    <2> DEFINE row == [runner[w] EXCEPT !.pc = "submit", !.now = r.schedule, !.actor = cron[r.schedule].put]
    <2>1. runner' = [runner EXCEPT ![w] = row] /\ UNCHANGED <<cron, ripe, cronTask>>
      BY <1>6, <1>i DEF ReadOwner, CronType, RunnerRow
    <2>2. runner[w] \in RunnerRow /\ r.schedule \in Schedule /\ cron[r.schedule] \in CronRow
      BY <1>i, CronFacts
    <2>3. row \in RunnerRow /\ row.pc = "submit" /\ row.rows = runner[w].rows /\ row.now = r.schedule
      BY <2>2 DEF RunnerRow, CronRow
    <2> HIDE DEF row
    <2>4. \A q \in row.rows : RowIsOld(q)
      BY <1>i, <2>3 DEF RowsAreOld
    <2>5. QED BY <1>i, <2>1, <2>3, <2>4, WorkerMoves DEF CronType
  <1>7. ASSUME NEW w \in Runner, SubmitPeriod(w) PROVE CronInv'
    <2> DEFINE row == [runner[w] EXCEPT !.pc = "move"]
               r == Row(w)
               task == [steps |-> r.steps, actor |-> runner[w].actor, made |-> TRUE]
    <2>1. /\ runner' = [runner EXCEPT ![w] = row] /\ UNCHANGED <<cron, ripe>> /\ runner[w].pc = "submit"
          /\ \/ cronTask[r.schedule][r.due].made /\ UNCHANGED cronTask
             \/ cronTask' = [cronTask EXCEPT ![r.schedule][r.due] = task]
      BY <1>7, <1>i DEF SubmitPeriod, CronType, RunnerRow
    <2>2. runner[w] \in RunnerRow
      BY <1>i, CronFacts
    <2>3. row \in RunnerRow /\ row.pc = "move" /\ row.rows = runner[w].rows /\ row.now = runner[w].now
      BY <2>2 DEF RunnerRow
    <2>4. /\ r \in runner[w].rows /\ r \in DueRow /\ r.schedule = runner[w].now
          /\ r.schedule \in Schedule /\ r.due \in Period
      BY <1>i, <2>1, RowAt, CronFacts DEF RowIsThere
    <2>5. task \in PeriodTask /\ task.made
      BY <2>2, <2>4 DEF PeriodTask, RunnerRow, DueRow
    <2>6. PickedRow(row) = r
      BY <2>3 DEF PickedRow, Row
    <2> HIDE DEF row, r, task
    <2>7. /\ cronTask' \in [Schedule -> [Period -> PeriodTask]]
          /\ \A s \in Schedule, p \in Period : cronTask[s][p].made => cronTask'[s][p].made
          /\ cronTask'[r.schedule][r.due].made
      <3>1. CASE cronTask[r.schedule][r.due].made /\ UNCHANGED cronTask
        BY <1>i, <3>1 DEF CronType
      <3>2. CASE cronTask' = [cronTask EXCEPT ![r.schedule][r.due] = task]
        BY <1>i, <2>4, <2>5, <3>2 DEF CronType
      <3>3. QED BY <2>1, <3>1, <3>2 DEF task
    <2>8. \A q \in row.rows : RowIsOld(q)
      BY <1>i, <2>3 DEF RowsAreOld
    <2>9. /\ runner' = [runner EXCEPT ![w] = row] /\ UNCHANGED <<cron, ripe>>
          /\ \E q \in row.rows : q.schedule = row.now
          /\ cronTask'[PickedRow(row).schedule][PickedRow(row).due].made
      BY <2>1, <2>3, <2>4, <2>6, <2>7
    <2>10. row \in RunnerRow
      BY <2>3
    <2>11. QED BY <2>7, <2>8, <2>9, <2>10, WorkerMoves
  \* A worker done with a row.
  <1>d. ASSUME NEW w \in Runner, RowDone(w, "pass")
        PROVE  LET row == [runner[w] EXCEPT !.pc = "pass", !.rows = @ \ {Row(w)}, !.actor = AnyPut]
               IN /\ runner' = [runner EXCEPT ![w] = row] /\ row \in RunnerRow /\ row.pc = "pass"
                  /\ row.rows \subseteq runner[w].rows
    <2>1. runner[w] \in RunnerRow /\ runner[w].rows \subseteq DueRow
      BY <1>i, CronFacts
    <2>2. QED BY <1>d, <1>i, <2>1 DEF RowDone, RunnerRow, CronType
  <1>8. ASSUME NEW w \in Runner, RefusePeriod(w) PROVE CronInv'
    <2> DEFINE row == [runner[w] EXCEPT !.pc = "pass", !.rows = @ \ {Row(w)}, !.actor = AnyPut]
    <2>1. RowDone(w, "pass") /\ UNCHANGED <<ripe, cronTask>> /\ cron' = [cron EXCEPT ![Row(w).schedule].on = FALSE]
      BY <1>8 DEF RefusePeriod
    <2>2. /\ runner' = [runner EXCEPT ![w] = row] /\ row \in RunnerRow /\ row.pc = "pass"
          /\ row.rows \subseteq runner[w].rows
      BY <1>d, <2>1
    <2> HIDE DEF row
    <2>3. cron' \in [Schedule -> CronRow] /\ \A s \in Schedule : cron'[s].due = cron[s].due
      BY <1>i, <2>1 DEF CronType, CronRow
    <2>4. RipeIsDue' /\ \A r \in DueRow : RowIsOld(r) => RowIsOld(r)'
      BY <1>i, <2>1, <2>3, CronFacts DEF RipeIsDue, RowIsOld, CronType
    <2>5. \A r \in row.rows : RowIsOld(r)
      BY <1>i, <2>2 DEF RowsAreOld
    <2>6. QED BY <1>i, <2>1, <2>2, <2>3, <2>4, <2>5, PassMoves DEF CronType
  <1>9. ASSUME NEW w \in Runner, RaiseEndsPass(w) \/ EndPass(w) \/ RunnerDies(w) PROVE CronInv'
    <2>1. runner' = [runner EXCEPT ![w] = Offline] /\ UNCHANGED <<cron, ripe, cronTask>>
      BY <1>9 DEF RaiseEndsPass, EndPass, RunnerDies
    <2>2. QED BY <1>i, <2>1, OfflineRow, WorkerMoves DEF CronType
  <1>10. ASSUME NEW w \in Runner, MovePeriod(w) PROVE CronInv'
    <2> DEFINE row == [runner[w] EXCEPT !.pc = "pass", !.rows = @ \ {Row(w)}, !.actor = AnyPut]
               s == Row(w).schedule
    <2>1. /\ RowDone(w, "pass") /\ UNCHANGED cronTask
          /\ \/ cron' = [cron EXCEPT ![s].due = @ + 1] /\ ripe' = ripe \ {s}
             \/ UNCHANGED <<cron, ripe>>
      BY <1>10 DEF MovePeriod
    <2>2. /\ runner' = [runner EXCEPT ![w] = row] /\ row \in RunnerRow /\ row.pc = "pass"
          /\ row.rows \subseteq runner[w].rows
      BY <1>d, <2>1
    <2>3. \A r \in row.rows : RowIsOld(r)
      BY <1>i, <2>2 DEF RowsAreOld
    <2> HIDE DEF row, s
    <2>4. CASE UNCHANGED <<cron, ripe>>
      BY <1>i, <2>1, <2>2, <2>3, <2>4, WorkerMoves DEF CronType
    <2>5. CASE cron' = [cron EXCEPT ![s].due = @ + 1] /\ ripe' = ripe \ {s}
      <3>1. /\ cron' \in [Schedule -> CronRow]
            /\ \A t \in Schedule : cron'[t].due = IF t = s THEN cron[t].due + 1 ELSE cron[t].due
        <4>1. s \in Schedule /\ cron[s] \in CronRow /\ cron[s].due \in Nat
          BY <1>i, <1>10, RowAt, CronFacts DEF RowIsThere, MovePeriod, s
        <4>2. [cron[s] EXCEPT !.due = @ + 1] \in CronRow /\ [cron[s] EXCEPT !.due = @ + 1].due = cron[s].due + 1
          BY <4>1 DEF CronRow
        <4>3. cron' = [cron EXCEPT ![s] = [cron[s] EXCEPT !.due = @ + 1]]
          BY <2>5
        <4>4. QED BY <1>i, <4>1, <4>2, <4>3 DEF CronType
      <3>2. ripe' \subseteq Schedule /\ RipeIsDue'
        BY <1>i, <2>5, <3>1 DEF CronType, RipeIsDue
      <3>3. ASSUME NEW r \in DueRow, RowIsOld(r) PROVE RowIsOld(r)'
        <4>1. r.schedule \in Schedule /\ r.due \in Nat /\ cron[r.schedule].due \in Nat
          BY <1>i, CronFacts
        <4>2. CASE r.schedule = s
          BY <3>1, <3>3, <4>1, <4>2 DEF RowIsOld
        <4>3. CASE r.schedule # s
          BY <2>5, <3>1, <3>3, <4>1, <4>3 DEF RowIsOld
        <4>4. QED BY <4>2, <4>3
      <3>4. QED BY <1>i, <2>1, <2>2, <2>3, <3>1, <3>2, <3>3, PassMoves DEF CronType
    <2>6. QED BY <2>1, <2>4, <2>5
  <1>11. QED BY <1>1, <1>2, <1>3, <1>4, <1>5, <1>6, <1>7, <1>8, <1>9, <1>10 DEF SchedulesNext, Pass

\* next_due moves past a period only when it is ripe and its task is there, for any schedules, workers
\* and periods, and whatever owners put, freeze or lose meanwhile.
THEOREM NoPeriodIsSkipped == SchedulesSpec => PeriodsAreKept
  <1>1. ASSUME CronInv, [SchedulesNext]_schedulesVars, NEW s \in Schedule, cron[s].due # 0, cron'[s].due # cron[s].due
        PROVE  s \in ripe /\ cronTask[s][cron[s].due].made
    <2>1. CronType
      BY <1>1 DEF CronInv
    <2>2. \E w \in Runner : MovePeriod(w)
      <3>1. ASSUME UNCHANGED cron PROVE FALSE
        BY <1>1, <3>1
      <3>2. ASSUME NEW t \in Schedule, NEW p \in Put, PutSchedule(t, p) PROVE FALSE
        BY <1>1, <2>1, <3>2 DEF PutSchedule, CronType, CronRow
      <3>3. ASSUME NEW w \in Runner, RefusePeriod(w) PROVE FALSE
        BY <1>1, <2>1, <3>3 DEF RefusePeriod, CronType, CronRow
      <3>4. QED BY <1>1, <3>1, <3>2, <3>3 DEF SchedulesNext, schedulesVars, Pass, CronWorldChanges, Ripens, StartPass,
                ReadOwner, SubmitPeriod, RaiseEndsPass, EndPass, RunnerDies
    <2>3. QED BY <1>1, <2>2, MoveKeeps
  <1>2. CronInv /\ [SchedulesNext]_schedulesVars =>
          [\A s \in Schedule : cron[s].due # 0 /\ cron'[s].due # cron[s].due =>
             s \in ripe /\ cronTask[s][cron[s].due].made]_schedulesVars
    BY <1>1
  <1>3. QED BY <1>2, CronStart, CronStays, PTL DEF SchedulesSpec, PeriodsAreKept

(***************************************************************************)
(* WhatsApp.  A message a thread has neither to accept nor dropped is in its   *)
(* tenant's inbox, and stays there until the 2xx and after.                      *)
(***************************************************************************)

HookRow == [pc : {"idle", "route", "accept"}, batch : SUBSET WaMsg, todo : SUBSET WaMsg, dropped : SUBSET WaMsg]
HookType ==
  /\ meta \in [WaMsg -> {"unwritten", "due", "acked", "refused"}]
  /\ waInbox \in [Shop -> SUBSET WaMsg]
  /\ hook \in [Hook -> HookRow]
\* What a thread that accepts has done with its batch.
RowKept(row) == row.pc = "accept" => \A m \in row.batch \ row.dropped : m \in row.todo \/ m \in waInbox[ShopOf(m)]
AcceptedIsKept == \A h \in Hook : RowKept(hook[h])
HookInv == HookType /\ AcceptedIsKept /\ AckedIsKept

LEMMA HookIdleRow == HookIdle \in HookRow /\ HookIdle.pc = "idle"
  BY DEF HookIdle, HookRow

LEMMA HookStart == HookInit => HookInv
  BY HookIdleRow DEF HookInit, HookInv, HookType, AcceptedIsKept, AckedIsKept, RowKept

\* A step of one thread, after which what it has is kept, while no inbox loses a message.
LEMMA ThreadMoves ==
  ASSUME HookInv, NEW h \in Hook, NEW row \in HookRow, hook' = [hook EXCEPT ![h] = row], RowKept(row)',
         waInbox' \in [Shop -> SUBSET WaMsg], \A s \in Shop : waInbox[s] \subseteq waInbox'[s],
         meta' \in [WaMsg -> {"unwritten", "due", "acked", "refused"}],
         \A m \in WaMsg : meta'[m] = "acked" => m \in waInbox'[ShopOf(m)]
  PROVE  HookInv'
  <1>1. HookType /\ AcceptedIsKept
    BY DEF HookInv
  <1>2. hook' \in [Hook -> HookRow] /\ hook'[h] = row /\ \A g \in Hook \ {h} : hook'[g] = hook[g]
    BY <1>1 DEF HookType
  <1>3. \A m : ShopOf(m) \in Shop
    BY DEF ShopOf, Shop
  <1>4. AcceptedIsKept'
    BY <1>1, <1>2, <1>3 DEF AcceptedIsKept, RowKept
  <1>5. HookType' /\ AckedIsKept'
    BY <1>2 DEF HookType, AckedIsKept, HookRow
  <1>6. QED BY <1>4, <1>5 DEF HookInv

LEMMA HookStays == HookInv /\ [HookNext]_hookVars => HookInv'
  <1> SUFFICES ASSUME HookInv, [HookNext]_hookVars PROVE HookInv'
    OBVIOUS
  <1>i. HookType /\ AcceptedIsKept /\ AckedIsKept
    BY DEF HookInv
  <1>s. \A m \in WaMsg : ShopOf(m) \in Shop
    BY DEF ShopOf, Shop
  <1>1. ASSUME UNCHANGED <<hook, waInbox>>, meta' \in [WaMsg -> {"unwritten", "due", "acked", "refused"}],
               \A m \in WaMsg : meta'[m] = "acked" => meta[m] = "acked"
        PROVE  HookInv'
    BY <1>1, <1>i DEF HookInv, HookType, AcceptedIsKept, RowKept, AckedIsKept
  <1>2. CASE UNCHANGED hookVars
    BY <1>1, <1>2, <1>i DEF hookVars, HookType
  <1>3. ASSUME NEW m \in WaMsg, MessageWritten(m) PROVE HookInv'
    BY <1>1, <1>3, <1>i DEF MessageWritten, HookType
  <1>4. ASSUME NEW s \in Shop, ShopChanges(s) PROVE HookInv'
    BY <1>1, <1>4, <1>i DEF ShopChanges, HookType
  \* A step of one thread that writes nothing.
  <1>5. ASSUME NEW h \in Hook, NEW row \in HookRow, hook' = [hook EXCEPT ![h] = row], row.pc = "accept" => row.batch \ row.dropped \subseteq row.todo,
               UNCHANGED <<meta, waInbox>>
        PROVE  HookInv'
    <2>1. RowKept(row)'
      BY <1>5 DEF RowKept
    <2>2. QED BY <1>5, <1>i, <2>1, ThreadMoves DEF HookType, AckedIsKept
  <1>6. ASSUME NEW h \in Hook, NEW batch \in SUBSET WaMsg, Post(h, batch) PROVE HookInv'
    <2> DEFINE row == [HookIdle EXCEPT !.pc = "route", !.batch = batch]
    <2>1. row \in HookRow /\ row.pc = "route"
      BY DEF HookIdle, HookRow
    <2>2. hook' = [hook EXCEPT ![h] = row] /\ UNCHANGED <<meta, waInbox>>
      BY <1>6 DEF Post
    <2> HIDE DEF row
    <2>3. QED BY <1>5, <2>1, <2>2
  <1>7. ASSUME NEW h \in Hook, Route(h) PROVE HookInv'
    <2> DEFINE mine == {m \in hook[h].batch : ShopOf(m) \in Verified(hook[h].batch)}
               row == [hook[h] EXCEPT !.pc = "accept", !.todo = mine, !.dropped = hook[h].batch \ mine]
    <2>1. hook[h] \in HookRow
      BY <1>i DEF HookType
    <2>2. row \in HookRow /\ row.batch \ row.dropped \subseteq row.todo
      BY <2>1 DEF HookRow
    <2>3. UNCHANGED <<meta, waInbox>> /\ (hook' = [hook EXCEPT ![h] = row] \/ hook' = [hook EXCEPT ![h] = HookIdle])
      BY <1>7 DEF Route
    <2> HIDE DEF row
    <2>4. QED BY <1>5, <2>2, <2>3, HookIdleRow
  <1>8. ASSUME NEW h \in Hook, NEW m \in WaMsg, AcceptMessage(h, m) PROVE HookInv'
    <2>1. CASE hook' = [hook EXCEPT ![h] = HookIdle] /\ UNCHANGED <<meta, waInbox>>
      BY <1>5, <2>1, HookIdleRow
    <2>2. CASE /\ hook[h].pc = "accept" /\ hook' = [hook EXCEPT ![h].todo = @ \ {m}]
               /\ waInbox' = [waInbox EXCEPT ![ShopOf(m)] = @ \union {m}] /\ UNCHANGED meta
      <3>1. hook[h] \in HookRow /\ RowKept(hook[h])
        BY <1>i DEF HookType, AcceptedIsKept
      <3>2. /\ [hook[h] EXCEPT !.todo = @ \ {m}] \in HookRow
            /\ hook' = [hook EXCEPT ![h] = [hook[h] EXCEPT !.todo = @ \ {m}]]
        BY <2>2, <3>1 DEF HookRow
      <3>3. PICK row \in HookRow :
              /\ hook' = [hook EXCEPT ![h] = row]
              /\ row.pc = hook[h].pc /\ row.batch = hook[h].batch /\ row.dropped = hook[h].dropped
              /\ row.todo = hook[h].todo \ {m}
        BY <3>1, <3>2 DEF HookRow
      <3>4. /\ waInbox' \in [Shop -> SUBSET WaMsg] /\ \A s \in Shop : waInbox[s] \subseteq waInbox'[s]
            /\ m \in waInbox'[ShopOf(m)]
        BY <1>i, <1>s, <2>2 DEF HookType
      <3>5. row.batch \subseteq WaMsg
        BY DEF HookRow
      <3>6. ASSUME NEW n \in row.batch \ row.dropped PROVE n \in row.todo \/ n \in waInbox'[ShopOf(n)]
        BY <1>s, <2>2, <3>1, <3>3, <3>4, <3>5 DEF RowKept
      <3>7. \A n \in WaMsg : meta'[n] = "acked" => n \in waInbox'[ShopOf(n)]
        BY <1>i, <1>s, <2>2, <3>4 DEF AckedIsKept
      <3>8. meta' \in [WaMsg -> {"unwritten", "due", "acked", "refused"}]
        BY <1>i, <2>2 DEF HookType
      <3>9. RowKept(row)'
        BY <3>6 DEF RowKept
      <3>10. QED BY <3>3, <3>4, <3>7, <3>8, <3>9, ThreadMoves
    <2>3. QED BY <1>8, <2>1, <2>2 DEF AcceptMessage
  <1>9. ASSUME NEW h \in Hook, Acknowledge(h) PROVE HookInv'
    <2>1. hook[h] \in HookRow /\ RowKept(hook[h]) /\ hook[h].batch \subseteq WaMsg
      BY <1>i DEF HookType, AcceptedIsKept, HookRow
    <2>2. /\ hook[h].pc = "accept" /\ hook[h].todo = {} /\ hook' = [hook EXCEPT ![h] = HookIdle] /\ UNCHANGED waInbox
          /\ meta' \in [WaMsg -> {"unwritten", "due", "acked", "refused"}]
          /\ \A m \in WaMsg : meta'[m] = "acked" => meta[m] = "acked" \/ m \in hook[h].batch \ hook[h].dropped
      BY <1>9, <1>i DEF Acknowledge, HookType
    <2>3. \A m \in WaMsg : meta'[m] = "acked" => m \in waInbox'[ShopOf(m)]
      BY <1>i, <2>1, <2>2 DEF RowKept, AckedIsKept
    <2>4. /\ RowKept(HookIdle)' /\ waInbox' \in [Shop -> SUBSET WaMsg] /\ \A s \in Shop : waInbox[s] \subseteq waInbox'[s]
      BY <1>i, <2>2, HookIdleRow DEF RowKept, HookType
    <2>5. QED BY <2>2, <2>3, <2>4, HookIdleRow, ThreadMoves
  <1>10. ASSUME NEW h \in Hook, HookDies(h) PROVE HookInv'
    BY <1>5, <1>10, HookIdleRow DEF HookDies
  <1>11. QED BY <1>2, <1>3, <1>4, <1>6, <1>7, <1>8, <1>9, <1>10 DEF HookNext

\* A message Meta was told of is in its tenant's inbox, for any messages and threads.
THEOREM AcknowledgedIsAccepted == HookSpec => []AckedIsKept
  <1>1. HookInv => AckedIsKept
    BY DEF HookInv
  <1>2. QED BY <1>1, HookStart, HookStays, PTL DEF HookSpec

(***************************************************************************)
(* OAuth: a token is in few hands at a time.  The one of the connection is held *)
(* besides only by the attempt the connection records, and the one an attempt is   *)
(* about to store is in no other hand, in no doubt and in no queue.                *)
(***************************************************************************)

AttemptPc == {"asking", "store", "fail", "rejected"}
CallRow == [pc : AttemptPc \union {"idle", "cleanup", "revoking"}, gen : Nat, old : Nat, new : Nat]
ConnRow ==
  [status : {"none", "authorizing", "exchanging", "active", "refreshing", "uncertain", "reauth_required", "revoked"},
   gen : Nat, token : Nat, attempt : SUBSET OAuthCall, aged : BOOLEAN]
OAuthTyped ==
  /\ conn \in ConnRow /\ call \in [OAuthCall -> CallRow] /\ issued \in Nat
  /\ Queued \subseteq Nat /\ doubtful \subseteq Nat

\* A token a thread asks about, is to store, or is to clean up.
InHand(p, t) ==
  call[p].pc \in AttemptPc \union {"cleanup"} /\ t # 0 /\ t \in {call[p].old, call[p].new}

AllWereIssued ==
  /\ conn.token <= issued
  /\ \A t \in Queued \union doubtful : t <= issued
  /\ \A p \in OAuthCall : call[p].old <= issued /\ call[p].new <= issued
LiveAttempt ==
  \A p \in OAuthCall : call[p].pc \in AttemptPc /\ Mine(p) =>
    conn.status \in {"refreshing", "exchanging"} /\ call[p].old = conn.token
ErasedElsewhere == conn.token # 0 => conn.status \in {"active", "refreshing"}
CredentialIsOurs ==
  conn.token # 0 =>
    /\ conn.token \notin Queued
    /\ \A p \in OAuthCall : InHand(p, conn.token) => call[p].pc \in AttemptPc /\ Mine(p)
ToStoreIsSound ==
  \A p \in OAuthCall : call[p].pc = "store" /\ Mine(p) =>
    /\ call[p].new # 0 /\ call[p].new \notin Queued \union doubtful
    /\ \A q \in OAuthCall \ {p} : ~InHand(q, call[p].new)

OAuthInv ==
  /\ OAuthTyped /\ AllWereIssued /\ LiveAttempt /\ ErasedElsewhere
  /\ CredentialIsOurs /\ ToStoreIsSound /\ ActiveTokenIsSound

LEMMA OAuthStart == OAuthInit => OAuthInv
  <1> SUFFICES ASSUME OAuthInit PROVE OAuthInv
    OBVIOUS
  <1>1. Queued = {}
    BY DEF OAuthInit, Queued
  <1>2. OAuthTyped
    BY <1>1 DEF OAuthInit, OAuthTyped, ConnRow, CallRow, NoCall, AttemptPc
  <1>3. AllWereIssued /\ LiveAttempt /\ ErasedElsewhere /\ CredentialIsOurs /\ ToStoreIsSound
    BY <1>1 DEF OAuthInit, AllWereIssued, LiveAttempt, ErasedElsewhere, CredentialIsOurs, ToStoreIsSound,
       NoCall, AttemptPc
  <1>4. QED BY <1>2, <1>3 DEF OAuthInit, OAuthInv, ActiveTokenIsSound

\* The queue of revocations gains at most the token put in it.
LEMMA PutQueued ==
  ASSUME NEW t, NEW row, PutRevoc(t, row)
  PROVE  Queued' = Queued \union {t}
  BY DEF PutRevoc, Queued

\* A fence leaves no attempt alive and no credential.
LEMMA FenceKeeps ==
  ASSUME OAuthInv, NEW s \in {"authorizing", "revoked", "uncertain"}, conn' = Fenced(s),
         UNCHANGED <<call, issued, doubtful>>, Queued' \subseteq Queued \union {conn.token}
  PROVE  OAuthInv'
  <1> USE DEF OAuthInv
  <1>1. conn' \in ConnRow /\ conn'.token = 0 /\ conn'.attempt = {} /\ conn'.status = s
    <2>1. conn \in ConnRow /\ conn.gen \in Nat /\ {} \in SUBSET OAuthCall
      BY DEF ConnRow, OAuthTyped
    <2>2. PICK g \in Nat : g = conn.gen + 1
      BY <2>1
    <2>3. conn' = [conn EXCEPT !.status = s, !.gen = g, !.token = 0, !.attempt = {}]
      BY <2>1, <2>2 DEF Fenced
    <2>4. conn'.token = 0 /\ conn'.attempt = {} /\ conn'.status = s
      BY <2>1, <2>3 DEF ConnRow
    <2>5. conn' \in ConnRow
      <3>1. PICK one : one = [conn EXCEPT !.status = s, !.gen = g]
        OBVIOUS
      <3>2. one \in ConnRow
        BY <2>1, <3>1 DEF ConnRow
      <3>3. PICK two : two = [one EXCEPT !.token = 0]
        OBVIOUS
      <3>4. two \in ConnRow
        BY <3>2, <3>3 DEF ConnRow
      <3>5. conn' = [two EXCEPT !.attempt = {}]
        BY <2>3, <3>1, <3>3
      <3>6. QED BY <3>4, <3>5 DEF ConnRow
    <2>6. QED BY <2>4, <2>5
  <1>2. \A p \in OAuthCall : ~Mine(p)'
    BY <1>1 DEF Mine
  <1>3. OAuthTyped' /\ AllWereIssued'
    BY <1>1 DEF OAuthTyped, AllWereIssued, ConnRow
  <1>4. LiveAttempt' /\ ErasedElsewhere' /\ CredentialIsOurs' /\ ToStoreIsSound' /\ ActiveTokenIsSound'
    BY <1>1, <1>2 DEF LiveAttempt, ErasedElsewhere, CredentialIsOurs, ToStoreIsSound, ActiveTokenIsSound
  <1>5. QED BY <1>3, <1>4

\* An attempt begins on a credential nobody else holds, or on none.
LEMMA AttemptBegins ==
  ASSUME OAuthInv, NEW p \in OAuthCall, call[p].pc = "idle",
         NEW s \in {"refreshing", "exchanging"}, conn' = [conn EXCEPT !.status = s, !.attempt = {p}, !.aged = FALSE],
         \/ conn.status = "active" /\ s = "refreshing"
         \/ conn.status = "authorizing" /\ s = "exchanging",
         NEW row \in CallRow, row.pc = "asking", row.gen = conn.gen, row.old = conn.token, row.new = 0,
         call' = [call EXCEPT ![p] = row],
         doubtful' \subseteq doubtful \union {conn.token}, UNCHANGED <<revocs, issued>>
  PROVE  OAuthInv'
  <1> USE DEF OAuthInv
  <1>1. conn' \in ConnRow /\ conn'.token = conn.token /\ conn'.attempt = {p} /\ conn'.status = s /\ conn'.gen = conn.gen
    BY DEF ConnRow, OAuthTyped
  <1>2. /\ call'[p] = row
        /\ \A q \in OAuthCall \ {p} : call'[q] = call[q]
    BY DEF OAuthTyped
  <1>3. \A q \in OAuthCall : Mine(q)' => q = p
    BY <1>1 DEF Mine
  <1>4. \A q \in OAuthCall : call[q].pc \in AttemptPc => ~Mine(q)
    BY DEF LiveAttempt
  <1>5. \A q \in OAuthCall : ~InHand(q, conn.token)
    BY <1>4 DEF CredentialIsOurs, InHand
  <1>6. Mine(p)' /\ \A q \in OAuthCall : InHand(q, conn.token)' => q = p
    BY <1>1, <1>2, <1>5 DEF Mine, InHand
  <1>7. OAuthTyped'
    <2>1. conn.token \in Nat /\ conn.gen \in Nat
      BY DEF OAuthTyped, ConnRow
    <2>2. call' \in [OAuthCall -> CallRow]
      BY DEF OAuthTyped
    <2>3. QED BY <1>1, <2>1, <2>2 DEF OAuthTyped, Queued
  <1>8. AllWereIssued'
    BY <1>1, <1>2 DEF AllWereIssued, Queued, OAuthTyped
  <1>9. LiveAttempt' /\ ToStoreIsSound'
    BY <1>1, <1>2, <1>3 DEF LiveAttempt, ToStoreIsSound, AttemptPc
  <1>10. ErasedElsewhere' /\ ActiveTokenIsSound' /\ CredentialIsOurs'
    BY <1>1, <1>2, <1>6 DEF ErasedElsewhere, ActiveTokenIsSound, CredentialIsOurs, Queued, AttemptPc
  <1>11. QED BY <1>7, <1>8, <1>9, <1>10

\* An answer is a token of its own, or the one the attempt asked about, which is then in no doubt.
LEMMA AnswerKeeps ==
  ASSUME OAuthInv, NEW p \in OAuthCall, NEW fresh \in BOOLEAN, NEW good \in BOOLEAN, TokensAnswered(p, fresh, good)
  PROVE  OAuthInv'
  <1> USE DEF OAuthInv
  <1>1. /\ call[p] \in CallRow /\ call[p].pc = "asking" /\ call[p].old \in Nat /\ call[p].old <= issued /\ issued \in Nat
    BY DEF TokensAnswered, OAuthTyped, AllWereIssued, CallRow
  <1>got. PICK got \in Nat : got = IF fresh THEN issued + 1 ELSE call[p].old
    BY <1>1
  <1>2. /\ call'[p] = [call[p] EXCEPT !.pc = IF good THEN "store" ELSE "fail", !.new = got]
        /\ \A q \in OAuthCall \ {p} : call'[q] = call[q]
        /\ call' \in [OAuthCall -> CallRow]
    <2>1. PICK row : row = [call[p] EXCEPT !.pc = IF good THEN "store" ELSE "fail", !.new = got]
      OBVIOUS
    <2>2. row \in CallRow
      BY <1>1, <1>got, <2>1 DEF CallRow, AttemptPc
    <2>3. call' = [call EXCEPT ![p] = row]
      BY <1>got, <2>1 DEF TokensAnswered
    <2>4. QED BY <2>1, <2>2, <2>3 DEF OAuthTyped
  <1>3. /\ call'[p].pc \in {"store", "fail"} /\ call'[p].new = got /\ call'[p].old = call[p].old /\ call'[p].gen = call[p].gen
    BY <1>1, <1>2, <1>got DEF CallRow
  <1>4. /\ conn' = conn /\ Queued' = Queued /\ doubtful' = doubtful \ {call[p].old}
        /\ issued' \in Nat /\ issued <= issued' /\ got <= issued' /\ got # 0 /\ got \in Nat
        /\ fresh \/ got = call[p].old
        /\ fresh => got > issued
    BY <1>1, <1>got DEF TokensAnswered, Queued
  <1>5. \A q \in OAuthCall : Mine(q)' <=> Mine(q)
    BY <1>2, <1>3, <1>4 DEF Mine
  <1>6. OAuthTyped' /\ ErasedElsewhere'
    BY <1>2, <1>4 DEF OAuthTyped, ErasedElsewhere
  <1>7. AllWereIssued'
    <2>1. conn.token \in Nat /\ \A q \in OAuthCall : call[q].old \in Nat /\ call[q].new \in Nat
      BY DEF OAuthTyped, ConnRow, CallRow
    <2>2. \A t \in Queued' \union doubtful' : t \in Nat /\ t <= issued
      BY <1>4 DEF OAuthTyped, AllWereIssued
    <2>3. \A q \in OAuthCall : call'[q].old <= issued' /\ call'[q].new <= issued'
      <3> SUFFICES ASSUME NEW q \in OAuthCall PROVE call'[q].old <= issued' /\ call'[q].new <= issued'
        OBVIOUS
      <3>1. call[q].old <= issued /\ call[q].new <= issued
        BY DEF AllWereIssued
      <3>2. CASE q = p
        BY <1>1, <1>3, <1>4, <2>1, <3>1, <3>2
      <3>3. CASE q # p
        BY <1>1, <1>2, <1>4, <2>1, <3>1, <3>3
      <3>4. QED BY <3>2, <3>3
    <2>4. QED BY <1>1, <1>4, <2>1, <2>2, <2>3 DEF AllWereIssued
  <1>8. LiveAttempt'
    <2> SUFFICES ASSUME NEW q \in OAuthCall, call'[q].pc \in AttemptPc, Mine(q)
                 PROVE  conn.status \in {"refreshing", "exchanging"} /\ call'[q].old = conn.token
      BY <1>4, <1>5 DEF LiveAttempt
    <2>1. call[q].pc \in AttemptPc /\ call'[q].old = call[q].old
      BY <1>1, <1>2, <1>3 DEF AttemptPc
    <2>2. QED BY <2>1 DEF LiveAttempt
  <1>9. ActiveTokenIsSound'
    BY <1>4 DEF ActiveTokenIsSound
  <1>10. CredentialIsOurs'
    <2>1. conn.token \in Nat /\ conn.token <= issued
      BY DEF OAuthTyped, ConnRow, AllWereIssued
    <2>2. fresh => got # conn.token
      BY <1>1, <1>4, <2>1
    <2>3. InHand(p, conn.token)' => InHand(p, conn.token)
      BY <1>1, <1>3, <1>4, <2>2 DEF InHand, AttemptPc
    <2>4. \A q \in OAuthCall \ {p} : InHand(q, conn.token)' <=> InHand(q, conn.token)
      BY <1>2, <1>4 DEF InHand
    <2>5. \A q \in OAuthCall : call[q].pc \in AttemptPc => call'[q].pc \in AttemptPc
      BY <1>2, <1>3 DEF AttemptPc
    <2>6. QED BY <1>4, <1>5, <2>3, <2>4, <2>5 DEF CredentialIsOurs
  <1>11. ToStoreIsSound'
    <2> SUFFICES ASSUME NEW q \in OAuthCall, call'[q].pc = "store", Mine(q), NEW n, n = call'[q].new
                 PROVE  /\ n # 0 /\ n \notin Queued /\ n \notin doubtful'
                        /\ \A r \in OAuthCall \ {q} : ~InHand(r, n)'
      BY <1>4, <1>5 DEF ToStoreIsSound, InHand
    <2>1. CASE q # p
      <3>1. n = call[q].new /\ call[q].pc = "store"
        BY <1>2, <2>1
      <3>2. n # 0 /\ n \notin Queued \union doubtful /\ \A r \in OAuthCall \ {q} : ~InHand(r, n)
        BY <3>1 DEF ToStoreIsSound
      <3>3. n \in Nat /\ n <= issued
        BY <3>1 DEF AllWereIssued, OAuthTyped, CallRow
      <3>4. ~InHand(p, n)'
        BY <1>1, <1>3, <1>4, <2>1, <3>2, <3>3 DEF InHand, AttemptPc
      <3>5. \A r \in OAuthCall \ {q, p} : ~InHand(r, n)'
        BY <1>2, <3>2 DEF InHand
      <3>6. QED BY <1>4, <3>2, <3>4, <3>5
    <2>2. CASE q = p /\ fresh
      <3>1. n = got /\ got \notin Queued \union doubtful
        BY <1>1, <1>3, <1>4, <2>2 DEF AllWereIssued, OAuthTyped
      <3>2. \A r \in OAuthCall \ {p} : ~InHand(r, got)'
        <4> SUFFICES ASSUME NEW r \in OAuthCall \ {p} PROVE got # call[r].old /\ got # call[r].new
          BY <1>2 DEF InHand
        <4>1. call[r].old \in Nat /\ call[r].new \in Nat /\ call[r].old <= issued /\ call[r].new <= issued
          BY DEF OAuthTyped, CallRow, AllWereIssued
        <4>2. QED BY <1>1, <1>4, <2>2, <4>1
      <3>3. QED BY <1>4, <2>2, <3>1, <3>2
    <2>3. CASE q = p /\ ~fresh
      <3>1. n = got /\ got = call[p].old /\ got = conn.token
        BY <1>1, <1>3, <1>4, <2>3 DEF LiveAttempt, AttemptPc
      <3>2. got \notin Queued /\ got \notin doubtful'
        BY <1>4, <3>1 DEF CredentialIsOurs
      <3>3. \A r \in OAuthCall \ {p} : ~InHand(r, got)'
        <4>1. \A r \in OAuthCall \ {p} : ~Mine(r)
          BY <2>3 DEF Mine
        <4>2. \A r \in OAuthCall \ {p} : ~InHand(r, got)
          BY <1>4, <3>1, <4>1 DEF CredentialIsOurs
        <4>3. QED BY <1>2, <4>2 DEF InHand
      <3>4. QED BY <1>4, <2>3, <3>1, <3>2, <3>3
    <2>4. QED BY <2>1, <2>2, <2>3
  <1>12. QED BY <1>6, <1>7, <1>8, <1>9, <1>10, <1>11

LEMMA StoreKeeps == ASSUME OAuthInv, NEW p \in OAuthCall, Store(p) PROVE OAuthInv'
  <1> USE DEF OAuthInv
  <1>1. /\ call[p] \in CallRow /\ call[p].pc = "store" /\ Mine(p) /\ call[p].new # 0 /\ call[p].new \notin Queued \union doubtful
        /\ \A q \in OAuthCall \ {p} : ~InHand(q, call[p].new)
    BY DEF Store, ToStoreIsSound, OAuthTyped
  <1>2. /\ conn' \in ConnRow /\ conn'.token = call[p].new /\ conn'.attempt = {} /\ conn'.status = "active"
    BY <1>1 DEF Store, OAuthTyped, ConnRow, CallRow
  <1>3. /\ call' \in [OAuthCall -> CallRow] /\ call'[p] = NoCall
        /\ \A q \in OAuthCall \ {p} : call'[q] = call[q]
    BY DEF Store, Over, OAuthTyped, CallRow, NoCall
  <1>4. Queued' = Queued /\ doubtful' = doubtful /\ issued' = issued
    BY DEF Store, Queued
  <1>n. PICK n : n = call[p].new
    OBVIOUS
  <1>5. \A q \in OAuthCall : ~Mine(q)' /\ ~InHand(q, n)'
    BY <1>1, <1>2, <1>3, <1>n DEF Mine, InHand, NoCall, AttemptPc
  <1>6. OAuthTyped' /\ AllWereIssued'
    BY <1>1, <1>2, <1>3, <1>4 DEF OAuthTyped, AllWereIssued, NoCall
  <1>7. LiveAttempt' /\ ErasedElsewhere' /\ ToStoreIsSound' /\ ActiveTokenIsSound'
    BY <1>1, <1>2, <1>4, <1>5 DEF LiveAttempt, ErasedElsewhere, ToStoreIsSound, ActiveTokenIsSound
  <1>8. CredentialIsOurs'
    BY <1>1, <1>2, <1>4, <1>5, <1>n DEF CredentialIsOurs, InHand
  <1>9. QED BY <1>6, <1>7, <1>8

\* A failed attempt erases the credential if it is still the connection's, and leaves it if not.
LEMMA FailureKeeps == ASSUME OAuthInv, NEW p \in OAuthCall, Failure(p) PROVE OAuthInv'
  <1> USE DEF OAuthInv
  <1>1. call[p] \in CallRow /\ call[p].pc \in AttemptPc
    BY DEF Failure, OAuthTyped, AttemptPc
  <1>2. /\ call' \in [OAuthCall -> CallRow]
        /\ call'[p] = NoCall \/ call'[p] = [call[p] EXCEPT !.pc = "cleanup"]
        /\ \A q \in OAuthCall \ {p} : call'[q] = call[q]
    BY <1>1 DEF Failure, Step, Over, OAuthTyped, CallRow, NoCall
  <1>3. call'[p] \in CallRow /\ call'[p].pc \in {"idle", "cleanup"} /\ \A t : InHand(p, t)' => InHand(p, t)
    BY <1>1, <1>2 DEF InHand, CallRow, NoCall, AttemptPc
  <1>4. Queued' = Queued /\ doubtful' = doubtful /\ issued' = issued
    BY DEF Failure, Queued
  <1>5. \A q \in OAuthCall : \A t : InHand(q, t)' => InHand(q, t)
    BY <1>2, <1>3 DEF InHand
  <1>6. AllWereIssued' <=> conn'.token <= issued
    BY <1>1, <1>2, <1>4 DEF AllWereIssued, OAuthTyped, CallRow, NoCall
  <1>7. CASE Mine(p)
    <2>1. /\ conn' \in ConnRow /\ conn'.token = 0 /\ conn'.attempt = {}
          /\ conn'.status \in {"reauth_required", "uncertain"}
      BY <1>7 DEF Failure, OAuthTyped, ConnRow
    <2>2. \A q \in OAuthCall : ~Mine(q)'
      BY <2>1 DEF Mine
    <2>3. OAuthTyped' /\ AllWereIssued'
      BY <1>2, <1>4, <1>6, <2>1 DEF OAuthTyped
    <2>4. QED
      BY <2>1, <2>2, <2>3 DEF LiveAttempt, ErasedElsewhere, CredentialIsOurs, ToStoreIsSound, ActiveTokenIsSound
  <1>8. CASE ~Mine(p)
    <2>1. conn' = conn
      BY <1>8 DEF Failure
    <2>2. \A q \in OAuthCall \ {p} : Mine(q)' <=> Mine(q)
      BY <1>2, <2>1 DEF Mine
    <2>3. OAuthTyped' /\ AllWereIssued' /\ ErasedElsewhere' /\ ActiveTokenIsSound'
      BY <1>2, <1>4, <1>6, <2>1 DEF OAuthTyped, AllWereIssued, ErasedElsewhere, ActiveTokenIsSound
    <2>4. LiveAttempt'
      BY <1>2, <1>3, <2>1, <2>2 DEF LiveAttempt, AttemptPc
    <2>5. CredentialIsOurs'
      BY <1>2, <1>4, <1>5, <1>8, <2>1, <2>2 DEF CredentialIsOurs
    <2>6. ToStoreIsSound'
      BY <1>2, <1>3, <1>4, <1>5, <2>2 DEF ToStoreIsSound
    <2>7. QED BY <2>3, <2>4, <2>5, <2>6
  <1>9. QED BY <1>7, <1>8

LEMMA OAuthStays == OAuthInv /\ [OAuthNext]_oauthVars => OAuthInv'
  <1> SUFFICES ASSUME OAuthInv, [OAuthNext]_oauthVars PROVE OAuthInv'
    OBVIOUS
  <1>1. ASSUME UNCHANGED oauthVars PROVE OAuthInv'
    BY <1>1 DEF oauthVars, Queued, OAuthInv, OAuthTyped, AllWereIssued, LiveAttempt, ErasedElsewhere,
       CredentialIsOurs, ToStoreIsSound, ActiveTokenIsSound, InHand, Mine
  <1>2. ASSUME Begin PROVE OAuthInv'
    BY <1>2, FenceKeeps DEF Begin, Queued
  <1>3. ASSUME NEW p \in OAuthCall, CompleteCallback(p) PROVE OAuthInv'
    <2>1. conn.token = 0
      BY <1>3 DEF CompleteCallback, OAuthInv, ErasedElsewhere
    <2>2. PICK row : row = [NoCall EXCEPT !.pc = "asking", !.gen = conn.gen]
      OBVIOUS
    <2>3. row \in CallRow /\ row.pc = "asking" /\ row.gen = conn.gen /\ row.old = conn.token /\ row.new = 0
      <3>1. conn.gen \in Nat
        BY DEF OAuthInv, OAuthTyped, ConnRow
      <3>2. QED BY <2>1, <2>2, <3>1 DEF NoCall, CallRow, AttemptPc
    <2>4. QED BY <1>3, <2>2, <2>3, AttemptBegins DEF CompleteCallback
  <1>4. ASSUME NEW p \in OAuthCall, Access(p) PROVE OAuthInv'
    <2>1. PICK row : row = [NoCall EXCEPT !.pc = "asking", !.gen = conn.gen, !.old = conn.token]
      OBVIOUS
    <2>2. row \in CallRow /\ row.pc = "asking" /\ row.gen = conn.gen /\ row.old = conn.token /\ row.new = 0
      <3>1. conn.gen \in Nat /\ conn.token \in Nat
        BY DEF OAuthInv, OAuthTyped, ConnRow
      <3>2. QED BY <2>1, <3>1 DEF NoCall, CallRow, AttemptPc
    <2>3. QED BY <1>4, <2>1, <2>2, AttemptBegins DEF Access
  <1> USE DEF OAuthInv, OAuthTyped, AllWereIssued, LiveAttempt, ErasedElsewhere, CredentialIsOurs, ToStoreIsSound,
          ActiveTokenIsSound, InHand, Mine, ConnRow, CallRow, AttemptPc
  <1>6. ASSUME NEW p \in OAuthCall, NEW rejected \in BOOLEAN, NotAnswered(p, rejected) PROVE OAuthInv'
    BY <1>6 DEF NotAnswered, Step, Queued
  <1>8. ASSUME NEW p \in OAuthCall, StoreRefused(p) PROVE OAuthInv'
    BY <1>8 DEF StoreRefused, Step, Queued
  <1>10. ASSUME NEW p \in OAuthCall, CleanupIssued(p) PROVE OAuthInv'
    <2>1. Queued' \subseteq Queued \union {call[p].new}
      BY <1>10, PutQueued DEF CleanupIssued, QueueRevoke, Queued
    <2>2. QED BY <1>10, <2>1 DEF CleanupIssued, Over, NoCall
  <1>11. ASSUME NEW p \in OAuthCall, NEW t \in Queued, DrainRevoke(p, t) PROVE OAuthInv'
    <2>1. Queued' = Queued
      BY <1>11 DEF DrainRevoke, PutRevoc, Queued
    <2>2. t \in Nat /\ t <= issued
      OBVIOUS
    <2>3. /\ call'[p] = [NoCall EXCEPT !.pc = "revoking", !.old = t]
          /\ \A q \in OAuthCall \ {p} : call'[q] = call[q]
          /\ call' \in [OAuthCall -> CallRow]
      BY <1>11, <2>2 DEF DrainRevoke, NoCall
    <2>4. QED BY <1>11, <2>1, <2>2, <2>3 DEF DrainRevoke, NoCall
  <1>12. ASSUME NEW p \in OAuthCall, NEW status, RevokeAnswered(p, status) PROVE OAuthInv'
    <2>1. Queued' = Queued
      BY <1>12 DEF RevokeAnswered, Queued
    <2>2. QED BY <1>12, <2>1 DEF RevokeAnswered, Over, NoCall
  <1>15. ASSUME AttemptAges PROVE OAuthInv'
    <2>1. Queued' = Queued
      BY <1>15 DEF AttemptAges, Queued
    <2>2. conn' \in ConnRow /\ conn'.token = conn.token /\ conn'.attempt = conn.attempt
          /\ conn'.gen = conn.gen /\ conn'.status = conn.status
      BY <1>15 DEF AttemptAges
    <2>3. call' = call /\ issued' = issued /\ doubtful' = doubtful
      BY <1>15 DEF AttemptAges
    <2>4. OAuthTyped'
      BY <2>1, <2>2, <2>3
    <2>5. QED BY <2>1, <2>2, <2>3, <2>4
  <1>16. ASSUME NEW p \in OAuthCall, CallDies(p) PROVE OAuthInv'
    BY <1>16 DEF CallDies, Over, NoCall, Queued
  <1> HIDE DEF OAuthInv
  <1>13. ASSUME NEW remote \in BOOLEAN, Revoke(remote) PROVE OAuthInv'
    <2>1. Queued' \subseteq Queued \union {conn.token}
      BY <1>13, PutQueued DEF Revoke, QueueRevoke, Queued
    <2>2. QED BY <1>13, <2>1, FenceKeeps DEF Revoke
  <1>14. ASSUME RecoverStale PROVE OAuthInv'
    BY <1>14, FenceKeeps DEF RecoverStale, Queued
  <1>17. QED
    BY <1>1, <1>2, <1>3, <1>4, <1>6, <1>8, <1>10, <1>11, <1>12, <1>13, <1>14, <1>15, <1>16,
       AnswerKeeps, StoreKeeps, FailureKeeps
       DEF OAuthNext

\* Whoever crashes, comes late or is fenced, the token of an active connection is one whose last
\* refresh was answered and that nobody queued to be revoked, for any number of threads.
THEOREM NoBlindRefresh == OAuthSpec => []ActiveTokenIsSound
  <1>1. OAuthInv => ActiveTokenIsSound
    BY DEF OAuthInv
  <1>2. QED BY <1>1, OAuthStart, OAuthStays, PTL DEF OAuthSpec

(***************************************************************************)
(* Database: a step that has a call under way is entered in the dispatch table,  *)
(* and what a two-step transport read is the record still, as long as its       *)
(* sequence number is.                                                            *)
(***************************************************************************)

OwnVersions == {0} \union {RequestOf[s].expected + 1 : s \in DbStep}
Writer == DbStep \union {"customer", "nobody"}
DbRecord == [there : BOOLEAN, version : Nat, mine : OwnVersions, theirs : Nat, seq : Nat, by : Writer]
Sending == [pc : {"idle", "get", "send"}] \union [pc : {"send"}, read : DbRecord] \union [pc : {"told"}, fine : BOOLEAN]
DbTyped ==
  /\ store \in [DbRows -> DbRecord] /\ transports \in [DbStep -> Sending] /\ edits \in Nat
  /\ dispatch \in [DbStep -> {"none", "dispatching", "committed", "uncertain"}]

UnderWayIsEntered == \A s \in DbStep : transports[s].pc # "idle" => dispatch[s] = "dispatching"
TwoSteps(s) == ~(driver \in OneStep \/ RequestOf[s].op = "insert")
ReadIsARecord(s, read, rec) ==
  /\ read \in DbRecord /\ read.there /\ read.version = RequestOf[s].expected
  /\ read.seq <= rec.seq /\ (read.seq = rec.seq => read = rec)
ReadStands ==
  \A s \in DbStep : transports[s].pc = "send" /\ TwoSteps(s) => ReadIsARecord(s, transports[s].read, store[RowOf(s)])
DbInv == DbTyped /\ UnderWayIsEntered /\ ReadStands

LEMMA RowIsARow == ASSUME NEW s \in DbStep PROVE RowOf(s) \in DbRows
  BY DatabaseAssumption DEF RowOf, DbRows

LEMMA DbStart == DatabaseInit => DbInv
  BY DEF DatabaseInit, DbInv, DbTyped, UnderWayIsEntered, ReadStands, DbRecord, OwnVersions, Writer, Sending, Absent, NoSending

\* What no step of a transport moves.
LEMMA DbQuiet ==
  ASSUME DbInv, UNCHANGED <<driver, dispatch, transports, store, edits>> PROVE DbInv'
  BY DEF DbInv, DbTyped, UnderWayIsEntered, ReadStands, TwoSteps

\* A step's call moves on, where the records stay; one that reads has read the record.
LEMMA SendingMoves ==
  ASSUME DbInv, NEW s \in DbStep, NEW at \in Sending, transports' = [transports EXCEPT ![s] = at],
         UNCHANGED <<driver, store, edits>>,
         dispatch' \in [DbStep -> {"none", "dispatching", "committed", "uncertain"}],
         \A o \in DbStep \ {s} : dispatch'[o] = dispatch[o], at.pc # "idle" => dispatch'[s] = "dispatching",
         at.pc = "send" /\ TwoSteps(s) => ReadIsARecord(s, at.read, store[RowOf(s)])
  PROVE  DbInv'
  <1>1. transports' \in [DbStep -> Sending] /\ transports'[s] = at /\ \A o \in DbStep \ {s} : transports'[o] = transports[o]
    BY DEF DbInv, DbTyped
  <1>2. DbTyped'
    BY <1>1 DEF DbInv, DbTyped
  <1>3. UnderWayIsEntered'
    BY <1>1 DEF DbInv, UnderWayIsEntered
  <1>4. ReadStands'
    <2> SUFFICES ASSUME NEW o \in DbStep, transports'[o].pc = "send", TwoSteps(o)
                 PROVE  ReadIsARecord(o, transports'[o].read, store[RowOf(o)])
      BY DEF ReadStands, TwoSteps
    <2>1. CASE o = s
      BY <1>1, <2>1
    <2>2. CASE o # s
      <3>1. transports'[o] = transports[o]
        BY <1>1, <2>2
      <3>2. QED BY <3>1 DEF DbInv, ReadStands
    <2>3. QED BY <2>1, <2>2
  <1>5. QED BY <1>2, <1>3, <1>4 DEF DbInv

\* A record written: its sequence goes up.
LEMMA RecordWritten ==
  ASSUME DbInv, NEW r \in DbRows, NEW rec \in DbRecord, store' = [store EXCEPT ![r] = rec], rec.seq > store[r].seq,
         UNCHANGED <<driver, dispatch, transports>>, edits' \in Nat
  PROVE  DbInv'
  <1>1. store' \in [DbRows -> DbRecord] /\ store'[r] = rec /\ \A q \in DbRows \ {r} : store'[q] = store[q]
    BY DEF DbInv, DbTyped
  <1>2. ReadStands'
    <2> SUFFICES ASSUME NEW s \in DbStep, transports[s].pc = "send", TwoSteps(s)
                 PROVE  ReadIsARecord(s, transports[s].read, store'[RowOf(s)])
      BY DEF ReadStands, TwoSteps
    <2>1. ReadIsARecord(s, transports[s].read, store[RowOf(s)]) /\ RowOf(s) \in DbRows
      BY RowIsARow DEF DbInv, ReadStands
    <2>2. CASE RowOf(s) = r
      <3>1. transports[s].read.seq \in Nat /\ store[r].seq \in Nat /\ rec.seq \in Nat
        BY <2>1 DEF ReadIsARecord, DbRecord, DbInv, DbTyped
      <3>2. QED BY <1>1, <2>1, <2>2, <3>1 DEF ReadIsARecord
    <2>3. CASE RowOf(s) # r
      BY <1>1, <2>1, <2>3
    <2>4. QED BY <2>2, <2>3
  <1>3. DbTyped' /\ UnderWayIsEntered'
    BY <1>1 DEF DbInv, DbTyped, UnderWayIsEntered
  <1>4. QED BY <1>2, <1>3 DEF DbInv

\* A one-step transport that lands hit the record of the tenant, the key and the version.
LEMMA OneStepHits ==
  ASSUME NEW d \in OneStep, NEW t, NEW rec, NEW request, TransportVerdict(d, t, rec, request) = "lands"
  PROVE  Hits(rec, request)
  BY DEF OneStep, TransportVerdict, Sqlite, Postgres, Mysql, Sqlserver, Oracle, Mongodb, Dynamodb, Redis, Cassandra,
         Neo4j, Forbid, ByCount

\* What a landed call writes: the record, hit, one version on, with the values of the customer's programs.
LEMMA LandedWrite ==
  ASSUME DbInv, NEW s \in DbStep, transports[s].pc = "send", Lands(s, store[RowOf(s)])
  PROVE  LET rec == store[RowOf(s)]  new == Written(s, rec)
         IN /\ new \in DbRecord /\ new.by = s /\ new.seq > rec.seq
            /\ RequestOf[s].op = "insert" => ~rec.there
            /\ RequestOf[s].op # "insert" =>
                 rec.there /\ rec.version = RequestOf[s].expected /\ new.version = rec.version + 1 /\ new.theirs = rec.theirs
  <1>1. PICK rec : rec = store[RowOf(s)]
    OBVIOUS
  <1>2. rec \in DbRecord
    BY <1>1, RowIsARow DEF DbInv, DbTyped
  <1>3. PICK request : request = RequestOf[s]
    OBVIOUS
  <1>4. Hits(rec, request)
    <2>1. CASE driver \in OneStep
      BY <1>1, <1>3, <2>1, OneStepHits DEF Lands
    <2>2. CASE driver \notin OneStep /\ request.op = "insert"
      BY <1>1, <1>3, <2>2 DEF Lands, Hits
    <2>3. CASE TwoSteps(s)
      BY <1>1, <1>3, <2>3 DEF Lands, IndexFits, Hits, TwoSteps, DbInv, ReadStands, ReadIsARecord
    <2>4. QED BY <1>3, <2>1, <2>2, <2>3 DEF TwoSteps
  <1>5. PICK base : base = IF TwoSteps(s) THEN transports[s].read ELSE rec
    OBVIOUS
  <1>6. base = rec
    BY <1>1, <1>3, <1>5 DEF Lands, IndexFits, TwoSteps, DbInv, ReadStands, ReadIsARecord
  <1>7. PICK there : there = [rec EXCEPT !.there = TRUE, !.mine = request.expected + 1]
    OBVIOUS
  <1>8. there \in DbRecord /\ there.seq = rec.seq /\ there.version = rec.version /\ there.theirs = rec.theirs
    <2>1. request.expected + 1 \in OwnVersions
      BY <1>3 DEF OwnVersions
    <2>2. QED BY <1>2, <1>7, <2>1 DEF DbRecord
  <1>9. PICK new : new = Applied(s, rec, request)
    OBVIOUS
  <1>10. new = [there EXCEPT !.seq = @ + 1, !.by = s, !.version = IF request.op = "insert" THEN 1 ELSE @ + 1]
    BY <1>2, <1>7, <1>9 DEF Applied, DbRecord
  <1>11. /\ new \in DbRecord /\ new.by = s /\ new.seq = rec.seq + 1 /\ new.theirs = rec.theirs
         /\ request.op # "insert" => new.version = rec.version + 1
    <2>1. rec.version \in Nat /\ rec.seq \in Nat
      BY <1>2 DEF DbRecord
    <2>n. PICK seq : seq = rec.seq + 1
      OBVIOUS
    <2>o. seq \in Nat /\ s \in Writer
      BY <2>1, <2>n DEF Writer
    <2>2. PICK mid : mid = [there EXCEPT !.seq = seq, !.by = s]
      OBVIOUS
    <2>3. mid \in DbRecord /\ mid.by = s /\ mid.seq = rec.seq + 1 /\ mid.version = rec.version /\ mid.theirs = rec.theirs
      BY <1>8, <2>1, <2>n, <2>o, <2>2 DEF DbRecord
    <2>4. PICK version : version = IF request.op = "insert" THEN 1 ELSE rec.version + 1
      OBVIOUS
    <2>5. version \in Nat /\ new = [mid EXCEPT !.version = version]
      BY <1>8, <1>10, <2>1, <2>n, <2>2, <2>4 DEF DbRecord
    <2>6. QED BY <2>3, <2>4, <2>5 DEF DbRecord
  <1>12. Written(s, rec) = new
    <2>1. CASE TwoSteps(s)
      <3>1. Written(s, rec) = [new EXCEPT !.seq = rec.seq + 1]
        BY <1>3, <1>5, <1>6, <1>9, <2>1 DEF Written, TwoSteps
      <3>2. QED BY <1>11, <3>1 DEF DbRecord
    <2>2. CASE ~TwoSteps(s)
      BY <1>3, <1>9, <2>2 DEF Written, TwoSteps
    <2>3. QED BY <2>1, <2>2
  <1>13. new.seq > rec.seq
    BY <1>2, <1>11 DEF DbRecord
  <1>14. QED BY <1>1, <1>3, <1>4, <1>11, <1>12, <1>13 DEF Hits

LEMMA SendWrites ==
  ASSUME DbInv, NEW s \in DbStep, NEW lands \in BOOLEAN, NEW answered \in BOOLEAN, Send(s, lands, answered)
  PROVE  DbInv'
  <1>1. PICK at : at = [pc |-> "told", fine |-> lands /\ answered]
    OBVIOUS
  <1>2. at \in Sending /\ at.pc = "told"
    BY <1>1 DEF Sending
  <1>3. transports' = [transports EXCEPT ![s] = at]
    BY <1>1 DEF Send
  <1>4. UNCHANGED <<driver, dispatch, edits>> /\ dispatch[s] = "dispatching"
    BY DEF Send, Keep, DbInv, UnderWayIsEntered
  <1>5. CASE ~lands
    <2>1. store' = store
      BY <1>5 DEF Send
    <2>2. QED BY <1>2, <1>3, <1>4, <2>1, SendingMoves DEF DbInv, DbTyped
  <1>6. CASE lands
    <2>1. PICK rec : rec = Written(s, store[RowOf(s)])
      OBVIOUS
    <2>2. /\ store' = [store EXCEPT ![RowOf(s)] = rec] /\ rec \in DbRecord /\ rec.seq > store[RowOf(s)].seq
          /\ RowOf(s) \in DbRows
      BY <1>6, <2>1, LandedWrite, RowIsARow DEF Send
    <2>3. PICK r : r = RowOf(s)
      OBVIOUS
    <2>4. store' \in [DbRows -> DbRecord] /\ store'[r] = rec /\ \A q \in DbRows \ {r} : store'[q] = store[q]
      BY <2>2, <2>3 DEF DbInv, DbTyped
    <2>5. transports' \in [DbStep -> Sending] /\ transports'[s] = at /\ \A o \in DbStep \ {s} : transports'[o] = transports[o]
      BY <1>2, <1>3 DEF DbInv, DbTyped
    <2>6. DbTyped' /\ UnderWayIsEntered'
      BY <1>2, <1>4, <2>4, <2>5 DEF DbInv, DbTyped, UnderWayIsEntered
    <2>7. ReadStands'
      <3> SUFFICES ASSUME NEW o \in DbStep, transports'[o].pc = "send", TwoSteps(o)
                   PROVE  ReadIsARecord(o, transports'[o].read, store'[RowOf(o)])
        BY <1>4 DEF ReadStands, TwoSteps
      <3>1. transports'[o] = transports[o]
        BY <1>2, <2>5
      <3>2. ReadIsARecord(o, transports[o].read, store[RowOf(o)]) /\ RowOf(o) \in DbRows
        BY <3>1, RowIsARow DEF DbInv, ReadStands
      <3>3. CASE RowOf(o) = r
        <4>1. transports[o].read.seq \in Nat /\ store[r].seq \in Nat /\ rec.seq \in Nat /\ rec.seq > store[r].seq
          BY <2>2, <2>3, <3>2 DEF ReadIsARecord, DbRecord, DbInv, DbTyped
        <4>2. QED BY <2>4, <3>1, <3>2, <3>3, <4>1 DEF ReadIsARecord
      <3>4. CASE RowOf(o) # r
        BY <2>4, <3>1, <3>2, <3>4
      <3>5. QED BY <3>3, <3>4
    <2>8. QED BY <2>6, <2>7 DEF DbInv
  <1>7. QED BY <1>5, <1>6

LEMMA CustomerEdits == ASSUME DbInv, NEW r \in DbRows, NEW bump \in BOOLEAN, CustomerWrites(r, bump) PROVE DbInv'
  <1>1. store[r] \in DbRecord /\ edits \in Nat
    BY DEF DbInv, DbTyped
  <1>2. UNCHANGED <<driver, dispatch, transports>> /\ edits' \in Nat
    BY <1>1 DEF CustomerWrites
  <1>3. CASE store[r].there
    <2>1. PICK old : old = store[r]
      OBVIOUS
    <2>2. old \in DbRecord /\ old.seq \in Nat /\ old.version \in Nat /\ edits + 1 \in Nat
      BY <1>1, <2>1 DEF DbRecord
    <2>n. PICK seq, theirs : seq = old.seq + 1 /\ theirs = edits + 1
      OBVIOUS
    <2>o. seq \in Nat /\ theirs \in Nat /\ "customer" \in Writer /\ seq > old.seq
      BY <2>2, <2>n DEF Writer
    <2>3. PICK new : new = [old EXCEPT !.theirs = theirs, !.seq = seq]
      OBVIOUS
    <2>4. new \in DbRecord /\ new.seq = seq /\ new.version = old.version
      BY <2>2, <2>o, <2>3 DEF DbRecord
    <2>5. PICK version : version = IF bump THEN old.version + 1 ELSE old.version
      OBVIOUS
    <2>6. version \in Nat
      BY <2>2, <2>5
    <2>7. PICK rec : rec = [new EXCEPT !.version = version, !.by = "customer"]
      OBVIOUS
    <2>8. rec \in DbRecord /\ rec.seq > old.seq
      BY <2>4, <2>o, <2>6, <2>7 DEF DbRecord
    <2>9. store' = [store EXCEPT ![r] =
                       [old EXCEPT !.theirs = theirs, !.seq = seq, !.by = "customer", !.version = version]]
      BY <1>3, <2>1, <2>n, <2>5 DEF CustomerWrites
    <2>10. store' = [store EXCEPT ![r] = rec]
      BY <2>2, <2>3, <2>7, <2>9 DEF DbRecord
    <2>11. QED BY <1>2, <2>1, <2>8, <2>10, RecordWritten
  <1>4. CASE ~store[r].there
    <2>1. PICK rec : rec = [there |-> TRUE, version |-> 1, mine |-> 0, theirs |-> edits + 1, seq |-> store[r].seq + 1,
                            by |-> "customer"]
      OBVIOUS
    <2>2. rec \in DbRecord /\ rec.seq > store[r].seq
      BY <1>1, <2>1 DEF DbRecord, OwnVersions, Writer
    <2>3. store' = [store EXCEPT ![r] = rec]
      BY <1>4, <2>1 DEF CustomerWrites, DbInv, DbTyped
    <2>4. QED BY <1>2, <2>2, <2>3, RecordWritten
  <1>5. QED BY <1>3, <1>4

LEMMA GetReads == ASSUME DbInv, NEW s \in DbStep, GetDocument(s) PROVE DbInv'
  <1>1. PICK rec : rec = store[RowOf(s)]
    OBVIOUS
  <1>2. rec \in DbRecord /\ UNCHANGED <<driver, store, edits, dispatch>> /\ dispatch[s] = "dispatching"
    BY <1>1, RowIsARow DEF GetDocument, Keep, DbInv, DbTyped, UnderWayIsEntered
  <1>3. CASE ElasticAdmits(DbTable) /\ Hits(rec, RequestOf[s])
    <2>1. PICK at : at = [pc |-> "send", read |-> rec]
      OBVIOUS
    <2>2. at \in Sending /\ at.read = rec
      BY <1>2, <2>1 DEF Sending
    <2>3. transports' = [transports EXCEPT ![s] = at]
      BY <1>1, <1>3, <2>1 DEF GetDocument
    <2>4. rec.seq <= rec.seq
      BY <1>2 DEF DbRecord
    <2>5. TwoSteps(s) => ReadIsARecord(s, rec, rec)
      BY <1>2, <1>3, <2>4 DEF TwoSteps, Hits, ReadIsARecord
    <2>6. QED BY <1>1, <1>2, <2>2, <2>3, <2>5, SendingMoves DEF DbInv, DbTyped
  <1>4. CASE ~(ElasticAdmits(DbTable) /\ Hits(rec, RequestOf[s]))
    <2>1. PICK at : at = [pc |-> "told", fine |-> FALSE]
      OBVIOUS
    <2>2. at \in Sending /\ at.pc = "told"
      BY <2>1 DEF Sending
    <2>3. transports' = [transports EXCEPT ![s] = at]
      BY <1>1, <1>4, <2>1 DEF GetDocument
    <2>4. QED BY <1>2, <2>2, <2>3, SendingMoves DEF DbInv, DbTyped
  <1>5. QED BY <1>3, <1>4

LEMMA DispatchEnters == ASSUME DbInv, NEW s \in DbStep, Dispatch(s) PROVE DbInv'
  <1>1. PICK at : at = [pc |-> IF driver \in OneStep \/ RequestOf[s].op = "insert" THEN "send" ELSE "get"]
    OBVIOUS
  <1>2. at \in Sending /\ (at.pc = "send" => ~TwoSteps(s))
    BY <1>1 DEF Sending, TwoSteps
  <1>3. /\ transports' = [transports EXCEPT ![s] = at] /\ UNCHANGED <<driver, store, edits>>
        /\ dispatch' = [dispatch EXCEPT ![s] = "dispatching"]
    BY <1>1 DEF Dispatch, Keep
  <1>4. /\ dispatch' \in [DbStep -> {"none", "dispatching", "committed", "uncertain"}] /\ dispatch'[s] = "dispatching"
        /\ \A o \in DbStep \ {s} : dispatch'[o] = dispatch[o]
    BY <1>3 DEF DbInv, DbTyped
  <1>5. QED BY <1>2, <1>3, <1>4, SendingMoves

LEMMA CallEnds == ASSUME DbInv, NEW s \in DbStep, DbSettled(s) \/ SenderDies(s) PROVE DbInv'
  <1>1. NoSending \in Sending /\ NoSending.pc = "idle"
    BY DEF NoSending, Sending
  <1>2. transports' = [transports EXCEPT ![s] = NoSending] /\ UNCHANGED <<driver, store, edits>>
    BY DEF DbSettled, SenderDies, Keep
  <1>3. /\ dispatch' \in [DbStep -> {"none", "dispatching", "committed", "uncertain"}]
        /\ \A o \in DbStep \ {s} : dispatch'[o] = dispatch[o]
    BY DEF DbSettled, SenderDies, DbInv, DbTyped
  <1>4. QED BY <1>1, <1>2, <1>3, SendingMoves

LEMMA DbStays == DbInv /\ [DatabaseNext]_dbVars => DbInv'
  <1> SUFFICES ASSUME DbInv, [DatabaseNext]_dbVars PROVE DbInv'
    OBVIOUS
  <1>1. CASE UNCHANGED dbVars
    BY <1>1, DbQuiet DEF dbVars
  <1>2. CASE ConnectionEdited
    BY <1>2, DbQuiet DEF ConnectionEdited, Keep
  <1>3. ASSUME NEW s \in DbStep, Approved(s) \/ Withdrawn(s) PROVE DbInv'
    BY <1>3, DbQuiet DEF Approved, Withdrawn, Keep
  <1>4. QED BY <1>1, <1>2, <1>3, GetReads, DispatchEnters, CallEnds, SendWrites, CustomerEdits DEF DatabaseNext

\* What one step writes of a record under a step's name.
LEMMA OneWrite ==
  ASSUME DbInv, [DatabaseNext]_dbVars, NEW r \in DbRows, NEW s \in DbStep, store'[r] # store[r], store'[r].by = s
  PROVE  /\ r = RowOf(s) /\ dispatch[s] = "dispatching"
         /\ IF RequestOf[s].op = "insert" THEN ~store[r].there
            ELSE /\ store[r].there /\ store[r].version = RequestOf[s].expected
                 /\ store'[r].version = store[r].version + 1 /\ store'[r].theirs = store[r].theirs
  <1>1. ASSUME NEW q \in DbRows, NEW bump \in BOOLEAN, CustomerWrites(q, bump) PROVE FALSE
    <2>1. store' = [store EXCEPT ![q] = store'[q]] /\ store \in [DbRows -> DbRecord] /\ store[q] \in DbRecord
      BY <1>1 DEF CustomerWrites, DbInv, DbTyped
    <2>2. r = q
      BY <2>1
    <2>3. store'[q].by = "customer"
      BY <1>1, <2>1 DEF CustomerWrites, DbRecord
    <2>4. QED BY <2>2, <2>3, DatabaseAssumption
  <1>2. ASSUME NEW o \in DbStep, NEW lands \in BOOLEAN, NEW answered \in BOOLEAN, Send(o, lands, answered)
        PROVE  /\ r = RowOf(s) /\ dispatch[s] = "dispatching"
               /\ IF RequestOf[s].op = "insert" THEN ~store[r].there
                  ELSE /\ store[r].there /\ store[r].version = RequestOf[s].expected
                       /\ store'[r].version = store[r].version + 1 /\ store'[r].theirs = store[r].theirs
    <2>1. PICK rec : rec = Written(o, store[RowOf(o)])
      OBVIOUS
    <2>2. lands /\ store' = [store EXCEPT ![RowOf(o)] = rec] /\ Lands(o, store[RowOf(o)]) /\ transports[o].pc = "send"
      BY <1>2, <2>1 DEF Send
    <2>3. /\ rec.by = o /\ (RequestOf[o].op = "insert" => ~store[RowOf(o)].there)
          /\ RequestOf[o].op # "insert" =>
               /\ store[RowOf(o)].there /\ store[RowOf(o)].version = RequestOf[o].expected
               /\ rec.version = store[RowOf(o)].version + 1 /\ rec.theirs = store[RowOf(o)].theirs
      BY <2>1, <2>2, LandedWrite
    <2>4. r = RowOf(o) /\ store'[r] = rec
      BY <2>2 DEF DbInv, DbTyped
    <2>5. o = s
      BY <2>3, <2>4
    <2>6. dispatch[s] = "dispatching"
      BY <2>2, <2>5 DEF DbInv, UnderWayIsEntered
    <2>7. QED BY <2>3, <2>4, <2>5, <2>6
  <1>3. CASE UNCHANGED store
    BY <1>3
  <1>4. ASSUME NEW o \in DbStep, Approved(o) \/ Withdrawn(o) \/ Dispatch(o) \/ GetDocument(o) \/ DbSettled(o) \/ SenderDies(o)
        PROVE  UNCHANGED store
    BY <1>4 DEF Approved, Withdrawn, Dispatch, GetDocument, DbSettled, SenderDies
  <1>5. ConnectionEdited => UNCHANGED store
    BY DEF ConnectionEdited
  <1>6. QED BY <1>1, <1>2, <1>3, <1>4, <1>5 DEF DatabaseNext, dbVars

\* A write lands once, on its own tenant's record and on the version approved, over nothing the
\* customer's programs wrote, for any number of records, steps, edits and deaths.
THEOREM WritesLandOnTheirVersion == DatabaseSpec => NothingOverwritten
  <1>1. DbInv /\ [DatabaseNext]_dbVars =>
          \A r \in DbRows, s \in DbStep : store'[r] # store[r] /\ store'[r].by = s =>
            /\ r = RowOf(s) /\ dispatch[s] = "dispatching"
            /\ IF RequestOf[s].op = "insert" THEN ~store[r].there
               ELSE /\ store[r].there /\ store[r].version = RequestOf[s].expected
                    /\ store'[r].version = store[r].version + 1 /\ store'[r].theirs = store[r].theirs
    BY OneWrite
  <1>2. QED BY <1>1, DbStart, DbStays, PTL DEF DatabaseSpec, NothingOverwritten

(***************************************************************************)
(* Documents: a plan knows whether the supplier's number was stored when it       *)
(* began, and what is stored stays where it is.                                     *)
(***************************************************************************)

\* A number that stood among the first documents when a plan began is a duplicate to it.
Known(doc, began) == \E k \in 1..began : docs[k].number = doc.number
DocMemory ==
  [pc : {"history", "altered", "remember", "record"}, doc : Invoice, began : Nat, tolerance : {Tolerance} \union Tolerances,
   matched : {"incomplete", "mismatch", "matched", "partial"}, duplicate : BOOLEAN, material : BOOLEAN]
RecordedPlan ==
  [doc : Invoice, tolerance : {Tolerance} \union Tolerances, began : Nat,
   recommendation : {"hold_for_duplicate_review", "hold_for_mismatch_review", "attach_missing_document",
                     "review_fraud_signals", "ready_for_approval"}]
DocTyped ==
  /\ docs \in Seq(Invoice) /\ plans \in Seq(RecordedPlan)
  /\ dclerk \in [DocClerk -> DocMemory \union {NoDoc}]
BegunIsKnown ==
  \A w \in DocClerk : dclerk[w].pc # "idle" =>
    dclerk[w].began <= Len(docs) /\ (Known(dclerk[w].doc, dclerk[w].began) => dclerk[w].duplicate)
PlannedIsHeld ==
  \A i \in DOMAIN plans :
    /\ plans[i].began <= Len(docs)
    /\ Known(plans[i].doc, plans[i].began) => plans[i].recommendation = "hold_for_duplicate_review"
DocInv == DocTyped /\ BegunIsKnown /\ PlannedIsHeld

LEMMA DocStart == DocumentsInit => DocInv
  BY DEF DocumentsInit, DocInv, DocTyped, BegunIsKnown, PlannedIsHeld, NoDoc

\* Documents are appended: what was stored first is stored first still.
LEMMA DocsGrow ==
  ASSUME DocTyped, NEW doc \in Invoice, docs' = Remembered(doc)
  PROVE  docs' \in Seq(Invoice) /\ Len(docs) <= Len(docs') /\ \A k \in 1..Len(docs) : docs'[k] = docs[k]
  BY DEF DocTyped, Remembered

LEMMA KnownStays ==
  ASSUME DocTyped, docs' \in Seq(Invoice), \A k \in 1..Len(docs) : docs'[k] = docs[k],
         NEW doc, NEW began \in Nat, began <= Len(docs)
  PROVE  Known(doc, began)' <=> Known(doc, began)
  <1>1. Len(docs) \in Nat
    BY DEF DocTyped
  <1>2. \A k \in 1..began : k \in 1..Len(docs)
    BY <1>1
  <1>3. QED BY <1>2 DEF Known

\* A clerk's memory moves on, over documents that only grow.
LEMMA ClerkMoves ==
  ASSUME DocInv, NEW w \in DocClerk, NEW m \in DocMemory \union {NoDoc}, dclerk' = [dclerk EXCEPT ![w] = m],
         docs' \in Seq(Invoice), Len(docs) <= Len(docs'), \A k \in 1..Len(docs) : docs'[k] = docs[k],
         m.pc # "idle" => m.began <= Len(docs) /\ (Known(m.doc, m.began) => m.duplicate),
         plans' = plans
  PROVE  DocInv'
  <1>t. DocTyped /\ Len(docs) \in Nat /\ Len(docs') \in Nat
    BY DEF DocInv, DocTyped
  <1>1. dclerk' \in [DocClerk -> DocMemory \union {NoDoc}] /\ dclerk'[w] = m
        /\ \A v \in DocClerk \ {w} : dclerk'[v] = dclerk[v]
    BY <1>t DEF DocTyped
  <1>2. \A v \in DocClerk : dclerk'[v].pc # "idle" =>
          dclerk'[v] \in DocMemory /\ dclerk'[v].began <= Len(docs)
          /\ (Known(dclerk'[v].doc, dclerk'[v].began) => dclerk'[v].duplicate)
    BY <1>1 DEF DocInv, BegunIsKnown, NoDoc
  <1>3. BegunIsKnown'
    <2> SUFFICES ASSUME NEW v \in DocClerk, dclerk'[v].pc # "idle"
                 PROVE  dclerk'[v].began <= Len(docs') /\ (Known(dclerk[v].doc, dclerk[v].began)' => dclerk'[v].duplicate)
      BY DEF BegunIsKnown
    <2>1. PICK doc, began : doc = dclerk'[v].doc /\ began = dclerk'[v].began
      OBVIOUS
    <2>2. began \in Nat /\ began <= Len(docs)
      BY <1>2, <2>1 DEF DocMemory
    <2>3. (\E k \in 1..began : docs'[k].number = doc.number) <=> Known(doc, began)
      BY <1>t, <2>2, KnownStays DEF Known
    <2>4. began <= Len(docs')
      BY <1>t, <2>2
    <2>5. QED BY <1>2, <2>1, <2>3, <2>4 DEF Known
  <1>4. PlannedIsHeld'
    <2> SUFFICES ASSUME NEW i \in DOMAIN plans
                 PROVE  /\ plans[i].began <= Len(docs')
                        /\ (\E k \in 1..plans[i].began : docs'[k].number = plans[i].doc.number) =>
                             plans[i].recommendation = "hold_for_duplicate_review"
      BY DEF PlannedIsHeld, Known
    <2>r. plans[i] \in RecordedPlan
      BY <1>t DEF DocTyped
    <2>1. plans[i].began \in Nat /\ plans[i].began <= Len(docs)
      BY <2>r DEF RecordedPlan, DocInv, PlannedIsHeld
    <2>2. \A k \in 1..plans[i].began : docs'[k] = docs[k]
      BY <1>t, <2>1
    <2>3. QED BY <1>t, <2>1, <2>2 DEF DocInv, PlannedIsHeld, Known
  <1>5. DocTyped'
    BY <1>t, <1>1 DEF DocTyped
  <1>6. QED BY <1>3, <1>4, <1>5 DEF DocInv

LEMMA PlanBegins ==
  ASSUME DocInv, NEW w \in DocClerk, NEW doc \in Invoice, NEW order \in Paper \union {NoPaper},
         NEW delivery \in Paper \union {NoPaper}, NEW t \in {Tolerance} \union Tolerances,
         StartPlan(w, doc, <<order, delivery>>, t)
  PROVE  DocInv'
  <1>1. PICK m : m = [pc |-> "history", doc |-> doc, began |-> Len(docs), tolerance |-> t,
                      matched |-> Match(doc, <<order, delivery>>, t), duplicate |-> Stored(doc) # {}, material |-> FALSE]
    OBVIOUS
  <1>2. Match(doc, <<order, delivery>>, t) \in {"incomplete", "mismatch", "matched", "partial"}
    BY DEF Match
  <1>3. docs \in Seq(Invoice) /\ Len(docs) \in Nat
    BY DEF DocInv, DocTyped
  <1>4. m \in DocMemory /\ m.began = Len(docs) /\ m.doc = doc /\ (m.duplicate <=> Stored(doc) # {})
    BY <1>1, <1>2, <1>3 DEF DocMemory
  <1>5. Known(doc, Len(docs)) => Stored(doc) # {}
    <2> SUFFICES ASSUME NEW k \in 1..Len(docs), docs[k].number = doc.number PROVE Stored(doc) # {}
      BY DEF Known
    <2>1. docs[k] \in Stored(doc)
      BY <1>3 DEF Stored, ToSet, DocumentKey
    <2>2. QED BY <2>1
  <1>6. dclerk' = [dclerk EXCEPT ![w] = m] /\ UNCHANGED <<docs, plans>>
    BY <1>1 DEF StartPlan, DocGo
  <1>7. docs' \in Seq(Invoice) /\ Len(docs) <= Len(docs') /\ \A k \in 1..Len(docs) : docs'[k] = docs[k]
    BY <1>3, <1>6
  <1>8. m.began <= Len(docs) /\ (Known(m.doc, m.began) => m.duplicate)
    BY <1>3, <1>4, <1>5
  <1>9. QED BY <1>4, <1>6, <1>7, <1>8, ClerkMoves

\* The reads and the write of the documents in a plan: what it knew of the number stands.
LEMMA PlanGoesOn ==
  ASSUME DocInv, NEW w \in DocClerk, ReadHistory(w) \/ ReadOriginal(w) \/ RememberPlanned(w)
  PROVE  DocInv'
  <1>1. dclerk[w] \in DocMemory /\ docs \in Seq(Invoice) /\ Len(docs) \in Nat
    BY DEF DocInv, DocTyped, NoDoc, ReadHistory, ReadOriginal, RememberPlanned
  <1>2. PICK old : old = dclerk[w]
    OBVIOUS
  <1>3. old \in DocMemory /\ old.began <= Len(docs) /\ (Known(old.doc, old.began) => old.duplicate) /\ old.pc # "idle"
    BY <1>1, <1>2 DEF DocInv, BegunIsKnown, DocMemory
  <1>4. PICK m : dclerk' = [dclerk EXCEPT ![w] = m] /\
          \/ \E material \in BOOLEAN, pc \in {"altered", "remember"} : m = [old EXCEPT !.pc = pc, !.material = material]
          \/ m = [old EXCEPT !.pc = "record"]
    <2>1. CASE ReadHistory(w)
      <3>1. PICK material : material = (Outlier(old.doc, Prior(old.doc)) \/ AccountChanged(old.doc, Prior(old.doc)))
        OBVIOUS
      <3>2. material \in BOOLEAN
        BY <3>1
      <3>3. dclerk' = [dclerk EXCEPT ![w] = [old EXCEPT !.pc = "altered", !.material = material]]
        BY <1>2, <2>1, <3>1 DEF ReadHistory, DocGo
      <3>4. QED BY <3>2, <3>3
    <2>2. CASE ReadOriginal(w)
      <3>1. PICK material : material = (old.material \/ Altered(old.doc))
        OBVIOUS
      <3>2. material \in BOOLEAN
        BY <3>1
      <3>3. dclerk' = [dclerk EXCEPT ![w] = [old EXCEPT !.pc = "remember", !.material = material]]
        BY <1>2, <2>2, <3>1 DEF ReadOriginal, DocGo
      <3>4. QED BY <3>2, <3>3
    <2>3. CASE RememberPlanned(w)
      BY <1>2, <2>3 DEF RememberPlanned, DocGo
    <2>4. QED BY <2>1, <2>2, <2>3
  <1>5. m \in DocMemory /\ m.doc = old.doc /\ m.began = old.began /\ (m.duplicate <=> old.duplicate)
    BY <1>3, <1>4 DEF DocMemory
  <1>6. docs' \in Seq(Invoice) /\ Len(docs) <= Len(docs') /\ \A k \in 1..Len(docs) : docs'[k] = docs[k]
    <2>1. CASE RememberPlanned(w)
      <3>1. docs' = Remembered(old.doc) /\ old.doc \in Invoice
        BY <1>2, <1>3, <2>1 DEF RememberPlanned, DocMemory
      <3>2. QED BY <3>1, DocsGrow DEF DocInv
    <2>2. CASE ReadHistory(w) \/ ReadOriginal(w)
      BY <1>1, <2>2 DEF ReadHistory, ReadOriginal
    <2>3. QED BY <2>1, <2>2
  <1>7. plans' = plans
    BY DEF ReadHistory, ReadOriginal, RememberPlanned
  <1>8. QED BY <1>3, <1>4, <1>5, <1>6, <1>7, ClerkMoves

LEMMA PlanRecorded == ASSUME DocInv, NEW w \in DocClerk, RecordPlan(w) PROVE DocInv'
  <1>1. dclerk[w] \in DocMemory /\ docs \in Seq(Invoice) /\ plans \in Seq(RecordedPlan)
    BY DEF DocInv, DocTyped, NoDoc, RecordPlan
  <1>2. PICK m : m = dclerk[w]
    OBVIOUS
  <1>3. /\ m \in DocMemory /\ m.began <= Len(docs) /\ (Known(m.doc, m.began) => m.duplicate)
    BY <1>1, <1>2 DEF DocInv, BegunIsKnown, DocMemory
  <1>4. PICK plan : plan = [doc |-> m.doc, tolerance |-> m.tolerance, began |-> m.began, recommendation |-> Recommendation(m)]
    OBVIOUS
  <1>5. /\ plan \in RecordedPlan /\ plan.doc = m.doc /\ plan.began = m.began
        /\ m.duplicate => plan.recommendation = "hold_for_duplicate_review"
    <2>1. Recommendation(m) \in {"hold_for_duplicate_review", "hold_for_mismatch_review", "attach_missing_document",
                                 "review_fraud_signals", "ready_for_approval"}
      BY DEF Recommendation
    <2>2. m.duplicate => Recommendation(m) = "hold_for_duplicate_review"
      BY DEF Recommendation
    <2>3. QED BY <1>3, <1>4, <2>1, <2>2 DEF DocMemory, RecordedPlan
  <1>6. plans' = Append(plans, plan) /\ docs' = docs /\ dclerk' = [dclerk EXCEPT ![w] = NoDoc]
    BY <1>2, <1>4 DEF RecordPlan, DocGo
  <1>7. plans' \in Seq(RecordedPlan) /\ \A i \in DOMAIN plans' : (i \in DOMAIN plans /\ plans'[i] = plans[i]) \/ plans'[i] = plan
    BY <1>1, <1>5, <1>6
  <1>8. PlannedIsHeld'
    <2> SUFFICES ASSUME NEW i \in DOMAIN plans'
                 PROVE  /\ plans'[i].began <= Len(docs)
                        /\ Known(plans'[i].doc, plans'[i].began) => plans'[i].recommendation = "hold_for_duplicate_review"
      BY <1>6 DEF PlannedIsHeld, Known
    <2>1. CASE i \in DOMAIN plans /\ plans'[i] = plans[i]
      BY <2>1 DEF DocInv, PlannedIsHeld
    <2>2. CASE plans'[i] = plan
      BY <1>3, <1>5, <2>2
    <2>3. QED BY <1>7, <2>1, <2>2
  <1>9. BegunIsKnown' /\ DocTyped'
    <2>1. /\ dclerk' \in [DocClerk -> DocMemory \union {NoDoc}] /\ dclerk'[w] = NoDoc
          /\ \A v \in DocClerk \ {w} : dclerk'[v] = dclerk[v]
      BY <1>6 DEF DocInv, DocTyped
    <2>2. QED BY <1>1, <1>6, <1>7, <2>1 DEF DocInv, BegunIsKnown, DocTyped, NoDoc, Known
  <1>10. QED BY <1>8, <1>9 DEF DocInv

LEMMA DocStays == DocInv /\ [DocumentsNext]_docVars => DocInv'
  <1> SUFFICES ASSUME DocInv, [DocumentsNext]_docVars PROVE DocInv'
    OBVIOUS
  <1>t. docs \in Seq(Invoice) /\ Len(docs) \in Nat
    BY DEF DocInv, DocTyped
  <1>1. CASE UNCHANGED docVars
    BY <1>1 DEF docVars, DocInv, DocTyped, BegunIsKnown, PlannedIsHeld, Known
  <1>2. ASSUME NEW w \in DocClerk, NEW doc \in Invoice, ParseDocument(w, doc) PROVE DocInv'
    <2>1. PICK m : m = dclerk[w]
      OBVIOUS
    <2>2. m \in DocMemory \union {NoDoc} /\ m.pc = "idle" /\ dclerk' = [dclerk EXCEPT ![w] = m] /\ plans' = plans
      BY <1>2, <2>1 DEF ParseDocument, DocInv, DocTyped
    <2>3. docs' \in Seq(Invoice) /\ Len(docs) <= Len(docs') /\ \A k \in 1..Len(docs) : docs'[k] = docs[k]
      BY <1>2, DocsGrow DEF ParseDocument, DocInv
    <2>4. QED BY <2>2, <2>3, ClerkMoves
  <1>3. ASSUME NEW w \in DocClerk, PlanAbandoned(w) PROVE DocInv'
    <2>1. dclerk' = [dclerk EXCEPT ![w] = NoDoc] /\ UNCHANGED <<docs, plans>> /\ NoDoc.pc = "idle"
      BY <1>3 DEF PlanAbandoned, DocGo, NoDoc
    <2>2. docs' \in Seq(Invoice) /\ Len(docs) <= Len(docs') /\ \A k \in 1..Len(docs) : docs'[k] = docs[k]
      BY <1>t, <2>1
    <2>3. QED BY <2>1, <2>2, ClerkMoves
  <1>4. QED BY <1>1, <1>2, <1>3, PlanBegins, PlanGoesOn, PlanRecorded DEF DocumentsNext

\* A plan begun when its supplier's number was stored is held, for any number of documents,
\* clerks and plans and any tolerances.
THEOREM RepeatsAreHeld == DocumentsSpec => []DuplicatesAreHeld
  <1>1. DocInv => DuplicatesAreHeld
    BY DEF DocInv, PlannedIsHeld, Known, DuplicatesAreHeld
  <1>2. QED BY <1>1, DocStart, DocStays, PTL DEF DocumentsSpec

(***************************************************************************)
(* Synchronisation: what the copy holds, read off the cursor.                   *)
(***************************************************************************)

LEMMA LargestOfNat ==
  ASSUME NEW N \in Nat, NEW S, S \subseteq 0..N, S # {} PROVE Max(S) \in S /\ \A y \in S : y <= Max(S)
  <1>1. PICK T : T = {N - x : x \in S}
    OBVIOUS
  <1>a. \A x \in S : N - x \in Nat
    OBVIOUS
  <1>2. T \subseteq Nat /\ T # {}
    BY <1>1, <1>a
  <1>3. PICK R : R = OpToRel(<, Nat)
    OBVIOUS
  <1>4. IsWellFoundedOn(R, Nat)
    BY <1>3, NatLessThanWellFounded
  <1>5. PICK t \in T : \A y \in T : <<y, t>> \notin R
    BY <1>2, <1>4, WFMin
  <1>6. \A y \in T : ~(y < t)
    BY <1>2, <1>3, <1>5 DEF OpToRel
  <1>7. PICK x \in S : t = N - x
    BY <1>1, <1>5
  <1>8. \A y \in S : x >= y
    BY <1>1, <1>6, <1>7
  <1>9. Max(S) \in S /\ \A y \in S : Max(S) >= y
    BY <1>8, Zenon DEF Max
  <1>10. QED BY <1>9

SyncCursor == [phase : {"start", "snapshot", "delta"}, anchor : Nat, page : Nat]
DriveState == [content : [Object -> Content \union {0}], log : Seq(Object)]
Mirror == [Object -> Content \union {0}]
Items == UNION {[S -> Content \union {0}] : S \in SUBSET Object}

\* From here on the log is unread; these are the objects the rest of it names.
UnreadFrom(k) == IF k.phase = "delta" /\ k.page # 0 THEN k.page ELSE k.anchor
Behind(k, d) == {d.log[i] : i \in (UnreadFrom(k) + 1)..Len(d.log)}
\* The objects the listing has passed.
Passed(k) == {o \in Object : k.phase = "delta" \/ (k.phase = "snapshot" /\ o <= k.page)}

\* What a mirror promises at a cursor: what was passed and is not behind is as it is in the Drive;
\* what was not passed is not there yet.
Sound(c, k, d) ==
  /\ UnreadFrom(k) <= Len(d.log) /\ (k.phase = "start" => k.page = 0)
  /\ \A o \in Passed(k) \ Behind(k, d) : c[o] = d.content[o]
  /\ \A o \in Object \ Passed(k) : c[o] = 0

Merged(c, items) == [o \in Object |-> IF o \in DOMAIN items THEN items[o] ELSE c[o]]

LEMMA StartsEmpty == ASSUME NEW d \in DriveState, NEW c \in Mirror, \A o \in Object : c[o] = 0 PROVE Sound(c, StartCursor, d)
  BY DEF Sound, StartCursor, UnreadFrom, Passed, DriveState

\* An object that changes joins the unread.
LEMMA ChangesAreUnread ==
  ASSUME NEW d \in DriveState, NEW c, NEW k \in SyncCursor, Sound(c, k, d), NEW o \in Object, NEW v \in Content \union {0},
         NEW e, e = [content |-> [d.content EXCEPT ![o] = v], log |-> Append(d.log, o)]
  PROVE  e \in DriveState /\ Sound(c, k, e)
  <1>1. PICK n : n = Len(d.log)
    OBVIOUS
  <1>2. n \in Nat /\ d.log \in Seq(Object) /\ d.content \in [Object -> Content \union {0}]
    BY <1>1 DEF DriveState
  <1>3. e.log = Append(d.log, o) /\ e.content = [d.content EXCEPT ![o] = v]
    OBVIOUS
  <1>4. e.log \in Seq(Object) /\ Len(e.log) = n + 1 /\ e.log[n + 1] = o /\ \A i \in 1..n : e.log[i] = d.log[i]
    BY <1>1, <1>2, <1>3
  <1>5. e \in DriveState
    BY <1>2, <1>3, <1>4 DEF DriveState
  <1>6. PICK from : from = UnreadFrom(k)
    OBVIOUS
  <1>7. from \in Nat /\ from <= n
    BY <1>1, <1>6 DEF UnreadFrom, SyncCursor, Sound
  <1>8. Behind(k, e) = Behind(k, d) \union {o}
    <2>1. ASSUME NEW i \in (from + 1)..Len(e.log) PROVE e.log[i] \in Behind(k, d) \union {o}
      <3>1. CASE i = n + 1
        BY <1>4, <3>1
      <3>2. CASE i # n + 1
        <4>1. i \in (from + 1)..n /\ i \in 1..n
          BY <1>2, <1>4, <1>7, <3>2
        <4>2. e.log[i] = d.log[i]
          BY <1>4, <4>1
        <4>3. QED BY <1>1, <1>6, <4>1, <4>2 DEF Behind
      <3>3. QED BY <3>1, <3>2
    <2>2. ASSUME NEW i \in (from + 1)..n PROVE d.log[i] \in Behind(k, e)
      <3>1. i \in 1..n /\ i \in (from + 1)..Len(e.log)
        BY <1>2, <1>4, <1>7
      <3>2. QED BY <1>4, <1>6, <3>1 DEF Behind
    <2>3. o \in Behind(k, e)
      <3>1. n + 1 \in (from + 1)..Len(e.log)
        BY <1>2, <1>4, <1>7
      <3>2. QED BY <1>4, <1>6, <3>1 DEF Behind
    <2>4. Behind(k, e) = {e.log[i] : i \in (from + 1)..Len(e.log)} /\ Behind(k, d) = {d.log[i] : i \in (from + 1)..n}
      BY <1>1, <1>6 DEF Behind
    <2>5. \A x \in Behind(k, e) : x \in Behind(k, d) \union {o}
      BY <2>1, <2>4
    <2>6. \A x \in Behind(k, d) : x \in Behind(k, e)
      BY <2>2, <2>4
    <2>7. QED BY <2>3, <2>5, <2>6
  <1>9. \A q \in Object \ {o} : e.content[q] = d.content[q]
    BY <1>2, <1>3
  <1>10. UnreadFrom(k) <= Len(e.log) /\ (k.phase = "start" => k.page = 0)
    BY <1>2, <1>4, <1>6, <1>7 DEF Sound
  <1>11. \A q \in Passed(k) \ Behind(k, e) : c[q] = e.content[q]
    <2> SUFFICES ASSUME NEW q \in Passed(k) \ Behind(k, e) PROVE c[q] = e.content[q]
      OBVIOUS
    <2>1. q \in Object /\ q # o /\ q \in Passed(k) \ Behind(k, d)
      BY <1>8 DEF Passed
    <2>2. c[q] = d.content[q]
      BY <2>1 DEF Sound
    <2>3. QED BY <1>9, <2>1, <2>2
  <1>12. \A q \in Object \ Passed(k) : c[q] = 0
    BY DEF Sound
  <1>13. QED BY <1>5, <1>10, <1>11, <1>12 DEF Sound

LEMMA PartOfLog ==
  ASSUME NEW s \in Seq(Object), NEW m \in Nat, NEW n \in Nat, n <= Len(s)
  PROVE  ToSet(SubSeq(s, m + 1, n)) = {s[i] : i \in (m + 1)..n}
  <1>1. PICK part : part = SubSeq(s, m + 1, n)
    OBVIOUS
  <1>2. CASE n <= m
    <2>1. part = << >>
      BY <1>1, <1>2
    <2>2. ToSet(part) = {}
      BY <2>1 DEF ToSet
    <2>3. QED BY <1>1, <1>2, <2>2
  <1>3. CASE m < n
    <2>1. Len(part) = n - m /\ DOMAIN part = 1..(n - m) /\ \A i \in 1..(n - m) : part[i] = s[m + i]
      BY <1>1, <1>3
    <2>2. ASSUME NEW x \in ToSet(part) PROVE x \in {s[i] : i \in (m + 1)..n}
      <3>1. PICK i \in 1..(n - m) : x = part[i]
        BY <2>1 DEF ToSet
      <3>2. m + i \in (m + 1)..n /\ x = s[m + i]
        BY <2>1, <3>1
      <3>3. QED BY <3>2
    <2>3. ASSUME NEW i \in (m + 1)..n PROVE s[i] \in ToSet(part)
      <3>1. i - m \in 1..(n - m) /\ part[i - m] = s[m + (i - m)] /\ m + (i - m) = i
        BY <2>1
      <3>2. QED BY <2>1, <3>1 DEF ToSet
    <2>4. QED BY <1>1, <2>2, <2>3
  <1>4. QED BY <1>2, <1>3

LEMMA MergedIsAMirror ==
  ASSUME NEW c \in Mirror, NEW items \in Items
  PROVE  /\ Merged(c, items) \in Mirror /\ DOMAIN items \subseteq Object
         /\ \A o \in Object : Merged(c, items)[o] = IF o \in DOMAIN items THEN items[o] ELSE c[o]
  <1>1. PICK S \in SUBSET Object : items \in [S -> Content \union {0}]
    BY DEF Items
  <1>2. QED BY <1>1 DEF Merged, Mirror

LEMMA ItemsOf ==
  ASSUME NEW d \in DriveState, NEW S \in SUBSET Object, NEW items, items = [o \in S |-> d.content[o]]
  PROVE  items \in Items /\ DOMAIN items = S /\ \A o \in S : items[o] = d.content[o]
  <1>1. items \in [S -> Content \union {0}]
    BY DEF DriveState
  <1>2. QED BY <1>1 DEF Items

LEMMA LesserOfTwo ==
  ASSUME NEW x \in Int, NEW y \in Int PROVE Min({x, y}) \in {x, y} /\ Min({x, y}) <= x /\ Min({x, y}) <= y
  <1>1. PICK S : S = {x, y}
    OBVIOUS
  <1>2. \E w \in S : \A v \in S : w <= v
    BY <1>1
  <1>3. Min(S) \in S /\ \A v \in S : Min(S) <= v
    BY <1>2, Zenon DEF Min
  <1>4. QED BY <1>1, <1>3

\* What is there past a page, and what of it the next page takes.
ThereAfter(d, k) == {o \in Object : o > k.page /\ d.content[o] # 0}
NextListed(there) == {o \in there : Cardinality({q \in there : q < o}) < SyncPage}

\* What a page of the listing takes is not empty unless nothing is left, and has no gap.
LEMMA ListedInOrder ==
  ASSUME NEW d, NEW k, NEW there, there = ThereAfter(d, k), NEW listed, listed = NextListed(there), listed # there,
         NEW last, last = Max(listed)
  PROVE  /\ last \in listed /\ last \in Nat /\ last > k.page
         /\ \A o \in listed : o <= last
         /\ \A o \in there : o <= last => o \in listed
  <1>a. there \subseteq Object /\ listed \subseteq there /\ there # {} /\ Object \subseteq Nat /\ Object \subseteq 0..LastObject
    BY SyncAssumption DEF Object, ThereAfter, NextListed
  <1>1. listed # {}
    <2>1. there # {} /\ there \subseteq 0..LastObject
      BY <1>a
    <2>2. PICK R : R = OpToRel(<, Nat)
      OBVIOUS
    <2>3. there \subseteq Nat
      BY <1>a
    <2>4. PICK o \in there : \A q \in there : <<q, o>> \notin R
      BY <2>1, <2>2, <2>3, NatLessThanWellFounded, WFMin
    <2>5. {q \in there : q < o} = {}
      BY <2>2, <2>3, <2>4 DEF OpToRel
    <2>6. Cardinality({}) = 0
      BY FS_EmptySet
    <2>7. o \in listed
      BY <2>5, <2>6, SyncAssumption DEF NextListed
    <2>8. QED BY <2>7
  <1>3. last \in listed /\ \A o \in listed : o <= last
    <2>1. listed \subseteq 0..LastObject /\ LastObject \in Nat
      BY <1>a, SyncAssumption
    <2>2. QED BY <1>1, <2>1, LargestOfNat
  <1>4. last \in Object /\ last \in Nat /\ last > k.page
    BY <1>a, <1>3 DEF ThereAfter
  <1>5. \A o \in there : o <= last => o \in listed
    <2> SUFFICES ASSUME NEW o \in there, o <= last PROVE o \in listed
      OBVIOUS
    <2>1. PICK A, B : A = {q \in there : q < o} /\ B = {q \in there : q < last}
      OBVIOUS
    <2>2. A \subseteq B
      <3>1. \A q \in there : q \in Nat
        BY <1>a
      <3>2. \A q \in there : q < o => q < last
        BY <1>4, <3>1
      <3>3. QED BY <2>1, <3>2
    <2>3. IsFiniteSet(Object)
      BY FS_Interval, SyncAssumption DEF Object
    <2>4. IsFiniteSet(B) /\ B \subseteq Object
      BY <1>a, <2>1, <2>3, FS_Subset
    <2>5. Cardinality(A) <= Cardinality(B) /\ Cardinality(A) \in Nat /\ Cardinality(B) \in Nat
      BY <2>2, <2>4, FS_Subset, FS_CardinalityType
    <2>6. Cardinality(B) < SyncPage
      BY <1>3, <2>1 DEF NextListed
    <2>7. Cardinality(A) < SyncPage
      BY <2>5, <2>6, SyncAssumption DEF NextListed
    <2>8. QED BY <2>1, <2>7 DEF NextListed
  <1>6. QED BY <1>3, <1>4, <1>5

\* Whatever the cursor, a page has items of the Drive and a cursor to go on from.
LEMMA FetchedIsAPage ==
  ASSUME NEW d \in DriveState, NEW k \in SyncCursor, NEW page, page = FetchedPage(d, k)
  PROVE  page.items \in Items /\ page.next \in SyncCursor
  <1>1. CASE k.phase = "start"
    <2>1. PICK n : n = Len(d.log)
      OBVIOUS
    <2>2. n \in Nat
      BY <2>1 DEF DriveState
    <2>3. PICK next, items, S : next = [k EXCEPT !.phase = "snapshot", !.anchor = n] /\ items = [o \in {} |-> 0] /\ S = {}
      OBVIOUS
    <2>4. page.next = next /\ page.items = items
      BY <1>1, <2>1, <2>3 DEF FetchedPage
    <2>5. next \in SyncCursor
      BY <2>2, <2>3 DEF SyncCursor
    <2>6. items \in [S -> Content \union {0}] /\ S \in SUBSET Object
      BY <2>3
    <2>7. items \in Items
      BY <2>6 DEF Items
    <2>8. QED BY <2>4, <2>5, <2>7
  <1>2. CASE k.phase = "snapshot"
    <2>1. PICK there : there = {o \in Object : o > k.page /\ d.content[o] # 0}
      OBVIOUS
    <2>2. PICK listed : listed = {o \in there : Cardinality({q \in there : q < o}) < SyncPage}
      OBVIOUS
    <2>3. PICK items, last : items = [o \in listed |-> d.content[o]] /\ last = Max(listed)
      OBVIOUS
    <2>4. listed \in SUBSET Object
      BY <2>1, <2>2
    <2>5. items \in Items
      BY <2>3, <2>4, ItemsOf
    <2>6. PICK next : next = IF listed = there THEN [k EXCEPT !.phase = "delta", !.page = 0] ELSE [k EXCEPT !.page = last]
      OBVIOUS
    <2>7. page.items = items /\ page.next = next
      BY <1>2, <2>1, <2>2, <2>3, <2>6 DEF FetchedPage, ListPage
    <2>a. there = ThereAfter(d, k) /\ listed = NextListed(there) /\ last = Max(listed)
      BY <2>1, <2>2, <2>3 DEF ThereAfter, NextListed
    <2>8. listed # there => last \in Nat
      BY <2>a, ListedInOrder
    <2>9. next \in SyncCursor
      BY <2>6, <2>8 DEF SyncCursor
    <2>10. QED BY <2>5, <2>7, <2>9
  <1>3. CASE k.phase = "delta"
    <2>1. PICK from, n : from = UnreadFrom(k) /\ n = Len(d.log)
      OBVIOUS
    <2>2. from \in Nat /\ n \in Nat /\ d.log \in Seq(Object)
      BY <2>1 DEF UnreadFrom, SyncCursor, DriveState
    <2>3. PICK ahead, to : ahead = from + SyncPage /\ to = Min({ahead, n})
      OBVIOUS
    <2>4. ahead \in Nat
      BY <2>2, <2>3, SyncAssumption
    <2>b. ahead \in Int /\ n \in Int /\ to = Min({ahead, n})
      BY <2>2, <2>3, <2>4
    <2>c. to \in {ahead, n} /\ to <= ahead /\ to <= n
      BY <2>b, LesserOfTwo
    <2>5. to \in Nat /\ to <= n
      BY <2>2, <2>4, <2>c
    <2>6. PICK changed : changed = {d.log[i] : i \in (from + 1)..to}
      OBVIOUS
    <2>7. ToSet(SubSeq(d.log, from + 1, to)) = changed
      BY <2>1, <2>2, <2>5, <2>6, PartOfLog
    <2>8. changed \in SUBSET Object
      BY <2>1, <2>2, <2>5, <2>6
    <2>9. PICK items : items = [o \in changed |-> d.content[o]]
      OBVIOUS
    <2>10. items \in Items
      BY <2>8, <2>9, ItemsOf
    <2>11. PICK next : next = IF to < n THEN [k EXCEPT !.page = to] ELSE [k EXCEPT !.page = 0, !.anchor = to]
      OBVIOUS
    <2>12. page.items = items /\ page.next = next
      BY <1>3, <2>1, <2>3, <2>7, <2>9, <2>11 DEF FetchedPage, LogPage, UnreadFrom
    <2>13. next \in SyncCursor
      BY <2>5, <2>11 DEF SyncCursor
    <2>14. QED BY <2>10, <2>12, <2>13
  <1>4. QED BY <1>1, <1>2, <1>3 DEF SyncCursor

\* A page of the listing: it takes the next objects that are there, in order and without a gap.
LEMMA ListingIsSound ==
  ASSUME NEW d \in DriveState, NEW c \in Mirror, NEW k \in SyncCursor, k.phase = "snapshot", Sound(c, k, d),
         NEW page, page = ListPage(d, k)
  PROVE  page.items \in Items /\ page.next \in SyncCursor /\ Sound(Merged(c, page.items), page.next, d)
  <1>1. PICK there : there = {o \in Object : o > k.page /\ d.content[o] # 0}
    OBVIOUS
  <1>2. PICK listed : listed = {o \in there : Cardinality({q \in there : q < o}) < SyncPage}
    OBVIOUS
  <1>3. there \in SUBSET Object /\ listed \in SUBSET Object /\ listed \subseteq there /\ Object \subseteq Nat /\ Object \subseteq 0..LastObject
    BY <1>1, <1>2, SyncAssumption DEF Object
  <1>4. PICK items : items = [o \in listed |-> d.content[o]]
    OBVIOUS
  <1>5. items \in Items /\ DOMAIN items = listed /\ \A o \in listed : items[o] = d.content[o]
    BY <1>3, <1>4, ItemsOf
  <1>6. PICK next : next = IF listed = there THEN [k EXCEPT !.phase = "delta", !.page = 0] ELSE [k EXCEPT !.page = Max(listed)]
    OBVIOUS
  <1>7. page.items = items /\ page.next = next
    BY <1>1, <1>2, <1>4, <1>6 DEF ListPage
  <1>8. PICK m : m = Merged(c, items)
    OBVIOUS
  <1>9. \A o \in Object : m[o] = IF o \in listed THEN d.content[o] ELSE c[o]
    BY <1>5, <1>8, MergedIsAMirror
  <1>10. UnreadFrom(k) = k.anchor /\ k.anchor <= Len(d.log) /\ k.anchor \in Nat /\ k.page \in Nat
    BY DEF UnreadFrom, Sound, SyncCursor
  <1>11. \A o \in Object : o <= k.page => o \in Behind(k, d) \/ c[o] = d.content[o]
    BY DEF Sound, Passed
  <1>12. \A o \in Object : o > k.page => c[o] = 0
    <2> SUFFICES ASSUME NEW o \in Object, o > k.page PROVE c[o] = 0
      OBVIOUS
    <2>1. o \in Nat /\ ~(o <= k.page)
      BY <1>3, <1>10
    <2>2. o \notin Passed(k)
      BY <2>1 DEF Passed
    <2>3. QED BY <2>2 DEF Sound
  <1>13. CASE listed = there
    <2>1. next = [k EXCEPT !.phase = "delta", !.page = 0]
      BY <1>6, <1>13
    <2>2. next \in SyncCursor /\ next.phase = "delta" /\ next.page = 0 /\ next.anchor = k.anchor
      BY <2>1 DEF SyncCursor
    <2>3. UnreadFrom(next) = k.anchor
      BY <2>2 DEF UnreadFrom
    <2>4. Behind(next, d) = Behind(k, d) /\ Passed(next) = Object
      BY <1>10, <2>2, <2>3 DEF Behind, Passed
    <2>5. ASSUME NEW o \in Object, o \notin Behind(k, d) PROVE m[o] = d.content[o]
      <3>1. CASE o \in listed
        BY <1>9, <3>1
      <3>2. CASE o \notin listed
        <4>1. m[o] = c[o]
          BY <1>9, <3>2
        <4>2. CASE o <= k.page
          BY <1>11, <2>5, <4>1, <4>2
        <4>3. CASE o > k.page
          BY <1>1, <1>12, <1>13, <3>2, <4>1, <4>3
        <4>4. QED BY <1>3, <1>10, <4>2, <4>3
      <3>3. QED BY <3>1, <3>2
    <2>6. Sound(m, next, d)
      BY <1>10, <2>2, <2>3, <2>4, <2>5 DEF Sound
    <2>7. QED BY <1>5, <1>7, <1>8, <2>2, <2>6
  <1>14. CASE listed # there
    <2>1. PICK last : last = Max(listed)
      OBVIOUS
    <2>2. last \in listed /\ last \in Nat /\ last > k.page /\ (\A o \in listed : o <= last) /\ \A o \in there : o <= last => o \in listed
      <3>1. there = ThereAfter(d, k) /\ listed = NextListed(there)
        BY <1>1, <1>2 DEF ThereAfter, NextListed
      <3>2. QED BY <1>14, <2>1, <3>1, ListedInOrder
    <2>3. last \in listed /\ \A o \in listed : o <= last
      BY <2>2
    <2>4. last \in Object /\ last \in Nat /\ last > k.page
      BY <1>3, <2>2
    <2>5. \A o \in there : o <= last => o \in listed
      BY <2>2
    <2>6. next = [k EXCEPT !.page = last]
      BY <1>6, <1>14, <2>1
    <2>7. next \in SyncCursor /\ next.phase = "snapshot" /\ next.page = last /\ next.anchor = k.anchor
      BY <2>4, <2>6 DEF SyncCursor
    <2>8. UnreadFrom(next) = k.anchor
      BY <2>7 DEF UnreadFrom
    <2>9. Behind(next, d) = Behind(k, d) /\ Passed(next) = {o \in Object : o <= last}
      BY <1>10, <2>7, <2>8 DEF Behind, Passed
    <2>10. ASSUME NEW o \in Object, o \notin Behind(k, d), o <= last PROVE m[o] = d.content[o]
      <3>1. CASE o \in listed
        BY <1>9, <3>1
      <3>2. CASE o \notin listed
        <4>1. m[o] = c[o] /\ o \notin there
          BY <1>9, <2>5, <2>10, <3>2
        <4>2. CASE o <= k.page
          BY <1>11, <2>10, <4>1, <4>2
        <4>3. CASE o > k.page
          BY <1>1, <1>12, <4>1, <4>3
        <4>4. QED BY <1>3, <1>10, <4>2, <4>3
      <3>3. QED BY <3>1, <3>2
    <2>11. ASSUME NEW o \in Object, ~(o <= last) PROVE m[o] = 0
      <3>1. o \notin listed /\ o > k.page
        BY <1>3, <1>10, <2>3, <2>4, <2>11
      <3>2. QED BY <1>9, <1>12, <3>1
    <2>12. Sound(m, next, d)
      BY <1>10, <2>7, <2>8, <2>9, <2>10, <2>11 DEF Sound
    <2>13. QED BY <1>5, <1>7, <1>8, <2>7, <2>12
  <1>15. QED BY <1>13, <1>14

\* A page of the log: what it names is read as it is now, and what was unread before it is read.
LEMMA LogIsSound ==
  ASSUME NEW d \in DriveState, NEW c \in Mirror, NEW k \in SyncCursor, k.phase = "delta", Sound(c, k, d),
         NEW page, page = LogPage(d, k)
  PROVE  page.items \in Items /\ page.next \in SyncCursor /\ Sound(Merged(c, page.items), page.next, d)
  <1>1. PICK from, n : from = UnreadFrom(k) /\ n = Len(d.log)
    OBVIOUS
  <1>2. from \in Nat /\ n \in Nat /\ from <= n /\ d.log \in Seq(Object) /\ k.page \in Nat /\ k.anchor \in Nat
    BY <1>1 DEF Sound, UnreadFrom, SyncCursor, DriveState
  <1>3. PICK ahead : ahead = from + SyncPage
    OBVIOUS
  <1>4. ahead \in Nat /\ ahead > from
    BY <1>2, <1>3, SyncAssumption
  <1>5. PICK to : to = Min({ahead, n})
    OBVIOUS
  <1>6. to \in {ahead, n} /\ to <= ahead /\ to <= n
    <2>1. ahead \in Int /\ n \in Int
      BY <1>2, <1>4
    <2>2. QED BY <1>5, <2>1, LesserOfTwo
  <1>7. to \in Nat /\ from <= to /\ (to < n => to > from)
    BY <1>2, <1>4, <1>6
  <1>8. PICK changed : changed = {d.log[i] : i \in (from + 1)..to}
    OBVIOUS
  <1>9. ToSet(SubSeq(d.log, from + 1, to)) = changed
    BY <1>1, <1>2, <1>6, <1>7, <1>8, PartOfLog
  <1>10. changed \in SUBSET Object
    BY <1>1, <1>2, <1>6, <1>7, <1>8
  <1>11. PICK items : items = [o \in changed |-> d.content[o]]
    OBVIOUS
  <1>12. items \in Items /\ DOMAIN items = changed /\ \A o \in changed : items[o] = d.content[o]
    BY <1>10, <1>11, ItemsOf
  <1>13. PICK next : next = IF to < n THEN [k EXCEPT !.page = to] ELSE [k EXCEPT !.page = 0, !.anchor = to]
    OBVIOUS
  <1>14. page.items = items /\ page.next = next
    BY <1>1, <1>3, <1>5, <1>9, <1>11, <1>13 DEF LogPage, UnreadFrom
  <1>15. next \in SyncCursor /\ next.phase = "delta" /\ UnreadFrom(next) = to
    <2>1. CASE to < n
      <3>1. next = [k EXCEPT !.page = to]
        BY <1>13, <2>1
      <3>2. QED BY <1>2, <1>7, <2>1, <3>1 DEF SyncCursor, UnreadFrom
    <2>2. CASE ~(to < n)
      <3>1. next = [k EXCEPT !.page = 0, !.anchor = to]
        BY <1>13, <2>2
      <3>2. QED BY <1>7, <3>1 DEF SyncCursor, UnreadFrom
    <2>3. QED BY <2>1, <2>2
  <1>16. PICK m : m = Merged(c, items)
    OBVIOUS
  <1>17. \A o \in Object : m[o] = IF o \in changed THEN d.content[o] ELSE c[o]
    BY <1>12, <1>16, MergedIsAMirror
  <1>18. ASSUME NEW o \in Object, o \notin Behind(next, d) PROVE m[o] = d.content[o]
    <2>1. CASE o \in changed
      BY <1>17, <2>1
    <2>2. CASE o \notin changed
      <3>1. ASSUME NEW i \in (from + 1)..n PROVE d.log[i] # o
        <4>1. i \in (from + 1)..to \/ i \in (to + 1)..n
          BY <1>2, <1>7
        <4>2. CASE i \in (from + 1)..to
          BY <1>8, <2>2, <4>2
        <4>3. CASE i \in (to + 1)..n
          BY <1>1, <1>15, <1>18, <4>3 DEF Behind
        <4>4. QED BY <4>1, <4>2, <4>3
      <3>2. o \notin Behind(k, d)
        BY <1>1, <3>1 DEF Behind
      <3>3. c[o] = d.content[o]
        BY <3>2 DEF Sound, Passed
      <3>4. QED BY <1>17, <2>2, <3>3
    <2>3. QED BY <2>1, <2>2
  <1>19. Passed(next) = Object
    BY <1>15 DEF Passed
  <1>20. Sound(m, next, d)
    BY <1>1, <1>6, <1>15, <1>18, <1>19 DEF Sound
  <1>21. QED BY <1>12, <1>14, <1>15, <1>16, <1>20

LEMMA FetchedIsSound ==
  ASSUME NEW d \in DriveState, NEW c \in Mirror, NEW k \in SyncCursor, Sound(c, k, d), NEW page, page = FetchedPage(d, k)
  PROVE  page.items \in Items /\ page.next \in SyncCursor /\ Sound(Merged(c, page.items), page.next, d)
  <1>1. CASE k.phase = "start"
    <2>1. PICK n : n = Len(d.log)
      OBVIOUS
    <2>2. n \in Nat
      BY <2>1 DEF DriveState
    <2>3. PICK next, items : next = [k EXCEPT !.phase = "snapshot", !.anchor = n] /\ items = [o \in {} |-> 0]
      OBVIOUS
    <2>4. page.next = next /\ page.items = items
      BY <1>1, <2>1, <2>3 DEF FetchedPage
    <2>5. next \in SyncCursor /\ next.phase = "snapshot" /\ next.anchor = n /\ next.page = 0
      BY <1>1, <2>2, <2>3 DEF SyncCursor, Sound
    <2>6. items \in Items /\ DOMAIN items = {}
      <3>1. PICK S : S = {}
        OBVIOUS
      <3>2. items \in [S -> Content \union {0}] /\ S \in SUBSET Object
        BY <2>3, <3>1
      <3>3. QED BY <3>1, <3>2 DEF Items
    <2>7. PICK m : m = Merged(c, items)
      OBVIOUS
    <2>8. \A o \in Object : m[o] = c[o] /\ ~(o <= 0)
      BY <2>6, <2>7, MergedIsAMirror, SyncAssumption DEF Object
    <2>9. Passed(next) = {} /\ Passed(k) = {}
      BY <1>1, <2>5, <2>8 DEF Passed
    <2>10. UnreadFrom(next) = n
      BY <2>5 DEF UnreadFrom
    <2>11. Sound(m, next, d)
      BY <2>1, <2>2, <2>5, <2>8, <2>9, <2>10 DEF Sound
    <2>12. QED BY <2>4, <2>5, <2>6, <2>7, <2>11
  <1>2. CASE k.phase = "snapshot"
    <2>1. page = ListPage(d, k)
      BY <1>2 DEF FetchedPage
    <2>2. QED BY <1>2, <2>1, ListingIsSound
  <1>3. CASE k.phase = "delta"
    <2>1. page = LogPage(d, k)
      BY <1>3 DEF FetchedPage
    <2>2. QED BY <1>3, <2>1, LogIsSound
  <1>4. QED BY <1>1, <1>2, <1>3 DEF SyncCursor

MirrorRow == [version : Nat, content : Content \union {0}]
StreamRow == [made : BOOLEAN, generation : 1..MaxAccounts, cursor : SyncCursor, revision : Nat,
              claim : Syncer \union {NoSyncer}, lapsed : BOOLEAN]
SyncCall == [pc : {"idle", "claimed", "asked", "fetched", "ending"}, cursor : SyncCursor, revision : Nat,
             generation : Nat, next : SyncCursor, items : Items]
SyncTyped ==
  /\ drive \in [1..MaxAccounts -> DriveState] /\ driveAccount \in 1..MaxAccounts
  /\ syncStream \in StreamRow /\ copy \in [Object -> MirrorRow] /\ syncer \in [Syncer -> SyncCall]

Contents(rows) == [o \in Object |-> rows[o].content]
CopySound ==
  /\ Sound(Contents(copy), syncStream.cursor, drive[syncStream.generation])
  /\ \A o \in Object : copy[o].version <= syncStream.revision
UnmadeIsFresh ==
  ~syncStream.made => syncStream.cursor = StartCursor /\ syncStream.revision = 0 /\ syncStream.claim = NoSyncer

\* The call that holds the stream has read its cursor and its revision, and nobody has moved them since; what
\* it fetched of this account would leave a sound copy.
HolderFits(w) ==
  syncStream.claim = w /\ syncer[w].pc \in {"claimed", "asked", "fetched"} =>
    /\ syncStream.made /\ syncer[w].cursor = syncStream.cursor /\ syncer[w].revision = syncStream.revision
    /\ syncer[w].pc = "fetched" /\ syncer[w].generation = syncStream.generation =>
         Sound(Merged(Contents(copy), syncer[w].items), syncer[w].next, drive[syncStream.generation])

SyncInv == SyncTyped /\ CopySound /\ UnmadeIsFresh /\ \A w \in Syncer : HolderFits(w)

LEMMA ContentsAreAMirror ==
  ASSUME NEW rows \in [Object -> MirrorRow]
  PROVE  Contents(rows) \in Mirror /\ \A o \in Object : Contents(rows)[o] = rows[o].content
  BY DEF Contents, Mirror, MirrorRow

LEMMA AwayIsACall ==
  /\ Away \in SyncCall /\ Away.pc = "idle" /\ Ending \in SyncCall /\ Ending.pc = "ending" /\ StartCursor \in SyncCursor
  <1>1. StartCursor \in SyncCursor
    BY DEF StartCursor, SyncCursor
  <1>2. PICK nothing, S : nothing = [o \in {} |-> 0] /\ S = {}
    OBVIOUS
  <1>3. nothing \in [S -> Content \union {0}] /\ S \in SUBSET Object
    BY <1>2
  <1>4. nothing \in Items
    BY <1>3 DEF Items
  <1>5. PICK start : start = StartCursor
    OBVIOUS
  <1>6. Away = [pc |-> "idle", cursor |-> start, revision |-> 0, generation |-> 0, next |-> start, items |-> nothing]
    BY <1>2, <1>5 DEF Away
  <1>7. Away \in SyncCall /\ Away.pc = "idle"
    BY <1>1, <1>4, <1>5, <1>6 DEF SyncCall
  <1>8. Ending \in SyncCall /\ Ending.pc = "ending"
    BY <1>7 DEF Ending, SyncCall
  <1>9. QED BY <1>1, <1>7, <1>8

LEMMA EmptyIsAMirror ==
  ASSUME NEW rows, rows = EmptyMirror
  PROVE  rows \in [Object -> MirrorRow] /\ Contents(rows) \in Mirror /\ \A o \in Object : rows[o].version = 0 /\ Contents(rows)[o] = 0
  <1>1. rows \in [Object -> MirrorRow] /\ \A o \in Object : rows[o].version = 0 /\ rows[o].content = 0
    BY DEF EmptyMirror, MirrorRow
  <1>2. QED BY <1>1, ContentsAreAMirror

LEMMA FreshIsARow ==
  ASSUME NEW g \in 1..MaxAccounts, NEW row, row = FreshStream(g)
  PROVE  /\ row \in StreamRow /\ row.cursor = StartCursor /\ row.revision = 0 /\ row.claim = NoSyncer /\ row.generation = g
         /\ row.made
  <1>1. PICK start : start = StartCursor
    OBVIOUS
  <1>2. start \in SyncCursor
    BY <1>1, AwayIsACall
  <1>3. row = [made |-> TRUE, generation |-> g, cursor |-> start, revision |-> 0, claim |-> NoSyncer, lapsed |-> FALSE]
    BY <1>1 DEF FreshStream
  <1>4. QED BY <1>1, <1>2, <1>3 DEF StreamRow

LEMMA SyncStarts == SyncInit => SyncInv
  <1> SUFFICES ASSUME SyncInit PROVE SyncInv
    OBVIOUS
  <1>1. 1 \in 1..MaxAccounts
    BY SyncAssumption
  <1>2. PICK fresh, row : fresh = FreshStream(1) /\ row = [fresh EXCEPT !.made = FALSE]
    OBVIOUS
  <1>3. /\ fresh \in StreamRow /\ fresh.cursor = StartCursor /\ fresh.revision = 0 /\ fresh.claim = NoSyncer
        /\ fresh.generation = 1
    BY <1>1, <1>2, FreshIsARow
  <1>4. row \in StreamRow /\ row.cursor = StartCursor /\ row.revision = 0 /\ row.claim = NoSyncer /\ row.generation = 1
    BY <1>2, <1>3 DEF StreamRow
  <1>5. syncStream = row /\ copy = EmptyMirror /\ driveAccount = 1
    BY <1>2 DEF SyncInit
  <1>6. drive \in [1..MaxAccounts -> DriveState]
    <2>1. ASSUME NEW c \in [Object -> Content \union {0}] PROVE [content |-> c, log |-> <<>>] \in DriveState
      BY DEF DriveState
    <2>2. QED BY <2>1 DEF SyncInit
  <1>7. syncer \in [Syncer -> SyncCall] /\ \A w \in Syncer : syncer[w].pc = "idle"
    BY AwayIsACall DEF SyncInit
  <1>8. SyncTyped
    BY <1>1, <1>4, <1>5, <1>6, <1>7, EmptyIsAMirror DEF SyncTyped
  <1>9. CopySound
    <2>1. PICK rows, d : rows = copy /\ d = drive[1]
      OBVIOUS
    <2>2. d \in DriveState
      BY <1>1, <1>6, <2>1
    <2>3. Contents(rows) \in Mirror /\ \A o \in Object : rows[o].version = 0 /\ Contents(rows)[o] = 0
      BY <1>5, <2>1, EmptyIsAMirror
    <2>4. Sound(Contents(rows), StartCursor, d)
      BY <2>2, <2>3, StartsEmpty
    <2>5. QED BY <1>4, <1>5, <2>1, <2>3, <2>4 DEF CopySound
  <1>10. UnmadeIsFresh
    BY <1>4, <1>5 DEF UnmadeIsFresh
  <1>11. \A w \in Syncer : HolderFits(w)
    BY <1>7 DEF HolderFits
  <1>12. QED BY <1>8, <1>9, <1>10, <1>11 DEF SyncInv

\* A call that does not hold the stream, or whose stream stands.
LEMMA HolderKeeps ==
  ASSUME SyncInv, NEW v \in Syncer, syncer'[v] = syncer[v], copy' = copy, drive' = drive,
         syncStream'.claim = v =>
           /\ syncStream.claim = v /\ syncStream'.made = syncStream.made /\ syncStream'.cursor = syncStream.cursor
           /\ syncStream'.revision = syncStream.revision /\ syncStream'.generation = syncStream.generation
  PROVE  HolderFits(v)'
  BY DEF SyncInv, HolderFits

LEMMA DriveKeeps ==
  ASSUME SyncInv, NEW o \in Object, NEW c \in Content \union {0}, DriveChanges(o, c) PROVE SyncInv'
  <1>1. PICK a, d, e, v : a = driveAccount /\ d = drive[a] /\ e = drive'[a] /\ v = c
    OBVIOUS
  <1>2. a \in 1..MaxAccounts /\ d \in DriveState
    BY <1>1 DEF SyncInv, SyncTyped
  <1>3. PICK f : f = [content |-> [d.content EXCEPT ![o] = v], log |-> Append(d.log, o)]
    OBVIOUS
  <1>4. drive' = [drive EXCEPT ![a] = f]
    BY <1>1, <1>3 DEF DriveChanges
  <1>5. drive'[a] = f /\ \A b \in 1..MaxAccounts : b # a => drive'[b] = drive[b]
    BY <1>2, <1>4 DEF SyncInv, SyncTyped
  <1>6. f \in DriveState
    <2>1. PICK m : m = [x \in Object |-> 0]
      OBVIOUS
    <2>2. d.content \in [Object -> Content \union {0}] /\ d.log \in Seq(Object)
      BY <1>2 DEF DriveState
    <2>3. Append(d.log, o) \in Seq(Object)
      BY <2>2
    <2>4. QED BY <1>1, <1>3, <2>2, <2>3 DEF DriveState
  <1>7. ASSUME NEW m, NEW k \in SyncCursor, NEW b \in 1..MaxAccounts, Sound(m, k, drive[b]) PROVE Sound(m, k, drive'[b])
    <2>1. CASE b = a
      <3>1. Sound(m, k, d) /\ v \in Content \union {0}
        BY <1>1, <1>7, <2>1
      <3>2. Sound(m, k, f)
        BY <1>2, <1>3, <3>1, ChangesAreUnread
      <3>3. QED BY <1>5, <2>1, <3>2
    <2>2. CASE b # a
      BY <1>5, <1>7, <2>2
    <2>3. QED BY <2>1, <2>2
  <1>8. UNCHANGED <<driveAccount, syncStream, copy, syncer>>
    BY DEF DriveChanges
  <1>9. SyncTyped'
    <2>1. drive' \in [1..MaxAccounts -> DriveState]
      BY <1>4, <1>6 DEF SyncInv, SyncTyped
    <2>2. QED BY <1>8, <2>1 DEF SyncInv, SyncTyped
  <1>g. syncStream.generation \in 1..MaxAccounts /\ syncStream.cursor \in SyncCursor /\ \A w \in Syncer : syncer[w].next \in SyncCursor
    BY DEF SyncInv, SyncTyped, StreamRow, SyncCall
  <1>10. CopySound'
    BY <1>7, <1>8, <1>g DEF SyncInv, CopySound
  <1>11. UnmadeIsFresh'
    BY <1>8 DEF SyncInv, UnmadeIsFresh
  <1>12. \A w \in Syncer : HolderFits(w)'
    BY <1>7, <1>8, <1>g DEF SyncInv, HolderFits
  <1>13. QED BY <1>9, <1>10, <1>11, <1>12 DEF SyncInv

LEMMA CallWritten ==
  ASSUME SyncTyped, NEW w \in Syncer, NEW row \in SyncCall, syncer' = [syncer EXCEPT ![w] = row]
  PROVE  syncer' \in [Syncer -> SyncCall] /\ syncer'[w] = row /\ \A v \in Syncer \ {w} : syncer'[v] = syncer[v]
  BY DEF SyncTyped

\* The stream's cursor, revision and generation stand, and the copy.
LEMMA StreamStands ==
  ASSUME SyncInv, syncStream' \in StreamRow, syncStream'.made <=> syncStream.made, syncStream'.cursor = syncStream.cursor,
         syncStream'.revision = syncStream.revision, syncStream'.generation = syncStream.generation,
         syncStream'.claim = syncStream.claim \/ syncStream'.claim = NoSyncer, UNCHANGED <<drive, copy>>
  PROVE  CopySound' /\ UnmadeIsFresh'
  <1>1. CopySound'
    BY DEF SyncInv, CopySound
  <1>2. UnmadeIsFresh'
    BY DEF SyncInv, UnmadeIsFresh
  <1>3. QED BY <1>1, <1>2

LEMMA AccountsKeep ==
  ASSUME SyncInv, Reconnect \/ LeaseRunsOut \/ UNCHANGED syncVars PROVE SyncInv'
  <1>1. UNCHANGED <<drive, copy, syncer>>
    BY DEF Reconnect, LeaseRunsOut, syncVars
  <1>2. driveAccount' \in 1..MaxAccounts
    BY SyncAssumption DEF SyncInv, SyncTyped, Reconnect, LeaseRunsOut, syncVars
  <1>3. /\ syncStream' \in StreamRow /\ (syncStream'.made <=> syncStream.made) /\ syncStream'.cursor = syncStream.cursor
        /\ syncStream'.revision = syncStream.revision /\ syncStream'.generation = syncStream.generation
        /\ syncStream'.claim = syncStream.claim
    <2>1. syncStream \in StreamRow
      BY DEF SyncInv, SyncTyped
    <2>2. CASE LeaseRunsOut
      <3>1. syncStream' = [syncStream EXCEPT !.lapsed = TRUE]
        BY <2>2 DEF LeaseRunsOut
      <3>2. QED BY <2>1, <3>1 DEF StreamRow
    <2>3. CASE Reconnect \/ UNCHANGED syncVars
      BY <2>1, <2>3 DEF Reconnect, syncVars
    <2>4. QED BY <2>2, <2>3
  <1>4. SyncTyped'
    BY <1>1, <1>2, <1>3 DEF SyncInv, SyncTyped
  <1>5. CopySound' /\ UnmadeIsFresh'
    BY <1>1, <1>3, StreamStands
  <1>6. \A w \in Syncer : HolderFits(w)'
    BY <1>1, <1>3 DEF SyncInv, HolderFits
  <1>7. QED BY <1>4, <1>5, <1>6 DEF SyncInv

LEMMA ResetKeeps ==
  ASSUME SyncInv, ResetStream PROVE SyncInv'
  <1>1. PICK a, row, rows, d : a = driveAccount /\ row = FreshStream(a) /\ rows = EmptyMirror /\ d = drive[a]
    OBVIOUS
  <1>2. a \in 1..MaxAccounts /\ d \in DriveState
    BY <1>1 DEF SyncInv, SyncTyped
  <1>3. /\ row \in StreamRow /\ row.cursor = StartCursor /\ row.revision = 0 /\ row.claim = NoSyncer /\ row.generation = a
        /\ row.made
    BY <1>1, <1>2, FreshIsARow
  <1>4. rows \in [Object -> MirrorRow] /\ Contents(rows) \in Mirror /\ \A o \in Object : rows[o].version = 0 /\ Contents(rows)[o] = 0
    BY <1>1, EmptyIsAMirror
  <1>5. syncStream' = row /\ copy' = rows /\ UNCHANGED <<drive, driveAccount, syncer>>
    BY <1>1 DEF ResetStream
  <1>6. SyncTyped'
    BY <1>3, <1>4, <1>5 DEF SyncInv, SyncTyped
  <1>7. Sound(Contents(rows), StartCursor, d)
    BY <1>2, <1>4, StartsEmpty
  <1>8. CopySound'
    BY <1>1, <1>3, <1>4, <1>5, <1>7 DEF CopySound
  <1>9. UnmadeIsFresh'
    BY <1>3, <1>5 DEF UnmadeIsFresh
  <1>10. \A w \in Syncer : HolderFits(w)'
    BY <1>3, <1>5, SyncAssumption DEF HolderFits
  <1>11. QED BY <1>6, <1>8, <1>9, <1>10 DEF SyncInv

LEMMA ClaimKeeps ==
  ASSUME SyncInv, NEW w \in Syncer, ClaimStream(w) PROVE SyncInv'
  <1>1. PICK a, fresh, row : a = driveAccount /\ fresh = FreshStream(a) /\ row = IF syncStream.made THEN syncStream ELSE fresh
    OBVIOUS
  <1>2. a \in 1..MaxAccounts /\ syncStream \in StreamRow /\ syncer \in [Syncer -> SyncCall]
    BY <1>1 DEF SyncInv, SyncTyped
  <1>3. /\ fresh \in StreamRow /\ fresh.cursor = StartCursor /\ fresh.revision = 0 /\ fresh.generation = a /\ fresh.made
    BY <1>1, <1>2, FreshIsARow
  <1>4. row \in StreamRow /\ row.made /\ row.cursor = syncStream.cursor /\ row.revision = syncStream.revision /\ row.generation = a
    <2>1. row.generation = a
      BY <1>1 DEF ClaimStream
    <2>2. CASE syncStream.made
      BY <1>1, <1>2, <2>1, <2>2
    <2>3. CASE ~syncStream.made
      BY <1>1, <1>3, <2>1, <2>3 DEF SyncInv, UnmadeIsFresh
    <2>4. QED BY <2>2, <2>3
  <1>5. PICK taken : taken = [row EXCEPT !.claim = w, !.lapsed = FALSE]
    OBVIOUS
  <1>6. /\ taken \in StreamRow /\ taken.made /\ taken.cursor = row.cursor /\ taken.revision = row.revision
        /\ taken.generation = a /\ taken.claim = w
    BY <1>4, <1>5 DEF StreamRow
  <1>7. PICK cursor, revision, away : cursor = row.cursor /\ revision = row.revision /\ away = Away
    OBVIOUS
  <1>8. cursor \in SyncCursor /\ revision \in Nat /\ away \in SyncCall
    BY <1>4, <1>7, AwayIsACall DEF StreamRow
  <1>9. PICK memo : memo = [away EXCEPT !.pc = "claimed", !.cursor = cursor, !.revision = revision]
    OBVIOUS
  <1>10. memo \in SyncCall /\ memo.pc = "claimed" /\ memo.cursor = cursor /\ memo.revision = revision
    BY <1>8, <1>9 DEF SyncCall
  <1>11. syncStream' = taken /\ syncer' = [syncer EXCEPT ![w] = memo] /\ UNCHANGED <<drive, driveAccount, copy>>
    BY <1>1, <1>5, <1>7, <1>9 DEF ClaimStream
  <1>12. syncer' \in [Syncer -> SyncCall] /\ syncer'[w] = memo /\ \A v \in Syncer \ {w} : syncer'[v] = syncer[v]
    BY <1>10, <1>11, CallWritten DEF SyncInv
  <1>13. SyncTyped'
    BY <1>6, <1>11, <1>12 DEF SyncInv, SyncTyped
  <1>14. CopySound'
    <2>1. CASE syncStream.made
      <3>1. syncStream.generation = a
        BY <1>1, <1>4, <2>1
      <3>2. QED BY <1>4, <1>6, <1>11, <3>1 DEF SyncInv, CopySound
    <2>2. CASE ~syncStream.made
      <3>1. PICK c, d, old : c = Contents(copy) /\ d = drive[a] /\ old = drive[syncStream.generation]
        OBVIOUS
      <3>2. syncStream.cursor = StartCursor /\ Sound(c, StartCursor, old) /\ \A o \in Object : copy[o].version <= syncStream.revision
        BY <2>2, <3>1 DEF SyncInv, UnmadeIsFresh, CopySound
      <3>3. Passed(StartCursor) = {}
        BY DEF Passed, StartCursor
      <3>4. \A o \in Object : c[o] = 0
        BY <3>2, <3>3 DEF Sound
      <3>5. c \in Mirror /\ d \in DriveState
        BY <1>2, <3>1, ContentsAreAMirror DEF SyncInv, SyncTyped
      <3>6. Sound(c, StartCursor, d)
        BY <3>4, <3>5, StartsEmpty
      <3>7. QED BY <1>4, <1>6, <1>11, <3>1, <3>2, <3>6 DEF CopySound
    <2>3. QED BY <2>1, <2>2
  <1>15. UnmadeIsFresh'
    BY <1>6, <1>11 DEF UnmadeIsFresh
  <1>16. ASSUME NEW v \in Syncer PROVE HolderFits(v)'
    <2>1. CASE v = w
      BY <1>4, <1>6, <1>7, <1>10, <1>11, <1>12, <2>1 DEF HolderFits
    <2>2. CASE v # w
      BY <1>6, <1>11, <2>2 DEF HolderFits
    <2>3. QED BY <2>1, <2>2
  <1>17. QED BY <1>13, <1>14, <1>15, <1>16 DEF SyncInv

LEMMA AskKeeps ==
  ASSUME SyncInv, NEW w \in Syncer, AskPage(w) PROVE SyncInv'
  <1>1. PICK old, a, memo : old = syncer[w] /\ a = driveAccount /\ memo = [old EXCEPT !.pc = "asked", !.generation = a]
    OBVIOUS
  <1>2. old \in SyncCall /\ a \in Nat
    BY <1>1, SyncAssumption DEF SyncInv, SyncTyped
  <1>3. memo \in SyncCall /\ memo.pc = "asked" /\ memo.cursor = old.cursor /\ memo.revision = old.revision
    BY <1>1, <1>2 DEF SyncCall
  <1>4. syncer' = [syncer EXCEPT ![w] = memo] /\ UNCHANGED <<drive, driveAccount, syncStream, copy>> /\ old.pc = "claimed"
    BY <1>1 DEF AskPage
  <1>5. syncer' \in [Syncer -> SyncCall] /\ syncer'[w] = memo /\ \A v \in Syncer \ {w} : syncer'[v] = syncer[v]
    BY <1>3, <1>4, CallWritten DEF SyncInv
  <1>6. SyncTyped'
    BY <1>4, <1>5 DEF SyncInv, SyncTyped
  <1>7. CopySound' /\ UnmadeIsFresh'
    BY <1>4, StreamStands DEF SyncInv, SyncTyped
  <1>8. ASSUME NEW v \in Syncer PROVE HolderFits(v)'
    <2>1. CASE v = w
      BY <1>1, <1>3, <1>4, <1>5, <2>1 DEF SyncInv, HolderFits
    <2>2. CASE v # w
      BY <1>4, <1>5, <2>2, HolderKeeps
    <2>3. QED BY <2>1, <2>2
  <1>9. QED BY <1>6, <1>7, <1>8 DEF SyncInv

LEMMA PageAnswerKeeps ==
  ASSUME SyncInv, NEW w \in Syncer, PageAnswered(w) PROVE SyncInv'
  <1>1. PICK old, a, d : old = syncer[w] /\ a = old.generation /\ d = drive[a]
    OBVIOUS
  <1>2. old \in SyncCall /\ old.pc = "asked" /\ a = driveAccount /\ a \in 1..MaxAccounts /\ d \in DriveState
    BY <1>1 DEF SyncInv, SyncTyped, PageAnswered
  <1>3. PICK page, next, items : page = FetchedPage(d, old.cursor) /\ next = page.next /\ items = page.items
    OBVIOUS
  <1>4. old.cursor \in SyncCursor
    BY <1>2 DEF SyncCall
  <1>5. next \in SyncCursor /\ items \in Items
    <2>1. PICK n : n = Len(d.log)
      OBVIOUS
    <2>2. QED BY <1>2, <1>3, <1>4, FetchedIsAPage
  <1>6. PICK memo : memo = [old EXCEPT !.pc = "fetched", !.next = next, !.items = items]
    OBVIOUS
  <1>7. /\ memo \in SyncCall /\ memo.pc = "fetched" /\ memo.cursor = old.cursor /\ memo.revision = old.revision
        /\ memo.generation = a /\ memo.next = next /\ memo.items = items
    BY <1>1, <1>2, <1>5, <1>6 DEF SyncCall
  <1>8. syncer' = [syncer EXCEPT ![w] = memo] /\ UNCHANGED <<drive, driveAccount, syncStream, copy>>
    BY <1>1, <1>3, <1>6 DEF PageAnswered
  <1>9. syncer' \in [Syncer -> SyncCall] /\ syncer'[w] = memo /\ \A v \in Syncer \ {w} : syncer'[v] = syncer[v]
    BY <1>7, <1>8, CallWritten DEF SyncInv
  <1>10. SyncTyped'
    BY <1>8, <1>9 DEF SyncInv, SyncTyped
  <1>11. CopySound' /\ UnmadeIsFresh'
    BY <1>8, StreamStands DEF SyncInv, SyncTyped
  <1>12. ASSUME NEW v \in Syncer PROVE HolderFits(v)'
    <2>1. CASE v = w
      <3> SUFFICES ASSUME syncStream.claim = w
                   PROVE  /\ syncStream.made /\ memo.cursor = syncStream.cursor /\ memo.revision = syncStream.revision
                          /\ a = syncStream.generation => Sound(Merged(Contents(copy), items), next, drive[syncStream.generation])
        BY <1>7, <1>8, <1>9, <2>1 DEF HolderFits
      <3>1. syncStream.made /\ old.cursor = syncStream.cursor /\ old.revision = syncStream.revision
        BY <1>1, <1>2 DEF SyncInv, HolderFits
      <3>2. ASSUME a = syncStream.generation PROVE Sound(Merged(Contents(copy), items), next, d)
        <4>1. PICK c, k : c = Contents(copy) /\ k = old.cursor
          OBVIOUS
        <4>2. c \in Mirror /\ k \in SyncCursor
          BY <1>4, <4>1, ContentsAreAMirror DEF SyncInv, SyncTyped
        <4>3. Sound(c, k, d)
          BY <1>1, <3>1, <3>2, <4>1 DEF SyncInv, CopySound
        <4>4. page = FetchedPage(d, k)
          BY <1>3, <4>1
        <4>5. Sound(Merged(c, page.items), page.next, d)
          BY <1>2, <4>2, <4>3, <4>4, FetchedIsSound
        <4>6. QED BY <1>3, <4>1, <4>5
      <3>3. QED BY <1>1, <1>7, <3>1, <3>2
    <2>2. CASE v # w
      BY <1>8, <1>9, <2>2, HolderKeeps
    <2>3. QED BY <2>1, <2>2
  <1>13. QED BY <1>10, <1>11, <1>12 DEF SyncInv

LEMMA CommitKeeps ==
  ASSUME SyncInv, NEW w \in Syncer, CommitPage(w) PROVE SyncInv'
  <1>1. PICK m, a, d, rows, c : m = syncer[w] /\ a = syncStream.generation /\ d = drive[a] /\ rows = copy /\ c = Contents(rows)
    OBVIOUS
  <1>2. /\ m \in SyncCall /\ m.pc = "fetched" /\ m.generation = a /\ syncStream.claim = w
        /\ a \in 1..MaxAccounts /\ d \in DriveState /\ syncStream \in StreamRow
    BY <1>1 DEF SyncInv, SyncTyped, CommitPage, OwnsStream, StreamRow
  <1>3. m.revision = syncStream.revision /\ syncStream.made /\ Sound(Merged(c, m.items), m.next, d)
    BY <1>1, <1>2 DEF SyncInv, HolderFits
  <1>4. rows \in [Object -> MirrorRow] /\ c \in Mirror /\ \A o \in Object : c[o] = rows[o].content /\ rows[o].version <= syncStream.revision
    BY <1>1, ContentsAreAMirror DEF SyncInv, SyncTyped, CopySound
  <1>5. PICK items, next, version : items = m.items /\ next = m.next /\ version = m.revision + 1
    OBVIOUS
  <1>6. items \in Items /\ next \in SyncCursor /\ version \in Nat /\ version = syncStream.revision + 1 /\ syncStream.revision \in Nat
    BY <1>2, <1>3, <1>5 DEF SyncCall, StreamRow
  <1>7. PICK merged : merged = Merged(c, items)
    OBVIOUS
  <1>8. merged \in Mirror /\ \A o \in Object : merged[o] = IF o \in DOMAIN items THEN items[o] ELSE c[o]
    BY <1>4, <1>6, <1>7, MergedIsAMirror
  <1>9. \A o \in Object : version > rows[o].version
    BY <1>4, <1>6 DEF MirrorRow
  <1>10. PICK written : written = [o \in Object |-> IF o \in DOMAIN items THEN [version |-> version, content |-> items[o]] ELSE rows[o]]
    OBVIOUS
  <1>11. copy' = written
    BY <1>1, <1>5, <1>9, <1>10 DEF CommitPage
  <1>12. \A o \in Object : written[o] \in MirrorRow /\ written[o].content = merged[o] /\ written[o].version <= version
    <2> SUFFICES ASSUME NEW o \in Object PROVE written[o] \in MirrorRow /\ written[o].content = merged[o] /\ written[o].version <= version
      OBVIOUS
    <2>1. rows[o] \in MirrorRow /\ merged[o] \in Content \union {0}
      BY <1>4, <1>8 DEF Mirror
    <2>2. CASE o \in DOMAIN items
      BY <1>6, <1>8, <1>10, <2>1, <2>2 DEF MirrorRow
    <2>3. CASE o \notin DOMAIN items
      BY <1>4, <1>6, <1>8, <1>9, <1>10, <2>1, <2>3 DEF MirrorRow
    <2>4. QED BY <2>2, <2>3
  <1>13. written \in [Object -> MirrorRow] /\ Contents(written) = merged
    <2>1. written \in [Object -> MirrorRow]
      BY <1>10, <1>12
    <2>2. \A o \in Object : Contents(written)[o] = merged[o]
      BY <1>12 DEF Contents
    <2>3. merged = [o \in Object |-> merged[o]]
      BY <1>8 DEF Mirror
    <2>4. QED BY <1>12, <2>1, <2>3 DEF Contents
  <1>14. PICK stream : stream = [syncStream EXCEPT !.cursor = next, !.revision = version]
    OBVIOUS
  <1>15. /\ stream \in StreamRow /\ stream.cursor = next /\ stream.revision = version /\ stream.generation = a
         /\ stream.claim = w /\ stream.made
    BY <1>1, <1>2, <1>3, <1>6, <1>14 DEF StreamRow
  <1>16. syncStream' = stream
    BY <1>1, <1>5, <1>6, <1>14 DEF CommitPage
  <1>17. PICK memo : memo = Ending
    OBVIOUS
  <1>18. memo \in SyncCall /\ memo.pc = "ending"
    BY <1>17, AwayIsACall
  <1>19. syncer' = [syncer EXCEPT ![w] = memo] /\ UNCHANGED <<drive, driveAccount>>
    BY <1>17 DEF CommitPage
  <1>20. syncer' \in [Syncer -> SyncCall] /\ syncer'[w] = memo
    BY <1>18, <1>19, CallWritten DEF SyncInv
  <1>21. SyncTyped'
    BY <1>11, <1>13, <1>15, <1>16, <1>19, <1>20 DEF SyncInv, SyncTyped
  <1>22. CopySound'
    <2>1. Sound(Contents(written), next, d)
      BY <1>3, <1>5, <1>7, <1>13
    <2>2. QED BY <1>1, <1>11, <1>12, <1>15, <1>16, <1>19, <2>1 DEF CopySound
  <1>23. UnmadeIsFresh'
    BY <1>15, <1>16 DEF UnmadeIsFresh
  <1>24. \A v \in Syncer : HolderFits(v)'
    BY <1>15, <1>16, <1>18, <1>20 DEF HolderFits
  <1>25. QED BY <1>21, <1>22, <1>23, <1>24 DEF SyncInv

LEMMA EndingKeeps ==
  ASSUME SyncInv, NEW w \in Syncer, PageFails(w) \/ ReleaseStream(w) \/ SyncerDies(w) PROVE SyncInv'
  <1>1. PICK memo \in {Away, Ending} : syncer' = [syncer EXCEPT ![w] = memo]
    BY DEF PageFails, ReleaseStream, SyncerDies
  <1>2. memo \in SyncCall /\ memo.pc \in {"idle", "ending"}
    BY <1>1, AwayIsACall
  <1>3. syncer' \in [Syncer -> SyncCall] /\ syncer'[w] = memo /\ \A v \in Syncer \ {w} : syncer'[v] = syncer[v]
    BY <1>1, <1>2, CallWritten DEF SyncInv
  <1>4. UNCHANGED <<drive, driveAccount, copy>>
    BY DEF PageFails, ReleaseStream, SyncerDies
  <1>5. /\ syncStream' \in StreamRow /\ (syncStream'.made <=> syncStream.made) /\ syncStream'.cursor = syncStream.cursor
        /\ syncStream'.revision = syncStream.revision /\ syncStream'.generation = syncStream.generation
        /\ syncStream'.claim = syncStream.claim \/ syncStream'.claim = NoSyncer
    <2>1. syncStream \in StreamRow
      BY DEF SyncInv, SyncTyped
    <2>2. CASE syncStream' = syncStream
      BY <2>1, <2>2
    <2>3. CASE syncStream' = [syncStream EXCEPT !.claim = NoSyncer]
      BY <2>1, <2>3 DEF StreamRow
    <2>4. QED BY <2>2, <2>3 DEF PageFails, ReleaseStream, SyncerDies
  <1>6. SyncTyped'
    BY <1>3, <1>4, <1>5 DEF SyncInv, SyncTyped
  <1>7. CopySound' /\ UnmadeIsFresh'
    BY <1>4, <1>5, StreamStands
  <1>8. ASSUME NEW v \in Syncer PROVE HolderFits(v)'
    <2>1. CASE v = w
      BY <1>2, <1>3, <2>1 DEF HolderFits
    <2>2. CASE v # w
      <3>1. UnmadeIsFresh /\ HolderFits(v) /\ syncer'[v] = syncer[v] /\ NoSyncer # v
        BY <1>3, <2>2, SyncAssumption DEF SyncInv
      <3>2. QED BY <1>4, <1>5, <3>1 DEF HolderFits
    <2>3. QED BY <2>1, <2>2
  <1>9. QED BY <1>6, <1>7, <1>8 DEF SyncInv

\* Once the listing is done the copy of a Drive is current but for what the log has yet to tell
\* (google_sync.py), for any objects, pages, calls and accounts.
THEOREM CopyStaysCurrent == SyncSpec => []CopyIsCurrent
  <1>1. ASSUME SyncInv, [SyncNext]_syncVars PROVE SyncInv'
    BY <1>1, DriveKeeps, AccountsKeep, ResetKeeps, ClaimKeeps, AskKeeps, PageAnswerKeeps, CommitKeeps, EndingKeeps DEF SyncNext
  <1>2. ASSUME SyncInv PROVE CopyIsCurrent
    <2> SUFFICES ASSUME syncStream.cursor.phase = "delta", NEW o \in Object \ UnreadChanges
                 PROVE  copy[o].content = drive[syncStream.generation].content[o]
      BY DEF CopyIsCurrent
    <2>1. PICK k, d, n, from : k = syncStream.cursor /\ d = drive[syncStream.generation] /\ n = Len(d.log) /\ from = UnreadFrom(k)
      OBVIOUS
    <2>2. k \in SyncCursor /\ d \in DriveState /\ k.phase = "delta" /\ Sound(Contents(copy), k, d)
      BY <1>2, <2>1 DEF SyncInv, SyncTyped, StreamRow, CopySound
    <2>3. d.log \in Seq(Object) /\ n \in Nat /\ from \in Nat
      BY <2>1, <2>2 DEF DriveState, SyncCursor, UnreadFrom
    <2>4. ToSet(SubSeq(d.log, from + 1, n)) = Behind(k, d)
      <3>1. n <= Len(d.log) /\ from \in Nat /\ n \in Nat /\ d.log \in Seq(Object)
        BY <2>1, <2>3
      <3>2. ToSet(SubSeq(d.log, from + 1, n)) = {d.log[i] : i \in (from + 1)..n}
        BY <3>1, PartOfLog
      <3>3. QED BY <2>1, <3>2 DEF Behind
    <2>5. UnreadChanges = Behind(k, d)
      BY <2>1, <2>2, <2>4 DEF UnreadChanges, UnreadFrom
    <2>6. Contents(copy)[o] = d.content[o]
      BY <2>2, <2>5 DEF Sound, Passed
    <2>7. Contents(copy)[o] = copy[o].content
      BY <1>2, ContentsAreAMirror DEF SyncInv, SyncTyped
    <2>8. QED BY <2>1, <2>6, <2>7
  <1>3. QED BY <1>1, <1>2, SyncStarts, PTL DEF SyncSpec

(***************************************************************************)
(* The catalogue: what a source that answered for every product, and was not    *)
(* cut, held all along is among what was seen.                                    *)
(***************************************************************************)

\* Positions in order: as many before one as it has predecessors.
LEMMA AtPositionsKeeps ==
  ASSUME NEW n \in Nat, NEW seq, NEW P, P \subseteq 1..n, NEW k \in P
  PROVE  \E i \in 1..Cardinality(P) : AtPositions(seq, P)[i] = seq[k]
  <1>1. IsFiniteSet(P) /\ Cardinality(P) \in Nat /\ P \subseteq Nat
    <2>1. IsFiniteSet(1..n)
      BY FS_Interval
    <2>2. IsFiniteSet(P)
      BY <2>1, FS_Subset
    <2>3. QED BY <2>2, FS_CardinalityType
  <1>2. \A x, y \in P : x < y => Cardinality({m \in P : m < x}) < Cardinality({m \in P : m < y})
    <2> SUFFICES ASSUME NEW x \in P, NEW y \in P, x < y
                 PROVE  Cardinality({m \in P : m < x}) < Cardinality({m \in P : m < y})
      OBVIOUS
    <2>1. PICK A, B : A = {m \in P : m < x} /\ B = {m \in P : m < y}
      OBVIOUS
    <2>a. x \in Nat /\ y \in Nat /\ \A m \in P : m \in Nat
      BY <1>1
    <2>b. x \in B /\ x \notin A /\ B \subseteq P
      BY <2>1, <2>a
    <2>c. \A m \in A : m \in B
      BY <2>1, <2>a
    <2>2. A \subseteq B /\ B \subseteq P /\ A # B
      BY <2>b, <2>c
    <2>3. IsFiniteSet(A) /\ IsFiniteSet(B) /\ Cardinality(A) \in Nat /\ Cardinality(B) \in Nat
      BY <1>1, <2>2, FS_Subset, FS_CardinalityType
    <2>4. Cardinality(A) <= Cardinality(B) /\ (Cardinality(A) = Cardinality(B) => A = B)
      BY <2>2, <2>3, FS_Subset
    <2>5. QED BY <2>1, <2>2, <2>3, <2>4
  <1>3. PICK c : c = Cardinality({m \in P : m < k})
    OBVIOUS
  <1>4. c \in Nat /\ c < Cardinality(P)
    <2>1. PICK A : A = {m \in P : m < k}
      OBVIOUS
    <2>2. A \subseteq P /\ A # P
      BY <1>1, <2>1
    <2>3. IsFiniteSet(A) /\ Cardinality(A) \in Nat
      BY <1>1, <2>2, FS_Subset, FS_CardinalityType
    <2>4. Cardinality(A) <= Cardinality(P) /\ (Cardinality(A) = Cardinality(P) => A = P)
      BY <1>1, <2>2, FS_Subset
    <2>5. QED BY <1>1, <1>3, <2>1, <2>2, <2>3, <2>4
  <1>5. PICK i : i = c + 1
    OBVIOUS
  <1>6. i \in 1..Cardinality(P) /\ i - 1 = c
    BY <1>1, <1>4, <1>5
  <1>7. \A q \in P : Cardinality({m \in P : m < q}) = c => q = k
    <2> SUFFICES ASSUME NEW q \in P, Cardinality({m \in P : m < q}) = c, q # k PROVE FALSE
      OBVIOUS
    <2>1. q < k \/ k < q
      BY <1>1
    <2>2. QED BY <1>2, <1>3, <1>4, <2>1
  <1>8. (CHOOSE q \in P : Cardinality({m \in P : m < q}) = c) = k
    BY <1>3, <1>7
  <1>9. AtPositions(seq, P)[i] = seq[k]
    BY <1>6, <1>8 DEF AtPositions
  <1>10. QED BY <1>6, <1>9

SaidOf(seen, s, id, attr) == Head(OfId(seen[s].rows, id)).cells[attr]

\* A source that has a row of the id, with the attribute, is among the observations.
LEMMA ObservedIsThere ==
  ASSUME NEW entry, NEW S, entry.order \in Seq(S), NEW seen, NEW id, NEW attr, NEW s \in ToSet(entry.order),
         OfId(seen[s].rows, id) # << >>, SaidOf(seen, s, id, attr) # 0
  PROVE  \E i \in DOMAIN Observations(entry, seen, id, attr) :
           Observations(entry, seen, id, attr)[i] = [source |-> s, value |-> SaidOf(seen, s, id, attr)]
  <1>1. PICK n \in Nat : n = Len(entry.order)
    OBVIOUS
  <1>2. PICK k \in 1..n : entry.order[k] = s
    BY <1>1 DEF ToSet
  <1>3. PICK P : P = {q \in DOMAIN entry.order : entry.order[q] \in Matching(entry, seen, id)
                                                  /\ SaidOf(seen, entry.order[q], id, attr) # 0}
    OBVIOUS
  <1>4. P \subseteq 1..n /\ k \in P
    BY <1>1, <1>2, <1>3 DEF Matching
  <1>5. PICK i \in 1..Cardinality(P) : AtPositions(entry.order, P)[i] = s
    <2>1. PICK seq : seq = entry.order
      OBVIOUS
    <2>2. \E i \in 1..Cardinality(P) : AtPositions(seq, P)[i] = seq[k]
      BY <1>4, AtPositionsKeeps
    <2>3. QED BY <1>2, <2>1, <2>2
  <1>6. PICK says : says = AtPositions(entry.order, P)
    OBVIOUS
  <1>7. i \in DOMAIN says /\ says[i] = s
    BY <1>5, <1>6 DEF AtPositions
  <1>8. Observations(entry, seen, id, attr) = [j \in DOMAIN says |-> [source |-> says[j], value |-> SaidOf(seen, says[j], id, attr)]]
    BY <1>3, <1>6 DEF Observations, SaidOf
  <1>9. QED BY <1>7, <1>8

\* What came short of the limit came whole.
LEMMA UncutIsWhole ==
  ASSUME NEW S, NEW rows \in Seq(S), NEW feed, feed.rows = rows, feed.up, NEW limit \in Nat \ {0}, ~Fetched(feed, limit).cut
  PROVE  Fetched(feed, limit).rows = rows
  <1>1. PICK first : first = FirstOf(rows, limit)
    OBVIOUS
  <1>2. /\ Fetched(feed, limit).rows = FirstOf(first, MaxScan)
        /\ Fetched(feed, limit).cut <=> (Len(first) >= limit \/ Len(first) > MaxScan)
    BY <1>1 DEF Fetched
  <1>3. ~(Len(first) >= limit) /\ ~(Len(first) > MaxScan)
    BY <1>2
  <1>4. Len(rows) <= limit
    <2> SUFFICES ASSUME ~(Len(rows) <= limit) PROVE FALSE
      OBVIOUS
    <2>1. first = SubSeq(rows, 1, limit) /\ limit <= Len(rows)
      BY <1>1 DEF FirstOf
    <2>2. Len(first) = limit
      BY <2>1
    <2>3. QED BY <1>3, <2>2
  <1>5. first = SubSeq(rows, 1, Len(rows))
    BY <1>1, <1>4 DEF FirstOf
  <1>6. SubSeq(rows, 1, Len(rows)) = rows
    OBVIOUS
  <1>7. Len(rows) <= MaxScan
    BY <1>3, <1>5, <1>6, BusinessGraphAssumption
  <1>8. FirstOf(rows, MaxScan) = rows
    BY <1>6, <1>7 DEF FirstOf
  <1>9. QED BY <1>2, <1>5, <1>6, <1>8

FeedRow == [id : Product, cells : Cells]
FeedsTyped == feeds \in [GraphSource -> [up : BOOLEAN, rows : Seq(FeedRow)]]
CatalogueTyped ==
  /\ catalogue \in [pc : {"idle", "items", "report"}, ids : {catalogue.ids}, items : {catalogue.items},
                    errors : SUBSET GraphSource, cut : SUBSET GraphSource]
  /\ \E T : catalogue.items \in Seq(T)

\* A row that has stood is the first of its id in its source.
Stands(p, f) ==
  p[1] \in GraphSource /\ OfId(f[p[1]].rows, p[2].id) # << >> /\ Head(OfId(f[p[1]].rows, p[2].id)) = p[2]
Tells(item, p) == ~Untold(p, item.price, "price") /\ ~Untold(p, item.cost, "cost")
\* An item tells what a source held of it all along, unless the source is among those that failed or were cut.
ItemsTell ==
  \A i \in DOMAIN catalogue.items, p \in steady :
    p[2].id = catalogue.items[i].id /\ p[1] \notin catalogue.errors /\ p[1] \notin catalogue.cut => Tells(catalogue.items[i], p)

CatalogueInv == FeedsTyped /\ CatalogueTyped /\ (\A p \in steady : Stands(p, feeds)) /\ ItemsTell

LEMMA FirstRowsStand == ASSUME NEW f, NEW p \in FirstRows(f) PROVE Stands(p, f)
  <1>1. p \in RowsOf(f)
    BY DEF FirstRows
  <1>2. PICK s \in GraphSource : \E row : p = <<s, row>>
    BY <1>1 DEF RowsOf
  <1>3. p[1] \in GraphSource
    BY <1>2
  <1>4. QED BY <1>3 DEF FirstRows, Stands

\* What a source said that answered and was not cut.
LEMMA SaidIsObserved ==
  ASSUME FeedsTyped, NEW p, Stands(p, feeds), p[1] \notin Unread(GraphEntry, Seen), p[1] \notin CutSources(GraphEntry, Seen),
         NEW attr, NEW figure, figure.values = Observations(GraphEntry, Seen, p[2].id, attr)
  PROVE  ~Untold(p, figure, attr)
  <1>1. PICK s, row, id : s = p[1] /\ row = p[2] /\ id = p[2].id
    OBVIOUS
  <1>2. s \in GraphSource /\ s \in ToSet(GraphEntry.order) /\ GraphEntry.order \in Seq(GraphSource) /\ SourceLimit[s] \in Nat \ {0}
    BY <1>1, InventoryAssumption DEF Stands
  <1>3. PICK rows, limit : rows = feeds[s].rows /\ limit = SourceLimit[s]
    OBVIOUS
  <1>4. Seen[s] = Fetched(feeds[s], limit)
    BY <1>2, <1>3 DEF Seen
  <1>5. Seen[s].up /\ ~Seen[s].cut
    BY <1>1, <1>2 DEF Unread, CutSources
  <1>6. feeds[s].up
    BY <1>4, <1>5 DEF Fetched
  <1>7. rows \in Seq(FeedRow)
    BY <1>2, <1>3 DEF FeedsTyped
  <1>8. Seen[s].rows = rows
    BY <1>2, <1>3, <1>4, <1>5, <1>6, <1>7, UncutIsWhole
  <1>9. OfId(Seen[s].rows, id) # << >> /\ Head(OfId(Seen[s].rows, id)) = row
    BY <1>1, <1>3, <1>8 DEF Stands
  <1>10. SaidOf(Seen, s, id, attr) = row.cells[attr]
    BY <1>9 DEF SaidOf
  <1>11. CASE row.cells[attr] = 0
    BY <1>1, <1>11 DEF Untold
  <1>12. CASE row.cells[attr] # 0
    <2>1. SaidOf(Seen, s, id, attr) # 0 /\ OfId(Seen[s].rows, id) # << >>
      BY <1>9, <1>10, <1>12
    <2>2. \E i \in DOMAIN Observations(GraphEntry, Seen, id, attr) :
            Observations(GraphEntry, Seen, id, attr)[i] = [source |-> s, value |-> SaidOf(Seen, s, id, attr)]
      BY <1>2, <2>1, ObservedIsThere
    <2>3. QED BY <1>1, <1>10, <2>2 DEF Untold
  <1>13. QED BY <1>11, <1>12

LEMMA ItemTells ==
  ASSUME FeedsTyped, NEW p, Stands(p, feeds), NEW view, view = ViewOf(GraphEntry, Seen, p[2].id, "primary_wins"),
         p[1] \notin view.errors, p[1] \notin view.cut
  PROVE  Tells(ProductItem(p[2].id, view), p)
  <1>1. view.errors = Unread(GraphEntry, Seen) /\ view.cut = CutSources(GraphEntry, Seen)
    BY DEF ViewOf
  <1>2. \A attr \in GraphEntry.attrs : view.values[attr] = Observations(GraphEntry, Seen, p[2].id, attr)
    BY DEF ViewOf
  <1>3. "price" \in GraphEntry.attrs /\ "cost" \in GraphEntry.attrs
    BY InventoryAssumption
  <1>4. PICK item : item = ProductItem(p[2].id, view)
    OBVIOUS
  <1>5. item.price = Figure(view, "price") /\ item.cost = Figure(view, "cost")
    BY <1>4 DEF ProductItem
  <1>6. PICK price, cost : price = item.price /\ cost = item.cost
    OBVIOUS
  <1>7. price.values = Observations(GraphEntry, Seen, p[2].id, "price") /\ cost.values = Observations(GraphEntry, Seen, p[2].id, "cost")
    BY <1>2, <1>3, <1>5, <1>6 DEF Figure
  <1>8. ~Untold(p, price, "price") /\ ~Untold(p, cost, "cost")
    BY <1>1, <1>7, SaidIsObserved
  <1>9. QED BY <1>4, <1>6, <1>8 DEF Tells

LEMMA CatalogueStarts == InventoryInit => CatalogueInv
  <1> SUFFICES ASSUME InventoryInit PROVE CatalogueInv
    OBVIOUS
  <1>1. feeds = [s \in GraphSource |-> [up |-> TRUE, rows |-> << >>]] /\ catalogue = NoRead /\ steady = {}
    BY DEF InventoryInit
  <1>2. FeedsTyped
    BY <1>1 DEF FeedsTyped
  <1>3. catalogue.items = << >> /\ CatalogueTyped
    <2>1. << >> \in Seq({})
      OBVIOUS
    <2>2. catalogue.items = << >>
      BY <1>1 DEF NoRead
    <2>3. catalogue \in [pc : {"idle", "items", "report"}, ids : {catalogue.ids}, items : {catalogue.items},
                    errors : SUBSET GraphSource, cut : SUBSET GraphSource]
      BY <1>1 DEF NoRead
    <2>4. QED BY <2>1, <2>2, <2>3 DEF CatalogueTyped
  <1>4. QED BY <1>1, <1>2, <1>3 DEF CatalogueInv, ItemsTell

\* A source edited, failing or answering: what stood and still stands is what the items told of.
LEMMA FeedsMove ==
  ASSUME CatalogueInv, FeedsTyped', UNCHANGED catalogue, steady' \subseteq steady, \A p \in steady' : Stands(p, feeds')
  PROVE  CatalogueInv'
  <1>1. CatalogueTyped'
    BY DEF CatalogueInv, CatalogueTyped
  <1>2. ItemsTell'
    BY DEF CatalogueInv, ItemsTell, Tells, Untold
  <1>3. QED BY <1>1, <1>2 DEF CatalogueInv, Stands

LEMMA EditKeeps ==
  ASSUME CatalogueInv, NEW s \in GraphSource, NEW rows \in Seq(FeedRow), FeedEdited(s, rows) PROVE CatalogueInv'
  <1>1. feeds' = [feeds EXCEPT ![s].rows = rows] /\ steady' = steady \intersect FirstRows(feeds') /\ UNCHANGED catalogue
    BY DEF FeedEdited
  <1>2. FeedsTyped'
    BY <1>1 DEF CatalogueInv, FeedsTyped
  <1>3. PICK f : f = feeds'
    OBVIOUS
  <1>4. \A p \in steady' : Stands(p, f)
    BY <1>1, <1>3, FirstRowsStand
  <1>5. \A p \in steady' : Stands(p, feeds')
    BY <1>3, <1>4
  <1>6. steady' \subseteq steady
    BY <1>1
  <1>7. QED BY <1>1, <1>2, <1>5, <1>6, FeedsMove

LEMMA FeedFailureKeeps == ASSUME CatalogueInv, NEW s \in GraphSource, FeedFails(s) PROVE CatalogueInv'
  <1>1. feeds' = [feeds EXCEPT ![s].up = ~@] /\ UNCHANGED <<catalogue, steady>>
    BY DEF FeedFails
  <1>2. FeedsTyped' /\ \A q \in GraphSource : feeds'[q].rows = feeds[q].rows
    BY <1>1 DEF CatalogueInv, FeedsTyped
  <1>3. \A p \in steady' : Stands(p, feeds')
    BY <1>1, <1>2 DEF CatalogueInv, Stands
  <1>4. QED BY <1>1, <1>2, <1>3, FeedsMove

LEMMA IdsKeep == ASSUME CatalogueInv, ReadIds PROVE CatalogueInv'
  <1>1. PICK ids : catalogue' = [NoRead EXCEPT !.pc = "items", !.ids = ids]
    BY DEF ReadIds
  <1>2. /\ catalogue'.items = << >> /\ catalogue'.ids = ids
        /\ catalogue' \in [pc : {"idle", "items", "report"}, ids : {ids}, items : {<< >>}, errors : SUBSET GraphSource, cut : SUBSET GraphSource]
    BY <1>1 DEF NoRead
  <1>3. << >> \in Seq({})
    OBVIOUS
  <1>4. CatalogueTyped'
    BY <1>2, <1>3 DEF CatalogueTyped
  <1>5. steady' = FirstRows(feeds) /\ UNCHANGED feeds
    BY DEF ReadIds
  <1>6. \A p \in steady' : Stands(p, feeds)
    BY <1>5, FirstRowsStand
  <1>7. (\A p \in steady : Stands(p, feeds))'
    BY <1>5, <1>6 DEF Stands
  <1>8. ItemsTell'
    BY <1>2 DEF ItemsTell
  <1>9. FeedsTyped'
    BY <1>5 DEF CatalogueInv, FeedsTyped
  <1>10. QED BY <1>4, <1>7, <1>8, <1>9 DEF CatalogueInv

LEMMA ItemKeeps == ASSUME CatalogueInv, ReadItem PROVE CatalogueInv'
  <1>1. PICK id, view, item : id = catalogue.ids[Listed + 1] /\ view = ViewOf(GraphEntry, Seen, id, "primary_wins") /\ item = ProductItem(id, view)
    OBVIOUS
  <1>2. /\ catalogue' = [catalogue EXCEPT !.items = Append(@, item), !.errors = @ \union view.errors, !.cut = @ \union view.cut]
        /\ catalogue.pc = "items" /\ UNCHANGED <<feeds, allowed, steady>>
    BY <1>1 DEF ReadItem
  <1>3. PICK T : catalogue.items \in Seq(T)
    BY DEF CatalogueInv, CatalogueTyped
  <1>4. PICK n \in Nat : n = Len(catalogue.items)
    BY <1>3
  <1>5. PICK items, errors, cut : items = Append(catalogue.items, item) /\ errors = catalogue.errors \union view.errors /\ cut = catalogue.cut \union view.cut
    OBVIOUS
  <1>6. PICK U : U = T \union {item}
    OBVIOUS
  <1>7. items \in Seq(U) /\ DOMAIN items = 1..(n + 1) /\ items[n + 1] = item /\ \A i \in 1..n : items[i] = catalogue.items[i]
    <2>1. catalogue.items \in Seq(U) /\ item \in U
      BY <1>3, <1>6
    <2>2. QED BY <1>4, <1>5, <2>1
  <1>8. view.errors \in SUBSET GraphSource /\ view.cut \in SUBSET GraphSource
    <2>1. view.errors = Unread(GraphEntry, Seen) /\ view.cut = CutSources(GraphEntry, Seen)
      BY <1>1 DEF ViewOf
    <2>2. GraphSource = ToSet(GraphEntry.order)
      BY InventoryAssumption
    <2>3. QED BY <2>1, <2>2 DEF Unread, CutSources
  <1>9. errors \in SUBSET GraphSource /\ cut \in SUBSET GraphSource
    BY <1>5, <1>8 DEF CatalogueInv, CatalogueTyped
  <1>10. catalogue' = [catalogue EXCEPT !.items = items, !.errors = errors, !.cut = cut]
    BY <1>2, <1>5
  <1>11. catalogue'.items = items /\ catalogue'.errors = errors /\ catalogue'.cut = cut /\ catalogue'.ids = catalogue.ids
         /\ catalogue' \in [pc : {"idle", "items", "report"}, ids : {catalogue.ids}, items : {items}, errors : SUBSET GraphSource, cut : SUBSET GraphSource]
    BY <1>9, <1>10 DEF CatalogueInv, CatalogueTyped
  <1>12. CatalogueTyped'
    BY <1>7, <1>11 DEF CatalogueTyped
  <1>13. ASSUME NEW i \in 1..(n + 1), NEW p \in steady, p[2].id = items[i].id, p[1] \notin errors, p[1] \notin cut PROVE Tells(items[i], p)
    <2>1. p[1] \notin catalogue.errors /\ p[1] \notin catalogue.cut /\ p[1] \notin view.errors /\ p[1] \notin view.cut
      BY <1>5, <1>13
    <2>2. CASE i = n + 1
      <3>1. items[i] = item /\ item.id = id
        <4>1. ProductItem(id, view).id = id
          BY DEF ProductItem
        <4>2. QED BY <1>1, <1>7, <2>2, <4>1
      <3>2. view = ViewOf(GraphEntry, Seen, p[2].id, "primary_wins") /\ item = ProductItem(p[2].id, view)
        BY <1>1, <1>13, <3>1
      <3>3. Stands(p, feeds) /\ FeedsTyped
        BY DEF CatalogueInv
      <3>4. QED BY <2>1, <3>1, <3>2, <3>3, ItemTells
    <2>3. CASE i # n + 1
      <3>1. i \in 1..n /\ items[i] = catalogue.items[i] /\ DOMAIN catalogue.items = 1..n
        BY <1>3, <1>4, <1>7, <2>3
      <3>2. QED BY <1>13, <2>1, <3>1 DEF CatalogueInv, ItemsTell
    <2>4. QED BY <2>2, <2>3
  <1>14. ItemsTell'
    BY <1>2, <1>7, <1>11, <1>13 DEF ItemsTell, Tells, Untold
  <1>15. FeedsTyped' /\ (\A p \in steady : Stands(p, feeds))'
    BY <1>2 DEF CatalogueInv, FeedsTyped, Stands
  <1>16. QED BY <1>12, <1>14, <1>15 DEF CatalogueInv

LEMMA EndKeeps == ASSUME CatalogueInv, EndRead PROVE CatalogueInv'
  <1>1. catalogue' = [catalogue EXCEPT !.pc = "report"] /\ UNCHANGED <<feeds, allowed, steady>>
    BY DEF EndRead
  <1>2. /\ catalogue'.items = catalogue.items /\ catalogue'.errors = catalogue.errors /\ catalogue'.cut = catalogue.cut /\ catalogue'.ids = catalogue.ids
        /\ catalogue' \in [pc : {"idle", "items", "report"}, ids : {catalogue.ids}, items : {catalogue.items}, errors : SUBSET GraphSource, cut : SUBSET GraphSource]
    BY <1>1 DEF CatalogueInv, CatalogueTyped
  <1>3. CatalogueTyped'
    BY <1>2 DEF CatalogueInv, CatalogueTyped
  <1>4. ItemsTell'
    BY <1>1, <1>2 DEF CatalogueInv, ItemsTell, Tells, Untold
  <1>5. FeedsTyped' /\ (\A p \in steady : Stands(p, feeds))'
    BY <1>1 DEF CatalogueInv, FeedsTyped, Stands
  <1>6. QED BY <1>3, <1>4, <1>5 DEF CatalogueInv

LEMMA NoReadKeeps == ASSUME CatalogueInv, catalogue' = NoRead, UNCHANGED feeds, steady' \subseteq steady PROVE CatalogueInv'
  <1>1. catalogue'.items = << >> /\ catalogue' \in [pc : {"idle", "items", "report"}, ids : {<< >>}, items : {<< >>}, errors : SUBSET GraphSource, cut : SUBSET GraphSource]
        /\ catalogue'.ids = << >>
    BY DEF NoRead
  <1>2. << >> \in Seq({})
    OBVIOUS
  <1>3. CatalogueTyped'
    BY <1>1, <1>2 DEF CatalogueTyped
  <1>4. ItemsTell'
    BY <1>1 DEF ItemsTell
  <1>5. FeedsTyped' /\ (\A p \in steady : Stands(p, feeds))'
    BY DEF CatalogueInv, FeedsTyped, Stands
  <1>6. QED BY <1>3, <1>4, <1>5 DEF CatalogueInv

LEMMA CatalogueStays == ASSUME CatalogueInv, [InventoryNext]_inventoryVars PROVE CatalogueInv'
  <1>1. ASSUME NEW s \in GraphSource, NEW id \in Product, NEW cells \in Cells, RowAdded(s, [id |-> id, cells |-> cells]) PROVE CatalogueInv'
    <2>a. PICK row : row = [id |-> id, cells |-> cells]
      OBVIOUS
    <2>b. row \in FeedRow
      BY <2>a DEF FeedRow
    <2>1. PICK rows : rows = Append(feeds[s].rows, row)
      OBVIOUS
    <2>2. rows \in Seq(FeedRow)
      BY <2>1, <2>b DEF CatalogueInv, FeedsTyped
    <2>3. FeedEdited(s, rows)
      BY <1>1, <2>a, <2>1 DEF RowAdded
    <2>4. QED BY <2>2, <2>3, EditKeeps
  <1>2. ASSUME NEW s \in GraphSource, NEW i \in 1..MaxFeed, RowRemoved(s, i) PROVE CatalogueInv'
    <2>1. PICK old : old = feeds[s].rows
      OBVIOUS
    <2>2. old \in Seq(FeedRow)
      BY <2>1 DEF CatalogueInv, FeedsTyped
    <2>3. PICK rows : rows = RemoveAt(old, i)
      OBVIOUS
    <2>4. i \in 1..Len(old)
      BY <1>2, <2>1, <2>2 DEF RowRemoved
    <2>5. rows \in Seq(FeedRow)
      <3>1. SubSeq(old, 1, i - 1) \in Seq(FeedRow) /\ SubSeq(old, i + 1, Len(old)) \in Seq(FeedRow)
        BY <2>2, <2>4
      <3>2. QED BY <2>3, <3>1 DEF RemoveAt
    <2>6. FeedEdited(s, rows)
      BY <1>2, <2>1, <2>3 DEF RowRemoved
    <2>7. QED BY <2>5, <2>6, EditKeeps
  <1>3. ASSUME AgentChanges PROVE CatalogueInv'
    <2>1. UNCHANGED <<feeds, catalogue, steady>>
      BY <1>3 DEF AgentChanges
    <2>2. FeedsTyped' /\ (\A p \in steady' : Stands(p, feeds')) /\ steady' \subseteq steady
      BY <2>1 DEF CatalogueInv, FeedsTyped, Stands
    <2>3. QED BY <2>1, <2>2, FeedsMove
  <1>4. ASSUME ReadDenied PROVE CatalogueInv'
    BY <1>4, NoReadKeeps DEF ReadDenied
  <1>5. ASSUME ReportTaken PROVE CatalogueInv'
    BY <1>5, NoReadKeeps DEF ReportTaken
  <1>6. ASSUME UNCHANGED inventoryVars PROVE CatalogueInv'
    BY <1>6 DEF inventoryVars, CatalogueInv, FeedsTyped, CatalogueTyped, Stands, ItemsTell, Tells, Untold
  <1>7. QED BY <1>1, <1>2, <1>3, <1>4, <1>5, <1>6, FeedFailureKeeps, IdsKeep, ItemKeeps, EndKeeps DEF InventoryNext

\* A catalogue reported complete and not truncated is whole (inventory.py), for any sources, products,
\* rows and limits.
THEOREM CatalogueIsWhole == InventorySpec => []ListedIsWhole
  <1>1. CatalogueInv => ListedIsWhole
    <2> SUFFICES ASSUME CatalogueInv, ReportComplete, ~TruncatedReport,
                        NEW i \in DOMAIN catalogue.items, NEW p \in steady, p[2].id = catalogue.items[i].id
                 PROVE  Tells(catalogue.items[i], p)
      BY DEF ListedIsWhole, Tells
    <2>1. p[1] \notin catalogue.errors /\ p[1] \notin catalogue.cut
      BY DEF ReportComplete, TruncatedReport
    <2>2. QED BY <2>1 DEF CatalogueInv, ItemsTell
  <1>2. QED BY <1>1, CatalogueStarts, CatalogueStays, PTL DEF InventorySpec
===============================================================================
