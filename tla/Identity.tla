------------------------------- MODULE Identity -------------------------------
(***************************************************************************)
(* The directory (app/identity_store.py and identity_api.py): the members of one *)
(* workspace, their invitations, and the sessions whose refresh token is replaced   *)
(* by its every use.  A session is of the workspace or of the account alone; those    *)
(* that descend from one sign-in are a family, and share its expiry.                    *)
(*                                                                                       *)
(* A session number stands for its tokens: whoever was ever given one may present it,     *)
(* any number of times and in any order.  Passwords, throttles and display data are left    *)
(* out; no code of the repository disables a user or removes a workspace.                     *)
(***************************************************************************)
EXTENDS Integers, Sequences, FiniteSets

CONSTANTS
  Person,         \* people who may have an account
  Founder,        \* the one the workspace was made for, its owner
  WebRequest,     \* requests whose access token is checked before they act
  MaxInvitations, \* bound: invitations
  MaxSessions     \* bound: sessions

ASSUME IdentityAssumption == Founder \in Person /\ MaxInvitations \in Nat /\ MaxSessions \in Nat

VARIABLES
  accounts,   \* p_users
  member,     \* p_memberships: role, active, version (0 for no row)
  invitation, \* p_invitations: [to, by, status], in the order made
  session,    \* p_sessions: [user, place, family, version, revoked], in the order made
  lapsedFamilies, \* families past their expiry
  webRequest, \* memory of the requests: the person a valid access token named
  past        \* history: families ended on purpose, how often each person joined, and
              \* the number of that joining for each session's sign-in

identityVars == <<accounts, member, invitation, session, lapsedFamilies, webRequest, past>>

Nobody == [role |-> "none", active |-> FALSE, version |-> 0]

IdentityInit ==
  /\ accounts = {Founder}
  /\ member = [u \in Person |-> IF u = Founder THEN [role |-> "owner", active |-> TRUE, version |-> 1] ELSE Nobody]
  /\ invitation = << >> /\ session = << >> /\ lapsedFamilies = {}
  /\ webRequest = [w \in WebRequest |-> {}]
  /\ past = [ended |-> {}, joins |-> [u \in Person |-> IF u = Founder THEN 1 ELSE 0], joined |-> << >>]

-----------------------------------------------------------------------------
IsOwner(u) == member[u].active /\ member[u].role = "owner"

\* _session_identity: an account, and a membership in force for a session of the workspace.
MayHold(u, place) == u \in accounts /\ (place = "account" \/ member[u].active)
VersionOf(u, place) == IF place = "account" THEN 0 ELSE member[u].version

\* validate_session.
Valid(s) ==
  /\ ~session[s].revoked /\ session[s].family \notin lapsedFamilies
  /\ MayHold(session[s].user, session[s].place)
  /\ session[s].version = VersionOf(session[s].user, session[s].place)

FamilyOf(s) == {r \in DOMAIN session : session[r].family = session[s].family}
Revoked(S) == [s \in DOMAIN session |-> IF s \in S THEN [session[s] EXCEPT !.revoked = TRUE] ELSE session[s]]
EndFamilies(S) == past' = [past EXCEPT !.ended = @ \union {session[s].family : s \in S}]

\* _new_session: a row of the present version, after those of sessions.
WithNew(sessions, u, place, family) ==
  Append(sessions, [user |-> u, place |-> place, family |-> family, version |-> VersionOf(u, place), revoked |-> FALSE])

-----------------------------------------------------------------------------
\* create_invitation: owners alone, and never to be an owner.
Invite(actor, u) ==
  /\ IsOwner(actor) /\ Len(invitation) < MaxInvitations
  /\ invitation' = Append(invitation, [to |-> u, by |-> actor, status |-> "open"])
  /\ UNCHANGED <<accounts, member, session, lapsedFamilies, webRequest, past>>

InvitationExpires(i) ==
  /\ invitation[i].status = "open" /\ invitation' = [invitation EXCEPT ![i].status = "expired"]
  /\ UNCHANGED <<accounts, member, session, lapsedFamilies, webRequest, past>>

\* accept_invitation, or register_with_invitation by who has no account: while its author is still
\* an owner.  A member stays what he is.
Accept(i) ==
  LET u == invitation[i].to
  IN /\ invitation[i].status = "open" /\ IsOwner(invitation[i].by)
     /\ invitation' = [invitation EXCEPT ![i].status = "accepted"]
     /\ accounts' = accounts \union {u}
     /\ IF member[u].active THEN UNCHANGED <<member, past>>
        ELSE /\ member' = [member EXCEPT ![u] = [role |-> "operator", active |-> TRUE, version |-> @.version + 1]]
             /\ past' = [past EXCEPT !.joins[u] = @ + 1]
     /\ UNCHANGED <<session, lapsedFamilies, webRequest>>

\* revoke_membership: any member but the last owner; his sessions of the workspace go with it.
RevokeMember(actor, u) ==
  /\ IsOwner(actor) /\ member[u].active
  /\ member[u].role = "owner" => Cardinality({v \in Person : IsOwner(v)}) > 1
  /\ member' = [member EXCEPT ![u].active = FALSE, ![u].version = @ + 1]
  /\ session' = Revoked({s \in DOMAIN session : session[s].user = u /\ session[s].place = "shop"})
  /\ UNCHANGED <<accounts, invitation, lapsedFamilies, webRequest, past>>

-----------------------------------------------------------------------------
CreateSession(u, place) ==
  /\ MayHold(u, place) /\ Len(session) < MaxSessions
  /\ session' = WithNew(session, u, place, Len(session) + 1)
  /\ past' = [past EXCEPT !.joined = Append(@, past.joins[u])]

\* login.
SignIn(u, place) ==
  /\ CreateSession(u, place) /\ UNCHANGED <<accounts, member, invitation, lapsedFamilies, webRequest>>

\* claims: the access token of a valid session; what the request then does is another transaction.
CheckAccess(w, s) ==
  /\ webRequest[w] = {} /\ Valid(s) /\ webRequest' = [webRequest EXCEPT ![w] = {session[s].user}]
  /\ UNCHANGED <<accounts, member, invitation, session, lapsedFamilies, past>>

\* select_workspace.
SelectWorkspace(w) ==
  /\ \E u \in webRequest[w] : CreateSession(u, "shop")
  /\ webRequest' = [webRequest EXCEPT ![w] = {}] /\ UNCHANGED <<accounts, member, invitation, lapsedFamilies>>

\* revoke_all_sessions.
LogOutAll(w) ==
  LET mine == {s \in DOMAIN session : session[s].user \in webRequest[w]}
  IN /\ webRequest[w] # {} /\ session' = Revoked(mine) /\ EndFamilies(mine)
     /\ webRequest' = [webRequest EXCEPT ![w] = {}]
     /\ UNCHANGED <<accounts, member, invitation, lapsedFamilies>>

RequestEnds(w) ==
  /\ webRequest[w] # {} /\ webRequest' = [webRequest EXCEPT ![w] = {}]
  /\ UNCHANGED <<accounts, member, invitation, session, lapsedFamilies, past>>

\* Mutant of Rotate: a token that was replaced is denied, and that is all.
RotateLenient(s) ==
  /\ IF Valid(s)
     THEN /\ Len(session) < MaxSessions
          /\ session' = WithNew(Revoked({s}), session[s].user, session[s].place, session[s].family)
          /\ past' = [past EXCEPT !.joined = Append(@, past.joined[s])]
     ELSE UNCHANGED session /\ EndFamilies({s})
  /\ UNCHANGED <<accounts, member, invitation, lapsedFamilies, webRequest>>

\* rotate_session: the token of a valid session is replaced by the next of its family; one that was
\* replaced, revoked or ran out, or of a membership that changed, ends the family.
Rotate(s) ==
  /\ IF Valid(s)
     THEN /\ Len(session) < MaxSessions
          /\ session' = WithNew(Revoked({s}), session[s].user, session[s].place, session[s].family)
          /\ past' = [past EXCEPT !.joined = Append(@, past.joined[s])]
     ELSE session' = Revoked(FamilyOf(s)) /\ EndFamilies({s})
  /\ UNCHANGED <<accounts, member, invitation, lapsedFamilies, webRequest>>

\* revoke_session.
LogOut(s) ==
  /\ session' = Revoked(FamilyOf(s)) /\ EndFamilies({s})
  /\ UNCHANGED <<accounts, member, invitation, lapsedFamilies, webRequest>>

FamilyLapses(s) ==
  /\ lapsedFamilies' = lapsedFamilies \union {session[s].family}
  /\ UNCHANGED <<accounts, member, invitation, session, webRequest, past>>

IdentityNext ==
  \/ \E actor, u \in Person : Invite(actor, u) \/ RevokeMember(actor, u)
  \/ \E i \in DOMAIN invitation : Accept(i) \/ InvitationExpires(i)
  \/ \E u \in Person, place \in {"account", "shop"} : SignIn(u, place)
  \/ \E w \in WebRequest : \/ SelectWorkspace(w) \/ LogOutAll(w) \/ RequestEnds(w)
                           \/ \E s \in DOMAIN session : CheckAccess(w, s)
  \/ \E s \in DOMAIN session : Rotate(s) \/ LogOut(s) \/ FamilyLapses(s)

IdentitySpec == IdentityInit /\ [][IdentityNext]_identityVars

-----------------------------------------------------------------------------
\* identity_store.py:1, "session-family fencing": a session that is accepted is the only one of its family
\* that is not revoked; no token of the family was presented after it had been replaced, nor was the
\* family logged out; and a session of the workspace descends from a sign-in of this very membership,
\* not of one that was revoked and given again.
AccessIsCurrent ==
  \A s \in DOMAIN session : Valid(s) =>
    /\ \A r \in FamilyOf(s) \ {s} : session[r].revoked
    /\ session[s].family \notin past.ended
    /\ session[s].place = "shop" => past.joined[s] = past.joins[session[s].user]

\* revoke_membership's last-owner guard: the workspace always has an owner.
OwnerRemains == \E u \in Person : IsOwner(u)
=============================================================================
