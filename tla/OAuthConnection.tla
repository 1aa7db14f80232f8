---------------------------- MODULE OAuthConnection ----------------------------
(***************************************************************************)
(* One provider connection of a tenant (platform_runtime/oauth.py): authorize,  *)
(* exchange, refresh, store, revoke.  No call to the provider is inside a        *)
(* transaction; a generation and an attempt fence what comes back late; an        *)
(* outcome nobody learned asks for a new authorization, never for another try.    *)
(*                                                                             *)
(* A token is the provider's refresh token, numbered as issued; 0 is none.        *)
(***************************************************************************)
EXTENDS Naturals

CONSTANTS
  OAuthCall,         \* threads that complete, access, or drain revocations
  MaxConnGeneration, MaxTokens \* bounds: the connection's generation, what the provider issues

VARIABLES
  conn,     \* p_oauth_connections: [status, gen, token, attempt, aged]
  consent,  \* p_oauth_states: the generation an unconsumed state is for, 0 when none
  revocs,   \* p_oauth_revocations, one row per token: token -> [status, attempt, aged]
  call,     \* memory of the threads
  issued,   \* the provider: how many refresh tokens it issued
  doubtful  \* history: tokens sent to be refreshed whose answer nobody has read

oauthVars == <<conn, consent, revocs, call, issued, doubtful>>

NoCall == [pc |-> "idle", gen |-> 0, old |-> 0, new |-> 0]

OAuthInit ==
  /\ conn = [status |-> "none", gen |-> 0, token |-> 0, attempt |-> {}, aged |-> FALSE]
  /\ consent = 0 /\ issued = 0 /\ revocs = << >> /\ doubtful = {}
  /\ call = [p \in OAuthCall |-> NoCall]

-----------------------------------------------------------------------------
Queued == DOMAIN revocs
Step(p, pc) == call' = [call EXCEPT ![p] = [@ EXCEPT !.pc = pc]]
Over(p) == call' = [call EXCEPT ![p] = NoCall]
PutRevoc(t, row) == revocs' = [u \in Queued \union {t} |-> IF u = t THEN row ELSE revocs[u]]
QueueRevoke(t) == PutRevoc(t, [status |-> "pending", attempt |-> {}, aged |-> FALSE])

\* Erased and fenced: nothing of the old generation can be stored any more.
Fenced(status) == [conn EXCEPT !.status = status, !.gen = @ + 1, !.token = 0, !.attempt = {}]

\* begin: not while a revocation is open, nor over a connection that is active or in flight.
Begin ==
  /\ conn.status \notin {"active", "refreshing", "exchanging"} /\ conn.gen < MaxConnGeneration
  /\ \A t \in Queued : revocs[t].status = "confirmed"
  /\ conn' = Fenced("authorizing") /\ consent' = conn.gen + 1
  /\ UNCHANGED <<revocs, call, issued, doubtful>>

\* complete, first transaction: the state is consumed and the attempt recorded.
CompleteCallback(p) ==
  /\ call[p].pc = "idle" /\ consent = conn.gen /\ conn.status = "authorizing"
  /\ consent' = 0
  /\ conn' = [conn EXCEPT !.status = "exchanging", !.attempt = {p}, !.aged = FALSE]
  /\ call' = [call EXCEPT ![p] = [NoCall EXCEPT !.pc = "asking", !.gen = conn.gen]]
  /\ UNCHANGED <<revocs, issued, doubtful>>

\* access, first transaction, when the access token is about to expire: the lease of a refresh.
Access(p) ==
  /\ call[p].pc = "idle" /\ conn.status = "active"
  /\ conn' = [conn EXCEPT !.status = "refreshing", !.attempt = {p}, !.aged = FALSE]
  /\ call' = [call EXCEPT ![p] = [NoCall EXCEPT !.pc = "asking", !.gen = conn.gen, !.old = conn.token]]
  /\ doubtful' = doubtful \union {conn.token}
  /\ UNCHANGED <<consent, revocs, issued>>

\* The provider's answer is read: a token that is new, or of a refresh the same again; whether
\* its scopes, its size and its account are what was asked for decides store or fail.
TokensAnswered(p, fresh, good) ==
  /\ call[p].pc = "asking" /\ (fresh \/ call[p].old # 0)
  /\ fresh => issued < MaxTokens
  /\ issued' = IF fresh THEN issued + 1 ELSE issued
  /\ call' = [call EXCEPT ![p] =
       [@ EXCEPT !.pc = IF good THEN "store" ELSE "fail", !.new = IF fresh THEN issued + 1 ELSE call[p].old]]
  /\ doubtful' = doubtful \ {call[p].old}
  /\ UNCHANGED <<conn, consent, revocs>>

\* invalid_grant is an answer too; a transport failure is none, whatever the provider did.
NotAnswered(p, rejected) ==
  /\ call[p].pc = "asking" /\ Step(p, IF rejected THEN "rejected" ELSE "fail")
  /\ doubtful' = IF rejected THEN doubtful \ {call[p].old} ELSE doubtful
  /\ UNCHANGED <<conn, consent, revocs, issued>>

Mine(p) == conn.gen = call[p].gen /\ conn.attempt = {p}

\* _store: the owner, the session and the configuration are still those of the attempt, and
\* nobody fenced it.
Store(p) ==
  /\ call[p].pc = "store" /\ Mine(p)
  /\ conn' = [conn EXCEPT !.status = "active", !.token = call[p].new, !.attempt = {}]
  /\ Over(p) /\ UNCHANGED <<consent, revocs, issued, doubtful>>

StoreRefused(p) ==
  /\ call[p].pc = "store" /\ Step(p, "fail")
  /\ UNCHANGED <<conn, consent, revocs, issued, doubtful>>

\* _failure: if the attempt is still the connection's, its credential is erased.
Failure(p) ==
  /\ call[p].pc \in {"fail", "rejected"}
  /\ conn' = IF ~Mine(p) THEN conn
             ELSE [conn EXCEPT !.token = 0, !.attempt = {},
                     !.status = IF call[p].pc = "rejected" THEN "reauth_required" ELSE "uncertain"]
  /\ IF call[p].pc = "fail" /\ call[p].new # 0 THEN Step(p, "cleanup") ELSE Over(p)
  /\ UNCHANGED <<consent, revocs, issued, doubtful>>

\* _cleanup_issued: what the provider issued and cannot be used is queued to be revoked; a vault
\* that fails leaves only the audit's word.
CleanupIssued(p) ==
  /\ call[p].pc = "cleanup" /\ Over(p)
  /\ QueueRevoke(call[p].new) \/ UNCHANGED revocs
  /\ UNCHANGED <<conn, consent, issued, doubtful>>

\* _drain_revoke: one call at a time, but for one that seems dead for two minutes.
DrainRevoke(p, t) ==
  /\ call[p].pc = "idle" /\ revocs[t].status # "confirmed"
  /\ revocs[t].status = "inflight" => revocs[t].aged
  /\ PutRevoc(t, [status |-> "inflight", attempt |-> {p}, aged |-> FALSE])
  /\ call' = [call EXCEPT ![p] = [NoCall EXCEPT !.pc = "revoking", !.old = t]]
  /\ UNCHANGED <<conn, consent, issued, doubtful>>

RevokeAnswered(p, status) ==
  LET t == call[p].old
  IN /\ call[p].pc = "revoking" /\ Over(p)
     /\ revocs' = IF revocs[t].attempt = {p}
                  THEN [revocs EXCEPT ![t] = [@ EXCEPT !.status = status, !.attempt = {}]] ELSE revocs
     /\ UNCHANGED <<conn, consent, issued, doubtful>>

\* revoke by the owner: the credential is queued for the provider, or it was not asked for or
\* cannot be read, and is erased here in any case.
Revoke(remote) ==
  /\ conn.status \notin {"none", "revoked"} /\ conn.gen < MaxConnGeneration
  /\ conn' = Fenced("revoked") /\ consent' = 0
  /\ IF remote /\ conn.token # 0 THEN QueueRevoke(conn.token) ELSE UNCHANGED revocs
  /\ UNCHANGED <<call, issued, doubtful>>

\* Mutant of RecoverStale: the lease is stolen and the stored token tried again.
RecoverStaleSteal ==
  /\ conn.status \in {"refreshing", "exchanging"} /\ conn.aged /\ conn.gen < MaxConnGeneration
  /\ conn' = [conn EXCEPT !.gen = @ + 1, !.attempt = {}, !.status = IF conn.token # 0 THEN "active" ELSE "uncertain"]
  /\ UNCHANGED <<consent, revocs, call, issued, doubtful>>

\* recover_stale: an attempt older than two minutes is fenced, never stolen.
RecoverStale ==
  /\ conn.status \in {"refreshing", "exchanging"} /\ conn.aged /\ conn.gen < MaxConnGeneration
  /\ conn' = Fenced("uncertain") /\ UNCHANGED <<consent, revocs, call, issued, doubtful>>

AttemptAges ==
  /\ \/ conn.status \in {"refreshing", "exchanging"} /\ ~conn.aged
        /\ conn' = [conn EXCEPT !.aged = TRUE] /\ UNCHANGED revocs
     \/ UNCHANGED conn /\ \E t \in Queued :
          revocs[t].status = "inflight" /\ ~revocs[t].aged /\ revocs' = [revocs EXCEPT ![t].aged = TRUE]
  /\ UNCHANGED <<consent, call, issued, doubtful>>

CallDies(p) ==
  /\ call[p].pc # "idle" /\ Over(p)
  /\ UNCHANGED <<conn, consent, revocs, issued, doubtful>>

OAuthNext ==
  \/ Begin \/ RecoverStale \/ AttemptAges
  \/ \E remote \in BOOLEAN : Revoke(remote)
  \/ \E p \in OAuthCall :
       \/ CompleteCallback(p) \/ Access(p) \/ Store(p) \/ StoreRefused(p) \/ Failure(p)
       \/ CleanupIssued(p) \/ CallDies(p)
       \/ \E fresh, good \in BOOLEAN : TokensAnswered(p, fresh, good)
       \/ \E rejected \in BOOLEAN : NotAnswered(p, rejected)
       \/ \E t \in Queued : DrainRevoke(p, t)
       \/ \E status \in {"confirmed", "uncertain"} : RevokeAnswered(p, status)

OAuthSpec == OAuthInit /\ [][OAuthNext]_oauthVars

-----------------------------------------------------------------------------
(* "Ambiguous exchange or refresh failures require reauthorization, never a blind     *)
(* token re-dispatch": the token of an active connection, which the next access sends  *)
(* to the provider, is not one whose last refresh nobody knows the end of, nor one      *)
(* that was queued to be revoked, whoever crashed, came late or was fenced between.      *)
ActiveTokenIsSound ==
  conn.status = "active" =>
    /\ conn.token # 0 /\ conn.token \notin doubtful
    /\ conn.token \notin Queued
=============================================================================
