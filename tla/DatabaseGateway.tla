---------------------------- MODULE DatabaseGateway ----------------------------
(***************************************************************************)
(* Reads and approved writes of a customer's database                           *)
(* (platform_runtime/database).  A write is one record's insert or update, names   *)
(* the version it expects, is planned and approved with a fingerprint of the whole   *)
(* configuration, is entered in p_database_dispatch before the transport is called      *)
(* and is never sent again.  The customer's own programs write the same records.         *)
(* Whether a step is running, leased and approved is TaskEngine's; here it may be           *)
(* withdrawn at any time.                                                                    *)
(***************************************************************************)
EXTENDS Integers, FiniteSets, Sequences

CONSTANTS
  DbTenant, DbKey,  \* owners of records, record keys
  DbStep,           \* steps that write
  RequestOf,        \* the request of each step: [op, tenant, key, expected, legal]
  DbDriver,         \* transports the connection may name, chosen once
  DbTable,          \* what the database says of the resource's table
  MaxEdits, MaxDbGeneration, MaxDbDeaths \* bounds

ASSUME DatabaseAssumption ==
  /\ \A s \in DbStep :
       RequestOf[s].op \in {"insert", "update"} /\ RequestOf[s].tenant \in DbTenant /\ RequestOf[s].key \in DbKey
  /\ {"customer", "nobody"} \intersect DbStep = {}

VARIABLES
  driver,     \* the connection's transport
  generation, \* of its configuration: any edit of it is another one
  dbApproved, \* the fingerprint each step was approved with; 0 is none
  granted,    \* the step is running, leased and its approval consumed
  dispatch,   \* p_database_dispatch
  transports, \* the transport's call of a step
  store,      \* the customer's records
  edits, deathsDb

dbVars == <<driver, generation, dbApproved, granted, dispatch, transports, store, edits, deathsDb>>

DbRows == DbTenant \X DbKey
Absent == [there |-> FALSE, version |-> 0, mine |-> 0, theirs |-> 0, seq |-> 0, by |-> "nobody"]
NoSending == [pc |-> "idle"]

DatabaseInit ==
  /\ driver \in DbDriver /\ generation = 1 /\ edits = 0 /\ deathsDb = 0
  /\ dbApproved = [s \in DbStep |-> 0] /\ granted = [s \in DbStep |-> FALSE]
  /\ dispatch = [s \in DbStep |-> "none"] /\ transports = [s \in DbStep |-> NoSending]
  /\ store = [r \in DbRows |-> Absent]

-----------------------------------------------------------------------------
(* What each transport makes of a write.                                    *)

\* selector: the record of the tenant, of the key and, for an update, of the version expected.
Hits(rec, request) ==
  IF request.op = "insert" THEN ~rec.there ELSE rec.there /\ rec.version = request.expected

\* mutations, and the version a statement sets: one, or one more than was expected.
Applied(s, rec, request) ==
  [rec EXCEPT !.there = TRUE, !.mine = request.expected + 1, !.seq = @ + 1, !.by = s,
              !.version = IF request.op = "insert" THEN 1 ELSE @ + 1]

ByCount(rec, request) == IF Hits(rec, request) THEN "lands" ELSE "conflict"
Forbid(refused, rec, request) == IF refused THEN "forbidden" ELSE ByCount(rec, request)

\* _sqlite_schema, sqlite_execute: one immediate transaction, and an authorizer over it.
Sqlite(t, rec, request) == Forbid(t.kind # "table" \/ ~t.fields \/ t.trigger \/ t.foreign \/ ~t.unique, rec, request)
\* postgres_execute, mysql_execute: the table is locked and looked at in the write's transaction.
Postgres(t, rec, request) == Forbid(t.kind # "table" \/ t.trigger \/ ~t.unique, rec, request)
Mysql(t, rec, request) == Forbid(t.kind # "table" \/ t.trigger \/ ~t.unique, rec, request)
\* sqlserver_execute and oracle_execute: looked at again once locked.
Sqlserver(t, rec, request) == Forbid(t.kind # "table" \/ ~t.fields \/ t.trigger \/ ~t.unique, rec, request)
Oracle(t, rec, request) == Forbid(t.kind # "table" \/ ~t.fields \/ t.trigger \/ ~t.unique, rec, request)
\* mongodb_execute: an index decides of an insert, the filter of an update; no upsert.
Mongodb(t, rec, request) == Forbid(t.kind # "table" \/ ~t.unique, rec, request)
\* dynamodb_execute, redis_execute, cassandra_execute: one conditional write of the store.
Dynamodb(t, rec, request) == Forbid(t.kind # "table" \/ ~t.unique \/ ~t.fields, rec, request)
Redis(t, rec, request) == ByCount(rec, request)
Cassandra(t, rec, request) == Forbid(t.kind # "table" \/ ~t.unique \/ ~t.fields, rec, request)
\* neo4j_execute: a uniqueness constraint, and a match on the version.
Neo4j(t, rec, request) == Forbid(~t.unique, rec, request)

OneStep == {"sqlite_managed", "postgres_managed", "mysql_managed", "mariadb_managed", "sqlserver_managed",
            "oracle_managed", "mongodb_managed", "dynamodb_managed", "redis_managed", "cassandra_managed", "neo4j_managed"}
TransportVerdict(d, t, rec, request) ==
  CASE d = "sqlite_managed" -> Sqlite(t, rec, request)
    [] d = "postgres_managed" -> Postgres(t, rec, request)
    [] d \in {"mysql_managed", "mariadb_managed"} -> Mysql(t, rec, request)
    [] d = "sqlserver_managed" -> Sqlserver(t, rec, request)
    [] d = "oracle_managed" -> Oracle(t, rec, request)
    [] d = "mongodb_managed" -> Mongodb(t, rec, request)
    [] d = "dynamodb_managed" -> Dynamodb(t, rec, request)
    [] d = "redis_managed" -> Redis(t, rec, request)
    [] d = "cassandra_managed" -> Cassandra(t, rec, request)
    [] d = "neo4j_managed" -> Neo4j(t, rec, request)

\* elasticsearch_execute reads the document, then writes it whole, its own values over it.
\* Mutant of IndexFits: nothing says the document is still the one that was read.
IndexFitsAnything(rec, read) == rec.there
\* The store refuses an index whose sequence is not the one read.
IndexFits(rec, read) == rec.there /\ rec.seq = read.seq
ElasticAdmits(t) == t.kind = "table" /\ t.fields /\ ~t.trigger

-----------------------------------------------------------------------------
RowOf(s) == <<RequestOf[s].tenant, RequestOf[s].key>>
Keep == UNCHANGED <<driver, deathsDb, edits>>

\* The owner edits the connection; a person approves a step with the fingerprint of its request
\* and of the configuration as it is; the engine grants the step and withdraws it.
ConnectionEdited ==
  /\ generation < MaxDbGeneration /\ generation' = generation + 1 /\ Keep
  /\ UNCHANGED <<dbApproved, granted, dispatch, transports, store>>
Approved(s) ==
  /\ dbApproved[s] = 0 /\ RequestOf[s].legal /\ Keep
  /\ dbApproved' = [dbApproved EXCEPT ![s] = generation] /\ granted' = [granted EXCEPT ![s] = TRUE]
  /\ UNCHANGED <<generation, dispatch, transports, store>>
Withdrawn(s) ==
  /\ granted[s] /\ granted' = [granted EXCEPT ![s] = FALSE] /\ Keep
  /\ UNCHANGED <<generation, dbApproved, dispatch, transports, store>>

\* A customer's program writes the record: its own fields, with the version it keeps or without.
CustomerWrites(r, bump) ==
  LET rec == store[r]
  IN /\ edits < MaxEdits /\ edits' = edits + 1
     /\ store' = [store EXCEPT ![r] =
          IF rec.there THEN [rec EXCEPT !.theirs = edits + 1, !.seq = rec.seq + 1, !.by = "customer",
                                        !.version = IF bump THEN rec.version + 1 ELSE rec.version]
          ELSE [there |-> TRUE, version |-> 1, mine |-> 0, theirs |-> edits + 1, seq |-> rec.seq + 1, by |-> "customer"]]
     /\ UNCHANGED <<driver, generation, dbApproved, granted, dispatch, transports, deathsDb>>

\* prepare and tool_write: the fingerprint still fits, the step is the engine's, and no row says
\* it was dispatched.
Dispatchable(s) == granted[s] /\ dbApproved[s] = generation /\ dispatch[s] = "none"
Dispatch(s) ==
  /\ transports[s].pc = "idle" /\ Dispatchable(s) /\ Keep
  /\ dispatch' = [dispatch EXCEPT ![s] = "dispatching"]
  /\ transports' = [transports EXCEPT ![s] = [pc |-> IF driver \in OneStep \/ RequestOf[s].op = "insert" THEN "send" ELSE "get"]]
  /\ UNCHANGED <<generation, dbApproved, granted, store>>

\* elasticsearch_execute, update: the document of the version expected, or a Conflict.
GetDocument(s) ==
  LET rec == store[RowOf(s)]
  IN /\ transports[s].pc = "get" /\ Keep
     /\ transports' = [transports EXCEPT ![s] =
          IF ElasticAdmits(DbTable) /\ Hits(rec, RequestOf[s]) THEN [pc |-> "send", read |-> rec]
          ELSE [pc |-> "told", fine |-> FALSE]]
     /\ UNCHANGED <<generation, dbApproved, granted, dispatch, store>>

\* Whether the call lands, and what is written: the record with the request's values; of a
\* document, the one that was read with them.
Lands(s, rec) ==
  IF driver \in OneStep THEN TransportVerdict(driver, DbTable, rec, RequestOf[s]) = "lands"
  ELSE IF RequestOf[s].op = "insert" THEN ElasticAdmits(DbTable) /\ ~rec.there
  ELSE IndexFits(rec, transports[s].read)
Written(s, rec) ==
  IF driver \in OneStep \/ RequestOf[s].op = "insert" THEN Applied(s, rec, RequestOf[s])
  ELSE [Applied(s, transports[s].read, RequestOf[s]) EXCEPT !.seq = rec.seq + 1]

\* The transport's call: it lands or not, and its answer may be lost.
Send(s, lands, answered) ==
  LET rec == store[RowOf(s)]
  IN /\ transports[s].pc = "send" /\ Keep /\ (lands => Lands(s, rec))
     /\ (~lands => (~answered \/ ~Lands(s, rec)))
     /\ store' = IF lands THEN [store EXCEPT ![RowOf(s)] = Written(s, rec)] ELSE store
     /\ transports' = [transports EXCEPT ![s] = [pc |-> "told", fine |-> lands /\ answered]]
     /\ UNCHANGED <<generation, dbApproved, granted, dispatch>>

\* tool_write, the end: committed with a receipt, or uncertain whatever went wrong.
DbSettled(s) ==
  /\ transports[s].pc = "told" /\ Keep
  /\ dispatch' = [dispatch EXCEPT ![s] = IF transports[s].fine THEN "committed" ELSE "uncertain"]
  /\ transports' = [transports EXCEPT ![s] = NoSending]
  /\ UNCHANGED <<generation, dbApproved, granted, store>>

\* A worker dies in the call: the row stays 'dispatching'.
SenderDies(s) ==
  /\ transports[s].pc # "idle" /\ deathsDb < MaxDbDeaths /\ deathsDb' = deathsDb + 1
  /\ transports' = [transports EXCEPT ![s] = NoSending]
  /\ UNCHANGED <<driver, generation, dbApproved, granted, dispatch, store, edits>>

DatabaseNext ==
  \/ ConnectionEdited
  \/ \E s \in DbStep : Approved(s) \/ Withdrawn(s) \/ Dispatch(s) \/ GetDocument(s) \/ DbSettled(s) \/ SenderDies(s)
  \/ \E s \in DbStep, lands \in BOOLEAN, answered \in BOOLEAN : Send(s, lands, answered)
  \/ \E r \in DbRows, bump \in BOOLEAN : CustomerWrites(r, bump)

DatabaseSpec == DatabaseInit /\ [][DatabaseNext]_dbVars
-----------------------------------------------------------------------------
(* A write lands once, on the record of its own tenant and on the version it was approved for, *)
(* and changes nothing the customer's programs wrote meanwhile: an update makes one more of the    *)
(* version it names, an insert only what was not there (tool_write: "Database step already         *)
(* dispatched; reconcile instead of retrying"; if_seq_no of elasticsearch_execute).                 *)
NothingOverwritten ==
  [][\A r \in DbRows, s \in DbStep : store'[r] # store[r] /\ store'[r].by = s =>
       /\ r = RowOf(s) /\ dispatch[s] = "dispatching"
       /\ IF RequestOf[s].op = "insert" THEN ~store[r].there
          ELSE /\ store[r].there /\ store[r].version = RequestOf[s].expected
               /\ store'[r].version = store[r].version + 1 /\ store'[r].theirs = store[r].theirs]_dbVars
-----------------------------------------------------------------------------
(* Configurations and requests, as the contract reads them: pure.           *)

\* validate_config: who may do what over which isolation; a protected field is never writable.
ValidDb(c, tenant, agent, capability) ==
  /\ c.version = "1.1" /\ c.enabled /\ c.lifecycle \in {"configured", "healthy", "degraded"}
  /\ c.generation \in Nat \ {0} /\ agent \in c.agents
  /\ c.caps # {} /\ c.caps \subseteq {"read", "plan_write", "execute_write"} /\ capability \in c.caps
  /\ \/ c.isolation = "tenant_column" /\ c.bound = "none"
     \/ c.isolation = "dedicated_database" /\ c.bound = tenant /\ c.scope = {}
  /\ c.protected \intersect c.writable = {} /\ c.protected \ c.scope \subseteq c.readable
  /\ c.writable \subseteq c.readable /\ ~c.inline

\* normalize: the fields of an operation, those of the resource, a limit, a version.
DbRequestFits(c, request, maxInteger) ==
  /\ request.op \in {"read", "insert", "update"}
  /\ request.op = "read" =>
       request.fields # {} /\ request.fields \subseteq c.readable /\ request.limit \in 1..100
  /\ request.op # "read" => request.keyed /\ request.fields # {} /\ request.fields \subseteq c.writable
  /\ request.op = "update" => request.expected \in 1..maxInteger

\* validate_endpoint: a host of the allowlist, a port, verified TLS, and no system database.
ValidEndpoint(e) == e.listed /\ e.host = "good" /\ e.port \in 1..65535 /\ e.credential /\ e.tls /\ ~e.system

\* _rows: a result above its bytes is an error, never a cut list.
Shown(sizes, cellLimit, limit) ==
  LET Upto[n \in 0..Len(sizes)] == IF n = 0 THEN 0 ELSE Upto[n - 1] + sizes[n]
  IN (\A n \in DOMAIN sizes : sizes[n] <= cellLimit) /\ Upto[Len(sizes)] <= limit
=============================================================================
