------------------------------- MODULE Connectors -------------------------------
(***************************************************************************)
(* Read-only connections to a customer's databases                              *)
(* (platform_runtime/connectors.py, connector_contract.py, connector_authority.py,  *)
(* postgres_connector.py).  A connection is a record of what its configuration says;  *)
(* a request names a table, columns, a limit and at most one column it filters on.      *)
(***************************************************************************)
EXTENDS Integers, FiniteSets, Sequences

ReadOnlyDrivers == {"sqlite_readonly", "postgres_readonly"}
ReadLifecycles == {"configured", "healthy", "degraded"}

\* descriptor: what a catalogue says of a connection; a read-only driver may claim no more.
DescriptorFits(raw) ==
  /\ raw.caps # {} /\ raw.caps \subseteq {"discover", "validate", "read", "plan_write", "execute_write", "reconcile", "revoke"}
  /\ raw.driver \in ReadOnlyDrivers => raw.caps \subseteq {"discover", "validate", "read"}
DescriptorStatus(raw, declarative) ==
  IF ~raw.enabled THEN "disabled" ELSE IF raw.lifecycle = "revoked" THEN "revoked"
  ELSE IF raw.driver \in ReadOnlyDrivers THEN "configured_not_live_verified"
  ELSE IF raw.driver \in declarative THEN "adapter_required" ELSE "unsupported_driver"

\* require_read_access: no agents named is every agent.
ReadAccess(raw, agent) ==
  /\ raw.enabled /\ DescriptorFits(raw) /\ raw.lifecycle \in ReadLifecycles
  /\ raw.driver \in ReadOnlyDrivers /\ "read" \in raw.caps
  /\ raw.agents = {} \/ agent \in raw.agents

\* describe: enabled connections, each by the part of the platform whose driver it is.
Described(connections, managed, crm) ==
  {[name |-> n, mode |-> IF connections[n].driver \in managed THEN "managed"
                         ELSE IF connections[n].driver \in crm THEN "crm"
                         ELSE IF connections[n].driver \in ReadOnlyDrivers THEN "read_only" ELSE "adapter_required"]
   : n \in {m \in DOMAIN connections : connections[m].enabled}}

\* validate_config of PostgreSQL: a listed host, verified TLS, columns for every table, and an
\* isolation: a database of the tenant's own, or a column every table has.
PostgresFits(raw) ==
  /\ raw.host \in raw.hosts /\ raw.tls /\ raw.port \in 1..65535 /\ raw.credential /\ ~raw.system
  /\ DOMAIN raw.tables # {} /\ \A t \in DOMAIN raw.tables : raw.tables[t] # {}
  /\ \/ raw.isolation = "dedicated_database" /\ raw.column = "none"
     \/ raw.isolation = "tenant_column" /\ \A t \in DOMAIN raw.tables : raw.column \in raw.tables[t]

\* compile_read, and the request of read_rows: approved columns, once each, and a filter of one.
RequestFits(raw, request, maxRows) ==
  /\ request.table \in DOMAIN raw.tables
  /\ LET approved == raw.tables[request.table]
     IN request.columns # {} /\ request.columns \subseteq approved
        /\ request.filter \in approved \union {"none"}
  /\ request.limit \in 1..maxRows

\* The rows a compiled read may return: the tenant's own where they share a table.
Readable(raw, request, rows, tenant) ==
  {row \in rows : /\ raw.isolation = "tenant_column" => row[raw.column] = tenant
                  /\ request.filter # "none" => row[request.filter] = request.equals}

\* read_rows and read: base tables, and a result within its bytes, or an error; never a cut list.
\* A cell of binary data is replaced.
ReadRows(kind, sizes, cellLimit, resultLimit) ==
  LET Upto[n \in 0..Len(sizes)] == IF n = 0 THEN 0 ELSE Upto[n - 1] + sizes[n]
  IN kind = "table" /\ (\A n \in DOMAIN sizes : sizes[n] <= cellLimit) /\ Upto[Len(sizes)] <= resultLimit

\* tool_read and probe_read_connection: the agent's policy names the connection; a probe is its
\* owner's, asks for one row, and checks again before it reads.
ToolMayRead(policy, name, raw, agent) == name \in policy.connections /\ ReadAccess(raw, agent)
MayProbe(actorRole, frozen, policy, name, raw, agent) ==
  /\ actorRole \in {"owner", "integrator"} /\ ~frozen /\ ReadAccess(raw, agent)
  /\ agent # "none" => "connectors.read" \in policy.tools /\ name \in policy.connections
=============================================================================
