------------------------------ MODULE ReportChecks ------------------------------
(***************************************************************************)
(* What the report tools must not do, over every small register: lose a row     *)
(* without counting it, call a cut list whole, report a person as a thing, a call    *)
(* as consented or an efficiency as known.  The operators are pure, so each            *)
(* assumption is evaluated once; limits are small enough to cut.                         *)
(***************************************************************************)
EXTENDS Registers, WorkReports, ProductionReports, PlantReports, Telephony, Knowledge, Connectors

CellKinds == {Blank, Junk, <<0>>, <<1>>, <<3>>}
Upto(S, n) == UNION {[1..k -> S] : k \in 0..n}
ListLimits == 1..2
-----------------------------------------------------------------------------
(* Registers: attendance, workload, bills of material, cycle times, yield.  *)

AttendanceRow == [who : 0..1, status : {"", "sick", "here"}, hours : {Blank}, due : {Blank}]
LabelSets == [absent : {{}, {"sick"}}, done : {{}, {"here"}}, open : {{}, {"sick"}}]

(* Every row of an attendance register is absent, present or counted as skipped, whatever the   *)
(* statuses declared (workforce.py, attendance: an undeclared status is present and named).        *)
ASSUME EveryAttendanceCounted == \A rows \in Upto(AttendanceRow, 3), entry \in LabelSets, limit \in ListLimits :
  LET r == Attendance(rows, entry, limit)
  IN /\ r.absentCount + r.present + r.skipped = Len(rows)
     /\ r.truncated <=> r.absentCount > Len(r.absent)

ShiftRow == [who : 0..1, status : {""}, hours : {Blank, <<1>>}, due : {Blank}]
(* A list of shifts that does not say it was cut holds every named row, and a cut one is full.    *)
ASSUME ShiftsCutAreSaid == \A rows \in Upto(ShiftRow, 4), limit \in ListLimits :
  LET r == Shifts(rows, limit)
  IN IF r.truncated THEN Len(r.shifts) = limit
     ELSE Len(r.shifts) + r.skipped = Len(rows) /\ r.unreadable <= Len(r.shifts)

WorkRow == [who : 0..2, status : {"", "sick", "here"}, hours : {Blank}, due : {Blank, Junk, <<1>>}]
(* The open and the overdue work of the people listed is the register's, unless people were cut, *)
(* and what is overdue is open and has a date (workforce.py, workload).                             *)
ASSUME WorkloadAddsUp == \A rows \in Upto(WorkRow, 2), entry \in LabelSets, limit \in ListLimits :
  LET r == Workload(rows, entry, 2, limit)
      sum(Of(_)) == FoldSeq(LAMBDA p, n: n + Of(p), 0, r.people)
      open == sum(LAMBDA p: p.open)
      overdue == sum(LAMBDA p: p.overdue)
  IN /\ overdue <= open /\ open <= r.openCount /\ overdue <= r.overdueCount
     /\ ~r.truncated => open = r.openCount /\ overdue = r.overdueCount
     /\ r.overdueCount + r.unparsable <= r.openCount

PartRow == [parent : 0..2, component : 0..1, quantity : {Junk, <<1>>}, scrap : {Blank, Junk}]
(* A bill of one product holds lines of that product alone, and the products it names beside it  *)
(* are the whole register's (manufacturing.py, bom).                                                *)
ASSUME BomOfItsProduct == \A rows \in Upto(PartRow, 2), product \in 0..2, limit \in ListLimits :
  LET r == Bom(rows, product, limit)
  IN /\ \A line \in ToSet(r.lines) : product # 0 => line.parent = product
     /\ ~r.truncated /\ product = 0 => Len(r.lines) + r.skipped = Len(rows)
     /\ {line.parent : line \in ToSet(r.lines)} \subseteq r.products

CycleRow == [station : 0..2, duration : {Blank, <<-1>>, <<1>>, <<3>>}, standard : {Blank, <<-1>>, <<2>>}]
(* A station's mean is over readable times alone: every row is a sample, unreadable or skipped,   *)
(* and no negative time or standard is used (manufacturing.py, cycle).                             *)
ASSUME CycleSamplesCounted == \A rows \in Upto(CycleRow, 2), limit \in ListLimits :
  LET r == Cycle(rows, 0, limit)
      samples == FoldSeq(LAMBDA s, n: n + s.samples, 0, r.stations)
  IN /\ ~r.truncated => samples + r.unreadable + r.skipped = Len(rows)
     /\ \A s \in ToSet(r.stations) : s.samples > 0 /\ s.total >= s.samples /\ s.standard # <<-1>>

YieldRow == [station : 0..1, output : {Blank, Junk, <<0>>, <<3>>}, defect : {Blank, Junk, <<1>>, <<4>>}]
(* A good count is given only between nothing and the output, and never of a station one of whose *)
(* defect counts could not be read (manufacturing.py, _yield_figure).                                *)
ASSUME YieldWithinOutput == \A rows \in Upto(YieldRow, 2), limit \in ListLimits :
  LET r == Yield(rows, 0, limit)
  IN \A s \in ToSet(r.stations) : s.good # Blank =>
       /\ s.good[1] \in 0..s.output
       /\ ~\E row \in ToSet(rows) : row.station = s.station /\ IsNumber(row.output) /\ IsJunk(row.defect)
-----------------------------------------------------------------------------
(* OEE.                                                                     *)

OeeInputs == [planned : CellKinds, run : CellKinds, ideal : CellKinds, produced : CellKinds, good : CellKinds]
Given == {in \in OeeInputs : \A f \in DOMAIN in : ~IsJunk(in[f])}
(* An efficiency is given exactly when no input is named as missing or unusable, and then a       *)
(* quality is at most one (oee.py, _missing_inputs and _factor_quality).                              *)
ASSUME OeeKnownOrExplained == \A in \in Given :
  LET m == MissingInputs(in)
  IN /\ (Oee(in) = Blank) <=> (m.absent \union m.unusable # {})
     /\ Oee(in) # Blank => Quality(in)[1] <= Quality(in)[2]

OeeRow == [station : 0..1, planned : {Blank, <<3>>}, run : {Blank, <<1>>}, ideal : {<<1>>},
           produced : {Junk, <<1>>, <<3>>}, good : {<<1>>}]
Bounds == [oee |-> [above |-> 500, below |-> 60], quality |-> [above |-> 100, below |-> 90]]
(* A metric that was not computed is told as not evaluated and breaks no bound; one that was is    *)
(* within its bounds or told (oee.py, andon).                                                        *)
ASSUME AndonIsBlindOutLoud == \A rows \in Upto(OeeRow, 2) :
  LET report == OeeReport(rows, <<2>>, 2)
      board == Andon(report, Bounds)
  IN \A i \in DOMAIN report.stations, key \in DOMAIN Bounds :
       LET ratio == report.stations[i][key]
       IN IF ratio = Blank THEN <<i, key>> \in board.notEvaluated \ board.breaches
          ELSE (<<i, key>> \notin board.breaches) <=>
                 (100 * ratio[1] <= Bounds[key].above * ratio[2] /\ 100 * ratio[1] >= Bounds[key].below * ratio[2])
-----------------------------------------------------------------------------
(* Calls and consent.                                                       *)

ConsentRow == [number : 0..2, status : {"", "granted", "revoked"}, purpose : {"sales"},
               expiry : {Blank, Junk, <<1>>, <<3>>}, recording : BOOLEAN]
(* A number is called when a legible record of its own grants it today, and it is on the list if  *)
(* there is one; a record nobody can read grants nothing (telephony.py, _consent_index, consent).   *)
ASSUME ConsentIsOnRecord == \A records \in Upto(ConsentRow, 2), number \in 0..2, allowlist \in SUBSET {1} :
  Consented(number, "sales", ConsentIndex(records, 2), allowlist) <=>
    /\ number # 0 /\ (allowlist # {} => number \in allowlist)
    /\ \E r \in ToSet(records) : r.number = number /\ r.status = "granted" /\ ~IsJunk(r.expiry)
                                 /\ ~(IsDay(r.expiry) /\ Number(r.expiry) < 2)

CallRow == [number : 0..1, direction : {"", "inbound", "outbound"}, day : {Blank, <<1>>, <<3>>},
            seconds : {Blank, <<3>>}, outcome : {"answered", "link"}]
Gate == [purpose |-> "sales", allowlist |-> {}, capacity |-> 1]
NoConsent == ConsentIndex(<< >>, 2)
Consent1 == ConsentIndex(<<[number |-> 1, status |-> "granted", purpose |-> "sales", expiry |-> Blank,
                            recording |-> TRUE]>>, 2)
(* No recording's locator leaves a scan; without consent no outbound call is listed as allowed;    *)
(* a count that is not cut is of every usable row (telephony.py, _scan).                              *)
ASSUME CallsAreGated == \A rows \in Upto(CallRow, 2), since \in {Blank, <<2>>}, limit \in ListLimits :
  LET r == CallEvents(rows, NoConsent, Gate, since, Blank, limit)
  IN /\ \A e \in ToSet(r.events) : e.outcome # "link" /\ (e.direction = "outbound" => ~e.consent)
     /\ ~r.truncated => Len(r.events) = r.matched
     /\ since = Blank => r.matched + r.skipped = Len(rows)
     /\ CallSummary(r).calls = Len(r.events)
(* A queue's rows are callable or blocked, and what is above the capacity is callable               *)
(* (telephony.py, queue).                                                                             *)
ASSUME QueueIsSplit == \A rows \in Upto(CallRow, 2), index \in {NoConsent, Consent1}, limit \in ListLimits :
  LET r == Queue(rows, index, Gate, Blank, Blank, limit)
  IN /\ r.callable + r.blocked = Len(r.items) /\ r.overCapacity <= r.callable
     /\ index = NoConsent => r.callable = 0
(* A retention report is of every row and deletes none (telephony.py, retention).                   *)
ASSUME RetentionOnlyReports == \A rows \in Upto(CallRow, 2), window \in 1..3 :
  LET r == Retention(rows, window, 3)
  IN r.past + r.inWindow + r.unaged + r.skipped = Len(rows) /\ r.deleted = 0
-----------------------------------------------------------------------------
(* Assets and cameras.                                                      *)

Paths == Upto(1..2, 3) \ {<< >>}
(* A tree holds every node between its root and each asset, down to the levels asked for when one  *)
(* bound alone is given, and no node without an asset below it (assets.py, tree).                     *)
ASSUME TreeIsClosed == \A collected \in {ToSet(s) : s \in Upto(Paths, 2)}, root \in Upto(1..2, 2), asked \in 0..2 :
  LET tree == Tree(3, collected, root, asked)
  IN /\ \A node \in tree : /\ IsPrefix(root, node) /\ node # root
                           /\ Len(node) > Len(root) + 1 => Front(node) \in tree
                           /\ \E path \in Placed(3, collected) : IsPrefix(node, path)
     /\ asked # 0 /\ root = << >> => \A node \in tree : Len(node) <= asked
     /\ asked = 0 => \A path \in Placed(3, collected) : Below(root, path) => path \in tree
(* The children of a node share out the assets below it: none is lost and none counted twice, and  *)
(* a list of descendants that is not cut holds all of them (assets.py, children and descendants).     *)
ASSUME ChildrenPartition == \A collected \in {ToSet(s) : s \in Upto(Paths, 3)}, parent \in Upto(1..2, 2) :
  LET c == Children(3, collected, parent, 2)
      d == Descendants(3, collected, parent, 2)
  IN /\ ~c.truncated => FoldSeq(LAMBDA child, n: n + child.assets, 0, c.children) = d.count
     /\ d.truncated <=> d.count > Len(d.descendants)

EventRow == [station : 0..2, class : {"", "box", "face"}, day : {0, 1, 3}]
Camera(sensitivity, persons) == [sensitivity |-> sensitivity, persons |-> persons, ack |-> TRUE]
Cameras == {Camera("station", {}), Camera("person", {"face"})}
(* What one register calls a person no report of stations or summary shows, whichever register it  *)
(* stands in; persons are reported to a led agent after the acknowledgement alone (vision.py,         *)
(* person_classes, _require_human_led).                                                                *)
ASSUME PersonsStayApart == \A rows \in Upto(EventRow, 2), since \in {0, 2} :
  LET things == Scan(rows, Camera("station", {}), Cameras, {1}, since, 0, 2)
      persons(ladder) == PersonEvents(rows, Camera("person", {"face"}), Cameras, {1}, since, 0, 2, ladder)
  IN /\ \A e \in ToSet(things.events) : e.class = "box" /\ e.station = 1
     /\ DOMAIN VisionSummary(rows, Cameras, since, 0, 2).byClass \subseteq {"box"}
     /\ persons("autonomous") = << >>
     /\ \A e \in ToSet(persons("human_led")[1].events) : e.class = "face"
     /\ things.count = Len(things.events) + things.unbound
-----------------------------------------------------------------------------
(* Oversight and knowledge.                                                 *)

RunRow == [id : 1..3, agent : {"a", "b"}, status : {"succeeded", "escalated", "running"}, at : {1}, updated : 1..2, calls : {1}]
Tables(S, n) ==
  {T \in {ToSet(rows) : rows \in Upto(S, n)} : \A a, b \in T : a.id = b.id => a = b}
(* A rate of failure is of runs that ended, and only given when one did; the statuses reported add  *)
(* up to the agent's runs (oversight.py, health).                                                      *)
ASSUME HealthAddsUp == \A runs \in Tables(RunRow, 2) :
  LET h == Health({}, runs, {}, "a", FALSE, FALSE)
      mine == {r \in runs : r.agent = "a"}
  IN /\ FoldSet(LAMBDA st, n: n + h.byStatus[st], 0, DOMAIN h.byStatus) = Cardinality(mine)
     /\ h.failed <= h.finished /\ (h.hasRate <=> h.finished > 0)
     /\ \A r \in mine : h.last # << >> /\ h.last[1].updated >= r.updated
EventAt == [id : 1..3, agent : {"a", "b"}, at : 1..2]
(* The newest events are shown, and a list that is not whole says so (oversight.py, activity).       *)
ASSUME ActivityShowsNewest == \A events \in Tables(EventAt, 3), since \in 1..2, limit \in ListLimits :
  LET r == Activity({}, {}, events, "a", since, limit)
      left == {e \in MadeBy(events, "a", since) : e \notin ToSet(r.events)}
  IN (r.truncated <=> left # {}) /\ \A e \in left, s \in ToSet(r.events) : e.at <= s.at
Held == [id : 1..2, at : 1..2, status : {"reserved", "settled", "uncertain"}, amount : 1..2]
(* What is in flight is part of what the ledger holds (oversight.py, cost).                          *)
ASSUME CostAddsUp == \A ledger \in Tables(Held, 2), since \in 1..2 :
  LET r == AgentCost({}, ledger, 0, "a", since)
  IN r.inflight = FoldSet(LAMBDA st, n: n + r.byStatus[st], 0, DOMAIN r.byStatus \intersect HeldStatuses)

(* Chunks cover a text from its first to its last character, each overlapping the one before by     *)
(* what was declared, none larger than the size (knowledge.py, chunks).                                *)
ASSUME ChunksCover == \A length \in 1..12, size \in 2..5 : \A overlap \in 0..(size - 1) :
  LET cut == Chunks(length, size, overlap)
  IN /\ Head(cut).from = 0 /\ Last(cut).to = length
     /\ \A k \in DOMAIN cut : cut[k].to - cut[k].from \in 1..size
     /\ \A k \in 1..(Len(cut) - 1) : cut[k + 1].from = cut[k].to - overlap

Shelf == [embeds |-> FALSE, agents |-> {"a"}, docs |-> << >>]
DocCall == [delete : BOOLEAN, id : 1..2, expected : 0..2]
Called1(c, call) ==
  IF call.delete THEN Deleted(c, call.id, call.expected)
  ELSE Ingested(c, call.id, <<1, 2>>, FALSE, call.expected, 3)
(* Of any two calls that expect one version of a document the first alone is taken, a deletion is a *)
(* version too, and the chunks of a collection stay under its ceiling (knowledge.py, ingest, delete).  *)
ASSUME VersionsAreOnce == \A a, b, c \in DocCall :
  LET one == Called1(Shelf, a)
      two == IF one = << >> THEN << >> ELSE Called1(one[1], b)
      three == IF two = << >> THEN << >> ELSE Called1(two[1], c)
  IN /\ two # << >> => ~(a.id = b.id /\ a.expected = b.expected)
     /\ three # << >> => ~(a.id = c.id /\ a.expected = c.expected)
     /\ three # << >> => PartsOfOthers(three[1], 0) <= 3
                         /\ \A id \in DOMAIN three[1].docs : three[1].docs[id].deleted => three[1].docs[id].parts = << >>
(* A search finds only what scores, once, the best first of what is shown (knowledge.py, search).     *)
ASSUME FoundScores == \A lexical \in [1..3 -> 0..2], similar \in [1..3 -> 0..2], embedded \in BOOLEAN, limit \in ListLimits :
  LET r == Found(lexical, similar, embedded, limit)
  IN /\ \A i \in ToSet(r.matches) : lexical[i] > 0 \/ (embedded /\ similar[i] > 0)
     /\ Cardinality(ToSet(r.matches)) = Len(r.matches) /\ (r.truncated <=> r.matched > Len(r.matches))
     /\ ~embedded => \A i \in 1..3 : i \notin ToSet(r.matches) /\ r.matches # << >> => lexical[i] <= lexical[Last(r.matches)]
-----------------------------------------------------------------------------
(* Read-only connections.                                                   *)

Connection == [enabled : BOOLEAN, lifecycle : {"configured", "revoked"}, driver : ReadOnlyDrivers \union {"rest"},
               caps : SUBSET {"read", "execute_write"}, agents : SUBSET {"a"}]
(* No connection that could write is read as a read-only one, and a revoked or disabled one by       *)
(* nobody (connector_contract.py, descriptor; connector_authority.py, require_read_access).             *)
ASSUME ReadersCannotWrite == \A raw \in Connection, agent \in {"a", "b"} :
  /\ ReadAccess(raw, agent) => "execute_write" \notin raw.caps /\ DescriptorStatus(raw, {}) = "configured_not_live_verified"
  /\ raw.agents = {"a"} => ~ReadAccess(raw, "b")
Sheet(isolation) == [isolation |-> isolation, column |-> IF isolation = "tenant_column" THEN "tenant" ELSE "none",
                     tables |-> [t \in {"orders"} |-> {"tenant", "sum"}]]
Record == [tenant : 1..2, sum : 1..2]
(* A read of a shared table returns the tenant's rows alone, whatever it filters on                   *)
(* (postgres_connector.py, compile_read).                                                               *)
ASSUME RowsOfTheTenant == \A rows \in SUBSET Record, filter \in {"none", "tenant", "sum"}, equals \in 1..2 :
  LET request == [table |-> "orders", columns |-> {"sum"}, filter |-> filter, equals |-> equals, limit |-> 1]
  IN /\ RequestFits(Sheet("tenant_column"), request, 1)
     /\ \A row \in Readable(Sheet("tenant_column"), request, rows, 1) : row.tenant = 1
     /\ filter = "none" => Readable(Sheet("dedicated_database"), request, rows, 1) = rows
=============================================================================
