--------------------------- MODULE PlantReports ---------------------------
(***************************************************************************)
(* Where things are and what cameras see there: assets.py and vision.py.   *)
(***************************************************************************)
EXTENDS Registers

(***************************************************************************)
(* The declared hierarchy of plants, lines and machines                         *)
(* (platform_runtime/assets.py).  A path is a sequence of segments, 0 one that is   *)
(* no name; only a path of the full depth is an asset's identity, a shorter one       *)
(* names a node above it.  Collected is what the business graph read: ids, of which      *)
(* those that are no identity are passed over.                                            *)
(***************************************************************************)

AllNames(path) == path # << >> /\ 0 \notin ToSet(path)

\* _declared_levels: distinct names, at least one, within the ceiling; none declared is refused.
LevelsFit(levels, maxLevels) ==
  /\ Len(levels) \in 1..maxLevels /\ AllNames(levels) /\ Cardinality(ToSet(levels)) = Len(levels)

\* parse_path and prefix_path.
IsAssetPath(depth, path) == AllNames(path) /\ Len(path) = depth
IsNodePath(depth, path) == AllNames(path) /\ Len(path) <= depth

\* is_descendant: strictly below, segment by segment and never as text.
Below(parent, path) == Len(path) > Len(parent) /\ IsPrefix(parent, path)

\* _placeable.
Placed(depth, collected) == {path \in collected : IsAssetPath(depth, path)}

\* tree: the nodes on the way to each asset below the root.  Both bounds given, the root's own
\* depth is counted twice, and more levels come back than were asked for.
Tree(depth, collected, root, asked) ==
  LET keep == IF root # << >> /\ asked # 0 THEN Len(root) + asked ELSE IF asked # 0 THEN asked ELSE depth
      deepest == IF depth <= Len(root) + keep THEN depth ELSE Len(root) + keep
  IN {SubSeq(path, 1, cut) : path \in {p \in Placed(depth, collected) : IsPrefix(root, p)},
                             cut \in (Len(root) + 1)..deepest}

\* Identities in the order of their text, which here is that of their segments.
Sooner(a, b) == \E k \in DOMAIN b : (\A j \in 1..(k - 1) : j \in DOMAIN a /\ a[j] = b[j])
                                     /\ (k \notin DOMAIN a \/ a[k] < b[k])

\* children: the nodes one below an inner node, each with how many assets stand under it, the
\* first of them up to the limit; a leaf has none to ask for.
ChildrenAsked(depth, parent) == IsNodePath(depth, parent) /\ Len(parent) < depth
Children(depth, collected, parent, limit) ==
  LET under == {path \in Placed(depth, collected) : Below(parent, path)}
      nodes == {SubSeq(path, 1, Len(parent) + 1) : path \in under}
      Child(node) == [path |-> node, assets |-> Cardinality({path \in under : IsPrefix(node, path)})]
      ordered == SetToSortSeq({Child(node) : node \in nodes}, LAMBDA a, b: Sooner(a.path, b.path))
  IN [children |-> SubSeq(ordered, 1, IF Len(ordered) <= limit THEN Len(ordered) ELSE limit),
      count |-> Len(ordered), truncated |-> Len(ordered) > limit]

\* descendants: the assets below a node; none is below an asset.
Descendants(depth, collected, root, limit) ==
  LET ordered == SetToSortSeq({path \in Placed(depth, collected) : Below(root, path)}, Sooner)
  IN [descendants |-> SubSeq(ordered, 1, IF Len(ordered) <= limit THEN Len(ordered) ELSE limit),
      count |-> Len(ordered), truncated |-> Len(ordered) > limit]

\* resolve: an asset is registered when some source said anything of it.
Registered(depth, path, observed) == IsAssetPath(depth, path) /\ observed # {}

-----------------------------------------------------------------------------
(***************************************************************************)
(* Camera events reported from registers (platform_runtime/vision.py): station   *)
(* events to any agent, person events to a led one after the operator took on the    *)
(* legal duty.  A row is [station, class, day]: station 0 and class "" are blank, day 0   *)
(* is no date.  Bound is the set of stations whose text is an asset's path.               *)
(***************************************************************************)

\* _register: a register of persons names the classes that are persons.
VisionRegisterFits(entry) ==
  /\ entry.sensitivity \in {"station", "person", "biometric"}
  /\ entry.sensitivity # "station" => entry.persons # {}

\* person_classes: of all registers, so that what one calls a person no other reports.
Identifying(registers) == UNION {entry.persons : entry \in registers}
IsPerson(row, registers) == row.class # "" /\ row.class \in Identifying(registers)

\* _window: a bound 0 is none; with one, a row without a date is outside.
InPeriod(day, since, until) ==
  (since = 0 /\ until = 0) \/ (day # 0 /\ (since = 0 \/ since <= day) /\ (until = 0 \/ day <= until))

\* _scan: the rows of the register's own kind, those in the period that stand at an asset
\* listed up to the limit.
Scan(rows, entry, registers, bound, since, until, limit) ==
  LET Named(row) == row.station # 0 /\ row.class # ""
      Ours(row) == Named(row) /\ (IsPerson(row, registers) <=> entry.sensitivity # "station")
      Matched(row) == Ours(row) /\ row.day # 0 /\ InPeriod(row.day, since, until)
      Standing(row) == Matched(row) /\ row.station \in bound
      events == SelectSeq(rows, Standing)
  IN [events |-> ShownRows(events, limit), count |-> Count(rows, Matched),
      unbound |-> Count(rows, LAMBDA row: Matched(row) /\ ~Standing(row)),
      undated |-> Count(rows, LAMBDA row: Ours(row) /\ row.day = 0),
      skipped |-> Count(rows, LAMBDA row: ~Named(row)), truncated |-> Truncated(events, limit)]

\* _require_human_led: biometric data after the acknowledgement, and by a led agent only.
PersonEventsAllowed(entry, ladder) == entry.ack /\ ladder = "human_led"

\* station_event and person_event: the first register declared of that sensitivity.
RegisterOf(registers, sensitivity) == {entry \in registers : entry.sensitivity = sensitivity}
PersonEvents(rows, entry, registers, bound, since, until, limit, ladder) ==
  IF PersonEventsAllowed(entry, ladder) THEN <<Scan(rows, entry, registers, bound, since, until, limit)>>
  ELSE << >>

\* summary: counts by class and by station, persons left out whatever register they stand in.
VisionSummary(rows, registers, since, until, limit) ==
  LET Kept(row) == row.station # 0 /\ row.class # "" /\ ~IsPerson(row, registers)
      In(row) == Kept(row) /\ row.day # 0 /\ InPeriod(row.day, since, until)
      kept == {rows[i] : i \in {k \in DOMAIN rows : In(rows[k])}}
      Of(s) == [station |-> s, count |-> Count(rows, LAMBDA row: In(row) /\ row.station = s)]
      stations == {Of(row.station) : row \in kept}
      More(a, b) == a.count > b.count \/ (a.count = b.count /\ a.station < b.station)
  IN [byClass |-> [c \in {row.class : row \in kept} |-> Count(rows, LAMBDA row: In(row) /\ row.class = c)],
      byStation |-> Top(stations, More, limit), truncated |-> Cardinality(stations) > limit,
      undated |-> Count(rows, LAMBDA row: Kept(row) /\ row.day = 0),
      skipped |-> Count(rows, LAMBDA row: ~Kept(row))]
=============================================================================
