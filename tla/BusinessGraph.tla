----------------------------- MODULE BusinessGraph -----------------------------
(***************************************************************************)
(* One entity over several sources (platform_runtime/business_graph.py).  An    *)
(* answer is computed from what the sources returned: seen[s] is [up, rows, cut],  *)
(* and a row is [id, cells], a cell 0 being blank.  An entry is [order, attrs,      *)
(* attrOrder]: its sources by priority and, per attribute, an order of its own or     *)
(* none.  Nothing is chosen silently: a conflict has a winner by declared priority     *)
(* only, and a list says whether it was cut.                                            *)
(***************************************************************************)
EXTENDS Integers, FiniteSets, SequencesExt

CONSTANTS MaxScan, MaxMatches \* rows looked at of one source, ids of one answer

ASSUME BusinessGraphAssumption == {MaxScan, MaxMatches} \subseteq Nat \ {0}

FirstOf(seq, n) == SubSeq(seq, 1, IF Len(seq) <= n THEN Len(seq) ELSE n)

\* preflight: the agent holds the tool of every source and may use its connection.
MayAsk(policy, entry) ==
  /\ \A s \in ToSet(entry.order) : s \in policy.tools
  /\ \A s \in ToSet(entry.order) : s \in policy.connections

\* _rows and _source_truncated: what a provider returns is cut where it says so or, since a
\* provider may not, where as many rows came as its limit lets through.
Fetched(feed, limit) ==
  IF ~feed.up THEN [up |-> FALSE, rows |-> << >>, cut |-> FALSE]
  ELSE LET rows == FirstOf(feed.rows, limit)
       IN [up |-> TRUE, rows |-> FirstOf(rows, MaxScan), cut |-> Len(rows) >= limit \/ Len(rows) > MaxScan]

Unread(entry, seen) == {s \in ToSet(entry.order) : ~seen[s].up}
CutSources(entry, seen) == {s \in ToSet(entry.order) : seen[s].cut}

\* The first row of an id is the source's; later ones are not looked at.
OfId(rows, id) == SelectSeq(rows, LAMBDA row: row.id = id)
Matching(entry, seen, id) == {s \in ToSet(entry.order) : OfId(seen[s].rows, id) # << >>}

\* What a sequence holds at some of its positions, in order.
AtPositions(seq, P) == [i \in 1..Cardinality(P) |-> seq[CHOOSE k \in P : Cardinality({m \in P : m < k}) = i - 1]]

\* _collect and _collect_all: what each source, in order, says of an attribute.
Observations(entry, seen, id, attr) ==
  LET Value(s) == Head(OfId(seen[s].rows, id)).cells[attr]
      says == AtPositions(entry.order, {k \in DOMAIN entry.order :
                entry.order[k] \in Matching(entry, seen, id) /\ Value(entry.order[k]) # 0})
  IN [i \in DOMAIN says |-> [source |-> says[i], value |-> Value(says[i])]]

Distinct(values) == {values[i].value : i \in DOMAIN values}
Disputed(values) == Cardinality(Distinct(values)) > 1

\* _primary: the attribute's own order if it has one, else the entity's; the first that is there.
Primary(entry, attr, values) ==
  LET order == IF entry.attrOrder[attr] # << >> THEN entry.attrOrder[attr] ELSE entry.order
      there == SelectSeq(order, LAMBDA s: \E i \in DOMAIN values : values[i].source = s)
  IN IF there # << >> THEN Head(there) ELSE values[1].source

\* _view, of one attribute: what was seen, and what is selected; <<>> is nothing.
Selected(entry, attr, values, rule) ==
  IF values = << >> THEN << >>
  ELSE IF ~Disputed(values) THEN <<values[1]>>
  ELSE IF rule # "primary_wins" THEN << >>
  ELSE SelectSeq(values, LAMBDA v: v.source = Primary(entry, attr, values))

ViewOf(entry, seen, id, rule) ==
  LET values(attr) == Observations(entry, seen, id, attr)
  IN [values |-> [attr \in entry.attrs |-> values(attr)],
      selected |-> [attr \in entry.attrs |-> Selected(entry, attr, values(attr), rule)],
      conflicts |-> {attr \in entry.attrs : Disputed(values(attr))},
      errors |-> Unread(entry, seen), cut |-> CutSources(entry, seen),
      truncated |-> CutSources(entry, seen) \ Matching(entry, seen, id) # {}]

\* identifiers: the ids in order of sources and rows, the first of each, up to the limit.  Whether
\* it was cut, and what could not be read, is said beside them.
AllIds(entry, seen) ==
  LET ofSource(s) == [i \in DOMAIN seen[s].rows |-> seen[s].rows[i].id]
      all == FlattenSeq([i \in DOMAIN entry.order |-> ofSource(entry.order[i])])
      Fresh(i) == all[i] # 0 /\ \A k \in 1..(i - 1) : all[k] # all[i]
      fresh == SelectSeq([i \in DOMAIN all |-> i], Fresh)
  IN [i \in DOMAIN fresh |-> all[fresh[i]]]
Identifiers(entry, seen, limit) ==
  [ids |-> FirstOf(AllIds(entry, seen), limit), cut |-> Len(AllIds(entry, seen)) > limit,
   errors |-> Unread(entry, seen)]

\* search and conflicts walk the first MaxMatches ids; whether there were more is not looked at.
SearchEntities(entry, seen, attr, equals, limit, rule) ==
  LET ids == Identifiers(entry, seen, MaxMatches).ids
      Says(id) == equals \in Distinct(Observations(entry, seen, id, attr))
      found == SelectSeq(ids, Says)
  IN [matches |-> FirstOf(found, limit),
      truncated |-> Len(found) > limit \/ CutSources(entry, seen) # {},
      complete |-> Unread(entry, seen) = {}]

Conflicts(entry, seen, limit, rule) ==
  LET ids == Identifiers(entry, seen, MaxMatches).ids
      ofId(id) == LET attrs == SetToSeq(ViewOf(entry, seen, id, rule).conflicts)
                  IN [i \in DOMAIN attrs |-> <<id, attrs[i]>>]
      found == FlattenSeq([i \in DOMAIN ids |-> ofId(ids[i])])
  IN [conflicts |-> FirstOf(found, limit), scanned |-> Len(ids),
      truncated |-> Len(found) > limit \/ CutSources(entry, seen) # {},
      complete |-> Unread(entry, seen) = {}]

\* explain: who declares the attribute, who was seen to hold it, who is missing.
Explain(entry, seen, id, attr, rule, declares) ==
  LET view == ViewOf(entry, seen, id, rule)
      saw == {view.values[attr][i].source : i \in DOMAIN view.values[attr]}
  IN [observed |-> saw, missing |-> (ToSet(entry.order) \intersect declares) \ saw,
      selected |-> view.selected[attr], complete |-> view.errors = {}, truncated |-> view.truncated]

\* timeline: every row of the id, source after source, up to the limit, where the walk stops: the
\* sources after it are neither read nor said to be unread.
Timeline(entry, seen, id, limit) ==
  LET rowsOf(i) == OfId(seen[entry.order[i]].rows, id)
      Upto(i) == FoldSeq(LAMBDA k, sum: sum + Len(rowsOf(k)), 0, [k \in 1..i |-> k])
      cuts == {i \in DOMAIN entry.order : Upto(i) > limit}
      read == {entry.order[i] : i \in {k \in DOMAIN entry.order : \A c \in cuts : k <= c}}
  IN [events |-> FirstOf(FlattenSeq([i \in DOMAIN entry.order |-> rowsOf(i)]), limit),
      truncated |-> cuts # {} \/ CutSources(entry, seen) \intersect read # {},
      complete |-> Unread(entry, seen) \intersect read = {}]
=============================================================================
