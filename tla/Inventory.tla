------------------------------- MODULE Inventory -------------------------------
(***************************************************************************)
(* Products, stock, prices and margins (platform_runtime/inventory.py), read    *)
(* through the business graph.  A catalogue is one read of the ids and then one    *)
(* read of every source per id, so sources fail, come back and are edited in         *)
(* between.  The attributes are price and cost; -1 is text that is no number.         *)
(***************************************************************************)
EXTENDS BusinessGraph

CONSTANTS
  GraphSource, \* sources of the entity
  GraphEntry,  \* its declaration
  Product,     \* ids, positive numbers
  Cells,       \* what a row may hold: price and cost
  SourceLimit, \* rows each provider returns at most
  ItemLimit,   \* the caller's limit; MAX_ITEMS is MaxMatches
  MaxFeed      \* bound: rows of the sources together

ASSUME InventoryAssumption ==
  /\ Product \subseteq Nat \ {0} /\ GraphSource = ToSet(GraphEntry.order)
  /\ GraphEntry.order \in Seq(GraphSource) /\ {"price", "cost"} \subseteq GraphEntry.attrs
  /\ SourceLimit \in [GraphSource -> Nat \ {0}] /\ ItemLimit \in Nat \ {0} /\ MaxFeed \in Nat

VARIABLES
  feeds,     \* what each source holds, and whether it answers
  allowed,   \* the agent may read the sources
  catalogue, \* the read under way, or its report
  steady     \* history: the rows that have stood, first of their id, since the read began

inventoryVars == <<feeds, allowed, catalogue, steady>>

NoRead == [pc |-> "idle", ids |-> << >>, items |-> << >>, errors |-> {}, cut |-> {}]

InventoryInit ==
  /\ feeds = [s \in GraphSource |-> [up |-> TRUE, rows |-> << >>]]
  /\ allowed = TRUE /\ catalogue = NoRead /\ steady = {}

-----------------------------------------------------------------------------
Seen == [s \in GraphSource |-> Fetched(feeds[s], SourceLimit[s])]

\* _figure and _selected_number: the number selected, of values that were seen.
ReadableCell(cell) == cell > 0
Figure(view, attr) ==
  [values |-> view.values[attr], selected |-> view.selected[attr],
   conflict |-> attr \in view.conflicts]
Settles(figure) == figure.selected # << >> /\ ReadableCell(figure.selected[1].value)

\* _reason: why a figure has no number: nothing seen, a dispute, or text, when another source
\* has a number and when none has.
Reason(figure) ==
  IF figure.values = << >> THEN "blank"
  ELSE IF figure.conflict /\ figure.selected = << >> THEN "conflict"
  ELSE IF Settles(figure) THEN ""
  ELSE IF \E i \in DOMAIN figure.values : ReadableCell(figure.values[i].value) THEN "priority_unreadable"
  ELSE "unread"

\* margin and product: a margin of two figures that both settle, or the reasons it has none.
ProductItem(id, view) ==
  LET price == Figure(view, "price")  cost == Figure(view, "cost")
      reasons == {Reason(price), Reason(cost)} \ {""}
  IN [id |-> id, price |-> price, cost |-> cost, reasons |-> reasons,
      margin |-> IF reasons = {} THEN <<price.selected[1].value - cost.selected[1].value>> ELSE << >>]

-----------------------------------------------------------------------------
\* Somebody edits a register, a provider stops answering or answers again, a policy changes.
\* Bound: not while a finished report waits to be taken, which reads nothing any more.
Moving == catalogue.pc # "report"
RowsOf(f) == {<<s, row>> : s \in GraphSource, row \in UNION {ToSet(f[q].rows) : q \in GraphSource}}
FirstRows(f) == {p \in RowsOf(f) : LET mine == OfId(f[p[1]].rows, p[2].id) IN mine # << >> /\ Head(mine) = p[2]}

FeedEdited(s, rows) ==
  /\ Moving /\ feeds' = [feeds EXCEPT ![s].rows = rows] /\ steady' = steady \intersect FirstRows(feeds')
  /\ UNCHANGED <<allowed, catalogue>>
RowCount == FoldSet(LAMBDA q, sum: sum + Len(feeds[q].rows), 0, GraphSource)
RowAdded(s, row) == RowCount < MaxFeed /\ FeedEdited(s, Append(feeds[s].rows, row))
RowRemoved(s, i) == i \in DOMAIN feeds[s].rows /\ FeedEdited(s, RemoveAt(feeds[s].rows, i))

FeedFails(s) == Moving /\ feeds' = [feeds EXCEPT ![s].up = ~@] /\ UNCHANGED <<allowed, catalogue, steady>>
AgentChanges == Moving /\ allowed' = ~allowed /\ UNCHANGED <<feeds, catalogue, steady>>

\* stock, price, margin of the catalogue: the ids first.  The tool keeps the ids alone: what
\* could not be read and whether the list was cut are dropped here.
ReadIds ==
  /\ catalogue.pc = "idle" /\ allowed
  /\ catalogue' = [NoRead EXCEPT !.pc = "items", !.ids = Identifiers(GraphEntry, Seen, MaxMatches).ids]
  /\ steady' = FirstRows(feeds) /\ UNCHANGED <<feeds, allowed>>

Listed == Len(catalogue.items)
More == Listed < Len(catalogue.ids) /\ Listed < ItemLimit

\* Mutant of ReadItem: what could not be read is told of the last product alone.
ReadItemForgets ==
  /\ catalogue.pc = "items" /\ allowed /\ More
  /\ LET id == catalogue.ids[Listed + 1]
         view == ViewOf(GraphEntry, Seen, id, "primary_wins")
     IN catalogue' = [catalogue EXCEPT !.items = Append(@, ProductItem(id, view)),
                                       !.errors = view.errors, !.cut = @ \union view.cut]
  /\ UNCHANGED <<feeds, allowed, steady>>

\* One id: every source is read again.
ReadItem ==
  /\ catalogue.pc = "items" /\ allowed /\ More
  /\ LET id == catalogue.ids[Listed + 1]
         view == ViewOf(GraphEntry, Seen, id, "primary_wins")
     IN catalogue' = [catalogue EXCEPT !.items = Append(@, ProductItem(id, view)),
                                       !.errors = @ \union view.errors, !.cut = @ \union view.cut]
  /\ UNCHANGED <<feeds, allowed, steady>>

\* An agent that may no longer read gets an error in place of a report.
ReadDenied == catalogue.pc = "items" /\ ~allowed /\ More /\ catalogue' = NoRead /\ UNCHANGED <<feeds, allowed, steady>>

EndRead ==
  /\ catalogue.pc = "items" /\ ~More
  /\ catalogue' = [catalogue EXCEPT !.pc = "report"] /\ UNCHANGED <<feeds, allowed, steady>>
ReportTaken == catalogue.pc = "report" /\ catalogue' = NoRead /\ steady' = {} /\ UNCHANGED <<feeds, allowed>>

ReportComplete == catalogue.errors = {}
TruncatedReport == (Listed >= ItemLimit /\ Len(catalogue.ids) > Listed) \/ catalogue.cut # {}

InventoryNext ==
  \/ \E s \in GraphSource :
       \/ FeedFails(s) \/ \E i \in 1..MaxFeed : RowRemoved(s, i)
       \/ \E id \in Product, cells \in Cells : RowAdded(s, [id |-> id, cells |-> cells])
  \/ AgentChanges \/ ReadIds \/ ReadItem \/ ReadDenied \/ EndRead \/ ReportTaken

InventorySpec == InventoryInit /\ [][InventoryNext]_inventoryVars
-----------------------------------------------------------------------------
Untold(p, figure, attr) ==
  p[2].cells[attr] # 0 /\ ~\E i \in DOMAIN figure.values : figure.values[i] = [source |-> p[1], value |-> p[2].cells[attr]]

(* A catalogue reported complete and not truncated leaves out nothing a source held of the   *)
(* products it lists, as long as that row stood during the whole read: neither a source that   *)
(* failed for one product nor a provider that cuts its rows without saying so goes unsaid        *)
(* (_ceiling, _source_truncated: "a missing value and an unread value must not look the same").  *)
ListedIsWhole ==
  catalogue.pc = "report" /\ ReportComplete /\ ~TruncatedReport =>
    \A i \in DOMAIN catalogue.items, p \in steady :
      p[2].id = catalogue.items[i].id =>
        ~Untold(p, catalogue.items[i].price, "price") /\ ~Untold(p, catalogue.items[i].cost, "cost")
=============================================================================
