------------------------- MODULE ProductionReports -------------------------
(***************************************************************************)
(* What is made, and how well: manufacturing.py and oee.py.                  *)
(***************************************************************************)
EXTENDS Registers

(***************************************************************************)
(* Bills of material, cycle times and yield reported from registers            *)
(* (platform_runtime/manufacturing.py).  A station or product 0 is a blank name.   *)
(***************************************************************************)

\* bom: rows are [parent, component, quantity, scrap]; the lines of one product, or of all (0).
Bom(rows, product, limit) ==
  LET Line(row) == row.parent # 0 /\ row.component # 0
      Asked(row) == Line(row) /\ (product = 0 \/ row.parent = product)
      asked == SelectSeq(rows, Asked)
  IN [lines |-> ShownRows(asked, limit), truncated |-> Truncated(asked, limit),
      products |-> {row.parent : row \in {r \in ToSet(rows) : Line(r)}},
      unreadable |-> Count(asked, LAMBDA row: ~IsNumber(row.quantity))
                     + Count(ShownRows(asked, limit), LAMBDA row: IsJunk(row.scrap)),
      skipped |-> Count(rows, LAMBDA row: ~Line(row))]

\* cycle: rows are [station, duration, standard]; a mean, compared with a declared standard only.
Cycle(rows, station, limit) ==
  LET Asked(row) == row.station # 0 /\ (station = 0 \/ row.station = station)
      Timed(row) == Asked(row) /\ IsNumber(row.duration) /\ Number(row.duration) >= 0
      Sample(s) == SelectSeq(rows, LAMBDA row: Timed(row) /\ row.station = s)
      Standard(s) ==
        SelectSeq(Sample(s), LAMBDA row: IsNumber(row.standard) /\ Number(row.standard) >= 0)
      Record(s) ==
        [station |-> s, samples |-> Len(Sample(s)),
         total |-> Total(Sample(s), LAMBDA row: Number(row.duration)),
         standard |-> IF Standard(s) = << >> THEN Blank ELSE Last(Standard(s)).standard]
      stations == {Record(row.station) : row \in {r \in ToSet(rows) : Timed(r)}}
      More(a, b) == a.samples > b.samples \/ (a.samples = b.samples /\ a.station < b.station)
  IN [stations |-> Top(stations, More, limit), truncated |-> Cardinality(stations) > limit,
      unreadable |-> Count(rows, LAMBDA row: Asked(row) /\ ~Timed(row)),
      skipped |-> Count(rows, LAMBDA row: row.station = 0)]

\* A yield needs one defect count read, and none that cannot be.
Computable(made) ==
  /\ Count(made, LAMBDA row: IsNumber(row.defect)) > 0
  /\ Count(made, LAMBDA row: IsJunk(row.defect)) = 0

\* yield_report: rows are [station, output, defect]; good is known when the yield is.
Yield(rows, station, limit) ==
  LET Asked(row) == row.station # 0 /\ (station = 0 \/ row.station = station)
      Made(s) == SelectSeq(rows, LAMBDA row: row.station = s /\ IsNumber(row.output))
      Output(s) == Total(Made(s), LAMBDA row: Number(row.output))
      Defect(s) == Total(Made(s), LAMBDA row: IF IsNumber(row.defect) THEN Number(row.defect) ELSE 0)
      Impossible(s) == Computable(Made(s)) /\ Defect(s) > Output(s)
      Record(s) ==
        [station |-> s, output |-> Output(s),
         good |-> IF Computable(Made(s)) /\ Output(s) > 0 /\ ~Impossible(s)
                  THEN <<Output(s) - Defect(s)>> ELSE Blank]
      names == {row.station : row \in {r \in ToSet(rows) : Asked(r) /\ IsNumber(r.output)}}
      More(a, b) == a.output > b.output \/ (a.output = b.output /\ a.station < b.station)
      listed == Top({Record(s) : s \in names}, More, limit)
  IN [stations |-> listed, truncated |-> Cardinality(names) > limit,
      impossible |-> Cardinality({i \in DOMAIN listed : Impossible(listed[i].station)}),
      unreadableOutput |-> Count(rows, LAMBDA row: Asked(row) /\ IsJunk(row.output)),
      skipped |-> Count(rows, LAMBDA row: row.station = 0)]

-----------------------------------------------------------------------------
(***************************************************************************)
(* OEE and its andon board (platform_runtime/oee.py).  A row is                 *)
(* [station, planned, run, ideal, produced, good] of cells; fractions are pairs     *)
(* <<numerator, denominator>>, Blank when a factor cannot be computed.                *)
(***************************************************************************)

\* What a station's rows add up to: the last readable plan and ideal cycle, the plan of the
\* register where a row has none, and the sums of the cells that were read.
Planned(rows, default) ==
  LET plan == FoldLeft(LAMBDA got, row:
                IF IsNumber(row.planned) /\ Number(row.planned) > 0 THEN row.planned
                ELSE IF row.planned = Blank /\ got = Blank THEN default ELSE got, Blank, rows)
  IN plan
Usable(cell) == IsNumber(cell) /\ Number(cell) >= 0
Summed(rows, Cell(_)) ==
  LET used == SelectSeq(rows, LAMBDA row: Usable(Cell(row)))
  IN IF used = << >> THEN Blank ELSE <<Total(used, LAMBDA row: Number(Cell(row)))>>
Ideal(rows) ==
  LET used == SelectSeq(rows, LAMBDA row: IsNumber(row.ideal) /\ Number(row.ideal) > 0)
  IN IF used = << >> THEN Blank ELSE Last(used).ideal

Inputs(rows, default) ==
  [planned |-> Planned(rows, default), run |-> Summed(rows, LAMBDA row: row.run),
   ideal |-> Ideal(rows), produced |-> Summed(rows, LAMBDA row: row.produced),
   good |-> Summed(rows, LAMBDA row: row.good)]

Positive(cell) == IsNumber(cell) /\ Number(cell) > 0
Availability(in) ==
  IF Positive(in.planned) /\ IsNumber(in.run) THEN <<Number(in.run), Number(in.planned)>> ELSE Blank
Performance(in) ==
  IF Positive(in.run) /\ IsNumber(in.ideal) /\ IsNumber(in.produced)
  THEN <<Number(in.ideal) * Number(in.produced), Number(in.run)>> ELSE Blank

\* _factor_quality: good above produced is a data error, never a quality.
Quality(in) ==
  IF Positive(in.produced) /\ IsNumber(in.good) /\ Number(in.good) <= Number(in.produced)
  THEN <<Number(in.good), Number(in.produced)>> ELSE Blank

\* The product of the factors, only when all three are known.
Oee(in) ==
  LET a == Availability(in)  p == Performance(in)  q == Quality(in)
  IN IF Blank \in {a, p, q} THEN Blank ELSE <<a[1] * p[1] * q[1], a[2] * p[2] * q[2]>>

\* _missing_inputs: of the factors not computed, what was absent and what could not be used.
MissingInputs(in) ==
  LET need == (IF Availability(in) = Blank THEN {"planned", "run"} ELSE {})
              \union (IF Performance(in) = Blank THEN {"ideal", "run", "produced"} ELSE {})
              \union (IF Quality(in) = Blank THEN {"produced", "good"} ELSE {})
      absent == {name \in need : in[name] = Blank}
  IN [absent |-> absent,
      unusable |-> {name \in need \ absent :
        IF name = "good" THEN in.produced # Blank /\ Number(in.good) > Number(in.produced)
        ELSE Number(in[name]) <= 0}]

\* report: one record a station, the most productive first.
OeeReport(rows, default, limit) ==
  LET Of(s) == SelectSeq(rows, LAMBDA row: row.station = s)
      Record(s) == LET in == Inputs(Of(s), default)
                   IN [station |-> s, samples |-> Len(Of(s)), inputs |-> in, oee |-> Oee(in),
                       availability |-> Availability(in), performance |-> Performance(in),
                       quality |-> Quality(in), missing |-> MissingInputs(in)]
      names == {row.station : row \in ToSet(rows)} \ {0}
      Made(r) == IF r.inputs.produced = Blank THEN 0 ELSE Number(r.inputs.produced)
      More(a, b) == Made(a) > Made(b) \/ (Made(a) = Made(b) /\ a.station < b.station)
  IN [stations |-> Top({Record(s) : s \in names}, More, limit),
      truncated |-> Cardinality(names) > limit,
      skipped |-> Count(rows, LAMBDA row: row.station = 0)]

\* andon: the declared bound, in percent, that a station's metric breaks; an unknown one is
\* not evaluated, and is no breach.
Breach(ratio, bound) ==
  IF 100 * ratio[1] > bound.above * ratio[2] THEN "above"
  ELSE IF 100 * ratio[1] < bound.below * ratio[2] THEN "below" ELSE "none"
Andon(report, thresholds) ==
  LET asked == {<<i, key>> : i \in DOMAIN report.stations, key \in DOMAIN thresholds}
      blind == {q \in asked : report.stations[q[1]][q[2]] = Blank}
  IN [breaches |-> {q \in asked \ blind :
                      Breach(report.stations[q[1]][q[2]], thresholds[q[2]]) # "none"},
      notEvaluated |-> blind, complete |-> ~report.truncated]
=============================================================================
