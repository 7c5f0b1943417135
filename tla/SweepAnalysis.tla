--------------------------- MODULE SweepAnalysis ---------------------------
(***************************************************************************)
(* The reduction of a power sweep to numbers per band and to emissions     *)
(* (spectrum.go, classify.go).                                             *)
(*                                                                         *)
(* A sweep is a sequence of rows, one per stretch of spectrum and pass.    *)
(* Powers and frequencies are integers, frequencies in half hertz because  *)
(* a bin stands at the centre of its step.  A sample that is no finite     *)
(* number is Absent.  Means and confidences are left out: nothing is decided *)
(* by them.                                                                *)
(***************************************************************************)
EXTENDS Integers, Sequences, SequencesExt, FiniteSetsExt

CONSTANTS
  Bands,                \* a sequence of [low, high]
  NoiseFloorPercentile, ThresholdMarginDB,        \* Options
  PresentDutyPercent, SustainedDutyPercent,       \* ClassifyOptions
  WidebandHz,
  DefaultStep,          \* the spacing assumed of a lone bin
  Absent

ASSUME SweepAnalysisAssumption ==
  /\ Bands \in Seq([low : Nat, high : Nat])
  /\ {NoiseFloorPercentile, ThresholdMarginDB, PresentDutyPercent,
      SustainedDutyPercent, WidebandHz, DefaultStep} \subseteq Int

-----------------------------------------------------------------------------
(* Order *)

\* What place numbers from 1 on, as the sequence in that order.
InPlace(place) == [k \in 1..Cardinality(DOMAIN place) |-> CHOOSE x \in DOMAIN place : place[x] = k]

\* A finite set of integers, ascending.
Ascending(S) == InPlace([x \in S |-> Cardinality({y \in S : y <= x})])

Sorted(values) ==
  LET before(i, j) == values[i] < values[j] \/ (values[i] = values[j] /\ i <= j)
      at == InPlace([j \in DOMAIN values |-> Cardinality({i \in DOMAIN values : before(i, j)})])
  IN [k \in DOMAIN at |-> values[at[k]]]

\* The elements at the positions kept, in the order they had.
Keep(seq, kept) == LET at == Ascending(kept) IN [k \in DOMAIN at |-> seq[at[k]]]

-----------------------------------------------------------------------------
(* Parsing *)

\* Mutant: the samples that parsed are counted, not their columns.
BinPacked(row, j) ==
  LET parsed == Cardinality({i \in 1..j : row.powers[i] # Absent})
  IN [freq |-> 2 * row.low + row.width * (2 * parsed - 1), power |-> row.powers[j]]

Bin(row, j) == [freq |-> 2 * row.low + row.width * (2 * j - 1), power |-> row.powers[j]]

\* The samples that are numbers, by row and column.  A row too short, or with a
\* header that is no number, has no powers.
Cells(rows) ==
  UNION {{i} \X {j \in DOMAIN rows[i].powers : rows[i].powers[j] # Absent} : i \in DOMAIN rows}

ParseSweep(rows) ==
  LET before(p, q) == p[1] < q[1] \/ (p[1] = q[1] /\ p[2] <= q[2])
      at == InPlace([q \in Cells(rows) |-> Cardinality({p \in Cells(rows) : before(p, q)})])
  IN [k \in DOMAIN at |-> Bin(rows[at[k][1]], at[k][2])]

Within(freq, band) == freq >= band.low /\ freq < band.high

InBand(bins, band) == Keep(bins, {i \in DOMAIN bins : Within(bins[i].freq, band)})

-----------------------------------------------------------------------------
(* Occupancy *)

\* The nearest rank of a sequence that is not empty.
Percentile(values, p) ==
  Sorted(values)[IF p <= 0 THEN 1 ELSE IF p >= 100 THEN Len(values)
                 ELSE (p * Len(values) + 99) \div 100]

Powers(bins) == [i \in DOMAIN bins |-> bins[i].power]

Above(powers, threshold) == Cardinality({i \in DOMAIN powers : powers[i] > threshold})

Threshold(noise) == noise + ThresholdMarginDB

Uncovered == [BinCount |-> 0, OccupiedBins |-> 0, NoiseFloorDB |-> 0, MaxDB |-> 0,
              PeakFreqHz |-> 0]

\* The first of the strongest bins is the peak.
Analyze(bins, band) ==
  LET inside == InBand(bins, band)
      powers == Powers(inside)
      noise == Percentile(powers, NoiseFloorPercentile)
      maxDB == Max(Range(powers))
  IN IF inside = <<>> THEN Uncovered
     ELSE [BinCount |-> Len(inside), OccupiedBins |-> Above(powers, Threshold(noise)),
           NoiseFloorDB |-> noise, MaxDB |-> maxDB,
           PeakFreqHz |-> inside[Min({i \in DOMAIN powers : powers[i] = maxDB})].freq]

AnalyzeBands(bins) == [i \in DOMAIN Bands |-> Analyze(bins, Bands[i])]

-----------------------------------------------------------------------------
(* Emissions *)

\* One series of powers per frequency.
PowersAt(bins, f) == Powers(Keep(bins, {i \in DOMAIN bins : bins[i].freq = f}))

GridStep(freqs) ==
  LET gaps == Sorted([i \in 1..(Len(freqs) - 1) |-> freqs[i + 1] - freqs[i]])
  IN IF gaps = <<>> THEN DefaultStep ELSE gaps[Len(gaps) \div 2 + 1]

\* The run's own spacing; a single bin has no measured width.
Bandwidth(run, step) ==
  IF Len(run) < 2 THEN 0
  ELSE Last(run) - Head(run) + (Last(run) - Head(run)) \div (Len(run) - 1)

\* duty is <<samples above, samples>> of the busiest bin of the run.
Class(width, duty) ==
  IF width >= WidebandHz THEN "wideband"
  ELSE IF 100 * duty[1] >= SustainedDutyPercent * duty[2] THEN "continuous" ELSE "packet"

Busiest(duties) == CHOOSE d \in duties : \A e \in duties : d[1] * e[2] >= e[1] * d[2]

\* Adjacent bins with an emitter, no further apart than one and a half steps,
\* are one emission.
Classify(bins, band) ==
  LET inside == InBand(bins, band)
      freqs  == Ascending({inside[i].freq : i \in DOMAIN inside})
      floors == [i \in DOMAIN freqs |->
                   Percentile(PowersAt(inside, freqs[i]), NoiseFloorPercentile)]
      threshold == Threshold(Percentile(floors, NoiseFloorPercentile))
      duty   == [i \in DOMAIN freqs |->
                   <<Above(PowersAt(inside, freqs[i]), threshold),
                     Len(PowersAt(inside, freqs[i]))>>]
      step   == GridStep(freqs)
      present(i) == i \in DOMAIN freqs /\ 100 * duty[i][1] >= PresentDutyPercent * duty[i][2]
      joined(i) == present(i) /\ present(i + 1) /\ 2 * (freqs[i + 1] - freqs[i]) <= 3 * step
      runs   == {r \in (DOMAIN freqs) \X (DOMAIN freqs) :
                   /\ r[1] <= r[2] /\ present(r[1])
                   /\ \A k \in r[1]..(r[2] - 1) : joined(k)
                   /\ ~joined(r[1] - 1) /\ ~joined(r[2])}
      emission(i, j) ==
        LET width == Bandwidth(SubSeq(freqs, i, j), step)
        IN [LowHz |-> freqs[i], HighHz |-> freqs[j], BandwidthHz |-> width,
            PeakDB |-> Max(UNION {Range(PowersAt(inside, freqs[k])) : k \in i..j}),
            Class |-> Class(width, Busiest({duty[k] : k \in i..j}))]
  IN IF inside = <<>> THEN {} ELSE {emission(r[1], r[2]) : r \in runs}
=============================================================================
