-------------------------- MODULE SpectrumExporter --------------------------
(***************************************************************************)
(* The spectrum exporter: a loop that captures, reduces and publishes one  *)
(* sweep after the other (cmd/spectrum-exporter, internal/specexport),     *)
(* while Prometheus scrapes the registry from another goroutine.           *)
(*                                                                         *)
(* Publish updates one series after the other, and a scrape may read any   *)
(* series at any instant: what holds in every state holds of every value a *)
(* scrape can return.  A series that With makes starts at zero.  The clock *)
(* counts sweeps; an occupancy is kept as the two numbers it divides.      *)
(***************************************************************************)
EXTENDS SweepAnalysis, FiniteSets

CONSTANTS
  Captures,  \* what the sweep tool, or the replayed file, may hold
  MaxSweeps  \* bound of the model: sweeps of one process

ASSUME SpectrumExporterAssumption ==
  /\ MaxSweeps \in Nat
  /\ Captures \subseteq Seq([low : Int, width : Int, powers : Seq(Int \cup {Absent})])

VARIABLES
  pc,        \* where the sweep loop is
  clock,     \* the time of the current sweep
  captured,  \* the rows of the current sweep, until they are published
  stats,     \* their reduction
  todo,      \* the updates Publish has yet to make
  gauges,    \* the registry: metric and band to a value, Absent without a series
  sweeps, sweepErr, lastSweep, \* the counters and the time stamp
  written,   \* history: when each series was last set or deleted
  published  \* history: the reduction of the last sweep that was published

counters == <<sweeps, sweepErr, lastSweep>>
exporterVars == <<pc, clock, captured, stats, todo, gauges, counters, written, published>>

Metrics == <<"bins", "occupancy_percent", "peak_db", "peak_frequency_hz", "noise_floor_db">>
Series == Range(Metrics) \X (DOMAIN Bands)

Reading(metric, s) ==
  CASE metric = "bins" -> <<s.BinCount>>
    [] metric = "occupancy_percent" -> <<s.OccupiedBins, s.BinCount>>
    [] metric = "peak_db" -> <<s.MaxDB>>
    [] metric = "peak_frequency_hz" -> <<s.PeakFreqHz>>
    [] metric = "noise_floor_db" -> <<s.NoiseFloorDB>>

\* Mutant: a band the sweep misses falls through to the values.
ValueOfUncovered(metric, s) == Reading(metric, s)

\* The value a sweep gives a series, Absent if the series is to be deleted.
Value(metric, s) == IF metric # "bins" /\ s.BinCount = 0 THEN Absent ELSE Reading(metric, s)

\* A series With has just made.
Zero(metric) == IF metric = "occupancy_percent" THEN <<0, 1>> ELSE <<0>>

ExporterInit ==
  /\ pc = "waiting" /\ clock = 0 /\ captured = <<>> /\ stats = <<>> /\ todo = <<>>
  /\ gauges = [s \in Series |-> Absent]
  /\ sweeps = 0 /\ sweepErr = 0 /\ lastSweep = 0
  /\ written = [s \in Series |-> 0] /\ published = <<>>

\* At once, then at every tick.
Tick ==
  /\ pc = "waiting" /\ clock < MaxSweeps
  /\ clock' = clock + 1
  /\ pc' = "capture"
  /\ UNCHANGED <<captured, stats, todo, gauges, counters, written, published>>

PublishError ==
  /\ sweepErr' = sweepErr + 1
  /\ pc' = "waiting" /\ captured' = <<>>
  /\ UNCHANGED <<sweeps, lastSweep>>

\* The tool fails, or prints nothing.
CaptureFails ==
  /\ pc = "capture"
  /\ PublishError
  /\ UNCHANGED <<clock, stats, todo, gauges, written, published>>

Capture ==
  /\ pc = "capture"
  /\ \E rows \in Captures : captured' = rows
  /\ pc' = "sense"
  /\ UNCHANGED <<clock, stats, todo, gauges, counters, written, published>>

\* Rows without a single power are no sweep.  A capture of comments has no
\* rows at all, and is a sweep that covers nothing.
NotASweep(rows) == rows # <<>> /\ ParseSweep(rows) = <<>>

SenseFails ==
  /\ pc = "sense"
  /\ NotASweep(captured)
  /\ PublishError
  /\ UNCHANGED <<clock, stats, todo, gauges, written, published>>

\* Bins first, band by band, one series at a time.
AllUpdates == [k \in 1..(Len(Bands) * Len(Metrics)) |->
                 <<Metrics[((k - 1) % Len(Metrics)) + 1], ((k - 1) \div Len(Metrics)) + 1>>]

\* Mutant: a band the sweep misses keeps the frequency of its old peak.
UpdatesWithoutStalePeaks(st) ==
  SelectSeq(AllUpdates, LAMBDA u : ~(u[1] = "peak_frequency_hz" /\ st[u[2]].BinCount = 0))

Updates(st) == AllUpdates

Sense ==
  /\ pc = "sense"
  /\ ~NotASweep(captured)
  /\ stats' = AnalyzeBands(ParseSweep(captured))
  /\ todo' = Updates(stats')
  /\ captured' = <<>>
  /\ pc' = "publish"
  /\ UNCHANGED <<clock, gauges, counters, written, published>>

\* Mutant: the stamp is taken as soon as the bins of the first band are set.
DoneAfterFirst(updates) == Len(updates) < Len(AllUpdates)

Done(updates) == updates = <<>>

Write(series, value) ==
  /\ gauges' = [gauges EXCEPT ![series] = value]
  /\ written' = [written EXCEPT ![series] = clock]
  /\ UNCHANGED <<pc, clock, captured, stats, counters, published>>

\* With makes the series a scrape can see before Set gives it its value.
Create ==
  /\ pc = "publish" /\ ~Done(todo)
  /\ LET u == Head(todo) IN
       /\ gauges[u] = Absent /\ Value(u[1], stats[u[2]]) # Absent
       /\ gauges' = [gauges EXCEPT ![u] = Zero(u[1])]
  /\ UNCHANGED <<pc, clock, captured, stats, todo, counters, written, published>>

Set ==
  /\ pc = "publish" /\ ~Done(todo)
  /\ LET u == Head(todo) IN
       /\ gauges[u] # Absent /\ Value(u[1], stats[u[2]]) # Absent
       /\ Write(u, Value(u[1], stats[u[2]]))
  /\ todo' = Tail(todo)

Delete ==
  /\ pc = "publish" /\ ~Done(todo)
  /\ Value(Head(todo)[1], stats[Head(todo)[2]]) = Absent
  /\ Write(Head(todo), Absent)
  /\ todo' = Tail(todo)

\* The counter and the time stamp come last.
Stamp ==
  /\ pc = "publish" /\ Done(todo)
  /\ sweeps' = sweeps + 1
  /\ lastSweep' = clock
  /\ published' = stats
  /\ stats' = <<>> /\ todo' = <<>>
  /\ pc' = "waiting"
  /\ UNCHANGED <<clock, captured, sweepErr, gauges, written>>

ExporterNext ==
  \/ Tick \/ CaptureFails \/ Capture \/ SenseFails \/ Sense
  \/ Create \/ Set \/ Delete \/ Stamp

ExporterSpec == ExporterInit /\ [][ExporterNext]_exporterVars

-----------------------------------------------------------------------------
(* Properties *)

InsideBand(f, i) == Within(f, Bands[i])

\* A share is out of at least one bin and at most one hundred percent, and a
\* frequency lies in its band, in every value a scrape can read.
TypeOK ==
  /\ pc \in {"waiting", "capture", "sense", "publish"}
  /\ {clock, sweeps, sweepErr, lastSweep} \subseteq 0..MaxSweeps
  /\ \A s \in Series : gauges[s] # Absent =>
       LET v == gauges[s] IN
       CASE s[1] = "occupancy_percent" -> v[2] > 0 /\ v[1] \in 0..v[2]
         [] s[1] = "peak_frequency_hz" -> v = Zero(s[1]) \/ InsideBand(v[1], s[2])
         [] OTHER -> v[1] \in Int
  /\ written \in [Series -> 0..clock]

\* Between sweeps every gauge is the last published reduction's, whatever was
\* captured before it and whatever has failed since, and a band that sweep did
\* not cover has bins at zero and no other series (publisher.go Publish).
GaugesAreLastSweep ==
  pc # "publish" /\ sweeps > 0 =>
    \A i \in DOMAIN Bands :
      LET s == published[i] IN
      /\ gauges[<<"bins", i>>] = <<s.BinCount>>
      /\ IF s.BinCount = 0
         THEN \A m \in Range(Metrics) \ {"bins"} : gauges[<<m, i>>] = Absent
         ELSE /\ gauges[<<"occupancy_percent", i>>] = <<s.OccupiedBins, s.BinCount>>
              /\ gauges[<<"peak_db", i>>] = <<s.MaxDB>>
              /\ gauges[<<"peak_frequency_hz", i>>] = <<s.PeakFreqHz>>
              /\ gauges[<<"noise_floor_db", i>>] = <<s.NoiseFloorDB>>

\* A scrape at any instant finds no value from before the sweep that the time
\* stamp it reads with it names: the stamp comes last (publisher.go Publish).
NeverOlderThanStamped == \A s \in Series : written[s] >= lastSweep

Emissions(rows) == [i \in DOMAIN Bands |-> Classify(ParseSweep(rows), Bands[i])]

\* The samples of a band, counted where the capture holds them.
Measured(i, Test(_)) ==
  LET at(s)    == 2 * captured[s[1]].low + captured[s[1]].width * (2 * s[2] - 1)
      power(s) == captured[s[1]].powers[s[2]]
      samples  == UNION {{r} \X (DOMAIN captured[r].powers) : r \in DOMAIN captured}
  IN Cardinality({s \in samples : InsideBand(at(s), i) /\ power(s) # Absent /\ Test(power(s))})

\* The percentile the floor is taken at: flags and options are not checked.
FloorPercent ==
  IF NoiseFloorPercentile < 0 THEN 0
  ELSE IF NoiseFloorPercentile > 100 THEN 100 ELSE NoiseFloorPercentile

(***************************************************************************)
(* What a band reports is what the capture holds, whatever samples and     *)
(* rows were skipped on the way and in whatever order they came: the noise *)
(* floor parts its samples at the percentile, so never more than the rest  *)
(* of them are occupied; no sample exceeds the peak and one at that        *)
(* frequency reaches it; and an emission called wideband spans half the    *)
(* width asked for, so no single bin is one, wherever the quiet bins lie,  *)
(* and no two emissions share a frequency                                  *)
(* (spectrum.go:143-152, 175-216, classify.go:185-206, 238-249).           *)
(***************************************************************************)
ReportIsMeasured ==
  pc = "sense" =>
    \A i \in DOMAIN Bands :
      LET s == AnalyzeBands(ParseSweep(captured))[i]
          edges(row, j) == {2 * (row.low + row.width * (j - 1)), 2 * (row.low + row.width * j)}
      IN /\ s.BinCount = Measured(i, LAMBDA p : TRUE)
         /\ s.BinCount > 0 =>
              /\ 100 * Measured(i, LAMBDA p : p <= s.NoiseFloorDB) >= FloorPercent * s.BinCount
              /\ \/ Measured(i, LAMBDA p : p < s.NoiseFloorDB) = 0
                 \/ 100 * Measured(i, LAMBDA p : p < s.NoiseFloorDB) < FloorPercent * s.BinCount
              /\ ThresholdMarginDB >= 0 =>
                   100 * s.OccupiedBins <= (100 - FloorPercent) * s.BinCount
              /\ Measured(i, LAMBDA p : p > s.MaxDB) = 0
              /\ \E r \in DOMAIN captured : \E j \in DOMAIN captured[r].powers :
                   /\ captured[r].powers[j] = s.MaxDB
                   /\ \E a, b \in edges(captured[r], j) : a <= s.PeakFreqHz /\ s.PeakFreqHz <= b
         /\ \A e \in Emissions(captured)[i] :
              /\ e.Class = "wideband" => 2 * (e.HighHz - e.LowHz) >= WidebandHz
              /\ \A f \in Emissions(captured)[i] :
                   e # f => e.HighHz < f.LowHz \/ f.HighHz < e.LowHz

-----------------------------------------------------------------------------
(* Why a scrape finds no older sweep *)

Carries(s, st) == gauges[s] = Value(s[1], st[s[2]])

(***************************************************************************)
(* The clock, the stamp and the books are what their names say.            *)
(***************************************************************************)
BooksOK ==
  /\ clock \in Nat /\ sweeps \in Nat /\ lastSweep \in 0..clock
  /\ DOMAIN gauges = Series
  /\ written \in [Series -> 0..clock]

(***************************************************************************)
(* In the middle of Publish a series with no update to come has this       *)
(* sweep's value; between sweeps each has the published one's              *)
(* (publisher.go Publish).                                                 *)
(***************************************************************************)
PublishedUpToHere ==
  /\ todo \in Seq(Series)
  /\ pc = "publish" => \A s \in Series \ Range(todo) : Carries(s, stats) /\ written[s] = clock
  /\ pc # "publish" /\ sweeps > 0 => \A s \in Series : Carries(s, published)
  /\ NeverOlderThanStamped
=============================================================================
