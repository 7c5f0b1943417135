----------------------------- MODULE IntentPlan -----------------------------
(***************************************************************************)
(* A planning session: an intent is revised a step at a time and compiled  *)
(* after each revision (nephmeshctl plan, and the propose_compile tool).   *)
(* Offline there is no admission check, so duplicate names, empty lists    *)
(* and non-positive rates reach Compile.                                   *)
(***************************************************************************)
EXTENDS IntentCompile

CONSTANTS
  Names,        \* node names
  ApprovedSets, \* the approved preset lists tried
  Rates,        \* messages per minute and node
  Payloads,     \* declared payload bytes
  MaxNodes      \* bound on the targets of the intent

ASSUME IntentPlanAssumption ==
  /\ Rates \subseteq Int
  /\ Payloads \subseteq Int
  /\ MaxNodes \in Nat
  /\ ApprovedSets \subseteq Seq(STRING)
  /\ None \notin KnownPresets

VARIABLES
  spec,   \* the intent's spec
  result  \* what Compile last returned

planVars == <<spec, result>>

Traffics == [rate : Rates, payload : Payloads]

PlanInit ==
  /\ spec \in [nodes : {<<>>}, approved : ApprovedSets, traffic : {None} \cup Traffics, common : {"common"}]
  /\ result = Compile(spec)

Revise(s) == spec' = s /\ result' = Compile(s)

AddNode(name) ==
  /\ Len(spec.nodes) < MaxNodes
  /\ Revise([spec EXCEPT !.nodes = Append(@, [name |-> name, target |-> Len(@)])])

Retarget(traffic) == Revise([spec EXCEPT !.traffic = traffic])

Approve(approved) == Revise([spec EXCEPT !.approved = approved])

PlanNext ==
  \/ \E name \in Names : AddNode(name)
  \/ \E traffic \in Traffics : Retarget(traffic)
  \/ \E approved \in ApprovedSets : Approve(approved)

PlanSpec == PlanInit /\ [][PlanNext]_planVars

-----------------------------------------------------------------------------

\* An intent is renderable exactly when every declared target can have its own
\* MeshtasticNode at a preset of the approved set: as many proposals as targets,
\* no two with one name, all at the earliest approved preset that is known (a
\* preset before it in the list is not).  compile.go:62-69.
RenderableIsRendered ==
  LET distinct == Cardinality({spec.nodes[i].name : i \in DOMAIN spec.nodes})
      usable == {i \in DOMAIN spec.approved : spec.approved[i] \in KnownPresets}
  IN  /\ result.feasible <=> (distinct = Len(spec.nodes) /\ distinct > 0 /\ usable # {})
      /\ Len(result.proposed) = IF result.feasible THEN distinct ELSE 0
      /\ result.feasible =>
           \E i \in usable :
             /\ \A j \in usable : i <= j
             /\ \A k \in DOMAIN result.proposed :
                  /\ result.proposed[k].preset = spec.approved[i]
                  /\ result.proposed[k].name = spec.nodes[k].name

\* "Renderable" and "fits the channel" are separate verdicts: a verdict on
\* airtime is given only for a fleet that renders and declares traffic, and the
\* percentage shown beside it, rounded to a whole number, contradicts it at no
\* value but the ceiling itself.  compile.go:137-188.
PercentFitsVerdict ==
  LET a == result.airtime
  IN  /\ a.evaluated <=>
           (result.feasible /\ spec.traffic # None /\ spec.traffic.rate > 0)
      /\ a.evaluated /\ a.percent < RecommendedChannelUtilizationPercent => a.within
      /\ a.evaluated /\ a.percent > RecommendedChannelUtilizationPercent => ~a.within
      /\ ~a.evaluated => a.percent = 0

\* The least number of coding blocks that carries the frame's bits, counted out
\* block by block as the Semtech datasheet defines it, gives the same time on
\* air as the closed formula, for every preset and the payload declared.
\* airtime.go:64-99.
ReferenceMicros(p, bytes) ==
  LET bits == 8 * bytes - 4 * p.spreadingFactor + 44
      perBlock == 4 * p.spreadingFactor - (IF 2^p.spreadingFactor * 1000 >= 16 * p.bandwidthHz THEN 8 ELSE 0)
      blocks == CHOOSE n \in 0..bits : n * perBlock >= bits /\ \A m \in 0..(n - 1) : m * perBlock < bits
      quarterSymbols == 4 * 16 + 17 + 4 * (8 + blocks * p.codingRate)
  IN  quarterSymbols * 2^(p.spreadingFactor - 2) * (1000 \div (p.bandwidthHz \div 1000))

TimeOnAirIsSemtech ==
  spec.traffic # None =>
    \A preset \in KnownPresets :
      LET bytes == Payload(spec.traffic) + MeshFrameHeaderBytes
          p == meshtasticPresets[preset]
      IN  TimeOnAir(p, bytes) = ReferenceMicros(p, bytes)

\* An over-budget verdict is authoritative (compile.go:132-136): as long as the
\* preset stays, no revision that only adds load (a target, a higher rate, a
\* bigger payload) turns it into "within budget".
AddsLoad ==
  /\ Len(spec'.nodes) >= Len(spec.nodes)
  /\ result'.selected = result.selected
  /\ spec.traffic # None /\ spec'.traffic # None
  /\ spec'.traffic.rate >= spec.traffic.rate
  /\ Payload(spec'.traffic) >= Payload(spec.traffic)

OverBudgetIsFinal ==
  [][result.airtime.reason = "OverBudget" /\ AddsLoad /\ result'.feasible
       => result'.airtime.reason = "OverBudget"]_planVars
=============================================================================
