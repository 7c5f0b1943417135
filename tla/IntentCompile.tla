--------------------------- MODULE IntentCompile ---------------------------
(***************************************************************************)
(* intent.Compile: a CommunicationIntent lowered to the node specs it      *)
(* proposes, with two separate verdicts, whether it can be rendered and    *)
(* whether the fleet fits the channel.  Region, role and channels are      *)
(* copied alike into every proposed spec: one field, common.  A target is  *)
(* a name with what only that node has (connection and owner).             *)
(***************************************************************************)
EXTENDS Airtime, Sequences, FiniteSets

CONSTANT None  \* no expectedTraffic, no preset

NotEvaluated == [evaluated |-> FALSE, within |-> FALSE, percent |-> 0, reason |-> "NoExpectedTraffic"]

\* An unset payload takes the representative size.
Payload(traffic) == IF traffic.payload <= 0 THEN RepresentativeFramePayloadBytes ELSE traffic.payload

\* Mutant: a rate of zero or less is evaluated too.
evaluateAirtimeOfAnyRate(spec, preset, nodeCount) ==
  IF spec.traffic = None THEN NotEvaluated
  ELSE LET airtime == FleetAirtime(preset, nodeCount, spec.traffic.rate, Payload(spec.traffic))
           within == WithinChannelBudget(airtime)
       IN  [evaluated |-> TRUE, within |-> within, percent |-> RoundedPercent(airtime),
            reason |-> IF within THEN "WithinBudget" ELSE "OverBudget"]

evaluateAirtime(spec, preset, nodeCount) ==
  IF spec.traffic = None THEN NotEvaluated
  ELSE IF spec.traffic.rate <= 0 THEN NotEvaluated
  ELSE LET airtime == FleetAirtime(preset, nodeCount, spec.traffic.rate, Payload(spec.traffic))
           within == WithinChannelBudget(airtime)
       IN  [evaluated |-> TRUE, within |-> within, percent |-> RoundedPercent(airtime),
            reason |-> IF within THEN "WithinBudget" ELSE "OverBudget"]

\* A Result with its zero Airtime, whose reason is empty.
Infeasible(reason) ==
  [feasible |-> FALSE, reason |-> reason, selected |-> None, proposed |-> <<>>,
   airtime |-> [evaluated |-> FALSE, within |-> FALSE, percent |-> 0, reason |-> ""]]

\* Mutant: only neighbours are compared.
DuplicateNeighbour(nodes) ==
  \E i \in DOMAIN nodes : i > 1 /\ nodes[i].name = nodes[i - 1].name

DuplicateName(nodes) ==
  \E i, j \in DOMAIN nodes : i # j /\ nodes[i].name = nodes[j].name

\* The first approved preset the airtime model knows.
Selected(approved) ==
  LET known == {i \in DOMAIN approved : approved[i] \in KnownPresets}
      first == CHOOSE i \in known : \A j \in known : i <= j
  IN  IF known = {} THEN None ELSE approved[first]

Rendered(spec, preset) ==
  [i \in DOMAIN spec.nodes |->
     [name |-> spec.nodes[i].name, target |-> spec.nodes[i].target,
      common |-> spec.common, preset |-> preset]]

Compile(spec) ==
  IF spec.nodes = <<>> THEN Infeasible("NoTargetNodes")
  ELSE IF DuplicateName(spec.nodes) THEN Infeasible("DuplicateNodeName")
  ELSE IF spec.approved = <<>> THEN Infeasible("NoApprovedModemPresets")
  ELSE IF Selected(spec.approved) = None THEN Infeasible("UnknownModemPreset")
  ELSE LET preset == Selected(spec.approved)
       IN  [feasible |-> TRUE, reason |-> "Renderable", selected |-> preset,
            proposed |-> Rendered(spec, preset),
            airtime |-> evaluateAirtime(spec, preset, Len(spec.nodes))]
=============================================================================
