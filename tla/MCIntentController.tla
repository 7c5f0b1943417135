------------------------- MODULE MCIntentController -------------------------
(* Three specs whose verdicts differ: one that fits the channel, one over    *)
(* budget, one that cannot be rendered.                                      *)
EXTENDS IntentController

Target(n) == [name |-> n, target |-> n]

Intent(approved, traffic) ==
  [nodes |-> <<Target("a"), Target("b")>>, approved |-> approved, traffic |-> traffic, common |-> "common"]

MCSpecs ==
  {Intent(<<"SHORT_FAST">>, [rate |-> 6, payload |-> 40]),
   Intent(<<"LONG_SLOW">>, [rate |-> 6, payload |-> 0]),
   Intent(<<"TYPO">>, None)}

TwoSpecs == {s \in MCSpecs : s.traffic # None}
=============================================================================
