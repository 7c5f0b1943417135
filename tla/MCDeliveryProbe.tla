-------------------------- MODULE MCDeliveryProbe --------------------------
(* Command lines for TLC. *)
EXTENDS DeliveryProbe

CONSTANTS n1, n2

Steady(count) == [interval |-> 1, count |-> count]

\* Two receivers over two segments, one over three, a list naming one twice, and
\* a schedule with an empty segment and one that leaves no time between its sends.
MCCommands ==
  {[receivers |-> <<n1, n2>>, schedule |-> <<Steady(1), Steady(1)>>],
   [receivers |-> <<n1>>, schedule |-> <<Steady(2), Steady(1), Steady(1)>>],
   [receivers |-> <<n1, n1, n2>>, schedule |-> <<Steady(2)>>],
   [receivers |-> <<n1>>,
    schedule |-> <<Steady(1), Steady(0), [interval |-> 0, count |-> 2]>>]}

\* No list, part of the receivers, and all of them.
MCScopes == {<<>>, <<n2>>, <<n1, n2>>}
=============================================================================
