------------------------- MODULE MCSpectrumExporter -------------------------
(* A band of four bins and one that only some rows reach.  Rows start at the *)
(* lower edge of the first band, in its middle or off the grid by half a bin, *)
(* and a second pass may follow the first.                                    *)
EXTENDS SpectrumExporter

MCBands == <<[low |-> 20, high |-> 36], [low |-> 36, high |-> 44]>>

Row(low, powers) == [low |-> low, width |-> 2, powers |-> powers]

\* At the noise, at the margin above it and past the margin.
Samples == {1, 7, 9, Absent}

MCCaptures ==
  {<<>>, <<Row(10, <<>>)>>}
  \cup {<<Row(10, ps)>> : ps \in [1..4 -> Samples]}
  \cup {<<Row(14, ps)>> : ps \in [1..4 -> {1, 9, Absent}]}
  \cup {<<Row(10, ps), Row(10, qs)>> : ps \in [1..4 -> {1, 9}], qs \in {<<1, 1, 9, 7>>, <<9, 1, Absent, 1>>}}
  \cup {<<Row(10, ps), Row(13, qs)>> : ps \in [1..2 -> {1, 9}], qs \in [1..3 -> {1, 9}]}
=============================================================================
