----------------------------- MODULE Resilience -----------------------------
(***************************************************************************)
(* The delivery reducers (internal/resilience): from the log of a probe to *)
(* a verdict on whether the mesh kept delivering across an event.          *)
(*                                                                         *)
(* A log is the sequence of the EVENT lines; a receiver list may name a    *)
(* node more than once, as the command line allows.  Ratios are kept as    *)
(* fractions and the tolerance as whole percents, so comparisons are       *)
(* exact.  Latencies are left out.                                         *)
(***************************************************************************)
EXTENDS Integers, Sequences, FiniteSets, SequencesExt

HealthyPercent == 50  \* minHealthyDelivery

Sent(log, q) == {i \in DOMAIN log : log[i].ev = "sent" /\ log[i].seq = q}
Receipts(log, q, n) == {i \in DOMAIN log : log[i].ev = "recv" /\ log[i].seq = q /\ log[i].node = n}

Seqs(log) == {q \in {log[i].seq : i \in DOMAIN log} : Sent(log, q) # {}}

\* A message is originated at its first "sent" line.
SentT(log, q) == log[CHOOSE i \in Sent(log, q) : \A j \in Sent(log, q) : i <= j].t

\* Mutant: one pass over the log, so a receipt written before its send is lost.
ReceivedAfterSent(log, q, n) ==
  \E i \in Receipts(log, q, n) : \E j \in Sent(log, q) : j < i

Received(log, q, n) == Receipts(log, q, n) # {}

\* Mutant: every node of the log is taken for a receiver, the sender too.
ResolvedOfAllNodes(log, receivers) ==
  IF receivers # <<>> THEN receivers ELSE SetToSeq({log[i].node : i \in DOMAIN log})

\* The declared receivers or, when none are, those that received something.
Resolved(log, receivers) ==
  IF receivers # <<>> THEN receivers
  ELSE SetToSeq({log[i].node : i \in {j \in DOMAIN log : log[j].ev = "recv"}})

\* Mutant: receipts are counted on every node, in scope or not.
CreditsOfAnyNode(log, resolved, seqs) ==
  {c \in seqs \X DOMAIN log : c[2] \in Receipts(log, c[1], log[c[2]].node)}

\* One credit per message and entry of the receiver list.
Credits(log, resolved, seqs) ==
  {c \in seqs \X DOMAIN resolved : Received(log, c[1], resolved[c[2]])}

Window(log, resolved, seqs) ==
  [sent      |-> Cardinality(seqs),
   expected  |-> Cardinality(seqs) * Len(resolved),
   delivered |-> Cardinality(Credits(log, resolved, seqs))]

-----------------------------------------------------------------------------
(* Ratios; an empty window's is zero. *)

Denominator(w) == IF w.expected = 0 THEN 1 ELSE w.expected

Healthy(w) == 100 * w.delivered >= HealthyPercent * Denominator(w)

\* base.ratio - w.ratio > tolerance
DroppedBeyond(base, w, tolerance) ==
  100 * (base.delivered * Denominator(w) - w.delivered * Denominator(base))
    > tolerance * Denominator(base) * Denominator(w)

-----------------------------------------------------------------------------

\* Mutant: no healthy baseline is asked for.
ReduceAnyBaseline(log, perturbationT, tolerance, receivers) ==
  LET resolved == Resolved(log, receivers)
      late     == {q \in Seqs(log) : SentT(log, q) >= perturbationT}
      before   == Window(log, resolved, Seqs(log) \ late)
      after    == Window(log, resolved, late)
  IN  [before |-> before, after |-> after,
       heldUp |-> after.sent > 0 /\ ~DroppedBeyond(before, after, tolerance)]

Reduce(log, perturbationT, tolerance, receivers) ==
  LET resolved == Resolved(log, receivers)
      late     == {q \in Seqs(log) : SentT(log, q) >= perturbationT}
      before   == Window(log, resolved, Seqs(log) \ late)
      after    == Window(log, resolved, late)
  IN  [before |-> before, after |-> after,
       heldUp |-> Healthy(before) /\ after.sent > 0 /\ ~DroppedBeyond(before, after, tolerance)]

\* Mutant: a message sent exactly at a boundary belongs to the earlier phase.
PhaseBefore(boundaries, t) == 1 + Cardinality({k \in DOMAIN boundaries : boundaries[k] < t})

\* A message sent exactly at a boundary belongs to the later phase.
PhaseOf(boundaries, t) == 1 + Cardinality({k \in DOMAIN boundaries : boundaries[k] <= t})

PhaseWindow(log, boundaries, receivers, i) ==
  Window(log, Resolved(log, receivers), {q \in Seqs(log) : PhaseOf(boundaries, SentT(log, q)) = i})

Ascending(boundaries) ==
  \A i \in DOMAIN boundaries : i > 1 => boundaries[i - 1] < boundaries[i]

\* labels is how many phase labels were given.
ReducePhases(log, boundaries, labels, tolerance, receivers) ==
  IF labels # Len(boundaries) + 1 \/ ~Ascending(boundaries)
  THEN [valid |-> FALSE, windows |-> <<>>, degraded |-> {}, survived |-> FALSE]
  ELSE LET windows  == [i \in 1..labels |-> PhaseWindow(log, boundaries, receivers, i)]
           degraded == {i \in 2..labels : DroppedBeyond(windows[1], windows[i], tolerance)}
           valid    == \A i \in 1..labels : windows[i].sent > 0
       IN  [valid |-> valid, windows |-> windows, degraded |-> degraded,
            survived |-> valid /\ degraded # {} /\ labels \notin degraded /\ Healthy(windows[1])]
=============================================================================
