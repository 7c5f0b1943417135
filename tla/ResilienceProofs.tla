-------------------------- MODULE ResilienceProofs --------------------------
(***************************************************************************)
(* What the reducers promise, for every log the probe can leave behind,    *)
(* every schedule, receiver list, scope, split time and tolerance.         *)
(***************************************************************************)
EXTENDS DeliveryProbe, FiniteSetTheorems, SequenceTheorems, WellFoundedInduction, TLAPS

IsList(l) == Len(l) \in Nat /\ DOMAIN l = 1..Len(l)

-----------------------------------------------------------------------------
(* Facts on the operators. *)

\* The positions of a list are as many as its length.
LEMMA ListDomain ==
  ASSUME NEW l, IsList(l)
  PROVE  IsFiniteSet(DOMAIN l) /\ Cardinality(DOMAIN l) = Len(l)
<1>1. Len(l) \in Nat /\ DOMAIN l = 1..Len(l)
  BY DEF IsList
<1>2. /\ IsFiniteSet(1..Len(l))
      /\ Cardinality(1..Len(l)) = IF 1 > Len(l) THEN 0 ELSE Len(l) - 1 + 1
  BY <1>1, FS_Interval
<1> QED
  BY <1>1, <1>2

\* The originated messages of a log are finitely many.
LEMMA SeqsFinite ==
  ASSUME NEW l, IsList(l)
  PROVE  IsFiniteSet(Seqs(l))
<1> DEFINE all == {l[i].seq : i \in DOMAIN l}
           f == [i \in DOMAIN l |-> l[i].seq]
<1>1. IsFiniteSet(DOMAIN l)
  BY ListDomain
<1>2. f \in Surjection(DOMAIN l, all)
  BY DEF Surjection
<1>3. IsFiniteSet(all)
  BY <1>1, <1>2, FS_Surjection
<1> QED
  BY <1>3, FS_Subset DEF Seqs

\* The list of a finite set names each of its elements once.
LEMMA SetToSeqNamesAll ==
  ASSUME NEW S, IsFiniteSet(S)
  PROVE  /\ IsList(SetToSeq(S)) /\ Len(SetToSeq(S)) = Cardinality(S)
         /\ IsInjective(SetToSeq(S)) /\ Range(SetToSeq(S)) = S
<1> DEFINE n == Cardinality(S)
           l == SetToSeq(S)
<1>1. n \in Nat /\ IsFiniteSet(1..n) /\ Cardinality(1..n) = n
  BY FS_CardinalityType, FS_Interval
<1>2. PICK f \in Bijection(1..n, S) : TRUE
  BY FS_CardinalityType DEF ExistsBijection
<1>3. f \in [1..n -> S] /\ IsInjective(f)
  BY <1>2 DEF Bijection, Injection, Surjection, IsInjective
<1>4. l \in [1..n -> S] /\ IsInjective(l)
  BY <1>3 DEF SetToSeq
<1>5. l \in Injection(1..n, S)
  BY <1>4 DEF Injection, IsInjective
<1>6. l \in Surjection(1..n, S)
  BY <1>1, <1>5, FS_Injection
<1>7. Range(l) = S
  BY <1>4, <1>6 DEF Surjection, Range
<1> QED
  BY <1>1, <1>4, <1>7 DEF IsList

\* The receivers a report is about are a list, declared or observed.
LEMMA ResolvedIsList ==
  ASSUME NEW l, IsList(l), NEW r, IsList(r)
  PROVE  IsList(Resolved(l, r))
<1> DEFINE recv == {j \in DOMAIN l : l[j].ev = "recv"}
           observed == {l[i].node : i \in recv}
           f == [i \in recv |-> l[i].node]
<1>1. IsFiniteSet(recv)
  <2>1. recv \in SUBSET DOMAIN l
    OBVIOUS
  <2> QED
    BY <2>1, ListDomain, FS_Subset
<1>2. f \in Surjection(recv, observed)
  BY DEF Surjection
<1>3. IsFiniteSet(observed)
  BY <1>1, <1>2, FS_Surjection
<1>4. IsList(SetToSeq(observed))
  BY <1>3, SetToSeqNamesAll
<1> QED
  BY <1>4 DEF Resolved

\* A window is never credited beyond what it expects.
LEMMA WindowBounded ==
  ASSUME NEW l, NEW resolved, IsList(resolved), NEW seqs, IsFiniteSet(seqs)
  PROVE  LET w == Window(l, resolved, seqs)
         IN  /\ w.sent \in Nat /\ w.expected \in Nat /\ w.delivered \in Nat
             /\ w.delivered <= w.expected
             /\ w.sent = 0 => w.expected = 0
<1> DEFINE pairs == seqs \X DOMAIN resolved
<1>1. IsFiniteSet(DOMAIN resolved) /\ Cardinality(DOMAIN resolved) = Len(resolved)
  BY ListDomain
<1>2. IsFiniteSet(pairs) /\ Cardinality(pairs) = Cardinality(seqs) * Len(resolved)
  BY <1>1, FS_Product
<1>3. Credits(l, resolved, seqs) \in SUBSET pairs
  BY DEF Credits
<1>4. /\ Cardinality(Credits(l, resolved, seqs)) <= Cardinality(pairs)
      /\ IsFiniteSet(Credits(l, resolved, seqs))
  BY <1>2, <1>3, FS_Subset
<1>5. /\ Cardinality(seqs) \in Nat /\ Cardinality(pairs) \in Nat
      /\ Cardinality(Credits(l, resolved, seqs)) \in Nat
  BY <1>2, <1>4, FS_CardinalityType
<1>6. Cardinality(seqs) = 0 => Cardinality(seqs) * Len(resolved) = 0
  BY <1>5 DEF IsList
<1> QED
  BY <1>2, <1>4, <1>5, <1>6 DEF Window

\* One boundary makes two phases, and a message on it belongs to the second.
LEMMA OneBoundary ==
  ASSUME NEW T, NEW t
  PROVE  PhaseOf(<<T>>, t) = IF t >= T THEN 2 ELSE 1
<1> DEFINE passed == {k \in DOMAIN <<T>> : <<T>>[k] <= t}
<1>1. DOMAIN <<T>> = {1} /\ <<T>>[1] = T
  OBVIOUS
<1>2. t >= T <=> T <= t
  OBVIOUS
<1>3. CASE T <= t
  <2>1. passed = {1}
    BY <1>1, <1>3
  <2>2. Cardinality(passed) = 1
    BY <2>1, FS_Singleton
  <2> QED
    BY <1>2, <1>3, <2>2 DEF PhaseOf
<1>4. CASE ~(T <= t)
  <2>1. passed = {}
    BY <1>1, <1>4
  <2>2. Cardinality(passed) = 0
    BY <2>1, FS_EmptySet
  <2> QED
    BY <1>2, <1>4, <2>2 DEF PhaseOf
<1> QED
  BY <1>3, <1>4

\* A healthy window has traffic.
LEMMA HealthyHasTraffic ==
  ASSUME NEW l, NEW resolved, IsList(resolved), NEW seqs, IsFiniteSet(seqs),
         Healthy(Window(l, resolved, seqs))
  PROVE  Window(l, resolved, seqs).sent > 0
<1> DEFINE w == Window(l, resolved, seqs)
<1>1. /\ w.sent \in Nat /\ w.expected \in Nat /\ w.delivered \in Nat
      /\ w.delivered <= w.expected
      /\ w.sent = 0 => w.expected = 0
  BY WindowBounded
<1>2. 100 * w.delivered >= 50 * Denominator(w)
  BY DEF Healthy, HealthyPercent
<1> HIDE DEF w
<1>3. w.sent # 0
  <2> SUFFICES ASSUME w.sent = 0 PROVE FALSE
    OBVIOUS
  <2>1. w.expected = 0 /\ w.delivered = 0
    BY <1>1
  <2>2. Denominator(w) = 1
    BY <2>1 DEF Denominator
  <2> QED
    BY <1>2, <2>1, <2>2
<1> QED
  BY <1>1, <1>3 DEF w

\* The two reducers agree on one boundary, whatever the log and the receivers.
LEMMA OneBoundaryAgrees ==
  ASSUME NEW l, IsList(l), NEW a, IsList(a), NEW T, NEW tolerance
  PROVE  LET r == Reduce(l, T, tolerance, a)
             p == ReducePhases(l, <<T>>, 2, tolerance, a)
         IN  /\ p.windows = <<r.before, r.after>>
             /\ r.heldUp <=> (p.valid /\ Healthy(p.windows[1]) /\ p.degraded = {})
<1> DEFINE resolved == Resolved(l, a)
           late == {q \in Seqs(l) : SentT(l, q) >= T}
           before == Window(l, resolved, Seqs(l) \ late)
           after == Window(l, resolved, late)
           windows == [i \in 1..2 |-> PhaseWindow(l, <<T>>, a, i)]
           degraded == {i \in 2..2 : DroppedBeyond(windows[1], windows[i], tolerance)}
           valid == \A i \in 1..2 : windows[i].sent > 0
           r == Reduce(l, T, tolerance, a)
           p == ReducePhases(l, <<T>>, 2, tolerance, a)
<1>1. {q \in Seqs(l) : PhaseOf(<<T>>, SentT(l, q)) = 1} = Seqs(l) \ late
  BY OneBoundary
<1>2. {q \in Seqs(l) : PhaseOf(<<T>>, SentT(l, q)) = 2} = late
  BY OneBoundary
<1>3. windows[1] = before /\ windows[2] = after
  BY <1>1, <1>2 DEF PhaseWindow
<1>4. p.windows = windows /\ p.degraded = degraded /\ (p.valid <=> valid)
  <2>1. Len(<<T>>) = 1 /\ DOMAIN <<T>> = 1..1
    OBVIOUS
  <2>2. Ascending(<<T>>) /\ ~(2 # Len(<<T>>) + 1)
    BY <2>1 DEF Ascending
  <2> QED
    BY <2>2 DEF ReducePhases
<1>5. r.before = before /\ r.after = after
  BY DEF Reduce
<1>6. r.heldUp <=> Healthy(before) /\ after.sent > 0 /\ ~DroppedBeyond(before, after, tolerance)
  BY DEF Reduce
<1>7. IsFiniteSet(Seqs(l) \ late) /\ IsList(resolved)
  <2>1. (Seqs(l) \ late) \in SUBSET Seqs(l)
    OBVIOUS
  <2> QED
    BY <2>1, SeqsFinite, ResolvedIsList, FS_Subset
<1>8. Healthy(before) => before.sent > 0
  BY <1>7, HealthyHasTraffic
<1> HIDE DEF before, after
<1>9. windows = <<before, after>>
  BY <1>3
<1>10. degraded = {} <=> ~DroppedBeyond(before, after, tolerance)
  <2>1. 2..2 = {2}
    OBVIOUS
  <2> QED
    BY <1>3, <2>1
<1>11. valid <=> before.sent > 0 /\ after.sent > 0
  <2>1. 1..2 = {1, 2}
    OBVIOUS
  <2> QED
    BY <1>3, <2>1
<1> HIDE DEF windows, degraded, valid, r, p
<1>12. p.windows = <<r.before, r.after>>
  BY <1>4, <1>5, <1>9
<1>13. r.heldUp <=> (p.valid /\ Healthy(p.windows[1]) /\ p.degraded = {})
  BY <1>3, <1>4, <1>6, <1>8, <1>10, <1>11
<1> QED
  BY <1>12, <1>13 DEF r, p

-----------------------------------------------------------------------------
(* The probe. *)

Lines == [ev : {"sent"}, seq : Nat, node : {Sender}, t : Nat]
           \cup [ev : {"recv"}, seq : Nat, node : Nodes]

\* Between a send and its line the message is out and its number still current.
SendUnderWay ==
  /\ pc \in {"send", "stamp", "emit"} => segment \in 1..Len(Schedule)
  /\ pc \in {"stamp", "emit"} => left > 0 /\ seq \in transmitted

IInv ==
  /\ command \in Commands
  /\ TypeOK
  /\ log \in Seq(Lines)
  /\ SendUnderWay
  /\ summary # None => summary.receivers = Receivers

LEMMA CommandType ==
  ASSUME command \in Commands
  PROVE  /\ Receivers \in Seq(Nodes)
         /\ Schedule \in Seq([interval : Nat, count : Nat])
         /\ Len(Schedule) \in Nat
         /\ \A k \in 1..Len(Schedule) : Schedule[k].interval \in Nat /\ Schedule[k].count \in Nat
<1>1. command \in [receivers : Seq(Nodes), schedule : Seq([interval : Nat, count : Nat])]
  BY DeliveryProbeAssumption
<1>2. Receivers \in Seq(Nodes) /\ Schedule \in Seq([interval : Nat, count : Nat])
  BY <1>1 DEF Receivers, Schedule
<1> DEFINE Segments == [interval : Nat, count : Nat]
<1>3. ASSUME NEW segments \in Seq(Segments)
      PROVE  Len(segments) \in Nat /\ \A k \in 1..Len(segments) : segments[k] \in Segments
  <2> HIDE DEF Segments
  <2> QED
    OBVIOUS
<1>4. Len(Schedule) \in Nat /\ \A k \in 1..Len(Schedule) : Schedule[k] \in Segments
  BY <1>2, <1>3
<1> QED
  BY <1>2, <1>4

LEMMA InitIInv == Init => IInv
<1> SUFFICES ASSUME Init PROVE IInv
  OBVIOUS
<1>1. Len(Schedule) \in Nat
  BY CommandType DEF Init
<1> QED
  BY <1>1 DEF Init, IInv, TypeOK, SendUnderWay

LEMMA NextIInv == IInv /\ [Next]_vars => IInv'
<1> SUFFICES ASSUME IInv, [Next]_vars PROVE IInv'
  OBVIOUS
<1> USE DEF IInv, SendUnderWay
<1>t. /\ Len(Schedule) \in Nat
      /\ \A k \in 1..Len(Schedule) : Schedule[k].interval \in Nat /\ Schedule[k].count \in Nat
  BY CommandType
<1>c. command' = command => Receivers' = Receivers /\ Schedule' = Schedule
  BY DEF Receivers, Schedule
<1>1. CASE NextSegment
  <2>1. segment + 1 \in 1..Len(Schedule) /\ segment' = segment + 1 /\ command' = command
    BY <1>1, <1>t DEF NextSegment, TypeOK
  <2>2. left' \in Nat
    BY <1>1, <1>t, <2>1 DEF NextSegment
  <2>3. boundaries' \in Seq(Nat)
    BY <1>1 DEF NextSegment, TypeOK
  <2>4. TypeOK'
    BY <1>1, <1>t, <1>c, <2>1, <2>2, <2>3 DEF NextSegment, TypeOK
  <2> QED
    BY <1>1, <1>t, <1>c, <2>1, <2>4 DEF NextSegment
<1>2. CASE EndSegment
  BY <1>2, <1>c DEF EndSegment, outVars, TypeOK
<1>3. CASE SendText
  <2>1. TypeOK'
    BY <1>3, <1>c DEF SendText, outVars, TypeOK
  <2> QED
    BY <1>3, <1>c, <2>1 DEF SendText, outVars
<1>4. CASE RecordSent
  BY <1>4, <1>c DEF RecordSent, outVars, TypeOK
<1>5. CASE EmitSent
  <2> DEFINE line == [ev |-> "sent", seq |-> seq, node |-> Sender, t |-> stamp]
  <2>1. line \in Lines
    BY DEF Lines, TypeOK
  <2>2. log' = Append(log, line) /\ log' \in Seq(Lines)
    BY <1>5, <2>1 DEF EmitSent
  <2>3. \A i \in DOMAIN log' : log'[i] = line \/ (i \in DOMAIN log /\ log'[i] = log[i])
    BY <2>2
  <2>4. line.ev = "sent" /\ line.seq \in transmitted
    BY <1>5 DEF EmitSent
  <2>5. \A i \in DOMAIN log' : log'[i].ev \in {"sent", "recv"} /\ log'[i].seq \in transmitted
    BY <2>3, <2>4 DEF TypeOK
  <2>6. clock' \in Nat
    BY <1>5, <1>t DEF EmitSent, TypeOK
  <2>7. seq' = seq + 1 /\ seq' \in Nat /\ left' \in Nat /\ transmitted' \subseteq 0..seq'
    BY <1>5 DEF EmitSent, TypeOK
  <2> HIDE DEF line
  <2>8. TypeOK'
    BY <1>5, <1>c, <2>5, <2>6, <2>7 DEF EmitSent, TypeOK
  <2> QED
    BY <1>5, <1>c, <2>2, <2>8 DEF EmitSent
<1>6. CASE Summarize
  BY <1>6, <1>c DEF Summarize, TypeOK
<1>7. ASSUME NEW q \in transmitted, NEW n \in Nodes, OnReceive(q, n)
      PROVE  IInv'
  BY <1>7, <1>c DEF OnReceive, mainVars, outVars, TypeOK
<1>8. ASSUME NEW q \in transmitted, NEW n \in Nodes, EmitReceipt(q, n)
      PROVE  IInv'
  <2> DEFINE line == [ev |-> "recv", seq |-> q, node |-> n]
  <2>1. line \in Lines
    BY DEF Lines, TypeOK
  <2>2. log' = Append(log, line) /\ log' \in Seq(Lines)
    BY <1>8, <2>1 DEF EmitReceipt
  <2>3. \A i \in DOMAIN log' : log'[i] = line \/ (i \in DOMAIN log /\ log'[i] = log[i])
    BY <2>2
  <2>4. line.ev = "recv" /\ line.seq \in transmitted
    OBVIOUS
  <2>5. \A i \in DOMAIN log' : log'[i].ev \in {"sent", "recv"} /\ log'[i].seq \in transmitted
    BY <2>3, <2>4 DEF TypeOK
  <2> HIDE DEF line
  <2>6. TypeOK'
    BY <1>8, <1>c, <2>5 DEF EmitReceipt, mainVars, TypeOK
  <2> QED
    BY <1>8, <1>c, <2>2, <2>6 DEF EmitReceipt, mainVars
<1>9. CASE UNCHANGED vars
  BY <1>9, <1>c DEF vars, mainVars, outVars, TypeOK
<1> QED
  BY <1>1, <1>2, <1>3, <1>4, <1>5, <1>6, <1>7, <1>8, <1>9 DEF Next

\* What a report is reduced from is a list of lines and a list of receivers.
LEMMA ReportIsOfLists ==
  ASSUME IInv, NEW scope \in Scopes
  PROVE  IsList(log) /\ IsList(Asked(scope))
<1>1. Receivers \in Seq(Nodes)
  BY CommandType DEF IInv
<1>2. scope \in Seq(Nodes)
  BY DeliveryProbeAssumption
<1>3. Asked(scope) \in Seq(Nodes)
  BY <1>1, <1>2 DEF Asked, IInv
<1> QED
  BY <1>3 DEF IsList, IInv

\* The probe keeps its invariant whatever the mesh loses, delays or repeats and
\* wherever a callback is between its lock and its line (probe.py:110-158).
THEOREM ProbeInvariant == Spec => []IInv
<1> QED
  BY InitIInv, NextIInv, PTL DEF Spec

\* Type correctness of the probe and its log.
THEOREM ProbeTypeCorrect == Spec => []TypeOK
<1>1. IInv => TypeOK
  BY DEF IInv
<1> QED
  BY <1>1, ProbeInvariant, PTL

\* No window of any log is credited beyond what it expects (creditReceivers,
\* resilience.go:141-142), for every schedule, receiver list, scope and split.
THEOREM NeverOverCredited == Spec => []DeliveredWithinExpected
<1>1. IInv => DeliveredWithinExpected
  <2> SUFFICES ASSUME IInv, NEW scope \in Scopes, NEW T \in SplitTimes
               PROVE  LET r == Reduce(log, T, Tolerance, Asked(scope))
                      IN  /\ r.before.delivered <= r.before.expected
                          /\ r.after.delivered <= r.after.expected
    BY DEF DeliveredWithinExpected
  <2> DEFINE resolved == Resolved(log, Asked(scope))
             late == {q \in Seqs(log) : SentT(log, q) >= T}
  <2>1. IsList(resolved) /\ IsFiniteSet(Seqs(log))
    BY ReportIsOfLists, ResolvedIsList, SeqsFinite
  <2>2. late \in SUBSET Seqs(log) /\ (Seqs(log) \ late) \in SUBSET Seqs(log)
    OBVIOUS
  <2>3. IsFiniteSet(late) /\ IsFiniteSet(Seqs(log) \ late)
    BY <2>1, <2>2, FS_Subset
  <2> QED
    BY <2>1, <2>3, WindowBounded DEF Reduce
<1> QED
  BY <1>1, ProbeInvariant, PTL

\* Reduce and ReducePhases give the same verdict on one boundary
\* (resilience.go:170-172), on every log and for every tolerance.
THEOREM ReducersAlwaysAgree == Spec => []ReducersAgree
<1>1. IInv => ReducersAgree
  BY ReportIsOfLists, OneBoundaryAgrees DEF ReducersAgree
<1> QED
  BY <1>1, ProbeInvariant, PTL

-----------------------------------------------------------------------------
(* What the log holds of the dicts. *)

Observed(l) == {l[i].node : i \in {j \in DOMAIN l : l[j].ev = "recv"}}

\* Where the main thread is tells what it has sent, recorded and logged.
Books ==
  /\ sent = 0..(IF pc = "emit" THEN seq ELSE seq - 1)
  /\ transmitted = 0..(IF pc \in {"stamp", "emit"} THEN seq ELSE seq - 1)
  /\ Seqs(log) = 0..(seq - 1)

\* A receipt is of a receiver, and is logged or about to be.
ReceiptsKept ==
  /\ \A r \in got : r[2] \in Range(Receivers)
  /\ \A r \in got \ unlogged : Received(log, r[1], r[2])
  /\ Observed(log) \subseteq Range(Receivers)

\* The SUMMARY counts what there was when the last message had been sent.
Summarized ==
  summary # None =>
    /\ pc = "exit"
    /\ summary.expected = Cardinality(sent) * Len(Receivers)
    /\ summary.delivered \in Nat /\ summary.delivered <= Cardinality(got)

LogInv == IInv /\ Books /\ ReceiptsKept /\ Summarized

LEMMA SentIsOriginated ==
  ASSUME NEW l, NEW q
  PROVE  q \in Seqs(l) <=> \E i \in DOMAIN l : l[i].ev = "sent" /\ l[i].seq = q
BY DEF Seqs, Sent

LEMMA ReceivedIsLine ==
  ASSUME NEW l, NEW q, NEW n
  PROVE  Received(l, q, n) <=>
           \E i \in DOMAIN l : l[i].ev = "recv" /\ l[i].seq = q /\ l[i].node = n
BY DEF Received, Receipts

\* A line more: nothing of the log is lost, and nothing but it is added.
LEMMA LogGrows ==
  ASSUME NEW l \in Seq(Lines), NEW line \in Lines
  PROVE  LET m == Append(l, line)
         IN  /\ Seqs(m) = IF line.ev = "sent" THEN Seqs(l) \cup {line.seq} ELSE Seqs(l)
             /\ \A q, n : Received(l, q, n) => Received(m, q, n)
             /\ line.ev = "recv" => Received(m, line.seq, line.node)
             /\ Observed(m) = IF line.ev = "recv" THEN Observed(l) \cup {line.node} ELSE Observed(l)
<1> DEFINE m == Append(l, line)
           k == Len(l) + 1
<1>1. /\ k \in DOMAIN m /\ m[k] = line
      /\ DOMAIN m = DOMAIN l \cup {k}
      /\ \A i \in DOMAIN l : m[i] = l[i]
  BY AppendProperties, LenProperties
<1>2. line.ev \in {"sent", "recv"}
  BY DEF Lines
<1> HIDE DEF m, k
<1>3. Seqs(m) = IF line.ev = "sent" THEN Seqs(l) \cup {line.seq} ELSE Seqs(l)
  <2>1. ASSUME NEW q
        PROVE  q \in Seqs(m) <=> q \in Seqs(l) \/ (line.ev = "sent" /\ line.seq = q)
    BY <1>1, SentIsOriginated
  <2> QED
    BY <2>1
<1>4. \A q, n : Received(l, q, n) => Received(m, q, n)
  BY <1>1, ReceivedIsLine
<1>5. line.ev = "recv" => Received(m, line.seq, line.node)
  BY <1>1, ReceivedIsLine
<1>6. Observed(m) = IF line.ev = "recv" THEN Observed(l) \cup {line.node} ELSE Observed(l)
  <2>1. ASSUME NEW n
        PROVE  n \in Observed(m) <=> n \in Observed(l) \/ (line.ev = "recv" /\ line.node = n)
    BY <1>1 DEF Observed
  <2> QED
    BY <2>1
<1> QED
  BY <1>3, <1>4, <1>5, <1>6 DEF m

LEMMA InitLogInv == Init => LogInv
<1> SUFFICES ASSUME Init PROVE LogInv
  OBVIOUS
<1>1. log = <<>> /\ DOMAIN log = {}
  BY DEF Init
<1>2. Seqs(log) = {} /\ Observed(log) = {}
  BY <1>1, SentIsOriginated DEF Observed
<1> QED
  BY <1>2, InitIInv DEF Init, LogInv, Books, ReceiptsKept, Summarized

LEMMA NextBooks == IInv /\ Books /\ [Next]_vars => Books'
<1> SUFFICES ASSUME IInv, Books, [Next]_vars PROVE Books'
  OBVIOUS
<1> USE DEF Books
<1>1. seq \in Nat
  BY DEF IInv, TypeOK
<1>2. CASE NextSegment \/ EndSegment \/ Summarize
  BY <1>2 DEF NextSegment, EndSegment, Summarize, outVars
<1>3. CASE SendText
  BY <1>1, <1>3 DEF SendText, outVars
<1>4. CASE RecordSent
  BY <1>1, <1>4 DEF RecordSent, outVars
<1>5. CASE EmitSent
  <2> DEFINE line == [ev |-> "sent", seq |-> seq, node |-> Sender, t |-> stamp]
  <2>1. line \in Lines /\ log \in Seq(Lines)
    BY DEF Lines, IInv, TypeOK
  <2>2. line.ev = "sent" /\ line.seq = seq /\ log' = Append(log, line)
    BY <1>5 DEF EmitSent
  <2> HIDE DEF line
  <2>3. Seqs(log') = Seqs(log) \cup {seq}
    BY <2>1, <2>2, LogGrows
  <2>4. /\ pc = "emit" /\ pc' = "send" /\ seq' = seq + 1
        /\ sent' = sent /\ transmitted' = transmitted
    BY <1>5 DEF EmitSent
  <2>5. 0..(seq' - 1) = 0..seq /\ 0..seq = (0..(seq - 1)) \cup {seq}
    BY <1>1, <2>4
  <2> QED
    BY <2>3, <2>4, <2>5
<1>6. ASSUME NEW q \in transmitted, NEW n \in Nodes, OnReceive(q, n)
      PROVE  Books'
  BY <1>6 DEF OnReceive, mainVars, outVars
<1>7. ASSUME NEW q \in transmitted, NEW n \in Nodes, EmitReceipt(q, n)
      PROVE  Books'
  <2> DEFINE line == [ev |-> "recv", seq |-> q, node |-> n]
  <2>1. line \in Lines /\ log \in Seq(Lines)
    BY DEF Lines, IInv, TypeOK
  <2>2. line.ev = "recv" /\ log' = Append(log, line)
    BY <1>7 DEF EmitReceipt
  <2> HIDE DEF line
  <2>3. Seqs(log') = Seqs(log)
    BY <2>1, <2>2, LogGrows
  <2> QED
    BY <1>7, <2>3 DEF EmitReceipt, mainVars
<1>8. CASE UNCHANGED vars
  BY <1>8 DEF vars, mainVars, outVars
<1> QED
  BY <1>2, <1>3, <1>4, <1>5, <1>6, <1>7, <1>8 DEF Next

LEMMA NextReceiptsKept == IInv /\ ReceiptsKept /\ [Next]_vars => ReceiptsKept'
<1> SUFFICES ASSUME IInv, ReceiptsKept, [Next]_vars PROVE ReceiptsKept'
  OBVIOUS
<1> USE DEF ReceiptsKept
<1>1. command' = command => Receivers' = Receivers
  BY DEF Receivers
<1>2. CASE NextSegment \/ EndSegment \/ SendText \/ RecordSent \/ Summarize
  BY <1>1, <1>2 DEF NextSegment, EndSegment, SendText, RecordSent, Summarize, outVars
<1>3. CASE EmitSent
  <2> DEFINE line == [ev |-> "sent", seq |-> seq, node |-> Sender, t |-> stamp]
  <2>1. line \in Lines /\ log \in Seq(Lines)
    BY DEF Lines, IInv, TypeOK
  <2>2. line.ev = "sent" /\ log' = Append(log, line)
    BY <1>3 DEF EmitSent
  <2> HIDE DEF line
  <2>3. /\ \A q, n : Received(log, q, n) => Received(log', q, n)
        /\ Observed(log') = Observed(log)
    BY <2>1, <2>2, LogGrows
  <2> QED
    BY <1>1, <1>3, <2>3 DEF EmitSent
<1>4. ASSUME NEW q \in transmitted, NEW n \in Nodes, OnReceive(q, n)
      PROVE  ReceiptsKept'
  BY <1>1, <1>4 DEF OnReceive, mainVars, outVars
<1>5. ASSUME NEW q \in transmitted, NEW n \in Nodes, EmitReceipt(q, n)
      PROVE  ReceiptsKept'
  <2> DEFINE line == [ev |-> "recv", seq |-> q, node |-> n]
  <2>1. line \in Lines /\ log \in Seq(Lines)
    BY DEF Lines, IInv, TypeOK
  <2>2. line.ev = "recv" /\ line.seq = q /\ line.node = n /\ log' = Append(log, line)
    BY <1>5 DEF EmitReceipt
  <2> HIDE DEF line
  <2>3. /\ \A p, m : Received(log, p, m) => Received(log', p, m)
        /\ Received(log', q, n)
        /\ Observed(log') = Observed(log) \cup {n}
    BY <2>1, <2>2, LogGrows
  <2>4. <<q, n>> \in got /\ n \in Range(Receivers)
    BY <1>5 DEF EmitReceipt, IInv, TypeOK
  <2>5. ASSUME NEW r \in got' \ unlogged'
        PROVE  Received(log', r[1], r[2])
    BY <1>5, <2>3 DEF EmitReceipt
  <2> QED
    BY <1>1, <1>5, <2>3, <2>4, <2>5 DEF EmitReceipt, mainVars
<1>6. CASE UNCHANGED vars
  BY <1>1, <1>6 DEF vars, mainVars, outVars
<1> QED
  BY <1>2, <1>3, <1>4, <1>5, <1>6 DEF Next

\* The receipts are finitely many, and so are the messages.
LEMMA CountsFinite ==
  ASSUME IInv, Books, ReceiptsKept
  PROVE  /\ IsFiniteSet(got) /\ IsFiniteSet(sent)
         /\ IsList(Receivers) /\ IsFiniteSet(Range(Receivers))
<1>1. Receivers \in Seq(Nodes) /\ IsList(Receivers)
  BY CommandType DEF IInv, IsList
<1>2. Receivers \in Surjection(DOMAIN Receivers, Range(Receivers))
  BY <1>1 DEF Surjection, Range
<1>3. IsFiniteSet(Range(Receivers))
  BY <1>1, <1>2, ListDomain, FS_Surjection
<1>4. IsFiniteSet(sent) /\ IsFiniteSet(transmitted)
  <2>1. seq \in Nat
    BY DEF IInv, TypeOK
  <2> QED
    BY <2>1, FS_Interval DEF Books
<1>5. got \subseteq transmitted \X Range(Receivers)
  BY DEF IInv, TypeOK, ReceiptsKept
<1> QED
  BY <1>1, <1>3, <1>4, <1>5, FS_Product, FS_Subset

LEMMA NextSummarized ==
  IInv /\ Books /\ ReceiptsKept /\ Summarized /\ [Next]_vars => Summarized'
<1> SUFFICES ASSUME IInv, Books, ReceiptsKept, Summarized, [Next]_vars
             PROVE  Summarized'
  OBVIOUS
<1> USE DEF Summarized
<1>1. command' = command => Receivers' = Receivers
  BY DEF Receivers
<1>2. Cardinality(got) \in Nat
  BY CountsFinite, FS_CardinalityType
<1>3. CASE NextSegment \/ EndSegment \/ SendText \/ RecordSent \/ EmitSent
  BY <1>3 DEF NextSegment, EndSegment, SendText, RecordSent, EmitSent, outVars
<1>4. CASE Summarize
  BY <1>1, <1>2, <1>4 DEF Summarize
<1>5. ASSUME NEW q \in transmitted, NEW n \in Nodes, OnReceive(q, n)
      PROVE  Summarized'
  <2>1. <<q, n>> \notin got /\ got' = got \cup {<<q, n>>}
    BY <1>5 DEF OnReceive
  <2>2. Cardinality(got') = Cardinality(got) + 1
    BY <2>1, CountsFinite, FS_AddElement
  <2>3. /\ pc' = pc /\ sent' = sent /\ summary' = summary /\ Receivers' = Receivers
    BY <1>1, <1>5 DEF OnReceive, mainVars, outVars
  <2> QED
    BY <1>2, <2>2, <2>3
<1>6. ASSUME NEW q \in transmitted, NEW n \in Nodes, EmitReceipt(q, n)
      PROVE  Summarized'
  BY <1>1, <1>6 DEF EmitReceipt, mainVars
<1>7. CASE UNCHANGED vars
  BY <1>1, <1>7 DEF vars, mainVars, outVars
<1> QED
  BY <1>3, <1>4, <1>5, <1>6, <1>7 DEF Next

\* What the log holds of the dicts, whatever the mesh loses, delays or repeats
\* (probe.py:110-158).
THEOREM LogInvariant == Spec => []LogInv
<1>1. LogInv /\ [Next]_vars => LogInv'
  BY NextIInv, NextBooks, NextReceiptsKept, NextSummarized DEF LogInv
<1> QED
  BY <1>1, InitLogInv, PTL DEF Spec

-----------------------------------------------------------------------------
(* Credits and receipts. *)

\* The parts of a finite set add up to the whole.
LEMMA PartsAddUp ==
  ASSUME NEW S, NEW A, NEW B, IsFiniteSet(A), IsFiniteSet(B), A \cup B = S, A \cap B = {}
  PROVE  Cardinality(A) + Cardinality(B) = Cardinality(S)
<1>1. Cardinality(A \cup B) = Cardinality(A) + Cardinality(B) - Cardinality(A \cap B)
  BY FS_Union
<1>2. Cardinality(A \cap B) = 0
  BY FS_EmptySet
<1>3. Cardinality(A) \in Nat /\ Cardinality(B) \in Nat
  BY FS_CardinalityType
<1> QED
  BY <1>1, <1>2, <1>3

\* Messages split over two windows are credited as in one.
LEMMA WindowsAddUp ==
  ASSUME NEW l, NEW resolved, IsList(resolved),
         NEW seqs, IsFiniteSet(seqs), NEW late \in SUBSET seqs
  PROVE  LET before == Window(l, resolved, seqs \ late)
             after  == Window(l, resolved, late)
             whole  == Window(l, resolved, seqs)
         IN  /\ before.expected + after.expected = whole.expected
             /\ before.delivered + after.delivered = whole.delivered
<1> DEFINE early == seqs \ late
           C(s) == Credits(l, resolved, s)
           n == Len(resolved)
<1>1. IsFiniteSet(late) /\ IsFiniteSet(early) /\ n \in Nat
  BY FS_Subset DEF IsList
<1>2. ASSUME NEW s, IsFiniteSet(s)
      PROVE  IsFiniteSet(C(s)) /\ Cardinality(C(s)) \in Nat /\ Cardinality(s) \in Nat
  <2>1. IsFiniteSet(s \X DOMAIN resolved)
    BY <1>2, ListDomain, FS_Product
  <2>2. C(s) \in SUBSET (s \X DOMAIN resolved)
    BY DEF Credits
  <2> QED
    BY <1>2, <2>1, <2>2, FS_Subset, FS_CardinalityType
<1>3. /\ early \cup late = seqs /\ early \cap late = {}
      /\ C(early) \cup C(late) = C(seqs) /\ C(early) \cap C(late) = {}
  BY DEF Credits
<1> HIDE DEF C, early
<1>4. Cardinality(early) + Cardinality(late) = Cardinality(seqs)
  BY <1>1, <1>3, PartsAddUp
<1>5. Cardinality(C(early)) + Cardinality(C(late)) = Cardinality(C(seqs))
  <2>1. IsFiniteSet(C(early)) /\ IsFiniteSet(C(late))
    BY <1>1, <1>2
  <2> QED
    BY <1>3, <2>1, PartsAddUp
<1>6. Cardinality(early) * n + Cardinality(late) * n = Cardinality(seqs) * n
  <2>1. Cardinality(early) \in Nat /\ Cardinality(late) \in Nat
    BY <1>1, <1>2
  <2>2. \A a, b \in Nat : a * n + b * n = (a + b) * n
    BY <1>1
  <2> QED
    BY <1>4, <2>1, <2>2
<1> QED
  BY <1>5, <1>6 DEF Window, C, early

\* Every receipt of an originated message earns a credit, whichever way the list
\* names its receiver.
LEMMA ReceiptsAreCredited ==
  ASSUME NEW l, NEW resolved, IsList(resolved), NEW seqs, IsFiniteSet(seqs),
         NEW R \in SUBSET (seqs \X Range(resolved)),
         \A r \in R : Received(l, r[1], r[2])
  PROVE  Cardinality(R) <= Cardinality(Credits(l, resolved, seqs))
<1> DEFINE entry(n) == CHOOSE k \in DOMAIN resolved : resolved[k] = n
           f == [r \in R |-> <<r[1], entry(r[2])>>]
           C == Credits(l, resolved, seqs)
<1>1. ASSUME NEW n \in Range(resolved)
      PROVE  entry(n) \in DOMAIN resolved /\ resolved[entry(n)] = n
  BY DEF Range
<1>2. ASSUME NEW r \in R
      PROVE  /\ r = <<r[1], r[2]>> /\ r[1] \in seqs
             /\ entry(r[2]) \in DOMAIN resolved /\ resolved[entry(r[2])] = r[2]
  BY <1>1
<1> HIDE DEF entry
<1>3. ASSUME NEW r \in R
      PROVE  f[r] \in C
  BY <1>2 DEF Credits
<1>4. f \in Injection(R, C)
  <2>1. ASSUME NEW r \in R, NEW s \in R, f[r] = f[s]
        PROVE  r = s
    <3>1. r[1] = s[1] /\ entry(r[2]) = entry(s[2])
      BY <2>1
    <3>2. r[2] = s[2]
      BY <1>2, <3>1
    <3> QED
      BY <1>2, <3>1, <3>2
  <2>2. f \in [R -> C]
    BY <1>3
  <2>3. \A r, s \in R : f[r] = f[s] => r = s
    BY <2>1
  <2> HIDE DEF f, C
  <2> QED
    BY <2>2, <2>3 DEF Injection, IsInjective
<1>5. IsFiniteSet(C)
  <2>1. IsFiniteSet(seqs \X DOMAIN resolved)
    BY ListDomain, FS_Product
  <2> QED
    BY <2>1, FS_Subset DEF Credits
<1> QED
  BY <1>4, <1>5, FS_Injection

\* The SUMMARY can be had from the log, whatever order receipts and sends were
\* logged in and whatever arrived too late for the SUMMARY (probe.py:110-176,
\* resilience.go:143-176).
THEOREM LogHoldsSummary == Spec => []SummaryIsInLog
<1>1. LogInv => SummaryIsInLog
  <2> SUFFICES ASSUME LogInv, summary # None, unlogged = {}
               PROVE  LET r == Reduce(log, 1, Tolerance, summary.receivers)
                      IN  /\ r.before.expected + r.after.expected = summary.expected
                          /\ r.before.delivered + r.after.delivered >= summary.delivered
    BY DEF SummaryIsInLog
  <2> DEFINE late == {q \in Seqs(log) : SentT(log, q) >= 1}
             r == Reduce(log, 1, Tolerance, Receivers)
             whole == Window(log, Receivers, Seqs(log))
  <2>1. /\ summary.receivers = Receivers /\ Receivers # <<>>
        /\ IsList(Receivers) /\ IsFiniteSet(sent) /\ IsFiniteSet(got)
    BY CountsFinite, DeliveryProbeAssumption DEF LogInv, IInv, Receivers
  <2>2. Resolved(log, Receivers) = Receivers
    BY <2>1 DEF Resolved
  <2>3. Seqs(log) = sent /\ transmitted = sent
    BY DEF LogInv, Books, Summarized
  <2>4. /\ r.before = Window(log, Receivers, Seqs(log) \ late)
        /\ r.after = Window(log, Receivers, late)
    BY <2>2 DEF Reduce
  <2>5. /\ r.before.expected + r.after.expected = whole.expected
        /\ r.before.delivered + r.after.delivered = whole.delivered
    <3>1. late \in SUBSET Seqs(log) /\ IsFiniteSet(Seqs(log))
      BY <2>1, <2>3
    <3> HIDE DEF late
    <3> QED
      BY <2>1, <2>4, <3>1, WindowsAddUp
  <2>6. whole.expected = summary.expected
    BY <2>3 DEF LogInv, Summarized, Window
  <2>7. whole.delivered >= summary.delivered
    <3>1. /\ got \in SUBSET (Seqs(log) \X Range(Receivers))
          /\ \A g \in got : Received(log, g[1], g[2])
      BY <2>3 DEF LogInv, IInv, TypeOK, ReceiptsKept
    <3>2. /\ Cardinality(got) <= whole.delivered
          /\ whole.delivered \in Nat
      BY <2>1, <2>3, <3>1, ReceiptsAreCredited, WindowBounded DEF Window
    <3> QED
      BY <2>1, <3>2, FS_CardinalityType DEF LogInv, Summarized
  <2> HIDE DEF whole, r, late
  <2>8. /\ r.before.expected + r.after.expected = summary.expected
        /\ r.before.delivered + r.after.delivered >= summary.delivered
    BY <2>5, <2>6, <2>7
  <2> QED
    BY <2>1, <2>8 DEF r
<1> QED
  BY <1>1, LogInvariant, PTL

-----------------------------------------------------------------------------
(* Declared and observed receivers. *)

\* With a list that names no node twice, the credits are the receipts by its nodes.
LEMMA CreditsAreReceipts ==
  ASSUME NEW l, NEW resolved, IsList(resolved), IsInjective(resolved),
         NEW seqs, IsFiniteSet(seqs)
  PROVE  Cardinality(Credits(l, resolved, seqs))
           = Cardinality({r \in seqs \X Range(resolved) : Received(l, r[1], r[2])})
<1> DEFINE C == Credits(l, resolved, seqs)
           R == {r \in seqs \X Range(resolved) : Received(l, r[1], r[2])}
           f == [c \in C |-> <<c[1], resolved[c[2]]>>]
<1>1. IsFiniteSet(DOMAIN resolved)
  BY ListDomain
<1>2. IsFiniteSet(C)
  BY <1>1, FS_Product, FS_Subset DEF Credits
<1>3. ASSUME NEW c \in C
      PROVE  /\ c = <<c[1], c[2]>> /\ c[1] \in seqs /\ c[2] \in DOMAIN resolved
             /\ f[c] \in R
  BY DEF Credits, Range
<1>4. ASSUME NEW c \in C, NEW d \in C, f[c] = f[d]
      PROVE  c = d
  <2>1. c[1] = d[1] /\ resolved[c[2]] = resolved[d[2]]
    BY <1>4
  <2>2. c[2] = d[2]
    BY <1>3, <2>1 DEF IsInjective
  <2> QED
    BY <1>3, <2>1, <2>2
<1>5. ASSUME NEW r \in R
      PROVE  \E c \in C : f[c] = r
  <2>1. PICK k \in DOMAIN resolved : resolved[k] = r[2]
    BY DEF Range
  <2>2. <<r[1], k>> \in C /\ r = <<r[1], r[2]>>
    BY <2>1 DEF Credits
  <2> QED
    BY <2>1, <2>2
<1>6. /\ f \in [C -> R]
      /\ \A c, d \in C : f[c] = f[d] => c = d
      /\ \A r \in R : \E c \in C : f[c] = r
      /\ DOMAIN f = C
  BY <1>3, <1>4, <1>5
<1> HIDE DEF f, C, R
<1>7. f \in Bijection(C, R)
  BY <1>6 DEF Bijection, Injection, Surjection, IsInjective
<1> QED
  BY <1>2, <1>7, FS_Bijection DEF ExistsBijection, C, R

\* Where every observed receiver is declared, leaving the silent ones out of the
\* denominator cannot lower the ratio.
LEMMA SilentReceiversOnlyDilute ==
  ASSUME NEW l, IsList(l), NEW declared \in Seq(Nodes), IsInjective(declared),
         declared # <<>>, Observed(l) \subseteq Range(declared),
         NEW seqs, IsFiniteSet(seqs), Window(l, Resolved(l, <<>>), seqs).sent > 0
  PROVE  ~DroppedBeyond(Window(l, declared, seqs), Window(l, Resolved(l, <<>>), seqs), 0)
<1> DEFINE heard == Resolved(l, <<>>)
           d == Window(l, declared, seqs)
           o == Window(l, heard, seqs)
           s == Cardinality(seqs)
           c == Cardinality(Credits(l, declared, seqs))
           n == Len(declared)
           m == Len(heard)
<1>0. IsList(declared)
  BY DEF IsList
<1>1. IsFiniteSet(Range(declared)) /\ Cardinality(Range(declared)) = n
  <2> DEFINE f == [k \in DOMAIN declared |-> declared[k]]
  <2>1. /\ f \in [DOMAIN declared -> Range(declared)] /\ DOMAIN f = DOMAIN declared
        /\ \A j, k \in DOMAIN declared : f[j] = f[k] => j = k
        /\ \A x \in Range(declared) : \E k \in DOMAIN declared : f[k] = x
    BY DEF IsInjective, Range
  <2> HIDE DEF f
  <2>2. f \in Bijection(DOMAIN declared, Range(declared))
    BY <2>1 DEF Bijection, Injection, Surjection, IsInjective
  <2> QED
    BY <1>0, <2>2, ListDomain, FS_Bijection DEF ExistsBijection
<1>2. /\ IsFiniteSet(Observed(l)) /\ Cardinality(Observed(l)) <= n
      /\ IsList(heard) /\ IsInjective(heard) /\ Range(heard) = Observed(l)
      /\ m = Cardinality(Observed(l))
  <2>1. IsFiniteSet(Observed(l)) /\ Cardinality(Observed(l)) <= n
    BY <1>1, FS_Subset
  <2>2. heard = SetToSeq(Observed(l))
    BY DEF Resolved, Observed
  <2> QED
    BY <2>1, <2>2, SetToSeqNamesAll
<1>3. Cardinality(Credits(l, heard, seqs)) = c
  <2>1. ASSUME NEW q, NEW x, Received(l, q, x)
        PROVE  x \in Observed(l)
    BY <2>1, ReceivedIsLine DEF Observed
  <2>2. {r \in seqs \X Observed(l) : Received(l, r[1], r[2])}
          = {r \in seqs \X Range(declared) : Received(l, r[1], r[2])}
    <3>1. ASSUME NEW r \in seqs \X Range(declared), Received(l, r[1], r[2])
          PROVE  r \in seqs \X Observed(l)
      BY <2>1, <3>1
    <3>2. seqs \X Observed(l) \subseteq seqs \X Range(declared)
      OBVIOUS
    <3> QED
      BY <3>1, <3>2
  <2>3. c = Cardinality({r \in seqs \X Range(declared) : Received(l, r[1], r[2])})
    BY <1>0, CreditsAreReceipts
  <2>4. Cardinality(Credits(l, heard, seqs))
          = Cardinality({r \in seqs \X Observed(l) : Received(l, r[1], r[2])})
    BY <1>2, CreditsAreReceipts
  <2> QED
    BY <2>2, <2>3, <2>4
<1>4. /\ s \in Nat /\ s > 0 /\ c \in Nat /\ n \in Nat /\ n > 0 /\ m \in Nat /\ m <= n
  <2>1. s \in Nat /\ s > 0 /\ n \in Nat /\ m \in Nat /\ m <= n
    BY <1>0, <1>2, FS_CardinalityType DEF Window, IsList
  <2>2. c \in Nat
    BY <1>0, WindowBounded DEF Window
  <2>3. n # 0
    OBVIOUS
  <2> QED
    BY <2>1, <2>2, <2>3
<1>5. d.expected = s * n /\ d.delivered = c /\ o.expected = s * m /\ o.delivered = c
  BY <1>3 DEF Window
<1> HIDE DEF d, o, c, s, n, m
<1>6. s * n \in Nat /\ s * m \in Nat /\ s * n > 0 /\ s * m <= s * n
  <2>1. \A a, b, e \in Nat : /\ a * b \in Nat
                             /\ a > 0 /\ b > 0 => a * b > 0
                             /\ b <= e => a * b <= a * e
    OBVIOUS
  <2> QED
    BY <1>4, <2>1
<1>7. /\ Denominator(d) \in Nat /\ Denominator(o) \in Nat
      /\ Denominator(o) <= Denominator(d)
  BY <1>5, <1>6 DEF Denominator
<1>8. c * Denominator(o) <= c * Denominator(d)
  <2>1. \A a, b, e \in Nat : b <= e => a * b <= a * e
    OBVIOUS
  <2> QED
    BY <1>4, <1>7, <2>1
<1>9. ~DroppedBeyond(d, o, 0)
  <2>1. c * Denominator(o) \in Nat /\ c * Denominator(d) \in Nat
    BY <1>4, <1>7
  <2>2. 0 * Denominator(d) * Denominator(o) = 0
    BY <1>7
  <2> QED
    BY <1>5, <1>8, <2>1, <2>2 DEF DroppedBeyond
<1> QED
  BY <1>9 DEF d, o

\* Without the list of receivers the report can only flatter, at every moment the
\* log may end and for every split time: the declared receivers that never
\* delivered are all it leaves out (resilience.go:181-206).
THEOREM ObservedAlwaysFlatters == Spec => []ObservedFlatters
<1>1. LogInv => ObservedFlatters
  <2> SUFFICES ASSUME LogInv, IsInjective(Receivers), NEW T \in SplitTimes
               PROVE  LET o == Reduce(log, T, Tolerance, <<>>)
                          d == Reduce(log, T, Tolerance, Receivers)
                      IN  /\ o.before.sent > 0 => ~DroppedBeyond(d.before, o.before, 0)
                          /\ o.after.sent > 0 => ~DroppedBeyond(d.after, o.after, 0)
    BY DEF ObservedFlatters
  <2> DEFINE late == {q \in Seqs(log) : SentT(log, q) >= T}
             early == Seqs(log) \ late
  <2>1. /\ Receivers \in Seq(Nodes) /\ Receivers # <<>>
        /\ IsList(log) /\ Observed(log) \subseteq Range(Receivers)
    BY CommandType, DeliveryProbeAssumption
       DEF LogInv, IInv, IsList, ReceiptsKept, Receivers
  <2>2. Resolved(log, Receivers) = Receivers
    BY <2>1 DEF Resolved
  <2>3. IsFiniteSet(late) /\ IsFiniteSet(early)
    BY <2>1, SeqsFinite, FS_Subset
  <2>4. ASSUME NEW s, IsFiniteSet(s), Window(log, Resolved(log, <<>>), s).sent > 0
        PROVE  ~DroppedBeyond(Window(log, Receivers, s), Window(log, Resolved(log, <<>>), s), 0)
    BY <2>1, <2>4, SilentReceiversOnlyDilute
  <2> QED
    BY <2>2, <2>3, <2>4 DEF Reduce
<1> QED
  BY <1>1, LogInvariant, PTL
-----------------------------------------------------------------------------
(* Segments and phases. *)

MessagesOf(s) == {s} \X (1..Schedule[s].count)
MessagesTo(k) == UNION {MessagesOf(s) : s \in 1..k}

\* A segment more is its count of messages more.
LEMMA BeforeAddsUp ==
  ASSUME command \in Commands
  PROVE  /\ Before(0) = 0
         /\ \A k \in 0..Len(Schedule) : Before(k) \in Nat
         /\ \A s \in 1..Len(Schedule) : Before(s) = Before(s - 1) + Schedule[s].count
         /\ \A a, b \in 0..Len(Schedule) : a <= b => Before(a) <= Before(b)
<1>1. /\ Len(Schedule) \in Nat
      /\ \A s \in 1..Len(Schedule) : Schedule[s].count \in Nat
  BY CommandType
<1>2. \A k : Before(k) = Cardinality(MessagesTo(k))
  BY Zenon DEF Before, MessagesTo, MessagesOf
<1>3. ASSUME NEW s \in 1..Len(Schedule)
      PROVE  IsFiniteSet(MessagesOf(s)) /\ Cardinality(MessagesOf(s)) = Schedule[s].count
  <2> DEFINE c == Schedule[s].count
  <2>1. c \in Nat
    BY <1>1
  <2> HIDE DEF c
  <2>2. IsFiniteSet(1..c) /\ Cardinality(1..c) = c
    <3>1. /\ IsFiniteSet(1..c)
          /\ Cardinality(1..c) = IF 1 > c THEN 0 ELSE c - 1 + 1
      BY <2>1, FS_Interval
    <3> QED
      BY <2>1, <3>1
  <2>3. IsFiniteSet({s}) /\ Cardinality({s}) = 1
    BY FS_Singleton
  <2>4. /\ IsFiniteSet({s} \X (1..c))
        /\ Cardinality({s} \X (1..c)) = 1 * c
    BY <2>2, <2>3, FS_Product
  <2> QED
    BY <2>1, <2>4 DEF MessagesOf, c
<1>4. ASSUME NEW k \in 0..Len(Schedule)
      PROVE  IsFiniteSet(MessagesTo(k))
  <2>1. IsFiniteSet(1..k)
    <3>1. k \in Int /\ 1 \in Int
      BY <1>1
    <3> QED
      BY <3>1, FS_Interval
  <2> DEFINE sets == {MessagesOf(s) : s \in 1..k}
             f == [s \in 1..k |-> MessagesOf(s)]
  <2>2. f \in Surjection(1..k, sets)
    BY DEF Surjection
  <2> HIDE DEF f
  <2>3. IsFiniteSet(sets)
    BY <2>1, <2>2, FS_Surjection
  <2>4. \A T \in sets : IsFiniteSet(T)
    BY <1>1, <1>3
  <2> HIDE DEF sets
  <2>5. IsFiniteSet(UNION sets)
    BY <2>3, <2>4, FS_UNION
  <2> QED
    BY <2>5 DEF sets, MessagesTo
<1>5. MessagesTo(0) = {}
  BY DEF MessagesTo
<1>6. ASSUME NEW s \in 1..Len(Schedule)
      PROVE  Before(s) = Before(s - 1) + Schedule[s].count
  <2>1. s - 1 \in 0..Len(Schedule) /\ s \in 0..Len(Schedule)
    BY <1>1
  <2>2. MessagesTo(s - 1) \cup MessagesOf(s) = MessagesTo(s)
    <3>1. 1..s = (1..(s - 1)) \cup {s}
      BY <1>1
    <3> QED
      BY <3>1 DEF MessagesTo
  <2>3. MessagesTo(s - 1) \cap MessagesOf(s) = {}
    BY <1>1 DEF MessagesTo, MessagesOf
  <2>4. Cardinality(MessagesTo(s - 1)) + Cardinality(MessagesOf(s)) = Cardinality(MessagesTo(s))
    BY <1>3, <1>4, <2>1, <2>2, <2>3, PartsAddUp
  <2> QED
    BY <1>2, <1>3, <2>4
<1>7. \A k \in 0..Len(Schedule) : Before(k) \in Nat
  BY <1>2, <1>4, FS_CardinalityType
<1>8. ASSUME NEW a \in 0..Len(Schedule), NEW b \in 0..Len(Schedule), a <= b
      PROVE  Before(a) <= Before(b)
  <2>1. MessagesTo(a) \in SUBSET MessagesTo(b)
    BY <1>1, <1>8 DEF MessagesTo
  <2> QED
    BY <1>2, <1>4, <2>1, FS_Subset
<1> QED
  BY <1>2, <1>5, <1>6, <1>7, <1>8, FS_EmptySet

InSegment(q, s) == Before(s - 1) <= q /\ q < Before(s)

\* No message is of two segments.
LEMMA OneSegment ==
  ASSUME command \in Commands, NEW s \in 1..Len(Schedule), NEW q \in Nat, InSegment(q, s)
  PROVE  SegmentOf(q) = s
<1>1. Len(Schedule) \in Nat
  BY CommandType
<1>2. ASSUME NEW r \in 1..Len(Schedule), InSegment(q, r), NEW t \in 1..Len(Schedule), r < t
      PROVE  ~InSegment(q, t)
  <2>1. /\ r \in 0..Len(Schedule) /\ t - 1 \in 0..Len(Schedule) /\ r <= t - 1
    BY <1>1, <1>2
  <2>2. Before(r) <= Before(t - 1) /\ Before(r) \in Nat /\ Before(t - 1) \in Nat
    BY <2>1, BeforeAddsUp
  <2> QED
    BY <1>2, <2>2 DEF InSegment
<1>3. \A r \in 1..Len(Schedule) : InSegment(q, r) <=> r = s
  BY <1>1, <1>2
<1>4. SegmentOf(q) = CHOOSE r \in 1..Len(Schedule) : InSegment(q, r)
  BY Zenon DEF SegmentOf, InSegment
<1> QED
  BY <1>3, <1>4

\* A boundary after a send leaves its phase alone.
LEMMA PhaseStays ==
  ASSUME NEW b \in Seq(Nat), NEW c \in Nat, NEW t \in Nat, t < c
  PROVE  PhaseOf(Append(b, c), t) = PhaseOf(b, t)
<1> DEFINE k == Len(b) + 1
           m == Append(b, c)
<1>1. /\ DOMAIN m = DOMAIN b \cup {k} /\ m[k] = c
      /\ \A i \in DOMAIN b : m[i] = b[i]
  BY AppendProperties, LenProperties
<1> HIDE DEF m, k
<1>2. {i \in DOMAIN m : m[i] <= t} = {i \in DOMAIN b : b[i] <= t}
  BY <1>1
<1>3. PhaseOf(m, t) = PhaseOf(b, t)
  BY <1>2, Zenon DEF PhaseOf
<1> QED
  BY <1>3 DEF m

\* What is sent after every boundary is of the last phase.
LEMMA PhaseIsLast ==
  ASSUME NEW b \in Seq(Nat), NEW t \in Nat, \A k \in DOMAIN b : b[k] <= t
  PROVE  PhaseOf(b, t) = 1 + Len(b)
<1>1. {k \in DOMAIN b : b[k] <= t} = DOMAIN b
  OBVIOUS
<1>2. IsList(b)
  BY DEF IsList
<1>3. Cardinality(DOMAIN b) = Len(b)
  BY <1>2, ListDomain
<1> QED
  BY <1>1, <1>3, Zenon DEF PhaseOf

\* A line more leaves the time of a message that was logged before.
LEMMA TimesKept ==
  ASSUME NEW l \in Seq(Lines), NEW line \in Lines
  PROVE  /\ \A q \in Seqs(l) : SentT(Append(l, line), q) = SentT(l, q)
         /\ line.ev = "sent" /\ line.seq \notin Seqs(l) => SentT(Append(l, line), line.seq) = line.t
<1> DEFINE m == Append(l, line)
           k == Len(l) + 1
           Least(S, i) == i \in S /\ \A j \in S : i <= j
           first(S) == CHOOSE i \in S : \A j \in S : i <= j
<1>1. /\ k \in Nat /\ m[k] = line
      /\ DOMAIN m = DOMAIN l \cup {k}
      /\ \A i \in DOMAIN l : m[i] = l[i] /\ i \in Nat /\ i < k
  BY AppendProperties, LenProperties
<1> HIDE DEF m, k
<1>2. \A q : /\ Sent(l, q) \subseteq DOMAIN l
             /\ Sent(m, q) = Sent(l, q) \cup (IF line.ev = "sent" /\ line.seq = q THEN {k} ELSE {})
  BY <1>1 DEF Sent
<1>3. \A S : \A i : S \subseteq Nat /\ Least(S, i) => first(S) = i
  <2> SUFFICES ASSUME NEW S, S \subseteq Nat, NEW i, Least(S, i)  PROVE first(S) = i
    OBVIOUS
  <2>1. \A n \in S : (\A j \in S : n <= j) => n = i
    OBVIOUS
  <2> QED
    BY <2>1
<1> HIDE DEF first
<1>4. \A q : SentT(l, q) = l[first(Sent(l, q))].t /\ SentT(m, q) = m[first(Sent(m, q))].t
  BY Zenon DEF SentT, first
<1>5. ASSUME NEW q \in Seqs(l)
      PROVE  SentT(m, q) = SentT(l, q)
  <2>1. Sent(l, q) # {} /\ Sent(l, q) \in SUBSET Nat
    BY <1>1, <1>2 DEF Seqs
  <2>2. PICK i \in Sent(l, q) : \A j \in Sent(l, q) : i <= j
    <3> DEFINE R == OpToRel(<, Nat)
    <3>1. PICK i \in Sent(l, q) : \A j \in Sent(l, q) : ~ (<<j, i>> \in R)
      BY <2>1, NatLessThanWellFounded, WFMin, Zenon
    <3>2. \A j \in Sent(l, q) : j < i => <<j, i>> \in R
      BY <2>1 DEF OpToRel
    <3>3. \A j \in Sent(l, q) : ~(j < i)
      BY <3>1, <3>2, Zenon
    <3> QED
      BY <2>1, <3>3
  <2>3. Least(Sent(l, q), i) /\ Least(Sent(m, q), i)
    BY <1>1, <1>2, <2>2
  <2>4. Sent(m, q) \subseteq Nat
    BY <1>1, <1>2
  <2>5. first(Sent(l, q)) = i /\ first(Sent(m, q)) = i
    BY <1>3, <2>1, <2>3, <2>4
  <2>6. m[i] = l[i]
    BY <1>1, <1>2, <2>2
  <2> QED
    BY <1>4, <2>5, <2>6
<1>6. ASSUME line.ev = "sent", line.seq \notin Seqs(l)
      PROVE  SentT(m, line.seq) = line.t
  <2>1. Sent(l, line.seq) = {}
    BY <1>6 DEF Seqs, Sent
  <2>2. Sent(m, line.seq) = {k}
    BY <1>2, <1>6, <2>1
  <2>3. first({k}) = k
    <3>1. {k} \subseteq Nat /\ Least({k}, k)
      BY <1>1
    <3> HIDE DEF Least
    <3> QED
      BY <1>3, <3>1, Zenon
  <2> QED
    BY <1>1, <1>4, <2>2, <2>3
<1> QED
  BY <1>5, <1>6 DEF m

(***************************************************************************)
(* Where the main thread is in the schedule, and that a message that was   *)
(* logged is of the phase its segment is (probe.py:145-158).               *)
(***************************************************************************)
Counted ==
  /\ pc \in {"segment", "exit"} \/ segment = 0 => left = 0
  /\ segment = 0 => seq = 0
  /\ segment > 0 => left <= Schedule[segment].count /\ seq = Before(segment) - left

Bounded ==
  /\ Len(boundaries) = IF segment = 0 THEN 0 ELSE segment - 1
  /\ \A k \in DOMAIN boundaries : boundaries[k] <= clock
  /\ pc = "emit" => stamp = clock

InPhase(q, s) ==
  /\ InSegment(q, s)
  /\ PhaseOf(boundaries, SentT(log, q)) = s
  /\ SentT(log, q) \in Nat
  /\ SentT(log, q) + Schedule[s].interval <= clock

Placed == Spaced => \A q \in Seqs(log) : \E s \in 1..segment : InPhase(q, s)

SegmentInv == LogInv /\ Counted /\ Bounded /\ Placed

\* The message being logged is of the segment under way.
LEMMA SendingInSegment ==
  ASSUME IInv, Counted, pc = "emit"
  PROVE  segment \in 1..Len(Schedule) /\ InSegment(seq, segment)
<1>1. segment \in 1..Len(Schedule) /\ Len(Schedule) \in Nat /\ left > 0 /\ left \in Nat
  BY CommandType DEF IInv, SendUnderWay, TypeOK
<1>2. /\ Before(segment) = Before(segment - 1) + Schedule[segment].count
      /\ Before(segment) \in Nat /\ Before(segment - 1) \in Nat
      /\ Schedule[segment].count \in Nat
  <2>1. segment \in 0..Len(Schedule) /\ segment - 1 \in 0..Len(Schedule)
    BY <1>1
  <2> QED
    BY <1>1, <2>1, BeforeAddsUp, CommandType DEF IInv
<1>3. left <= Schedule[segment].count /\ seq = Before(segment) - left
  BY <1>1 DEF Counted
<1> QED
  BY <1>1, <1>2, <1>3 DEF InSegment

LEMMA NextCounted == IInv /\ Counted /\ [Next]_vars => Counted'
<1> SUFFICES ASSUME IInv, Counted, [Next]_vars PROVE Counted'
  OBVIOUS
<1>1. /\ segment \in 0..Len(Schedule) /\ Len(Schedule) \in Nat
      /\ left \in Nat /\ seq \in Nat
      /\ pc \in {"segment", "send", "stamp", "emit", "exit"}
  BY CommandType DEF IInv, TypeOK
<1>2. command' = command => Schedule' = Schedule /\ (\A k : Before(k)' = Before(k))
  BY DEF Schedule, Before
<1>3. /\ Before(0) = 0
      /\ \A k \in 0..Len(Schedule) : Before(k) \in Nat
      /\ \A s \in 1..Len(Schedule) : Before(s) = Before(s - 1) + Schedule[s].count
  BY BeforeAddsUp DEF IInv
<1>4. CASE NextSegment
  <2>1. /\ pc = "segment" /\ pc' = "send" /\ segment' = segment + 1 /\ seq' = seq
        /\ left' = Schedule[segment + 1].count /\ Schedule' = Schedule
        /\ segment + 1 \in 1..Len(Schedule)
    BY <1>1, <1>2, <1>4 DEF NextSegment
  <2>2. seq = Before(segment)
    BY <1>1, <1>3, <2>1 DEF Counted
  <2>3. /\ Before(segment + 1) = Before(segment) + Schedule[segment + 1].count
        /\ Schedule[segment + 1].count \in Nat
    <3>1. (segment + 1) - 1 = segment
      BY <1>1
    <3> QED
      BY <1>3, <2>1, <3>1, CommandType DEF IInv
  <2>4. Before(segment') = Before(segment) + left'
    BY <2>1, <2>3
  <2>5. Before(segment)' = Before(segment')
    BY <2>1, Zenon DEF Before
  <2>6. Before(segment) \in Nat
    BY <1>1, <1>3
  <2> QED
    BY <1>1, <2>1, <2>2, <2>3, <2>4, <2>5, <2>6 DEF Counted
<1>5. CASE EndSegment \/ SendText \/ RecordSent \/ Summarize
  <2>1. /\ UNCHANGED <<command, segment, left, seq>>
        /\ pc' \in {"segment", "exit"} => left = 0
    BY <1>1, <1>5 DEF EndSegment, SendText, RecordSent, Summarize, Counted
  <2> QED
    BY <1>2, <2>1 DEF Counted, Before
<1>6. CASE EmitSent
  <2>1. /\ pc = "emit" /\ pc' = "send" /\ segment' = segment /\ Schedule' = Schedule
        /\ seq' = seq + 1 /\ left' = left - 1
    BY <1>2, <1>6 DEF EmitSent
  <2>2. segment > 0 /\ left > 0
    BY <1>1, <2>1 DEF IInv, SendUnderWay
  <2>3. left <= Schedule[segment].count /\ seq = Before(segment) - left
    BY <2>2 DEF Counted
  <2>4. Before(segment)' = Before(segment) /\ Before(segment) \in Nat
    BY <1>1, <1>2, <1>3, <1>6 DEF EmitSent, Before
  <2>5. Schedule[segment].count \in Nat
    BY <1>1, <2>2, CommandType DEF IInv
  <2> QED
    BY <1>1, <2>1, <2>2, <2>3, <2>4, <2>5 DEF Counted
<1>7. ASSUME NEW q \in transmitted, NEW n \in Nodes, OnReceive(q, n) \/ EmitReceipt(q, n)
      PROVE  Counted'
  BY <1>2, <1>7 DEF OnReceive, EmitReceipt, mainVars, Counted, Before
<1>8. CASE UNCHANGED vars
  BY <1>2, <1>8 DEF vars, mainVars, Counted, Before
<1> QED
  BY <1>4, <1>5, <1>6, <1>7, <1>8 DEF Next

LEMMA NextBounded == IInv /\ Bounded /\ [Next]_vars => Bounded'
<1> SUFFICES ASSUME IInv, Bounded, [Next]_vars PROVE Bounded'
  OBVIOUS
<1>1. /\ segment \in 0..Len(Schedule) /\ Len(Schedule) \in Nat
      /\ clock \in Nat /\ boundaries \in Seq(Nat)
      /\ pc \in {"segment", "send", "stamp", "emit", "exit"}
  BY CommandType DEF IInv, TypeOK
<1>2. \A k \in DOMAIN boundaries : boundaries[k] \in Nat
  BY <1>1
<1>3. CASE NextSegment
  <2>1. /\ segment' = segment + 1 /\ clock' = clock /\ pc' = "send"
        /\ boundaries' = IF segment > 0 THEN Append(boundaries, clock) ELSE boundaries
    BY <1>3 DEF NextSegment
  <2>2. CASE segment > 0
    <3>1. /\ Len(boundaries') = Len(boundaries) + 1
          /\ \A k \in DOMAIN boundaries' : \/ k \in DOMAIN boundaries /\ boundaries'[k] = boundaries[k]
                                           \/ boundaries'[k] = clock
      BY <1>1, <2>1, <2>2
    <3> QED
      BY <1>1, <2>1, <2>2, <3>1 DEF Bounded
  <2>3. CASE segment = 0
    BY <1>1, <2>1, <2>3 DEF Bounded
  <2> QED
    BY <1>1, <2>2, <2>3
<1>4. CASE EndSegment \/ SendText \/ RecordSent \/ Summarize
  BY <1>4 DEF EndSegment, SendText, RecordSent, Summarize, outVars, Bounded
<1>5. CASE EmitSent
  <2>1. /\ segment' = segment /\ boundaries' = boundaries /\ pc' = "send"
        /\ clock' = clock + Schedule[segment].interval
    BY <1>5 DEF EmitSent
  <2>2. Schedule[segment].interval \in Nat
    BY <1>5, CommandType DEF EmitSent, IInv, SendUnderWay
  <2> QED
    BY <1>1, <1>2, <2>1, <2>2 DEF Bounded
<1>6. ASSUME NEW q \in transmitted, NEW n \in Nodes, OnReceive(q, n) \/ EmitReceipt(q, n)
      PROVE  Bounded'
  BY <1>6 DEF OnReceive, EmitReceipt, mainVars, outVars, Bounded
<1>7. CASE UNCHANGED vars
  BY <1>7 DEF vars, mainVars, outVars, Bounded
<1> QED
  BY <1>3, <1>4, <1>5, <1>6, <1>7 DEF Next

\* The schedule is given once.
LEMMA ScheduleKept ==
  ASSUME [Next]_vars
  PROVE  /\ command' = command /\ Schedule' = Schedule /\ Spaced' = Spaced
         /\ \A q, s : InSegment(q, s)' = InSegment(q, s)
<1>1. command' = command
  BY DEF Next, NextSegment, EndSegment, SendText, RecordSent, EmitSent, Summarize,
         OnReceive, EmitReceipt, mainVars, vars
<1>2. Schedule' = Schedule
  BY <1>1 DEF Schedule
<1>3. Spaced' = Spaced
  BY <1>2, Zenon DEF Spaced
<1>4. \A q, s : InSegment(q, s)' = InSegment(q, s)
  BY <1>2, Zenon DEF InSegment, Before
<1> QED
  BY <1>1, <1>2, <1>3, <1>4

LEMMA NextPlaced == LogInv /\ Counted /\ Bounded /\ Placed /\ [Next]_vars => Placed'
<1> SUFFICES ASSUME LogInv, Counted, Bounded, Placed, [Next]_vars, Spaced
             PROVE  \A q \in Seqs(log') : \E s \in 1..segment' : InPhase(q, s)'
  BY ScheduleKept DEF Placed
<1>1. /\ segment \in 0..Len(Schedule) /\ Len(Schedule) \in Nat
      /\ clock \in Nat /\ boundaries \in Seq(Nat) /\ seq \in Nat
      /\ log \in Seq(Lines)
      /\ \A k \in 1..Len(Schedule) : Schedule[k].interval \in Nat
  BY CommandType DEF LogInv, IInv, TypeOK
<1>2. /\ Schedule' = Schedule
      /\ \A q, s : InSegment(q, s)' = InSegment(q, s)
  BY ScheduleKept
<1>3. ASSUME NEW q \in Seqs(log)
      PROVE  \E s \in 1..segment : InPhase(q, s)
  BY DEF Placed
<1>4. ASSUME NEW q, NEW s, InPhase(q, s),
             boundaries' = boundaries, SentT(log', q) = SentT(log, q), clock' \in Nat, clock' >= clock,
             s \in 1..segment
      PROVE  InPhase(q, s)'
  BY <1>1, <1>2, <1>4 DEF InPhase
<1>5. CASE NextSegment
  <2>1. /\ log' = log /\ clock' = clock /\ segment' = segment + 1
        /\ segment < Len(Schedule)
        /\ boundaries' = IF segment > 0 THEN Append(boundaries, clock) ELSE boundaries
    BY <1>5 DEF NextSegment
  <2>2. ASSUME NEW q \in Seqs(log), NEW s \in 1..segment, InPhase(q, s)
        PROVE  InPhase(q, s)'
    <3>1. Schedule[s].interval > 0 /\ Schedule[s].interval \in Nat
      <4>1. s \in 1..(Len(Schedule) - 1) /\ s \in 1..Len(Schedule)
        BY <1>1, <2>1
      <4> QED
        BY <1>1, <4>1 DEF Spaced
    <3>2. SentT(log, q) \in Nat /\ SentT(log, q) < clock
      BY <1>1, <2>2, <3>1 DEF InPhase
    <3>3. PhaseOf(Append(boundaries, clock), SentT(log, q)) = PhaseOf(boundaries, SentT(log, q))
      BY <1>1, <3>2, PhaseStays
    <3>4. segment > 0
      BY <1>1
    <3> QED
      BY <1>2, <2>1, <2>2, <3>3, <3>4 DEF InPhase
  <2>3. 1..segment \subseteq 1..segment'
    BY <1>1, <2>1
  <2> QED
    BY <1>3, <2>1, <2>2, <2>3
<1>6. CASE EmitSent
  <2> DEFINE line == [ev |-> "sent", seq |-> seq, node |-> Sender, t |-> stamp]
  <2>1. line \in Lines
    BY DEF Lines, LogInv, IInv, TypeOK
  <2>2. /\ line.ev = "sent" /\ line.seq = seq /\ line.t = stamp
        /\ log' = Append(log, line)
        /\ segment' = segment /\ boundaries' = boundaries /\ pc = "emit"
        /\ clock' = clock + Schedule[segment].interval
    BY <1>6 DEF EmitSent
  <2> HIDE DEF line
  <2>3. Seqs(log') = Seqs(log) \cup {seq} /\ seq \notin Seqs(log)
    BY <1>1, <2>1, <2>2, LogGrows DEF LogInv, Books
  <2>4. /\ SentT(log', seq) = stamp
        /\ \A q \in Seqs(log) : SentT(log', q) = SentT(log, q)
    BY <1>1, <2>1, <2>2, <2>3, TimesKept
  <2>5. segment \in 1..Len(Schedule) /\ InSegment(seq, segment)
    BY <2>2, SendingInSegment DEF LogInv
  <2>6. Schedule[segment].interval \in Nat /\ clock' \in Nat /\ clock' >= clock
    BY <1>1, <2>2, <2>5
  <2>7. PhaseOf(boundaries, stamp) = segment /\ stamp = clock
    <3>1. stamp = clock /\ \A k \in DOMAIN boundaries : boundaries[k] <= stamp
      BY <2>2 DEF Bounded
    <3>2. PhaseOf(boundaries, stamp) = 1 + Len(boundaries)
      BY <1>1, <3>1, PhaseIsLast
    <3>3. Len(boundaries) = segment - 1
      BY <1>1, <2>5 DEF Bounded
    <3> QED
      BY <1>1, <3>1, <3>2, <3>3
  <2>8. ASSUME NEW q, q = seq, NEW s, s = segment
        PROVE  InPhase(q, s)'
    BY <2>8, <1>1, <1>2, <2>2, <2>4, <2>5, <2>6, <2>7 DEF InPhase
  <2>9. ASSUME NEW q \in Seqs(log)
        PROVE  \E s \in 1..segment : InPhase(q, s)'
    BY <1>3, <1>4, <2>2, <2>4, <2>6
  <2>10. segment \in 1..segment
    BY <1>1, <2>5
  <2> QED
    BY <2>2, <2>3, <2>8, <2>9, <2>10
<1>7. ASSUME NEW q \in transmitted, NEW n \in Nodes, EmitReceipt(q, n)
      PROVE  \A p \in Seqs(log') : \E s \in 1..segment' : InPhase(p, s)'
  <2> DEFINE line == [ev |-> "recv", seq |-> q, node |-> n]
  <2>1. line \in Lines
    BY DEF Lines, LogInv, IInv, TypeOK
  <2>2. /\ line.ev = "recv" /\ log' = Append(log, line)
        /\ segment' = segment /\ boundaries' = boundaries /\ clock' = clock
    BY <1>7 DEF EmitReceipt, mainVars
  <2> HIDE DEF line
  <2>3. Seqs(log') = Seqs(log) /\ \A p \in Seqs(log) : SentT(log', p) = SentT(log, p)
    BY <1>1, <2>1, <2>2, LogGrows, TimesKept
  <2> QED
    BY <1>1, <1>3, <1>4, <2>2, <2>3
<1>8. CASE \/ EndSegment \/ SendText \/ RecordSent \/ Summarize \/ UNCHANGED vars
           \/ \E q \in transmitted, n \in Nodes : OnReceive(q, n)
  <2>1. /\ log' = log /\ boundaries' = boundaries /\ clock' = clock /\ segment' = segment
    BY <1>8 DEF EndSegment, SendText, RecordSent, Summarize, OnReceive, vars, mainVars, outVars
  <2> QED
    BY <1>1, <1>3, <1>4, <2>1
<1> QED
  BY <1>5, <1>6, <1>7, <1>8 DEF Next

LEMMA InitSegmentInv == Init => SegmentInv
<1> SUFFICES ASSUME Init PROVE SegmentInv
  OBVIOUS
<1>1. LogInv
  BY InitLogInv
<1>2. Seqs(log) = {}
  BY SentIsOriginated DEF Init
<1> QED
  BY <1>1, <1>2 DEF Init, SegmentInv, Counted, Bounded, Placed

\* At every moment, whatever the schedule, the messages logged so far are of the
\* phases their segments are (probe.py:145-158).
THEOREM SegmentInvariant == Spec => []SegmentInv
<1>1. SegmentInv /\ [Next]_vars => SegmentInv'
  <2>1. LogInv /\ [Next]_vars => LogInv'
    BY NextIInv, NextBooks, NextReceiptsKept, NextSummarized DEF LogInv
  <2> QED
    BY <2>1, NextCounted, NextBounded, NextPlaced DEF SegmentInv, LogInv
<1> QED
  BY <1>1, InitSegmentInv, PTL DEF Spec

-----------------------------------------------------------------------------
(* Custody of a receipt. *)

SegmentWindow(l, i) == Window(l, Receivers, {q \in Seqs(l) : SegmentOf(q) = i})

\* Where every message is of the phase its segment is, a phase is reported as the
\* segment is.
LEMMA PhasesAreSegments ==
  ASSUME command \in Commands, NEW l, NEW b,
         \A q \in Seqs(l) : PhaseOf(b, SentT(l, q)) = SegmentOf(q)
  PROVE  \A i : PhaseWindow(l, b, Receivers, i) = SegmentWindow(l, i)
<1>1. Resolved(l, Receivers) = Receivers
  BY DeliveryProbeAssumption DEF Resolved, Receivers
<1>2. \A i : {q \in Seqs(l) : PhaseOf(b, SentT(l, q)) = i} = {q \in Seqs(l) : SegmentOf(q) = i}
  OBVIOUS
<1> QED
  BY <1>1, <1>2, Zenon DEF PhaseWindow, SegmentWindow

\* A line more is nothing to the other messages, nor to their segments.
LEMMA OthersUntouched ==
  ASSUME NEW l \in Seq(Lines), NEW line \in Lines, NEW i, i # SegmentOf(line.seq)
  PROVE  SegmentWindow(Append(l, line), i) = SegmentWindow(l, i)
<1> DEFINE m == Append(l, line)
           k == Len(l) + 1
           here(x) == {q \in Seqs(x) : SegmentOf(q) = i}
<1>1. /\ m[k] = line /\ DOMAIN m = DOMAIN l \cup {k}
      /\ \A j \in DOMAIN l : m[j] = l[j]
  BY AppendProperties, LenProperties
<1> HIDE DEF m, k
<1>2. \A q : q # line.seq => (q \in Seqs(m) <=> q \in Seqs(l))
  BY <1>1, SentIsOriginated
<1>3. \A q, n : q # line.seq => (Received(m, q, n) <=> Received(l, q, n))
  BY <1>1, ReceivedIsLine
<1>4. here(m) = here(l)
  <2>1. \A q : q \in here(m) <=> q \in here(l)
    BY <1>2, Zenon
  <2> QED
    BY <2>1
<1>5. \A q \in here(l) : q # line.seq
  OBVIOUS
<1> HIDE DEF here
<1>6. Credits(m, Receivers, here(l)) = Credits(l, Receivers, here(l))
  <2>1. \A c : c \in Credits(m, Receivers, here(l)) <=> c \in Credits(l, Receivers, here(l))
    BY <1>3, <1>5 DEF Credits
  <2> QED
    BY <2>1
<1>7. Window(m, Receivers, here(m)) = Window(l, Receivers, here(l))
  BY <1>4, <1>6, Zenon DEF Window
<1> QED
  BY <1>7, Zenon DEF SegmentWindow, here, m

\* The log grows by one line at most.
LEMMA OneLineAtATime ==
  ASSUME IInv, [Next]_vars, log' # log
  PROVE  \E line \in Lines : log' = Append(log, line)
<1>1. CASE EmitSent
  <2> DEFINE line == [ev |-> "sent", seq |-> seq, node |-> Sender, t |-> stamp]
  <2>1. line \in Lines
    BY DEF Lines, IInv, TypeOK
  <2>2. log' = Append(log, line)
    BY <1>1 DEF EmitSent
  <2> HIDE DEF line
  <2> QED
    BY <2>1, <2>2
<1>2. ASSUME NEW q \in transmitted, NEW n \in Nodes, EmitReceipt(q, n)
      PROVE  \E line \in Lines : log' = Append(log, line)
  <2> DEFINE line == [ev |-> "recv", seq |-> q, node |-> n]
  <2>1. line \in Lines
    BY DEF Lines, IInv, TypeOK
  <2>2. log' = Append(log, line)
    BY <1>2 DEF EmitReceipt
  <2> HIDE DEF line
  <2> QED
    BY <2>1, <2>2
<1> QED
  BY <1>1, <1>2 DEF Next, NextSegment, EndSegment, SendText, RecordSent, Summarize,
     OnReceive, outVars, vars

\* The messages of a log that is as the schedule has it are of their segments.
LEMMA SegmentsSettled ==
  ASSUME command \in Commands, NEW l, NEW b, NEW k \in 0..Len(Schedule),
         \A q \in Seqs(l) : /\ q \in Nat
                            /\ \E s \in 1..k : InSegment(q, s) /\ PhaseOf(b, SentT(l, q)) = s
  PROVE  \A q \in Seqs(l) : PhaseOf(b, SentT(l, q)) = SegmentOf(q)
<1>1. Len(Schedule) \in Nat
  BY CommandType
<1> SUFFICES ASSUME NEW q \in Seqs(l) PROVE PhaseOf(b, SentT(l, q)) = SegmentOf(q)
  OBVIOUS
<1>2. PICK s \in 1..k : InSegment(q, s) /\ PhaseOf(b, SentT(l, q)) = s
  OBVIOUS
<1>3. s \in 1..Len(Schedule) /\ q \in Nat
  BY <1>1
<1> QED
  BY <1>2, <1>3, OneSegment

\* A line moves the window of the segment its message was sent in and no other, and
\* a boundary moves none, whatever the schedule and however late the receipt
\* (probe.py:145-158, resilience.go:233-265).
THEOREM LinesStayInTheirPhase == Spec => Custody
<1>1. SegmentInv /\ SegmentInv' /\ [Next]_vars
        => [Spaced => \A i \in 1..Len(Schedule) :
              PhaseWindow(log', boundaries', Receivers, i) # PhaseWindow(log, boundaries, Receivers, i)
                => log' # log /\ i = SegmentOf(log'[Len(log')].seq)]_<<log, boundaries>>
  <2> SUFFICES ASSUME SegmentInv, SegmentInv', [Next]_vars, Spaced, NEW i \in 1..Len(Schedule),
                      PhaseWindow(log', boundaries', Receivers, i) # PhaseWindow(log, boundaries, Receivers, i)
               PROVE  log' # log /\ i = SegmentOf(log'[Len(log')].seq)
    OBVIOUS
  <2>1. /\ command \in Commands /\ IInv
        /\ segment \in 0..Len(Schedule) /\ log \in Seq(Lines) /\ seq \in Nat
        /\ Seqs(log) = 0..(seq - 1)
    BY DEF SegmentInv, LogInv, IInv, TypeOK, Books
  <2>2. /\ Schedule' = Schedule /\ Spaced'
        /\ \A q, s : InSegment(q, s)' = InSegment(q, s)
    BY ScheduleKept
  <2>3. /\ segment' \in 0..Len(Schedule) /\ seq' \in Nat
        /\ Seqs(log') = 0..(seq' - 1)
    BY <2>2 DEF SegmentInv, LogInv, IInv, TypeOK, Books
  <2>4. \A q \in Seqs(log) : PhaseOf(boundaries, SentT(log, q)) = SegmentOf(q)
    <3>1. \A q \in Seqs(log) : q \in Nat
      BY <2>1
    <3>2. \A q \in Seqs(log) :
            \E s \in 1..segment : InSegment(q, s) /\ PhaseOf(boundaries, SentT(log, q)) = s
      BY DEF SegmentInv, Placed, InPhase
    <3> QED
      BY <2>1, <3>1, <3>2, SegmentsSettled
  <2>5. \A q \in Seqs(log') : PhaseOf(boundaries', SentT(log', q)) = SegmentOf(q)
    <3>1. \A q \in Seqs(log') : q \in Nat
      BY <2>3
    <3>2. \A q \in Seqs(log') :
            \E s \in 1..segment' : InSegment(q, s) /\ PhaseOf(boundaries', SentT(log', q)) = s
      BY <2>2 DEF SegmentInv, Placed, InPhase
    <3> QED
      BY <2>1, <2>3, <3>1, <3>2, SegmentsSettled
  <2>6. SegmentWindow(log', i) # SegmentWindow(log, i)
    BY <2>1, <2>4, <2>5, PhasesAreSegments
  <2>7. log' # log
    BY <2>6
  <2>8. PICK line \in Lines : log' = Append(log, line)
    BY <2>1, <2>7, OneLineAtATime
  <2>9. log'[Len(log')] = line
    BY <2>1, <2>8
  <2>10. i = SegmentOf(line.seq)
    BY <2>1, <2>6, <2>8, OthersUntouched
  <2> QED
    BY <2>7, <2>9, <2>10
<1> QED
  BY <1>1, SegmentInvariant, PTL DEF Spec, Custody
=============================================================================
