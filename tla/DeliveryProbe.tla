--------------------------- MODULE DeliveryProbe ---------------------------
(***************************************************************************)
(* The delivery probe (demo/resilience/probe.py) and the log it leaves.    *)
(*                                                                         *)
(* The main thread sends a schedule of messages and stamps, records and    *)
(* logs each one after it left; the callbacks of the receiver interfaces   *)
(* run meanwhile, record a receipt under the lock and log it after the     *)
(* lock is released.  Each line is flushed as it is written, so every      *)
(* state of log is what a probe killed at that moment, or one that dies on *)
(* a failed send, leaves behind.  The time of a receipt, of use for the    *)
(* latencies only, is left out.                                            *)
(***************************************************************************)
EXTENDS Resilience

CONSTANTS
  Nodes,     \* the receiver hosts
  Sender,    \* the host that sends
  Commands,  \* the command lines: --receivers, a sequence of Nodes, and
             \* --schedule, a sequence of [interval, count]
  Scopes,    \* the -receivers lists the reducer is asked with, <<>> for none
  Tolerance, \* -tolerance, in percent
  None       \* no summary yet

ASSUME DeliveryProbeAssumption ==
  /\ Commands \subseteq [receivers : Seq(Nodes), schedule : Seq([interval : Nat, count : Nat])]
  /\ \A c \in Commands : c.receivers # <<>>
  /\ Scopes \subseteq Seq(Nodes)
  /\ Tolerance \in Nat

VARIABLES
  command,    \* the command line of this run
  pc,         \* the main thread
  segment,    \* the segment of the schedule it is in
  left,       \* messages of the segment still to send
  seq,        \* the next sequence number
  clock,      \* the wall clock, as far as the schedule advances it
  stamp,      \* the send time not yet recorded
  transmitted,\* messages handed to the sender's node
  sent,       \* the dict sent: the sequence numbers recorded
  got,        \* the dict got: <<seq, node>>
  unlogged,   \* receipts recorded and not yet logged
  log,        \* the EVENT lines
  boundaries, \* the BOUNDARY lines
  summary     \* the SUMMARY line

mainVars == <<command, pc, segment, left, seq, clock, stamp>>
outVars == <<log, boundaries, summary>>
vars == <<mainVars, transmitted, sent, got, unlogged, outVars>>

Receivers == command.receivers
Schedule == command.schedule

Init ==
  /\ command \in Commands
  /\ pc = "segment" /\ segment = 0 /\ left = 0 /\ seq = 0 /\ clock = 1 /\ stamp = 0
  /\ transmitted = {} /\ sent = {} /\ got = {} /\ unlogged = {}
  /\ log = <<>> /\ boundaries = <<>> /\ summary = None

\* The head of the loop over the schedule; every segment but the first starts
\* with a BOUNDARY line.
NextSegment ==
  /\ pc = "segment" /\ segment < Len(Schedule)
  /\ segment' = segment + 1
  /\ left' = Schedule[segment + 1].count
  /\ boundaries' = IF segment > 0 THEN Append(boundaries, clock) ELSE boundaries
  /\ pc' = "send"
  /\ UNCHANGED <<command, seq, clock, stamp, transmitted, sent, got, unlogged, log, summary>>

EndSegment ==
  /\ pc = "send" /\ left = 0
  /\ pc' = "segment"
  /\ UNCHANGED <<command, segment, left, seq, clock, stamp, transmitted, sent, got, unlogged, outVars>>

\* Mutant: one message too many per segment.
SendTextOneMore ==
  /\ pc = "send" /\ left >= 0
  /\ transmitted' = transmitted \cup {seq}
  /\ pc' = "stamp"
  /\ UNCHANGED <<command, segment, left, seq, clock, stamp, sent, got, unlogged, outVars>>

\* sender.sendText: from here on the message may be received.
SendText ==
  /\ pc = "send" /\ left > 0
  /\ transmitted' = transmitted \cup {seq}
  /\ pc' = "stamp"
  /\ UNCHANGED <<command, segment, left, seq, clock, stamp, sent, got, unlogged, outVars>>

RecordSent ==
  /\ pc = "stamp"
  /\ stamp' = clock
  /\ sent' = sent \cup {seq}
  /\ pc' = "emit"
  /\ UNCHANGED <<command, segment, left, seq, clock, transmitted, got, unlogged, outVars>>

\* The "sent" line, and the sleep until the next message is due.
EmitSent ==
  /\ pc = "emit"
  /\ log' = Append(log, [ev |-> "sent", seq |-> seq, node |-> Sender, t |-> stamp])
  /\ seq' = seq + 1 /\ left' = left - 1
  /\ clock' = clock + Schedule[segment].interval
  /\ pc' = "send"
  /\ UNCHANGED <<command, segment, stamp, transmitted, sent, got, unlogged, boundaries, summary>>

\* Reads the dicts under the lock; the line follows.
Summarize ==
  /\ pc = "segment" /\ segment = Len(Schedule)
  /\ summary' = [receivers |-> Receivers, expected |-> Cardinality(sent) * Len(Receivers),
                 delivered |-> Cardinality(got)]
  /\ pc' = "exit"
  /\ UNCHANGED <<command, segment, left, seq, clock, stamp, transmitted, sent, got, unlogged, log, boundaries>>

-----------------------------------------------------------------------------
(* on_receive, on the threads of the interfaces.  The mesh may lose a      *)
(* message, deliver it late or more than once; a repeated receipt returns  *)
(* under the lock and changes nothing.                                     *)

OnReceive(q, n) ==
  /\ q \in transmitted
  /\ n \in Range(Receivers)
  /\ <<q, n>> \notin got
  /\ got' = got \cup {<<q, n>>}
  /\ unlogged' = unlogged \cup {<<q, n>>}
  /\ UNCHANGED <<mainVars, transmitted, sent, outVars>>

EmitReceipt(q, n) ==
  /\ <<q, n>> \in unlogged
  /\ unlogged' = unlogged \ {<<q, n>>}
  /\ log' = Append(log, [ev |-> "recv", seq |-> q, node |-> n])
  /\ UNCHANGED <<mainVars, transmitted, sent, got, boundaries, summary>>

Next ==
  \/ NextSegment \/ EndSegment \/ SendText \/ RecordSent \/ EmitSent \/ Summarize
  \/ \E q \in transmitted, n \in Nodes : OnReceive(q, n) \/ EmitReceipt(q, n)

Spec == Init /\ [][Next]_vars

-----------------------------------------------------------------------------

TypeOK ==
  /\ pc \in {"segment", "send", "stamp", "emit", "exit"}
  /\ segment \in 0..Len(Schedule)
  /\ left \in Nat /\ seq \in Nat /\ clock \in Nat /\ stamp \in Nat
  /\ sent \subseteq transmitted /\ transmitted \subseteq 0..seq
  /\ unlogged \subseteq got /\ got \subseteq transmitted \X Nodes
  /\ \A i \in DOMAIN log : log[i].ev \in {"sent", "recv"} /\ log[i].seq \in transmitted
  /\ boundaries \in Seq(Nat)

\* What nephmeshctl resilience reduces a log with: the list it is given, else the
\* one of the SUMMARY line, else none (main.go:406-412).
Asked(scope) ==
  IF scope # <<>> THEN scope ELSE IF summary # None THEN summary.receivers ELSE <<>>

SplitTimes == 1..clock

\* "A node is credited at most once per message, so delivered never exceeds
\* expected" (resilience.go:141-142): in every window, for every split time and
\* scope, however receipts are lost, late, and logged before their send.
DeliveredWithinExpected ==
  \A scope \in Scopes, T \in SplitTimes :
    LET r == Reduce(log, T, Tolerance, Asked(scope))
    IN  r.before.delivered <= r.before.expected /\ r.after.delivered <= r.after.expected

\* "the two reducers agree" (resilience.go:170-172): with one boundary, held up
\* means that the phase report is valid, starts from a healthy baseline and finds
\* no degraded phase.
ReducersAgree ==
  \A scope \in Scopes, T \in SplitTimes :
    LET r == Reduce(log, T, Tolerance, Asked(scope))
        p == ReducePhases(log, <<T>>, 2, Tolerance, Asked(scope))
    IN  /\ p.windows = <<r.before, r.after>>
        /\ r.heldUp <=> (p.valid /\ Healthy(p.windows[1]) /\ p.degraded = {})

\* The SUMMARY can be had from the log: once the receipts in hand are logged, the
\* reducer expects as much and finds at least as much as the summary counted,
\* although receipts can be logged before their own send.
SummaryIsInLog ==
  summary # None /\ unlogged = {} =>
    LET r == Reduce(log, 1, Tolerance, summary.receivers)
    IN  /\ r.before.expected + r.after.expected = summary.expected
        /\ r.before.delivered + r.after.delivered >= summary.delivered

\* "A configured receiver that never delivers stays in the denominator"
\* (demo/resilience/README.md:119-120), and without the list the report can only
\* flatter: the ratio over observed receivers, which is all a truncated log gives,
\* is never below the one over the declared receivers.  Only a list that names no
\* node twice: a repeated node counts twice when declared and once when observed.
ObservedFlatters ==
  IsInjective(Receivers) => \A T \in SplitTimes :
    LET o == Reduce(log, T, Tolerance, <<>>)
        d == Reduce(log, T, Tolerance, Receivers)
    IN  /\ o.before.sent > 0 => ~DroppedBeyond(d.before, o.before, 0)
        /\ o.after.sent > 0 => ~DroppedBeyond(d.after, o.after, 0)

\* The messages of the first k segments, counted.
Before(k) == Cardinality(UNION {{s} \X (1..Schedule[s].count) : s \in 1..k})

SegmentOf(q) == CHOOSE s \in 1..Len(Schedule) : Before(s - 1) <= q /\ q < Before(s)

\* Time passes between the last send of a segment and the boundary after it.
Spaced == \A s \in 1..(Len(Schedule) - 1) : Schedule[s].interval > 0

\* "A receipt is credited to the phase of its own send, never the phase it arrives
\* in, so a late receipt never crosses a boundary" (resilience.go:233-236): a line
\* of message q changes the window of the segment q was sent in and no other, and a
\* boundary changes none.
Custody ==
  [][Spaced => \A i \in 1..Len(Schedule) :
       PhaseWindow(log', boundaries', Receivers, i) # PhaseWindow(log, boundaries, Receivers, i)
         => log' # log /\ i = SegmentOf(log'[Len(log')].seq)]_<<log, boundaries>>
=============================================================================
