------------------------------ MODULE Converge ------------------------------
(***************************************************************************)
(* One convergence step of the Meshtastic operator                         *)
(* (internal/reconcile/converge.go) against the radio it drives.           *)
(*                                                                         *)
(* The step is not atomic: it is a sequence of calls on a single-client    *)
(* device (export, info, apply, reboot) and the radio can drop, be edited  *)
(* by somebody else or finish a reboot between two of them.  This module   *)
(* holds the step in progress, the radio, and one action per call and per  *)
(* branch of the comparison.  The module that calls Converge extends it    *)
(* and supplies Begin's arguments and what is done with the result.        *)
(*                                                                         *)
(* Abstractions.  A scalar configuration, a password and a channel set are *)
(* opaque values: config.Drift and config.ChannelDrift are used here only  *)
(* through "is anything different".  Telemetry, drift lists and messages   *)
(* are left out.  The radio is external: its behaviour is read off         *)
(* device.Client's contract, the Fake and the way Converge uses it.        *)
(***************************************************************************)
EXTENDS Naturals

CONSTANTS
  Scalars,          \* scalar configurations a spec can declare or a radio hold
  MuteScalars,      \* those with a field the radio never echoes as declared
  Passwords,        \* MQTT broker passwords
  ChannelSets,      \* channel sets, keys included
  None,             \* absent: no password, no channel set, no hash
  Exporters,        \* exporters configured: TRUE is the stock --export-config
  MaxApplyAttempts, \* converge.go's bound on consecutive applies
  MaxFaults         \* bound of the model: faults of the world in one behaviour

\* SHA-256 as the code uses it: injective, and never the empty hash (None).
Hash(p) == <<"sha256", p>>

ASSUME ConvergeAssumption ==
  /\ MuteScalars \subseteq Scalars
  /\ None \notin Scalars \cup Passwords \cup ChannelSets
  /\ \A p \in Passwords : Hash(p) # None
  /\ Exporters \subseteq BOOLEAN
  /\ MaxApplyAttempts \in Nat \ {0}
  /\ MaxFaults \in Nat

VARIABLES
  radio,       \* what the device holds and whether it answers
  pc,          \* the call the step is about to make
  desired,     \* the desired state the step was called with
  prior,       \* the reconcile memory the step was called with
  live,        \* the export the step has read
  identified,  \* whether a node id has been read
  write,       \* the surface the step chose to write
  outcome,     \* the Outcome the step returned
  faults,      \* faults of the world so far
  tries        \* history: Apply calls since the apply budget was last reset

convergeVars ==
  <<radio, pc, desired, prior, live, identified, write, outcome, faults, tries>>
stepVars == <<desired, prior, live, identified, write, outcome>>

-----------------------------------------------------------------------------
(* Values *)

Hashes == {Hash(p) : p \in Passwords} \cup {None}

Desired == [supported : BOOLEAN, scalar : Scalars,
            password : Passwords \cup {None}, channels : ChannelSets \cup {None}]

\* No reconcile is holding a desired state.
NoDesired == [supported |-> FALSE, scalar |-> None, password |-> None, channels |-> None]

Prior == [RebootPending : BOOLEAN, ApplyAttempts : 0..MaxApplyAttempts,
          MQTTPasswordHash : Hashes]

Radio == [up : BOOLEAN, booted : BOOLEAN, stock : BOOLEAN, scalar : Scalars,
          password : Passwords \cup {None}, channels : ChannelSets]

Export == [scalar : Scalars \cup {None}, channels : ChannelSets \cup {None}]

Outcomes ==
  [Reachable : BOOLEAN, ConfigInSync : BOOLEAN, RebootPending : BOOLEAN,
   Ready : BOOLEAN, Degraded : BOOLEAN, ChannelsUnobserved : BOOLEAN,
   NodeID : BOOLEAN, LiveChannels : ChannelSets \cup {None},
   Reason : {"None", "InSync", "ConnectFailed", "ConfigApplied", "ApplyFailed",
             "UnsupportedTransport", "ChannelsUnobserved"},
   Requeue : {"None", "ReconnectBackoff", "RebootWait", "DriftCheckInterval"},
   ApplyAttempts : 0..MaxApplyAttempts, MQTTPasswordHash : Hashes]

Phases == {"idle", "export", "info", "compare", "apply", "reboot",
           "returned", "errored"}

\* The zero values of Go's Outcome{}, of a step not started, of an empty spec.
ZeroOutcome ==
  [Reachable |-> FALSE, ConfigInSync |-> FALSE, RebootPending |-> FALSE,
   Ready |-> FALSE, Degraded |-> FALSE, ChannelsUnobserved |-> FALSE,
   NodeID |-> FALSE, LiveChannels |-> None, Reason |-> "None",
   Requeue |-> "None", ApplyAttempts |-> 0, MQTTPasswordHash |-> None]

ZeroPrior == [RebootPending |-> FALSE, ApplyAttempts |-> 0, MQTTPasswordHash |-> None]

BlankExport == [scalar |-> None, channels |-> None]

-----------------------------------------------------------------------------
(* What the comparison sees *)

WriteOnlyPasswordHash(d) == IF d.password = None THEN None ELSE Hash(d.password)

\* Mutant: a node whose status holds no hash yet is taken to be up to date.
WriteOnlyDriftOnlyOfKnownHash(d, p) ==
  /\ WriteOnlyPasswordHash(d) # None
  /\ p.MQTTPasswordHash # None
  /\ WriteOnlyPasswordHash(d) # p.MQTTPasswordHash

\* The password is never exported, so only the stored hash can show it changed.
WriteOnlyDrift(d, p) ==
  /\ WriteOnlyPasswordHash(d) # None
  /\ WriteOnlyPasswordHash(d) # p.MQTTPasswordHash

ScalarConverged(d, p, l) == l.scalar = d.scalar /\ ~WriteOnlyDrift(d, p)

ChannelsUnknown(d, l) == d.channels # None /\ l.channels = None

\* Mutant: a spec that declares no channels drifts from a radio that has some.
ChannelsMatchExactly(d, l) == d.channels = l.channels

ChannelsMatch(d, l) == d.channels = None \/ d.channels = l.channels

ChannelsConverged(d, l) == ~ChannelsUnknown(d, l) /\ ChannelsMatch(d, l)

Converged(d, p, l) == ScalarConverged(d, p, l) /\ ChannelsConverged(d, l)

-----------------------------------------------------------------------------
(* Outcomes, one operator per return of Converge *)

Carry(p) == [ZeroOutcome EXCEPT !.ApplyAttempts = p.ApplyAttempts,
                                !.MQTTPasswordHash = p.MQTTPasswordHash]

UnsupportedOutcome(p) ==
  [Carry(p) EXCEPT !.Reason = "UnsupportedTransport", !.Requeue = "DriftCheckInterval"]

UnreachableOutcome(p) ==
  [Carry(p) EXCEPT
     !.RebootPending = p.RebootPending,
     !.Degraded = p.ApplyAttempts >= MaxApplyAttempts,
     !.Reason = IF p.RebootPending THEN "ConfigApplied" ELSE "ConnectFailed",
     !.Requeue = "ReconnectBackoff"]

\* What every outcome of a step that read the device carries.
Seen(p, l, id) ==
  [Carry(p) EXCEPT !.Reachable = TRUE, !.NodeID = id, !.LiveChannels = l.channels]

\* Mutant: a converged node is not looked at again.
ReadyOutcomeWithoutRequeue(d, p, l, id) ==
  [Seen(p, l, id) EXCEPT
     !.ConfigInSync = TRUE, !.Ready = TRUE, !.Reason = "InSync",
     !.ApplyAttempts = 0, !.MQTTPasswordHash = WriteOnlyPasswordHash(d)]

ReadyOutcome(d, p, l, id) ==
  [Seen(p, l, id) EXCEPT
     !.ConfigInSync = TRUE, !.Ready = TRUE, !.Reason = "InSync",
     !.Requeue = "DriftCheckInterval", !.ApplyAttempts = 0,
     !.MQTTPasswordHash = WriteOnlyPasswordHash(d)]

UnobservedOutcome(p, l, id) ==
  [Seen(p, l, id) EXCEPT
     !.ConfigInSync = TRUE, !.Reason = "ChannelsUnobserved",
     !.Requeue = "ReconnectBackoff", !.ChannelsUnobserved = TRUE]

DegradedOutcome(d, p, l, id) ==
  [Seen(p, l, id) EXCEPT
     !.ConfigInSync = Converged(d, p, l), !.Degraded = TRUE,
     !.Reason = "ApplyFailed", !.Requeue = "DriftCheckInterval",
     !.ChannelsUnobserved = ChannelsUnknown(d, l)]

\* Mutant: a dropped session is not counted as an attempt.
DroppedApplyOutcomeUncounted(p) ==
  [Carry(p) EXCEPT
     !.RebootPending = TRUE, !.Reason = "ConfigApplied", !.Requeue = "RebootWait"]

\* Mutant: the hash of a password that may not have landed is committed.
DroppedApplyOutcomeCommitsHash(p) ==
  [Carry(p) EXCEPT
     !.RebootPending = TRUE, !.ApplyAttempts = p.ApplyAttempts + 1,
     !.Reason = "ConfigApplied", !.Requeue = "RebootWait",
     !.MQTTPasswordHash = WriteOnlyPasswordHash(desired)]

DroppedApplyOutcome(p) ==
  [Carry(p) EXCEPT
     !.RebootPending = TRUE, !.ApplyAttempts = p.ApplyAttempts + 1,
     !.Reason = "ConfigApplied", !.Requeue = "RebootWait"]

\* Mutant: the attempt is counted only when the session drops.
AppliedOutcomeUncounted(d, p, l, id) ==
  [Seen(p, l, id) EXCEPT
     !.ConfigInSync = ScalarConverged(d, p, l), !.RebootPending = TRUE,
     !.Reason = "ConfigApplied", !.Requeue = "RebootWait",
     !.MQTTPasswordHash = IF ScalarConverged(d, p, l)
                          THEN p.MQTTPasswordHash ELSE WriteOnlyPasswordHash(d),
     !.ChannelsUnobserved = ChannelsUnknown(d, l)]

AppliedOutcome(d, p, l, id) ==
  [Seen(p, l, id) EXCEPT
     !.ConfigInSync = ScalarConverged(d, p, l), !.RebootPending = TRUE,
     !.Reason = "ConfigApplied", !.Requeue = "RebootWait",
     !.ApplyAttempts = p.ApplyAttempts + 1,
     !.MQTTPasswordHash = IF ScalarConverged(d, p, l)
                          THEN p.MQTTPasswordHash ELSE WriteOnlyPasswordHash(d),
     !.ChannelsUnobserved = ChannelsUnknown(d, l)]

-----------------------------------------------------------------------------
(* The radio *)

\* What the exporter returns: never the password, a mute field never as
\* declared, and a channel set only from the bundled exporter.
Exported(r) ==
  [scalar   |-> IF r.scalar \in MuteScalars THEN None ELSE r.scalar,
   channels |-> IF r.stock THEN None ELSE r.channels]

\* Apply merges the declared configuration into the stored one, an undeclared
\* password is left alone; the modules that start at boot still run the old one.
Configured(r, d) ==
  [r EXCEPT !.scalar = d.scalar,
            !.password = IF d.password = None THEN r.password ELSE d.password,
            !.booted = FALSE]

\* ApplyChannels stores the declared channels by slot.
Channelled(r, d) == [r EXCEPT !.channels = d.channels, !.booted = FALSE]

Written(r, d, surface) ==
  IF surface = "scalar" THEN Configured(r, d) ELSE Channelled(r, d)

\* A write may make the device reboot by itself, at once.
AfterWrite(r, d, surface) ==
  {[Written(r, d, surface) EXCEPT !.up = u] : u \in BOOLEAN}

Fault == faults < MaxFaults /\ faults' = faults + 1

RadioFails ==
  /\ radio.up
  /\ Fault
  /\ radio' = [radio EXCEPT !.up = FALSE]
  /\ UNCHANGED <<pc, stepVars, tries>>

RadioReturns ==
  /\ ~radio.up
  /\ radio' = [radio EXCEPT !.up = TRUE, !.booted = TRUE]
  /\ UNCHANGED <<pc, stepVars, faults, tries>>

\* Somebody edits the device with another client, which reboots it.
ExternalEdit ==
  /\ radio.up
  /\ Fault
  /\ \E s \in Scalars, c \in ChannelSets :
       /\ <<s, c>> # <<radio.scalar, radio.channels>>
       /\ radio' = [radio EXCEPT !.scalar = s, !.channels = c, !.up = FALSE]
  /\ UNCHANGED <<pc, stepVars, tries>>

-----------------------------------------------------------------------------
(* The step *)

Begin(d, p) ==
  /\ pc' = "export"
  /\ desired' = d
  /\ prior' = p
  /\ live' = BlankExport
  /\ identified' = FALSE
  /\ write' = "nothing"
  /\ outcome' = ZeroOutcome

Return(o) ==
  /\ pc' = "returned"
  /\ outcome' = o
  /\ UNCHANGED <<desired, prior, live, identified, write, tries>>

\* The caller has taken the result: the step's locals are gone.
Forget ==
  /\ pc' = "idle"
  /\ desired' = NoDesired
  /\ prior' = ZeroPrior
  /\ live' = BlankExport
  /\ identified' = FALSE
  /\ write' = "nothing"
  /\ outcome' = ZeroOutcome

\* The error is returned with an Outcome no caller uses.
Error ==
  /\ pc' = "errored"
  /\ UNCHANGED <<stepVars, tries>>

\* A call finds the device down, or the session drops or times out under it.
DeviceDrop == IF radio.up THEN Fault ELSE UNCHANGED faults

ExportUnsupported ==
  /\ pc = "export"
  /\ ~desired.supported
  /\ Return(UnsupportedOutcome(prior))
  /\ UNCHANGED <<radio, faults>>

ExportDropped ==
  /\ pc = "export"
  /\ desired.supported
  /\ DeviceDrop
  /\ Return(UnreachableOutcome(prior))
  /\ UNCHANGED radio

ExportFailed ==
  /\ pc = "export"
  /\ desired.supported
  /\ radio.up
  /\ Fault
  /\ Error
  /\ UNCHANGED radio

\* The bundled exporter carries the local node id; without one, ask --info.
ExportRead ==
  /\ pc = "export"
  /\ desired.supported
  /\ radio.up
  /\ live' = Exported(radio)
  /\ \/ ~radio.stock /\ identified' = TRUE /\ pc' = "compare" /\ UNCHANGED faults
     \/ radio.stock /\ identified' = FALSE /\ pc' = "info" /\ UNCHANGED faults
     \/ ~radio.stock /\ Fault /\ identified' = FALSE /\ pc' = "info"
  /\ UNCHANGED <<radio, desired, prior, write, outcome, tries>>

InfoDropped ==
  /\ pc = "info"
  /\ DeviceDrop
  /\ Return(UnreachableOutcome(prior))
  /\ UNCHANGED radio

InfoFailed ==
  /\ pc = "info"
  /\ radio.up
  /\ Fault
  /\ Error
  /\ UNCHANGED radio

\* parseInfo never fails: a garbled answer is a blank identity.
InfoRead ==
  /\ pc = "info"
  /\ radio.up
  /\ pc' = "compare"
  /\ \/ identified' = TRUE /\ UNCHANGED faults
     \/ identified' = FALSE /\ Fault
  /\ UNCHANGED <<radio, desired, prior, live, write, outcome, tries>>

CompareInSync ==
  /\ pc = "compare"
  /\ Converged(desired, prior, live)
  /\ Return(IF identified THEN ReadyOutcome(desired, prior, live, identified)
                          ELSE UnreachableOutcome(prior))
  /\ UNCHANGED <<radio, faults>>

CompareUnobserved ==
  /\ pc = "compare"
  /\ ChannelsUnknown(desired, live)
  /\ ScalarConverged(desired, prior, live)
  /\ Return(UnobservedOutcome(prior, live, identified))
  /\ UNCHANGED <<radio, faults>>

\* Something the step can write has drifted.
Drifted(d, p, l) ==
  /\ ~Converged(d, p, l)
  /\ ~(ChannelsUnknown(d, l) /\ ScalarConverged(d, p, l))

\* Mutant: one attempt more than the bound.
BudgetSpentOffByOne(p) == p.ApplyAttempts > MaxApplyAttempts

BudgetSpent(p) == p.ApplyAttempts >= MaxApplyAttempts

CompareGivesUp ==
  /\ pc = "compare"
  /\ Drifted(desired, prior, live)
  /\ BudgetSpent(prior)
  /\ Return(DegradedOutcome(desired, prior, live, identified))
  /\ UNCHANGED <<radio, faults>>

\* Scalar configuration first: channels only once the scalar one matches.
Surface(d, p, l) == IF ScalarConverged(d, p, l) THEN "channels" ELSE "scalar"

CompareWrites ==
  /\ pc = "compare"
  /\ Drifted(desired, prior, live)
  /\ ~BudgetSpent(prior)
  /\ pc' = "apply"
  /\ write' = Surface(desired, prior, live)
  /\ UNCHANGED <<radio, desired, prior, live, identified, outcome, faults, tries>>

ApplyAcked ==
  /\ pc = "apply"
  /\ radio.up
  /\ radio' \in AfterWrite(radio, desired, write)
  /\ tries' = tries + 1
  /\ pc' = "reboot"
  /\ UNCHANGED <<stepVars, faults>>

\* A session that drops under the write may or may not have written.
ApplyDropped ==
  /\ pc = "apply"
  /\ DeviceDrop
  /\ radio' \in {radio} \cup (IF radio.up THEN AfterWrite(radio, desired, write) ELSE {})
  /\ tries' = tries + 1
  /\ pc' = "returned"
  /\ outcome' = DroppedApplyOutcome(prior)
  /\ UNCHANGED <<desired, prior, live, identified, write>>

\* A helper that exits with an error may have written too.
ApplyFailed ==
  /\ pc = "apply"
  /\ radio.up
  /\ Fault
  /\ radio' \in {radio} \cup AfterWrite(radio, desired, write)
  /\ tries' = tries + 1
  /\ pc' = "errored"
  /\ UNCHANGED stepVars

\* Mutant: the write is trusted to reboot the device by itself.
RebootOmitted ==
  /\ pc = "reboot"
  /\ Return(AppliedOutcome(desired, prior, live, identified))
  /\ UNCHANGED <<radio, faults>>

\* The error of the explicit reboot is discarded.
Reboot ==
  /\ pc = "reboot"
  /\ \/ radio' = [radio EXCEPT !.up = FALSE] /\ UNCHANGED faults
     \/ radio.up /\ Fault /\ UNCHANGED radio
  /\ Return(AppliedOutcome(desired, prior, live, identified))

-----------------------------------------------------------------------------

World == RadioFails \/ RadioReturns \/ ExternalEdit

Step ==
  \/ ExportUnsupported \/ ExportDropped \/ ExportFailed \/ ExportRead
  \/ InfoDropped \/ InfoFailed \/ InfoRead
  \/ CompareInSync \/ CompareUnobserved \/ CompareGivesUp \/ CompareWrites
  \/ ApplyAcked \/ ApplyDropped \/ ApplyFailed
  \/ Reboot

ConvergeInit ==
  /\ radio \in [up : {TRUE}, booted : {TRUE}, stock : Exporters,
                scalar : Scalars, password : {None}, channels : ChannelSets]
  /\ pc = "idle"
  /\ prior = ZeroPrior
  /\ live = BlankExport
  /\ identified = FALSE
  /\ write = "nothing"
  /\ outcome = ZeroOutcome
  /\ faults = 0
  /\ tries = 0

(***************************************************************************)
(* Type invariant of the step.  The attempt counters stay within the       *)
(* bound, a write is chosen only below it (converge.go:246), and channels  *)
(* are written only when channels are declared (converge.go:265-270).      *)
(***************************************************************************)
ConvergeTypeOK ==
  /\ radio \in Radio
  /\ pc \in Phases
  /\ desired \in Desired \cup {NoDesired}
  /\ prior \in Prior
  /\ live \in Export
  /\ identified \in BOOLEAN
  /\ write \in {"nothing", "scalar", "channels"}
  /\ outcome \in Outcomes
  /\ faults \in 0..MaxFaults
  /\ tries \in Nat
  /\ pc # "idle" => desired \in Desired
  /\ pc \in {"apply", "reboot"} =>
       /\ prior.ApplyAttempts < MaxApplyAttempts
       /\ write # "nothing"
       /\ write = "channels" => desired.channels # None

=============================================================================
