---------------------------- MODULE ConvergeProofs ----------------------------
(***************************************************************************)
(* What every caller of Converge may rely on: the step keeps its type      *)
(* invariant, and so does what the world does to the radio meanwhile.      *)
(***************************************************************************)
EXTENDS Converge, TLAPS

(***************************************************************************)
(* Everything Converge can return is a well-formed Outcome, the counted    *)
(* attempt only below the bound (converge.go:129-311).                     *)
(***************************************************************************)
LEMMA OutcomesWellFormed ==
  ASSUME NEW d \in Desired, NEW p \in Prior, NEW l \in Export, NEW id \in BOOLEAN
  PROVE  /\ UnsupportedOutcome(p) \in Outcomes
         /\ UnreachableOutcome(p) \in Outcomes
         /\ ReadyOutcome(d, p, l, id) \in Outcomes
         /\ UnobservedOutcome(p, l, id) \in Outcomes
         /\ DegradedOutcome(d, p, l, id) \in Outcomes
         /\ p.ApplyAttempts < MaxApplyAttempts =>
              /\ DroppedApplyOutcome(p) \in Outcomes
              /\ AppliedOutcome(d, p, l, id) \in Outcomes
<1>. USE ConvergeAssumption
<1>1. WriteOnlyPasswordHash(d) \in Hashes
  BY DEF WriteOnlyPasswordHash, Hashes, Desired
<1>2. /\ p.ApplyAttempts \in 0..MaxApplyAttempts
      /\ p.MQTTPasswordHash \in Hashes
      /\ p.RebootPending \in BOOLEAN
  BY DEF Prior
<1>3. l.channels \in ChannelSets \cup {None}
  BY DEF Export
<1>4. /\ Converged(d, p, l) \in BOOLEAN
      /\ ScalarConverged(d, p, l) \in BOOLEAN
      /\ ChannelsUnknown(d, l) \in BOOLEAN
  BY DEF Converged, ScalarConverged, ChannelsUnknown
<1>5. 0 \in 0..MaxApplyAttempts
  OBVIOUS
<1>6. ZeroOutcome \in Outcomes
  BY <1>5 DEF ZeroOutcome, Outcomes, Hashes
<1>7. Carry(p) \in Outcomes
  BY <1>2, <1>6 DEF Carry, Outcomes
<1>8. Seen(p, l, id) \in Outcomes
  BY <1>3, <1>7 DEF Seen, Outcomes
<1>9. UnsupportedOutcome(p) \in Outcomes
  BY <1>7 DEF UnsupportedOutcome, Outcomes
<1>10. UnreachableOutcome(p) \in Outcomes
  <2>1. (p.ApplyAttempts >= MaxApplyAttempts) \in BOOLEAN
    OBVIOUS
  <2>. QED
    BY <1>2, <1>7, <2>1 DEF UnreachableOutcome, Outcomes
<1>11. ReadyOutcome(d, p, l, id) \in Outcomes
  BY <1>1, <1>5, <1>8 DEF ReadyOutcome, Outcomes
<1>12. UnobservedOutcome(p, l, id) \in Outcomes
  BY <1>8 DEF UnobservedOutcome, Outcomes
<1>13. DegradedOutcome(d, p, l, id) \in Outcomes
  BY <1>4, <1>8 DEF DegradedOutcome, Outcomes
<1>14. ASSUME p.ApplyAttempts < MaxApplyAttempts
       PROVE  /\ DroppedApplyOutcome(p) \in Outcomes
              /\ AppliedOutcome(d, p, l, id) \in Outcomes
  <2>1. p.ApplyAttempts + 1 \in 0..MaxApplyAttempts
    BY <1>2, <1>14
  <2>2. DroppedApplyOutcome(p) \in Outcomes
    BY <1>7, <2>1 DEF DroppedApplyOutcome, Outcomes
  <2>3. AppliedOutcome(d, p, l, id) \in Outcomes
    BY <1>1, <1>2, <1>4, <1>8, <2>1 DEF AppliedOutcome, Outcomes
  <2>. QED
    BY <2>2, <2>3
<1>. QED
  BY <1>9, <1>10, <1>11, <1>12, <1>13, <1>14

(***************************************************************************)
(* The memory each return of Converge hands to the next step: attempts are *)
(* kept, counted or reset, and only an acknowledged write of the scalar    *)
(* configuration, or Ready, moves the hash (converge.go:129-311).          *)
(***************************************************************************)
LEMMA OutcomeMemory ==
  ASSUME NEW d, NEW p, NEW l, NEW id
  PROVE  /\ \A o \in {UnsupportedOutcome(p), UnreachableOutcome(p),
                     UnobservedOutcome(p, l, id), DegradedOutcome(d, p, l, id)} :
              /\ o.ApplyAttempts = p.ApplyAttempts
              /\ o.MQTTPasswordHash = p.MQTTPasswordHash
              /\ ~o.Ready
              /\ o.Requeue # "None"
         /\ /\ DroppedApplyOutcome(p).ApplyAttempts = p.ApplyAttempts + 1
            /\ DroppedApplyOutcome(p).MQTTPasswordHash = p.MQTTPasswordHash
            /\ ~DroppedApplyOutcome(p).Ready
            /\ ~DroppedApplyOutcome(p).Reachable
            /\ DroppedApplyOutcome(p).Requeue # "None"
         /\ /\ AppliedOutcome(d, p, l, id).ApplyAttempts = p.ApplyAttempts + 1
            /\ AppliedOutcome(d, p, l, id).MQTTPasswordHash =
                 IF ScalarConverged(d, p, l) THEN p.MQTTPasswordHash
                                             ELSE WriteOnlyPasswordHash(d)
            /\ ~AppliedOutcome(d, p, l, id).Ready
            /\ AppliedOutcome(d, p, l, id).Reachable
            /\ AppliedOutcome(d, p, l, id).Requeue # "None"
         /\ /\ ReadyOutcome(d, p, l, id).ApplyAttempts = 0
            /\ ReadyOutcome(d, p, l, id).MQTTPasswordHash = WriteOnlyPasswordHash(d)
            /\ ReadyOutcome(d, p, l, id).Ready
            /\ ReadyOutcome(d, p, l, id).Requeue # "None"
<1>. USE DEF ZeroOutcome, Carry, Seen
<1>1. ASSUME NEW o \in {UnsupportedOutcome(p), UnreachableOutcome(p),
                        UnobservedOutcome(p, l, id), DegradedOutcome(d, p, l, id)}
      PROVE  /\ o.ApplyAttempts = p.ApplyAttempts
             /\ o.MQTTPasswordHash = p.MQTTPasswordHash
             /\ ~o.Ready
             /\ o.Requeue # "None"
  <2>1. CASE o = UnsupportedOutcome(p)
    BY <2>1 DEF UnsupportedOutcome
  <2>2. CASE o = UnreachableOutcome(p)
    BY <2>2 DEF UnreachableOutcome
  <2>3. CASE o = UnobservedOutcome(p, l, id)
    BY <2>3 DEF UnobservedOutcome
  <2>4. CASE o = DegradedOutcome(d, p, l, id)
    BY <2>4 DEF DegradedOutcome
  <2>. QED
    BY <1>1, <2>1, <2>2, <2>3, <2>4
<1>2. /\ DroppedApplyOutcome(p).ApplyAttempts = p.ApplyAttempts + 1
      /\ DroppedApplyOutcome(p).MQTTPasswordHash = p.MQTTPasswordHash
      /\ ~DroppedApplyOutcome(p).Ready
      /\ ~DroppedApplyOutcome(p).Reachable
      /\ DroppedApplyOutcome(p).Requeue # "None"
  BY DEF DroppedApplyOutcome
<1>3. /\ AppliedOutcome(d, p, l, id).ApplyAttempts = p.ApplyAttempts + 1
      /\ AppliedOutcome(d, p, l, id).MQTTPasswordHash =
           IF ScalarConverged(d, p, l) THEN p.MQTTPasswordHash
                                       ELSE WriteOnlyPasswordHash(d)
      /\ ~AppliedOutcome(d, p, l, id).Ready
      /\ AppliedOutcome(d, p, l, id).Reachable
      /\ AppliedOutcome(d, p, l, id).Requeue # "None"
  BY DEF AppliedOutcome
<1>4. /\ ReadyOutcome(d, p, l, id).ApplyAttempts = 0
      /\ ReadyOutcome(d, p, l, id).MQTTPasswordHash = WriteOnlyPasswordHash(d)
      /\ ReadyOutcome(d, p, l, id).Ready
      /\ ReadyOutcome(d, p, l, id).Requeue # "None"
  BY DEF ReadyOutcome
<1>. QED
  BY <1>1, <1>2, <1>3, <1>4

(***************************************************************************)
(* A write of either surface leaves a well-formed radio                    *)
(* (converge.go:265-270).                                                  *)
(***************************************************************************)
LEMMA AfterWriteWellFormed ==
  ASSUME NEW r \in Radio, NEW d \in Desired, NEW surface \in {"scalar", "channels"},
         surface = "channels" => d.channels # None,
         NEW w \in AfterWrite(r, d, surface)
  PROVE  w \in Radio
<1>1. Configured(r, d) \in Radio
  BY DEF Configured, Radio, Desired
<1>2. ASSUME surface = "channels"
      PROVE  Channelled(r, d) \in Radio
  BY <1>2 DEF Channelled, Radio, Desired
<1>3. Written(r, d, surface) \in Radio
  BY <1>1, <1>2 DEF Written
<1>. QED
  BY <1>3 DEF AfterWrite, Radio

LEMMA FaultBounded ==
  ASSUME faults \in 0..MaxFaults, Fault
  PROVE  faults' \in 0..MaxFaults
BY ConvergeAssumption DEF Fault

(***************************************************************************)
(* What the world does to the radio keeps the type invariant.              *)
(***************************************************************************)
LEMMA WorldTypeOK ==
  ASSUME ConvergeTypeOK, World
  PROVE  ConvergeTypeOK'
<1>1. CASE RadioFails
  <2>1. radio' \in Radio
    BY <1>1 DEF RadioFails, ConvergeTypeOK, Radio
  <2>. QED
    BY <1>1, <2>1, FaultBounded DEF RadioFails, ConvergeTypeOK, stepVars
<1>2. CASE RadioReturns
  <2>1. radio' \in Radio
    BY <1>2 DEF RadioReturns, ConvergeTypeOK, Radio
  <2>. QED
    BY <1>2, <2>1 DEF RadioReturns, ConvergeTypeOK, stepVars
<1>3. CASE ExternalEdit
  <2>1. radio' \in Radio
    BY <1>3 DEF ExternalEdit, ConvergeTypeOK, Radio
  <2>. QED
    BY <1>3, <2>1, FaultBounded DEF ExternalEdit, ConvergeTypeOK, stepVars
<1>. QED
  BY <1>1, <1>2, <1>3 DEF World

(***************************************************************************)
(* Every call and every branch of Converge keeps the type invariant        *)
(* (converge.go:129-311).                                                  *)
(***************************************************************************)
LEMMA StepTypeOK ==
  ASSUME ConvergeTypeOK, Step
  PROVE  ConvergeTypeOK'
<1>. USE DEF ConvergeTypeOK, stepVars
<1>0. pc # "idle" => desired \in Desired
  OBVIOUS
<1>1. ASSUME NEW o \in Outcomes, Return(o), radio' \in Radio, faults' \in 0..MaxFaults,
             pc # "idle"
      PROVE  ConvergeTypeOK'
  BY <1>1 DEF Return, Phases
<1>2. ASSUME Error, UNCHANGED radio, faults' \in 0..MaxFaults, pc # "idle"
      PROVE  ConvergeTypeOK'
  BY <1>2 DEF Error, Phases
<1>3. ASSUME pc # "idle"
      PROVE  /\ UnsupportedOutcome(prior) \in Outcomes
             /\ UnreachableOutcome(prior) \in Outcomes
             /\ ReadyOutcome(desired, prior, live, identified) \in Outcomes
             /\ UnobservedOutcome(prior, live, identified) \in Outcomes
             /\ DegradedOutcome(desired, prior, live, identified) \in Outcomes
             /\ pc \in {"apply", "reboot"} =>
                  /\ DroppedApplyOutcome(prior) \in Outcomes
                  /\ AppliedOutcome(desired, prior, live, identified) \in Outcomes
  BY <1>3, OutcomesWellFormed
<1>4. ASSUME DeviceDrop
      PROVE  faults' \in 0..MaxFaults
  BY <1>4, FaultBounded DEF DeviceDrop
<1>5. ASSUME pc = "apply", NEW w \in AfterWrite(radio, desired, write)
      PROVE  w \in Radio
  BY <1>5, AfterWriteWellFormed
<1>6. CASE ExportUnsupported
  BY <1>1, <1>3, <1>6 DEF ExportUnsupported
<1>7. CASE ExportDropped
  BY <1>1, <1>3, <1>4, <1>7 DEF ExportDropped
<1>8. CASE ExportFailed
  BY <1>2, <1>8, FaultBounded DEF ExportFailed
<1>9. CASE ExportRead
  <2>1. Exported(radio) \in Export
    BY DEF Exported, Export, Radio
  <2>2. faults' \in 0..MaxFaults
    BY <1>9, FaultBounded DEF ExportRead
  <2>. QED
    BY <1>9, <2>1, <2>2 DEF ExportRead, Phases
<1>10. CASE InfoDropped
  BY <1>1, <1>3, <1>4, <1>10 DEF InfoDropped
<1>11. CASE InfoFailed
  BY <1>2, <1>11, FaultBounded DEF InfoFailed
<1>12. CASE InfoRead
  <2>1. faults' \in 0..MaxFaults
    BY <1>12, FaultBounded DEF InfoRead
  <2>. QED
    BY <1>12, <2>1 DEF InfoRead, Phases
<1>13. CASE CompareInSync
  BY <1>1, <1>3, <1>13 DEF CompareInSync
<1>14. CASE CompareUnobserved
  BY <1>1, <1>3, <1>14 DEF CompareUnobserved
<1>15. CASE CompareGivesUp
  BY <1>1, <1>3, <1>15 DEF CompareGivesUp
<1>16. CASE CompareWrites
  <2>1. prior.ApplyAttempts < MaxApplyAttempts
    BY <1>16, ConvergeAssumption DEF CompareWrites, BudgetSpent, Prior
  <2>2. Surface(desired, prior, live) \in {"scalar", "channels"}
    BY DEF Surface
  \* Channels are chosen only over scalar convergence, and then they differ.
  <2>3. Surface(desired, prior, live) = "channels" => desired.channels # None
    BY <1>16 DEF CompareWrites, Surface, Drifted, Converged, ChannelsConverged,
                 ChannelsUnknown, ChannelsMatch
  <2>. QED
    BY <1>16, <2>1, <2>2, <2>3 DEF CompareWrites, Phases
<1>17. CASE ApplyAcked
  <2>1. radio' \in Radio
    BY <1>5, <1>17 DEF ApplyAcked
  <2>. QED
    BY <1>17, <2>1 DEF ApplyAcked, Phases
<1>18. CASE ApplyDropped
  <2>1. radio' \in Radio
    BY <1>5, <1>18 DEF ApplyDropped
  <2>2. faults' \in 0..MaxFaults
    BY <1>4, <1>18 DEF ApplyDropped
  <2>3. outcome' \in Outcomes
    BY <1>3, <1>18 DEF ApplyDropped
  <2>. QED
    BY <1>18, <2>1, <2>2, <2>3 DEF ApplyDropped, Phases
<1>19. CASE ApplyFailed
  <2>1. radio' \in Radio
    BY <1>5, <1>19 DEF ApplyFailed
  <2>. QED
    BY <1>19, <2>1, FaultBounded DEF ApplyFailed, Phases
<1>20. CASE Reboot
  <2>1. radio' \in Radio
    BY <1>20 DEF Reboot, Radio
  <2>2. faults' \in 0..MaxFaults
    BY <1>20, FaultBounded DEF Reboot
  <2>. QED
    BY <1>1, <1>3, <1>20, <2>1, <2>2 DEF Reboot
<1>. QED
  BY <1>6, <1>7, <1>8, <1>9, <1>10, <1>11, <1>12, <1>13, <1>14, <1>15, <1>16, <1>17,
     <1>18, <1>19, <1>20 DEF Step

(***************************************************************************)
(* Only a write of the scalar configuration that declares a password       *)
(* changes the radio's (converge.go:265-270).                              *)
(***************************************************************************)
LEMMA AfterWritePassword ==
  ASSUME NEW r \in Radio, NEW d, NEW surface, NEW w \in AfterWrite(r, d, surface)
  PROVE  w.password = IF surface = "scalar" /\ d.password # None THEN d.password
                      ELSE r.password
<1>1. Written(r, d, surface).password =
        IF surface = "scalar" /\ d.password # None THEN d.password ELSE r.password
  BY DEF Written, Configured, Channelled, Radio
<1>2. PICK u \in BOOLEAN : w = [Written(r, d, surface) EXCEPT !.up = u]
  BY DEF AfterWrite
<1>. QED
  BY <1>1, <1>2

(***************************************************************************)
(* A step that has not reached the write changes neither the radio nor the *)
(* count of applies; it returns the memory it was given, or Ready with the *)
(* hash it found no drift from (converge.go:130-258).                      *)
(***************************************************************************)
LEMMA StepBeforeWrite ==
  ASSUME ConvergeTypeOK, Step, pc \notin {"apply", "reboot"}
  PROVE  /\ UNCHANGED <<radio, tries, desired, prior>>
         /\ pc \in {"export", "info", "compare"}
         /\ pc' # "apply" => write' = write
         /\ pc' = "returned" => outcome'.Requeue # "None"
         /\ \/ pc' \in {"info", "compare", "errored"}
            \/ pc' = "apply" /\ live' = live /\ write' = Surface(desired, prior, live)
            \/ /\ pc' = "returned"
               /\ ~outcome'.Ready
               /\ outcome'.ApplyAttempts = prior.ApplyAttempts
               /\ outcome'.MQTTPasswordHash = prior.MQTTPasswordHash
            \/ /\ pc' = "returned"
               /\ outcome'.Ready
               /\ outcome'.ApplyAttempts = 0
               /\ outcome'.MQTTPasswordHash = WriteOnlyPasswordHash(desired)
               /\ ~WriteOnlyDrift(desired, prior)
<1>. USE DEF stepVars
<1>1. CASE ExportUnsupported
  BY <1>1, OutcomeMemory DEF ExportUnsupported, Return
<1>2. CASE ExportDropped
  BY <1>2, OutcomeMemory DEF ExportDropped, Return
<1>3. CASE ExportFailed
  BY <1>3 DEF ExportFailed, Error
<1>4. CASE ExportRead
  BY <1>4 DEF ExportRead
<1>5. CASE InfoDropped
  BY <1>5, OutcomeMemory DEF InfoDropped, Return
<1>6. CASE InfoFailed
  BY <1>6 DEF InfoFailed, Error
<1>7. CASE InfoRead
  BY <1>7 DEF InfoRead
<1>8. CASE CompareInSync
  <2>1. ~WriteOnlyDrift(desired, prior)
    BY <1>8 DEF CompareInSync, Converged, ScalarConverged
  <2>. QED
    BY <1>8, <2>1, OutcomeMemory DEF CompareInSync, Return
<1>9. CASE CompareUnobserved
  BY <1>9, OutcomeMemory DEF CompareUnobserved, Return
<1>10. CASE CompareGivesUp
  BY <1>10, OutcomeMemory DEF CompareGivesUp, Return
<1>11. CASE CompareWrites
  BY <1>11 DEF CompareWrites
<1>. QED
  BY <1>1, <1>2, <1>3, <1>4, <1>5, <1>6, <1>7, <1>8, <1>9, <1>10, <1>11
     DEF Step, ApplyAcked, ApplyDropped, ApplyFailed, Reboot

(***************************************************************************)
(* The write is one apply, and whatever became of it, the radio's password *)
(* is the old one or the declared one; the outcome counts the attempt, and *)
(* moves the hash only after an acknowledgement (converge.go:265-310).     *)
(***************************************************************************)
LEMMA StepFromWrite ==
  ASSUME ConvergeTypeOK, Step, pc \in {"apply", "reboot"}
  PROVE  /\ UNCHANGED <<desired, prior, live, write>>
         /\ pc = "apply" => /\ tries' = tries + 1
                            /\ pc' \in {"reboot", "returned", "errored"}
                            /\ \/ pc' # "reboot" /\ radio' = radio
                               \/ radio' \in AfterWrite(radio, desired, write)
         /\ pc = "reboot" => /\ tries' = tries
                             /\ pc' = "returned"
                             /\ radio'.password = radio.password
                             /\ outcome'.Reachable
                             /\ outcome'.MQTTPasswordHash =
                                  IF ScalarConverged(desired, prior, live)
                                  THEN prior.MQTTPasswordHash
                                  ELSE WriteOnlyPasswordHash(desired)
         /\ pc = "apply" /\ pc' = "returned" =>
              /\ outcome'.MQTTPasswordHash = prior.MQTTPasswordHash
              /\ ~outcome'.Reachable
         /\ pc' = "returned" => /\ ~outcome'.Ready
                                /\ outcome'.Requeue # "None"
                                /\ outcome'.ApplyAttempts = prior.ApplyAttempts + 1
<1>. USE DEF stepVars
<1>1. CASE ApplyAcked
  BY <1>1 DEF ApplyAcked
<1>2. CASE ApplyDropped
  BY <1>2, OutcomeMemory DEF ApplyDropped
<1>3. CASE ApplyFailed
  BY <1>3 DEF ApplyFailed
<1>4. CASE Reboot
  <2>1. radio'.password = radio.password
    BY <1>4 DEF Reboot, ConvergeTypeOK, Radio
  <2>. QED
    BY <1>4, <2>1, OutcomeMemory DEF Reboot, Return
<1>. QED
  BY <1>1, <1>2, <1>3, <1>4
     DEF Step, ExportUnsupported, ExportDropped, ExportFailed, ExportRead,
         InfoDropped, InfoFailed, InfoRead, CompareInSync, CompareUnobserved,
         CompareGivesUp, CompareWrites

(***************************************************************************)
(* Ready is returned only by the comparison that found the exported        *)
(* configuration to be the declared one (converge.go:196-222).             *)
(***************************************************************************)
LEMMA ReadyFromComparison ==
  ASSUME ConvergeTypeOK, Step, pc' = "returned", outcome'.Ready
  PROVE  live' = live /\ live.scalar = desired.scalar
<1>. USE DEF stepVars
<1>1. pc \notin {"apply", "reboot"}
  BY StepFromWrite
<1>2. CASE CompareInSync
  BY <1>2 DEF CompareInSync, Converged, ScalarConverged, Return
<1>3. CASE ExportUnsupported \/ ExportDropped \/ InfoDropped \/ CompareUnobserved
           \/ CompareGivesUp
  BY <1>3, OutcomeMemory DEF ExportUnsupported, ExportDropped, InfoDropped,
                             CompareUnobserved, CompareGivesUp, Return
<1>4. CASE ExportFailed \/ ExportRead \/ InfoFailed \/ InfoRead \/ CompareWrites
  BY <1>4 DEF ExportFailed, ExportRead, InfoFailed, InfoRead, CompareWrites, Error
<1>. QED
  BY <1>1, <1>2, <1>3, <1>4 DEF Step, ApplyAcked, ApplyDropped, ApplyFailed, Reboot

(***************************************************************************)
(* The world changes neither the step nor the radio's password.            *)
(***************************************************************************)
LEMMA WorldKeeps ==
  ASSUME ConvergeTypeOK, World
  PROVE  /\ UNCHANGED <<pc, stepVars, tries>>
         /\ radio'.password = radio.password
<1>1. CASE RadioFails
  BY <1>1 DEF RadioFails, ConvergeTypeOK, Radio
<1>2. CASE RadioReturns
  BY <1>2 DEF RadioReturns, ConvergeTypeOK, Radio
<1>3. CASE ExternalEdit
  BY <1>3 DEF ExternalEdit, ConvergeTypeOK, Radio
<1>. QED
  BY <1>1, <1>2, <1>3 DEF World

(***************************************************************************)
(* A step may begin with any declared state and any reconcile memory.      *)
(***************************************************************************)
LEMMA BeginTypeOK ==
  ASSUME ConvergeTypeOK, NEW d \in Desired, NEW p \in Prior, Begin(d, p),
         UNCHANGED <<radio, faults, tries>>
  PROVE  ConvergeTypeOK'
<1>1. BlankExport \in Export
  BY DEF BlankExport, Export
<1>2. ZeroOutcome \in Outcomes
  BY ConvergeAssumption DEF ZeroOutcome, Outcomes, Hashes
<1>. QED
  BY <1>1, <1>2 DEF ConvergeTypeOK, Begin, Phases

(***************************************************************************)
(* What a step takes from the budget of faults: at most one, and one when  *)
(* a write fails with an error (converge.go:271-287).                      *)
(***************************************************************************)
LEMMA StepFaults ==
  ASSUME Step
  PROVE  /\ faults' = faults \/ Fault
         /\ pc = "apply" /\ pc' = "errored" => Fault
<1>1. CASE ExportUnsupported \/ ExportDropped \/ ExportFailed \/ ExportRead
  BY <1>1 DEF ExportUnsupported, ExportDropped, ExportFailed, ExportRead, DeviceDrop
<1>2. CASE InfoDropped \/ InfoFailed \/ InfoRead
  BY <1>2 DEF InfoDropped, InfoFailed, InfoRead, DeviceDrop
<1>3. CASE CompareInSync \/ CompareUnobserved \/ CompareGivesUp \/ CompareWrites
  BY <1>3 DEF CompareInSync, CompareUnobserved, CompareGivesUp, CompareWrites
<1>4. CASE ApplyAcked \/ ApplyDropped \/ ApplyFailed \/ Reboot
  BY <1>4 DEF ApplyAcked, ApplyDropped, ApplyFailed, Reboot, DeviceDrop
<1>. QED
  BY <1>1, <1>2, <1>3, <1>4 DEF Step

LEMMA WorldFaults ==
  ASSUME World
  PROVE  faults' = faults \/ Fault
BY Zenon DEF World, RadioFails, RadioReturns, ExternalEdit
=============================================================================
