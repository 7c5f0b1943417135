-------------------------- MODULE ConvergeLoopProofs --------------------------
(***************************************************************************)
(* The loop around Converge keeps its type invariant, never applies more   *)
(* often than the bound, and ends converged only with the declared broker  *)
(* password on the radio: for every set of configurations, passwords and   *)
(* channels, every bound, every step budget and any number of faults.      *)
(***************************************************************************)
EXTENDS ConvergeLoop, ConvergeProofs

(***************************************************************************)
(* When the reboot that activates a configuration comes to be owed: not    *)
(* while the step is about to make it, and otherwise by a write that has   *)
(* landed under a drop, or by its being refused (converge.go:271-294).     *)
(***************************************************************************)
LEMMA BootOwedBySteps ==
  ASSUME LoopCalls, bootOwed \in BOOLEAN
  PROVE  /\ pc = "apply" => (bootOwed' <=> pc' # "reboot" /\ (bootOwed \/ radio' # radio))
         /\ pc = "reboot" => (bootOwed' <=> faults' # faults)
         /\ pc \notin {"apply", "reboot"} => (bootOwed' <=> bootOwed)
         /\ bootOwed' \in BOOLEAN
<1>1. CASE pc = "apply"
  <2>1. bootOwed' = (pc' # "reboot" /\ (bootOwed \/ radio' # radio))
    BY <1>1 DEF LoopCalls
  <2>. QED
    BY <1>1, <2>1, Zenon
<1>2. CASE pc = "reboot"
  <2>1. bootOwed' = (faults' # faults)
    BY <1>2 DEF LoopCalls
  <2>. QED
    BY <1>2, <2>1, Zenon
<1>3. CASE pc \notin {"apply", "reboot"}
  <2>1. bootOwed' = bootOwed
    BY <1>3 DEF LoopCalls
  <2>. QED
    BY <1>3, <2>1, Zenon
<1>. QED
  BY <1>1, <1>2, <1>3

(***************************************************************************)
(* The loop's memory is always well formed (converge.go:94-110).           *)
(***************************************************************************)
THEOREM TypeCorrect == Spec => []TypeOK
<1>1. Init => TypeOK
  <2>1. /\ ZeroPrior \in Prior
        /\ BlankExport \in Export
        /\ ZeroOutcome \in Outcomes
    BY ConvergeAssumption
       DEF ZeroPrior, Prior, Hashes, BlankExport, Export, ZeroOutcome, Outcomes
  <2>2. ASSUME ConvergeInit PROVE radio \in Radio
    BY <2>2, ConvergeAssumption DEF ConvergeInit, Radio
  <2>3. 0 \in 0..MaxFaults /\ 0 \in 0..MaxSteps
    BY ConvergeAssumption, ConvergeLoopAssumption
  <2>4. ASSUME Init PROVE ConvergeTypeOK
    BY <2>1, <2>2, <2>3, <2>4 DEF Init, ConvergeInit, ConvergeTypeOK, Phases
  <2>. QED
    BY <2>1, <2>3, <2>4 DEF Init, TypeOK
<1>2. TypeOK /\ [Next]_vars => TypeOK'
  <2> SUFFICES ASSUME TypeOK, [Next]_vars
               PROVE  TypeOK'
    OBVIOUS
  <2>1. CASE LoopStep
    <3>1. ConvergeTypeOK'
      BY <2>1, BeginTypeOK DEF LoopStep, TypeOK
    <3>2. desired' = desired /\ steps' \in 0..MaxSteps
      BY <2>1, ConvergeLoopAssumption DEF LoopStep, Begin, TypeOK
    <3>. QED
      BY <2>1, <3>1, <3>2 DEF LoopStep, TypeOK
  <2>2. CASE LoopTakesOutcome
    <3>1. NextState(outcome) \in Prior
      BY DEF NextState, TypeOK, ConvergeTypeOK, Outcomes, Prior
    <3>. QED
      BY <2>2, <3>1 DEF LoopTakesOutcome, TypeOK, ConvergeTypeOK, stepVars, Phases
  <2>3. CASE LoopFails
    BY <2>3 DEF LoopFails, TypeOK, ConvergeTypeOK, stepVars, Phases
  <2>4. CASE LoopGivesUp
    BY <2>4 DEF LoopGivesUp, TypeOK, ConvergeTypeOK, convergeVars
  <2>5. CASE LoopCalls
    <3>1. desired' = desired
      BY <2>5, StepBeforeWrite, StepFromWrite DEF LoopCalls, TypeOK
    <3>2. bootOwed' \in BOOLEAN
      BY <2>5, BootOwedBySteps DEF TypeOK
    <3>. QED
      BY <2>5, <3>1, <3>2, StepTypeOK DEF TypeOK, LoopCalls
  <2>6. CASE LoopWaits
    <3>1. desired' = desired
      BY <2>6, WorldKeeps DEF LoopWaits, TypeOK, stepVars
    <3>2. bootOwed' \in BOOLEAN
      BY <2>6 DEF LoopWaits
    <3>. QED
      BY <2>6, <3>1, <3>2, WorldTypeOK DEF TypeOK, LoopWaits
  <2>7. CASE UNCHANGED vars
    BY <2>7 DEF TypeOK, ConvergeTypeOK, vars, convergeVars, loopVars
  <2>. QED
    BY <2>1, <2>2, <2>3, <2>4, <2>5, <2>6, <2>7 DEF Next
<1>. QED
  BY <1>1, <1>2, PTL DEF Spec

(***************************************************************************)
(* The applies made are the attempts the memory counts, at every call of   *)
(* the step (converge.go:242-258, 271-294).                                *)
(***************************************************************************)
THEOREM AttemptsAlwaysCounted == Spec => []AttemptsCounted
<1>1. Init => AttemptsCounted
  BY ConvergeAssumption
     DEF Init, ConvergeInit, ZeroPrior, AttemptsCounted, AppliesBounded
<1>2. TypeOK /\ AttemptsCounted /\ [Next]_vars => AttemptsCounted'
  <2> SUFFICES ASSUME TypeOK, AttemptsCounted, [Next]_vars
               PROVE  AttemptsCounted'
    OBVIOUS
  <2>. USE DEF AttemptsCounted, AppliesBounded
  <2>1. CASE LoopStep
    BY <2>1 DEF LoopStep, Begin
  <2>2. CASE LoopTakesOutcome
    BY <2>2 DEF LoopTakesOutcome, NextState
  <2>3. CASE LoopFails
    BY <2>3 DEF LoopFails
  <2>4. CASE LoopGivesUp
    BY <2>4 DEF LoopGivesUp, convergeVars
  <2>5. CASE LoopCalls
    <3>1. CASE pc \in {"apply", "reboot"}
      <4>1. prior.ApplyAttempts \in Nat /\ prior.ApplyAttempts < MaxApplyAttempts
        BY <3>1 DEF TypeOK, ConvergeTypeOK, Prior
      <4>. QED
        BY <2>5, <3>1, <4>1, StepFromWrite, ConvergeAssumption DEF TypeOK, LoopCalls
    <3>2. CASE pc \notin {"apply", "reboot"}
      BY <2>5, <3>2, StepBeforeWrite DEF TypeOK, LoopCalls
    <3>. QED
      BY <3>1, <3>2
  <2>6. CASE LoopWaits
    BY <2>6, WorldKeeps DEF TypeOK, LoopWaits, stepVars
  <2>7. CASE UNCHANGED vars
    BY <2>7 DEF vars, convergeVars, loopVars
  <2>. QED
    BY <2>1, <2>2, <2>3, <2>4, <2>5, <2>6, <2>7 DEF Next
<1>. QED
  BY <1>1, <1>2, TypeCorrect, PTL DEF Spec

(***************************************************************************)
(* The loop never writes the radio more often than MaxApplyAttempts,       *)
(* however often the session drops under the write or the reboot fails     *)
(* (converge.go:242-258, 271-294).                                         *)
(***************************************************************************)
THEOREM Bounded == Spec => []AppliesBounded
BY AttemptsAlwaysCounted, PTL DEF AttemptsCounted

(***************************************************************************)
(* The remembered hash is never ahead of the radio (converge.go:183-190,   *)
(* 272-284, 296-299).                                                      *)
(***************************************************************************)
THEOREM HashNeverAhead == Spec => []HashBehindRadio
<1>. USE DEF HashBehindRadio, OnRadio, PasswordOnRadio, ConvergedMeansPasswordOnRadio
<1>1. Init => HashBehindRadio
  BY DEF Init, ConvergeInit, ZeroPrior
<1>2. TypeOK /\ HashBehindRadio /\ [Next]_vars => HashBehindRadio'
  <2> SUFFICES ASSUME TypeOK, HashBehindRadio, [Next]_vars
               PROVE  HashBehindRadio'
    OBVIOUS
  <2>1. CASE LoopStep
    BY <2>1 DEF LoopStep, Begin
  <2>2. CASE LoopTakesOutcome
    BY <2>2 DEF LoopTakesOutcome, NextState, stepVars
  <2>3. CASE LoopFails
    BY <2>3 DEF LoopFails, stepVars
  <2>4. CASE LoopGivesUp
    BY <2>4 DEF LoopGivesUp, convergeVars
  <2>5. CASE LoopCalls
    <3>1. CASE pc = "apply"
      <4>1. \A w \in AfterWrite(radio, desired, write) :
               w.password = IF write = "scalar" /\ desired.password # None
                            THEN desired.password ELSE radio.password
        BY AfterWritePassword DEF TypeOK, ConvergeTypeOK
      <4>2. radio'.password = radio.password \/ PasswordOnRadio'
        BY <2>5, <3>1, <4>1, StepFromWrite DEF TypeOK, LoopCalls
      <4>3. pc' = "reboot" /\ write = "scalar" => PasswordOnRadio'
        BY <2>5, <3>1, <4>1, StepFromWrite DEF TypeOK, LoopCalls
      <4>4. radio.password = desired.password => radio'.password = desired.password
        BY <2>5, <3>1, <4>1, StepFromWrite DEF TypeOK, LoopCalls
      <4>. QED
        BY <2>5, <3>1, <4>2, <4>3, <4>4, StepFromWrite DEF TypeOK, LoopCalls
    <3>2. CASE pc = "reboot"
      BY <2>5, <3>2, StepFromWrite DEF TypeOK, LoopCalls, Surface, WriteOnlyPasswordHash
    <3>3. CASE pc \notin {"apply", "reboot"}
      <4>1. ASSUME pc' = "returned", outcome'.Ready, desired.password # None
            PROVE  radio.password = desired.password
        <5>1. desired.password \in Passwords
          BY <3>3, <2>5, <4>1, StepBeforeWrite DEF TypeOK, ConvergeTypeOK, Desired, LoopCalls
        <5>2. WriteOnlyPasswordHash(desired) = Hash(desired.password)
          BY <4>1 DEF WriteOnlyPasswordHash
        <5>3. ~WriteOnlyDrift(desired, prior)
          BY <2>5, <3>3, <4>1, StepBeforeWrite DEF TypeOK, LoopCalls
        <5>4. prior.MQTTPasswordHash = Hash(desired.password) /\ Hash(desired.password) # None
          BY <5>1, <5>2, <5>3, ConvergeAssumption DEF WriteOnlyDrift
        <5>. QED
          BY <5>4, <2>5, <3>3, StepBeforeWrite DEF TypeOK, LoopCalls
      <4>2. \/ WriteOnlyPasswordHash(desired) = None
            \/ /\ WriteOnlyPasswordHash(desired) = Hash(desired.password)
               /\ desired.password # None
        BY DEF WriteOnlyPasswordHash
      <4>. QED
        BY <2>5, <3>3, <4>1, <4>2, StepBeforeWrite DEF TypeOK, LoopCalls
    <3>. QED
      BY <3>1, <3>2, <3>3
  <2>6. CASE LoopWaits
    BY <2>6, WorldKeeps DEF TypeOK, LoopWaits, stepVars
  <2>7. CASE UNCHANGED vars
    BY <2>7 DEF vars, convergeVars, loopVars, stepVars
  <2>. QED
    BY <2>1, <2>2, <2>3, <2>4, <2>5, <2>6, <2>7 DEF Next
<1>. QED
  BY <1>1, <1>2, TypeCorrect, PTL DEF Spec

(***************************************************************************)
(* A converged loop with a declared password has it on the radio, which no *)
(* export shows: the remembered hash is never ahead of the radio           *)
(* (converge.go:183-190, 272-284, 296-299).                                *)
(***************************************************************************)
THEOREM PasswordReachesRadio == Spec => []ConvergedMeansPasswordOnRadio
BY HashNeverAhead, PTL DEF HashBehindRadio

(***************************************************************************)
(* Converge and its loop implement Provisioning (converge.go:242-303):     *)
(* each call of Apply or ApplyChannels is an attempt within the budget,    *)
(* taking a Ready outcome is the claim, which the hash proves true, and    *)
(* exports, comparisons, reboots and the world's faults are not visible.   *)
(***************************************************************************)
THEOREM LoopProvisions == Spec => ImplementsProvisioning
<1>1. Init => Device!Init
  <2>1. ASSUME Init
        PROVE  desired.password \in Passwords \cup {None} /\ radio.password = None
    BY <2>1 DEF Init, ConvergeInit, Desired
  <2>. QED
    BY <2>1 DEF Init, ConvergeInit, Device!Init
<1>2. /\ TypeOK /\ AttemptsCounted /\ HashBehindRadio
      /\ TypeOK' /\ AttemptsCounted' /\ HashBehindRadio' /\ [Next]_vars
      => [Device!Next]_(Device!provisioningVars)
  <2>. SUFFICES ASSUME TypeOK, AttemptsCounted, HashBehindRadio,
                       TypeOK', AttemptsCounted', HashBehindRadio', [Next]_vars
                PROVE  Device!Next \/ UNCHANGED Device!provisioningVars
    OBVIOUS
  <2>1. CASE LoopStep
    BY <2>1 DEF LoopStep, Begin, Device!provisioningVars
  <2>2. CASE LoopTakesOutcome
    <3>1. CASE outcome.Ready
      <4>1. exit = "running" /\ exit' = "converged"
        BY <2>2, <3>1 DEF LoopTakesOutcome, AttemptsCounted
      <4>2. desired.password \in {None, radio.password}
        BY <2>2, <3>1 DEF LoopTakesOutcome, HashBehindRadio, PasswordOnRadio
      <4>. QED
        BY <2>2, <4>1, <4>2
           DEF LoopTakesOutcome, stepVars, Device!Next, Device!Claim
    <3>2. CASE ~outcome.Ready
      BY <2>2, <3>2
         DEF LoopTakesOutcome, AttemptsCounted, stepVars, Device!provisioningVars
    <3>. QED
      BY <3>1, <3>2
  <2>3. CASE LoopFails
    BY <2>3 DEF LoopFails, AttemptsCounted, stepVars, Device!provisioningVars
  <2>4. CASE LoopGivesUp
    BY <2>4 DEF LoopGivesUp, convergeVars, Device!provisioningVars
  <2>5. CASE LoopCalls
    <3>1. CASE pc = "apply"
      <4>1. /\ exit = "running" /\ exit' = "running" /\ tries < MaxApplyAttempts
            /\ tries' = tries + 1 /\ desired' = desired
        <5>1. tries = prior.ApplyAttempts /\ prior.ApplyAttempts < MaxApplyAttempts
          BY <3>1 DEF AttemptsCounted, TypeOK, ConvergeTypeOK
        <5>. QED
          BY <2>5, <3>1, <5>1, StepFromWrite DEF AttemptsCounted, TypeOK, LoopCalls
      <4>2. radio'.password \in {radio.password} \cup ({desired.password} \ {None})
        <5>1. \A w \in AfterWrite(radio, desired, write) :
                 w.password = IF write = "scalar" /\ desired.password # None
                              THEN desired.password ELSE radio.password
          BY AfterWritePassword DEF TypeOK, ConvergeTypeOK
        <5>. QED
          BY <2>5, <3>1, <5>1, StepFromWrite DEF TypeOK, LoopCalls
      <4>. QED
        BY <4>1, <4>2 DEF Device!Next, Device!Attempt
    <3>2. CASE pc = "reboot"
      BY <2>5, <3>2, StepFromWrite DEF TypeOK, LoopCalls, Device!provisioningVars
    <3>3. CASE pc \notin {"apply", "reboot"}
      BY <2>5, <3>3, StepBeforeWrite DEF TypeOK, LoopCalls, Device!provisioningVars
    <3>. QED
      BY <3>1, <3>2, <3>3
  <2>6. CASE LoopWaits
    BY <2>6, WorldKeeps DEF TypeOK, LoopWaits, stepVars, Device!provisioningVars
  <2>7. CASE UNCHANGED vars
    BY <2>7 DEF vars, convergeVars, loopVars, Device!provisioningVars
  <2>. QED
    BY <2>1, <2>2, <2>3, <2>4, <2>5, <2>6, <2>7 DEF Next
<1>. QED
  BY <1>1, <1>2, TypeCorrect, AttemptsAlwaysCounted, HashNeverAhead, PTL
     DEF Spec, ImplementsProvisioning, Device!Spec

(***************************************************************************)
(* A loop that ends converged leaves the configuration booted, not only    *)
(* stored, but for a write that landed under a drop and a reboot that was  *)
(* refused, until the radio next boots: for any number of faults, every    *)
(* acknowledged write is followed by the explicit reboot before the radio  *)
(* is looked at again (converge.go:271-294).                               *)
(***************************************************************************)
THEOREM ConfigurationIsBooted == Spec => []ConvergedMeansBooted
<1>. USE DEF BootedWhenSeen, ConvergedMeansBooted
<1>1. Init => BootedWhenSeen
  BY DEF Init, ConvergeInit
<1>2. TypeOK /\ AttemptsCounted /\ BootedWhenSeen /\ [Next]_vars => BootedWhenSeen'
  <2>. SUFFICES ASSUME TypeOK, AttemptsCounted, BootedWhenSeen, [Next]_vars
                PROVE  BootedWhenSeen'
    OBVIOUS
  <2>0. bootOwed \in BOOLEAN /\ radio \in Radio /\ radio.booted \in BOOLEAN
    BY DEF TypeOK, ConvergeTypeOK, Radio
  <2>1. CASE LoopStep
    BY <2>1 DEF LoopStep, Begin, ZeroOutcome
  <2>2. CASE LoopTakesOutcome
    BY <2>2 DEF LoopTakesOutcome
  <2>3. CASE LoopFails
    BY <2>3 DEF LoopFails
  <2>4. CASE LoopGivesUp
    BY <2>4 DEF LoopGivesUp, convergeVars
  <2>5. CASE LoopCalls
    <3>1. Step /\ exit' = exit /\ (pc # "idle" => exit = "running")
      BY <2>5 DEF AttemptsCounted, LoopCalls
    <3>2. CASE pc = "apply"
      <4>1. exit' = "running" /\ (bootOwed' <=> pc' # "reboot" /\ (bootOwed \/ radio' # radio))
        BY <2>0, <2>5, <3>1, <3>2, BootOwedBySteps
      <4>2. pc' = "returned" => ~outcome'.Ready
        BY <3>1, <3>2, StepFromWrite DEF TypeOK
      <4>3. pc' \in {"reboot", "returned", "errored"}
        BY <3>1, <3>2, StepFromWrite DEF TypeOK
      <4>4. radio' = radio => radio'.booted \/ bootOwed
        BY <3>2
      <4>. QED
        BY <4>1, <4>2, <4>3, <4>4
    <3>3. CASE pc = "reboot"
      <4>1. exit' = "running" /\ (bootOwed' <=> faults' # faults)
        BY <2>0, <2>5, <3>1, <3>3, BootOwedBySteps
      <4>2. pc' = "returned" /\ ~outcome'.Ready
        BY <3>1, <3>3, StepFromWrite DEF TypeOK
      <4>3. ~radio'.up \/ faults' # faults
        <5>1. Reboot
          BY <3>1, <3>3
             DEF Step, ExportUnsupported, ExportDropped, ExportFailed, ExportRead,
                 InfoDropped, InfoFailed, InfoRead, CompareInSync, CompareUnobserved,
                 CompareGivesUp, CompareWrites, ApplyAcked, ApplyDropped, ApplyFailed
        <5>2. faults \in Nat
          BY ConvergeAssumption DEF TypeOK, ConvergeTypeOK
        <5>. QED
          BY <2>0, <5>1, <5>2 DEF Reboot, Fault, Radio
      <4>. QED
        BY <4>1, <4>2, <4>3
    <3>4. CASE pc \notin {"apply", "reboot"}
      <4>1. radio' = radio /\ (bootOwed' <=> bootOwed)
        BY <2>0, <2>5, <3>1, <3>4, BootOwedBySteps, StepBeforeWrite DEF TypeOK
      <4>2. pc' # "reboot" /\ pc # "idle" /\ exit' = "running"
        BY <3>1, <3>4, StepBeforeWrite DEF TypeOK
      <4>3. ASSUME pc = "export",
                   pc' \in {"info", "compare", "apply"} \/ (pc' = "returned" /\ outcome'.Ready)
            PROVE  radio.up
        <5>1. CASE ExportUnsupported \/ ExportDropped
          BY <4>3, <5>1, OutcomeMemory DEF ExportUnsupported, ExportDropped, Return,
             TypeOK, ConvergeTypeOK
        <5>2. CASE ExportFailed \/ ExportRead
          BY <5>2 DEF ExportFailed, ExportRead
        <5>. QED
          BY <3>1, <4>3, <5>1, <5>2
             DEF Step, InfoDropped, InfoFailed, InfoRead, CompareInSync, CompareUnobserved,
                 CompareGivesUp, CompareWrites, ApplyAcked, ApplyDropped, ApplyFailed, Reboot
      <4>4. pc \in {"export", "info", "compare"}
        BY <3>1, <3>4, StepBeforeWrite DEF TypeOK
      <4>. QED
        BY <4>1, <4>2, <4>3, <4>4
    <3>. QED
      BY <3>2, <3>3, <3>4
  <2>6. CASE LoopWaits
    <3>1. /\ pc' = pc /\ outcome' = outcome /\ exit' = "running"
          /\ bootOwed' <=> bootOwed /\ ~radio'.booted
      BY <2>6, WorldKeeps DEF LoopWaits, TypeOK, stepVars
    <3>2. /\ radio'.booted = radio.booted \/ radio'.booted
          /\ radio'.up => radio'.booted
      BY <2>0, <2>6 DEF LoopWaits, World, RadioFails, RadioReturns, ExternalEdit, Radio
    <3>. QED
      BY <2>0, <3>1, <3>2
  <2>7. CASE UNCHANGED vars
    BY <2>7 DEF vars, convergeVars, stepVars, loopVars
  <2>. QED
    BY <2>1, <2>2, <2>3, <2>4, <2>5, <2>6, <2>7 DEF Next
<1>. QED
  BY <1>1, <1>2, TypeCorrect, AttemptsAlwaysCounted, PTL DEF Spec
=============================================================================
