------------------------- MODULE NodeControllerProofs -------------------------
(***************************************************************************)
(* What the node controller keeps however its steps interleave with edits, *)
(* rotations, conflicts, crashes and the radio, for every set of specs,    *)
(* Secrets and every bound.                                                *)
(***************************************************************************)
EXTENDS NodeController, ConvergeProofs

-----------------------------------------------------------------------------
(* Values *)

(***************************************************************************)
(* Everything the API server is asked to store is a well-formed object.    *)
(***************************************************************************)
LEMMA ObjectsWellFormed ==
  ASSUME NEW o \in Object, NEW f \in BOOLEAN
  PROVE  /\ WithFinalizer(o, f) \in Object
         /\ \A s \in Specs, g \in Nat : NewObject(s, g) \in Object
         /\ \A st \in Status : [o EXCEPT !.status = st] \in Object
         /\ \A s \in Specs : [o EXCEPT !.spec = s, !.generation = @ + 1] \in Object
         /\ [o EXCEPT !.deleting = TRUE, !.exists = o.finalizer, !.generation = @ + 1] \in Object
<1>1. WithFinalizer(o, f) \in Object
  BY DEF WithFinalizer, Object
<1>2. NewStatus \in Status
  BY ConvergeAssumption DEF NewStatus, Status, Hashes
<1>3. \A s \in Specs, g \in Nat : NewObject(s, g) \in Object
  BY <1>2 DEF NewObject, Object
<1>4. \A st \in Status : [o EXCEPT !.status = st] \in Object
  BY DEF Object
<1>5. o.generation + 1 \in Nat /\ o.finalizer \in BOOLEAN
  BY DEF Object
<1>6. \A s \in Specs : [o EXCEPT !.spec = s, !.generation = @ + 1] \in Object
  BY <1>5 DEF Object
<1>7. [o EXCEPT !.deleting = TRUE, !.exists = o.finalizer, !.generation = @ + 1] \in Object
  BY <1>5 DEF Object
<1>. QED
  BY <1>1, <1>3, <1>4, <1>6, <1>7

(***************************************************************************)
(* The fields of a stored object that a write of the finalizer, the spec   *)
(* or the status leaves alone.                                             *)
(***************************************************************************)
LEMMA ObjectFields ==
  ASSUME NEW o \in Object, NEW f, NEW s
  PROVE  /\ WithFinalizer(o, f).status = o.status
         /\ WithFinalizer(o, f).finalizer = f
         /\ WithFinalizer(o, f).exists = (f \/ ~o.deleting)
         /\ [o EXCEPT !.spec = s, !.generation = @ + 1].status = o.status
         /\ [o EXCEPT !.spec = s, !.generation = @ + 1].generation = o.generation + 1
         /\ [o EXCEPT !.spec = s, !.generation = @ + 1].exists = o.exists
         /\ [o EXCEPT !.deleting = TRUE, !.exists = o.finalizer,
                      !.generation = @ + 1].status = o.status
         /\ [o EXCEPT !.deleting = TRUE, !.exists = o.finalizer,
                      !.generation = @ + 1].deleting = TRUE
         /\ [o EXCEPT !.status = s].status = s
         /\ [o EXCEPT !.status = s].exists = o.exists
BY DEF WithFinalizer, Object

(***************************************************************************)
(* The memory of a step is well formed (controller:136-146).               *)
(***************************************************************************)
LEMMA PriorWellFormed ==
  ASSUME NEW n \in Object, NEW d
  PROVE  PriorOf(n, d) \in Prior
<1>1. /\ n.status.ApplyAttempts \in 0..MaxApplyAttempts
      /\ n.status.MQTTPasswordHash \in Hashes
  BY DEF Object, Status
<1>. QED
  BY <1>1, ConvergeAssumption DEF PriorOf, Prior

(***************************************************************************)
(* The statuses a reconcile writes are well formed, and what they carry of *)
(* attempts and hash (controller:367-473).                                 *)
(***************************************************************************)
LEMMA OutcomeStatusWellFormed ==
  ASSUME NEW n \in Object, NEW d \in Desired, NEW o \in Outcomes
  PROVE  /\ OutcomeStatus(n, d, o) \in Status
         /\ OutcomeGauge(o) \in Gauge
         /\ OutcomeStatus(n, d, o).ApplyAttempts = o.ApplyAttempts
         /\ OutcomeStatus(n, d, o).MQTTPasswordHash = o.MQTTPasswordHash
<1>1. \A b : True(b) \in {"True", "False", "Unknown", "Absent"}
  BY DEF True
<1>2. ChannelsInSync(d, o) \in {"True", "False", "Unknown", "Absent"}
  BY <1>1 DEF ChannelsInSync
<1>3. ASSUME NEW c \in ConditionTypes
      PROVE  OutcomeStatus(n, d, o).conditions[c] \in {"True", "False", "Unknown", "Absent"}
  BY <1>1, <1>2 DEF OutcomeStatus, ConditionTypes
<1>4. OutcomeStatus(n, d, o).conditions
        \in [ConditionTypes -> {"True", "False", "Unknown", "Absent"}]
  BY <1>3 DEF OutcomeStatus
<1>5. SecretsFingerprint(d) \in Hashes \X (ChannelSets \cup {None})
  BY DEF SecretsFingerprint, WriteOnlyPasswordHash, Hashes, Desired
<1>6. /\ n.generation \in Nat
      /\ n.status.nodeID \in BOOLEAN
      /\ o.ApplyAttempts \in 0..MaxApplyAttempts
      /\ o.MQTTPasswordHash \in Hashes
  BY DEF Object, Status, Outcomes
<1>7. OutcomeStatus(n, d, o) \in Status
  BY <1>4, <1>5, <1>6 DEF OutcomeStatus, Status
<1>8. OutcomeGauge(o) \in Gauge
  BY DEF OutcomeGauge, Gauge, Outcomes
<1>. QED
  BY <1>7, <1>8 DEF OutcomeStatus

LEMMA FailureStatusWellFormed ==
  ASSUME NEW n \in Object, NEW kept
  PROVE  /\ FailureStatus(n, kept) \in Status
         /\ FailureGauge(n) \in Gauge
         /\ FailureStatus(n, kept).ApplyAttempts = n.status.ApplyAttempts
         /\ FailureStatus(n, kept).MQTTPasswordHash = n.status.MQTTPasswordHash
<1>1. n.status \in Status
  BY DEF Object
<1>2. [c \in ConditionTypes |-> IF c = "Ready" THEN "False"
                                ELSE IF c \in kept THEN n.status.conditions[c]
                                ELSE "Absent"]
        \in [ConditionTypes -> {"True", "False", "Unknown", "Absent"}]
  BY <1>1 DEF Status
<1>3. FailureStatus(n, kept) \in Status
  BY <1>1, <1>2 DEF FailureStatus, Status
<1>4. FailureGauge(n) \in Gauge
  BY <1>1 DEF FailureGauge, Gauge, Status
<1>. QED
  BY <1>1, <1>3, <1>4 DEF FailureStatus, Status

-----------------------------------------------------------------------------
(* What the actions have in common *)

(***************************************************************************)
(* No step is running unless the reconcile is at it, and an action that    *)
(* leaves the step idle keeps its type invariant.                          *)
(***************************************************************************)
LEMMA StepIdleKeepsType ==
  ASSUME ConvergeTypeOK, pc = "idle", UNCHANGED <<radio, pc, prior, live, identified,
                                                  write, outcome>>,
         desired' \in Desired \cup {NoDesired}, faults' \in 0..MaxFaults, tries' \in Nat
  PROVE  ConvergeTypeOK'
BY DEF ConvergeTypeOK

(***************************************************************************)
(* Users and events do not touch the step.                                 *)
(***************************************************************************)
LEMMA StepUntouchedKeepsType ==
  ASSUME ConvergeTypeOK, UNCHANGED <<radio, pc, stepVars>>,
         faults' \in 0..MaxFaults, tries' \in Nat
  PROVE  ConvergeTypeOK'
BY DEF ConvergeTypeOK, stepVars

(***************************************************************************)
(* The end of a reconcile, or of the process, forgets the step.            *)
(***************************************************************************)
LEMMA ForgetKeepsType ==
  ASSUME ConvergeTypeOK, Forget, UNCHANGED radio, faults' \in 0..MaxFaults, tries' \in Nat
  PROVE  ConvergeTypeOK'
<1>1. /\ ZeroPrior \in Prior
      /\ BlankExport \in Export
      /\ ZeroOutcome \in Outcomes
  BY ConvergeAssumption
     DEF ZeroPrior, Prior, Hashes, BlankExport, Export, ZeroOutcome, Outcomes
<1>. QED
  BY <1>1 DEF Forget, ConvergeTypeOK, Phases

(***************************************************************************)
(* A step of Converge goes on or has a result; it counts at most one       *)
(* apply.                                                                  *)
(***************************************************************************)
LEMMA StepGoesOn ==
  ASSUME ConvergeTypeOK, Step
  PROVE  /\ pc # "idle"
         /\ pc' # "idle"
         /\ UNCHANGED <<desired, prior>>
         /\ tries' \in {tries, tries + 1}
<1>1. CASE pc \in {"apply", "reboot"}
  BY <1>1, StepFromWrite
<1>2. CASE pc \notin {"apply", "reboot"}
  BY <1>2, StepBeforeWrite
<1>. QED
  BY <1>1, <1>2

-----------------------------------------------------------------------------

(***************************************************************************)
(* The initial states are well formed.                                     *)
(***************************************************************************)
LEMMA InitTypeOK == Init => TypeOK
<1> SUFFICES ASSUME Init PROVE TypeOK
  OBVIOUS
<1>1. /\ ZeroPrior \in Prior
      /\ BlankExport \in Export
      /\ ZeroOutcome \in Outcomes
  BY ConvergeAssumption
     DEF ZeroPrior, Prior, Hashes, BlankExport, Export, ZeroOutcome, Outcomes
<1>2. radio \in Radio
  BY ConvergeAssumption DEF Init, ConvergeInit, Radio
<1>3. 0 \in 0..MaxFaults /\ 0 \in 0..MaxEdits
  BY ConvergeAssumption, NodeControllerAssumption
<1>4. ConvergeTypeOK
  BY <1>1, <1>2, <1>3 DEF Init, ConvergeInit, ConvergeTypeOK, Phases
<1>5. NewStatus \in Status
  BY ConvergeAssumption DEF NewStatus, Status, Hashes
<1>6. obj \in Object
  BY <1>5 DEF Init, NewObject, Object
<1>7. secrets \in [mqtt : Passwords \cup {None}, psk : ChannelSets \cup {None}]
  BY DEF Init
<1>. QED
  BY <1>3, <1>4, <1>6, <1>7 DEF Init, ConvergeInit, TypeOK

(***************************************************************************)
(* Every step keeps the type invariant; that the budget's history never    *)
(* goes below zero rests on what a step in flight remembers.               *)
(***************************************************************************)
LEMMA NextTypeOK == TypeOK /\ StepMemory /\ [Next]_vars => TypeOK'
<1> SUFFICES ASSUME TypeOK, StepMemory, [Next]_vars
             PROVE  TypeOK'
  OBVIOUS
<1>0. ConvergeTypeOK /\ (at # "converge" => pc = "idle")
  BY DEF TypeOK
<1>1. ASSUME Get("removeFinalizer") \/ Get("addFinalizer") \/ Get("password")
      PROVE  TypeOK'
  <2>1. faults' \in 0..MaxFaults
    BY <1>1, FaultBounded DEF Get, TypeOK, ConvergeTypeOK
  <2>2. ConvergeTypeOK'
    BY <1>1, <2>1, StepUntouchedKeepsType DEF Get, TypeOK, ConvergeTypeOK
  <2>. QED
    BY <1>1, <2>2 DEF Get, TypeOK, apiVars, objVars, history
<1>2. ASSUME NEW f \in BOOLEAN, UpdateFinalizer(f), at # "converge",
             UNCHANGED <<radio, pc, stepVars, tries, secrets, cache, queued, edits>>,
             faults' \in 0..MaxFaults, timer' \in BOOLEAN, gauge' \in Gauge \cup {None},
             uncounted' \in Nat, unacked' \in BOOLEAN, orphaned' \in BOOLEAN
      PROVE  TypeOK'
  <2>1. ConvergeTypeOK'
    BY <1>0, <1>2, StepUntouchedKeepsType DEF ConvergeTypeOK
  <2>2. WithFinalizer(obj, f) \in Object
    BY ObjectsWellFormed DEF TypeOK
  <2>3. obj' \in Object /\ undelivered' \in BOOLEAN
    BY <1>2, <2>2 DEF UpdateFinalizer, Store, TypeOK, PassesPredicate, Object
  <2>. QED
    BY <1>0, <1>2, <2>1, <2>3 DEF UpdateFinalizer, Store, TypeOK
<1>3. CASE GetNotFound
  <2>1. ConvergeTypeOK'
    BY <1>0, <1>3, StepUntouchedKeepsType DEF GetNotFound, ConvergeTypeOK, convergeVars, stepVars
  <2>. QED
    BY <1>3, <2>1 DEF GetNotFound, TypeOK, convergeVars, apiVars, objVars, history
<1>4. CASE GetDeleted \/ GetNew \/ GetManaged
  BY <1>1, <1>4 DEF GetDeleted, GetNew, GetManaged
<1>5. CASE RemoveFinalizer
  BY <1>2, <1>5 DEF RemoveFinalizer, TypeOK, ConvergeTypeOK, convergeVars, stepVars, history
<1>6. CASE AddFinalizer
  BY <1>2, <1>6 DEF AddFinalizer, TypeOK, ConvergeTypeOK, convergeVars, stepVars, history
<1>7. CASE UpdateRefused
  <2>1. faults' \in 0..MaxFaults
    BY <1>7, FaultBounded DEF UpdateRefused, TypeOK, ConvergeTypeOK
  <2>2. ConvergeTypeOK'
    BY <1>7, <2>1, StepUntouchedKeepsType DEF UpdateRefused, TypeOK, ConvergeTypeOK
  <2>. QED
    BY <1>7, <2>2 DEF UpdateRefused, Idle, TypeOK, apiVars, objVars, history
<1>8. CASE UpdateUnanswered
  <2>1. faults' \in 0..MaxFaults
    BY <1>8, FaultBounded DEF UpdateUnanswered, TypeOK, ConvergeTypeOK
  <2>. QED
    BY <1>2, <1>8, <2>1 DEF UpdateUnanswered, TypeOK
<1>9. CASE ReadPassword
  <2>1. desired' \in Desired
    BY <1>9, NodeControllerAssumption
       DEF ReadPassword, TypeOK, Object, SpecType, Password, Desired
  <2>2. ConvergeTypeOK'
    BY <1>0, <1>9, <2>1, StepIdleKeepsType DEF ReadPassword, ConvergeTypeOK
  <2>. QED
    BY <1>9, <2>1, <2>2 DEF ReadPassword, TypeOK, apiVars, objVars, history
<1>10. CASE ReadChannelKeys
  <2>. DEFINE d == [desired EXCEPT !.channels = ChannelsOf(node.spec)]
  <2>1. d \in Desired
    BY <1>10 DEF ReadChannelKeys, TypeOK, ChannelsOf, Desired
  <2>2. PriorOf(node, d) \in Prior
    BY <1>10, PriorWellFormed DEF ReadChannelKeys, TypeOK
  <2>3. Begin(d, PriorOf(node, d))
    BY <1>10 DEF ReadChannelKeys
  <2>4. ConvergeTypeOK'
    BY <1>0, <1>10, <2>1, <2>2, <2>3, BeginTypeOK DEF ReadChannelKeys
  <2>. QED
    BY <1>10, <2>3, <2>4 DEF ReadChannelKeys, Begin, TypeOK, apiVars, objVars, history
<1>11. CASE SecretUnread
  <2>1. faults' \in 0..MaxFaults
    BY <1>11, FaultBounded DEF SecretUnread, TypeOK, ConvergeTypeOK
  <2>2. ConvergeTypeOK'
    BY <1>11, <2>1, StepUntouchedKeepsType DEF SecretUnread, TypeOK, ConvergeTypeOK
  <2>. QED
    BY <1>11, <2>2 DEF SecretUnread, TypeOK, apiVars, objVars, history
<1>12. CASE ConvergeStep
  <2>1. ConvergeTypeOK'
    BY <1>0, <1>12, StepTypeOK DEF ConvergeStep
  <2>2. uncounted' \in Nat /\ unacked' \in BOOLEAN
    BY <1>0, <1>12, StepGoesOn DEF ConvergeStep, TypeOK, ConvergeTypeOK
  <2>. QED
    BY <1>0, <1>12, <2>1, <2>2, StepGoesOn
       DEF ConvergeStep, TypeOK, apiVars, objVars, operatorVars
<1>13. ASSUME NEW g \in Gauge, NEW r \in BOOLEAN, End(g, r), at \in {"converge", "secretFailure"},
              faults' \in 0..MaxFaults, tries' \in Nat, uncounted' \in Nat, unacked' \in BOOLEAN,
              NEW s \in Status,
              \/ Persisted(s)
              \/ UNCHANGED objVars /\ stale' = stale \ {"node"}
       PROVE  TypeOK'
  <2>1. ConvergeTypeOK'
    BY <1>0, <1>13, ForgetKeepsType DEF End
  <2>2. [obj EXCEPT !.status = s] \in Object
    BY ObjectsWellFormed DEF TypeOK
  <2>3. CASE Persisted(s)
    BY <1>13, <2>1, <2>2, <2>3 DEF End, Forget, TypeOK, Persisted, Store, PassesPredicate, Object
  <2>4. CASE UNCHANGED objVars /\ stale' = stale \ {"node"}
    BY <1>13, <2>1, <2>4 DEF End, Forget, TypeOK, objVars
  <2>. QED
    BY <1>13, <2>3, <2>4
<1>14. CASE ReportOutcome
  <2>1. /\ OutcomeStatus(node, desired, outcome) \in Status
        /\ OutcomeGauge(outcome) \in Gauge
        /\ outcome.ApplyAttempts \in Nat
    BY <1>14, OutcomeStatusWellFormed DEF ReportOutcome, TypeOK, ConvergeTypeOK, Outcomes
  <2>2. faults' \in 0..MaxFaults
    BY <1>14, FaultBounded DEF ReportOutcome, NotPersisted, TypeOK, ConvergeTypeOK
  <2>3. ASSUME Settle, "node" \notin stale
        PROVE  tries' \in Nat /\ uncounted' \in Nat /\ unacked' \in BOOLEAN
    BY <1>14, <2>1, <2>3 DEF Settle, ReportOutcome, StepMemory, TypeOK, ConvergeTypeOK
  <2>4. tries' \in Nat /\ uncounted' \in Nat /\ unacked' \in BOOLEAN
    BY <1>14, <2>3 DEF ReportOutcome, Persisted, TypeOK, ConvergeTypeOK
  <2>. QED
    BY <1>13, <1>14, <2>1, <2>2, <2>4 DEF ReportOutcome, NotPersisted
<1>15. ASSUME NEW kept, ReportFailure(FailureStatus(node, kept)),
              at \in {"converge", "secretFailure"}
       PROVE  TypeOK'
  <2>1. FailureStatus(node, kept) \in Status /\ FailureGauge(node) \in Gauge
    BY <1>15, FailureStatusWellFormed DEF TypeOK
  <2>2. faults' \in 0..MaxFaults
    BY <1>15, FaultBounded DEF ReportFailure, NotPersisted, TypeOK, ConvergeTypeOK
  <2>. QED
    BY <1>13, <1>15, <2>1, <2>2 DEF ReportFailure, NotPersisted, TypeOK, ConvergeTypeOK
<1>16. CASE ReportDeviceFailure
  BY <1>15, <1>16 DEF ReportDeviceFailure, DeviceFailureStatus
<1>17. CASE ReportSecretFailure
  BY <1>15, <1>17 DEF ReportSecretFailure, SecretFailureStatus
<1>18. CASE Sync
  <2>1. ConvergeTypeOK'
    BY <1>0, <1>18, StepUntouchedKeepsType DEF Sync, ConvergeTypeOK, convergeVars, stepVars
  <2>. QED
    BY <1>18, <2>1 DEF Sync, TypeOK, convergeVars, stepVars, history
<1>19. CASE TimerFires
  <2>1. ConvergeTypeOK'
    BY <1>0, <1>19, StepUntouchedKeepsType DEF TimerFires, ConvergeTypeOK, convergeVars, stepVars
  <2>. QED
    BY <1>19, <2>1 DEF TimerFires, TypeOK, convergeVars, stepVars, apiVars, objVars, history
<1>20. CASE Crash
  <2>1. faults' \in 0..MaxFaults
    BY <1>20, FaultBounded DEF Crash, TypeOK, ConvergeTypeOK
  <2>2. ConvergeTypeOK'
    BY <1>0, <1>20, <2>1, ForgetKeepsType DEF Crash, ConvergeTypeOK
  <2>3. queued' \in BOOLEAN
    BY <1>20 DEF Crash, TypeOK, Object
  <2>. QED
    BY <1>20, <2>2, <2>3 DEF Crash, Forget, TypeOK, history
<1>21. ASSUME Edit, tries' \in Nat, uncounted' \in Nat, unacked' \in BOOLEAN,
              orphaned' \in BOOLEAN, obj' \in Object, undelivered' \in BOOLEAN,
              secrets' \in [mqtt : Passwords \cup {None}, psk : ChannelSets \cup {None}],
              stale' \subseteq {"cache", "node"}
       PROVE  TypeOK'
  <2>1. ConvergeTypeOK'
    BY <1>0, <1>21, StepUntouchedKeepsType DEF Edit, ConvergeTypeOK
  <2>2. edits' \in 0..MaxEdits
    BY <1>21, NodeControllerAssumption DEF Edit, TypeOK
  <2>. QED
    BY <1>21, <2>1, <2>2 DEF Edit, TypeOK, operatorVars, stepVars
<1>22. ASSUME NEW o \in Object, NewVersion(o)
       PROVE  /\ obj' \in Object
              /\ undelivered' \in BOOLEAN
              /\ stale' \subseteq {"cache", "node"}
  BY <1>22 DEF NewVersion, Store, TypeOK, PassesPredicate, Object
<1>23. CASE EditSpec
  <2>1. PICK s \in Specs \ {obj.spec} :
          NewVersion([obj EXCEPT !.spec = s, !.generation = @ + 1])
    BY <1>23 DEF EditSpec
  <2>2. [obj EXCEPT !.spec = s, !.generation = @ + 1] \in Object
    BY <2>1, ObjectsWellFormed DEF TypeOK
  <2>. QED
    BY <1>21, <1>22, <1>23, <2>1, <2>2 DEF EditSpec, TypeOK, ConvergeTypeOK, history
<1>24. CASE RotateSecret
  <2>1. secrets' \in [mqtt : Passwords \cup {None}, psk : ChannelSets \cup {None}]
    BY <1>24 DEF RotateSecret, TypeOK
  <2>. QED
    BY <1>21, <1>24, <2>1 DEF RotateSecret, TypeOK, ConvergeTypeOK, objVars, history
<1>25. CASE DeleteObject
  <2>1. [obj EXCEPT !.deleting = TRUE, !.exists = obj.finalizer,
                    !.generation = @ + 1] \in Object
    BY ObjectsWellFormed DEF TypeOK
  <2>. QED
    BY <1>21, <1>22, <1>25, <2>1 DEF DeleteObject, TypeOK, ConvergeTypeOK, history
<1>26. CASE StripFinalizer
  <2>1. WithFinalizer(obj, FALSE) \in Object
    BY ObjectsWellFormed DEF TypeOK
  <2>. QED
    BY <1>21, <1>22, <1>26, <2>1 DEF StripFinalizer, TypeOK, ConvergeTypeOK
<1>27. CASE CreateObject
  <2>1. PICK s \in Specs : NewVersion(NewObject(s, obj.generation + 1))
    BY <1>27 DEF CreateObject
  <2>2. obj.generation + 1 \in Nat
    BY DEF TypeOK, Object
  <2>3. NewObject(s, obj.generation + 1) \in Object
    BY <2>2, ObjectsWellFormed DEF TypeOK
  <2>. QED
    BY <1>21, <1>22, <1>27, <2>1, <2>3 DEF CreateObject, TypeOK
<1>28. CASE World /\ UNCHANGED <<apiVars, operatorVars, stale, edits, history>>
  BY <1>0, <1>28, WorldTypeOK, WorldKeeps
     DEF TypeOK, apiVars, objVars, operatorVars, history, stepVars
<1>29. CASE UNCHANGED vars
  BY <1>29 DEF TypeOK, ConvergeTypeOK, vars, convergeVars, apiVars, objVars, operatorVars,
               history
<1>. QED
  BY <1>3, <1>4, <1>5, <1>6, <1>7, <1>8, <1>9, <1>10, <1>11, <1>12, <1>14, <1>16,
     <1>17, <1>18, <1>19, <1>20, <1>23, <1>24, <1>25, <1>26, <1>27, <1>28, <1>29
     DEF Next, Reconcile, Users

(***************************************************************************)
(* A step in flight keeps what it remembers of the object it works on and  *)
(* of its write, whatever happens around it (controller:136-146,           *)
(* converge.go:265-310).                                                   *)
(***************************************************************************)
LEMMA NextStepMemory == TypeOK /\ StepMemory /\ [Next]_vars => StepMemory'
<1> SUFFICES ASSUME TypeOK, StepMemory, [Next]_vars
             PROVE  StepMemory'
  OBVIOUS
<1>1. ASSUME pc' = "idle"
      PROVE  StepMemory'
  BY <1>1 DEF StepMemory
<1>2. at # "converge" => pc = "idle"
  BY DEF TypeOK
<1>3. ASSUME UNCHANGED <<pc, stepVars, node>>,
             \/ UNCHANGED uncounted /\ ("node" \in stale => "node" \in stale')
             \/ "node" \in stale'
      PROVE  StepMemory'
  BY <1>3 DEF StepMemory, stepVars
<1>4. CASE GetNotFound \/ GetDeleted \/ GetNew \/ GetManaged
  BY <1>1, <1>2, <1>4 DEF GetNotFound, GetDeleted, GetNew, GetManaged, Get, convergeVars
<1>5. CASE RemoveFinalizer \/ AddFinalizer \/ UpdateRefused \/ UpdateUnanswered
  BY <1>1, <1>2, <1>5 DEF RemoveFinalizer, AddFinalizer, UpdateRefused, UpdateUnanswered,
                          convergeVars
<1>6. CASE ReadPassword \/ SecretUnread
  BY <1>1, <1>2, <1>6 DEF ReadPassword, SecretUnread
<1>7. CASE ReadChannelKeys
  BY <1>7 DEF ReadChannelKeys, Begin, StepMemory
<1>8. CASE ConvergeStep
  <2>1. node' = node /\ stale' = stale /\ uncounted' = uncounted + (tries' - tries)
    BY <1>8 DEF ConvergeStep, operatorVars
  <2>2. ConvergeTypeOK /\ uncounted \in Nat /\ tries \in Nat
    BY DEF TypeOK, ConvergeTypeOK
  <2>3. CASE pc = "apply"
    BY <1>8, <2>1, <2>2, <2>3, StepFromWrite DEF ConvergeStep, StepMemory, ConvergeTypeOK
  <2>4. CASE pc = "reboot"
    BY <1>8, <2>1, <2>2, <2>4, StepFromWrite DEF ConvergeStep, StepMemory, ConvergeTypeOK
  <2>5. CASE pc \notin {"apply", "reboot"}
    <3>1. prior.ApplyAttempts \in Nat
      BY DEF TypeOK, ConvergeTypeOK, Prior
    <3>. QED
      BY <1>8, <2>1, <2>2, <2>5, <3>1, StepBeforeWrite DEF ConvergeStep, StepMemory
  <2>. QED
    BY <2>3, <2>4, <2>5
<1>9. CASE ReportOutcome \/ ReportDeviceFailure \/ ReportSecretFailure \/ Crash
  BY <1>1, <1>9 DEF ReportOutcome, ReportDeviceFailure, ReportSecretFailure, ReportFailure,
                    Crash, End, Forget
<1>10. CASE Sync \/ TimerFires
  BY <1>3, <1>10 DEF Sync, TimerFires, convergeVars, stepVars, history
<1>11. CASE EditSpec \/ DeleteObject \/ StripFinalizer \/ CreateObject
  <2>1. \/ pc' = "idle"
        \/ UNCHANGED <<pc, stepVars, node>> /\ "node" \in stale'
    BY <1>2, <1>11 DEF EditSpec, DeleteObject, StripFinalizer, CreateObject,
                       NewVersion, Store, Edit, operatorVars
  <2>. QED
    BY <1>1, <1>3, <2>1
<1>12. CASE RotateSecret
  BY <1>3, <1>12 DEF RotateSecret, Edit, operatorVars, history
<1>13. CASE World /\ UNCHANGED <<apiVars, operatorVars, stale, edits, history>>
  BY <1>3, <1>13, WorldKeeps DEF TypeOK, operatorVars, history
<1>14. CASE UNCHANGED vars
  BY <1>3, <1>14 DEF vars, convergeVars, stepVars, operatorVars, history
<1>. QED
  BY <1>4, <1>5, <1>6, <1>7, <1>8, <1>9, <1>10, <1>11, <1>12, <1>13, <1>14
     DEF Next, Reconcile, Users

(***************************************************************************)
(* The controller's memory is always well formed: a reconcile in flight    *)
(* holds an object, and the attempts it writes stay within the bound.      *)
(***************************************************************************)
THEOREM NodeTypeCorrect == Spec => [](TypeOK /\ StepMemory)
<1>1. Init => StepMemory
  BY DEF Init, ConvergeInit, StepMemory
<1>. QED
  BY <1>1, InitTypeOK, NextTypeOK, NextStepMemory, PTL DEF Spec

-----------------------------------------------------------------------------
(* Copies of the object *)

(***************************************************************************)
(* Every write leaves the copies it does not come from behind, and only a  *)
(* read of the object brings one up to date (controller:86-111, 208).      *)
(***************************************************************************)
LEMMA NextCopiesFresh == TypeOK /\ CopiesFresh /\ [Next]_vars => CopiesFresh'
<1> SUFFICES ASSUME TypeOK, CopiesFresh, [Next]_vars
             PROVE  CopiesFresh'
  OBVIOUS
<1>. USE DEF CopiesFresh
<1>1. ASSUME UNCHANGED <<obj, cache>>, "cache" \in stale => "cache" \in stale',
             at' = "idle" \/ (UNCHANGED <<at, node, stale>>)
      PROVE  CopiesFresh'
  BY <1>1
<1>2. ASSUME "cache" \in stale', at' = "idle" \/ "node" \in stale'
      PROVE  CopiesFresh'
  BY <1>2
<1>3. CASE GetNotFound
  BY <1>3 DEF GetNotFound, apiVars, objVars
<1>4. CASE GetDeleted \/ GetNew \/ GetManaged
  BY <1>4 DEF GetDeleted, GetNew, GetManaged, Get, apiVars, objVars, TypeOK
<1>5. CASE RemoveFinalizer \/ AddFinalizer \/ UpdateUnanswered
  BY <1>2, <1>5 DEF RemoveFinalizer, AddFinalizer, UpdateUnanswered, UpdateFinalizer, Store
<1>6. CASE UpdateRefused
  BY <1>1, <1>6 DEF UpdateRefused, Idle, apiVars, objVars
<1>7. CASE ReadPassword \/ ReadChannelKeys \/ SecretUnread
  BY <1>7 DEF ReadPassword, ReadChannelKeys, SecretUnread, apiVars, objVars
<1>8. CASE ConvergeStep
  BY <1>8 DEF ConvergeStep, apiVars, objVars, operatorVars
<1>9. CASE ReportOutcome
  BY <1>1, <1>2, <1>9 DEF ReportOutcome, Persisted, NotPersisted, Store, End, objVars
<1>10. CASE ReportDeviceFailure \/ ReportSecretFailure
  BY <1>1, <1>2, <1>10 DEF ReportDeviceFailure, ReportSecretFailure, ReportFailure,
                           Persisted, NotPersisted, Store, End, objVars
<1>11. CASE Sync
  BY <1>11 DEF Sync
<1>12. CASE TimerFires
  BY <1>12 DEF TimerFires, apiVars, objVars
<1>13. CASE Crash
  BY <1>13 DEF Crash
<1>14. CASE EditSpec \/ DeleteObject \/ StripFinalizer \/ CreateObject
  BY <1>2, <1>14 DEF EditSpec, DeleteObject, StripFinalizer, CreateObject, NewVersion,
                     Store, Edit, operatorVars
<1>15. CASE RotateSecret
  BY <1>15 DEF RotateSecret, Edit, objVars, operatorVars
<1>16. CASE World /\ UNCHANGED <<apiVars, operatorVars, stale, edits, history>>
  BY <1>16 DEF apiVars, objVars, operatorVars
<1>17. CASE UNCHANGED vars
  BY <1>17 DEF vars, apiVars, objVars, operatorVars
<1>. QED
  BY <1>3, <1>4, <1>5, <1>6, <1>7, <1>8, <1>9, <1>10, <1>11, <1>12, <1>13, <1>14,
     <1>15, <1>16, <1>17 DEF Next, Reconcile, Users

(***************************************************************************)
(* A copy that is not stale is the object itself, so the two writes of a   *)
(* reconcile change exactly what it read (controller:86-111, 208).         *)
(***************************************************************************)
THEOREM CopiesAreFresh == Spec => []CopiesFresh
<1>1. Init => CopiesFresh
  BY DEF Init, CopiesFresh
<1>. QED
  BY <1>1, NextCopiesFresh, NodeTypeCorrect, PTL DEF Spec

-----------------------------------------------------------------------------
(* What the status says *)

(***************************************************************************)
(* Only the reports of a reconcile and a new object change the status.     *)
(***************************************************************************)
LEMMA StatusKept ==
  ASSUME TypeOK,
         \/ GetNotFound \/ GetDeleted \/ GetNew \/ GetManaged
         \/ RemoveFinalizer \/ AddFinalizer \/ UpdateRefused \/ UpdateUnanswered
         \/ ReadPassword \/ ReadChannelKeys \/ SecretUnread
         \/ Sync \/ TimerFires \/ Crash
         \/ EditSpec \/ RotateSecret \/ DeleteObject \/ StripFinalizer
  PROVE  /\ obj'.status = obj.status
         /\ UNCHANGED <<tries, uncounted, unacked, radio>>
<1>. USE DEF convergeVars, apiVars, objVars, history
<1>0. obj \in Object
  BY DEF TypeOK
<1>1. CASE GetNotFound \/ GetDeleted \/ GetNew \/ GetManaged
  BY <1>1 DEF GetNotFound, GetDeleted, GetNew, GetManaged, Get
<1>2. CASE RemoveFinalizer \/ AddFinalizer \/ UpdateUnanswered
  <2>1. PICK f \in BOOLEAN : UpdateFinalizer(f)
    BY <1>2 DEF RemoveFinalizer, AddFinalizer, UpdateUnanswered
  <2>2. obj' = WithFinalizer(obj, f)
    BY <2>1 DEF UpdateFinalizer, Store
  <2>3. obj'.status = obj.status
    BY <1>0, <2>2, ObjectFields
  <2>. QED
    BY <1>2, <2>3 DEF RemoveFinalizer, AddFinalizer, UpdateUnanswered
<1>3. CASE UpdateRefused
  BY <1>3 DEF UpdateRefused
<1>4. CASE ReadPassword \/ ReadChannelKeys \/ SecretUnread
  BY <1>4 DEF ReadPassword, ReadChannelKeys, SecretUnread
<1>5. CASE Sync \/ TimerFires \/ Crash
  BY <1>5 DEF Sync, TimerFires, Crash
<1>6. CASE EditSpec \/ DeleteObject \/ StripFinalizer
  <2>1. \/ \E s : obj' = [obj EXCEPT !.spec = s, !.generation = @ + 1]
        \/ obj' = [obj EXCEPT !.deleting = TRUE, !.exists = obj.finalizer,
                              !.generation = @ + 1]
        \/ obj' = WithFinalizer(obj, FALSE)
    BY <1>6 DEF EditSpec, DeleteObject, StripFinalizer, NewVersion, Store
  <2>2. obj'.status = obj.status
    BY <1>0, <2>1 DEF WithFinalizer, Object
  <2>. QED
    BY <1>6, <2>2 DEF EditSpec, DeleteObject, StripFinalizer, Edit
<1>7. CASE RotateSecret
  BY <1>7 DEF RotateSecret, Edit
<1>. QED
  BY <1>1, <1>2, <1>3, <1>4, <1>5, <1>6, <1>7

(***************************************************************************)
(* A report of a failure repeats the attempts and the hash of the object,  *)
(* written or not (controller:367-420).                                    *)
(***************************************************************************)
LEMMA FailureKeepsMemory ==
  ASSUME TypeOK, CopiesFresh, ReportDeviceFailure \/ ReportSecretFailure
  PROVE  /\ obj'.status.ApplyAttempts = obj.status.ApplyAttempts
         /\ obj'.status.MQTTPasswordHash = obj.status.MQTTPasswordHash
         /\ UNCHANGED <<tries, uncounted, unacked, radio>>
<1>1. PICK kept : ReportFailure(FailureStatus(node, kept))
  BY DEF ReportDeviceFailure, ReportSecretFailure, DeviceFailureStatus, SecretFailureStatus
<1>2. node \in Object /\ obj \in Object
  BY DEF TypeOK, ReportDeviceFailure, ReportSecretFailure
<1>3. CASE Persisted(FailureStatus(node, kept))
  <2>1. node = obj
    BY <1>3 DEF Persisted, CopiesFresh, ReportDeviceFailure, ReportSecretFailure
  <2>. QED
    BY <1>1, <1>2, <1>3, <2>1, FailureStatusWellFormed, ObjectFields
       DEF ReportFailure, Persisted, Store, End
<1>4. CASE NotPersisted
  BY <1>1, <1>4 DEF ReportFailure, NotPersisted, End, objVars
<1>. QED
  BY <1>1, <1>3, <1>4 DEF ReportFailure

(***************************************************************************)
(* A written outcome is written over the object the step worked on, and    *)
(* the status then says what the outcome says (controller:159-217).        *)
(***************************************************************************)
LEMMA OutcomeWritten ==
  ASSUME TypeOK, CopiesFresh, ReportOutcome
  PROVE  /\ UNCHANGED radio
         /\ \/ UNCHANGED <<obj, tries, uncounted, unacked>>
            \/ /\ "node" \notin stale
               /\ node = obj
               /\ Settle
               /\ obj'.status.ApplyAttempts = outcome.ApplyAttempts
               /\ obj'.status.MQTTPasswordHash = outcome.MQTTPasswordHash
<1>1. /\ node \in Object
      /\ obj \in Object
      /\ desired \in Desired
      /\ outcome \in Outcomes
  BY DEF ReportOutcome, TypeOK, ConvergeTypeOK
<1>2. CASE Persisted(OutcomeStatus(node, desired, outcome)) /\ Settle
  <2>1. node = obj
    BY <1>2 DEF Persisted, CopiesFresh, ReportOutcome
  <2>. QED
    BY <1>1, <1>2, <2>1, OutcomeStatusWellFormed, ObjectFields
       DEF ReportOutcome, Persisted, Store, End
<1>3. CASE NotPersisted /\ UNCHANGED <<tries, uncounted, unacked>>
  BY <1>3 DEF ReportOutcome, NotPersisted, End, objVars
<1>. QED
  BY <1>2, <1>3 DEF ReportOutcome

(***************************************************************************)
(* A written outcome counts the apply it is about, or starts the budget    *)
(* afresh; nothing else touches the count (controller:136-146, 208;        *)
(* converge.go:271-310).                                                   *)
(***************************************************************************)
LEMMA NextAttemptsAccounted ==
  /\ TypeOK /\ StepMemory /\ CopiesFresh
  /\ AttemptsAccounted /\ [Next]_vars
  => AttemptsAccounted'
<1> SUFFICES ASSUME TypeOK, StepMemory, CopiesFresh, AttemptsAccounted, [Next]_vars
             PROVE  AttemptsAccounted'
  OBVIOUS
<1>. USE DEF AttemptsAccounted
<1>0. /\ tries \in Nat
      /\ uncounted \in Nat
      /\ obj.status.ApplyAttempts \in Nat
  BY DEF TypeOK, ConvergeTypeOK, Object, Status
<1>1. CASE ConvergeStep
  <2>1. tries' \in {tries, tries + 1}
    BY <1>1, StepGoesOn DEF ConvergeStep, TypeOK
  <2>. QED
    BY <1>0, <1>1, <2>1 DEF ConvergeStep, apiVars, objVars
<1>2. CASE ReportOutcome
  <2>1. CASE UNCHANGED <<obj, tries, uncounted, unacked>>
    BY <2>1
  <2>2. CASE /\ "node" \notin stale
             /\ node = obj
             /\ Settle
             /\ obj'.status.ApplyAttempts = outcome.ApplyAttempts
    <3>1. outcome.ApplyAttempts \in Nat
      BY DEF TypeOK, ConvergeTypeOK, Outcomes
    <3>2. CASE outcome.Ready \/ NewBudget(node, desired)
      BY <2>2, <3>1, <3>2 DEF Settle
    <3>3. CASE ~outcome.Ready /\ ~NewBudget(node, desired)
      <4>1. prior.ApplyAttempts = obj.status.ApplyAttempts
        BY <1>2, <2>2, <3>3 DEF StepMemory, PriorOf, ReportOutcome
      <4>2. outcome.ApplyAttempts =
              obj.status.ApplyAttempts + (IF write = "nothing" THEN 0 ELSE 1)
        BY <1>2, <3>3, <4>1 DEF StepMemory, ReportOutcome
      <4>3. write # "nothing" => uncounted > 0
        BY <1>2, <2>2 DEF StepMemory, ReportOutcome
      <4>. QED
        BY <1>0, <2>2, <3>3, <4>2, <4>3 DEF Settle
    <3>. QED
      BY <3>2, <3>3
  <2>. QED
    BY <1>2, <2>1, <2>2, OutcomeWritten
<1>3. CASE ReportDeviceFailure \/ ReportSecretFailure
  BY <1>3, FailureKeepsMemory
<1>4. CASE CreateObject
  BY <1>4 DEF CreateObject, NewVersion, Store, NewObject, NewStatus
<1>5. CASE World /\ UNCHANGED <<apiVars, operatorVars, stale, edits, history>>
  BY <1>5, WorldKeeps DEF TypeOK, apiVars, objVars, history
<1>6. CASE UNCHANGED vars
  BY <1>6 DEF vars, convergeVars, apiVars, objVars, history
<1>. QED
  BY <1>1, <1>2, <1>3, <1>4, <1>5, <1>6, StatusKept DEF Next, Reconcile, Users

(***************************************************************************)
(* The apply budget is exact: what the status counts and what was lost add *)
(* up to the applies made (controller:136-146, 208; converge.go:271-310).  *)
(***************************************************************************)
THEOREM AttemptsAreAccounted == Spec => []AttemptsAccounted
<1>1. Init => AttemptsAccounted
  BY DEF Init, ConvergeInit, NewObject, NewStatus, AttemptsAccounted
<1>. QED
  BY <1>1, NextAttemptsAccounted, NodeTypeCorrect, CopiesAreFresh, PTL DEF Spec

-----------------------------------------------------------------------------
(* The password no export shows *)

(***************************************************************************)
(* Where the hash of an outcome comes from, at every call of the step      *)
(* (converge.go:183-190, 214-221, 271-299).                                *)
(***************************************************************************)
LEMMA NextHashSource == TypeOK /\ StepMemory /\ HashSource /\ [Next]_vars => HashSource'
<1> SUFFICES ASSUME TypeOK, StepMemory, HashSource, [Next]_vars
             PROVE  HashSource'
  OBVIOUS
<1>1. ASSUME pc' \in {"idle", "export"}
      PROVE  HashSource'
  BY <1>1 DEF HashSource
<1>2. ASSUME UNCHANGED <<pc, stepVars>>, radio'.password = radio.password
      PROVE  HashSource'
  BY <1>2 DEF HashSource, DeclaredOnRadio, stepVars
<1>3. at # "converge" => pc = "idle"
  BY DEF TypeOK
<1>4. CASE GetNotFound \/ GetDeleted \/ GetNew \/ GetManaged
  BY <1>1, <1>3, <1>4 DEF GetNotFound, GetDeleted, GetNew, GetManaged, Get, convergeVars
<1>5. CASE RemoveFinalizer \/ AddFinalizer \/ UpdateRefused \/ UpdateUnanswered
  BY <1>1, <1>3, <1>5 DEF RemoveFinalizer, AddFinalizer, UpdateRefused, UpdateUnanswered,
                          convergeVars
<1>6. CASE ReadPassword \/ ReadChannelKeys \/ SecretUnread
  BY <1>1, <1>3, <1>6 DEF ReadPassword, ReadChannelKeys, SecretUnread, Begin
<1>7. CASE ConvergeStep
  <2>1. ConvergeTypeOK /\ Step
    BY <1>7 DEF ConvergeStep, TypeOK
  <2>2. CASE pc = "apply"
    <3>1. \A w \in AfterWrite(radio, desired, write) :
             w.password = IF write = "scalar" /\ desired.password # None
                          THEN desired.password ELSE radio.password
      BY <2>1, AfterWritePassword DEF ConvergeTypeOK
    <3>. QED
      BY <2>1, <2>2, <3>1, StepFromWrite DEF HashSource, DeclaredOnRadio
  <2>3. CASE pc = "reboot"
    <3>1. write = "scalar" <=> ~ScalarConverged(desired, prior, live)
      BY <2>3 DEF StepMemory, Surface
    <3>. QED
      BY <2>1, <2>3, <3>1, StepFromWrite DEF HashSource, DeclaredOnRadio
  <2>4. CASE pc \notin {"apply", "reboot"}
    <3>1. /\ desired' = desired /\ prior' = prior
          /\ pc' # "reboot"
          /\ pc' = "returned" => write' = "nothing"
      BY <2>1, <2>4, StepBeforeWrite DEF StepMemory
    <3>2. pc' = "returned" =>
            \/ ~outcome'.Ready /\ outcome'.MQTTPasswordHash = prior'.MQTTPasswordHash
            \/ /\ outcome'.MQTTPasswordHash = WriteOnlyPasswordHash(desired')
               /\ ~WriteOnlyDrift(desired', prior')
      BY <2>1, <2>4, <3>1, StepBeforeWrite
    <3>. QED
      BY <3>1, <3>2 DEF HashSource
  <2>. QED
    BY <2>2, <2>3, <2>4
<1>8. CASE ReportOutcome \/ ReportDeviceFailure \/ ReportSecretFailure \/ Crash
  BY <1>1, <1>8 DEF ReportOutcome, ReportDeviceFailure, ReportSecretFailure, ReportFailure,
                    Crash, End, Forget
<1>9. CASE Sync \/ TimerFires
  BY <1>2, <1>9 DEF Sync, TimerFires, convergeVars, stepVars
<1>10. CASE EditSpec \/ RotateSecret \/ DeleteObject \/ StripFinalizer \/ CreateObject
  BY <1>2, <1>10 DEF EditSpec, RotateSecret, DeleteObject, StripFinalizer, CreateObject, Edit
<1>11. CASE World /\ UNCHANGED <<apiVars, operatorVars, stale, edits, history>>
  BY <1>2, <1>11, WorldKeeps DEF TypeOK
<1>12. CASE UNCHANGED vars
  BY <1>2, <1>12 DEF vars, convergeVars, stepVars
<1>. QED
  BY <1>4, <1>5, <1>6, <1>7, <1>8, <1>9, <1>10, <1>11, <1>12
     DEF Next, Reconcile, Users

(***************************************************************************)
(* An outcome that is not unacknowledged carries a hash of the password    *)
(* the radio holds, if the status did (converge.go:183-190, 271-299).      *)
(***************************************************************************)
LEMMA OutcomeHash ==
  ASSUME TypeOK, StepMemory, HashSource, HashIsOfRadioPassword,
         pc = "returned", node = obj
  PROVE  \/ unacked /\ ~(write = "scalar" /\ outcome.Reachable)
         \/ outcome.MQTTPasswordHash \in {None, Hash(radio.password)}
<1>1. prior.MQTTPasswordHash = obj.status.MQTTPasswordHash
  BY DEF StepMemory, PriorOf
<1>2. CASE write = "scalar" /\ outcome.Reachable
  BY <1>2 DEF HashSource, DeclaredOnRadio, WriteOnlyPasswordHash
<1>3. CASE ~(write = "scalar" /\ outcome.Reachable) /\ ~unacked
  <2>1. prior.MQTTPasswordHash \in {None, Hash(radio.password)}
    BY <1>1, <1>3 DEF HashIsOfRadioPassword
  <2>. QED
    BY <1>3, <2>1 DEF HashSource, WriteOnlyDrift
<1>. QED
  BY <1>2, <1>3

(***************************************************************************)
(* A written outcome carries a hash of the password on the radio, and only *)
(* an acknowledged write changes what is unacknowledged back               *)
(* (converge.go:272-284, 296-299).                                         *)
(***************************************************************************)
LEMMA NextHash ==
  /\ TypeOK /\ StepMemory /\ CopiesFresh /\ (Lags \/ HashSource)
  /\ HashIsOfRadioPassword /\ [Next]_vars
  => HashIsOfRadioPassword'
<1> SUFFICES ASSUME TypeOK, StepMemory, CopiesFresh, Lags \/ HashSource,
                    HashIsOfRadioPassword, [Next]_vars
             PROVE  HashIsOfRadioPassword'
  OBVIOUS
<1>1. CASE ConvergeStep
  BY <1>1 DEF ConvergeStep, apiVars, objVars, HashIsOfRadioPassword
<1>2. CASE ReportOutcome
  <2>1. CASE UNCHANGED <<obj, tries, uncounted, unacked>> /\ UNCHANGED radio
    BY <2>1 DEF HashIsOfRadioPassword
  <2>2. CASE /\ UNCHANGED radio
             /\ "node" \notin stale
             /\ node = obj
             /\ Settle
             /\ obj'.status.MQTTPasswordHash = outcome.MQTTPasswordHash
    BY <1>2, <2>2, OutcomeHash DEF ReportOutcome, Settle, HashIsOfRadioPassword, Lags
  <2>. QED
    BY <1>2, <2>1, <2>2, OutcomeWritten
<1>3. CASE ReportDeviceFailure \/ ReportSecretFailure
  BY <1>3, FailureKeepsMemory DEF HashIsOfRadioPassword
<1>4. CASE CreateObject
  BY <1>4 DEF CreateObject, NewVersion, Store, NewObject, NewStatus, HashIsOfRadioPassword
<1>5. CASE World /\ UNCHANGED <<apiVars, operatorVars, stale, edits, history>>
  BY <1>5, WorldKeeps DEF TypeOK, apiVars, objVars, history, HashIsOfRadioPassword
<1>6. CASE UNCHANGED vars
  BY <1>6 DEF vars, convergeVars, apiVars, objVars, history, HashIsOfRadioPassword
<1>. QED
  BY <1>1, <1>2, <1>3, <1>4, <1>5, <1>6, StatusKept
     DEF Next, Reconcile, Users, HashIsOfRadioPassword

(***************************************************************************)
(* The status never claims a password the radio does not hold, unless a    *)
(* write of one is still unacknowledged (converge.go:272-284, 296-299).    *)
(***************************************************************************)
THEOREM HashIsTrue == Spec => [](HashSource /\ HashIsOfRadioPassword)
<1>1. Init => HashSource /\ HashIsOfRadioPassword
  BY DEF Init, ConvergeInit, HashSource, NewObject, NewStatus, HashIsOfRadioPassword
<1>. QED
  BY <1>1, NextHash, NodeTypeCorrect, CopiesAreFresh, NextHashSource, PTL DEF Spec

(***************************************************************************)
(* A node about to be stored as Ready holds the declared password, unless  *)
(* a write of one is still unacknowledged (converge.go:183-222).           *)
(***************************************************************************)
THEOREM ReadyIsTrue == Spec => []ReadyMeansPasswordOnRadio
<1>1. /\ TypeOK /\ StepMemory /\ CopiesFresh /\ HashSource /\ HashIsOfRadioPassword
      => ReadyMeansPasswordOnRadio
  <2> SUFFICES ASSUME TypeOK, StepMemory, CopiesFresh, HashSource, HashIsOfRadioPassword,
                      pc = "returned", outcome.Ready, "node" \notin stale, ~unacked,
                      desired.password # None
               PROVE  radio.password = desired.password
    BY DEF ReadyMeansPasswordOnRadio
  <2>1. /\ node = obj
        /\ desired.password \in Passwords
    BY DEF TypeOK, ConvergeTypeOK, CopiesFresh, Desired
  <2>2. CASE write = "scalar" /\ outcome.Reachable
    BY <2>2 DEF HashSource, DeclaredOnRadio
  <2>3. CASE ~(write = "scalar" /\ outcome.Reachable)
    <3>1. prior.MQTTPasswordHash \in {None, Hash(radio.password)}
      BY <2>1 DEF StepMemory, PriorOf, HashIsOfRadioPassword
    <3>2. Hash(desired.password) = prior.MQTTPasswordHash
      BY <2>1, <2>3, ConvergeAssumption
         DEF HashSource, WriteOnlyDrift, WriteOnlyPasswordHash
    <3>3. Hash(desired.password) = Hash(radio.password)
      BY <2>1, <3>1, <3>2, ConvergeAssumption
    <3>. QED
      BY <3>3 DEF Hash
  <2>. QED
    BY <2>2, <2>3
<1>. QED
  BY <1>1, NodeTypeCorrect, CopiesAreFresh, HashIsTrue, PTL

-----------------------------------------------------------------------------
(* Waking up *)

(***************************************************************************)
(* The finalizer is removed only from an object being deleted and added    *)
(* only to one without it (controller:94-115).                             *)
(***************************************************************************)
THEOREM FinalizersInOrder == Spec => []FinalizerPaths
<1>1. Init => FinalizerPaths
  BY DEF Init, FinalizerPaths
<1>2. FinalizerPaths /\ [Next]_vars => FinalizerPaths'
  <2> SUFFICES ASSUME FinalizerPaths, [Next]_vars
               PROVE  FinalizerPaths'
    OBVIOUS
  <2>. USE DEF FinalizerPaths
  <2>1. ASSUME at' \notin {"removeFinalizer", "addFinalizer"} \/ UNCHANGED <<at, node>>
        PROVE  FinalizerPaths'
    BY <2>1
  <2>2. CASE GetNotFound \/ GetDeleted \/ GetNew \/ GetManaged
    BY <2>2 DEF GetNotFound, GetDeleted, GetNew, GetManaged, Get
  <2>3. CASE RemoveFinalizer \/ AddFinalizer \/ UpdateRefused \/ UpdateUnanswered
    BY <2>1, <2>3 DEF RemoveFinalizer, AddFinalizer, UpdateRefused, UpdateUnanswered,
                      UpdateFinalizer, Idle
  <2>4. CASE ReadPassword \/ ReadChannelKeys \/ SecretUnread \/ ConvergeStep
    BY <2>1, <2>4 DEF ReadPassword, ReadChannelKeys, SecretUnread, ConvergeStep, operatorVars
  <2>5. CASE ReportOutcome \/ ReportDeviceFailure \/ ReportSecretFailure \/ Crash
    BY <2>1, <2>5 DEF ReportOutcome, ReportDeviceFailure, ReportSecretFailure, ReportFailure,
                      End, Crash
  <2>6. CASE Sync \/ TimerFires
    BY <2>1, <2>6 DEF Sync, TimerFires
  <2>7. CASE EditSpec \/ RotateSecret \/ DeleteObject \/ StripFinalizer \/ CreateObject
    BY <2>1, <2>7 DEF EditSpec, RotateSecret, DeleteObject, StripFinalizer, CreateObject,
                      Edit, operatorVars
  <2>8. CASE World /\ UNCHANGED <<apiVars, operatorVars, stale, edits, history>>
    BY <2>1, <2>8 DEF operatorVars
  <2>9. CASE UNCHANGED vars
    BY <2>1, <2>9 DEF vars, operatorVars
  <2>. QED
    BY <2>2, <2>3, <2>4, <2>5, <2>6, <2>7, <2>8, <2>9 DEF Next, Reconcile, Users
<1>. QED
  BY <1>1, <1>2, PTL DEF Spec

(***************************************************************************)
(* A write of the object wakes the key when the event filter passes it: an *)
(* object that comes, goes, is being deleted, or changes its generation or *)
(* its finalizer (controller:602-617).                                     *)
(***************************************************************************)
LEMMA FinalizerWritesWake ==
  ASSUME TypeOK, RemoveFinalizer \/ AddFinalizer \/ UpdateUnanswered
  PROVE  \E f \in BOOLEAN :
           /\ UpdateFinalizer(f)
           /\ f <=> at = "addFinalizer"
           /\ obj' = WithFinalizer(obj, f)
           /\ obj.finalizer # f => undelivered'
           /\ obj'.exists # obj.exists => undelivered'
           /\ undelivered => undelivered'
<1>1. PICK f \in BOOLEAN : UpdateFinalizer(f) /\ (f <=> at = "addFinalizer")
  BY DEF RemoveFinalizer, AddFinalizer, UpdateUnanswered
<1>2. /\ obj' = WithFinalizer(obj, f)
      /\ undelivered' = (undelivered \/ PassesPredicate(obj, WithFinalizer(obj, f)))
  BY <1>1 DEF UpdateFinalizer, Store
<1>3. WithFinalizer(obj, f).finalizer = f
  BY ObjectFields DEF TypeOK
<1>. QED
  BY <1>1, <1>2, <1>3 DEF PassesPredicate

LEMMA UserWritesWake ==
  ASSUME TypeOK, EditSpec \/ DeleteObject \/ StripFinalizer \/ CreateObject
  PROVE  undelivered'
<1>0. obj \in Object
  BY DEF TypeOK
<1>1. CASE EditSpec
  <2>1. PICK s : NewVersion([obj EXCEPT !.spec = s, !.generation = @ + 1])
    BY <1>1 DEF EditSpec
  <2>2. [obj EXCEPT !.spec = s, !.generation = @ + 1].generation # obj.generation
    BY <1>0 DEF Object
  <2>. QED
    BY <2>1, <2>2 DEF NewVersion, Store, PassesPredicate
<1>2. CASE DeleteObject
  BY <1>0, <1>2 DEF DeleteObject, NewVersion, Store, PassesPredicate, Object
<1>3. CASE StripFinalizer
  BY <1>0, <1>3 DEF StripFinalizer, WithFinalizer, NewVersion, Store, PassesPredicate, Object
<1>4. CASE CreateObject
  BY <1>4 DEF CreateObject, NewObject, NewVersion, Store, PassesPredicate
<1>. QED
  BY <1>1, <1>2, <1>3, <1>4

(***************************************************************************)
(* The end of a reconcile asks for another look, whatever its result, and  *)
(* leaves the existence of the object alone (controller:208-219, 384-419). *)
(***************************************************************************)
LEMMA ReportsRequeue ==
  ASSUME TypeOK, StepMemory,
         ReportOutcome \/ ReportDeviceFailure \/ ReportSecretFailure
  PROVE  /\ timer'
         /\ obj'.exists = obj.exists
         /\ undelivered => undelivered'
         /\ cache' = cache
<1>1. obj \in Object
  BY DEF TypeOK
<1>2. ASSUME NEW s, Persisted(s)
      PROVE  obj'.exists = obj.exists /\ (undelivered => undelivered')
  BY <1>1, <1>2, ObjectFields DEF Persisted, Store
<1>3. ASSUME NotPersisted
      PROVE  obj'.exists = obj.exists /\ (undelivered => undelivered')
  BY <1>3 DEF NotPersisted, objVars
<1>4. CASE ReportOutcome
  BY <1>2, <1>3, <1>4 DEF ReportOutcome, End, StepMemory
<1>5. CASE ReportDeviceFailure \/ ReportSecretFailure
  BY <1>2, <1>3, <1>5 DEF ReportDeviceFailure, ReportSecretFailure, ReportFailure, End
<1>. QED
  BY <1>4, <1>5

(***************************************************************************)
(* Whenever the object has come or gone without the informer knowing, an   *)
(* event is on its way (controller:602-617).                               *)
(***************************************************************************)
THEOREM ExistenceIsDelivered == Spec => []ExistenceDelivered
<1>1. Init => ExistenceDelivered
  BY DEF Init, ExistenceDelivered
<1>2. TypeOK /\ StepMemory /\ ExistenceDelivered /\ [Next]_vars => ExistenceDelivered'
  <2> SUFFICES ASSUME TypeOK, StepMemory, ExistenceDelivered, [Next]_vars
               PROVE  ExistenceDelivered'
    OBVIOUS
  <2>. USE DEF ExistenceDelivered
  <2>1. ASSUME UNCHANGED <<obj, undelivered, cache>>
        PROVE  ExistenceDelivered'
    BY <2>1
  <2>2. CASE GetNotFound \/ GetDeleted \/ GetNew \/ GetManaged
    BY <2>1, <2>2 DEF GetNotFound, GetDeleted, GetNew, GetManaged, Get, apiVars, objVars
  <2>3. CASE RemoveFinalizer \/ AddFinalizer \/ UpdateUnanswered
    <3>1. cache' = cache
      BY <2>3 DEF RemoveFinalizer, AddFinalizer, UpdateUnanswered
    <3>. QED
      BY <2>3, <3>1, FinalizerWritesWake
  <2>4. CASE UpdateRefused
    BY <2>1, <2>4 DEF UpdateRefused, apiVars, objVars
  <2>5. CASE ReadPassword \/ ReadChannelKeys \/ SecretUnread \/ ConvergeStep
    BY <2>1, <2>5 DEF ReadPassword, ReadChannelKeys, SecretUnread, ConvergeStep,
                      apiVars, objVars, operatorVars
  <2>6. CASE ReportOutcome \/ ReportDeviceFailure \/ ReportSecretFailure
    BY <2>6, ReportsRequeue
  <2>7. CASE Sync \/ Crash
    BY <2>7 DEF Sync, Crash
  <2>8. CASE TimerFires
    BY <2>1, <2>8 DEF TimerFires, apiVars, objVars
  <2>9. CASE EditSpec \/ DeleteObject \/ StripFinalizer \/ CreateObject
    BY <2>9, UserWritesWake
  <2>10. CASE RotateSecret
    BY <2>1, <2>10 DEF RotateSecret, Edit, objVars, operatorVars
  <2>11. CASE World /\ UNCHANGED <<apiVars, operatorVars, stale, edits, history>>
    BY <2>1, <2>11 DEF apiVars, objVars, operatorVars
  <2>12. CASE UNCHANGED vars
    BY <2>1, <2>12 DEF vars, apiVars, objVars, operatorVars
  <2>. QED
    BY <2>2, <2>3, <2>4, <2>5, <2>6, <2>7, <2>8, <2>9, <2>10, <2>11, <2>12
       DEF Next, Reconcile, Users
<1>. QED
  BY <1>1, <1>2, NodeTypeCorrect, PTL DEF Spec

(***************************************************************************)
(* A managed object is always queued, on a timer, being reconciled, or an  *)
(* event that enqueues it is on its way (controller:107-115, 219,          *)
(* 602-617).                                                               *)
(***************************************************************************)
THEOREM NothingIsForgotten == Spec => []NeverForgotten
<1>1. Init => NeverForgotten
  BY DEF Init, NeverForgotten
<1>2. /\ TypeOK /\ StepMemory /\ CopiesFresh /\ FinalizerPaths /\ ExistenceDelivered
      /\ NeverForgotten /\ [Next]_vars
      => NeverForgotten'
  <2> SUFFICES ASSUME TypeOK, StepMemory, CopiesFresh, FinalizerPaths, ExistenceDelivered,
                      NeverForgotten, [Next]_vars
               PROVE  NeverForgotten'
    OBVIOUS
  <2>. USE DEF NeverForgotten
  <2>1. ASSUME queued' \/ timer' \/ at' # "idle" \/ undelivered'
        PROVE  NeverForgotten'
    BY <2>1
  <2>2. CASE GetNotFound
    BY <2>2 DEF GetNotFound, ExistenceDelivered, apiVars, objVars
  <2>3. CASE GetDeleted \/ GetNew \/ GetManaged
    BY <2>1, <2>3 DEF GetDeleted, GetNew, GetManaged, Get
  <2>4. CASE RemoveFinalizer
    <3>1. node = obj /\ node.deleting
      BY <2>4 DEF RemoveFinalizer, UpdateFinalizer, CopiesFresh, FinalizerPaths
    <3>2. obj' = WithFinalizer(obj, FALSE)
      BY <2>4 DEF RemoveFinalizer, UpdateFinalizer, Store
    <3>. QED
      BY <3>1, <3>2, ObjectFields DEF TypeOK
  <2>5. CASE AddFinalizer
    <3>1. node = obj /\ ~node.finalizer
      BY <2>5 DEF AddFinalizer, UpdateFinalizer, CopiesFresh, FinalizerPaths
    <3>. QED
      BY <2>1, <2>5, <3>1, FinalizerWritesWake DEF AddFinalizer
  <2>6. CASE UpdateRefused \/ UpdateUnanswered
    BY <2>1, <2>6 DEF UpdateRefused, UpdateUnanswered
  <2>7. CASE ReadPassword \/ ReadChannelKeys \/ SecretUnread
    BY <2>1, <2>7 DEF ReadPassword, ReadChannelKeys, SecretUnread
  <2>8. CASE ConvergeStep
    BY <2>1, <2>8 DEF ConvergeStep, operatorVars
  <2>9. CASE ReportOutcome \/ ReportDeviceFailure \/ ReportSecretFailure
    BY <2>1, <2>9, ReportsRequeue
  <2>10. CASE Sync
    BY <2>10 DEF Sync
  <2>11. CASE TimerFires
    BY <2>1, <2>11 DEF TimerFires
  <2>12. CASE Crash
    BY <2>12 DEF Crash
  <2>13. CASE EditSpec \/ DeleteObject \/ StripFinalizer \/ CreateObject
    BY <2>1, <2>13, UserWritesWake
  <2>14. CASE RotateSecret
    BY <2>14 DEF RotateSecret, Edit, objVars, operatorVars
  <2>15. CASE World /\ UNCHANGED <<apiVars, operatorVars, stale, edits, history>>
    BY <2>15 DEF apiVars, objVars, operatorVars
  <2>16. CASE UNCHANGED vars
    BY <2>16 DEF vars, apiVars, objVars, operatorVars
  <2>. QED
    BY <2>2, <2>3, <2>4, <2>5, <2>6, <2>7, <2>8, <2>9, <2>10, <2>11, <2>12, <2>13,
       <2>14, <2>15, <2>16 DEF Next, Reconcile, Users
<1>. QED
  BY <1>1, <1>2, NodeTypeCorrect, CopiesAreFresh, FinalizersInOrder, ExistenceIsDelivered,
     PTL DEF Spec

-----------------------------------------------------------------------------
(* Copies that lag *)

(***************************************************************************)
(* A reconcile starts from the cache, and what leaves its copy behind leaves *)
(* the cache behind (controller:86-91).                                    *)
(***************************************************************************)
LEMMA NextLagsTogether == LagsTogether /\ [Next]_vars => LagsTogether'
<1> SUFFICES ASSUME LagsTogether, [Next]_vars
             PROVE  LagsTogether'
  OBVIOUS
<1>. USE DEF LagsTogether
<1>1. ASSUME at' = "idle", "node" \notin stale'
      PROVE  LagsTogether'
  BY <1>1
<1>2. ASSUME UNCHANGED stale, UNCHANGED at \/ (at # "idle" /\ at' # "idle")
      PROVE  LagsTogether'
  BY <1>2
<1>3. CASE GetNotFound
  BY <1>2, <1>3 DEF GetNotFound
<1>4. CASE GetDeleted \/ GetNew \/ GetManaged
  BY <1>4 DEF GetDeleted, GetNew, GetManaged, Get
<1>5. CASE RemoveFinalizer \/ AddFinalizer \/ UpdateRefused \/ UpdateUnanswered
  BY <1>1, <1>5 DEF RemoveFinalizer, AddFinalizer, UpdateRefused, UpdateUnanswered,
                    UpdateFinalizer, Store, Idle
<1>6. CASE ReadPassword \/ ReadChannelKeys \/ SecretUnread \/ ConvergeStep
  BY <1>2, <1>6 DEF ReadPassword, ReadChannelKeys, SecretUnread, ConvergeStep, operatorVars
<1>7. CASE ReportOutcome \/ ReportDeviceFailure \/ ReportSecretFailure \/ Crash
  BY <1>1, <1>7 DEF ReportOutcome, ReportDeviceFailure, ReportSecretFailure, ReportFailure,
                    Persisted, NotPersisted, Store, End, Crash
<1>8. CASE Sync \/ TimerFires
  BY <1>8 DEF Sync, TimerFires
<1>9. CASE EditSpec \/ DeleteObject \/ StripFinalizer \/ CreateObject
  <2>1. at # "idle" <=> "node" \in stale'
    BY <1>9 DEF EditSpec, DeleteObject, StripFinalizer, CreateObject, NewVersion, Store
  <2>2. UNCHANGED at
    BY <1>9 DEF EditSpec, DeleteObject, StripFinalizer, CreateObject, Edit, operatorVars
  <2>. QED
    BY <2>1, <2>2
<1>10. CASE RotateSecret
  BY <1>2, <1>10 DEF RotateSecret, Edit, operatorVars
<1>11. CASE World /\ UNCHANGED <<apiVars, operatorVars, stale, edits, history>>
  BY <1>2, <1>11 DEF operatorVars
<1>12. CASE UNCHANGED vars
  BY <1>2, <1>12 DEF vars, operatorVars
<1>. QED
  BY <1>3, <1>4, <1>5, <1>6, <1>7, <1>8, <1>9, <1>10, <1>11, <1>12
     DEF Next, Reconcile, Users

(***************************************************************************)
(* A reconcile whose copy is current started from a current cache: the     *)
(* informer can only fall behind together with it (controller:86-91).      *)
(***************************************************************************)
THEOREM CopiesLagTogether == Spec => []LagsTogether
<1>1. Init => LagsTogether
  BY DEF Init, LagsTogether
<1>. QED
  BY <1>1, NextLagsTogether, PTL DEF Spec

-----------------------------------------------------------------------------
(* What pays for an apply beyond the bound *)

LEMMA PaidIsNat == TypeOK => Paid \in Nat
BY ConvergeAssumption, NodeControllerAssumption DEF TypeOK, ConvergeTypeOK, Paid

LEMMA PaidGrows ==
  ASSUME TypeOK, faults' \in {faults, faults + 1}, UNCHANGED edits
  PROVE  Paid' \in Nat /\ Paid' >= Paid
<1>1. faults \in Nat /\ edits \in Nat
  BY ConvergeAssumption, NodeControllerAssumption DEF TypeOK, ConvergeTypeOK
<1>2. CASE faults' = faults
  BY <1>1, <1>2 DEF Paid
<1>3. CASE faults' = faults + 1
  BY <1>1, <1>3 DEF Paid
<1>. QED
  BY <1>2, <1>3

(***************************************************************************)
(* Whatever a reconcile is doing, one fault or edit more than were paid    *)
(* covers what it has not had counted.                                     *)
(***************************************************************************)
LEMMA NeverFarBehind ==
  ASSUME TypeOK, BudgetCovered
  PROVE  /\ uncounted - 1 <= Paid
         /\ Full \/ Owed => uncounted <= Paid
<1>1. uncounted \in Nat /\ Paid \in Nat
  BY PaidIsNat DEF TypeOK
<1>2. Owed => Full
  BY DEF Owed
<1>. QED
  BY <1>1, <1>2 DEF BudgetCovered

(***************************************************************************)
(* What the status owes, and what a reconcile may still write, depend only *)
(* on the status, the version it is of, and the Secrets.                   *)
(***************************************************************************)
LEMMA DebtKept ==
  ASSUME UNCHANGED secrets,
         obj'.status.ApplyAttempts = obj.status.ApplyAttempts
  PROVE  /\ Full' => Full
         /\ UNCHANGED obj => (Owed' => Owed)
         /\ /\ obj'.status.observedGeneration = obj.status.observedGeneration
            /\ obj'.status.boundSecrets = obj.status.boundSecrets
            /\ obj'.generation = obj.generation
            /\ obj'.spec = obj.spec
            => (Owed' => Owed)
<1>1. Full' => Full
  BY DEF Full
<1>2. obj'.spec = obj.spec => Bound(obj.spec)' = Bound(obj.spec)
  BY DEF Bound, Password, ChannelsOf
<1>3. ASSUME obj'.status.observedGeneration = obj.status.observedGeneration,
             obj'.status.boundSecrets = obj.status.boundSecrets,
             obj'.generation = obj.generation,
             obj'.spec = obj.spec
      PROVE  Owed' => Owed
  BY <1>1, <1>2, <1>3 DEF Owed, NewBudget
<1>. QED
  BY <1>1, <1>3

LEMMA ReadKept ==
  ASSUME UNCHANGED <<secrets, node>>, Resolved' = Resolved
  PROVE  /\ MayWrite' => MayWrite
         /\ Rotated' => Rotated
<1>1. Bound(node.spec)' = Bound(node.spec)
  BY DEF Bound, Password, ChannelsOf
<1>. QED
  BY <1>1 DEF MayWrite, Rotated, NewBudget

(***************************************************************************)
(* A reconcile that is over, or cannot write any more, owes only what the  *)
(* status does.                                                            *)
(***************************************************************************)
LEMMA NothingUnderWay ==
  ASSUME pc' \in {"idle", "errored"}, at' \notin {"password", "channels"},
         uncounted' \in Nat, Paid' \in Nat,
         uncounted' <= Paid', Owed' => uncounted' < Paid'
  PROVE  BudgetCovered'
<1>1. ~ToWrite' /\ ~HasWritten' /\ pc' # "returned"
  BY DEF ToWrite, HasWritten
<1>. QED
  BY <1>1 DEF BudgetCovered

(***************************************************************************)
(* A step that applies nothing and learns nothing leaves the debt as it    *)
(* was.                                                                    *)
(***************************************************************************)
LEMMA DebtUnchanged ==
  ASSUME TypeOK, BudgetCovered, UNCHANGED <<secrets, node, uncounted>>,
         \/ UNCHANGED obj
         \/ /\ obj'.status = obj.status
            /\ obj'.generation = obj.generation
            /\ obj'.spec = obj.spec,
         Resolved' = Resolved, Lags' <=> Lags, Paid' \in Nat, Paid' >= Paid,
         ToWrite' => ToWrite, HasWritten' <=> HasWritten,
         UNCHANGED <<pc, write>> \/ pc' # "returned" \/ write' # "nothing"
  PROVE  BudgetCovered'
<1>1. uncounted \in Nat /\ Paid \in Nat
  BY PaidIsNat DEF TypeOK
<1>2. (Full' => Full) /\ (Owed' => Owed)
  BY DebtKept
<1>3. (MayWrite' => MayWrite) /\ (Rotated' => Rotated)
  BY ReadKept
<1>4. pc' = "returned" /\ write' = "nothing" => pc = "returned" /\ write = "nothing"
  OBVIOUS
<1>5. /\ uncounted' = uncounted /\ uncounted' \in Nat
      /\ Paid' \in Nat /\ Paid' >= Paid
  BY <1>1
<1>6. /\ uncounted <= Paid => uncounted' <= Paid'
      /\ uncounted < Paid => uncounted' < Paid'
      /\ uncounted - 1 <= Paid => uncounted' - 1 <= Paid'
      /\ uncounted + 1 < Paid => uncounted' + 1 < Paid'
  BY ONLY <1>1, <1>5
<1>7. (Lags \/ ~HasWritten => uncounted <= Paid /\ (Owed => uncounted < Paid))'
  BY <1>2, <1>6, Zenon DEF BudgetCovered
<1>8. (ToWrite /\ Lags => uncounted < Paid /\ (MayWrite /\ Owed => uncounted + 1 < Paid))'
  BY <1>2, <1>3, <1>6, Zenon DEF BudgetCovered
<1>9. (ToWrite /\ ~Lags /\ ((MayWrite /\ Full) \/ Rotated) => uncounted < Paid)'
  BY <1>2, <1>3, <1>6, Zenon DEF BudgetCovered
<1>10. (HasWritten /\ ~Lags => uncounted - 1 <= Paid /\ (Full \/ Rotated => uncounted <= Paid))'
  BY <1>2, <1>3, <1>6, Zenon DEF BudgetCovered
<1>11. (pc = "returned" /\ write = "nothing" /\ ~Lags /\ Rotated => uncounted < Paid)'
  BY <1>2, <1>3, <1>4, <1>6, Zenon DEF BudgetCovered
<1>. QED
  BY <1>7, <1>8, <1>9, <1>10, <1>11, Zenon DEF BudgetCovered

(***************************************************************************)
(* A reconcile that starts from a copy that is behind is paid for by that; *)
(* one that starts from the object owes what the status does               *)
(* (controller:86-91, 136-146).                                            *)
(***************************************************************************)
LEMMA StartCovered ==
  ASSUME TypeOK, CopiesFresh, LagsTogether, BudgetCovered, pc = "idle",
         GetDeleted \/ GetNew \/ GetManaged
  PROVE  BudgetCovered'
<1>1. uncounted \in Nat /\ Paid \in Nat /\ faults \in Nat /\ edits \in Nat
  BY PaidIsNat, ConvergeAssumption, NodeControllerAssumption DEF TypeOK, ConvergeTypeOK
<1>2. /\ UNCHANGED <<obj, secrets, pc, desired, write, uncounted>>
      /\ node' = cache
      /\ "cache" \in stale => Paid' = Paid + 1 /\ Lags'
      /\ "cache" \notin stale => Paid' = Paid /\ ~Lags'
      /\ at' \in {"addFinalizer", "removeFinalizer", "password"}
  BY <1>1 DEF GetDeleted, GetNew, GetManaged, Get, Fault, Paid, Lags, LagsTogether, apiVars, objVars,
              stepVars, history, operatorVars
<1>3. (Full' => Full) /\ (Owed' => Owed)
  BY <1>2, DebtKept
<1>4. uncounted <= Paid /\ (Owed => uncounted < Paid)
  BY DEF BudgetCovered, HasWritten
<1>5. CASE at' # "password"
  <2>1. /\ uncounted' \in Nat /\ Paid' \in Nat
        /\ uncounted' <= Paid' /\ (Owed' => uncounted' < Paid')
    BY <1>1, <1>2, <1>3, <1>4
  <2>. QED
    BY <1>2, <1>5, <2>1, NothingUnderWay
<1>6. CASE at' = "password" /\ "cache" \in stale
  <2>1. ~HasWritten' /\ pc' # "returned" /\ Lags'
    BY <1>2, <1>6 DEF HasWritten
  <2>. QED
    BY <1>1, <1>2, <1>3, <1>4, <1>6, <2>1 DEF BudgetCovered
<1>7. CASE at' = "password" /\ "cache" \notin stale
  <2>1. ~HasWritten' /\ pc' # "returned"
    BY <1>2 DEF HasWritten
  <2>2. node' = obj /\ UNCHANGED obj
    BY <1>2, <1>7 DEF CopiesFresh
  <2>3. Resolved' = Bound(node.spec)'
    BY <1>7 DEF Resolved, Bound
  <2>4. ~Rotated'
    BY <2>3 DEF Rotated
  <2>5. MayWrite' /\ Full' => Owed'
    <3>1. node' = obj'
      BY <2>2
    <3>2. Resolved' = Bound(obj.spec)'
      BY <2>3, <3>1 DEF Bound, Password, ChannelsOf
    <3>3. obj'.status.ApplyAttempts = MaxApplyAttempts
             => ~(node'.status.ApplyAttempts < MaxApplyAttempts)
      BY <3>1, ConvergeAssumption
    <3>. QED
      BY <3>1, <3>2, <3>3 DEF MayWrite, Full, Owed, NewBudget
  <2>. QED
    BY <1>1, <1>2, <1>3, <1>4, <2>1, <2>4, <2>5 DEF BudgetCovered
<1>. QED
  BY <1>2, <1>5, <1>6, <1>7

(***************************************************************************)
(* A call of the step applies once at most, and only below the bound; a    *)
(* write that ends in an error is a fault (converge.go:246-287).           *)
(***************************************************************************)
LEMMA StepCovered ==
  ASSUME TypeOK, StepMemory, BudgetCovered, ConvergeStep
  PROVE  BudgetCovered'
<1>1. /\ uncounted \in Nat /\ Paid \in Nat /\ tries \in Nat /\ faults \in Nat /\ edits \in Nat
      /\ ConvergeTypeOK /\ Step /\ at = "converge"
  BY PaidIsNat, ConvergeAssumption, NodeControllerAssumption
     DEF ConvergeStep, TypeOK, ConvergeTypeOK
<1>2. /\ UNCHANGED <<obj, secrets, at, node, stale, edits, desired>>
      /\ uncounted' = uncounted + (tries' - tries)
  BY <1>1, StepGoesOn DEF ConvergeStep, apiVars, objVars, operatorVars
<1>3. /\ Resolved' = Resolved
      /\ Lags' <=> Lags
      /\ (Full' => Full) /\ (Owed' => Owed)
      /\ (MayWrite' => MayWrite) /\ (Rotated' => Rotated)
  <2>1. Resolved' = Resolved
    BY <1>2 DEF Resolved, Password, ChannelsOf
  <2>. QED
    BY <1>2, <2>1, DebtKept, ReadKept DEF Lags
<1>4. /\ Paid' \in Nat /\ Paid' >= Paid
      /\ pc = "apply" /\ pc' = "errored" => Paid' = Paid + 1
  BY <1>1, <1>2, StepFaults DEF Fault, Paid
<1>5. CASE pc = "apply"
  <2>1. MayWrite
    <3>1. prior = PriorOf(node, desired) /\ prior.ApplyAttempts < MaxApplyAttempts
      BY <1>1, <1>5 DEF StepMemory, ConvergeTypeOK
    <3>2. SecretsFingerprint(Resolved) = SecretsFingerprint(desired)
      BY <1>1 DEF Resolved, SecretsFingerprint, WriteOnlyPasswordHash
    <3>. QED
      BY <3>1, <3>2 DEF MayWrite, PriorOf, NewBudget
  <2>2. /\ uncounted' = uncounted + 1
        /\ pc' \in {"reboot", "returned", "errored"}
        /\ write' = write /\ write # "nothing"
    BY <1>1, <1>2, <1>5, StepFromWrite DEF ConvergeTypeOK
  <2>3. ToWrite /\ ~HasWritten
    BY <1>5 DEF ToWrite, HasWritten
  <2>4. ~ToWrite' /\ (HasWritten' <=> pc' # "errored")
    BY <1>1, <1>2, <2>2 DEF ToWrite, HasWritten
  <2>5. /\ uncounted <= Paid /\ (Owed => uncounted < Paid)
        /\ Lags => uncounted < Paid /\ (Owed => uncounted + 1 < Paid)
        /\ ~Lags /\ (Full \/ Rotated) => uncounted < Paid
    BY <2>1, <2>3 DEF BudgetCovered
  <2>6. CASE pc' = "errored"
    <3>1. uncounted' \in Nat /\ uncounted' <= Paid' /\ (Owed' => uncounted' < Paid')
      BY <1>1, <1>3, <1>4, <1>5, <2>2, <2>5, <2>6
    <3>. QED
      BY <1>1, <1>2, <1>4, <2>6, <3>1, NothingUnderWay
  <2>7. CASE pc' # "errored"
    <3>1. /\ uncounted < Paid => uncounted' <= Paid'
          /\ uncounted + 1 < Paid => uncounted' < Paid'
          /\ uncounted <= Paid => uncounted' - 1 <= Paid'
      BY <1>1, <1>4, <2>2
    <3>2. /\ Lags => uncounted' <= Paid' /\ (Owed => uncounted' < Paid')
          /\ uncounted' - 1 <= Paid'
          /\ ~Lags /\ (Full \/ Rotated) => uncounted' <= Paid'
      BY <2>5, <3>1, Zenon
    <3>. QED
      BY <1>3, <2>2, <2>4, <2>7, <3>2, Zenon DEF BudgetCovered
  <2>. QED
    BY <2>6, <2>7
<1>6. CASE pc = "reboot"
  <2>1. pc' = "returned" /\ write' = write /\ write # "nothing" /\ uncounted' = uncounted
    BY <1>1, <1>2, <1>6, StepFromWrite DEF ConvergeTypeOK
  <2>2. HasWritten /\ HasWritten' /\ ~ToWrite'
    BY <1>1, <1>2, <1>6, <2>1 DEF HasWritten, ToWrite
  <2>. QED
    BY <1>2, <1>3, <1>4, <2>1, <2>2, DebtUnchanged
<1>7. CASE pc \notin {"apply", "reboot"}
  <2>1. /\ pc \in {"export", "info", "compare"}
        /\ uncounted' = uncounted
        /\ pc' \in {"info", "compare", "errored", "apply", "returned"}
        /\ pc' # "apply" => write' = "nothing"
    BY <1>1, <1>2, <1>7, StepBeforeWrite DEF StepMemory
  <2>2. ToWrite /\ ~HasWritten /\ ~HasWritten'
    BY <2>1 DEF ToWrite, HasWritten
  <2>3. CASE pc' \in {"info", "compare", "apply"}
    BY <1>2, <1>3, <1>4, <2>1, <2>2, <2>3, DebtUnchanged
  <2>4. CASE pc' \in {"errored", "returned"}
    <3>1. /\ uncounted <= Paid /\ (Owed => uncounted < Paid)
          /\ ~Lags /\ Rotated => uncounted < Paid
      BY <2>2 DEF BudgetCovered
    <3>2. /\ uncounted <= Paid => uncounted' <= Paid'
          /\ uncounted < Paid => uncounted' < Paid'
      BY <1>1, <1>4, <2>1
    <3>3. ~ToWrite'
      BY <1>1, <1>2, <2>4 DEF ToWrite
    <3>. QED
      BY <1>3, <2>2, <3>1, <3>2, <3>3, Zenon DEF BudgetCovered
  <2>. QED
    BY <2>1, <2>3, <2>4
<1>. QED
  BY <1>5, <1>6, <1>7

(***************************************************************************)
(* A written outcome counts the write, or starts the budget afresh; one    *)
(* that is not written was behind, which is paid for, or met a fault       *)
(* (controller:208-217).                                                   *)
(***************************************************************************)
LEMMA ReportCovered ==
  ASSUME TypeOK, StepMemory, CopiesFresh, BudgetCovered, ReportOutcome
  PROVE  BudgetCovered'
<1>1. /\ uncounted \in Nat /\ Paid \in Nat /\ faults \in Nat /\ edits \in Nat
      /\ obj \in Object /\ node \in Object /\ desired \in Desired
      /\ at = "converge" /\ pc = "returned"
  BY PaidIsNat, ConvergeAssumption, NodeControllerAssumption
     DEF ReportOutcome, TypeOK, ConvergeTypeOK
<1>2. /\ pc' = "idle" /\ at' = "idle" /\ UNCHANGED secrets
      /\ Paid' \in Nat /\ Paid' >= Paid
  BY <1>1 DEF ReportOutcome, NotPersisted, End, Forget, Fault, Paid
<1>3. ~ToWrite
  BY <1>1 DEF ToWrite
<1>4. CASE NotPersisted /\ UNCHANGED <<tries, uncounted, unacked>>
  <2>1. /\ UNCHANGED <<obj, uncounted>>
        /\ ~Lags => Paid' = Paid + 1
    BY <1>1, <1>2, <1>4 DEF ReportOutcome, NotPersisted, Fault, Lags, Paid, End, objVars
  <2>2. Owed' => Owed
    BY <1>2, <2>1, DebtKept
  <2>3. uncounted' \in Nat /\ uncounted' <= Paid' /\ (Owed' => uncounted' < Paid')
    <3>1. CASE Lags
      BY <1>1, <1>2, <2>1, <2>2, <3>1 DEF BudgetCovered
    <3>2. CASE ~Lags
      BY <1>1, <1>2, <2>1, <2>2, <3>2, NeverFarBehind
    <3>. QED
      BY <3>1, <3>2
  <2>. QED
    BY <1>2, <2>3, NothingUnderWay
<1>5. CASE Persisted(OutcomeStatus(node, desired, outcome)) /\ Settle
  <2>1. node = obj /\ ~Lags
    BY <1>1, <1>5 DEF Persisted, CopiesFresh, Lags
  <2>2. /\ obj'.status = OutcomeStatus(node, desired, outcome)
        /\ obj'.generation = node.generation
        /\ obj'.spec = node.spec
    BY <1>1, <1>5, <2>1 DEF Persisted, Store, Object
  <2>3. Owed' => Rotated
    <3>1. ASSUME Owed'
          PROVE  NewBudget(obj, Bound(obj.spec))'
      BY <3>1 DEF Owed
    <3>2. Bound(obj.spec)' = Bound(node.spec)
      BY <1>2, <2>2 DEF Bound, Password, ChannelsOf
    <3>3. ASSUME Owed'
          PROVE  SecretsFingerprint(Bound(node.spec)) # SecretsFingerprint(desired)
      BY <2>2, <3>1, <3>2, <3>3 DEF NewBudget, OutcomeStatus
    <3>4. SecretsFingerprint(Resolved) = SecretsFingerprint(desired)
      BY <1>1 DEF Resolved, SecretsFingerprint, WriteOnlyPasswordHash
    <3>. QED
      BY <3>3, <3>4 DEF Rotated
  <2>4. CASE write = "nothing"
    <3>1. ~HasWritten
      BY <1>1, <2>4 DEF HasWritten
    <3>2. uncounted <= Paid /\ (Rotated => uncounted < Paid)
      BY <1>1, <2>1, <2>4, <3>1 DEF BudgetCovered
    <3>3. uncounted' \in {0, uncounted}
      BY <1>5, <2>4 DEF Settle
    <3>4. uncounted' \in Nat /\ uncounted' <= Paid' /\ (Owed' => uncounted' < Paid')
      BY <1>1, <1>2, <2>3, <3>2, <3>3
    <3>. QED
      BY <1>2, <3>4, NothingUnderWay
  <2>5. CASE write # "nothing"
    <3>1. HasWritten
      BY <1>1, <2>5 DEF HasWritten
    <3>2. uncounted - 1 <= Paid /\ (Rotated => uncounted <= Paid)
      BY <2>1, <3>1 DEF BudgetCovered
    <3>3. uncounted > 0
      BY <1>1, <2>1, <2>5 DEF StepMemory, Lags
    <3>4. uncounted' \in {0, uncounted - 1}
      BY <1>5, <2>5 DEF Settle
    <3>5. uncounted' \in Nat /\ uncounted' <= Paid' /\ (Owed' => uncounted' < Paid')
      BY <1>1, <1>2, <2>3, <3>2, <3>3, <3>4
    <3>. QED
      BY <1>2, <3>5, NothingUnderWay
  <2>. QED
    BY <2>4, <2>5
<1>. QED
  BY <1>4, <1>5 DEF ReportOutcome

(***************************************************************************)
(* A failure that is reported keeps the attempts, and the version and the  *)
(* Secrets they are of (controller:367-420).                               *)
(***************************************************************************)
LEMMA FailureCovered ==
  ASSUME TypeOK, CopiesFresh, BudgetCovered, ReportDeviceFailure \/ ReportSecretFailure
  PROVE  BudgetCovered'
<1>1. PICK kept : ReportFailure(FailureStatus(node, kept))
  BY DEF ReportDeviceFailure, ReportSecretFailure, DeviceFailureStatus, SecretFailureStatus
<1>2. /\ uncounted \in Nat /\ Paid \in Nat /\ faults \in Nat /\ edits \in Nat
      /\ obj \in Object /\ node \in Object /\ at # "idle"
      /\ pc \in {"idle", "errored"}
  BY PaidIsNat, ConvergeAssumption, NodeControllerAssumption
     DEF ReportDeviceFailure, ReportSecretFailure, TypeOK, ConvergeTypeOK
<1>3. /\ pc' = "idle" /\ at' = "idle" /\ UNCHANGED <<secrets, uncounted>>
      /\ Paid' \in Nat /\ Paid' >= Paid
  BY <1>1, <1>2 DEF ReportFailure, NotPersisted, End, Forget, Fault, Paid
<1>4. Owed' => Owed
  <2>1. CASE NotPersisted
    BY <1>3, <2>1, DebtKept DEF NotPersisted, objVars
  <2>2. CASE Persisted(FailureStatus(node, kept))
    <3>1. node = obj
      BY <1>2, <2>2 DEF Persisted, CopiesFresh
    <3>2. /\ obj'.status = FailureStatus(node, kept)
          /\ obj'.generation = obj.generation
          /\ obj'.spec = obj.spec
      BY <1>2, <2>2 DEF Persisted, Store, Object
    <3>3. /\ FailureStatus(node, kept).ApplyAttempts = node.status.ApplyAttempts
          /\ FailureStatus(node, kept).observedGeneration = node.status.observedGeneration
          /\ FailureStatus(node, kept).boundSecrets = node.status.boundSecrets
      BY <1>2 DEF FailureStatus, Object, Status
    <3>. QED
      BY <1>3, <3>1, <3>2, <3>3, DebtKept
  <2>. QED
    BY <1>1, <2>1, <2>2 DEF ReportFailure
<1>5. uncounted <= Paid /\ (Owed => uncounted < Paid)
  <2>1. ~HasWritten
    BY <1>2 DEF HasWritten
  <2>. QED
    BY <2>1 DEF BudgetCovered
<1>6. uncounted' \in Nat /\ uncounted' <= Paid' /\ (Owed' => uncounted' < Paid')
  BY <1>2, <1>3, <1>4, <1>5
<1>. QED
  BY <1>3, <1>6, NothingUnderWay

(***************************************************************************)
(* Users pay for what they disturb: an edit leaves the copy of a reconcile *)
(* behind, a rotation leaves it with a Secret that is not the current one. *)
(***************************************************************************)
LEMMA EditCovered ==
  ASSUME TypeOK, BudgetCovered, Users
  PROVE  BudgetCovered'
<1>1. /\ uncounted \in Nat /\ Paid \in Nat /\ faults \in Nat /\ edits \in Nat
      /\ obj \in Object /\ (at # "converge" => pc = "idle")
  BY PaidIsNat, ConvergeAssumption, NodeControllerAssumption DEF TypeOK, ConvergeTypeOK
<1>2. /\ UNCHANGED <<pc, at, node, desired, write>>
      /\ Paid' = Paid + 1 /\ Paid' \in Nat
  <2>1. Edit
    BY Zenon DEF Users, EditSpec, RotateSecret, DeleteObject, StripFinalizer, CreateObject
  <2>. QED
    BY <1>1, <2>1 DEF Edit, Paid, stepVars, operatorVars
<1>3. (ToWrite' <=> ToWrite) /\ (HasWritten' <=> HasWritten) /\ (ToWrite => ~HasWritten)
  BY <1>1, <1>2 DEF ToWrite, HasWritten
<1>4. CASE RotateSecret
  <2>1. /\ uncounted' = uncounted /\ uncounted' \in Nat
        /\ (Lags' <=> Lags) /\ (Full' => Full)
    BY <1>1, <1>4 DEF RotateSecret, Lags, Full, objVars, history
  <2>2. /\ uncounted <= Paid => uncounted' < Paid'
        /\ uncounted < Paid => uncounted' + 1 < Paid'
        /\ uncounted - 1 <= Paid => uncounted' <= Paid'
        /\ uncounted' < Paid' => uncounted' <= Paid'
        /\ uncounted' <= Paid' => uncounted' - 1 <= Paid'
    BY <1>1, <1>2, <2>1
  <2>3. pc' = "returned" /\ write' = "nothing" => ~HasWritten
    BY <1>2 DEF HasWritten
  <2>4. (Lags \/ ~HasWritten => uncounted' < Paid') /\ (HasWritten /\ ~Lags => uncounted' <= Paid')
    BY <2>2, Zenon DEF BudgetCovered
  <2>5. ToWrite /\ Lags => uncounted' + 1 < Paid'
    BY <2>2, Zenon DEF BudgetCovered
  <2>. QED
    BY <1>3, <2>1, <2>2, <2>3, <2>4, <2>5, Zenon DEF BudgetCovered
<1>5. CASE EditSpec \/ DeleteObject \/ StripFinalizer
  <2>1. /\ obj'.status = obj.status /\ UNCHANGED <<secrets, uncounted>>
        /\ uncounted' \in Nat
    BY <1>1, <1>5, StatusKept DEF EditSpec, DeleteObject, StripFinalizer
  <2>2. (Full' => Full) /\ (Owed' => Full)
    BY <2>1, DebtKept DEF Owed
  <2>3. MayWrite' => MayWrite
    <3>1. Resolved' = Resolved
      BY <1>2, <2>1 DEF Resolved, Password, ChannelsOf
    <3>. QED
      BY <1>2, <2>1, <3>1, ReadKept
  <2>4. /\ uncounted <= Paid => uncounted' < Paid'
        /\ uncounted < Paid => uncounted' + 1 < Paid'
        /\ uncounted - 1 <= Paid => uncounted' <= Paid'
    BY <1>1, <1>2, <2>1
  <2>5. uncounted' <= Paid' /\ (Owed' => uncounted' < Paid')
    BY <2>2, <2>4, NeverFarBehind, Zenon
  <2>6. CASE at = "idle"
    <3>1. pc' = "idle" /\ at' = "idle"
      BY <1>1, <1>2, <2>6
    <3>. QED
      BY <1>2, <2>1, <2>5, <3>1, NothingUnderWay
  <2>7. CASE at # "idle"
    <3>1. Lags'
      BY <1>5, <2>7 DEF EditSpec, DeleteObject, StripFinalizer, NewVersion, Store, Lags
    <3>2. ToWrite => uncounted' < Paid'
      BY <1>3, <2>4, Zenon DEF BudgetCovered
    <3>3. ToWrite /\ MayWrite' /\ Owed' => uncounted' + 1 < Paid'
      BY <2>2, <2>3, <2>4, Zenon DEF BudgetCovered
    <3>. QED
      BY <1>3, <2>5, <3>1, <3>2, <3>3, Zenon DEF BudgetCovered
  <2>. QED
    BY <2>6, <2>7
<1>6. CASE CreateObject
  <2>1. /\ obj'.status.ApplyAttempts = 0
        /\ uncounted' = 0
        /\ at # "idle" => Lags'
    BY <1>6 DEF CreateObject, NewVersion, Store, NewObject, NewStatus, Lags
  <2>2. ~Full' /\ ~Owed'
    BY <2>1, ConvergeAssumption DEF Full, Owed
  <2>3. uncounted' \in Nat /\ uncounted' <= Paid' /\ uncounted' < Paid'
    BY <1>1, <1>2, <2>1
  <2>4. CASE at = "idle"
    <3>1. pc' = "idle" /\ at' = "idle"
      BY <1>1, <1>2, <2>4
    <3>. QED
      BY <1>2, <2>2, <2>3, <3>1, NothingUnderWay
  <2>5. CASE at # "idle"
    BY <2>1, <2>2, <2>3, <2>5, Zenon DEF BudgetCovered
  <2>. QED
    BY <2>4, <2>5
<1>. QED
  BY <1>4, <1>5, <1>6 DEF Users

(***************************************************************************)
(* Whatever happens, each apply that the status does not count is paid     *)
(* for, or about to be counted (controller:86-219, converge.go:246-310).   *)
(***************************************************************************)
LEMMA NextBudgetCovered ==
  TypeOK /\ StepMemory /\ CopiesFresh /\ LagsTogether /\ BudgetCovered /\ [Next]_vars
  => BudgetCovered'
<1> SUFFICES ASSUME TypeOK, StepMemory, CopiesFresh, LagsTogether, BudgetCovered, [Next]_vars
             PROVE  BudgetCovered'
  OBVIOUS
<1>0. /\ uncounted \in Nat /\ Paid \in Nat /\ faults \in Nat /\ edits \in Nat
      /\ (at # "converge" => pc = "idle")
  BY PaidIsNat, ConvergeAssumption, NodeControllerAssumption DEF TypeOK, ConvergeTypeOK
<1>1. ASSUME UNCHANGED <<obj, secrets, node, at, desired, pc, write, uncounted, edits>>,
             faults' \in {faults, faults + 1}, Lags' <=> Lags
      PROVE  BudgetCovered'
  <2>1. Resolved' = Resolved
    BY <1>1 DEF Resolved, Password, ChannelsOf
  <2>2. (ToWrite' => ToWrite) /\ (HasWritten' <=> HasWritten)
    BY <1>1 DEF ToWrite, HasWritten
  <2>3. Paid' \in Nat /\ Paid' >= Paid
    BY <1>1, PaidGrows
  <2>. QED
    BY <1>1, <2>1, <2>2, <2>3, DebtUnchanged
<1>2. ASSUME pc = "idle", pc' = "idle", at' \notin {"password", "channels"},
             UNCHANGED <<secrets, uncounted, edits>>, faults' \in {faults, faults + 1},
             Owed' => Owed
      PROVE  BudgetCovered'
  <2>1. uncounted <= Paid /\ (Owed => uncounted < Paid)
    BY <1>2 DEF BudgetCovered, HasWritten
  <2>2. Paid' \in Nat /\ Paid' >= Paid
    BY <1>2, PaidGrows
  <2>3. uncounted' \in Nat /\ uncounted' <= Paid' /\ (Owed' => uncounted' < Paid')
    BY <1>0, <1>2, <2>1, <2>2
  <2>. QED
    BY <1>2, <2>2, <2>3, NothingUnderWay
<1>3. CASE GetNotFound
  BY <1>0, <1>1, <1>3 DEF GetNotFound, Lags, convergeVars, stepVars, apiVars, objVars, history
<1>4. CASE GetDeleted \/ GetNew \/ GetManaged
  <2>1. pc = "idle"
    BY <1>0, <1>4 DEF GetDeleted, GetNew, GetManaged, Get
  <2>. QED
    BY <1>4, <2>1, StartCovered
<1>5. CASE RemoveFinalizer \/ AddFinalizer \/ UpdateUnanswered
  <2>1. PICK f \in BOOLEAN : UpdateFinalizer(f)
    BY <1>5 DEF RemoveFinalizer, AddFinalizer, UpdateUnanswered
  <2>2. /\ pc = "idle" /\ pc' = "idle" /\ at' = "idle"
        /\ UNCHANGED <<secrets, uncounted, edits>>
        /\ faults' \in {faults, faults + 1}
    BY <1>0, <1>5 DEF RemoveFinalizer, AddFinalizer, UpdateUnanswered, UpdateFinalizer,
                      Fault, convergeVars, stepVars, history
  <2>3. /\ obj'.status = obj.status
        /\ obj'.generation = obj.generation
        /\ obj'.spec = obj.spec
    BY <2>1 DEF UpdateFinalizer, Store, WithFinalizer, TypeOK, Object
  <2>4. Owed' => Owed
    BY <2>2, <2>3, DebtKept
  <2>. QED
    BY <1>2, <2>2, <2>4
<1>6. CASE UpdateRefused \/ SecretUnread
  <2>1. /\ pc = "idle" /\ pc' = "idle" /\ at' \in {"idle", "secretFailure"}
        /\ UNCHANGED <<obj, secrets, uncounted, edits>>
        /\ faults' \in {faults, faults + 1}
    BY <1>0, <1>6 DEF UpdateRefused, SecretUnread, Idle, Fault, apiVars, objVars, history
  <2>2. Owed' => Owed
    BY <2>1, DebtKept
  <2>. QED
    BY <1>2, <2>1, <2>2
<1>7. CASE ReadPassword \/ ReadChannelKeys
  <2>1. /\ UNCHANGED <<obj, secrets, node, uncounted, faults, edits, stale>>
        /\ pc = "idle" /\ pc' \in {"idle", "export"}
        /\ at \in {"password", "channels"}
    BY <1>0, <1>7 DEF ReadPassword, ReadChannelKeys, Begin, apiVars, objVars, history
  <2>2. Resolved' = Resolved
    <3>1. ChannelsOf(node.spec)' = ChannelsOf(node.spec)
      BY <2>1 DEF ChannelsOf
    <3>2. CASE ReadPassword
      BY <3>1, <3>2 DEF ReadPassword, Resolved
    <3>3. CASE ReadChannelKeys
      <4>1. desired \in Desired
        BY <3>3 DEF ReadChannelKeys, TypeOK
      <4>2. /\ desired'.password = desired.password
            /\ desired'.channels = ChannelsOf(node.spec)
        BY <3>3, <4>1 DEF ReadChannelKeys, Begin, Desired
      <4>. QED
        BY <3>3, <4>2 DEF ReadChannelKeys, Resolved
    <3>. QED
      BY <1>7, <3>2, <3>3
  <2>3. ToWrite /\ ~HasWritten /\ ~HasWritten' /\ pc' # "returned"
    BY <2>1 DEF ToWrite, HasWritten
  <2>4. Paid' \in Nat /\ Paid' >= Paid /\ (Lags' <=> Lags)
    BY <1>0, <2>1 DEF Paid, Lags
  <2>. QED
    BY <2>1, <2>2, <2>3, <2>4, DebtUnchanged
<1>8. CASE ConvergeStep
  BY <1>8, StepCovered
<1>9. CASE ReportOutcome
  BY <1>9, ReportCovered
<1>10. CASE ReportDeviceFailure \/ ReportSecretFailure
  BY <1>10, FailureCovered
<1>11. CASE Sync \/ TimerFires
  BY <1>0, <1>1, <1>11 DEF Sync, TimerFires, Lags, convergeVars, stepVars, apiVars, objVars,
                           history
<1>12. CASE Crash
  <2>1. /\ pc' = "idle" /\ at' = "idle" /\ UNCHANGED <<obj, secrets, uncounted>>
        /\ Paid' = Paid + 1 /\ Paid' \in Nat
    BY <1>0, <1>12 DEF Crash, Forget, Fault, Paid, history
  <2>2. Owed' => Owed
    BY <2>1, DebtKept
  <2>3. uncounted' \in Nat /\ uncounted' <= Paid' /\ (Owed' => uncounted' < Paid')
    BY <1>0, <2>1, <2>2, NeverFarBehind
  <2>. QED
    BY <2>1, <2>3, NothingUnderWay
<1>13. CASE Users
  BY <1>13, EditCovered
<1>14. CASE World /\ UNCHANGED <<apiVars, operatorVars, stale, edits, history>>
  <2>1. UNCHANGED <<pc, stepVars>> /\ faults' \in {faults, faults + 1}
    BY <1>14, WorldKeeps, WorldFaults DEF TypeOK, Fault
  <2>. QED
    BY <1>1, <1>14, <2>1 DEF Lags, apiVars, objVars, operatorVars, history, stepVars
<1>15. CASE UNCHANGED vars
  BY <1>0, <1>1, <1>15 DEF Lags, vars, convergeVars, stepVars, apiVars, objVars, operatorVars,
                           history
<1>. QED
  BY <1>3, <1>4, <1>5, <1>6, <1>7, <1>8, <1>9, <1>10, <1>11, <1>12, <1>13, <1>14, <1>15
     DEF Next, Reconcile

(***************************************************************************)
(* The radio is rebooted at most MaxApplyAttempts times for one desired    *)
(* state, and once more for each fault and each edit (converge.go:42-47,   *)
(* controller:136-146).                                                    *)
(***************************************************************************)
THEOREM AppliesAreBounded == Spec => [](BudgetCovered /\ AppliesBounded)
<1>1. Init => BudgetCovered
  <2> SUFFICES ASSUME Init PROVE BudgetCovered
    OBVIOUS
  <2>1. /\ pc = "idle" /\ at = "idle" /\ uncounted = 0 /\ Paid = 0
        /\ obj.status.ApplyAttempts = 0
    BY DEF Init, ConvergeInit, NewObject, NewStatus, Paid
  <2>2. ~Owed
    BY <2>1, ConvergeAssumption DEF Full, Owed
  <2>. QED
    BY <2>1, <2>2 DEF BudgetCovered, ToWrite, HasWritten
<1>2. TypeOK /\ AttemptsAccounted /\ BudgetCovered => AppliesBounded
  <2> SUFFICES ASSUME TypeOK, AttemptsAccounted, BudgetCovered
               PROVE  AppliesBounded
    OBVIOUS
  <2>1. /\ obj.status.ApplyAttempts \in 0..MaxApplyAttempts
        /\ uncounted \in Nat /\ Paid \in Nat /\ faults \in Nat /\ edits \in Nat
    BY PaidIsNat, ConvergeAssumption, NodeControllerAssumption
       DEF TypeOK, ConvergeTypeOK, Object, Status
  <2>2. uncounted - 1 <= Paid /\ (Full => uncounted <= Paid)
    BY NeverFarBehind
  <2>. QED
    BY <2>1, <2>2, ConvergeAssumption DEF Full, AppliesBounded, AttemptsAccounted, Paid
<1>. QED
  BY <1>1, <1>2, NextBudgetCovered, NodeTypeCorrect, CopiesAreFresh, CopiesLagTogether,
     AttemptsAreAccounted, PTL DEF Spec

-----------------------------------------------------------------------------
(* Gauges *)

(***************************************************************************)
(* What the writes of the object do to the finalizer that holds it.        *)
(***************************************************************************)
LEMMA WritesHold ==
  ASSUME TypeOK
  PROVE  /\ AddFinalizer => Held'
         /\ UpdateUnanswered => orphaned' \/ Held'
         /\ EditSpec \/ DeleteObject => (Held => Held')
         /\ CreateObject => ~Held
         /\ ReportOutcome \/ ReportDeviceFailure \/ ReportSecretFailure => (Held => Held')
<1>0. obj \in Object
  BY DEF TypeOK
<1>. USE DEF Held
<1>1. ASSUME NEW f \in BOOLEAN, UpdateFinalizer(f), f
      PROVE  Held'
  <2>1. obj' = WithFinalizer(obj, f)
    BY <1>1 DEF UpdateFinalizer, Store
  <2>. QED
    BY <1>0, <1>1, <2>1, ObjectFields
<1>2. ASSUME AddFinalizer PROVE Held'
  BY <1>1, <1>2 DEF AddFinalizer
<1>3. ASSUME UpdateUnanswered PROVE orphaned' \/ Held'
  BY <1>1, <1>3 DEF UpdateUnanswered
<1>4. ASSUME EditSpec, Held PROVE Held'
  <2>1. PICK s \in Specs : obj' = [obj EXCEPT !.spec = s, !.generation = @ + 1]
    BY <1>4 DEF EditSpec, NewVersion, Store
  <2>2. /\ [obj EXCEPT !.spec = s, !.generation = @ + 1].exists = obj.exists
        /\ [obj EXCEPT !.spec = s, !.generation = @ + 1].finalizer = obj.finalizer
    BY <1>0 DEF Object
  <2>. QED
    BY <1>4, <2>1, <2>2
<1>5. ASSUME DeleteObject, Held PROVE Held'
  BY <1>0, <1>5 DEF DeleteObject, NewVersion, Store, Object
<1>6. ASSUME CreateObject PROVE ~Held
  BY <1>6 DEF CreateObject
<1>7. ASSUME NEW s, Persisted(s), Held PROVE Held'
  BY <1>0, <1>7 DEF Persisted, Store, Object
<1>8. ASSUME NotPersisted, Held PROVE Held'
  BY <1>8 DEF NotPersisted, objVars
<1>9. ASSUME ReportOutcome \/ ReportDeviceFailure \/ ReportSecretFailure, Held PROVE Held'
  BY <1>7, <1>8, <1>9 DEF ReportOutcome, ReportDeviceFailure, ReportSecretFailure,
                          ReportFailure
<1>. QED
  BY <1>2, <1>3, <1>4, <1>5, <1>6, <1>9

(***************************************************************************)
(* Gauges stand for an object that the operator holds, so none is left     *)
(* when it is gone, unless its finalizer went without the operator seeing  *)
(* its own Update succeed (controller:97-106, metrics.go:112-123).         *)
(***************************************************************************)
THEOREM GaugesGo == Spec => [](GaugesHeld /\ GaugesForgotten)
<1>1. Init => GaugesHeld
  BY DEF Init, NewObject, GaugesHeld, Managed
<1>2. /\ TypeOK /\ StepMemory /\ CopiesFresh /\ FinalizerPaths /\ LagsTogether
      /\ GaugesHeld /\ [Next]_vars
      => GaugesHeld'
  <2> SUFFICES ASSUME TypeOK, StepMemory, CopiesFresh, FinalizerPaths, LagsTogether,
                      GaugesHeld, [Next]_vars, ~orphaned'
               PROVE  GaugesHeld'
    BY DEF GaugesHeld
  <2>. USE DEF GaugesHeld
  <2>1. ASSUME UNCHANGED <<cache, orphaned>>, Held => Held',
               gauge' = None \/ UNCHANGED gauge, at' = "idle" \/ UNCHANGED at
        PROVE  GaugesHeld'
    BY <2>1
  <2>2. ASSUME UNCHANGED <<cache, orphaned>>, Held'
        PROVE  GaugesHeld'
    BY <2>2
  <2>3. ASSUME UNCHANGED obj
        PROVE  Held => Held'
    BY <2>3 DEF Held
  <2>4. CASE GetNotFound
    BY <2>1, <2>3, <2>4 DEF GetNotFound, apiVars, objVars, history
  <2>5. CASE GetDeleted \/ GetNew \/ GetManaged
    <3>1. GetManaged => Managed(cache)
      BY DEF GetManaged, Get, Managed
    <3>2. UNCHANGED <<obj, cache, gauge, orphaned>>
      BY <2>5 DEF GetDeleted, GetNew, GetManaged, Get, apiVars, objVars, history
    <3>3. at' \in {"removeFinalizer", "addFinalizer"} \/ (GetManaged /\ at' = "password")
      BY <2>5 DEF GetDeleted, GetNew, GetManaged, Get
    <3>. QED
      BY <2>3, <3>1, <3>2, <3>3
  <2>6. CASE RemoveFinalizer
    <3>1. node = obj /\ cache = obj /\ node.deleting
      BY <2>6 DEF RemoveFinalizer, UpdateFinalizer, CopiesFresh, FinalizerPaths, LagsTogether
    <3>2. ~Managed(cache)
      BY <3>1 DEF Managed
    <3>3. gauge' = None /\ at' = "idle" /\ cache' = cache
      BY <2>6 DEF RemoveFinalizer, UpdateFinalizer
    <3>. QED
      BY <3>2, <3>3
  <2>7. CASE AddFinalizer
    BY <2>2, <2>7, WritesHold DEF AddFinalizer, history
  <2>8. CASE UpdateRefused
    BY <2>1, <2>3, <2>8 DEF UpdateRefused, Idle, apiVars, objVars, history
  <2>9. CASE UpdateUnanswered
    <3>1. Held' /\ cache' = cache
      BY <2>9, WritesHold DEF UpdateUnanswered
    <3>. QED
      BY <3>1
  <2>10. CASE ReadPassword \/ ReadChannelKeys \/ SecretUnread
    <3>1. /\ UNCHANGED <<obj, cache, gauge, orphaned>>
          /\ at \in {"password", "channels"}
      BY <2>10 DEF ReadPassword, ReadChannelKeys, SecretUnread, apiVars, objVars, history
    <3>. QED
      BY <2>3, <3>1
  <2>11. CASE ConvergeStep
    BY <2>1, <2>3, <2>11 DEF ConvergeStep, apiVars, objVars, operatorVars
  <2>12. CASE ReportOutcome \/ ReportDeviceFailure \/ ReportSecretFailure
    <3>1. at \in {"converge", "secretFailure"} /\ UNCHANGED <<cache, orphaned>>
      BY <2>12 DEF ReportOutcome, ReportDeviceFailure, ReportSecretFailure, ReportFailure, End
    <3>. QED
      BY <2>2, <2>12, <3>1, WritesHold
  <2>13. CASE Sync
    <3>1. UNCHANGED <<obj, gauge, at, orphaned>> /\ cache' = obj
      BY <2>13 DEF Sync, history
    <3>2. Managed(obj) => Held
      BY DEF Managed, Held
    <3>. QED
      BY <2>3, <3>1, <3>2
  <2>14. CASE TimerFires
    BY <2>1, <2>3, <2>14 DEF TimerFires, apiVars, objVars, history
  <2>15. CASE Crash
    <3>1. gauge' = None /\ at' = "idle" /\ cache' = obj /\ obj' = obj
      BY <2>15 DEF Crash
    <3>2. Managed(obj) => Held
      BY DEF Managed, Held
    <3>. QED
      BY <2>3, <3>1, <3>2
  <2>16. CASE EditSpec \/ DeleteObject
    <3>1. UNCHANGED <<cache, gauge, at, orphaned>>
      BY <2>16 DEF EditSpec, DeleteObject, Edit, operatorVars, history
    <3>. QED
      BY <2>1, <2>16, <3>1, WritesHold
  <2>17. CASE StripFinalizer
    BY <2>17 DEF StripFinalizer
  <2>18. CASE CreateObject
    BY <2>1, <2>18, WritesHold DEF CreateObject, Edit, operatorVars
  <2>19. CASE RotateSecret
    BY <2>1, <2>3, <2>19 DEF RotateSecret, Edit, objVars, operatorVars, history
  <2>20. CASE World /\ UNCHANGED <<apiVars, operatorVars, stale, edits, history>>
    BY <2>1, <2>3, <2>20 DEF apiVars, objVars, operatorVars, history
  <2>21. CASE UNCHANGED vars
    BY <2>1, <2>3, <2>21 DEF vars, apiVars, objVars, operatorVars, history
  <2>. QED
    BY <2>4, <2>5, <2>6, <2>7, <2>8, <2>9, <2>10, <2>11, <2>12, <2>13, <2>14, <2>15,
       <2>16, <2>17, <2>18, <2>19, <2>20, <2>21 DEF Next, Reconcile, Users
<1>3. GaugesHeld => GaugesForgotten
  BY DEF GaugesHeld, GaugesForgotten, Held
<1>. QED
  BY <1>1, <1>2, <1>3, NodeTypeCorrect, CopiesAreFresh, FinalizersInOrder,
     CopiesLagTogether, PTL DEF Spec

-----------------------------------------------------------------------------
(* Ready and the spec it was verified for *)

(***************************************************************************)
(* A step in flight works for the spec of the object it holds, and Ready   *)
(* is a comparison with it (controller:122-150, converge.go:181-222).      *)
(***************************************************************************)
LEMMA NextComparedWithSpec == TypeOK /\ ComparedWithSpec /\ [Next]_vars => ComparedWithSpec'
<1> SUFFICES ASSUME TypeOK, ComparedWithSpec, [Next]_vars
             PROVE  ComparedWithSpec'
  OBVIOUS
<1>. USE DEF ComparedWithSpec
<1>0. at # "converge" => pc = "idle"
  BY DEF TypeOK
<1>1. ASSUME at' \notin {"channels", "converge"}, pc' = "idle"
      PROVE  ComparedWithSpec'
  BY <1>1
<1>2. ASSUME UNCHANGED <<pc, stepVars, at, node>>
      PROVE  ComparedWithSpec'
  BY <1>2 DEF stepVars
<1>3. CASE GetNotFound \/ GetDeleted \/ GetNew \/ GetManaged
  BY <1>0, <1>1, <1>2, <1>3
     DEF GetNotFound, GetDeleted, GetNew, GetManaged, Get, convergeVars, stepVars
<1>4. CASE RemoveFinalizer \/ AddFinalizer \/ UpdateRefused \/ UpdateUnanswered
  BY <1>0, <1>1, <1>4 DEF RemoveFinalizer, AddFinalizer, UpdateRefused, UpdateUnanswered,
                          UpdateFinalizer, Idle, convergeVars
<1>5. CASE ReadPassword
  BY <1>0, <1>5 DEF ReadPassword
<1>6. CASE ReadChannelKeys
  <2>1. desired \in Desired
    BY <1>6 DEF ReadChannelKeys, TypeOK
  <2>. QED
    BY <1>6, <2>1 DEF ReadChannelKeys, Begin, Desired
<1>7. CASE SecretUnread
  BY <1>0, <1>1, <1>7 DEF SecretUnread
<1>8. CASE ConvergeStep
  BY <1>8, StepGoesOn, ReadyFromComparison DEF ConvergeStep, TypeOK, operatorVars
<1>9. CASE ReportOutcome \/ ReportDeviceFailure \/ ReportSecretFailure \/ Crash
  BY <1>1, <1>9 DEF ReportOutcome, ReportDeviceFailure, ReportSecretFailure, ReportFailure,
                    Crash, End, Forget
<1>10. CASE Sync \/ TimerFires
  BY <1>2, <1>10 DEF Sync, TimerFires, convergeVars, stepVars
<1>11. CASE EditSpec \/ RotateSecret \/ DeleteObject \/ StripFinalizer \/ CreateObject
  BY <1>2, <1>11 DEF EditSpec, RotateSecret, DeleteObject, StripFinalizer, CreateObject,
                     Edit, operatorVars
<1>12. CASE World /\ UNCHANGED <<apiVars, operatorVars, stale, edits, history>>
  BY <1>2, <1>12, WorldKeeps DEF TypeOK, operatorVars
<1>13. CASE UNCHANGED vars
  BY <1>2, <1>13 DEF vars, convergeVars, operatorVars, stepVars
<1>. QED
  BY <1>3, <1>4, <1>5, <1>6, <1>7, <1>8, <1>9, <1>10, <1>11, <1>12, <1>13
     DEF Next, Reconcile, Users

(***************************************************************************)
(* Ready is written only over the scalar configuration it was verified     *)
(* for (controller:86-91, 208-217).                                        *)
(***************************************************************************)
THEOREM ReadyIsVerified == Spec => ReadyIsForDeclaredSpec
<1>1. Init => ComparedWithSpec
  BY DEF Init, ConvergeInit, ComparedWithSpec
<1>2. /\ TypeOK /\ CopiesFresh /\ ComparedWithSpec /\ [Next]_vars
      => [obj'.status # obj.status /\ obj'.status.conditions["Ready"] = "True"
            => desired.scalar = obj.spec.scalar /\ live.scalar = obj'.spec.scalar]_vars
  <2> SUFFICES ASSUME TypeOK, CopiesFresh, ComparedWithSpec, Next,
                      obj'.status # obj.status,
                      obj'.status.conditions["Ready"] = "True"
               PROVE  desired.scalar = obj.spec.scalar /\ live.scalar = obj'.spec.scalar
    OBVIOUS
  <2>1. CASE ReportOutcome
    <3>1. Persisted(OutcomeStatus(node, desired, outcome))
      BY <2>1 DEF ReportOutcome, NotPersisted, objVars
    <3>2. node = obj /\ obj \in Object
      BY <2>1, <3>1 DEF Persisted, CopiesFresh, ReportOutcome, TypeOK
    <3>3. /\ obj'.status = OutcomeStatus(node, desired, outcome)
          /\ obj'.spec = obj.spec
      BY <3>1, <3>2 DEF Persisted, Store, Object
    <3>4. outcome.Ready
      BY <3>3 DEF OutcomeStatus, ConditionTypes, True
    <3>. QED
      BY <2>1, <3>2, <3>3, <3>4 DEF ComparedWithSpec, ReportOutcome
  <2>2. CASE ReportDeviceFailure \/ ReportSecretFailure
    <3>1. PICK kept : ReportFailure(FailureStatus(node, kept))
      BY <2>2 DEF ReportDeviceFailure, ReportSecretFailure, DeviceFailureStatus,
                  SecretFailureStatus
    <3>2. Persisted(FailureStatus(node, kept))
      BY <3>1 DEF ReportFailure, NotPersisted, objVars
    <3>3. obj'.status = FailureStatus(node, kept)
      BY <3>2, ObjectFields DEF Persisted, Store, TypeOK
    <3>4. node.status \in Status
      BY <2>2 DEF ReportDeviceFailure, ReportSecretFailure, TypeOK, Object
    <3>. QED
      BY <3>3, <3>4 DEF FailureStatus, ConditionTypes, Status
  <2>3. CASE CreateObject
    BY <2>3 DEF CreateObject, NewVersion, Store, NewObject, NewStatus, ConditionTypes
  <2>4. CASE ConvergeStep \/ (World /\ UNCHANGED <<apiVars, operatorVars, stale, edits, history>>)
    BY <2>4 DEF ConvergeStep, apiVars, objVars
  <2>. QED
    BY <2>1, <2>2, <2>3, <2>4, StatusKept DEF Next, Reconcile, Users
<1>. QED
  BY <1>1, <1>2, NodeTypeCorrect, CopiesAreFresh, NextComparedWithSpec, PTL
     DEF Spec, ReadyIsForDeclaredSpec

-----------------------------------------------------------------------------
(* Beside another operator of the same node *)

(***************************************************************************)
(* What an operator does by itself, what it stores in the object while     *)
(* there is no finalizer to add or remove, and what it never does then     *)
(* (controller:97-115, 208-217).                                           *)
(***************************************************************************)
Own == Reconcile \/ Sync \/ TimerFires \/ Crash
Reports == ReportOutcome \/ ReportDeviceFailure \/ ReportSecretFailure
Stores == obj' # obj \/ "cache" \in stale' \ stale

StaysManaged ==
  /\ Managed(obj) /\ Managed(cache)
  /\ at \notin {"removeFinalizer", "addFinalizer"}

LEMMA ReportStores ==
  ASSUME TypeOK, LagsTogether, Reports
  PROVE  /\ at \in {"converge", "secretFailure"}
         /\ \/ Stores /\ \E s : Persisted(s)
            \/ ~Stores /\ NotPersisted
<1>1. at \in {"converge", "secretFailure"} /\ (NotPersisted \/ \E s : Persisted(s))
  BY DEF Reports, ReportOutcome, ReportDeviceFailure, ReportSecretFailure, ReportFailure
<1>2. ASSUME NEW s, Persisted(s) PROVE Stores
  BY <1>1, <1>2 DEF Persisted, Store, Stores, LagsTogether
<1>3. NotPersisted => ~Stores
  BY DEF NotPersisted, Stores, objVars
<1>. QED
  BY <1>1, <1>2, <1>3

LEMMA OnlyReportsStore ==
  ASSUME TypeOK, StaysManaged, Own
  PROVE  /\ UNCHANGED <<secrets, edits, orphaned>>
         /\ \/ Reports
            \/ /\ ~Stores /\ UNCHANGED <<obj, unacked, uncounted, tries, radio>>
               /\ ~ConvergeStep
            \/ ~Stores /\ UNCHANGED obj /\ ConvergeStep
<1>. USE DEF convergeVars, apiVars, objVars, operatorVars, history, Stores
<1>1. CASE RemoveFinalizer \/ AddFinalizer \/ UpdateRefused \/ UpdateUnanswered
  BY <1>1 DEF StaysManaged, RemoveFinalizer, AddFinalizer, UpdateRefused, UpdateUnanswered
<1>2. CASE GetNotFound \/ GetDeleted \/ GetNew \/ GetManaged
  BY <1>2 DEF GetNotFound, GetDeleted, GetNew, GetManaged, Get, ConvergeStep
<1>3. CASE ReadPassword \/ ReadChannelKeys \/ SecretUnread
  BY <1>3 DEF ReadPassword, ReadChannelKeys, SecretUnread, ConvergeStep
<1>4. CASE ConvergeStep
  BY <1>4 DEF ConvergeStep
<1>5. CASE Reports
  BY <1>5 DEF Reports, ReportOutcome, ReportDeviceFailure, ReportSecretFailure, ReportFailure,
              Persisted, NotPersisted, Store, End
<1>6. CASE Sync \/ TimerFires
  BY <1>6 DEF Sync, TimerFires, ConvergeStep, TypeOK
<1>7. CASE Crash
  BY <1>7 DEF Crash, ConvergeStep
<1>. QED
  BY <1>1, <1>2, <1>3, <1>4, <1>5, <1>6, <1>7 DEF Own, Reconcile, Reports

(***************************************************************************)
(* A status write leaves the object managed, and a managed object is not   *)
(* sent to the finalizer (controller:94-115).                              *)
(***************************************************************************)
LEMMA ManagedStays == TypeOK /\ StaysManaged /\ Own => StaysManaged'
<1> SUFFICES ASSUME TypeOK, StaysManaged, Own
             PROVE  StaysManaged'
  OBVIOUS
<1>0. obj \in Object /\ cache \in Object
  BY DEF TypeOK
<1>1. Managed(obj)'
  <2>1. CASE Reports
    <3>1. \/ UNCHANGED obj
          \/ \E s : obj' = [obj EXCEPT !.status = s]
      BY <2>1 DEF Reports, ReportOutcome, ReportDeviceFailure, ReportSecretFailure,
                  ReportFailure, Persisted, NotPersisted, Store, objVars
    <3>. QED
      BY <1>0, <3>1 DEF StaysManaged, Managed, Object
  <2>2. CASE ~Reports
    BY <2>2, OnlyReportsStore DEF StaysManaged, Managed
  <2>. QED
    BY <2>1, <2>2
<1>2. cache' \in {cache, obj}
  BY DEF Own, Reconcile, GetNotFound, GetDeleted, GetNew, GetManaged, Get, RemoveFinalizer,
         AddFinalizer, UpdateRefused, UpdateUnanswered, ReadPassword, ReadChannelKeys,
         SecretUnread, ConvergeStep, operatorVars, ReportOutcome, ReportDeviceFailure,
         ReportSecretFailure, ReportFailure, End, Sync, TimerFires, Crash
<1>3. at' \notin {"removeFinalizer", "addFinalizer"}
  <2>1. CASE GetNotFound \/ GetDeleted \/ GetNew \/ GetManaged
    BY <2>1 DEF StaysManaged, Managed, GetNotFound, GetDeleted, GetNew, GetManaged, Get
  <2>. QED
    BY <2>1
       DEF StaysManaged, Own, Reconcile, RemoveFinalizer, AddFinalizer, UpdateRefused,
           UpdateUnanswered, UpdateFinalizer, Idle, ReadPassword, ReadChannelKeys, SecretUnread,
           ConvergeStep, operatorVars, ReportOutcome, ReportDeviceFailure,
           ReportSecretFailure, ReportFailure, End, Sync, TimerFires, Crash
<1>4. Managed(cache)'
  <2>1. cache' = obj \/ cache' = cache
    BY <1>2
  <2>. QED
    BY <2>1 DEF StaysManaged, Managed
<1>. QED
  BY <1>1, <1>3, <1>4 DEF StaysManaged

(***************************************************************************)
(* A reconcile that lags, lags until its end, so what it believes of the   *)
(* radio no longer matters (controller:208-217).                           *)
(***************************************************************************)
LEMMA LagsToTheEnd == TypeOK /\ Own /\ Lags => Lags' \/ pc' = "idle"
<1> SUFFICES ASSUME TypeOK, Own, Lags, pc' # "idle"
             PROVE  Lags'
  OBVIOUS
<1>. USE DEF Lags
<1>1. CASE GetNotFound \/ GetDeleted \/ GetNew \/ GetManaged
  BY <1>1 DEF GetNotFound, GetDeleted, GetNew, GetManaged, Get
<1>2. CASE RemoveFinalizer \/ AddFinalizer \/ UpdateRefused \/ UpdateUnanswered
  <2>1. pc = "idle"
    BY <1>2 DEF RemoveFinalizer, AddFinalizer, UpdateRefused, UpdateUnanswered, TypeOK
  <2>. QED
    BY <1>2, <2>1 DEF RemoveFinalizer, AddFinalizer, UpdateRefused, UpdateUnanswered,
                      convergeVars
<1>3. CASE ReadPassword \/ ReadChannelKeys \/ SecretUnread \/ ConvergeStep
  BY <1>3 DEF ReadPassword, ReadChannelKeys, SecretUnread, ConvergeStep
<1>4. CASE Reports
  BY <1>4 DEF Reports, ReportOutcome, ReportDeviceFailure, ReportSecretFailure, ReportFailure,
              End, Forget
<1>5. CASE Sync \/ TimerFires \/ Crash
  BY <1>5 DEF Sync, TimerFires, Crash, Forget
<1>. QED
  BY <1>1, <1>2, <1>3, <1>4, <1>5 DEF Own, Reconcile, Reports

LEMMA NextHashSourceOrLags ==
  TypeOK /\ StepMemory /\ (Lags \/ HashSource) /\ Own => Lags' \/ HashSource'
<1> SUFFICES ASSUME TypeOK, StepMemory, Lags \/ HashSource, Own
             PROVE  Lags' \/ HashSource'
  OBVIOUS
<1>1. CASE Lags
  <2>1. pc' = "idle" => HashSource'
    BY DEF HashSource
  <2>. QED
    BY <1>1, <2>1, LagsToTheEnd
<1>2. CASE HashSource
  BY <1>2, NextHashSource DEF Own, Next
<1>. QED
  BY <1>1, <1>2

(***************************************************************************)
(* What one operator does to the history the other relies on: a password   *)
(* it writes is unacknowledged, and it acknowledges or counts an apply     *)
(* only by storing a status (controller:208-217).                          *)
(***************************************************************************)
LEMMA HistoryOfOwn ==
  ASSUME TypeOK, StepMemory, CopiesFresh, LagsTogether, StaysManaged, Own
  PROVE  /\ radio'.password = radio.password \/ (unacked' /\ ~Stores)
         /\ ~Stores => UNCHANGED obj /\ uncounted' >= uncounted /\ (unacked => unacked')
<1>0. uncounted \in Nat /\ tries \in Nat
  BY DEF TypeOK, ConvergeTypeOK
<1>1. CASE Reports
  <2>1. UNCHANGED radio
    BY <1>1 DEF Reports, ReportOutcome, ReportDeviceFailure, ReportSecretFailure,
                ReportFailure, End
  <2>2. CASE ~Stores
    <3>1. NotPersisted /\ \A s : ~Persisted(s)
      <4>1. NotPersisted /\ at # "idle"
        BY <1>1, <2>2, ReportStores
      <4>2. \A s : Persisted(s) => Stores
        BY <4>1 DEF Persisted, Store, Stores, LagsTogether
      <4>. QED
        BY <2>2, <4>1, <4>2
    <3>2. UNCHANGED <<obj, uncounted, unacked>>
      BY <1>1, <3>1 DEF NotPersisted, objVars, Reports, ReportOutcome, ReportDeviceFailure,
                        ReportSecretFailure, ReportFailure
    <3>. QED
      BY <1>0, <2>1, <3>2
  <2>. QED
    BY <2>1, <2>2
<1>2. CASE ConvergeStep
  <2>1. ~Stores /\ UNCHANGED obj
    BY <1>2 DEF ConvergeStep, Stores, apiVars, objVars
  <2>2. tries' \in {tries, tries + 1}
    BY <1>2, StepGoesOn DEF ConvergeStep, TypeOK
  <2>3. uncounted' >= uncounted
    <3>1. uncounted' = uncounted + (tries' - tries)
      BY <1>2 DEF ConvergeStep
    <3>2. CASE tries' = tries
      BY <1>0, <3>1, <3>2
    <3>3. CASE tries' = tries + 1
      <4>1. tries' - tries = 1
        BY <1>0, <3>3
      <4>. QED
        BY <1>0, <3>1, <4>1
    <3>. QED
      BY <2>2, <3>2, <3>3
  <2>4. /\ radio'.password = radio.password \/ unacked'
        /\ unacked => unacked'
    BY <1>2 DEF ConvergeStep
  <2>. QED
    BY <2>1, <2>3, <2>4
<1>3. CASE ~Reports /\ ~ConvergeStep
  BY <1>0, <1>3, OnlyReportsStore
<1>. QED
  BY <1>1, <1>2, <1>3

(***************************************************************************)
(* A version stored by somebody else is one more the copies are behind.    *)
(* Nothing else of another process reaches this one.                       *)
(***************************************************************************)
Behind == {"cache"} \cup (IF at = "idle" THEN {} ELSE {"node"})

\* What two operators share, and what each of them holds by itself.
Common ==
  /\ radio \in Radio
  /\ obj \in Object
  /\ Managed(obj)
  /\ secrets \in [mqtt : Passwords \cup {None}, psk : ChannelSets \cup {None}]
  /\ faults \in 0..MaxFaults
  /\ edits \in 0..MaxEdits
  /\ tries \in Nat
  /\ uncounted \in Nat
  /\ orphaned \in BOOLEAN

Sound == TypeOK /\ StepMemory /\ CopiesFresh /\ LagsTogether /\ StaysManaged

LEMMA SoundIsCommon == Sound => Common
BY DEF Sound, Common, TypeOK, ConvergeTypeOK, StaysManaged

LEMMA BesideAnother ==
  ASSUME Sound, Common', undelivered' \in BOOLEAN, unacked' \in BOOLEAN,
         UNCHANGED <<pc, stepVars, cache, queued, timer, at, node, gauge>>,
         \/ UNCHANGED <<obj, stale>> /\ uncounted' >= uncounted
         \/ stale' = Behind
  PROVE  Sound'
<1>. USE DEF Sound
<1>0. ConvergeTypeOK'
  BY DEF TypeOK, ConvergeTypeOK, Common, stepVars
<1>1. stale' \subseteq {"cache", "node"}
  BY DEF TypeOK, Behind
<1>2. TypeOK'
  BY <1>0, <1>1 DEF TypeOK, Common, stepVars
<1>3. StepMemory'
  <2>1. (at # "converge" => pc = "idle") /\ uncounted \in Nat /\ uncounted' \in Nat
    BY DEF TypeOK, Common
  <2>2. "node" \notin stale' => pc' = "idle" \/ (uncounted' >= uncounted /\ "node" \notin stale)
    BY <2>1 DEF Behind
  <2>3. (uncounted > 0 /\ uncounted' >= uncounted) => uncounted' > 0
    BY <2>1
  <2>. QED
    BY <2>2, <2>3 DEF StepMemory, stepVars
<1>4. CopiesFresh' /\ LagsTogether'
  BY DEF CopiesFresh, LagsTogether, Behind
<1>5. StaysManaged'
  BY DEF StaysManaged, Managed, Common
<1>. QED
  BY <1>2, <1>3, <1>4, <1>5

(***************************************************************************)
(* An operator keeps what it holds, and so does a radio that fails, comes  *)
(* back or is edited, and a user who rotates a Secret.                     *)
(***************************************************************************)
LEMMA OwnKeeps == Sound /\ Own => Sound'
BY NextTypeOK, NextStepMemory, NextCopiesFresh, NextLagsTogether, ManagedStays
   DEF Sound, Own, Next

LEMMA OthersKeep ==
  Sound /\ (\/ RotateSecret
            \/ World /\ UNCHANGED <<apiVars, operatorVars, stale, edits, history>>
            \/ UNCHANGED vars)
  => Sound'
<1> SUFFICES ASSUME Sound,
                    \/ RotateSecret
                    \/ World /\ UNCHANGED <<apiVars, operatorVars, stale, edits, history>>
                    \/ UNCHANGED vars
             PROVE  Sound'
  OBVIOUS
<1>1. UNCHANGED <<obj, cache, at>>
  BY DEF RotateSecret, Edit, vars, apiVars, objVars, operatorVars
<1>2. StaysManaged'
  BY <1>1 DEF Sound, StaysManaged, Managed
<1>. QED
  BY <1>2, NextTypeOK, NextStepMemory, NextCopiesFresh, NextLagsTogether DEF Sound, Next, Users

(***************************************************************************)
(* What an operator adds to a budget that two of them draw on: the apply   *)
(* it has made and is about to have counted, the one it may still make for *)
(* nothing because its copy is behind, and whether what it has written or  *)
(* may write leaves the status owing a new budget (controller:136-146,     *)
(* 208-217; converge.go:246-310).                                          *)
(***************************************************************************)
Bit(b) == IF b THEN 1 ELSE 0

Pending == Bit(HasWritten /\ ~Lags)
Reserved == Bit(ToWrite /\ Lags)
ReservedAfresh == Bit(ToWrite /\ Lags /\ MayWrite)
Tight == /\ ~Lags
         /\ \/ ToWrite /\ MayWrite /\ Full
            \/ HasWritten /\ Full
            \/ (ToWrite \/ HasWritten \/ pc = "returned") /\ Rotated

\* A reconcile ends with a status write that is refused.
Refused == at \in {"converge", "secretFailure"} /\ at' = "idle" /\ Lags
LagEnds == Lags /\ ~Lags'

LEMMA BitFacts ==
  ASSUME NEW b
  PROVE  /\ Bit(b) \in {0, 1}
         /\ b => Bit(b) = 1
         /\ ~b => Bit(b) = 0
BY DEF Bit

LEMMA BudgetBits ==
  /\ Pending \in {0, 1} /\ Reserved \in {0, 1} /\ ReservedAfresh \in {0, 1}
  /\ ~(HasWritten /\ ~Lags) => Pending = 0
  /\ HasWritten /\ ~Lags => Pending = 1
  /\ ~(ToWrite /\ Lags) => Reserved = 0 /\ ReservedAfresh = 0
  /\ ToWrite /\ Lags => Reserved = 1
  /\ ToWrite /\ Lags /\ MayWrite => ReservedAfresh = 1
  /\ ~MayWrite => ReservedAfresh = 0
<1>1. Pending \in {0, 1} /\ Reserved \in {0, 1} /\ ReservedAfresh \in {0, 1}
  BY BitFacts, Zenon DEF Pending, Reserved, ReservedAfresh
<1>2. /\ ~(HasWritten /\ ~Lags) => Pending = 0
      /\ HasWritten /\ ~Lags => Pending = 1
  BY BitFacts, Zenon DEF Pending
<1>3. /\ ~(ToWrite /\ Lags) => Reserved = 0 /\ ReservedAfresh = 0
      /\ ToWrite /\ Lags => Reserved = 1
  BY BitFacts, Zenon DEF Reserved, ReservedAfresh
<1>4. /\ ToWrite /\ Lags /\ MayWrite => ReservedAfresh = 1
      /\ ~MayWrite => ReservedAfresh = 0
  BY BitFacts, Zenon DEF ReservedAfresh
<1>. QED
  BY <1>1, <1>2, <1>3, <1>4

(***************************************************************************)
(* A step that stores nothing adds to the debt at most what is paid for.   *)
(***************************************************************************)
PaidWith(q) ==
  /\ uncounted' - Pending' >= uncounted - Pending
  /\ (uncounted' - Pending') + Reserved' <= (uncounted - Pending) + Reserved + q
  /\ (uncounted' - Pending') + ReservedAfresh' <= (uncounted - Pending) + ReservedAfresh + q
  /\ Owed' \/ Tight' => Owed \/ Tight

LEMMA QuietStep ==
  ASSUME TypeOK, UNCHANGED <<obj, secrets, node, uncounted>>, Resolved' = Resolved,
         Lags' <=> Lags, ToWrite' <=> ToWrite, HasWritten' <=> HasWritten,
         pc' = "returned" => pc = "returned"
  PROVE  PaidWith(0)
<1>0. uncounted \in Nat
  BY DEF TypeOK
<1>1. (Full' => Full) /\ (Owed' => Owed)
  BY DebtKept
<1>2. (MayWrite' => MayWrite) /\ (Rotated' => Rotated)
  BY ReadKept
<1>3. /\ Pending \in {0, 1} /\ Reserved \in {0, 1} /\ ReservedAfresh \in {0, 1}
      /\ Pending' = Pending /\ Reserved' = Reserved
      /\ ReservedAfresh' \in {0, 1} /\ (ReservedAfresh' = 1 => ReservedAfresh = 1)
  <2>1. Pending' = Pending /\ Reserved' = Reserved
    BY Zenon DEF Pending, Reserved, Bit
  <2>2. ReservedAfresh' \in {0, 1} /\ (ReservedAfresh' = 1 => (ToWrite /\ Lags /\ MayWrite)')
    BY BudgetBits DEF ReservedAfresh, Bit
  <2>3. ReservedAfresh' = 1 => ReservedAfresh = 1
    BY <1>2, <2>2, BudgetBits
  <2>. QED
    BY <2>1, <2>2, <2>3, BudgetBits
<1>4. Tight' => Tight
  BY <1>1, <1>2, Zenon DEF Tight
<1>5. uncounted' = uncounted
  OBVIOUS
<1>6. ReservedAfresh' <= ReservedAfresh
  BY <1>3
<1>7. /\ uncounted' - Pending' >= uncounted - Pending
      /\ (uncounted' - Pending') + Reserved' <= (uncounted - Pending) + Reserved + 0
  BY <1>0, <1>3, <1>5
<1>8. (uncounted' - Pending') + ReservedAfresh' <= (uncounted - Pending) + ReservedAfresh + 0
  <2>1. \A u \in Nat, p, a, b \in {0, 1} : b <= a => (u - p) + b <= (u - p) + a + 0
    OBVIOUS
  <2>2. ReservedAfresh \in {0, 1} /\ ReservedAfresh' \in {0, 1} /\ Pending \in {0, 1}
    BY <1>3
  <2>. QED
    BY <1>0, <1>3, <1>5, <1>6, <2>1, <2>2
<1>. QED
  BY <1>1, <1>4, <1>7, <1>8, Zenon DEF PaidWith

(***************************************************************************)
(* A reconcile that is over, or cannot write any more, has lost the apply  *)
(* it had made.                                                            *)
(***************************************************************************)
LEMMA OverWith ==
  ASSUME TypeOK, NEW q \in {0, 1}, UNCHANGED <<obj, secrets, uncounted>>,
         pc' \in {"idle", "errored"}, at' \notin {"password", "channels"},
         q = 1 \/ Lags \/ ~HasWritten
  PROVE  PaidWith(q)
<1>0. uncounted \in Nat
  BY DEF TypeOK
<1>1. ~ToWrite' /\ ~HasWritten' /\ pc' # "returned"
  BY DEF ToWrite, HasWritten
<1>2. Pending' = 0 /\ Reserved' = 0 /\ ReservedAfresh' = 0 /\ ~Tight'
  BY <1>1, Zenon DEF Pending, Reserved, ReservedAfresh, Tight, Bit
<1>3. Owed' => Owed
  BY DebtKept
<1>4. /\ Pending \in {0, 1} /\ Reserved \in {0, 1} /\ ReservedAfresh \in {0, 1}
      /\ Pending <= q
  BY BudgetBits
<1>5. uncounted' = uncounted
  OBVIOUS
<1>. QED
  BY <1>0, <1>2, <1>3, <1>4, <1>5 DEF PaidWith

(***************************************************************************)
(* A reconcile that starts from a copy that is behind is paid for by that  *)
(* (controller:86-91).                                                     *)
(***************************************************************************)
LEMMA StartShared ==
  ASSUME TypeOK, CopiesFresh, LagsTogether, GetDeleted \/ GetNew \/ GetManaged
  PROVE  /\ ~Lags /\ at = "idle"
         /\ \E q \in {0, 1} : PaidWith(q) /\ faults' = faults + q
<1>1. /\ uncounted \in Nat /\ faults \in Nat /\ at = "idle" /\ pc = "idle" /\ ~Lags
  BY ConvergeAssumption DEF TypeOK, ConvergeTypeOK, LagsTogether, Lags, GetDeleted, GetNew,
     GetManaged, Get
<1>2. /\ UNCHANGED <<obj, secrets, pc, desired, write, uncounted>>
      /\ node' = cache
      /\ "cache" \in stale => faults' = faults + 1 /\ Lags'
      /\ "cache" \notin stale => faults' = faults + 0 /\ ~Lags'
      /\ at' \in {"addFinalizer", "removeFinalizer", "password"}
  BY <1>1 DEF GetDeleted, GetNew, GetManaged, Get, Fault, Lags, apiVars, objVars,
              stepVars, history, operatorVars
<1>3. (Full' => Full) /\ (Owed' => Owed)
  BY <1>2, DebtKept
<1>4. Pending = 0 /\ Reserved = 0 /\ ReservedAfresh = 0 /\ Pending' = 0
  <2>1. ~HasWritten /\ ~ToWrite /\ ~HasWritten'
    BY <1>1, <1>2 DEF HasWritten, ToWrite
  <2>. QED
    BY <2>1, Zenon DEF Pending, Reserved, ReservedAfresh, Bit
<1>5. Reserved' \in {0, 1} /\ ReservedAfresh' \in {0, 1}
  BY Zenon DEF Reserved, ReservedAfresh, Bit
<1>6. uncounted' = uncounted
  BY <1>2
<1>7. CASE "cache" \in stale
  <2>1. ~Tight'
    BY <1>2, <1>7 DEF Tight
  <2>2. /\ uncounted' - Pending' >= uncounted - Pending
        /\ (uncounted' - Pending') + Reserved' <= (uncounted - Pending) + Reserved + 1
        /\ (uncounted' - Pending') + ReservedAfresh' <= (uncounted - Pending) + ReservedAfresh + 1
    <3>1. \A u \in Nat, r \in {0, 1} : u - 0 >= u - 0 /\ (u - 0) + r <= (u - 0) + 0 + 1
      OBVIOUS
    <3>. QED
      BY <1>1, <1>4, <1>5, <1>6, <3>1
  <2>. QED
    BY <1>1, <1>2, <1>3, <1>7, <2>1, <2>2 DEF PaidWith
<1>8. CASE "cache" \notin stale
  <2>1. Reserved' = 0 /\ ReservedAfresh' = 0
    BY <1>2, <1>8, Zenon DEF Reserved, ReservedAfresh, Bit
  <2>2. Tight' => Owed
    <3>1. node' = obj'
      BY <1>2, <1>8 DEF CopiesFresh
    <3>2. ASSUME at' = "password"
          PROVE  ~Rotated' /\ (MayWrite' /\ Full' => Owed')
      <4>1. Resolved' = Bound(node.spec)'
        BY <3>2 DEF Resolved, Bound
      <4>2. Resolved' = Bound(obj.spec)'
        BY <3>1, <4>1 DEF Bound, Password, ChannelsOf
      <4>3. Full' => ~(node'.status.ApplyAttempts < MaxApplyAttempts)
        BY <3>1, ConvergeAssumption DEF Full
      <4>. QED
        BY <3>1, <4>1, <4>2, <4>3 DEF Rotated, MayWrite, Full, Owed, NewBudget
    <3>3. (ToWrite' => at' = "password") /\ ~HasWritten' /\ pc' # "returned"
      BY <1>1, <1>2 DEF ToWrite, HasWritten
    <3>. QED
      BY <1>3, <3>2, <3>3, Zenon DEF Tight
  <2>3. /\ uncounted' - Pending' >= uncounted - Pending
        /\ (uncounted' - Pending') + Reserved' <= (uncounted - Pending) + Reserved + 0
        /\ (uncounted' - Pending') + ReservedAfresh' <= (uncounted - Pending) + ReservedAfresh + 0
    BY <1>1, <1>4, <1>6, <2>1
  <2>. QED
    BY <1>1, <1>2, <1>3, <1>8, <2>2, <2>3 DEF PaidWith
<1>. QED
  BY <1>1, <1>7, <1>8

(***************************************************************************)
(* A call of the step applies once at most, and only below the bound; a    *)
(* write that ends in an error is a fault (converge.go:246-287).           *)
(***************************************************************************)
LEMMA StepShared ==
  ASSUME TypeOK, StepMemory, ConvergeStep
  PROVE  /\ at' = at /\ (Lags' <=> Lags)
         /\ \E q \in {0, 1} : PaidWith(q) /\ faults' = faults + q
<1>1. /\ uncounted \in Nat /\ tries \in Nat /\ faults \in Nat
      /\ ConvergeTypeOK /\ Step /\ at = "converge"
  BY ConvergeAssumption DEF ConvergeStep, TypeOK, ConvergeTypeOK
<1>2. /\ UNCHANGED <<obj, secrets, at, node, stale, edits, desired>>
      /\ uncounted' = uncounted + (tries' - tries)
  BY <1>1, StepGoesOn DEF ConvergeStep, apiVars, objVars, operatorVars
<1>3. /\ Resolved' = Resolved
      /\ Lags' <=> Lags
      /\ (Full' => Full) /\ (Owed' => Owed)
      /\ (MayWrite' => MayWrite) /\ (Rotated' => Rotated)
  <2>1. Resolved' = Resolved
    BY <1>2 DEF Resolved, Password, ChannelsOf
  <2>. QED
    BY <1>2, <2>1, DebtKept, ReadKept DEF Lags
<1>4. PICK q \in {0, 1} : /\ faults' = faults + q
                          /\ pc = "apply" /\ pc' = "errored" => q = 1
  <2>1. /\ UNCHANGED faults \/ Fault
        /\ pc = "apply" /\ pc' = "errored" => Fault
    BY <1>1, StepFaults
  <2>2. CASE Fault
    BY <2>2 DEF Fault
  <2>3. CASE ~Fault
    <3>1. faults' = faults + 0
      BY <1>1, <2>1, <2>3
    <3>. QED
      BY <2>1, <2>3, <3>1
  <2>. QED
    BY <2>2, <2>3
<1>5. CASE pc = "apply"
  <2>1. MayWrite
    <3>1. prior = PriorOf(node, desired) /\ prior.ApplyAttempts < MaxApplyAttempts
      BY <1>1, <1>5 DEF StepMemory, ConvergeTypeOK
    <3>2. SecretsFingerprint(Resolved) = SecretsFingerprint(desired)
      BY <1>1 DEF Resolved, SecretsFingerprint, WriteOnlyPasswordHash
    <3>. QED
      BY <3>1, <3>2 DEF MayWrite, PriorOf, NewBudget
  <2>2. /\ tries' = tries + 1
        /\ pc' \in {"reboot", "returned", "errored"}
        /\ write' = write /\ write # "nothing"
    BY <1>1, <1>5, StepFromWrite DEF ConvergeTypeOK
  <2>3. uncounted' = uncounted + 1
    BY <1>1, <1>2, <2>2
  <2>4. ToWrite /\ ~HasWritten /\ ~ToWrite' /\ (HasWritten' <=> pc' # "errored")
    BY <1>1, <1>2, <1>5, <2>2 DEF ToWrite, HasWritten
  <2>5. /\ Pending = 0 /\ Reserved' = 0 /\ ReservedAfresh' = 0
        /\ Lags => Reserved = 1 /\ ReservedAfresh = 1 /\ Pending' = 0
        /\ ~Lags => Reserved = 0 /\ ReservedAfresh = 0
        /\ Pending' \in {0, 1}
        /\ ~Lags /\ pc' # "errored" => Pending' = 1
    BY <1>3, <2>1, <2>4, Zenon DEF Pending, Reserved, ReservedAfresh, Bit
  <2>6. Tight' => Tight
    BY <1>3, <2>1, <2>2, <2>4, Zenon DEF Tight
  <2>7. /\ uncounted' - Pending' >= uncounted - Pending
        /\ (uncounted' - Pending') + Reserved' <= (uncounted - Pending) + Reserved + q
        /\ (uncounted' - Pending') + ReservedAfresh' <= (uncounted - Pending) + ReservedAfresh + q
    <3>1. CASE Lags
      BY <1>1, <2>3, <2>5, <3>1
    <3>2. CASE ~Lags /\ pc' = "errored"
      <4>1. \A u \in Nat, b \in {0, 1} :
              (u + 1) - b >= u - 0 /\ ((u + 1) - b) + 0 <= (u - 0) + 0 + 1
        OBVIOUS
      <4>2. q = 1
        BY <1>4, <1>5, <3>2
      <4>. QED
        BY <1>1, <2>3, <2>5, <3>2, <4>1, <4>2
    <3>3. CASE ~Lags /\ pc' # "errored"
      BY <1>1, <2>3, <2>5, <3>3
    <3>. QED
      BY <3>1, <3>2, <3>3
  <2>8. PaidWith(q)
    BY <1>3, <2>6, <2>7, Zenon DEF PaidWith
  <2>. QED
    BY <1>2, <1>3, <1>4, <2>8
<1>6. CASE pc # "apply"
  <2>1. /\ uncounted' = uncounted
        /\ ToWrite' => ToWrite
        /\ HasWritten' <=> HasWritten
        /\ pc' = "returned" => ToWrite \/ HasWritten
    <3>1. CASE pc = "reboot"
      <4>1. pc' = "returned" /\ write' = write /\ write # "nothing" /\ tries' = tries
        BY <1>1, <3>1, StepFromWrite DEF ConvergeTypeOK
      <4>. QED
        BY <1>1, <1>2, <3>1, <4>1 DEF ToWrite, HasWritten
    <3>2. CASE pc # "reboot"
      <4>1. /\ pc \in {"export", "info", "compare"}
            /\ tries' = tries
            /\ pc' \in {"info", "compare", "errored", "apply", "returned"}
            /\ pc' # "apply" => write' = "nothing"
        BY <1>1, <1>6, <3>2, StepBeforeWrite DEF StepMemory
      <4>. QED
        BY <1>1, <1>2, <4>1 DEF ToWrite, HasWritten
    <3>. QED
      BY <3>1, <3>2
  <2>2. /\ Pending' = Pending /\ Pending \in {0, 1}
        /\ Reserved \in {0, 1} /\ ReservedAfresh \in {0, 1}
        /\ Reserved' \in {0, Reserved} /\ ReservedAfresh' \in {0, ReservedAfresh}
    <3>1. Pending' = Pending
      BY <1>3, <2>1, Zenon DEF Pending, Bit
    <3>2. /\ Reserved' \in {0, 1} /\ ReservedAfresh' \in {0, 1}
          /\ Reserved' = 1 => (ToWrite /\ Lags)'
          /\ ReservedAfresh' = 1 => (ToWrite /\ Lags /\ MayWrite)'
      BY DEF Reserved, ReservedAfresh, Bit
    <3>3. /\ Reserved' = 1 => Reserved = 1
          /\ ReservedAfresh' = 1 => ReservedAfresh = 1
      BY <1>3, <2>1, <3>2, BudgetBits
    <3>. QED
      BY <3>1, <3>2, <3>3, BudgetBits
  <2>3. Tight' => Tight
    BY <1>3, <2>1, Zenon DEF Tight
  <2>4. \A u \in Nat, p, a, b \in {0, 1} :
          b \in {0, a} => u - p >= u - p /\ (u - p) + b <= (u - p) + a + q
    BY <1>4
  <2>5. /\ uncounted' - Pending' >= uncounted - Pending
        /\ (uncounted' - Pending') + Reserved' <= (uncounted - Pending) + Reserved + q
        /\ (uncounted' - Pending') + ReservedAfresh' <= (uncounted - Pending) + ReservedAfresh + q
    <3>1. Reserved' \in {0, 1} /\ ReservedAfresh' \in {0, 1}
      BY <2>2
    <3>. QED
      BY <1>1, <2>1, <2>2, <2>4, <3>1
  <2>6. PaidWith(q)
    BY <1>3, <2>3, <2>5, Zenon DEF PaidWith
  <2>. QED
    BY <1>2, <1>3, <1>4, <2>6
<1>. QED
  BY <1>5, <1>6

(***************************************************************************)
(* A step of a reconcile that stores nothing: a refusal is what a copy     *)
(* that was behind comes to (controller:208-217).                          *)
(***************************************************************************)
LEMMA UnstoredReconcile ==
  ASSUME TypeOK, StepMemory, CopiesFresh, LagsTogether, StaysManaged, Reconcile, ~Stores
  PROVE  \E q \in {0, 1} : PaidWith(q) /\ faults' + Bit(Refused) = faults + q + Bit(LagEnds)
<1>0. /\ uncounted \in Nat /\ faults \in Nat
      /\ (at # "converge" => pc = "idle")
  BY ConvergeAssumption DEF TypeOK, ConvergeTypeOK
<1>1. ASSUME ~Lags \/ Lags', ~Lags \/ at' # "idle",
             NEW q \in {0, 1}, PaidWith(q), faults' = faults + q
      PROVE  \E r \in {0, 1} : PaidWith(r) /\ faults' + Bit(Refused) = faults + r + Bit(LagEnds)
  <2>1. Bit(LagEnds) = 0 /\ Bit(Refused) = 0
    BY <1>1, Zenon DEF LagEnds, Refused, Bit
  <2>. QED
    BY <1>0, <1>1, <2>1
<1>2. CASE GetNotFound
  <2>1. FALSE
    BY <1>2 DEF GetNotFound, StaysManaged, Managed
  <2>. QED
    BY <2>1
<1>3. CASE GetDeleted \/ GetNew \/ GetManaged
  BY <1>1, <1>3, StartShared
<1>4. CASE RemoveFinalizer \/ AddFinalizer \/ UpdateRefused \/ UpdateUnanswered
  BY <1>4 DEF StaysManaged, RemoveFinalizer, AddFinalizer, UpdateRefused, UpdateUnanswered
<1>5. CASE ReadPassword \/ ReadChannelKeys
  <2>1. /\ UNCHANGED <<obj, secrets, node, uncounted, faults, edits, stale>>
        /\ pc = "idle" /\ pc' \in {"idle", "export"}
        /\ at \in {"password", "channels"} /\ at' \in {"channels", "converge"}
        /\ at' = "converge" => pc' = "export"
    BY <1>0, <1>5 DEF ReadPassword, ReadChannelKeys, Begin, apiVars, objVars, history
  <2>2. Resolved' = Resolved
    <3>1. ChannelsOf(node.spec)' = ChannelsOf(node.spec)
      BY <2>1 DEF ChannelsOf
    <3>2. CASE ReadPassword
      BY <3>1, <3>2 DEF ReadPassword, Resolved
    <3>3. CASE ReadChannelKeys
      <4>1. desired \in Desired
        BY <3>3 DEF ReadChannelKeys, TypeOK
      <4>2. /\ desired'.password = desired.password
            /\ desired'.channels = ChannelsOf(node.spec)
        BY <3>3, <4>1 DEF ReadChannelKeys, Begin, Desired
      <4>. QED
        BY <3>3, <4>2 DEF ReadChannelKeys, Resolved
    <3>. QED
      BY <1>5, <3>2, <3>3
  <2>3. /\ ToWrite /\ ToWrite' /\ ~HasWritten /\ ~HasWritten' /\ pc' # "returned"
        /\ Lags' <=> Lags
    BY <2>1 DEF ToWrite, HasWritten, Lags
  <2>4. PaidWith(0)
    BY <2>1, <2>2, <2>3, QuietStep
  <2>5. faults' = faults + 0
    BY <1>0, <2>1
  <2>. QED
    BY <1>1, <2>1, <2>3, <2>4, <2>5
<1>6. CASE SecretUnread
  <2>1. /\ UNCHANGED <<obj, secrets, uncounted, stale>>
        /\ pc = "idle" /\ pc' = "idle" /\ at' = "secretFailure"
        /\ UNCHANGED faults \/ Fault
    BY <1>0, <1>6 DEF SecretUnread, apiVars, objVars, history
  <2>2. PICK q \in {0, 1} : faults' = faults + q
    <3>1. faults' = faults + 0 \/ faults' = faults + 1
      BY <1>0, <2>1 DEF Fault
    <3>. QED
      BY <3>1
  <2>3. ~HasWritten /\ (Lags' <=> Lags)
    BY <2>1 DEF HasWritten, Lags
  <2>4. PaidWith(q)
    BY <2>1, <2>3, OverWith
  <2>. QED
    BY <1>1, <2>1, <2>2, <2>3, <2>4
<1>7. CASE ConvergeStep
  <2>1. at' = "converge"
    BY <1>7, StepShared DEF ConvergeStep
  <2>. QED
    BY <1>1, <1>7, <2>1, StepShared
<1>8. CASE Reports
  <2>1. NotPersisted /\ at \in {"converge", "secretFailure"}
    BY <1>8, ReportStores
  <2>2. \A s : ~Persisted(s)
    <3>1. \A s : Persisted(s) => Stores
      BY <2>1 DEF Persisted, Store, Stores, LagsTogether
    <3>. QED
      BY <3>1
  <2>3. /\ UNCHANGED <<obj, secrets, uncounted>> /\ pc' = "idle" /\ at' = "idle" /\ ~Lags'
        /\ Lags => UNCHANGED faults
        /\ ~Lags => Fault
    BY <1>8, <2>1, <2>2 DEF Reports, ReportOutcome, ReportDeviceFailure, ReportSecretFailure,
       ReportFailure, NotPersisted, End, Forget, Lags, objVars
  <2>4. CASE Lags
    <3>1. PaidWith(0)
      BY <2>3, <2>4, OverWith
    <3>2. Bit(LagEnds) = 1 /\ Bit(Refused) = 1
      BY <2>1, <2>3, <2>4, Zenon DEF LagEnds, Refused, Bit
    <3>3. faults' + Bit(Refused) = faults + 0 + Bit(LagEnds)
      BY <1>0, <2>3, <2>4, <3>2
    <3>. QED
      BY <3>1, <3>3
  <2>5. CASE ~Lags
    <3>1. PaidWith(1)
      BY <2>3, <2>5, OverWith
    <3>. QED
      BY <1>1, <2>3, <2>5, <3>1 DEF Fault
  <2>. QED
    BY <2>4, <2>5
<1>. QED
  BY <1>2, <1>3, <1>4, <1>5, <1>6, <1>7, <1>8 DEF Reconcile, Reports

(***************************************************************************)
(* What the informer, a timer and the end of the process do: a crash pays  *)
(* for the apply that is never counted.                                    *)
(***************************************************************************)
LEMMA UnstoredWatch ==
  ASSUME TypeOK, Sync \/ TimerFires \/ Crash
  PROVE  \E q \in {0, 1} : PaidWith(q) /\ faults' = faults + q + Bit(LagEnds)
<1>0. uncounted \in Nat /\ faults \in Nat
  BY ConvergeAssumption DEF TypeOK, ConvergeTypeOK
<1>1. CASE Sync \/ TimerFires
  <2>1. /\ UNCHANGED <<obj, secrets, at, desired, pc, write, node, uncounted, faults>>
        /\ Lags' <=> Lags
    BY <1>1 DEF Sync, TimerFires, Lags, convergeVars, stepVars, apiVars, objVars, history
  <2>2. /\ Resolved' = Resolved
        /\ ToWrite' <=> ToWrite
        /\ HasWritten' <=> HasWritten
    BY <2>1 DEF Resolved, Password, ChannelsOf, ToWrite, HasWritten
  <2>3. PaidWith(0)
    BY <2>1, <2>2, QuietStep
  <2>4. Bit(LagEnds) = 0
    BY <2>1, Zenon DEF LagEnds, Bit
  <2>5. faults' = faults + 0 + Bit(LagEnds)
    BY <1>0, <2>1, <2>4
  <2>. QED
    BY <2>3, <2>5
<1>2. CASE Crash
  <2>1. /\ UNCHANGED <<obj, secrets, uncounted>> /\ faults' = faults + 1
        /\ pc' = "idle" /\ at' = "idle" /\ ~Lags'
    BY <1>2 DEF Crash, Forget, Fault, Lags, history
  <2>2. CASE Lags
    <3>1. PaidWith(0)
      BY <2>1, <2>2, OverWith
    <3>2. Bit(LagEnds) = 1
      BY <2>1, <2>2, Zenon DEF LagEnds, Bit
    <3>3. faults' = faults + 0 + Bit(LagEnds)
      BY <1>0, <2>1, <3>2
    <3>. QED
      BY <3>1, <3>3
  <2>3. CASE ~Lags
    <3>1. PaidWith(1)
      BY <2>1, OverWith
    <3>2. Bit(LagEnds) = 0
      BY <2>3, Zenon DEF LagEnds, Bit
    <3>3. faults' = faults + 1 + Bit(LagEnds)
      BY <1>0, <2>1, <3>2
    <3>. QED
      BY <3>1, <3>3
  <2>. QED
    BY <2>2, <2>3
<1>. QED
  BY <1>1, <1>2

(***************************************************************************)
(* A report that is stored counts the apply it was about, and leaves the   *)
(* status owing a new budget only if it did already, or if a Secret was    *)
(* rotated since it was read (controller:136-146, 208-217).                *)
(***************************************************************************)
LEMMA StoredStep ==
  ASSUME TypeOK, StepMemory, CopiesFresh, LagsTogether, StaysManaged, Own, Stores
  PROVE  /\ Reports /\ ~Lags /\ ~Lags' /\ at \in {"converge", "secretFailure"} /\ at' = "idle"
         /\ Pending' = 0 /\ Reserved' = 0 /\ ReservedAfresh' = 0 /\ ~Tight'
         /\ uncounted' \in {0, uncounted - Pending}
         /\ Owed' => Owed \/ Tight
         /\ UNCHANGED <<secrets, edits>>
         /\ faults' \in {faults, faults + 1}
<1>1. Reports
  BY OnlyReportsStore
<1>2. /\ at \in {"converge", "secretFailure"}
      /\ \E s : Persisted(s)
      /\ ~NotPersisted
  <2>1. at \in {"converge", "secretFailure"} /\ \E s : Persisted(s)
    BY <1>1, ReportStores
  <2>2. NotPersisted => ~Stores
    BY DEF NotPersisted, Stores, objVars
  <2>. QED
    BY <2>1, <2>2
<1>3. /\ uncounted \in Nat /\ obj \in Object /\ node \in Object
      /\ node = obj /\ ~Lags
      /\ (at # "converge" => pc = "idle")
  BY <1>2 DEF TypeOK, Persisted, CopiesFresh, Lags
<1>4. /\ UNCHANGED <<secrets, edits>> /\ faults' \in {faults, faults + 1}
      /\ pc' = "idle" /\ at' = "idle" /\ ~Lags'
  BY <1>1, <1>2 DEF Reports, ReportOutcome, ReportDeviceFailure, ReportSecretFailure,
     ReportFailure, Persisted, Store, End, Forget, Lags, Fault
<1>5. Pending' = 0 /\ Reserved' = 0 /\ ReservedAfresh' = 0 /\ ~Tight'
  <2>1. ~ToWrite' /\ ~HasWritten' /\ pc' # "returned"
    BY <1>4 DEF ToWrite, HasWritten
  <2>. QED
    BY <2>1, Zenon DEF Pending, Reserved, ReservedAfresh, Tight, Bit
<1>6. CASE ReportOutcome
  <2>1. /\ pc = "returned" /\ at = "converge"
        /\ Persisted(OutcomeStatus(node, desired, outcome)) /\ Settle
    BY <1>2, <1>6 DEF ReportOutcome
  <2>2. uncounted' \in {0, uncounted - Pending}
    <3>1. CASE write = "nothing"
      <4>1. Pending = 0
        BY <2>1, <3>1, BudgetBits DEF HasWritten
      <4>2. uncounted' = 0 \/ uncounted' = uncounted
        BY <2>1, <3>1 DEF Settle
      <4>. QED
        BY <1>3, <4>1, <4>2
    <3>2. CASE write # "nothing"
      <4>1. Pending = 1
        BY <1>3, <2>1, <3>2, BudgetBits DEF HasWritten
      <4>2. uncounted' = 0 \/ uncounted' = uncounted - 1
        BY <2>1, <3>2 DEF Settle
      <4>. QED
        BY <1>3, <4>1, <4>2
    <3>. QED
      BY <3>1, <3>2
  <2>3. /\ obj'.status = OutcomeStatus(node, desired, outcome)
        /\ obj'.generation = node.generation
        /\ obj'.spec = node.spec
    BY <1>3, <2>1 DEF Persisted, Store, Object
  <2>4. Owed' => Rotated
    <3>1. ASSUME Owed'
          PROVE  NewBudget(obj, Bound(obj.spec))'
      BY <3>1 DEF Owed
    <3>2. Bound(obj.spec)' = Bound(node.spec)
      BY <1>4, <2>3 DEF Bound, Password, ChannelsOf
    <3>3. ASSUME Owed'
          PROVE  SecretsFingerprint(Bound(node.spec)) # SecretsFingerprint(desired)
      BY <2>3, <3>1, <3>2, <3>3 DEF NewBudget, OutcomeStatus
    <3>4. SecretsFingerprint(Resolved) = SecretsFingerprint(desired)
      BY <2>1 DEF Resolved, SecretsFingerprint, WriteOnlyPasswordHash
    <3>. QED
      BY <3>3, <3>4 DEF Rotated
  <2>5. Owed' => Tight
    BY <1>3, <2>1, <2>4, Zenon DEF Tight
  <2>. QED
    BY <1>1, <1>2, <1>3, <1>4, <1>5, <2>2, <2>5
<1>7. CASE ReportDeviceFailure \/ ReportSecretFailure
  <2>1. PICK kept : ReportFailure(FailureStatus(node, kept))
    BY <1>7 DEF ReportDeviceFailure, ReportSecretFailure, DeviceFailureStatus,
                SecretFailureStatus
  <2>2. Persisted(FailureStatus(node, kept)) /\ uncounted' = uncounted
    BY <1>2, <2>1 DEF ReportFailure
  <2>3. Pending = 0
    <3>1. pc \in {"idle", "errored"}
      BY <1>3, <1>7 DEF ReportDeviceFailure, ReportSecretFailure
    <3>. QED
      BY <3>1, BudgetBits DEF HasWritten
  <2>4. uncounted' = uncounted - Pending
    BY <1>3, <2>2, <2>3
  <2>5. Owed' => Owed
    <3>1. /\ obj'.status = FailureStatus(node, kept)
          /\ obj'.generation = obj.generation
          /\ obj'.spec = obj.spec
      BY <1>3, <2>2 DEF Persisted, Store, Object
    <3>2. /\ FailureStatus(node, kept).ApplyAttempts = node.status.ApplyAttempts
          /\ FailureStatus(node, kept).observedGeneration = node.status.observedGeneration
          /\ FailureStatus(node, kept).boundSecrets = node.status.boundSecrets
      BY <1>3 DEF FailureStatus, Object, Status
    <3>. QED
      BY <1>3, <1>4, <3>1, <3>2, DebtKept
  <2>. QED
    BY <1>1, <1>2, <1>3, <1>4, <1>5, <2>4, <2>5
<1>. QED
  BY <1>1, <1>6, <1>7 DEF Reports

(***************************************************************************)
(* What a step of another process changes in this one's part of the debt.  *)
(***************************************************************************)
LEMMA OtherStoresNothing ==
  ASSUME UNCHANGED <<obj, secrets, pc, desired, write, at, node, stale>>
  PROVE  /\ Pending' = Pending /\ Reserved' = Reserved /\ ReservedAfresh' = ReservedAfresh
         /\ Tight' <=> Tight
         /\ Lags' <=> Lags
         /\ Owed' <=> Owed
<1>1. /\ Resolved' = Resolved
      /\ Bound(node.spec)' = Bound(node.spec)
      /\ Bound(obj.spec)' = Bound(obj.spec)
  BY DEF Resolved, Bound, Password, ChannelsOf
<1>2. /\ MayWrite' <=> MayWrite
      /\ Rotated' <=> Rotated
      /\ Full' <=> Full
      /\ Owed' <=> Owed
  BY <1>1 DEF MayWrite, Rotated, Full, Owed, NewBudget
<1>3. /\ ToWrite' <=> ToWrite
      /\ HasWritten' <=> HasWritten
      /\ Lags' <=> Lags
  BY DEF ToWrite, HasWritten, Lags
<1>. QED
  BY <1>2, <1>3, Zenon DEF Pending, Reserved, ReservedAfresh, Tight, Bit

LEMMA OtherStores ==
  ASSUME TypeOK, LagsTogether,
         UNCHANGED <<secrets, pc, desired, write, at, node>>, stale' = Behind
  PROVE  /\ Pending' = 0 /\ ~Tight'
         /\ at = "idle" => ~Lags /\ ~Lags' /\ Pending = 0 /\ Reserved' = 0 /\ ReservedAfresh' = 0
         /\ at # "idle" => Lags'
         /\ Lags => Pending = 0 /\ Reserved' = Reserved /\ ReservedAfresh' = ReservedAfresh
         /\ ~Lags => /\ Reserved = 0 /\ ReservedAfresh = 0
                     /\ Pending = 0 \/ Reserved' = 0
                     /\ ReservedAfresh' = 0 \/ Reserved' = 1
<1>1. /\ MayWrite' <=> MayWrite
      /\ ToWrite' <=> ToWrite
      /\ HasWritten' <=> HasWritten
      /\ Lags' <=> at # "idle"
      /\ Lags => at # "idle"
      /\ ~(ToWrite /\ HasWritten)
  <2>1. Resolved' = Resolved
    BY DEF Resolved, Password, ChannelsOf
  <2>2. MayWrite' <=> MayWrite
    BY <2>1 DEF MayWrite, NewBudget
  <2>3. (Lags' <=> at # "idle") /\ (Lags => at # "idle")
    BY DEF Lags, Behind, LagsTogether
  <2>4. /\ ToWrite' <=> ToWrite
        /\ HasWritten' <=> HasWritten
        /\ ~(ToWrite /\ HasWritten)
    BY DEF ToWrite, HasWritten, TypeOK
  <2>. QED
    BY <2>2, <2>3, <2>4
<1>2. at = "idle" => ~ToWrite /\ ~HasWritten /\ pc # "returned"
  BY DEF TypeOK, ToWrite, HasWritten
<1>3. CASE at = "idle"
  <2>1. ~ToWrite' /\ ~HasWritten' /\ pc' # "returned" /\ ~Lags /\ ~Lags' /\ ~ToWrite
    BY <1>1, <1>2, <1>3
  <2>. QED
    BY <1>2, <1>3, <2>1, Zenon DEF Pending, Reserved, ReservedAfresh, Tight, Bit
<1>4. CASE at # "idle" /\ Lags
  BY <1>1, <1>4, Zenon DEF Pending, Reserved, ReservedAfresh, Tight, Bit
<1>5. CASE at # "idle" /\ ~Lags
  BY <1>1, <1>5, Zenon DEF Pending, Reserved, ReservedAfresh, Tight, Bit
<1>. QED
  BY <1>3, <1>4, <1>5

(***************************************************************************)
(* The user who rotates a Secret has paid for the attempts that follow,    *)
(* those of a step that has read it already as well (controller:136-146).  *)
(***************************************************************************)
LEMMA OthersRotate ==
  ASSUME TypeOK, UNCHANGED <<obj, pc, desired, write, at, node, stale>>
  PROVE  /\ Pending' = Pending /\ Reserved' = Reserved
         /\ Lags' <=> Lags
         /\ ReservedAfresh' <= Reserved'
<1>1. /\ ToWrite' <=> ToWrite
      /\ HasWritten' <=> HasWritten
      /\ Lags' <=> Lags
  BY DEF ToWrite, HasWritten, Lags
<1>2. Pending' = Pending /\ Reserved' = Reserved
  BY <1>1, Zenon DEF Pending, Reserved, Bit
<1>3. /\ ReservedAfresh' = 0 \/ (ToWrite /\ Lags)'
      /\ (ToWrite /\ Lags)' => Reserved' = 1
      /\ Reserved' \in {0, 1} /\ ReservedAfresh' \in {0, 1}
  BY Zenon DEF ReservedAfresh, Reserved, Bit
<1>4. ReservedAfresh' = 0 \/ Reserved' = 1
  BY <1>3
<1>. QED
  BY <1>1, <1>2, <1>3, <1>4

(***************************************************************************)
(* What another process does to this one's knowledge of the radio: it      *)
(* leaves the copy behind, or it leaves the password alone                 *)
(* (controller:208-217, converge.go:183-190).                              *)
(***************************************************************************)
LEMMA HashBesideAnother ==
  ASSUME Sound, Lags \/ HashSource, UNCHANGED <<pc, stepVars, at>>,
         stale' = Behind \/ (UNCHANGED stale /\ radio'.password = radio.password)
  PROVE  Lags' \/ HashSource'
<1>1. (at = "idle" => pc' = "idle") /\ (Lags => at # "idle")
  BY DEF Sound, TypeOK, LagsTogether, Lags
<1>2. CASE stale' = Behind
  <2>1. Lags' \/ pc' = "idle"
    BY <1>1, <1>2 DEF Behind, Lags
  <2>. QED
    BY <2>1 DEF HashSource
<1>3. CASE UNCHANGED stale /\ radio'.password = radio.password
  <2>1. Lags => Lags'
    BY <1>3 DEF Lags
  <2>2. HashSource => HashSource'
    BY <1>3 DEF HashSource, DeclaredOnRadio, stepVars, WriteOnlyPasswordHash, WriteOnlyDrift
  <2>. QED
    BY <2>1, <2>2
<1>. QED
  BY <1>2, <1>3

(***************************************************************************)
(* An operator that comes up on a node that is managed already.            *)
(***************************************************************************)
LEMMA StartsSound ==
  ASSUME ConvergeInit, desired = NoDesired,
         \E s \in Specs : obj = [NewObject(s, 1) EXCEPT !.finalizer = TRUE],
         secrets \in [mqtt : Passwords, psk : ChannelSets],
         edits = 0, uncounted = 0, orphaned = FALSE, cache = obj, queued = TRUE,
         timer = FALSE, at = "idle", node = None, gauge = None, stale = {},
         undelivered = FALSE, unacked = FALSE
  PROVE  /\ Sound /\ HashSource /\ HashIsOfRadioPassword /\ AttemptsAccounted
         /\ Pending = 0 /\ Reserved = 0 /\ ReservedAfresh = 0 /\ ~Tight /\ ~Lags /\ ~Owed
<1>1. /\ ZeroPrior \in Prior
      /\ BlankExport \in Export
      /\ ZeroOutcome \in Outcomes
  BY ConvergeAssumption
     DEF ZeroPrior, Prior, Hashes, BlankExport, Export, ZeroOutcome, Outcomes
<1>2. radio \in Radio
  BY ConvergeAssumption DEF ConvergeInit, Radio
<1>3. 0 \in 0..MaxFaults /\ 0 \in 0..MaxEdits
  BY ConvergeAssumption, NodeControllerAssumption
<1>4. ConvergeTypeOK
  BY <1>1, <1>2, <1>3 DEF ConvergeInit, ConvergeTypeOK, Phases
<1>5. NewStatus \in Status
  BY ConvergeAssumption DEF NewStatus, Status, Hashes
<1>6. obj \in Object /\ Managed(obj) /\ obj.status = NewStatus
  <2>1. PICK s \in Specs : obj = [NewObject(s, 1) EXCEPT !.finalizer = TRUE]
    OBVIOUS
  <2>2. obj = [exists |-> TRUE, deleting |-> FALSE, finalizer |-> TRUE,
               generation |-> 1, spec |-> s, status |-> NewStatus]
    BY <2>1 DEF NewObject
  <2>. QED
    BY <1>5, <2>2 DEF Object, Managed
<1>7. secrets \in [mqtt : Passwords \cup {None}, psk : ChannelSets \cup {None}]
  OBVIOUS
<1>8. pc = "idle" /\ tries = 0
  BY DEF ConvergeInit
<1>9. TypeOK
  BY <1>3, <1>4, <1>6, <1>7, <1>8 DEF TypeOK
<1>10. Sound /\ HashSource /\ HashIsOfRadioPassword /\ AttemptsAccounted
  BY <1>6, <1>8, <1>9 DEF Sound, StepMemory, CopiesFresh, LagsTogether, StaysManaged,
     HashSource, HashIsOfRadioPassword, AttemptsAccounted, NewStatus
<1>11. ~ToWrite /\ ~HasWritten /\ ~Lags /\ pc # "returned"
  BY <1>8 DEF ToWrite, HasWritten, Lags
<1>12. ~Full
  BY <1>6, ConvergeAssumption DEF Full, NewStatus
<1>13. ~Owed
  BY <1>12 DEF Owed
<1>14. Pending = 0 /\ Reserved = 0 /\ ReservedAfresh = 0 /\ ~Tight
  BY <1>11, Zenon DEF Pending, Reserved, ReservedAfresh, Tight, Bit
<1>. QED
  BY <1>10, <1>11, <1>13, <1>14
=============================================================================
