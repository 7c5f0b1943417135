-------------------------- MODULE TwoOperatorsProofs --------------------------
(***************************************************************************)
(* What two operators of one node keep, however their reconciles           *)
(* interleave, for every set of specs and Secrets and every bound.  Each   *)
(* step is a step of one instance of NodeController, so what               *)
(* NodeControllerProofs says of it is used through an instance of that     *)
(* module for each operator.                                               *)
(***************************************************************************)
EXTENDS TwoOperators, Integers, TLAPS

PA == INSTANCE NodeControllerProofs
       WITH pc <- pcA, desired <- desiredA, prior <- priorA, live <- liveA,
            identified <- identifiedA, write <- writeA, outcome <- outcomeA,
            cache <- cacheA, queued <- queuedA, timer <- timerA, at <- atA, node <- nodeA,
            gauge <- gaugeA, stale <- staleA, undelivered <- undeliveredA, unacked <- unackedA

PB == INSTANCE NodeControllerProofs
       WITH pc <- pcB, desired <- desiredB, prior <- priorB, live <- liveB,
            identified <- identifiedB, write <- writeB, outcome <- outcomeB,
            cache <- cacheB, queued <- queuedB, timer <- timerB, at <- atB, node <- nodeB,
            gauge <- gaugeB, stale <- staleB, undelivered <- undeliveredB, unacked <- unackedB

-----------------------------------------------------------------------------
(* The two instances of each operator *)

(***************************************************************************)
(* What the proofs of NodeController assume of its constants holds here.   *)
(***************************************************************************)
LEMMA Constants ==
  /\ MuteScalars \subseteq Scalars
  /\ None \notin Scalars \cup Passwords \cup ChannelSets
  /\ \A p \in Passwords : PA!Hash(p) # None
  /\ \A p \in Passwords : PB!Hash(p) # None
  /\ Exporters \subseteq BOOLEAN
  /\ MaxApplyAttempts \in Nat \ {0}
  /\ MaxFaults \in Nat
  /\ Specs \subseteq PA!SpecType
  /\ Specs \subseteq PB!SpecType
  /\ MaxEdits \in Nat
BY TwoOperatorsAssumption DEF A!Hash, PA!Hash, PB!Hash, A!SpecType, PA!SpecType, PB!SpecType

(***************************************************************************)
(* The actions of an operator, and what it starts from, are those the      *)
(* proofs are about (NodeController in both cases, definition by           *)
(* definition).                                                            *)
(***************************************************************************)
LEMMA SameActionsA ==
  /\ A!Reconcile <=> PA!Reconcile
  /\ A!Sync <=> PA!Sync
  /\ A!TimerFires <=> PA!TimerFires
  /\ A!Crash <=> PA!Crash
  /\ A!World <=> PA!World
  /\ A!RotateSecret <=> PA!RotateSecret
  /\ A!ConvergeInit <=> PA!ConvergeInit
  /\ A!NoDesired = PA!NoDesired
  /\ \A s, g : A!NewObject(s, g) = PA!NewObject(s, g)
BY Zenon
   DEF A!Reconcile, PA!Reconcile, A!ReportSecretFailure, PA!ReportSecretFailure,
       A!SecretFailureStatus, PA!SecretFailureStatus, A!FailureStatus, PA!FailureStatus,
       A!ConditionTypes, PA!ConditionTypes, A!ChannelsInSync, PA!ChannelsInSync,
       A!ChannelsMatch, PA!ChannelsMatch, A!True, PA!True, A!ReportFailure,
       PA!ReportFailure, A!FailureGauge, PA!FailureGauge, A!End, PA!End, A!Forget,
       PA!Forget, A!ZeroOutcome, PA!ZeroOutcome, A!BlankExport, PA!BlankExport, A!ZeroPrior,
       PA!ZeroPrior, A!NoDesired, PA!NoDesired, A!NotPersisted, PA!NotPersisted, A!Fault,
       PA!Fault, A!objVars, PA!objVars, A!Persisted, PA!Persisted, A!Store, PA!Store,
       A!PassesPredicate, PA!PassesPredicate, A!ReportDeviceFailure, PA!ReportDeviceFailure,
       A!DeviceFailureStatus, PA!DeviceFailureStatus, A!ReportOutcome, PA!ReportOutcome,
       A!Settle, PA!Settle, A!NewBudget, PA!NewBudget, A!SecretsFingerprint,
       PA!SecretsFingerprint, A!WriteOnlyPasswordHash, PA!WriteOnlyPasswordHash, A!Hash,
       PA!Hash, A!OutcomeGauge, PA!OutcomeGauge, A!OutcomeStatus, PA!OutcomeStatus,
       A!ConvergeStep, PA!ConvergeStep, A!operatorVars, PA!operatorVars, A!apiVars,
       PA!apiVars, A!Step, PA!Step, A!Reboot, PA!Reboot, A!AppliedOutcome,
       PA!AppliedOutcome, A!ChannelsUnknown, PA!ChannelsUnknown, A!ScalarConverged,
       PA!ScalarConverged, A!WriteOnlyDrift, PA!WriteOnlyDrift, A!Seen, PA!Seen, A!Carry,
       PA!Carry, A!Return, PA!Return, A!ApplyFailed, PA!ApplyFailed, A!stepVars,
       PA!stepVars, A!AfterWrite, PA!AfterWrite, A!Written, PA!Written, A!Channelled,
       PA!Channelled, A!Configured, PA!Configured, A!ApplyDropped, PA!ApplyDropped,
       A!DroppedApplyOutcome, PA!DroppedApplyOutcome, A!DeviceDrop, PA!DeviceDrop,
       A!ApplyAcked, PA!ApplyAcked, A!CompareWrites, PA!CompareWrites, A!Surface,
       PA!Surface, A!BudgetSpent, PA!BudgetSpent, A!Drifted, PA!Drifted, A!Converged,
       PA!Converged, A!ChannelsConverged, PA!ChannelsConverged, A!CompareGivesUp,
       PA!CompareGivesUp, A!DegradedOutcome, PA!DegradedOutcome, A!CompareUnobserved,
       PA!CompareUnobserved, A!UnobservedOutcome, PA!UnobservedOutcome, A!CompareInSync,
       PA!CompareInSync, A!UnreachableOutcome, PA!UnreachableOutcome, A!ReadyOutcome,
       PA!ReadyOutcome, A!InfoRead, PA!InfoRead, A!InfoFailed, PA!InfoFailed, A!Error,
       PA!Error, A!InfoDropped, PA!InfoDropped, A!ExportRead, PA!ExportRead, A!Exported,
       PA!Exported, A!ExportFailed, PA!ExportFailed, A!ExportDropped, PA!ExportDropped,
       A!ExportUnsupported, PA!ExportUnsupported, A!UnsupportedOutcome,
       PA!UnsupportedOutcome, A!SecretUnread, PA!SecretUnread, A!history, PA!history,
       A!ReadChannelKeys, PA!ReadChannelKeys, A!PriorOf, PA!PriorOf, A!Begin, PA!Begin,
       A!ChannelsOf, PA!ChannelsOf, A!ReadPassword, PA!ReadPassword, A!Password,
       PA!Password, A!UpdateUnanswered, PA!UpdateUnanswered, A!UpdateFinalizer,
       PA!UpdateFinalizer, A!WithFinalizer, PA!WithFinalizer, A!UpdateRefused,
       PA!UpdateRefused, A!Idle, PA!Idle, A!AddFinalizer, PA!AddFinalizer, A!convergeVars,
       PA!convergeVars, A!RemoveFinalizer, PA!RemoveFinalizer, A!GetManaged, PA!GetManaged,
       A!Get, PA!Get, A!GetNew, PA!GetNew, A!GetDeleted, PA!GetDeleted, A!GetNotFound,
       PA!GetNotFound, A!Sync, PA!Sync, A!TimerFires, PA!TimerFires, A!Crash, PA!Crash,
       A!World, PA!World, A!ExternalEdit, PA!ExternalEdit, A!RadioReturns, PA!RadioReturns,
       A!RadioFails, PA!RadioFails, A!RotateSecret, PA!RotateSecret, A!Edit, PA!Edit,
       A!ConvergeInit, PA!ConvergeInit, A!NewObject, PA!NewObject, A!NewStatus, PA!NewStatus

LEMMA SameActionsB ==
  /\ B!Reconcile <=> PB!Reconcile
  /\ B!Sync <=> PB!Sync
  /\ B!TimerFires <=> PB!TimerFires
  /\ B!Crash <=> PB!Crash
  /\ B!World <=> PB!World
  /\ B!RotateSecret <=> PB!RotateSecret
  /\ B!ConvergeInit <=> PB!ConvergeInit
  /\ B!NoDesired = PB!NoDesired
  /\ \A s, g : B!NewObject(s, g) = PB!NewObject(s, g)
BY Zenon
   DEF B!Reconcile, PB!Reconcile, B!ReportSecretFailure, PB!ReportSecretFailure,
       B!SecretFailureStatus, PB!SecretFailureStatus, B!FailureStatus, PB!FailureStatus,
       B!ConditionTypes, PB!ConditionTypes, B!ChannelsInSync, PB!ChannelsInSync,
       B!ChannelsMatch, PB!ChannelsMatch, B!True, PB!True, B!ReportFailure,
       PB!ReportFailure, B!FailureGauge, PB!FailureGauge, B!End, PB!End, B!Forget,
       PB!Forget, B!ZeroOutcome, PB!ZeroOutcome, B!BlankExport, PB!BlankExport, B!ZeroPrior,
       PB!ZeroPrior, B!NoDesired, PB!NoDesired, B!NotPersisted, PB!NotPersisted, B!Fault,
       PB!Fault, B!objVars, PB!objVars, B!Persisted, PB!Persisted, B!Store, PB!Store,
       B!PassesPredicate, PB!PassesPredicate, B!ReportDeviceFailure, PB!ReportDeviceFailure,
       B!DeviceFailureStatus, PB!DeviceFailureStatus, B!ReportOutcome, PB!ReportOutcome,
       B!Settle, PB!Settle, B!NewBudget, PB!NewBudget, B!SecretsFingerprint,
       PB!SecretsFingerprint, B!WriteOnlyPasswordHash, PB!WriteOnlyPasswordHash, B!Hash,
       PB!Hash, B!OutcomeGauge, PB!OutcomeGauge, B!OutcomeStatus, PB!OutcomeStatus,
       B!ConvergeStep, PB!ConvergeStep, B!operatorVars, PB!operatorVars, B!apiVars,
       PB!apiVars, B!Step, PB!Step, B!Reboot, PB!Reboot, B!AppliedOutcome,
       PB!AppliedOutcome, B!ChannelsUnknown, PB!ChannelsUnknown, B!ScalarConverged,
       PB!ScalarConverged, B!WriteOnlyDrift, PB!WriteOnlyDrift, B!Seen, PB!Seen, B!Carry,
       PB!Carry, B!Return, PB!Return, B!ApplyFailed, PB!ApplyFailed, B!stepVars,
       PB!stepVars, B!AfterWrite, PB!AfterWrite, B!Written, PB!Written, B!Channelled,
       PB!Channelled, B!Configured, PB!Configured, B!ApplyDropped, PB!ApplyDropped,
       B!DroppedApplyOutcome, PB!DroppedApplyOutcome, B!DeviceDrop, PB!DeviceDrop,
       B!ApplyAcked, PB!ApplyAcked, B!CompareWrites, PB!CompareWrites, B!Surface,
       PB!Surface, B!BudgetSpent, PB!BudgetSpent, B!Drifted, PB!Drifted, B!Converged,
       PB!Converged, B!ChannelsConverged, PB!ChannelsConverged, B!CompareGivesUp,
       PB!CompareGivesUp, B!DegradedOutcome, PB!DegradedOutcome, B!CompareUnobserved,
       PB!CompareUnobserved, B!UnobservedOutcome, PB!UnobservedOutcome, B!CompareInSync,
       PB!CompareInSync, B!UnreachableOutcome, PB!UnreachableOutcome, B!ReadyOutcome,
       PB!ReadyOutcome, B!InfoRead, PB!InfoRead, B!InfoFailed, PB!InfoFailed, B!Error,
       PB!Error, B!InfoDropped, PB!InfoDropped, B!ExportRead, PB!ExportRead, B!Exported,
       PB!Exported, B!ExportFailed, PB!ExportFailed, B!ExportDropped, PB!ExportDropped,
       B!ExportUnsupported, PB!ExportUnsupported, B!UnsupportedOutcome,
       PB!UnsupportedOutcome, B!SecretUnread, PB!SecretUnread, B!history, PB!history,
       B!ReadChannelKeys, PB!ReadChannelKeys, B!PriorOf, PB!PriorOf, B!Begin, PB!Begin,
       B!ChannelsOf, PB!ChannelsOf, B!ReadPassword, PB!ReadPassword, B!Password,
       PB!Password, B!UpdateUnanswered, PB!UpdateUnanswered, B!UpdateFinalizer,
       PB!UpdateFinalizer, B!WithFinalizer, PB!WithFinalizer, B!UpdateRefused,
       PB!UpdateRefused, B!Idle, PB!Idle, B!AddFinalizer, PB!AddFinalizer, B!convergeVars,
       PB!convergeVars, B!RemoveFinalizer, PB!RemoveFinalizer, B!GetManaged, PB!GetManaged,
       B!Get, PB!Get, B!GetNew, PB!GetNew, B!GetDeleted, PB!GetDeleted, B!GetNotFound,
       PB!GetNotFound, B!Sync, PB!Sync, B!TimerFires, PB!TimerFires, B!Crash, PB!Crash,
       B!World, PB!World, B!ExternalEdit, PB!ExternalEdit, B!RadioReturns, PB!RadioReturns,
       B!RadioFails, PB!RadioFails, B!RotateSecret, PB!RotateSecret, B!Edit, PB!Edit,
       B!ConvergeInit, PB!ConvergeInit, B!NewObject, PB!NewObject, B!NewStatus, PB!NewStatus

(***************************************************************************)
(* What both see of the API server and the radio is the same.              *)
(***************************************************************************)
LEMMA SameView ==
  /\ PA!Common <=> PB!Common
  /\ PA!Common' <=> PB!Common'
  /\ PA!Owed <=> PB!Owed
  /\ PA!Owed' <=> PB!Owed'
  /\ PA!AttemptsAccounted <=> PB!AttemptsAccounted
  /\ PA!AttemptsAccounted' <=> PB!AttemptsAccounted'
<1>. USE DEF PA!Common, PA!Radio, PA!Object, PA!Status, PA!Hashes, PA!Hash,
             PA!ConditionTypes, PA!Managed, PA!Owed, PA!Full, PA!NewBudget,
             PA!SecretsFingerprint, PA!WriteOnlyPasswordHash, PA!Bound, PA!Password,
             PA!ChannelsOf, PA!AttemptsAccounted
<1>. USE DEF PB!Common, PB!Radio, PB!Object, PB!Status, PB!Hashes, PB!Hash,
             PB!ConditionTypes, PB!Managed, PB!Owed, PB!Full, PB!NewBudget,
             PB!SecretsFingerprint, PB!WriteOnlyPasswordHash, PB!Bound, PB!Password,
             PB!ChannelsOf, PB!AttemptsAccounted
<1>1. /\ PA!Common <=> PB!Common
      /\ PA!Common' <=> PB!Common'
  BY Zenon
<1>2. /\ PA!Owed <=> PB!Owed
      /\ PA!Owed' <=> PB!Owed'
  BY Zenon
<1>3. /\ PA!AttemptsAccounted <=> PB!AttemptsAccounted
      /\ PA!AttemptsAccounted' <=> PB!AttemptsAccounted'
  BY Zenon
<1>. QED
  BY <1>1, <1>2, <1>3, Zenon

(***************************************************************************)
(* A step of one operator, as its own proofs and as the other sees it.     *)
(***************************************************************************)
StepOfA == PA!Own /\ WatchedByB
StepOfB == PB!Own /\ WatchedByA

\* The radio on its own, a user who rotates a Secret, or nothing.
StepOfOthers ==
  /\ \/ PA!RotateSecret
     \/ /\ PA!World
        /\ UNCHANGED <<PA!apiVars, PA!operatorVars, staleA, edits, PA!history>>
     \/ UNCHANGED PA!vars
  /\ \/ PB!RotateSecret
     \/ /\ PB!World
        /\ UNCHANGED <<PB!apiVars, PB!operatorVars, staleB, edits, PB!history>>
     \/ UNCHANGED PB!vars

LEMMA OperatorSteps ==
  /\ OperatorA => StepOfA
  /\ OperatorB => StepOfB
BY Zenon, SameActionsA, SameActionsB
   DEF OperatorA, OperatorB, StepOfA, StepOfB, PA!Own, PB!Own

SoundBoth == PA!Sound /\ PB!Sound

LEMMA OthersStep == SoundBoth /\ [Others]_vars => StepOfOthers
<1>0. UNCHANGED vars => StepOfOthers
  BY DEF StepOfOthers, vars, shared, ownA, ownB, seenA, seenB,
         PA!vars, PA!convergeVars, PA!apiVars, PA!objVars, PA!operatorVars, PA!history,
         PB!vars, PB!convergeVars, PB!apiVars, PB!objVars, PB!operatorVars, PB!history
<1> SUFFICES ASSUME SoundBoth, Others PROVE StepOfOthers
  BY <1>0
<1>1. UNCHANGED <<obj, uncounted, orphaned, staleA, undeliveredA, ownA>>
  BY DEF Others, A!RotateSecret, A!Edit, A!objVars, A!stepVars, A!operatorVars, A!history,
         ownA, seenA
<1>2. UNCHANGED <<staleB, undeliveredB, ownB>>
  <2>1. ~StoredByA
    BY <1>1 DEF StoredByA
  <2>2. undeliveredB \in BOOLEAN
    BY DEF SoundBoth, PB!Sound, PB!TypeOK
  <2>3. undeliveredB' = undeliveredB
    BY <2>1, <2>2 DEF Others, WatchedByB
  <2>. QED
    BY <2>1, <2>3 DEF Others, WatchedByB
<1>3. CASE A!RotateSecret
  <2>1. PA!RotateSecret
    BY <1>3, SameActionsA
  <2>2. PB!RotateSecret
    BY <1>1, <1>2, <1>3
       DEF A!RotateSecret, A!Edit, A!objVars, A!history, PB!RotateSecret, PB!Edit, PB!objVars,
           PB!stepVars, PB!operatorVars, PB!history, ownB
  <2>. QED
    BY <2>1, <2>2 DEF StepOfOthers
<1>4. CASE A!World /\ UNCHANGED <<obj, secrets, edits, uncounted, orphaned, ownA, seenA>>
  <2>1. PA!World
    BY <1>4, SameActionsA
  <2>2. PB!World
    BY <1>2, <1>4, Zenon
       DEF A!World, A!RadioFails, A!RadioReturns, A!ExternalEdit, A!Fault, PB!World,
           PB!RadioFails, PB!RadioReturns, PB!ExternalEdit, PB!Fault, PB!stepVars, ownB
  <2>3. /\ UNCHANGED <<PA!apiVars, PA!operatorVars, staleA, edits, PA!history>>
        /\ UNCHANGED <<PB!apiVars, PB!operatorVars, staleB, edits, PB!history>>
    BY <1>1, <1>2, <1>4
       DEF PA!apiVars, PA!objVars, PA!operatorVars, PA!history, PB!apiVars, PB!objVars,
           PB!operatorVars, PB!history, ownA, ownB
  <2>. QED
    BY <2>1, <2>2, <2>3 DEF StepOfOthers
<1>. QED
  BY <1>3, <1>4 DEF Others

-----------------------------------------------------------------------------
(* What each operator keeps beside the other *)

(***************************************************************************)
(* What B sees of a step of A: nothing of its own changes, and a version   *)
(* stored by A leaves its copies behind (controller:208-217).              *)
(***************************************************************************)
LEMMA SeenByB ==
  ASSUME SoundBoth, StepOfA
  PROVE  /\ UNCHANGED <<pcB, PB!stepVars, cacheB, queuedB, timerB, atB, nodeB, gaugeB, unackedB>>
         /\ IF PA!Stores THEN staleB' = PB!Behind
                         ELSE UNCHANGED <<staleB, obj>> /\ uncounted' >= uncounted
         /\ radio'.password = radio.password \/ (unackedA' /\ ~PA!Stores)
         /\ ~PA!Stores => (unackedA => unackedA')
<1>1. /\ radio'.password = radio.password \/ (unackedA' /\ ~PA!Stores)
      /\ ~PA!Stores => UNCHANGED obj /\ uncounted' >= uncounted /\ (unackedA => unackedA')
  BY Constants, PA!HistoryOfOwn DEF SoundBoth, StepOfA, PA!Sound
<1>2. /\ UNCHANGED <<pcB, PB!stepVars, cacheB, queuedB, timerB, atB, nodeB, gaugeB, unackedB>>
      /\ staleB' = IF PA!Stores THEN PB!Behind ELSE staleB
  BY DEF StepOfA, WatchedByB, StoredByA, PA!Stores, Behind, PB!Behind, ownB, PB!stepVars
<1>. QED
  BY <1>1, <1>2

(***************************************************************************)
(* What A sees of a step of B: nothing of its own changes, and a version   *)
(* stored by B leaves its copies behind (controller:208-217).              *)
(***************************************************************************)
LEMMA SeenByA ==
  ASSUME SoundBoth, StepOfB
  PROVE  /\ UNCHANGED <<pcA, PA!stepVars, cacheA, queuedA, timerA, atA, nodeA, gaugeA, unackedA>>
         /\ IF PB!Stores THEN staleA' = PA!Behind
                         ELSE UNCHANGED <<staleA, obj>> /\ uncounted' >= uncounted
         /\ radio'.password = radio.password \/ (unackedB' /\ ~PB!Stores)
         /\ ~PB!Stores => (unackedB => unackedB')
<1>1. /\ radio'.password = radio.password \/ (unackedB' /\ ~PB!Stores)
      /\ ~PB!Stores => UNCHANGED obj /\ uncounted' >= uncounted /\ (unackedB => unackedB')
  BY Constants, PB!HistoryOfOwn DEF SoundBoth, StepOfB, PB!Sound
<1>2. /\ UNCHANGED <<pcA, PA!stepVars, cacheA, queuedA, timerA, atA, nodeA, gaugeA, unackedA>>
      /\ staleA' = IF PB!Stores THEN PA!Behind ELSE staleA
  BY DEF StepOfB, WatchedByA, StoredByB, PB!Stores, Behind, PA!Behind, ownA, PA!stepVars
<1>. QED
  BY <1>1, <1>2

LEMMA SoundAfterA == SoundBoth /\ StepOfA => SoundBoth'
<1> SUFFICES ASSUME SoundBoth, StepOfA PROVE SoundBoth'
  OBVIOUS
<1>1. PA!Sound'
  BY Constants, PA!OwnKeeps DEF SoundBoth, StepOfA
<1>2. PB!Common'
  BY <1>1, SameView
     DEF PA!Sound, PA!Common, PA!TypeOK, PA!ConvergeTypeOK, PA!StaysManaged
<1>3. undeliveredB' \in BOOLEAN /\ unackedB' \in BOOLEAN
  BY DEF StepOfA, WatchedByB, ownB, SoundBoth, PB!Sound, PB!TypeOK, B!PassesPredicate
<1>4. PB!Sound'
  BY <1>2, <1>3, Constants, SeenByB, PB!BesideAnother DEF SoundBoth
<1>. QED
  BY <1>1, <1>4 DEF SoundBoth

LEMMA SoundAfterB == SoundBoth /\ StepOfB => SoundBoth'
<1> SUFFICES ASSUME SoundBoth, StepOfB PROVE SoundBoth'
  OBVIOUS
<1>1. PB!Sound'
  BY Constants, PB!OwnKeeps DEF SoundBoth, StepOfB
<1>2. PA!Common'
  BY <1>1, SameView
     DEF PB!Sound, PB!Common, PB!TypeOK, PB!ConvergeTypeOK, PB!StaysManaged
<1>3. undeliveredA' \in BOOLEAN /\ unackedA' \in BOOLEAN
  BY DEF StepOfB, WatchedByA, ownA, SoundBoth, PA!Sound, PA!TypeOK, A!PassesPredicate
<1>4. PA!Sound'
  BY <1>2, <1>3, Constants, SeenByA, PA!BesideAnother DEF SoundBoth
<1>. QED
  BY <1>1, <1>4 DEF SoundBoth

-----------------------------------------------------------------------------
(* The password no export shows *)

(***************************************************************************)
(* What an operator believes of the radio's password holds as long as the  *)
(* other has written none that no status acknowledges, or its status write *)
(* is bound to be refused (converge.go:183-190, 271-299;                   *)
(* controller:208-217).                                                    *)
(***************************************************************************)
HashKnown ==
  /\ unackedB \/ PA!Lags \/ PA!HashSource
  /\ unackedA \/ PB!Lags \/ PB!HashSource
  /\ HashIsOfRadioPassword

LEMMA HashAfterA == SoundBoth /\ HashKnown /\ StepOfA => HashKnown'
<1> SUFFICES ASSUME SoundBoth, HashKnown, StepOfA PROVE HashKnown'
  OBVIOUS
<1>1. unackedB' = unackedB
  BY SeenByB
<1>2. unackedB' \/ PA!Lags' \/ PA!HashSource'
  BY <1>1, Constants, PA!NextHashSourceOrLags DEF HashKnown, SoundBoth, PA!Sound, StepOfA
<1>3. unackedA' \/ PB!Lags' \/ PB!HashSource'
  <2>1. CASE unackedA \/ PB!Lags \/ PB!HashSource
    <3>1. unackedA' \/ staleB' = PB!Behind
            \/ (UNCHANGED staleB /\ radio'.password = radio.password /\ ~unackedA)
      BY SeenByB
    <3>2. PB!Lags \/ PB!HashSource \/ unackedA
      BY <2>1
    <3>3. CASE unackedA
      <4>1. unackedA' \/ staleB' = PB!Behind
        BY <3>1, <3>3
      <4>2. staleB' = PB!Behind => PB!Lags' \/ PB!HashSource'
        BY SeenByB DEF PB!Behind, PB!Lags, PB!HashSource, SoundBoth, PB!Sound, PB!TypeOK
      <4>. QED
        BY <4>1, <4>2
    <3>4. CASE ~unackedA
      BY <3>1, <3>2, <3>4, SeenByB, Constants, PB!HashBesideAnother DEF SoundBoth
    <3>. QED
      BY <3>3, <3>4
  <2>. QED
    BY <2>1 DEF HashKnown
<1>4. HashIsOfRadioPassword'
  <2>1. CASE unackedB
    BY <1>1, <2>1 DEF HashIsOfRadioPassword
  <2>2. CASE ~unackedB
    <3>1. PA!HashIsOfRadioPassword
      BY <2>2 DEF HashKnown, HashIsOfRadioPassword, PA!HashIsOfRadioPassword, A!Hash, PA!Hash
    <3>2. PA!HashIsOfRadioPassword'
      BY <2>2, <3>1, Constants, PA!NextHash
         DEF HashKnown, SoundBoth, PA!Sound, StepOfA, PA!Own, PA!Next
    <3>. QED
      BY <3>2 DEF HashIsOfRadioPassword, PA!HashIsOfRadioPassword, A!Hash, PA!Hash
  <2>. QED
    BY <2>1, <2>2
<1>. QED
  BY <1>2, <1>3, <1>4 DEF HashKnown

LEMMA HashAfterB == SoundBoth /\ HashKnown /\ StepOfB => HashKnown'
<1> SUFFICES ASSUME SoundBoth, HashKnown, StepOfB PROVE HashKnown'
  OBVIOUS
<1>1. unackedA' = unackedA
  BY SeenByA
<1>2. unackedA' \/ PB!Lags' \/ PB!HashSource'
  BY <1>1, Constants, PB!NextHashSourceOrLags DEF HashKnown, SoundBoth, PB!Sound, StepOfB
<1>3. unackedB' \/ PA!Lags' \/ PA!HashSource'
  <2>1. CASE unackedB \/ PA!Lags \/ PA!HashSource
    <3>1. unackedB' \/ staleA' = PA!Behind
            \/ (UNCHANGED staleA /\ radio'.password = radio.password /\ ~unackedB)
      BY SeenByA
    <3>2. PA!Lags \/ PA!HashSource \/ unackedB
      BY <2>1
    <3>3. CASE unackedB
      <4>1. unackedB' \/ staleA' = PA!Behind
        BY <3>1, <3>3
      <4>2. staleA' = PA!Behind => PA!Lags' \/ PA!HashSource'
        BY SeenByA DEF PA!Behind, PA!Lags, PA!HashSource, SoundBoth, PA!Sound, PA!TypeOK
      <4>. QED
        BY <4>1, <4>2
    <3>4. CASE ~unackedB
      BY <3>1, <3>2, <3>4, SeenByA, Constants, PA!HashBesideAnother DEF SoundBoth
    <3>. QED
      BY <3>3, <3>4
  <2>. QED
    BY <2>1 DEF HashKnown
<1>4. HashIsOfRadioPassword'
  <2>1. CASE unackedA
    BY <1>1, <2>1 DEF HashIsOfRadioPassword
  <2>2. CASE ~unackedA
    <3>1. PB!HashIsOfRadioPassword
      BY <2>2 DEF HashKnown, HashIsOfRadioPassword, PB!HashIsOfRadioPassword, A!Hash, PB!Hash
    <3>2. PB!HashIsOfRadioPassword'
      BY <2>2, <3>1, Constants, PB!NextHash
         DEF HashKnown, SoundBoth, PB!Sound, StepOfB, PB!Own, PB!Next
    <3>. QED
      BY <3>2 DEF HashIsOfRadioPassword, PB!HashIsOfRadioPassword, A!Hash, PB!Hash
  <2>. QED
    BY <2>1, <2>2
<1>. QED
  BY <1>2, <1>3, <1>4 DEF HashKnown

LEMMA SoundAfterOthers == SoundBoth /\ StepOfOthers => SoundBoth'
BY Constants, PA!OthersKeep, PB!OthersKeep DEF SoundBoth, StepOfOthers

(***************************************************************************)
(* What both see of a rotation, of the radio or of nothing at all.         *)
(***************************************************************************)
LEMMA SeenByOthers ==
  ASSUME SoundBoth, StepOfOthers
  PROVE  /\ UNCHANGED <<obj, uncounted, tries>>
         /\ UNCHANGED <<pcA, desiredA, writeA, PA!stepVars, atA, nodeA, staleA, unackedA>>
         /\ UNCHANGED <<pcB, desiredB, writeB, PB!stepVars, atB, nodeB, staleB, unackedB>>
         /\ radio'.password = radio.password
         /\ \/ PA!RotateSecret
            \/ UNCHANGED <<secrets, edits>> /\ faults' \in {faults, faults + 1}
<1>1. CASE PA!RotateSecret /\ PB!RotateSecret
  BY <1>1 DEF PA!RotateSecret, PA!Edit, PA!objVars, PA!operatorVars, PA!history, PA!stepVars,
              PB!RotateSecret, PB!Edit, PB!objVars, PB!operatorVars, PB!history, PB!stepVars
<1>2. PA!World => /\ radio'.password = radio.password
                  /\ UNCHANGED <<pcA, PA!stepVars, tries>>
                  /\ faults' \in {faults, faults + 1}
  <2>1. PA!World => /\ radio'.password = radio.password
                    /\ UNCHANGED <<pcA, PA!stepVars, tries>>
    BY Constants, PA!WorldKeeps DEF SoundBoth, PA!Sound, PA!TypeOK
  <2>2. PA!World => faults' \in {faults, faults + 1}
    BY Constants, PA!WorldFaults DEF PA!Fault
  <2>. QED
    BY <2>1, <2>2
<1>3. PB!World => UNCHANGED <<pcB, PB!stepVars>>
  BY Constants, PB!WorldKeeps DEF SoundBoth, PB!Sound, PB!TypeOK
<1>. QED
  BY <1>1, <1>2, <1>3
     DEF StepOfOthers, PA!RotateSecret, PA!Edit, PA!vars, PA!convergeVars, PA!stepVars,
         PA!apiVars, PA!objVars, PA!operatorVars, PA!history, PB!RotateSecret, PB!Edit,
         PB!vars, PB!convergeVars, PB!stepVars, PB!apiVars, PB!objVars, PB!operatorVars,
         PB!history

LEMMA HashAfterOthers == SoundBoth /\ HashKnown /\ StepOfOthers => HashKnown'
<1> SUFFICES ASSUME SoundBoth, HashKnown, StepOfOthers PROVE HashKnown'
  OBVIOUS
<1>1. /\ UNCHANGED <<obj, pcA, PA!stepVars, atA, staleA, unackedA>>
      /\ UNCHANGED <<pcB, PB!stepVars, atB, staleB, unackedB>>
      /\ radio'.password = radio.password
  BY SeenByOthers
<1>2. /\ unackedB' \/ PA!Lags' \/ PA!HashSource'
      /\ unackedA' \/ PB!Lags' \/ PB!HashSource'
  BY <1>1, Constants, PA!HashBesideAnother, PB!HashBesideAnother DEF HashKnown, SoundBoth
<1>3. HashIsOfRadioPassword'
  BY <1>1 DEF HashKnown, HashIsOfRadioPassword, A!Hash
<1>. QED
  BY <1>2, <1>3 DEF HashKnown

LEMMA Starts ==
  ASSUME Init
  PROVE  /\ SoundBoth /\ HashKnown /\ PA!AttemptsAccounted
         /\ PA!Pending = 0 /\ PA!Reserved = 0 /\ PA!ReservedAfresh = 0
         /\ PB!Pending = 0 /\ PB!Reserved = 0 /\ PB!ReservedAfresh = 0
         /\ ~PA!Tight /\ ~PB!Tight /\ ~PA!Lags /\ ~PB!Lags /\ ~PA!Owed
<1>1. PA!ConvergeInit /\ PB!ConvergeInit
  BY SameActionsA, SameActionsB DEF Init
<1>2. desiredA = PA!NoDesired /\ desiredB = PB!NoDesired
  BY SameActionsA, SameActionsB DEF Init
<1>3. PICK s \in Specs : obj = [A!NewObject(s, 1) EXCEPT !.finalizer = TRUE]
  BY DEF Init
<1>4. /\ obj = [PA!NewObject(s, 1) EXCEPT !.finalizer = TRUE]
      /\ obj = [PB!NewObject(s, 1) EXCEPT !.finalizer = TRUE]
  BY <1>3, Zenon DEF A!NewObject, PA!NewObject, PB!NewObject, A!NewStatus, PA!NewStatus,
                     PB!NewStatus, A!ConditionTypes, PA!ConditionTypes, PB!ConditionTypes
<1>5. /\ PA!Sound /\ PA!HashSource /\ PA!HashIsOfRadioPassword /\ PA!AttemptsAccounted
      /\ PA!Pending = 0 /\ PA!Reserved = 0 /\ PA!ReservedAfresh = 0
      /\ ~PA!Tight /\ ~PA!Lags /\ ~PA!Owed
  BY <1>1, <1>2, <1>4, Constants, PA!StartsSound DEF Init
<1>6. /\ PB!Sound /\ PB!HashSource
      /\ PB!Pending = 0 /\ PB!Reserved = 0 /\ PB!ReservedAfresh = 0
      /\ ~PB!Tight /\ ~PB!Lags
  BY <1>1, <1>2, <1>4, Constants, PB!StartsSound DEF Init
<1>7. HashIsOfRadioPassword
  BY <1>5 DEF PA!HashIsOfRadioPassword, HashIsOfRadioPassword, A!Hash, PA!Hash
<1>. QED
  BY <1>5, <1>6, <1>7 DEF SoundBoth, HashKnown

LEMMA NextCases ==
  ASSUME SoundBoth, [Next]_vars
  PROVE  StepOfA \/ StepOfB \/ StepOfOthers
BY OperatorSteps, OthersStep DEF Next

(***************************************************************************)
(* Neither operator, nor the other behind its back, disturbs what the      *)
(* other's proofs rest on.                                                 *)
(***************************************************************************)
THEOREM BothAreSound == Spec => []SoundBoth
<1>1. Init => SoundBoth
  BY Starts
<1>2. SoundBoth /\ [Next]_vars => SoundBoth'
  BY NextCases, SoundAfterA, SoundAfterB, SoundAfterOthers
<1>. QED
  BY <1>1, <1>2, PTL DEF Spec

(***************************************************************************)
(* The stored hash is of the password on the radio, or empty, unless one   *)
(* of the two has written a password that no status acknowledges           *)
(* (converge.go:183-190, 271-299).                                         *)
(***************************************************************************)
THEOREM HashIsTrueForBoth == Spec => []HashIsOfRadioPassword
<1>1. Init => HashKnown
  BY Starts
<1>2. SoundBoth /\ HashKnown /\ [Next]_vars => HashKnown'
  BY NextCases, HashAfterA, HashAfterB, HashAfterOthers
<1>3. HashKnown => HashIsOfRadioPassword
  BY DEF HashKnown
<1>. QED
  BY <1>1, <1>2, <1>3, BothAreSound, PTL DEF Spec

-----------------------------------------------------------------------------
(* The budget both draw on *)

(***************************************************************************)
(* What is neither counted nor about to be counted is paid for.  A copy    *)
(* that lags has an apply reserved, which pays for itself when the status  *)
(* write is refused; and while the status may start a budget afresh, one   *)
(* more is kept back for it (controller:136-146, 208-217;                  *)
(* converge.go:246-310).                                                   *)
(***************************************************************************)
Lag == PA!Bit(PA!Lags \/ PB!Lags)
Funds == refused + faults + edits + Lag
Debt == uncounted - PA!Pending - PB!Pending
Afresh == PA!Owed \/ PA!Tight \/ PB!Tight

DebtCovered ==
  /\ refused \in Nat
  /\ Debt >= 0
  /\ Debt + PA!Reserved + PB!Reserved <= Funds
  /\ Afresh => Debt + PA!ReservedAfresh + PB!ReservedAfresh < Funds

LEMMA Numbers ==
  ASSUME SoundBoth
  PROVE  /\ uncounted \in Nat /\ faults \in Nat /\ edits \in Nat /\ tries \in Nat
         /\ Lag \in {0, 1} /\ Lag' \in {0, 1}
         /\ PA!Pending \in {0, 1} /\ PA!Reserved \in {0, 1} /\ PA!ReservedAfresh \in {0, 1}
         /\ PB!Pending \in {0, 1} /\ PB!Reserved \in {0, 1} /\ PB!ReservedAfresh \in {0, 1}
         /\ PA!Pending' \in {0, 1} /\ PA!Reserved' \in {0, 1} /\ PA!ReservedAfresh' \in {0, 1}
         /\ PB!Pending' \in {0, 1} /\ PB!Reserved' \in {0, 1} /\ PB!ReservedAfresh' \in {0, 1}
<1>1. uncounted \in Nat /\ faults \in Nat /\ edits \in Nat /\ tries \in Nat
  BY Constants DEF SoundBoth, PA!Sound, PA!TypeOK, PA!ConvergeTypeOK
<1>2. Lag \in {0, 1} /\ Lag' \in {0, 1}
  BY Zenon DEF Lag, PA!Bit
<1>3. /\ PA!Pending \in {0, 1} /\ PA!Reserved \in {0, 1} /\ PA!ReservedAfresh \in {0, 1}
      /\ PA!Pending' \in {0, 1} /\ PA!Reserved' \in {0, 1} /\ PA!ReservedAfresh' \in {0, 1}
  BY Zenon DEF PA!Pending, PA!Reserved, PA!ReservedAfresh, PA!Bit
<1>4. /\ PB!Pending \in {0, 1} /\ PB!Reserved \in {0, 1} /\ PB!ReservedAfresh \in {0, 1}
      /\ PB!Pending' \in {0, 1} /\ PB!Reserved' \in {0, 1} /\ PB!ReservedAfresh' \in {0, 1}
  BY Zenon DEF PB!Pending, PB!Reserved, PB!ReservedAfresh, PB!Bit
<1>. QED
  BY <1>1, <1>2, <1>3, <1>4

(***************************************************************************)
(* Steps of A that store nothing are paid for, and B sees nothing of them. *)
(***************************************************************************)
LEMMA DebtWithoutStoreA ==
  ASSUME SoundBoth, DebtCovered, OperatorA, ~PA!Stores
  PROVE  DebtCovered'
<1>1. StepOfA /\ SoundBoth'
  BY OperatorSteps, SoundAfterA
<1>2. UNCHANGED <<obj, secrets, edits>>
  BY <1>1, Constants, PA!OnlyReportsStore
     DEF SoundBoth, PA!Sound, StepOfA, PA!Stores
<1>3. PICK q \in {0, 1} : /\ PA!PaidWith(q)
                          /\ refused' \in Nat
                          /\ refused' + faults' = refused + faults + q + PA!Bit(PA!LagEnds)
  <2>0. /\ refused \in Nat /\ faults \in Nat /\ faults' \in Nat
        /\ PA!Bit(PA!LagEnds) \in {0, 1}
    <3>1. PA!Bit(PA!LagEnds) \in {0, 1}
      BY Zenon DEF PA!Bit
    <3>. QED
      BY <1>1, <3>1, Constants
         DEF DebtCovered, SoundBoth, PA!Sound, PA!TypeOK, PA!ConvergeTypeOK
  <2>1. CASE PA!Reconcile /\ Counted(Refuses(atA, atA', staleA))
    <3>1. PICK q \in {0, 1} : /\ PA!PaidWith(q)
                              /\ faults' + PA!Bit(PA!Refused)
                                   = faults + q + PA!Bit(PA!LagEnds)
      BY <2>1, Constants, PA!UnstoredReconcile DEF SoundBoth, PA!Sound
    <3>2. \/ PA!Bit(PA!Refused) = 1 /\ refused' = refused + 1
          \/ PA!Bit(PA!Refused) = 0 /\ refused' = refused + 0
      <4>1. Refuses(atA, atA', staleA) <=> PA!Refused
        BY DEF Refuses, PA!Refused, PA!Lags
      <4>2. CASE PA!Refused
        <5>1. PA!Bit(PA!Refused) = 1
          BY <4>2, Zenon DEF PA!Bit
        <5>. QED
          BY <2>1, <4>1, <4>2, <5>1 DEF Counted
      <4>3. CASE ~PA!Refused
        <5>1. PA!Bit(PA!Refused) = 0
          BY <4>3, Zenon DEF PA!Bit
        <5>. QED
          BY <2>0, <2>1, <4>1, <4>3, <5>1 DEF Counted
      <4>. QED
        BY <4>2, <4>3
    <3>3. refused' \in Nat
      BY <2>0, <3>2
    <3>4. refused' + faults' = refused + faults + q + PA!Bit(PA!LagEnds)
      BY <2>0, <3>1, <3>2
    <3>. QED
      BY <3>1, <3>3, <3>4
  <2>2. CASE (PA!Sync \/ PA!TimerFires \/ PA!Crash) /\ UNCHANGED refused
    <3>1. PICK q \in {0, 1} : /\ PA!PaidWith(q)
                              /\ faults' = faults + q + PA!Bit(PA!LagEnds)
      BY <2>2, Constants, PA!UnstoredWatch DEF SoundBoth, PA!Sound
    <3>2. refused' + faults' = refused + faults + q + PA!Bit(PA!LagEnds)
      BY <2>0, <2>2, <3>1
    <3>. QED
      BY <2>0, <2>2, <3>1, <3>2
  <2>. QED
    BY <2>1, <2>2, SameActionsA DEF OperatorA
<1>4. /\ PB!Pending' = PB!Pending /\ PB!Reserved' = PB!Reserved
      /\ PB!ReservedAfresh' = PB!ReservedAfresh
      /\ PB!Tight' <=> PB!Tight
      /\ PB!Lags' <=> PB!Lags
  BY <1>1, <1>2, Constants, SeenByB, PB!OtherStoresNothing DEF PB!stepVars
<1>5. Lag' + PA!Bit(PA!LagEnds) >= Lag /\ PA!Bit(PA!LagEnds) \in {0, 1}
  <2>1. /\ Lag' = 1 \/ PA!Bit(PA!LagEnds) = 1 \/ Lag = 0
        /\ PA!Bit(PA!LagEnds) \in {0, 1}
    BY <1>4, Zenon DEF Lag, PA!LagEnds, PA!Bit
  <2>. QED
    BY <2>1, Numbers
<1>6. faults' \in Nat /\ edits' \in Nat /\ uncounted' \in Nat
  BY <1>1, Constants DEF SoundBoth, PA!Sound, PA!TypeOK, PA!ConvergeTypeOK
<1>7. Funds' >= Funds + q
  BY <1>2, <1>3, <1>5, <1>6, Numbers DEF Funds, DebtCovered
<1>8. /\ Debt' >= Debt
      /\ Debt' + PA!Reserved' + PB!Reserved' <= Debt + PA!Reserved + PB!Reserved + q
      /\ Debt' + PA!ReservedAfresh' + PB!ReservedAfresh'
           <= Debt + PA!ReservedAfresh + PB!ReservedAfresh + q
  BY <1>3, <1>4, <1>6, Numbers DEF Debt, PA!PaidWith
<1>9. Afresh' => Afresh
  BY <1>3, <1>4, SameView DEF Afresh, PA!PaidWith
<1>10. Funds \in Nat /\ Funds' \in Nat /\ Debt \in Int /\ Debt' \in Int
  BY <1>3, <1>6, Numbers DEF Funds, Debt, DebtCovered
<1>11. /\ Debt' >= 0
       /\ Debt' + PA!Reserved' + PB!Reserved' <= Funds'
       /\ Afresh' => Debt' + PA!ReservedAfresh' + PB!ReservedAfresh' < Funds'
  BY <1>7, <1>8, <1>9, <1>10, Numbers DEF DebtCovered
<1>. QED
  BY <1>3, <1>11 DEF DebtCovered

(***************************************************************************)
(* The status that A stores counts A's apply; what B has written or may    *)
(* write from its copy will not be counted, and from now on B lags, which  *)
(* pays for it.                                                            *)
(***************************************************************************)
LEMMA DebtWithStoreA ==
  ASSUME SoundBoth, DebtCovered, OperatorA, PA!Stores
  PROVE  DebtCovered'
<1>1. StepOfA /\ SoundBoth'
  BY OperatorSteps, SoundAfterA
<1>2. /\ ~PA!Lags /\ ~PA!Lags' /\ atA \in {"converge", "secretFailure"}
      /\ PA!Pending' = 0 /\ PA!Reserved' = 0 /\ PA!ReservedAfresh' = 0 /\ ~PA!Tight'
      /\ uncounted' \in {0, uncounted - PA!Pending}
      /\ PA!Owed' => PA!Owed \/ PA!Tight
      /\ UNCHANGED <<secrets, edits>>
      /\ faults' \in {faults, faults + 1}
  BY <1>1, Constants, PA!StoredStep DEF SoundBoth, PA!Sound, StepOfA
<1>3. PA!Reserved = 0 /\ PA!ReservedAfresh = 0
  BY <1>2, Zenon DEF PA!Reserved, PA!ReservedAfresh, PA!Bit
<1>4. /\ PB!Pending' = 0 /\ ~PB!Tight'
      /\ atB = "idle" => /\ ~PB!Lags /\ ~PB!Lags' /\ PB!Pending = 0
                         /\ PB!Reserved' = 0 /\ PB!ReservedAfresh' = 0
      /\ atB # "idle" => PB!Lags'
      /\ PB!Lags => /\ PB!Pending = 0 /\ PB!Reserved' = PB!Reserved
                    /\ PB!ReservedAfresh' = PB!ReservedAfresh
      /\ ~PB!Lags => /\ PB!Reserved = 0 /\ PB!ReservedAfresh = 0
                     /\ PB!Pending = 0 \/ PB!Reserved' = 0
                     /\ PB!ReservedAfresh' = 0 \/ PB!Reserved' = 1
  BY <1>1, <1>2, Constants, SeenByB, PB!OtherStores DEF SoundBoth, PB!Sound, PB!stepVars
<1>5. faults' \in Nat /\ edits' \in Nat /\ uncounted' \in Nat
  BY <1>1, Constants DEF SoundBoth, PA!Sound, PA!TypeOK, PA!ConvergeTypeOK
<1>6. refused' = refused /\ refused \in Nat
  <2>1. refused' = refused
    BY <1>2 DEF OperatorA, Counted, Refuses, PA!Lags
  <2>. QED
    BY <2>1 DEF DebtCovered
<1>7. /\ Funds \in Nat /\ Funds' \in Nat /\ Debt \in Int /\ Debt' \in Int
      /\ Debt' >= 0
  <2>1. Funds \in Nat /\ Debt \in Int
    BY <1>6, Numbers DEF Funds, Debt
  <2>2. Funds' \in Nat
    <3>1. refused' \in Nat /\ Lag' \in Nat
      BY <1>6, Numbers
    <3>2. Funds' = refused' + faults' + edits' + Lag'
      BY DEF Funds
    <3>3. \A r, f, e, l \in Nat : r + f + e + l \in Nat
      OBVIOUS
    <3>. QED
      BY <1>5, <3>1, <3>2, <3>3
  <2>3. Debt' = uncounted'
    <3>1. Debt' = uncounted' - PA!Pending' - PB!Pending'
      BY DEF Debt
    <3>2. \A u \in Nat : u - 0 - 0 = u
      OBVIOUS
    <3>. QED
      BY <1>2, <1>4, <1>5, <3>1, <3>2
  <2>. QED
    BY <1>5, <2>1, <2>2, <2>3
<1>8. Debt' <= Debt + PB!Pending
  BY <1>2, <1>4, <1>7, Numbers DEF Debt, DebtCovered
<1>9. Afresh' => Afresh
  BY <1>2, <1>4, SameView DEF Afresh
<1>10. CASE PB!Lags \/ atB = "idle"
  <2>1. Lag' = Lag
    BY <1>2, <1>4, <1>10, Zenon DEF Lag, PA!Bit
  <2>2. Funds' >= Funds
    BY <1>2, <1>5, <1>6, <2>1, Numbers DEF Funds
  <2>3. PB!Pending = 0 /\ PB!Reserved' <= PB!Reserved /\ PB!ReservedAfresh' <= PB!ReservedAfresh
    BY <1>4, <1>10, Numbers
  <2>4. Debt' <= Debt
    BY <1>7, <1>8, <2>3
  <2>5. /\ Debt' + PA!Reserved' + PB!Reserved' <= Funds'
        /\ Afresh' => Debt' + PA!ReservedAfresh' + PB!ReservedAfresh' < Funds'
    BY <1>2, <1>3, <1>7, <1>9, <2>2, <2>3, <2>4, Numbers DEF DebtCovered
  <2>. QED
    BY <1>6, <1>7, <2>5 DEF DebtCovered
<1>11. CASE ~PB!Lags /\ atB # "idle"
  <2>1. Lag = 0 /\ Lag' = 1
    BY <1>2, <1>4, <1>11, Zenon DEF Lag, PA!Bit
  <2>2. Funds' >= Funds + 1
    <3>1. refused' = refused /\ edits' = edits /\ faults' >= faults
      BY <1>2, <1>6, Numbers
    <3>. QED
      BY <1>5, <1>6, <2>1, <3>1, Numbers DEF Funds
  <2>3. /\ PB!Reserved = 0 /\ PB!ReservedAfresh = 0
        /\ PB!Pending + PB!Reserved' <= 1
        /\ PB!Pending + PB!ReservedAfresh' <= 1
    BY <1>4, <1>11, Numbers
  <2>4. /\ Debt' + PA!Reserved' + PB!Reserved' <= Funds'
        /\ Afresh' => Debt' + PA!ReservedAfresh' + PB!ReservedAfresh' < Funds'
    BY <1>2, <1>3, <1>7, <1>8, <1>9, <2>2, <2>3, Numbers DEF DebtCovered
  <2>. QED
    BY <1>6, <1>7, <2>4 DEF DebtCovered
<1>. QED
  BY <1>10, <1>11

(***************************************************************************)
(* Steps of B that store nothing are paid for, and A sees nothing of them. *)
(***************************************************************************)
LEMMA DebtWithoutStoreB ==
  ASSUME SoundBoth, DebtCovered, OperatorB, ~PB!Stores
  PROVE  DebtCovered'
<1>1. StepOfB /\ SoundBoth'
  BY OperatorSteps, SoundAfterB
<1>2. UNCHANGED <<obj, secrets, edits>>
  BY <1>1, Constants, PB!OnlyReportsStore
     DEF SoundBoth, PB!Sound, StepOfB, PB!Stores
<1>3. PICK q \in {0, 1} : /\ PB!PaidWith(q)
                          /\ refused' \in Nat
                          /\ refused' + faults' = refused + faults + q + PB!Bit(PB!LagEnds)
  <2>0. /\ refused \in Nat /\ faults \in Nat /\ faults' \in Nat
        /\ PB!Bit(PB!LagEnds) \in {0, 1}
    <3>1. PB!Bit(PB!LagEnds) \in {0, 1}
      BY Zenon DEF PB!Bit
    <3>. QED
      BY <1>1, <3>1, Constants
         DEF DebtCovered, SoundBoth, PB!Sound, PB!TypeOK, PB!ConvergeTypeOK
  <2>1. CASE PB!Reconcile /\ Counted(Refuses(atB, atB', staleB))
    <3>1. PICK q \in {0, 1} : /\ PB!PaidWith(q)
                              /\ faults' + PB!Bit(PB!Refused)
                                   = faults + q + PB!Bit(PB!LagEnds)
      BY <2>1, Constants, PB!UnstoredReconcile DEF SoundBoth, PB!Sound
    <3>2. \/ PB!Bit(PB!Refused) = 1 /\ refused' = refused + 1
          \/ PB!Bit(PB!Refused) = 0 /\ refused' = refused + 0
      <4>1. Refuses(atB, atB', staleB) <=> PB!Refused
        BY DEF Refuses, PB!Refused, PB!Lags
      <4>2. CASE PB!Refused
        <5>1. PB!Bit(PB!Refused) = 1
          BY <4>2, Zenon DEF PB!Bit
        <5>. QED
          BY <2>1, <4>1, <4>2, <5>1 DEF Counted
      <4>3. CASE ~PB!Refused
        <5>1. PB!Bit(PB!Refused) = 0
          BY <4>3, Zenon DEF PB!Bit
        <5>. QED
          BY <2>0, <2>1, <4>1, <4>3, <5>1 DEF Counted
      <4>. QED
        BY <4>2, <4>3
    <3>3. refused' \in Nat
      BY <2>0, <3>2
    <3>4. refused' + faults' = refused + faults + q + PB!Bit(PB!LagEnds)
      BY <2>0, <3>1, <3>2
    <3>. QED
      BY <3>1, <3>3, <3>4
  <2>2. CASE (PB!Sync \/ PB!TimerFires \/ PB!Crash) /\ UNCHANGED refused
    <3>1. PICK q \in {0, 1} : /\ PB!PaidWith(q)
                              /\ faults' = faults + q + PB!Bit(PB!LagEnds)
      BY <2>2, Constants, PB!UnstoredWatch DEF SoundBoth, PB!Sound
    <3>2. refused' + faults' = refused + faults + q + PB!Bit(PB!LagEnds)
      BY <2>0, <2>2, <3>1
    <3>. QED
      BY <2>0, <2>2, <3>1, <3>2
  <2>. QED
    BY <2>1, <2>2, SameActionsB DEF OperatorB
<1>4. /\ PA!Pending' = PA!Pending /\ PA!Reserved' = PA!Reserved
      /\ PA!ReservedAfresh' = PA!ReservedAfresh
      /\ PA!Tight' <=> PA!Tight
      /\ PA!Lags' <=> PA!Lags
  BY <1>1, <1>2, Constants, SeenByA, PA!OtherStoresNothing DEF PA!stepVars
<1>5. Lag' + PB!Bit(PB!LagEnds) >= Lag /\ PB!Bit(PB!LagEnds) \in {0, 1}
  <2>1. /\ Lag' = 1 \/ PB!Bit(PB!LagEnds) = 1 \/ Lag = 0
        /\ PB!Bit(PB!LagEnds) \in {0, 1}
    BY <1>4, Zenon DEF Lag, PA!Bit, PB!LagEnds, PB!Bit
  <2>. QED
    BY <2>1, Numbers
<1>6. faults' \in Nat /\ edits' \in Nat /\ uncounted' \in Nat
  BY <1>1, Constants DEF SoundBoth, PB!Sound, PB!TypeOK, PB!ConvergeTypeOK
<1>7. Funds' >= Funds + q
  BY <1>2, <1>3, <1>5, <1>6, Numbers DEF Funds, DebtCovered
<1>8. /\ Debt' >= Debt
      /\ Debt' + PA!Reserved' + PB!Reserved' <= Debt + PA!Reserved + PB!Reserved + q
      /\ Debt' + PA!ReservedAfresh' + PB!ReservedAfresh'
           <= Debt + PA!ReservedAfresh + PB!ReservedAfresh + q
  BY <1>3, <1>4, <1>6, Numbers DEF Debt, PB!PaidWith
<1>9. Afresh' => Afresh
  BY <1>3, <1>4, SameView DEF Afresh, PB!PaidWith
<1>10. Funds \in Nat /\ Funds' \in Nat /\ Debt \in Int /\ Debt' \in Int
  BY <1>3, <1>6, Numbers DEF Funds, Debt, DebtCovered
<1>11. /\ Debt' >= 0
       /\ Debt' + PA!Reserved' + PB!Reserved' <= Funds'
       /\ Afresh' => Debt' + PA!ReservedAfresh' + PB!ReservedAfresh' < Funds'
  BY <1>7, <1>8, <1>9, <1>10, Numbers DEF DebtCovered
<1>. QED
  BY <1>3, <1>11 DEF DebtCovered

(***************************************************************************)
(* The status that B stores counts B's apply; what A has written or may    *)
(* write from its copy will not be counted, and from now on A lags, which  *)
(* pays for it.                                                            *)
(***************************************************************************)
LEMMA DebtWithStoreB ==
  ASSUME SoundBoth, DebtCovered, OperatorB, PB!Stores
  PROVE  DebtCovered'
<1>1. StepOfB /\ SoundBoth'
  BY OperatorSteps, SoundAfterB
<1>2. /\ ~PB!Lags /\ ~PB!Lags' /\ atB \in {"converge", "secretFailure"}
      /\ PB!Pending' = 0 /\ PB!Reserved' = 0 /\ PB!ReservedAfresh' = 0 /\ ~PB!Tight'
      /\ uncounted' \in {0, uncounted - PB!Pending}
      /\ PB!Owed' => PB!Owed \/ PB!Tight
      /\ UNCHANGED <<secrets, edits>>
      /\ faults' \in {faults, faults + 1}
  BY <1>1, Constants, PB!StoredStep DEF SoundBoth, PB!Sound, StepOfB
<1>3. PB!Reserved = 0 /\ PB!ReservedAfresh = 0
  BY <1>2, Zenon DEF PB!Reserved, PB!ReservedAfresh, PB!Bit
<1>4. /\ PA!Pending' = 0 /\ ~PA!Tight'
      /\ atA = "idle" => /\ ~PA!Lags /\ ~PA!Lags' /\ PA!Pending = 0
                         /\ PA!Reserved' = 0 /\ PA!ReservedAfresh' = 0
      /\ atA # "idle" => PA!Lags'
      /\ PA!Lags => /\ PA!Pending = 0 /\ PA!Reserved' = PA!Reserved
                    /\ PA!ReservedAfresh' = PA!ReservedAfresh
      /\ ~PA!Lags => /\ PA!Reserved = 0 /\ PA!ReservedAfresh = 0
                     /\ PA!Pending = 0 \/ PA!Reserved' = 0
                     /\ PA!ReservedAfresh' = 0 \/ PA!Reserved' = 1
  BY <1>1, <1>2, Constants, SeenByA, PA!OtherStores DEF SoundBoth, PA!Sound, PA!stepVars
<1>5. faults' \in Nat /\ edits' \in Nat /\ uncounted' \in Nat
  BY <1>1, Constants DEF SoundBoth, PB!Sound, PB!TypeOK, PB!ConvergeTypeOK
<1>6. refused' = refused /\ refused \in Nat
  <2>1. refused' = refused
    BY <1>2 DEF OperatorB, Counted, Refuses, PB!Lags
  <2>. QED
    BY <2>1 DEF DebtCovered
<1>7. /\ Funds \in Nat /\ Funds' \in Nat /\ Debt \in Int /\ Debt' \in Int
      /\ Debt' >= 0
  <2>1. Funds \in Nat /\ Debt \in Int
    BY <1>6, Numbers DEF Funds, Debt
  <2>2. Funds' \in Nat
    <3>1. refused' \in Nat /\ Lag' \in Nat
      BY <1>6, Numbers
    <3>2. Funds' = refused' + faults' + edits' + Lag'
      BY DEF Funds
    <3>3. \A r, f, e, l \in Nat : r + f + e + l \in Nat
      OBVIOUS
    <3>. QED
      BY <1>5, <3>1, <3>2, <3>3
  <2>3. Debt' = uncounted'
    <3>1. Debt' = uncounted' - PA!Pending' - PB!Pending'
      BY DEF Debt
    <3>2. \A u \in Nat : u - 0 - 0 = u
      OBVIOUS
    <3>. QED
      BY <1>2, <1>4, <1>5, <3>1, <3>2
  <2>. QED
    BY <1>5, <2>1, <2>2, <2>3
<1>8. Debt' <= Debt + PA!Pending
  BY <1>2, <1>4, <1>7, Numbers DEF Debt, DebtCovered
<1>9. Afresh' => Afresh
  BY <1>2, <1>4, SameView DEF Afresh
<1>10. CASE PA!Lags \/ atA = "idle"
  <2>1. Lag' = Lag
    BY <1>2, <1>4, <1>10, Zenon DEF Lag, PA!Bit
  <2>2. Funds' >= Funds
    BY <1>2, <1>5, <1>6, <2>1, Numbers DEF Funds
  <2>3. PA!Pending = 0 /\ PA!Reserved' <= PA!Reserved /\ PA!ReservedAfresh' <= PA!ReservedAfresh
    BY <1>4, <1>10, Numbers
  <2>4. Debt' <= Debt
    BY <1>7, <1>8, <2>3
  <2>5. /\ Debt' + PA!Reserved' + PB!Reserved' <= Funds'
        /\ Afresh' => Debt' + PA!ReservedAfresh' + PB!ReservedAfresh' < Funds'
    BY <1>2, <1>3, <1>7, <1>9, <2>2, <2>3, <2>4, Numbers DEF DebtCovered
  <2>. QED
    BY <1>6, <1>7, <2>5 DEF DebtCovered
<1>11. CASE ~PA!Lags /\ atA # "idle"
  <2>1. Lag = 0 /\ Lag' = 1
    BY <1>2, <1>4, <1>11, Zenon DEF Lag, PA!Bit
  <2>2. Funds' >= Funds + 1
    <3>1. refused' = refused /\ edits' = edits /\ faults' >= faults
      BY <1>2, <1>6, Numbers
    <3>. QED
      BY <1>5, <1>6, <2>1, <3>1, Numbers DEF Funds
  <2>3. /\ PA!Reserved = 0 /\ PA!ReservedAfresh = 0
        /\ PA!Pending + PA!Reserved' <= 1
        /\ PA!Pending + PA!ReservedAfresh' <= 1
    BY <1>4, <1>11, Numbers
  <2>4. /\ Debt' + PA!Reserved' + PB!Reserved' <= Funds'
        /\ Afresh' => Debt' + PA!ReservedAfresh' + PB!ReservedAfresh' < Funds'
    BY <1>2, <1>3, <1>7, <1>8, <1>9, <2>2, <2>3, Numbers DEF DebtCovered
  <2>. QED
    BY <1>6, <1>7, <2>4 DEF DebtCovered
<1>. QED
  BY <1>10, <1>11

(***************************************************************************)
(* The user who rotates a Secret pays for what may follow.                 *)
(***************************************************************************)
LEMMA DebtAfterOthers == SoundBoth /\ DebtCovered /\ [Others]_vars => DebtCovered'
<1> SUFFICES ASSUME SoundBoth, DebtCovered, [Others]_vars PROVE DebtCovered'
  OBVIOUS
<1>1. StepOfOthers /\ SoundBoth'
  BY OthersStep, SoundAfterOthers
<1>2. UNCHANGED refused /\ refused \in Nat
  BY DEF Others, vars, DebtCovered
<1>3. CASE PA!RotateSecret
  <2>1. /\ UNCHANGED <<obj, pcA, desiredA, writeA, atA, nodeA, staleA, uncounted, faults>>
        /\ edits' = edits + 1
    BY <1>3 DEF PA!RotateSecret, PA!Edit, PA!objVars, PA!operatorVars, PA!history, PA!stepVars
  <2>2. UNCHANGED <<pcB, desiredB, writeB, atB, nodeB, staleB>>
    BY <1>1, <2>1, SeenByOthers
  <2>3. /\ PA!Pending' = PA!Pending /\ PA!Reserved' = PA!Reserved
        /\ PA!Lags' <=> PA!Lags
        /\ PA!ReservedAfresh' <= PA!Reserved'
    BY <2>1, Constants, PA!OthersRotate DEF SoundBoth, PA!Sound
  <2>4. /\ PB!Pending' = PB!Pending /\ PB!Reserved' = PB!Reserved
        /\ PB!Lags' <=> PB!Lags
        /\ PB!ReservedAfresh' <= PB!Reserved'
    BY <2>1, <2>2, Constants, PB!OthersRotate DEF SoundBoth, PB!Sound
  <2>5. Lag' = Lag
    BY <2>3, <2>4, Zenon DEF Lag, PA!Bit
  <2>6. Funds' = Funds + 1 /\ Debt' = Debt /\ Funds \in Nat /\ Debt \in Int
    BY <1>2, <2>1, <2>3, <2>4, <2>5, Numbers DEF Funds, Debt
  <2>. QED
    BY <1>2, <2>3, <2>4, <2>6, Numbers DEF DebtCovered
<1>4. CASE ~PA!RotateSecret
  <2>1. /\ UNCHANGED <<obj, secrets, pcA, desiredA, writeA, atA, nodeA, staleA, uncounted>>
        /\ UNCHANGED <<pcB, desiredB, writeB, atB, nodeB, staleB, edits>>
        /\ faults' \in {faults, faults + 1}
    BY <1>1, <1>4, SeenByOthers
  <2>2. /\ PA!Pending' = PA!Pending /\ PA!Reserved' = PA!Reserved
        /\ PA!ReservedAfresh' = PA!ReservedAfresh
        /\ PA!Tight' <=> PA!Tight
        /\ PA!Lags' <=> PA!Lags
        /\ PA!Owed' <=> PA!Owed
    BY <2>1, Constants, PA!OtherStoresNothing
  <2>3. /\ PB!Pending' = PB!Pending /\ PB!Reserved' = PB!Reserved
        /\ PB!ReservedAfresh' = PB!ReservedAfresh
        /\ PB!Tight' <=> PB!Tight
        /\ PB!Lags' <=> PB!Lags
    BY <2>1, Constants, PB!OtherStoresNothing
  <2>4. Lag' = Lag
    BY <2>2, <2>3, Zenon DEF Lag, PA!Bit
  <2>5. Funds' >= Funds /\ Debt' = Debt /\ Funds \in Nat /\ Funds' \in Nat /\ Debt \in Int
    BY <1>2, <2>1, <2>2, <2>3, <2>4, Numbers DEF Funds, Debt
  <2>6. Afresh' <=> Afresh
    BY <2>2, <2>3 DEF Afresh
  <2>. QED
    BY <1>2, <2>2, <2>3, <2>5, <2>6, Numbers DEF DebtCovered
<1>. QED
  BY <1>3, <1>4

-----------------------------------------------------------------------------

LEMMA AccountedByBoth ==
  SoundBoth /\ PA!AttemptsAccounted /\ [Next]_vars => PA!AttemptsAccounted'
<1> SUFFICES ASSUME SoundBoth, PA!AttemptsAccounted, [Next]_vars
             PROVE  PA!AttemptsAccounted'
  OBVIOUS
<1>1. CASE StepOfA
  BY <1>1, Constants, PA!NextAttemptsAccounted
     DEF SoundBoth, PA!Sound, StepOfA, PA!Own, PA!Next
<1>2. CASE StepOfB
  <2>1. PB!AttemptsAccounted
    BY SameView
  <2>2. PB!AttemptsAccounted'
    BY <1>2, <2>1, Constants, PB!NextAttemptsAccounted
       DEF SoundBoth, PB!Sound, StepOfB, PB!Own, PB!Next
  <2>. QED
    BY <2>2, SameView
<1>3. CASE StepOfOthers
  BY <1>3, SeenByOthers DEF PA!AttemptsAccounted
<1>. QED
  BY <1>1, <1>2, <1>3, NextCases

LEMMA NextDebtCovered == SoundBoth /\ DebtCovered /\ [Next]_vars => DebtCovered'
BY DebtWithoutStoreA, DebtWithStoreA, DebtWithoutStoreB, DebtWithStoreB, DebtAfterOthers
   DEF Next

(***************************************************************************)
(* The debt that is covered is the bound: an operator that has written     *)
(* over a full budget was given one to start afresh, so at most one of the *)
(* applies under way is not paid for.                                      *)
(***************************************************************************)
LEMMA CoveredMeansBounded ==
  SoundBoth /\ PA!AttemptsAccounted /\ DebtCovered => OverrunsAreRefusedWrites
<1> SUFFICES ASSUME SoundBoth, PA!AttemptsAccounted, DebtCovered
             PROVE  OverrunsAreRefusedWrites
  OBVIOUS
<1>1. /\ obj.status.ApplyAttempts \in 0..MaxApplyAttempts /\ MaxApplyAttempts \in Nat
      /\ tries = obj.status.ApplyAttempts + uncounted
  BY Constants DEF SoundBoth, PA!Sound, PA!TypeOK, PA!Object, PA!Status, PA!AttemptsAccounted
<1>2. obj.status.ApplyAttempts \in Nat /\ obj.status.ApplyAttempts <= MaxApplyAttempts
  BY <1>1
<1>3. /\ Funds = refused + faults + edits + Lag
      /\ uncounted = Debt + PA!Pending + PB!Pending
      /\ refused \in Nat /\ Funds \in Nat /\ Debt \in Nat
  BY Numbers DEF Funds, Debt, DebtCovered
<1>4. Debt <= Funds
  BY <1>3, Numbers DEF DebtCovered
<1>5. /\ PA!Pending = 1 => PA!HasWritten /\ ~PA!Lags
      /\ PB!Pending = 1 => PB!HasWritten /\ ~PB!Lags
  BY DEF PA!Pending, PB!Pending, PA!Bit, PB!Bit
<1>6. obj.status.ApplyAttempts = MaxApplyAttempts /\ PA!Pending + PB!Pending > 0 => Debt < Funds
  <2>1. ASSUME obj.status.ApplyAttempts = MaxApplyAttempts, PA!Pending = 1 \/ PB!Pending = 1
        PROVE  Afresh
    BY <1>5, <2>1 DEF Afresh, PA!Tight, PB!Tight, PA!Full, PB!Full
  <2>2. Afresh => Debt < Funds
    BY <1>3, Numbers DEF DebtCovered
  <2>. QED
    BY <2>1, <2>2, Numbers
<1>7. PA!Pending = 1 /\ PB!Pending = 1 => Lag = 0
  BY <1>5, Zenon DEF Lag, PA!Bit
<1>8. uncounted <= Debt + 1 + 1 - Lag
  BY <1>3, <1>7, Numbers
<1>9. CASE PA!Pending = 0 /\ PB!Pending = 0
  BY <1>1, <1>2, <1>3, <1>4, <1>9, Numbers DEF OverrunsAreRefusedWrites
<1>10. CASE ~(PA!Pending = 0 /\ PB!Pending = 0)
  <2>1. PA!Pending + PB!Pending > 0
    BY <1>10, Numbers
  <2>2. obj.status.ApplyAttempts + Debt <= MaxApplyAttempts + Funds - 1
    <3>1. CASE obj.status.ApplyAttempts = MaxApplyAttempts
      BY <1>1, <1>3, <1>6, <2>1, <3>1
    <3>2. CASE obj.status.ApplyAttempts < MaxApplyAttempts
      BY <1>1, <1>2, <1>3, <1>4, <3>2
    <3>. QED
      BY <1>1, <1>2, <3>1, <3>2
  <2>. QED
    BY <1>1, <1>2, <1>3, <1>8, <2>2, Numbers DEF OverrunsAreRefusedWrites
<1>. QED
  BY <1>9, <1>10

(***************************************************************************)
(* Two operators cost a radio at most one reboot past the bound that is    *)
(* not paid for by a refused status write, a fault or an edit, whoever     *)
(* wins the races (converge.go:47, controller:208-217).                    *)
(***************************************************************************)
THEOREM OverrunsArePaidFor == Spec => []OverrunsAreRefusedWrites
<1>1. Init => PA!AttemptsAccounted /\ DebtCovered
  <2> SUFFICES ASSUME Init PROVE PA!AttemptsAccounted /\ DebtCovered
    OBVIOUS
  <2>1. ~PB!Owed /\ ~Afresh
    BY Starts, SameView DEF Afresh
  <2>2. Lag \in {0, 1}
    BY Zenon DEF Lag, PA!Bit
  <2>3. /\ refused = 0 /\ faults = 0 /\ edits = 0 /\ uncounted = 0
        /\ PA!AttemptsAccounted
    BY Starts, SameActionsA DEF Init, PA!ConvergeInit
  <2>. QED
    BY <2>1, <2>2, <2>3, Starts DEF DebtCovered, Debt, Funds
<1>. QED
  BY <1>1, AccountedByBoth, NextDebtCovered, CoveredMeansBounded, BothAreSound, PTL DEF Spec
=============================================================================
