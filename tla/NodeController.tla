--------------------------- MODULE NodeController ---------------------------
(***************************************************************************)
(* The MeshtasticNode controller (meshtasticnode_controller.go) for one    *)
(* node: Converge wrapped in an informer cache, a work queue, a status     *)
(* subresource guarded by optimistic concurrency, Secrets read outside the *)
(* cache, Prometheus gauges and an operator process that can crash.        *)
(*                                                                         *)
(* One node is enough: the work queue never runs one key concurrently      *)
(* (SetupWithManager) and nodes share no state.                            *)
(*                                                                         *)
(* Abstractions.  A resourceVersion is only ever compared with the current *)
(* one, so it is the set "stale" of copies that are behind.  Generations   *)
(* keep counting when an object is re-created, which also stands for its   *)
(* uid.  The informer judges every version by the predicate but delivers   *)
(* those outstanding together.  Of the queue, one key's dirty bit and its  *)
(* pending delayed add are kept; durations are not.  Telemetry conditions  *)
(* and gauges, Events and LastHeard's value are left out (a status write   *)
(* always counts as a new version).                                        *)
(***************************************************************************)
EXTENDS Converge

CONSTANTS
  Specs,    \* specs a user writes: [supported, scalar, mqtt, channels]
  MaxEdits  \* bound of the model: what users do in one behaviour

SpecType == [supported : BOOLEAN, scalar : Scalars, mqtt : BOOLEAN, channels : BOOLEAN]

ASSUME NodeControllerAssumption ==
  /\ Specs \subseteq SpecType
  /\ MaxEdits \in Nat

VARIABLES
  \* the API server
  obj,      \* the MeshtasticNode object
  undelivered, \* a version the informer has yet to deliver will enqueue the key
  secrets,  \* the referenced Secrets: a password, a set of channel keys
  \* the operator process
  cache,    \* the informer's copy of obj
  queued,   \* the key is in the work queue
  timer,    \* a delayed add of the key is pending
  at,       \* where the reconcile in flight is
  node,     \* the copy of obj that reconcile works on
  gauge,    \* the node's Prometheus series, None when there is none
  stale,    \* which of "cache" and "node" are older than obj
  \* bookkeeping
  edits,     \* user actions so far
  uncounted, \* history: applies of this budget that no written status counts
  unacked,   \* history: the radio's password changed and no written status says so
  orphaned   \* history: obj vanished without an acknowledged finalizer removal

objVars == <<obj, undelivered>>
apiVars == <<objVars, secrets>>
operatorVars == <<cache, queued, timer, at, node, gauge>>
history == <<uncounted, unacked, orphaned>>
vars == <<convergeVars, apiVars, operatorVars, stale, edits, history>>

-----------------------------------------------------------------------------
(* Values *)

ConditionTypes == {"Ready", "Reachable", "ConfigInSync", "RebootPending",
                   "Degraded", "ChannelsInSync"}

Status == [observedGeneration : Nat, ApplyAttempts : 0..MaxApplyAttempts,
           MQTTPasswordHash : Hashes,
           boundSecrets : (Hashes \X (ChannelSets \cup {None})) \cup {None},
           nodeID : BOOLEAN,
           conditions : [ConditionTypes -> {"True", "False", "Unknown", "Absent"}]]

Object == [exists : BOOLEAN, deleting : BOOLEAN, finalizer : BOOLEAN,
           generation : Nat, spec : Specs, status : Status]

Gauge == [Ready : BOOLEAN, Reachable : BOOLEAN, Degraded : BOOLEAN,
          ConfigInSync : BOOLEAN, ApplyAttempts : 0..MaxApplyAttempts]

NewStatus == [observedGeneration |-> 0, ApplyAttempts |-> 0, MQTTPasswordHash |-> None,
              boundSecrets |-> None, nodeID |-> FALSE,
              conditions |-> [c \in ConditionTypes |-> "Absent"]]

NewObject(s, g) == [exists |-> TRUE, deleting |-> FALSE, finalizer |-> FALSE,
                    generation |-> g, spec |-> s, status |-> NewStatus]

True(b) == IF b THEN "True" ELSE "False"

-----------------------------------------------------------------------------
(* What a reconcile computes *)

\* Both are resolved by uncached reads; None is a missing or unusable Secret.
Password(s) == IF s.mqtt THEN secrets.mqtt ELSE None
ChannelsOf(s) == IF s.channels THEN secrets.psk ELSE None

SecretsFingerprint(d) == <<WriteOnlyPasswordHash(d), d.channels>>

\* A new generation or a Secret-only change is a new desired state.
NewBudget(n, d) == \/ n.generation # n.status.observedGeneration
                   \/ SecretsFingerprint(d) # n.status.boundSecrets

PriorOf(n, d) ==
  [RebootPending    |-> n.status.conditions["RebootPending"] = "True",
   ApplyAttempts    |-> IF NewBudget(n, d) THEN 0 ELSE n.status.ApplyAttempts,
   MQTTPasswordHash |-> n.status.MQTTPasswordHash]

ChannelsInSync(d, o) ==
  CASE o.ChannelsUnobserved -> "Unknown"
    [] ~o.ChannelsUnobserved /\ (~o.Reachable \/ d.channels = None) -> "Absent"
    [] OTHER -> True(ChannelsMatch(d, [channels |-> o.LiveChannels]))

\* applyOutcome and what Reconcile adds to it.
OutcomeStatus(n, d, o) ==
  [observedGeneration |-> n.generation,
   ApplyAttempts      |-> o.ApplyAttempts,
   MQTTPasswordHash   |-> o.MQTTPasswordHash,
   boundSecrets       |-> SecretsFingerprint(d),
   nodeID             |-> n.status.nodeID \/ (o.Reachable /\ o.NodeID),
   conditions         |->
     [c \in ConditionTypes |->
        CASE c = "Ready"          -> True(o.Ready)
          [] c = "Reachable"      -> True(o.Reachable)
          [] c = "ConfigInSync"   -> True(o.ConfigInSync)
          [] c = "RebootPending"  -> True(o.RebootPending)
          [] c = "Degraded"       -> True(o.Degraded)
          [] c = "ChannelsInSync" -> ChannelsInSync(d, o)]]

OutcomeGauge(o) == [Ready |-> o.Ready, Reachable |-> o.Reachable, Degraded |-> o.Degraded,
                    ConfigInSync |-> o.ConfigInSync, ApplyAttempts |-> o.ApplyAttempts]

\* A failure keeps attempts, hash and observedGeneration and drops the
\* device-derived conditions; kept is the set of those it leaves as they were.
FailureStatus(n, kept) ==
  [n.status EXCEPT !.conditions =
     [c \in ConditionTypes |-> IF c = "Ready" THEN "False"
                               ELSE IF c \in kept THEN n.status.conditions[c]
                               ELSE "Absent"]]

FailureGauge(n) == [Ready |-> FALSE, Reachable |-> FALSE, Degraded |-> FALSE,
                    ConfigInSync |-> FALSE, ApplyAttempts |-> n.status.ApplyAttempts]

SecretFailureStatus(n) == FailureStatus(n, {})
DeviceFailureStatus(n) == FailureStatus(n, {"Degraded"})

-----------------------------------------------------------------------------
(* The informer and the work queue *)

\* Mutant: an update of the finalizers alone is filtered out.
PassesPredicateWithoutFinalizers(old, new) ==
  \/ old.exists # new.exists
  \/ new.deleting
  \/ old.generation # new.generation

\* ignoreStatusOnly, and the create and delete events it never sees.
PassesPredicate(old, new) ==
  \/ old.exists # new.exists
  \/ new.deleting
  \/ old.generation # new.generation
  \/ old.finalizer # new.finalizer

\* The API server stores o; every copy left is of an older version.
Store(o, copies) ==
  /\ obj' = o
  /\ undelivered' = (undelivered \/ PassesPredicate(obj, o))
  /\ stale' = copies

\* The informer catches up and hands the events to the queue.
Sync ==
  /\ "cache" \in stale
  /\ cache' = obj
  /\ stale' = stale \ {"cache"}
  /\ queued' = (queued \/ undelivered)
  /\ undelivered' = FALSE
  /\ UNCHANGED <<convergeVars, obj, secrets, timer, at, node, gauge, edits, history>>

TimerFires ==
  /\ timer
  /\ timer' = FALSE
  /\ queued' = TRUE
  /\ UNCHANGED <<convergeVars, apiVars, cache, at, node, gauge,
                 stale, edits, history>>

-----------------------------------------------------------------------------
(* Reconcile *)

Idle ==
  /\ at' = "idle"
  /\ node' = None
  /\ stale' = stale \ {"node"}

\* Pop the key and read the object from the cache.  Reading it before the
\* informer, which takes milliseconds, has caught up is a fault.
Get(next) ==
  /\ at = "idle"
  /\ queued
  /\ queued' = FALSE
  /\ cache.exists
  /\ at' = next
  /\ node' = cache
  /\ IF "cache" \in stale THEN stale' = stale \cup {"node"} /\ Fault
                          ELSE UNCHANGED <<stale, faults>>
  /\ UNCHANGED <<radio, pc, stepVars, tries, apiVars, cache, timer, gauge, edits, history>>

GetNotFound ==
  /\ at = "idle"
  /\ queued
  /\ ~cache.exists
  /\ queued' = FALSE
  /\ UNCHANGED <<convergeVars, apiVars, cache, timer, at, node, gauge, stale, edits, history>>

GetDeleted == cache.deleting /\ Get("removeFinalizer")
GetNew == ~cache.deleting /\ ~cache.finalizer /\ Get("addFinalizer")
GetManaged == ~cache.deleting /\ cache.finalizer /\ Get("password")

\* The object an Update of its finalizers leaves: one that is being deleted
\* and holds no finalizer is gone.
WithFinalizer(o, f) ==
  [o EXCEPT !.finalizer = f, !.exists = f \/ ~o.deleting]

\* r.Update succeeds only on the version the reconcile read.
UpdateFinalizer(f) ==
  /\ "node" \notin stale
  /\ Store(WithFinalizer(obj, f), {"cache"})
  /\ at' = "idle"
  /\ node' = None

\* Mutant: metrics.Forget is not called.
RemoveFinalizerKeepsGauges ==
  /\ at = "removeFinalizer"
  /\ UpdateFinalizer(FALSE)
  /\ UNCHANGED <<convergeVars, secrets, cache, queued, timer, gauge, edits, history>>

RemoveFinalizer ==
  /\ at = "removeFinalizer"
  /\ UpdateFinalizer(FALSE)
  /\ gauge' = None
  /\ UNCHANGED <<convergeVars, secrets, cache, queued, timer, edits, history>>

\* No requeue: the watch event of this Update brings the key back.
AddFinalizer ==
  /\ at = "addFinalizer"
  /\ UpdateFinalizer(TRUE)
  /\ UNCHANGED <<convergeVars, secrets, cache, queued, timer, gauge, edits, history>>

\* Mutant: the error of the Update is swallowed.
UpdateRefusedSilently ==
  /\ at \in {"addFinalizer", "removeFinalizer"}
  /\ IF "node" \in stale THEN UNCHANGED faults ELSE Fault
  /\ Idle
  /\ UNCHANGED <<radio, pc, stepVars, tries, apiVars, cache, queued, timer, gauge, edits,
                 history>>

\* Conflict, not found or an API failure: back off and retry.
UpdateRefused ==
  /\ at \in {"addFinalizer", "removeFinalizer"}
  /\ IF "node" \in stale THEN UNCHANGED faults ELSE Fault
  /\ timer' = TRUE
  /\ Idle
  /\ UNCHANGED <<radio, pc, stepVars, tries, apiVars, cache, queued, gauge, edits, history>>

\* The Update was made, and its answer was lost.
UpdateUnanswered ==
  /\ at \in {"addFinalizer", "removeFinalizer"}
  /\ orphaned' = (orphaned \/ at = "removeFinalizer")
  /\ UpdateFinalizer(at = "addFinalizer")
  /\ Fault
  /\ timer' = TRUE
  /\ UNCHANGED <<radio, pc, stepVars, tries, secrets, cache, queued, gauge, edits,
                 uncounted, unacked>>

\* resolveMQTTPassword, then buildDesiredChannels: two reads, not one.
ReadPassword ==
  /\ at = "password"
  /\ node.spec.mqtt => secrets.mqtt # None
  /\ desired' = [supported |-> node.spec.supported, scalar |-> node.spec.scalar,
                 password |-> Password(node.spec), channels |-> None]
  /\ at' = "channels"
  /\ UNCHANGED <<radio, pc, prior, live, identified, write, outcome, faults, tries,
                 apiVars, cache, queued, timer, node, gauge, stale, edits, history>>

ReadChannelKeys ==
  /\ at = "channels"
  /\ node.spec.channels => secrets.psk # None
  /\ LET d == [desired EXCEPT !.channels = ChannelsOf(node.spec)]
     IN  Begin(d, PriorOf(node, d))
  /\ at' = "converge"
  /\ UNCHANGED <<radio, faults, tries, apiVars, cache, queued, timer, node, gauge,
                 stale, edits, history>>

\* A Secret is missing or unusable, or the API server did not answer.
SecretUnread ==
  /\ \/ at = "password" /\ node.spec.mqtt
        /\ IF secrets.mqtt = None THEN UNCHANGED faults ELSE Fault
     \/ at = "channels" /\ node.spec.channels
        /\ IF secrets.psk = None THEN UNCHANGED faults ELSE Fault
  /\ at' = "secretFailure"
  /\ UNCHANGED <<radio, pc, stepVars, tries, apiVars, cache, queued, timer, node,
                 gauge, stale, edits, history>>

\* One call of the convergence step, and what it adds to the history.
ConvergeStep ==
  /\ at = "converge"
  /\ Step
  /\ uncounted' = uncounted + (tries' - tries)
  /\ unacked' = (unacked \/ radio'.password # radio.password)
  /\ UNCHANGED <<apiVars, operatorVars, stale, edits, orphaned>>

-----------------------------------------------------------------------------
(* The end of a reconcile: metrics.Record, then Status().Update *)

\* The reconcile returns; requeue is a RequeueAfter or a back-off.
End(g, requeue) ==
  /\ gauge' = g
  /\ timer' = (timer \/ requeue)
  /\ at' = "idle"
  /\ node' = None
  /\ Forget
  /\ UNCHANGED <<radio, secrets, cache, queued, edits, orphaned>>

\* Mutant: a patch without a resourceVersion, which never conflicts.
PersistedUnconditionally(s) == Store([obj EXCEPT !.status = s], {"cache"})

\* Status().Update succeeds only on the version the reconcile read.
Persisted(s) ==
  /\ "node" \notin stale
  /\ Store([obj EXCEPT !.status = s], {"cache"})

\* Conflict, not found or an API failure.
NotPersisted ==
  /\ UNCHANGED objVars
  /\ stale' = stale \ {"node"}
  /\ IF "node" \in stale THEN UNCHANGED faults ELSE Fault

\* A written outcome settles the history: the attempt it counts, the password
\* it acknowledges, the budget it starts afresh.
Settle ==
  LET afresh == outcome.Ready \/ NewBudget(node, desired)
  IN  /\ tries' = IF afresh THEN outcome.ApplyAttempts ELSE tries
      /\ uncounted' = IF afresh THEN 0
                      ELSE IF write = "nothing" THEN uncounted ELSE uncounted - 1
      /\ unacked' = (unacked /\ ~(write = "scalar" /\ outcome.Reachable))

ReportOutcome ==
  /\ at = "converge"
  /\ pc = "returned"
  /\ LET s == OutcomeStatus(node, desired, outcome)
         g == OutcomeGauge(outcome)
     IN  \/ Persisted(s) /\ UNCHANGED faults /\ Settle /\ End(g, outcome.Requeue # "None")
         \/ Persisted(s) /\ Fault /\ Settle /\ End(g, TRUE)
         \/ NotPersisted /\ UNCHANGED <<tries, uncounted, unacked>> /\ End(g, TRUE)

ReportFailure(s) ==
  /\ \/ Persisted(s) /\ UNCHANGED faults
     \/ Persisted(s) /\ Fault
     \/ NotPersisted
  /\ UNCHANGED <<tries, uncounted, unacked>>
  /\ End(FailureGauge(node), TRUE)

ReportDeviceFailure ==
  /\ at = "converge"
  /\ pc = "errored"
  /\ ReportFailure(DeviceFailureStatus(node))

ReportSecretFailure ==
  /\ at = "secretFailure"
  /\ ReportFailure(SecretFailureStatus(node))

\* The process dies and comes back: queue, timers, gauges and the reconcile in
\* flight are gone, and the first list enqueues every object.
Crash ==
  /\ Fault
  /\ cache' = obj
  /\ stale' = {}
  /\ undelivered' = FALSE
  /\ queued' = obj.exists
  /\ timer' = FALSE
  /\ gauge' = None
  /\ at' = "idle"
  /\ node' = None
  /\ Forget
  /\ UNCHANGED <<radio, tries, obj, secrets, edits, history>>

-----------------------------------------------------------------------------
(* Users of the API *)

Edit ==
  /\ edits < MaxEdits
  /\ edits' = edits + 1
  /\ UNCHANGED <<radio, pc, stepVars, faults, operatorVars>>

\* Any write of the object leaves every copy behind.
NewVersion(o) == Store(o, {"cache"} \cup (IF at = "idle" THEN {} ELSE {"node"}))

EditSpec ==
  /\ obj.exists
  /\ \E s \in Specs \ {obj.spec} :
       NewVersion([obj EXCEPT !.spec = s, !.generation = @ + 1])
  /\ Edit
  /\ UNCHANGED <<tries, secrets, history>>

RotateSecret ==
  /\ \/ \E p \in (Passwords \cup {None}) \ {secrets.mqtt} :
          secrets' = [secrets EXCEPT !.mqtt = p]
     \/ \E k \in (ChannelSets \cup {None}) \ {secrets.psk} :
          secrets' = [secrets EXCEPT !.psk = k]
  /\ Edit
  /\ UNCHANGED <<tries, objVars, stale, history>>

\* A finalizer holds the object back.
DeleteObject ==
  /\ obj.exists
  /\ ~obj.deleting
  /\ NewVersion([obj EXCEPT !.deleting = TRUE, !.exists = obj.finalizer,
                            !.generation = @ + 1])
  /\ Edit
  /\ UNCHANGED <<tries, secrets, history>>

\* Somebody removes the finalizer by hand.
StripFinalizer ==
  /\ obj.exists
  /\ obj.finalizer
  /\ NewVersion(WithFinalizer(obj, FALSE))
  /\ orphaned' = TRUE
  /\ Edit
  /\ UNCHANGED <<tries, secrets, uncounted, unacked>>

\* The name is used again, with an empty status and a new budget.
CreateObject ==
  /\ ~obj.exists
  /\ \E s \in Specs : NewVersion(NewObject(s, obj.generation + 1))
  /\ tries' = 0
  /\ uncounted' = 0
  /\ Edit
  /\ UNCHANGED <<secrets, unacked, orphaned>>

-----------------------------------------------------------------------------

Init ==
  /\ ConvergeInit
  /\ desired = NoDesired
  /\ \E s \in Specs : obj = NewObject(s, 1)
  /\ secrets \in [mqtt : Passwords, psk : ChannelSets]
  /\ cache = obj
  /\ queued = TRUE
  /\ timer = FALSE
  /\ at = "idle"
  /\ node = None
  /\ gauge = None
  /\ stale = {}
  /\ undelivered = FALSE
  /\ edits = 0
  /\ uncounted = 0
  /\ unacked = FALSE
  /\ orphaned = FALSE

Reconcile ==
  \/ GetNotFound \/ GetDeleted \/ GetNew \/ GetManaged
  \/ RemoveFinalizer \/ AddFinalizer \/ UpdateRefused \/ UpdateUnanswered
  \/ ReadPassword \/ ReadChannelKeys \/ SecretUnread
  \/ ConvergeStep
  \/ ReportOutcome \/ ReportDeviceFailure \/ ReportSecretFailure

Users == EditSpec \/ RotateSecret \/ DeleteObject \/ StripFinalizer \/ CreateObject

Next ==
  \/ Reconcile
  \/ Sync \/ TimerFires \/ Crash
  \/ Users
  \/ World /\ UNCHANGED <<apiVars, operatorVars, stale, edits, history>>

Spec == Init /\ [][Next]_vars

\* The worker, the informer and the timers of a live process keep going, and a
\* device that is down comes back.  Nothing else is owed to the operator.
Fairness ==
  /\ WF_vars(Reconcile)
  /\ WF_vars(Sync)
  /\ WF_vars(TimerFires)
  /\ WF_vars(RadioReturns /\ UNCHANGED <<apiVars, operatorVars, stale, edits, history>>)

FairSpec == Spec /\ Fairness

-----------------------------------------------------------------------------
(* Properties *)

(***************************************************************************)
(* Type invariant.  A reconcile in flight holds a copy of the object, the  *)
(* step runs only inside it, and attempts stay within the bound.           *)
(***************************************************************************)
TypeOK ==
  /\ ConvergeTypeOK
  /\ obj \in Object
  /\ undelivered \in BOOLEAN
  /\ secrets \in [mqtt : Passwords \cup {None}, psk : ChannelSets \cup {None}]
  /\ cache \in Object
  /\ queued \in BOOLEAN
  /\ timer \in BOOLEAN
  /\ at \in {"idle", "addFinalizer", "removeFinalizer", "password", "channels",
             "secretFailure", "converge"}
  /\ node \in Object \cup {None}
  /\ gauge \in Gauge \cup {None}
  /\ stale \subseteq {"cache", "node"}
  /\ edits \in 0..MaxEdits
  /\ uncounted \in Nat
  /\ unacked \in BOOLEAN
  /\ orphaned \in BOOLEAN
  /\ at # "idle" => node \in Object
  /\ at = "channels" => desired \in Desired
  /\ pc # "idle" <=> at = "converge"

(***************************************************************************)
(* The apply budget is exact: the Apply calls made since it was last       *)
(* started are the attempts the status records plus the applies whose      *)
(* result has not reached the status, and never will after a crash, a      *)
(* conflict or a hard error (converge.go:271-287, controller:208-217).     *)
(***************************************************************************)
AttemptsAccounted == tries = obj.status.ApplyAttempts + uncounted

(***************************************************************************)
(* Applies beyond the bound are paid for, one by one, by a fault of the    *)
(* world or an edit racing the reconcile; nothing else gets the radio past *)
(* MaxApplyAttempts reboots (converge.go:42-47).                           *)
(***************************************************************************)
AppliesBounded == tries <= MaxApplyAttempts + faults + edits

(***************************************************************************)
(* Unless a password write is unacknowledged, the hash in the status is of *)
(* the password the radio holds, or empty (converge.go:183-190, 296-299).  *)
(***************************************************************************)
HashIsOfRadioPassword ==
  unacked \/ obj.status.MQTTPasswordHash \in {None, Hash(radio.password)}

(***************************************************************************)
(* A step about to be written as Ready has verified a radio that holds the *)
(* declared password, although the export cannot show it.                  *)
(***************************************************************************)
ReadyMeansPasswordOnRadio ==
  /\ pc = "returned"
  /\ outcome.Ready
  /\ "node" \notin stale
  /\ ~unacked
  => desired.password \in {None, radio.password}

(***************************************************************************)
(* A managed object is never forgotten: it is queued, on a timer, being    *)
(* reconciled, or an undelivered change that passes the predicate is on    *)
(* its way, although status writes wake nobody and the finalizer is added  *)
(* without a requeue (controller:107-115, 219, 602-617).                   *)
(***************************************************************************)
NeverForgotten ==
  obj.exists => queued \/ timer \/ at # "idle" \/ undelivered

(***************************************************************************)
(* An object that is gone leaves no gauges behind, whatever copy of it the *)
(* operator still works on, provided the operator itself removed the       *)
(* finalizer (controller:97-106, metrics.go:112-123).                      *)
(***************************************************************************)
GaugesForgotten == ~obj.exists /\ ~orphaned => gauge = None

(***************************************************************************)
(* Ready is written only over the scalar configuration it was verified     *)
(* for: an edit between the read of the object and the status write makes  *)
(* that write a conflict instead (controller:86-91, 208-217).              *)
(***************************************************************************)
ReadyIsForDeclaredSpec ==
  [][obj'.status # obj.status /\ obj'.status.conditions["Ready"] = "True"
       => desired.scalar = obj.spec.scalar /\ live.scalar = obj'.spec.scalar]_vars

(***************************************************************************)
(* Deletion completes: the operator always gets to drop its finalizer,     *)
(* whatever the radio does (controller:97-106).                            *)
(***************************************************************************)
DeletionCompletes == obj.exists /\ obj.deleting ~> ~obj.exists

(***************************************************************************)
(* What the status says once nothing disturbs the system any more: the     *)
(* Secrets are missing, the transport is unsupported, the channels cannot  *)
(* be observed, the bound was hit on a field the radio never echoes, or    *)
(* the radio runs the declared state.                                      *)
(***************************************************************************)
Has(c, v) == obj.status.conditions[c] = v

MissesSecret == \/ obj.spec.mqtt /\ secrets.mqtt = None
                \/ obj.spec.channels /\ secrets.psk = None

RunsDeclaredState ==
  /\ radio.scalar = obj.spec.scalar
  /\ Password(obj.spec) \in {None, radio.password} \/ unacked
  /\ ChannelsOf(obj.spec) \in {None, radio.channels}

SettledStatus ==
  IF MissesSecret THEN Has("Ready", "False") /\ Has("Reachable", "Absent")
  ELSE /\ obj.status.observedGeneration = obj.generation
       /\ \/ Has("Ready", "True") /\ RunsDeclaredState
          \/ Has("Ready", "False") /\ ~obj.spec.supported /\ Has("Reachable", "False")
          \/ /\ Has("Ready", "False") /\ Has("ChannelsInSync", "Unknown")
             /\ radio.stock /\ obj.spec.channels
          \/ /\ Has("Degraded", "True")
             /\ obj.status.ApplyAttempts = MaxApplyAttempts
             /\ obj.spec.scalar \in MuteScalars

(***************************************************************************)
(* Convergence: every spec edit, Secret rotation, external drift, crash or *)
(* lost write is eventually reflected in a status that stays right, with   *)
(* no watch on Secrets and status writes filtered out (converge.go:120-129,*)
(* controller:140-147, 219, 602-617).                                      *)
(***************************************************************************)
Settles == <>[](obj.exists => SettledStatus)

-----------------------------------------------------------------------------
(* Why they hold: what each property needs at every step of a reconcile *)

(***************************************************************************)
(* A copy that is not stale is the object itself; this is what optimistic  *)
(* concurrency gives the two writes of a reconcile (controller:100, 109,   *)
(* 208).                                                                   *)
(***************************************************************************)
CopiesFresh ==
  /\ "cache" \notin stale => cache = obj
  /\ at # "idle" /\ "node" \notin stale => node = obj

(***************************************************************************)
(* The finalizer is removed only from a copy that is being deleted and     *)
(* added only to one without it (controller:97-115).                       *)
(***************************************************************************)
FinalizerPaths ==
  /\ at = "removeFinalizer" => node.deleting
  /\ at = "addFinalizer" => ~node.finalizer

(***************************************************************************)
(* What a step remembers of its start and of its write, and that its       *)
(* outcome counts that write and asks for another look (controller:136-146,*)
(* converge.go:265-310).                                                   *)
(***************************************************************************)
StepMemory ==
  /\ pc # "idle" => prior = PriorOf(node, desired)
  /\ pc \in {"export", "info", "compare"} => write = "nothing"
  /\ pc \in {"apply", "reboot"} => write = Surface(desired, prior, live)
  /\ pc = "returned" =>
       /\ outcome.Requeue # "None"
       /\ \/ outcome.Ready
          \/ outcome.ApplyAttempts = prior.ApplyAttempts + (IF write = "nothing" THEN 0 ELSE 1)
  /\ "node" \notin stale /\ (pc = "reboot" \/ (pc = "returned" /\ write # "nothing"))
       => uncounted > 0

(***************************************************************************)
(* Where the hash an outcome carries comes from: an acknowledged write, a  *)
(* comparison that found no drift, or the previous status                  *)
(* (converge.go:183-190, 214-221, 271-299).                                *)
(***************************************************************************)
DeclaredOnRadio == desired.password # None => radio.password = desired.password

HashSource ==
  /\ pc = "reboot" /\ write = "scalar" => DeclaredOnRadio
  /\ pc = "returned" =>
       IF write = "scalar" /\ outcome.Reachable
       THEN DeclaredOnRadio /\ outcome.MQTTPasswordHash = WriteOnlyPasswordHash(desired)
       ELSE \/ ~outcome.Ready /\ outcome.MQTTPasswordHash = prior.MQTTPasswordHash
            \/ /\ outcome.MQTTPasswordHash = WriteOnlyPasswordHash(desired)
               /\ ~WriteOnlyDrift(desired, prior)

(***************************************************************************)
(* The desired state is of the object the reconcile holds, and Ready is of *)
(* the export that was compared with it (controller:122-150,               *)
(* converge.go:181-222).                                                   *)
(***************************************************************************)
ComparedWithSpec ==
  /\ at \in {"channels", "converge"} => desired.scalar = node.spec.scalar
  /\ pc = "returned" /\ outcome.Ready => live.scalar = desired.scalar

(***************************************************************************)
(* The informer owes the queue an event whenever the object has come or    *)
(* gone behind its back (controller:602-617).                              *)
(***************************************************************************)
ExistenceDelivered == cache.exists # obj.exists => undelivered

(***************************************************************************)
(* Gauges, a copy that would be reconciled and a reconcile past the        *)
(* finalizer all stand for an object that its finalizer still holds        *)
(* (controller:97-120), and a reconcile that lags one event lags the       *)
(* informer too.                                                           *)
(***************************************************************************)
Managed(o) == o.exists /\ o.finalizer /\ ~o.deleting
Held == obj.exists /\ obj.finalizer

GaugesHeld ==
  orphaned \/ /\ gauge # None => Held
              /\ Managed(cache) => Held
              /\ at \in {"password", "channels", "secretFailure", "converge"} => Held

LagsTogether ==
  /\ at = "idle" => "node" \notin stale
  /\ at # "idle" /\ "node" \notin stale => "cache" \notin stale

(***************************************************************************)
(* Who pays for an apply the status does not count.  Where none is under   *)
(* way, those so far are paid for, and so is the next one when the status  *)
(* is at its bound but owes a new budget (Owed).  A reconcile that has yet *)
(* to write from a copy that is behind has paid for a write that will not  *)
(* be counted; one that has written over the current object is about to be *)
(* (controller:136-146, 208-217; converge.go:246-310).                     *)
(***************************************************************************)
Paid == faults + edits

\* What the Secrets a spec refers to hold now, and as far as the reconcile read them.
Bound(s) == [password |-> Password(s), channels |-> ChannelsOf(s)]

Resolved ==
  [password |-> IF at = "password" THEN Password(node.spec) ELSE desired.password,
   channels |-> IF at = "converge" THEN desired.channels ELSE ChannelsOf(node.spec)]

Full == obj.status.ApplyAttempts = MaxApplyAttempts
Owed == Full /\ NewBudget(obj, Bound(obj.spec))
MayWrite == NewBudget(node, Resolved) \/ node.status.ApplyAttempts < MaxApplyAttempts
Rotated == SecretsFingerprint(Resolved) # SecretsFingerprint(Bound(node.spec))

Lags == "node" \in stale
ToWrite == at \in {"password", "channels"} \/ pc \in {"export", "info", "compare", "apply"}
HasWritten == pc = "reboot" \/ (pc = "returned" /\ write # "nothing")

BudgetCovered ==
  /\ Lags \/ ~HasWritten => uncounted <= Paid /\ (Owed => uncounted < Paid)
  /\ ToWrite /\ Lags => uncounted < Paid /\ (MayWrite /\ Owed => uncounted + 1 < Paid)
  /\ ToWrite /\ ~Lags /\ ((MayWrite /\ Full) \/ Rotated) => uncounted < Paid
  /\ HasWritten /\ ~Lags => /\ uncounted - 1 <= Paid
                            /\ Full \/ Rotated => uncounted <= Paid
  /\ pc = "returned" /\ write = "nothing" /\ ~Lags /\ Rotated => uncounted < Paid

-----------------------------------------------------------------------------
(* What the repository says and the code does not do *)

(***************************************************************************)
(* operations.md:122-125: after a rotation "the operator compares a stored *)
(* hash of the last-applied value (...) and applies when it changes", so a *)
(* step that verifies the node finds the Secret's password on the radio.   *)
(***************************************************************************)
RotationIsApplied ==
  pc = "returned" /\ outcome.Ready /\ "node" \notin stale
    => desired.password \in {None, radio.password}

(***************************************************************************)
(* meshtasticnode_types.go:225-229: applyAttempts counts the applies that  *)
(* have not converged and "bounds the reboot loop".                        *)
(***************************************************************************)
AttemptsBoundReboots == tries <= MaxApplyAttempts

=============================================================================
