-------------------------- MODULE IntentController --------------------------
(***************************************************************************)
(* CommunicationIntentReconciler: one intent, its users, the API server,   *)
(* the manager's informer cache and work queue, and the reconcile worker.  *)
(*                                                                         *)
(* The API server keeps the object and sends each version to the manager   *)
(* as a watch event (feed); the informer applies events in order, or, when *)
(* the watch broke, jumps to what a new list returns.  The worker reads    *)
(* the cache, compiles, and writes the status with the resourceVersion it  *)
(* read; it runs while versions it has not seen are already stored.        *)
(***************************************************************************)
EXTENDS IntentCompile

CONSTANTS
  Specs,       \* the specs users declare
  Absent,      \* no object
  NoStatus,    \* a status never written
  MaxChanges,  \* bound on user changes (create, edit, delete)
  MaxFaults,   \* bound on failed status writes
  MaxRestarts, \* bound on manager restarts
  MaxRelists   \* bound on broken watches

Verdicts == [observedGeneration : Nat, result : {Compile(s) : s \in Specs}]
Versions == [rv : Nat, generation : Nat \ {0}, spec : Specs, status : Verdicts \cup {NoStatus}]

ASSUME IntentControllerAssumption ==
  /\ MaxChanges \in Nat /\ MaxFaults \in Nat /\ MaxRestarts \in Nat /\ MaxRelists \in Nat
  /\ NoStatus \notin Verdicts
  /\ Absent \notin Versions

VARIABLES
  object,   \* the stored object, or Absent
  declared, \* history: the spec of each generation of the current object
  rv,       \* the store's last resourceVersion
  feed,     \* watch events not yet delivered: versions, or Absent for a delete
  cache,    \* the informer's copy
  queued,   \* the request is in the work queue
  pc,       \* the worker: "idle" or "writing"
  working,  \* the copy being reconciled, with the status to write
  changes, faults, restarts, relists,  \* what has happened so far
  writes    \* history: stored status writes of the current object

store == <<object, declared, rv, writes>>
manager == <<feed, cache, queued>>
worker == <<pc, working>>
budgets == <<changes, faults, restarts, relists>>
vars == <<store, manager, worker, budgets>>

\* What Reconcile puts on the status: both conditions and the top-level field
\* carry the generation compiled.
StatusOf(spec, generation) == [observedGeneration |-> generation, result |-> Compile(spec)]

ObservedGeneration(status) == IF status = NoStatus THEN 0 ELSE status.observedGeneration

Init ==
  /\ object = Absent /\ declared = <<>> /\ rv = 0 /\ writes = 0
  /\ feed = <<>> /\ cache = Absent /\ queued = FALSE
  /\ pc = "idle" /\ working = Absent
  /\ changes = 0 /\ faults = 0 /\ restarts = 0 /\ relists = 0

-----------------------------------------------------------------------------
(* The API server (external). *)

Changed == changes < MaxChanges /\ changes' = changes + 1 /\ UNCHANGED <<faults, restarts, relists>>

Create(s) ==
  /\ object = Absent
  /\ object' = [rv |-> rv + 1, generation |-> 1, spec |-> s, status |-> NoStatus]
  /\ declared' = <<s>> /\ rv' = rv + 1 /\ writes' = 0
  /\ feed' = Append(feed, object')
  /\ Changed
  /\ UNCHANGED <<cache, queued, worker>>

\* A change of the spec is a new generation.
Edit(s) ==
  /\ object # Absent /\ object.spec # s
  /\ object' = [object EXCEPT !.rv = rv + 1, !.generation = @ + 1, !.spec = s]
  /\ declared' = Append(declared, s) /\ rv' = rv + 1
  /\ feed' = Append(feed, object')
  /\ Changed
  /\ UNCHANGED <<writes, cache, queued, worker>>

Delete ==
  /\ object # Absent
  /\ object' = Absent /\ declared' = <<>> /\ writes' = 0
  /\ feed' = Append(feed, Absent)
  /\ Changed
  /\ UNCHANGED <<rv, cache, queued, worker>>

\* Optimistic concurrency: the write is taken only for the version it was read
\* from.  A status write leaves the generation alone.
Accepted == object # Absent /\ object.rv = working.rv

StoreStatus ==
  /\ object' = [object EXCEPT !.rv = rv + 1, !.status = working.status]
  /\ rv' = rv + 1 /\ writes' = writes + 1
  /\ feed' = Append(feed, object')
  /\ UNCHANGED declared

-----------------------------------------------------------------------------
(* The manager. *)

\* Mutant: create events are filtered like updates.
PassesUpdatesOnly(old, new) == old # Absent /\ new # Absent /\ old.generation # new.generation

\* GenerationChangedPredicate: an update is queued only when the generation
\* differs; creates and deletes always are.
Passes(old, new) == old = Absent \/ new = Absent \/ old.generation # new.generation

Inform(new) ==
  /\ cache' = new
  /\ queued' = (queued \/ (cache # new /\ Passes(cache, new)))

Observe ==
  /\ feed # <<>>
  /\ Inform(Head(feed))
  /\ feed' = Tail(feed)
  /\ UNCHANGED <<store, worker, budgets>>

\* The watch broke and its events are lost: the informer lists again and reports
\* the difference between its copy and what is stored.
Relist ==
  /\ relists < MaxRelists /\ relists' = relists + 1
  /\ feed # <<>>
  /\ Inform(object)
  /\ feed' = <<>>
  /\ UNCHANGED <<store, worker, changes, faults, restarts>>

\* Reconcile up to its status write: the request is taken, a missing object is
\* ignored, and a status that already is what this compile gives is left alone.
Reconcile ==
  /\ pc = "idle" /\ queued
  /\ queued' = FALSE
  /\ LET status == StatusOf(cache.spec, cache.generation)
     IN  IF cache = Absent \/ cache.status = status
         THEN UNCHANGED worker
         ELSE pc' = "writing" /\ working' = [cache EXCEPT !.status = status]
  /\ UNCHANGED <<store, feed, cache, budgets>>

Finish == pc' = "idle" /\ working' = Absent

UpdateStored ==
  /\ pc = "writing" /\ Accepted
  /\ StoreStatus
  /\ Finish
  /\ UNCHANGED <<cache, queued, budgets>>

\* Mutant: on a conflict the object is read again and the status already
\* computed is stamped with its generation.
UpdateRefusedRestamps ==
  /\ pc = "writing" /\ ~Accepted /\ object # Absent
  /\ object' = [object EXCEPT !.rv = rv + 1,
                   !.status = [working.status EXCEPT !.observedGeneration = object.generation]]
  /\ rv' = rv + 1 /\ writes' = writes + 1
  /\ feed' = Append(feed, object')
  /\ Finish
  /\ UNCHANGED <<declared, cache, queued, budgets>>

\* A conflict, or the object is gone: the error puts the request back.
UpdateRefused ==
  /\ pc = "writing" /\ ~Accepted
  /\ queued' = TRUE
  /\ Finish
  /\ UNCHANGED <<store, feed, cache, budgets>>

\* Mutant: the error is logged and dropped.
UpdateFailsSilently ==
  /\ pc = "writing"
  /\ faults < MaxFaults /\ faults' = faults + 1
  /\ \/ UNCHANGED <<store, feed>>
     \/ Accepted /\ StoreStatus
  /\ Finish
  /\ UNCHANGED <<cache, queued, changes, restarts, relists>>

\* The call fails before or after the server stored the status.
UpdateFails ==
  /\ pc = "writing"
  /\ faults < MaxFaults /\ faults' = faults + 1
  /\ \/ UNCHANGED <<store, feed>>
     \/ Accepted /\ StoreStatus
  /\ queued' = TRUE
  /\ Finish
  /\ UNCHANGED <<cache, changes, restarts, relists>>

\* The manager dies, and comes back with a synced cache and a create event for
\* what it lists.
Restart ==
  /\ restarts < MaxRestarts /\ restarts' = restarts + 1
  /\ cache' = object /\ feed' = <<>>
  /\ queued' = (object # Absent)
  /\ Finish
  /\ UNCHANGED <<store, changes, faults, relists>>

Next ==
  \/ \E s \in Specs : Create(s) \/ Edit(s)
  \/ Delete
  \/ Observe \/ Relist \/ Reconcile
  \/ UpdateStored \/ UpdateRefused \/ UpdateFails \/ Restart

Spec == Init /\ [][Next]_vars

\* The informer's and the worker's goroutines run; a write that reaches the
\* server is answered.  Users, faults and restarts are never promised.
Fairness ==
  /\ WF_vars(Observe)
  /\ WF_vars(Reconcile)
  /\ WF_vars(UpdateStored \/ UpdateRefused)

FairSpec == Spec /\ Fairness

-----------------------------------------------------------------------------

TypeOK ==
  /\ object \in Versions \cup {Absent}
  /\ declared \in Seq(Specs)
  /\ rv \in Nat /\ writes \in Nat
  /\ feed \in Seq(Versions \cup {Absent})
  /\ cache \in Versions \cup {Absent}
  /\ queued \in BOOLEAN
  /\ pc \in {"idle", "writing"}
  /\ working \in Versions \cup {Absent}
  /\ changes \in 0..MaxChanges /\ faults \in 0..MaxFaults
  /\ restarts \in 0..MaxRestarts /\ relists \in 0..MaxRelists

\* "observedGeneration is the spec generation last compiled"
\* (communicationintent_types.go:127): the verdict on the stored status is the
\* compile of the spec this very object had at that generation, although the
\* worker compiled a cached copy and the object may have been edited, or deleted
\* and created again under the same name, before the write.
VerdictIsOfItsGeneration ==
  object # Absent /\ object.status # NoStatus =>
    LET g == object.status.observedGeneration
    IN  g \in DOMAIN declared /\ object.status = StatusOf(declared[g], g)

\* The reconciler implements the register: seen from outside, with the specs
\* declared and the status stored, each verdict is published atomically, of the
\* spec that stands at that instant, once a generation, although it was compiled
\* from a cached copy before edits, deletions and re-creations that the write may
\* yet meet (communicationintent_controller.go:50-112).
PublishedStatus == IF object = Absent THEN NoStatus ELSE object.status

Register == INSTANCE IntentRegister
              WITH specs <- declared, verdict <- PublishedStatus, Verdict <- StatusOf

ImplementsRegister == Register!Spec

\* "Writing it again would bump resourceVersion and re-enqueue the same intent
\* forever" (communicationintent_controller.go:104-105): a generation is written
\* once, whatever conflicts, lost answers, restarts and stale reads come between.
OneWritePerGeneration == writes <= (IF object = Absent THEN 0 ELSE ObservedGeneration(object.status))

\* A verdict is never replaced by an older one: a write decided on a stale copy
\* does not take the status back to a generation already passed, nor to none.
ObservedNeverRegresses ==
  [][object # Absent /\ object' # Absent =>
       ObservedGeneration(object'.status) >= ObservedGeneration(object.status)]_vars

Settled ==
  object = Absent \/ object.status = StatusOf(object.spec, object.generation)

\* All that a broken watch may cost: the first verdict.  A relist that meets an
\* intent deleted and created again reports an update, from one generation 1 to
\* another, and the predicate drops it.
FirstVerdictMissed == relists > 0 /\ object # Absent /\ object.status = NoStatus

\* No wake-up is lost: once every watch event is delivered, the queue is empty
\* and the worker idle, the status is the compile of the current spec, although
\* the predicate dropped events and an edit may have come during the reconcile.
\* After a broken watch an intent may be left without a verdict, but a verdict
\* on show is never left to go stale.  communicationintent_controller.go:103-119.
IdleMeansSettled ==
  feed = <<>> /\ ~queued /\ pc = "idle" => Settled \/ FirstVerdictMissed

\* Whatever users, failures, restarts and broken watches do, the intent that
\* stands is eventually compiled and its verdict stays, but for a first verdict
\* missed after a broken watch.
EventuallySettled == <>[](Settled \/ FirstVerdictMissed)

-----------------------------------------------------------------------------
(* Why no wake-up is lost *)

\* What the informer holds, and will hold after each event on its way.
Copy(i) == IF i = 0 THEN cache ELSE feed[i]

Wakes(i) == Copy(i - 1) # Copy(i) /\ Passes(Copy(i - 1), Copy(i))

WakesAfter(i) == \E k \in (i + 1)..Len(feed) : Wakes(k)

Compiled(v) == v = Absent \/ v.status = StatusOf(v.spec, v.generation)

(***************************************************************************)
(* The events on their way end with what is stored.  From a copy that has  *)
(* its verdict a reconcile writes nothing: then an event after it wakes    *)
(* the reconciler again, or what is stored has its verdict too, or none    *)
(* yet.  And when nothing is queued or being written, one of them holds    *)
(* anyway (communicationintent_controller.go:57-62, 103-120).              *)
(***************************************************************************)
NoWakeUpLost ==
  /\ Copy(Len(feed)) = object
  /\ \A i \in 0..Len(feed) :
       Compiled(Copy(i)) => Settled \/ FirstVerdictMissed \/ WakesAfter(i)
  /\ ~queued /\ pc = "idle" => Settled \/ FirstVerdictMissed \/ WakesAfter(0)

(***************************************************************************)
(* What a relist relies on: only the last event on its way is of the       *)
(* stored version, and a write that will be accepted was read from it.     *)
(***************************************************************************)
LastIsStored ==
  object # Absent =>
    /\ \A i \in 0..Len(feed) : Copy(i) # Absent /\ Copy(i).rv = object.rv => i = Len(feed)
    /\ pc = "writing" /\ working.rv = object.rv => cache = object

(***************************************************************************)
(* Once an object has a verdict, the informer has seen this object and no  *)
(* other: its copies are of it, and one of the present generation that is  *)
(* not what is stored lacks no more than the verdict.                      *)
(***************************************************************************)
VerdictMeansSeen ==
  object # Absent /\ object.status # NoStatus =>
    \A i \in 0..Len(feed) :
      /\ Copy(i) # Absent
      /\ Copy(i).generation <= object.generation
      /\ Copy(i).generation = object.generation => Copy(i) = object \/ Settled

=============================================================================
