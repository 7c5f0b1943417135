---------------------------- MODULE TwoOperators ----------------------------
(***************************************************************************)
(* Two operator processes drive the same node.  Leader election is off by  *)
(* default (cmd/main.go:64), so a second replica, or the old and the new   *)
(* pod of a rolling update, run side by side: each has its own informer,   *)
(* queue, reconcile and gauges, and they share the API server and a radio  *)
(* that tells no client from another.                                      *)
(*                                                                         *)
(* Each is an instance of NodeController.  A step of one leaves the other  *)
(* alone, except that a version it stores leaves the other's copies behind *)
(* and is on its way to the other's informer.  No status write is counted  *)
(* twice and none is merged: the loser of a race is refused.               *)
(***************************************************************************)
EXTENDS Naturals

CONSTANTS
  Scalars, MuteScalars, Passwords, ChannelSets, None, Exporters,
  MaxApplyAttempts, MaxFaults, Specs, MaxEdits,  \* of NodeController
  MaxRaces  \* bound of the model: status writes refused and Secrets rotated

VARIABLES
  radio, obj, secrets,                       \* what both can reach
  faults, edits, tries, uncounted, orphaned, \* bookkeeping of NodeController
  refused,                                   \* history: status writes refused as stale
  \* operator A
  pcA, desiredA, priorA, liveA, identifiedA, writeA, outcomeA, cacheA, queuedA,
  timerA, atA, nodeA, gaugeA, staleA, undeliveredA, unackedA,
  \* operator B
  pcB, desiredB, priorB, liveB, identifiedB, writeB, outcomeB, cacheB, queuedB,
  timerB, atB, nodeB, gaugeB, staleB, undeliveredB, unackedB

shared == <<radio, obj, secrets, faults, edits, tries, uncounted, orphaned>>
ownA == <<pcA, desiredA, priorA, liveA, identifiedA, writeA, outcomeA, cacheA, queuedA,
          timerA, atA, nodeA, gaugeA, unackedA>>
ownB == <<pcB, desiredB, priorB, liveB, identifiedB, writeB, outcomeB, cacheB, queuedB,
          timerB, atB, nodeB, gaugeB, unackedB>>
seenA == <<staleA, undeliveredA>>
seenB == <<staleB, undeliveredB>>
vars == <<shared, refused, ownA, ownB, seenA, seenB>>

A == INSTANCE NodeController
       WITH pc <- pcA, desired <- desiredA, prior <- priorA, live <- liveA,
            identified <- identifiedA, write <- writeA, outcome <- outcomeA,
            cache <- cacheA, queued <- queuedA, timer <- timerA, at <- atA, node <- nodeA,
            gauge <- gaugeA, stale <- staleA, undelivered <- undeliveredA, unacked <- unackedA

B == INSTANCE NodeController
       WITH pc <- pcB, desired <- desiredB, prior <- priorB, live <- liveB,
            identified <- identifiedB, write <- writeB, outcome <- outcomeB,
            cache <- cacheB, queued <- queuedB, timer <- timerB, at <- atB, node <- nodeB,
            gauge <- gaugeB, stale <- staleB, undelivered <- undeliveredB, unacked <- unackedB

ASSUME TwoOperatorsAssumption ==
  /\ MuteScalars \subseteq Scalars
  /\ None \notin Scalars \cup Passwords \cup ChannelSets
  /\ \A p \in Passwords : A!Hash(p) # None
  /\ Exporters \subseteq BOOLEAN
  /\ MaxApplyAttempts \in Nat \ {0}
  /\ MaxFaults \in Nat
  /\ Specs \subseteq A!SpecType
  /\ MaxEdits \in Nat
  /\ MaxRaces \in Nat

\* Both come up on a node that is managed already and was never applied.
Init ==
  /\ A!ConvergeInit /\ B!ConvergeInit
  /\ \E s \in Specs : obj = [A!NewObject(s, 1) EXCEPT !.finalizer = TRUE]
  /\ secrets \in [mqtt : Passwords, psk : ChannelSets]
  /\ edits = 0 /\ uncounted = 0 /\ orphaned = FALSE /\ refused = 0
  /\ desiredA = A!NoDesired /\ desiredB = B!NoDesired
  /\ cacheA = obj /\ cacheB = obj
  /\ queuedA = TRUE /\ queuedB = TRUE
  /\ timerA = FALSE /\ timerB = FALSE
  /\ atA = "idle" /\ atB = "idle"
  /\ nodeA = None /\ nodeB = None
  /\ gaugeA = None /\ gaugeB = None
  /\ staleA = {} /\ staleB = {}
  /\ undeliveredA = FALSE /\ undeliveredB = FALSE
  /\ unackedA = FALSE /\ unackedB = FALSE

-----------------------------------------------------------------------------
(* What one operator sees of a step of the other, or of a user *)

Behind(at) == {"cache"} \cup (IF at = "idle" THEN {} ELSE {"node"})

\* A status write, although it may repeat what is there, is a new version.
StoredByA == obj' # obj \/ "cache" \in staleA' \ staleA
StoredByB == obj' # obj \/ "cache" \in staleB' \ staleB

WatchedByB ==
  /\ staleB' = IF StoredByA THEN Behind(atB) ELSE staleB
  /\ undeliveredB' = (undeliveredB \/ (StoredByA /\ B!PassesPredicate(obj, obj')))
  /\ UNCHANGED ownB

WatchedByA ==
  /\ staleA' = IF StoredByB THEN Behind(atA) ELSE staleA
  /\ undeliveredA' = (undeliveredA \/ (StoredByB /\ A!PassesPredicate(obj, obj')))
  /\ UNCHANGED ownA

-----------------------------------------------------------------------------
(* Steps *)

\* A reconcile ends with a status write that is refused: the other's is newer.
Refuses(at, next, stale) ==
  at \in {"converge", "secretFailure"} /\ next = "idle" /\ "node" \in stale

Races == refused + edits

Counted(refusal) ==
  IF refusal THEN Races < MaxRaces /\ refused' = refused + 1 ELSE UNCHANGED refused

OperatorA ==
  \/ /\ A!Reconcile
     /\ Counted(Refuses(atA, atA', staleA))
     /\ WatchedByB
  \/ (A!Sync \/ A!TimerFires \/ A!Crash) /\ WatchedByB /\ UNCHANGED refused

OperatorB ==
  \/ /\ B!Reconcile
     /\ Counted(Refuses(atB, atB', staleB))
     /\ WatchedByA
  \/ (B!Sync \/ B!TimerFires \/ B!Crash) /\ WatchedByA /\ UNCHANGED refused

\* Somebody rotates a Secret, and the radio by itself; what users do to the
\* object is in NodeController's own runs.
Others ==
  /\ \/ A!RotateSecret /\ Races < MaxRaces
     \/ A!World /\ UNCHANGED <<obj, secrets, edits, uncounted, orphaned, ownA, seenA>>
  /\ WatchedByB
  /\ UNCHANGED refused

Next == OperatorA \/ OperatorB \/ Others

Spec == Init /\ [][Next]_vars

-----------------------------------------------------------------------------

(***************************************************************************)
(* What two operators cost a radio: past the bound of converge.go:47 every *)
(* apply is paid for by a status write that was refused, a fault or an     *)
(* edit, plus the one the other operator may have in flight; an attempt    *)
(* that reached the status is never lost to the other's write              *)
(* (meshtasticnode_controller.go:208-217).                                 *)
(***************************************************************************)
OverrunsAreRefusedWrites ==
  tries <= MaxApplyAttempts + 1 + refused + faults + edits

(***************************************************************************)
(* The stored hash is of the password on the radio, or empty, unless one   *)
(* of the two has written a password that no status acknowledges, although *)
(* each overwrites the radio behind the other's back (converge.go:183-190, *)
(* 271-299).                                                               *)
(***************************************************************************)
HashIsOfRadioPassword ==
  \/ unackedA \/ unackedB
  \/ obj.status.MQTTPasswordHash \in {None, A!Hash(radio.password)}
=============================================================================
