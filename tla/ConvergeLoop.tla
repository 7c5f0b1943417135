---------------------------- MODULE ConvergeLoop ----------------------------
(***************************************************************************)
(* The plain caller of Converge: a loop that feeds each step's NextState   *)
(* to the next one for a fixed desired state, until the device is Ready,   *)
(* the step fails or the step budget is gone (cmd/reconcile-demo, and the  *)
(* integration test's loop).  Its memory is never lost, so it shows what   *)
(* the state machine promises before Kubernetes is put around it.          *)
(***************************************************************************)
EXTENDS Converge

CONSTANT MaxSteps  \* the demo's step budget (15 in the code)

ASSUME ConvergeLoopAssumption == MaxSteps \in Nat \ {0}

VARIABLES
  state,     \* the reconcile memory fed to the next step
  steps,     \* steps started
  exit,      \* "running", or how the loop ended
  bootOwed   \* history: a write has landed, no reboot of ours followed it, and
             \* the radio has not booted since

loopVars == <<state, steps, exit, bootOwed>>
vars == <<convergeVars, loopVars>>

NextState(o) == [RebootPending |-> o.RebootPending, ApplyAttempts |-> o.ApplyAttempts,
                 MQTTPasswordHash |-> o.MQTTPasswordHash]

Init ==
  /\ ConvergeInit
  /\ desired \in Desired
  /\ state = ZeroPrior
  /\ steps = 0
  /\ exit = "running"
  /\ bootOwed = FALSE

LoopStep ==
  /\ pc = "idle"
  /\ exit = "running"
  /\ steps < MaxSteps
  /\ steps' = steps + 1
  /\ Begin(desired, state)
  /\ UNCHANGED <<radio, faults, tries, state, exit, bootOwed>>

LoopTakesOutcome ==
  /\ pc = "returned"
  /\ pc' = "idle"
  /\ state' = NextState(outcome)
  /\ exit' = IF outcome.Ready THEN "converged" ELSE "running"
  /\ UNCHANGED <<radio, stepVars, faults, tries, steps, bootOwed>>

LoopFails ==
  /\ pc = "errored"
  /\ pc' = "idle"
  /\ exit' = "error"
  /\ UNCHANGED <<radio, stepVars, faults, tries, state, steps, bootOwed>>

LoopGivesUp ==
  /\ pc = "idle"
  /\ exit = "running"
  /\ steps = MaxSteps
  /\ exit' = "budget"
  /\ UNCHANGED <<convergeVars, state, steps, bootOwed>>

\* Converge leaves a stored configuration without the reboot that activates it
\* in two ways: the session drops under a write that has landed, or the reboot
\* after an acknowledged write is refused, whose error is discarded.
LoopCalls ==
  /\ Step
  /\ \/ pc = "apply"  /\ bootOwed' = (pc' # "reboot" /\ (bootOwed \/ radio' # radio))
     \/ pc = "reboot" /\ bootOwed' = (faults' # faults)
     \/ pc \notin {"apply", "reboot"} /\ UNCHANGED bootOwed
  /\ UNCHANGED <<state, steps, exit>>

LoopWaits ==
  /\ exit = "running"
  /\ World
  /\ bootOwed' = (bootOwed /\ ~radio'.booted)
  /\ UNCHANGED <<state, steps, exit>>

Next ==
  \/ LoopStep \/ LoopTakesOutcome \/ LoopFails \/ LoopGivesUp
  \/ LoopCalls \/ LoopWaits

Spec == Init /\ [][Next]_vars

-----------------------------------------------------------------------------

(***************************************************************************)
(* Type invariant: the step's, and the loop's own memory stays within the  *)
(* apply bound of converge.go:47.                                          *)
(***************************************************************************)
TypeOK ==
  /\ ConvergeTypeOK
  /\ desired \in Desired
  /\ state \in Prior
  /\ steps \in 0..MaxSteps
  /\ exit \in {"running", "converged", "error", "budget"}
  /\ bootOwed \in BOOLEAN

(***************************************************************************)
(* The loop never calls Apply or ApplyChannels more than MaxApplyAttempts  *)
(* times, whatever drops, times out or is edited in between: an apply that *)
(* dropped counts (converge.go:271-285) and so does one whose explicit     *)
(* reboot failed (converge.go:288-294).                                    *)
(***************************************************************************)
AppliesBounded == tries <= MaxApplyAttempts

(***************************************************************************)
(* A loop that ends converged with a declared broker password left that    *)
(* password on the radio, although no export ever shows it: a write that   *)
(* was not acknowledged does not advance the hash (converge.go:272-284).   *)
(***************************************************************************)
ConvergedMeansPasswordOnRadio ==
  exit = "converged" /\ desired.password # None => radio.password = desired.password

(***************************************************************************)
(* A loop can end converged over a radio that still runs the configuration *)
(* from before a write, because the export shows what is stored.  It does  *)
(* so only over a write that landed under a dropped session or whose       *)
(* explicit reboot was refused (converge.go:271-294), and only until the   *)
(* next boot, whatever else drops, fails, is edited or reboots in between. *)
(***************************************************************************)
ConvergedMeansBooted == exit = "converged" /\ ~radio.booted => bootOwed

(***************************************************************************)
(* The loop implements Provisioning: whatever drops, times out or is       *)
(* edited, Apply and ApplyChannels are called at most MaxApplyAttempts     *)
(* times in all, the password on the radio changes only under such a call, *)
(* and only to the declared one, and the loop ends converged only if it is *)
(* there, although no export ever shows it and a dropped session does not  *)
(* tell whether it was written (converge.go:242-303).                      *)
(***************************************************************************)
Device == INSTANCE Provisioning
            WITH Secrets <- Passwords, Unset <- None, Budget <- MaxApplyAttempts,
                 wanted <- desired.password, stored <- radio.password,
                 spent <- tries, done <- exit = "converged"

ImplementsProvisioning == Device!Spec

-----------------------------------------------------------------------------
(* Why they hold: what each property needs at every call of the step *)

(***************************************************************************)
(* The attempts the step started with are the applies made so far, plus    *)
(* one once it has applied (converge.go:280, 303).                         *)
(***************************************************************************)
AttemptsCounted ==
  /\ AppliesBounded
  /\ pc # "idle" => exit = "running"
  /\ pc = "idle" /\ exit = "running" => tries = state.ApplyAttempts
  /\ pc \in {"export", "info", "compare", "apply"} => tries = prior.ApplyAttempts
  /\ pc = "reboot" => tries = prior.ApplyAttempts + 1
  /\ pc = "returned" => outcome.Ready \/ tries = outcome.ApplyAttempts

\* A hash is remembered only once the password it is of is on the radio.
OnRadio(hash) ==
  \/ hash = None
  \/ desired.password # None /\ hash = Hash(desired.password) /\ radio.password = desired.password

PasswordOnRadio == desired.password # None => radio.password = desired.password

(***************************************************************************)
(* The hash the loop, the step and its outcome carry is never ahead of the *)
(* radio (converge.go:183-190, 272-284, 296-299).                          *)
(***************************************************************************)
HashBehindRadio ==
  /\ OnRadio(state.MQTTPasswordHash)
  /\ pc # "idle" => OnRadio(prior.MQTTPasswordHash)
  /\ pc = "returned" => OnRadio(outcome.MQTTPasswordHash)
  /\ pc = "returned" /\ outcome.Ready => PasswordOnRadio
  /\ pc \in {"apply", "reboot"} => write = Surface(desired, prior, live)
  /\ pc = "reboot" /\ write = "scalar" => PasswordOnRadio
  /\ ConvergedMeansPasswordOnRadio

(***************************************************************************)
(* Unless a boot is owed, only a write whose reboot is still to come       *)
(* leaves a radio that is up with its old configuration running; a step    *)
(* that gets past the export has seen the radio up.                        *)
(***************************************************************************)
BootedWhenSeen ==
  /\ pc # "reboot" /\ radio.up => radio.booted \/ bootOwed
  /\ pc \in {"info", "compare", "apply"} => radio.booted \/ bootOwed
  /\ pc = "returned" /\ outcome.Ready => radio.booted \/ bootOwed
  /\ ConvergedMeansBooted

=============================================================================
