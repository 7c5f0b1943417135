--------------------------- MODULE IntentRegister ---------------------------
(***************************************************************************)
(* What the intent reconciler promises, with the machinery left out: the   *)
(* API server holds the specs an intent has been given, one a generation,  *)
(* and one verdict, and a verdict is always published as if it had been    *)
(* compiled from the current spec in that very instant, and at most once   *)
(* for each generation.  No cache, no queue, no conflict, no restart.      *)
(***************************************************************************)
EXTENDS Naturals, Sequences

CONSTANTS
  Specs,         \* the specs users declare
  NoStatus,      \* nothing published
  Verdict(_, _)  \* the verdict on a spec, at a generation

VARIABLES
  specs,    \* the spec of each generation of the intent, empty if there is none
  verdict   \* the verdict published on it

registerVars == <<specs, verdict>>

Current == Verdict(specs[Len(specs)], Len(specs))

Init == specs = <<>> /\ verdict = NoStatus

Declare(s) == specs' = Append(specs, s) /\ UNCHANGED verdict

Withdraw == specs' = <<>> /\ verdict' = NoStatus

Publish ==
  /\ specs # <<>>
  /\ verdict # Current
  /\ verdict' = Current
  /\ UNCHANGED specs

Next == (\E s \in Specs : Declare(s)) \/ Withdraw \/ Publish

Spec == Init /\ [][Next]_registerVars
=============================================================================
