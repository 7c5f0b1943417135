---------------------------- MODULE Provisioning ----------------------------
(***************************************************************************)
(* What a converging loop promises of a secret nobody can read back: it is *)
(* written at most Budget times, each attempt lands or does not, nobody is *)
(* told which, and yet the loop claims success only if it is there.        *)
(* No export, no hash, no session, no reboot.                              *)
(***************************************************************************)
EXTENDS Naturals

CONSTANTS
  Secrets,  \* what can be asked for
  Unset,    \* nothing asked for, nothing stored
  Budget    \* attempts allowed

VARIABLES
  wanted,   \* the secret asked for, for good
  stored,   \* the secret the device holds
  spent,    \* attempts made
  done      \* success has been claimed

provisioningVars == <<wanted, stored, spent, done>>

Init ==
  /\ wanted \in Secrets \cup {Unset}
  /\ stored = Unset
  /\ spent = 0
  /\ done = FALSE

Attempt ==
  /\ ~done
  /\ spent < Budget
  /\ spent' = spent + 1
  /\ stored' \in {stored} \cup ({wanted} \ {Unset})
  /\ UNCHANGED <<wanted, done>>

Claim ==
  /\ ~done
  /\ wanted \in {Unset, stored}
  /\ done' = TRUE
  /\ UNCHANGED <<wanted, stored, spent>>

Next == Attempt \/ Claim

Spec == Init /\ [][Next]_provisioningVars
=============================================================================
