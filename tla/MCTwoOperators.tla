--------------------------- MODULE MCTwoOperators ---------------------------
(* Two operators of one node, for TLC. *)
EXTENDS TwoOperators, TLC

CONSTANTS s1, s2

\* A password to provision, with a scalar field the radio never echoes.
MuteSpecs == {[supported |-> TRUE, scalar |-> s2, mqtt |-> TRUE, channels |-> FALSE]}

SecretSymmetry == Permutations(Passwords)
=============================================================================
