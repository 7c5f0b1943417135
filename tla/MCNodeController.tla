-------------------------- MODULE MCNodeController --------------------------
(* Instances of the node controller for TLC. *)
EXTENDS NodeController, TLC

CONSTANTS s1, s2

TCP(scalar, mqtt, channels) ==
  [supported |-> TRUE, scalar |-> scalar, mqtt |-> mqtt, channels |-> channels]

\* A password to rotate, and a spec edit that changes the scalar configuration.
PasswordSpecs == {TCP(s1, TRUE, FALSE), TCP(s2, TRUE, FALSE)}

\* Everything at once, and without channels a field the radio never echoes.
ProvisionSpecs == {TCP(s1, TRUE, TRUE), TCP(s2, TRUE, FALSE)}

\* These, over a transport the operator does not implement as well.
AllSpecs == ProvisionSpecs \cup {[TCP(s1, TRUE, FALSE) EXCEPT !.supported = FALSE]}

\* Passwords are only compared with each other, and so are channel sets.
SecretSymmetry == Permutations(Passwords) \cup Permutations(ChannelSets)
=============================================================================
