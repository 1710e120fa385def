-------------------------- MODULE MCProviderConfig --------------------------
(* Model checking of ProviderConfig: 9 TON, for which a rate cut off would   *)
(* lose a hundredth, and 30, for which the longest span is at its bound;     *)
(* spaces of which two together exceed the disk, two keys.                   *)
EXTENDS ProviderConfig

CONSTANTS s1, s2, k1, k2, ip1

MCTwo == {s1, s2}
MCCosts == {90000, 300000}
MCSpaces == {2, 4}
MCKeys == {k1, k2}
MCIps == {ip1}
=============================================================================
