------------------------------ MODULE MCWallet ------------------------------
(* Model checking of Wallet: a transfer takes all a wallet holds, so that it *)
(* cannot be followed by a registration, nor two transfers by each other;    *)
(* the gas is what the commands leave for it, or more.                       *)
EXTENDS Wallet, TLC

CONSTANTS s1, s2, k1, k2

MCSessions == {s1, s2}
MCKeys == {k1, k2}
MCAmounts == {1}
MCGases == {1, 2}

Symmetry == Permutations(MCSessions) \cup Permutations(MCKeys)
=============================================================================
