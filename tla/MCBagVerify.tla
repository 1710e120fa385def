---------------------------- MODULE MCBagVerify ----------------------------
(* Model checking of BagVerify: two bags whose verification is answered in  *)
(* time, which compete for a cycle and are the two records of a lost        *)
(* update, and one whose verification is not.                               *)
EXTENDS BagVerify

CONSTANTS b1, b2, b3

MCSlow == {b2}
MCThreeBags == {b1, b2, b3}
============================================================================
