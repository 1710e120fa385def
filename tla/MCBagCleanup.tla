---------------------------- MODULE MCBagCleanup ----------------------------
(* Model checking of BagCleanup: two bags, so that a pass can remove one    *)
(* directory while the other's bag comes or goes, and one entry that is no  *)
(* bag. Ids are spelled in lower case by both the API and the file system.  *)
EXTENDS BagCleanup

CONSTANTS b1, b2, provider_db

MCBags == {b1, b2}
MCOtherEntries == {provider_db}
=============================================================================
