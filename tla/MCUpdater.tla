----------------------------- MODULE MCUpdater -----------------------------
(* Model checking of Updater: the service and two consoles, which race for  *)
(* the build of one module, and a second one whose repository never         *)
(* answers. A failed build needs neither.                                   *)
EXTENDS Updater

CONSTANTS c1, c2, m1, m2

MCOne == {m1}
MCBoth == {m1, m2}
MCFaulty == {m2}
MCNone == {}
MCTwoConsoles == {c1, c2}
MCOneConsole == {c1}
============================================================================
