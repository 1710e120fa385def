----------------------------- MODULE MCInstaller -----------------------------
(* Model checking of Installer: two paths, two ports, one console.           *)
EXTENDS Installer

CONSTANTS p1, p2, n1, n2, c1

MCPaths == {p1, p2}
MCPorts == {n1, n2}
MCConsoles == {c1}
=============================================================================
