----------------------------- MODULE MCRegistry -----------------------------
(***************************************************************************)
(* Instances of Registry, with the web server in it.  Connections are       *)
(* interchangeable, but runs that check liveness take no symmetry.          *)
(***************************************************************************)
EXTENDS Registry

CONSTANTS k1, k2, k3
=============================================================================
