---------------------------- MODULE MCRegistryDb ----------------------------
(***************************************************************************)
(* Instances of RegistryDb.                                                 *)
(***************************************************************************)
EXTENDS RegistryDb

CONSTANTS n1, n2, e1, e2
=============================================================================
