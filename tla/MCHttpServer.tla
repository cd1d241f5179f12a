---------------------------- MODULE MCHttpServer ----------------------------
(***************************************************************************)
(* Instances of HttpServer.  Connections are interchangeable, but runs      *)
(* that check liveness take no symmetry.                                    *)
(***************************************************************************)
EXTENDS HttpServer

CONSTANTS k1, k2, k3
=============================================================================
