------------------------------- MODULE MCFactory -------------------------------
(***************************************************************************)
(* A small instance of ManagerFactory for TLC: three workers ask for two   *)
(* identifiers.                                                            *)
(***************************************************************************)
EXTENDS ManagerFactory

CONSTANTS w1, w2, w3, i1, i2
=============================================================================
