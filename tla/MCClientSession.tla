--------------------------- MODULE MCClientSession ---------------------------
(* The bounds are given in the configuration.                              *)
EXTENDS ClientSession
=============================================================================
