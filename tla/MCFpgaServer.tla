---------------------------- MODULE MCFpgaServer ----------------------------
(* Small instances of FpgaServer. *)
EXTENDS FpgaServer
=============================================================================
