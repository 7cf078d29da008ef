----------------------------- MODULE MCControlLink -----------------------------
(* A small instance of ControlLink: its values are in ControlLink.cfg. *)
EXTENDS ControlLink
=============================================================================
