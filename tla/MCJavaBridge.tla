---------------------------- MODULE MCJavaBridge ----------------------------
(* Small instances of JavaBridge. *)
EXTENDS JavaBridge

\* What the listener may call.
NoCalls == {}
AllCalls == Methods
SendsOnly == {"send"}
=============================================================================
