--------------------------- MODULE MCBridgeSession ---------------------------
(* Small instances of BridgeSession. *)
EXTENDS BridgeSession, TLC

\* Descriptors, controllers and senders are interchangeable.
Symmetric == Permutations(Fds) \cup Permutations(Controllers)
                \cup Permutations(Senders)
=============================================================================
