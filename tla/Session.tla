------------------------------- MODULE Session -------------------------------
(***************************************************************************)
(* What SpectraBridgeClient promises to whoever owns it, without its        *)
(* sockets and locks: when it may call back, and how often it reports that  *)
(* a session has failed.  BridgeSession and the reduced client inside       *)
(* JavaBridge both implement it.                                            *)
(***************************************************************************)
CONSTANT Workers    \* the receive threads

VARIABLES
    up,         \* the session is running
    live,       \* threads of a session may still call back
    calling,    \* the workers that are in a callback with a message
    owed,       \* the workers that have an OnTransportError to make
    dead        \* the process has been ended

vars == <<up, live, calling, owed, dead>>

Init == up = FALSE /\ live = FALSE /\ calling = {} /\ owed = {} /\ dead = FALSE

\* A session starts where none is running.  One that has failed may have left
\* threads behind: starting another then ends in Die.
Start ==
    /\ ~up /\ up' = TRUE /\ live' = TRUE
    /\ UNCHANGED <<calling, owed, dead>>

\* Messages are told one at a time by each worker.
Call(w) ==
    /\ live /\ w \notin calling \cup owed
    /\ calling' = calling \cup {w}
    /\ UNCHANGED <<up, live, owed, dead>>

Return(w) ==
    /\ w \in calling /\ calling' = calling \ {w}
    /\ UNCHANGED <<up, live, owed, dead>>

\* The session ends by itself: one worker, which is not in a callback, owes one
\* report.
Fail(w) ==
    /\ up /\ up' = FALSE
    /\ w \notin calling \cup owed /\ owed' = owed \cup {w}
    /\ UNCHANGED <<live, calling, dead>>

Tell(w) ==
    /\ w \in owed /\ owed' = owed \ {w}
    /\ UNCHANGED <<up, live, calling, dead>>

\* All threads have ended: nothing is being told and nothing is left to tell.
Quiet == calling = {} /\ owed = {}

\* The owner ends the session, or Connect gives it up: nothing is owed for that.
Stop ==
    /\ up /\ up' = FALSE
    /\ \/ UNCHANGED live
       \/ Quiet /\ live' = FALSE
    /\ UNCHANGED <<calling, owed, dead>>

\* The threads have been joined.
Settle ==
    /\ live /\ ~up /\ Quiet /\ live' = FALSE
    /\ UNCHANGED <<up, calling, owed, dead>>

\* std::terminate stops the threads where they are.
Die ==
    /\ dead' = TRUE
    /\ calling' \in SUBSET calling
    /\ UNCHANGED <<up, live, owed>>

Next ==
    /\ ~dead
    /\ \/ Start \/ Stop \/ Settle \/ Die
       \/ \E w \in Workers : Call(w) \/ Return(w) \/ Fail(w) \/ Tell(w)

Spec == Init /\ [][Next]_vars
=============================================================================
