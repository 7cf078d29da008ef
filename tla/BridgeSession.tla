---------------------------- MODULE BridgeSession ----------------------------
(***************************************************************************)
(* The session core of the native bridge: service::SpectraBridgeClient and  *)
(* the two network::TcpClient objects it owns.                              *)
(*                                                                          *)
(* Three kinds of threads share them.  Controllers are the Java threads     *)
(* inside Connect or Disconnect, senders the Java threads inside a SendXxx  *)
(* call, and the two workers are the receive threads, named after their     *)
(* channel.  A Java thread that does both kinds of call in turn is one      *)
(* controller and one sender whose steps alternate.                         *)
(*                                                                          *)
(* The operating system is part of the model: a descriptor table from which *)
(* socket() takes any free descriptor and to which close() returns it, so a *)
(* descriptor loaded into a local variable may name another connection by   *)
(* the time it is used.  What a message says is abstracted: a receive loop  *)
(* reads a first part and a rest, and either may turn out malformed.        *)
(***************************************************************************)
EXTENDS Naturals, Sequences

CONSTANTS
    Controllers,    \* threads that call Connect and Disconnect
    Senders,        \* threads that call SendReset ... SendFullConfig
    Fds,            \* descriptors the process may be given
    NoFd,           \* kInvalidSocketValue
    NoConn,         \* what a free descriptor refers to
    NoThread,       \* owner of a free mutex
    MaxGen,         \* bound: Connect calls that get past the running_ check
    MaxSends,       \* bound: packets each sender sends
    CloseWakesRecv  \* does closing a socket wake a recv() blocked on it?
                    \* TRUE for closesocket(), FALSE for POSIX close()

Channels == {"control", "image"}
Threads == Controllers \cup Senders \cup Channels
Gens == 1..MaxGen
\* A connection is named by the Connect attempt that made it and its channel.
Conns == Gens \X Channels
Chunks == Senders \X (0..MaxSends) \X {"head", "tail"}

ASSUME ThreadsAssumption ==
    /\ Controllers \cap Senders = {}
    /\ (Controllers \cup Senders) \cap Channels = {}
    /\ NoThread \notin Threads
ASSUME SocketsAssumption ==
    /\ NoFd \notin Fds
    /\ NoConn \notin Conns
ASSUME BoundsAssumption ==
    /\ MaxGen \in Nat
    /\ MaxSends \in Nat
    /\ CloseWakesRecv \in BOOLEAN

VARIABLES
    pc,         \* where each thread is
    local,      \* the native handle in each thread's local variable: the one
                \* Close() took (previous), or the one SendAll/RecvAll loaded
    handle,     \* TcpClient::socket_handle_ of either channel
    table,      \* descriptor table: what each descriptor refers to
    peerUp,     \* connections whose FPGA end is still open
    running,    \* running_
    lifecycle,  \* owner of lifecycle_mutex_
    sendLock,   \* owner of control_send_mutex_
    joinable,   \* control_thread_ / image_thread_ hold a thread to be joined
    part,       \* which part of a message a worker is receiving
    on,         \* the connection a worker's recv() is blocked on
    took,       \* the attempt whose running_ a worker's exchange cleared, or 0
    gen,        \* number of Connect attempts so far
    epoch,      \* history: what became of each attempt's running_ = true
    reports,    \* history: OnTransportError calls for each attempt
    wire,       \* history: what the peer of each connection received
    broken,     \* history: the packets whose send() failed
    nsent       \* packets each sender has begun

lifeVars == <<running, lifecycle, joinable, gen, epoch>>
sockVars == <<handle, table, peerUp>>
recvVars == <<part, on, took, reports>>
sendVars == <<sendLock, wire, broken, nsent>>
vars == <<pc, local, lifeVars, sockVars, recvVars, sendVars>>

Goto(t, label) == pc' = [pc EXCEPT ![t] = label]

Init ==
    /\ pc = [t \in Threads |-> IF t \in Channels THEN "none" ELSE "idle"]
    /\ local = [t \in Threads |-> NoFd]
    /\ handle = [ch \in Channels |-> NoFd]
    /\ table = [f \in Fds |-> NoConn]
    /\ peerUp = {}
    /\ running = FALSE
    /\ lifecycle = NoThread
    /\ sendLock = NoThread
    /\ joinable = [w \in Channels |-> FALSE]
    /\ part = [w \in Channels |-> "first"]
    /\ on = [w \in Channels |-> NoConn]
    /\ took = [w \in Channels |-> 0]
    /\ gen = 0
    /\ epoch = [g \in Gens |-> "unused"]
    /\ reports = [g \in Gens |-> 0]
    /\ wire = [k \in Conns |-> <<>>]
    /\ broken = {}
    /\ nsent = [s \in Senders |-> 0]

-----------------------------------------------------------------------------
\* TcpClient::Close, wherever it is called.  The exchange and the native close
\* are two steps; a thread between them holds the handle in its local variable.

\* Where Close() is called, on which channel, and where the caller goes next.
ClosesControl == {"con_ctl_close", "con_rollback", "catch_ctl_close",
                  "dis_ctl_close", "fail_ctl_close"}
ClosesImage == {"con_img_close", "catch_img_close", "dis_img_close",
                "fail_img_close"}
Closing == ClosesControl \cup ClosesImage
ClosedChannel(label) == IF label \in ClosesControl THEN "control" ELSE "image"
\* Mutation: Disconnect forgets the image channel.
AfterCloseSkipsImage(label) ==
    CASE label = "con_ctl_close"   -> "con_ctl_dial"
      [] label = "con_img_close"   -> "con_img_dial"
      [] label = "dis_ctl_close"   -> "dis_ctl_join"
      [] OTHER                     -> "report"
\* Mutation: a failing worker closes the control channel only.
AfterCloseFailsHalf(label) ==
    CASE label = "con_ctl_close"   -> "con_ctl_dial"
      [] label = "con_img_close"   -> "con_img_dial"
      [] label = "con_rollback"    -> "con_failed"
      [] label = "dis_ctl_close"   -> "dis_img_close"
      [] label = "dis_img_close"   -> "dis_ctl_join"
      [] OTHER                     -> "report"
AfterClose(label) ==
    CASE label = "con_ctl_close"   -> "con_ctl_dial"
      [] label = "con_img_close"   -> "con_img_dial"
      [] label = "con_rollback"    -> "con_failed"
      [] label = "catch_ctl_close" -> "catch_img_close"
      [] label = "catch_img_close" -> "catch_ctl_join"
      [] label = "dis_ctl_close"   -> "dis_img_close"
      [] label = "dis_img_close"   -> "dis_ctl_join"
      [] label = "fail_ctl_close"  -> "fail_img_close"
      [] OTHER                     -> "report"

\* Mutation: load the handle and close it, instead of exchanging it.
CloseExchangeKeepsHandle(t) ==
    /\ pc[t] \in Closing
    /\ local[t] = NoFd
    /\ LET ch == ClosedChannel(pc[t])
       IN  /\ local' = [local EXCEPT ![t] = handle[ch]]
           /\ IF handle[ch] = NoFd THEN Goto(t, AfterClose(pc[t]))
                                   ELSE UNCHANGED pc
    /\ UNCHANGED <<handle, table, peerUp, lifeVars, recvVars, sendVars>>

CloseExchange(t) ==
    /\ pc[t] \in Closing
    /\ local[t] = NoFd
    /\ LET ch == ClosedChannel(pc[t])
       IN  /\ local' = [local EXCEPT ![t] = handle[ch]]
           /\ handle' = [handle EXCEPT ![ch] = NoFd]
           /\ IF handle[ch] = NoFd THEN Goto(t, AfterClose(pc[t]))
                                   ELSE UNCHANGED pc
    /\ UNCHANGED <<table, peerUp, lifeVars, recvVars, sendVars>>

CloseNative(t) ==
    /\ pc[t] \in Closing
    /\ local[t] # NoFd
    /\ table' = [table EXCEPT ![local[t]] = NoConn]
    /\ local' = [local EXCEPT ![t] = NoFd]
    /\ Goto(t, AfterClose(pc[t]))
    /\ UNCHANGED <<handle, peerUp, lifeVars, recvVars, sendVars>>

-----------------------------------------------------------------------------
\* SpectraBridgeClient::Connect.

\* A controller takes lifecycle_mutex_ and reads running_.  Waiting for the
\* mutex is not a state of its own.
ConnectEnter(c) ==
    /\ pc[c] = "idle"
    /\ lifecycle = NoThread
    /\ lifecycle' = c
    /\ \/ /\ running
          /\ Goto(c, "con_refused")
          /\ UNCHANGED gen
       \/ /\ ~running
          /\ gen < MaxGen
          /\ gen' = gen + 1
          /\ Goto(c, "con_ctl_close")
    /\ UNCHANGED <<local, running, joinable, epoch, sockVars, recvVars,
                   sendVars>>

Dialing == {"con_ctl_dial", "con_img_dial"}
DialedChannel(label) == IF label = "con_ctl_dial" THEN "control" ELSE "image"

\* TcpClient::Connect once the old socket is closed: some address answered and
\* its socket is stored, or none did.
DialSucceeds(c) ==
    /\ pc[c] \in Dialing
    /\ LET ch == DialedChannel(pc[c])
           conn == <<gen, ch>>
       IN  /\ \E f \in Fds :
                 /\ table[f] = NoConn
                 /\ table' = [table EXCEPT ![f] = conn]
                 /\ handle' = [handle EXCEPT ![ch] = f]
           /\ peerUp' = peerUp \cup {conn}
           /\ Goto(c, IF ch = "control" THEN "con_img_close" ELSE "con_running")
    /\ UNCHANGED <<local, lifeVars, recvVars, sendVars>>

\* Mutation: no rollback of the control channel when the image channel fails.
DialFailsNoRollback(c) ==
    /\ pc[c] \in Dialing
    /\ Goto(c, "con_failed")
    /\ UNCHANGED <<local, lifeVars, sockVars, recvVars, sendVars>>

DialFails(c) ==
    /\ pc[c] \in Dialing
    /\ Goto(c, IF pc[c] = "con_ctl_dial" THEN "con_failed" ELSE "con_rollback")
    /\ UNCHANGED <<local, lifeVars, sockVars, recvVars, sendVars>>

StartRunning(c) ==
    /\ pc[c] = "con_running"
    /\ running' = TRUE
    /\ epoch' = [epoch EXCEPT ![gen] = "up"]
    /\ Goto(c, "con_ctl_spawn")
    /\ UNCHANGED <<local, lifecycle, joinable, gen, sockVars, recvVars,
                   sendVars>>

Spawning == {"con_ctl_spawn", "con_img_spawn"}
SpawnedWorker(label) == IF label = "con_ctl_spawn" THEN "control" ELSE "image"

\* The thread starts and is moved into a member that holds none.
Spawn(c) ==
    /\ pc[c] \in Spawning
    /\ LET w == SpawnedWorker(pc[c])
       IN  /\ ~joinable[w]
           /\ joinable' = [joinable EXCEPT ![w] = TRUE]
           /\ pc' = [pc EXCEPT
                       ![c] = IF w = "control" THEN "con_img_spawn" ELSE "con_ok",
                       ![w] = "top"]
    /\ UNCHANGED <<local, running, lifecycle, gen, epoch, sockVars, recvVars,
                   sendVars>>

\* Assigning to a std::thread that is still joinable calls std::terminate,
\* which no catch clause sees: every thread stops where it is.
Terminated == \A t \in Threads : pc[t] = "dead"

SpawnTerminates(c) ==
    /\ pc[c] \in Spawning
    /\ joinable[SpawnedWorker(pc[c])]
    /\ pc' = [t \in Threads |-> "dead"]
    /\ UNCHANGED <<local, lifeVars, sockVars, recvVars, sendVars>>

\* The std::thread constructor throws, before anything is assigned.
SpawnThrows(c) ==
    /\ pc[c] \in Spawning
    /\ Goto(c, "catch_stop")
    /\ UNCHANGED <<local, lifeVars, sockVars, recvVars, sendVars>>

\* running_.store(false) by the thread that owns the lifecycle.
StopRunning ==
    /\ running' = FALSE
    /\ epoch' = IF running THEN [epoch EXCEPT ![gen] = "stopped"] ELSE epoch

CatchStop(c) ==
    /\ pc[c] = "catch_stop"
    /\ StopRunning
    /\ Goto(c, "catch_ctl_close")
    /\ UNCHANGED <<local, lifecycle, joinable, gen, sockVars, recvVars,
                   sendVars>>

-----------------------------------------------------------------------------
\* SpectraBridgeClient::Disconnect, which is also all the destructor does.

DisconnectEnter(c) ==
    /\ pc[c] = "idle"
    /\ lifecycle = NoThread
    /\ lifecycle' = c
    /\ StopRunning
    /\ Goto(c, "dis_ctl_close")
    /\ UNCHANGED <<local, joinable, gen, sockVars, recvVars, sendVars>>

Joining == {"catch_ctl_join", "catch_img_join", "dis_ctl_join", "dis_img_join"}
JoinedWorker(label) ==
    IF label \in {"catch_ctl_join", "dis_ctl_join"} THEN "control" ELSE "image"
AfterJoin(label) ==
    CASE label = "catch_ctl_join" -> "catch_img_join"
      [] label = "catch_img_join" -> "con_failed"
      [] label = "dis_ctl_join"   -> "dis_img_join"
      [] OTHER                    -> "dis_done"

\* Mutation: detach() instead of join().
JoinDetaches(c) ==
    /\ pc[c] \in Joining
    /\ Goto(c, AfterJoin(pc[c]))
    /\ joinable' = [joinable EXCEPT ![JoinedWorker(pc[c])] = FALSE]
    /\ UNCHANGED <<local, running, lifecycle, gen, epoch, sockVars, recvVars,
                   sendVars>>

\* if (thread.joinable()) thread.join(): waits for the thread function to end.
Join(c) ==
    /\ pc[c] \in Joining
    /\ LET w == JoinedWorker(pc[c])
       IN  \/ /\ ~joinable[w]
              /\ Goto(c, AfterJoin(pc[c]))
              /\ UNCHANGED joinable
           \/ /\ joinable[w]
              /\ pc[w] = "done"
              /\ pc' = [pc EXCEPT ![c] = AfterJoin(pc[c]), ![w] = "none"]
              /\ joinable' = [joinable EXCEPT ![w] = FALSE]
    /\ UNCHANGED <<local, running, lifecycle, gen, epoch, sockVars, recvVars,
                   sendVars>>

Returning == {"con_refused", "con_failed", "con_ok", "dis_done"}

\* Mutation: the early return of a refused Connect keeps lifecycle_mutex_.
ReturnRefusedLocked(c) ==
    /\ pc[c] \in Returning
    /\ lifecycle' = IF pc[c] = "con_refused" THEN c ELSE NoThread
    /\ Goto(c, "idle")
    /\ UNCHANGED <<local, running, joinable, gen, epoch, sockVars, recvVars,
                   sendVars>>

\* Connect or Disconnect returns and releases lifecycle_mutex_.
Return(c) ==
    /\ pc[c] \in Returning
    /\ lifecycle' = NoThread
    /\ Goto(c, "idle")
    /\ UNCHANGED <<local, running, joinable, gen, epoch, sockVars, recvVars,
                   sendVars>>

-----------------------------------------------------------------------------
\* ControlReceiveLoop and ImageReceiveLoop.  Both read a first part, of which
\* only a failing receive is excused when running_ is already false, then the
\* rest of the message, then call back into the listener.

LoopTest(w) ==
    /\ pc[w] = "top"
    /\ part' = [part EXCEPT ![w] = "first"]
    /\ Goto(w, IF running THEN "recv_load" ELSE "done")
    /\ UNCHANGED <<local, on, took, reports, lifeVars, sockVars, sendVars>>

\* RecvAll loads the handle once, before its loop.
RecvLoad(w) ==
    /\ pc[w] = "recv_load"
    /\ local' = [local EXCEPT ![w] = handle[w]]
    /\ Goto(w, IF handle[w] = NoFd THEN "recv_failed" ELSE "recv")
    /\ UNCHANGED <<lifeVars, sockVars, recvVars, sendVars>>

\* recv() looks the descriptor up: EBADF, or it blocks on what it finds there.
RecvCall(w) ==
    /\ pc[w] = "recv"
    /\ LET conn == table[local[w]]
       IN  \/ /\ conn = NoConn
              /\ local' = [local EXCEPT ![w] = NoFd]
              /\ Goto(w, "recv_failed")
              /\ UNCHANGED on
           \/ /\ conn # NoConn
              /\ on' = [on EXCEPT ![w] = conn]
              /\ Goto(w, "recv_wait")
              /\ UNCHANGED local
    /\ UNCHANGED <<part, took, reports, lifeVars, sockVars, sendVars>>

Open(conn) == \E f \in Fds : table[f] = conn
Woken(conn) == CloseWakesRecv /\ ~Open(conn)

\* Some of the bytes arrive; the loop calls recv() again on the same handle.
RecvSome(w) ==
    /\ pc[w] = "recv_wait"
    /\ on[w] \in peerUp
    /\ ~Woken(on[w])
    /\ on' = [on EXCEPT ![w] = NoConn]
    /\ Goto(w, "recv")
    /\ UNCHANGED <<local, part, took, reports, lifeVars, sockVars, sendVars>>

\* The last of the bytes arrive and RecvAll returns true; the part read is
\* accepted, or it is malformed (type, header, dimensions, length, CRC ...).
RecvLast(w) ==
    /\ pc[w] = "recv_wait"
    /\ on[w] \in peerUp
    /\ ~Woken(on[w])
    /\ on' = [on EXCEPT ![w] = NoConn]
    /\ local' = [local EXCEPT ![w] = NoFd]
    /\ \/ /\ part[w] = "first"
          /\ part' = [part EXCEPT ![w] = "rest"]
          /\ Goto(w, "recv_load")
       \/ /\ part[w] = "rest"
          /\ Goto(w, "callback")
          /\ UNCHANGED part
       \/ /\ Goto(w, "fail")
          /\ UNCHANGED part
    /\ UNCHANGED <<took, reports, lifeVars, sockVars, sendVars>>

\* recv() returns 0 or an error and RecvAll returns false: the peer has closed,
\* the close has woken the call, or the connection fails for a reason of its own.
RecvError(w) ==
    /\ pc[w] = "recv_wait"
    /\ on' = [on EXCEPT ![w] = NoConn]
    /\ local' = [local EXCEPT ![w] = NoFd]
    /\ Goto(w, "recv_failed")
    /\ UNCHANGED <<part, took, reports, lifeVars, sockVars, sendVars>>

\* Mutation: a failing first receive always ends the thread in silence.
AfterRecvFailedSilent(w) ==
    /\ pc[w] = "recv_failed"
    /\ Goto(w, IF part[w] = "first" THEN "done" ELSE "fail")
    /\ UNCHANGED <<local, lifeVars, sockVars, recvVars, sendVars>>

AfterRecvFailed(w) ==
    /\ pc[w] = "recv_failed"
    /\ Goto(w, IF part[w] = "first" /\ ~running THEN "done" ELSE "fail")
    /\ UNCHANGED <<local, lifeVars, sockVars, recvVars, sendVars>>

\* OnStatusPacket, OnConfigAckPacket, OnImageFrameReady or OnHdrImageFrameReady
\* returns.
CallbackReturns(w) ==
    /\ pc[w] = "callback"
    /\ Goto(w, "top")
    /\ UNCHANGED <<local, lifeVars, sockVars, recvVars, sendVars>>

\* Mutation: was_running is not asked for.
FailExchangeAlwaysReports(w) ==
    /\ pc[w] = "fail"
    /\ took' = [took EXCEPT ![w] = gen]
    /\ running' = FALSE
    /\ epoch' = IF running THEN [epoch EXCEPT ![gen] = "failed"] ELSE epoch
    /\ Goto(w, "fail_ctl_close")
    /\ UNCHANGED <<local, part, on, reports, lifecycle, joinable, gen, sockVars,
                   sendVars>>
\* Mutation: running_ is stored before it is exchanged, so was_running is false.
FailExchangeAfterStore(w) ==
    /\ pc[w] = "fail"
    /\ running' = FALSE
    /\ epoch' = IF running THEN [epoch EXCEPT ![gen] = "failed"] ELSE epoch
    /\ Goto(w, "fail_ctl_close")
    /\ UNCHANGED <<local, recvVars, lifecycle, joinable, gen, sockVars, sendVars>>

\* HandleWorkerFailure: was_running = running_.exchange(false), then Close() on
\* both channels (CloseExchange and CloseNative above), then Report.
FailExchange(w) ==
    /\ pc[w] = "fail"
    /\ took' = [took EXCEPT ![w] = IF running THEN gen ELSE 0]
    /\ running' = FALSE
    /\ epoch' = IF running THEN [epoch EXCEPT ![gen] = "failed"] ELSE epoch
    /\ Goto(w, "fail_ctl_close")
    /\ UNCHANGED <<local, part, on, reports, lifecycle, joinable, gen, sockVars,
                   sendVars>>

\* if (was_running) OnTransportError(...); the thread function ends.
Report(w) ==
    /\ pc[w] = "report"
    /\ reports' = IF took[w] # 0 THEN [reports EXCEPT ![took[w]] = @ + 1]
                                 ELSE reports
    /\ took' = [took EXCEPT ![w] = 0]
    /\ Goto(w, "done")
    /\ UNCHANGED <<local, part, on, lifeVars, sockVars, sendVars>>

-----------------------------------------------------------------------------
\* SendControlBytes and the SendAll under it.  A packet goes out as a head and a
\* tail: send() may accept less than it is given, and SendAll's loop goes on.

\* Mutation: control_send_mutex_ is not taken.
SendEnterNoMutex(s) ==
    /\ pc[s] = "idle"
    /\ nsent[s] < MaxSends
    /\ nsent' = [nsent EXCEPT ![s] = @ + 1]
    /\ Goto(s, IF running THEN "send_load" ELSE "send_failed")
    /\ UNCHANGED <<local, sendLock, wire, broken, lifeVars, sockVars, recvVars>>

SendEnter(s) ==
    /\ pc[s] = "idle"
    /\ sendLock = NoThread
    /\ nsent[s] < MaxSends
    /\ sendLock' = s
    /\ nsent' = [nsent EXCEPT ![s] = @ + 1]
    /\ Goto(s, IF running THEN "send_load" ELSE "send_failed")
    /\ UNCHANGED <<local, wire, broken, lifeVars, sockVars, recvVars>>

\* SendAll loads the handle once, before its loop.
SendLoad(s) ==
    /\ pc[s] = "send_load"
    /\ local' = [local EXCEPT ![s] = handle["control"]]
    /\ Goto(s, IF handle["control"] = NoFd THEN "send_failed" ELSE "send_head")
    /\ UNCHANGED <<lifeVars, sockVars, recvVars, sendVars>>

Sending == {"send_head", "send_tail"}
AfterSend(label) == IF label = "send_head" THEN "send_tail" ELSE "send_ok"
ChunkOf(s) == <<s, nsent[s], IF pc[s] = "send_head" THEN "head" ELSE "tail">>

\* send() accepts a chunk: it reaches the peer, or is lost with a peer that has
\* closed and not yet reset the connection.
SendChunk(s) ==
    /\ pc[s] \in Sending
    /\ LET conn == table[local[s]]
       IN  /\ conn # NoConn
           /\ wire' = IF conn \in peerUp
                      THEN [wire EXCEPT ![conn] = Append(@, ChunkOf(s))]
                      ELSE wire
    /\ Goto(s, AfterSend(pc[s]))
    /\ UNCHANGED <<local, sendLock, broken, nsent, lifeVars, sockVars, recvVars>>

\* send() fails: the descriptor is closed, the peer has gone, or the connection
\* fails for a reason of its own, perhaps with the head of the packet sent.
SendError(s) ==
    /\ pc[s] \in Sending
    /\ broken' = broken \cup {<<s, nsent[s]>>}
    /\ Goto(s, "send_failed")
    /\ UNCHANGED <<local, sendLock, wire, nsent, lifeVars, sockVars, recvVars>>

\* The call returns true or false and releases control_send_mutex_.
SendReturn(s) ==
    /\ pc[s] \in {"send_ok", "send_failed"}
    /\ sendLock' = NoThread
    /\ local' = [local EXCEPT ![s] = NoFd]
    /\ Goto(s, "idle")
    /\ UNCHANGED <<wire, broken, nsent, lifeVars, sockVars, recvVars>>

-----------------------------------------------------------------------------
\* The FPGA end of a connection that is open, or that a recv() still holds.

PeerCloses(conn) ==
    /\ conn \in peerUp
    /\ Open(conn) \/ \E w \in Channels : on[w] = conn
    /\ peerUp' = peerUp \ {conn}
    /\ UNCHANGED <<pc, local, handle, table, lifeVars, recvVars, sendVars>>

-----------------------------------------------------------------------------
\* What a controller inside a call does without waiting for another call.
ControllerStep(c) ==
    \/ CloseExchange(c) \/ CloseNative(c)
    \/ DialSucceeds(c) \/ DialFails(c)
    \/ StartRunning(c)
    \/ Spawn(c) \/ SpawnTerminates(c) \/ SpawnThrows(c)
    \/ CatchStop(c)
    \/ Join(c)
    \/ Return(c)

\* A recv() that neither the peer nor a close ends: it may fail, or wait for ever.
RecvWaits(w) == pc[w] = "recv_wait" /\ on[w] \in peerUp /\ ~Woken(on[w])

\* What a worker does without the peer sending anything.
WorkerStep(w) ==
    \/ LoopTest(w)
    \/ RecvLoad(w) \/ RecvCall(w) \/ RecvError(w) \/ AfterRecvFailed(w)
    \/ CallbackReturns(w)
    \/ FailExchange(w) \/ CloseExchange(w) \/ CloseNative(w) \/ Report(w)

SenderStep(s) ==
    SendLoad(s) \/ SendChunk(s) \/ SendError(s) \/ SendReturn(s)

\* After std::terminate no thread runs any more.
Dead == Terminated /\ UNCHANGED vars

Next ==
    \/ \E c \in Controllers :
          ConnectEnter(c) \/ DisconnectEnter(c) \/ ControllerStep(c)
    \/ \E w \in Channels : WorkerStep(w) \/ RecvSome(w) \/ RecvLast(w)
    \/ \E s \in Senders : SendEnter(s) \/ SenderStep(s)
    \/ \E conn \in Conns : PeerCloses(conn)
    \/ Dead

Spec == Init /\ [][Next]_vars

\* Every thread that can run eventually runs, and listeners and connect() return.
\* Nothing obliges the peer to send or to close, nor anyone to start a call.
Fairness ==
    /\ \A c \in Controllers : WF_vars(ControllerStep(c))
    /\ \A w \in Channels : WF_vars(~RecvWaits(w) /\ WorkerStep(w))
    /\ \A s \in Senders : WF_vars(SenderStep(s))

FairSpec == Spec /\ Fairness

-----------------------------------------------------------------------------
ControllerLabels ==
    {"dead", "idle", "con_running", "catch_stop"} \cup (Closing \ {"fail_ctl_close", "fail_img_close"})
    \cup Dialing \cup Spawning \cup Joining \cup Returning
SenderLabels == {"dead", "idle", "send_load", "send_ok", "send_failed"} \cup Sending
WorkerLabels ==
    {"dead", "none", "top", "recv_load", "recv", "recv_wait", "recv_failed", "callback",
     "fail", "fail_ctl_close", "fail_img_close", "report", "done"}

\* Every thread is at a label of its own role.
PcOK ==
    /\ pc \in [Threads -> ControllerLabels \cup SenderLabels \cup WorkerLabels]
    /\ \A c \in Controllers : pc[c] \in ControllerLabels
    /\ \A s \in Senders : pc[s] \in SenderLabels
    /\ \A w \in Channels : pc[w] \in WorkerLabels

DataOK ==
    /\ local \in [Threads -> Fds \cup {NoFd}]
    /\ handle \in [Channels -> Fds \cup {NoFd}]
    /\ table \in [Fds -> Conns \cup {NoConn}]
    /\ peerUp \subseteq Conns
    /\ running \in BOOLEAN
    /\ lifecycle \in Controllers \cup {NoThread}
    /\ sendLock \in Senders \cup {NoThread}
    /\ joinable \in [Channels -> BOOLEAN]
    /\ part \in [Channels -> {"first", "rest"}]
    /\ on \in [Channels -> Conns \cup {NoConn}]
    /\ took \in [Channels -> 0..MaxGen]
    /\ gen \in 0..MaxGen
    /\ epoch \in [Gens -> {"unused", "up", "failed", "stopped"}]
    /\ reports \in [Gens -> Nat]
    /\ wire \in [Conns -> Seq(Chunks)]
    /\ broken \subseteq Senders \X (0..MaxSends)
    /\ nsent \in [Senders -> 0..MaxSends]

\* The scope of the two lock_guards: no call returns with its mutex.
LocksOK ==
    /\ \A c \in Controllers : lifecycle = c => pc[c] # "idle"
    /\ \A s \in Senders : sendLock = s => pc[s] # "idle"

\* Every variable has the type of the C++ object it models, every thread is at a
\* label of its own role, and the owner of a mutex is inside a call that takes it.
TypeOK == PcOK /\ DataOK /\ LocksOK

-----------------------------------------------------------------------------
\* The descriptors a thread or a TcpClient must still close.
Owners(f) ==
    {<<"socket_handle_", ch>> : ch \in {x \in Channels : handle[x] = f}}
        \cup {<<"previous", t>> :
                t \in {x \in Threads : pc[x] \in Closing /\ local[x] = f}}

\* Close() is safe to call from several threads: an open descriptor has exactly
\* one owner, a closed one has none.  Two owners would close a descriptor twice,
\* the second time perhaps another connection's; an open descriptor without an
\* owner leaks.
DescriptorsHaveOneOwner ==
    ~Terminated =>
        \A f \in Fds : IF table[f] = NoConn THEN Owners(f) = {}
                                            ELSE \E o \in Owners(f) : Owners(f) = {o}

\* However the two workers and Disconnect race, an attempt's running_ is cleared
\* by one of them: the listener hears of at most one OnTransportError per
\* attempt, and of none when Connect or Disconnect ended it.
OneErrorPerAttempt ==
    \A g \in Gens : reports[g] <= IF epoch[g] = "failed" THEN 1 ELSE 0

\* When Disconnect returns nothing of the session is left: no worker that could
\* still call back, no open socket.
DisconnectLeavesNothing ==
    \A c \in Controllers : pc[c] = "dis_done" =>
        /\ \A w \in Channels : pc[w] = "none"
        /\ \A f \in Fds : table[f] = NoConn

\* When Connect fails, it has closed what it opened, but for a socket that a
\* worker of an earlier session took to close it.
FailedConnectLeavesNothing ==
    \A c \in Controllers : pc[c] = "con_failed" =>
        \A f \in Fds, ch \in Channels : table[f] = <<gen, ch>> =>
            \E w \in Channels : pc[w] \in Closing /\ local[w] = f

\* While running_ is set and no lifecycle call is under way, both workers serve
\* the session, and each receives from its own connection of this attempt and
\* from no other, whatever was closed and reopened before.
Receiving(w) == pc[w] \in {"recv", "recv_wait"}
RunningIsServed ==
    running /\ lifecycle = NoThread =>
        \A w \in Channels :
            /\ pc[w] \notin {"none", "done"}
            /\ handle[w] # NoFd
            /\ table[handle[w]] = <<gen, w>>
            /\ Receiving(w) => local[w] = handle[w]
            /\ pc[w] = "recv_wait" => on[w] = <<gen, w>>

\* control_send_mutex_: on every connection the head of a packet is followed by
\* its own tail, unless its send() failed and its SendXxx returned false.
Followed(conn, i) ==
    wire[conn][i + 1] = <<wire[conn][i][1], wire[conn][i][2], "tail">>
PacketsNeverInterleave ==
    \A conn \in Conns : \A i \in 1..(Len(wire[conn]) - 1) :
        wire[conn][i][3] = "head" =>
            \/ Followed(conn, i)
            \/ <<wire[conn][i][1], wire[conn][i][2]>> \in broken

\* TcpClient.h:25 says SendAll sends the whole packet or fails.  Then no
\* connection receives a tail without its head.
SendAllIsWhole ==
    \A conn \in Conns : \A i \in 1..Len(wire[conn]) :
        wire[conn][i][3] = "tail" =>
            /\ i > 1
            /\ wire[conn][i - 1] = <<wire[conn][i][1], wire[conn][i][2], "head">>

\* BridgeCallbacks.h:26 has the upper layer reconnect when a link fails: calling
\* Connect then must not end the process.
ReconnectIsSafe == ~Terminated

\* Sockets, locks and races hidden, the client is a Session: after Stop and
\* Settle it calls nobody back, and every session that fails by itself, and no
\* other, leaves one report to one worker.
Sess == INSTANCE Session WITH
    Workers <- Channels,
    up      <- running,
    live    <- running \/ \E w \in Channels : joinable[w],
    calling <- {w \in Channels : pc[w] = "callback"},
    owed    <- {w \in Channels : took[w] # 0},
    dead    <- Terminated
ImplementsSession == Sess!Spec

\* A Disconnect that got lifecycle_mutex_ returns: both workers notice that
\* their sockets are closed and end.
DisconnectReturns ==
    \A c \in Controllers : pc[c] = "dis_ctl_close" ~> pc[c] = "idle"

\* Every failed session is reported to the listener, unless the process ends.
FailureIsReported ==
    \A g \in Gens : epoch[g] = "failed" ~> (reports[g] = 1 \/ Terminated)

\* One worker's failure ends the other: "any worker's failure ends the session".
FailureStopsBoth ==
    \A w \in Channels :
        pc[w] = "fail" ~> \/ Terminated
                          \/ \A v \in Channels : pc[v] \in {"done", "none"}
=============================================================================
