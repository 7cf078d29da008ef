------------------------ MODULE BridgeSession_serving ------------------------
(***************************************************************************)
(* Which connection is behind a socket handle, for any number of            *)
(* controllers, senders, descriptors and attempts: a running session is     *)
(* served by its own connections, a failed Connect leaves none of its own,  *)
(* and packets never interleave on any of them.                             *)
(***************************************************************************)
EXTENDS BridgeSession_proofs

\* A connection that has not been made yet.
BeforeControl == {"con_ctl_close", "con_ctl_dial"}
BeforeImage == BeforeControl \cup {"con_img_close", "con_img_dial", "con_rollback"}
Unmade(g, ch) ==
    \/ g > gen
    \/ /\ g = gen
       /\ \E c \in Controllers :
             pc[c] \in BeforeControl \/ (ch = "image" /\ pc[c] \in BeforeImage)

\* Connections are made once, each for the handle of its channel, and have one
\* descriptor.
MadeInv ==
    /\ \A g \in Gens, ch \in Channels : Unmade(g, ch) =>
          <<g, ch>> \notin peerUp /\ wire[<<g, ch>>] = <<>> /\ ~Open(<<g, ch>>)
    /\ \A f, e \in Fds : table[f] = table[e] /\ table[f] # NoConn => f = e
    /\ \A ch \in Channels : handle[ch] # NoFd => \E g \in Gens : table[handle[ch]] = <<g, ch>>

\* The threads of a Connect that has failed, and of a Disconnect, find nothing running.
Idling == {"idle", "con_refused", "con_ok"}
RunningInv ==
    /\ running => \A c \in Controllers : pc[c] \in Idling \cup Spawning \cup {"catch_stop", "dead"}
    /\ Terminated => lifecycle # NoThread

Own(ch) == handle[ch] # NoFd /\ table[handle[ch]] = <<gen, ch>>
Serves(w) ==
    /\ pc[w] \in {"top", "recv_load", "recv", "recv_wait", "recv_failed", "callback", "fail"}
    /\ Receiving(w) => local[w] = handle[w]
    /\ pc[w] = "recv_wait" => on[w] = <<gen, w>>

\* A Connect that no worker of an earlier session can disturb has its own
\* connections from the moment it made them, and so has the session it starts,
\* as long as it runs.
ServedInv ==
    /\ \A c \in Controllers :
          (\A w \in Channels : ~joinable[w]) =>
              /\ pc[c] \in {"con_img_close", "con_img_dial", "con_running", "con_ctl_spawn"}
                    => Own("control")
              /\ pc[c] \in {"con_running", "con_ctl_spawn"} => Own("image")
    /\ \A c \in Controllers :
          pc[c] = "con_img_spawn" /\ running /\ ~joinable["image"] =>
              Own("control") /\ Own("image") /\ Serves("control")
    /\ running /\ (\A c \in Controllers : pc[c] \in Idling) =>
          \A w \in Channels : Own(w) /\ Serves(w)

\* A Connect that failed has given up its image connection.
FailedInv ==
    \A c \in Controllers : pc[c] = "con_failed" =>
        handle["image"] = NoFd \/ table[handle["image"]] # <<gen, "image">>

\* Where a Connect is from its check of running_ until it returns.
Attempting == Connecting \cup Spawning \cup
    {"con_rollback", "con_failed", "catch_stop", "catch_ctl_close", "catch_img_close",
     "catch_ctl_join", "catch_img_join"}
TriedInv == \A c \in Controllers : pc[c] \in Attempting => gen # 0

\* control_send_mutex_, and a packet that is not finished: its sender is about
\* to, or nothing more can be sent on that connection.
SendInv == \A s \in Senders : pc[s] \notin {"idle", "dead"} => sendLock = s
Ends(conn, s, n) == wire[conn] # <<>> /\ wire[conn][Len(wire[conn])] = <<s, n, "head">>
WireInv ==
    \A conn \in Conns, s \in Senders, n \in 0..MaxSends : Ends(conn, s, n) =>
        \/ pc[s] = "send_tail" /\ nsent[s] = n /\ table[local[s]] = conn
        \/ <<s, n>> \in broken
        \/ conn \notin peerUp
        \/ ~Open(conn)
        \/ Terminated

CInv == MadeInv /\ RunningInv /\ ServedInv /\ FailedInv /\ TriedInv /\ SendInv /\ WireInv
        /\ PacketsNeverInterleave

\* What the proofs use of IInv: the types of the functions, who is inside a call,
\* and who owns which descriptor.
Known ==
    /\ pc \in [Threads -> ControllerLabels \cup SenderLabels \cup WorkerLabels]
    /\ \A w \in Channels : pc[w] \in WorkerLabels
    /\ \A s \in Senders : pc[s] \in SenderLabels
    /\ \A c \in Controllers : pc[c] \in ControllerLabels
    /\ local \in [Threads -> Fds \cup {NoFd}] /\ handle \in [Channels -> Fds \cup {NoFd}]
    /\ table \in [Fds -> Conns \cup {NoConn}]
    /\ joinable \in [Channels -> BOOLEAN] /\ on \in [Channels -> Conns \cup {NoConn}]
    /\ running \in BOOLEAN /\ gen \in 0..MaxGen
    /\ wire \in [Conns -> Seq(Chunks)] /\ nsent \in [Senders -> 0..MaxSends]
    /\ LifecycleInv /\ TerminateInv /\ AttemptInv /\ LocalInv /\ ClosedInv /\ OwnerInv /\ JoinInv

LEMMA KnownFacts == ASSUME IInv PROVE Known
  BY DEF IInv, TypeOK, PcOK, DataOK, Known

-----------------------------------------------------------------------------
\* Whoever takes a step: no thread is dead, and a controller that does is the
\* only one inside a call.
LEMMA Alone ==
    ASSUME Known, NEW c \in Controllers,
           ConnectEnter(c) \/ DisconnectEnter(c) \/ ControllerStep(c)
    PROVE  /\ \A d \in Controllers \ {c} : pc[d] = "idle"
           /\ \A t \in Threads : pc[t] # "dead"
           /\ ~Terminated
<1>1. pc[c] # "dead" /\ (pc[c] # "idle" \/ lifecycle = NoThread)
  BY DEF ConnectEnter, DisconnectEnter, ControllerStep, CloseExchange, CloseNative,
     DialSucceeds, DialFails, StartRunning, Spawn, SpawnTerminates, SpawnThrows,
     CatchStop, Join, Return, Closing, ClosesControl, ClosesImage, Dialing, Spawning,
     Joining, Returning
<1>2. (\A t \in Threads : pc[t] # "dead") /\ ~Terminated
  BY <1>1 DEF Known, TerminateInv, Terminated, Threads
<1> QED
  BY <1>1, <1>2, ThreadsAssumption DEF Known, LifecycleInv, Threads

LEMMA WorkerLives ==
    ASSUME Known, NEW w \in Channels, WorkerStep(w) \/ RecvSome(w) \/ RecvLast(w)
    PROVE  (\A t \in Threads : pc[t] # "dead") /\ ~Terminated
<1>1. pc[w] # "dead"
  BY DEF WorkerStep, LoopTest, RecvLoad, RecvCall, RecvSome, RecvLast, RecvError,
     AfterRecvFailed, CallbackReturns, FailExchange, CloseExchange, CloseNative, Report,
     Closing, ClosesControl, ClosesImage
<1> QED
  BY <1>1 DEF Known, TerminateInv, Terminated, Threads

LEMMA SenderLives ==
    ASSUME Known, NEW s \in Senders, SendEnter(s) \/ SenderStep(s)
    PROVE  (\A t \in Threads : pc[t] # "dead") /\ ~Terminated
<1>1. pc[s] # "dead"
  BY DEF SenderStep, SendEnter, SendLoad, SendChunk, SendError, SendReturn, Sending
<1> QED
  BY <1>1 DEF Known, TerminateInv, Terminated, Threads

\* The native close frees a descriptor that no TcpClient holds, and no other.
LEMMA CloseNativeTable ==
    ASSUME Known, NEW t \in Threads, CloseNative(t)
    PROVE  /\ \A f \in Fds : table'[f] = table[f] \/ table'[f] = NoConn
           /\ \A ch \in Channels : handle[ch] # NoFd => table'[handle[ch]] = table[handle[ch]]
           /\ \A conn \in Conns : Open(conn)' => Open(conn)
<1>1. /\ local[t] \in Fds /\ table' = [table EXCEPT ![local[t]] = NoConn]
      /\ Owning(t)
  BY DEF Known, CloseNative, Owning
<1>2. \A f \in Fds : table'[f] = table[f] \/ table'[f] = NoConn
  BY <1>1 DEF Known
<1>3. \A ch \in Channels : handle[ch] # NoFd => table'[handle[ch]] = table[handle[ch]]
  BY <1>1 DEF Known, OwnerInv
<1>4. \A conn \in Conns : Open(conn)' => Open(conn)
  BY <1>2, SocketsAssumption DEF Open
<1> QED
  BY <1>2, <1>3, <1>4

\* A dial gives a free descriptor to a connection of this attempt, and to the
\* channel's TcpClient.
LEMMA DialTable ==
    ASSUME Known, NEW c \in Controllers, DialSucceeds(c)
    PROVE  \E f \in Fds :
             /\ table[f] = NoConn
             /\ table' = [table EXCEPT ![f] = <<gen, DialedChannel(pc[c])>>]
             /\ handle' = [handle EXCEPT ![DialedChannel(pc[c])] = f]
             /\ gen \in Gens /\ DialedChannel(pc[c]) \in Channels
<1>1. gen \in Gens /\ DialedChannel(pc[c]) \in Channels
  BY DEF Known, DialSucceeds, Dialing, DialedChannel, AttemptInv, Connecting, Gens,
     Channels
<1> QED
  BY <1>1 DEF DialSucceeds

\* What a controller's step leaves alone, unless it terminates the process.
LEMMA ControllerFrame ==
    ASSUME Known, NEW c \in Controllers, ~SpawnTerminates(c),
           ConnectEnter(c) \/ DisconnectEnter(c) \/ ControllerStep(c)
    PROVE  /\ sendVars' = sendVars
           /\ \A s \in Senders : pc'[s] = pc[s] /\ local'[s] = local[s]
           /\ (table' = table /\ peerUp' = peerUp) \/ CloseNative(c) \/ DialSucceeds(c)
<1> USE ThreadsAssumption
<1> USE DEF Known, Goto, Threads, sendVars, sockVars, lifeVars, recvVars
<1>1. CASE ConnectEnter(c)
  BY <1>1 DEF ConnectEnter
<1>2. CASE DisconnectEnter(c)
  BY <1>2 DEF DisconnectEnter, StopRunning
<1>3. CASE CloseExchange(c)
  BY <1>3 DEF CloseExchange
<1>4. CASE CloseNative(c)
  BY <1>4 DEF CloseNative
<1>5. CASE DialSucceeds(c)
  BY <1>5 DEF DialSucceeds
<1>6. CASE DialFails(c)
  BY <1>6 DEF DialFails
<1>7. CASE StartRunning(c)
  BY <1>7 DEF StartRunning
<1>8. CASE Spawn(c)
  BY <1>8 DEF Spawn, SpawnedWorker, Channels
<1>9. CASE SpawnThrows(c)
  BY <1>9 DEF SpawnThrows
<1>10. CASE CatchStop(c)
  BY <1>10 DEF CatchStop, StopRunning
<1>11. CASE Join(c)
  BY <1>11 DEF Join, JoinedWorker, Channels
<1>12. CASE Return(c)
  BY <1>12 DEF Return
<1> QED
  BY <1>1, <1>2, <1>3, <1>4, <1>5, <1>6, <1>7, <1>8, <1>9, <1>10, <1>11, <1>12
     DEF ControllerStep

\* What a worker's step leaves alone.
LEMMA WorkerFrame ==
    ASSUME Known, NEW w \in Channels, WorkerStep(w) \/ RecvSome(w) \/ RecvLast(w)
    PROVE  /\ <<sendVars, gen, lifecycle, joinable, peerUp>>'
                  = <<sendVars, gen, lifecycle, joinable, peerUp>>
           /\ running' => running
           /\ \A t \in Threads \ {w} : pc'[t] = pc[t] /\ local'[t] = local[t]
           /\ pc'[w] # "dead"
           /\ \A ch \in Channels : handle'[ch] = handle[ch] \/ handle'[ch] = NoFd
           /\ table' = table \/ CloseNative(w)
<1> USE DEF Known, Goto, Threads, sendVars, sockVars, lifeVars, recvVars
<1>1. CASE LoopTest(w)
  BY <1>1 DEF LoopTest
<1>2. CASE RecvLoad(w)
  BY <1>2 DEF RecvLoad
<1>3. CASE RecvCall(w)
  BY <1>3 DEF RecvCall
<1>4. CASE RecvSome(w)
  BY <1>4 DEF RecvSome
<1>5. CASE RecvLast(w)
  BY <1>5 DEF RecvLast
<1>6. CASE RecvError(w)
  BY <1>6 DEF RecvError
<1>7. CASE AfterRecvFailed(w)
  BY <1>7 DEF AfterRecvFailed
<1>8. CASE CallbackReturns(w)
  BY <1>8 DEF CallbackReturns
<1>9. CASE FailExchange(w)
  BY <1>9 DEF FailExchange
<1>10. CASE CloseExchange(w)
  BY <1>10 DEF CloseExchange, ClosedChannel, AfterClose, Closing, ClosesControl,
     ClosesImage, Channels
<1>11. CASE CloseNative(w)
  BY <1>11 DEF CloseNative, AfterClose
<1>12. CASE Report(w)
  BY <1>12 DEF Report
<1> QED
  BY <1>1, <1>2, <1>3, <1>4, <1>5, <1>6, <1>7, <1>8, <1>9, <1>10, <1>11, <1>12
     DEF WorkerStep

\* What a sender's step leaves alone.
LEMMA SenderFrame ==
    ASSUME Known, NEW s \in Senders, SendEnter(s) \/ SenderStep(s)
    PROVE  /\ <<lifeVars, sockVars, recvVars>>' = <<lifeVars, sockVars, recvVars>>
           /\ \A t \in Threads \ {s} : pc'[t] = pc[t] /\ local'[t] = local[t]
           /\ pc'[s] # "dead"
           /\ wire' = wire \/ SendChunk(s)
           /\ broken \subseteq broken'
<1> USE DEF Known, Goto, Threads, sendVars, sockVars, lifeVars, recvVars
<1>1. CASE SendEnter(s)
  BY <1>1 DEF SendEnter
<1>2. CASE SendLoad(s)
  BY <1>2 DEF SendLoad
<1>3. CASE SendChunk(s)
  BY <1>3 DEF SendChunk, AfterSend
<1>4. CASE SendError(s)
  BY <1>4 DEF SendError
<1>5. CASE SendReturn(s)
  BY <1>5 DEF SendReturn
<1> QED
  BY <1>1, <1>2, <1>3, <1>4, <1>5 DEF SenderStep

-----------------------------------------------------------------------------
\* DialSucceeds makes connections, and nothing else does.
LEMMA MadeStep == IInv /\ CInv /\ [Next]_vars => MadeInv'
<1> SUFFICES ASSUME IInv, CInv, [Next]_vars PROVE MadeInv'
  OBVIOUS
<1> USE ThreadsAssumption, SocketsAssumption
<1> USE DEF Goto, Threads, Channels, lifeVars, sockVars, recvVars, sendVars,
        Closing, ClosesControl, ClosesImage, Dialing, Spawning, Joining, Returning
<1>t. Known
  BY KnownFacts
<1>i. MadeInv /\ RunningInv /\ ServedInv /\ FailedInv /\ TriedInv /\ SendInv /\ WireInv
      /\ PacketsNeverInterleave
  BY DEF CInv
<1> USE DEF Known
<1>1. ASSUME NEW c \in Controllers, ConnectEnter(c) \/ DisconnectEnter(c) \/ ControllerStep(c)
      PROVE  MadeInv'
  <2>a. /\ \A d \in Controllers \ {c} : pc[d] = "idle"
        /\ \A t \in Threads : pc[t] # "dead"
        /\ ~Terminated
    BY <1>t, <1>1, Alone
  <2>1. CASE ConnectEnter(c)
    <3>1. \A g \in Gens, ch \in Channels : Unmade(g, ch)' => Unmade(g, ch)
      <4>1. CASE gen' = gen /\ pc'[c] = "con_refused"
        BY <1>t, <2>a, <2>1, <4>1 DEF ConnectEnter, Unmade, BeforeControl, BeforeImage
      <4>2. CASE gen' = gen + 1
        BY <1>t, <4>2 DEF Unmade, Gens
      <4> QED
        BY <1>t, <2>1, <4>1, <4>2 DEF ConnectEnter
    <3> QED
      BY <1>i, <2>1, <3>1 DEF ConnectEnter, MadeInv, Open
  <2>2. CASE DisconnectEnter(c)
    BY <1>i, <2>2 DEF DisconnectEnter, MadeInv, Unmade, BeforeControl, BeforeImage, Open
  <2>3. CASE CloseExchange(c)
    BY <1>t, <1>i, <2>3 DEF CloseExchange, MadeInv, Unmade, BeforeControl, BeforeImage,
       Open, AfterClose
  <2>4. CASE CloseNative(c)
    <3>1. /\ \A f \in Fds : table'[f] = table[f] \/ table'[f] = NoConn
          /\ \A ch \in Channels : handle[ch] # NoFd => table'[handle[ch]] = table[handle[ch]]
          /\ \A conn \in Conns : Open(conn)' => Open(conn)
      BY <1>t, <2>4, CloseNativeTable DEF Known
    <3>2. \A g \in Gens, ch \in Channels : Unmade(g, ch)' => Unmade(g, ch)
      BY <1>t, <2>4 DEF CloseNative, Unmade, BeforeControl, BeforeImage, AfterClose
    <3>3. <<wire, peerUp, handle>>' = <<wire, peerUp, handle>>
      BY <2>4 DEF CloseNative
    <3>4. \A f, e \in Fds : table'[f] = table'[e] /\ table'[f] # NoConn => f = e
      BY <1>i, <3>1 DEF MadeInv
    <3>5. \A g \in Gens, ch \in Channels : <<g, ch>> \in Conns
      BY DEF Conns
    <3> QED
      BY <1>i, <3>1, <3>2, <3>3, <3>4, <3>5 DEF MadeInv
  <2>5. CASE DialSucceeds(c)
    <3> DEFINE ch == DialedChannel(pc[c])
    <3>1. PICK f \in Fds : /\ table[f] = NoConn
                           /\ table' = [table EXCEPT ![f] = <<gen, ch>>]
                           /\ handle' = [handle EXCEPT ![ch] = f]
                           /\ gen \in Gens /\ ch \in Channels
      BY <1>t, <2>5, DialTable DEF Known
    <3>2. Unmade(gen, ch)
      BY <2>5 DEF DialSucceeds, Unmade, BeforeControl, BeforeImage, DialedChannel
    <3>3. \A g \in Gens, k \in Channels :
              Unmade(g, k)' => Unmade(g, k) /\ <<g, k>> # <<gen, ch>>
      <4> SUFFICES ASSUME NEW g \in Gens, NEW k \in Channels, Unmade(g, k)', g = gen
                   PROVE  Unmade(g, k) /\ k # ch
        BY <2>5 DEF DialSucceeds, Unmade
      <4>1. gen' = gen /\ (\A d \in Controllers \ {c} : pc'[d] = "idle")
        BY <1>t, <2>a, <2>5 DEF DialSucceeds
      <4>2. CASE pc[c] = "con_ctl_dial" /\ pc'[c] = "con_img_close"
        <5>1. k = "image"
          BY <1>t, <4>1, <4>2 DEF Unmade, BeforeControl, Gens
        <5> QED
          BY <4>2, <5>1 DEF Unmade, BeforeControl, DialedChannel
      <4>3. CASE pc[c] = "con_img_dial" /\ pc'[c] = "con_running"
        <5>1. \A d \in Controllers : pc'[d] \notin BeforeControl \cup BeforeImage
          BY <4>1, <4>3 DEF BeforeControl, BeforeImage
        <5>2. ~(g > gen)
          BY <1>t DEF Gens
        <5> QED
          BY <4>1, <5>1, <5>2 DEF Unmade
      <4> QED
        BY <1>t, <2>5, <4>2, <4>3 DEF DialSucceeds, DialedChannel
    <3>4. peerUp' = peerUp \cup {<<gen, ch>>} /\ wire' = wire
      BY <2>5 DEF DialSucceeds
    <3>5. \A e \in Fds : table[e] # <<gen, ch>>
      BY <1>i, <3>1, <3>2 DEF MadeInv, Open
    <3> HIDE DEF ch
    <3>6. \A d, e \in Fds : table'[d] = table'[e] /\ table'[d] # NoConn => d = e
      BY <1>t, <1>i, <3>1, <3>5 DEF MadeInv
    <3>7. \A g \in Gens, k \in Channels : Unmade(g, k)' =>
              <<g, k>> \notin peerUp' /\ wire'[<<g, k>>] = <<>> /\ ~Open(<<g, k>>)'
      BY <1>t, <1>i, <3>1, <3>3, <3>4 DEF MadeInv, Open
    <3>8. \A k \in Channels : handle'[k] # NoFd =>
              \E g \in Gens : table'[handle'[k]] = <<g, k>>
      <4> SUFFICES ASSUME NEW k \in Channels, handle'[k] # NoFd
                   PROVE  \E g \in Gens : table'[handle'[k]] = <<g, k>>
        OBVIOUS
      <4>1. CASE k = ch
        BY <1>t, <3>1, <4>1
      <4>2. CASE k # ch
        <5>1. handle'[k] = handle[k] /\ handle[k] \in Fds
          BY <1>t, <3>1, <4>2
        <5>2. PICK g \in Gens : table[handle[k]] = <<g, k>>
          BY <1>i, <5>1 DEF MadeInv
        <5>3. handle[k] # f
          BY <3>1, <5>2 DEF Conns
        <5> QED
          BY <1>t, <3>1, <5>1, <5>2, <5>3
      <4> QED
        BY <4>1, <4>2
    <3> QED
      BY <3>6, <3>7, <3>8 DEF MadeInv
  <2>6. CASE DialFails(c)
    BY <1>i, <2>6 DEF DialFails, MadeInv, Unmade, BeforeControl, BeforeImage, Open
  <2>7. CASE StartRunning(c)
    BY <1>i, <2>7 DEF StartRunning, MadeInv, Unmade, BeforeControl, BeforeImage, Open
  <2>8. CASE Spawn(c)
    BY <1>t, <1>i, <2>8 DEF Spawn, MadeInv, Unmade, BeforeControl, BeforeImage, Open
  <2>9. CASE SpawnTerminates(c)
    BY <1>i, <2>9 DEF SpawnTerminates, MadeInv, Unmade, BeforeControl, BeforeImage, Open
  <2>10. CASE SpawnThrows(c)
    BY <1>i, <2>10 DEF SpawnThrows, MadeInv, Unmade, BeforeControl, BeforeImage, Open
  <2>11. CASE CatchStop(c)
    BY <1>i, <2>11 DEF CatchStop, MadeInv, Unmade, BeforeControl, BeforeImage, Open
  <2>12. CASE Join(c)
    BY <1>t, <1>i, <2>12 DEF Join, MadeInv, Unmade, BeforeControl, BeforeImage, Open,
       JoinedWorker, AfterJoin
  <2>13. CASE Return(c)
    BY <1>i, <2>13 DEF Return, MadeInv, Unmade, BeforeControl, BeforeImage, Open
  <2> QED
    BY <1>1, <2>1, <2>2, <2>3, <2>4, <2>5, <2>6, <2>7, <2>8, <2>9, <2>10, <2>11, <2>12,
       <2>13 DEF ControllerStep
<1>2. ASSUME NEW w \in Channels, WorkerStep(w) \/ RecvSome(w) \/ RecvLast(w)
      PROVE  MadeInv'
  <2>f. /\ <<sendVars, gen, lifecycle, joinable, peerUp>>'
              = <<sendVars, gen, lifecycle, joinable, peerUp>>
        /\ running' => running
        /\ \A t \in Threads \ {w} : pc'[t] = pc[t] /\ local'[t] = local[t]
        /\ pc'[w] # "dead"
        /\ \A ch \in Channels : handle'[ch] = handle[ch] \/ handle'[ch] = NoFd
        /\ table' = table \/ CloseNative(w)
    BY <1>t, <1>2, WorkerFrame
  <2>1. \A g \in Gens, ch \in Channels : Unmade(g, ch)' => Unmade(g, ch)
    BY <2>f DEF Unmade
  <2>2. /\ \A f \in Fds : table'[f] = table[f] \/ table'[f] = NoConn
        /\ \A ch \in Channels : handle[ch] # NoFd => table'[handle[ch]] = table[handle[ch]]
        /\ \A conn \in Conns : Open(conn)' => Open(conn)
    BY <1>t, <2>f, CloseNativeTable DEF Open, Known
  <2>3. \A f, e \in Fds : table'[f] = table'[e] /\ table'[f] # NoConn => f = e
    BY <1>i, <2>2 DEF MadeInv
  <2>4. \A ch \in Channels : handle'[ch] # NoFd => \E g \in Gens : table'[handle'[ch]] = <<g, ch>>
    BY <1>i, <2>f, <2>2 DEF MadeInv
  <2> QED
    BY <1>i, <2>f, <2>1, <2>2, <2>3, <2>4 DEF MadeInv, Conns
<1>3. ASSUME NEW s \in Senders, SendEnter(s) \/ SenderStep(s)
      PROVE  MadeInv'
  <2>f. /\ <<lifeVars, sockVars, recvVars>>' = <<lifeVars, sockVars, recvVars>>
        /\ \A t \in Threads \ {s} : pc'[t] = pc[t] /\ local'[t] = local[t]
        /\ pc'[s] # "dead"
        /\ wire' = wire \/ SendChunk(s)
    BY <1>t, <1>3, SenderFrame
  <2>1. \A g \in Gens, ch \in Channels : Unmade(g, ch)' => Unmade(g, ch)
    BY <2>f DEF Unmade
  <2>2. \A g \in Gens, ch \in Channels : Unmade(g, ch) => wire'[<<g, ch>>] = wire[<<g, ch>>]
    <3>1. CASE SendChunk(s)
      <4>1. Open(table[local[s]])
        BY <1>t, <3>1 DEF SendChunk, LocalInv, Open
      <4>2. \A k \in Conns : k # table[local[s]] => wire'[k] = wire[k]
        BY <1>t, <3>1 DEF SendChunk
      <4> QED
        BY <1>i, <4>1, <4>2 DEF MadeInv, Conns
    <3> QED
      BY <2>f, <3>1
  <2> QED
    BY <1>i, <2>f, <2>1, <2>2 DEF MadeInv, Open
<1>4. ASSUME NEW conn \in Conns, PeerCloses(conn)
      PROVE  MadeInv'
  BY <1>t, <1>i, <1>4 DEF PeerCloses, MadeInv, Unmade, BeforeControl, BeforeImage, Open
<1>5. CASE UNCHANGED vars
  BY <1>t, <1>i, <1>5 DEF vars, MadeInv, Unmade, BeforeControl, BeforeImage, Open
<1> QED
  BY <1>1, <1>2, <1>3, <1>4, <1>5 DEF Next, Dead

\* Only StartRunning sets running_, and only its owner clears the way to it.
LEMMA RunningStep == IInv /\ CInv /\ [Next]_vars => RunningInv'
<1> SUFFICES ASSUME IInv, CInv, [Next]_vars PROVE RunningInv'
  OBVIOUS
<1> USE ThreadsAssumption, SocketsAssumption
<1> USE DEF Goto, Threads, Channels, lifeVars, sockVars, recvVars, sendVars,
        Closing, ClosesControl, ClosesImage, Dialing, Spawning, Joining, Returning
<1>t. Known
  BY KnownFacts
<1>i. MadeInv /\ RunningInv /\ ServedInv /\ FailedInv /\ TriedInv /\ SendInv /\ WireInv
      /\ PacketsNeverInterleave
  BY DEF CInv
<1> USE DEF Known
<1>1. ASSUME NEW c \in Controllers, ConnectEnter(c) \/ DisconnectEnter(c) \/ ControllerStep(c)
      PROVE  RunningInv'
  <2>a. /\ \A d \in Controllers \ {c} : pc[d] = "idle"
        /\ \A t \in Threads : pc[t] # "dead"
        /\ ~Terminated
    BY <1>t, <1>1, Alone
  <2>1. CASE ConnectEnter(c)
    BY <1>t, <1>i, <2>1 DEF ConnectEnter, RunningInv, Idling
  <2>2. CASE DisconnectEnter(c)
    BY <2>2 DEF DisconnectEnter, RunningInv, StopRunning
  <2>3. CASE CloseExchange(c)
    BY <1>t, <1>i, <2>3 DEF CloseExchange, RunningInv, Idling, Terminated, AfterClose
  <2>4. CASE CloseNative(c)
    BY <1>i, <2>4 DEF CloseNative, RunningInv, Idling, Terminated, AfterClose
  <2>5. CASE DialSucceeds(c)
    BY <1>i, <2>5 DEF DialSucceeds, RunningInv, Idling, Terminated
  <2>6. CASE DialFails(c)
    BY <1>i, <2>6 DEF DialFails, RunningInv, Idling, Terminated
  <2>7. CASE StartRunning(c)
    BY <1>t, <2>a, <2>7 DEF StartRunning, RunningInv, Idling, Terminated
  <2>8. CASE Spawn(c)
    BY <1>t, <1>i, <2>8 DEF Spawn, RunningInv, Idling, Terminated, SpawnedWorker
  <2>9. CASE SpawnTerminates(c)
    <3>1. lifecycle = c /\ c # NoThread
      BY <1>t, <2>9 DEF SpawnTerminates, LifecycleInv
    <3>2. \A d \in Controllers : pc'[d] = "dead"
      BY <2>9 DEF SpawnTerminates
    <3> QED
      BY <2>9, <3>1, <3>2 DEF SpawnTerminates, RunningInv
  <2>10. CASE SpawnThrows(c)
    BY <1>i, <2>10 DEF SpawnThrows, RunningInv, Terminated
  <2>11. CASE CatchStop(c)
    BY <2>11 DEF CatchStop, RunningInv, Terminated, StopRunning
  <2>12. CASE Join(c)
    BY <1>t, <1>i, <2>12 DEF Join, RunningInv, Idling, Terminated, AfterJoin
  <2>13. CASE Return(c)
    BY <1>i, <2>13 DEF Return, RunningInv, Idling, Terminated
  <2> QED
    BY <1>1, <2>1, <2>2, <2>3, <2>4, <2>5, <2>6, <2>7, <2>8, <2>9, <2>10, <2>11, <2>12,
       <2>13 DEF ControllerStep
<1>2. ASSUME NEW w \in Channels, WorkerStep(w) \/ RecvSome(w) \/ RecvLast(w)
      PROVE  RunningInv'
  <2>a. (\A t \in Threads : pc[t] # "dead") /\ ~Terminated
    BY <1>t, <1>2, WorkerLives
  <2>f. /\ <<sendVars, gen, lifecycle, joinable, peerUp>>'
              = <<sendVars, gen, lifecycle, joinable, peerUp>>
        /\ running' => running
        /\ \A t \in Threads \ {w} : pc'[t] = pc[t] /\ local'[t] = local[t]
        /\ pc'[w] # "dead"
        /\ \A ch \in Channels : handle'[ch] = handle[ch] \/ handle'[ch] = NoFd
        /\ table' = table \/ CloseNative(w)
    BY <1>t, <1>2, WorkerFrame
  <2> QED
    BY <1>i, <2>f DEF RunningInv, Terminated
<1>3. ASSUME NEW s \in Senders, SendEnter(s) \/ SenderStep(s)
      PROVE  RunningInv'
  <2>a. (\A t \in Threads : pc[t] # "dead") /\ ~Terminated
    BY <1>t, <1>3, SenderLives
  <2>f. /\ <<lifeVars, sockVars, recvVars>>' = <<lifeVars, sockVars, recvVars>>
        /\ \A t \in Threads \ {s} : pc'[t] = pc[t] /\ local'[t] = local[t]
        /\ pc'[s] # "dead"
        /\ wire' = wire \/ SendChunk(s)
    BY <1>t, <1>3, SenderFrame
  <2> QED
    BY <1>i, <2>f DEF RunningInv, Terminated
<1>4. ASSUME NEW conn \in Conns, PeerCloses(conn)
      PROVE  RunningInv'
  BY <1>t, <1>i, <1>4 DEF PeerCloses, RunningInv, Idling, Terminated
<1>5. CASE UNCHANGED vars
  BY <1>t, <1>i, <1>5 DEF vars, RunningInv, Idling, Terminated
<1> QED
  BY <1>1, <1>2, <1>3, <1>4, <1>5 DEF Next, Dead

\* No Close() reaches the sockets of a session that runs.
LEMMA ServedStep == IInv /\ CInv /\ [Next]_vars => ServedInv'
<1> SUFFICES ASSUME IInv, CInv, [Next]_vars PROVE ServedInv'
  OBVIOUS
<1> USE ThreadsAssumption, SocketsAssumption
<1> USE DEF Goto, Threads, Channels, lifeVars, sockVars, recvVars, sendVars,
        Closing, ClosesControl, ClosesImage, Dialing, Spawning, Joining, Returning
<1>t. Known
  BY KnownFacts
<1>i. MadeInv /\ RunningInv /\ ServedInv /\ FailedInv /\ TriedInv /\ SendInv /\ WireInv
      /\ PacketsNeverInterleave
  BY DEF CInv
<1> USE DEF Known
<1>1. ASSUME NEW c \in Controllers, ConnectEnter(c) \/ DisconnectEnter(c) \/ ControllerStep(c)
      PROVE  ServedInv'
  <2>a. /\ \A d \in Controllers \ {c} : pc[d] = "idle"
        /\ \A t \in Threads : pc[t] # "dead"
        /\ ~Terminated
    BY <1>t, <1>1, Alone
  <2>1. CASE ConnectEnter(c)
    BY <1>t, <1>i, <2>a, <2>1 DEF ConnectEnter, ServedInv, Own, Serves, Receiving, Idling
  <2>2. CASE DisconnectEnter(c)
    BY <1>i, <2>2 DEF DisconnectEnter, ServedInv, Own, StopRunning
  <2>3. CASE CloseExchange(c)
    <3>1. ~running /\ running' = running
      BY <1>i, <2>3 DEF CloseExchange, RunningInv, Idling
    <3>2. \A d \in Controllers \ {c} : pc'[d] = "idle"
      BY <1>t, <2>a, <2>3 DEF CloseExchange
    <3>3. pc'[c] \notin {"con_running", "con_ctl_spawn", "con_img_spawn"}
      BY <1>t, <2>3 DEF CloseExchange, AfterClose
    <3>4. pc'[c] \in {"con_img_close", "con_img_dial"} =>
              /\ pc[c] = "con_img_close" /\ handle'["control"] = handle["control"]
              /\ <<table, gen, joinable>>' = <<table, gen, joinable>>
      BY <1>t, <2>3 DEF CloseExchange, AfterClose, ClosedChannel
    <3> QED
      BY <1>i, <3>1, <3>2, <3>3, <3>4 DEF ServedInv, Own, Idling
  <2>4. CASE CloseNative(c)
    <3>1. ~running /\ running' = running
      BY <1>i, <2>4 DEF CloseNative, RunningInv, Idling
    <3>2. \A d \in Controllers \ {c} : pc'[d] = "idle"
      BY <1>t, <2>a, <2>4 DEF CloseNative
    <3>3. pc'[c] \notin {"con_running", "con_ctl_spawn", "con_img_spawn", "con_img_close"}
      BY <1>t, <2>4 DEF CloseNative, AfterClose
    <3>4. pc'[c] = "con_img_dial" =>
              pc[c] = "con_img_close" /\ <<handle, gen, joinable>>' = <<handle, gen, joinable>>
      BY <1>t, <2>4 DEF CloseNative, AfterClose
    <3>5. handle["control"] # NoFd => table'[handle["control"]] = table[handle["control"]]
      BY <1>t, <2>4, CloseNativeTable DEF Known
    <3> QED
      BY <1>i, <3>1, <3>2, <3>3, <3>4, <3>5 DEF ServedInv, Own, Idling
  <2>5. CASE DialSucceeds(c)
    <3> DEFINE ch == DialedChannel(pc[c])
    <3>1. PICK f \in Fds : /\ table[f] = NoConn
                           /\ table' = [table EXCEPT ![f] = <<gen, ch>>]
                           /\ handle' = [handle EXCEPT ![ch] = f]
                           /\ gen \in Gens /\ ch \in Channels
      BY <1>t, <2>5, DialTable DEF Known
    <3>2. /\ ~running /\ <<running, gen, joinable>>' = <<running, gen, joinable>>
          /\ \A d \in Controllers \ {c} : pc'[d] = "idle"
      BY <1>i, <2>a, <2>5 DEF DialSucceeds, RunningInv, Idling
    <3>3. handle'[ch] # NoFd /\ table'[handle'[ch]] = <<gen', ch>>
      BY <1>t, <3>1, <3>2
    <3>4. CASE pc[c] = "con_ctl_dial"
      BY <1>t, <2>5, <3>2, <3>3, <3>4 DEF DialSucceeds, Own, DialedChannel, ServedInv,
         Idling
    <3>5. CASE pc[c] = "con_img_dial"
      <4>1. Own("control") => Own("control")'
        BY <1>t, <3>1, <3>2, <3>5 DEF Own, DialedChannel, Conns
      <4> QED
        BY <1>t, <1>i, <2>5, <3>2, <3>3, <3>5, <4>1 DEF DialSucceeds, Own, DialedChannel,
           ServedInv, Idling
    <3> QED
      BY <2>5, <3>4, <3>5 DEF DialSucceeds
  <2>6. CASE DialFails(c)
    BY <1>i, <2>6 DEF DialFails, ServedInv, Own, Serves, Receiving, Idling
  <2>7. CASE StartRunning(c)
    BY <1>i, <2>a, <2>7 DEF StartRunning, ServedInv, Own, Idling
  <2>8. CASE Spawn(c)
    BY <1>t, <1>i, <2>8 DEF Spawn, ServedInv, Own, Serves, Receiving, Idling,
       SpawnedWorker
  <2>9. CASE SpawnTerminates(c)
    BY <2>9 DEF SpawnTerminates, ServedInv, Idling
  <2>10. CASE SpawnThrows(c)
    BY <1>i, <2>10 DEF SpawnThrows, ServedInv, Own, Serves, Receiving, Idling
  <2>11. CASE CatchStop(c)
    BY <1>i, <2>11 DEF CatchStop, ServedInv, Own, StopRunning
  <2>12. CASE Join(c)
    <3>1. ~running /\ running' = running
      BY <1>i, <2>12 DEF Join, RunningInv, Idling
    <3>2. \A d \in Controllers \ {c} : pc'[d] = "idle"
      BY <1>t, <2>a, <2>12 DEF Join, JoinedWorker
    <3>3. pc'[c] \in Joining \cup {"con_failed", "dis_done"}
      BY <1>t, <2>12 DEF Join, JoinedWorker, AfterJoin
    <3> QED
      BY <3>1, <3>2, <3>3 DEF ServedInv, Idling
  <2>13. CASE Return(c)
    <3>1. \A d \in Controllers : pc'[d] = "idle"
      BY <1>t, <2>a, <2>13 DEF Return
    <3>2. /\ <<running, gen, joinable, handle, table, local, on>>'
                = <<running, gen, joinable, handle, table, local, on>>
          /\ \A w \in Channels : pc'[w] = pc[w]
      BY <1>t, <2>13 DEF Return
    <3>3. running => \A d \in Controllers : pc[d] \in Idling
      BY <1>i, <2>a, <2>13 DEF Return, RunningInv, Idling
    <3> QED
      BY <1>i, <3>1, <3>2, <3>3 DEF ServedInv, Own, Serves, Receiving, Idling
  <2> QED
    BY <1>1, <2>1, <2>2, <2>3, <2>4, <2>5, <2>6, <2>7, <2>8, <2>9, <2>10, <2>11, <2>12,
       <2>13 DEF ControllerStep
<1>2. ASSUME NEW w \in Channels, WorkerStep(w) \/ RecvSome(w) \/ RecvLast(w)
      PROVE  ServedInv'
  <2>a. (\A t \in Threads : pc[t] # "dead") /\ ~Terminated
    BY <1>t, <1>2, WorkerLives
  <2>1. CASE LoopTest(w)
    BY <1>i, <2>1 DEF LoopTest, ServedInv, Own, Serves, Receiving
  <2>2. CASE RecvLoad(w)
    BY <1>t, <1>i, <2>2 DEF RecvLoad, ServedInv, Own, Serves, Receiving
  <2>3. CASE RecvCall(w)
    BY <1>t, <1>i, <2>3 DEF RecvCall, ServedInv, Own, Serves, Receiving
  <2>4. CASE RecvSome(w)
    BY <1>t, <1>i, <2>4 DEF RecvSome, ServedInv, Own, Serves, Receiving
  <2>5. CASE RecvLast(w)
    BY <1>t, <1>i, <2>5 DEF RecvLast, ServedInv, Own, Serves, Receiving
  <2>6. CASE RecvError(w)
    BY <1>t, <1>i, <2>6 DEF RecvError, ServedInv, Own, Serves, Receiving
  <2>7. CASE AfterRecvFailed(w)
    BY <1>i, <2>7 DEF AfterRecvFailed, ServedInv, Own, Serves, Receiving
  <2>8. CASE CallbackReturns(w)
    BY <1>i, <2>8 DEF CallbackReturns, ServedInv, Own, Serves, Receiving
  <2>9. CASE FailExchange(w)
    BY <1>i, <2>9 DEF FailExchange, ServedInv, Own
  <2>10. CASE CloseExchange(w)
    <3>1. joinable[w] /\ ~Serves(w)
      BY <1>t, <2>a, <2>10 DEF CloseExchange, JoinInv, Serves
    <3>2. /\ <<running, joinable>>' = <<running, joinable>>
          /\ \A d \in Controllers : pc'[d] = pc[d]
      BY <1>t, <2>10 DEF CloseExchange
    <3>3. ~(running /\ \A d \in Controllers : pc[d] \in Idling)
      BY <1>i, <3>1 DEF ServedInv
    <3>4. ASSUME NEW d \in Controllers
          PROVE  ~(pc[d] = "con_img_spawn" /\ running /\ ~joinable["image"])
      BY <1>i, <3>1 DEF ServedInv
    <3> QED
      BY <3>1, <3>2, <3>3, <3>4 DEF ServedInv
  <2>11. CASE CloseNative(w)
    <3>1. joinable[w] /\ ~Serves(w)
      BY <1>t, <2>a, <2>11 DEF CloseNative, JoinInv, Serves
    <3>2. /\ <<running, joinable>>' = <<running, joinable>>
          /\ \A d \in Controllers : pc'[d] = pc[d]
      BY <1>t, <2>11 DEF CloseNative
    <3>3. ~(running /\ \A d \in Controllers : pc[d] \in Idling)
      BY <1>i, <3>1 DEF ServedInv
    <3>4. ASSUME NEW d \in Controllers
          PROVE  ~(pc[d] = "con_img_spawn" /\ running /\ ~joinable["image"])
      BY <1>i, <3>1 DEF ServedInv
    <3> QED
      BY <3>1, <3>2, <3>3, <3>4 DEF ServedInv
  <2>12. CASE Report(w)
    BY <1>i, <2>12 DEF Report, ServedInv, Own, Serves, Receiving
  <2> QED
    BY <1>2, <2>1, <2>2, <2>3, <2>4, <2>5, <2>6, <2>7, <2>8, <2>9, <2>10, <2>11, <2>12
       DEF WorkerStep
<1>3. ASSUME NEW s \in Senders, SendEnter(s) \/ SenderStep(s)
      PROVE  ServedInv'
  <2>f. /\ <<lifeVars, sockVars, recvVars>>' = <<lifeVars, sockVars, recvVars>>
        /\ \A t \in Threads \ {s} : pc'[t] = pc[t] /\ local'[t] = local[t]
        /\ pc'[s] # "dead"
        /\ wire' = wire \/ SendChunk(s)
    BY <1>t, <1>3, SenderFrame
  <2>1. /\ <<running, gen, joinable, handle, table, on>>'
              = <<running, gen, joinable, handle, table, on>>
        /\ \A c \in Controllers : pc'[c] = pc[c]
        /\ \A w \in Channels : pc'[w] = pc[w] /\ local'[w] = local[w]
    BY <2>f
  <2> QED
    BY <1>i, <2>1 DEF ServedInv, Own, Serves, Receiving
<1>4. ASSUME NEW conn \in Conns, PeerCloses(conn)
      PROVE  ServedInv'
  BY <1>t, <1>i, <1>4 DEF PeerCloses, ServedInv, Own, Serves, Receiving, Idling
<1>5. CASE UNCHANGED vars
  BY <1>t, <1>i, <1>5 DEF vars, ServedInv, Own, Serves, Receiving, Idling
<1> QED
  BY <1>1, <1>2, <1>3, <1>4, <1>5 DEF Next, Dead

\* A handle that is not the attempt's own does not become so.
LEMMA FailedStep == IInv /\ CInv /\ [Next]_vars => FailedInv'
<1> SUFFICES ASSUME IInv, CInv, [Next]_vars PROVE FailedInv'
  OBVIOUS
<1> USE ThreadsAssumption, SocketsAssumption
<1> USE DEF Goto, Threads, Channels, lifeVars, sockVars, recvVars, sendVars,
        Closing, ClosesControl, ClosesImage, Dialing, Spawning, Joining, Returning
<1>t. Known
  BY KnownFacts
<1>i. MadeInv /\ RunningInv /\ ServedInv /\ FailedInv /\ TriedInv /\ SendInv /\ WireInv
      /\ PacketsNeverInterleave
  BY DEF CInv
<1> USE DEF Known
<1>1. ASSUME NEW c \in Controllers, ConnectEnter(c) \/ DisconnectEnter(c) \/ ControllerStep(c)
      PROVE  FailedInv'
  <2>a. /\ \A d \in Controllers \ {c} : pc[d] = "idle"
        /\ \A t \in Threads : pc[t] # "dead"
        /\ ~Terminated
    BY <1>t, <1>1, Alone
  <2>1. CASE ConnectEnter(c)
    BY <1>t, <2>a, <2>1 DEF ConnectEnter, FailedInv
  <2>2. CASE DisconnectEnter(c)
    BY <1>i, <2>2 DEF DisconnectEnter, FailedInv
  <2>3. CASE CloseExchange(c)
    <3>1. handle'["image"] = handle["image"] \/ handle'["image"] = NoFd
      BY <1>t, <2>3 DEF CloseExchange, ClosedChannel
    <3>2. pc'[c] = "con_failed" => handle'["image"] = NoFd
      BY <1>t, <2>3, <3>1 DEF CloseExchange, ClosedChannel, AfterClose, ClosedInv,
         ImageClosed
    <3>3. \A d \in Controllers \ {c} : pc'[d] = "idle"
      BY <1>t, <2>a, <2>3 DEF CloseExchange
    <3> QED
      BY <3>2, <3>3 DEF FailedInv
  <2>4. CASE CloseNative(c)
    <3>2. pc'[c] = "con_failed" => handle'["image"] = NoFd
      BY <1>t, <2>4 DEF CloseNative, ClosedChannel, AfterClose, ClosedInv, ImageClosed
    <3>3. \A d \in Controllers \ {c} : pc'[d] = "idle"
      BY <1>t, <2>a, <2>4 DEF CloseNative
    <3> QED
      BY <3>2, <3>3 DEF FailedInv
  <2>5. CASE DialSucceeds(c)
    BY <2>a, <2>5 DEF DialSucceeds, FailedInv
  <2>6. CASE DialFails(c)
    <3>1. pc[c] = "con_ctl_dial" => gen \in Gens /\ Unmade(gen, "image")
      BY <1>t DEF AttemptInv, Connecting, Gens, Unmade, BeforeImage, BeforeControl
    <3>2. pc[c] = "con_ctl_dial" => \A f \in Fds : table[f] # <<gen, "image">>
      BY <1>i, <3>1 DEF MadeInv, Open
    <3>3. \A d \in Controllers \ {c} : pc'[d] = "idle"
      BY <1>t, <2>a, <2>6 DEF DialFails
    <3>4. pc'[c] = "con_failed" => pc[c] = "con_ctl_dial"
      BY <1>t, <2>6 DEF DialFails
    <3> QED
      BY <1>t, <2>6, <3>2, <3>3, <3>4 DEF DialFails, FailedInv
  <2>7. CASE StartRunning(c)
    BY <1>i, <2>7 DEF StartRunning, FailedInv
  <2>8. CASE Spawn(c)
    BY <1>t, <1>i, <2>8 DEF Spawn, FailedInv
  <2>9. CASE SpawnTerminates(c)
    BY <2>9 DEF SpawnTerminates, FailedInv
  <2>10. CASE SpawnThrows(c)
    BY <1>i, <2>10 DEF SpawnThrows, FailedInv
  <2>11. CASE CatchStop(c)
    BY <1>i, <2>11 DEF CatchStop, FailedInv
  <2>12. CASE Join(c)
    <3>2. pc'[c] = "con_failed" => handle'["image"] = NoFd
      BY <1>t, <2>12 DEF Join, JoinedWorker, AfterJoin, ClosedInv, ImageClosed
    <3>3. \A d \in Controllers \ {c} : pc'[d] = "idle"
      BY <1>t, <2>a, <2>12 DEF Join, JoinedWorker
    <3> QED
      BY <3>2, <3>3 DEF FailedInv
  <2>13. CASE Return(c)
    BY <1>i, <2>13 DEF Return, FailedInv
  <2> QED
    BY <1>1, <2>1, <2>2, <2>3, <2>4, <2>5, <2>6, <2>7, <2>8, <2>9, <2>10, <2>11, <2>12,
       <2>13 DEF ControllerStep
<1>2. ASSUME NEW w \in Channels, WorkerStep(w) \/ RecvSome(w) \/ RecvLast(w)
      PROVE  FailedInv'
  <2>f. /\ <<sendVars, gen, lifecycle, joinable, peerUp>>'
              = <<sendVars, gen, lifecycle, joinable, peerUp>>
        /\ running' => running
        /\ \A t \in Threads \ {w} : pc'[t] = pc[t] /\ local'[t] = local[t]
        /\ pc'[w] # "dead"
        /\ \A ch \in Channels : handle'[ch] = handle[ch] \/ handle'[ch] = NoFd
        /\ table' = table \/ CloseNative(w)
    BY <1>t, <1>2, WorkerFrame
  <2>1. handle["image"] # NoFd => table'[handle["image"]] = table[handle["image"]]
    BY <1>t, <2>f, CloseNativeTable DEF Known
  <2> QED
    BY <1>t, <1>i, <2>f, <2>1 DEF FailedInv
<1>3. ASSUME NEW s \in Senders, SendEnter(s) \/ SenderStep(s)
      PROVE  FailedInv'
  <2>f. /\ <<lifeVars, sockVars, recvVars>>' = <<lifeVars, sockVars, recvVars>>
        /\ \A t \in Threads \ {s} : pc'[t] = pc[t] /\ local'[t] = local[t]
        /\ pc'[s] # "dead"
        /\ wire' = wire \/ SendChunk(s)
    BY <1>t, <1>3, SenderFrame
  <2> QED
    BY <1>t, <1>i, <2>f DEF FailedInv
<1>4. ASSUME NEW conn \in Conns, PeerCloses(conn)
      PROVE  FailedInv'
  BY <1>t, <1>i, <1>4 DEF PeerCloses, FailedInv
<1>5. CASE UNCHANGED vars
  BY <1>t, <1>i, <1>5 DEF vars, FailedInv
<1> QED
  BY <1>1, <1>2, <1>3, <1>4, <1>5 DEF Next, Dead

\* Only an attempt is between the check of running_ and the return.
LEMMA TriedStep == IInv /\ CInv /\ [Next]_vars => TriedInv'
<1> SUFFICES ASSUME IInv, CInv, [Next]_vars PROVE TriedInv'
  OBVIOUS
<1> USE ThreadsAssumption, SocketsAssumption
<1> USE DEF Goto, Threads, Channels, lifeVars, sockVars, recvVars, sendVars,
        Closing, ClosesControl, ClosesImage, Dialing, Spawning, Joining, Returning
<1>t. Known
  BY KnownFacts
<1>i. MadeInv /\ RunningInv /\ ServedInv /\ FailedInv /\ TriedInv /\ SendInv /\ WireInv
      /\ PacketsNeverInterleave
  BY DEF CInv
<1> USE DEF Known
<1>1. ASSUME NEW c \in Controllers, ConnectEnter(c) \/ DisconnectEnter(c) \/ ControllerStep(c)
      PROVE  TriedInv'
  <2>a. /\ \A d \in Controllers \ {c} : pc[d] = "idle"
        /\ \A t \in Threads : pc[t] # "dead"
        /\ ~Terminated
    BY <1>t, <1>1, Alone
  <2>1. CASE ConnectEnter(c)
    BY <1>t, <1>i, <2>1 DEF ConnectEnter, TriedInv, Attempting, Connecting
  <2>2. CASE DisconnectEnter(c)
    BY <1>i, <2>2 DEF DisconnectEnter, TriedInv, Attempting, Connecting
  <2>3. CASE CloseExchange(c)
    BY <1>t, <1>i, <2>3 DEF CloseExchange, TriedInv, Attempting, Connecting, AfterClose
  <2>4. CASE CloseNative(c)
    BY <1>i, <2>4 DEF CloseNative, TriedInv, Attempting, Connecting, AfterClose
  <2>5. CASE DialSucceeds(c)
    BY <1>i, <2>5 DEF DialSucceeds, TriedInv, Attempting, Connecting
  <2>6. CASE DialFails(c)
    BY <1>i, <2>6 DEF DialFails, TriedInv, Attempting, Connecting
  <2>7. CASE StartRunning(c)
    BY <1>i, <2>7 DEF StartRunning, TriedInv, Attempting, Connecting
  <2>8. CASE Spawn(c)
    BY <1>i, <2>8 DEF Spawn, TriedInv, Attempting
  <2>9. CASE SpawnTerminates(c)
    BY <2>9 DEF SpawnTerminates, TriedInv, Attempting, Connecting
  <2>10. CASE SpawnThrows(c)
    BY <1>i, <2>10 DEF SpawnThrows, TriedInv, Attempting
  <2>11. CASE CatchStop(c)
    BY <1>i, <2>11 DEF CatchStop, TriedInv, Attempting
  <2>12. CASE Join(c)
    BY <1>t, <1>i, <2>12 DEF Join, TriedInv, Attempting, Connecting, AfterJoin
  <2>13. CASE Return(c)
    BY <1>i, <2>13 DEF Return, TriedInv, Attempting, Connecting
  <2> QED
    BY <1>1, <2>1, <2>2, <2>3, <2>4, <2>5, <2>6, <2>7, <2>8, <2>9, <2>10, <2>11, <2>12,
       <2>13 DEF ControllerStep
<1>2. ASSUME NEW w \in Channels, WorkerStep(w) \/ RecvSome(w) \/ RecvLast(w)
      PROVE  TriedInv'
  <2>f. /\ <<sendVars, gen, lifecycle, joinable, peerUp>>'
              = <<sendVars, gen, lifecycle, joinable, peerUp>>
        /\ running' => running
        /\ \A t \in Threads \ {w} : pc'[t] = pc[t] /\ local'[t] = local[t]
        /\ pc'[w] # "dead"
        /\ \A ch \in Channels : handle'[ch] = handle[ch] \/ handle'[ch] = NoFd
        /\ table' = table \/ CloseNative(w)
    BY <1>t, <1>2, WorkerFrame
  <2> QED
    BY <1>t, <1>i, <2>f DEF TriedInv
<1>3. ASSUME NEW s \in Senders, SendEnter(s) \/ SenderStep(s)
      PROVE  TriedInv'
  <2>f. /\ <<lifeVars, sockVars, recvVars>>' = <<lifeVars, sockVars, recvVars>>
        /\ \A t \in Threads \ {s} : pc'[t] = pc[t] /\ local'[t] = local[t]
        /\ pc'[s] # "dead"
        /\ wire' = wire \/ SendChunk(s)
    BY <1>t, <1>3, SenderFrame
  <2> QED
    BY <1>t, <1>i, <2>f DEF TriedInv
<1>4. ASSUME NEW conn \in Conns, PeerCloses(conn)
      PROVE  TriedInv'
  BY <1>t, <1>i, <1>4 DEF PeerCloses, TriedInv, Attempting, Connecting
<1>5. CASE UNCHANGED vars
  BY <1>t, <1>i, <1>5 DEF vars, TriedInv, Attempting, Connecting
<1> QED
  BY <1>1, <1>2, <1>3, <1>4, <1>5 DEF Next, Dead

\* A sender inside a call owns control_send_mutex_.
LEMMA SendStep == IInv /\ CInv /\ [Next]_vars => SendInv'
<1> SUFFICES ASSUME IInv, CInv, [Next]_vars PROVE SendInv'
  OBVIOUS
<1> USE ThreadsAssumption, SocketsAssumption
<1> USE DEF Goto, Threads, Channels, lifeVars, sockVars, recvVars, sendVars,
        Sending, Closing, ClosesControl, ClosesImage, Dialing, Spawning, Joining, Returning
<1>t. Known
  BY KnownFacts
<1>i. MadeInv /\ RunningInv /\ ServedInv /\ FailedInv /\ TriedInv /\ SendInv /\ WireInv
      /\ PacketsNeverInterleave
  BY DEF CInv
<1> USE DEF Known
<1>1. ASSUME NEW c \in Controllers, ConnectEnter(c) \/ DisconnectEnter(c) \/ ControllerStep(c)
      PROVE  SendInv'
  <2>1. CASE SpawnTerminates(c)
    BY <1>t, <2>1 DEF SpawnTerminates, SendInv
  <2>2. CASE ~SpawnTerminates(c)
    BY <1>t, <1>1, <1>i, <2>2, ControllerFrame DEF SendInv
  <2> QED
    BY <2>1, <2>2
<1>2. ASSUME NEW w \in Channels, WorkerStep(w) \/ RecvSome(w) \/ RecvLast(w)
      PROVE  SendInv'
  <2>f. /\ <<sendVars, gen, lifecycle, joinable, peerUp>>'
              = <<sendVars, gen, lifecycle, joinable, peerUp>>
        /\ running' => running
        /\ \A t \in Threads \ {w} : pc'[t] = pc[t] /\ local'[t] = local[t]
        /\ pc'[w] # "dead"
        /\ \A ch \in Channels : handle'[ch] = handle[ch] \/ handle'[ch] = NoFd
        /\ table' = table \/ CloseNative(w)
    BY <1>t, <1>2, WorkerFrame
  <2> QED
    BY <1>t, <1>i, <2>f DEF SendInv
<1>3. ASSUME NEW s \in Senders, SendEnter(s) \/ SenderStep(s)
      PROVE  SendInv'
  <2>a. (\A t \in Threads : pc[t] # "dead") /\ ~Terminated
    BY <1>t, <1>3, SenderLives
  <2>1. CASE SendEnter(s)
    BY <1>i, <2>1 DEF SendEnter, SendInv
  <2>2. CASE SendLoad(s)
    BY <1>i, <2>2 DEF SendLoad, SendInv
  <2>3. CASE SendChunk(s)
    BY <1>i, <2>3 DEF SendChunk, SendInv
  <2>4. CASE SendError(s)
    BY <1>i, <2>4 DEF SendError, SendInv
  <2>5. CASE SendReturn(s)
    BY <1>t, <1>i, <2>5 DEF SendReturn, SendInv
  <2> QED
    BY <1>3, <2>1, <2>2, <2>3, <2>4, <2>5 DEF SenderStep
<1>4. ASSUME NEW conn \in Conns, PeerCloses(conn)
      PROVE  SendInv'
  BY <1>t, <1>i, <1>4 DEF PeerCloses, SendInv
<1>5. CASE UNCHANGED vars
  BY <1>t, <1>i, <1>5 DEF vars, SendInv
<1> QED
  BY <1>1, <1>2, <1>3, <1>4, <1>5 DEF Next, Dead

\* A packet is left unfinished on a connection that takes no more.
LEMMA WireStep == IInv /\ CInv /\ [Next]_vars => WireInv'
<1> SUFFICES ASSUME IInv, CInv, [Next]_vars PROVE WireInv'
  OBVIOUS
<1> USE ThreadsAssumption, SocketsAssumption
<1> USE DEF Goto, Threads, Channels, lifeVars, sockVars, recvVars, sendVars,
        Sending, Closing, ClosesControl, ClosesImage, Dialing, Spawning, Joining, Returning
<1>t. Known
  BY KnownFacts
<1>i. MadeInv /\ RunningInv /\ ServedInv /\ FailedInv /\ TriedInv /\ SendInv /\ WireInv
      /\ PacketsNeverInterleave
  BY DEF CInv
<1> USE DEF Known
<1>1. ASSUME NEW c \in Controllers, ConnectEnter(c) \/ DisconnectEnter(c) \/ ControllerStep(c)
      PROVE  WireInv'
  <2>a. (\A t \in Threads : pc[t] # "dead") /\ ~Terminated
    BY <1>t, <1>1, Alone
  <2>1. CASE SpawnTerminates(c)
    <3>1. Terminated'
      BY <1>t, <2>1 DEF SpawnTerminates, Terminated
    <3> QED
      BY <3>1 DEF WireInv
  <2>2. CASE table' = table /\ peerUp' = peerUp /\ ~SpawnTerminates(c)
    <3>1. sendVars' = sendVars /\ \A s \in Senders : pc'[s] = pc[s] /\ local'[s] = local[s]
      BY <1>t, <1>1, <2>2, ControllerFrame
    <3> QED
      BY <1>i, <2>a, <2>2, <3>1 DEF WireInv, Ends, Open
  <2>4. CASE CloseNative(c)
    <3> SUFFICES ASSUME NEW conn \in Conns, NEW s \in Senders, NEW n \in 0..MaxSends,
                        Ends(conn, s, n), conn \in peerUp, Open(conn)', <<s, n>> \notin broken
                 PROVE  pc'[s] = "send_tail" /\ nsent'[s] = n /\ table'[local'[s]] = conn
      BY <2>4 DEF CloseNative, WireInv, Ends
    <3>1. /\ \A f \in Fds : table'[f] = table[f] \/ table'[f] = NoConn
          /\ Open(conn)
      BY <1>t, <2>4, CloseNativeTable DEF Known
    <3>2. pc[s] = "send_tail" /\ nsent[s] = n /\ table[local[s]] = conn
      BY <1>i, <2>a, <3>1 DEF WireInv
    <3>3. pc'[s] = pc[s] /\ local'[s] = local[s] /\ nsent' = nsent
      BY <1>t, <2>4 DEF CloseNative
    <3>4. local[s] \in Fds
      BY <1>t, <3>2 DEF LocalInv, Sending
    <3>5. PICK e \in Fds : table'[e] = conn
      BY DEF Open
    <3>6. e = local[s]
      BY <1>i, <3>1, <3>2, <3>4, <3>5 DEF MadeInv
    <3> QED
      BY <3>2, <3>3, <3>5, <3>6
  <2>5. CASE DialSucceeds(c)
    <3> SUFFICES ASSUME NEW conn \in Conns, NEW s \in Senders, NEW n \in 0..MaxSends,
                        Ends(conn, s, n), conn \in peerUp', Open(conn)', <<s, n>> \notin broken
                 PROVE  pc'[s] = "send_tail" /\ nsent'[s] = n /\ table'[local'[s]] = conn
      BY <2>5 DEF DialSucceeds, WireInv, Ends
    <3> DEFINE ch == DialedChannel(pc[c])
    <3>1. PICK f \in Fds : /\ table[f] = NoConn
                           /\ table' = [table EXCEPT ![f] = <<gen, ch>>]
                           /\ gen \in Gens /\ ch \in Channels
      BY <1>t, <2>5, DialTable DEF Known
    <3>2. Unmade(gen, ch)
      BY <2>5 DEF DialSucceeds, Unmade, BeforeControl, BeforeImage, DialedChannel
    <3>3. conn # <<gen, ch>>
      BY <1>i, <3>1, <3>2 DEF MadeInv, Ends
    <3>4. conn \in peerUp /\ Open(conn)
      BY <1>t, <2>5, <3>1, <3>3 DEF DialSucceeds, Open
    <3>5. pc[s] = "send_tail" /\ nsent[s] = n /\ table[local[s]] = conn
      BY <1>i, <2>a, <3>4 DEF WireInv
    <3>6. pc'[s] = pc[s] /\ local' = local /\ nsent' = nsent
      BY <1>t, <2>5 DEF DialSucceeds
    <3>7. local[s] \in Fds /\ local[s] # f
      BY <1>t, <3>1, <3>5 DEF LocalInv
    <3> QED
      BY <1>t, <3>1, <3>5, <3>6, <3>7
  <2> QED
    BY <1>t, <1>1, <2>1, <2>2, <2>4, <2>5, ControllerFrame
<1>2. ASSUME NEW w \in Channels, WorkerStep(w) \/ RecvSome(w) \/ RecvLast(w)
      PROVE  WireInv'
  <2>a. (\A t \in Threads : pc[t] # "dead") /\ ~Terminated
    BY <1>t, <1>2, WorkerLives
  <2>f. /\ <<sendVars, gen, lifecycle, joinable, peerUp>>'
              = <<sendVars, gen, lifecycle, joinable, peerUp>>
        /\ running' => running
        /\ \A t \in Threads \ {w} : pc'[t] = pc[t] /\ local'[t] = local[t]
        /\ pc'[w] # "dead"
        /\ \A ch \in Channels : handle'[ch] = handle[ch] \/ handle'[ch] = NoFd
        /\ table' = table \/ CloseNative(w)
    BY <1>t, <1>2, WorkerFrame
  <2>1. CASE table' = table
    <3>1. /\ <<sendVars, peerUp>>' = <<sendVars, peerUp>>
          /\ \A s \in Senders : pc'[s] = pc[s] /\ local'[s] = local[s]
      BY <2>f
    <3> QED
      BY <1>i, <2>a, <2>1, <3>1 DEF WireInv, Ends, Open
  <2>11. CASE CloseNative(w)
    <3> SUFFICES ASSUME NEW conn \in Conns, NEW s \in Senders, NEW n \in 0..MaxSends,
                        Ends(conn, s, n), conn \in peerUp, Open(conn)', <<s, n>> \notin broken
                 PROVE  pc'[s] = "send_tail" /\ nsent'[s] = n /\ table'[local'[s]] = conn
      BY <2>11 DEF CloseNative, WireInv, Ends
    <3>1. /\ \A f \in Fds : table'[f] = table[f] \/ table'[f] = NoConn
          /\ Open(conn)
      BY <1>t, <2>11, CloseNativeTable DEF Known
    <3>2. pc[s] = "send_tail" /\ nsent[s] = n /\ table[local[s]] = conn
      BY <1>i, <2>a, <3>1 DEF WireInv
    <3>3. pc'[s] = pc[s] /\ local'[s] = local[s] /\ nsent' = nsent
      BY <1>t, <2>11 DEF CloseNative
    <3>4. local[s] \in Fds
      BY <1>t, <3>2 DEF LocalInv, Sending
    <3>5. PICK e \in Fds : table'[e] = conn
      BY DEF Open
    <3>6. e = local[s]
      BY <1>i, <3>1, <3>2, <3>4, <3>5 DEF MadeInv
    <3> QED
      BY <3>2, <3>3, <3>5, <3>6
  <2> QED
    BY <2>f, <2>1, <2>11
<1>3. ASSUME NEW s \in Senders, SendEnter(s) \/ SenderStep(s)
      PROVE  WireInv'
  <2>a. (\A t \in Threads : pc[t] # "dead") /\ ~Terminated
    BY <1>t, <1>3, SenderLives
  <2>1. CASE SendEnter(s)
    BY <1>i, <2>a, <2>1 DEF SendEnter, WireInv, Ends, Open
  <2>2. CASE SendLoad(s)
    BY <1>i, <2>a, <2>2 DEF SendLoad, WireInv, Ends, Open
  <2>3. CASE SendChunk(s)
    <3> SUFFICES ASSUME NEW conn \in Conns, NEW r \in Senders, NEW n \in 0..MaxSends,
                        Ends(conn, r, n)', conn \in peerUp, Open(conn), <<r, n>> \notin broken
                 PROVE  pc'[r] = "send_tail" /\ nsent[r] = n /\ table[local[r]] = conn
      BY <2>3 DEF SendChunk, WireInv, Open
    <3>1. pc[s] \in Sending /\ pc' = [pc EXCEPT ![s] = AfterSend(pc[s])]
      BY <2>3 DEF SendChunk
    <3>2. CASE conn = table[local[s]]
      <4>1. wire'[conn] = Append(wire[conn], ChunkOf(s)) /\ wire[conn] \in Seq(Chunks)
        BY <1>t, <2>3, <3>2 DEF SendChunk
      <4>2. wire'[conn][Len(wire'[conn])] = ChunkOf(s)
        BY <4>1 DEF ChunkOf
      <4>3. ChunkOf(s) = <<r, n, "head">>
        BY <4>2 DEF Ends
      <4> QED
        BY <1>t, <3>1, <3>2, <4>3 DEF ChunkOf, AfterSend
    <3>3. CASE conn # table[local[s]]
      <4>1. wire'[conn] = wire[conn]
        BY <1>t, <2>3, <3>3 DEF SendChunk
      <4>2. pc[r] = "send_tail" /\ nsent[r] = n /\ table[local[r]] = conn
        BY <1>i, <2>a, <4>1 DEF WireInv, Ends
      <4> QED
        BY <3>1, <3>3, <4>2
    <3> QED
      BY <3>2, <3>3
  <2>4. CASE SendError(s)
    BY <1>i, <2>a, <2>4 DEF SendError, WireInv, Ends, Open
  <2>5. CASE SendReturn(s)
    BY <1>i, <2>a, <2>5 DEF SendReturn, WireInv, Ends, Open
  <2> QED
    BY <1>3, <2>1, <2>2, <2>3, <2>4, <2>5 DEF SenderStep
<1>4. ASSUME NEW conn \in Conns, PeerCloses(conn)
      PROVE  WireInv'
  BY <1>t, <1>i, <1>4 DEF PeerCloses, WireInv, Ends, Open, Terminated
<1>5. CASE UNCHANGED vars
  BY <1>t, <1>i, <1>5 DEF vars, WireInv, Ends, Open, Terminated
<1> QED
  BY <1>1, <1>2, <1>3, <1>4, <1>5 DEF Next, Dead

\* A chunk follows a finished packet, or its own head.
LEMMA PacketStep == IInv /\ CInv /\ [Next]_vars => PacketsNeverInterleave'
<1> SUFFICES ASSUME IInv, CInv, [Next]_vars PROVE PacketsNeverInterleave'
  OBVIOUS
<1> USE ThreadsAssumption, SocketsAssumption
<1> USE DEF Goto, Threads, Channels, lifeVars, sockVars, recvVars, sendVars,
        Sending
<1>t. Known
  BY KnownFacts
<1>i. MadeInv /\ RunningInv /\ ServedInv /\ FailedInv /\ TriedInv /\ SendInv /\ WireInv
      /\ PacketsNeverInterleave
  BY DEF CInv
<1> USE DEF Known
<1>1. ASSUME NEW c \in Controllers, ConnectEnter(c) \/ DisconnectEnter(c) \/ ControllerStep(c)
      PROVE  PacketsNeverInterleave'
  <2>1. wire' = wire /\ broken' = broken
    BY <1>t, <1>1, ControllerFrame DEF SpawnTerminates
  <2> QED
    BY <1>i, <2>1 DEF PacketsNeverInterleave, Followed
<1>2. ASSUME NEW w \in Channels, WorkerStep(w) \/ RecvSome(w) \/ RecvLast(w)
      PROVE  PacketsNeverInterleave'
  <2>1. wire' = wire /\ broken' = broken
    BY <1>t, <1>2, WorkerFrame
  <2> QED
    BY <1>i, <2>1 DEF PacketsNeverInterleave, Followed
<1>3. ASSUME NEW s \in Senders, SendEnter(s) \/ SenderStep(s)
      PROVE  PacketsNeverInterleave'
  <2>a. (\A t \in Threads : pc[t] # "dead") /\ ~Terminated
    BY <1>t, <1>3, SenderLives
  <2>f. /\ <<lifeVars, sockVars, recvVars>>' = <<lifeVars, sockVars, recvVars>>
        /\ \A t \in Threads \ {s} : pc'[t] = pc[t] /\ local'[t] = local[t]
        /\ pc'[s] # "dead"
        /\ wire' = wire \/ SendChunk(s)
        /\ broken \subseteq broken'
    BY <1>t, <1>3, SenderFrame
  <2>1. CASE wire' = wire
    BY <1>i, <2>f, <2>1 DEF PacketsNeverInterleave, Followed
  <2>3. CASE SendChunk(s)
    <3> DEFINE conn == table[local[s]]
               x == ChunkOf(s)
    <3>0. x = <<s, nsent[s], IF pc[s] = "send_head" THEN "head" ELSE "tail">>
      BY DEF ChunkOf
    <3> HIDE DEF x
    <3>1. CASE conn \notin peerUp
      BY <1>i, <2>3, <3>1 DEF SendChunk, PacketsNeverInterleave, Followed
    <3>2. CASE conn \in peerUp
      <4>1. /\ conn \in Conns /\ wire[conn] \in Seq(Chunks)
            /\ wire' = [wire EXCEPT ![conn] = Append(wire[conn], x)]
        BY <1>t, <2>3, <3>2 DEF SendChunk, LocalInv, x
      <4> SUFFICES ASSUME NEW k \in Conns, NEW i \in 1..(Len(wire'[k]) - 1),
                          wire'[k][i][3] = "head"
                   PROVE  \/ wire'[k][i + 1] = <<wire'[k][i][1], wire'[k][i][2], "tail">>
                          \/ <<wire'[k][i][1], wire'[k][i][2]>> \in broken
        BY <2>f DEF PacketsNeverInterleave, Followed
      <4>2. CASE k # conn
        BY <1>t, <1>i, <4>1, <4>2 DEF PacketsNeverInterleave, Followed
      <4>3. CASE k = conn /\ i # Len(wire[conn])
        <5>1. /\ wire'[k] = Append(wire[conn], x) /\ Len(wire'[k]) = Len(wire[conn]) + 1
              /\ i \in 1..(Len(wire[conn]) - 1)
          BY <1>t, <4>1, <4>3
        <5>2. wire'[k][i] = wire[conn][i] /\ wire'[k][i + 1] = wire[conn][i + 1]
          BY <4>1, <5>1
        <5> QED
          BY <1>i, <4>1, <5>1, <5>2 DEF PacketsNeverInterleave, Followed
      <4>4. CASE k = conn /\ i = Len(wire[conn])
        <5>1. /\ wire'[k] = Append(wire[conn], x) /\ Len(wire'[k]) = Len(wire[conn]) + 1
              /\ wire[conn] # <<>>
          BY <1>t, <4>1, <4>4
        <5>2. wire'[k][i] = wire[conn][i] /\ wire'[k][i + 1] = x
          BY <4>1, <4>4, <5>1
        <5>3. PICK r \in Senders, n \in 0..MaxSends : wire[conn][i] = <<r, n, "head">>
          <6>1. wire[conn][i] \in Chunks
            BY <4>1, <4>4, <5>1
          <6> QED
            BY <5>2, <6>1 DEF Chunks
        <5>4. Ends(conn, r, n)
          BY <4>4, <5>1, <5>3 DEF Ends
        <5>5. Open(conn)
          BY <1>t, <2>3 DEF LocalInv, Open, SendChunk
        <5>6. <<r, n>> \in broken \/ (pc[r] = "send_tail" /\ nsent[r] = n)
          BY <1>i, <2>a, <3>2, <4>1, <5>4, <5>5 DEF WireInv
        <5>7. <<r, n>> \in broken \/ r = s
          BY <1>i, <2>3, <5>6 DEF SendInv, SendChunk
        <5> QED
          BY <3>0, <5>2, <5>3, <5>6, <5>7
      <4> QED
        BY <4>2, <4>3, <4>4
    <3> QED
      BY <3>1, <3>2
  <2> QED
    BY <2>f, <2>1, <2>3
<1>4. ASSUME NEW conn \in Conns, PeerCloses(conn)
      PROVE  PacketsNeverInterleave'
  BY <1>t, <1>i, <1>4 DEF PeerCloses, PacketsNeverInterleave, Followed
<1>5. CASE UNCHANGED vars
  BY <1>t, <1>i, <1>5 DEF vars, PacketsNeverInterleave, Followed
<1> QED
  BY <1>1, <1>2, <1>3, <1>4, <1>5 DEF Next, Dead

LEMMA ServingInit == Init => CInv
<1> SUFFICES ASSUME Init PROVE CInv
  OBVIOUS
<1> USE ThreadsAssumption, SocketsAssumption
<1>1. /\ \A c \in Controllers : pc[c] = "idle"
      /\ \A s \in Senders : pc[s] = "idle"
      /\ ~running /\ ~Terminated
  BY DEF Init, Threads, Terminated, Channels
<1>2. /\ \A f \in Fds : table[f] = NoConn
      /\ \A ch \in Channels : handle[ch] = NoFd
      /\ \A conn \in Conns : wire[conn] = <<>> /\ conn \notin peerUp /\ ~Open(conn)
      /\ \A g \in Gens, ch \in Channels : <<g, ch>> \in Conns
  BY DEF Init, Open, Conns
<1>3. MadeInv
  BY <1>2 DEF MadeInv
<1>4. RunningInv /\ ServedInv /\ FailedInv /\ TriedInv /\ SendInv
  BY <1>1 DEF RunningInv, ServedInv, FailedInv, TriedInv, SendInv, Attempting, Connecting,
     Spawning
<1>5. WireInv /\ PacketsNeverInterleave
  BY <1>2 DEF WireInv, Ends, PacketsNeverInterleave, Followed
<1> QED
  BY <1>3, <1>4, <1>5 DEF CInv

\* IInv and CInv together are inductive.
LEMMA ServingInductive == Spec => [](IInv /\ CInv)
<1>1. IInv /\ CInv /\ [Next]_vars => CInv'
  BY MadeStep, RunningStep, ServedStep, FailedStep, TriedStep, SendStep, WireStep,
     PacketStep DEF CInv
<1> QED
  BY <1>1, ServingInit, Inductive, PTL DEF Spec

-----------------------------------------------------------------------------
\* While running_ is set and nobody connects or disconnects, both workers serve
\* the session, on the connections that its own Connect made.
THEOREM RunningServed == Spec => []RunningIsServed
<1>1. IInv /\ CInv => RunningIsServed
  <2> SUFFICES ASSUME IInv, CInv, running, lifecycle = NoThread
               PROVE  \A w \in Channels : Own(w) /\ Serves(w)
    BY DEF RunningIsServed, Own, Serves
  <2>1. Known /\ RunningInv /\ ServedInv
    BY KnownFacts DEF CInv
  <2>2. \A c \in Controllers : pc[c] \in {"idle", "dead"}
    BY <2>1, ThreadsAssumption DEF Known, LifecycleInv, Threads
  <2>3. \A c \in Controllers : pc[c] # "dead"
    BY <2>1 DEF Known, TerminateInv, RunningInv, Threads
  <2> QED
    BY <2>1, <2>2, <2>3 DEF ServedInv, Idling
<1> QED
  BY <1>1, ServingInductive, PTL

\* A Connect that failed has closed what it opened, but for a socket that a
\* worker of an earlier session is about to close.
THEOREM FailedConnectClean == Spec => []FailedConnectLeavesNothing
<1>1. IInv /\ CInv => FailedConnectLeavesNothing
  <2> SUFFICES ASSUME IInv, CInv, NEW c \in Controllers, pc[c] = "con_failed",
                      NEW f \in Fds, NEW ch \in Channels, table[f] = <<gen, ch>>
               PROVE  \E w \in Channels : pc[w] \in Closing /\ local[w] = f
    BY DEF FailedConnectLeavesNothing
  <2> USE ThreadsAssumption, SocketsAssumption
  <2>1. Known /\ MadeInv /\ FailedInv /\ TriedInv
    BY KnownFacts DEF CInv
  <2>2. handle["control"] = NoFd
    BY <2>1 DEF Known, ClosedInv, ControlClosed
  <2>3. handle["image"] # f
    <3>1. CASE handle["image"] = f
      <4>1. PICK g \in Gens : table[f] = <<g, "image">>
        BY <2>1, <3>1 DEF MadeInv, Channels
      <4> QED
        BY <2>1, <3>1, <4>1 DEF FailedInv
    <3> QED
      BY <3>1
  <2>4. ~Terminated
    BY DEF Terminated, Threads
  <2>5. table[f] # NoConn
    <3>1. gen \in Gens
      BY <2>1 DEF Known, TriedInv, Attempting, Gens
    <3> QED
      BY <3>1 DEF Conns
  <2>6. PICK t \in Threads : Owning(t) /\ local[t] = f
    BY <2>1, <2>2, <2>3, <2>4, <2>5 DEF Known, OwnerInv, Channels
  <2>7. t \notin Senders
    BY <2>1, <2>6 DEF Known, Owning, SenderLabels, Sending, Closing, ClosesControl,
       ClosesImage
  <2>8. t \notin Controllers
    BY <2>1, <2>6 DEF Known, LifecycleInv, Owning, Closing, ClosesControl, ClosesImage
  <2> QED
    BY <2>6, <2>7, <2>8 DEF Threads, Owning
<1> QED
  BY <1>1, ServingInductive, PTL

\* Whatever send() and the peer do: on a connection the head of a packet is
\* followed by its own tail, unless its SendXxx returned false.
THEOREM PacketsWhole == Spec => []PacketsNeverInterleave
<1>1. CInv => PacketsNeverInterleave
  BY DEF CInv
<1> QED
  BY <1>1, ServingInductive, PTL
=============================================================================
