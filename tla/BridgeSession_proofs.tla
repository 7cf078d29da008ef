------------------------ MODULE BridgeSession_proofs ------------------------
(***************************************************************************)
(* Proofs about BridgeSession, for any number of controllers, senders,      *)
(* descriptors and attempts, and whatever close() does to a blocked recv(). *)
(***************************************************************************)
EXTENDS BridgeSession, TLAPS

\* lifecycle_mutex_: a controller inside a call owns it.
LifecycleInv ==
    \A c \in Controllers : pc[c] \notin {"idle", "dead"} => lifecycle = c

\* std::terminate stops every thread or none.
TerminateInv == \A t \in Threads : pc[t] = "dead" => Terminated

\* From taking the mutex to running_.store(true).
Connecting == {"con_ctl_close", "con_ctl_dial", "con_img_close", "con_img_dial",
               "con_running"}

\* What running_, epoch, took and reports say of the attempts.
AttemptInv ==
    /\ running => gen # 0 /\ epoch[gen] = "up"
    /\ \A g \in Gens : g > gen => epoch[g] = "unused"
    /\ \A c \in Controllers :
          pc[c] \in Connecting => gen # 0 /\ epoch[gen] = "unused" /\ ~running
    /\ \A g \in Gens : epoch[g] # "failed" => reports[g] = 0
    /\ \A g \in Gens : reports[g] <= 1
    /\ \A w \in Channels : took[w] # 0 =>
          epoch[took[w]] = "failed" /\ reports[took[w]] = 0
    /\ \A v, w \in Channels : took[v] = took[w] /\ took[v] # 0 => v = w

\* Which local variables hold a handle.
LocalInv ==
    /\ \A c \in Controllers : pc[c] \notin Closing \cup {"dead"} => local[c] = NoFd
    /\ \A w \in Channels : pc[w] \notin Closing \cup {"recv", "recv_wait", "dead"}
                              => local[w] = NoFd
    /\ \A w \in Channels : pc[w] \in {"recv", "recv_wait"} => local[w] \in Fds
    /\ \A s \in Senders : pc[s] \in Sending => local[s] \in Fds

\* Where the controller knows a channel's handle to be invalid.
ControlClosed == {"con_ctl_dial", "con_failed", "catch_img_close", "catch_ctl_join",
                  "catch_img_join", "dis_img_close", "dis_ctl_join",
                  "dis_img_join", "dis_done"}
ImageClosed == {"con_img_dial", "con_rollback", "catch_ctl_join",
                "catch_img_join", "dis_ctl_join", "dis_img_join", "dis_done"}

ClosedInv ==
    \A c \in Controllers :
        /\ pc[c] \in ControlClosed => handle["control"] = NoFd
        /\ pc[c] \in ImageClosed => handle["image"] = NoFd
        /\ pc[c] \in Closing /\ local[c] # NoFd =>
              handle[ClosedChannel(pc[c])] = NoFd

Owning(t) == pc[t] \in Closing /\ local[t] # NoFd

\* Every open descriptor has an owner, owned descriptors are open, and no
\* descriptor is owned twice.
OwnerInv ==
    /\ ~Terminated => \A f \in Fds : table[f] # NoConn =>
          \/ \E ch \in Channels : handle[ch] = f
          \/ \E t \in Threads : Owning(t) /\ local[t] = f
    /\ \A ch \in Channels : handle[ch] # NoFd => table[handle[ch]] # NoConn
    /\ \A t \in Threads : Owning(t) => table[local[t]] # NoConn
    /\ handle["control"] = handle["image"] => handle["control"] = NoFd
    /\ \A t \in Threads, ch \in Channels : Owning(t) => local[t] # handle[ch]
    /\ \A t, u \in Threads : Owning(t) /\ Owning(u) /\ local[t] = local[u] => t = u

\* A worker that exists is held by a std::thread; who has joined it knows.
JoinInv ==
    /\ \A w \in Channels : pc[w] \notin {"none", "dead"} => joinable[w]
    /\ \A c \in Controllers :
          /\ pc[c] \in {"dis_img_join", "dis_done"} => ~joinable["control"]
          /\ pc[c] = "dis_done" => ~joinable["image"]

\* The inductive invariant.
IInv ==
    /\ TypeOK
    /\ LifecycleInv
    /\ TerminateInv
    /\ AttemptInv
    /\ LocalInv
    /\ ClosedInv
    /\ OwnerInv
    /\ JoinInv

-----------------------------------------------------------------------------
\* Every step keeps every thread at a label of its own role.
LEMMA PcStep == IInv /\ [Next]_vars => PcOK'
<1> SUFFICES ASSUME IInv, [Next]_vars PROVE PcOK'
  OBVIOUS
<1> USE ThreadsAssumption
<1> USE DEF IInv, TypeOK, PcOK, Goto, Threads, Channels, ControllerLabels,
        SenderLabels, WorkerLabels, Closing, ClosesControl, ClosesImage,
        Dialing, Spawning, Joining, Returning, Sending
<1>1. ASSUME NEW c \in Controllers,
             ConnectEnter(c) \/ DisconnectEnter(c) \/ ControllerStep(c)
      PROVE  PcOK'
  <2>1. CASE ConnectEnter(c)
    BY <2>1 DEF ConnectEnter
  <2>2. CASE DisconnectEnter(c)
    BY <2>2 DEF DisconnectEnter, StopRunning
  <2>3. CASE CloseExchange(c)
    BY <2>3 DEF CloseExchange, ClosedChannel, AfterClose
  <2>4. CASE CloseNative(c)
    BY <2>4 DEF CloseNative, ClosedChannel, AfterClose
  <2>5. CASE DialSucceeds(c)
    BY <2>5 DEF DialSucceeds, DialedChannel
  <2>6. CASE DialFails(c)
    BY <2>6 DEF DialFails
  <2>7. CASE StartRunning(c)
    BY <2>7 DEF StartRunning
  <2>8. CASE Spawn(c)
    BY <2>8 DEF Spawn, SpawnedWorker
  <2>9. CASE SpawnTerminates(c)
    BY <2>9 DEF SpawnTerminates, SpawnedWorker
  <2>10. CASE SpawnThrows(c)
    BY <2>10 DEF SpawnThrows
  <2>11. CASE CatchStop(c)
    BY <2>11 DEF CatchStop, StopRunning
  <2>12. CASE Join(c)
    BY <2>12 DEF Join, JoinedWorker, AfterJoin
  <2>13. CASE Return(c)
    BY <2>13 DEF Return
  <2> QED
    BY <1>1, <2>1, <2>2, <2>3, <2>4, <2>5, <2>6, <2>7, <2>8, <2>9, <2>10, <2>11,
       <2>12, <2>13 DEF ControllerStep
<1>2. ASSUME NEW w \in Channels, WorkerStep(w) \/ RecvSome(w) \/ RecvLast(w)
      PROVE  PcOK'
  <2>1. CASE LoopTest(w)
    BY <2>1 DEF LoopTest
  <2>2. CASE RecvLoad(w)
    BY <2>2 DEF RecvLoad
  <2>3. CASE RecvCall(w)
    BY <2>3 DEF RecvCall
  <2>4. CASE RecvSome(w)
    BY <2>4 DEF RecvSome
  <2>5. CASE RecvLast(w)
    BY <2>5 DEF RecvLast
  <2>6. CASE RecvError(w)
    BY <2>6 DEF RecvError
  <2>7. CASE AfterRecvFailed(w)
    BY <2>7 DEF AfterRecvFailed
  <2>8. CASE CallbackReturns(w)
    BY <2>8 DEF CallbackReturns
  <2>9. CASE FailExchange(w)
    BY <2>9 DEF FailExchange
  <2>10. CASE CloseExchange(w)
    BY <2>10 DEF CloseExchange, ClosedChannel, AfterClose
  <2>11. CASE CloseNative(w)
    BY <2>11 DEF CloseNative, ClosedChannel, AfterClose
  <2>12. CASE Report(w)
    BY <2>12 DEF Report
  <2> QED
    BY <1>2, <2>1, <2>2, <2>3, <2>4, <2>5, <2>6, <2>7, <2>8, <2>9, <2>10, <2>11,
       <2>12 DEF WorkerStep
<1>3. ASSUME NEW s \in Senders, SendEnter(s) \/ SenderStep(s)
      PROVE  PcOK'
  <2>1. CASE SendEnter(s)
    BY <2>1 DEF SendEnter
  <2>2. CASE SendLoad(s)
    BY <2>2 DEF SendLoad
  <2>3. CASE SendChunk(s)
    BY <2>3 DEF SendChunk, AfterSend, ChunkOf
  <2>4. CASE SendError(s)
    BY <2>4 DEF SendError
  <2>5. CASE SendReturn(s)
    BY <2>5 DEF SendReturn
  <2> QED
    BY <1>3, <2>1, <2>2, <2>3, <2>4, <2>5 DEF SenderStep
<1>4. ASSUME NEW conn \in Conns, PeerCloses(conn)
      PROVE  PcOK'
  BY <1>4 DEF PeerCloses
<1>5. CASE UNCHANGED vars
  BY <1>5 DEF vars
<1> QED
  BY <1>1, <1>2, <1>3, <1>4, <1>5 DEF Next, Dead

\* Appending to one sequence of a function of sequences keeps its type.
LEMMA AppendType ==
    ASSUME NEW S, NEW C, NEW f \in [S -> Seq(C)], NEW k \in S, NEW x \in C
    PROVE  [f EXCEPT ![k] = Append(@, x)] \in [S -> Seq(C)]
<1>1. Append(f[k], x) \in Seq(C)
  OBVIOUS
<1> QED
  BY <1>1

\* Every step keeps the other variables in their types.
LEMMA DataStep == IInv /\ [Next]_vars => DataOK'
<1> SUFFICES ASSUME IInv, [Next]_vars PROVE DataOK'
  OBVIOUS
<1> USE SocketsAssumption, BoundsAssumption
<1> USE DEF IInv, TypeOK, DataOK, Threads, Channels, Gens, Conns, Chunks,
        lifeVars, sockVars, recvVars, sendVars
<1>1. ASSUME NEW c \in Controllers,
             ConnectEnter(c) \/ DisconnectEnter(c) \/ ControllerStep(c)
      PROVE  DataOK'
  <2>1. CASE ConnectEnter(c)
    BY <2>1 DEF ConnectEnter
  <2>2. CASE DisconnectEnter(c)
    BY <2>2 DEF DisconnectEnter, StopRunning
  <2>3. CASE CloseExchange(c)
    BY <2>3 DEF CloseExchange, ClosedChannel, AfterClose
  <2>4. CASE CloseNative(c)
    BY <2>4 DEF CloseNative, ClosedChannel, AfterClose
  <2>5. CASE DialSucceeds(c)
    <3> DEFINE ch == DialedChannel(pc[c])
    <3>1. ch \in Channels /\ gen \in Gens
      BY <2>5 DEF DialSucceeds, DialedChannel, AttemptInv, Connecting, Dialing
    <3>2. <<gen, ch>> \in Conns
      BY <3>1
    <3>3. /\ table' \in [Fds -> Conns \cup {NoConn}]
          /\ handle' \in [Channels -> Fds \cup {NoFd}]
          /\ peerUp' \subseteq Conns
      <4> HIDE DEF ch
      <4>1. PICK f \in Fds : /\ table' = [table EXCEPT ![f] = <<gen, ch>>]
                             /\ handle' = [handle EXCEPT ![ch] = f]
        BY <2>5 DEF DialSucceeds, ch
      <4>2. peerUp' = peerUp \cup {<<gen, ch>>}
        BY <2>5 DEF DialSucceeds, ch
      <4> HIDE DEF Conns, Channels
      <4> QED
        BY <3>1, <3>2, <4>1, <4>2
    <3> QED
      BY <2>5, <3>3 DEF DialSucceeds
  <2>6. CASE DialFails(c)
    BY <2>6 DEF DialFails
  <2>7. CASE StartRunning(c)
    BY <2>7 DEF StartRunning, AttemptInv, Connecting
  <2>8. CASE Spawn(c)
    <3>1. joinable' \in [Channels -> BOOLEAN]
      BY <2>8 DEF Spawn, SpawnedWorker
    <3> QED
      BY <2>8, <3>1 DEF Spawn
  <2>9. CASE SpawnTerminates(c)
    BY <2>9 DEF SpawnTerminates, SpawnedWorker
  <2>10. CASE SpawnThrows(c)
    BY <2>10 DEF SpawnThrows
  <2>11. CASE CatchStop(c)
    BY <2>11 DEF CatchStop, StopRunning
  <2>12. CASE Join(c)
    <3>1. joinable' \in [Channels -> BOOLEAN]
      BY <2>12 DEF Join, JoinedWorker
    <3> QED
      BY <2>12, <3>1 DEF Join
  <2>13. CASE Return(c)
    BY <2>13 DEF Return
  <2> QED
    BY <1>1, <2>1, <2>2, <2>3, <2>4, <2>5, <2>6, <2>7, <2>8, <2>9, <2>10, <2>11,
       <2>12, <2>13 DEF ControllerStep
<1>2. ASSUME NEW w \in Channels, WorkerStep(w) \/ RecvSome(w) \/ RecvLast(w)
      PROVE  DataOK'
  <2>1. CASE LoopTest(w)
    BY <2>1 DEF LoopTest
  <2>2. CASE RecvLoad(w)
    BY <2>2 DEF RecvLoad
  <2>3. CASE RecvCall(w)
    <3>1. local[w] \in Fds
      BY <2>3 DEF RecvCall, LocalInv
    <3>2. on' \in [Channels -> Conns \cup {NoConn}]
      BY <2>3, <3>1 DEF RecvCall
    <3> QED
      BY <2>3, <3>2 DEF RecvCall
  <2>4. CASE RecvSome(w)
    BY <2>4 DEF RecvSome
  <2>5. CASE RecvLast(w)
    <3>1. /\ part' \in [Channels -> {"first", "rest"}]
          /\ on' \in [Channels -> Conns \cup {NoConn}]
      BY <2>5 DEF RecvLast
    <3>2. local' \in [Threads -> Fds \cup {NoFd}]
      BY <2>5 DEF RecvLast
    <3> QED
      BY <2>5, <3>1, <3>2 DEF RecvLast
  <2>6. CASE RecvError(w)
    BY <2>6 DEF RecvError
  <2>7. CASE AfterRecvFailed(w)
    BY <2>7 DEF AfterRecvFailed
  <2>8. CASE CallbackReturns(w)
    BY <2>8 DEF CallbackReturns
  <2>9. CASE FailExchange(w)
    <3>1. took' \in [Channels -> 0..MaxGen]
      BY <2>9 DEF FailExchange
    <3>2. epoch' \in [Gens -> {"unused", "up", "failed", "stopped"}]
      BY <2>9 DEF FailExchange
    <3> QED
      BY <2>9, <3>1, <3>2 DEF FailExchange
  <2>10. CASE CloseExchange(w)
    BY <2>10 DEF CloseExchange, ClosedChannel, AfterClose
  <2>11. CASE CloseNative(w)
    BY <2>11 DEF CloseNative, ClosedChannel, AfterClose
  <2>12. CASE Report(w)
    BY <2>12 DEF Report
  <2> QED
    BY <1>2, <2>1, <2>2, <2>3, <2>4, <2>5, <2>6, <2>7, <2>8, <2>9, <2>10, <2>11,
       <2>12 DEF WorkerStep
<1>3. ASSUME NEW s \in Senders, SendEnter(s) \/ SenderStep(s)
      PROVE  DataOK'
  <2>1. CASE SendEnter(s)
    BY <2>1 DEF SendEnter
  <2>2. CASE SendLoad(s)
    BY <2>2 DEF SendLoad
  <2>3. CASE SendChunk(s)
    <3> DEFINE conn == table[local[s]]
    <3>1. ChunkOf(s) \in Chunks
      BY <2>3 DEF ChunkOf
    <3>2. wire \in [Conns -> Seq(Chunks)] /\ peerUp \subseteq Conns
      OBVIOUS
    <3>3. wire' = IF conn \in peerUp
                  THEN [wire EXCEPT ![conn] = Append(wire[conn], ChunkOf(s))]
                  ELSE wire
      BY <2>3 DEF SendChunk
    <3>4. wire' \in [Conns -> Seq(Chunks)]
      <4> HIDE DEF conn, Conns, Chunks, DataOK
      <4> QED
        BY <3>1, <3>2, <3>3, AppendType
    <3> QED
      BY <2>3, <3>4 DEF SendChunk
  <2>4. CASE SendError(s)
    BY <2>4 DEF SendError
  <2>5. CASE SendReturn(s)
    BY <2>5 DEF SendReturn
  <2> QED
    BY <1>3, <2>1, <2>2, <2>3, <2>4, <2>5 DEF SenderStep
<1>4. ASSUME NEW conn \in Conns, PeerCloses(conn)
      PROVE  DataOK'
  BY <1>4 DEF PeerCloses
<1>5. CASE UNCHANGED vars
  BY <1>5 DEF vars
<1> QED
  BY <1>1, <1>2, <1>3, <1>4, <1>5 DEF Next, Dead

\* A call returns without the mutex it took.
LEMMA LocksStep == IInv /\ [Next]_vars => LocksOK'
<1> SUFFICES ASSUME IInv, [Next]_vars PROVE LocksOK'
  OBVIOUS
<1> USE ThreadsAssumption
<1> USE DEF IInv, TypeOK, PcOK, LocksOK, LifecycleInv, lifeVars, sockVars, recvVars,
        sendVars, Goto, Threads, Channels, ControllerLabels,
        SenderLabels, WorkerLabels, Closing, ClosesControl, ClosesImage,
        Dialing, Spawning, Joining, Returning, Sending
<1>1. ASSUME NEW c \in Controllers,
             ConnectEnter(c) \/ DisconnectEnter(c) \/ ControllerStep(c)
      PROVE  LocksOK'
  <2>1. CASE ConnectEnter(c)
    BY <2>1 DEF ConnectEnter
  <2>2. CASE DisconnectEnter(c)
    BY <2>2 DEF DisconnectEnter, StopRunning
  <2>3. CASE CloseExchange(c)
    BY <2>3 DEF CloseExchange, ClosedChannel, AfterClose
  <2>4. CASE CloseNative(c)
    BY <2>4 DEF CloseNative, ClosedChannel, AfterClose
  <2>5. CASE DialSucceeds(c)
    BY <2>5 DEF DialSucceeds, DialedChannel
  <2>6. CASE DialFails(c)
    BY <2>6 DEF DialFails
  <2>7. CASE StartRunning(c)
    BY <2>7 DEF StartRunning
  <2>8. CASE Spawn(c)
    BY <2>8 DEF Spawn, SpawnedWorker
  <2>9. CASE SpawnTerminates(c)
    BY <2>9 DEF SpawnTerminates, SpawnedWorker
  <2>10. CASE SpawnThrows(c)
    BY <2>10 DEF SpawnThrows
  <2>11. CASE CatchStop(c)
    BY <2>11 DEF CatchStop, StopRunning
  <2>12. CASE Join(c)
    BY <2>12 DEF Join, JoinedWorker, AfterJoin
  <2>13. CASE Return(c)
    BY <2>13 DEF Return
  <2> QED
    BY <1>1, <2>1, <2>2, <2>3, <2>4, <2>5, <2>6, <2>7, <2>8, <2>9, <2>10, <2>11,
       <2>12, <2>13 DEF ControllerStep
<1>2. ASSUME NEW w \in Channels, WorkerStep(w) \/ RecvSome(w) \/ RecvLast(w)
      PROVE  LocksOK'
  <2>1. CASE LoopTest(w)
    BY <2>1 DEF LoopTest
  <2>2. CASE RecvLoad(w)
    BY <2>2 DEF RecvLoad
  <2>3. CASE RecvCall(w)
    BY <2>3 DEF RecvCall
  <2>4. CASE RecvSome(w)
    BY <2>4 DEF RecvSome
  <2>5. CASE RecvLast(w)
    BY <2>5 DEF RecvLast
  <2>6. CASE RecvError(w)
    BY <2>6 DEF RecvError
  <2>7. CASE AfterRecvFailed(w)
    BY <2>7 DEF AfterRecvFailed
  <2>8. CASE CallbackReturns(w)
    BY <2>8 DEF CallbackReturns
  <2>9. CASE FailExchange(w)
    BY <2>9 DEF FailExchange
  <2>10. CASE CloseExchange(w)
    BY <2>10 DEF CloseExchange, ClosedChannel, AfterClose
  <2>11. CASE CloseNative(w)
    BY <2>11 DEF CloseNative, ClosedChannel, AfterClose
  <2>12. CASE Report(w)
    BY <2>12 DEF Report
  <2> QED
    BY <1>2, <2>1, <2>2, <2>3, <2>4, <2>5, <2>6, <2>7, <2>8, <2>9, <2>10, <2>11,
       <2>12 DEF WorkerStep
<1>3. ASSUME NEW s \in Senders, SendEnter(s) \/ SenderStep(s)
      PROVE  LocksOK'
  <2>1. CASE SendEnter(s)
    BY <2>1 DEF SendEnter
  <2>2. CASE SendLoad(s)
    BY <2>2 DEF SendLoad
  <2>3. CASE SendChunk(s)
    BY <2>3 DEF SendChunk, AfterSend, ChunkOf
  <2>4. CASE SendError(s)
    BY <2>4 DEF SendError
  <2>5. CASE SendReturn(s)
    BY <2>5 DEF SendReturn
  <2> QED
    BY <1>3, <2>1, <2>2, <2>3, <2>4, <2>5 DEF SenderStep
<1>4. ASSUME NEW conn \in Conns, PeerCloses(conn)
      PROVE  LocksOK'
  BY <1>4 DEF PeerCloses
<1>5. CASE UNCHANGED vars
  BY <1>5 DEF vars
<1> QED
  BY <1>1, <1>2, <1>3, <1>4, <1>5 DEF Next, Dead

\* lifecycle_mutex_ excludes: only its owner is inside Connect or Disconnect.
LEMMA LifecycleStep == IInv /\ [Next]_vars => LifecycleInv'
<1> SUFFICES ASSUME IInv, [Next]_vars PROVE LifecycleInv'
  OBVIOUS
<1> USE ThreadsAssumption
<1> USE DEF IInv, TypeOK, PcOK, DataOK, LifecycleInv, Goto, Threads, Channels,
        lifeVars, ControllerLabels, SenderLabels, WorkerLabels, Closing,
        ClosesControl, ClosesImage, Dialing, Spawning, Joining, Returning,
        Sending
<1>1. ASSUME NEW c \in Controllers,
             ConnectEnter(c) \/ DisconnectEnter(c) \/ ControllerStep(c)
      PROVE  LifecycleInv'
  <2>1. CASE ConnectEnter(c)
    BY <2>1 DEF ConnectEnter
  <2>2. CASE DisconnectEnter(c)
    BY <2>2 DEF DisconnectEnter, StopRunning
  <2>3. CASE CloseExchange(c)
    BY <2>3 DEF CloseExchange, ClosedChannel, AfterClose
  <2>4. CASE CloseNative(c)
    BY <2>4 DEF CloseNative, ClosedChannel, AfterClose
  <2>5. CASE DialSucceeds(c)
    BY <2>5 DEF DialSucceeds, DialedChannel
  <2>6. CASE DialFails(c)
    BY <2>6 DEF DialFails
  <2>7. CASE StartRunning(c)
    BY <2>7 DEF StartRunning
  <2>8. CASE Spawn(c)
    <3>1. /\ pc[c] \in Spawning /\ lifecycle' = lifecycle
          /\ \A d \in Controllers \ {c} : pc'[d] = pc[d]
      BY <2>8 DEF Spawn, SpawnedWorker
    <3>2. lifecycle = c
      BY <3>1
    <3> QED
      BY <3>1, <3>2
  <2>9. CASE SpawnTerminates(c)
    BY <2>9 DEF SpawnTerminates, SpawnedWorker
  <2>10. CASE SpawnThrows(c)
    BY <2>10 DEF SpawnThrows
  <2>11. CASE CatchStop(c)
    BY <2>11 DEF CatchStop, StopRunning
  <2>12. CASE Join(c)
    <3>1. /\ pc[c] \in Joining /\ lifecycle' = lifecycle
          /\ \A d \in Controllers \ {c} : pc'[d] = pc[d]
      BY <2>12 DEF Join, JoinedWorker
    <3>2. lifecycle = c
      BY <3>1
    <3> QED
      BY <3>1, <3>2
  <2>13. CASE Return(c)
    BY <2>13 DEF Return
  <2> QED
    BY <1>1, <2>1, <2>2, <2>3, <2>4, <2>5, <2>6, <2>7, <2>8, <2>9, <2>10, <2>11,
       <2>12, <2>13 DEF ControllerStep
<1>2. ASSUME NEW w \in Channels, WorkerStep(w) \/ RecvSome(w) \/ RecvLast(w)
      PROVE  LifecycleInv'
  <2>1. CASE LoopTest(w)
    BY <2>1 DEF LoopTest
  <2>2. CASE RecvLoad(w)
    BY <2>2 DEF RecvLoad
  <2>3. CASE RecvCall(w)
    BY <2>3 DEF RecvCall
  <2>4. CASE RecvSome(w)
    BY <2>4 DEF RecvSome
  <2>5. CASE RecvLast(w)
    BY <2>5 DEF RecvLast
  <2>6. CASE RecvError(w)
    BY <2>6 DEF RecvError
  <2>7. CASE AfterRecvFailed(w)
    BY <2>7 DEF AfterRecvFailed
  <2>8. CASE CallbackReturns(w)
    BY <2>8 DEF CallbackReturns
  <2>9. CASE FailExchange(w)
    BY <2>9 DEF FailExchange
  <2>10. CASE CloseExchange(w)
    BY <2>10 DEF CloseExchange, ClosedChannel, AfterClose
  <2>11. CASE CloseNative(w)
    BY <2>11 DEF CloseNative, ClosedChannel, AfterClose
  <2>12. CASE Report(w)
    BY <2>12 DEF Report
  <2> QED
    BY <1>2, <2>1, <2>2, <2>3, <2>4, <2>5, <2>6, <2>7, <2>8, <2>9, <2>10, <2>11,
       <2>12 DEF WorkerStep
<1>3. ASSUME NEW s \in Senders, SendEnter(s) \/ SenderStep(s)
      PROVE  LifecycleInv'
  <2>1. CASE SendEnter(s)
    BY <2>1 DEF SendEnter
  <2>2. CASE SendLoad(s)
    BY <2>2 DEF SendLoad
  <2>3. CASE SendChunk(s)
    BY <2>3 DEF SendChunk, AfterSend, ChunkOf
  <2>4. CASE SendError(s)
    BY <2>4 DEF SendError
  <2>5. CASE SendReturn(s)
    BY <2>5 DEF SendReturn
  <2> QED
    BY <1>3, <2>1, <2>2, <2>3, <2>4, <2>5 DEF SenderStep
<1>4. ASSUME NEW conn \in Conns, PeerCloses(conn)
      PROVE  LifecycleInv'
  BY <1>4 DEF PeerCloses
<1>5. CASE UNCHANGED vars
  BY <1>5 DEF vars
<1> QED
  BY <1>1, <1>2, <1>3, <1>4, <1>5 DEF Next, Dead

\* Spawn changes the pc of the controller and of the worker it starts.
LEMMA SpawnEffect ==
    ASSUME IInv, NEW c \in Controllers, Spawn(c)
    PROVE  LET w == SpawnedWorker(pc[c])
           IN  /\ w \in Channels /\ w # c /\ pc[w] = "none" /\ pc[c] \in Spawning
               /\ pc'[w] = "top" /\ pc'[c] \in {"con_img_spawn", "con_ok"}
               /\ joinable' = [joinable EXCEPT ![w] = TRUE]
               /\ \A t \in Threads \ {c, w} : pc'[t] = pc[t]
               /\ \A u \in Channels : pc'[u] = pc[u] \/ (pc[u] = "none" /\ pc'[u] = "top")
               /\ \A t \in Senders \cup (Controllers \ {c}) : pc'[t] = pc[t]
               /\ UNCHANGED <<local, running, lifecycle, gen, epoch, handle, table>>
<1> USE ThreadsAssumption DEF IInv, Threads, Channels
<1> DEFINE w == SpawnedWorker(pc[c])
<1>1. w \in Channels /\ w # c /\ ~joinable[w] /\ pc[c] \in Spawning
  BY DEF Spawn, SpawnedWorker
<1>2. pc[c] # "dead"
  BY <1>1 DEF Spawning
<1>3. pc[w] = "none"
  BY <1>1, <1>2 DEF JoinInv, TerminateInv, Terminated
<1>4. pc = [t \in Threads |-> pc[t]]
  BY DEF TypeOK, PcOK
<1>5. pc' = [pc EXCEPT ![c] = IF w = "control" THEN "con_img_spawn" ELSE "con_ok",
                       ![w] = "top"]
  BY DEF Spawn
<1>6. /\ joinable' = [joinable EXCEPT ![w] = TRUE]
      /\ UNCHANGED <<local, running, lifecycle, gen, epoch, handle, table>>
  BY DEF Spawn, sockVars
<1> HIDE DEF w
<1>7. \A t \in Threads \ {c, w} : pc'[t] = pc[t]
  BY <1>1, <1>3, <1>4, <1>5 DEF w
<1>8. /\ \A u \in Channels : pc'[u] = pc[u] \/ (pc[u] = "none" /\ pc'[u] = "top")
      /\ \A t \in Senders \cup (Controllers \ {c}) : pc'[t] = pc[t]
  BY <1>1, <1>3, <1>4, <1>5, <1>7
<1> QED
  BY <1>1, <1>3, <1>4, <1>5, <1>6, <1>7, <1>8 DEF w

\* Join changes the pc of the controller and of the worker it joins.
LEMMA JoinEffect ==
    ASSUME IInv, NEW c \in Controllers, Join(c)
    PROVE  LET w == JoinedWorker(pc[c])
           IN  /\ w \in Channels /\ w # c /\ pc[c] \in Joining
               /\ pc'[c] = AfterJoin(pc[c])
               /\ pc'[w] = pc[w] \/ (pc[w] = "done" /\ pc'[w] = "none")
               /\ \A t \in Threads \ {c, w} : pc'[t] = pc[t]
               /\ \A u \in Channels : pc'[u] = pc[u] \/ (pc[u] = "done" /\ pc'[u] = "none")
               /\ \A t \in Senders \cup (Controllers \ {c}) : pc'[t] = pc[t]
               /\ UNCHANGED <<local, running, lifecycle, gen, epoch, handle, table>>
<1> USE ThreadsAssumption DEF IInv, Threads, Channels
<1> DEFINE w == JoinedWorker(pc[c])
<1>1. w \in Channels /\ w # c /\ pc[c] \in Joining
  BY DEF Join, JoinedWorker
<1>2. pc = [t \in Threads |-> pc[t]]
  BY DEF TypeOK, PcOK
<1>3. \/ pc' = [pc EXCEPT ![c] = AfterJoin(pc[c])]
      \/ pc[w] = "done" /\ pc' = [pc EXCEPT ![c] = AfterJoin(pc[c]), ![w] = "none"]
  BY DEF Join, Goto
<1>4. UNCHANGED <<local, running, lifecycle, gen, epoch, handle, table>>
  BY DEF Join, sockVars
<1> HIDE DEF w
<1>5. \A t \in Threads \ {c, w} : pc'[t] = pc[t]
  BY <1>1, <1>2, <1>3 DEF w
<1>6. /\ \A u \in Channels : pc'[u] = pc[u] \/ (pc[u] = "done" /\ pc'[u] = "none")
      /\ \A t \in Senders \cup (Controllers \ {c}) : pc'[t] = pc[t]
  BY <1>1, <1>2, <1>3, <1>5
<1> QED
  BY <1>1, <1>2, <1>3, <1>4, <1>5, <1>6 DEF w

\* Only SpawnTerminates kills a thread, and it kills all of them.
LEMMA TerminateStep == IInv /\ [Next]_vars => TerminateInv'
<1> SUFFICES ASSUME IInv, [Next]_vars PROVE TerminateInv'
  OBVIOUS
<1> USE ThreadsAssumption
<1> USE DEF IInv, TypeOK, PcOK, DataOK, TerminateInv, Terminated, Goto, Threads,
        Channels, ControllerLabels, SenderLabels, WorkerLabels, Closing,
        ClosesControl, ClosesImage, Dialing, Spawning, Joining, Returning,
        Sending
<1>1. ASSUME NEW c \in Controllers,
             ConnectEnter(c) \/ DisconnectEnter(c) \/ ControllerStep(c)
      PROVE  TerminateInv'
  <2>1. CASE ConnectEnter(c)
    BY <2>1 DEF ConnectEnter
  <2>2. CASE DisconnectEnter(c)
    BY <2>2 DEF DisconnectEnter, StopRunning
  <2>3. CASE CloseExchange(c)
    <3>1. pc[c] \in Closing /\ AfterClose(pc[c]) # "dead"
      BY <2>3 DEF CloseExchange, AfterClose
    <3>2. \A t \in Threads : pc[t] # "dead"
      BY <3>1
    <3>3. pc' = [pc EXCEPT ![c] = AfterClose(pc[c])] \/ pc' = pc
      BY <2>3 DEF CloseExchange
    <3> QED
      BY <3>1, <3>2, <3>3
  <2>4. CASE CloseNative(c)
    BY <2>4 DEF CloseNative, ClosedChannel, AfterClose
  <2>5. CASE DialSucceeds(c)
    BY <2>5 DEF DialSucceeds, DialedChannel
  <2>6. CASE DialFails(c)
    BY <2>6 DEF DialFails
  <2>7. CASE StartRunning(c)
    BY <2>7 DEF StartRunning
  <2>8. CASE Spawn(c)
    BY <2>8 DEF Spawn, SpawnedWorker
  <2>9. CASE SpawnTerminates(c)
    BY <2>9 DEF SpawnTerminates, SpawnedWorker
  <2>10. CASE SpawnThrows(c)
    BY <2>10 DEF SpawnThrows
  <2>11. CASE CatchStop(c)
    BY <2>11 DEF CatchStop, StopRunning
  <2>12. CASE Join(c)
    <3> DEFINE v == JoinedWorker(pc[c])
    <3>1. /\ v \in Channels /\ v # c /\ pc[c] \in Joining
          /\ pc'[c] = AfterJoin(pc[c])
          /\ pc'[v] = pc[v] \/ (pc[v] = "done" /\ pc'[v] = "none")
          /\ \A w \in Channels : pc'[w] = pc[w] \/ (pc[w] = "done" /\ pc'[w] = "none")
          /\ \A t \in Senders \cup (Controllers \ {c}) : pc'[t] = pc[t]
          /\ local' = local /\ handle' = handle /\ lifecycle' = lifecycle
      <4> HIDE DEF IInv
      <4> QED
        BY <2>12, JoinEffect
    <3> HIDE DEF v
    <3>2. pc[c] # "dead" /\ pc'[c] # "dead"
      BY <3>1 DEF AfterJoin
    <3>3. \A t \in Threads : pc[t] # "dead" /\ pc'[t] # "dead"
      BY <3>1, <3>2
    <3> QED
      BY <3>3
  <2>13. CASE Return(c)
    BY <2>13 DEF Return
  <2> QED
    BY <1>1, <2>1, <2>2, <2>3, <2>4, <2>5, <2>6, <2>7, <2>8, <2>9, <2>10, <2>11,
       <2>12, <2>13 DEF ControllerStep
<1>2. ASSUME NEW w \in Channels, WorkerStep(w) \/ RecvSome(w) \/ RecvLast(w)
      PROVE  TerminateInv'
  <2>1. CASE LoopTest(w)
    BY <2>1 DEF LoopTest
  <2>2. CASE RecvLoad(w)
    BY <2>2 DEF RecvLoad
  <2>3. CASE RecvCall(w)
    BY <2>3 DEF RecvCall
  <2>4. CASE RecvSome(w)
    BY <2>4 DEF RecvSome
  <2>5. CASE RecvLast(w)
    BY <2>5 DEF RecvLast
  <2>6. CASE RecvError(w)
    BY <2>6 DEF RecvError
  <2>7. CASE AfterRecvFailed(w)
    BY <2>7 DEF AfterRecvFailed
  <2>8. CASE CallbackReturns(w)
    BY <2>8 DEF CallbackReturns
  <2>9. CASE FailExchange(w)
    BY <2>9 DEF FailExchange
  <2>10. CASE CloseExchange(w)
    <3>1. pc[w] \in Closing /\ AfterClose(pc[w]) # "dead"
      BY <2>10 DEF CloseExchange, AfterClose
    <3>2. \A t \in Threads : pc[t] # "dead"
      BY <3>1
    <3>3. pc' = [pc EXCEPT ![w] = AfterClose(pc[w])] \/ pc' = pc
      BY <2>10 DEF CloseExchange
    <3> QED
      BY <3>1, <3>2, <3>3
  <2>11. CASE CloseNative(w)
    BY <2>11 DEF CloseNative, ClosedChannel, AfterClose
  <2>12. CASE Report(w)
    BY <2>12 DEF Report
  <2> QED
    BY <1>2, <2>1, <2>2, <2>3, <2>4, <2>5, <2>6, <2>7, <2>8, <2>9, <2>10, <2>11,
       <2>12 DEF WorkerStep
<1>3. ASSUME NEW s \in Senders, SendEnter(s) \/ SenderStep(s)
      PROVE  TerminateInv'
  <2>1. CASE SendEnter(s)
    BY <2>1 DEF SendEnter
  <2>2. CASE SendLoad(s)
    BY <2>2 DEF SendLoad
  <2>3. CASE SendChunk(s)
    BY <2>3 DEF SendChunk, AfterSend, ChunkOf
  <2>4. CASE SendError(s)
    BY <2>4 DEF SendError
  <2>5. CASE SendReturn(s)
    BY <2>5 DEF SendReturn
  <2> QED
    BY <1>3, <2>1, <2>2, <2>3, <2>4, <2>5 DEF SenderStep
<1>4. ASSUME NEW conn \in Conns, PeerCloses(conn)
      PROVE  TerminateInv'
  BY <1>4 DEF PeerCloses
<1>5. CASE UNCHANGED vars
  BY <1>5 DEF vars
<1> QED
  BY <1>1, <1>2, <1>3, <1>4, <1>5 DEF Next, Dead

\* running_.exchange(false) credits each attempt's end to one thread.
LEMMA AttemptStep == IInv /\ [Next]_vars => AttemptInv'
<1> SUFFICES ASSUME IInv, [Next]_vars PROVE AttemptInv'
  OBVIOUS
<1> USE ThreadsAssumption, BoundsAssumption
<1> USE DEF IInv, TypeOK, PcOK, DataOK, AttemptInv, Goto, Threads, Channels,
        Gens, lifeVars, recvVars, Connecting, ControllerLabels, SenderLabels,
        WorkerLabels, Closing, ClosesControl, ClosesImage, Dialing, Spawning,
        Joining, Returning, Sending
<1>1. ASSUME NEW c \in Controllers,
             ConnectEnter(c) \/ DisconnectEnter(c) \/ ControllerStep(c)
      PROVE  AttemptInv'
  <2>1. CASE ConnectEnter(c)
    BY <2>1 DEF ConnectEnter, LifecycleInv
  <2>2. CASE DisconnectEnter(c)
    BY <2>2 DEF DisconnectEnter, StopRunning, LifecycleInv
  <2>3. CASE CloseExchange(c)
    BY <2>3 DEF CloseExchange, ClosedChannel, AfterClose
  <2>4. CASE CloseNative(c)
    BY <2>4 DEF CloseNative, ClosedChannel, AfterClose
  <2>5. CASE DialSucceeds(c)
    BY <2>5 DEF DialSucceeds, DialedChannel
  <2>6. CASE DialFails(c)
    BY <2>6 DEF DialFails
  <2>7. CASE StartRunning(c)
    <3>1. /\ gen \in Gens /\ epoch[gen] = "unused"
          /\ epoch' = [epoch EXCEPT ![gen] = "up"]
      BY <2>7 DEF StartRunning
    <3>2. \A d \in Controllers : pc'[d] \notin Connecting
      <4>1. pc[c] = "con_running" /\ pc' = [pc EXCEPT ![c] = "con_ctl_spawn"]
        BY <2>7 DEF StartRunning
      <4>2. \A d \in Controllers : d # c => pc[d] \in {"idle", "dead"}
        BY <4>1 DEF LifecycleInv
      <4>3. \A d \in Controllers : pc'[d] \in {"con_ctl_spawn", "idle", "dead"}
        BY <4>1, <4>2
      <4> QED
        BY <4>3
    <3>3. \A w \in Channels : took[w] # gen
      BY <3>1
    <3>4. /\ running' /\ gen' = gen /\ reports' = reports /\ took' = took
      BY <2>7 DEF StartRunning
    <3>5. \A g \in Gens : epoch'[g] = IF g = gen THEN "up" ELSE epoch[g]
      BY <3>1
    <3>6. \A w \in Channels : took[w] # 0 => took[w] \in Gens
      OBVIOUS
    <3> QED
      BY <3>1, <3>2, <3>3, <3>4, <3>5, <3>6
  <2>8. CASE Spawn(c)
    BY <2>8 DEF Spawn, SpawnedWorker
  <2>9. CASE SpawnTerminates(c)
    BY <2>9 DEF SpawnTerminates, SpawnedWorker
  <2>10. CASE SpawnThrows(c)
    BY <2>10 DEF SpawnThrows
  <2>11. CASE CatchStop(c)
    BY <2>11 DEF CatchStop, StopRunning, LifecycleInv
  <2>12. CASE Join(c)
    BY <2>12 DEF Join, JoinedWorker, AfterJoin
  <2>13. CASE Return(c)
    BY <2>13 DEF Return, LifecycleInv
  <2> QED
    BY <1>1, <2>1, <2>2, <2>3, <2>4, <2>5, <2>6, <2>7, <2>8, <2>9, <2>10, <2>11,
       <2>12, <2>13 DEF ControllerStep
<1>2. ASSUME NEW w \in Channels, WorkerStep(w) \/ RecvSome(w) \/ RecvLast(w)
      PROVE  AttemptInv'
  <2>1. CASE LoopTest(w)
    BY <2>1 DEF LoopTest
  <2>2. CASE RecvLoad(w)
    BY <2>2 DEF RecvLoad
  <2>3. CASE RecvCall(w)
    BY <2>3 DEF RecvCall
  <2>4. CASE RecvSome(w)
    BY <2>4 DEF RecvSome
  <2>5. CASE RecvLast(w)
    BY <2>5 DEF RecvLast
  <2>6. CASE RecvError(w)
    BY <2>6 DEF RecvError
  <2>7. CASE AfterRecvFailed(w)
    BY <2>7 DEF AfterRecvFailed
  <2>8. CASE CallbackReturns(w)
    BY <2>8 DEF CallbackReturns
  <2>9. CASE FailExchange(w)
    BY <2>9 DEF FailExchange
  <2>10. CASE CloseExchange(w)
    BY <2>10 DEF CloseExchange, ClosedChannel, AfterClose
  <2>11. CASE CloseNative(w)
    BY <2>11 DEF CloseNative, ClosedChannel, AfterClose
  <2>12. CASE Report(w)
    BY <2>12 DEF Report
  <2> QED
    BY <1>2, <2>1, <2>2, <2>3, <2>4, <2>5, <2>6, <2>7, <2>8, <2>9, <2>10, <2>11,
       <2>12 DEF WorkerStep
<1>3. ASSUME NEW s \in Senders, SendEnter(s) \/ SenderStep(s)
      PROVE  AttemptInv'
  <2>1. CASE SendEnter(s)
    BY <2>1 DEF SendEnter
  <2>2. CASE SendLoad(s)
    BY <2>2 DEF SendLoad
  <2>3. CASE SendChunk(s)
    BY <2>3 DEF SendChunk, AfterSend, ChunkOf
  <2>4. CASE SendError(s)
    BY <2>4 DEF SendError
  <2>5. CASE SendReturn(s)
    BY <2>5 DEF SendReturn
  <2> QED
    BY <1>3, <2>1, <2>2, <2>3, <2>4, <2>5 DEF SenderStep
<1>4. ASSUME NEW conn \in Conns, PeerCloses(conn)
      PROVE  AttemptInv'
  BY <1>4 DEF PeerCloses
<1>5. CASE UNCHANGED vars
  BY <1>5 DEF vars
<1> QED
  BY <1>1, <1>2, <1>3, <1>4, <1>5 DEF Next, Dead

\* A local variable holds a handle just where Close, RecvAll or SendAll use it.
LEMMA LocalStep == IInv /\ [Next]_vars => LocalInv'
<1> SUFFICES ASSUME IInv, [Next]_vars PROVE LocalInv'
  OBVIOUS
<1> USE ThreadsAssumption, SocketsAssumption
<1> USE DEF IInv, TypeOK, PcOK, DataOK, LocalInv, Goto, Threads, Channels,
        ControllerLabels, SenderLabels, WorkerLabels, Closing, ClosesControl,
        ClosesImage, Dialing, Spawning, Joining, Returning, Sending
<1>1. ASSUME NEW c \in Controllers,
             ConnectEnter(c) \/ DisconnectEnter(c) \/ ControllerStep(c)
      PROVE  LocalInv'
  <2>1. CASE ConnectEnter(c)
    <3>1. /\ pc[c] = "idle" /\ local' = local
          /\ \/ pc' = [pc EXCEPT ![c] = "con_refused"]
             \/ pc' = [pc EXCEPT ![c] = "con_ctl_close"]
      BY <2>1 DEF ConnectEnter
    <3>2. \A t \in Threads \ {c} : pc'[t] = pc[t]
      BY <3>1
    <3>3. local[c] = NoFd
      BY <3>1
    <3>4. \A d \in Controllers : pc'[d] \notin Closing \cup {"dead"} => local'[d] = NoFd
      BY <3>1, <3>2, <3>3
    <3>5. \A t \in Channels \cup Senders : t # c /\ pc'[t] = pc[t]
      BY <3>2
    <3> QED
      BY <3>1, <3>4, <3>5
  <2>2. CASE DisconnectEnter(c)
    BY <2>2 DEF DisconnectEnter, StopRunning
  <2>3. CASE CloseExchange(c)
    BY <2>3 DEF CloseExchange, ClosedChannel, AfterClose
  <2>4. CASE CloseNative(c)
    BY <2>4 DEF CloseNative, ClosedChannel, AfterClose
  <2>5. CASE DialSucceeds(c)
    BY <2>5 DEF DialSucceeds, DialedChannel
  <2>6. CASE DialFails(c)
    BY <2>6 DEF DialFails
  <2>7. CASE StartRunning(c)
    BY <2>7 DEF StartRunning
  <2>8. CASE Spawn(c)
    <3> DEFINE v == SpawnedWorker(pc[c])
    <3>1. /\ v \in Channels /\ v # c /\ pc[v] = "none" /\ pc[c] \in Spawning
          /\ pc'[v] = "top" /\ pc'[c] \in {"con_img_spawn", "con_ok"}
          /\ \A w \in Channels : pc'[w] = pc[w] \/ (pc[w] = "none" /\ pc'[w] = "top")
          /\ \A t \in Senders \cup (Controllers \ {c}) : pc'[t] = pc[t]
          /\ local' = local /\ handle' = handle /\ lifecycle' = lifecycle
      <4> HIDE DEF IInv
      <4> QED
        BY <2>8, SpawnEffect
    <3> HIDE DEF v
    <3>3. local[c] = NoFd
      BY <3>1
    <3>4. \A d \in Controllers :
            pc'[d] \notin Closing \cup {"dead"} => local'[d] = NoFd
      BY <3>1, <3>3
    <3>5. \A w \in Channels :
            /\ pc'[w] \notin Closing \cup {"recv", "recv_wait", "dead"}
                  => local'[w] = NoFd
            /\ pc'[w] \in {"recv", "recv_wait"} => local'[w] \in Fds
      BY <3>1
    <3>6. \A s \in Senders : pc'[s] \in Sending => local'[s] \in Fds
      BY <3>1
    <3> QED
      BY <3>4, <3>5, <3>6
  <2>9. CASE SpawnTerminates(c)
    BY <2>9 DEF SpawnTerminates, SpawnedWorker
  <2>10. CASE SpawnThrows(c)
    BY <2>10 DEF SpawnThrows
  <2>11. CASE CatchStop(c)
    BY <2>11 DEF CatchStop, StopRunning
  <2>12. CASE Join(c)
    <3> DEFINE v == JoinedWorker(pc[c])
    <3>1. /\ v \in Channels /\ v # c /\ pc[c] \in Joining
          /\ pc'[c] = AfterJoin(pc[c])
          /\ pc'[v] = pc[v] \/ (pc[v] = "done" /\ pc'[v] = "none")
          /\ \A w \in Channels : pc'[w] = pc[w] \/ (pc[w] = "done" /\ pc'[w] = "none")
          /\ \A t \in Senders \cup (Controllers \ {c}) : pc'[t] = pc[t]
          /\ local' = local /\ handle' = handle /\ lifecycle' = lifecycle
      <4> HIDE DEF IInv
      <4> QED
        BY <2>12, JoinEffect
    <3> HIDE DEF v
    <3>2. pc'[c] \in Joining \cup {"con_failed", "dis_done"}
      BY <3>1 DEF AfterJoin
    <3>3. local[c] = NoFd
      BY <3>1
    <3>5. \A d \in Controllers :
            pc'[d] \notin Closing \cup {"dead"} => local'[d] = NoFd
      BY <3>1, <3>3
    <3>6. \A w \in Channels :
            /\ pc'[w] \notin Closing \cup {"recv", "recv_wait", "dead"}
                  => local'[w] = NoFd
            /\ pc'[w] \in {"recv", "recv_wait"} => local'[w] \in Fds
      BY <3>1
    <3>7. \A s \in Senders : pc'[s] \in Sending => local'[s] \in Fds
      BY <3>1
    <3> QED
      BY <3>5, <3>6, <3>7
  <2>13. CASE Return(c)
    BY <2>13 DEF Return
  <2> QED
    BY <1>1, <2>1, <2>2, <2>3, <2>4, <2>5, <2>6, <2>7, <2>8, <2>9, <2>10, <2>11,
       <2>12, <2>13 DEF ControllerStep
<1>2. ASSUME NEW w \in Channels, WorkerStep(w) \/ RecvSome(w) \/ RecvLast(w)
      PROVE  LocalInv'
  <2>1. CASE LoopTest(w)
    BY <2>1 DEF LoopTest
  <2>2. CASE RecvLoad(w)
    BY <2>2 DEF RecvLoad
  <2>3. CASE RecvCall(w)
    BY <2>3 DEF RecvCall
  <2>4. CASE RecvSome(w)
    BY <2>4 DEF RecvSome
  <2>5. CASE RecvLast(w)
    BY <2>5 DEF RecvLast
  <2>6. CASE RecvError(w)
    BY <2>6 DEF RecvError
  <2>7. CASE AfterRecvFailed(w)
    BY <2>7 DEF AfterRecvFailed
  <2>8. CASE CallbackReturns(w)
    BY <2>8 DEF CallbackReturns
  <2>9. CASE FailExchange(w)
    BY <2>9 DEF FailExchange
  <2>10. CASE CloseExchange(w)
    BY <2>10 DEF CloseExchange, ClosedChannel, AfterClose
  <2>11. CASE CloseNative(w)
    BY <2>11 DEF CloseNative, ClosedChannel, AfterClose
  <2>12. CASE Report(w)
    BY <2>12 DEF Report
  <2> QED
    BY <1>2, <2>1, <2>2, <2>3, <2>4, <2>5, <2>6, <2>7, <2>8, <2>9, <2>10, <2>11,
       <2>12 DEF WorkerStep
<1>3. ASSUME NEW s \in Senders, SendEnter(s) \/ SenderStep(s)
      PROVE  LocalInv'
  <2>1. CASE SendEnter(s)
    BY <2>1 DEF SendEnter
  <2>2. CASE SendLoad(s)
    BY <2>2 DEF SendLoad
  <2>3. CASE SendChunk(s)
    BY <2>3 DEF SendChunk, AfterSend, ChunkOf
  <2>4. CASE SendError(s)
    BY <2>4 DEF SendError
  <2>5. CASE SendReturn(s)
    BY <2>5 DEF SendReturn
  <2> QED
    BY <1>3, <2>1, <2>2, <2>3, <2>4, <2>5 DEF SenderStep
<1>4. ASSUME NEW conn \in Conns, PeerCloses(conn)
      PROVE  LocalInv'
  BY <1>4 DEF PeerCloses
<1>5. CASE UNCHANGED vars
  BY <1>5 DEF vars
<1> QED
  BY <1>1, <1>2, <1>3, <1>4, <1>5 DEF Next, Dead

\* After Close() on a channel the caller still holding the mutex finds it closed.
LEMMA ClosedStep == IInv /\ [Next]_vars => ClosedInv'
<1> SUFFICES ASSUME IInv, [Next]_vars PROVE ClosedInv'
  OBVIOUS
<1> USE ThreadsAssumption, SocketsAssumption
<1> USE DEF IInv, TypeOK, PcOK, DataOK, ClosedInv, LocalInv, LifecycleInv,
        ClosedChannel, Goto, Threads, Channels, sockVars, ControlClosed,
        ImageClosed, ControllerLabels, SenderLabels, WorkerLabels, Closing,
        ClosesControl, ClosesImage, Dialing, Spawning, Joining, Returning,
        Sending
<1>1. ASSUME NEW c \in Controllers,
             ConnectEnter(c) \/ DisconnectEnter(c) \/ ControllerStep(c)
      PROVE  ClosedInv'
  <2>1. CASE ConnectEnter(c)
    <3>1. /\ handle' = handle /\ local' = local /\ local[c] = NoFd
          /\ \A d \in Controllers \ {c} : pc'[d] = pc[d]
          /\ pc'[c] \in {"con_refused", "con_ctl_close"}
      BY <2>1 DEF ConnectEnter
    <3> QED
      BY <3>1
  <2>2. CASE DisconnectEnter(c)
    BY <2>2 DEF DisconnectEnter, StopRunning
  <2>3. CASE CloseExchange(c)
    BY <2>3 DEF CloseExchange, ClosedChannel, AfterClose
  <2>4. CASE CloseNative(c)
    BY <2>4 DEF CloseNative, ClosedChannel, AfterClose
  <2>5. CASE DialSucceeds(c)
    <3>1. \A d \in Controllers : d # c => pc'[d] = pc[d] /\ pc[d] \in {"idle", "dead"}
      BY <2>5 DEF DialSucceeds
    <3>2. pc'[c] \in {"con_img_close", "con_running"} /\ local'[c] = NoFd
      BY <2>5 DEF DialSucceeds, DialedChannel
    <3> QED
      BY <3>1, <3>2
  <2>6. CASE DialFails(c)
    BY <2>6 DEF DialFails
  <2>7. CASE StartRunning(c)
    BY <2>7 DEF StartRunning
  <2>8. CASE Spawn(c)
    <3> DEFINE v == SpawnedWorker(pc[c])
    <3>1. /\ v \in Channels /\ v # c /\ pc[v] = "none" /\ pc[c] \in Spawning
          /\ pc'[v] = "top" /\ pc'[c] \in {"con_img_spawn", "con_ok"}
          /\ \A w \in Channels : pc'[w] = pc[w] \/ (pc[w] = "none" /\ pc'[w] = "top")
          /\ \A t \in Senders \cup (Controllers \ {c}) : pc'[t] = pc[t]
          /\ local' = local /\ handle' = handle /\ lifecycle' = lifecycle
      <4> HIDE DEF IInv
      <4> QED
        BY <2>8, SpawnEffect
    <3> HIDE DEF v
    <3>3. pc'[c] \notin ControlClosed \cup ImageClosed \cup Closing
      BY <3>1
    <3>4. \A d \in Controllers \ {c} : pc'[d] = pc[d]
      BY <3>1
    <3> QED
      BY <3>1, <3>3, <3>4
  <2>9. CASE SpawnTerminates(c)
    BY <2>9 DEF SpawnTerminates, SpawnedWorker
  <2>10. CASE SpawnThrows(c)
    BY <2>10 DEF SpawnThrows
  <2>11. CASE CatchStop(c)
    BY <2>11 DEF CatchStop, StopRunning
  <2>12. CASE Join(c)
    BY <2>12 DEF Join, JoinedWorker, AfterJoin
  <2>13. CASE Return(c)
    BY <2>13 DEF Return
  <2> QED
    BY <1>1, <2>1, <2>2, <2>3, <2>4, <2>5, <2>6, <2>7, <2>8, <2>9, <2>10, <2>11,
       <2>12, <2>13 DEF ControllerStep
<1>2. ASSUME NEW w \in Channels, WorkerStep(w) \/ RecvSome(w) \/ RecvLast(w)
      PROVE  ClosedInv'
  <2>1. CASE LoopTest(w)
    BY <2>1 DEF LoopTest
  <2>2. CASE RecvLoad(w)
    BY <2>2 DEF RecvLoad
  <2>3. CASE RecvCall(w)
    BY <2>3 DEF RecvCall
  <2>4. CASE RecvSome(w)
    BY <2>4 DEF RecvSome
  <2>5. CASE RecvLast(w)
    BY <2>5 DEF RecvLast
  <2>6. CASE RecvError(w)
    BY <2>6 DEF RecvError
  <2>7. CASE AfterRecvFailed(w)
    BY <2>7 DEF AfterRecvFailed
  <2>8. CASE CallbackReturns(w)
    BY <2>8 DEF CallbackReturns
  <2>9. CASE FailExchange(w)
    BY <2>9 DEF FailExchange
  <2>10. CASE CloseExchange(w)
    BY <2>10 DEF CloseExchange, ClosedChannel, AfterClose
  <2>11. CASE CloseNative(w)
    BY <2>11 DEF CloseNative, ClosedChannel, AfterClose
  <2>12. CASE Report(w)
    BY <2>12 DEF Report
  <2> QED
    BY <1>2, <2>1, <2>2, <2>3, <2>4, <2>5, <2>6, <2>7, <2>8, <2>9, <2>10, <2>11,
       <2>12 DEF WorkerStep
<1>3. ASSUME NEW s \in Senders, SendEnter(s) \/ SenderStep(s)
      PROVE  ClosedInv'
  <2>1. CASE SendEnter(s)
    BY <2>1 DEF SendEnter
  <2>2. CASE SendLoad(s)
    BY <2>2 DEF SendLoad
  <2>3. CASE SendChunk(s)
    BY <2>3 DEF SendChunk, AfterSend, ChunkOf
  <2>4. CASE SendError(s)
    BY <2>4 DEF SendError
  <2>5. CASE SendReturn(s)
    BY <2>5 DEF SendReturn
  <2> QED
    BY <1>3, <2>1, <2>2, <2>3, <2>4, <2>5 DEF SenderStep
<1>4. ASSUME NEW conn \in Conns, PeerCloses(conn)
      PROVE  ClosedInv'
  BY <1>4 DEF PeerCloses
<1>5. CASE UNCHANGED vars
  BY <1>5 DEF vars
<1> QED
  BY <1>1, <1>2, <1>3, <1>4, <1>5 DEF Next, Dead

\* A step that changes no handle, no table entry and no owning local variable.
OwnersUnchanged ==
    /\ table' = table /\ handle' = handle
    /\ Terminated => Terminated'
    /\ \A t \in Threads : /\ Owning(t)' <=> Owning(t)
                          /\ Owning(t) => local'[t] = local[t]

\* Such a step keeps every descriptor's owner.
LEMMA OwnersKept ==
    ASSUME OwnerInv, OwnersUnchanged
    PROVE  OwnerInv'
<1> USE DEF OwnersUnchanged
<1>1. (~Terminated => \A f \in Fds : table[f] # NoConn =>
          \/ \E ch \in Channels : handle[ch] = f
          \/ \E t \in Threads : Owning(t) /\ local[t] = f)'
  BY DEF OwnerInv
<1>2. (\A t \in Threads : Owning(t) => table[local[t]] # NoConn)'
  BY DEF OwnerInv
<1>3. (\A t, u \in Threads : Owning(t) /\ Owning(u) /\ local[t] = local[u] => t = u)'
  BY DEF OwnerInv
<1>4. (\A t \in Threads, ch \in Channels : Owning(t) => local[t] # handle[ch])'
  BY DEF OwnerInv
<1> QED
  BY <1>1, <1>2, <1>3, <1>4 DEF OwnerInv

\* Close()'s exchange, by whichever thread: the handle changes owner.
LEMMA CloseExchangeOwner ==
    ASSUME IInv, NEW t \in Threads, CloseExchange(t)
    PROVE  OwnerInv'
<1> USE DEF IInv
<1> DEFINE ch == ClosedChannel(pc[t])
<1>1. /\ ch \in Channels /\ table' = table
      /\ pc[t] \in Closing /\ local[t] = NoFd
      /\ local' = [local EXCEPT ![t] = handle[ch]]
      /\ handle' = [handle EXCEPT ![ch] = NoFd]
      /\ handle[ch] = NoFd => pc' = [pc EXCEPT ![t] = AfterClose(pc[t])]
      /\ handle[ch] # NoFd => pc' = pc
  BY DEF CloseExchange, ClosedChannel, Channels, Goto, sockVars
<1>2. /\ local \in [Threads -> Fds \cup {NoFd}] /\ pc = [u \in Threads |-> pc[u]]
      /\ handle \in [Channels -> Fds \cup {NoFd}]
  BY DEF TypeOK, PcOK, DataOK
<1>3. pc[t] # "dead"
  BY <1>1 DEF Closing, ClosesControl, ClosesImage
<1> HIDE DEF ch
<1>4. CASE handle[ch] = NoFd
  <2>1. handle' = handle /\ local' = local
    BY <1>1, <1>2, <1>4
  <2>2. \A u \in Threads : Owning(u)' <=> Owning(u)
    BY <1>1, <1>2, <1>4 DEF Owning
  <2> QED
    BY <1>1, <1>2, <1>3, <1>4, <2>1, <2>2, OwnersKept DEF OwnersUnchanged,
       Terminated
<1>5. CASE handle[ch] # NoFd
  <2>1. /\ \A u \in Threads \ {t} : /\ Owning(u)' <=> Owning(u)
                                    /\ local'[u] = local[u]
        /\ Owning(t)' /\ ~Owning(t) /\ local'[t] = handle[ch]
    BY <1>1, <1>2, <1>5 DEF Owning
  <2>2. \A x \in Channels \ {ch} : handle'[x] = handle[x]
    BY <1>1, <1>2
  <2>3. handle'[ch] = NoFd
    BY <1>1, <1>2
  <2>4. ~Terminated
    BY <1>3 DEF Terminated
  <2>5. \A x, y \in Channels : handle[x] = handle[y] /\ handle[x] # NoFd => x = y
    BY DEF OwnerInv, Channels
  <2>6. (\A u, v \in Threads : Owning(u) /\ Owning(v) /\ local[u] = local[v] => u = v)'
    BY <1>1, <1>5, <2>1 DEF OwnerInv
  <2>7. (\A u \in Threads, x \in Channels : Owning(u) => local[u] # handle[x])'
    BY <1>1, <1>5, <2>1, <2>2, <2>3, <2>5 DEF OwnerInv, Owning
  <2>8. (~Terminated => \A f \in Fds : table[f] # NoConn =>
            \/ \E x \in Channels : handle[x] = f
            \/ \E u \in Threads : Owning(u) /\ local[u] = f)'
    BY <1>1, <1>5, <2>1, <2>2, <2>4 DEF OwnerInv
  <2>9. (\A u \in Threads : Owning(u) => table[local[u]] # NoConn)'
    BY <1>1, <1>5, <2>1 DEF OwnerInv
  <2>10. (/\ \A x \in Channels : handle[x] # NoFd => table[handle[x]] # NoConn
          /\ handle["control"] = handle["image"] => handle["control"] = NoFd)'
    BY <1>1, <2>2, <2>3, <2>5 DEF OwnerInv, Channels
  <2> QED
    BY <2>6, <2>7, <2>8, <2>9, <2>10 DEF OwnerInv
<1> QED
  BY <1>4, <1>5

\* Closing the descriptor of the owner that holds it leaves it with none.
LEMMA CloseNativeOwner ==
    ASSUME IInv, NEW t \in Threads, CloseNative(t)
    PROVE  OwnerInv'
<1> USE DEF IInv
<1>1. /\ handle' = handle /\ pc[t] \in Closing /\ local[t] # NoFd
      /\ table' = [table EXCEPT ![local[t]] = NoConn]
      /\ local' = [local EXCEPT ![t] = NoFd]
      /\ pc' = [pc EXCEPT ![t] = AfterClose(pc[t])]
  BY DEF CloseNative, Goto
<1>2. /\ local \in [Threads -> Fds \cup {NoFd}] /\ pc = [u \in Threads |-> pc[u]]
      /\ table \in [Fds -> Conns \cup {NoConn}]
      /\ handle \in [Channels -> Fds \cup {NoFd}]
  BY DEF TypeOK, PcOK, DataOK
<1>3. ~Terminated
  BY <1>1 DEF Terminated, Closing, ClosesControl, ClosesImage
<1>4. /\ \A u \in Threads \ {t} : /\ Owning(u)' <=> Owning(u)
                                  /\ local'[u] = local[u]
      /\ ~Owning(t)' /\ Owning(t) /\ local[t] \in Fds
  BY <1>1, <1>2 DEF Owning
<1>5. \A f \in Fds : table'[f] = IF f = local[t] THEN NoConn ELSE table[f]
  BY <1>1, <1>2
<1>6. (~Terminated => \A f \in Fds : table[f] # NoConn =>
          \/ \E ch \in Channels : handle[ch] = f
          \/ \E u \in Threads : Owning(u) /\ local[u] = f)'
  BY <1>1, <1>3, <1>4, <1>5 DEF OwnerInv
<1>7. (\A ch \in Channels : handle[ch] # NoFd => table[handle[ch]] # NoConn)'
  BY <1>1, <1>2, <1>4, <1>5 DEF OwnerInv
<1>8. (\A u \in Threads : Owning(u) => table[local[u]] # NoConn)'
  <2> SUFFICES ASSUME NEW u \in Threads, Owning(u)'
               PROVE  table'[local'[u]] # NoConn
    OBVIOUS
  <2>1. u # t /\ Owning(u) /\ local'[u] = local[u]
    BY <1>4
  <2>2. local[u] # local[t] /\ table[local[u]] # NoConn /\ local[u] \in Fds
    BY <1>2, <1>4, <2>1 DEF OwnerInv, Owning
  <2> QED
    BY <1>5, <2>1, <2>2
<1>9. (\A u \in Threads, ch \in Channels : Owning(u) => local[u] # handle[ch])'
  BY <1>1, <1>4 DEF OwnerInv
<1>10. (\A u, v \in Threads : Owning(u) /\ Owning(v) /\ local[u] = local[v] => u = v)'
  BY <1>4 DEF OwnerInv
<1> QED
  BY <1>1, <1>6, <1>7, <1>8, <1>9, <1>10 DEF OwnerInv

\* A new descriptor's first owner is the TcpClient that asked for it, which
\* owned none.
LEMMA DialOwner ==
    ASSUME IInv, NEW c \in Controllers, DialSucceeds(c)
    PROVE  OwnerInv'
<1> USE DEF IInv
<1> DEFINE ch == DialedChannel(pc[c])
<1>1. PICK f \in Fds :
          /\ table[f] = NoConn
          /\ table' = [table EXCEPT ![f] = <<gen, ch>>]
          /\ handle' = [handle EXCEPT ![ch] = f]
  BY DEF DialSucceeds
<1>2. /\ pc[c] \in Dialing /\ ch \in Channels /\ local' = local
      /\ pc' = [pc EXCEPT ![c] = IF ch = "control" THEN "con_img_close"
                                                  ELSE "con_running"]
  BY DEF DialSucceeds, DialedChannel, Channels, Goto
<1>3. /\ local \in [Threads -> Fds \cup {NoFd}] /\ pc = [u \in Threads |-> pc[u]]
      /\ table \in [Fds -> Conns \cup {NoConn}]
      /\ handle \in [Channels -> Fds \cup {NoFd}]
  BY DEF TypeOK, PcOK, DataOK
<1>4. handle[ch] = NoFd /\ local[c] = NoFd
  BY <1>2 DEF ClosedInv, ControlClosed, ImageClosed, DialedChannel, Dialing,
     LocalInv, Closing, ClosesControl, ClosesImage
<1>5. <<gen, ch>> # NoConn
  <2>1. gen \in Gens
    BY <1>2, BoundsAssumption DEF AttemptInv, Connecting, Dialing, TypeOK,
       DataOK, Gens
  <2> QED
    BY <1>2, <2>1, SocketsAssumption DEF Conns
<1>6. f # NoFd
  BY SocketsAssumption
<1> HIDE DEF ch
<1>7. \A g \in Fds : table'[g] = IF g = f THEN <<gen, ch>> ELSE table[g]
  BY <1>1, <1>3
<1>8. \A x \in Channels : handle'[x] = IF x = ch THEN f ELSE handle[x]
  BY <1>1, <1>3
<1>9. \A t \in Threads : (Owning(t)' <=> Owning(t)) /\ local'[t] = local[t]
  BY <1>2, <1>3, <1>4 DEF Owning, Threads
<1>10. \A x \in Channels : handle[x] # f
  BY <1>1, <1>6 DEF OwnerInv
<1>11. \A t \in Threads : Owning(t) => local[t] # f
  BY <1>1 DEF OwnerInv
<1>12. pc[c] # "dead" /\ ~Terminated
  BY <1>2 DEF Dialing, Terminated, Threads
<1>13. (~Terminated => \A g \in Fds : table[g] # NoConn =>
          \/ \E x \in Channels : handle[x] = g
          \/ \E t \in Threads : Owning(t) /\ local[t] = g)'
  <2> SUFFICES ASSUME NEW g \in Fds, table'[g] # NoConn
               PROVE  \/ \E x \in Channels : handle'[x] = g
                      \/ \E t \in Threads : Owning(t)' /\ local'[t] = g
    OBVIOUS
  <2>1. CASE g = f
    BY <1>2, <1>8, <2>1
  <2>2. CASE g # f
    <3>1. \/ \E x \in Channels : handle[x] = g
          \/ \E t \in Threads : Owning(t) /\ local[t] = g
      BY <1>7, <1>12, <2>2 DEF OwnerInv
    <3>2. ASSUME NEW x \in Channels, handle[x] = g
          PROVE  handle'[x] = g
      BY <1>4, <1>8, <2>2, <3>2, SocketsAssumption
    <3> QED
      BY <1>9, <3>1, <3>2
  <2> QED
    BY <2>1, <2>2
<1>14. (\A x \in Channels : handle[x] # NoFd => table[handle[x]] # NoConn)'
  BY <1>3, <1>5, <1>7, <1>8 DEF OwnerInv
<1>15. (\A t \in Threads : Owning(t) => table[local[t]] # NoConn)'
  BY <1>3, <1>5, <1>7, <1>9 DEF OwnerInv, Owning
<1>16. (handle["control"] = handle["image"] => handle["control"] = NoFd)'
  BY <1>2, <1>8, <1>10 DEF OwnerInv, Channels
<1>17. (\A t \in Threads, x \in Channels : Owning(t) => local[t] # handle[x])'
  BY <1>8, <1>9, <1>11 DEF OwnerInv
<1>18. (\A t, u \in Threads : Owning(t) /\ Owning(u) /\ local[t] = local[u] => t = u)'
  BY <1>9 DEF OwnerInv
<1> QED
  BY <1>13, <1>14, <1>15, <1>16, <1>17, <1>18 DEF OwnerInv

\* Every step keeps exactly one owner for every open descriptor.
LEMMA OwnerStep == IInv /\ [Next]_vars => OwnerInv'
<1> SUFFICES ASSUME IInv, [Next]_vars PROVE OwnerInv'
  OBVIOUS
<1> USE ThreadsAssumption, SocketsAssumption
<1> USE DEF IInv, TypeOK, PcOK, DataOK, LocalInv, Owning, Goto, Threads,
        Channels, sockVars, ControllerLabels, SenderLabels, WorkerLabels,
        Closing, ClosesControl, ClosesImage, Dialing, Spawning, Joining,
        Returning, Sending
<1>1. ASSUME NEW c \in Controllers,
             ConnectEnter(c) \/ DisconnectEnter(c) \/ ControllerStep(c)
      PROVE  OwnerInv'
  <2>1. CASE ConnectEnter(c)
    <3>1. OwnersUnchanged
      BY <2>1 DEF ConnectEnter, OwnersUnchanged, Terminated
    <3> QED
      BY <3>1, OwnersKept
  <2>2. CASE DisconnectEnter(c)
    <3>1. OwnersUnchanged
      BY <2>2 DEF DisconnectEnter, StopRunning, OwnersUnchanged, Terminated
    <3> QED
      BY <3>1, OwnersKept
  <2>3. CASE CloseExchange(c)
    BY <2>3, CloseExchangeOwner
  <2>4. CASE CloseNative(c)
    BY <2>4, CloseNativeOwner
  <2>5. CASE DialSucceeds(c)
    BY <2>5, DialOwner
  <2>6. CASE DialFails(c)
    <3>1. OwnersUnchanged
      BY <2>6 DEF DialFails, OwnersUnchanged, Terminated
    <3> QED
      BY <3>1, OwnersKept
  <2>7. CASE StartRunning(c)
    <3>1. OwnersUnchanged
      BY <2>7 DEF StartRunning, OwnersUnchanged, Terminated
    <3> QED
      BY <3>1, OwnersKept
  <2>8. CASE Spawn(c)
    <3> DEFINE v == SpawnedWorker(pc[c])
    <3>1. /\ v \in Channels /\ v # c /\ pc[v] = "none" /\ pc[c] \in Spawning
          /\ pc'[v] = "top" /\ pc'[c] \in {"con_img_spawn", "con_ok"}
          /\ \A w \in Channels : pc'[w] = pc[w] \/ (pc[w] = "none" /\ pc'[w] = "top")
          /\ \A t \in Senders \cup (Controllers \ {c}) : pc'[t] = pc[t]
          /\ local' = local /\ handle' = handle /\ table' = table
      <4> HIDE DEF IInv
      <4> QED
        BY <2>8, SpawnEffect
    <3> HIDE DEF v
    <3>2. \A t \in Threads : Owning(t)' <=> Owning(t)
      <4>1. \A w \in Channels : pc'[w] \in Closing <=> pc[w] \in Closing
        BY <3>1
      <4>2. pc[c] \notin Closing /\ pc'[c] \notin Closing
        BY <3>1
      <4>3. \A t \in Threads : pc'[t] \in Closing <=> pc[t] \in Closing
        <5> HIDE DEF Closing, IInv
        <5> QED
          BY <3>1, <4>1, <4>2
      <4> HIDE DEF Threads, Closing, IInv
      <4> QED
        BY <3>1, <4>3
    <3>3. ~Terminated
      BY <3>1 DEF Terminated
    <3>4. OwnersUnchanged
      BY <3>1, <3>2, <3>3 DEF OwnersUnchanged
    <3> QED
      BY <3>4, OwnersKept
  <2>9. CASE SpawnTerminates(c)
    <3>1. handle' = handle /\ table' = table /\ Terminated'
      BY <2>9 DEF SpawnTerminates, Terminated
    <3>2. \A t \in Threads : ~Owning(t)'
      BY <2>9 DEF SpawnTerminates
    <3> QED
      BY <3>1, <3>2 DEF OwnerInv
  <2>10. CASE SpawnThrows(c)
    <3>1. OwnersUnchanged
      BY <2>10 DEF SpawnThrows, OwnersUnchanged, Terminated
    <3> QED
      BY <3>1, OwnersKept
  <2>11. CASE CatchStop(c)
    <3>1. OwnersUnchanged
      BY <2>11 DEF CatchStop, StopRunning, OwnersUnchanged, Terminated
    <3> QED
      BY <3>1, OwnersKept
  <2>12. CASE Join(c)
    <3>1. OwnersUnchanged
      BY <2>12 DEF Join, JoinedWorker, AfterJoin, OwnersUnchanged, Terminated
    <3> QED
      BY <3>1, OwnersKept
  <2>13. CASE Return(c)
    <3>1. OwnersUnchanged
      BY <2>13 DEF Return, OwnersUnchanged, Terminated
    <3> QED
      BY <3>1, OwnersKept
  <2> QED
    BY <1>1, <2>1, <2>2, <2>3, <2>4, <2>5, <2>6, <2>7, <2>8, <2>9, <2>10, <2>11,
       <2>12, <2>13 DEF ControllerStep
<1>2. ASSUME NEW w \in Channels, WorkerStep(w) \/ RecvSome(w) \/ RecvLast(w)
      PROVE  OwnerInv'
  <2>1. CASE LoopTest(w)
    <3>1. OwnersUnchanged
      BY <2>1 DEF LoopTest, OwnersUnchanged, Terminated
    <3> QED
      BY <3>1, OwnersKept
  <2>2. CASE RecvLoad(w)
    <3>1. OwnersUnchanged
      BY <2>2 DEF RecvLoad, OwnersUnchanged, Terminated
    <3> QED
      BY <3>1, OwnersKept
  <2>3. CASE RecvCall(w)
    <3>1. OwnersUnchanged
      BY <2>3 DEF RecvCall, OwnersUnchanged, Terminated
    <3> QED
      BY <3>1, OwnersKept
  <2>4. CASE RecvSome(w)
    <3>1. OwnersUnchanged
      BY <2>4 DEF RecvSome, OwnersUnchanged, Terminated
    <3> QED
      BY <3>1, OwnersKept
  <2>5. CASE RecvLast(w)
    <3>1. OwnersUnchanged
      BY <2>5 DEF RecvLast, OwnersUnchanged, Terminated
    <3> QED
      BY <3>1, OwnersKept
  <2>6. CASE RecvError(w)
    <3>1. OwnersUnchanged
      BY <2>6 DEF RecvError, OwnersUnchanged, Terminated
    <3> QED
      BY <3>1, OwnersKept
  <2>7. CASE AfterRecvFailed(w)
    <3>1. OwnersUnchanged
      BY <2>7 DEF AfterRecvFailed, OwnersUnchanged, Terminated
    <3> QED
      BY <3>1, OwnersKept
  <2>8. CASE CallbackReturns(w)
    <3>1. OwnersUnchanged
      BY <2>8 DEF CallbackReturns, OwnersUnchanged, Terminated
    <3> QED
      BY <3>1, OwnersKept
  <2>9. CASE FailExchange(w)
    <3>1. OwnersUnchanged
      BY <2>9 DEF FailExchange, OwnersUnchanged, Terminated
    <3> QED
      BY <3>1, OwnersKept
  <2>10. CASE CloseExchange(w)
    BY <2>10, CloseExchangeOwner
  <2>11. CASE CloseNative(w)
    BY <2>11, CloseNativeOwner
  <2>12. CASE Report(w)
    <3>1. OwnersUnchanged
      BY <2>12 DEF Report, OwnersUnchanged, Terminated
    <3> QED
      BY <3>1, OwnersKept
  <2> QED
    BY <1>2, <2>1, <2>2, <2>3, <2>4, <2>5, <2>6, <2>7, <2>8, <2>9, <2>10, <2>11,
       <2>12 DEF WorkerStep
<1>3. ASSUME NEW s \in Senders, SendEnter(s) \/ SenderStep(s)
      PROVE  OwnerInv'
  <2>1. CASE SendEnter(s)
    <3>1. OwnersUnchanged
      BY <2>1 DEF SendEnter, OwnersUnchanged, Terminated
    <3> QED
      BY <3>1, OwnersKept
  <2>2. CASE SendLoad(s)
    <3>1. OwnersUnchanged
      BY <2>2 DEF SendLoad, OwnersUnchanged, Terminated
    <3> QED
      BY <3>1, OwnersKept
  <2>3. CASE SendChunk(s)
    <3>1. OwnersUnchanged
      BY <2>3 DEF SendChunk, AfterSend, ChunkOf, OwnersUnchanged, Terminated
    <3> QED
      BY <3>1, OwnersKept
  <2>4. CASE SendError(s)
    <3>1. OwnersUnchanged
      BY <2>4 DEF SendError, OwnersUnchanged, Terminated
    <3> QED
      BY <3>1, OwnersKept
  <2>5. CASE SendReturn(s)
    <3>1. OwnersUnchanged
      BY <2>5 DEF SendReturn, OwnersUnchanged, Terminated
    <3> QED
      BY <3>1, OwnersKept
  <2> QED
    BY <1>3, <2>1, <2>2, <2>3, <2>4, <2>5 DEF SenderStep
<1>4. ASSUME NEW conn \in Conns, PeerCloses(conn)
      PROVE  OwnerInv'
  <2>1. OwnersUnchanged
    BY <1>4 DEF PeerCloses, OwnersUnchanged, Terminated
  <2> QED
    BY <2>1, OwnersKept
<1>5. CASE UNCHANGED vars
  <2>1. OwnersUnchanged
    BY <1>5 DEF vars, OwnersUnchanged, Terminated
  <2> QED
    BY <2>1, OwnersKept
<1> QED
  BY <1>1, <1>2, <1>3, <1>4, <1>5 DEF Next, Dead

\* A worker outlives neither its std::thread nor the join on it.
LEMMA JoinStep == IInv /\ [Next]_vars => JoinInv'
<1> SUFFICES ASSUME IInv, [Next]_vars PROVE JoinInv'
  OBVIOUS
<1> USE ThreadsAssumption
<1> USE DEF IInv, TypeOK, PcOK, DataOK, JoinInv, LifecycleInv, Goto, Threads,
        Channels, lifeVars, ControllerLabels, SenderLabels, WorkerLabels,
        Closing, ClosesControl, ClosesImage, Dialing, Spawning, Joining,
        Returning, Sending
<1>1. ASSUME NEW c \in Controllers,
             ConnectEnter(c) \/ DisconnectEnter(c) \/ ControllerStep(c)
      PROVE  JoinInv'
  <2>1. CASE ConnectEnter(c)
    BY <2>1 DEF ConnectEnter
  <2>2. CASE DisconnectEnter(c)
    BY <2>2 DEF DisconnectEnter, StopRunning
  <2>3. CASE CloseExchange(c)
    BY <2>3 DEF CloseExchange, ClosedChannel, AfterClose
  <2>4. CASE CloseNative(c)
    BY <2>4 DEF CloseNative, ClosedChannel, AfterClose
  <2>5. CASE DialSucceeds(c)
    BY <2>5 DEF DialSucceeds, DialedChannel
  <2>6. CASE DialFails(c)
    BY <2>6 DEF DialFails
  <2>7. CASE StartRunning(c)
    BY <2>7 DEF StartRunning
  <2>8. CASE Spawn(c)
    <3> DEFINE v == SpawnedWorker(pc[c])
    <3>1. /\ v \in Channels /\ v # c /\ pc[v] = "none" /\ pc[c] \in Spawning
          /\ pc'[v] = "top" /\ pc'[c] \in {"con_img_spawn", "con_ok"}
          /\ \A w \in Channels : pc'[w] = pc[w] \/ (pc[w] = "none" /\ pc'[w] = "top")
          /\ \A t \in Senders \cup (Controllers \ {c}) : pc'[t] = pc[t]
          /\ \A w \in Channels \ {v} : pc'[w] = pc[w]
          /\ joinable' = [joinable EXCEPT ![v] = TRUE]
          /\ local' = local /\ handle' = handle /\ lifecycle' = lifecycle
      <4> HIDE DEF IInv
      <4> QED
        BY <2>8, SpawnEffect
    <3> HIDE DEF v
    <3>2. joinable'[v] /\ \A w \in Channels \ {v} : joinable'[w] = joinable[w]
      BY <3>1
    <3>3. \A w \in Channels : pc'[w] \notin {"none", "dead"} => joinable'[w]
      BY <3>1, <3>2
    <3>4. \A d \in Controllers : d # c => pc[d] \in {"idle", "dead"} /\ pc'[d] = pc[d]
      BY <3>1
    <3> QED
      BY <3>1, <3>3, <3>4
  <2>9. CASE SpawnTerminates(c)
    BY <2>9 DEF SpawnTerminates, SpawnedWorker
  <2>10. CASE SpawnThrows(c)
    BY <2>10 DEF SpawnThrows
  <2>11. CASE CatchStop(c)
    BY <2>11 DEF CatchStop, StopRunning
  <2>12. CASE Join(c)
    BY <2>12 DEF Join, JoinedWorker, AfterJoin
  <2>13. CASE Return(c)
    BY <2>13 DEF Return
  <2> QED
    BY <1>1, <2>1, <2>2, <2>3, <2>4, <2>5, <2>6, <2>7, <2>8, <2>9, <2>10, <2>11,
       <2>12, <2>13 DEF ControllerStep
<1>2. ASSUME NEW w \in Channels, WorkerStep(w) \/ RecvSome(w) \/ RecvLast(w)
      PROVE  JoinInv'
  <2>1. CASE LoopTest(w)
    BY <2>1 DEF LoopTest
  <2>2. CASE RecvLoad(w)
    BY <2>2 DEF RecvLoad
  <2>3. CASE RecvCall(w)
    BY <2>3 DEF RecvCall
  <2>4. CASE RecvSome(w)
    BY <2>4 DEF RecvSome
  <2>5. CASE RecvLast(w)
    BY <2>5 DEF RecvLast
  <2>6. CASE RecvError(w)
    BY <2>6 DEF RecvError
  <2>7. CASE AfterRecvFailed(w)
    BY <2>7 DEF AfterRecvFailed
  <2>8. CASE CallbackReturns(w)
    BY <2>8 DEF CallbackReturns
  <2>9. CASE FailExchange(w)
    BY <2>9 DEF FailExchange
  <2>10. CASE CloseExchange(w)
    BY <2>10 DEF CloseExchange, ClosedChannel, AfterClose
  <2>11. CASE CloseNative(w)
    BY <2>11 DEF CloseNative, ClosedChannel, AfterClose
  <2>12. CASE Report(w)
    BY <2>12 DEF Report
  <2> QED
    BY <1>2, <2>1, <2>2, <2>3, <2>4, <2>5, <2>6, <2>7, <2>8, <2>9, <2>10, <2>11,
       <2>12 DEF WorkerStep
<1>3. ASSUME NEW s \in Senders, SendEnter(s) \/ SenderStep(s)
      PROVE  JoinInv'
  <2>1. CASE SendEnter(s)
    BY <2>1 DEF SendEnter
  <2>2. CASE SendLoad(s)
    BY <2>2 DEF SendLoad
  <2>3. CASE SendChunk(s)
    BY <2>3 DEF SendChunk, AfterSend, ChunkOf
  <2>4. CASE SendError(s)
    BY <2>4 DEF SendError
  <2>5. CASE SendReturn(s)
    BY <2>5 DEF SendReturn
  <2> QED
    BY <1>3, <2>1, <2>2, <2>3, <2>4, <2>5 DEF SenderStep
<1>4. ASSUME NEW conn \in Conns, PeerCloses(conn)
      PROVE  JoinInv'
  BY <1>4 DEF PeerCloses
<1>5. CASE UNCHANGED vars
  BY <1>5 DEF vars
<1> QED
  BY <1>1, <1>2, <1>3, <1>4, <1>5 DEF Next, Dead

-----------------------------------------------------------------------------
\* The invariant holds of a client that was just constructed.
LEMMA InitInv == Init => IInv
<1> SUFFICES ASSUME Init PROVE IInv
  OBVIOUS
<1> USE ThreadsAssumption, SocketsAssumption, BoundsAssumption DEF Init
<1>1. PcOK /\ LocksOK
  BY DEF PcOK, LocksOK, Threads, Channels, ControllerLabels, SenderLabels, WorkerLabels
<1>2. DataOK
  <2>1. wire \in [Conns -> Seq(Chunks)]
    <3>1. <<>> \in Seq(Chunks)
      OBVIOUS
    <3> QED
      BY <3>1
  <2>2. /\ took \in [Channels -> 0..MaxGen] /\ gen \in 0..MaxGen
        /\ reports \in [Gens -> Nat] /\ nsent \in [Senders -> 0..MaxSends]
    OBVIOUS
  <2> QED
    BY <2>1, <2>2 DEF DataOK, Threads, Channels
<1>3. LifecycleInv /\ TerminateInv /\ JoinInv
  BY DEF LifecycleInv, TerminateInv, JoinInv, Threads, Channels
<1>4. AttemptInv
  BY DEF AttemptInv, Connecting, Threads, Channels, Gens
<1>5. LocalInv /\ ClosedInv
  BY DEF LocalInv, ClosedInv, Closing, ClosesControl, ClosesImage,
     ControlClosed, ImageClosed, Sending, Threads, Channels
<1>6. OwnerInv
  BY DEF OwnerInv, Owning, Threads, Channels
<1> QED
  BY <1>1, <1>2, <1>3, <1>4, <1>5, <1>6 DEF IInv, TypeOK

\* The invariant is inductive.
THEOREM Inductive == Spec => []IInv
<1>1. IInv /\ [Next]_vars => IInv'
  BY PcStep, DataStep, LocksStep, LifecycleStep, TerminateStep, AttemptStep, LocalStep,
     ClosedStep, OwnerStep, JoinStep DEF IInv, TypeOK
<1> QED
  BY InitInv, <1>1, PTL DEF Spec

\* Every variable of the session keeps its type and every thread its role.
THEOREM TypeCorrect == Spec => []TypeOK
<1>1. IInv => TypeOK
  BY DEF IInv
<1> QED
  BY Inductive, <1>1, PTL

\* HandleWorkerFailure: the listener hears of at most one transport error per
\* attempt, and of none for an attempt that Connect or Disconnect ended.
THEOREM OneError == Spec => []OneErrorPerAttempt
<1>1. IInv => OneErrorPerAttempt
  BY DEF IInv, TypeOK, DataOK, AttemptInv, OneErrorPerAttempt
<1> QED
  BY Inductive, <1>1, PTL

\* TcpClient::Close: no descriptor is closed twice and none leaks, whichever
\* threads close, and however descriptors are reused.
THEOREM OneOwner == Spec => []DescriptorsHaveOneOwner
<1>1. IInv => DescriptorsHaveOneOwner
  <2> SUFFICES ASSUME IInv, ~Terminated, NEW f \in Fds
               PROVE  IF table[f] = NoConn THEN Owners(f) = {}
                                           ELSE \E o \in Owners(f) : Owners(f) = {o}
    BY DEF DescriptorsHaveOneOwner
  <2> USE DEF IInv
  <2>1. f # NoFd
    BY SocketsAssumption
  <2>2. \A ch \in Channels : handle[ch] = f => table[f] # NoConn
    BY <2>1 DEF OwnerInv
  <2>3. \A t \in Threads : pc[t] \in Closing /\ local[t] = f =>
            Owning(t) /\ table[f] # NoConn
    BY <2>1 DEF OwnerInv, Owning
  <2>4. CASE table[f] = NoConn
    BY <2>2, <2>3, <2>4 DEF Owners
  <2>5. ASSUME NEW ch \in Channels, handle[ch] = f
        PROVE  Owners(f) = {<<"socket_handle_", ch>>}
    <3>1. \A x \in Channels : handle[x] = f => x = ch
      BY <2>1, <2>5 DEF OwnerInv, Channels
    <3>2. \A t \in Threads : ~(pc[t] \in Closing /\ local[t] = f)
      BY <2>3, <2>5 DEF OwnerInv
    <3> QED
      BY <2>5, <3>1, <3>2 DEF Owners
  <2>6. ASSUME NEW t \in Threads, Owning(t), local[t] = f
        PROVE  Owners(f) = {<<"previous", t>>}
    <3>1. \A x \in Channels : handle[x] # f
      BY <2>6 DEF OwnerInv
    <3>2. \A u \in Threads : pc[u] \in Closing /\ local[u] = f => u = t
      BY <2>3, <2>6 DEF OwnerInv
    <3> QED
      BY <2>6, <3>1, <3>2 DEF Owners, Owning
  <2>7. CASE table[f] # NoConn
    <3>1. \/ \E ch \in Channels : handle[ch] = f
          \/ \E t \in Threads : Owning(t) /\ local[t] = f
      BY <2>7 DEF OwnerInv
    <3> QED
      BY <2>5, <2>6, <2>7, <3>1
  <2> QED
    BY <2>4, <2>7
<1> QED
  BY Inductive, <1>1, PTL

\* Disconnect: when it returns no worker is left to call back and no socket open.
THEOREM DisconnectClean == Spec => []DisconnectLeavesNothing
<1>1. IInv => DisconnectLeavesNothing
  <2> SUFFICES ASSUME IInv, NEW c \in Controllers, pc[c] = "dis_done"
               PROVE  /\ \A w \in Channels : pc[w] = "none"
                      /\ \A f \in Fds : table[f] = NoConn
    BY DEF DisconnectLeavesNothing
  <2> USE DEF IInv
  <2>1. ~Terminated
    BY DEF Terminated, Threads
  <2>2. \A w \in Channels : pc[w] = "none"
    BY <2>1 DEF JoinInv, TerminateInv, Threads, Channels
  <2>3. \A ch \in Channels : handle[ch] = NoFd
    BY DEF ClosedInv, ControlClosed, ImageClosed, Channels
  <2>4. \A d \in Controllers : pc[d] \in {"idle", "dead", "dis_done"}
    BY DEF LifecycleInv
  <2>5. \A t \in Threads : ~Owning(t)
    BY <2>2, <2>4 DEF Owning, Threads, Closing, ClosesControl, ClosesImage,
       TypeOK, PcOK, SenderLabels, Sending
  <2>6. \A f \in Fds : table[f] = NoConn
    BY <2>1, <2>3, <2>5, SocketsAssumption DEF OwnerInv
  <2> QED
    BY <2>2, <2>6
<1> QED
  BY Inductive, <1>1, PTL

-----------------------------------------------------------------------------
(***************************************************************************)
(* BridgeSession implements Session, for any number of controllers, senders, *)
(* descriptors and attempts.                                                *)
(***************************************************************************)
\* A worker that has an OnTransportError to make is in HandleWorkerFailure.
TookInv ==
    \A w \in Channels :
        took[w] # 0 => pc[w] \in {"fail_ctl_close", "fail_img_close", "report", "dead"}

\* From running_.store(true) to the last thread's start, some thread may call
\* back, or running_ still holds.
StartedInv ==
    \A c \in Controllers :
        pc[c] \in Spawning => running \/ \E w \in Channels : joinable[w]

\* Who has stopped the session finds it stopped until it lets the mutex go.
Stopped == Joining \cup {"catch_ctl_close", "catch_img_close", "dis_ctl_close",
                         "dis_img_close"}
StoppedInv == \A c \in Controllers : pc[c] \in Stopped => ~running

SInv == IInv /\ TookInv /\ StartedInv /\ StoppedInv

-----------------------------------------------------------------------------
LEMMA SInvInit == Init => SInv
<1> SUFFICES ASSUME Init PROVE SInv
  OBVIOUS
<1>1. IInv
  BY InitInv
<1>2. TookInv /\ StartedInv /\ StoppedInv
  BY ThreadsAssumption DEF Init, TookInv, StartedInv, StoppedInv, Stopped, Spawning,
     Joining, Threads
<1> QED
  BY <1>1, <1>2 DEF SInv

\* A step of a thread inside a call leaves no other controller inside one.
LEMMA AloneInside ==
    ASSUME IInv, NEW c \in Controllers, pc[c] \notin {"idle", "dead"} \/ lifecycle = NoThread
    PROVE  \A d \in Controllers \ {c} : pc[d] \in {"idle", "dead"}
  BY ThreadsAssumption DEF IInv, LifecycleInv, Threads

LEMMA SInvNext == SInv /\ [Next]_vars => TookInv' /\ StartedInv' /\ StoppedInv'
<1> SUFFICES ASSUME SInv, [Next]_vars PROVE TookInv' /\ StartedInv' /\ StoppedInv'
  OBVIOUS
<1>a. /\ IInv
      /\ pc \in [Threads -> ControllerLabels \cup SenderLabels \cup WorkerLabels]
      /\ joinable \in [Channels -> BOOLEAN] /\ took \in [Channels -> 0..MaxGen]
      /\ running \in BOOLEAN
      /\ \A w \in Channels : pc[w] \in WorkerLabels
      /\ \A w \in Channels : pc[w] \notin {"none", "dead"} => joinable[w]
  BY DEF SInv, IInv, TypeOK, PcOK, DataOK, JoinInv
<1> USE ThreadsAssumption
<1> USE DEF SInv, TookInv, StartedInv, StoppedInv, Stopped, Threads, Goto, Spawning,
        Joining, Closing, ClosesControl, ClosesImage, Dialing, Returning, Sending
<1> HIDE DEF IInv
<1>1. ASSUME NEW c \in Controllers, ControllerStep(c) \/ ConnectEnter(c) \/ DisconnectEnter(c)
      PROVE  TookInv' /\ StartedInv' /\ StoppedInv'
  <2>a. \A d \in Controllers \ {c} : pc[d] \in {"idle", "dead"}
    <3>1. pc[c] \notin {"idle", "dead"} \/ lifecycle = NoThread
      BY <1>1 DEF ControllerStep, ConnectEnter, DisconnectEnter, CloseExchange, CloseNative,
         DialSucceeds, DialFails, StartRunning, Spawn, SpawnTerminates, SpawnThrows,
         CatchStop, Join, Return
    <3> QED
      BY <1>a, <3>1, AloneInside
  <2>1. CASE ConnectEnter(c)
    BY <1>a, <2>a, <2>1 DEF ConnectEnter, recvVars
  <2>2. CASE DisconnectEnter(c)
    BY <1>a, <2>a, <2>2 DEF DisconnectEnter, StopRunning, recvVars
  <2>3. CASE CloseExchange(c)
    BY <1>a, <2>a, <2>3 DEF CloseExchange, ClosedChannel, AfterClose, recvVars, lifeVars
  <2>4. CASE CloseNative(c)
    BY <1>a, <2>a, <2>4 DEF CloseNative, AfterClose, recvVars, lifeVars
  <2>5. CASE DialSucceeds(c)
    BY <1>a, <2>a, <2>5 DEF DialSucceeds, recvVars, lifeVars
  <2>6. CASE DialFails(c)
    BY <1>a, <2>a, <2>6 DEF DialFails, recvVars, lifeVars
  <2>7. CASE StartRunning(c)
    BY <1>a, <2>a, <2>7 DEF StartRunning, recvVars
  <2>8. CASE Spawn(c)
    <3> DEFINE v == SpawnedWorker(pc[c])
    <3>1. /\ v \in Channels /\ pc[v] = "none" /\ pc'[v] = "top"
          /\ pc'[c] \in {"con_img_spawn", "con_ok"}
          /\ joinable' = [joinable EXCEPT ![v] = TRUE]
          /\ \A u \in Channels : pc'[u] = pc[u] \/ (pc[u] = "none" /\ pc'[u] = "top")
          /\ \A d \in Controllers \ {c} : pc'[d] = pc[d]
      BY <1>a, <2>8, SpawnEffect
    <3> HIDE DEF v
    <3>2. took' = took /\ running' = running
      BY <2>8 DEF Spawn, recvVars
    <3>3. TookInv'
      BY <1>a, <3>1, <3>2
    <3>4. joinable'[v]
      BY <1>a, <3>1
    <3>5. StartedInv' /\ StoppedInv'
      BY <2>a, <3>1, <3>4
    <3> QED
      BY <3>3, <3>5
  <2>9. CASE SpawnTerminates(c)
    BY <1>a, <2>9 DEF SpawnTerminates, recvVars, lifeVars
  <2>10. CASE SpawnThrows(c)
    BY <1>a, <2>a, <2>10 DEF SpawnThrows, recvVars, lifeVars
  <2>11. CASE CatchStop(c)
    BY <1>a, <2>a, <2>11 DEF CatchStop, StopRunning, recvVars
  <2>12. CASE Join(c)
    <3>1. /\ pc[c] \in Joining /\ pc'[c] = AfterJoin(pc[c])
          /\ \A u \in Channels : pc'[u] = pc[u] \/ (pc[u] = "done" /\ pc'[u] = "none")
          /\ \A d \in Controllers \ {c} : pc'[d] = pc[d]
      BY <1>a, <2>12, JoinEffect
    <3>2. took' = took /\ running' = running
      BY <2>12 DEF Join, recvVars
    <3>3. TookInv'
      BY <1>a, <3>1, <3>2
    <3>4. StartedInv' /\ StoppedInv'
      BY <2>a, <3>1, <3>2 DEF AfterJoin
    <3> QED
      BY <3>3, <3>4
  <2>13. CASE Return(c)
    BY <1>a, <2>a, <2>13 DEF Return, recvVars
  <2> QED
    BY <1>1, <2>1, <2>2, <2>3, <2>4, <2>5, <2>6, <2>7, <2>8, <2>9, <2>10, <2>11,
       <2>12, <2>13 DEF ControllerStep
<1>2. ASSUME NEW w \in Channels, WorkerStep(w) \/ RecvSome(w) \/ RecvLast(w)
      PROVE  TookInv' /\ StartedInv' /\ StoppedInv'
  <2>1. CASE FailExchange(w)
    BY <1>a, <2>1 DEF FailExchange, Channels
  <2>2. CASE CloseExchange(w)
    BY <1>a, <2>2 DEF CloseExchange, AfterClose, recvVars, lifeVars, WorkerLabels
  <2>3. CASE CloseNative(w)
    BY <1>a, <2>3 DEF CloseNative, AfterClose, recvVars, lifeVars, WorkerLabels
  <2>4. CASE Report(w)
    BY <1>a, <2>4 DEF Report, lifeVars
  <2>5. CASE LoopTest(w) \/ RecvLoad(w) \/ RecvCall(w) \/ RecvError(w) \/ AfterRecvFailed(w)
             \/ CallbackReturns(w) \/ RecvSome(w) \/ RecvLast(w)
    BY <1>a, <2>5 DEF LoopTest, RecvLoad, RecvCall, RecvError, AfterRecvFailed,
       CallbackReturns, RecvSome, RecvLast, recvVars, lifeVars
  <2> QED
    BY <1>2, <2>1, <2>2, <2>3, <2>4, <2>5 DEF WorkerStep
<1>3. ASSUME NEW s \in Senders, SendEnter(s) \/ SenderStep(s)
      PROVE  TookInv' /\ StartedInv' /\ StoppedInv'
  BY <1>a, <1>3 DEF SendEnter, SenderStep, SendLoad, SendChunk, SendError, SendReturn,
     recvVars, lifeVars
<1>4. ASSUME NEW conn \in Conns, PeerCloses(conn)
      PROVE  TookInv' /\ StartedInv' /\ StoppedInv'
  BY <1>4 DEF PeerCloses, recvVars, lifeVars
<1>5. CASE UNCHANGED vars
  BY <1>5 DEF vars, recvVars, lifeVars
<1> QED
  BY <1>1, <1>2, <1>3, <1>4, <1>5 DEF Next, Dead

LEMMA SInductive == Spec => []SInv
<1>1. SInv /\ [Next]_vars => SInv'
  <2> SUFFICES ASSUME SInv, [Next]_vars PROVE SInv'
    OBVIOUS
  <2>1. IInv'
    BY PcStep, DataStep, LocksStep, LifecycleStep, TerminateStep, AttemptStep, LocalStep, ClosedStep,
       OwnerStep, JoinStep DEF SInv, IInv, TypeOK
  <2> QED
    BY <2>1, SInvNext DEF SInv
<1> QED
  BY <1>1, SInvInit, PTL DEF Spec

-----------------------------------------------------------------------------
\* The abstract state of Session, written out.
Live == running \/ \E w \in Channels : joinable[w]
Calling == {w \in Channels : pc[w] = "callback"}
Owed == {w \in Channels : took[w] # 0}

\* What every step sees of the session: a worker that calls back or owes a report
\* can still be joined, and no worker does both.
LEMMA SessionState ==
    ASSUME SInv
    PROVE  /\ \A w \in Channels : pc[w] \notin {"none", "dead"} => joinable[w]
           /\ \A w \in Calling : joinable[w] /\ took[w] = 0
           /\ ~Terminated => \A w \in Owed : joinable[w]
           /\ ~Terminated => \A t \in Threads : pc[t] # "dead"
  BY ThreadsAssumption DEF SInv, IInv, JoinInv, TookInv, TerminateInv, Calling, Owed, Threads

\* A step that leaves what Session speaks of alone is a stutter of it.
LEMMA SessionStutters ==
    ASSUME Live' <=> Live, Calling' = Calling, Owed' = Owed, running' = running,
           Terminated' <=> Terminated
    PROVE  UNCHANGED Sess!vars
<1>1. (Live' = Live) /\ (Terminated' = Terminated)
  BY DEF Live, Terminated
<1> QED
  BY <1>1 DEF Sess!vars, Live, Calling, Owed

\* So is a step in which every worker stays inside or outside of its callback and
\* running_, the threads to join and the reports owed stay as they are.
LEMMA SessionRests ==
    ASSUME \A w \in Channels : pc'[w] = "callback" <=> pc[w] = "callback",
           UNCHANGED <<running, joinable, took>>,
           Terminated' <=> Terminated
    PROVE  UNCHANGED Sess!vars
<1>1. Calling' = Calling /\ Owed' = Owed
  BY DEF Calling, Owed
<1>2. Live' <=> Live
  BY DEF Live
<1> QED
  BY <1>1, <1>2, SessionStutters

\* A step of one living thread moves no other thread.
Moves(t, from, to) ==
    /\ pc[t] \in from /\ pc'[t] \in to
    /\ \A u \in Threads \ {t} : pc'[u] = pc[u]

LEMMA MoveLives ==
    ASSUME NEW t \in Threads, NEW from, NEW to, Moves(t, from, to),
           "dead" \notin from, "dead" \notin to
    PROVE  ~Terminated /\ ~Terminated'
  BY DEF Moves, Terminated

LEMMA GotoMoves ==
    ASSUME pc \in [Threads -> ControllerLabels \cup SenderLabels \cup WorkerLabels],
           NEW t \in Threads, NEW label, Goto(t, label), NEW from, pc[t] \in from
    PROVE  Moves(t, from, {label})
  BY DEF Goto, Moves

Quietly == UNCHANGED <<running, joinable, took>>
\* The labels of a living thread that is in no callback.
Away == (ControllerLabels \cup SenderLabels \cup WorkerLabels) \ {"dead", "none", "callback"}

LEMMA MoveRests ==
    ASSUME NEW t \in Threads, Moves(t, Away, Away), Quietly
    PROVE  UNCHANGED Sess!vars
<1>1. ~Terminated /\ ~Terminated'
  BY MoveLives DEF Away
<1>2. \A w \in Channels : pc'[w] = "callback" <=> pc[w] = "callback"
  BY DEF Moves, Away, Threads
<1> QED
  BY <1>1, <1>2, SessionRests DEF Quietly

LEMMA AfterCloseLabel ==
    ASSUME NEW label \in Closing PROVE label \in Away /\ AfterClose(label) \in Away
  BY DEF AfterClose, Away, ControllerLabels, WorkerLabels, Closing, ClosesControl,
     ClosesImage, Dialing, Joining, Returning

\* TcpClient::Close is no business of Session, whoever calls it.
LEMMA CloseMoves ==
    ASSUME PcOK, NEW t \in Threads, CloseExchange(t) \/ CloseNative(t)
    PROVE  Moves(t, Away, Away) /\ Quietly
<1>1. pc[t] \in Closing /\ Quietly
  BY DEF CloseExchange, CloseNative, Quietly, recvVars, lifeVars
<1>2. pc[t] \in Away /\ AfterClose(pc[t]) \in Away
  BY <1>1, AfterCloseLabel
<1>3. UNCHANGED pc \/ Goto(t, AfterClose(pc[t]))
  BY DEF CloseExchange, CloseNative
<1> QED
  BY <1>1, <1>2, <1>3 DEF Goto, Moves, PcOK

LEMMA ControllerMoves ==
    ASSUME PcOK, NEW c \in Controllers,
           \/ ConnectEnter(c) \/ DialSucceeds(c) \/ DialFails(c)
           \/ SpawnThrows(c) \/ Return(c)
    PROVE  Moves(c, Away, Away) /\ Quietly
<1>1. c \in Threads
  BY DEF Threads
<1> USE DEF Goto, Moves, PcOK, Quietly, recvVars, lifeVars, Away, ControllerLabels, Dialing,
        Spawning, Returning, Closing, ClosesControl, ClosesImage
<1>2. CASE ConnectEnter(c)
  BY <1>1, <1>2 DEF ConnectEnter
<1>3. CASE DialSucceeds(c)
  BY <1>1, <1>3 DEF DialSucceeds
<1>4. CASE DialFails(c)
  BY <1>1, <1>4 DEF DialFails
<1>5. CASE SpawnThrows(c)
  BY <1>1, <1>5 DEF SpawnThrows
<1>6. CASE Return(c)
  BY <1>1, <1>6 DEF Return
<1> QED
  BY <1>2, <1>3, <1>4, <1>5, <1>6

LEMMA WorkerMoves ==
    ASSUME PcOK, NEW w \in Channels,
           \/ LoopTest(w) \/ RecvLoad(w) \/ RecvCall(w) \/ RecvError(w)
           \/ AfterRecvFailed(w) \/ RecvSome(w)
    PROVE  Moves(w, Away, Away) /\ Quietly
<1>1. w \in Threads
  BY DEF Threads
<1> USE DEF Goto, Moves, PcOK, Quietly, recvVars, lifeVars, Away, WorkerLabels
<1>2. CASE LoopTest(w)
  BY <1>1, <1>2 DEF LoopTest
<1>3. CASE RecvLoad(w)
  BY <1>1, <1>3 DEF RecvLoad
<1>4. CASE RecvCall(w)
  BY <1>1, <1>4 DEF RecvCall
<1>5. CASE RecvError(w)
  BY <1>1, <1>5 DEF RecvError
<1>6. CASE AfterRecvFailed(w)
  BY <1>1, <1>6 DEF AfterRecvFailed
<1>7. CASE RecvSome(w)
  BY <1>1, <1>7 DEF RecvSome
<1> QED
  BY <1>2, <1>3, <1>4, <1>5, <1>6, <1>7

LEMMA SenderMoves ==
    ASSUME PcOK, NEW s \in Senders, SendEnter(s) \/ SenderStep(s)
    PROVE  Moves(s, Away, Away) /\ Quietly
<1>1. s \in Threads
  BY DEF Threads
<1> USE DEF Goto, Moves, PcOK, Quietly, recvVars, lifeVars, Away, SenderLabels, Sending
<1>2. CASE SendEnter(s)
  BY <1>1, <1>2 DEF SendEnter
<1>3. CASE SendLoad(s)
  BY <1>1, <1>3 DEF SendLoad
<1>4. CASE SendChunk(s)
  BY <1>1, <1>4 DEF SendChunk, AfterSend
<1>5. CASE SendError(s)
  BY <1>1, <1>5 DEF SendError
<1>6. CASE SendReturn(s)
  BY <1>1, <1>6 DEF SendReturn
<1> QED
  BY <1>2, <1>3, <1>4, <1>5, <1>6 DEF SenderStep

LEMMA SessionStep == SInv /\ [Next]_vars => [Sess!Next]_(Sess!vars)
<1> SUFFICES ASSUME SInv, [Next]_vars PROVE Sess!Next \/ UNCHANGED Sess!vars
  OBVIOUS
<1> USE ThreadsAssumption
<1>a. /\ PcOK
      /\ pc \in [Threads -> ControllerLabels \cup SenderLabels \cup WorkerLabels]
      /\ joinable \in [Channels -> BOOLEAN] /\ took \in [Channels -> 0..MaxGen]
      /\ running \in BOOLEAN /\ gen \in 0..MaxGen
      /\ running => gen # 0
      /\ TookInv /\ StartedInv /\ StoppedInv
      /\ \A c \in Controllers : pc[c] \in Connecting => ~running
  BY DEF SInv, IInv, TypeOK, PcOK, DataOK, AttemptInv
<1>b. /\ \A w \in Channels : pc[w] \notin {"none", "dead"} => joinable[w]
      /\ \A w \in Calling : joinable[w] /\ took[w] = 0
      /\ ~Terminated => \A w \in Owed : joinable[w]
      /\ ~Terminated => \A t \in Threads : pc[t] # "dead"
  BY SessionState
<1>1. ASSUME NEW c \in Controllers, ConnectEnter(c) \/ DisconnectEnter(c) \/ ControllerStep(c)
      PROVE  Sess!Next \/ UNCHANGED Sess!vars
  <2>a. c \in Threads /\ c \notin Channels /\ \A w \in Channels : w \in Threads \ {c}
    BY DEF Threads
  <2>1. CASE \/ ConnectEnter(c) \/ CloseExchange(c) \/ CloseNative(c) \/ DialSucceeds(c)
             \/ DialFails(c) \/ SpawnThrows(c) \/ Return(c)
    <3>1. Moves(c, Away, Away) /\ Quietly
      BY <1>a, <2>a, <2>1, CloseMoves, ControllerMoves
    <3> QED
      BY <2>a, <3>1, MoveRests
  <2>2. CASE StartRunning(c) \/ DisconnectEnter(c) \/ CatchStop(c)
    <3>1. Moves(c, Away, Away)
      <4>1. CASE StartRunning(c)
        BY <1>a, <2>a, <4>1 DEF StartRunning, Goto, Moves, Away, ControllerLabels, Spawning
      <4>2. CASE DisconnectEnter(c)
        BY <1>a, <2>a, <4>2 DEF DisconnectEnter, Goto, Moves, Away, ControllerLabels,
           Closing, ClosesControl
      <4>3. CASE CatchStop(c)
        BY <1>a, <2>a, <4>3 DEF CatchStop, Goto, Moves, Away, ControllerLabels,
           Closing, ClosesControl
      <4> QED
        BY <2>2, <4>1, <4>2, <4>3
    <3>2. ~Terminated /\ ~Terminated'
      BY <2>a, <3>1, MoveLives DEF Away
    <3>3. UNCHANGED <<joinable, took>> /\ \A w \in Channels : pc'[w] = pc[w]
      BY <2>a, <2>2, <3>1 DEF Moves, StartRunning, DisconnectEnter, CatchStop, recvVars
    <3>4. Calling' = Calling /\ Owed' = Owed
      BY <3>3 DEF Calling, Owed
    <3>5. CASE StartRunning(c)
      <4>1. ~running /\ running' = TRUE
        BY <1>a, <3>5 DEF StartRunning, Connecting
      <4>2. (Live' = TRUE) /\ (Terminated' = Terminated)
        BY <3>2, <4>1 DEF Live, Terminated
      <4>3. Sess!Start
        BY <3>4, <4>1, <4>2 DEF Sess!Start, Calling, Owed, Live
      <4> QED
        BY <3>2, <4>3 DEF Sess!Next
    <3>6. CASE DisconnectEnter(c) \/ CatchStop(c)
      <4>1. running' = FALSE
        BY <3>6 DEF DisconnectEnter, CatchStop, StopRunning
      <4>2. CASE ~running
        <5>1. running' = running
          BY <1>a, <4>1, <4>2
        <5> QED
          BY <3>2, <3>3, <5>1, SessionRests
      <4>3. CASE running
        <5>1. (\A w \in Channels : ~joinable[w]) => Sess!Quiet
          BY <1>b, <3>2 DEF Sess!Quiet, Calling, Owed
        <5>2. /\ Terminated' = Terminated
              /\ (Live' = Live) \/ (Sess!Quiet /\ (Live' = FALSE))
          BY <3>2, <3>3, <4>1, <4>3, <5>1 DEF Live, Terminated
        <5>3. Sess!Stop
          BY <3>4, <4>1, <4>3, <5>2 DEF Sess!Stop, Calling, Owed, Live
        <5> QED
          BY <3>2, <5>3 DEF Sess!Next
      <4> QED
        BY <4>2, <4>3
    <3> QED
      BY <2>2, <3>5, <3>6
  <2>3. CASE Spawn(c)
    <3> DEFINE v == SpawnedWorker(pc[c])
    <3>1. /\ v \in Channels /\ pc[v] = "none" /\ pc'[v] = "top" /\ pc[c] \in Spawning
          /\ pc'[c] \in {"con_img_spawn", "con_ok"}
          /\ joinable' = [joinable EXCEPT ![v] = TRUE]
          /\ \A u \in Channels : pc'[u] = pc[u] \/ (pc[u] = "none" /\ pc'[u] = "top")
      BY <2>3, SpawnEffect DEF SInv
    <3> HIDE DEF v
    <3>2. took' = took /\ running' = running
      BY <2>3 DEF Spawn, recvVars
    <3>3. joinable'[v]
      BY <1>a, <3>1
    <3>4. Live /\ Live'
      BY <1>a, <3>1, <3>2, <3>3 DEF Live, StartedInv
    <3>5. ~Terminated /\ ~Terminated'
      BY <2>a, <3>1 DEF Terminated, Spawning
    <3>6. Calling' = Calling /\ Owed' = Owed
      BY <3>1, <3>2 DEF Calling, Owed
    <3> QED
      BY <3>2, <3>4, <3>5, <3>6, SessionStutters
  <2>4. CASE SpawnTerminates(c)
    <3>1. /\ pc[c] # "dead" /\ \A t \in Threads : pc'[t] = "dead"
          /\ UNCHANGED <<running, joinable, took>>
      BY <2>4 DEF SpawnTerminates, Spawning, recvVars, lifeVars
    <3>2. ~Terminated /\ Terminated'
      BY <2>a, <3>1 DEF Terminated
    <3>3. Calling' = {}
      BY <2>a, <3>1 DEF Calling
    <3>4. (Terminated' = TRUE) /\ (Live' = Live) /\ Owed' = Owed
      BY <3>1, <3>2 DEF Terminated, Live, Owed
    <3>5. Sess!Die
      BY <3>1, <3>3, <3>4 DEF Sess!Die, Calling, Owed, Live
    <3> QED
      BY <3>2, <3>5 DEF Sess!Next
  <2>5. CASE Join(c)
    <3>1. /\ pc[c] \in Joining /\ pc'[c] = AfterJoin(pc[c])
          /\ \A u \in Channels : pc'[u] = pc[u] \/ (pc[u] = "done" /\ pc'[u] = "none")
          /\ running' = running
      BY <2>5, JoinEffect DEF SInv
    <3>2. /\ took' = took /\ ~running
          /\ \A u \in Channels : joinable'[u] => joinable[u]
          /\ \A u \in Channels : joinable[u] /\ ~joinable'[u] => pc[u] = "done"
      BY <1>a, <2>5, <3>1 DEF Join, recvVars, StoppedInv, Stopped
    <3>3. pc'[c] # "dead"
      BY <3>1 DEF AfterJoin
    <3>4. ~Terminated /\ ~Terminated'
      BY <2>a, <3>1, <3>3 DEF Terminated, Joining
    <3>5. Calling' = Calling /\ Owed' = Owed
      BY <3>1, <3>2 DEF Calling, Owed
    <3>6. CASE Live' <=> Live
      BY <3>1, <3>4, <3>5, <3>6, SessionStutters
    <3>7. CASE ~(Live' <=> Live)
      <4>1. Live /\ ~Live'
        BY <3>1, <3>2, <3>7 DEF Live
      <4>2. \A u \in Channels : joinable[u] => pc[u] = "done"
        BY <3>2, <4>1 DEF Live
      <4>3. \A u \in Channels : pc[u] # "callback" /\ took[u] = 0
        BY <1>a, <1>b, <3>4, <4>2 DEF TookInv, Owed, Calling
      <4>4. Sess!Quiet
        BY <4>3 DEF Sess!Quiet
      <4>5. (Live' = FALSE) /\ (Live = TRUE)
        BY <4>1 DEF Live
      <4>6. Terminated' = Terminated
        BY <3>4 DEF Terminated
      <4>7. Sess!Settle
        BY <3>1, <3>2, <3>5, <4>4, <4>5, <4>6 DEF Sess!Settle, Live, Calling, Owed
      <4> QED
        BY <3>4, <4>7 DEF Sess!Next
    <3> QED
      BY <3>6, <3>7
  <2> QED
    BY <1>1, <2>1, <2>2, <2>3, <2>4, <2>5 DEF ControllerStep
<1>2. ASSUME NEW w \in Channels, WorkerStep(w) \/ RecvSome(w) \/ RecvLast(w)
      PROVE  Sess!Next \/ UNCHANGED Sess!vars
  <2>a. w \in Threads /\ \A u \in Channels : u \in Threads
    BY DEF Threads
  <2>1. CASE \/ LoopTest(w) \/ RecvLoad(w) \/ RecvCall(w) \/ RecvError(w)
             \/ AfterRecvFailed(w) \/ RecvSome(w) \/ CloseExchange(w) \/ CloseNative(w)
    <3>1. Moves(w, Away, Away) /\ Quietly
      BY <1>a, <2>a, <2>1, CloseMoves, WorkerMoves
    <3> QED
      BY <2>a, <3>1, MoveRests
  <2>2. CASE CallbackReturns(w)
    <3>1. pc[w] = "callback" /\ UNCHANGED <<running, joinable, took>> /\ Moves(w, {"callback"}, {"top"})
      BY <1>a, <2>a, <2>2 DEF CallbackReturns, lifeVars, recvVars, Goto, Moves
    <3>2. ~Terminated /\ ~Terminated'
      BY <2>a, <3>1, MoveLives
    <3>3. Calling' = Calling \ {w} /\ w \in Calling /\ Owed' = Owed
      BY <2>a, <3>1 DEF Calling, Owed, Moves
    <3>4. (Live' = Live) /\ (Terminated' = Terminated)
      BY <3>1, <3>2 DEF Live, Terminated
    <3>5. Sess!Return(w)
      BY <3>1, <3>3, <3>4 DEF Sess!Return, Live, Calling, Owed
    <3> QED
      BY <3>2, <3>5 DEF Sess!Next
  <2>3. CASE RecvLast(w)
    <3>1. /\ pc[w] = "recv_wait" /\ UNCHANGED <<running, joinable, took>>
          /\ Moves(w, {"recv_wait"}, {"recv_load", "callback", "fail"})
      BY <1>a, <2>a, <2>3 DEF RecvLast, lifeVars, Goto, Moves
    <3>2. ~Terminated /\ ~Terminated'
      BY <2>a, <3>1, MoveLives
    <3>3. took[w] = 0 /\ joinable[w] /\ w \notin Calling
      BY <1>a, <1>b, <3>1 DEF TookInv, Calling
    <3>4. CASE pc'[w] = "callback"
      <4>1. Calling' = Calling \cup {w} /\ w \notin Owed /\ Owed' = Owed
        BY <2>a, <3>1, <3>3, <3>4 DEF Calling, Owed, Moves
      <4>2. Live /\ (Live' = Live) /\ (Terminated' = Terminated)
        BY <3>1, <3>2, <3>3 DEF Live, Terminated
      <4>3. Sess!Call(w)
        BY <3>1, <3>3, <4>1, <4>2 DEF Sess!Call, Live, Calling, Owed
      <4> QED
        BY <3>2, <4>3 DEF Sess!Next
    <3>5. CASE pc'[w] # "callback"
      <4>1. \A u \in Channels : pc'[u] = "callback" <=> pc[u] = "callback"
        BY <2>a, <3>1, <3>5 DEF Moves
      <4> QED
        BY <3>1, <3>2, <4>1, SessionRests
    <3> QED
      BY <3>4, <3>5
  <2>4. CASE FailExchange(w)
    <3>1. /\ pc[w] = "fail" /\ running' = FALSE /\ joinable' = joinable
          /\ took' = [took EXCEPT ![w] = IF running THEN gen ELSE 0]
          /\ Moves(w, {"fail"}, {"fail_ctl_close"})
      BY <1>a, <2>a, <2>4 DEF FailExchange, Goto, Moves
    <3>2. ~Terminated /\ ~Terminated'
      BY <2>a, <3>1, MoveLives
    <3>3. took[w] = 0 /\ joinable[w] /\ w \notin Calling /\ w \notin Owed
      BY <1>a, <1>b, <3>1 DEF TookInv, Calling, Owed
    <3>4. Live /\ Live' /\ Calling' = Calling
      BY <2>a, <3>1, <3>3 DEF Live, Calling, Moves
    <3>5. CASE running
      <4>1. Owed' = Owed \cup {w}
        BY <1>a, <3>1, <3>3, <3>5 DEF Owed
      <4>2. (Live' = Live) /\ (Terminated' = Terminated)
        BY <3>2, <3>4 DEF Live, Terminated
      <4>3. Sess!Fail(w)
        BY <3>1, <3>3, <3>4, <3>5, <4>1, <4>2 DEF Sess!Fail, Live, Calling, Owed
      <4> QED
        BY <3>2, <4>3 DEF Sess!Next
    <3>6. CASE ~running
      <4>1. Owed' = Owed /\ running' = running
        BY <1>a, <3>1, <3>3, <3>6 DEF Owed
      <4> QED
        BY <3>2, <3>4, <4>1, SessionStutters
    <3> QED
      BY <3>5, <3>6
  <2>5. CASE Report(w)
    <3>1. /\ UNCHANGED <<running, joinable>>
          /\ took' = [took EXCEPT ![w] = 0]
          /\ Moves(w, {"report"}, {"done"})
      BY <1>a, <2>a, <2>5 DEF Report, lifeVars, Goto, Moves
    <3>2. ~Terminated /\ ~Terminated'
      BY <2>a, <3>1, MoveLives
    <3>3. Calling' = Calling /\ Owed' = Owed \ {w}
      BY <1>a, <2>a, <3>1 DEF Calling, Owed, Moves
    <3>4. (Live' = Live) /\ (Terminated' = Terminated)
      BY <3>1, <3>2 DEF Live, Terminated
    <3>5. CASE w \in Owed
      <4>1. Sess!Tell(w)
        BY <3>1, <3>3, <3>4, <3>5 DEF Sess!Tell, Live, Calling, Owed
      <4> QED
        BY <3>2, <4>1 DEF Sess!Next
    <3>6. CASE w \notin Owed
      BY <3>1, <3>2, <3>3, <3>4, <3>6, SessionStutters
    <3> QED
      BY <3>5, <3>6
  <2> QED
    BY <1>2, <2>1, <2>2, <2>3, <2>4, <2>5 DEF WorkerStep
<1>3. ASSUME NEW s \in Senders, SendEnter(s) \/ SenderStep(s)
      PROVE  Sess!Next \/ UNCHANGED Sess!vars
  <2>1. s \in Threads
    BY DEF Threads
  <2> QED
    BY <1>a, <1>3, <2>1, SenderMoves, MoveRests
<1>4. CASE (\E conn \in Conns : PeerCloses(conn)) \/ UNCHANGED vars
  <2>1. UNCHANGED <<pc, running, joinable, took>>
    BY <1>4 DEF PeerCloses, vars, recvVars, lifeVars
  <2> QED
    BY <2>1, SessionRests DEF Terminated
<1> QED
  BY <1>1, <1>2, <1>3, <1>4 DEF Next, Dead

\* SpectraBridgeClient is a Session: every step of its threads, with sockets, locks
\* and races, is a step of Session or changes nothing that Session speaks of.
THEOREM SessionRefined == Spec => ImplementsSession
<1>1. Init => Sess!Init
  BY ThreadsAssumption DEF Init, Sess!Init, Terminated, Threads, Channels
<1>2. SInv /\ [Next]_vars => [Sess!Next]_(Sess!vars)
  BY SessionStep
<1> QED
  BY <1>1, <1>2, SInductive, PTL DEF Spec, ImplementsSession, Sess!Spec
=============================================================================
