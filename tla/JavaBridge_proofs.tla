--------------------------- MODULE JavaBridge_proofs ---------------------------
(***************************************************************************)
(* The safety of the JNI layer, for any number of Java threads and calls,   *)
(* any listener, and a JVM that refuses anything at any time.               *)
(***************************************************************************)
EXTENDS JavaBridge, TLAPS

Closing == {"again", "free", "rejoin_control", "rejoin_image"}
Stopping == {"join_control", "join_image"} \cup Closing
Dialing == {"dialing", "catch_control", "catch_image"} \cup Starting

\* The type of what TypeOK only says of single elements.
JvmTypes ==
    /\ news \in [Workers -> {"answer", "frame", "hdr", "error"}]
    /\ refs \in [Workers -> 0..3]

\* Where a thread can be in which method.
CallInv ==
    \A t \in Threads :
        /\ at[t] = "out" <=> call[t] = "none"
        /\ at[t] = "native" => call[t] # "isClosed"
        /\ at[t] = "sending" => call[t] = "send"
        /\ at[t] \in Dialing => call[t] = "connect"
        /\ at[t] \in Stopping => call[t] \in {"disconnect", "close"}
        /\ at[t] \in Closing => call[t] = "close"
        /\ context \in {"none", "refused"} => call[t] = "none"

\* The handle is cleared under stateLock, with the context.
HandleInv ==
    /\ stateLock # NoThread => open
    /\ open <=> context = "alive"

\* What close() overlaps is noted, and nothing else gets at a freed context.
OverlapInv ==
    /\ \A t, u \in Threads : Conflict(call[t], call[u]) => t \in overlapped
    /\ LateCallsAreRefused

\* A worker has a std::thread.  The control worker is started first and joined
\* first, under lifecycle_mutex_, while running_ is what the place says.
SessionInv ==
    /\ \A w \in Workers : loop[w] # "none" => joinable[w]
    /\ \A w \in Workers : joinable[w] => unjoined
    /\ joinable["image"] => joinable["control"] \/ \E t \in Threads : at[t] \in JoiningImage
    /\ \A t \in Threads :
            /\ at[t] \in {"dialing"} \cup Joining => ~running
            /\ at[t] = "start_control" => running \/ \E w \in Workers : joinable[w]
            /\ at[t] = "start_image" => joinable["control"] /\ ~joinable["image"]
            /\ at[t] \in JoiningImage => ~joinable["control"]
            /\ at[t] = "free" => t \in overlapped \/ \A w \in Workers : ~joinable[w]

\* callback_mutex_ covers all that a callback holds.
CallbackInv ==
    \A w \in Workers :
        /\ attached[w] \/ refs[w] # 0 => loop[w] \in InCallback \ {"attaching"}
        /\ loop[w] \in {"filling", "filling_second"} => news[w] = "hdr" /\ refs[w] = 2
        /\ pending[w] => loop[w] \in {"undoing", "filling_second"}

JavaSide == CallInv /\ HandleInv /\ OverlapInv
WorkerSide == SessionInv /\ CallbackInv /\ CloseLeavesNothing /\ AbortHasCause
JavaInv == TypeOK /\ JvmTypes /\ JavaSide /\ WorkerSide
\* The functions among the variables, for the provers.
Functions ==
    /\ at \in [Threads -> Places] /\ call \in [Threads -> Methods \cup {"none"}]
    /\ joinable \in [Workers -> BOOLEAN]
    /\ loop \in [Workers -> LoopPlaces]
    /\ attached \in [Workers -> BOOLEAN] /\ pending \in [Workers -> BOOLEAN]
    /\ news \in [Workers -> {"answer", "frame", "hdr", "error"}] /\ refs \in [Workers -> 0..3]
    /\ open \in BOOLEAN /\ running \in BOOLEAN /\ unjoined \in BOOLEAN
    /\ overlapped \subseteq Threads

\* What AbortHasCause asks for.
Cause ==
    \/ \E t \in overlapped : at[t] = "free" \/ context = "freed"
    \/ \E w \in Workers : at[w] \in Joining /\ JoinedWorker(at[w]) = w
    \/ unjoined /\ \E t \in Threads : at[t] = "start_control"

-----------------------------------------------------------------------------
LEMMA JavaInit == Init => JavaInv
<1> SUFFICES ASSUME Init PROVE JavaInv
  OBVIOUS
<1> USE AppsAssumption, UsageAssumption DEF Init, Threads, Workers
<1>1. TypeOK
  <2>1. /\ call \in [Threads -> Methods \cup {"none"}] /\ at \in [Threads -> Places]
    BY DEF Methods, Places
  <2>2. /\ joinable \in [Workers -> BOOLEAN] /\ attached \in [Workers -> BOOLEAN]
        /\ pending \in [Workers -> BOOLEAN]
    OBVIOUS
  <2>3. loop \in [Workers -> LoopPlaces]
    BY DEF LoopPlaces
  <2>4. \A w \in Workers : news[w] \in Messages(w) \cup {"error"} /\ refs[w] \in 0..3
    <3>1. \A w \in Workers : news[w] = "error" /\ refs[w] = 0
      OBVIOUS
    <3>2. 0 \in 0..3
      OBVIOUS
    <3> HIDE DEF Init, Workers
    <3> QED
      BY <3>1, <3>2
  <2>5. begun \in 0..MaxCalls
    OBVIOUS
  <2>6. LocksOK
    <3>1. \A t \in Threads : at[t] = "out" /\ t # NoThread
      OBVIOUS
    <3>2. \A w \in Workers : loop[w] = "none" /\ w # NoThread
      OBVIOUS
    <3> HIDE DEF Threads, Workers
    <3> QED
      BY <3>1, <3>2 DEF LocksOK, InCallback, InClient, Starting, Joining, JoiningControl,
          JoiningImage
  <2> HIDE DEF Threads
  <2> QED
    BY <2>1, <2>2, <2>3, <2>4, <2>5, <2>6 DEF TypeOK
<1>2. JvmTypes
  <2>1. news \in [Workers -> {"answer", "frame", "hdr", "error"}]
    OBVIOUS
  <2>2. refs \in [Workers -> 0..3]
    OBVIOUS
  <2> QED
    BY <2>1, <2>2 DEF JvmTypes
<1>3. CallInv /\ HandleInv
  BY DEF CallInv, HandleInv, Stopping, Closing, Dialing, Starting
<1>4. OverlapInv
  BY DEF OverlapInv, Conflict, LateCallsAreRefused
<1>5. SessionInv /\ CallbackInv /\ CloseLeavesNothing /\ AbortHasCause
  BY DEF SessionInv, CallbackInv, CloseLeavesNothing, AbortHasCause, Joining,
      JoiningControl,
     JoiningImage
<1> QED
  BY <1>1, <1>2, <1>3, <1>4, <1>5 DEF JavaInv, JavaSide, WorkerSide

\* The end of the process leaves everything as it is: it only needs a cause.
LEMMA AbortKeeps == ASSUME JavaInv, Abort, Cause PROVE JavaInv'
<1> USE DEF Abort, javaVars, clientVars, jvmVars, workerVars
<1>1. TypeOK' /\ JvmTypes'
  BY DEF JavaInv, TypeOK, LocksOK, JvmTypes
<1>2. JavaSide'
  BY DEF JavaInv, JavaSide, CallInv, HandleInv, OverlapInv, LateCallsAreRefused
<1>3. WorkerSide'
  BY DEF JavaInv, WorkerSide, SessionInv, CallbackInv, CloseLeavesNothing, AbortHasCause,
      Cause
<1> QED
  BY <1>1, <1>2, <1>3 DEF JavaInv

\* nativeCreate.
LEMMA CreateKeeps ==
    ASSUME JavaInv, Create \/ CreateFails
    PROVE  JavaInv'
<1> USE AppsAssumption, UsageAssumption
    DEF Threads, Workers, javaVars, clientVars, jvmVars, workerVars, GoTo, Return
<1>a. TypeOK /\ LocksOK /\ JvmTypes /\ CallInv /\ HandleInv /\ OverlapInv
      /\ SessionInv /\ CallbackInv /\ CloseLeavesNothing /\ AbortHasCause
  BY DEF JavaInv, JavaSide, WorkerSide, TypeOK
<1>t. Functions
  BY <1>a DEF TypeOK, JvmTypes, Functions
<1> USE DEF Functions
<1>1. CASE Create
  <2>1. LocksOK'
    BY <1>a, <1>t, <1>1
    DEF Create, LocksOK
  <2>2. TypeOK'
    BY <1>a, <1>t, <1>1, <2>1
    DEF Create, TypeOK, Places
  <2>3. CallInv'
    BY <1>a, <1>t, <1>1
    DEF Create, CallInv
  <2>4. HandleInv'
    BY <1>a, <1>t, <1>1
    DEF Create, HandleInv, CallInv, LocksOK, InClient
  <2>5. OverlapInv'
    BY <1>a, <1>t, <1>1
    DEF Create, OverlapInv, LateCallsAreRefused
  <2>6. CloseLeavesNothing'
    BY <1>a, <1>t, <1>1
    DEF Create, CloseLeavesNothing
  <2>7. AbortHasCause'
    BY <1>a, <1>t, <1>1
    DEF Create, AbortHasCause
  <2>8. (JvmTypes /\ SessionInv /\ CallbackInv)'
    BY <1>a, <1>t, <1>1
    DEF Create, JvmTypes, SessionInv, CallbackInv
  <2> QED
    BY <2>1, <2>2, <2>3, <2>4, <2>5, <2>6, <2>7, <2>8 DEF JavaInv, JavaSide, WorkerSide
<1>2. CASE CreateFails
  <2>1. LocksOK'
    BY <1>a, <1>t, <1>2
    DEF CreateFails, LocksOK
  <2>2. TypeOK'
    BY <1>a, <1>t, <1>2, <2>1
    DEF CreateFails, TypeOK, Places
  <2>3. CallInv'
    BY <1>a, <1>t, <1>2
    DEF CreateFails, CallInv
  <2>4. HandleInv'
    BY <1>a, <1>t, <1>2
    DEF CreateFails, HandleInv, CallInv, LocksOK, InClient
  <2>5. OverlapInv'
    BY <1>a, <1>t, <1>2
    DEF CreateFails, OverlapInv, LateCallsAreRefused
  <2>6. CloseLeavesNothing'
    BY <1>a, <1>t, <1>2
    DEF CreateFails, CloseLeavesNothing
  <2>7. AbortHasCause'
    BY <1>a, <1>t, <1>2
    DEF CreateFails, AbortHasCause
  <2>8. (JvmTypes /\ SessionInv /\ CallbackInv)'
    BY <1>a, <1>t, <1>2
    DEF CreateFails, JvmTypes, SessionInv, CallbackInv
  <2> QED
    BY <2>1, <2>2, <2>3, <2>4, <2>5, <2>6, <2>7, <2>8 DEF JavaInv, JavaSide, WorkerSide
<1> QED
  BY <1>1, <1>2

\* A method is called.
LEMMA BeginKeeps ==
    ASSUME JavaInv, process = "up", NEW t \in Threads, NEW m \in Methods, Begin(t, m)
    PROVE  JavaInv'
<1> USE AppsAssumption, UsageAssumption
    DEF Threads, Workers, javaVars, clientVars, jvmVars, workerVars, GoTo, Return
<1>a. TypeOK /\ LocksOK /\ JvmTypes /\ CallInv /\ HandleInv /\ OverlapInv
      /\ SessionInv /\ CallbackInv /\ CloseLeavesNothing /\ AbortHasCause
  BY DEF JavaInv, JavaSide, WorkerSide, TypeOK
<1>t. Functions
  BY <1>a DEF TypeOK, JvmTypes, Functions
<1> USE DEF Functions
<1>1. LocksOK'
  BY <1>a, <1>t DEF Begin, LocksOK, CallInv, InClient, Starting, Joining, JoiningControl,
      JoiningImage
<1>2. TypeOK'
  <2>1. overlapped' \subseteq Threads
    BY <1>t DEF Begin
  <2>2. at' \in [Threads -> Places] /\ call' \in [Threads -> Methods \cup {"none"}]
    BY <1>t DEF Begin, Places
  <2>3. begun' \in 0..MaxCalls
    BY <1>a DEF Begin, TypeOK
  <2> QED
    BY <1>a, <1>1, <2>1, <2>2, <2>3 DEF Begin, TypeOK
<1>3. CallInv'
  BY <1>a, <1>t DEF Begin, CallInv, Stopping, Closing, Dialing, Starting, Methods
<1>4. HandleInv'
  BY <1>a DEF Begin, HandleInv
<1>5. OverlapInv'
  <2>1. overlapped \subseteq overlapped'
    BY DEF Begin
  <2>2. LateCallsAreRefused'
    BY <1>a, <1>t, <2>1 DEF Begin, OverlapInv, LateCallsAreRefused, InClient, Starting,
        Joining, JoiningControl, JoiningImage
  <2>3. ASSUME NEW u \in Threads, NEW v \in Threads, Conflict(call'[u], call'[v])
        PROVE  u \in overlapped'
    <3>1. CASE u # t /\ v # t
      BY <1>a, <1>t, <2>1, <2>3, <3>1 DEF Begin, OverlapInv
    <3>2. CASE u = t
      <4>1. v # t /\ Conflict(m, call[v])
        BY <1>t, <2>3, <3>2 DEF Begin, Conflict
      <4> QED
        BY <3>2, <4>1 DEF Begin
    <3>3. CASE u # t /\ v = t
      <4>1. Conflict(m, call[u])
        BY <1>t, <2>3, <3>3 DEF Begin, Conflict
      <4> QED
        BY <4>1 DEF Begin
    <3> QED
      BY <3>1, <3>2, <3>3
  <2> QED
    BY <2>2, <2>3 DEF OverlapInv
<1>6. SessionInv'
  <2>1. overlapped \subseteq overlapped'
    BY DEF Begin
  <2> QED
    BY <1>a, <1>t, <2>1 DEF Begin, SessionInv, CallInv, Joining, JoiningControl,
        JoiningImage
<1>7. (AbortHasCause /\ JvmTypes /\ CallbackInv /\ CloseLeavesNothing)'
  BY <1>a DEF Begin, AbortHasCause, JvmTypes, CallbackInv, CloseLeavesNothing
<1> QED
  BY <1>1, <1>2, <1>3, <1>4, <1>5, <1>6, <1>7 DEF JavaInv, JavaSide, WorkerSide

\* The methods.  A join and a Connect may end the process instead.
LEMMA CallKeeps ==
    ASSUME JavaInv, NEW t \in Threads, process = "up",
           \/ RequireHandle(t) \/ LockState(t) \/ NativeSend(t) \/ SendEnds(t)
           \/ NativeConnect(t) \/ ConnectFails(t) \/ StartRunning(t) \/ StartWorker(t)
           \/ StartFails(t) \/ StopSession(t) \/ Join(t) \/ DestroyContext(t) \/ UseFreed(t)
    PROVE  JavaInv'
<1> USE AppsAssumption, UsageAssumption
    DEF Threads, Workers, javaVars, clientVars, jvmVars, workerVars, GoTo, Return
<1>a. TypeOK /\ LocksOK /\ JvmTypes /\ CallInv /\ HandleInv /\ OverlapInv
      /\ SessionInv /\ CallbackInv /\ CloseLeavesNothing /\ AbortHasCause
  BY DEF JavaInv, JavaSide, WorkerSide, TypeOK
<1>t. Functions
  BY <1>a DEF TypeOK, JvmTypes, Functions
<1> USE DEF Functions
<1>1. CASE RequireHandle(t)
  <2>1. LocksOK'
    BY <1>a, <1>t, <1>1
    DEF RequireHandle, LocksOK, InClient, Starting, Joining, JoiningControl, JoiningImage
  <2>2. TypeOK'
    BY <1>a, <1>t, <1>1, <2>1
    DEF RequireHandle, TypeOK, Places, Methods, InClient, Starting, Joining,
        JoiningControl, JoiningImage
  <2>3. CallInv'
    BY <1>a, <1>t, <1>1
    DEF RequireHandle, CallInv, Stopping, Closing, Dialing, InClient, Starting, Joining,
        JoiningControl, JoiningImage
  <2>4. HandleInv'
    BY <1>a, <1>t, <1>1
    DEF RequireHandle, HandleInv, LocksOK, InClient, Starting, Joining, JoiningControl,
        JoiningImage
  <2>5. OverlapInv'
    BY <1>a, <1>t, <1>1
    DEF RequireHandle, OverlapInv, Conflict, LateCallsAreRefused, HandleInv, InClient,
        Starting, Joining, JoiningControl, JoiningImage
  <2>6. SessionInv'
    BY <1>a, <1>t, <1>1
    DEF RequireHandle, SessionInv, CallInv, LocksOK, Joining, JoiningControl, JoiningImage
  <2>7. CloseLeavesNothing'
    BY <1>a, <1>t, <1>1
    DEF RequireHandle, CloseLeavesNothing
  <2>8. AbortHasCause'
    BY <1>a, <1>t, <1>1
    DEF RequireHandle, AbortHasCause
  <2>9. (JvmTypes /\ CallbackInv)'
    BY <1>a, <1>t, <1>1
    DEF RequireHandle, JvmTypes, CallbackInv
  <2> QED
    BY <2>1, <2>2, <2>3, <2>4, <2>5, <2>6, <2>7, <2>8, <2>9 DEF JavaInv, JavaSide,
        WorkerSide
<1>2. CASE LockState(t)
  <2>1. LocksOK'
    BY <1>a, <1>t, <1>2
    DEF LockState, LocksOK, InClient, Starting, Joining, JoiningControl, JoiningImage
  <2>2. TypeOK'
    BY <1>a, <1>t, <1>2, <2>1
    DEF LockState, TypeOK, Places, Methods, InClient, Starting, Joining, JoiningControl,
        JoiningImage
  <2>3. CallInv'
    BY <1>a, <1>t, <1>2
    DEF LockState, CallInv, Stopping, Closing, Dialing, InClient, Starting, Joining,
        JoiningControl, JoiningImage
  <2>4. HandleInv'
    BY <1>a, <1>t, <1>2
    DEF LockState, HandleInv, LocksOK, InClient, Starting, Joining, JoiningControl,
        JoiningImage
  <2>5. OverlapInv'
    BY <1>a, <1>t, <1>2
    DEF LockState, OverlapInv, Conflict, LateCallsAreRefused, HandleInv, InClient,
        Starting, Joining, JoiningControl, JoiningImage
  <2>6. SessionInv'
    BY <1>a, <1>t, <1>2
    DEF LockState, SessionInv, CallInv, LocksOK, Joining, JoiningControl, JoiningImage
  <2>7. CloseLeavesNothing'
    BY <1>a, <1>t, <1>2
    DEF LockState, CloseLeavesNothing
  <2>8. AbortHasCause'
    BY <1>a, <1>t, <1>2
    DEF LockState, AbortHasCause
  <2>9. (JvmTypes /\ CallbackInv)'
    BY <1>a, <1>t, <1>2
    DEF LockState, JvmTypes, CallbackInv
  <2> QED
    BY <2>1, <2>2, <2>3, <2>4, <2>5, <2>6, <2>7, <2>8, <2>9 DEF JavaInv, JavaSide,
        WorkerSide
<1>3. CASE NativeSend(t)
  <2>1. LocksOK'
    BY <1>a, <1>t, <1>3
    DEF NativeSend, LocksOK, InClient, Starting, Joining, JoiningControl, JoiningImage
  <2>2. TypeOK'
    BY <1>a, <1>t, <1>3, <2>1
    DEF NativeSend, TypeOK, Places, Methods, InClient, Starting, Joining, JoiningControl,
        JoiningImage
  <2>3. CallInv'
    BY <1>a, <1>t, <1>3
    DEF NativeSend, CallInv, Stopping, Closing, Dialing, InClient, Starting, Joining,
        JoiningControl, JoiningImage
  <2>4. HandleInv'
    BY <1>a, <1>t, <1>3
    DEF NativeSend, HandleInv, LocksOK, InClient, Starting, Joining, JoiningControl,
        JoiningImage
  <2>5. OverlapInv'
    BY <1>a, <1>t, <1>3
    DEF NativeSend, OverlapInv, Conflict, LateCallsAreRefused, HandleInv, InClient,
        Starting, Joining, JoiningControl, JoiningImage
  <2>6. SessionInv'
    BY <1>a, <1>t, <1>3
    DEF NativeSend, SessionInv, CallInv, LocksOK, Joining, JoiningControl, JoiningImage
  <2>7. CloseLeavesNothing'
    BY <1>a, <1>t, <1>3
    DEF NativeSend, CloseLeavesNothing
  <2>8. AbortHasCause'
    BY <1>a, <1>t, <1>3
    DEF NativeSend, AbortHasCause
  <2>9. (JvmTypes /\ CallbackInv)'
    BY <1>a, <1>t, <1>3
    DEF NativeSend, JvmTypes, CallbackInv
  <2> QED
    BY <2>1, <2>2, <2>3, <2>4, <2>5, <2>6, <2>7, <2>8, <2>9 DEF JavaInv, JavaSide,
        WorkerSide
<1>4. CASE SendEnds(t)
  <2>1. LocksOK'
    BY <1>a, <1>t, <1>4
    DEF SendEnds, LocksOK, CallInv, Dialing, InClient, Starting, Joining, JoiningControl,
        JoiningImage
  <2>2. TypeOK'
    BY <1>a, <1>t, <1>4, <2>1
    DEF SendEnds, TypeOK, Places, Methods, InClient, Starting, Joining, JoiningControl,
        JoiningImage
  <2>3. CallInv'
    BY <1>a, <1>t, <1>4
    DEF SendEnds, CallInv, Stopping, Closing, Dialing, InClient, Starting, Joining,
        JoiningControl, JoiningImage
  <2>4. HandleInv'
    BY <1>a, <1>t, <1>4
    DEF SendEnds, HandleInv, LocksOK, InClient, Starting, Joining, JoiningControl,
        JoiningImage
  <2>5. OverlapInv'
    BY <1>a, <1>t, <1>4
    DEF SendEnds, OverlapInv, Conflict, LateCallsAreRefused, HandleInv, InClient,
        Starting, Joining, JoiningControl, JoiningImage
  <2>6. SessionInv'
    BY <1>a, <1>t, <1>4
    DEF SendEnds, SessionInv, CallInv, LocksOK, Joining, JoiningControl, JoiningImage
  <2>7. CloseLeavesNothing'
    BY <1>a, <1>t, <1>4
    DEF SendEnds, CloseLeavesNothing
  <2>8. AbortHasCause'
    BY <1>a, <1>t, <1>4
    DEF SendEnds, AbortHasCause
  <2>9. (JvmTypes /\ CallbackInv)'
    BY <1>a, <1>t, <1>4
    DEF SendEnds, JvmTypes, CallbackInv
  <2> QED
    BY <2>1, <2>2, <2>3, <2>4, <2>5, <2>6, <2>7, <2>8, <2>9 DEF JavaInv, JavaSide,
        WorkerSide
<1>5. CASE NativeConnect(t)
  <2>1. LocksOK'
    BY <1>a, <1>t, <1>5
    DEF NativeConnect, LocksOK, InClient, Starting, Joining, JoiningControl, JoiningImage
  <2>2. TypeOK'
    BY <1>a, <1>t, <1>5, <2>1
    DEF NativeConnect, TypeOK, Places, Methods, InClient, Starting, Joining,
        JoiningControl, JoiningImage
  <2>3. CallInv'
    BY <1>a, <1>t, <1>5
    DEF NativeConnect, CallInv, Stopping, Closing, Dialing, InClient, Starting, Joining,
        JoiningControl, JoiningImage
  <2>4. HandleInv'
    BY <1>a, <1>t, <1>5
    DEF NativeConnect, HandleInv, LocksOK, InClient, Starting, Joining, JoiningControl,
        JoiningImage
  <2>5. OverlapInv'
    BY <1>a, <1>t, <1>5
    DEF NativeConnect, OverlapInv, Conflict, LateCallsAreRefused, HandleInv, InClient,
        Starting, Joining, JoiningControl, JoiningImage
  <2>6. SessionInv'
    BY <1>a, <1>t, <1>5
    DEF NativeConnect, SessionInv, CallInv, LocksOK, Joining, JoiningControl, JoiningImage
  <2>7. CloseLeavesNothing'
    BY <1>a, <1>t, <1>5
    DEF NativeConnect, CloseLeavesNothing
  <2>8. AbortHasCause'
    BY <1>a, <1>t, <1>5
    DEF NativeConnect, AbortHasCause
  <2>9. (JvmTypes /\ CallbackInv)'
    BY <1>a, <1>t, <1>5
    DEF NativeConnect, JvmTypes, CallbackInv
  <2> QED
    BY <2>1, <2>2, <2>3, <2>4, <2>5, <2>6, <2>7, <2>8, <2>9 DEF JavaInv, JavaSide,
        WorkerSide
<1>6. CASE ConnectFails(t)
  <2>1. LocksOK'
    BY <1>a, <1>t, <1>6
    DEF ConnectFails, LocksOK, CallInv, Dialing, InClient, Starting, Joining, JoiningControl,
        JoiningImage
  <2>2. TypeOK'
    BY <1>a, <1>t, <1>6, <2>1
    DEF ConnectFails, TypeOK, Places, Methods, InClient, Starting, Joining,
        JoiningControl, JoiningImage
  <2>3. CallInv'
    BY <1>a, <1>t, <1>6
    DEF ConnectFails, CallInv, Stopping, Closing, Dialing, InClient, Starting, Joining,
        JoiningControl, JoiningImage
  <2>4. HandleInv'
    BY <1>a, <1>t, <1>6
    DEF ConnectFails, HandleInv, LocksOK, InClient, Starting, Joining, JoiningControl,
        JoiningImage
  <2>5. OverlapInv'
    BY <1>a, <1>t, <1>6
    DEF ConnectFails, OverlapInv, Conflict, LateCallsAreRefused, HandleInv, InClient,
        Starting, Joining, JoiningControl, JoiningImage
  <2>6. SessionInv'
    BY <1>a, <1>t, <1>6
    DEF ConnectFails, SessionInv, CallInv, LocksOK, Joining, JoiningControl, JoiningImage
  <2>7. CloseLeavesNothing'
    BY <1>a, <1>t, <1>6
    DEF ConnectFails, CloseLeavesNothing
  <2>8. AbortHasCause'
    BY <1>a, <1>t, <1>6
    DEF ConnectFails, AbortHasCause
  <2>9. (JvmTypes /\ CallbackInv)'
    BY <1>a, <1>t, <1>6
    DEF ConnectFails, JvmTypes, CallbackInv
  <2> QED
    BY <2>1, <2>2, <2>3, <2>4, <2>5, <2>6, <2>7, <2>8, <2>9 DEF JavaInv, JavaSide,
        WorkerSide
<1>7. CASE StartRunning(t)
  <2>1. LocksOK'
    BY <1>a, <1>t, <1>7
    DEF StartRunning, LocksOK, InClient, Starting, Joining, JoiningControl, JoiningImage
  <2>2. TypeOK'
    BY <1>a, <1>t, <1>7, <2>1
    DEF StartRunning, TypeOK, Places, Methods, InClient, Starting, Joining,
        JoiningControl, JoiningImage
  <2>3. CallInv'
    BY <1>a, <1>t, <1>7
    DEF StartRunning, CallInv, Stopping, Closing, Dialing, InClient, Starting, Joining,
        JoiningControl, JoiningImage
  <2>4. HandleInv'
    BY <1>a, <1>t, <1>7
    DEF StartRunning, HandleInv, LocksOK, InClient, Starting, Joining, JoiningControl,
        JoiningImage
  <2>5. OverlapInv'
    BY <1>a, <1>t, <1>7
    DEF StartRunning, OverlapInv, Conflict, LateCallsAreRefused, HandleInv, InClient,
        Starting, Joining, JoiningControl, JoiningImage
  <2>6. SessionInv'
    BY <1>a, <1>t, <1>7
    DEF StartRunning, SessionInv, CallInv, LocksOK, Joining, JoiningControl, JoiningImage
  <2>7. CloseLeavesNothing'
    BY <1>a, <1>t, <1>7
    DEF StartRunning, CloseLeavesNothing
  <2>8. AbortHasCause'
    BY <1>a, <1>t, <1>7
    DEF StartRunning, AbortHasCause
  <2>9. (JvmTypes /\ CallbackInv)'
    BY <1>a, <1>t, <1>7
    DEF StartRunning, JvmTypes, CallbackInv
  <2> QED
    BY <2>1, <2>2, <2>3, <2>4, <2>5, <2>6, <2>7, <2>8, <2>9 DEF JavaInv, JavaSide,
        WorkerSide
<1>8. CASE StartWorker(t)
  <2> DEFINE w == StartedWorker(at[t])
  <2>a. at[t] \in Starting /\ w \in Workers /\ context = "alive" /\ lifecycle = t
    BY <1>a, <1>8 DEF StartWorker, StartedWorker, LocksOK
  <2>1. CASE joinable[w] /\ Abort
    <3>1. Cause
      BY <1>a, <2>a, <2>1 DEF Cause, SessionInv, StartedWorker, Starting
    <3> QED
      BY <2>1, <3>1, AbortKeeps
  <2>2. CASE ~joinable[w]
    <3>a. /\ joinable' = [joinable EXCEPT ![w] = TRUE]
          /\ loop' = [loop EXCEPT ![w] = "top"]
          /\ unjoined' = TRUE
          /\ \/ w = "control" /\ at[t] = "start_control" /\ GoTo(t, "start_image") /\ UNCHANGED lifecycle
             \/ w = "image" /\ at[t] = "start_image" /\ Return(t) /\ lifecycle' = NoThread
          /\ UNCHANGED <<open, stateLock, begun, context, globalRef, sendLock, running,
                         news, callbackLock, jvmVars, process>>
      BY <1>8, <2>a, <2>2 DEF StartWorker, StartedWorker, Starting
    <3>b. loop[w] = "none"
      BY <1>a, <2>a, <2>2 DEF SessionInv
    <3> HIDE DEF w
    <3>1. LocksOK'
      <4>1. \A u \in Workers : loop'[u] \in InCallback <=> loop[u] \in InCallback
        BY <1>t, <2>a, <3>a, <3>b DEF InCallback
      <4>2. call[t] = "connect"
        BY <1>a, <2>a DEF CallInv, Dialing
      <4>3. CASE at[t] = "start_control" /\ GoTo(t, "start_image") /\ UNCHANGED lifecycle
        BY <1>a, <1>t, <2>a, <3>a, <4>1, <4>2, <4>3
        DEF LocksOK, InClient, Starting, Joining, JoiningControl, JoiningImage
      <4>4. CASE at[t] = "start_image" /\ Return(t) /\ lifecycle' = NoThread
        BY <1>a, <1>t, <2>a, <3>a, <4>1, <4>2, <4>4
        DEF LocksOK, InClient, Starting, Joining, JoiningControl, JoiningImage
      <4> QED
        BY <3>a, <4>3, <4>4
    <3>2. TypeOK'
      <4>1. joinable' \in [Workers -> BOOLEAN] /\ loop' \in [Workers -> LoopPlaces]
        BY <1>t, <3>a DEF LoopPlaces
      <4>2. at' \in [Threads -> Places] /\ call' \in [Threads -> Methods \cup {"none"}]
        BY <1>t, <3>a DEF Places, InClient, Starting
      <4>3. overlapped' \subseteq Threads
        BY <1>t, <3>a
      <4> QED
        BY <1>a, <3>a, <3>1, <4>1, <4>2, <4>3 DEF TypeOK
    <3>3. CallInv'
      BY <1>a, <1>t, <2>a, <2>2, <3>a
      DEF CallInv, Stopping, Closing, Dialing, InClient, Starting, Joining,
          JoiningControl, JoiningImage
    <3>4. HandleInv'
      BY <1>a, <1>t, <2>a, <2>2, <3>a
      DEF HandleInv, LocksOK, InClient, Starting, Joining, JoiningControl, JoiningImage
    <3>5. OverlapInv'
      BY <1>a, <1>t, <2>a, <2>2, <3>a
      DEF OverlapInv, Conflict, LateCallsAreRefused, HandleInv, InClient, Starting,
          Joining, JoiningControl, JoiningImage
    <3>6. SessionInv'
      <4>1. \A u \in Threads : at[u] \notin {"dialing"} \cup Joining
        BY <1>a, <2>a DEF LocksOK, Starting, Joining, JoiningControl, JoiningImage
      <4>2. \A u \in Threads : u # t => at[u] \notin Starting
        BY <1>a, <2>a DEF LocksOK
      <4>3. \A u \in Threads : u # t => at'[u] = at[u] /\ (u \in overlapped' <=> u \in overlapped)
        BY <1>t, <3>a
      <4>4. \A u \in Threads : at[u] = "free" => u # t /\ u \in overlapped
        BY <1>a, <2>a DEF CallInv, Closing, Dialing, OverlapInv, Conflict, Starting
      <4>5. at'[t] \in {"start_image", "out"}
        BY <1>t, <3>a
      <4>6. CASE w = "control" /\ at[t] = "start_control"
        <5>1. ~joinable["image"]
          BY <1>a, <2>2, <4>1, <4>6 DEF SessionInv, Joining
        <5> QED
          BY <1>a, <1>t, <3>a, <4>1, <4>2, <4>3, <4>4, <4>5, <4>6, <5>1
          DEF SessionInv, Starting, Joining, JoiningControl, JoiningImage
      <4>7. CASE w = "image" /\ at[t] = "start_image" /\ Return(t)
        BY <1>a, <1>t, <3>a, <4>1, <4>2, <4>3, <4>4, <4>7
        DEF SessionInv, Starting, Joining, JoiningControl, JoiningImage
      <4> QED
        BY <3>a, <4>6, <4>7
    <3>7. CloseLeavesNothing'
      BY <1>a, <1>t, <2>a, <2>2, <3>a
      DEF CloseLeavesNothing
    <3>8. AbortHasCause'
      BY <1>a, <1>t, <2>a, <2>2, <3>a
      DEF AbortHasCause
    <3>9. (JvmTypes /\ CallbackInv)'
      BY <1>a, <1>t, <2>a, <3>a, <3>b
      DEF JvmTypes, CallbackInv, InCallback
    <3> QED
      BY <3>1, <3>2, <3>3, <3>4, <3>5, <3>6, <3>7, <3>8, <3>9 DEF JavaInv, JavaSide,
          WorkerSide
  <2> QED
    BY <1>8, <2>1, <2>2 DEF StartWorker
<1>9. CASE StartFails(t)
  <2>1. LocksOK'
    BY <1>a, <1>t, <1>9
    DEF StartFails, LocksOK, InClient, Starting, Joining, JoiningControl, JoiningImage
  <2>2. TypeOK'
    BY <1>a, <1>t, <1>9, <2>1
    DEF StartFails, TypeOK, Places, Methods, InClient, Starting, Joining, JoiningControl,
        JoiningImage
  <2>3. CallInv'
    BY <1>a, <1>t, <1>9
    DEF StartFails, CallInv, Stopping, Closing, Dialing, InClient, Starting, Joining,
        JoiningControl, JoiningImage
  <2>4. HandleInv'
    BY <1>a, <1>t, <1>9
    DEF StartFails, HandleInv, LocksOK, InClient, Starting, Joining, JoiningControl,
        JoiningImage
  <2>5. OverlapInv'
    BY <1>a, <1>t, <1>9
    DEF StartFails, OverlapInv, Conflict, LateCallsAreRefused, HandleInv, InClient,
        Starting, Joining, JoiningControl, JoiningImage
  <2>6. SessionInv'
    <3>1. at[t] \notin JoiningImage /\ at'[t] \notin {"dialing", "free"} \cup Starting
      BY <1>t, <1>9 DEF StartFails, Starting, JoiningImage
    <3>2. \A u \in Threads \ {t} : at'[u] = at[u]
      BY <1>t, <1>9 DEF StartFails
    <3>3. \A u \in Threads \ {t} : at[u] \notin Starting \cup Joining
      BY <1>a, <1>t, <1>9 DEF StartFails, LocksOK
    <3>4. at'[t] \notin JoiningImage
      BY <1>t, <1>9 DEF StartFails, JoiningImage
    <3>5. running' = FALSE /\ UNCHANGED <<joinable, unjoined, loop, overlapped>>
      BY <1>9 DEF StartFails
    <3> QED
      BY <1>a, <3>1, <3>2, <3>3, <3>4, <3>5 DEF SessionInv, Starting, Joining
  <2>7. CloseLeavesNothing'
    BY <1>a, <1>t, <1>9
    DEF StartFails, CloseLeavesNothing
  <2>8. AbortHasCause'
    BY <1>a, <1>t, <1>9
    DEF StartFails, AbortHasCause
  <2>9. (JvmTypes /\ CallbackInv)'
    BY <1>a, <1>t, <1>9
    DEF StartFails, JvmTypes, CallbackInv
  <2> QED
    BY <2>1, <2>2, <2>3, <2>4, <2>5, <2>6, <2>7, <2>8, <2>9 DEF JavaInv, JavaSide,
        WorkerSide
<1>10. CASE StopSession(t)
  <2>1. LocksOK'
    BY <1>a, <1>t, <1>10
    DEF StopSession, LocksOK, InClient, Starting, Joining, JoiningControl, JoiningImage
  <2>2. TypeOK'
    BY <1>a, <1>t, <1>10, <2>1
    DEF StopSession, TypeOK, Places, Methods, InClient, Starting, Joining,
        JoiningControl, JoiningImage
  <2>3. CallInv'
    BY <1>a, <1>t, <1>10
    DEF StopSession, CallInv, Stopping, Closing, Dialing, InClient, Starting, Joining,
        JoiningControl, JoiningImage
  <2>4. HandleInv'
    BY <1>a, <1>t, <1>10
    DEF StopSession, HandleInv, LocksOK, InClient, Starting, Joining, JoiningControl,
        JoiningImage
  <2>5. OverlapInv'
    BY <1>a, <1>t, <1>10
    DEF StopSession, OverlapInv, Conflict, LateCallsAreRefused, HandleInv, InClient,
        Starting, Joining, JoiningControl, JoiningImage
  <2>6. SessionInv'
    <3>1. at[t] \notin JoiningImage /\ at'[t] \notin {"dialing", "free"} \cup Starting
      BY <1>t, <1>10 DEF StopSession, Starting, JoiningImage
    <3>2. \A u \in Threads \ {t} : at'[u] = at[u]
      BY <1>t, <1>10 DEF StopSession
    <3>3. \A u \in Threads \ {t} : at[u] \notin Starting \cup Joining
      BY <1>a, <1>t, <1>10 DEF StopSession, LocksOK
    <3>4. at'[t] \notin JoiningImage
      BY <1>t, <1>10 DEF StopSession, JoiningImage
    <3>5. running' = FALSE /\ UNCHANGED <<joinable, unjoined, loop, overlapped>>
      BY <1>10 DEF StopSession
    <3> QED
      BY <1>a, <3>1, <3>2, <3>3, <3>4, <3>5 DEF SessionInv, Starting, Joining
  <2>7. CloseLeavesNothing'
    BY <1>a, <1>t, <1>10
    DEF StopSession, CloseLeavesNothing
  <2>8. AbortHasCause'
    BY <1>a, <1>t, <1>10
    DEF StopSession, AbortHasCause
  <2>9. (JvmTypes /\ CallbackInv)'
    BY <1>a, <1>t, <1>10
    DEF StopSession, JvmTypes, CallbackInv
  <2> QED
    BY <2>1, <2>2, <2>3, <2>4, <2>5, <2>6, <2>7, <2>8, <2>9 DEF JavaInv, JavaSide,
        WorkerSide
<1>11. CASE Join(t)
  <2> DEFINE w == JoinedWorker(at[t])
  <2>a. at[t] \in Joining /\ w \in Workers /\ lifecycle = t /\ context = "alive"
    BY <1>a, <1>11 DEF Join, JoinedWorker, LocksOK
  <2>1. CASE joinable[w] /\ w = t /\ Abort
    <3>1. Cause
      BY <2>a, <2>1 DEF Cause
    <3> QED
      BY <2>1, <3>1, AbortKeeps
  <2>2. CASE ~(joinable[w] /\ w = t /\ Abort)
    <3>a. /\ JoinReturns(t)
          /\ joinable' \in [Workers -> BOOLEAN] /\ loop' \in [Workers -> LoopPlaces]
          /\ \A v \in Workers : v # w => joinable'[v] = joinable[v] /\ loop'[v] = loop[v]
          /\ ~joinable'[w] /\ loop'[w] = "none" /\ loop[w] \in {"none", "done"}
          /\ UNCHANGED <<open, begun, context, globalRef, sendLock, running, news,
                         callbackLock, jvmVars, process>>
      <4>1. "none" \in LoopPlaces /\ JoinReturns(t)
        BY <1>11, <2>2 DEF Join, LoopPlaces
      <4> HIDE DEF JoinReturns
      <4>2. CASE ~joinable[w]
        BY <1>a, <1>t, <1>11, <2>a, <4>1, <4>2 DEF Join, SessionInv
      <4>3. CASE joinable[w]
        <5>1. /\ loop[w] = "done" /\ joinable' = [joinable EXCEPT ![w] = FALSE]
              /\ loop' = [loop EXCEPT ![w] = "none"]
              /\ UNCHANGED <<open, begun, context, globalRef, sendLock, running, news,
                             callbackLock, jvmVars, process>>
          BY <1>11, <2>2, <4>3 DEF Join
        <5> HIDE DEF w
        <5> QED
          BY <1>t, <2>a, <4>1, <5>1
      <4> QED
        BY <4>2, <4>3
    <3>b. /\ at[t] \in JoiningControl => w = "control"
          /\ at[t] \in JoiningImage => w = "image"
      BY <2>a DEF JoinedWorker, JoiningControl, JoiningImage
    <3> HIDE DEF w
    <3>1. LocksOK'
      BY <1>a, <1>t, <2>a, <3>a
      DEF JoinReturns, AfterJoin, LocksOK, CallInv, Stopping, Dialing, Closing,
          InCallback, InClient, Starting, Joining, JoiningControl, JoiningImage
    <3>2. TypeOK'
      BY <1>a, <1>t, <2>a, <3>a, <3>1
      DEF JoinReturns, AfterJoin, TypeOK, Places, Methods, InClient, Starting, Joining,
          JoiningControl, JoiningImage
    <3>3. CallInv'
      BY <1>a, <1>t, <2>a, <3>a
      DEF JoinReturns, AfterJoin, CallInv, Stopping, Closing, Dialing, InClient,
          Starting, Joining, JoiningControl, JoiningImage
    <3>4. HandleInv'
      BY <1>a, <1>t, <2>a, <3>a
      DEF JoinReturns, HandleInv
    <3>5. OverlapInv'
      BY <1>a, <1>t, <2>a, <3>a
      DEF JoinReturns, AfterJoin, OverlapInv, Conflict, LateCallsAreRefused
    <3>6. SessionInv'
      BY <1>a, <1>t, <2>a, <3>a, <3>b
      DEF JoinReturns, AfterJoin, SessionInv, LocksOK, InClient, Starting, Joining,
          JoiningControl, JoiningImage
    <3>7. CloseLeavesNothing'
      BY <1>a, <1>t, <2>a, <3>a
      DEF CloseLeavesNothing
    <3>8. AbortHasCause'
      BY <1>a, <1>t, <2>a, <3>a
      DEF AbortHasCause
    <3>9. (JvmTypes /\ CallbackInv)'
      BY <1>a, <1>t, <2>a, <3>a
      DEF JvmTypes, CallbackInv, InCallback
    <3> QED
      BY <3>1, <3>2, <3>3, <3>4, <3>5, <3>6, <3>7, <3>8, <3>9 DEF JavaInv, JavaSide,
          WorkerSide
  <2> QED
    BY <2>1, <2>2
<1>12. CASE DestroyContext(t)
  <2>1. CASE \E w \in Workers : joinable[w]
    <3>1. Abort
      BY <1>12, <2>1 DEF DestroyContext
    <3>2. Cause
      BY <1>a, <1>t, <2>1, <1>12 DEF DestroyContext, SessionInv, Cause
    <3> QED
      BY <3>1, <3>2, AbortKeeps
  <2>2. CASE ~\E w \in Workers : joinable[w]
    <3>a. /\ at[t] = "free" /\ context' = "freed" /\ globalRef' = FALSE /\ open' = FALSE
          /\ stateLock' = NoThread /\ overlapped' = overlapped \ {t}
          /\ call' = [call EXCEPT ![t] = "none"] /\ at' = [at EXCEPT ![t] = "out"]
          /\ UNCHANGED <<begun, lifecycle, sendLock, running, joinable, unjoined,
                         workerVars, process>>
      BY <1>12, <2>2 DEF DestroyContext
    <3>b. stateLock = t /\ call[t] = "close"
      BY <1>a, <3>a DEF CallInv, LocksOK, Closing, InClient
    <3>1. LocksOK'
      BY <1>a, <1>t, <3>a, <3>b
      DEF LocksOK, InCallback, InClient, Starting, Joining, JoiningControl, JoiningImage
    <3>2. TypeOK'
      <4>1. at' \in [Threads -> Places] /\ call' \in [Threads -> Methods \cup {"none"}]
        BY <1>t, <3>a DEF Places
      <4>2. overlapped' \subseteq Threads
        BY <1>t, <3>a
      <4>3. {stateLock', lifecycle', sendLock'} \subseteq Threads \cup {NoThread}
        BY <1>a, <3>a DEF TypeOK
      <4>4. /\ callbackLock' \in Workers \cup {NoThread} /\ begun' \in 0..MaxCalls
            /\ \A w \in Workers : news'[w] \in Messages(w) \cup {"error"} /\ refs'[w] \in 0..3
        BY <1>a, <3>a DEF TypeOK
      <4> QED
        BY <1>a, <3>a, <3>1, <4>1, <4>2, <4>3, <4>4 DEF TypeOK
    <3>3. CallInv'
      BY <1>a, <1>t, <3>a, <3>b
      DEF CallInv, Stopping, Closing, Dialing, InClient, Starting, Joining,
          JoiningControl, JoiningImage
    <3>4. HandleInv'
      BY <1>a, <1>t, <3>a, <3>b
      DEF HandleInv
    <3>5. OverlapInv'
      <4>1. ASSUME NEW u \in Threads, at'[u] \in InClient
            PROVE  u \in overlapped' /\ call'[u] \in {"connect", "send"}
        <5>1. u # t /\ at[u] \in InClient /\ call'[u] = call[u]
          BY <1>t, <3>a, <4>1 DEF InClient, Starting, Joining, JoiningControl, JoiningImage
        <5>2. call[u] \in {"connect", "send"}
          BY <1>a, <1>t, <3>b, <5>1 DEF CallInv, LocksOK, Methods, InClient, Starting,
              Joining, JoiningControl, JoiningImage, Stopping, Closing, Dialing
        <5> QED
          BY <1>a, <3>a, <3>b, <5>1, <5>2 DEF OverlapInv, Conflict
      <4>2. ASSUME NEW u \in Threads, NEW v \in Threads, Conflict(call'[u], call'[v])
            PROVE  u \in overlapped'
        BY <1>a, <1>t, <3>a, <4>2 DEF OverlapInv, Conflict
      <4> QED
        BY <3>a, <4>1, <4>2 DEF OverlapInv, LateCallsAreRefused
    <3>6. SessionInv'
      BY <1>a, <1>t, <3>a, <2>2 DEF SessionInv, InClient, Starting, Joining,
          JoiningControl, JoiningImage
    <3>7. CloseLeavesNothing'
      <4>1. \A w \in Workers : loop[w] = "none"
        BY <1>a, <2>2 DEF SessionInv
      <4>2. callbackLock = NoThread
        BY <1>a, <4>1 DEF TypeOK, LocksOK, InCallback
      <4> QED
        BY <2>2, <3>a, <4>1, <4>2 DEF CloseLeavesNothing
    <3>8. AbortHasCause'
      BY <3>a DEF AbortHasCause
    <3>9. (JvmTypes /\ CallbackInv)'
      BY <1>a, <3>a DEF JvmTypes, CallbackInv
    <3> QED
      BY <3>1, <3>2, <3>3, <3>4, <3>5, <3>6, <3>7, <3>8, <3>9 DEF JavaInv, JavaSide,
          WorkerSide
  <2> QED
    BY <2>1, <2>2
<1>13. CASE UseFreed(t)
  <2>a. at[t] \in InClient /\ context = "freed" /\ t \in overlapped /\ call[t] \in {"connect", "send"}
    BY <1>a, <1>13 DEF UseFreed, OverlapInv, LateCallsAreRefused
  <2>1. CASE Abort
    <3>1. Cause
      BY <2>a DEF Cause
    <3> QED
      BY <2>1, <3>1, AbortKeeps
  <2>2. CASE ~Abort
    <3>a. /\ Return(t)
          /\ lifecycle' = IF lifecycle = t THEN NoThread ELSE lifecycle
          /\ sendLock' = IF sendLock = t THEN NoThread ELSE sendLock
          /\ UNCHANGED <<open, stateLock, begun, context, globalRef, running, joinable,
                         unjoined, workerVars, process>>
      BY <1>13, <2>2 DEF UseFreed
    <3>b. \A w \in Workers : ~joinable[w]
      BY <1>a, <2>a DEF CloseLeavesNothing
    <3>1. LocksOK'
      BY <1>a, <1>t, <2>a, <3>a
      DEF LocksOK, InCallback, InClient, Starting, Joining, JoiningControl, JoiningImage
    <3>2. TypeOK'
      BY <1>a, <1>t, <2>a, <3>a, <3>1
      DEF TypeOK, Places
    <3>3. CallInv'
      BY <1>a, <1>t, <2>a, <3>a
      DEF CallInv, Stopping, Closing, Dialing, InClient, Starting, Joining,
          JoiningControl, JoiningImage
    <3>4. HandleInv'
      BY <1>a, <1>t, <2>a, <3>a
      DEF HandleInv
    <3>5. OverlapInv'
      BY <1>a, <1>t, <2>a, <3>a
      DEF OverlapInv, Conflict, LateCallsAreRefused, InClient, Starting, Joining,
          JoiningControl, JoiningImage
    <3>6. SessionInv'
      BY <1>a, <1>t, <2>a, <3>a, <3>b
      DEF SessionInv, InClient, Starting, Joining, JoiningControl, JoiningImage
    <3>7. CloseLeavesNothing'
      BY <1>a, <1>t, <2>a, <3>a
      DEF CloseLeavesNothing
    <3>8. AbortHasCause'
      BY <1>a, <1>t, <2>a, <3>a
      DEF AbortHasCause
    <3>9. (JvmTypes /\ CallbackInv)'
      BY <1>a, <1>t, <2>a, <3>a
      DEF JvmTypes, CallbackInv
    <3> QED
      BY <3>1, <3>2, <3>3, <3>4, <3>5, <3>6, <3>7, <3>8, <3>9 DEF JavaInv, JavaSide,
          WorkerSide
  <2> QED
    BY <2>1, <2>2
<1> QED
  BY <1>1, <1>2, <1>3, <1>4, <1>5, <1>6, <1>7, <1>8, <1>9, <1>10, <1>11, <1>12, <1>13

\* The receive loops and their callbacks.
LEMMA WorkerKeeps ==
    ASSUME JavaInv, NEW w \in Workers, process = "up",
           \/ LoopTest(w) \/ Receive(w) \/ Fail(w) \/ LockCallback(w) \/ Attach(w)
           \/ AttachFails(w) \/ MakeObject(w) \/ MakeFails(w) \/ FillFirstPlane(w)
           \/ FillSecondPlane(w) \/ CallListener(w) \/ ListenerReturns(w) \/ Undo(w)
    PROVE  JavaInv'
<1> USE AppsAssumption, UsageAssumption
    DEF Threads, Workers, javaVars, clientVars, jvmVars, workerVars, GoTo, Return
<1>a. TypeOK /\ LocksOK /\ JvmTypes /\ CallInv /\ HandleInv /\ OverlapInv
      /\ SessionInv /\ CallbackInv /\ CloseLeavesNothing /\ AbortHasCause
  BY DEF JavaInv, JavaSide, WorkerSide, TypeOK
<1>t. Functions
  BY <1>a DEF TypeOK, JvmTypes, Functions
<1> USE DEF Functions
<1>1. CASE LoopTest(w)
  <2>1. loop' \in [Workers -> LoopPlaces]
    BY <1>a, <1>t, <1>1
    DEF LoopTest, LoopPlaces, InCallback, AfterCallback
  <2>2. LocksOK'
    BY <1>a, <1>t, <1>1
    DEF LoopTest, LocksOK, InCallback, AfterCallback
  <2>3. TypeOK'
    BY <1>a, <1>t, <1>1, <2>1, <2>2
    DEF LoopTest, TypeOK, Messages
  <2>4. JvmTypes'
    BY <1>a, <1>t, <1>1
    DEF LoopTest, JvmTypes, Messages, Objects
  <2>5. SessionInv'
    BY <1>a, <1>t, <1>1
    DEF LoopTest, SessionInv, LoopPlaces
  <2>6. CallbackInv'
    BY <1>a, <1>t, <1>1
    DEF LoopTest, CallbackInv, InCallback, AfterCallback
  <2>7. CloseLeavesNothing'
    BY <1>a, <1>t, <1>1
    DEF LoopTest, CloseLeavesNothing
  <2>8. AbortHasCause'
    BY <1>a, <1>t, <1>1
    DEF LoopTest, AbortHasCause
  <2>9. (CallInv /\ HandleInv /\ OverlapInv)'
    BY <1>a, <1>t, <1>1
    DEF LoopTest, CallInv, HandleInv, OverlapInv, LateCallsAreRefused
  <2> QED
    BY <2>1, <2>2, <2>3, <2>4, <2>5, <2>6, <2>7, <2>8, <2>9 DEF JavaInv, JavaSide,
        WorkerSide
<1>2. CASE Receive(w)
  <2>1. loop' \in [Workers -> LoopPlaces]
    BY <1>a, <1>t, <1>2
    DEF Receive, LoopPlaces, InCallback, AfterCallback
  <2>2. LocksOK'
    BY <1>a, <1>t, <1>2
    DEF Receive, LocksOK, InCallback, AfterCallback
  <2>3. TypeOK'
    BY <1>a, <1>t, <1>2, <2>1, <2>2
    DEF Receive, TypeOK, Messages
  <2>4. JvmTypes'
    BY <1>a, <1>t, <1>2
    DEF Receive, JvmTypes, Messages, Objects
  <2>5. SessionInv'
    BY <1>a, <1>t, <1>2
    DEF Receive, SessionInv, LoopPlaces
  <2>6. CallbackInv'
    BY <1>a, <1>t, <1>2
    DEF Receive, CallbackInv, InCallback, AfterCallback
  <2>7. CloseLeavesNothing'
    BY <1>a, <1>t, <1>2
    DEF Receive, CloseLeavesNothing
  <2>8. AbortHasCause'
    BY <1>a, <1>t, <1>2
    DEF Receive, AbortHasCause
  <2>9. (CallInv /\ HandleInv /\ OverlapInv)'
    BY <1>a, <1>t, <1>2
    DEF Receive, CallInv, HandleInv, OverlapInv, LateCallsAreRefused
  <2> QED
    BY <2>1, <2>2, <2>3, <2>4, <2>5, <2>6, <2>7, <2>8, <2>9 DEF JavaInv, JavaSide,
        WorkerSide
<1>3. CASE Fail(w)
  <2>1. loop' \in [Workers -> LoopPlaces]
    BY <1>a, <1>t, <1>3
    DEF Fail, LoopPlaces, InCallback, AfterCallback
  <2>2. LocksOK'
    BY <1>a, <1>t, <1>3
    DEF Fail, LocksOK, InCallback, AfterCallback
  <2>3. TypeOK'
    BY <1>a, <1>t, <1>3, <2>1, <2>2
    DEF Fail, TypeOK, Messages
  <2>4. JvmTypes'
    BY <1>a, <1>t, <1>3
    DEF Fail, JvmTypes, Messages, Objects
  <2>5. SessionInv'
    BY <1>a, <1>t, <1>3
    DEF Fail, SessionInv, LoopPlaces
  <2>6. CallbackInv'
    BY <1>a, <1>t, <1>3
    DEF Fail, CallbackInv, InCallback, AfterCallback
  <2>7. CloseLeavesNothing'
    BY <1>a, <1>t, <1>3
    DEF Fail, CloseLeavesNothing
  <2>8. AbortHasCause'
    BY <1>a, <1>t, <1>3
    DEF Fail, AbortHasCause
  <2>9. (CallInv /\ HandleInv /\ OverlapInv)'
    BY <1>a, <1>t, <1>3
    DEF Fail, CallInv, HandleInv, OverlapInv, LateCallsAreRefused
  <2> QED
    BY <2>1, <2>2, <2>3, <2>4, <2>5, <2>6, <2>7, <2>8, <2>9 DEF JavaInv, JavaSide,
        WorkerSide
<1>4. CASE LockCallback(w)
  <2>1. loop' \in [Workers -> LoopPlaces]
    BY <1>a, <1>t, <1>4
    DEF LockCallback, LoopPlaces, InCallback, AfterCallback
  <2>2. LocksOK'
    BY <1>a, <1>t, <1>4
    DEF LockCallback, LocksOK, InCallback, AfterCallback
  <2>3. TypeOK'
    BY <1>a, <1>t, <1>4, <2>1, <2>2
    DEF LockCallback, TypeOK, Messages
  <2>4. JvmTypes'
    BY <1>a, <1>t, <1>4
    DEF LockCallback, JvmTypes, Messages, Objects
  <2>5. SessionInv'
    BY <1>a, <1>t, <1>4
    DEF LockCallback, SessionInv, LoopPlaces
  <2>6. CallbackInv'
    BY <1>a, <1>t, <1>4
    DEF LockCallback, CallbackInv, InCallback, AfterCallback
  <2>7. CloseLeavesNothing'
    BY <1>a, <1>t, <1>4
    DEF LockCallback, CloseLeavesNothing
  <2>8. AbortHasCause'
    BY <1>a, <1>t, <1>4
    DEF LockCallback, AbortHasCause
  <2>9. (CallInv /\ HandleInv /\ OverlapInv)'
    BY <1>a, <1>t, <1>4
    DEF LockCallback, CallInv, HandleInv, OverlapInv, LateCallsAreRefused
  <2> QED
    BY <2>1, <2>2, <2>3, <2>4, <2>5, <2>6, <2>7, <2>8, <2>9 DEF JavaInv, JavaSide,
        WorkerSide
<1>5. CASE Attach(w)
  <2>1. loop' \in [Workers -> LoopPlaces]
    BY <1>a, <1>t, <1>5
    DEF Attach, LoopPlaces, InCallback, AfterCallback
  <2>2. LocksOK'
    BY <1>a, <1>t, <1>5
    DEF Attach, LocksOK, InCallback, AfterCallback
  <2>3. TypeOK'
    BY <1>a, <1>t, <1>5, <2>1, <2>2
    DEF Attach, TypeOK, Messages
  <2>4. JvmTypes'
    BY <1>a, <1>t, <1>5
    DEF Attach, JvmTypes, Messages, Objects
  <2>5. SessionInv'
    BY <1>a, <1>t, <1>5
    DEF Attach, SessionInv, LoopPlaces
  <2>6. CallbackInv'
    BY <1>a, <1>t, <1>5
    DEF Attach, CallbackInv, InCallback, AfterCallback
  <2>7. CloseLeavesNothing'
    BY <1>a, <1>t, <1>5
    DEF Attach, CloseLeavesNothing
  <2>8. AbortHasCause'
    BY <1>a, <1>t, <1>5
    DEF Attach, AbortHasCause
  <2>9. (CallInv /\ HandleInv /\ OverlapInv)'
    BY <1>a, <1>t, <1>5
    DEF Attach, CallInv, HandleInv, OverlapInv, LateCallsAreRefused
  <2> QED
    BY <2>1, <2>2, <2>3, <2>4, <2>5, <2>6, <2>7, <2>8, <2>9 DEF JavaInv, JavaSide,
        WorkerSide
<1>6. CASE AttachFails(w)
  <2>1. loop' \in [Workers -> LoopPlaces]
    BY <1>a, <1>t, <1>6
    DEF AttachFails, LoopPlaces, InCallback, AfterCallback
  <2>2. LocksOK'
    BY <1>a, <1>t, <1>6
    DEF AttachFails, LocksOK, InCallback, AfterCallback
  <2>3. TypeOK'
    BY <1>a, <1>t, <1>6, <2>1, <2>2
    DEF AttachFails, TypeOK, Messages
  <2>4. JvmTypes'
    BY <1>a, <1>t, <1>6
    DEF AttachFails, JvmTypes, Messages, Objects
  <2>5. SessionInv'
    BY <1>a, <1>t, <1>6
    DEF AttachFails, SessionInv, LoopPlaces
  <2>6. CallbackInv'
    BY <1>a, <1>t, <1>6
    DEF AttachFails, CallbackInv, InCallback, AfterCallback
  <2>7. CloseLeavesNothing'
    BY <1>a, <1>t, <1>6
    DEF AttachFails, CloseLeavesNothing
  <2>8. AbortHasCause'
    BY <1>a, <1>t, <1>6
    DEF AttachFails, AbortHasCause
  <2>9. (CallInv /\ HandleInv /\ OverlapInv)'
    BY <1>a, <1>t, <1>6
    DEF AttachFails, CallInv, HandleInv, OverlapInv, LateCallsAreRefused
  <2> QED
    BY <2>1, <2>2, <2>3, <2>4, <2>5, <2>6, <2>7, <2>8, <2>9 DEF JavaInv, JavaSide,
        WorkerSide
<1>7. CASE MakeObject(w)
  <2>1. loop' \in [Workers -> LoopPlaces]
    BY <1>a, <1>t, <1>7
    DEF MakeObject, LoopPlaces, InCallback, AfterCallback
  <2>2. LocksOK'
    BY <1>a, <1>t, <1>7
    DEF MakeObject, LocksOK, InCallback, AfterCallback
  <2>3. TypeOK'
    <3>1. refs[w] \in 0..3 /\ Objects[news[w]] \in {0, 2, 3} /\ refs[w] < Objects[news[w]]
      BY <1>t, <1>7 DEF MakeObject, Objects
    <3>2. refs[w] + 1 \in 0..3
      BY <3>1
    <3>3. \A v \in Workers : refs'[v] \in 0..3
      BY <1>t, <1>7, <3>2 DEF MakeObject
    <3> QED
      BY <1>a, <1>7, <2>1, <2>2, <3>3 DEF MakeObject, TypeOK
  <2>4. JvmTypes'
    BY <1>a, <1>t, <1>7
    DEF MakeObject, JvmTypes, Messages, Objects
  <2>5. SessionInv'
    BY <1>a, <1>t, <1>7
    DEF MakeObject, SessionInv, LoopPlaces
  <2>6. CallbackInv'
    BY <1>a, <1>t, <1>7
    DEF MakeObject, CallbackInv, InCallback, AfterCallback
  <2>7. CloseLeavesNothing'
    BY <1>a, <1>t, <1>7
    DEF MakeObject, CloseLeavesNothing
  <2>8. AbortHasCause'
    BY <1>a, <1>t, <1>7
    DEF MakeObject, AbortHasCause
  <2>9. (CallInv /\ HandleInv /\ OverlapInv)'
    BY <1>a, <1>t, <1>7
    DEF MakeObject, CallInv, HandleInv, OverlapInv, LateCallsAreRefused
  <2> QED
    BY <2>1, <2>2, <2>3, <2>4, <2>5, <2>6, <2>7, <2>8, <2>9 DEF JavaInv, JavaSide,
        WorkerSide
<1>8. CASE MakeFails(w)
  <2>1. loop' \in [Workers -> LoopPlaces]
    BY <1>a, <1>t, <1>8
    DEF MakeFails, LoopPlaces, InCallback, AfterCallback
  <2>2. LocksOK'
    BY <1>a, <1>t, <1>8
    DEF MakeFails, LocksOK, InCallback, AfterCallback
  <2>3. TypeOK'
    BY <1>a, <1>t, <1>8, <2>1, <2>2
    DEF MakeFails, TypeOK, Messages
  <2>4. JvmTypes'
    BY <1>a, <1>t, <1>8
    DEF MakeFails, JvmTypes, Messages, Objects
  <2>5. SessionInv'
    BY <1>a, <1>t, <1>8
    DEF MakeFails, SessionInv, LoopPlaces
  <2>6. CallbackInv'
    BY <1>a, <1>t, <1>8
    DEF MakeFails, CallbackInv, InCallback, AfterCallback
  <2>7. CloseLeavesNothing'
    BY <1>a, <1>t, <1>8
    DEF MakeFails, CloseLeavesNothing
  <2>8. AbortHasCause'
    BY <1>a, <1>t, <1>8
    DEF MakeFails, AbortHasCause
  <2>9. (CallInv /\ HandleInv /\ OverlapInv)'
    BY <1>a, <1>t, <1>8
    DEF MakeFails, CallInv, HandleInv, OverlapInv, LateCallsAreRefused
  <2> QED
    BY <2>1, <2>2, <2>3, <2>4, <2>5, <2>6, <2>7, <2>8, <2>9 DEF JavaInv, JavaSide,
        WorkerSide
<1>9. CASE FillFirstPlane(w)
  <2>1. loop' \in [Workers -> LoopPlaces]
    BY <1>a, <1>t, <1>9
    DEF FillFirstPlane, LoopPlaces, InCallback, AfterCallback
  <2>2. LocksOK'
    BY <1>a, <1>t, <1>9
    DEF FillFirstPlane, LocksOK, InCallback, AfterCallback
  <2>3. TypeOK'
    BY <1>a, <1>t, <1>9, <2>1, <2>2
    DEF FillFirstPlane, TypeOK, Messages
  <2>4. JvmTypes'
    BY <1>a, <1>t, <1>9
    DEF FillFirstPlane, JvmTypes, Messages, Objects
  <2>5. SessionInv'
    BY <1>a, <1>t, <1>9
    DEF FillFirstPlane, SessionInv, LoopPlaces
  <2>6. CallbackInv'
    BY <1>a, <1>t, <1>9
    DEF FillFirstPlane, CallbackInv, InCallback, AfterCallback
  <2>7. CloseLeavesNothing'
    BY <1>a, <1>t, <1>9
    DEF FillFirstPlane, CloseLeavesNothing
  <2>8. AbortHasCause'
    BY <1>a, <1>t, <1>9
    DEF FillFirstPlane, AbortHasCause
  <2>9. (CallInv /\ HandleInv /\ OverlapInv)'
    BY <1>a, <1>t, <1>9
    DEF FillFirstPlane, CallInv, HandleInv, OverlapInv, LateCallsAreRefused
  <2> QED
    BY <2>1, <2>2, <2>3, <2>4, <2>5, <2>6, <2>7, <2>8, <2>9 DEF JavaInv, JavaSide,
        WorkerSide
<1>10. CASE FillSecondPlane(w)
  <2>1. loop' \in [Workers -> LoopPlaces]
    BY <1>a, <1>t, <1>10
    DEF FillSecondPlane, LoopPlaces, InCallback, AfterCallback
  <2>2. LocksOK'
    BY <1>a, <1>t, <1>10
    DEF FillSecondPlane, LocksOK, InCallback, AfterCallback
  <2>3. TypeOK'
    BY <1>a, <1>t, <1>10, <2>1, <2>2
    DEF FillSecondPlane, TypeOK, Messages
  <2>4. JvmTypes'
    BY <1>a, <1>t, <1>10
    DEF FillSecondPlane, JvmTypes, Messages, Objects
  <2>5. SessionInv'
    BY <1>a, <1>t, <1>10
    DEF FillSecondPlane, SessionInv, LoopPlaces
  <2>6. CallbackInv'
    BY <1>a, <1>t, <1>10
    DEF FillSecondPlane, CallbackInv, InCallback, AfterCallback
  <2>7. CloseLeavesNothing'
    BY <1>a, <1>t, <1>10
    DEF FillSecondPlane, CloseLeavesNothing
  <2>8. AbortHasCause'
    BY <1>a, <1>t, <1>10
    DEF FillSecondPlane, AbortHasCause
  <2>9. (CallInv /\ HandleInv /\ OverlapInv)'
    BY <1>a, <1>t, <1>10
    DEF FillSecondPlane, CallInv, HandleInv, OverlapInv, LateCallsAreRefused
  <2> QED
    BY <2>1, <2>2, <2>3, <2>4, <2>5, <2>6, <2>7, <2>8, <2>9 DEF JavaInv, JavaSide,
        WorkerSide
<1>11. CASE CallListener(w)
  <2>1. loop' \in [Workers -> LoopPlaces]
    BY <1>a, <1>t, <1>11
    DEF CallListener, LoopPlaces, InCallback, AfterCallback
  <2>2. LocksOK'
    BY <1>a, <1>t, <1>11
    DEF CallListener, LocksOK, InCallback, AfterCallback
  <2>3. TypeOK'
    BY <1>a, <1>t, <1>11, <2>1, <2>2
    DEF CallListener, TypeOK, Messages
  <2>4. JvmTypes'
    BY <1>a, <1>t, <1>11
    DEF CallListener, JvmTypes, Messages, Objects
  <2>5. SessionInv'
    BY <1>a, <1>t, <1>11
    DEF CallListener, SessionInv, LoopPlaces
  <2>6. CallbackInv'
    BY <1>a, <1>t, <1>11
    DEF CallListener, CallbackInv, InCallback, AfterCallback
  <2>7. CloseLeavesNothing'
    BY <1>a, <1>t, <1>11
    DEF CallListener, CloseLeavesNothing
  <2>8. AbortHasCause'
    BY <1>a, <1>t, <1>11
    DEF CallListener, AbortHasCause
  <2>9. (CallInv /\ HandleInv /\ OverlapInv)'
    BY <1>a, <1>t, <1>11
    DEF CallListener, CallInv, HandleInv, OverlapInv, LateCallsAreRefused
  <2> QED
    BY <2>1, <2>2, <2>3, <2>4, <2>5, <2>6, <2>7, <2>8, <2>9 DEF JavaInv, JavaSide,
        WorkerSide
<1>12. CASE ListenerReturns(w)
  <2>1. loop' \in [Workers -> LoopPlaces]
    BY <1>a, <1>t, <1>12
    DEF ListenerReturns, LoopPlaces, InCallback, AfterCallback
  <2>2. LocksOK'
    BY <1>a, <1>t, <1>12
    DEF ListenerReturns, LocksOK, InCallback, AfterCallback
  <2>3. TypeOK'
    BY <1>a, <1>t, <1>12, <2>1, <2>2
    DEF ListenerReturns, TypeOK, Messages
  <2>4. JvmTypes'
    BY <1>a, <1>t, <1>12
    DEF ListenerReturns, JvmTypes, Messages, Objects
  <2>5. SessionInv'
    BY <1>a, <1>t, <1>12
    DEF ListenerReturns, SessionInv, LoopPlaces
  <2>6. CallbackInv'
    BY <1>a, <1>t, <1>12
    DEF ListenerReturns, CallbackInv, InCallback, AfterCallback
  <2>7. CloseLeavesNothing'
    BY <1>a, <1>t, <1>12
    DEF ListenerReturns, CloseLeavesNothing
  <2>8. AbortHasCause'
    BY <1>a, <1>t, <1>12
    DEF ListenerReturns, AbortHasCause
  <2>9. (CallInv /\ HandleInv /\ OverlapInv)'
    BY <1>a, <1>t, <1>12
    DEF ListenerReturns, CallInv, HandleInv, OverlapInv, LateCallsAreRefused
  <2> QED
    BY <2>1, <2>2, <2>3, <2>4, <2>5, <2>6, <2>7, <2>8, <2>9 DEF JavaInv, JavaSide,
        WorkerSide
<1>13. CASE Undo(w)
  <2>1. loop' \in [Workers -> LoopPlaces]
    BY <1>a, <1>t, <1>13
    DEF Undo, LoopPlaces, InCallback, AfterCallback
  <2>2. LocksOK'
    BY <1>a, <1>t, <1>13
    DEF Undo, LocksOK, InCallback, AfterCallback
  <2>3. TypeOK'
    BY <1>a, <1>t, <1>13, <2>1, <2>2
    DEF Undo, TypeOK, Messages
  <2>4. JvmTypes'
    BY <1>a, <1>t, <1>13
    DEF Undo, JvmTypes, Messages, Objects
  <2>5. SessionInv'
    BY <1>a, <1>t, <1>13
    DEF Undo, SessionInv, LoopPlaces
  <2>6. CallbackInv'
    BY <1>a, <1>t, <1>13
    DEF Undo, CallbackInv, InCallback, AfterCallback
  <2>7. CloseLeavesNothing'
    BY <1>a, <1>t, <1>13
    DEF Undo, CloseLeavesNothing
  <2>8. AbortHasCause'
    BY <1>a, <1>t, <1>13
    DEF Undo, AbortHasCause
  <2>9. (CallInv /\ HandleInv /\ OverlapInv)'
    BY <1>a, <1>t, <1>13
    DEF Undo, CallInv, HandleInv, OverlapInv, LateCallsAreRefused
  <2> QED
    BY <2>1, <2>2, <2>3, <2>4, <2>5, <2>6, <2>7, <2>8, <2>9 DEF JavaInv, JavaSide,
        WorkerSide
<1> QED
  BY <1>1, <1>2, <1>3, <1>4, <1>5, <1>6, <1>7, <1>8, <1>9, <1>10, <1>11, <1>12, <1>13

LEMMA JavaNext == JavaInv /\ [Next]_vars => JavaInv'
<1> SUFFICES ASSUME JavaInv, [Next]_vars PROVE JavaInv'
  OBVIOUS
<1>1. CASE UNCHANGED vars
  <2> USE <1>1 DEF vars, javaVars, clientVars, jvmVars, workerVars
  <2>1. TypeOK' /\ JvmTypes'
    BY DEF JavaInv, TypeOK, LocksOK, JvmTypes
  <2>2. JavaSide'
    BY DEF JavaInv, JavaSide, CallInv, HandleInv, OverlapInv, LateCallsAreRefused
  <2>3. WorkerSide'
    BY DEF JavaInv, WorkerSide, SessionInv, CallbackInv, CloseLeavesNothing, AbortHasCause
  <2> QED
    BY <2>1, <2>2, <2>3 DEF JavaInv
<1>2. CASE \E t \in Threads : CallStep(t) \/ PeerReads(t)
  BY <1>2, CallKeeps DEF CallStep, PeerReads
<1>3. CASE \E w \in Workers : WorkerStep(w) \/ PeerStep(w)
  BY <1>3, WorkerKeeps DEF WorkerStep, PeerStep
<1> QED
  BY <1>1, <1>2, <1>3, CreateKeeps, BeginKeeps DEF Next

LEMMA JavaInvariant == Spec => []JavaInv
  BY JavaInit, JavaNext, PTL DEF Spec

\* Every variable keeps its type, and every lock is held exactly where its
\* synchronized block or lock_guard has it.
THEOREM JavaTypeCorrect == Spec => []TypeOK
<1>1. JavaInv => TypeOK
  BY DEF JavaInv
<1> QED
  BY <1>1, JavaInvariant, PTL

\* Late calls are refused: isClosed(), disconnect() and a further close() never get
\* at a freed NativeContext, nor does any connect() or sendXxx() but one that a
\* close() has overlapped.
THEOREM LateCallsRefused == Spec => []LateCallsAreRefused
<1>1. JavaInv => LateCallsAreRefused
  BY DEF JavaInv, JavaSide, OverlapInv
<1> QED
  BY <1>1, JavaInvariant, PTL

\* close() outlives everything it frees: workers, listener reference and locks.
THEOREM CloseIsClean == Spec => []CloseLeavesNothing
<1>1. JavaInv => CloseLeavesNothing
  BY DEF JavaInv, WorkerSide
<1> QED
  BY <1>1, JavaInvariant, PTL

\* Outside callback_mutex_ a worker is detached and holds no local reference, and
\* it asks nothing of the JVM while an exception is pending, but to fill the second
\* plane of an HDR frame, whatever the JVM refused and the listener threw.
THEOREM CallbacksLeaveNothing == Spec => []CallbacksAreClean
<1>1. JavaInv => CallbacksAreClean
  BY DEF JavaInv, TypeOK, LocksOK, WorkerSide, CallbackInv, CallbacksAreClean, InCallback
<1> QED
  BY <1>1, JavaInvariant, PTL

\* The process is ended by one of three misuses and by no other order of calls.
THEOREM AbortIsCaused == Spec => []AbortHasCause
<1>1. JavaInv => AbortHasCause
  BY DEF JavaInv, WorkerSide
<1> QED
  BY <1>1, JavaInvariant, PTL

-----------------------------------------------------------------------------
\* The abstract state of Session, written out.
Live == running \/ \E w \in Workers : joinable[w]
Calling == {w \in Workers : Telling(w) /\ news[w] # "error"}
Owed == {w \in Workers : Telling(w) /\ news[w] = "error"}
Aborted == process = "aborted"

TellingPlaces == {"locking"} \cup InCallback

\* What every step sees of the session: a worker with something to tell is in its
\* thread.
LEMMA TellersJoinable ==
    ASSUME JavaInv
    PROVE  /\ Functions
           /\ \A w \in Workers : joinable[w] \/ loop[w] = "none"
           /\ \A w \in Workers : Telling(w) <=> loop[w] \in TellingPlaces
           /\ \A t \in Threads : at[t] \in {"dialing"} \cup Joining => ~running
           /\ SessionInv
<1>1. Functions
  BY DEF JavaInv, TypeOK, JvmTypes, Functions
<1>2. \A w \in Workers : Telling(w) <=> loop[w] \in TellingPlaces
  BY DEF Telling, TellingPlaces
<1> QED
  BY <1>1, <1>2 DEF JavaInv, WorkerSide, SessionInv

\* A step that leaves what Session speaks of alone is a stutter of it.
LEMMA SessionStutters ==
    ASSUME Live' <=> Live, Calling' = Calling, Owed' = Owed, running' = running,
           Aborted' <=> Aborted
    PROVE  UNCHANGED Sess!vars
<1>1. (Live' = Live) /\ (Aborted' = Aborted)
  BY DEF Live, Aborted
<1> QED
  BY <1>1 DEF Sess!vars, Live, Calling, Owed, Aborted

\* So is a step in which every worker keeps what it tells, or tells nothing before
\* and after it, and running_ and the threads to join stay as they are.
LEMMA SessionRests ==
    ASSUME \A w \in Workers : loop'[w] \in TellingPlaces <=> loop[w] \in TellingPlaces,
           \A w \in Workers : loop[w] \in TellingPlaces => news'[w] = news[w],
           UNCHANGED <<running, joinable>>,
           Aborted' <=> Aborted
    PROVE  UNCHANGED Sess!vars
<1>1. Calling' = Calling /\ Owed' = Owed
  BY DEF Calling, Owed, Telling, TellingPlaces
<1>2. Live' <=> Live
  BY DEF Live
<1> QED
  BY <1>1, <1>2, SessionStutters

\* std::terminate, wherever the runtime meets it.
LEMMA AbortDies ==
    ASSUME process = "up", Abort
    PROVE  Sess!Next
<1>1. Calling' = Calling /\ Owed' = Owed /\ Live' = Live /\ running' = running
  BY DEF Abort, clientVars, workerVars, Calling, Owed, Live, Telling
<1>2. ~Aborted /\ (Aborted' = TRUE)
  BY DEF Abort, Aborted
<1>3. Sess!Die
  BY <1>1, <1>2 DEF Sess!Die, Calling, Owed, Live, Aborted
<1> QED
  BY <1>2, <1>3 DEF Sess!Next, Aborted

\* A call that does not start, stop or join anything is no business of Session.
LEMMA CallRests ==
    ASSUME UNCHANGED <<running, joinable, loop, news, process>>
    PROVE  UNCHANGED Sess!vars
  BY SessionRests DEF Aborted

\* A worker's step inside its callback, or between two of them, changes nothing
\* but that worker's place.
LEMMA PlaceRests ==
    ASSUME JavaInv, NEW w \in Workers, NEW place,
           loop' = [loop EXCEPT ![w] = place],
           loop[w] \in TellingPlaces <=> place \in TellingPlaces,
           UNCHANGED <<running, joinable, news, process>>
    PROVE  UNCHANGED Sess!vars
<1>1. \A v \in Workers : loop'[v] \in TellingPlaces <=> loop[v] \in TellingPlaces
  BY TellersJoinable DEF Functions
<1> QED
  BY <1>1, SessionRests DEF Aborted

\* running_ becomes true: a session starts.
LEMMA ConnectStarts ==
    ASSUME JavaInv, process = "up", NEW t \in Threads, StartRunning(t)
    PROVE  Sess!Next
<1>1. running' = TRUE /\ UNCHANGED <<joinable, loop, news, process>>
  BY DEF StartRunning, workerVars
<1>2. running = FALSE
  BY TellersJoinable DEF StartRunning, Functions
<1>3. Calling' = Calling /\ Owed' = Owed
  BY <1>1 DEF Calling, Owed, Telling
<1>4. (Live' = TRUE) /\ (Aborted' = Aborted) /\ ~Aborted
  BY <1>1 DEF Live, Aborted
<1>5. Sess!Start
  BY <1>1, <1>2, <1>3, <1>4 DEF Sess!Start, Live, Calling, Owed, Aborted
<1> QED
  BY <1>4, <1>5 DEF Sess!Next, Aborted

\* A thread is started for a session that is live: it is news to Session only if
\* it ends the process.
LEMMA WorkerStarts ==
    ASSUME JavaInv, process = "up", NEW t \in Threads, StartWorker(t)
    PROVE  Sess!Next \/ UNCHANGED Sess!vars
<1> DEFINE w == StartedWorker(at[t])
<1>a. w \in Workers /\ at[t] \in Starting
  BY DEF StartWorker, StartedWorker, Workers
<1>1. CASE joinable[w] /\ Abort
  BY <1>1, AbortDies
<1>2. CASE ~joinable[w]
  <2>1. /\ joinable' = [joinable EXCEPT ![w] = TRUE] /\ loop' = [loop EXCEPT ![w] = "top"]
        /\ UNCHANGED <<running, news, process>>
    BY <1>2 DEF StartWorker
  <2>2. at[t] = "start_control" => w = "control"
    BY DEF StartedWorker
  <2>3. at[t] = "start_image" => w = "image"
    BY DEF StartedWorker
  <2> HIDE DEF w
  <2>4. loop[w] = "none" /\ \A v \in Workers \ {w} : loop'[v] = loop[v] /\ joinable'[v] = joinable[v]
    BY <1>a, <1>2, <2>1, TellersJoinable DEF Functions
  <2>5. loop'[w] = "top" /\ joinable'[w]
    BY <1>a, <2>1, TellersJoinable DEF Functions
  <2>6. Calling' = Calling /\ Owed' = Owed
    BY <2>1, <2>4, <2>5 DEF Calling, Owed, Telling, InCallback
  <2>7. Live /\ Live'
    <3>1. CASE at[t] = "start_image"
      BY <1>a, <2>1, <2>5, <3>1, TellersJoinable DEF SessionInv, Live, Workers
    <3>2. CASE at[t] = "start_control"
      BY <1>a, <2>1, <2>5, <3>2, TellersJoinable DEF SessionInv, Live, Workers
    <3> QED
      BY <1>a, <3>1, <3>2 DEF Starting
  <2> QED
    BY <2>1, <2>6, <2>7, SessionStutters DEF Aborted
<1> QED
  BY <1>1, <1>2 DEF StartWorker

\* Disconnect, or a Connect that fails, ends a session that runs, and leaves one
\* that has ended alone.
LEMMA StopStops ==
    ASSUME JavaInv, process = "up", NEW t \in Threads, StopSession(t) \/ StartFails(t)
    PROVE  Sess!Next \/ UNCHANGED Sess!vars
<1>1. running' = FALSE /\ UNCHANGED <<joinable, loop, news, process>>
  BY DEF StopSession, StartFails, workerVars
<1>2. CASE ~running
  BY <1>1, <1>2, CallRests, TellersJoinable DEF Functions
<1>3. CASE running
  <2>1. Calling' = Calling /\ Owed' = Owed
    BY <1>1 DEF Calling, Owed, Telling
  <2>2. (Aborted' = Aborted) /\ ~Aborted
    BY <1>1 DEF Aborted
  <2>3. CASE \E w \in Workers : joinable[w]
    <3>1. Live' = Live
      BY <1>1, <1>3, <2>3, TellersJoinable DEF Live
    <3>2. Sess!Stop
      BY <1>1, <1>3, <2>1, <2>2, <3>1 DEF Sess!Stop, Live, Calling, Owed, Aborted
    <3> QED
      BY <2>2, <3>2 DEF Sess!Next, Aborted
  <2>4. CASE ~ \E w \in Workers : joinable[w]
    <3>1. Live' = FALSE
      BY <1>1, <2>4 DEF Live
    <3>2. Calling = {} /\ Owed = {}
      BY <2>4, TellersJoinable DEF Calling, Owed, TellingPlaces, InCallback
    <3>3. Sess!Stop
      BY <1>1, <1>3, <2>1, <2>2, <3>1, <3>2 DEF Sess!Stop, Sess!Quiet, Live, Calling, Owed, Aborted
    <3> QED
      BY <2>2, <3>3 DEF Sess!Next, Aborted
  <2> QED
    BY <2>3, <2>4
<1> QED
  BY <1>2, <1>3

\* The last join settles the session; the one before it changes nothing that
\* Session speaks of.
LEMMA JoinSettles ==
    ASSUME JavaInv, process = "up", NEW t \in Threads, Join(t)
    PROVE  Sess!Next \/ UNCHANGED Sess!vars
<1> DEFINE w == JoinedWorker(at[t])
<1>a. w \in Workers
  BY DEF JoinedWorker, Workers
<1>b. at[t] \in Joining
  BY DEF Join
<1>c. ~running
  BY <1>b, TellersJoinable
<1>d. \/ UNCHANGED <<running, joinable, loop, news, process>>
      \/ Abort
      \/ /\ joinable[w] /\ loop[w] = "done"
         /\ joinable' = [joinable EXCEPT ![w] = FALSE]
         /\ loop' = [loop EXCEPT ![w] = "none"]
         /\ UNCHANGED <<running, news, process>>
  BY DEF Join, workerVars
<1> HIDE DEF w
<1>1. CASE UNCHANGED <<running, joinable, loop, news, process>>
  BY <1>1, CallRests
<1>2. CASE Abort
  BY <1>2, AbortDies
<1>3. CASE /\ joinable[w] /\ loop[w] = "done"
           /\ joinable' = [joinable EXCEPT ![w] = FALSE]
           /\ loop' = [loop EXCEPT ![w] = "none"]
           /\ UNCHANGED <<running, news, process>>
  <2>1. /\ \A v \in Workers : joinable'[v] <=> joinable[v] /\ v # w
        /\ \A v \in Workers \ {w} : loop'[v] = loop[v]
        /\ loop'[w] = "none"
    BY <1>a, <1>3, TellersJoinable DEF Functions
  <2>2. Calling' = Calling /\ Owed' = Owed
    BY <1>a, <1>3, <2>1 DEF Calling, Owed, Telling, InCallback
  <2>3. ~Aborted /\ (Aborted' = Aborted)
    BY <1>3 DEF Aborted
  <2>4. CASE \E v \in Workers \ {w} : joinable[v]
    <3>1. Live' <=> Live
      BY <1>a, <1>3, <2>1, <2>4 DEF Live
    <3> QED
      BY <1>3, <2>2, <2>3, <3>1, SessionStutters
  <2>5. CASE \A v \in Workers \ {w} : ~joinable[v]
    <3>1. Calling = {} /\ Owed = {}
      <4>1. \A v \in Workers : loop[v] \in {"none", "done"}
        BY <1>3, <2>5, TellersJoinable
      <4> QED
        BY <4>1 DEF Calling, Owed, Telling, InCallback
    <3>2. Live /\ (Live' = FALSE)
      BY <1>a, <1>c, <1>3, <2>1, <2>5 DEF Live
    <3>3. Sess!Settle
      BY <1>c, <1>3, <2>2, <2>3, <3>1, <3>2
         DEF Sess!Settle, Sess!Quiet, Live, Calling, Owed, Aborted
    <3> QED
      BY <2>3, <3>3 DEF Sess!Next, Aborted
  <2> QED
    BY <2>4, <2>5
<1> QED
  BY <1>d, <1>1, <1>2, <1>3

\* A message is told, or a failure becomes a report that is owed.
LEMMA NewsArrives ==
    ASSUME JavaInv, process = "up", NEW w \in Workers, Receive(w) \/ Fail(w)
    PROVE  Sess!Next \/ UNCHANGED Sess!vars
<1>a. loop[w] = "recv" /\ joinable[w] /\ w \notin Calling \cup Owed
  BY TellersJoinable DEF Receive, Fail, Calling, Owed, Telling, InCallback
<1>b. ~Aborted
  BY DEF Aborted
<1>1. CASE Receive(w)
  <2>1. /\ \A v \in Workers \ {w} : loop'[v] = loop[v] /\ news'[v] = news[v]
        /\ loop'[w] = "locking" /\ news'[w] # "error"
        /\ UNCHANGED <<running, joinable, process>>
    BY <1>1, TellersJoinable DEF Receive, Functions, Messages, Workers, clientVars
  <2>2. Calling' = Calling \cup {w} /\ Owed' = Owed
    BY <1>a, <2>1 DEF Calling, Owed, Telling
  <2>3. Live /\ (Live' = Live) /\ (Aborted' = Aborted)
    BY <1>a, <2>1 DEF Live, Aborted
  <2>4. Sess!Call(w)
    BY <1>a, <2>1, <2>2, <2>3 DEF Sess!Call, Live, Calling, Owed, Aborted
  <2> QED
    BY <1>b, <2>4 DEF Sess!Next, Aborted
<1>2. CASE Fail(w) /\ running
  <2>1. /\ \A v \in Workers \ {w} : loop'[v] = loop[v] /\ news'[v] = news[v]
        /\ loop'[w] = "locking" /\ news'[w] = "error"
        /\ UNCHANGED <<joinable, process>> /\ running' = FALSE
    BY <1>2, TellersJoinable DEF Fail, Functions
  <2>2. Calling' = Calling /\ Owed' = Owed \cup {w}
    BY <1>a, <2>1 DEF Calling, Owed, Telling
  <2>3. (Live' = Live) /\ (Aborted' = Aborted)
    BY <1>a, <1>2, <2>1 DEF Live, Aborted
  <2>4. Sess!Fail(w)
    BY <1>a, <1>2, <2>1, <2>2, <2>3 DEF Sess!Fail, Live, Calling, Owed, Aborted
  <2> QED
    BY <1>b, <2>4 DEF Sess!Next, Aborted
<1>3. CASE Fail(w) /\ ~running
  <2>1. /\ \A v \in Workers \ {w} : loop'[v] = loop[v] /\ news'[v] = news[v]
        /\ loop'[w] = "done"
        /\ UNCHANGED <<running, joinable, process>>
    BY <1>3, TellersJoinable DEF Fail, Functions
  <2>2. \A v \in Workers : loop'[v] \in TellingPlaces <=> loop[v] \in TellingPlaces
    BY <1>a, <2>1 DEF TellingPlaces, InCallback
  <2>3. \A v \in Workers : loop[v] \in TellingPlaces => news'[v] = news[v]
    BY <1>a, <2>1 DEF TellingPlaces, InCallback
  <2> QED
    BY <2>1, <2>2, <2>3, SessionRests DEF Aborted
<1> QED
  BY <1>1, <1>2, <1>3

\* The callback is over, with the listener told or not.
LEMMA NewsIsTold ==
    ASSUME JavaInv, process = "up", NEW w \in Workers, AttachFails(w) \/ Undo(w)
    PROVE  Sess!Next
<1>1. /\ loop[w] \in TellingPlaces
      /\ \A v \in Workers \ {w} : loop'[v] = loop[v]
      /\ loop'[w] \in {"done", "top"}
      /\ UNCHANGED <<running, joinable, news, process>>
  BY TellersJoinable
     DEF AttachFails, Undo, Functions, TellingPlaces, InCallback, AfterCallback, clientVars
<1>2. (Live' = Live) /\ (Aborted' = Aborted) /\ ~Aborted
  BY <1>1 DEF Live, Aborted
<1>3. CASE news[w] = "error"
  <2>1. w \in Owed /\ Owed' = Owed \ {w} /\ Calling' = Calling
    BY <1>1, <1>3, TellersJoinable DEF Calling, Owed, Telling, TellingPlaces, InCallback
  <2>2. Sess!Tell(w)
    BY <1>1, <1>2, <2>1 DEF Sess!Tell, Live, Calling, Owed, Aborted
  <2> QED
    BY <1>2, <2>2 DEF Sess!Next, Aborted
<1>4. CASE news[w] # "error"
  <2>1. w \in Calling /\ Calling' = Calling \ {w} /\ Owed' = Owed
    BY <1>1, <1>4, TellersJoinable DEF Calling, Owed, Telling, TellingPlaces, InCallback
  <2>2. Sess!Return(w)
    BY <1>1, <1>2, <2>1 DEF Sess!Return, Live, Calling, Owed, Aborted
  <2> QED
    BY <1>2, <2>2 DEF Sess!Next, Aborted
<1> QED
  BY <1>3, <1>4

\* Every step of the JNI layer is a step of Session or none of it.
LEMMA SessionStep == JavaInv /\ [Next]_vars => [Sess!Next]_(Sess!vars)
<1> SUFFICES ASSUME JavaInv, [Next]_vars PROVE Sess!Next \/ UNCHANGED Sess!vars
  OBVIOUS
<1>1. CASE Create \/ CreateFails
  BY <1>1, CallRests DEF Create, CreateFails, workerVars
<1>2. ASSUME process = "up", NEW t \in Threads, NEW m \in Methods, Begin(t, m)
      PROVE  Sess!Next \/ UNCHANGED Sess!vars
  BY <1>2, CallRests DEF Begin, clientVars, workerVars
<1>3. ASSUME NEW t \in Threads, CallStep(t) \/ PeerReads(t)
      PROVE  Sess!Next \/ UNCHANGED Sess!vars
  <2>a. process = "up"
    BY <1>3 DEF CallStep, PeerReads
  <2>1. CASE RequireHandle(t) \/ LockState(t) \/ NativeSend(t) \/ SendEnds(t)
    BY <2>1, CallRests
    DEF RequireHandle, LockState, NativeSend, SendEnds, clientVars, workerVars
  <2>2. CASE NativeConnect(t) \/ ConnectFails(t)
    BY <2>2, CallRests DEF NativeConnect, ConnectFails, workerVars
  <2>3. CASE StartRunning(t) \/ StartWorker(t)
    BY <2>a, <2>3, ConnectStarts, WorkerStarts
  <2>4. CASE StopSession(t) \/ StartFails(t)
    BY <2>a, <2>4, StopStops
  <2>5. CASE Join(t)
    BY <2>a, <2>5, JoinSettles
  <2>6. CASE DestroyContext(t)
    <3>1. Abort \/ UNCHANGED <<running, joinable, loop, news, process>>
      BY <2>6 DEF DestroyContext, workerVars
    <3> QED
      BY <2>a, <3>1, AbortDies, CallRests
  <2>7. CASE UseFreed(t)
    <3>1. Abort \/ UNCHANGED <<running, joinable, loop, news, process>>
      BY <2>7 DEF UseFreed, clientVars, workerVars
    <3> QED
      BY <2>a, <3>1, AbortDies, CallRests
  <2> QED
    BY <1>3, <2>1, <2>2, <2>3, <2>4, <2>5, <2>6, <2>7 DEF CallStep, PeerReads
<1>4. ASSUME NEW w \in Workers, WorkerStep(w) \/ PeerStep(w)
      PROVE  Sess!Next \/ UNCHANGED Sess!vars
  <2>a. process = "up"
    BY <1>4 DEF WorkerStep, PeerStep
  <2> USE DEF clientVars, jvmVars, TellingPlaces, InCallback
  <2>1. CASE LoopTest(w)
    <3>1. PICK place \in {"recv", "done"} :
             loop' = [loop EXCEPT ![w] = place] /\ loop[w] = "top"
      BY <2>1 DEF LoopTest
    <3>2. UNCHANGED <<running, joinable, news, process>>
      BY <2>1 DEF LoopTest
    <3> QED
      BY <3>1, <3>2, PlaceRests
  <2>2. CASE LockCallback(w)
    BY <2>2, PlaceRests DEF LockCallback
  <2>3. CASE Attach(w)
    BY <2>3, PlaceRests DEF Attach
  <2>4. CASE MakeObject(w)
    <3>1. PICK place \in {"building", "filling"} :
             loop' = [loop EXCEPT ![w] = place] /\ loop[w] = "building"
      BY <2>4, TellersJoinable DEF MakeObject
    <3>2. UNCHANGED <<running, joinable, news, process>>
      BY <2>4 DEF MakeObject
    <3> QED
      BY <3>1, <3>2, PlaceRests
  <2>5. CASE MakeFails(w)
    BY <2>5, PlaceRests DEF MakeFails
  <2>6. CASE CallListener(w)
    BY <2>6, PlaceRests DEF CallListener
  <2>7. CASE ListenerReturns(w)
    BY <2>7, PlaceRests DEF ListenerReturns
  <2>8. CASE FillFirstPlane(w)
    BY <2>8, PlaceRests DEF FillFirstPlane
  <2>9. CASE FillSecondPlane(w)
    <3>1. PICK place \in {"building", "undoing"} :
             loop' = [loop EXCEPT ![w] = place] /\ loop[w] = "filling_second"
      BY <2>9 DEF FillSecondPlane
    <3>2. UNCHANGED <<running, joinable, news, process>>
      BY <2>9 DEF FillSecondPlane
    <3> QED
      BY <3>1, <3>2, PlaceRests
  <2>10. CASE AttachFails(w) \/ Undo(w)
    BY <2>a, <2>10, NewsIsTold
  <2>11. CASE Receive(w) \/ Fail(w)
    BY <2>a, <2>11, NewsArrives
  <2> QED
    BY <1>4, <2>1, <2>2, <2>3, <2>4, <2>5, <2>6, <2>7, <2>8, <2>9, <2>10, <2>11
    DEF WorkerStep, PeerStep
<1>5. CASE UNCHANGED vars
  BY <1>5, CallRests DEF vars, clientVars, workerVars
<1> QED
  BY <1>1, <1>2, <1>3, <1>4, <1>5 DEF Next

\* The reduced client below the JNI layer is a Session too: whatever the JVM
\* refuses, messages come one at a time from a live worker, a failure owes one
\* report, and the end of a session leaves nothing to tell.
THEOREM JavaSessionRefined == Spec => ImplementsSession
<1>1. Init => Sess!Init
  BY DEF Init, Sess!Init, Telling, InCallback
<1>2. JavaInv /\ [Next]_vars => [Sess!Next]_(Sess!vars)
  BY SessionStep
<1> QED
  BY <1>1, <1>2, JavaInvariant, PTL DEF Spec, ImplementsSession, Sess!Spec
=============================================================================
