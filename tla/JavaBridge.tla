------------------------------ MODULE JavaBridge ------------------------------
(***************************************************************************)
(* The JNI layer: SpectraBridgeNative with its stateLock, the exported      *)
(* functions, the NativeContext a native handle points to, and JniBridge    *)
(* with its callback_mutex_, its global reference to the listener and what  *)
(* each callback asks of the JVM: the thread's attachment, local references *)
(* and exceptions.  Any of these requests may fail.                         *)
(*                                                                          *)
(* Below it the session is reduced to what this layer can see: running_,    *)
(* lifecycle_mutex_, control_send_mutex_ with a send that may block, and    *)
(* two workers that deliver messages, fail, and are joined by Disconnect    *)
(* (module BridgeSession has the rest).  Above it are Java threads that     *)
(* call the methods of one object, and the listener, which runs on the      *)
(* workers and may call the same methods.                                   *)
(***************************************************************************)
EXTENDS Naturals

CONSTANTS
    Apps,           \* Java threads
    NoThread,       \* owner of a free lock
    ListenerCalls,  \* methods the listener calls from its callbacks
    MaxCalls,       \* bound: calls begun
    CloseWakes      \* does closing a socket wake a recv() or send() blocked on
                    \* it?  TRUE for closesocket(), FALSE for POSIX close()

Workers == {"control", "image"}
Threads == Apps \cup Workers
Methods == {"connect", "disconnect", "send", "isClosed", "close"}

ASSUME AppsAssumption ==
    Apps \cap Workers = {} /\ NoThread \notin Threads
ASSUME UsageAssumption ==
    ListenerCalls \subseteq Methods /\ MaxCalls \in Nat /\ CloseWakes \in BOOLEAN

VARIABLES
    open,           \* nativeHandle is not 0
    stateLock,      \* owner of stateLock
    call,           \* the method each thread is in
    at,             \* how far it has come
    context,        \* the NativeContext, with the client and the bridge
    globalRef,      \* listener_global_ref_ is held
    lifecycle,      \* owner of lifecycle_mutex_
    sendLock,       \* owner of control_send_mutex_
    running,        \* running_
    joinable,       \* the worker's std::thread is to be joined
    loop,           \* where each worker is
    news,           \* what a worker is about to tell the listener
    callbackLock,   \* owner of callback_mutex_
    attached,       \* the worker's thread is attached to the JVM
    refs,           \* local references the worker's callback holds
    pending,        \* a Java exception is pending in the worker's thread
    process,        \* "up", or "aborted" by the C++ runtime
    begun,          \* calls begun so far
    overlapped,     \* history: the threads in a call that overlaps or has
                    \* overlapped close(), or in a close() that has
    unjoined,       \* history: a worker was started and no join of both followed
    lost            \* history: the JVM refused what an onTransportError needs

javaVars == <<open, stateLock, call, at, begun, overlapped>>
clientVars == <<context, globalRef, lifecycle, sendLock, running, joinable, unjoined>>
jvmVars == <<attached, refs, pending, lost>>
workerVars == <<loop, news, callbackLock, jvmVars>>
vars == <<javaVars, clientVars, workerVars, process>>

\* The constructor is about to call nativeCreate.
Init ==
    /\ open = FALSE /\ stateLock = NoThread
    /\ call = [t \in Threads |-> "none"]
    /\ at = [t \in Threads |-> "out"]
    /\ context = "none" /\ globalRef = FALSE
    /\ lifecycle = NoThread /\ sendLock = NoThread /\ running = FALSE /\ unjoined = FALSE
    /\ joinable = [w \in Workers |-> FALSE]
    /\ loop = [w \in Workers |-> "none"]
    /\ news = [w \in Workers |-> "error"]
    /\ callbackLock = NoThread
    /\ attached = [w \in Workers |-> FALSE] /\ refs = [w \in Workers |-> 0]
    /\ pending = [w \in Workers |-> FALSE] /\ lost = FALSE
    /\ process = "up" /\ begun = 0 /\ overlapped = {}

GoTo(t, place) == at' = [at EXCEPT ![t] = place] /\ UNCHANGED <<call, overlapped>>
\* The method returns, or throws to its caller.
Return(t) ==
    /\ call' = [call EXCEPT ![t] = "none"]
    /\ at' = [at EXCEPT ![t] = "out"]
    /\ overlapped' = overlapped \ {t}

-----------------------------------------------------------------------------
\* nativeCreate and JniBridge::Create.

Create ==
    /\ context = "none"
    /\ context' = "alive" /\ globalRef' = TRUE /\ open' = TRUE
    /\ UNCHANGED <<stateLock, call, at, begun, overlapped, lifecycle, sendLock, running,
                   joinable, unjoined, workerVars, process>>

\* There is no VM, no reference is to be had, or the listener lacks a method: the
\* half-made bridge is destroyed with its reference and the constructor throws.
CreateFails ==
    /\ context = "none"
    /\ context' = "refused" /\ globalRef' = FALSE
    /\ UNCHANGED <<javaVars, lifecycle, sendLock, running, joinable, unjoined, workerVars,
                   process>>

-----------------------------------------------------------------------------
\* SpectraBridgeNative.

\* connect() and sendXxx() use the context without holding stateLock.
Conflict(m, n) ==
    \/ m = "close" /\ n \in {"connect", "send"}
    \/ n = "close" /\ m \in {"connect", "send"}

\* A Java thread, or the listener inside a callback, calls a method.
Begin(t, m) ==
    /\ context \in {"alive", "freed"}
    /\ call[t] = "none"
    /\ t \in Workers => loop[t] = "java" /\ m \in ListenerCalls
    /\ begun < MaxCalls
    /\ begun' = begun + 1
    /\ LET met == {u \in Threads : Conflict(m, call[u])}
       IN  overlapped' = overlapped \cup met \cup (IF met = {} THEN {} ELSE {t})
    /\ call' = [call EXCEPT ![t] = m]
    /\ at' = [at EXCEPT ![t] = "handle"]
    /\ UNCHANGED <<open, stateLock, clientVars, workerVars, process>>

\* requireHandle() and isClosed() hold stateLock while they read the handle and
\* release it before anything is done with it.  An argument may be refused on
\* either side of the JNI: the call throws without a look at the context.
RequireHandle(t) ==
    /\ call[t] \in {"connect", "send", "isClosed"}
    /\ at[t] = "handle"
    /\ stateLock = NoThread
    /\ \/ Return(t)
       \/ open /\ call[t] # "isClosed" /\ GoTo(t, "native")
    /\ UNCHANGED <<open, stateLock, begun, clientVars, workerVars, process>>

\* disconnect() and close() keep stateLock across the native call.
LockState(t) ==
    /\ call[t] \in {"disconnect", "close"}
    /\ at[t] = "handle"
    /\ stateLock = NoThread
    /\ IF open THEN stateLock' = t /\ GoTo(t, "native")
               ELSE Return(t) /\ UNCHANGED stateLock
    /\ UNCHANGED <<open, begun, clientVars, workerVars, process>>

-----------------------------------------------------------------------------
\* The exported functions.  RequireContext only compares the handle with 0, so
\* these run on whatever the handle points to.

\* SendControlBytes takes control_send_mutex_ and tests running_.
NativeSend(t) ==
    /\ call[t] = "send" /\ at[t] = "native"
    /\ context = "alive"
    /\ sendLock = NoThread
    /\ IF running THEN sendLock' = t /\ GoTo(t, "sending")
                  ELSE Return(t) /\ UNCHANGED sendLock
    /\ UNCHANGED <<open, stateLock, begun, context, globalRef, lifecycle, running, joinable,
                   unjoined, workerVars, process>>

\* SendAll returns true or false; it may block as long as the peer reads nothing.
SendEnds(t) ==
    /\ at[t] = "sending"
    /\ context = "alive"
    /\ sendLock' = NoThread
    /\ Return(t)
    /\ UNCHANGED <<open, stateLock, begun, context, globalRef, lifecycle, running, joinable,
                   unjoined, workerVars, process>>

\* Connect takes lifecycle_mutex_, and fails if the session is running.
NativeConnect(t) ==
    /\ call[t] = "connect" /\ at[t] = "native"
    /\ context = "alive"
    /\ lifecycle = NoThread
    /\ IF running THEN Return(t) /\ UNCHANGED lifecycle
                  ELSE lifecycle' = t /\ GoTo(t, "dialing")
    /\ UNCHANGED <<open, stateLock, begun, context, globalRef, sendLock, running, joinable,
                   unjoined, workerVars, process>>

\* Mutation: a connect() that fails keeps lifecycle_mutex_.
ConnectFailsLocked(t) ==
    /\ at[t] = "dialing"
    /\ context = "alive"
    /\ Return(t)
    /\ UNCHANGED <<open, stateLock, begun, clientVars, workerVars, process>>
ConnectFails(t) ==
    /\ at[t] = "dialing"
    /\ context = "alive"
    /\ lifecycle' = NoThread
    /\ Return(t)
    /\ UNCHANGED <<open, stateLock, begun, context, globalRef, sendLock, running, joinable,
                   unjoined, workerVars, process>>

\* Both channels are connected: running_.store(true).
StartRunning(t) ==
    /\ at[t] = "dialing"
    /\ context = "alive"
    /\ running' = TRUE
    /\ GoTo(t, "start_control")
    /\ UNCHANGED <<open, stateLock, begun, context, globalRef, lifecycle, sendLock, joinable,
                   unjoined, workerVars, process>>

Abort ==
    /\ process' = "aborted"
    /\ UNCHANGED <<javaVars, clientVars, workerVars>>

Starting == {"start_control", "start_image"}
StartedWorker(place) == IF place = "start_control" THEN "control" ELSE "image"

\* The threads of a session that failed may still be joinable: see BridgeSession.
StartWorker(t) ==
    /\ at[t] \in Starting
    /\ context = "alive"
    /\ LET w == StartedWorker(at[t])
       IN  \/ joinable[w] /\ Abort
           \/ /\ ~joinable[w]
              /\ joinable' = [joinable EXCEPT ![w] = TRUE]
              /\ loop' = [loop EXCEPT ![w] = "top"]
              /\ unjoined' = TRUE
              /\ IF w = "control" THEN GoTo(t, "start_image") /\ UNCHANGED lifecycle
                                  ELSE Return(t) /\ lifecycle' = NoThread
              /\ UNCHANGED <<open, stateLock, begun, context, globalRef, sendLock, running,
                             news, callbackLock, jvmVars, process>>

\* A std::thread cannot be made: running_.store(false), and the joins follow.
StartFails(t) ==
    /\ at[t] \in Starting
    /\ context = "alive"
    /\ running' = FALSE
    /\ GoTo(t, "catch_control")
    /\ UNCHANGED <<open, stateLock, begun, context, globalRef, lifecycle, sendLock, joinable,
                   unjoined, workerVars, process>>

\* Mutation: the control worker is not joined.
StopSessionJoinsImage(t) ==
    /\ call[t] \in {"disconnect", "close"}
    /\ at[t] \in {"native", "again"}
    /\ lifecycle = NoThread
    /\ lifecycle' = t
    /\ running' = FALSE
    /\ GoTo(t, IF at[t] = "native" THEN "join_image" ELSE "rejoin_image")
    /\ UNCHANGED <<open, stateLock, begun, context, globalRef, sendLock, joinable, unjoined,
                   workerVars, process>>
\* SpectraBridgeClient::Disconnect begins: for nativeDisconnect, for
\* nativeDestroy, and again in the destructor of the client.
StopSession(t) ==
    /\ call[t] \in {"disconnect", "close"}
    /\ at[t] \in {"native", "again"}
    /\ lifecycle = NoThread
    /\ lifecycle' = t
    /\ running' = FALSE
    /\ GoTo(t, IF at[t] = "native" THEN "join_control" ELSE "rejoin_control")
    /\ UNCHANGED <<open, stateLock, begun, context, globalRef, sendLock, joinable, unjoined,
                   workerVars, process>>

\* The joins of Disconnect, of the second Disconnect, and of a Connect that fails
\* to start its threads.
JoiningControl == {"join_control", "rejoin_control", "catch_control"}
JoiningImage == {"join_image", "rejoin_image", "catch_image"}
Joining == JoiningControl \cup JoiningImage
JoinedWorker(place) == IF place \in JoiningControl THEN "control" ELSE "image"

AfterJoin(t) ==
    CASE at[t] = "join_control"                    -> "join_image"
      [] at[t] = "rejoin_control"                  -> "rejoin_image"
      [] at[t] = "catch_control"                   -> "catch_image"
      [] at[t] = "rejoin_image"                    -> "free"
      [] at[t] = "join_image" /\ call[t] = "close" -> "again"
      [] OTHER                                     -> "out"
\* After the second join lifecycle_mutex_ is released, and the call returns with
\* it, but for close().
JoinReturns(t) ==
    /\ IF AfterJoin(t) = "out"
       THEN Return(t) /\ stateLock' = IF stateLock = t THEN NoThread ELSE stateLock
       ELSE GoTo(t, AfterJoin(t)) /\ UNCHANGED stateLock
    /\ lifecycle' = IF at[t] \in JoiningImage THEN NoThread ELSE lifecycle
    /\ unjoined' = (unjoined /\ at[t] \notin JoiningImage)

\* Mutation: detach() instead of join().
JoinDetaches(t) ==
    /\ at[t] \in Joining
    /\ context = "alive"
    /\ joinable' = [joinable EXCEPT ![JoinedWorker(at[t])] = FALSE]
    /\ JoinReturns(t)
    /\ UNCHANGED <<open, begun, context, globalRef, sendLock, running, workerVars, process>>
\* join() waits for the worker to end; a worker that joins itself makes it throw
\* std::system_error, which no frame between here and the JVM catches.
Join(t) ==
    /\ at[t] \in Joining
    /\ context = "alive"
    /\ LET w == JoinedWorker(at[t])
       IN  \/ /\ ~joinable[w]
              /\ JoinReturns(t)
              /\ UNCHANGED <<open, begun, context, globalRef, sendLock, running, joinable,
                             workerVars, process>>
           \/ /\ joinable[w] /\ w = t
              /\ Abort
           \/ /\ joinable[w] /\ w # t /\ loop[w] = "done"
              /\ joinable' = [joinable EXCEPT ![w] = FALSE]
              /\ loop' = [loop EXCEPT ![w] = "none"]
              /\ JoinReturns(t)
              /\ UNCHANGED <<open, begun, context, globalRef, sendLock, running, news,
                             callbackLock, jvmVars, process>>

\* Mutation: close() leaves nativeHandle as it was.
DestroyContextKeepsHandle(t) ==
    /\ at[t] = "free"
    /\ IF \E w \in Workers : joinable[w]
       THEN Abort
       ELSE /\ context' = "freed" /\ globalRef' = FALSE
            /\ stateLock' = NoThread
            /\ Return(t)
            /\ UNCHANGED <<open, begun, lifecycle, sendLock, running, joinable, unjoined,
                           workerVars, process>>

\* The client is destroyed, then the bridge with its global reference; Java
\* clears nativeHandle and leaves the synchronized block.
DestroyContext(t) ==
    /\ at[t] = "free"
    /\ IF \E w \in Workers : joinable[w]
       THEN Abort
       ELSE /\ context' = "freed" /\ globalRef' = FALSE
            /\ open' = FALSE
            /\ stateLock' = NoThread
            /\ Return(t)
            /\ UNCHANGED <<begun, lifecycle, sendLock, running, joinable, unjoined,
                           workerVars, process>>

\* Where a thread is inside the exported functions or the client.
InClient == {"native", "sending", "dialing", "again", "free"} \cup Starting \cup Joining

\* A call goes on with a context that has been freed: undefined behaviour, which
\* ends the process or reads like a client that is not connected.
UseFreed(t) ==
    /\ at[t] \in InClient
    /\ context = "freed"
    /\ \/ Abort
       \/ /\ Return(t)
          /\ lifecycle' = IF lifecycle = t THEN NoThread ELSE lifecycle
          /\ sendLock' = IF sendLock = t THEN NoThread ELSE sendLock
          /\ UNCHANGED <<open, stateLock, begun, context, globalRef, running, joinable,
                         unjoined, workerVars, process>>

-----------------------------------------------------------------------------
\* The workers and JniBridge.

\* A worker tells of an answer (onStatus, onConfigAck), of a frame (onImageFrame,
\* onHdrImageFrame) or of an error.  How many Java objects the callback makes for
\* it: none, three arrays, which are then filled, or two strings.
Messages(w) == IF w = "control" THEN {"answer"} ELSE {"frame", "hdr"}
Objects == [answer |-> 0, frame |-> 3, hdr |-> 3, error |-> 2]

LoopTest(w) ==
    /\ loop[w] = "top"
    /\ loop' = [loop EXCEPT ![w] = IF running THEN "recv" ELSE "done"]
    /\ UNCHANGED <<news, callbackLock, jvmVars, javaVars, clientVars, process>>

\* A complete, well-formed message has been received.
Receive(w) ==
    /\ loop[w] = "recv"
    /\ \E message \in Messages(w) : news' = [news EXCEPT ![w] = message]
    /\ loop' = [loop EXCEPT ![w] = "locking"]
    /\ UNCHANGED <<callbackLock, jvmVars, javaVars, clientVars, process>>

\* Receiving fails, or a message is malformed: HandleWorkerFailure.
Fail(w) ==
    /\ loop[w] = "recv"
    /\ running' = FALSE
    /\ news' = [news EXCEPT ![w] = "error"]
    /\ loop' = [loop EXCEPT ![w] = IF running THEN "locking" ELSE "done"]
    /\ UNCHANGED <<callbackLock, jvmVars, javaVars, context, globalRef, lifecycle, sendLock,
                   joinable, unjoined, process>>

LockCallback(w) ==
    /\ loop[w] = "locking"
    /\ callbackLock = NoThread
    /\ callbackLock' = w
    /\ loop' = [loop EXCEPT ![w] = "attaching"]
    /\ UNCHANGED <<news, jvmVars, javaVars, clientVars, process>>

AfterCallback(w) == IF news[w] = "error" THEN "done" ELSE "top"

\* AcquireThreadEnv: a worker is never attached before.
Attach(w) ==
    /\ loop[w] = "attaching"
    /\ attached' = [attached EXCEPT ![w] = TRUE]
    /\ loop' = [loop EXCEPT ![w] = "building"]
    /\ UNCHANGED <<news, callbackLock, refs, pending, lost, javaVars, clientVars, process>>

\* Mutation: an early return that leaves callback_mutex_ locked.
AttachFailsLocked(w) ==
    /\ loop[w] = "attaching"
    /\ lost' = (lost \/ news[w] = "error")
    /\ loop' = [loop EXCEPT ![w] = AfterCallback(w)]
    /\ UNCHANGED <<news, callbackLock, attached, refs, pending, javaVars, clientVars, process>>
\* The thread cannot be attached: the listener hears nothing.
AttachFails(w) ==
    /\ loop[w] = "attaching"
    /\ lost' = (lost \/ news[w] = "error")
    /\ callbackLock' = NoThread
    /\ loop' = [loop EXCEPT ![w] = AfterCallback(w)]
    /\ UNCHANGED <<news, attached, refs, pending, javaVars, clientVars, process>>

\* NewShortArray, NewByteArray or NewStringUTF, and the SetXxxArrayRegion that
\* fills it.  The HDR callback makes both planes before it fills them.
MakeObject(w) ==
    /\ loop[w] = "building" /\ refs[w] < Objects[news[w]]
    /\ refs' = [refs EXCEPT ![w] = @ + 1]
    /\ loop' = [loop EXCEPT ![w] = IF news[w] = "hdr" /\ refs[w] = 1 THEN "filling" ELSE @]
    /\ UNCHANGED <<news, callbackLock, attached, pending, lost, javaVars, clientVars, process>>

\* An object cannot be made, or the last array made cannot be filled: there is an
\* exception and the listener hears nothing.
MakeFails(w) ==
    /\ loop[w] = "building"
    /\ refs[w] < Objects[news[w]] \/ news[w] \in {"frame", "hdr"}
    /\ pending' = [pending EXCEPT ![w] = TRUE]
    /\ lost' = (lost \/ news[w] = "error")
    /\ loop' = [loop EXCEPT ![w] = "undoing"]
    /\ UNCHANGED <<news, callbackLock, attached, refs, javaVars, clientVars, process>>

\* The first plane's SetShortArrayRegion, which may throw: nobody asks.
FillFirstPlane(w) ==
    /\ loop[w] = "filling"
    /\ \E throws \in BOOLEAN : pending' = [pending EXCEPT ![w] = throws]
    /\ loop' = [loop EXCEPT ![w] = "filling_second"]
    /\ UNCHANGED <<news, callbackLock, attached, refs, lost, javaVars, clientVars, process>>

\* The second plane's, and the ExceptionCheck for both.
FillSecondPlane(w) ==
    /\ loop[w] = "filling_second"
    /\ \E throws \in BOOLEAN : pending' = [pending EXCEPT ![w] = @ \/ throws]
    /\ loop' = [loop EXCEPT ![w] = IF pending'[w] THEN "undoing" ELSE "building"]
    /\ UNCHANGED <<news, callbackLock, attached, refs, lost, javaVars, clientVars, process>>

CallListener(w) ==
    /\ loop[w] = "building" /\ refs[w] = Objects[news[w]]
    /\ loop' = [loop EXCEPT ![w] = "java"]
    /\ UNCHANGED <<news, callbackLock, jvmVars, javaVars, clientVars, process>>

\* The listener returns or throws.
ListenerReturns(w) ==
    /\ loop[w] = "java"
    /\ call[w] = "none"
    /\ \E throws \in BOOLEAN : pending' = [pending EXCEPT ![w] = throws]
    /\ loop' = [loop EXCEPT ![w] = "undoing"]
    /\ UNCHANGED <<news, callbackLock, attached, refs, lost, javaVars, clientVars, process>>

\* Mutation: when the first object cannot be made, the thread stays attached.
UndoStaysAttached(w) ==
    /\ loop[w] = "undoing"
    /\ pending' = [pending EXCEPT ![w] = FALSE]
    /\ refs' = [refs EXCEPT ![w] = 0]
    /\ attached' = [attached EXCEPT ![w] = pending[w] /\ refs[w] = 0]
    /\ callbackLock' = NoThread
    /\ loop' = [loop EXCEPT ![w] = AfterCallback(w)]
    /\ UNCHANGED <<news, lost, javaVars, clientVars, process>>
\* LogAndClearJavaException, DeleteLocalRef of what was made, ReleaseThreadEnv,
\* and the end of the lock_guard.
Undo(w) ==
    /\ loop[w] = "undoing"
    /\ pending' = [pending EXCEPT ![w] = FALSE]
    /\ refs' = [refs EXCEPT ![w] = 0]
    /\ attached' = [attached EXCEPT ![w] = FALSE]
    /\ callbackLock' = NoThread
    /\ loop' = [loop EXCEPT ![w] = AfterCallback(w)]
    /\ UNCHANGED <<news, lost, javaVars, clientVars, process>>

-----------------------------------------------------------------------------
\* Whoever clears running_ closes the sockets, which ends what blocks on them.
SocketClosed == ~running /\ CloseWakes

\* What a thread inside a call does without the peer's help.
CallStep(t) ==
    /\ process = "up" /\ call[t] # "none"
    /\ \/ RequireHandle(t) \/ LockState(t)
       \/ NativeSend(t)
       \/ SocketClosed /\ SendEnds(t)
       \/ NativeConnect(t) \/ ConnectFails(t)
       \/ StartRunning(t) \/ StartWorker(t) \/ StartFails(t)
       \/ StopSession(t) \/ Join(t) \/ DestroyContext(t)
       \/ UseFreed(t)

\* What a worker does when the peer sends nothing.
WorkerStep(w) ==
    /\ process = "up"
    /\ \/ LoopTest(w)
       \/ SocketClosed /\ Fail(w)
       \/ LockCallback(w) \/ Attach(w) \/ AttachFails(w)
       \/ MakeObject(w) \/ MakeFails(w) \/ FillFirstPlane(w) \/ FillSecondPlane(w)
       \/ CallListener(w) \/ ListenerReturns(w) \/ Undo(w)

\* The peer sends or breaks what a worker receives, and takes or breaks what a
\* call sends.
PeerStep(w) == process = "up" /\ (Receive(w) \/ Fail(w))
PeerReads(t) == process = "up" /\ SendEnds(t)

Next ==
    \/ Create \/ CreateFails
    \/ \E t \in Threads : \/ process = "up" /\ \E m \in Methods : Begin(t, m)
                          \/ CallStep(t) \/ PeerReads(t)
    \/ \E w \in Workers : WorkerStep(w) \/ PeerStep(w)

Spec == Init /\ [][Next]_vars

ThreadStep(t) == CallStep(t) \/ (t \in Workers /\ WorkerStep(t))

\* Threads that can run do, and listeners return.  The peer owes nothing, and no
\* one has to call anything.
Fairness == \A t \in Threads : WF_vars(ThreadStep(t))

FairSpec == Spec /\ Fairness

-----------------------------------------------------------------------------
Places == {"out", "handle"} \cup InClient

\* What callback_mutex_ covers.
InCallback == {"attaching", "building", "filling", "filling_second", "java", "undoing"}
LoopPlaces == {"none", "top", "recv", "locking", "done"} \cup InCallback

\* The scope of stateLock's synchronized blocks and of the three lock_guards.
LocksOK ==
    /\ \A t \in Threads :
          /\ stateLock = t <=> call[t] \in {"disconnect", "close"} /\ at[t] \in InClient
          /\ lifecycle = t <=> at[t] \in {"dialing"} \cup Starting \cup Joining
          /\ sendLock = t <=> at[t] = "sending"
    /\ \A w \in Workers : callbackLock = w <=> loop[w] \in InCallback

\* Every variable has the type of the object it models, and every lock is held
\* exactly where its block or guard has it.
TypeOK ==
    /\ open \in BOOLEAN
    /\ {stateLock, lifecycle, sendLock} \subseteq Threads \cup {NoThread}
    /\ callbackLock \in Workers \cup {NoThread}
    /\ call \in [Threads -> Methods \cup {"none"}]
    /\ at \in [Threads -> Places]
    /\ context \in {"none", "refused", "alive", "freed"} /\ globalRef \in BOOLEAN
    /\ running \in BOOLEAN
    /\ joinable \in [Workers -> BOOLEAN]
    /\ loop \in [Workers -> LoopPlaces]
    /\ \A w \in Workers : news[w] \in Messages(w) \cup {"error"}
    /\ attached \in [Workers -> BOOLEAN] /\ pending \in [Workers -> BOOLEAN]
    /\ \A w \in Workers : refs[w] \in 0..3
    /\ process \in {"up", "aborted"}
    /\ begun \in 0..MaxCalls
    /\ overlapped \subseteq Threads
    /\ unjoined \in BOOLEAN /\ lost \in BOOLEAN
    /\ LocksOK

\* "native handle is null or already destroyed" (JniExports.cpp:54): a call that
\* comes too late is refused, so none is inside native code with a context that
\* close() has freed.
DestroyedContextIsNotUsed ==
    context = "freed" => \A t \in Threads : at[t] \notin InClient

\* What does hold of it: stateLock and the zeroed handle keep isClosed(),
\* disconnect() and further close() calls off a freed context in any order, and
\* any connect() and sendXxx() but those that close() itself has overlapped.
LateCallsAreRefused ==
    context = "freed" =>
        \A t \in Threads : at[t] \in InClient =>
            t \in overlapped /\ call[t] \in {"connect", "send"}

\* close() outlives everything it frees: once the context is gone no worker runs
\* or waits to be joined, so none can call a listener whose global reference is
\* deleted, and neither that reference nor callback_mutex_ is held.
CloseLeavesNothing ==
    context = "freed" /\ process = "up" =>
        /\ ~open /\ ~globalRef
        /\ \A w \in Workers : loop[w] = "none" /\ ~joinable[w]
        /\ callbackLock = NoThread

\* Whatever the JVM refuses and the listener throws, a worker outside a callback
\* is detached and holds no reference, and it asks nothing of the JVM while an
\* exception is pending, but for one call: the HDR callback fills the second
\* plane before it asks whether the first was filled (JniBridge.cpp:334-335).
CallbacksAreClean ==
    \A w \in Workers :
        /\ callbackLock # w => ~attached[w] /\ refs[w] = 0
        /\ pending[w] =>
              \/ loop[w] = "undoing"
              \/ loop[w] = "filling_second" /\ news[w] = "hdr" /\ refs[w] = 2

\* The process is ended by one of three misuses and by no other order of calls:
\* a connect() or sendXxx() that close() has overlapped goes on with the freed
\* context, or leaves close() a thread that nobody joined; the listener calls a
\* method that joins its own worker; or connect() follows a failed session
\* without a disconnect() between.
AbortHasCause ==
    process = "aborted" =>
        \/ \E t \in overlapped : at[t] = "free" \/ context = "freed"
        \/ \E w \in Workers : at[w] \in Joining /\ JoinedWorker(at[w]) = w
        \/ unjoined /\ \E t \in Threads : at[t] = "start_control"

\* The reduced client is the Session that BridgeSession implements too, with a
\* report that lasts until onTransportError has returned or been given up.
Telling(w) == loop[w] \in {"locking"} \cup InCallback
Sess == INSTANCE Session WITH
    up      <- running,
    live    <- running \/ \E w \in Workers : joinable[w],
    calling <- {w \in Workers : Telling(w) /\ news[w] # "error"},
    owed    <- {w \in Workers : Telling(w) /\ news[w] = "error"},
    dead    <- process = "aborted"
ImplementsSession == Sess!Spec

\* What each thread waits for: the locks, and the worker it joins.
WaitsFor(t, u) ==
    /\ t # u
    /\ \/ at[t] = "handle" /\ stateLock = u
       \/ at[t] \in {"native", "again"} /\ call[t] # "send" /\ lifecycle = u
       \/ at[t] \in Joining /\ JoinedWorker(at[t]) = u
       \/ t \in Workers /\ loop[t] = "locking" /\ callbackLock = u

Blocked == {t \in Threads : \E u \in Threads : WaitsFor(t, u)}

\* A join that cannot end: the listener of the worker to be joined waits for a
\* lock that the joining call holds, directly or through another call, or it is
\* a listener that joins and holds callback_mutex_, which the other worker needs.
JoinCycle ==
    \E waiting \in SUBSET Blocked :
        /\ \E t \in waiting : at[t] \in Joining
        /\ \A t \in waiting : \E u \in waiting : WaitsFor(t, u)

\* Where closing a socket wakes what blocks on it: every call of a Java thread
\* returns, a sendXxx() at the latest when the session has ended, unless the
\* process is aborted or a join cannot end.  No other cycle of stateLock,
\* lifecycle_mutex_, control_send_mutex_, callback_mutex_ and join exists.
CallsReturn ==
    \A a \in Apps : call[a] # "none" ~>
        \/ call[a] = "none"
        \/ call[a] = "send" /\ running
        \/ process = "aborted" \/ JoinCycle

\* While the listener makes no calls, the one onTransportError of a session that
\* failed reaches it, also when the other worker is in a callback, unless the JVM
\* refuses what it needs: then nobody is told.
ErrorIsTold ==
    [](\A w \in Workers : call[w] = "none") =>
        \A w \in Workers :
            loop[w] = "locking" /\ news[w] = "error" ~>
                \/ loop[w] = "java" /\ news[w] = "error"
                \/ lost \/ process = "aborted"

\* "Java/JNI threads only send and do not wait for the FPGA" (SpectraBridgeClient.h:45):
\* a sendXxx() call, whichever thread makes it, waits for nothing but its own or
\* another packet to go out.
SendReturns ==
    \A t \in Threads : call[t] = "send" ~>
        \/ call[t] # "send" \/ process = "aborted"
        \/ \E u \in Threads : at[u] = "sending"
=============================================================================
