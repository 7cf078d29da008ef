------------------------------ MODULE ControlLink ------------------------------
(***************************************************************************)
(* The two ends of the control connection, byte by byte: Java threads that  *)
(* send commands (SendControlBytes and SendAll), the control worker that    *)
(* receives the answers (ControlReceiveLoop), and the FPGA's control thread *)
(* (ControlThreadMain of the test server), which takes one command, answers *)
(* it and takes the next.  The listener may send too, from the callbacks of *)
(* both workers, which callback_mutex_ lets in one at a time.               *)
(*                                                                          *)
(* Both directions of the connection hold a bounded number of bytes, so a   *)
(* send() waits when the other end does not read.  A send() may also fail   *)
(* with part of a packet out (bytes_sent <= 0 in SendAll), which ends the   *)
(* call but not the session, and a recv() may fail, which ends it.  Of the  *)
(* FPGA's state only what its answers look like is kept: FpgaServer has the *)
(* rest; and JavaBridge what the JVM may refuse a callback.                 *)
(***************************************************************************)
EXTENDS ControlProtocol

CONSTANTS
    Apps,           \* Java threads that send
    NoThread,       \* owner of a free mutex
    UpCapacity, DownCapacity,
                    \* bytes the connection holds on their way to either end
    ControlBits,    \* the control bits that are sent: of RESET and TRIGGER_ONCE
    CloseWakes,     \* closing a socket ends what waits on it (not so on POSIX)
    MaxSends,       \* bound: sendXxx() calls
    MaxFrames,      \* bound: callbacks of the image worker
    MaxFaults       \* bound: calls that fail while the connection is up

\* The two threads that call the listener.
Worker == "worker"
Image == "image"
Callers == Apps \cup {Worker, Image}

ASSUME LinkAssumption ==
    /\ Apps \cap {Worker, Image} = {} /\ NoThread \notin Callers
    /\ {UpCapacity, DownCapacity} \subseteq Nat \ {0}
    /\ ControlBits \subseteq {Reset, TriggerOnce}
    /\ {MaxSends, MaxFrames, MaxFaults} \subseteq Nat /\ CloseWakes \in BOOLEAN

VARIABLES
    pc,         \* where a caller is in sendXxx(): "idle", "locking", "sending"
    todo,       \* the bytes each caller has still to send
    sendLock,   \* owner of control_send_mutex_
    running,    \* running_; when it is false the client has closed its socket
    callbackLock, \* owner of callback_mutex_
    loop,       \* where the control worker is
    reply,      \* the bytes of an answer that the worker has
    up, down,   \* the bytes on their way to the FPGA and to the client
    fpga,       \* where the FPGA's control thread is
    got,        \* the bytes of a command that it has
    answer,     \* the bytes of an answer that it has still to send
    faults,     \* calls that have failed while the connection was up
    calls,      \* sendXxx() calls so far
    frames,     \* callbacks of the image worker so far
    sent,       \* history: the packets of which something was sent
    cut,        \* history: the first of them that was not sent to its end, or 0
    handled,    \* history: the commands the FPGA took
    answered,   \* history: its answers
    told,       \* history: what the listener was told
    reported,   \* history: OnTransportError was called
    broken      \* history: the worker's recv() failed while the connection was up

clientVars == <<pc, todo, sendLock, calls, sent, cut>>
listenerVars == <<callbackLock, frames>>
workerVars == <<loop, reply, told, reported, broken>>
fpgaVars == <<fpga, got, answer, handled, answered>>
vars == <<clientVars, running, listenerVars, workerVars, up, down, fpgaVars, faults>>

\* Connect has returned and the FPGA has accepted the connection.
Init ==
    /\ pc = [t \in Callers |-> "idle"] /\ todo = [t \in Callers |-> <<>>]
    /\ sendLock = NoThread /\ callbackLock = NoThread /\ running = TRUE
    /\ loop = "recv" /\ reply = <<>> /\ up = <<>> /\ down = <<>>
    /\ fpga = "recv" /\ got = <<>> /\ answer = <<>>
    /\ faults = 0 /\ calls = 0 /\ frames = 0
    /\ sent = <<>> /\ cut = 0 /\ handled = <<>> /\ answered = <<>> /\ told = <<>>
    /\ reported = FALSE /\ broken = FALSE

Smaller(m, n) == IF m <= n THEN m ELSE n
Drop(bytes, n) == SubSeq(bytes, n + 1, Len(bytes))

-----------------------------------------------------------------------------
\* sendXxx(): SendReset, SendTriggerOnce, SendQueryStatus and SendFullConfig.

Packets ==
    {SerializeCommandPacket(bits) : bits \in ControlBits}
        \cup {SerializeQueryStatusPacket, SerializeFullConfigPacket([i \in 1..RegCount |-> 0])}

\* Called by a Java thread, or by the listener from a callback.
SendCall(t) ==
    /\ pc[t] = "idle" /\ calls < MaxSends
    /\ t \in {Worker, Image} => callbackLock = t
    /\ \E packet \in Packets : todo' = [todo EXCEPT ![t] = packet]
    /\ pc' = [pc EXCEPT ![t] = "locking"]
    /\ calls' = calls + 1
    /\ UNCHANGED <<sendLock, sent, cut, running, listenerVars, workerVars, up,
                   down, fpgaVars, faults>>

\* Mutation: control_send_mutex_ is not taken.
SendLocksNothing(t) ==
    /\ pc[t] = "locking"
    /\ IF running
       THEN /\ pc' = [pc EXCEPT ![t] = "sending"]
            /\ sent' = Append(sent, todo[t])
            /\ UNCHANGED <<sendLock, todo>>
       ELSE /\ pc' = [pc EXCEPT ![t] = "idle"]
            /\ todo' = [todo EXCEPT ![t] = <<>>]
            /\ UNCHANGED <<sendLock, sent>>
    /\ UNCHANGED <<cut, calls, running, listenerVars, workerVars, up,
                   down, fpgaVars, faults>>
SendLocks(t) ==
    /\ pc[t] = "locking" /\ sendLock = NoThread
    /\ IF running
       THEN /\ pc' = [pc EXCEPT ![t] = "sending"]
            /\ sendLock' = t
            /\ sent' = Append(sent, todo[t])
            /\ UNCHANGED todo
       ELSE /\ pc' = [pc EXCEPT ![t] = "idle"]
            /\ todo' = [todo EXCEPT ![t] = <<>>]
            /\ UNCHANGED <<sendLock, sent>>
    /\ UNCHANGED <<cut, calls, running, listenerVars, workerVars, up,
                   down, fpgaVars, faults>>

\* What waits on a socket that this end closes goes on where that does not end it.
GoesOn == running \/ ~CloseWakes

\* send() takes some of the bytes, as far as there is room.  An FPGA that has
\* closed takes them and loses them.
SendChunk(t) ==
    /\ pc[t] = "sending" /\ todo[t] # <<>> /\ GoesOn
    /\ \E n \in 1..Len(todo[t]) :
        /\ IF fpga = "closed" THEN UNCHANGED up
           ELSE /\ Len(up) + n <= UpCapacity
                /\ up' = up \o SubSeq(todo[t], 1, n)
        /\ todo' = [todo EXCEPT ![t] = Drop(@, n)]
    /\ UNCHANGED <<pc, sendLock, calls, sent, cut, running, listenerVars, workerVars, down,
                   fpgaVars, faults>>

\* Mutation: a send that failed returns with the mutex.
GivesUpLocked(t) ==
    /\ pc' = [pc EXCEPT ![t] = "idle"]
    /\ todo' = [todo EXCEPT ![t] = <<>>]
    /\ IF todo[t] = sent[Len(sent)]
       THEN sent' = SubSeq(sent, 1, Len(sent) - 1) /\ UNCHANGED cut
       ELSE cut' = (IF cut = 0 THEN Len(sent) ELSE cut) /\ UNCHANGED sent
    /\ UNCHANGED <<sendLock, calls, running, listenerVars, workerVars, up, down, fpgaVars>>
\* SendAll returns false.  What is out stays out.
GivesUp(t) ==
    /\ pc' = [pc EXCEPT ![t] = "idle"]
    /\ todo' = [todo EXCEPT ![t] = <<>>]
    /\ sendLock' = NoThread
    /\ IF todo[t] = sent[Len(sent)]
       THEN sent' = SubSeq(sent, 1, Len(sent) - 1) /\ UNCHANGED cut
       ELSE cut' = (IF cut = 0 THEN Len(sent) ELSE cut) /\ UNCHANGED sent
    /\ UNCHANGED <<calls, running, listenerVars, workerVars, up, down, fpgaVars>>

\* send() fails on a connection that either end has closed, though where a close
\* does not wake it not for certain,
SendFails(t) ==
    /\ pc[t] = "sending" /\ todo[t] # <<>>
    /\ ~running \/ fpga = "closed"
    /\ GivesUp(t)
    /\ UNCHANGED faults

\* or for want of buffers or the like, on one that is up.
SendFaults(t) ==
    /\ pc[t] = "sending" /\ todo[t] # <<>> /\ faults < MaxFaults
    /\ faults' = faults + 1
    /\ GivesUp(t)

SendReturns(t) ==
    /\ pc[t] = "sending" /\ todo[t] = <<>>
    /\ pc' = [pc EXCEPT ![t] = "idle"]
    /\ sendLock' = NoThread
    /\ UNCHANGED <<todo, calls, sent, cut, running, listenerVars, workerVars, up,
                   down, fpgaVars, faults>>

\* Disconnect, or the failure of the image worker.
SessionStops ==
    /\ running /\ running' = FALSE
    /\ UNCHANGED <<clientVars, listenerVars, workerVars, up, down, fpgaVars, faults>>

\* The image worker calls the listener: a frame, or the report of its failure.
ImageCalls ==
    /\ frames < MaxFrames /\ callbackLock = NoThread
    /\ frames' = frames + 1 /\ callbackLock' = Image
    /\ UNCHANGED <<clientVars, running, workerVars, up, down, fpgaVars, faults>>

ImageReturns ==
    /\ callbackLock = Image /\ pc[Image] = "idle"
    /\ callbackLock' = NoThread
    /\ UNCHANGED <<clientVars, running, frames, workerVars, up, down, fpgaVars, faults>>

-----------------------------------------------------------------------------
\* ControlReceiveLoop.

\* RecvAll takes what has arrived, up to what it wants: the type, then the rest.
WorkerReceives ==
    /\ loop = "recv" /\ GoesOn /\ down # <<>>
    /\ Len(reply) < AnswerLength(reply)
    /\ LET n == Smaller(AnswerLength(reply) - Len(reply), Len(down))
       IN  reply' = reply \o SubSeq(down, 1, n) /\ down' = Drop(down, n)
    /\ UNCHANGED <<clientVars, running, listenerVars, loop, told, reported, broken, up,
                   fpgaVars, faults>>

\* OnStatusPacket or OnConfigAckPacket takes callback_mutex_ and calls the listener.
WorkerTells ==
    /\ loop = "recv" /\ Len(reply) = AnswerLength(reply) /\ Len(reply) > 1
    /\ callbackLock = NoThread /\ callbackLock' = Worker
    /\ told' = Append(told, Parse(reply))
    /\ reply' = <<>> /\ loop' = "callback"
    /\ UNCHANGED <<clientVars, running, frames, reported, broken, up, down, fpgaVars, faults>>

\* Mutation: a callback returns with callback_mutex_.
ListenerReturnsLocked ==
    /\ loop = "callback" /\ pc[Worker] = "idle"
    /\ loop' = IF running THEN "recv" ELSE "ended"
    /\ UNCHANGED <<clientVars, running, listenerVars, reply, told, reported, broken, up, down,
                   fpgaVars, faults>>
\* The listener returns, and the loop tests running_: after a report it is false.
ListenerReturns ==
    /\ loop = "callback" /\ pc[Worker] = "idle"
    /\ callbackLock' = NoThread
    /\ loop' = IF running THEN "recv" ELSE "ended"
    /\ UNCHANGED <<clientVars, running, frames, reply, told, reported, broken, up, down,
                   fpgaVars, faults>>

\* HandleWorkerFailure.  Waiting for a type in a session that was stopped is no
\* failure, and in either case only the first to stop it reports.
HandleFailure ==
    /\ loop = "recv"
    /\ reported' = running
    /\ running' = FALSE
    /\ loop' = IF running THEN "report" ELSE "ended"
    /\ UNCHANGED <<clientVars, listenerVars, reply, told, up, down, fpgaVars>>

\* An answer of an unknown type, or the connection has ended; the FPGA's close may
\* have destroyed answers on their way.
WorkerFails ==
    /\ \/ Len(reply) = AnswerLength(reply) /\ Len(reply) = 1
       \/ Len(reply) < AnswerLength(reply) /\ (~running \/ fpga = "closed")
    /\ HandleFailure
    /\ UNCHANGED <<broken, faults>>

\* recv() fails on a connection that is up.
WorkerFaults ==
    /\ Len(reply) < AnswerLength(reply) /\ running /\ faults < MaxFaults
    /\ HandleFailure
    /\ faults' = faults + 1 /\ broken' = TRUE

\* OnTransportError takes callback_mutex_ and calls the listener.
WorkerReports ==
    /\ loop = "report"
    /\ callbackLock = NoThread /\ callbackLock' = Worker
    /\ loop' = "callback"
    /\ UNCHANGED <<clientVars, running, frames, reply, told, reported, broken, up, down,
                   fpgaVars, faults>>

-----------------------------------------------------------------------------
\* ControlThreadMain.

FpgaReceives ==
    /\ fpga = "recv" /\ up # <<>>
    /\ Len(got) < CommandLength(got)
    /\ LET n == Smaller(CommandLength(got) - Len(got), Len(up))
       IN  got' = got \o SubSeq(up, 1, n) /\ up' = Drop(up, n)
    /\ UNCHANGED <<clientVars, running, listenerVars, workerVars, down, fpga, answer, handled,
                   answered, faults>>

\* What a status says is FpgaServer's: here the k-th answer says k, in the 16 bits
\* there are.  A CONFIG of another length fails.
AnswerTo(command) ==
    IF command[1] # MsgConfig THEN <<MsgReturnStatus, (Len(answered) + 1) % 65536, 0>>
    ELSE IF Len(command) = 3 + RegCount THEN <<MsgConfigAck, 0, 0>>
    ELSE <<MsgConfigAck, 1, 1>>

FpgaHandles ==
    /\ fpga = "recv" /\ Len(got) = CommandLength(got) /\ Len(got) > 1
    /\ handled' = Append(handled, got)
    /\ answered' = Append(answered, AnswerTo(got))
    /\ answer' = Answer(AnswerTo(got))
    /\ got' = <<>> /\ fpga' = "answer"
    /\ UNCHANGED <<clientVars, running, listenerVars, workerVars, up, down, faults>>

\* SendAll of the answer, as far as there is room, and back to the loop.
FpgaAnswers ==
    /\ fpga = "answer"
    /\ LET n == Smaller(DownCapacity - Len(down), Len(answer))
       IN  /\ n > 0
           /\ down' = down \o SubSeq(answer, 1, n)
           /\ answer' = Drop(answer, n)
           /\ fpga' = IF n = Len(answer) THEN "recv" ELSE "answer"
    /\ UNCHANGED <<clientVars, running, listenerVars, workerVars, up, got, handled,
                   answered, faults>>

\* A command of an unknown type, or the client has closed: bytes on their way may
\* be lost with the connection.
FpgaEnds ==
    /\ \/ fpga = "recv" /\ Len(got) = CommandLength(got) /\ Len(got) = 1
       \/ fpga = "recv" /\ Len(got) < CommandLength(got) /\ ~running
       \/ fpga = "answer" /\ ~running
    /\ fpga' = "ended"
    /\ UNCHANGED <<clientVars, running, listenerVars, workerVars, up, down, got, answer,
                   handled, answered, faults>>

\* Its recv() or send() fails on a connection that is up.
FpgaFaults ==
    /\ fpga \in {"recv", "answer"} /\ faults < MaxFaults
    /\ faults' = faults + 1
    /\ fpga' = "ended"
    /\ UNCHANGED <<clientVars, running, listenerVars, workerVars, up, down, got, answer,
                   handled, answered>>

\* main has joined both threads and closes the control socket.
FpgaCloses ==
    /\ fpga = "ended" /\ fpga' = "closed"
    /\ UNCHANGED <<clientVars, running, listenerVars, workerVars, up, down, got, answer,
                   handled, answered, faults>>

-----------------------------------------------------------------------------
CallerStep(t) == SendLocks(t) \/ SendChunk(t) \/ SendFails(t) \/ SendReturns(t)
WorkerStep ==
    WorkerReceives \/ WorkerTells \/ ListenerReturns \/ WorkerFails \/ WorkerReports
FpgaStep == FpgaReceives \/ FpgaHandles \/ FpgaAnswers \/ FpgaEnds \/ FpgaCloses

Next ==
    \/ \E t \in Callers : SendCall(t) \/ SendFaults(t) \/ CallerStep(t)
    \/ SessionStops \/ ImageCalls \/ ImageReturns
    \/ WorkerStep \/ WorkerFaults \/ FpgaStep \/ FpgaFaults

Spec == Init /\ [][Next]_vars

\* Calls that wait for the other end, which is not bound to do anything.
SendWaits(t) ==
    /\ pc[t] = "sending" /\ todo[t] # <<>> /\ GoesOn
    /\ Len(up) = UpCapacity /\ fpga # "closed"
RecvWaits ==
    /\ loop = "recv" /\ Len(reply) < AnswerLength(reply) /\ GoesOn
    /\ down = <<>> /\ fpga # "closed"
FpgaWaits ==
    /\ GoesOn
    /\ \/ fpga = "recv" /\ Len(got) < CommandLength(got) /\ up = <<>>
       \/ fpga = "answer" /\ Len(down) = DownCapacity

\* Every thread that can run does, and the listener returns when what it called
\* has returned.
FairSpec ==
    /\ Spec
    /\ \A t \in Callers : WF_vars(~SendWaits(t) /\ CallerStep(t))
    /\ WF_vars(~RecvWaits /\ WorkerStep) /\ WF_vars(ImageReturns)
    /\ WF_vars(~FpgaWaits /\ FpgaStep)

-----------------------------------------------------------------------------
\* Every variable has the type of what it models; callback_mutex_ is held while a
\* callback runs.
Byte == 0..255
TypeOK ==
    /\ {running, reported, broken} \subseteq BOOLEAN
    /\ pc \in [Callers -> {"idle", "locking", "sending"}]
    /\ todo \in [Callers -> Seq(Byte)]
    /\ sendLock \in Callers \cup {NoThread}
    /\ callbackLock \in {Worker, Image, NoThread}
    /\ loop \in {"recv", "callback", "report", "ended"}
    /\ callbackLock = Worker <=> loop = "callback"
    /\ pc[Image] # "idle" => callbackLock = Image
    /\ pc[Worker] # "idle" => callbackLock = Worker
    /\ fpga \in {"recv", "answer", "ended", "closed"}
    /\ {reply, up, down, got, answer} \subseteq Seq(Byte)
    /\ Len(up) <= UpCapacity /\ Len(down) <= DownCapacity
    /\ Len(reply) <= AnswerSize /\ Len(answer) <= AnswerSize
    /\ faults \in 0..MaxFaults /\ calls \in 0..MaxSends /\ frames \in 0..MaxFrames
    /\ cut \in 0..Len(sent)
    /\ {sent, handled} \subseteq Seq(Seq(Byte))
    /\ {answered, told} \subseteq Seq(Nat \X Nat \X Nat)

\* From end to end: with any number of threads sending, a full connection and
\* packets that go out in pieces, the FPGA takes exactly the commands that were
\* sent, in the order in which control_send_mutex_ let them pass.  That ends with
\* the first packet that was not sent to its end: the FPGA takes the bytes behind
\* it for the rest of it.
CommandsArriveInOrder ==
    \A i \in DOMAIN handled :
        cut = 0 \/ i < cut => i <= Len(sent) /\ handled[i] = sent[i]

\* The listener is told the answers the FPGA gave, in order and none twice, each
\* as what it is, also when the commands have lost their framing.
AnswersAreTold ==
    Len(told) <= Len(answered) /\ told = SubSeq(answered, 1, Len(told))

\* The control worker calls OnTransportError when the connection has ended or its
\* recv() has failed, and for nothing else: however the commands are garbled, by
\* whatever is sent from wherever, no answer is ever taken for one of another type.
ErrorHasCause == reported => fpga = "closed" \/ broken

\* The control worker does not read: it is in a callback, or has an answer for one.
WorkerIsBusy == loop = "callback" \/ Len(reply) = AnswerLength(reply)

\* The listener, called by either worker, sends or waits to; the control worker
\* reads no answers until it returns; the FPGA reads no command until its answer
\* is read; and both directions are full.
CircularWait ==
    /\ running /\ callbackLock # NoThread /\ pc[callbackLock] # "idle"
    /\ WorkerIsBusy
    /\ fpga = "answer" /\ Len(down) = DownCapacity
    /\ Len(up) = UpCapacity /\ sendLock # NoThread

\* "Java/JNI threads only send and do not wait for the FPGA" (SpectraBridgeClient.h:45)
\* is not so when the listener sends: that can be the end of all sending.  What does
\* hold, where closing a socket ends what waits on it: every sendXxx() returns but
\* for that one circle, in which the listener of either worker waits for the FPGA,
\* the FPGA for the control worker and that for the listener.
SendsReturn ==
    \A t \in Callers : pc[t] # "idle" ~> pc[t] = "idle" \/ CircularWait

\* Every command that went out whole is answered and the listener is told, though
\* callback_mutex_ may be the image worker's and its listener sends too: unless the
\* session ends, an earlier packet was cut, or all wait in the circle.
CommandsAreAnswered ==
    \A k \in 1..MaxSends :
        Len(sent) >= k ~> \/ Len(told) >= k
                          \/ Len(sent) < k
                          \/ cut \in 1..k \/ ~running \/ CircularWait
=============================================================================
