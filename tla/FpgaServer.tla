------------------------------ MODULE FpgaServer ------------------------------
(***************************************************************************)
(* The test FPGA: main.cpp (spectra_bridge_test) and, with a shorter lock,  *)
(* tools/mock-fpga/MockFpgaServer.cpp.  One client connects to the control  *)
(* and then to the image port; a control thread answers commands, an image  *)
(* thread sends a frame for a trigger, and main waits for the control       *)
(* thread to end and then stops the other one.                              *)
(*                                                                          *)
(* The threads share SharedState under a mutex and a condition variable.    *)
(* The client is the environment: it sends any commands, reads each of its  *)
(* connections or not, and may close them.                                  *)
(***************************************************************************)
EXTENDS Naturals, Sequences

CONSTANTS
    MaxCommands,    \* bound: commands the client sends
    Capacity        \* bound: answers, or parts of frames, a connection holds

\* CONTROL with some of its bits, QUERY_STATUS, CONFIG of 512 or of other bytes,
\* and a message type the server does not know.
Commands == {"trigger", "reset", "both", "none", "query", "config", "badConfig", "unknown"}
Control == {"trigger", "reset", "both", "none"}
Resets == {"reset", "both"}
Triggers == {"trigger", "both"}

ASSUME ServerAssumption ==
    /\ MaxCommands \in Nat /\ Capacity \in Nat \ {0}

VARIABLES
    program,    \* which of the two servers this is: "main" or "mock"
    main,       \* where main is
    control,    \* where the control thread is
    image,      \* where the image thread is
    mutex,      \* SharedState::mutex: "free", "control", or the thread that has it
    running, triggerPending, configApplied, imageReady, busy, errorCode,
                \* the rest of SharedState
    command,    \* the command the control thread is handling
    requests,   \* commands on their way to the server
    answers,    \* answers on their way to the client
    frames,     \* parts of frames on their way to the client
    controlUp, imageUp,
                \* the client's ends: "no", "up", "closed"
    imageOpen,  \* the server's image socket is open
    sent,       \* commands sent so far
    owed,       \* history: triggers since the last RESET
    begun,      \* history: frames begun since the last RESET
    hasty       \* history: a trigger or a RESET came while the status was BUSY

stateVars == <<running, triggerPending, configApplied, imageReady, busy, errorCode>>
clientVars == <<program, controlUp, imageUp, sent>>
history == <<owed, begun, hasty>>
vars == <<main, control, image, mutex, stateVars, command, requests, answers,
          frames, clientVars, imageOpen, history>>

Init ==
    /\ program \in {"main", "mock"}
    /\ main = "accept_control" /\ control = "none" /\ image = "none"
    /\ mutex = "free"
    /\ running = TRUE /\ triggerPending = FALSE /\ configApplied = FALSE
    /\ imageReady = FALSE /\ busy = FALSE /\ errorCode = 0
    /\ command = "none"
    /\ requests = <<>> /\ answers = <<>> /\ frames = <<>>
    /\ controlUp = "no" /\ imageUp = "no" /\ imageOpen = FALSE
    /\ sent = 0 /\ owed = 0 /\ begun = 0 /\ hasty = FALSE

-----------------------------------------------------------------------------
\* The client.

\* Connections are made in this order and wait in the backlog to be accepted.
ClientConnects ==
    /\ \/ controlUp = "no" /\ controlUp' = "up" /\ UNCHANGED imageUp
       \/ controlUp = "up" /\ imageUp = "no" /\ imageUp' = "up" /\ UNCHANGED controlUp
    /\ UNCHANGED <<main, control, image, mutex, stateVars, command, requests,
                   answers, frames, program, sent, imageOpen, history>>

ClientSends ==
    /\ controlUp = "up" /\ sent < MaxCommands
    /\ \E c \in Commands : requests' = Append(requests, c)
    /\ sent' = sent + 1
    /\ UNCHANGED <<main, control, image, mutex, stateVars, command, answers,
                   frames, program, controlUp, imageUp, imageOpen, history>>

ClientReadsControl ==
    /\ controlUp = "up" /\ answers # <<>>
    /\ answers' = Tail(answers)
    /\ UNCHANGED <<main, control, image, mutex, stateVars, command, requests,
                   frames, clientVars, imageOpen, history>>

ClientReadsImage ==
    /\ imageUp = "up" /\ frames # <<>>
    /\ frames' = Tail(frames)
    /\ UNCHANGED <<main, control, image, mutex, stateVars, command, requests,
                   answers, clientVars, imageOpen, history>>

ClientCloses ==
    /\ \/ controlUp = "up" /\ controlUp' = "closed" /\ UNCHANGED imageUp
       \/ imageUp = "up" /\ imageUp' = "closed" /\ UNCHANGED controlUp
    /\ UNCHANGED <<main, control, image, mutex, stateVars, command, requests,
                   answers, frames, program, sent, imageOpen, history>>

-----------------------------------------------------------------------------
\* main.

ThreadVars == <<mutex, command, requests, answers, frames, clientVars, history>>

AcceptControl ==
    /\ main = "accept_control" /\ controlUp # "no"
    /\ main' = "accept_image"
    /\ UNCHANGED <<control, image, stateVars, imageOpen, ThreadVars>>

\* The second connection is there: SharedState is made and both threads start.
AcceptImage ==
    /\ main = "accept_image" /\ imageUp # "no"
    /\ main' = "join_control"
    /\ control' = "recv" /\ image' = "test"
    /\ imageOpen' = TRUE
    /\ UNCHANGED <<stateVars, ThreadVars>>

\* control_thread.join(), then running = false under the mutex.
StopRunning ==
    /\ main = "join_control" /\ control = "ended" /\ mutex = "free"
    /\ running' = FALSE
    /\ main' = "notify"
    /\ UNCHANGED <<control, image, triggerPending, configApplied, imageReady, busy,
                   errorCode, imageOpen, ThreadVars>>

\* image_cv.notify_all(): a thread that waits tests its condition again.
Wake == image' = IF image = "waiting" THEN "test" ELSE image

NotifyAll ==
    /\ main = "notify"
    /\ Wake
    /\ main' = "close_image"
    /\ UNCHANGED <<control, stateVars, imageOpen, ThreadVars>>

\* Mutation: the image socket is closed after the thread has been joined.
CloseImageLate ==
    /\ main = "close_image"
    /\ image = "ended"
    /\ imageOpen' = FALSE
    /\ main' = "join_image"
    /\ UNCHANGED <<control, image, stateVars, ThreadVars>>

\* shutdown() and closesocket(): a send() under way fails.
CloseImage ==
    /\ main = "close_image"
    /\ imageOpen' = FALSE
    /\ main' = "join_image"
    /\ UNCHANGED <<control, image, stateVars, ThreadVars>>

JoinImage ==
    /\ main = "join_image" /\ image = "ended"
    /\ main' = "stopped"
    /\ UNCHANGED <<control, image, stateVars, imageOpen, ThreadVars>>

-----------------------------------------------------------------------------
\* ControlThreadMain.

\* A command arrives whole, or the client closes before or within it.
ReceiveCommand ==
    /\ control = "recv"
    /\ \/ /\ requests # <<>>
          /\ requests' = Tail(requests)
          /\ command' = Head(requests)
          /\ control' = CASE Head(requests) \in Control                  -> "apply"
                          [] Head(requests) = "query"                    -> "query"
                          [] Head(requests) \in {"config", "badConfig"} -> "configure"
                          [] OTHER                                       -> "ended"
       \/ /\ controlUp = "closed"
          /\ control' = "ended"
          /\ requests' = <<>>
          /\ UNCHANGED command
    /\ UNCHANGED <<main, image, mutex, stateVars, answers, frames, clientVars,
                   imageOpen, history>>

\* Mutation: RESET leaves busy as it was.
ApplyControlKeepsBusy ==
    /\ control = "apply" /\ mutex = "free"
    /\ triggerPending' = (command \in Triggers \/ (triggerPending /\ command \notin Resets))
    /\ busy' = (command \in Triggers \/ busy)
    /\ imageReady' = (imageReady /\ command = "none")
    /\ configApplied' = (configApplied /\ command \notin Resets)
    /\ errorCode' = IF command \in Resets THEN 0 ELSE errorCode
    /\ owed' = (IF command \in Resets THEN 0 ELSE owed) + (IF command \in Triggers THEN 1 ELSE 0)
    /\ begun' = IF command \in Resets THEN 0 ELSE begun
    /\ hasty' = (hasty \/ (busy /\ command # "none"))
    /\ control' = "notify"
    /\ UNCHANGED <<main, image, mutex, running, command, requests, answers, frames,
                   clientVars, imageOpen>>

\* Mutation: TRIGGER_ONCE leaves busy to the image thread.
ApplyControlNotBusy ==
    /\ control = "apply" /\ mutex = "free"
    /\ triggerPending' = (command \in Triggers \/ (triggerPending /\ command \notin Resets))
    /\ busy' = (busy /\ command \notin Resets)
    /\ imageReady' = (imageReady /\ command = "none")
    /\ configApplied' = (configApplied /\ command \notin Resets)
    /\ errorCode' = IF command \in Resets THEN 0 ELSE errorCode
    /\ owed' = (IF command \in Resets THEN 0 ELSE owed) + (IF command \in Triggers THEN 1 ELSE 0)
    /\ begun' = IF command \in Resets THEN 0 ELSE begun
    /\ hasty' = (hasty \/ (busy /\ command # "none"))
    /\ control' = "notify"
    /\ UNCHANGED <<main, image, mutex, running, command, requests, answers, frames,
                   clientVars, imageOpen>>

\* RESET clears the state, then TRIGGER_ONCE asks for a frame; both bits may be set.
ApplyControl ==
    /\ control = "apply" /\ mutex = "free"
    /\ triggerPending' = (command \in Triggers \/ (triggerPending /\ command \notin Resets))
    /\ busy' = (command \in Triggers \/ (busy /\ command \notin Resets))
    /\ imageReady' = (imageReady /\ command = "none")
    /\ configApplied' = (configApplied /\ command \notin Resets)
    /\ errorCode' = IF command \in Resets THEN 0 ELSE errorCode
    /\ owed' = (IF command \in Resets THEN 0 ELSE owed) + (IF command \in Triggers THEN 1 ELSE 0)
    /\ begun' = IF command \in Resets THEN 0 ELSE begun
    /\ hasty' = (hasty \/ (busy /\ command # "none"))
    /\ control' = "notify"
    /\ UNCHANGED <<main, image, mutex, running, command, requests, answers, frames,
                   clientVars, imageOpen>>

\* Mutation: nobody is notified.
NotifyNobody ==
    /\ control = "notify"
    /\ control' = "query"
    /\ UNCHANGED <<main, image, mutex, stateVars, command, requests, answers, frames,
                   clientVars, imageOpen, history>>
NotifyOne ==
    /\ control = "notify"
    /\ Wake
    /\ control' = "query"
    /\ UNCHANGED <<main, mutex, stateVars, command, requests, answers, frames,
                   clientVars, imageOpen, history>>

\* Mutation: the mutex is kept for every answer.
ReadStatusLocked ==
    /\ control = "query" /\ mutex = "free"
    /\ control' = "answer"
    /\ mutex' = "control"
    /\ UNCHANGED <<main, image, stateVars, command, requests, answers, frames,
                   clientVars, imageOpen, history>>
\* The status is read under the mutex, which main.cpp keeps while it answers a
\* QUERY_STATUS.
ReadStatus ==
    /\ control = "query" /\ mutex = "free"
    /\ control' = "answer"
    /\ mutex' = IF program = "main" /\ command = "query" THEN "control" ELSE "free"
    /\ UNCHANGED <<main, image, stateVars, command, requests, answers, frames,
                   clientVars, imageOpen, history>>

ApplyConfig ==
    /\ control = "configure" /\ mutex = "free"
    /\ configApplied' = (command = "config")
    /\ errorCode' = IF command = "config" THEN 0 ELSE 1
    /\ control' = "answer"
    /\ UNCHANGED <<main, image, mutex, running, triggerPending, imageReady, busy,
                   command, requests, answers, frames, clientVars, imageOpen, history>>

\* Mutation: an early return that leaves the mutex locked.
SendAnswerFailsLocked ==
    /\ control = "answer"
    /\ \/ /\ Len(answers) < Capacity
          /\ answers' = Append(answers, command)
          /\ control' = "recv"
          /\ mutex' = "free"
       \/ /\ controlUp = "closed"
          /\ control' = "ended"
          /\ UNCHANGED <<answers, mutex>>
    /\ UNCHANGED <<main, image, stateVars, command, requests, frames, clientVars,
                   imageOpen, history>>
\* SendAll of the five bytes: they fit, or the client has closed, or it waits.
SendAnswer ==
    /\ control = "answer"
    /\ \/ /\ Len(answers) < Capacity
          /\ answers' = Append(answers, command)
          /\ control' = "recv"
       \/ /\ controlUp = "closed"
          /\ control' = "ended"
          /\ UNCHANGED answers
    /\ mutex' = IF mutex = "control" THEN "free" ELSE mutex
    /\ UNCHANGED <<main, image, stateVars, command, requests, frames, clientVars,
                   imageOpen, history>>

-----------------------------------------------------------------------------
\* ImageThreadMain and SendOneImageFrame.

\* Mutation: trigger_pending is left set.
TestConditionKeepsTrigger ==
    /\ image = "test" /\ mutex = "free"
    /\ image' = CASE ~running                   -> "ended"
                [] running /\ triggerPending -> "header"
                [] OTHER                     -> "waiting"
    /\ begun' = IF running /\ triggerPending THEN begun + 1 ELSE begun
    /\ UNCHANGED <<main, control, mutex, stateVars, command, requests,
                   answers, frames, clientVars, imageOpen, owed, hasty>>

\* image_cv.wait(...): the mutex is given up and the wait begun in one step.
TestCondition ==
    /\ image = "test" /\ mutex = "free"
    /\ image' = CASE ~running                   -> "ended"
                [] running /\ triggerPending -> "header"
                [] OTHER                     -> "waiting"
    /\ triggerPending' = (triggerPending /\ ~running)
    /\ begun' = IF running /\ triggerPending THEN begun + 1 ELSE begun
    /\ UNCHANGED <<main, control, mutex, running, configApplied, imageReady, busy,
                   errorCode, command, requests, answers, frames, clientVars,
                   imageOpen, owed, hasty>>

\* The header, then the payload: each fits, or the connection is gone, or it waits.
SendPart ==
    /\ image \in {"header", "payload"}
    /\ \/ /\ imageOpen /\ Len(frames) < Capacity
          /\ frames' = Append(frames, image)
          /\ image' = IF image = "header" THEN "payload" ELSE "finish"
       \/ /\ ~imageOpen \/ imageUp = "closed"
          /\ image' = "ended"
          /\ UNCHANGED frames
    /\ UNCHANGED <<main, control, mutex, stateVars, command, requests, answers,
                   clientVars, imageOpen, history>>

\* The frame is noted under the mutex: image_ready, and not busy any more.
FinishFrame ==
    /\ image = "finish" /\ mutex = "free"
    /\ imageReady' = TRUE
    /\ busy' = FALSE
    /\ image' = "test"
    /\ UNCHANGED <<main, control, mutex, running, triggerPending, configApplied,
                   errorCode, command, requests, answers, frames, clientVars,
                   imageOpen, history>>

-----------------------------------------------------------------------------
MainStep == AcceptControl \/ AcceptImage \/ StopRunning \/ NotifyAll \/ CloseImage \/ JoinImage
ControlStep == ReceiveCommand \/ ApplyControl \/ NotifyOne \/ ReadStatus \/ ApplyConfig \/ SendAnswer
ImageStep == TestCondition \/ SendPart \/ FinishFrame

Next ==
    \/ ClientConnects \/ ClientSends \/ ClientReadsControl \/ ClientReadsImage \/ ClientCloses
    \/ MainStep \/ ControlStep \/ ImageStep

Spec == Init /\ [][Next]_vars

\* The server's threads run.  Nothing is asked of the client.
FairSpec ==
    /\ Spec
    /\ WF_vars(MainStep) /\ WF_vars(ControlStep) /\ WF_vars(ImageStep)

-----------------------------------------------------------------------------
\* main.cpp answers a QUERY_STATUS, with the mutex.
AnswersLocked == program = "main" /\ control = "answer" /\ command = "query"

\* Every variable has the type of what it models, and the mutex is kept across
\* steps by nobody but main.cpp while it answers QUERY_STATUS.
TypeOK ==
    /\ program \in {"main", "mock"}
    /\ main \in {"accept_control", "accept_image", "join_control", "notify",
                "close_image", "join_image", "stopped"}
    /\ control \in {"none", "recv", "apply", "notify", "query", "configure", "answer", "ended"}
    /\ image \in {"none", "test", "waiting", "header", "payload", "finish", "ended"}
    /\ mutex \in {"free", "control"}
    /\ mutex = "control" <=> AnswersLocked
    /\ running \in BOOLEAN /\ triggerPending \in BOOLEAN /\ configApplied \in BOOLEAN
    /\ imageReady \in BOOLEAN /\ busy \in BOOLEAN /\ imageOpen \in BOOLEAN
    /\ errorCode \in {0, 1}
    /\ command \in Commands
    /\ requests \in Seq(Commands) /\ answers \in Seq(Commands)
    /\ frames \in Seq({"header", "payload"})
    /\ controlUp \in {"no", "up", "closed"} /\ imageUp \in {"no", "up", "closed"}
    /\ sent \in 0..MaxCommands /\ owed \in 0..MaxCommands /\ begun \in 0..MaxCommands
    /\ hasty \in BOOLEAN

Sending == image \in {"header", "payload", "finish"}

\* BUSY is told only while a frame is owed: it is pending or being sent, or the
\* image thread has ended and nothing is sent any more.  In particular RESET
\* never leaves the server busy with nothing that would clear it.
BusyHasCause == busy => triggerPending \/ Sending \/ image = "ended"

\* No frame without a trigger: since the last RESET no more frames have begun,
\* or are about to, than triggers have come.
FramesAreOwed == begun + (IF triggerPending THEN 1 ELSE 0) <= owed

\* The client does not read the answer to a QUERY_STATUS, and main.cpp keeps the
\* mutex until it does.
AnswerBlocks == AnswersLocked /\ Len(answers) = Capacity

\* The condition variable loses no trigger: a pending trigger does not find the
\* image thread idle for ever.
TriggerIsServed ==
    triggerPending ~> \/ ~triggerPending \/ Sending \/ image = "ended"
                      \/ AnswerBlocks

\* When the client closes the control connection, the server stops, even with
\* its image thread in the middle of a frame that the client does not read.
ServerStops == controlUp = "closed" /\ imageUp # "no" ~> main = "stopped"

\* A frame that has been sent is noted, and BUSY cleared, whatever the client does
\* on the control connection, but for one thing: in main.cpp a client that does not
\* read the answer to a QUERY_STATUS stops the image thread too (main.cpp:1352).
FrameIsNoted == image = "finish" ~> image # "finish" \/ AnswerBlocks

\* A client that waits for READY before each TRIGGER_ONCE and RESET loses no
\* frame, and reads BUSY as long as one is owed.  One that does not may lose
\* frames, since one trigger is kept at most, and may read READY in between,
\* since the end of a frame clears BUSY whether or not another is owed.
PatientClientIsServed ==
    ~hasty =>
        /\ begun + (IF triggerPending THEN 1 ELSE 0) = owed
        /\ triggerPending \/ Sending => busy
=============================================================================
