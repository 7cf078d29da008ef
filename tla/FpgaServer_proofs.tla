--------------------------- MODULE FpgaServer_proofs ---------------------------
(***************************************************************************)
(* The safety of the test servers, for any number of commands and any       *)
(* capacity of the connections.                                             *)
(***************************************************************************)
EXTENDS FpgaServer, TLAPS

Pending == IF triggerPending THEN 1 ELSE 0

\* The parts of TypeOK.
PlacesOK ==
    /\ program \in {"main", "mock"}
    /\ main \in {"accept_control", "accept_image", "join_control", "notify",
                "close_image", "join_image", "stopped"}
    /\ control \in {"none", "recv", "apply", "notify", "query", "configure", "answer", "ended"}
    /\ image \in {"none", "test", "waiting", "header", "payload", "finish", "ended"}
    /\ mutex \in {"free", "control"}
    /\ mutex = "control" <=> AnswersLocked
    /\ controlUp \in {"no", "up", "closed"} /\ imageUp \in {"no", "up", "closed"}
FlagsOK ==
    /\ running \in BOOLEAN /\ triggerPending \in BOOLEAN /\ configApplied \in BOOLEAN
    /\ imageReady \in BOOLEAN /\ busy \in BOOLEAN /\ imageOpen \in BOOLEAN
    /\ hasty \in BOOLEAN
TrafficOK ==
    /\ command \in Commands
    /\ requests \in Seq(Commands) /\ answers \in Seq(Commands)
    /\ frames \in Seq({"header", "payload"})
CountsOK ==
    /\ sent \in 0..MaxCommands /\ owed \in 0..MaxCommands /\ begun \in 0..MaxCommands
    /\ errorCode \in {0, 1}

\* Each trigger comes from a command of its own.
CountInv ==
    owed + Len(requests) + (IF control = "apply" THEN 1 ELSE 0) <= sent

\* The threads start once, and a CONFIG is no QUERY_STATUS.
PlaceInv ==
    /\ main \in {"accept_control", "accept_image"} => control = "none" /\ image = "none"
    /\ control = "configure" => command \in {"config", "badConfig"}

\* A patient client does not ask for a frame while one is being sent, which is
\* why the end of a frame clears no other frame's BUSY.
PatientInv == ~hasty => ~(triggerPending /\ Sending)

ServerInv ==
    TypeOK /\ CountInv /\ PlaceInv /\ FramesAreOwed /\ BusyHasCause
        /\ PatientClientIsServed /\ PatientInv

Safety == CountInv /\ PlaceInv /\ FramesAreOwed /\ BusyHasCause /\ PatientClientIsServed /\ PatientInv

-----------------------------------------------------------------------------
LEMMA ServerInit == Init => ServerInv
<1> SUFFICES ASSUME Init PROVE ServerInv
  OBVIOUS
<1>1. TypeOK
  <2>1. requests \in Seq(Commands) /\ answers \in Seq(Commands)
    BY DEF Init
  <2>2. frames \in Seq({"header", "payload"})
    BY DEF Init
  <2>3. command \in Commands
    BY DEF Init, Commands
  <2>4. /\ sent \in 0..MaxCommands /\ owed \in 0..MaxCommands /\ begun \in 0..MaxCommands
        /\ errorCode \in {0, 1}
    BY ServerAssumption DEF Init
  <2>5. /\ program \in {"main", "mock"} /\ main = "accept_control" /\ control = "none"
        /\ image = "none" /\ mutex = "free" /\ controlUp = "no" /\ imageUp = "no"
    BY DEF Init
  <2>6. /\ running \in BOOLEAN /\ triggerPending \in BOOLEAN /\ configApplied \in BOOLEAN
        /\ imageReady \in BOOLEAN /\ busy \in BOOLEAN /\ imageOpen \in BOOLEAN /\ hasty \in BOOLEAN
    BY DEF Init
  <2> QED
    BY <2>1, <2>2, <2>3, <2>4, <2>5, <2>6 DEF TypeOK, AnswersLocked
<1>2. CountInv /\ PlaceInv /\ FramesAreOwed /\ BusyHasCause /\ PatientClientIsServed /\ PatientInv
  BY DEF Init, CountInv, PlaceInv, FramesAreOwed, BusyHasCause, PatientClientIsServed,
     PatientInv, Sending
<1> QED
  BY <1>1, <1>2 DEF ServerInv

\* What the client does touches the counts of commands only.
LEMMA ClientKeeps ==
    ASSUME ServerInv,
           ClientConnects \/ ClientSends \/ ClientReadsControl \/ ClientReadsImage \/ ClientCloses
    PROVE  ServerInv'
<1> USE ServerAssumption DEF stateVars, clientVars, history, AnswersLocked
<1>1. TypeOK
  BY DEF ServerInv
<1>2. /\ UNCHANGED <<main, control, image, mutex, stateVars, command, program, imageOpen, history>>
      /\ requests' \in Seq(Commands) /\ answers' \in Seq(Commands)
      /\ frames' \in Seq({"header", "payload"})
      /\ Len(requests') - Len(requests) = sent' - sent /\ sent' \in 0..MaxCommands
      /\ controlUp' \in {"no", "up", "closed"} /\ imageUp' \in {"no", "up", "closed"}
  <2> DEFINE Parts == {"header", "payload"}
  <2>a. /\ requests \in Seq(Commands) /\ answers \in Seq(Commands) /\ frames \in Seq(Parts)
        /\ sent \in 0..MaxCommands
        /\ controlUp \in {"no", "up", "closed"} /\ imageUp \in {"no", "up", "closed"}
    BY <1>1 DEF TypeOK
  <2> HIDE DEF Parts
  <2>1. CASE ClientConnects
    BY <2>1, <2>a DEF ClientConnects, Parts
  <2>2. CASE ClientSends
    BY <2>2, <2>a DEF ClientSends, Parts
  <2>3. CASE ClientReadsControl
    BY <2>3, <2>a DEF ClientReadsControl, Parts
  <2>4. CASE ClientReadsImage
    BY <2>4, <2>a DEF ClientReadsImage, Parts
  <2>5. CASE ClientCloses
    BY <2>5, <2>a DEF ClientCloses, Parts
  <2> QED
    BY <2>1, <2>2, <2>3, <2>4, <2>5
<1> QED
  BY <1>1, <1>2 DEF ServerInv, TypeOK, CountInv, PlaceInv, FramesAreOwed, BusyHasCause,
     PatientClientIsServed, PatientInv, Sending
\* main changes no count: it starts the other threads and stops them.
LEMMA MainKeeps == ASSUME ServerInv, MainStep PROVE ServerInv'
<1> USE ServerAssumption
    DEF stateVars, clientVars, history, ThreadVars, Wake, Pending, AnswersLocked
<1>a. TypeOK /\ Safety
  BY DEF ServerInv, Safety
<1>b. PlacesOK /\ FlagsOK /\ TrafficOK /\ CountsOK
  BY <1>a DEF TypeOK, PlacesOK, FlagsOK, TrafficOK, CountsOK
<1>1. CASE AcceptControl
  <2>1. TypeOK'
    BY <1>a, <1>1 DEF AcceptControl, TypeOK, Safety, CountInv, FramesAreOwed
  <2>2. Safety'
    BY <1>a, <1>1 DEF AcceptControl, TypeOK, Safety, CountInv, PlaceInv, FramesAreOwed,
       BusyHasCause, PatientClientIsServed, PatientInv, Sending, Triggers, Resets
  <2> QED
    BY <2>1, <2>2 DEF ServerInv, Safety
<1>2. CASE AcceptImage
  <2>1. TypeOK'
    BY <1>a, <1>2 DEF AcceptImage, TypeOK, Safety, PlaceInv
  <2>2. Safety'
    BY <1>a, <1>2 DEF AcceptImage, TypeOK, Safety, CountInv, PlaceInv, FramesAreOwed,
       BusyHasCause, PatientClientIsServed, PatientInv, Sending, Triggers, Resets
  <2> QED
    BY <2>1, <2>2 DEF ServerInv, Safety
<1>3. CASE StopRunning
  <2>1. TypeOK'
    <3>1. PlacesOK'
      BY <1>b, <1>3 DEF StopRunning, PlacesOK
    <3>2. FlagsOK'
      BY <1>b, <1>3 DEF StopRunning, FlagsOK
    <3>3. TrafficOK'
      BY <1>b, <1>3 DEF StopRunning, TrafficOK
    <3>4. CountsOK'
      BY <1>b, <1>3 DEF StopRunning, CountsOK
    <3> QED
      BY <3>1, <3>2, <3>3, <3>4 DEF TypeOK, PlacesOK, FlagsOK, TrafficOK, CountsOK
  <2>2. Safety'
    BY <1>a, <1>3 DEF StopRunning, TypeOK, Safety, CountInv, PlaceInv, FramesAreOwed,
       BusyHasCause, PatientClientIsServed, PatientInv, Sending, Triggers, Resets
  <2> QED
    BY <2>1, <2>2 DEF ServerInv, Safety
<1>4. CASE NotifyAll
  <2>1. TypeOK'
    BY <1>a, <1>4 DEF NotifyAll, TypeOK, Safety, CountInv, FramesAreOwed
  <2>2. Safety'
    BY <1>a, <1>4 DEF NotifyAll, TypeOK, Safety, CountInv, PlaceInv, FramesAreOwed,
       BusyHasCause, PatientClientIsServed, PatientInv, Sending, Triggers, Resets
  <2> QED
    BY <2>1, <2>2 DEF ServerInv, Safety
<1>5. CASE CloseImage
  <2>1. TypeOK'
    <3>1. PlacesOK'
      BY <1>b, <1>5 DEF CloseImage, PlacesOK
    <3>2. FlagsOK'
      BY <1>b, <1>5 DEF CloseImage, FlagsOK
    <3>3. TrafficOK'
      BY <1>b, <1>5 DEF CloseImage, TrafficOK
    <3>4. CountsOK'
      BY <1>b, <1>5 DEF CloseImage, CountsOK
    <3> QED
      BY <3>1, <3>2, <3>3, <3>4 DEF TypeOK, PlacesOK, FlagsOK, TrafficOK, CountsOK
  <2>2. Safety'
    BY <1>a, <1>5 DEF CloseImage, TypeOK, Safety, CountInv, PlaceInv, FramesAreOwed,
       BusyHasCause, PatientClientIsServed, PatientInv, Sending, Triggers, Resets
  <2> QED
    BY <2>1, <2>2 DEF ServerInv, Safety
<1>6. CASE JoinImage
  <2>1. TypeOK'
    BY <1>a, <1>6 DEF JoinImage, TypeOK, Safety, CountInv, FramesAreOwed
  <2>2. Safety'
    BY <1>a, <1>6 DEF JoinImage, TypeOK, Safety, CountInv, PlaceInv, FramesAreOwed,
       BusyHasCause, PatientClientIsServed, PatientInv, Sending, Triggers, Resets
  <2> QED
    BY <2>1, <2>2 DEF ServerInv, Safety
<1> QED
  BY <1>1, <1>2, <1>3, <1>4, <1>5, <1>6 DEF MainStep

\* The control thread counts triggers.
LEMMA ControlKeeps == ASSUME ServerInv, ControlStep PROVE ServerInv'
<1> USE ServerAssumption
    DEF stateVars, clientVars, history, ThreadVars, Wake, Pending, AnswersLocked
<1>a. TypeOK /\ Safety
  BY DEF ServerInv, Safety
<1>b. PlacesOK /\ FlagsOK /\ TrafficOK /\ CountsOK
  BY <1>a DEF TypeOK, PlacesOK, FlagsOK, TrafficOK, CountsOK
<1>1. CASE ReceiveCommand
  <2>1. TypeOK'
    <3>1. PlacesOK'
      BY <1>b, <1>1 DEF ReceiveCommand, PlacesOK
    <3>2. FlagsOK'
      BY <1>b, <1>1 DEF ReceiveCommand, FlagsOK
    <3>3. TrafficOK'
      <4>1. UNCHANGED <<answers, frames>>
        BY <1>1 DEF ReceiveCommand
      <4>2. requests' \in Seq(Commands) /\ command' \in Commands
        <5>1. CASE requests # <<>> /\ requests' = Tail(requests) /\ command' = Head(requests)
          BY <5>1, <1>b DEF TrafficOK
        <5>2. CASE requests' = <<>> /\ command' = command
          BY <5>2, <1>b DEF TrafficOK
        <5> QED
          BY <1>1, <5>1, <5>2 DEF ReceiveCommand
      <4> QED
        BY <4>1, <4>2, <1>b DEF TrafficOK
    <3>4. CountsOK'
      BY <1>b, <1>1 DEF ReceiveCommand, CountsOK
    <3> QED
      BY <3>1, <3>2, <3>3, <3>4 DEF TypeOK, PlacesOK, FlagsOK, TrafficOK, CountsOK
  <2>2. Safety'
    BY <1>a, <1>1 DEF ReceiveCommand, TypeOK, Safety, CountInv, PlaceInv, FramesAreOwed,
       BusyHasCause, PatientClientIsServed, PatientInv, Sending, Triggers, Resets
  <2> QED
    BY <2>1, <2>2 DEF ServerInv, Safety
<1>2. CASE ApplyControl
  <2>1. TypeOK'
    BY <1>a, <1>2 DEF ApplyControl, TypeOK, Safety, CountInv, FramesAreOwed
  <2>2. Safety'
    <3>1. CountInv' /\ PlaceInv'
      BY <1>a, <1>b, <1>2 DEF ApplyControl, CountsOK, Safety, CountInv, PlaceInv, Sending
    <3>2. BusyHasCause'
      BY <1>a, <1>b, <1>2 DEF ApplyControl, FlagsOK, Safety, BusyHasCause, Sending
    <3>a. /\ owed \in Nat /\ begun \in Nat /\ triggerPending \in BOOLEAN /\ busy \in BOOLEAN
          /\ hasty \in BOOLEAN
          /\ FramesAreOwed /\ PatientClientIsServed /\ PatientInv /\ Sending' = Sending
          /\ hasty' = (hasty \/ (busy /\ command # "none"))
      BY <1>a, <1>b, <1>2 DEF FlagsOK, CountsOK, Safety, ApplyControl, Sending
    <3>3. CASE command \in Triggers
      <4>1. /\ triggerPending' = TRUE /\ busy' = TRUE
            /\ \/ owed' = 1 /\ begun' = 0
               \/ owed' = owed + 1 /\ begun' = begun
            /\ ~hasty' => ~hasty /\ ~busy
        <5>1. /\ owed' = (IF command \in Resets THEN 0 ELSE owed) + 1
              /\ begun' = IF command \in Resets THEN 0 ELSE begun
          BY <3>3, <1>2 DEF ApplyControl
        <5>2. triggerPending' = TRUE /\ busy' = TRUE
          BY <3>3, <1>2 DEF ApplyControl
        <5>3. ~hasty' => ~hasty /\ ~busy
          BY <3>3, <3>a DEF Triggers
        <5>4. CASE command \in Resets
          BY <5>1, <5>2, <5>3, <5>4
        <5>5. CASE command \notin Resets
          BY <5>1, <5>2, <5>3, <5>5
        <5> QED
          BY <5>4, <5>5
      <4>2. ~hasty' => ~triggerPending /\ ~Sending /\ begun = owed
        BY <4>1, <3>a DEF PatientClientIsServed
      <4>3. ~hasty' => begun' + 1 = owed'
        BY <4>1, <4>2, <3>a
      <4>4. begun' + 1 <= owed'
        BY <4>1, <3>a DEF FramesAreOwed
      <4> QED
        BY <4>1, <4>2, <4>3, <4>4, <3>1, <3>2, <3>a
        DEF Safety, FramesAreOwed, PatientClientIsServed, PatientInv
    <3>4. CASE command \notin Triggers /\ command \in Resets
      <4>1. triggerPending' = FALSE /\ busy' = FALSE /\ owed' = 0 /\ begun' = 0
        <5>1. triggerPending' = FALSE /\ busy' = FALSE
          BY <3>4, <1>2 DEF ApplyControl
        <5>2. owed' = 0 + 0 /\ begun' = 0
          BY <3>4, <1>2 DEF ApplyControl
        <5> QED
          BY <5>1, <5>2
      <4>2. ~hasty' => ~Sending
        BY <3>a, <3>4 DEF PatientClientIsServed, Resets
      <4> QED
        BY <4>1, <4>2, <3>1, <3>2, <3>a
        DEF Safety, FramesAreOwed, PatientClientIsServed, PatientInv
    <3>5. CASE command \notin Triggers /\ command \notin Resets
      <4>1. /\ triggerPending' = triggerPending /\ busy' = busy /\ owed' = owed /\ begun' = begun
            /\ ~hasty' => ~hasty
        BY <3>a, <3>5, <1>2 DEF ApplyControl
      <4> QED
        BY <4>1, <3>1, <3>2, <3>a
        DEF Safety, FramesAreOwed, PatientClientIsServed, PatientInv
    <3> QED
      BY <3>3, <3>4, <3>5
  <2> QED
    BY <2>1, <2>2 DEF ServerInv, Safety
<1>3. CASE NotifyOne
  <2>1. TypeOK'
    BY <1>a, <1>3 DEF NotifyOne, TypeOK, Safety, CountInv, FramesAreOwed
  <2>2. Safety'
    BY <1>a, <1>3 DEF NotifyOne, TypeOK, Safety, CountInv, PlaceInv, FramesAreOwed,
       BusyHasCause, PatientClientIsServed, PatientInv, Sending, Triggers, Resets
  <2> QED
    BY <2>1, <2>2 DEF ServerInv, Safety
<1>4. CASE ReadStatus
  <2>1. TypeOK'
    BY <1>a, <1>4 DEF ReadStatus, TypeOK, Safety, CountInv, FramesAreOwed
  <2>2. Safety'
    BY <1>a, <1>4 DEF ReadStatus, TypeOK, Safety, CountInv, PlaceInv, FramesAreOwed,
       BusyHasCause, PatientClientIsServed, PatientInv, Sending, Triggers, Resets
  <2> QED
    BY <2>1, <2>2 DEF ServerInv, Safety
<1>5. CASE ApplyConfig
  <2>1. TypeOK'
    BY <1>a, <1>5 DEF ApplyConfig, TypeOK, Safety, PlaceInv
  <2>2. Safety'
    BY <1>a, <1>5 DEF ApplyConfig, TypeOK, Safety, CountInv, PlaceInv, FramesAreOwed,
       BusyHasCause, PatientClientIsServed, PatientInv, Sending, Triggers, Resets
  <2> QED
    BY <2>1, <2>2 DEF ServerInv, Safety
<1>6. CASE SendAnswer
  <2>1. TypeOK'
    <3>1. PlacesOK'
      BY <1>b, <1>6 DEF SendAnswer, PlacesOK
    <3>2. FlagsOK'
      BY <1>b, <1>6 DEF SendAnswer, FlagsOK
    <3>3. TrafficOK'
      BY <1>b, <1>6 DEF SendAnswer, TrafficOK
    <3>4. CountsOK'
      BY <1>b, <1>6 DEF SendAnswer, CountsOK
    <3> QED
      BY <3>1, <3>2, <3>3, <3>4 DEF TypeOK, PlacesOK, FlagsOK, TrafficOK, CountsOK
  <2>2. Safety'
    BY <1>a, <1>6 DEF SendAnswer, TypeOK, Safety, CountInv, PlaceInv, FramesAreOwed,
       BusyHasCause, PatientClientIsServed, PatientInv, Sending, Triggers, Resets
  <2> QED
    BY <2>1, <2>2 DEF ServerInv, Safety
<1> QED
  BY <1>1, <1>2, <1>3, <1>4, <1>5, <1>6 DEF ControlStep

\* The image thread turns a trigger into a frame.
LEMMA ImageKeeps == ASSUME ServerInv, ImageStep PROVE ServerInv'
<1> USE ServerAssumption
    DEF stateVars, clientVars, history, ThreadVars, Wake, Pending, AnswersLocked
<1>a. TypeOK /\ Safety
  BY DEF ServerInv, Safety
<1>b. PlacesOK /\ FlagsOK /\ TrafficOK /\ CountsOK
  BY <1>a DEF TypeOK, PlacesOK, FlagsOK, TrafficOK, CountsOK
<1>1. CASE TestCondition
  <2>1. TypeOK'
    BY <1>a, <1>1 DEF TestCondition, TypeOK, Safety, CountInv, FramesAreOwed
  <2>2. Safety'
    <3>1. CountInv' /\ PlaceInv'
      BY <1>a, <1>b, <1>1 DEF TestCondition, CountsOK, Safety, CountInv, PlaceInv
    <3>2. BusyHasCause'
      BY <1>a, <1>b, <1>1 DEF TestCondition, FlagsOK, Safety, BusyHasCause, Sending
    <3>a. /\ owed \in Nat /\ begun \in Nat /\ triggerPending \in BOOLEAN /\ ~Sending
          /\ FramesAreOwed /\ PatientClientIsServed /\ PatientInv
          /\ UNCHANGED <<owed, busy, hasty>>
      BY <1>a, <1>b, <1>1 DEF FlagsOK, CountsOK, Safety, TestCondition, Sending
    <3>3. CASE running /\ triggerPending
      <4>1. triggerPending' = FALSE /\ Sending' /\ begun' = begun + 1
        BY <3>3, <1>1 DEF TestCondition, Sending
      <4>3. begun + 1 <= owed /\ (~hasty => begun + 1 = owed /\ busy)
        BY <3>3, <3>a DEF FramesAreOwed, PatientClientIsServed
      <4> QED
        BY <4>1, <4>3, <3>1, <3>2, <3>a
        DEF Safety, FramesAreOwed, PatientClientIsServed, PatientInv
    <3>4. CASE ~(running /\ triggerPending)
      <4>1. triggerPending' = triggerPending /\ ~Sending' /\ begun' = begun
        <5>1. triggerPending' = triggerPending
          BY <3>4, <3>a, <1>b, <1>1 DEF TestCondition, FlagsOK
        <5>2. image' \in {"ended", "waiting"} /\ begun' = begun
          <6>1. image' \in {"ended", "waiting"}
            BY <3>4, <1>1 DEF TestCondition
          <6>2. begun' = begun
            BY <3>4, <1>1 DEF TestCondition
          <6> QED
            BY <6>1, <6>2
        <5> QED
          BY <5>1, <5>2 DEF Sending
      <4> QED
        BY <4>1, <3>1, <3>2, <3>a
        DEF Safety, FramesAreOwed, PatientClientIsServed, PatientInv
    <3> QED
      BY <3>3, <3>4
  <2> QED
    BY <2>1, <2>2 DEF ServerInv, Safety
<1>2. CASE SendPart
  <2>1. TypeOK'
    <3>1. PlacesOK'
      BY <1>b, <1>2 DEF SendPart, PlacesOK
    <3>2. FlagsOK'
      BY <1>b, <1>2 DEF SendPart, FlagsOK
    <3>3. TrafficOK'
      <4> DEFINE Parts == {"header", "payload"}
      <4>1. UNCHANGED <<command, requests, answers>>
        BY <1>2 DEF SendPart
      <4>2. image \in Parts /\ frames \in Seq(Parts) /\ frames' \in {Append(frames, image), frames}
        BY <1>2, <1>b DEF SendPart, TrafficOK
      <4>3. frames' \in Seq(Parts)
        <5> HIDE DEF Parts
        <5> QED
          BY <4>2
      <4> QED
        BY <4>1, <4>3, <1>b DEF TrafficOK
    <3>4. CountsOK'
      BY <1>b, <1>2 DEF SendPart, CountsOK
    <3> QED
      BY <3>1, <3>2, <3>3, <3>4 DEF TypeOK, PlacesOK, FlagsOK, TrafficOK, CountsOK
  <2>2. Safety'
    BY <1>a, <1>2 DEF SendPart, TypeOK, Safety, CountInv, PlaceInv, FramesAreOwed,
       BusyHasCause, PatientClientIsServed, PatientInv, Sending, Triggers, Resets
  <2> QED
    BY <2>1, <2>2 DEF ServerInv, Safety
<1>3. CASE FinishFrame
  <2>1. TypeOK'
    <3>1. PlacesOK'
      BY <1>b, <1>3 DEF FinishFrame, PlacesOK
    <3>2. FlagsOK'
      BY <1>b, <1>3 DEF FinishFrame, FlagsOK
    <3>3. TrafficOK'
      BY <1>b, <1>3 DEF FinishFrame, TrafficOK
    <3>4. CountsOK'
      BY <1>b, <1>3 DEF FinishFrame, CountsOK
    <3> QED
      BY <3>1, <3>2, <3>3, <3>4 DEF TypeOK, PlacesOK, FlagsOK, TrafficOK, CountsOK
  <2>2. Safety'
    BY <1>a, <1>3 DEF FinishFrame, TypeOK, Safety, CountInv, PlaceInv, FramesAreOwed,
       BusyHasCause, PatientClientIsServed, PatientInv, Sending, Triggers, Resets
  <2> QED
    BY <2>1, <2>2 DEF ServerInv, Safety
<1> QED
  BY <1>1, <1>2, <1>3 DEF ImageStep

LEMMA ServerNext == ServerInv /\ [Next]_vars => ServerInv'
<1> SUFFICES ASSUME ServerInv, [Next]_vars PROVE ServerInv'
  OBVIOUS
<1>1. CASE UNCHANGED vars
  BY <1>1 DEF vars, stateVars, clientVars, history, ServerInv, TypeOK, AnswersLocked, CountInv, PlaceInv,
     FramesAreOwed, BusyHasCause, PatientClientIsServed, PatientInv, Sending
<1> QED
  BY <1>1, ClientKeeps, MainKeeps, ControlKeeps, ImageKeeps DEF Next

\* Every variable keeps its type, and nobody but main.cpp that answers QUERY_STATUS
\* keeps the mutex from one step to the next.
THEOREM ServerTypeCorrect == Spec => []TypeOK
<1>1. ServerInv => TypeOK
  BY DEF ServerInv
<1> QED
  BY <1>1, ServerInit, ServerNext, PTL DEF Spec

\* RESET never leaves a server busy with nothing that would clear it (ControlThreadMain
\* and ImageThreadMain in any order).
THEOREM BusyIsCaused == Spec => []BusyHasCause
<1>1. ServerInv => BusyHasCause
  BY DEF ServerInv
<1> QED
  BY <1>1, ServerInit, ServerNext, PTL DEF Spec

\* No frame is begun without a trigger since the last RESET.
THEOREM EveryFrameIsOwed == Spec => []FramesAreOwed
<1>1. ServerInv => FramesAreOwed
  BY DEF ServerInv
<1> QED
  BY <1>1, ServerInit, ServerNext, PTL DEF Spec

\* A client that waits for READY loses no frame and reads BUSY while one is owed,
\* however many it asks for.
THEOREM PatienceIsServed == Spec => []PatientClientIsServed
<1>1. ServerInv => PatientClientIsServed
  BY DEF ServerInv
<1> QED
  BY <1>1, ServerInit, ServerNext, PTL DEF Spec
=============================================================================
