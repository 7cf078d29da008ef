# SpectraBridge: a verification project

TLA+ models of SpectraBridge, the native bridge between a Java application and an
FPGA camera: what the code does, what was checked of it with TLC, and what was
proved with TLAPS. All paths below are relative to the repository.

## 1. The system

    Java threads ──> SpectraBridgeNative ──JNI──> NativeContext
                        (stateLock)                 ├─ JniBridge   (callback_mutex_)
                             ▲                      └─ SpectraBridgeClient
                             │ BridgeListener           │ lifecycle_mutex_, control_send_mutex_, running_
                             └──── callbacks ───── control worker ── TcpClient ── control TCP ── FPGA
                                                   image worker   ── TcpClient ── image TCP   ── FPGA

| Part | State | Operations | Interacts by |
|---|---|---|---|
| `TcpClient` (`src/src/network/TcpClient.cpp`) | one atomic socket handle | `Connect`, `Close`, `SendAll`, `RecvAll` | called by controllers, senders and workers at once; the OS descriptor table is shared |
| `SpectraBridgeClient` (`src/src/service/`) | `running_`, two mutexes, two `std::thread`, `config_` | `Connect`, `Disconnect`, `Send*`, two receive loops, `HandleWorkerFailure` | threads; callbacks into `BridgeCallbacks` |
| Image protocol, conversion (`src/include/protocol/ImageProtocol.h`, `src/src/image/`) | none | header checks, payload size, 4-lane reordering, 12 to 8 bit, CRC | pure functions called by the image worker |
| Control protocol (`src/include/protocol/ControlProtocol.h`) | none | packets of commands, status, acknowledgements | pure functions called by senders and the control worker |
| `JniBridge`, `NativeContext`, exports (`src/src/bridge/`) | `callback_mutex_`, global reference, attached threads | five callbacks, create, destroy, connect ... | called by workers; calls the Java listener |
| `SpectraBridgeNative` (`src/java-design/`) | `nativeHandle` under `stateLock` | `connect`, `disconnect`, `sendXxx`, `isClosed`, `close` | Java threads and callbacks |
| Test FPGA server (`src/main.cpp`, `src/tools/mock-fpga/`) | `SharedState` under a mutex and a condition variable | control thread, image thread, shutdown | two TCP connections |
| Fixture images (`src/main.cpp`) | banks of images | options, loading, drawing, payloads, self-test | sequential |

Hard behaviours: five kinds of threads and four locks; sockets closed by one thread
while another uses them; descriptors reused by the operating system; a worker that
fails while a lifecycle call is under way; partial sends and receives; callbacks that
call back; a server that answers while it is being reset.

### What makes each part correct

* `TcpClient`: a socket is closed once, by one thread; a packet goes out whole, or the
  call fails; a received message is exactly the bytes asked for.
* `SpectraBridgeClient`: one error report for a session that fails and none for one that
  is stopped; nothing left behind by `Disconnect` or a failed `Connect`; both workers of a
  session end together; every call returns.
* Image protocol and conversion: only true pictures, in order, each pixel in its place;
  no size computed from the network wraps or exceeds its limit; no sound frame refused.
* Control protocol: commands and answers keep their framing and their order, and a full
  connection keeps no caller waiting for ever (the code falls short of this: section 6).
* `JniBridge`, `NativeContext`: nothing is used after `close()` freed it; whatever the JVM
  refuses, a callback gives back its mutex, its attachment and its references.
* `SpectraBridgeNative`: no cycle of `stateLock`, `lifecycle_mutex_`, `callback_mutex_`
  and a join keeps a caller waiting.
* Test server: status and frames agree with the triggers; no wakeup is lost; it stops.
* Fixture images: what the server sends is what the bridge's converter gives back.

## 2. Plan

The order is by importance to the system.

1. `BridgeSession`: the client and its sockets. **Done**, with its proofs.
2. `JavaBridge`: the JNI layer and what it asks of the JVM. **Done**, proved.
3. `FpgaServer`: the test server. **Done**, proved.
4. `ImageFrame`, `ImageStream`: the image path. **Done**, with the proofs of its arithmetic,
   of `PictureRoundTrip`, and of what the worker delivers and refuses.
5. `ControlProtocol`, `ControlLink`: the bytes of the control channel, composed of the
   client's senders and worker and the server's control thread. **Done**, proved.
6. `Session`, what the owner of a client is promised: implemented by `BridgeSession`
   and by the reduced client in `JavaBridge`. **Done**, both checked and proved.
7. `TestImages`: the images of the test server. **Done**, proved.
8. Left: a channel of pictures as the abstract specification of `ImageStream`.

Of the properties of the passing runs only the liveness ones are without a theorem.

## 3. BridgeSession

Models `SpectraBridgeClient` and its two `TcpClient`s, one action per atomic step: an
access to `running_`, to a socket handle, to a mutex, or one system call.

* `Controllers` call `Connect`/`Disconnect`, `Senders` call `Send*`; the two workers are
  named after their channel. `pc` says where each thread is; its labels are named after
  the code (`con_*` in Connect, `catch_*` in its catch block, `dis_*` in Disconnect,
  `fail_*` in HandleWorkerFailure, `recv*` in RecvAll, `send_*` in SendAll).
* `handle` is `socket_handle_`, `table` the descriptor table. `DialSucceeds` takes any
  free descriptor and `CloseNative` frees it, so a stale descriptor can come to name
  another connection. `local` is the handle in a thread's local variable.
* `Close()` is two steps, `CloseExchange` and `CloseNative`, at each of its nine call sites.
* Assigning to a joinable `std::thread` is `SpawnTerminates`: every thread is `dead`.
* `CloseWakesRecv` is the platform: `closesocket()` wakes a blocked `recv()`, POSIX
  `close()` does not, and the `recv()` goes on holding its connection.
* `send()` and `recv()` may fail at any time, on a connection that is up as well
  (`SendError`, `RecvError`): a `SendAll` that fails with the head of a packet sent leaves it
  there. `broken` is the history of the packets whose `send()` failed.
* Messages are abstracted to a first part and a rest; each can arrive, be malformed,
  or fail. The first part is the type byte or the 32-byte header: the only place where
  a failing receive is excused once `running_` is false. Of a message in several parts
  (header, extension, payload) the model has two.
* `Session` is the abstract specification: a session starts, is stopped, or fails, and
  then one worker owes one report; each worker tells one thing at a time; once the threads
  are joined (`Settle`) nothing is told. `ImplementsSession` maps `running` to `up`, a
  joinable thread to `live`, a worker in `callback` to `calling`, and an attempt taken by
  `running_.exchange(false)` but not reported to `owed`.
* Not modelled: the contents of `config_`, error texts, `getaddrinfo` and the sockets of
  addresses that do not answer, SIGPIPE.

### Runs

| Run | Instance | Shows |
|---|---|---|
| `lifecycle` | 2 controllers, 3 descriptors, 2 attempts, POSIX close | `TypeOK`, with the scope of the two mutexes; `DescriptorsHaveOneOwner`: no double close, no leak; `OneErrorPerAttempt`; `DisconnectLeavesNothing`; `FailedConnectLeavesNothing`; `RunningIsServed`: the workers of a running session use its own sockets; `ImplementsSession` |
| `send` | 1 controller, 2 senders, 1 packet each | `PacketsNeverInterleave`: the head of a packet is followed by its own tail, unless the `send()` of that very packet failed |
| `live` | 1 controller, 1 attempt, closesocket | `DisconnectReturns`, `FailureIsReported`, `FailureStopsBoth` |
| `posix_disconnect` (violation) | as `live`, POSIX close | Disconnect waits for ever in `join` |
| `reconnect` (violation) | 1 controller, 2 attempts | Connect after a failure ends the process |
| `split_send` (violation) | 1 sender, 2 attempts | a packet is split over two connections and SendAll returns true |

Bounds. Two attempts are what it takes for a stale thread or descriptor to meet a new
session, and three descriptors allow the new session to get both an old and a new one.
Two controllers are enough for every order of two lifecycle calls, the mutex excluding
more. One packet of two chunks per sender is the shortest that can interleave.

Fairness. Weak fairness of each thread inside a call: the scheduler runs every thread
that can run, and `connect()` and listeners return. A worker whose `recv()` waits
(`RecvWaits`: the peer has not closed, and no close of ours woke it) cannot run: it may fail
but need not. Nothing obliges the peer to send, to answer or to close, nor a user to make a
call.

## 4. JavaBridge

Models `SpectraBridgeNative` (`stateLock`, `nativeHandle`), the functions of
`JniExports.cpp`, `NativeContext` and `JniBridge` (`callback_mutex_`). The session below
is reduced to `running`, `lifecycle` and two workers that deliver, fail and are joined.

* `call` and `at` say which method a thread is in and how far: `handle` is before the
  handle is read, `native` inside the exported function, `sending` in `SendAll`, `dialing` in
  `Connect`, the `Starting` places where it makes its two threads, the `Joining` places in
  `Disconnect` and in the catch block of `Connect`, `again` the second `Disconnect` (in
  `~JniBridge`), and `free` before the context is deleted.
* `RequireHandle` reads the handle under `stateLock` and releases it; `LockState` keeps
  it, as `disconnect()` and `close()` do.
* `Create` and `CreateFails` are `nativeCreate` with `JniBridge::Create`; `globalRef` is the
  listener's global reference.
* `NativeSend` takes `control_send_mutex_` and `SendEnds` gives it back when `SendAll` returns,
  which may be never: it has no time limit.
* `ConnectFails` is a connection refused, `StartFails` a `std::thread` that cannot be made: the
  catch block clears `running_` and joins.
* `loop` is where a worker is. A callback takes `callbackLock`, attaches its thread
  (`Attach`), makes its Java objects (`MakeObject`, counted by `refs`), is inside the
  listener at `java`, where it may `Begin` a method in its turn, and undoes everything
  (`Undo`). The JVM may refuse at each step (`AttachFails`, `MakeFails`), and a listener may
  throw (`pending`). The HDR callback fills its two planes one after the other and asks for an
  exception behind the second only (`FillFirstPlane`, `FillSecondPlane`). `lost` notes that an
  OnTransportError was given up.
* `overlapped` are the threads in a call that overlaps, or has overlapped, `close()`. A thread
  leaves the set when its call returns, so it excuses no later call.
* A worker that joins itself, and a `Connect` that assigns to a joinable thread, set
  `process` to `aborted`. `UseFreed` is a native call with a freed context: its outcome is
  undefined, and the model lets the call end or the process abort.
* Workers are attached by no one else, so `AcquireThreadEnv` always attaches. The listener
  is told five things; the model tells them apart by the objects they need.
* `CloseWakes` is the platform: only where closing a socket wakes what blocks on it does the
  end of a session oblige a blocked `recv()` or `send()` to return.

| Run | Instance | Shows |
|---|---|---|
| `java_bridge` | 2 Java threads, 3 calls, a listener that may call every method, closesocket | `TypeOK`, with the scope of every lock; `LateCallsAreRefused`: only a `connect()` or `sendXxx()` that `close()` itself has overlapped can meet a freed context; `CloseLeavesNothing`; `CallbacksAreClean`; `AbortHasCause`: what can end the process, and nothing else; `ImplementsSession`; `CallsReturn`: every call returns, but for a send the FPGA does not read and a join that cannot end (`JoinCycle`); `ErrorIsTold`, while the listener makes no calls |
| `close_race` (violation) | 2 Java threads, 2 calls | a `sendXxx()` or `connect()` goes on with the freed context |
| `listener_send` (violation) | 1 Java thread, 3 calls, a listener that sends | `disconnect()` and the listener's `sendXxx()` wait for each other |

Three calls let one thread connect, the other close, and a third call (of either, or of the
listener) overlap or follow them; what a third thread adds is another call of the same kinds.
Fairness is weak fairness of each thread inside a call and of each worker, `PeerStep` and
`PeerReads` aside: nobody has to call anything, and the peer owes nothing. A listener is taken
to return once the calls it makes have returned: one that blocks for ever holds
`callback_mutex_` and stops everything that needs it.

Two things the model makes plain. The HDR callback makes a JNI call that may find an exception
pending (`JniBridge.cpp:334-335`); `CallbacksAreClean` names that call, and there is no
other. And a listener can stop a join in more ways than one: its `sendXxx()` waits for the
`stateLock` of the caller that joins it, or, called by the image worker, its `disconnect()`
joins the control worker, which waits for the `callback_mutex_` that the listener holds.

One thing no model here says: `src/java-design` is a design, and does not link with the
exported functions as it stands. Its package is `com.spectrabridge.jni`, and its `nativeConnect`
takes five arguments; the exported symbols are those of `springbootjni.jni`
(`JniExports.cpp:117` and the lines like it), and their `nativeConnect` takes the expected
width and height, the pixel format and the readout order too. The model takes the class for
the Java side of those functions: its locks and the order of its calls do not depend on either.

## 5. FpgaServer

Models `src/main.cpp` and `src/tools/mock-fpga/MockFpgaServer.cpp`; `program` says which.
They differ in one thing: `main.cpp` keeps the mutex while it answers `QUERY_STATUS`
(`main.cpp:1352`), so a client that does not read that answer (`AnswerBlocks`) stops the
image thread as well.

* `main`, `control` and `image` are the three threads' places; `mutex` is only held
  between steps where the code sends with it. A wait on the condition variable is
  `image = "waiting"`, ended by `NotifyOne` or `NotifyAll`.
* The client is free: any commands, reading or not, closing either connection at any time.
  `requests`, `answers` and `frames` are the connections, the last two of bounded capacity.
* `owed` and `begun` are history: triggers and frames since the last RESET. `hasty` notes a
  trigger or RESET that came while the status was BUSY.
* `SharedState` is made before the two connections are accepted in the model and after in
  the code; no thread can see the difference.

| Run | Instance | Shows |
|---|---|---|
| `fpga_server` | 3 commands, connections of one answer and one part of a frame | `BusyHasCause`, `FramesAreOwed`: status and frames against triggers and RESETs in any order; `PatientClientIsServed`: a client that waits for READY gets a frame for every trigger and reads BUSY until then; `TriggerIsServed`: no lost wakeup; `ServerStops`, even in the middle of an unread frame; `FrameIsNoted`: a frame that was sent is noted and BUSY cleared, whatever the client does. In `main.cpp`, `TriggerIsServed` and `FrameIsNoted` except `AnswerBlocks`; `ServerStops` excepts nothing |

Three commands are what it takes to trigger, reset and trigger again around one frame; a
connection of one part is full while the header is unread, so the image thread blocks
before and within a frame. Fairness is weak fairness of the three threads.

Only one trigger is kept: a client that does not wait for READY may get fewer frames than it
asked for, and reads READY between two of them. No document promises otherwise.

## 6. ControlProtocol and ControlLink

`ControlProtocol` holds the packets as bytes and the rule by which each end decides how
many bytes it needs (`CommandLength`, `AnswerLength`). `ControlLink` composes, over one
connection, `SendControlBytes` and `SendAll` of the Java threads and of the listener, the
`ControlReceiveLoop`, and the server's `ControlThreadMain`:

* `up` and `down` are the bytes on their way, both bounded: a send waits when the other end
  does not read. Every send takes any part of its bytes, every receive what has arrived.
* The listener sends from the callbacks of both workers, `Worker` (control) and `Image`.
  `callbackLock` is `callback_mutex_`: the control worker waits for it in `WorkerTells` and
  `WorkerReports`, also while the image worker's listener is in a `sendXxx()`. Of the image
  worker there is only that (`ImageCalls`, `ImageReturns`).
* Calls also fail on a connection that is up: `SendFaults` is a `send()` with part of a packet
  out, after which `SendAll` returns false and the session goes on (`cut` is the first packet
  this happened to); `WorkerFaults` is a `recv()` of the control worker, which ends the session
  (`broken` notes it); `FpgaFaults` is either at the other end.
* `GivesUp`, `HandleFailure` and `FpgaEnds` are the ends of the three parts; a session may stop
  at any step (`SessionStops`). Bytes on their way may be lost with a connection.
* The content of a status is left out: the k-th answer says k modulo 2^16, the width of the
  field that carries it, which tells answers apart.
* `CloseWakes` is the platform, as in `JavaBridge`.

| Run | Instance | Shows |
|---|---|---|
| `control_link` | 1 Java thread and the listener on both workers, 3 sends, 1 callback of the image worker, 1 fault, queries and CONFIGs of one register, 1 byte up and 4 down, closesocket | `TypeOK`, with the scope of `callback_mutex_`; `CommandsArriveInOrder`; `AnswersAreTold`; `ErrorHasCause`: the worker reports only an end of the connection or a failed `recv()`, never a malformed answer; `SendsReturn` and `CommandsAreAnswered`: with one exception, `CircularWait`, which the instance reaches under the listener of either worker |

One byte is less than any packet and four less than any answer, so every packet and answer is
in pieces, and three sends fill both directions. A CONTROL is left out of the instance: it has
the length and the answer of a query; the theorems are for every command. Fairness is weak
fairness of each thread whose call does not wait for the other end (`SendWaits`, `RecvWaits`,
`FpgaWaits`); the listener returns when what it called has. With POSIX `close()` a
`SendAll` under way when the session stops may wait for ever, and `SendsReturn` fails:
`CloseWakes` is needed there as for `Disconnect` in section 3.

Two things the model makes plain. A listener that sends from a callback, while the FPGA's
answers fill the other direction, waits for the FPGA, which waits for the control worker to
read, which is in that callback or waits for its `callback_mutex_` (`CircularWait`). That
contradicts `SpectraBridgeClient.h:45` ("Java/JNI threads only send and do not wait for the
FPGA"), the line that `listener_send` refutes in another way; here it is an exception of
`SendsReturn`, which says that nothing else keeps a sender waiting. And a TRIGGER_ONCE cut
after its first byte and followed by another is `01 01 02` to the server, a CONTROL with the
RESET bit: hence the exception of `cut` in `CommandsArriveInOrder`.

## 7. ImageFrame and ImageStream

`ImageFrame` holds the pure part: `ParseImageFrameHeader` with the order of its checks,
`PayloadSizeFits`/`PayloadSize` in wrapping `size_t` arithmetic, `Destination` (where the
receiver writes a pixel) and `PayloadIndex` (where the sender put it), the twelve-bit check
(`HighBitsAreZero`), the mask that follows it (`Pixel12`) and the scaling to eight bits. `ImageStream` is `ImageReceiveLoop` on a stream of bytes:

* a frame is `HeaderSize` header bytes, an extension, and two bytes for each pixel; a
  receive takes as many bytes as the code asks for, wherever frames begin, so a frame
  that is too short or too long shifts what follows;
* the FPGA sends numbered pictures, single or HDR, in which no two of the first 4096 pixels
  are equal, and any frame may have one of nine faults (`Faults`). `log` and `delivered` are history;
* `buffer` is the size of the vector allocated for what is being received;
* the CRC is abstracted to the payload, as if no damage went undetected; with `verify_crc`
  off it is not looked at. Bytes of a header taken for pixels have an arbitrary value;
* what is delivered has the twelve-bit pixels and their gray values (`pixels8`);
* `ReceiveFails` is the end of the connection or of the session, `ReceiveBreaks` a `recv()` that
  fails on a connection that is up (`broken`). `CloseWakes` is the platform: where a close does
  not wake a blocked `recv()`, the worker may wait for ever in a session that was stopped
  (`RecvWaits`);
* `SessionStops` is Disconnect or the other worker. `expected_pixel_format` has one value, the
  only one that `ParsePixelFormat` (`JniExports.cpp:90`) accepts.

| Run | Instance | Shows |
|---|---|---|
| `image_stream` | 2 frames; 8x1, and 3x3, which four lanes cannot have and whose HDR frames exceed the limit; both readout orders; CRC verified or not; closesocket | `TypeOK`, with the twelve and eight bits of every pixel delivered; `PicturesAreTrue`: what is delivered is what was taken, in order, whatever the faults with the CRC verified and up to the first fault without; `FaultsAreNoticed`: a frame with a wrong field or size, with high bits set, or cut short is never delivered, and needs no CRC to be noticed; `BuffersAreBounded`; `SoundFramesAreAccepted`: no frame before the first fault ends the session, whatever comes behind it; `PicturesArrive`; `WorkerEnds`: the worker ends with its session or its connection, also in the middle of a frame |

Two frames show a fault in one and its consequence for the next, and a sound frame before
a faulty one. Eight pixels are two samples for each lane, the least for which the lanes'
order differs from the row's; 3x3 has several rows, in the order of rows. A picture of several
rows in four lanes would need frames twice as long as 8x1: that its pixels find their places is
left to `PictureRoundTrip`, which is proved for every size. Sizes are scaled: a header of 2
bytes, at most 3, a limit of 32 bytes and a `size_t` of 8 bits; the theorems are for every size.
`FaultsAreNoticed` is separate from `PicturesAreTrue` because the mask behind the twelve-bit
check would hide what the check lets pass. Fairness: the worker runs, unless its `recv()` waits.
The FPGA need not send, complete or close anything, and no `recv()` has to break.

## 8. TestImages

The images of `spectra_bridge_test`: `ParseOptions` and the scenes it accepts, the banks of
images they select, `PayloadFor` (the 12-bit payload made of a gray image, or of an HG and an
LG one), the header, and `SelfTest`, which parses and converts it with the bridge's own code
and compares. What is drawn on an image, or stands in a file, is left open: any gray image
of 800x600. `ScaleImage8` and `ClampGray8` are kept, as the images of `--image` depend on them.

The self-test's fallback for an image without an LG plane differs from the payload builder's
(a quarter of the gray values there, of the 12-bit values here). `BanksAreComplete` shows that
neither fallback is ever taken. The module has no variables and so no run; it is proved.

## 9. Proofs

### BridgeSession

`BridgeSession_proofs` proves for every number of controllers, senders, descriptors,
attempts and packets, and for both values of `CloseWakesRecv`: `TypeCorrect`,
`OneError`, `OneOwner` and `DisconnectClean`, the theorems `Spec => []P` of the first
four invariants of `lifecycle`.

All follow from one inductive invariant, `IInv`:

* `LifecycleInv`: a controller inside a call owns `lifecycle_mutex_`;
* `TerminateInv`: `std::terminate` stops every thread or none;
* `AttemptInv`: `running_`, `epoch`, `took` and `reports` agree on who ended an attempt.
  `OneErrorPerAttempt` alone is not inductive: it needs that the attempt a worker has
  taken but not reported is failed, unreported, and taken by no other worker;
* `LocalInv`: which local variables hold a handle;
* `ClosedInv`: after its `Close()`, the controller finds the channel closed until it
  dials, as only the owner of the mutex stores a handle;
* `OwnerInv`: open descriptors are owned, owned ones are open, no two owners;
* `JoinInv`: a worker outlives neither its `std::thread` nor its join.

`OwnerInv` is the core: `CloseExchangeOwner`, `CloseNativeOwner` and `DialOwner` say
how the three kinds of steps move ownership, and `OwnersKept` that others do not.
The assumptions are `ThreadsAssumption`, `SocketsAssumption` and `BoundsAssumption`.

`SessionRefined` is `Spec => ImplementsSession`: the initial state maps to an initial state of `Session` and every step to a step or a stutter. It adds to
`IInv` what the mapping needs: `TookInv` (a worker has taken an attempt exactly while it is in
HandleWorkerFailure), `StartedInv` (a running session has joinable workers or is being
started) and `StoppedInv` (where the controller is between its joins).

`BridgeSession_serving` proves the remaining invariants of `lifecycle` and `send`:
`RunningServed`, `FailedConnectClean` and `PacketsWhole`. They say which connection is behind
a handle, which `IInv` does not know, and need a second inductive invariant, `CInv`:

* `MadeInv`: a connection is made once, for the handle of its channel, and has one descriptor;
* `RunningInv`: the threads of a Connect that failed and of a Disconnect find `running_` false;
* `ServedInv`: from its dials on, a Connect that no worker of an earlier session can disturb
  holds its own connections, and so does the session it starts, until `running_` is cleared.
  It covers the states in between, where one worker runs and the other does not yet;
* `FailedInv` and `TriedInv`: a Connect that failed has given up its image connection, and is
  an attempt, which tells its connections from a free descriptor;
* `SendInv` and `WireInv`: a sender in a call owns `control_send_mutex_`, and where a packet's
  head is the last thing sent, its sender is about to send the tail, or its `send()` has failed
  (`broken`), or nothing more can be sent there. Without `WireInv` a connection left with half a packet, because its descriptor
  was closed between the head and the tail, could be sent to again.

`ControllerFrame`, `WorkerFrame` and `SenderFrame` say what the steps of each role leave alone.

### JavaBridge

`JavaBridge_proofs` proves, for every number of Java threads and calls, every set of methods
the listener may call, and a JVM that refuses or throws at any point (`AppsAssumption`,
`UsageAssumption`), the five invariants of `java_bridge`. The inductive invariant `JavaInv`
has a Java side and a worker side:

* `CallInv`, `HandleInv`: which method a thread is in where, and that the handle is set exactly
  while the context is alive, as both are cleared under `stateLock`;
* `LocksOK` (of `TypeOK`): where each lock is held. `stateLock` covers the native part of
  `disconnect()` and `close()`, so the thread that frees the context is the only one in them,
  which `LateCallsAreRefused` needs; `lifecycle_mutex_` covers the joins, so no `Connect` starts
  workers between the join of one worker and the next;
* `OverlapInv`: whatever overlaps `close()` is noted in `overlapped`, and stays there until its
  call returns; a thread found inside native code with a freed context is one of them;
* `SessionInv`: workers that exist are joinable, the control worker is started and joined before
  the image worker, and `free` is reached with none left unless a call overlapped `close()`.
  This is what `CloseLeavesNothing` rests on;
* `CallbackInv`: only inside a callback is a thread attached or holds references, and while the
  two planes of an HDR frame are filled there are two. `CallbacksAreClean` rests on it.

`CreateKeeps`, `BeginKeeps`, `CallKeeps`, `WorkerKeeps` and `AbortKeeps` go through the actions.

`JavaSessionRefined` is `Spec => ImplementsSession`. `Session` sees `running` as `up`, a running
session or a joinable worker as `live`, and a worker that has something to tell, from the lock
of the callback to the end of `Undo`, as `calling` or, if it is an error, as `owed`; an abort
ends both. The lemmas `ConnectStarts`, `WorkerStarts`, `StopStops`, `JoinSettles`, `NewsArrives`, `NewsIsTold`
and `AbortDies` are the steps that `Session` sees; `CallRests` and `PlaceRests` show that the
others stutter. The mapping rests on `SessionInv`: whoever tells something has a joinable thread, and nobody joins
while `running` is set. The JVM that refuses an attachment or an object is included: the
callback is then over without the listener having heard, which `Session` does not forbid and
`lost` notes.

### FpgaServer

`FpgaServer_proofs` proves, for any number of commands and any capacity of the connections
(`ServerAssumption`), the four invariants of `fpga_server`. `ServerInv` adds three facts:

* `CountInv`: each trigger comes from a command of its own, which bounds `owed`;
* `StartInv`: the image thread is started once, after both clients are accepted;
* `PatientInv`: as long as the client has been patient, no trigger is pending while a frame
  is being sent. Without it the end of one frame could clear the BUSY of the next.

### ControlLink

`ControlLink_proofs` proves, for any number of Java threads, sends and faults, any capacity of
the two directions and any number of registers that 16 bits hold (`LinkAssumption`,
`RegCountAssumption`), the four invariants of `control_link`: `LinkTypes`, `CommandsInOrder`,
`AnswersTold` and `ErrorsHaveCause`. The run sees packets in pieces of one byte; the
theorems see every way to cut a stream. The invariant `LinkInv` has four parts:

* `BaseInv`: the types, that `control_send_mutex_` is with the one caller that is sending,
  and that what this caller has still to send is an end of its packet;
* `ListenerInv`: `callback_mutex_` is with the worker that is in a callback, and only from there
  does the listener send;
* `AnswersInv`: the bytes the worker holds, those on their way and those the FPGA has still
  to send are, joined, five bytes for each answer of which the listener was not told
  (`Carries`). `AnswersAreTold` alone says nothing of the bytes in between. That no answer
  is malformed, hence `ErrorHasCause`, follows from it;
* `CommandsInv`: what the FPGA holds, what is on its way and what the sender has left are,
  joined, the packets behind those handled, each at the offset where the earlier ones end
  (`Framed`, `InStep`). A packet's length depends on its first byte, so the FPGA finds the
  border of the next packet only if it stands at the border of this one. Once a send has
  failed the packets are framed up to the one that was cut. `UnsentIsNew` covers the moment
  between the choice of a packet and its first byte.

### Images

`ImageFrame_proofs` proves, for every width, height and `size_t` (`SizesAssumption`):

* `PayloadSizeNeverWraps`: the guards by division succeed exactly if the true size fits, and
  then the computed size is the true one. It rests on `DivisionGuard` (a quotient bounds a
  factor as the product bounds it);
* `DestinationIsInjective`, `DestinationIsOnto`: the 4-lane reordering and the sender's
  interleaving are inverse to each other on a whole picture. They rest on `Split` (division
  undoes multiplication and addition);
* `GrayScale`: eight-bit values are in range and in the order of the twelve-bit ones;
* `PictureRoundTrip`: for every picture of twelve-bit pixels and both readout orders, the
  payload the FPGA makes of it has the announced size, passes the twelve-bit check, and is
  converted back into the same picture. `PlacesAgree` says that each pixel is written,
  `WrittenOnce` that it is written by one sample only, `HalvesMake` that two bytes make a value.

`ImageStream_proofs` proves, for any formats, limits and width of `size_t` and any number of
frames (`SizesAssumption`, `StreamAssumption`), the five invariants of `image_stream`:
`StreamTypes`, `BuffersBounded`, `PicturesTrue`, `FaultsNoticed` and `SoundAccepted`. The assumptions are what
the code ensures: `IsValidDimension` refuses a width or height of zero
(`JniExports.cpp:85-88`, `:194`), and `kMaxImagePayloadBytes` is a `size_t`. The invariant is
`StreamInv`:

* `HeaderInv`: a frame is only received under a header that passed every check, so
  `HeaderTellsPlanes` concludes with `PayloadSizeNeverWraps` how large its buffer is;
* `CutInv`: a frame that was cut is the last one;
* `SyncInv`: where the worker is in the stream. `Follows` says what frames lie behind each
  frame, `Position` that the worker is at the start of the frame behind those delivered, or
  within it, under its true header. The one other place it may be, `Lost`, is a byte that
  begins no header: there it comes behind a frame with more bytes than its header announces,
  the fault that no check sees. It holds as long as every fault is noticed (the CRC is verified) or none has gone by.

None of these properties is inductive without `SyncInv`: a worker in the middle of a frame could find
a header in it. `HeaderTells` and `ExtensionTold` take apart what the checks of a header say
of the fault, `PayloadTells` what the twelve-bit check and the CRC say, and
`PictureRoundTrip` then turns the payload into the picture. Without the CRC a
damaged bit goes unnoticed, which is why the property then ends at the first fault.

`TestImages_proofs` proves `GrayLosesAtMostOne` (a gray value scaled to twelve bits and back
is itself or one less), `BanksAreComplete` (an image of a bank has the planes its mode needs) and
`SelfTestSucceeds` (every accepted combination of options passes the self-test, with any
images). The last two assume what the build's constants satisfy: `PlanesCanBeCounted`
(`size_t` holds two planes of 800x600).

### Only model-checked

Liveness under fairness, and what is ENABLED, which the prover does not reach: `DisconnectReturns`,
`FailureIsReported`, `FailureStopsBoth`, `CallsReturn`, `ErrorIsTold`, `TriggerIsServed`,
`ServerStops`, `FrameIsNoted`, `SendsReturn`, `CommandsAreAnswered`, `PicturesArrive` and
`WorkerEnds`. Every other property of a passing run has a theorem.

What a recursive function computes for every input would need induction over an operator,
which the installed provers cannot instantiate; no property here rests on one.

## 10. Findings

Five runs end in a violation, each with a quoted line of the code or its documents in
`PROJECT.json`: `posix_disconnect`, `reconnect`, `split_send`, `close_race` and
`listener_send`.

## 11. Not modelled

* `src/tools/mock-fpga/generate_test_fixtures.py`, which draws the fixture files, and the
  drawing and PGM text in `src/main.cpp`: sequential code without state. `LoadPgm8` calls
  `std::stoi` on a header without a guard; a garbled file ends the test program.
* Argument checks that throw before anything is changed, and error texts.
* Name resolution, the sockets of addresses that do not answer, and the build.
