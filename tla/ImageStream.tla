------------------------------ MODULE ImageStream ------------------------------
(***************************************************************************)
(* The image worker (SpectraBridgeClient::ImageReceiveLoop) at the end of   *)
(* the image connection: it cuts the stream of bytes into frames, checks    *)
(* each and hands its picture to the application.                           *)
(*                                                                         *)
(* The FPGA sends pictures 1, 2, ... and may send a frame with a fault: a   *)
(* wrong field, a damaged, missing or superfluous byte.  TCP keeps the      *)
(* stream in order, and may end it anywhere.                                *)
(***************************************************************************)
EXTENDS ImageFrame, Functions

CONSTANTS
    Formats,    \* <<width, height>> that a session may be configured for
    MaxPayload, \* kMaxImagePayloadBytes
    CloseWakes, \* closing a socket ends a recv() that waits on it (not so on POSIX)
    MaxFrames   \* bound: frames the FPGA sends

ASSUME StreamAssumption ==
    /\ Formats \subseteq (Nat \ {0}) \X (Nat \ {0})
    /\ MaxPayload \in 0..SizeMax /\ MaxFrames \in Nat /\ CloseWakes \in BOOLEAN

VARIABLES
    config,     \* ClientConfig
    stream,     \* the bytes on their way to the client
    peerOpen,   \* the FPGA's end of the connection is open
    pc,         \* where the worker is
    header,     \* the header of the frame at hand
    buffer,     \* size of the vector allocated for what is being received
    running,    \* running_
    error,      \* the code the worker reported, or "none"
    broken,     \* history: recv() failed on a connection that was up
    log,        \* history: the mode and the fault of each frame sent
    delivered   \* history: what the application was given of each frame

worker == <<pc, header, buffer, running, error, broken, delivered>>
vars == <<config, stream, peerOpen, log, worker>>

Modes == {"single", "hdr"}
Faults == {"none", "field", "length", "dimensions", "headerLength", "bit",
           "highBits", "shortPayload", "longPayload", "cut"}

NoHeader == [wrong |-> FixedFields, header_len |-> 0, payload_len |-> 0,
             width |-> 0, height |-> 0, crc32 |-> <<>>]

Init ==
    /\ \E format \in Formats, order \in ReadoutOrders, verify \in BOOLEAN :
            config = [width |-> format[1], height |-> format[2],
                      order |-> order, verify_crc |-> verify]
    /\ stream = <<>> /\ peerOpen = TRUE
    /\ pc = "loop" /\ header = NoHeader /\ buffer = 0
    /\ running = TRUE /\ error = "none" /\ broken = FALSE
    /\ log = <<>> /\ delivered = <<>>

-----------------------------------------------------------------------------
\* The FPGA.  Its pictures have twelve bits, and pixels that follow one another differ.

PictureOf(frame, plane) ==
    [pixel \in 0..config.width * config.height - 1 |->
        (4095 - 300 * frame - 113 * pixel - (IF plane = "LG" THEN 50 ELSE 0)) % 4096]

Planes(mode) == IF mode = "hdr" THEN <<"HG", "LG">> ELSE <<"HG">>
PicturesOf(frame, mode) == [i \in DOMAIN Planes(mode) |-> PictureOf(frame, Planes(mode)[i])]

\* A sensor of another width does not read out by four lanes.
SenderOrder == IF config.width % LaneCount = 0 THEN config.order ELSE "row_major"
PlanePayload(frame, plane) ==
    PayloadOf(PictureOf(frame, plane), config.width, config.height, SenderOrder)
FramePayload(frame, mode) ==
    IF mode = "hdr" THEN PlanePayload(frame, "HG") \o PlanePayload(frame, "LG")
                    ELSE PlanePayload(frame, "HG")

\* A bit of the first pixel flipped, or a high bit of the last one set.
Damaged(payload, fault) ==
    CASE fault = "bit"          -> [payload EXCEPT ![1] = IF @ % 2 = 0 THEN @ + 1 ELSE @ - 1]
      [] fault = "highBits"     -> [payload EXCEPT ![Len(payload)] = @ + 128]
      [] fault = "shortPayload" -> Tail(payload)
      [] fault = "longPayload"  -> Append(payload, 0)
      [] fault = "cut"          -> SubSeq(payload, 1, Len(payload) \div 2)
      [] OTHER                  -> payload

\* A sender with high bits set computes the CRC of what it sends; the other
\* damages come after.
HeaderOf(payload, extension, fault) ==
    [wrong       |-> IF fault = "field" THEN {"reserved"} ELSE {},
     header_len  |-> IF fault = "headerLength" THEN MaxHeaderSize + 1
                                               ELSE HeaderSize + extension,
     payload_len |-> Len(payload) + (IF fault = "length" THEN 2 ELSE 0),
     width       |-> config.width,
     height      |-> IF fault = "dimensions" THEN SizeMax ELSE config.height,
     crc32       |-> IF fault = "highBits" THEN Damaged(payload, fault) ELSE payload]

\* What travels: the bytes of pixels and extensions with their value, those of a
\* header as parts of it.
Bytes(values) == [i \in DOMAIN values |-> <<"byte", values[i]>>]
HeaderBytes(h) ==
    [i \in 1..HeaderSize |-> IF i = 1 THEN <<"header", i, h>> ELSE <<"header", i>>]

\* A frame with its fault; one that is cut is the last.  Nothing arrives once the
\* client has closed the connection.
FpgaSends ==
    /\ peerOpen /\ pc # "ended" /\ Len(log) < MaxFrames
    /\ \E mode \in Modes :
        LET payload == FramePayload(Len(log) + 1, mode)
        IN  \E extension \in {0, MaxHeaderSize - HeaderSize}, fault \in Faults :
                /\ stream' = stream \o HeaderBytes(HeaderOf(payload, extension, fault))
                                    \o Bytes([i \in 1..extension |-> 0])
                                    \o Bytes(Damaged(payload, fault))
                /\ log' = Append(log, [mode |-> mode, fault |-> fault])
                /\ peerOpen' = (fault # "cut")
    /\ UNCHANGED <<config, worker>>

FpgaCloses ==
    /\ peerOpen /\ peerOpen' = FALSE
    /\ UNCHANGED <<config, stream, log, worker>>

\* Disconnect, or the control worker's failure.
SessionStops ==
    /\ running /\ running' = FALSE
    /\ UNCHANGED <<config, stream, peerOpen, log, pc, header, buffer, error, broken, delivered>>

-----------------------------------------------------------------------------
\* The worker.

\* HandleWorkerFailure: reported unless the session was stopped by another; the
\* connection is closed.
Fail(code) ==
    /\ error' = IF running THEN code ELSE error
    /\ running' = FALSE
    /\ pc' = "ended" /\ stream' = <<>> /\ buffer' = 0 /\ header' = NoHeader
    /\ UNCHANGED delivered

LoopTest ==
    /\ pc = "loop"
    /\ pc' = IF running THEN "header" ELSE "ended"
    /\ UNCHANGED <<config, stream, peerOpen, log, header, buffer, running, error, broken,
                   delivered>>

\* RecvAll: all the bytes asked for, in order.
Received(count) == SubSeq(stream, 1, count)
Consume(count) == stream' = SubSeq(stream, count + 1, Len(stream))

\* Bytes that are not those of one header do not begin with the magic number.
HeaderIn(bytes) ==
    IF Len(bytes[1]) = 3 /\ bytes = HeaderBytes(bytes[1][3]) THEN bytes[1][3]
                                                            ELSE NoHeader

\* The checks of ImageReceiveLoop come after those of ParseImageFrameHeader.
HeaderError(h) ==
    IF ParseImageFrameHeader(h) # "none" THEN ParseImageFrameHeader(h)
    ELSE IF h.width # config.width \/ h.height # config.height THEN "INVALID_DIMENSIONS"
    ELSE "none"

\* Mutation: no limit is set to a payload.
StartPayloadUnbounded(h) ==
    /\ pc' = "payload" /\ buffer' = h.payload_len
    /\ UNCHANGED <<running, error, delivered>>

\* The vector for a payload is made once its length has been found allowed.
StartPayload(h) ==
    /\ h.payload_len \in 1..MaxPayload
    /\ pc' = "payload" /\ buffer' = h.payload_len
    /\ UNCHANGED <<running, error, delivered>>

ReceiveHeader ==
    /\ pc = "header" /\ Len(stream) >= HeaderSize
    /\ LET h == HeaderIn(Received(HeaderSize))
       IN  \/ HeaderError(h) # "none" /\ Fail(HeaderError(h))
           \/ /\ HeaderError(h) = "none" /\ h.header_len > HeaderSize
              /\ pc' = "extension" /\ buffer' = h.header_len - HeaderSize
              /\ header' = h /\ Consume(HeaderSize)
              /\ UNCHANGED <<running, error, delivered>>
           \/ /\ HeaderError(h) = "none" /\ h.header_len = HeaderSize
              /\ header' = h /\ Consume(HeaderSize)
              /\ StartPayload(h)
           \/ /\ HeaderError(h) = "none" /\ h.header_len = HeaderSize
              /\ h.payload_len \notin 1..MaxPayload
              /\ Fail("PAYLOAD_LENGTH_MISMATCH")
    /\ UNCHANGED <<config, peerOpen, log, broken>>

\* Mutation: the extension is taken to be as long as the whole header.
ReceiveExtensionTooLong ==
    /\ pc = "extension" /\ Len(stream) >= header.header_len
    /\ Consume(header.header_len)
    /\ StartPayload(header)
    /\ UNCHANGED <<config, peerOpen, log, broken, header>>

ReceiveExtension ==
    /\ pc = "extension" /\ Len(stream) >= buffer
    /\ \/ Consume(buffer) /\ StartPayload(header) /\ UNCHANGED header
       \/ header.payload_len \notin 1..MaxPayload /\ Fail("PAYLOAD_LENGTH_MISMATCH")
    /\ UNCHANGED <<config, peerOpen, log, broken>>

\* The planes of a payload and the first error in them, HG before LG.
PlanesIn(payload) ==
    LET size == PayloadSize(header.width, header.height)
    IN  IF Len(payload) = size THEN <<payload>>
        ELSE <<SubSeq(payload, 1, size), SubSeq(payload, size + 1, 2 * size)>>

PlaneError(plane) == ConvertError(plane, header.width, header.height, config.order)

PayloadError(payload) ==
    LET planes == PlanesIn(payload)
    IN  IF config.verify_crc /\ payload # header.crc32 THEN "CRC_MISMATCH"
        ELSE IF PlaneError(planes[1]) # "none" THEN PlaneError(planes[1])
        ELSE PlaneError(planes[Len(planes)])

\* The planes of a frame, and of a single one the eight-bit picture.
Converted(payload) ==
    LET planes == PlanesIn(payload)
        pictures == [i \in DOMAIN planes |->
                        Pixels16(planes[i], header.width, header.height, config.order)]
    IN  [pixels16 |-> pictures,
         pixels8  |-> IF Len(planes) = 1
                      THEN [pixel \in DOMAIN pictures[1] |-> Gray8(pictures[1][pixel])]
                      ELSE <<>>]

\* A header's bytes in the place of pixels have some value.
ReceivePayload ==
    /\ pc = "payload" /\ Len(stream) >= buffer
    /\ \E some \in {0, 255} :
        LET payload == [i \in 1..buffer |->
                            IF stream[i][1] = "byte" THEN stream[i][2] ELSE some]
        IN  \/ PayloadError(payload) # "none" /\ Fail(PayloadError(payload))
            \/ /\ PayloadError(payload) = "none"
               /\ delivered' = Append(delivered, Converted(payload))
               /\ pc' = "loop" /\ buffer' = 0 /\ header' = NoHeader
               /\ Consume(buffer)
               /\ UNCHANGED <<running, error>>
    /\ UNCHANGED <<config, peerOpen, log, broken>>

Wanted == IF pc = "header" THEN HeaderSize ELSE buffer

\* A recv() that waits for bytes which need not come: those of an open connection,
\* and on some platforms those of one that has been closed at this end.
RecvWaits ==
    /\ pc \in {"header", "extension", "payload"}
    /\ Len(stream) < Wanted /\ peerOpen /\ (running \/ ~CloseWakes)

FailReceive ==
    Fail(IF pc = "payload" THEN "PAYLOAD_RECEIVE_FAILED" ELSE "HEADER_RECEIVE_FAILED")

\* Mutation: the end of the connection is only noticed at a header.
ReceiveFailsAtHeader ==
    /\ pc = "header"
    /\ ~running \/ (~peerOpen /\ Len(stream) < Wanted)
    /\ FailReceive
    /\ UNCHANGED <<config, peerOpen, log, broken>>
\* The connection has ended, or is closed by whoever stopped the session.  At a
\* header a stopped session is no failure.
ReceiveFails ==
    /\ pc \in {"header", "extension", "payload"}
    /\ ~running \/ (~peerOpen /\ Len(stream) < Wanted)
    /\ FailReceive
    /\ UNCHANGED <<config, peerOpen, log, broken>>

\* recv() fails on a connection that is up, whatever is on its way.
ReceiveBreaks ==
    /\ pc \in {"header", "extension", "payload"} /\ running
    /\ FailReceive
    /\ broken' = TRUE
    /\ UNCHANGED <<config, peerOpen, log>>

WorkerStep ==
    LoopTest \/ ReceiveHeader \/ ReceiveExtension \/ ReceivePayload \/ ReceiveFails

Next == FpgaSends \/ FpgaCloses \/ SessionStops \/ WorkerStep \/ ReceiveBreaks

Spec == Init /\ [][Next]_vars
\* The worker runs, unless its recv() waits; nothing is asked of the FPGA, and no
\* recv() has to break.
FairSpec == Spec /\ WF_vars(~RecvWaits /\ WorkerStep)

-----------------------------------------------------------------------------
\* Every variable has the type of what it models.  Whatever the FPGA sent, what the
\* application is given has the size of a picture and twelve, or eight, bits a pixel.
TypeOK ==
    /\ \E format \in Formats : config.width = format[1] /\ config.height = format[2]
    /\ config.order \in ReadoutOrders /\ config.verify_crc \in BOOLEAN
    /\ \A i \in DOMAIN stream : stream[i][1] \in {"byte", "header"}
    /\ peerOpen \in BOOLEAN /\ running \in BOOLEAN /\ broken \in BOOLEAN
    /\ pc \in {"loop", "header", "extension", "payload", "ended"}
    /\ buffer \in Nat
    /\ log \in Seq([mode : Modes, fault : Faults])
    /\ \A i \in DOMAIN delivered : \A plane \in Range(delivered[i].pixels16) :
            plane \in [0..config.width * config.height - 1 -> 0..4095]
    /\ \A i \in DOMAIN delivered : delivered[i].pixels8 # <<>> =>
            delivered[i].pixels8 \in [0..config.width * config.height - 1 -> 0..255]

\* A picture of eight bits shows one of twelve: no pixel is a full step off.
Shows(pixels8, picture) ==
    /\ DOMAIN pixels8 = DOMAIN picture
    /\ \A pixel \in DOMAIN picture :
            255 * picture[pixel] - 4095 * pixels8[pixel] \in 0..4094

\* The frames up to this one, as far as they have been sent, have no fault.
SoundUpTo(frame) == \A i \in 1..Len(log) : i <= frame => log[i].fault = "none"

\* The application is given exactly the pictures the FPGA took, in order, none
\* missing, each plane in its place and each pixel in its place, in sixteen bits and
\* in eight: with the CRC verified whatever faults there are in the stream, and
\* without it up to the first of them.
PicturesAreTrue ==
    \A i \in 1..Len(delivered) :
        config.verify_crc \/ SoundUpTo(i) =>
            /\ i <= Len(log)
            /\ delivered[i].pixels16 = PicturesOf(i, log[i].mode)
            /\ log[i].mode = "single" => Shows(delivered[i].pixels8, PictureOf(i, "HG"))

\* No frame with a wrong field or size, with a bit set above the twelve of a pixel,
\* or cut short is taken for a picture: not the first frame with a fault, and with
\* the CRC verified none behind it.
FaultsAreNoticed ==
    \A i \in 1..Len(delivered) :
        config.verify_crc \/ SoundUpTo(i - 1) =>
            /\ i <= Len(log)
            /\ log[i].fault \notin {"field", "dimensions", "headerLength", "highBits", "cut"}

\* What a header says sizes no buffer beyond an extension, or one or two planes
\* of the configured format within the limit.
BuffersAreBounded ==
    /\ pc = "extension" => buffer <= MaxHeaderSize - HeaderSize
    /\ pc = "payload" =>
        /\ buffer <= MaxPayload
        /\ \E planes \in {1, 2} : buffer = planes * 2 * config.width * config.height

\* The formats that a session can receive both kinds of frames in.
Supported ==
    /\ config.order = "four_lane" => config.width % LaneCount = 0
    /\ 4 * config.width * config.height <= MaxPayload

Sound(count) == Len(log) >= count /\ SoundUpTo(count)

\* No sound frame ends the session, whatever is sent behind it: before the first
\* fault only the end of the connection does, or a recv() that broke.
SoundFramesAreAccepted ==
    Supported /\ SoundUpTo(Len(delivered) + 1) =>
        broken \/ error \in {"none", "HEADER_RECEIVE_FAILED"}

\* A frame before any fault is given to the application, though the FPGA closes
\* behind it or sends faults after it, unless the session is stopped or recv() breaks.
PicturesArrive ==
    \A count \in 1..MaxFrames :
        Supported /\ Sound(count) ~>
            Len(delivered) >= count \/ (~running /\ error = "none") \/ broken

\* The worker has no time limit, but it does not outlive its connection: in the
\* middle of a frame, an extension or a header it ends when the FPGA closes, and,
\* where closing a socket ends a recv(), when the session is stopped.
WorkerEnds == (~running /\ CloseWakes) \/ ~peerOpen ~> pc = "ended"
=============================================================================
