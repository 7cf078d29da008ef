------------------------------ MODULE ImageFrame ------------------------------
(***************************************************************************)
(* The image protocol (ImageProtocol.h) and the conversion of a payload    *)
(* (ImageConverter.cpp): what a header must say, how long a payload is, and *)
(* where each pixel of it goes.                                            *)
(*                                                                         *)
(* A header is a record.  Of its fields that have one right value, `wrong' *)
(* names those that do not have it.  A payload is a sequence of bytes, and *)
(* its CRC-32 is abstracted to the payload itself: no two are confused.    *)
(***************************************************************************)
EXTENDS Integers, Sequences, FiniteSets

CONSTANTS
    SizeMax,        \* numeric_limits<size_t>::max()
    HeaderSize,     \* kImageFrameHeaderSize, 32 in the code
    MaxHeaderSize   \* kMaxImageFrameHeaderSize, 256 in the code

ASSUME SizesAssumption ==
    /\ SizeMax \in Nat
    /\ MaxHeaderSize \in Nat /\ HeaderSize \in 2..MaxHeaderSize

FixedFields == {"magic", "version", "pixel_format", "reserved"}

\* Products of size_t wrap.
Times(a, b) == (a * b) % (SizeMax + 1)

\* TryComputeRaw16Low12PayloadSize: whether it succeeds, and its result if so.
PayloadSizeFits(width, height) ==
    /\ width # 0 /\ height # 0
    /\ width <= SizeMax \div height
    /\ Times(width, height) <= SizeMax \div 2
PayloadSize(width, height) == Times(Times(width, height), 2)

IsSinglePlane(length, size) == length = size
\* Mutation: HDR frames are forgotten.
IsTwoPlanesNever(length, size) == FALSE
\* HG followed by LG.
IsTwoPlanes(length, size) == size <= SizeMax \div 2 /\ length = Times(size, 2)

\* ParseImageFrameHeader: the first check that fails gives the code.
ParseImageFrameHeader(h) ==
    IF "magic" \in h.wrong THEN "INVALID_MAGIC"
    ELSE IF "version" \in h.wrong THEN "UNSUPPORTED_VERSION"
    ELSE IF h.header_len \notin HeaderSize..MaxHeaderSize THEN "INVALID_HEADER_LENGTH"
    ELSE IF h.width = 0 \/ h.height = 0 THEN "INVALID_DIMENSIONS"
    ELSE IF "pixel_format" \in h.wrong THEN "INVALID_PIXEL_FORMAT"
    ELSE IF "reserved" \in h.wrong THEN "INVALID_RESERVED_FIELD"
    ELSE IF ~PayloadSizeFits(h.width, h.height) THEN "INVALID_DIMENSIONS"
    ELSE IF \/ IsSinglePlane(h.payload_len, PayloadSize(h.width, h.height))
            \/ IsTwoPlanes(h.payload_len, PayloadSize(h.width, h.height)) THEN "none"
    ELSE "PAYLOAD_LENGTH_MISMATCH"

-----------------------------------------------------------------------------
ReadoutOrders == {"row_major", "four_lane"}
LaneCount == 4

\* Mutation: the lanes of a row are taken for its samples.
DestinationSwapped(source, width, order) ==
    LET row == source \div width
        x == source % width
    IN  IF order = "row_major" THEN source
        ELSE row * width + (x \div LaneCount) * (width \div LaneCount) + (x % LaneCount)

\* The index in the picture of the pixel at an index in the payload.  Four lanes
\* send their k-th samples together, and each lane has a quarter of the row.
Destination(source, width, order) ==
    LET row == source \div width
        x == source % width
    IN  IF order = "row_major" THEN source
        ELSE row * width + (x % LaneCount) * (width \div LaneCount) + x \div LaneCount

\* What the sender does to a picture: the index in the payload of a pixel.
PayloadIndex(pixel, width, order) ==
    LET row == pixel \div width
        x == pixel % width
        laneWidth == width \div LaneCount
    IN  IF order = "row_major" THEN pixel
        ELSE row * width + (x % laneWidth) * LaneCount + x \div laneWidth

\* ReadUint16LE of the pixel at an index of a payload.
Pixel16(payload, index) == payload[2 * index + 1] + 256 * payload[2 * index + 2]

\* Mutation: the four high bits are not looked at.
HighBitsUnchecked(payload, count) == TRUE
\* Twelve bits are the pixel, the four above them must be zero.
HighBitsAreZero(payload, count) == \A i \in 0..count - 1 : Pixel16(payload, i) < 4096

\* ReadRaw12Pixel, of a pixel whose high bits have been checked.
Pixel12(payload, index) == Pixel16(payload, index) % 4096

Gray8(valid12) == (valid12 * 255) \div 4095

\* ConvertRaw16Low12ToGray: the error of a payload.
ConvertError(payload, width, height, order) ==
    IF ~PayloadSizeFits(width, height) THEN "INVALID_DIMENSIONS"
    ELSE IF Len(payload) # PayloadSize(width, height) THEN "PAYLOAD_LENGTH_MISMATCH"
    ELSE IF order = "four_lane" /\ width % LaneCount # 0 THEN "UNSUPPORTED_READOUT_WIDTH"
    ELSE IF ~HighBitsAreZero(payload, width * height) THEN "INVALID_HIGH_BITS"
    ELSE "none"

\* Mutation: the picture is made as long as its payload.
Pixels16PerByte(payload, width, height, order) ==
    [pixel \in 0..Len(payload) - 1 |->
        IF pixel < width * height THEN Pixel12(payload, PayloadIndex(pixel, width, order)) ELSE 0]
\* pixels16 of a payload without an error: zeros, and then the pixels in the
\* order of the payload; of two at one place the last remains.
Pixels16(payload, width, height, order) ==
    LET sources == 0..width * height - 1
    IN  [pixel \in sources |->
            LET writers == {s \in sources : Destination(s, width, order) = pixel}
            IN  IF writers = {} THEN 0
                ELSE Pixel12(payload, CHOOSE s \in writers : \A t \in writers : t <= s)]

\* The bytes a sender makes of a picture.
PayloadOf(picture, width, height, order) ==
    [byte \in 1..2 * width * height |->
        LET pixel == CHOOSE p \in DOMAIN picture :
                        PayloadIndex(p, width, order) = (byte - 1) \div 2
        IN  IF byte % 2 = 1 THEN picture[pixel] % 256 ELSE picture[pixel] \div 256]
=============================================================================
