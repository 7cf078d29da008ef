-------------------------- MODULE ImageStream_proofs --------------------------
(***************************************************************************)
(* The image worker, for every format, limit and width of size_t: it       *)
(* allocates within its limits and keeps its types whatever bytes arrive,   *)
(* the pictures it hands over are those that were taken, and no sound frame *)
(* ends its session.                                                       *)
(***************************************************************************)
EXTENDS ImageStream, ImageFrame_proofs

(* The configured format is one of Formats. *)
ConfigInv == config.width \in Nat /\ config.height \in Nat

(* While it receives a part of a frame the worker has found its header right, *)
(* and the buffer has the length that the header tells.                       *)
HeaderInv ==
    /\ pc = "extension" =>
        HeaderError(header) = "none" /\ buffer = header.header_len - HeaderSize
    /\ pc = "payload" =>
        /\ HeaderError(header) = "none"
        /\ buffer = header.payload_len /\ header.payload_len \in 1..MaxPayload

BufferInv == ConfigInv /\ HeaderInv

LEMMA BufferInit == Init => BufferInv
<1> SUFFICES ASSUME Init PROVE BufferInv
  OBVIOUS
<1>1. PICK format \in Formats, order \in ReadoutOrders, verify \in BOOLEAN :
        config = [width |-> format[1], height |-> format[2],
                  order |-> order, verify_crc |-> verify]
  BY DEF Init
<1>2. format \in Nat \X Nat
  BY <1>1, StreamAssumption
<1>3. ConfigInv
  BY <1>1, <1>2 DEF ConfigInv
<1>4. HeaderInv
  BY DEF HeaderInv, Init
<1> QED
  BY <1>3, <1>4 DEF BufferInv

(* A payload is begun only with a length that is allowed, or the session fails. *)
LEMMA BufferNext == BufferInv /\ [Next]_vars => BufferInv'
<1> SUFFICES ASSUME BufferInv, [Next]_vars PROVE BufferInv'
  OBVIOUS
<1>1. UNCHANGED config
  BY DEF Next, vars, FpgaSends, FpgaCloses, SessionStops, WorkerStep, LoopTest,
         ReceiveHeader, ReceiveExtension, ReceivePayload, ReceiveFails,
         ReceiveBreaks, FailReceive
<1>2. ConfigInv'
  BY <1>1 DEF BufferInv, ConfigInv
<1>3. SUFFICES HeaderInv'
  BY <1>2 DEF BufferInv
<1>4. UNCHANGED header => HeaderError(header)' = HeaderError(header)
  BY <1>1 DEF HeaderError
<1>5. CASE UNCHANGED <<pc, header, buffer>>
  BY <1>4, <1>5 DEF BufferInv, HeaderInv
<1>6. ASSUME NEW code, Fail(code) PROVE HeaderInv'
  BY <1>6 DEF Fail, HeaderInv
<1>7. CASE LoopTest
  BY <1>7 DEF LoopTest, HeaderInv
<1>8. CASE ReceiveHeader
  <2> DEFINE h == HeaderIn(Received(HeaderSize))
  <2>1. CASE Fail(HeaderError(h))
    BY <1>6, <2>1
  <2>2. CASE Fail("PAYLOAD_LENGTH_MISMATCH")
    BY <1>6, <2>2
  <2>3. CASE /\ HeaderError(h) = "none" /\ header' = h
             /\ \/ pc' = "extension" /\ buffer' = h.header_len - HeaderSize
                \/ StartPayload(h)
    <3>1. HeaderError(header)' = "none"
      BY <1>1, <2>3 DEF HeaderError
    <3> QED
      BY <2>3, <3>1 DEF HeaderInv, StartPayload
  <2> QED
    BY <1>8, <2>1, <2>2, <2>3 DEF ReceiveHeader
<1>9. CASE ReceiveExtension
  <2>1. CASE Fail("PAYLOAD_LENGTH_MISMATCH")
    BY <1>6, <2>1
  <2>2. CASE StartPayload(header) /\ UNCHANGED header
    <3>1. HeaderError(header) = "none"
      BY <1>9 DEF ReceiveExtension, BufferInv, HeaderInv
    <3> QED
      BY <1>4, <2>2, <3>1 DEF HeaderInv, StartPayload
  <2> QED
    BY <1>9, <2>1, <2>2 DEF ReceiveExtension
<1>10. CASE ReceivePayload
  <2>1. (\E code : Fail(code)) \/ pc' = "loop"
    BY <1>10 DEF ReceivePayload
  <2> QED
    BY <1>6, <2>1 DEF HeaderInv
<1>11. CASE ReceiveFails \/ ReceiveBreaks
  BY <1>6, <1>11 DEF ReceiveFails, ReceiveBreaks, FailReceive
<1>12. CASE FpgaSends \/ FpgaCloses \/ SessionStops \/ UNCHANGED vars
  BY <1>5, <1>12 DEF FpgaSends, FpgaCloses, SessionStops, vars, worker
<1> QED
  BY <1>7, <1>8, <1>9, <1>10, <1>11, <1>12 DEF Next, WorkerStep

(* A header without error tells one or two planes of the configured format:  *)
(* the product is the true one, as PayloadSizeNeverWraps says.               *)
LEMMA HeaderTellsPlanes ==
    ASSUME ConfigInv, NEW h, HeaderError(h) = "none"
    PROVE  /\ h.header_len \in HeaderSize..MaxHeaderSize
           /\ \E planes \in {1, 2} :
                    h.payload_len = planes * 2 * config.width * config.height
<1> DEFINE size == PayloadSize(config.width, config.height)
<1>1. ParseImageFrameHeader(h) = "none"
  BY DEF HeaderError
<1>2. h.width = config.width /\ h.height = config.height
  BY <1>1 DEF HeaderError
<1>3. /\ h.header_len \in HeaderSize..MaxHeaderSize
      /\ PayloadSizeFits(config.width, config.height)
      /\ IsSinglePlane(h.payload_len, size) \/ IsTwoPlanes(h.payload_len, size)
  BY <1>1, <1>2 DEF ParseImageFrameHeader
<1>4. config.width * config.height \in Nat /\ SizeMax \in Nat
  BY SizesAssumption DEF ConfigInv
<1>5. size = 2 * (config.width * config.height)
  BY <1>3, PayloadSizeNeverWraps DEF ConfigInv
<1> HIDE DEF size
<1>6. CASE IsSinglePlane(h.payload_len, size)
  <2>1. h.payload_len = 1 * 2 * config.width * config.height
    BY <1>4, <1>5, <1>6 DEF IsSinglePlane, ConfigInv
  <2> QED
    BY <1>3, <2>1
<1>7. CASE IsTwoPlanes(h.payload_len, size)
  <2>1. size \in Nat /\ size * 2 <= SizeMax
    BY <1>4, <1>5, <1>7 DEF IsTwoPlanes
  <2>2. h.payload_len = size * 2
    BY <1>7, <2>1, NoWrap DEF IsTwoPlanes
  <2>3. h.payload_len = 2 * 2 * config.width * config.height
    BY <1>4, <1>5, <2>2 DEF ConfigInv
  <2> QED
    BY <1>3, <2>3
<1> QED
  BY <1>3, <1>6, <1>7

LEMMA BufferInvBounds == BufferInv => BuffersAreBounded
<1> SUFFICES ASSUME BufferInv PROVE BuffersAreBounded
  OBVIOUS
<1>1. CASE pc = "extension"
  BY <1>1, HeaderTellsPlanes, SizesAssumption DEF BufferInv, HeaderInv, BuffersAreBounded
<1>2. CASE pc = "payload"
  BY <1>2, HeaderTellsPlanes, StreamAssumption DEF BufferInv, HeaderInv, BuffersAreBounded
<1> QED
  BY <1>1, <1>2 DEF BuffersAreBounded

(* In ImageReceiveLoop no header sizes a buffer beyond what the configuration *)
(* and the limits allow.                                                      *)
THEOREM BuffersBounded == Spec => []BuffersAreBounded
  BY BufferInit, BufferNext, BufferInvBounds, PTL DEF Spec
-----------------------------------------------------------------------------
(* What the FPGA sends. *)

Tags == {"byte", "header"}
Headers == [wrong : SUBSET FixedFields, header_len : Nat, payload_len : Nat,
            width : Nat, height : Nat, crc32 : Seq(Byte)]
ByteItems == {<<"byte", value>> : value \in Byte}
Item == ByteItems \cup {<<"header", i>> : i \in 1..HeaderSize}
                  \cup {<<"header", i, h>> : i \in 1..HeaderSize, h \in Headers}

ConfigOK ==
    /\ config.width \in Nat \ {0} /\ config.height \in Nat \ {0}
    /\ config.order \in ReadoutOrders /\ config.verify_crc \in BOOLEAN
Area == config.width * config.height

LEMMA AreaIsPositive == ConfigOK => Area \in Nat \ {0}
<1> SUFFICES ASSUME ConfigOK PROVE Area \in Nat \ {0}
  OBVIOUS
<1> DEFINE w == config.width
           h == config.height
<1>1. w \in Nat \ {0} /\ h \in Nat \ {0}
  BY DEF ConfigOK
<1> HIDE DEF w, h
<1>2. w * h \in Nat /\ w * h # 0
  BY <1>1
<1> QED
  BY <1>2 DEF Area, w, h

(* Bits and bytes. *)
LEMMA TwelveBits ==
    ASSUME NEW v \in Int
    PROVE  v % 4096 \in Bits12
<1>1. v % 4096 \in Int /\ 0 <= v % 4096 /\ v % 4096 <= 4095
  OBVIOUS
<1> QED
  BY <1>1 DEF Bits12

LEMMA HighByte ==
    ASSUME NEW a \in Byte, NEW b \in Byte, a + 256 * b \in Bits12
    PROVE  b \in 0..15
<1>1. a \in Nat /\ b \in Nat
  BY DEF Byte
<1>2. a + 256 * b <= 4095
  <2> DEFINE v == a + 256 * b
  <2>1. v \in Bits12
    OBVIOUS
  <2> HIDE DEF v
  <2>2. v <= 4095
    BY <2>1 DEF Bits12
  <2> QED
    BY <2>2 DEF v
<1> QED
  BY <1>1, <1>2

LEMMA FlippedBit ==
    ASSUME NEW a \in Byte
    PROVE  LET b == IF a % 2 = 0 THEN a + 1 ELSE a - 1
           IN  b \in Byte /\ b # a
<1>1. a \in Nat /\ a <= 255
  BY DEF Byte
<1>2. CASE a % 2 = 0
  <2>1. a # 255
    BY <1>2
  <2>2. a + 1 \in Nat /\ a + 1 <= 255
    BY <1>1, <2>1
  <2> QED
    BY <1>1, <1>2, <2>2 DEF Byte
<1>3. CASE a % 2 # 0
  <2>1. a # 0
    BY <1>3
  <2> QED
    BY <1>1, <1>3, <2>1 DEF Byte
<1> QED
  BY <1>2, <1>3

(* The pictures have twelve bits. *)
LEMMA PicturesAre12 ==
    ASSUME ConfigOK, NEW frame \in Nat, NEW plane
    PROVE  IsPicture(PictureOf(frame, plane), config.width, config.height)
<1> DEFINE Value(pixel) == 4095 - 300 * frame - 113 * pixel - (IF plane = "LG" THEN 50 ELSE 0)
<1>1. ASSUME NEW pixel \in Places(config.width, config.height)
      PROVE  Value(pixel) % 4096 \in Bits12
  <2>1. pixel \in Int
    BY DEF Places
  <2>2. Value(pixel) \in Int
    BY <2>1
  <2> HIDE DEF Value
  <2> QED
    BY <2>2, TwelveBits
<1>2. PictureOf(frame, plane) =
        [pixel \in Places(config.width, config.height) |-> Value(pixel) % 4096]
  BY DEF PictureOf, Places
<1> HIDE DEF Value
<1> QED
  BY <1>1, <1>2 DEF IsPicture

LEMMA SenderCanSend == ConfigOK => Readable(config.width, SenderOrder)
  BY DEF ConfigOK, Readable, SenderOrder, ReadoutOrders

(* A plane is two bytes a pixel, of which the second is less than sixteen. *)
LEMMA PlaneIsBytes ==
    ASSUME ConfigOK, NEW frame \in Nat, NEW plane
    PROVE  /\ PlanePayload(frame, plane) \in Seq(Byte)
           /\ Len(PlanePayload(frame, plane)) = 2 * Area
           /\ PlanePayload(frame, plane)[2 * Area] \in 0..15
<1> DEFINE p == PlanePayload(frame, plane)
           picture == PictureOf(frame, plane)
<1>1. /\ config.width \in Nat \ {0} /\ config.height \in Nat \ {0}
      /\ Readable(config.width, SenderOrder) /\ Area \in Nat \ {0}
      /\ IsPicture(picture, config.width, config.height)
  BY SenderCanSend, PicturesAre12, AreaIsPositive DEF ConfigOK
<1> HIDE DEF picture
<1>2. /\ p \in Seq(Byte) /\ Len(p) = 2 * Area
      /\ \A source \in Places(config.width, config.height) : Pixel16(p, source) \in Bits12
  BY <1>1, PayloadCarries DEF Area, PlanePayload, picture
<1>3. Area - 1 \in Places(config.width, config.height)
  <2>1. \A n \in Nat \ {0} : n - 1 \in 0..n - 1
    OBVIOUS
  <2> QED
    BY <1>1, <2>1 DEF Places, Area
<1>4. Pixel16(p, Area - 1) \in Bits12
  BY <1>2, <1>3
<1> HIDE DEF p
<1> DEFINE n == Area
           low == p[2 * n - 1]
           high == p[2 * n]
<1>5. n \in Nat \ {0} /\ Len(p) = 2 * n
  BY <1>1, <1>2
<1>6. Pixel16(p, n - 1) = p[2 * (n - 1) + 1] + 256 * p[2 * (n - 1) + 2]
  BY DEF Pixel16
<1> HIDE DEF n
<1>7. 2 * (n - 1) + 1 = 2 * n - 1 /\ 2 * (n - 1) + 2 = 2 * n
      /\ 2 * n - 1 \in 1..Len(p) /\ 2 * n \in 1..Len(p)
  BY <1>5
<1>8. low \in Byte /\ high \in Byte
  BY <1>2, <1>7, ElementOfSeq
<1>9. low + 256 * high \in Bits12
  BY <1>4, <1>6, <1>7 DEF n
<1> HIDE DEF low, high
<1>10. high \in 0..15
  BY <1>8, <1>9, HighByte
<1> QED
  BY <1>2, <1>10 DEF high, n, p

(* A frame is one plane or two. *)
FrameSize(mode) == IF mode = "hdr" THEN 4 * Area ELSE 2 * Area
LEMMA FrameIsBytes ==
    ASSUME ConfigOK, NEW frame \in Nat, NEW mode
    PROVE  /\ FramePayload(frame, mode) \in Seq(Byte)
           /\ Len(FramePayload(frame, mode)) = FrameSize(mode)
           /\ FramePayload(frame, mode)[FrameSize(mode)] \in 0..15
<1> DEFINE hg == PlanePayload(frame, "HG")
           lg == PlanePayload(frame, "LG")
           n == Area
<1>1. /\ hg \in Seq(Byte) /\ Len(hg) = 2 * n /\ hg[2 * n] \in 0..15
      /\ lg \in Seq(Byte) /\ Len(lg) = 2 * n /\ lg[2 * n] \in 0..15
  BY PlaneIsBytes
<1>2. n \in Nat \ {0}
  BY AreaIsPositive
<1> HIDE DEF hg, lg, n
<1>3. CASE mode = "hdr"
  <2>1. /\ hg \o lg \in Seq(Byte) /\ Len(hg \o lg) = Len(hg) + Len(lg)
        /\ \A i \in 1..Len(hg) + Len(lg) :
                (hg \o lg)[i] = IF i <= Len(hg) THEN hg[i] ELSE lg[i - Len(hg)]
    BY <1>1, ConcatProperties
  <2> DEFINE all == hg \o lg
  <2> HIDE DEF all
  <2>2. all \in Seq(Byte) /\ Len(all) = 4 * n
    BY <1>1, <1>2, <2>1 DEF all
  <2>3. 4 * n \in 1..Len(hg) + Len(lg) /\ ~(4 * n <= Len(hg)) /\ 4 * n - Len(hg) = 2 * n
    BY <1>1, <1>2
  <2>4. all[4 * n] = lg[2 * n]
    BY <2>1, <2>3 DEF all
  <2> QED
    BY <1>1, <1>3, <2>2, <2>4 DEF FramePayload, FrameSize, all, hg, lg, n
<1>4. CASE mode # "hdr"
  BY <1>1, <1>4 DEF FramePayload, FrameSize, hg, n
<1> QED
  BY <1>3, <1>4

LEMMA FrameSizeIsPositive ==
    ASSUME ConfigOK, NEW mode
    PROVE  FrameSize(mode) \in Nat /\ FrameSize(mode) >= 2
  BY AreaIsPositive DEF FrameSize

(* What the faults make of a payload. *)
Harmless == Faults \ {"bit", "highBits", "shortPayload", "longPayload", "cut"}
LEMMA DamagedIs ==
    ASSUME NEW p \in Seq(Byte), Len(p) >= 2, p[Len(p)] \in 0..15, NEW fault \in Faults
    PROVE  LET d == Damaged(p, fault)
           IN  /\ d \in Seq(Byte)
               /\ fault \in Harmless => d = p
               /\ fault = "bit" => Len(d) = Len(p) /\ d[1] # p[1]
               /\ fault = "highBits" => Len(d) = Len(p) /\ d[Len(p)] >= 128
               /\ fault = "shortPayload" => Len(d) = Len(p) - 1
               /\ fault = "longPayload" => d = Append(p, 0)
               /\ fault = "cut" => Len(d) < Len(p)
<1> DEFINE n == Len(p)
<1>1. n \in Nat /\ n >= 2 /\ 1 \in 1..n /\ n \in 1..n
  BY LenProperties
<1>2. p[1] \in Byte /\ p[n] \in Byte
  BY <1>1, ElementOfSeq
<1> DEFINE d == Damaged(p, fault)
<1>3. CASE fault \in Harmless
  BY <1>3 DEF Harmless, Faults, Damaged
<1>4. CASE fault = "bit"
  <2> DEFINE a == p[1]
             b == IF a % 2 = 0 THEN a + 1 ELSE a - 1
  <2>1. b \in Byte /\ b # a
    <3> HIDE DEF a
    <3> QED
      BY <1>2, FlippedBit DEF a
  <2>2. d = [p EXCEPT ![1] = b]
    BY <1>4 DEF Damaged
  <2> HIDE DEF b, d
  <2>3. d \in Seq(Byte) /\ Len(d) = n /\ d[1] = b
    BY <1>1, <2>1, <2>2, ExceptSeq
  <2> QED
    BY <1>4, <2>1, <2>3 DEF d, Harmless
<1>5. CASE fault = "highBits"
  <2> DEFINE b == p[n] + 128
  <2>1. b \in Byte /\ b >= 128
    BY DEF Byte
  <2>2. d = [p EXCEPT ![n] = b]
    BY <1>5 DEF Damaged
  <2> HIDE DEF b, d
  <2>3. d \in Seq(Byte) /\ Len(d) = n /\ d[n] = b
    BY <1>1, <2>1, <2>2, ExceptSeq
  <2> QED
    BY <1>5, <2>1, <2>3 DEF d, Harmless
<1>6. CASE fault = "shortPayload"
  <2>1. p # <<>>
    BY <1>1
  <2>2. d = Tail(p)
    BY <1>6 DEF Damaged
  <2>3. d \in Seq(Byte) /\ Len(d) = n - 1
    BY <2>1, <2>2, HeadTailProperties
  <2> QED
    BY <1>6, <2>3 DEF Harmless
<1>7. CASE fault = "longPayload"
  <2>1. d = Append(p, 0)
    BY <1>7 DEF Damaged
  <2>2. 0 \in Byte
    BY DEF Byte
  <2>3. d \in Seq(Byte)
    BY <2>1, <2>2, AppendProperties
  <2> QED
    BY <1>7, <2>1, <2>3 DEF Harmless
<1>8. CASE fault = "cut"
  <2> DEFINE half == n \div 2
  <2>1. d = SubSeq(p, 1, half)
    BY <1>8 DEF Damaged
  <2>2. half \in Nat /\ half < n
    BY <1>1
  <2> HIDE DEF half
  <2>3. \A i \in 1..half : p[i] \in Byte
    <3> TAKE i \in 1..half
    <3>1. i \in 1..n
      BY <1>1, <2>2
    <3> QED
      BY <3>1, ElementOfSeq
  <2>4. d \in Seq(Byte) /\ Len(d) = IF 1 <= half THEN half - 1 + 1 ELSE 0
    BY <2>1, <2>2, <2>3, SubSeqProperties
  <2>5. Len(d) = half
    BY <2>2, <2>4
  <2> QED
    BY <1>8, <2>2, <2>4, <2>5 DEF Harmless
<1> QED
  BY <1>3, <1>4, <1>5, <1>6, <1>7, <1>8 DEF Harmless, Faults

-----------------------------------------------------------------------------
(* The stream. *)

LEMMA ItemTags ==
    ASSUME NEW x \in Item
    PROVE  x[1] \in Tags /\ (x[1] = "byte" => x[2] \in Byte)
<1>1. CASE \E value \in Byte : x = <<"byte", value>>
  <2>1. PICK value \in Byte : x = <<"byte", value>>
    BY <1>1
  <2>2. x[1] = "byte" /\ x[2] = value
    BY <2>1
  <2> QED
    BY <2>2 DEF Tags
<1>2. CASE \E i \in 1..HeaderSize : x = <<"header", i>>
  <2>1. x[1] = "header"
    BY <1>2
  <2> QED
    BY <2>1 DEF Tags
<1>3. CASE \E i \in 1..HeaderSize, h \in Headers : x = <<"header", i, h>>
  <2>1. x[1] = "header"
    BY <1>3
  <2> QED
    BY <2>1 DEF Tags
<1> QED
  BY <1>1, <1>2, <1>3 DEF Item, ByteItems

LEMMA BytesAre ==
    ASSUME NEW values \in Seq(Byte)
    PROVE  /\ Bytes(values) \in Seq(Item) /\ Len(Bytes(values)) = Len(values)
           /\ \A i \in 1..Len(values) : Bytes(values)[i] = <<"byte", values[i]>>
<1> DEFINE n == Len(values)
<1>1. n \in Nat /\ DOMAIN values = 1..n /\ \A i \in 1..n : values[i] \in Byte
  BY LenProperties, ElementOfSeq
<1>2. Bytes(values) = [i \in 1..n |-> <<"byte", values[i]>>]
  BY <1>1 DEF Bytes
<1>3. \A i \in 1..n : <<"byte", values[i]>> \in Item
  BY <1>1 DEF Item, ByteItems
<1> HIDE DEF n
<1>4. Bytes(values) \in [1..n -> Item]
  BY <1>2, <1>3
<1>5. Bytes(values) \in Seq(Item) /\ Len(Bytes(values)) = n
  BY <1>1, <1>2, <1>4
<1> QED
  BY <1>2, <1>5 DEF n

LEMMA HeaderBytesAre ==
    ASSUME NEW h \in Headers
    PROVE  /\ HeaderBytes(h) \in Seq(Item) /\ Len(HeaderBytes(h)) = HeaderSize
           /\ HeaderBytes(h)[1] = <<"header", 1, h>>
           /\ \A i \in 2..HeaderSize : HeaderBytes(h)[i] = <<"header", i>>
<1>1. HeaderSize \in Nat /\ HeaderSize >= 2
  BY SizesAssumption
<1>2. HeaderBytes(h) =
        [i \in 1..HeaderSize |-> IF i = 1 THEN <<"header", i, h>> ELSE <<"header", i>>]
  BY DEF HeaderBytes
<1>3. \A i \in 1..HeaderSize : <<"header", i, h>> \in Item /\ <<"header", i>> \in Item
  BY DEF Item
<1>4. HeaderBytes(h) \in [1..HeaderSize -> Item]
  BY <1>2, <1>3
<1>5. HeaderBytes(h) \in Seq(Item) /\ Len(HeaderBytes(h)) = HeaderSize
  BY <1>1, <1>2, <1>4
<1> QED
  BY <1>1, <1>2, <1>5

(* A header is found where it begins, and nowhere else. *)
LEMMA HeaderIsFound ==
    ASSUME NEW h \in Headers, NEW rest \in Seq(Item)
    PROVE  /\ HeaderIn(SubSeq(HeaderBytes(h) \o rest, 1, HeaderSize)) = h
           /\ SubSeq(HeaderBytes(h) \o rest, HeaderSize + 1, Len(HeaderBytes(h) \o rest)) = rest
<1> DEFINE bytes == HeaderBytes(h)
<1>1. bytes \in Seq(Item) /\ Len(bytes) = HeaderSize /\ bytes[1] = <<"header", 1, h>>
  BY HeaderBytesAre
<1>2. /\ SubSeq(bytes \o rest, 1, Len(bytes)) = bytes
      /\ SubSeq(bytes \o rest, Len(bytes) + 1, Len(bytes \o rest)) = rest
  <2> HIDE DEF bytes
  <2>1. bytes \in Seq(Item)
    BY <1>1
  <2> QED
    BY <2>1, ComesApart
<1>3. Len(bytes[1]) = 3 /\ bytes[1][3] = h
  BY <1>1
<1>4. HeaderIn(bytes) = h
  BY <1>3 DEF HeaderIn
<1> QED
  BY <1>1, <1>2, <1>4

LEMMA NoHeaderIsRefused == HeaderError(NoHeader) # "none"
  BY DEF HeaderError, NoHeader, ParseImageFrameHeader, FixedFields

LEMMA HeaderIsSent ==
    ASSUME ConfigOK, NEW frame \in Nat, NEW mode, NEW extension \in Nat, NEW fault \in Faults
    PROVE  LET p == FramePayload(frame, mode)
               h == HeaderOf(p, extension, fault)
           IN  /\ h \in Headers
               /\ h.width = config.width
               /\ fault # "dimensions" => h.height = config.height
               /\ fault # "headerLength" => h.header_len = HeaderSize + extension
               /\ fault = "headerLength" => h.header_len = MaxHeaderSize + 1
               /\ fault # "length" => h.payload_len = FrameSize(mode)
               /\ fault = "length" => h.payload_len = FrameSize(mode) + 2
               /\ fault # "field" => h.wrong = {}
               /\ fault # "highBits" => h.crc32 = p
               /\ fault = "highBits" => h.crc32 = Damaged(p, fault)
<1> DEFINE p == FramePayload(frame, mode)
           d == Damaged(p, fault)
           n == FrameSize(mode)
           h == HeaderOf(p, extension, fault)
<1>1. p \in Seq(Byte) /\ Len(p) = n /\ p[n] \in 0..15 /\ n \in Nat /\ n >= 2
  BY FrameIsBytes, FrameSizeIsPositive
<1>2. d \in Seq(Byte)
  BY <1>1, DamagedIs
<1>3. /\ config.width \in Nat /\ config.height \in Nat
      /\ SizeMax \in Nat /\ HeaderSize \in Nat /\ MaxHeaderSize \in Nat
  BY SizesAssumption DEF ConfigOK
<1> HIDE DEF p, d, n
<1>4. /\ h.wrong = (IF fault = "field" THEN {"reserved"} ELSE {})
      /\ h.header_len = (IF fault = "headerLength" THEN MaxHeaderSize + 1
                                                   ELSE HeaderSize + extension)
      /\ h.payload_len = n + (IF fault = "length" THEN 2 ELSE 0)
      /\ h.width = config.width
      /\ h.height = (IF fault = "dimensions" THEN SizeMax ELSE config.height)
      /\ h.crc32 = (IF fault = "highBits" THEN d ELSE p)
  BY <1>1 DEF HeaderOf, d
<1>5. /\ h.wrong \in SUBSET FixedFields /\ h.header_len \in Nat /\ h.payload_len \in Nat
      /\ h.width \in Nat /\ h.height \in Nat /\ h.crc32 \in Seq(Byte)
  BY <1>1, <1>2, <1>3, <1>4 DEF FixedFields
<1>6. h = [wrong |-> h.wrong, header_len |-> h.header_len, payload_len |-> h.payload_len,
           width |-> h.width, height |-> h.height, crc32 |-> h.crc32]
  BY DEF HeaderOf
<1>7. h \in Headers
  BY <1>5, <1>6 DEF Headers
<1> QED
  BY <1>1, <1>4, <1>7 DEF d, n, p

-----------------------------------------------------------------------------
(* Where the worker is in the stream.  After `rest[i]' come the frames behind the *)
(* i-th one, each with an extension or without.                                *)

Extensions == {0, MaxHeaderSize - HeaderSize}
HeaderAt(i, extension) == HeaderOf(FramePayload(i, log[i].mode), extension, log[i].fault)
PayloadAt(i) == Damaged(FramePayload(i, log[i].mode), log[i].fault)
Zeros(extension) == Bytes([i \in 1..extension |-> 0])
Frame(i, extension) ==
    HeaderBytes(HeaderAt(i, extension)) \o (Zeros(extension) \o Bytes(PayloadAt(i)))

Follows(rest) ==
    /\ rest \in [Nat -> Seq(Item)] /\ rest[Len(log)] = <<>>
    /\ \A i \in 1..Len(log) : \E extension \in Extensions :
            rest[i - 1] = Frame(i, extension) \o rest[i]

(* In the middle of something that does not begin with a header. *)
Lost == Len(stream) >= 1 /\ Len(stream[1]) # 3

Position(rest, k) ==
    /\ pc \in {"loop", "header"} =>
            (k <= Len(log) /\ stream = rest[k]) \/ (Lost /\ ~SoundUpTo(k))
    /\ pc = "extension" => k < Len(log) /\ \E extension \in Extensions :
            /\ header = HeaderAt(k + 1, extension)
            /\ stream = Zeros(extension) \o (Bytes(PayloadAt(k + 1)) \o rest[k + 1])
    /\ pc = "payload" => k < Len(log) /\ \E extension \in Extensions :
            /\ header = HeaderAt(k + 1, extension)
            /\ stream = Bytes(PayloadAt(k + 1)) \o rest[k + 1]

(* As long as every fault is noticed or none has gone by, the worker knows where *)
(* it is, or it is at a place where it will find no header.                     *)
SyncInv ==
    (config.verify_crc \/ SoundUpTo(Len(delivered))) /\ pc # "ended" =>
        \E rest : Follows(rest) /\ Position(rest, Len(delivered))

(* The end of the connection is behind what it cuts. *)
CutInv == \A i \in 1..Len(log) : log[i].fault = "cut" => i = Len(log) /\ ~peerOpen

LEMMA ZerosAre ==
    ASSUME NEW extension \in Extensions
    PROVE  /\ extension \in Nat
           /\ Zeros(extension) \in Seq(Item) /\ Len(Zeros(extension)) = extension
<1>1. extension \in Nat
  BY SizesAssumption DEF Extensions
<1> DEFINE zeros == [i \in 1..extension |-> 0]
<1>2. zeros \in Seq(Byte) /\ Len(zeros) = extension
  <2>1. 0 \in Byte
    BY DEF Byte
  <2>2. zeros \in [1..extension -> Byte]
    BY <2>1
  <2> QED
    BY <1>1, <2>2
<1> HIDE DEF zeros
<1>3. Bytes(zeros) \in Seq(Item) /\ Len(Bytes(zeros)) = extension
  BY <1>2, BytesAre
<1> QED
  BY <1>1, <1>3 DEF Zeros, zeros

LEMMA FrameParts ==
    ASSUME ConfigOK, NEW i \in Nat, log[i].fault \in Faults, NEW extension \in Extensions
    PROVE  /\ HeaderAt(i, extension) \in Headers /\ PayloadAt(i) \in Seq(Byte)
           /\ HeaderBytes(HeaderAt(i, extension)) \in Seq(Item)
           /\ Bytes(PayloadAt(i)) \in Seq(Item)
           /\ Frame(i, extension) \in Seq(Item)
<1>1. extension \in Nat /\ Zeros(extension) \in Seq(Item)
  BY ZerosAre
<1>2. HeaderAt(i, extension) \in Headers
  BY <1>1, HeaderIsSent DEF HeaderAt
<1> DEFINE p == FramePayload(i, log[i].mode)
<1>3. p \in Seq(Byte) /\ Len(p) >= 2 /\ p[Len(p)] \in 0..15
  BY FrameIsBytes, FrameSizeIsPositive
<1>4. PayloadAt(i) \in Seq(Byte)
  <2> HIDE DEF p
  <2> QED
    BY <1>3, DamagedIs DEF PayloadAt, p
<1>5. HeaderBytes(HeaderAt(i, extension)) \in Seq(Item)
  BY <1>2, HeaderBytesAre
<1>6. Bytes(PayloadAt(i)) \in Seq(Item)
  BY <1>4, BytesAre
<1>7. Frame(i, extension) \in Seq(Item)
  BY <1>1, <1>5, <1>6, ConcatProperties DEF Frame
<1> QED
  BY <1>2, <1>4, <1>5, <1>6, <1>7

LEMMA FrameOpens ==
    ASSUME ConfigOK, NEW i \in Nat, log[i].fault \in Faults, NEW extension \in Extensions,
           NEW rest \in Seq(Item)
    PROVE  Frame(i, extension) \o rest =
             HeaderBytes(HeaderAt(i, extension))
               \o (Zeros(extension) \o (Bytes(PayloadAt(i)) \o rest))
<1> DEFINE a == HeaderBytes(HeaderAt(i, extension))
           b == Zeros(extension)
           c == Bytes(PayloadAt(i))
<1>1. a \in Seq(Item) /\ b \in Seq(Item) /\ c \in Seq(Item)
  BY ZerosAre, FrameParts
<1>2. Frame(i, extension) = a \o (b \o c)
  BY DEF Frame
<1> HIDE DEF a, b, c
<1>3. b \o c \in Seq(Item)
  BY <1>1, ConcatProperties
<1>4. (a \o (b \o c)) \o rest = a \o ((b \o c) \o rest)
  BY <1>1, <1>3, ConcatAssociative, SMTT(30)
<1>5. (b \o c) \o rest = b \o (c \o rest)
  BY <1>1, ConcatAssociative
<1> QED
  BY <1>2, <1>4, <1>5 DEF a, b, c

-----------------------------------------------------------------------------
(* What becomes of a payload. *)

Pictures == [Places(config.width, config.height) -> Bits12]
Given == [pixels16 : Seq(Pictures),
          pixels8 : [Places(config.width, config.height) -> Byte] \cup {<<>>}]

LEMMA HeaderFits ==
    ASSUME ConfigOK, NEW h, HeaderError(h) = "none"
    PROVE  /\ h.width = config.width /\ h.height = config.height
           /\ h.header_len \in HeaderSize..MaxHeaderSize
           /\ h.wrong \cap FixedFields = {}
           /\ PayloadSizeFits(h.width, h.height) /\ PayloadSize(h.width, h.height) = 2 * Area
           /\ h.payload_len \in {2 * Area, 4 * Area}
<1>1. /\ h.width = config.width /\ h.height = config.height
      /\ PayloadSizeFits(h.width, h.height) /\ h.wrong \cap FixedFields = {}
  BY DEF HeaderError, ParseImageFrameHeader, FixedFields
<1>2. config.width \in Nat /\ config.height \in Nat
  BY DEF ConfigOK
<1>3. PayloadSize(h.width, h.height) = 2 * Area
  BY <1>1, <1>2, PayloadSizeNeverWraps DEF Area
<1>4. PICK planes \in {1, 2} : h.payload_len = planes * 2 * config.width * config.height
  BY <1>2, HeaderTellsPlanes DEF ConfigInv
<1>5. h.payload_len \in {2 * Area, 4 * Area}
  <2> DEFINE w == config.width
             n == config.height
  <2>1. w \in Nat /\ n \in Nat
    BY <1>2
  <2> HIDE DEF w, n
  <2>2. 1 * 2 * w * n = 2 * (w * n) /\ 2 * 2 * w * n = 4 * (w * n)
    BY <2>1
  <2>3. h.payload_len = 1 * 2 * w * n \/ h.payload_len = 2 * 2 * w * n
    BY <1>4 DEF w, n
  <2> QED
    BY <2>2, <2>3 DEF Area, w, n
<1>6. h.header_len \in HeaderSize..MaxHeaderSize
  BY <1>2, HeaderTellsPlanes DEF ConfigInv
<1> QED
  BY <1>1, <1>3, <1>5, <1>6

LEMMA PlanesAre ==
    ASSUME ConfigOK, HeaderError(header) = "none",
           NEW payload \in Seq(Byte), Len(payload) = header.payload_len
    PROVE  LET planes == PlanesIn(payload)
           IN  /\ planes \in Seq(Seq(Byte)) /\ Len(planes) \in {1, 2}
               /\ Len(planes) = 1 <=> Len(payload) = 2 * Area
               /\ PayloadError(payload) = "none" =>
                    \A i \in 1..Len(planes) : PlaneError(planes[i]) = "none"
<1> DEFINE size == 2 * Area
           first == SubSeq(payload, 1, size)
           second == SubSeq(payload, size + 1, 2 * size)
           planes == PlanesIn(payload)
<1>1. /\ PayloadSize(header.width, header.height) = size
      /\ Len(payload) \in {size, 4 * Area} /\ Area \in Nat
  BY HeaderFits, AreaIsPositive
<1>2. planes = IF Len(payload) = size THEN <<payload>> ELSE <<first, second>>
  BY <1>1 DEF PlanesIn
<1>3. CASE Len(payload) = size
  <2>1. planes = <<payload>>
    BY <1>2, <1>3
  <2> HIDE DEF planes
  <2>2. planes \in Seq(Seq(Byte)) /\ Len(planes) = 1 /\ \A i \in 1..Len(planes) : i = Len(planes)
    BY <2>1
  <2>3. PayloadError(payload) = "none" => PlaneError(planes[Len(planes)]) = "none"
    BY DEF PayloadError, planes
  <2> QED
    BY <1>3, <2>2, <2>3 DEF planes
<1>4. CASE Len(payload) # size
  <2>1. size \in Nat /\ 2 * size \in Nat /\ Len(payload) = 2 * size
    BY <1>1, <1>4
  <2>2. \A i \in 1..2 * size : payload[i] \in Byte
    BY <2>1, ElementOfSeq
  <2>3. first \in Seq(Byte) /\ second \in Seq(Byte)
    <3> HIDE DEF size
    <3>1. \A i \in 1..size : payload[i] \in Byte
      BY <2>1, <2>2
    <3>2. \A i \in size + 1..2 * size : payload[i] \in Byte
      BY <2>1, <2>2
    <3>3. 1 \in Int /\ size \in Int /\ size + 1 \in Int /\ 2 * size \in Int
      BY <2>1
    <3>4. first \in Seq(Byte)
      BY <3>1, <3>3, SubSeqProperties
    <3>5. second \in Seq(Byte)
      BY <3>2, <3>3, SubSeqProperties
    <3> QED
      BY <3>4, <3>5
  <2>4. planes = <<first, second>>
    BY <1>2, <1>4
  <2> HIDE DEF planes, first, second
  <2>5. /\ planes \in Seq(Seq(Byte)) /\ Len(planes) = 2
        /\ \A i \in 1..Len(planes) : i = 1 \/ i = Len(planes)
    BY <2>3, <2>4
  <2>6. PayloadError(payload) = "none"
            => PlaneError(planes[1]) = "none" /\ PlaneError(planes[Len(planes)]) = "none"
    BY DEF PayloadError, planes
  <2> QED
    BY <1>4, <2>5, <2>6 DEF planes
<1> QED
  BY <1>3, <1>4

LEMMA GrayIsByte ==
    ASSUME NEW v \in Bits12
    PROVE  Gray8(v) \in Byte /\ 255 * v - 4095 * Gray8(v) \in 0..4094
<1>1. v \in 0..4095
  BY DEF Bits12
<1>2. Gray8(v) \in 0..255
  BY <1>1, SMTT(30) DEF Gray8
<1>3. 255 * v - 4095 * Gray8(v) \in 0..4094
  <2> DEFINE scaled == v * 255
  <2>1. scaled \in Nat /\ scaled = 255 * v
    BY <1>1
  <2> HIDE DEF scaled
  <2>2. scaled - 4095 * (scaled \div 4095) \in 0..4094
    BY <2>1, SMTT(30)
  <2> QED
    BY <2>1, <2>2 DEF Gray8, scaled
<1> QED
  BY <1>2, <1>3 DEF Byte

(* A payload without an error is converted to pictures of twelve bits. *)
LEMMA AcceptedIsGiven ==
    ASSUME ConfigOK, HeaderError(header) = "none",
           NEW payload \in Seq(Byte), Len(payload) = header.payload_len,
           PayloadError(payload) = "none"
    PROVE  Converted(payload) \in Given
<1> DEFINE planes == PlanesIn(payload)
           Picture(plane) == Pixels16(plane, header.width, header.height, config.order)
           pictures == [i \in DOMAIN planes |-> Picture(planes[i])]
           places == Places(config.width, config.height)
           gray == [pixel \in DOMAIN pictures[1] |-> Gray8(pictures[1][pixel])]
<1>1. /\ planes \in Seq(Seq(Byte)) /\ Len(planes) \in {1, 2}
      /\ \A i \in 1..Len(planes) : PlaneError(planes[i]) = "none"
  BY PlanesAre
<1>2. header.width = config.width /\ header.height = config.height
  BY HeaderFits
<1>3. ASSUME NEW plane \in Seq(Byte), PlaneError(plane) = "none"
      PROVE  Picture(plane) \in Pictures
  <2>1. config.width \in Nat /\ config.height \in Nat /\ config.order \in ReadoutOrders
    BY DEF ConfigOK
  <2>2. ConvertError(plane, config.width, config.height, config.order) = "none"
    BY <1>2, <1>3 DEF PlaneError
  <2> QED
    BY <1>2, <2>1, <2>2, AcceptedIsPicture DEF IsPicture, Pictures
<1> HIDE DEF planes, Picture
<1>4. \A i \in 1..Len(planes) : planes[i] \in Seq(Byte)
  BY <1>1, ElementOfSeq
<1>5. \A i \in 1..Len(planes) : Picture(planes[i]) \in Pictures
  BY <1>1, <1>3, <1>4
<1>6. DOMAIN planes = 1..Len(planes) /\ Len(planes) \in Nat /\ 1 \in 1..Len(planes)
  BY <1>1, LenProperties
<1>7. pictures \in [1..Len(planes) -> Pictures]
  BY <1>5, <1>6
<1>8. pictures \in Seq(Pictures) /\ pictures[1] \in [places -> Bits12]
  <2> HIDE DEF pictures
  <2>1. pictures[1] \in Pictures
    BY <1>6, <1>7
  <2> QED
    BY <1>6, <1>7, <2>1 DEF Pictures
<1> HIDE DEF pictures
<1>9. gray \in [places -> Byte]
  <2> DEFINE picture == pictures[1]
  <2> HIDE DEF picture
  <2>1. picture \in [places -> Bits12]
    BY <1>8 DEF picture
  <2> HIDE DEF places
  <2>2. DOMAIN picture = places /\ \A pixel \in places : Gray8(picture[pixel]) \in Byte
    BY <2>1, GrayIsByte
  <2>3. [pixel \in DOMAIN picture |-> Gray8(picture[pixel])] \in [places -> Byte]
    BY <2>2
  <2> QED
    BY <2>3 DEF picture
<1>10. Converted(payload) =
        [pixels16 |-> pictures, pixels8 |-> IF Len(planes) = 1 THEN gray ELSE <<>>]
  BY DEF Converted, pictures, Picture, planes
<1> HIDE DEF gray
<1> QED
  BY <1>8, <1>9, <1>10 DEF Given

LEMMA PlaneIsTrue ==
    ASSUME ConfigOK, HeaderError(header) = "none", Readable(config.width, config.order),
           NEW frame \in Nat, NEW plane
    PROVE  LET payload == PlanePayload(frame, plane)
           IN  /\ PlaneError(payload) = "none"
               /\ Pixels16(payload, header.width, header.height, config.order)
                    = PictureOf(frame, plane)
<1>1. header.width = config.width /\ header.height = config.height
      /\ PayloadSizeFits(config.width, config.height)
  BY HeaderFits
<1>2. SenderOrder = config.order
  BY DEF Readable, SenderOrder, ReadoutOrders
<1> DEFINE picture == PictureOf(frame, plane)
<1>3. config.width \in Nat /\ config.height \in Nat
      /\ IsPicture(picture, config.width, config.height)
  BY PicturesAre12 DEF ConfigOK
<1> HIDE DEF picture
<1> DEFINE payload == PayloadOf(picture, config.width, config.height, config.order)
<1>4. /\ ConvertError(payload, config.width, config.height, config.order) = "none"
      /\ Pixels16(payload, config.width, config.height, config.order) = picture
  BY <1>1, <1>3, PictureRoundTrip
<1>5. PlanePayload(frame, plane) = payload
  BY <1>2 DEF PlanePayload, picture
<1> HIDE DEF payload
<1> QED
  BY <1>1, <1>4, <1>5 DEF PlaneError, picture

(* The planes of a frame are found where they were put. *)
LEMMA PlanesAreFound ==
    ASSUME ConfigOK, HeaderError(header) = "none", NEW frame \in Nat, NEW mode \in Modes
    PROVE  /\ mode = "single" => PlanesIn(FramePayload(frame, mode))
                                    = <<PlanePayload(frame, "HG")>>
           /\ mode = "hdr" => PlanesIn(FramePayload(frame, mode))
                                = <<PlanePayload(frame, "HG"), PlanePayload(frame, "LG")>>
<1> DEFINE n == Area
           hg == PlanePayload(frame, "HG")
           lg == PlanePayload(frame, "LG")
<1>1. n \in Nat \ {0} /\ PayloadSize(header.width, header.height) = 2 * n
  BY AreaIsPositive, HeaderFits
<1>2. hg \in Seq(Byte) /\ Len(hg) = 2 * n /\ lg \in Seq(Byte) /\ Len(lg) = 2 * n
  BY PlaneIsBytes
<1> HIDE DEF n, hg, lg
<1>3. CASE mode = "single"
  <2>1. FramePayload(frame, mode) = hg
    BY <1>3 DEF FramePayload, hg
  <2>2. PlanesIn(hg) = <<hg>>
    BY <1>1, <1>2 DEF PlanesIn
  <2> QED
    BY <1>3, <2>1, <2>2 DEF hg
<1>4. CASE mode = "hdr"
  <2> DEFINE all == hg \o lg
  <2>1. FramePayload(frame, mode) = all
    BY <1>4 DEF FramePayload, hg, lg
  <2>2. /\ Len(all) = Len(hg) + Len(lg)
        /\ SubSeq(all, 1, Len(hg)) = hg /\ SubSeq(all, Len(hg) + 1, Len(all)) = lg
    <3>1. hg \in Seq(Byte) /\ lg \in Seq(Byte)
      BY <1>2
    <3> QED
      BY <3>1, ComesApart
  <2> HIDE DEF all
  <2>3. Len(all) # 2 * n /\ Len(all) = 2 * (2 * n)
    BY <1>1, <1>2, <2>2
  <2>4. PlanesIn(all) = <<SubSeq(all, 1, 2 * n), SubSeq(all, 2 * n + 1, 2 * (2 * n))>>
    BY <1>1, <2>3 DEF PlanesIn
  <2>5. PlanesIn(all) = <<hg, lg>>
    BY <1>2, <2>2, <2>3, <2>4
  <2> QED
    BY <1>4, <2>1, <2>5 DEF hg, lg
<1> QED
  BY <1>3, <1>4 DEF Modes

(* What the application is given of a frame is the picture that was sent. *)
LEMMA FrameIsTrue ==
    ASSUME ConfigOK, HeaderError(header) = "none", Readable(config.width, config.order),
           NEW frame \in Nat, NEW mode \in Modes
    PROVE  LET payload == FramePayload(frame, mode)
           IN  /\ PlaneError(PlanesIn(payload)[1]) = "none"
               /\ PlaneError(PlanesIn(payload)[Len(PlanesIn(payload))]) = "none"
               /\ Converted(payload).pixels16 = PicturesOf(frame, mode)
               /\ mode = "single" => Shows(Converted(payload).pixels8, PictureOf(frame, "HG"))
<1> DEFINE hg == PlanePayload(frame, "HG")
           lg == PlanePayload(frame, "LG")
           planes == PlanesIn(FramePayload(frame, mode))
           Picture(plane) == Pixels16(plane, header.width, header.height, config.order)
           pictures == [i \in DOMAIN planes |-> Picture(planes[i])]
           gray == [pixel \in DOMAIN pictures[1] |-> Gray8(pictures[1][pixel])]
           first == PictureOf(frame, "HG")
           second == PictureOf(frame, "LG")
<1>1. /\ PlaneError(hg) = "none" /\ Picture(hg) = first
      /\ PlaneError(lg) = "none" /\ Picture(lg) = second
  BY PlaneIsTrue
<1>2. mode = "single" => planes = <<hg>>
  BY PlanesAreFound
<1>3. mode = "hdr" => planes = <<hg, lg>>
  BY PlanesAreFound
<1>4. /\ Converted(FramePayload(frame, mode)).pixels16 = pictures
      /\ Len(planes) = 1 => Converted(FramePayload(frame, mode)).pixels8 = gray
  BY DEF Converted
<1>5. first \in [Places(config.width, config.height) -> Bits12]
  BY PicturesAre12 DEF IsPicture
<1> HIDE DEF planes, Picture, hg, lg, first, second
<1>6. CASE mode = "single"
  <2>1. planes = <<hg>>
    BY <1>2, <1>6
  <2>2. pictures = <<first>>
    <3>1. DOMAIN planes = {1} /\ planes[1] = hg
      BY <2>1
    <3>2. pictures = [i \in {1} |-> first]
      BY <1>1, <3>1
    <3> HIDE DEF pictures
    <3> QED
      BY <3>2
  <2>3. PicturesOf(frame, mode) = <<first>>
    <3>1. Planes(mode) = <<"HG">>
      BY <1>6 DEF Planes
    <3>2. DOMAIN Planes(mode) = {1} /\ Planes(mode)[1] = "HG"
      BY <3>1
    <3>3. PicturesOf(frame, mode) = [i \in {1} |-> first]
      BY <3>2 DEF PicturesOf, first
    <3> QED
      BY <3>3
  <2> HIDE DEF pictures
  <2>4. gray = [pixel \in DOMAIN first |-> Gray8(first[pixel])]
    BY <2>2, SMTT(30)
  <2>5. Shows(gray, first)
    <3> DEFINE places == Places(config.width, config.height)
    <3>1. first \in [places -> Bits12]
      BY <1>5
    <3> HIDE DEF places, gray
    <3>2. /\ DOMAIN gray = DOMAIN first
          /\ \A pixel \in DOMAIN first : gray[pixel] = Gray8(first[pixel])
      BY <2>4, SMTT(30)
    <3>3. ASSUME NEW pixel \in DOMAIN first
          PROVE  255 * first[pixel] - 4095 * gray[pixel] \in 0..4094
      <4>1. first[pixel] \in Bits12
        BY <3>1
      <4> QED
        BY <3>2, <4>1, GrayIsByte
    <3> QED
      BY <3>2, <3>3 DEF Shows
  <2> QED
    BY <1>1, <1>4, <2>1, <2>2, <2>3, <2>5 DEF planes, first
<1>7. CASE mode = "hdr"
  <2>1. planes = <<hg, lg>>
    BY <1>3, <1>7
  <2>2. DOMAIN planes = {1, 2} /\ planes[1] = hg /\ planes[2] = lg /\ Len(planes) = 2
    BY <2>1
  <2>3. pictures = [i \in {1, 2} |-> IF i = 1 THEN first ELSE second]
    BY <1>1, <2>2
  <2>4. PicturesOf(frame, mode) = [i \in {1, 2} |-> IF i = 1 THEN first ELSE second]
    <3>1. Planes(mode) = <<"HG", "LG">>
      BY <1>7 DEF Planes
    <3>2. DOMAIN Planes(mode) = {1, 2} /\ Planes(mode)[1] = "HG" /\ Planes(mode)[2] = "LG"
      BY <3>1
    <3> QED
      BY <3>2 DEF PicturesOf, first, second
  <2> HIDE DEF pictures
  <2> QED
    BY <1>1, <1>4, <1>7, <2>2, <2>3, <2>4 DEF planes
<1> QED
  BY <1>6, <1>7 DEF Modes

(* What an accepted payload tells. *)
LEMMA AcceptedTells ==
    ASSUME ConfigOK, HeaderError(header) = "none",
           NEW payload \in Seq(Byte), Len(payload) = header.payload_len,
           PayloadError(payload) = "none"
    PROVE  /\ Readable(config.width, config.order)
           /\ config.verify_crc => payload = header.crc32
           /\ payload[Len(payload)] < 128
<1> DEFINE n == Area
           planes == PlanesIn(payload)
           last == planes[Len(planes)]
<1>1. /\ planes \in Seq(Seq(Byte)) /\ Len(planes) \in {1, 2}
      /\ \A i \in 1..Len(planes) : PlaneError(planes[i]) = "none"
  BY PlanesAre
<1>2. /\ header.width = config.width /\ header.height = config.height
      /\ PayloadSize(header.width, header.height) = 2 * n
      /\ n \in Nat \ {0} /\ Len(payload) \in {2 * n, 4 * n}
  BY HeaderFits, AreaIsPositive
<1>3. last \in Seq(Byte) /\ PlaneError(last) = "none"
  <2> DEFINE count == Len(planes)
  <2>1. count = 1 \/ count = 2
    BY <1>1
  <2> HIDE DEF planes, count
  <2>2. count \in 1..count
    BY <2>1
  <2> QED
    BY <1>1, <2>2, ElementOfSeq DEF count
<1>4. last[2 * n] = payload[Len(payload)]
  <2>1. CASE Len(payload) = 2 * n
    <3>1. planes = <<payload>>
      BY <1>2, <2>1 DEF PlanesIn
    <3>2. last = payload
      <4> HIDE DEF planes
      <4> QED
        BY <3>1
    <3> QED
      BY <2>1, <3>2
  <2>2. CASE Len(payload) # 2 * n
    <3> DEFINE second == SubSeq(payload, 2 * n + 1, 2 * (2 * n))
    <3>1. planes = <<SubSeq(payload, 1, 2 * n), second>>
      BY <1>2, <2>2 DEF PlanesIn
    <3>2. last = second
      <4> HIDE DEF planes, second
      <4> QED
        BY <3>1
    <3>3. second[2 * n] = payload[Len(payload)]
      <4> HIDE DEF n
      <4>1. /\ 2 * n + 1 \in Int /\ 2 * (2 * n) \in Int /\ Len(payload) = 2 * (2 * n)
            /\ 2 * n \in 1..2 * (2 * n) - (2 * n + 1) + 1
            /\ (2 * n + 1) + 2 * n - 1 = 2 * (2 * n)
        BY <1>2, <2>2
      <4>2. \A i \in 2 * n + 1..2 * (2 * n) : payload[i] \in Byte
        <5>1. ASSUME NEW i \in 2 * n + 1..2 * (2 * n) PROVE payload[i] \in Byte
          <6>1. i \in 1..Len(payload)
            BY <1>2, <4>1
          <6> QED
            BY <6>1, ElementOfSeq
        <5> QED
          BY <5>1
      <4>3. \A i \in 1..2 * (2 * n) - (2 * n + 1) + 1 :
                second[i] = payload[(2 * n + 1) + i - 1]
        <5> DEFINE from == 2 * n + 1
                   to == 2 * (2 * n)
        <5>1. from \in Int /\ to \in Int /\ \A i \in from..to : payload[i] \in Byte
          BY <4>1, <4>2
        <5> HIDE DEF from, to
        <5>2. \A i \in 1..to - from + 1 :
                SubSeq(payload, from, to)[i] = payload[from + i - 1]
          BY <5>1, SubSeqProperties
        <5> QED
          BY <5>2 DEF from, to
      <4> HIDE DEF second
      <4> QED
        BY <4>1, <4>3
    <3> QED
      BY <3>2, <3>3
  <2> QED
    BY <2>1, <2>2
<1> HIDE DEF n, planes, last
<1>5. /\ Len(last) = 2 * n /\ HighBitsAreZero(last, n)
      /\ (config.order = "four_lane" => config.width % LaneCount = 0)
  BY <1>2, <1>3 DEF PlaneError, ConvertError, n, Area
<1>6. last[2 * n] < 128
  <2> DEFINE low == last[2 * n - 1]
             high == last[2 * n]
  <2>1. low \in Byte /\ high \in Byte
    <3>1. 2 * n \in 1..Len(last) /\ 2 * n - 1 \in 1..Len(last)
      BY <1>2, <1>5
    <3> QED
      BY <1>3, <3>1, ElementOfSeq
  <2>2. Pixel16(last, n - 1) < 4096
    BY <1>2, <1>5 DEF HighBitsAreZero
  <2>3. 2 * (n - 1) + 1 = 2 * n - 1 /\ 2 * (n - 1) + 2 = 2 * n
    BY <1>2
  <2>4. low + 256 * high < 4096
    BY <2>2, <2>3 DEF Pixel16
  <2> HIDE DEF low, high
  <2>5. high < 128
    BY <2>1, <2>4 DEF Byte
  <2> QED
    BY <2>5 DEF high
<1>7. config.verify_crc => payload = header.crc32
  BY DEF PayloadError
<1> QED
  BY <1>4, <1>5, <1>6, <1>7 DEF ConfigOK, Readable

(* A sound frame of a format that is supported passes every check. *)
LEMMA SoundIsAccepted ==
    ASSUME ConfigOK, Supported, NEW frame \in Nat, NEW mode \in Modes,
           NEW extension \in Extensions
    PROVE  LET payload == FramePayload(frame, mode)
               h == HeaderOf(payload, extension, "none")
           IN  /\ HeaderError(h) = "none" /\ h.payload_len \in 1..MaxPayload
               /\ header = h => PayloadError(payload) = "none"
<1> DEFINE n == Area
           payload == FramePayload(frame, mode)
           h == HeaderOf(payload, extension, "none")
<1>1. /\ n \in Nat \ {0} /\ config.width \in Nat \ {0} /\ config.height \in Nat \ {0}
      /\ 4 * n <= MaxPayload
  <2>1. 4 * config.width * config.height = 4 * Area
    <3> DEFINE w == config.width
               height == config.height
    <3>1. w \in Nat /\ height \in Nat
      BY DEF ConfigOK
    <3> HIDE DEF w, height
    <3>2. 4 * w * height = 4 * (w * height)
      BY <3>1
    <3> QED
      BY <3>2 DEF w, height, Area
  <2> QED
    BY <2>1, AreaIsPositive DEF ConfigOK, Supported
<1>2. SizeMax \in Nat /\ MaxPayload \in Nat /\ MaxPayload <= SizeMax
  BY StreamAssumption, SizesAssumption
<1>3. extension \in Nat /\ HeaderSize + extension \in HeaderSize..MaxHeaderSize
  BY SizesAssumption DEF Extensions
<1>4. /\ h.wrong = {} /\ h.header_len = HeaderSize + extension
      /\ h.width = config.width /\ h.height = config.height
      /\ h.payload_len = FrameSize(mode) /\ h.crc32 = payload
  <2>1. "none" \in Faults
    BY DEF Faults
  <2> QED
    <3> HIDE DEF h
    <3> DEFINE fault == "none"
    <3>1. /\ fault \in Faults
          /\ fault \notin {"field", "headerLength", "dimensions", "length", "highBits"}
      BY <2>1
    <3> HIDE DEF fault
    <3>2. LET g == HeaderOf(payload, extension, fault)
          IN  /\ g.wrong = {} /\ g.header_len = HeaderSize + extension
              /\ g.width = config.width /\ g.height = config.height
              /\ g.payload_len = FrameSize(mode) /\ g.crc32 = payload
      BY <1>3, <3>1, HeaderIsSent
    <3> QED
      BY <3>2 DEF h, fault
<1>5. FrameSize(mode) = 2 * n \/ FrameSize(mode) = 4 * n
  BY DEF FrameSize
<1> HIDE DEF n, h
<1>6. PayloadSizeFits(config.width, config.height)
      /\ PayloadSize(config.width, config.height) = 2 * n
  <2>1. 2 * n <= SizeMax
    BY <1>1, <1>2
  <2> QED
    BY <1>1, <2>1, PayloadSizeNeverWraps DEF n, Area
<1>7. \/ IsSinglePlane(h.payload_len, PayloadSize(config.width, config.height))
      \/ IsTwoPlanes(h.payload_len, PayloadSize(config.width, config.height))
  <2>1. CASE FrameSize(mode) = 2 * n
    BY <1>4, <1>6, <2>1 DEF IsSinglePlane
  <2>2. CASE FrameSize(mode) = 4 * n
    <3> DEFINE size == 2 * n
    <3>1. size \in Nat /\ size * 2 = 4 * n /\ size * 2 <= SizeMax
      BY <1>1, <1>2
    <3> HIDE DEF size
    <3>2. size <= SizeMax \div 2
      BY <1>2, <3>1, DivisionGuard
    <3>3. Times(size, 2) = size * 2
      BY <3>1, NoWrap
    <3> QED
      BY <1>4, <1>6, <2>2, <3>1, <3>2, <3>3 DEF IsTwoPlanes, size
  <2> QED
    BY <1>5, <2>1, <2>2
<1>8. HeaderError(h) = "none"
  BY <1>1, <1>3, <1>4, <1>6, <1>7 DEF HeaderError, ParseImageFrameHeader
<1>9. h.payload_len \in 1..MaxPayload
  BY <1>1, <1>2, <1>4, <1>5
<1>10. ASSUME header = h PROVE PayloadError(payload) = "none"
  <2>1. Readable(config.width, config.order)
    BY DEF ConfigOK, Readable, Supported
  <2>2. HeaderError(header) = "none"
    BY <1>8, <1>10
  <2>3. /\ PlaneError(PlanesIn(payload)[1]) = "none"
        /\ PlaneError(PlanesIn(payload)[Len(PlanesIn(payload))]) = "none"
    BY <2>1, <2>2, FrameIsTrue
  <2> HIDE DEF payload
  <2> QED
    BY <1>4, <1>10, <2>3 DEF PayloadError
<1> QED
  BY <1>8, <1>9, <1>10 DEF h

-----------------------------------------------------------------------------
(* The session is never configured anew while the worker runs. *)
LEMMA ConfigStays == [Next]_vars => config' = config
  BY DEF Next, vars, FpgaSends, FpgaCloses, SessionStops, WorkerStep, LoopTest,
         ReceiveHeader, ReceiveExtension, ReceivePayload, ReceiveFails,
         ReceiveBreaks, FailReceive

LEMMA WhatIsSentStays ==
    ASSUME config' = config
    PROVE  /\ ConfigOK' = ConfigOK /\ Given' = Given /\ Supported' = Supported
           /\ \A h : HeaderError(h)' = HeaderError(h)
           /\ \A frame, plane : PictureOf(frame, plane)' = PictureOf(frame, plane)
           /\ \A frame, mode : PicturesOf(frame, mode)' = PicturesOf(frame, mode)
           /\ \A frame, mode : FramePayload(frame, mode)' = FramePayload(frame, mode)
           /\ \A p, extension, fault :
                HeaderOf(p, extension, fault)' = HeaderOf(p, extension, fault)
<1>1. ConfigOK' = ConfigOK /\ Supported' = Supported
  BY DEF ConfigOK, Supported
<1>2. Pictures' = Pictures
  BY DEF Pictures
<1>3. Given' = Given
  BY <1>2 DEF Given
<1>4. \A frame, plane : PictureOf(frame, plane)' = PictureOf(frame, plane)
  BY DEF PictureOf
<1>5. \A frame, mode : PicturesOf(frame, mode)' = PicturesOf(frame, mode)
  BY <1>4 DEF PicturesOf
<1>6. SenderOrder' = SenderOrder
  BY DEF SenderOrder
<1>7. \A frame, plane : PlanePayload(frame, plane)' = PlanePayload(frame, plane)
  BY <1>4, <1>6 DEF PlanePayload
<1>8. \A frame, mode : FramePayload(frame, mode)' = FramePayload(frame, mode)
  BY <1>7 DEF FramePayload
<1>9. \A p, extension, fault : HeaderOf(p, extension, fault)' = HeaderOf(p, extension, fault)
  BY DEF HeaderOf
<1>10. \A h : HeaderError(h)' = HeaderError(h)
  BY DEF HeaderError
<1> QED
  BY <1>1, <1>3, <1>4, <1>5, <1>8, <1>9, <1>10

LEMMA FrameStays ==
    ASSUME config' = config, NEW i, log'[i] = log[i], NEW extension
    PROVE  /\ HeaderAt(i, extension)' = HeaderAt(i, extension)
           /\ PayloadAt(i)' = PayloadAt(i)
           /\ Frame(i, extension)' = Frame(i, extension)
<1>1. FramePayload(i, log[i].mode)' = FramePayload(i, log[i].mode)
  BY WhatIsSentStays
<1>2. HeaderAt(i, extension)' = HeaderAt(i, extension)
  BY <1>1, WhatIsSentStays DEF HeaderAt
<1>3. PayloadAt(i)' = PayloadAt(i)
  BY <1>1 DEF PayloadAt
<1> QED
  BY <1>2, <1>3 DEF Frame

-----------------------------------------------------------------------------
(* Types. *)

TypeInv ==
    /\ ConfigOK
    /\ \E format \in Formats : config.width = format[1] /\ config.height = format[2]
    /\ stream \in Seq(Item)
    /\ peerOpen \in BOOLEAN /\ running \in BOOLEAN /\ broken \in BOOLEAN
    /\ pc \in {"loop", "header", "extension", "payload", "ended"}
    /\ buffer \in Nat
    /\ log \in Seq([mode : Modes, fault : Faults])
    /\ delivered \in Seq(Given)

LEMMA TypeInvTypes == TypeInv => TypeOK
<1> SUFFICES ASSUME TypeInv PROVE TypeOK
  OBVIOUS
<1>1. ASSUME NEW i \in DOMAIN stream PROVE stream[i][1] \in {"byte", "header"}
  <2>1. stream[i] \in Item
    BY <1>1, ElementOfSeq, LenProperties DEF TypeInv
  <2> QED
    BY <2>1, ItemTags DEF Tags
<1> DEFINE places == 0..config.width * config.height - 1
           Wide(i) == \A plane \in Range(delivered[i].pixels16) : plane \in [places -> 0..4095]
           Small(i) == delivered[i].pixels8 # <<>> => delivered[i].pixels8 \in [places -> 0..255]
<1>2. ASSUME NEW i \in DOMAIN delivered PROVE Wide(i) /\ Small(i)
  <2> DEFINE planes == delivered[i].pixels16
             gray == delivered[i].pixels8
  <2>1. delivered[i] \in Given
    BY <1>2, ElementOfSeq, LenProperties DEF TypeInv
  <2>2. planes \in Seq([places -> Bits12]) /\ (gray \in [places -> Byte] \/ gray = <<>>)
    BY <2>1 DEF Given, Pictures, Places
  <2> HIDE DEF places, planes, gray
  <2>3. ASSUME NEW plane \in Range(planes) PROVE plane \in [places -> Bits12]
    <3>1. PICK j \in DOMAIN planes : plane = planes[j]
      BY <2>3 DEF Range
    <3>2. j \in 1..Len(planes)
      BY <2>2, LenProperties
    <3> QED
      BY <2>2, <3>1, <3>2, ElementOfSeq
  <2>4. \A plane \in Range(planes) : plane \in [places -> 0..4095]
    BY <2>3 DEF Bits12
  <2>5. gray # <<>> => gray \in [places -> 0..255]
    BY <2>2 DEF Byte
  <2> QED
    BY <2>4, <2>5 DEF planes, gray
<1>3. \A i \in DOMAIN stream : stream[i][1] \in {"byte", "header"}
  BY <1>1
<1>4. (\A i \in DOMAIN delivered : Wide(i)) /\ (\A i \in DOMAIN delivered : Small(i))
  <2> HIDE DEF Wide, Small
  <2> QED
    BY <1>2
<1> QED
  BY <1>3, <1>4, Zenon DEF TypeInv, TypeOK, ConfigOK, places

LEMMA TypeInit == Init => TypeInv
<1> SUFFICES ASSUME Init PROVE TypeInv
  OBVIOUS
<1>1. PICK format \in Formats, order \in ReadoutOrders, verify \in BOOLEAN :
        config = [width |-> format[1], height |-> format[2],
                  order |-> order, verify_crc |-> verify]
  BY DEF Init
<1>2. format \in (Nat \ {0}) \X (Nat \ {0})
  BY <1>1, StreamAssumption
<1>3. ConfigOK /\ config.width = format[1] /\ config.height = format[2]
  BY <1>1, <1>2 DEF ConfigOK
<1>4. /\ stream \in Seq(Item) /\ log \in Seq([mode : Modes, fault : Faults])
      /\ delivered \in Seq(Given)
  BY DEF Init
<1> QED
  BY <1>3, <1>4 DEF Init, TypeInv

(* What has been received is removed from the front of the stream. *)
LEMMA RestOfStream ==
    ASSUME NEW s \in Seq(Item), NEW count \in Nat
    PROVE  SubSeq(s, count + 1, Len(s)) \in Seq(Item)
<1>1. count + 1 \in Int /\ Len(s) \in Int
  BY LenProperties
<1>2. ASSUME NEW i \in count + 1..Len(s) PROVE s[i] \in Item
  <2>1. i \in 1..Len(s)
    BY <1>1
  <2> QED
    BY <2>1, ElementOfSeq
<1> DEFINE from == count + 1
           to == Len(s)
<1>3. from \in Int /\ to \in Int /\ \A i \in from..to : s[i] \in Item
  BY <1>1, <1>2
<1> HIDE DEF from, to
<1>4. SubSeq(s, from, to) \in Seq(Item)
  BY <1>3, SubSeqProperties
<1> QED
  BY <1>4 DEF from, to

(* A payload is made of as many bytes as the buffer has. *)
Payload(some) ==
    [i \in 1..buffer |-> IF stream[i][1] = "byte" THEN stream[i][2] ELSE some]
LEMMA PayloadIsBytes ==
    ASSUME stream \in Seq(Item), buffer \in Nat, Len(stream) >= buffer, NEW some \in {0, 255}
    PROVE  Payload(some) \in Seq(Byte) /\ Len(Payload(some)) = buffer
<1>1. some \in Byte
  BY DEF Byte
<1>2. ASSUME NEW i \in 1..buffer
      PROVE  (IF stream[i][1] = "byte" THEN stream[i][2] ELSE some) \in Byte
  <2>1. i \in 1..Len(stream)
    BY LenProperties
  <2>2. stream[i] \in Item
    BY <2>1, ElementOfSeq
  <2> QED
    BY <1>1, <2>2, ItemTags
<1>3. Payload(some) \in [1..buffer -> Byte]
  BY <1>2 DEF Payload
<1> QED
  BY <1>3

(* A frame is put behind what is on its way. *)
LEMMA SentIs ==
    ASSUME TypeInv, FpgaSends
    PROVE  \E n \in Nat, mode \in Modes, fault \in Faults, extension \in Extensions :
             /\ n = Len(log) /\ log' = Append(log, [mode |-> mode, fault |-> fault])
             /\ peerOpen' = (fault # "cut")
             /\ Frame(n + 1, extension)' \in Seq(Item)
             /\ stream' = stream \o Frame(n + 1, extension)'
<1>1. PICK n \in Nat : n = Len(log)
  BY LenProperties DEF TypeInv
<1> DEFINE P(mode) == FramePayload(n + 1, mode)
           a(mode, extension, fault) == HeaderBytes(HeaderOf(P(mode), extension, fault))
           b(extension) == Zeros(extension)
           c(mode, fault) == Bytes(Damaged(P(mode), fault))
<1>2. PICK mode \in Modes, fault \in Faults, extension \in Extensions :
        /\ stream' = stream \o a(mode, extension, fault) \o b(extension) \o c(mode, fault)
        /\ log' = Append(log, [mode |-> mode, fault |-> fault])
        /\ peerOpen' = (fault # "cut")
  BY <1>1 DEF FpgaSends, Extensions, Zeros
<1>3. config' = config /\ ConfigOK /\ stream \in Seq(Item)
  BY DEF FpgaSends, TypeInv
<1>4. log'[n + 1] = [mode |-> mode, fault |-> fault]
  BY <1>1, <1>2, AppendProperties DEF TypeInv
<1> HIDE DEF P
<1>5. P(mode) = FramePayload(n + 1, log[n + 1].mode)'
  BY <1>3, <1>4, WhatIsSentStays DEF P
<1>6. HeaderAt(n + 1, extension)' = HeaderOf(P(mode), extension, fault)
  BY <1>3, <1>4, <1>5, WhatIsSentStays DEF HeaderAt
<1>7. PayloadAt(n + 1)' = Damaged(P(mode), fault)
  BY <1>4, <1>5 DEF PayloadAt
<1>8. Frame(n + 1, extension)' = a(mode, extension, fault) \o (b(extension) \o c(mode, fault))
  BY <1>6, <1>7 DEF Frame
<1>9. a(mode, extension, fault) \in Seq(Item)
  <2>1. extension \in Nat /\ n + 1 \in Nat
    BY ZerosAre
  <2>2. HeaderOf(P(mode), extension, fault) \in Headers
    BY <1>3, <2>1, HeaderIsSent DEF P
  <2> QED
    BY <2>2, HeaderBytesAre
<1>10. c(mode, fault) \in Seq(Item)
  <2>1. P(mode) \in Seq(Byte) /\ Len(P(mode)) >= 2 /\ P(mode)[Len(P(mode))] \in 0..15
    BY <1>3, FrameIsBytes, FrameSizeIsPositive DEF P
  <2>2. Damaged(P(mode), fault) \in Seq(Byte)
    BY <2>1, DamagedIs
  <2> QED
    BY <2>2, BytesAre
<1>11. b(extension) \in Seq(Item)
  BY ZerosAre
<1> DEFINE x == a(mode, extension, fault)
           y == b(extension)
           z == c(mode, fault)
<1>12. x \in Seq(Item) /\ y \in Seq(Item) /\ z \in Seq(Item)
  BY <1>9, <1>10, <1>11
<1>13. stream' = ((stream \o x) \o y) \o z
  BY <1>2
<1>14. Frame(n + 1, extension)' = x \o (y \o z)
  BY <1>8
<1> HIDE DEF x, y, z, a, b, c
<1>15. /\ y \o z \in Seq(Item) /\ stream \o x \in Seq(Item)
       /\ x \o (y \o z) \in Seq(Item)
  BY <1>3, <1>12, ConcatProperties
<1>16. ((stream \o x) \o y) \o z = (stream \o x) \o (y \o z)
  BY <1>12, <1>15, ConcatAssociative, SMTT(30)
<1>17. (stream \o x) \o (y \o z) = stream \o (x \o (y \o z))
  BY <1>3, <1>12, <1>15, ConcatAssociative, SMTT(30)
<1>18. /\ Frame(n + 1, extension)' \in Seq(Item)
       /\ stream' = stream \o Frame(n + 1, extension)'
  BY <1>13, <1>14, <1>15, <1>16, <1>17
<1> QED
  BY <1>1, <1>2, <1>18

LEMMA TypeNext == TypeInv /\ HeaderInv /\ [Next]_vars => TypeInv'
<1> SUFFICES ASSUME TypeInv, HeaderInv, [Next]_vars PROVE TypeInv'
  OBVIOUS
<1>1. /\ ConfigOK' /\ Given' = Given
      /\ (\E format \in Formats : config.width = format[1] /\ config.height = format[2])'
  BY ConfigStays, WhatIsSentStays DEF TypeInv
<1> DEFINE Typed ==
             /\ stream' \in Seq(Item)
             /\ peerOpen' \in BOOLEAN /\ running' \in BOOLEAN /\ broken' \in BOOLEAN
             /\ pc' \in {"loop", "header", "extension", "payload", "ended"}
             /\ buffer' \in Nat
             /\ log' \in Seq([mode : Modes, fault : Faults])
             /\ delivered' \in Seq(Given)
<1>2. SUFFICES Typed
  BY <1>1 DEF TypeInv
<1>3. CASE UNCHANGED vars
  BY <1>3 DEF vars, worker, TypeInv
<1>4. CASE FpgaSends
  <2>1. PICK n \in Nat, mode \in Modes, fault \in Faults, extension \in Extensions :
          /\ n = Len(log) /\ log' = Append(log, [mode |-> mode, fault |-> fault])
          /\ peerOpen' = (fault # "cut")
          /\ Frame(n + 1, extension)' \in Seq(Item)
          /\ stream' = stream \o Frame(n + 1, extension)'
    BY <1>4, SentIs
  <2>2. stream' \in Seq(Item)
    BY <2>1, ConcatProperties DEF TypeInv
  <2>3. log' \in Seq([mode : Modes, fault : Faults])
    BY <2>1, AppendProperties DEF TypeInv
  <2> QED
    BY <1>4, <2>1, <2>2, <2>3 DEF FpgaSends, TypeInv, worker
<1>5. CASE FpgaCloses \/ SessionStops
  BY <1>5 DEF FpgaCloses, SessionStops, worker, TypeInv
<1>6. CASE LoopTest
  BY <1>6 DEF LoopTest, TypeInv
<1>7. ASSUME NEW code, Fail(code), UNCHANGED <<peerOpen, log>>, broken' \in BOOLEAN
      PROVE  Typed
  <2>1. /\ running' = FALSE /\ pc' = "ended" /\ stream' = <<>> /\ buffer' = 0
        /\ UNCHANGED <<delivered, peerOpen, log>>
    BY <1>7 DEF Fail
  <2>2. /\ peerOpen \in BOOLEAN /\ log \in Seq([mode : Modes, fault : Faults])
        /\ delivered \in Seq(Given)
    BY DEF TypeInv
  <2>3. stream' \in Seq(Item) /\ buffer' \in Nat
    BY <2>1, EmptySeq
  <2> QED
    BY <1>7, <2>1, <2>2, <2>3
<1>8. HeaderSize \in Nat /\ MaxHeaderSize \in Nat
  BY SizesAssumption
<1>9. CASE ReceiveHeader
  <2> DEFINE h == HeaderIn(Received(HeaderSize))
  <2>1. CASE \E code : Fail(code)
    BY <1>7, <1>9, <2>1 DEF ReceiveHeader, TypeInv
  <2>2. CASE /\ HeaderError(h) = "none" /\ Consume(HeaderSize)
             /\ UNCHANGED <<running, delivered>>
             /\ \/ pc' = "extension" /\ buffer' = h.header_len - HeaderSize
                \/ StartPayload(h)
    <3>1. stream' \in Seq(Item)
      BY <1>8, <2>2, RestOfStream DEF Consume, TypeInv
    <3>2. h.header_len \in HeaderSize..MaxHeaderSize
      BY <2>2, HeaderFits DEF TypeInv
    <3>3. /\ pc' \in {"loop", "header", "extension", "payload", "ended"}
          /\ buffer' \in Nat
      BY <1>8, <2>2, <3>2 DEF StartPayload
    <3> QED
      BY <1>9, <2>2, <3>1, <3>3 DEF ReceiveHeader, TypeInv
  <2> QED
    BY <1>9, <2>1, <2>2 DEF ReceiveHeader, StartPayload
<1>10. CASE ReceiveExtension
  <2>1. CASE \E code : Fail(code)
    BY <1>7, <1>10, <2>1 DEF ReceiveExtension, TypeInv
  <2>2. CASE Consume(buffer) /\ StartPayload(header)
    <3>1. stream' \in Seq(Item)
      BY <2>2, RestOfStream DEF Consume, TypeInv
    <3> QED
      BY <1>10, <2>2, <3>1 DEF ReceiveExtension, StartPayload, TypeInv
  <2> QED
    BY <1>10, <2>1, <2>2 DEF ReceiveExtension
<1>11. CASE ReceivePayload
  <2>1. CASE \E code : Fail(code)
    BY <1>7, <1>11, <2>1 DEF ReceivePayload, TypeInv
  <2>2. CASE ~ \E code : Fail(code)
    <3>1. PICK some \in {0, 255} :
            /\ PayloadError(Payload(some)) = "none"
            /\ delivered' = Append(delivered, Converted(Payload(some)))
            /\ pc' = "loop" /\ buffer' = 0 /\ Consume(buffer) /\ UNCHANGED running
      BY <1>11, <2>2 DEF ReceivePayload, Payload
    <3>2. /\ Payload(some) \in Seq(Byte) /\ Len(Payload(some)) = buffer
      BY <1>11, PayloadIsBytes DEF ReceivePayload, TypeInv
    <3>3. HeaderError(header) = "none" /\ buffer = header.payload_len
      BY <1>11 DEF ReceivePayload, HeaderInv
    <3>4. Converted(Payload(some)) \in Given
      BY <3>1, <3>2, <3>3, AcceptedIsGiven DEF TypeInv
    <3>5. delivered' \in Seq(Given)
      BY <3>1, <3>4, AppendProperties DEF TypeInv
    <3>6. stream' \in Seq(Item)
      BY <3>1, RestOfStream DEF Consume, TypeInv
    <3> QED
      BY <1>11, <3>1, <3>5, <3>6 DEF ReceivePayload, TypeInv
  <2> QED
    BY <2>1, <2>2
<1>12. CASE ReceiveFails \/ ReceiveBreaks
  BY <1>7, <1>12 DEF ReceiveFails, ReceiveBreaks, FailReceive, TypeInv
<1> QED
  BY <1>3, <1>4, <1>5, <1>6, <1>9, <1>10, <1>11, <1>12 DEF Next, WorkerStep

LEMMA TypedConfig == TypeInv => ConfigInv
  BY DEF TypeInv, ConfigOK, ConfigInv

(* In the image worker every variable keeps its type, whatever the FPGA sends: what *)
(* is handed over has the size of a picture and pixels of twelve and eight bits.    *)
THEOREM StreamTypes == Spec => []TypeOK
<1>1. Init => TypeInv /\ HeaderInv
  BY TypeInit, BufferInit DEF BufferInv
<1>2. TypeInv /\ HeaderInv /\ [Next]_vars => (TypeInv /\ HeaderInv)'
  BY TypeNext, BufferNext, TypedConfig DEF BufferInv
<1> QED
  BY <1>1, <1>2, TypeInvTypes, PTL DEF Spec

-----------------------------------------------------------------------------
(* A connection that cuts a frame is closed. *)

LEMMA LogTypes ==
    ASSUME TypeInv
    PROVE  /\ Len(log) \in Nat /\ Len(delivered) \in Nat
           /\ \A i \in 1..Len(log) : log[i].mode \in Modes /\ log[i].fault \in Faults
<1>1. ASSUME NEW i \in 1..Len(log) PROVE log[i].mode \in Modes /\ log[i].fault \in Faults
  <2>1. log[i] \in [mode : Modes, fault : Faults]
    BY ElementOfSeq DEF TypeInv
  <2> QED
    BY <2>1
<1> QED
  BY <1>1, LenProperties DEF TypeInv

LEMMA LogGrows ==
    ASSUME TypeInv, NEW mode \in Modes, NEW fault \in Faults,
           log' = Append(log, [mode |-> mode, fault |-> fault])
    PROVE  /\ Len(log') = Len(log) + 1
           /\ \A i \in 1..Len(log) : log'[i] = log[i]
           /\ log'[Len(log) + 1].mode = mode /\ log'[Len(log) + 1].fault = fault
<1> DEFINE entry == [mode |-> mode, fault |-> fault]
<1>1. entry \in [mode : Modes, fault : Faults]
  OBVIOUS
<1>2. entry.mode = mode /\ entry.fault = fault
  OBVIOUS
<1> HIDE DEF entry
<1>3. /\ Len(Append(log, entry)) = Len(log) + 1
      /\ \A i \in 1..Len(log) : Append(log, entry)[i] = log[i]
      /\ Append(log, entry)[Len(log) + 1] = entry
  BY <1>1, AppendProperties DEF TypeInv
<1> QED
  BY <1>2, <1>3 DEF entry

LEMMA CutNext == TypeInv /\ CutInv /\ [Next]_vars => CutInv'
<1> SUFFICES ASSUME TypeInv, CutInv, [Next]_vars PROVE CutInv'
  OBVIOUS
<1>1. CASE FpgaSends
  <2>1. PICK n \in Nat, mode \in Modes, fault \in Faults :
          /\ n = Len(log) /\ log' = Append(log, [mode |-> mode, fault |-> fault])
          /\ peerOpen' = (fault # "cut")
    BY <1>1, SentIs
  <2>2. /\ Len(log') = n + 1 /\ \A i \in 1..n : log'[i] = log[i]
        /\ log'[n + 1].fault = fault
    BY <2>1, LogGrows
  <2>3. \A i \in 1..n : log[i].fault # "cut"
    BY <1>1, <2>1 DEF CutInv, FpgaSends
  <2>4. ASSUME NEW i \in 1..n + 1, log'[i].fault = "cut" PROVE i = n + 1 /\ ~peerOpen'
    <3>1. i = n + 1
      BY <2>1, <2>2, <2>3, <2>4
    <3> QED
      BY <2>1, <2>2, <2>4, <3>1
  <2> QED
    BY <2>2, <2>4 DEF CutInv
<1>2. CASE log' = log /\ (peerOpen' = peerOpen \/ ~peerOpen')
  BY <1>2 DEF CutInv
<1> QED
  BY <1>1, <1>2 DEF Next, vars, FpgaCloses, SessionStops, WorkerStep, LoopTest,
        ReceiveHeader, ReceiveExtension, ReceivePayload, ReceiveFails,
         ReceiveBreaks, FailReceive

-----------------------------------------------------------------------------
(* The bytes of a frame at the front of the stream. *)

LEMMA FrontOfStream ==
    ASSUME NEW d \in Seq(Byte), NEW r \in Seq(Item)
    PROVE  /\ Bytes(d) \o r \in Seq(Item)
           /\ Len(Bytes(d) \o r) = Len(d) + Len(r)
           /\ \A i \in 1..Len(d) : (Bytes(d) \o r)[i] = <<"byte", d[i]>>
           /\ \A j \in 1..Len(r) : (Bytes(d) \o r)[Len(d) + j] = r[j]
           /\ SubSeq(Bytes(d) \o r, Len(d) + 1, Len(Bytes(d) \o r)) = r
<1> DEFINE b == Bytes(d)
           s == b \o r
           n == Len(d)
<1>1. /\ b \in Seq(Item) /\ Len(b) = n /\ n \in Nat /\ Len(r) \in Nat
      /\ \A i \in 1..n : b[i] = <<"byte", d[i]>>
  BY BytesAre, LenProperties
<1> HIDE DEF b, n
<1>2. /\ s \in Seq(Item) /\ Len(s) = Len(b) + Len(r)
      /\ \A i \in 1..Len(b) + Len(r) : s[i] = IF i <= Len(b) THEN b[i] ELSE r[i - Len(b)]
  <2>1. b \in Seq(Item) /\ r \in Seq(Item)
    BY <1>1
  <2> QED
    BY <2>1, ConcatProperties
<1>3. SubSeq(s, Len(b) + 1, Len(s)) = r
  <2>1. b \in Seq(Item) /\ r \in Seq(Item)
    BY <1>1
  <2> QED
    BY <2>1, ComesApart
<1> HIDE DEF s
<1>4. \A i \in 1..n : s[i] = <<"byte", d[i]>>
  BY <1>1, <1>2
<1>5. ASSUME NEW j \in 1..Len(r) PROVE s[n + j] = r[j]
  <2> DEFINE i == n + j
  <2>1. i \in 1..Len(b) + Len(r) /\ ~(i <= Len(b)) /\ i - Len(b) = j
    BY <1>1
  <2> HIDE DEF i
  <2>2. s[i] = r[i - Len(b)]
    BY <1>2, <2>1
  <2> QED
    BY <2>1, <2>2 DEF i
<1> QED
  BY <1>1, <1>2, <1>3, <1>4, <1>5 DEF b, s, n

LEMMA NextItem ==
    ASSUME NEW s \in Seq(Item), NEW count \in Nat, Len(s) > count
    PROVE  LET left == SubSeq(s, count + 1, Len(s))
           IN  Len(left) >= 1 /\ left[1] = s[count + 1]
<1> DEFINE from == count + 1
           to == Len(s)
<1>1. from \in Int /\ to \in Int /\ from <= to /\ 1 \in 1..to - from + 1 /\ from + 1 - 1 = from
  BY LenProperties
<1>2. ASSUME NEW i \in from..to PROVE s[i] \in Item
  <2>1. i \in 1..Len(s)
    BY LenProperties
  <2> QED
    BY <2>1, ElementOfSeq
<1> HIDE DEF from, to
<1>3. /\ Len(SubSeq(s, from, to)) = IF from <= to THEN to - from + 1 ELSE 0
      /\ \A i \in 1..to - from + 1 : SubSeq(s, from, to)[i] = s[from + i - 1]
  BY <1>1, <1>2, SubSeqProperties
<1> DEFINE left == SubSeq(s, from, to)
<1> HIDE DEF left
<1>4. Len(left) >= 1 /\ left[1] = s[from]
  BY <1>1, <1>3 DEF left
<1> QED
  BY <1>4 DEF from, to, left

(* A frame has its header's first byte, and then the second. *)
LEMMA FrameBegins ==
    ASSUME TypeInv, NEW i \in 1..Len(log), NEW extension \in Extensions, NEW r \in Seq(Item)
    PROVE  /\ Len(Frame(i, extension) \o r) >= HeaderSize
           /\ (Frame(i, extension) \o r)[2] = <<"header", 2>>
<1> DEFINE a == HeaderBytes(HeaderAt(i, extension))
           b == Zeros(extension)
           c == Bytes(PayloadAt(i))
           t == b \o (c \o r)
<1>1. i \in Nat /\ ConfigOK /\ log[i].fault \in Faults
  BY LogTypes DEF TypeInv
<1>2. /\ a \in Seq(Item) /\ b \in Seq(Item) /\ c \in Seq(Item)
      /\ HeaderAt(i, extension) \in Headers
  BY <1>1, FrameParts, ZerosAre
<1>3. Frame(i, extension) \o r = a \o t
  BY <1>1, FrameOpens
<1>4. Len(a) = HeaderSize /\ a[2] = <<"header", 2>> /\ HeaderSize \in Nat /\ HeaderSize >= 2
  <2>1. HeaderSize \in Nat /\ 2 \in 2..HeaderSize
    BY SizesAssumption
  <2> QED
    BY <1>2, <2>1, HeaderBytesAre
<1> HIDE DEF a, b, c
<1>5. t \in Seq(Item)
  BY <1>2, ConcatProperties
<1> HIDE DEF t
<1>6. /\ Len(a \o t) = Len(a) + Len(t) /\ Len(t) \in Nat
      /\ \A j \in 1..Len(a) + Len(t) : (a \o t)[j] = IF j <= Len(a) THEN a[j] ELSE t[j - Len(a)]
  BY <1>2, <1>5, ConcatProperties, LenProperties
<1> DEFINE s == a \o t
<1> HIDE DEF s
<1>7. Len(s) >= HeaderSize /\ s[2] = <<"header", 2>>
  BY <1>4, <1>6 DEF s
<1> QED
  BY <1>3, <1>7 DEF s

(* What is behind a frame is nothing, or the next one. *)
LEMMA NextFrame ==
    ASSUME TypeInv, NEW rest, Follows(rest), NEW j \in 1..Len(log), rest[j] # <<>>
    PROVE  Len(rest[j]) >= HeaderSize /\ rest[j][2] = <<"header", 2>>
<1>1. Len(log) \in Nat
  BY LogTypes
<1>2. j # Len(log)
  BY DEF Follows
<1>3. PICK i \in 1..Len(log) : i = j + 1
  BY <1>1, <1>2
<1>4. i \in Nat /\ rest \in [Nat -> Seq(Item)]
  BY <1>1 DEF Follows
<1>5. i \in 1..Len(log) /\ rest[i] \in Seq(Item) /\ i - 1 = j
  BY <1>3, <1>4
<1>6. PICK e \in Extensions : rest[i - 1] = Frame(i, e) \o rest[i]
  BY <1>5 DEF Follows
<1> DEFINE t == rest[i]
           s == Frame(i, e) \o t
<1>7. i \in 1..Len(log) /\ e \in Extensions /\ t \in Seq(Item)
  BY <1>5, <1>6
<1> HIDE DEF t
<1>8. Len(s) >= HeaderSize /\ s[2] = <<"header", 2>>
  BY <1>7, FrameBegins
<1> HIDE DEF s
<1>9. rest[j] = s
  BY <1>5, <1>6 DEF s, t
<1> QED
  BY <1>8, <1>9

(* What is left in the stream. *)
Left == SubSeq(stream, buffer + 1, Len(stream))

(* The faults that show without the CRC. *)
Noticed == {"field", "dimensions", "headerLength", "highBits", "cut"}

(* The height that a wrong one is sent with is none that a picture can have. *)
LEMMA WrongHeader ==
    ASSUME ConfigOK, NEW p, NEW extension \in Extensions, NEW fault \in Faults,
           HeaderError(HeaderOf(p, extension, fault)) = "none"
    PROVE  fault \notin {"field", "dimensions", "headerLength"}
<1> DEFINE h == HeaderOf(p, extension, fault)
<1>1. /\ h.wrong = (IF fault = "field" THEN {"reserved"} ELSE {})
      /\ fault = "headerLength" => h.header_len = MaxHeaderSize + 1
      /\ fault = "dimensions" => h.height = SizeMax
  BY DEF HeaderOf
<1> HIDE DEF h
<1>2. /\ h.width = config.width /\ h.height = config.height
      /\ h.header_len \in HeaderSize..MaxHeaderSize
      /\ h.wrong \cap FixedFields = {} /\ PayloadSizeFits(h.width, h.height)
  BY HeaderFits DEF h
<1>3. fault # "field"
  BY <1>1, <1>2 DEF FixedFields
<1>4. fault # "headerLength"
  BY <1>1, <1>2, SizesAssumption
<1>5. fault # "dimensions"
  <2> DEFINE w == config.width
             n == config.height
  <2>1. w \in Nat \ {0} /\ n \in Nat \ {0} /\ PayloadSizeFits(w, n)
    BY <1>2 DEF ConfigOK
  <2> HIDE DEF w, n
  <2>2. 2 * (w * n) <= SizeMax
    BY <2>1, PayloadSizeNeverWraps
  <2>3. n <= w * n /\ w * n \in Nat
    <3>1. 1 * n <= w * n
      BY <2>1, TimesMonotone
    <3> QED
      BY <2>1, <3>1
  <2>4. n # SizeMax
    BY <2>1, <2>2, <2>3, SizesAssumption
  <2> QED
    BY <1>1, <1>2, <2>4 DEF n
<1> QED
  BY <1>3, <1>4, <1>5

LEMMA PayloadTells ==
    ASSUME TypeInv, HeaderInv, CutInv, NEW rest, Follows(rest),
           NEW k \in Nat, k = Len(delivered), Position(rest, k),
           pc = "payload", Len(stream) >= buffer,
           NEW some \in {0, 255}, PayloadError(Payload(some)) = "none"
    PROVE  /\ k < Len(log) /\ log[k + 1].mode \in Modes
           /\ log[k + 1].fault \notin Noticed
           /\ config.verify_crc \/ SoundUpTo(k + 1) =>
                /\ Payload(some) = FramePayload(k + 1, log[k + 1].mode)
                /\ \/ Left = rest[k + 1]
                   \/ Len(Left) >= 1 /\ Len(Left[1]) # 3 /\ ~SoundUpTo(k + 1)
<1> DEFINE mode == log[k + 1].mode
           fault == log[k + 1].fault
           p == FramePayload(k + 1, mode)
           d == PayloadAt(k + 1)
           n == FrameSize(mode)
           r == rest[k + 1]
           left == SubSeq(stream, buffer + 1, Len(stream))
<1>1. PICK extension \in Extensions :
        /\ k < Len(log) /\ header = HeaderAt(k + 1, extension) /\ stream = Bytes(d) \o r
  BY DEF Position
<1>2. /\ k + 1 \in Nat /\ k + 1 \in 1..Len(log) /\ mode \in Modes /\ fault \in Faults
      /\ Len(log) \in Nat
  BY <1>1, LogTypes
<1>3. ConfigOK /\ stream \in Seq(Item) /\ buffer \in Nat
      /\ HeaderError(header) = "none" /\ buffer = header.payload_len
  BY DEF TypeInv, HeaderInv
<1>4. r \in Seq(Item)
  BY <1>2 DEF Follows
<1>5. p \in Seq(Byte) /\ Len(p) = n /\ p[Len(p)] \in 0..15 /\ n \in Nat /\ n >= 2
  BY <1>2, <1>3, FrameIsBytes, FrameSizeIsPositive, SMTT(30)
<1> HIDE DEF p, n, mode, fault, r, left
<1>6. /\ d \in Seq(Byte)
      /\ fault \in Harmless => d = p
      /\ fault = "bit" => Len(d) = Len(p)
      /\ fault = "highBits" => Len(d) = Len(p) /\ d[Len(p)] >= 128
      /\ fault = "shortPayload" => Len(d) = Len(p) - 1
      /\ fault = "longPayload" => d = Append(p, 0)
      /\ fault = "cut" => Len(d) < Len(p)
  <2>1. d = Damaged(p, fault)
    BY DEF PayloadAt, p, mode, fault
  <2> HIDE DEF d
  <2> QED
    BY <1>2, <1>5, <2>1, DamagedIs
<1>7. /\ fault # "length" => header.payload_len = n
      /\ fault = "length" => header.payload_len = n + 2
      /\ fault # "highBits" => header.crc32 = p
      /\ fault = "highBits" => header.crc32 = d
  <2>1. header = HeaderOf(p, extension, fault) /\ d = Damaged(p, fault)
    BY <1>1 DEF HeaderAt, PayloadAt, p, mode, fault
  <2>2. extension \in Nat
    BY ZerosAre
  <2> HIDE DEF d
  <2> QED
    <3> DEFINE q == FramePayload(k + 1, mode)
               m == FrameSize(mode)
               e == HeaderOf(q, extension, fault)
    <3>1. /\ fault # "length" => e.payload_len = m
          /\ fault = "length" => e.payload_len = m + 2
          /\ fault # "highBits" => e.crc32 = q
          /\ fault = "highBits" => e.crc32 = Damaged(q, fault)
      BY <1>2, <1>3, <2>2, HeaderIsSent
    <3>2. q = p /\ m = n
      BY DEF p, n
    <3> HIDE DEF q, m
    <3>3. header = e
      BY <2>1, <3>2
    <3> QED
      BY <2>1, <3>1, <3>2, <3>3
<1> HIDE DEF d
<1>8. /\ Len(stream) = Len(d) + Len(r) /\ Len(d) \in Nat /\ Len(r) \in Nat
      /\ \A i \in 1..Len(d) : stream[i] = <<"byte", d[i]>>
      /\ \A j \in 1..Len(r) : stream[Len(d) + j] = r[j]
      /\ SubSeq(stream, Len(d) + 1, Len(stream)) = r
  <2>1. d \in Seq(Byte) /\ r \in Seq(Item)
    BY <1>4, <1>6
  <2>2. /\ Len(Bytes(d) \o r) = Len(d) + Len(r)
        /\ \A i \in 1..Len(d) : (Bytes(d) \o r)[i] = <<"byte", d[i]>>
        /\ \A j \in 1..Len(r) : (Bytes(d) \o r)[Len(d) + j] = r[j]
        /\ SubSeq(Bytes(d) \o r, Len(d) + 1, Len(Bytes(d) \o r)) = r
    BY <2>1, FrontOfStream, SMTT(30)
  <2>3. Len(d) \in Nat /\ Len(r) \in Nat
    BY <2>1, LenProperties
  <2> DEFINE s == Bytes(d) \o r
  <2>4. stream = s
    BY <1>1
  <2> HIDE DEF s
  <2> QED
    BY <2>2, <2>3, <2>4 DEF s
<1>9. Payload(some) \in Seq(Byte) /\ Len(Payload(some)) = buffer
  BY <1>3, PayloadIsBytes
<1>10. ASSUME Len(d) = buffer PROVE Payload(some) = d /\ left = r
  <2>1. left = r
    BY <1>8, <1>10 DEF left
  <2>2. ASSUME NEW i \in 1..buffer PROVE Payload(some)[i] = d[i]
    <3>1. stream[i] = <<"byte", d[i]>>
      BY <1>8, <1>10, <2>2
    <3>2. stream[i][1] = "byte" /\ stream[i][2] = d[i]
      BY <3>1
    <3> QED
      BY <3>2 DEF Payload
  <2>3. Payload(some) = d
    <3> DEFINE q == Payload(some)
    <3>1. q \in Seq(Byte) /\ d \in Seq(Byte) /\ Len(q) = Len(d) /\ \A i \in 1..Len(q) : q[i] = d[i]
      BY <1>6, <1>9, <1>10, <2>2
    <3> HIDE DEF q
    <3>2. q = d
      BY <3>1, SeqEqual
    <3> QED
      BY <3>2 DEF q
  <2> QED
    BY <2>1, <2>3
<1>11. /\ config.verify_crc => Payload(some) = header.crc32
       /\ Payload(some)[Len(Payload(some))] < 128
  BY <1>3, <1>9, AcceptedTells
<1>12. SoundUpTo(k + 1) => fault = "none"
  BY <1>2 DEF SoundUpTo, fault
<1>13. fault # "highBits"
  <2> SUFFICES ASSUME fault = "highBits" PROVE FALSE
    OBVIOUS
  <2>1. Len(d) = n /\ buffer = n /\ d[n] >= 128
    BY <1>3, <1>5, <1>6, <1>7
  <2>2. d[n] < 128
    BY <1>9, <1>10, <1>11, <2>1
  <2>3. d[n] \in Nat
    <3> DEFINE v == d[n]
    <3>1. v \in Byte
      BY <1>5, <1>6, <2>1, ElementOfSeq
    <3> HIDE DEF v
    <3>2. v \in Nat
      BY <3>1 DEF Byte
    <3> QED
      BY <3>2 DEF v
  <2> QED
    BY <2>1, <2>2, <2>3
<1>14. fault # "cut"
  <2> SUFFICES ASSUME fault = "cut" PROVE FALSE
    OBVIOUS
  <2>1. k + 1 = Len(log)
    BY <1>2 DEF CutInv, fault
  <2>2. r = <<>>
    BY <2>1 DEF Follows, r
  <2>3. Len(stream) < n /\ buffer = n
    BY <1>3, <1>5, <1>6, <1>7, <1>8, <2>2
  <2> QED
    BY <1>5, <1>8, <2>3
<1>15. fault \notin {"field", "dimensions", "headerLength"}
  <2>1. header = HeaderOf(p, extension, fault)
    BY <1>1 DEF HeaderAt, p, mode, fault
  <2> QED
    BY <1>2, <1>3, <2>1, WrongHeader
<1>16. SUFFICES ASSUME config.verify_crc \/ SoundUpTo(k + 1)
                PROVE  /\ Payload(some) = p
                       /\ left = r \/ (Len(left) >= 1 /\ Len(left[1]) # 3 /\ ~SoundUpTo(k + 1))
  BY <1>1, <1>2, <1>13, <1>14, <1>15 DEF Noticed, Left, left, mode, fault, p, r
<1>17. Payload(some) = p
  <2>1. CASE config.verify_crc
    BY <1>7, <1>11, <1>13, <2>1
  <2>2. CASE SoundUpTo(k + 1)
    <3>1. fault \in Harmless /\ fault # "length"
      BY <1>12, <2>2 DEF Harmless, Faults
    <3> QED
      BY <1>3, <1>5, <1>6, <1>7, <1>10, <3>1
  <2> QED
    BY <1>16, <2>1, <2>2
<1>18. buffer = n /\ fault # "length"
  BY <1>3, <1>5, <1>7, <1>9, <1>17
<1>19. left = r \/ (Len(left) >= 1 /\ Len(left[1]) # 3 /\ ~SoundUpTo(k + 1))
  <2>1. CASE fault \in Harmless \/ fault = "bit"
    BY <1>5, <1>6, <1>10, <1>18, <2>1
  <2>3. CASE fault = "shortPayload"
    <3>1. Len(d) = n - 1 /\ Len(r) >= 1
      BY <1>5, <1>6, <1>8, <1>18, <2>3
    <3>2. r # <<>>
      BY <3>1
    <3>7. Len(r) >= HeaderSize /\ r[2] = <<"header", 2>>
      BY <1>2, <3>2, NextFrame DEF r
    <3>8. Len(r) >= 2 /\ 2 \in 1..Len(r)
      BY <1>8, <3>7, SizesAssumption
    <3>9. stream[n + 1] = <<"header", 2>>
      <4>1. stream[Len(d) + 2] = r[2] /\ Len(d) + 2 = n + 1
        BY <1>5, <1>8, <3>1, <3>8
      <4> QED
        BY <3>7, <4>1
    <3>10. Len(stream) > buffer
      BY <1>5, <1>8, <1>18, <3>1, <3>8
    <3>11. Len(left) >= 1 /\ left[1] = stream[n + 1]
      BY <1>3, <1>18, <3>10, NextItem DEF left
    <3>12. Len(left[1]) = 2
      BY <3>9, <3>11
    <3> QED
      BY <1>12, <2>3, <3>11, <3>12
  <2>4. CASE fault = "longPayload"
    <3>1. Len(d) = n + 1 /\ d[n + 1] = 0
      <4>1. 0 \in Byte
        BY DEF Byte
      <4> QED
        BY <1>5, <1>6, <2>4, <4>1, AppendProperties
    <3>2. stream[n + 1] = <<"byte", 0>>
      BY <1>5, <1>8, <3>1
    <3>3. Len(stream) > buffer
      BY <1>5, <1>8, <1>18, <3>1
    <3>4. Len(left) >= 1 /\ left[1] = stream[n + 1]
      BY <1>3, <1>18, <3>3, NextItem DEF left
    <3>5. Len(left[1]) = 2
      BY <3>2, <3>4
    <3> QED
      BY <1>12, <2>4, <3>4, <3>5
  <2> QED
    BY <1>2, <1>13, <1>14, <2>1, <2>3, <2>4 DEF Harmless
<1> QED
  BY <1>17, <1>19

-----------------------------------------------------------------------------
(* The frames behind each frame, when nothing is sent and when a frame is. *)

LEMMA FollowsStays ==
    ASSUME config' = config, log' = log, NEW rest, Follows(rest)
    PROVE  Follows(rest)'
<1>1. ASSUME NEW i \in 1..Len(log'), NEW extension \in Extensions
      PROVE  Frame(i, extension)' = Frame(i, extension)
  BY FrameStays
<1>2. ASSUME NEW i \in 1..Len(log')
      PROVE  \E extension \in Extensions : rest[i - 1] = Frame(i, extension)' \o rest[i]
  <2>1. PICK extension \in Extensions : rest[i - 1] = Frame(i, extension) \o rest[i]
    BY DEF Follows
  <2>2. Frame(i, extension)' = Frame(i, extension)
    BY <1>1, <2>1
  <2> QED
    BY <2>1, <2>2
<1>3. rest \in [Nat -> Seq(Item)] /\ rest[Len(log')] = <<>>
  BY DEF Follows
<1> QED
  BY <1>2, <1>3 DEF Follows

(* Associativity, for sequences that are to stay whole. *)
LEMMA Behind ==
    ASSUME NEW a \in Seq(Item), NEW b \in Seq(Item), NEW c \in Seq(Item)
    PROVE  (a \o b) \o c = a \o (b \o c) /\ b \o c \in Seq(Item)
  BY ConcatAssociative, ConcatProperties

LEMMA FollowsGrows ==
    ASSUME TypeInv, NEW rest, Follows(rest), config' = config,
           NEW n \in Nat, n = Len(log), NEW mode \in Modes, NEW fault \in Faults,
           log' = Append(log, [mode |-> mode, fault |-> fault]),
           NEW extension \in Extensions, NEW frame \in Seq(Item),
           frame = Frame(n + 1, extension)'
    PROVE  Follows([i \in Nat |-> IF i <= n THEN rest[i] \o frame ELSE <<>>])'
<1> DEFINE more == [i \in Nat |-> IF i <= n THEN rest[i] \o frame ELSE <<>>]
<1>1. rest \in [Nat -> Seq(Item)] /\ rest[n] = <<>>
  BY DEF Follows
<1>2. Len(log') = n + 1 /\ \A i \in 1..n : log'[i] = log[i]
  BY LogGrows
<1>3. ASSUME NEW i \in Nat
      PROVE  /\ rest[i] \in Seq(Item) /\ rest[i] \o frame \in Seq(Item)
             /\ more[i] = IF i <= n THEN rest[i] \o frame ELSE <<>>
  BY <1>1, ConcatProperties
<1>4. more \in [Nat -> Seq(Item)]
  <2>1. \A i \in Nat : (IF i <= n THEN rest[i] \o frame ELSE <<>>) \in Seq(Item)
    BY <1>3, EmptySeq
  <2> QED
    BY <2>1
<1> HIDE DEF more
<1>5. more[n + 1] = <<>>
  <2> DEFINE m == n + 1
  <2>1. m \in Nat /\ ~(m <= n)
    OBVIOUS
  <2> HIDE DEF m
  <2>2. more[m] = IF m <= n THEN rest[m] \o frame ELSE <<>>
    BY <1>3, <2>1
  <2> QED
    BY <2>1, <2>2 DEF m
<1>6. more[n] = frame \o more[n + 1]
  <2>1. more[n] = rest[n] \o frame
    <3>1. n \in Nat /\ n <= n
      OBVIOUS
    <3>2. more[n] = IF n <= n THEN rest[n] \o frame ELSE <<>>
      BY <1>3, <3>1, Zenon
    <3> QED
      BY <3>1, <3>2, Zenon
  <2>2. <<>> \o frame = frame /\ frame \o <<>> = frame
    BY ConcatEmptySeq
  <2> QED
    BY <1>1, <1>5, <2>1, <2>2
<1>7. ASSUME NEW i \in 1..n
      PROVE  \E e \in Extensions : more[i - 1] = Frame(i, e)' \o more[i]
  <2>1. PICK e \in Extensions : rest[i - 1] = Frame(i, e) \o rest[i]
    BY DEF Follows
  <2>2. Frame(i, e)' = Frame(i, e)
    BY <1>2, FrameStays
  <2>3. Frame(i, e) \in Seq(Item)
    BY <2>1, LogTypes, FrameParts DEF TypeInv
  <2>4. i \in Nat /\ i - 1 \in Nat /\ i <= n /\ i - 1 <= n
    OBVIOUS
  <2> DEFINE x == Frame(i, e)
             y == rest[i]
  <2>5. more[i - 1] = rest[i - 1] \o frame /\ more[i] = y \o frame /\ rest[i - 1] = x \o y
    BY <1>3, <2>1, <2>4
  <2>6. x \in Seq(Item) /\ y \in Seq(Item)
    BY <1>3, <2>3, <2>4
  <2> HIDE DEF x, y
  <2>7. (x \o y) \o frame = x \o (y \o frame)
    BY <2>6, Behind, SMTT(30)
  <2>8. more[i - 1] = x \o more[i]
    BY <2>5, <2>7
  <2> QED
    BY <2>1, <2>2, <2>8 DEF x
<1>8. ASSUME NEW i \in 1..n + 1
      PROVE  \E e \in Extensions : more[i - 1] = Frame(i, e)' \o more[i]
  <2>1. CASE i \in 1..n
    BY <1>7, <2>1
  <2>2. CASE i = n + 1
    <3>1. i - 1 = n
      BY <2>2
    <3>2. more[i - 1] = frame \o more[i]
      BY <1>6, <2>2, <3>1
    <3> QED
      BY <2>2, <3>2
  <2>3. i \in 1..n \/ i = n + 1
    BY <1>8
  <2> QED
    BY <2>1, <2>2, <2>3
<1> QED
  BY <1>2, <1>4, <1>5, <1>8 DEF Follows, more

-----------------------------------------------------------------------------
(* Every step of the worker, and of the FPGA, keeps the worker in step. *)

(* What is sent or delivered later makes no earlier frame sound. *)
LEMMA SoundBefore ==
    ASSUME TypeInv, [Next]_vars, NEW n \in Nat, SoundUpTo(n)', NEW m \in Nat, m <= n
    PROVE  SoundUpTo(m)
<1>1. CASE FpgaSends
  <2>1. PICK mode \in Modes, fault \in Faults :
          log' = Append(log, [mode |-> mode, fault |-> fault])
    BY <1>1, SentIs
  <2>2. /\ Len(log') = Len(log) + 1 /\ \A i \in 1..Len(log) : log'[i] = log[i]
        /\ Len(log) \in Nat
    BY <2>1, LogGrows, LogTypes
  <2>3. ASSUME NEW i \in 1..Len(log), i <= m PROVE log[i].fault = "none"
    <3>1. i \in 1..Len(log') /\ i <= n
      BY <2>2, <2>3
    <3> QED
      BY <2>2, <3>1 DEF SoundUpTo
  <2> QED
    BY <2>3 DEF SoundUpTo
<1>2. CASE log' = log
  <2>1. ASSUME NEW i \in 1..Len(log), i <= m PROVE log[i].fault = "none"
    <3>1. i \in 1..Len(log') /\ i <= n
      BY <1>2, <2>1, LogTypes
    <3> QED
      BY <1>2, <3>1 DEF SoundUpTo
  <2> QED
    BY <2>1 DEF SoundUpTo
<1> QED
  BY <1>1, <1>2 DEF Next, vars, FpgaCloses, SessionStops, WorkerStep, LoopTest,
     ReceiveHeader, ReceiveExtension, ReceivePayload, ReceiveFails,
         ReceiveBreaks, FailReceive

(* A step delivers one frame or none. *)
LEMMA DeliveredGrows ==
    ASSUME TypeInv, HeaderInv, [Next]_vars
    PROVE  /\ Len(delivered) \in Nat
           /\ \/ delivered' = delivered /\ Len(delivered') = Len(delivered)
              \/ ReceivePayload /\ Len(delivered') = Len(delivered) + 1
<1>1. Len(delivered) \in Nat
  BY LogTypes
<1>2. delivered' = delivered \/ (ReceivePayload /\ delivered' # delivered)
  BY DEF Next, vars, worker, Fail, StartPayload, FpgaSends, FpgaCloses, SessionStops,
         WorkerStep, LoopTest, ReceiveHeader, ReceiveExtension, ReceivePayload, ReceiveFails,
         ReceiveBreaks, FailReceive
<1>3. CASE ReceivePayload /\ delivered' # delivered
  <2>1. PICK some \in {0, 255} :
          /\ PayloadError(Payload(some)) = "none"
          /\ delivered' = Append(delivered, Converted(Payload(some)))
    BY <1>3 DEF ReceivePayload, Payload, Fail
  <2>2. pc = "payload" /\ Len(stream) >= buffer
    BY <1>3 DEF ReceivePayload
  <2>3. HeaderError(header) = "none" /\ buffer = header.payload_len
    BY <2>2 DEF HeaderInv
  <2>4. Payload(some) \in Seq(Byte) /\ Len(Payload(some)) = buffer
    BY <2>1, <2>2, PayloadIsBytes DEF TypeInv
  <2>5. Converted(Payload(some)) \in Given
    BY <2>1, <2>3, <2>4, AcceptedIsGiven DEF TypeInv
  <2>6. Len(delivered') = Len(delivered) + 1
    BY <2>1, <2>5, AppendProperties DEF TypeInv
  <2> QED
    BY <1>1, <1>3, <2>6
<1> QED
  BY <1>1, <1>2, <1>3

LEMMA LostStays ==
    ASSUME NEW s \in Seq(Item), NEW t \in Seq(Item), Len(s) >= 1
    PROVE  Len(s \o t) >= 1 /\ (s \o t)[1] = s[1]
<1>1. /\ Len(s \o t) = Len(s) + Len(t) /\ Len(s) \in Nat /\ Len(t) \in Nat
      /\ \A i \in 1..Len(s) + Len(t) : (s \o t)[i] = IF i <= Len(s) THEN s[i] ELSE t[i - Len(s)]
  BY ConcatProperties, LenProperties
<1> DEFINE all == s \o t
<1> HIDE DEF all
<1>2. Len(all) >= 1 /\ all[1] = s[1]
  <2>1. 1 \in 1..Len(s) + Len(t) /\ 1 <= Len(s)
    BY <1>1
  <2>2. all[1] = IF 1 <= Len(s) THEN s[1] ELSE t[1 - Len(s)]
    BY <1>1, <2>1 DEF all
  <2>3. Len(all) >= 1
    BY <1>1 DEF all
  <2> QED
    BY <2>1, <2>2, <2>3
<1> QED
  BY <1>2 DEF all

LEMMA SyncSends ==
    ASSUME TypeInv, SyncInv, FpgaSends
    PROVE  SyncInv'
<1>1. /\ config' = config /\ pc' = pc /\ header' = header /\ delivered' = delivered
      /\ pc # "ended"
  BY DEF FpgaSends, worker
<1>2. PICK n \in Nat, mode \in Modes, fault \in Faults, extension \in Extensions :
        /\ n = Len(log) /\ log' = Append(log, [mode |-> mode, fault |-> fault])
        /\ Frame(n + 1, extension)' \in Seq(Item)
        /\ stream' = stream \o Frame(n + 1, extension)'
  BY SentIs
<1>3. PICK frame \in Seq(Item) : frame = Frame(n + 1, extension)' /\ stream' = stream \o frame
  BY <1>2
<1>4. PICK k \in Nat : k = Len(delivered)
  BY LogTypes
<1>5. SUFFICES ASSUME config.verify_crc \/ SoundUpTo(k)'
               PROVE  \E more : Follows(more)' /\ Position(more, Len(delivered))'
  BY <1>1, <1>4 DEF SyncInv
<1>6. SoundUpTo(k)' => SoundUpTo(k)
  <2>1. [Next]_vars /\ k <= k
    BY DEF Next
  <2> QED
    BY <2>1, SoundBefore
<1>7. PICK rest : Follows(rest) /\ Position(rest, k)
  BY <1>1, <1>5, <1>6, <1>4 DEF SyncInv
<1> DEFINE more == [i \in Nat |-> IF i <= n THEN rest[i] \o frame ELSE <<>>]
<1>8. Follows(more)'
  <2>1. /\ Follows(rest) /\ config' = config /\ n \in Nat /\ n = Len(log)
        /\ mode \in Modes /\ fault \in Faults
        /\ log' = Append(log, [mode |-> mode, fault |-> fault])
        /\ extension \in Extensions /\ frame \in Seq(Item) /\ frame = Frame(n + 1, extension)'
    BY <1>1, <1>2, <1>3, <1>7
  <2> QED
    BY <2>1, FollowsGrows
<1>9. \A i \in Nat : i <= n => more[i] = rest[i] \o frame
  BY Zenon
<1> HIDE DEF more
<1>10. /\ Len(log') = n + 1 /\ \A i \in 1..n : log'[i] = log[i]
       /\ \A i \in 1..n : log[i].fault \in Faults
  BY <1>2, LogGrows, LogTypes
<1>11. stream \in Seq(Item) /\ frame \in Seq(Item) /\ ConfigOK
  BY <1>3 DEF TypeInv
<1>12. ASSUME pc \in {"loop", "header"}
       PROVE  (k <= n + 1 /\ stream' = more[k]) \/ (Lost /\ ~SoundUpTo(k))'
  <2>1. CASE k <= n /\ stream = rest[k]
    <3>1. stream' = rest[k] \o frame
      BY <1>3, <2>1
    <3>2. more[k] = rest[k] \o frame
      BY <1>9, <2>1
    <3>3. k <= n + 1
      BY <2>1
    <3> QED
      BY <3>1, <3>2, <3>3
  <2>2. CASE Lost /\ ~SoundUpTo(k)
    <3>1. Len(stream \o frame) >= 1 /\ (stream \o frame)[1] = stream[1]
      BY <1>11, <2>2, LostStays DEF Lost
    <3>2. Lost'
      BY <1>3, <2>2, <3>1 DEF Lost
    <3> QED
      BY <1>6, <2>2, <3>2
  <2> QED
    BY <1>2, <1>7, <1>12, <2>1, <2>2 DEF Position
<1>13. ASSUME k < n
       PROVE  /\ \A e \in Extensions : HeaderAt(k + 1, e)' = HeaderAt(k + 1, e)
              /\ PayloadAt(k + 1)' = PayloadAt(k + 1)
              /\ Bytes(PayloadAt(k + 1)) \in Seq(Item)
              /\ rest[k + 1] \in Seq(Item) /\ more[k + 1] = rest[k + 1] \o frame
  <2>1. k + 1 \in 1..n /\ k + 1 \in Nat /\ k + 1 <= n
    BY <1>13
  <2>2. log'[k + 1] = log[k + 1] /\ log[k + 1].fault \in Faults
    BY <1>10, <2>1
  <2>3. PayloadAt(k + 1)' = PayloadAt(k + 1)
    BY <1>1, <2>2, FrameStays
  <2>4. \A e \in Extensions : HeaderAt(k + 1, e)' = HeaderAt(k + 1, e)
    BY <1>1, <2>2, FrameStays
  <2>5. Bytes(PayloadAt(k + 1)) \in Seq(Item)
    BY <1>2, <1>11, <2>1, <2>2, FrameParts
  <2>6. rest[k + 1] \in Seq(Item)
    BY <1>7, <2>1 DEF Follows
  <2>7. more[k + 1] = rest[k + 1] \o frame
    BY <1>9, <2>1, Zenon
  <2> QED
    BY <2>3, <2>4, <2>5, <2>6, <2>7
<1>14. ASSUME pc = "extension"
       PROVE  k < n + 1 /\ \E e \in Extensions :
                 /\ header' = HeaderAt(k + 1, e)'
                 /\ stream' = Zeros(e) \o (Bytes(PayloadAt(k + 1)') \o more[k + 1])
  <2>1. PICK e \in Extensions :
          /\ k < n /\ header = HeaderAt(k + 1, e)
          /\ stream = Zeros(e) \o (Bytes(PayloadAt(k + 1)) \o rest[k + 1])
    BY <1>2, <1>7, <1>14 DEF Position
  <2> DEFINE x == Zeros(e)
             y == Bytes(PayloadAt(k + 1))
             z == rest[k + 1]
  <2>2. x \in Seq(Item) /\ y \in Seq(Item) /\ z \in Seq(Item)
    BY <1>13, <2>1, ZerosAre
  <2>3. /\ stream' = (x \o (y \o z)) \o frame /\ more[k + 1] = z \o frame
        /\ Bytes(PayloadAt(k + 1)') = y /\ header' = HeaderAt(k + 1, e)'
    BY <1>1, <1>3, <1>13, <2>1
  <2> HIDE DEF x, y, z
  <2>4. (y \o z) \o frame = y \o (z \o frame) /\ y \o z \in Seq(Item)
    BY <1>11, <2>2, Behind, SMTT(30)
  <2>5. (x \o (y \o z)) \o frame = x \o ((y \o z) \o frame)
    BY <1>11, <2>2, <2>4, Behind, SMTT(30)
  <2>6. stream' = x \o (Bytes(PayloadAt(k + 1)') \o more[k + 1])
    BY <2>3, <2>4, <2>5
  <2>7. k < n + 1
    BY <2>1
  <2> QED
    BY <2>1, <2>3, <2>6, <2>7 DEF x
<1>15. ASSUME pc = "payload"
       PROVE  k < n + 1 /\ \E e \in Extensions :
                 /\ header' = HeaderAt(k + 1, e)'
                 /\ stream' = Bytes(PayloadAt(k + 1)') \o more[k + 1]
  <2>1. PICK e \in Extensions :
          /\ k < n /\ header = HeaderAt(k + 1, e)
          /\ stream = Bytes(PayloadAt(k + 1)) \o rest[k + 1]
    BY <1>2, <1>7, <1>15 DEF Position
  <2> DEFINE y == Bytes(PayloadAt(k + 1))
             z == rest[k + 1]
  <2>2. y \in Seq(Item) /\ z \in Seq(Item)
    BY <1>13, <2>1
  <2>3. /\ stream' = (y \o z) \o frame /\ more[k + 1] = z \o frame
        /\ Bytes(PayloadAt(k + 1)') = y /\ header' = HeaderAt(k + 1, e)'
    BY <1>1, <1>3, <1>13, <2>1
  <2> HIDE DEF y, z
  <2>4. (y \o z) \o frame = y \o (z \o frame)
    BY <1>11, <2>2, Behind
  <2>5. stream' = Bytes(PayloadAt(k + 1)') \o more[k + 1]
    BY <2>3, <2>4
  <2>6. k < n + 1
    BY <2>1
  <2> QED
    BY <2>1, <2>3, <2>5, <2>6
<1>16. Position(more, k)'
  BY <1>1, <1>10, <1>12, <1>14, <1>15 DEF Position
<1> QED
  BY <1>1, <1>4, <1>8, <1>16

LEMMA HeaderTells ==
    ASSUME TypeInv, NEW rest, Follows(rest), NEW k \in Nat, Position(rest, k),
           pc = "header", Len(stream) >= HeaderSize
    PROVE  LET h == HeaderIn(Received(HeaderSize))
               left == SubSeq(stream, HeaderSize + 1, Len(stream))
           IN  \/ h = NoHeader /\ ~SoundUpTo(k)
               \/ k < Len(log) /\ \E extension \in Extensions :
                    /\ h = HeaderAt(k + 1, extension)
                    /\ left = Zeros(extension) \o (Bytes(PayloadAt(k + 1)) \o rest[k + 1])
<1> DEFINE front == Received(HeaderSize)
           h == HeaderIn(front)
           left == SubSeq(stream, HeaderSize + 1, Len(stream))
<1>1. /\ HeaderSize \in Nat /\ HeaderSize >= 2 /\ stream \in Seq(Item)
      /\ Len(stream) \in Nat /\ Len(log) \in Nat /\ ConfigOK
  BY SizesAssumption, LogTypes, LenProperties DEF TypeInv
<1>2. CASE Lost /\ ~SoundUpTo(k)
  <2>1. front[1] = stream[1]
    <3> DEFINE one == 1
    <3>1. \A i \in one..HeaderSize : stream[i] \in Item
      <4>1. ASSUME NEW i \in one..HeaderSize PROVE stream[i] \in Item
        <5>1. i \in 1..Len(stream)
          BY <1>1
        <5> QED
          BY <1>1, <5>1, ElementOfSeq
      <4> QED
        BY <4>1
    <3>2. one \in Int /\ HeaderSize \in Int
      BY <1>1
    <3> HIDE DEF one
    <3>3. \A i \in 1..HeaderSize - one + 1 :
            SubSeq(stream, one, HeaderSize)[i] = stream[one + i - 1]
      BY <3>1, <3>2, SubSeqProperties
    <3>4. 1 \in 1..HeaderSize - one + 1 /\ one + 1 - 1 = 1
      BY <1>1 DEF one
    <3> DEFINE f == SubSeq(stream, one, HeaderSize)
    <3>6. \A i \in 1..HeaderSize - one + 1 : f[i] = stream[one + i - 1]
      BY <3>3
    <3> HIDE DEF f
    <3>5. f[1] = stream[1]
      BY <3>4, <3>6
    <3> QED
      BY <3>5 DEF Received, one, f
  <2>2. Len(front[1]) # 3
    BY <1>2, <2>1 DEF Lost
  <2> HIDE DEF front
  <2>3. h = NoHeader
    BY <2>2 DEF HeaderIn
  <2> QED
    BY <1>2, <2>3 DEF front
<1>3. CASE k <= Len(log) /\ stream = rest[k]
  <2>1. rest[k] # <<>>
    BY <1>1, <1>3
  <2>2. k # Len(log)
    BY <2>1 DEF Follows
  <2>3. PICK i \in 1..Len(log) : i = k + 1
    BY <1>1, <1>3, <2>2
  <2>4. PICK extension \in Extensions : rest[i - 1] = Frame(i, extension) \o rest[i]
    BY <2>3 DEF Follows
  <2>5. i \in Nat /\ i - 1 = k /\ rest \in [Nat -> Seq(Item)] /\ log[i].fault \in Faults
    <3>1. i \in Nat /\ i - 1 = k
      BY <1>1, <2>3
    <3>2. log[i].fault \in Faults
      BY <2>3, LogTypes
    <3>3. rest \in [Nat -> Seq(Item)]
      BY DEF Follows
    <3> QED
      BY <3>1, <3>2, <3>3
  <2> DEFINE a == HeaderBytes(HeaderAt(i, extension))
             r == rest[i]
             t == Zeros(extension) \o (Bytes(PayloadAt(i)) \o r)
  <2>6. r \in Seq(Item) /\ i \in Nat /\ extension \in Extensions /\ log[i].fault \in Faults
    BY <2>4, <2>5
  <2> HIDE DEF r
  <2>7. Frame(i, extension) \o r = a \o t
    BY <1>1, <2>6, FrameOpens
  <2>8. t \in Seq(Item) /\ HeaderAt(i, extension) \in Headers
    <3> DEFINE b == Bytes(PayloadAt(i))
               z == Zeros(extension)
    <3>1. b \in Seq(Item) /\ z \in Seq(Item) /\ HeaderAt(i, extension) \in Headers
      BY <1>1, <2>6, FrameParts, ZerosAre
    <3> HIDE DEF b, z
    <3>2. b \o r \in Seq(Item)
      BY <2>6, <3>1, ConcatProperties
    <3>3. z \o (b \o r) \in Seq(Item)
      BY <3>1, <3>2, ConcatProperties
    <3> QED
      BY <3>1, <3>3 DEF b, z
  <2> HIDE DEF t
  <2> DEFINE s == a \o t
  <2>9. /\ HeaderIn(SubSeq(s, 1, HeaderSize)) = HeaderAt(i, extension)
        /\ SubSeq(s, HeaderSize + 1, Len(s)) = t
    BY <2>8, HeaderIsFound
  <2> HIDE DEF s
  <2>10. stream = s
    BY <1>3, <2>4, <2>5, <2>7 DEF r, s
  <2>11. h = HeaderAt(i, extension) /\ left = t
    BY <2>9, <2>10 DEF Received
  <2> HIDE DEF h, left
  <2>12. /\ h = HeaderAt(k + 1, extension)
         /\ left = Zeros(extension) \o (Bytes(PayloadAt(k + 1)) \o rest[k + 1])
    BY <2>3, <2>11 DEF t, r
  <2>13. k < Len(log)
    BY <1>1, <2>3
  <2> QED
    BY <2>6, <2>12, <2>13 DEF h, left, front
<1> QED
  BY <1>2, <1>3 DEF Position

(* The length that a header found right tells is that of its extension. *)
LEMMA ExtensionTold ==
    ASSUME TypeInv, NEW i \in 1..Len(log), NEW extension \in Extensions,
           HeaderError(HeaderAt(i, extension)) = "none"
    PROVE  extension \in Nat /\ HeaderAt(i, extension).header_len = HeaderSize + extension
<1> DEFINE h == HeaderAt(i, extension)
<1>1. /\ i \in Nat /\ ConfigOK /\ log[i].fault \in Faults /\ extension \in Nat
  BY LogTypes, ZerosAre DEF TypeInv
<1>2. h.header_len = IF log[i].fault = "headerLength" THEN MaxHeaderSize + 1
                                                     ELSE HeaderSize + extension
  BY DEF HeaderAt, HeaderOf
<1> HIDE DEF h
<1>3. h.header_len \in HeaderSize..MaxHeaderSize
  BY <1>1, HeaderFits DEF h
<1> QED
  BY <1>1, <1>2, <1>3, SizesAssumption DEF h

LEMMA SyncSteps ==
    ASSUME TypeInv, HeaderInv, CutInv, SyncInv, [Next]_vars, ~FpgaSends
    PROVE  SyncInv'
<1>1. config' = config /\ log' = log
  BY DEF Next, vars, FpgaCloses, SessionStops, WorkerStep, LoopTest,
         ReceiveHeader, ReceiveExtension, ReceivePayload, ReceiveFails,
         ReceiveBreaks, FailReceive
<1>2. \A i \in Nat : SoundUpTo(i)' <=> SoundUpTo(i)
  BY <1>1 DEF SoundUpTo
<1>3. PICK k \in Nat : k = Len(delivered)
  BY LogTypes
<1>4. PICK j \in Nat : /\ j = Len(delivered') /\ k <= j
                       /\ delivered' # delivered => ReceivePayload /\ j = k + 1
  BY <1>3, DeliveredGrows
<1>5. SUFFICES ASSUME config.verify_crc \/ SoundUpTo(j), pc' # "ended"
               PROVE  \E rest : Follows(rest)' /\ Position(rest, Len(delivered))'
  BY <1>1, <1>2, <1>4 DEF SyncInv
<1>6. config.verify_crc \/ SoundUpTo(k)
  BY <1>5, <1>4 DEF SoundUpTo
<1>7. pc # "ended"
  BY <1>5 DEF Next, vars, worker, FpgaCloses, SessionStops, WorkerStep, LoopTest,
              ReceiveHeader, ReceiveExtension, ReceivePayload, ReceiveFails,
         ReceiveBreaks, FailReceive
<1>8. PICK rest : Follows(rest) /\ Position(rest, k)
  BY <1>6, <1>3, <1>7 DEF SyncInv
<1>9. Follows(rest)'
  BY <1>1, <1>8, FollowsStays
<1>10. SUFFICES Position(rest, Len(delivered))'
  BY <1>9
<1>11. /\ \A e : HeaderAt(k + 1, e)' = HeaderAt(k + 1, e)
       /\ PayloadAt(k + 1)' = PayloadAt(k + 1)
  BY <1>1, FrameStays
<1>12. ASSUME NEW code, Fail(code) PROVE FALSE
  BY <1>5, <1>12 DEF Fail
<1>13. CASE /\ UNCHANGED <<stream, header, delivered>>
            /\ pc' = pc \/ (pc = "loop" /\ pc' = "header")
  BY <1>1, <1>2, <1>3, <1>8, <1>11, <1>13 DEF Position, Lost
<1>14. CASE ReceiveHeader
  <2> DEFINE h == HeaderIn(Received(HeaderSize))
  <2>1. HeaderError(h) = "none"
    BY <1>12, <1>14 DEF ReceiveHeader
  <2>2. h # NoHeader
    BY <2>1, NoHeaderIsRefused
  <2>3. pc = "header" /\ Len(stream) >= HeaderSize
    BY <1>14 DEF ReceiveHeader
  <2>4. PICK e \in Extensions :
          /\ k < Len(log) /\ h = HeaderAt(k + 1, e)
          /\ SubSeq(stream, HeaderSize + 1, Len(stream))
               = Zeros(e) \o (Bytes(PayloadAt(k + 1)) \o rest[k + 1])
    BY <1>8, <2>2, <2>3, HeaderTells
  <2>5. k + 1 \in 1..Len(log) /\ Len(log) \in Nat
    BY <2>4, LogTypes
  <2> HIDE DEF h
  <2>6. e \in Nat /\ h.header_len = HeaderSize + e
    BY <2>1, <2>4, <2>5, ExtensionTold
  <2>7. /\ header' = h /\ delivered' = delivered
        /\ stream' = Zeros(e) \o (Bytes(PayloadAt(k + 1)) \o rest[k + 1])
        /\ pc' = "extension" \/ (pc' = "payload" /\ h.header_len = HeaderSize)
    BY <1>12, <1>14, <2>1, <2>4 DEF ReceiveHeader, Consume, StartPayload, h
  <2>8. CASE pc' = "extension"
    BY <1>1, <1>3, <1>11, <2>4, <2>7, <2>8 DEF Position
  <2>9. CASE pc' = "payload" /\ h.header_len = HeaderSize
    <3>1. e = 0
      BY <2>6, <2>9, SizesAssumption
    <3>2. Zeros(e) = <<>>
      <4>1. Zeros(e) \in Seq(Item) /\ Len(Zeros(e)) = 0
        BY <2>4, <3>1, ZerosAre
      <4> QED
        BY <4>1, EmptySeq
    <3> DEFINE b == Bytes(PayloadAt(k + 1))
               r == rest[k + 1]
    <3>3. b \o r \in Seq(Item)
      <4>1. r \in Seq(Item)
        BY <1>8 DEF Follows
      <4>2. b \in Seq(Item)
        <5>1. ConfigOK
          BY DEF TypeInv
        <5>2. k + 1 \in Nat /\ log[k + 1].fault \in Faults
          BY <2>5, LogTypes
        <5> QED
          BY <2>4, <5>1, <5>2, FrameParts
      <4> QED
        BY <4>1, <4>2, Behind
    <3> DEFINE t == b \o r
    <3>4. stream' = <<>> \o t
      BY <2>7, <3>2
    <3> HIDE DEF t
    <3>5. stream' = t
      BY <3>3, <3>4, ConcatEmptySeq DEF t
    <3> QED
      BY <1>1, <1>3, <1>11, <2>4, <2>7, <2>9, <3>5 DEF Position, t
  <2> QED
    BY <2>7, <2>8, <2>9
<1>15. CASE ReceiveExtension
  <2>1. /\ pc = "extension" /\ Consume(buffer) /\ pc' = "payload"
        /\ header' = header /\ delivered' = delivered
    BY <1>12, <1>15 DEF ReceiveExtension, StartPayload
  <2>2. PICK e \in Extensions :
          /\ k < Len(log) /\ header = HeaderAt(k + 1, e)
          /\ stream = Zeros(e) \o (Bytes(PayloadAt(k + 1)) \o rest[k + 1])
    BY <1>8, <2>1 DEF Position
  <2>3. k + 1 \in 1..Len(log) /\ Len(log) \in Nat
    BY <2>2, LogTypes
  <2>4. HeaderError(header) = "none" /\ buffer = header.header_len - HeaderSize
    BY <2>1 DEF HeaderInv
  <2>5. e \in Nat /\ header.header_len = HeaderSize + e
    BY <2>2, <2>3, <2>4, ExtensionTold
  <2>6. buffer = e
    BY <2>4, <2>5, SizesAssumption
  <2> DEFINE z == Zeros(e)
             b == Bytes(PayloadAt(k + 1))
             r == rest[k + 1]
             t == b \o r
  <2>7. z \in Seq(Item) /\ Len(z) = e
    BY <2>2, ZerosAre
  <2>8. t \in Seq(Item)
    <3>1. r \in Seq(Item)
      BY <1>8 DEF Follows
    <3>2. b \in Seq(Item)
      <4>1. ConfigOK
        BY DEF TypeInv
      <4>2. k + 1 \in Nat /\ log[k + 1].fault \in Faults
        BY <2>3, LogTypes
      <4> QED
        BY <2>2, <4>1, <4>2, FrameParts
    <3> QED
      BY <3>1, <3>2, Behind
  <2>9. stream = z \o t
    BY <2>2
  <2> HIDE DEF z, t
  <2>10. SubSeq(z \o t, Len(z) + 1, Len(z \o t)) = t
    BY <2>7, <2>8, ComesApart
  <2>11. stream' = t
    <3> DEFINE s == z \o t
    <3>1. stream = s
      BY <2>9
    <3> HIDE DEF s
    <3>2. SubSeq(s, Len(z) + 1, Len(s)) = t
      BY <2>10 DEF s
    <3> QED
      BY <2>1, <2>6, <2>7, <3>1, <3>2 DEF Consume
  <2> QED
    BY <1>1, <1>3, <1>11, <2>1, <2>2, <2>11 DEF Position, t
<1>16. CASE ReceivePayload
  <2>1. PICK some \in {0, 255} :
          /\ PayloadError(Payload(some)) = "none"
          /\ delivered' = Append(delivered, Converted(Payload(some)))
          /\ pc' = "loop" /\ Consume(buffer)
    BY <1>12, <1>16 DEF ReceivePayload, Payload
  <2>2. pc = "payload" /\ Len(stream) >= buffer
    BY <1>16 DEF ReceivePayload
  <2>4. HeaderError(header) = "none" /\ buffer = header.payload_len
    BY <2>2 DEF HeaderInv
  <2>5. Converted(Payload(some)) \in Given
    <3>1. Payload(some) \in Seq(Byte) /\ Len(Payload(some)) = buffer
      BY <2>1, <2>2, PayloadIsBytes DEF TypeInv
    <3> QED
      BY <2>1, <2>4, <3>1, AcceptedIsGiven DEF TypeInv
  <2>6. Len(delivered') = k + 1
    BY <1>3, <2>1, <2>5, AppendProperties DEF TypeInv
  <2>3. /\ k < Len(log)
        /\ \/ stream' = rest[k + 1]
           \/ Len(stream') >= 1 /\ Len(stream'[1]) # 3 /\ ~SoundUpTo(k + 1)
    <3>1. /\ Follows(rest) /\ k \in Nat /\ k = Len(delivered) /\ Position(rest, k)
          /\ pc = "payload" /\ Len(stream) >= buffer
          /\ config.verify_crc \/ SoundUpTo(k + 1)
          /\ some \in {0, 255} /\ PayloadError(Payload(some)) = "none"
      BY <1>5, <1>3, <1>4, <1>8, <2>1, <2>2, <2>6
    <3>2. /\ k < Len(log)
          /\ \/ Left = rest[k + 1]
             \/ Len(Left) >= 1 /\ Len(Left[1]) # 3 /\ ~SoundUpTo(k + 1)
      BY <3>1, PayloadTells
    <3>3. stream' = Left
      BY <2>1 DEF Consume, Left
    <3> QED
      BY <3>2, <3>3
  <2>7. k + 1 <= Len(log) /\ Len(log) \in Nat
    BY <2>3, LogTypes
  <2>8. (k + 1 <= Len(log) /\ stream' = rest[k + 1]) \/ (Lost /\ ~SoundUpTo(k + 1))'
    BY <1>2, <2>3, <2>7 DEF Lost
  <2> QED
    BY <1>1, <2>1, <2>6, <2>8 DEF Position
<1>17. CASE LoopTest \/ FpgaCloses \/ SessionStops \/ UNCHANGED vars
  BY <1>5, <1>13, <1>17 DEF LoopTest, FpgaCloses, SessionStops, vars, worker
<1>18. CASE ReceiveFails \/ ReceiveBreaks
  BY <1>12, <1>18 DEF ReceiveFails, ReceiveBreaks, FailReceive
<1> QED
  BY <1>14, <1>15, <1>16, <1>17, <1>18 DEF Next, WorkerStep

-----------------------------------------------------------------------------
(* The pictures. *)

PictureGiven(i) ==
    /\ delivered[i].pixels16 = PicturesOf(i, log[i].mode)
    /\ log[i].mode = "single" => Shows(delivered[i].pixels8, PictureOf(i, "HG"))

LEMMA PicturesNext ==
    ASSUME TypeInv, HeaderInv, CutInv, SyncInv, PicturesAreTrue, [Next]_vars
    PROVE  PicturesAreTrue'
<1>1. config' = config
  BY ConfigStays
<1>2. PICK k \in Nat : k = Len(delivered)
  BY LogTypes
<1>3. SUFFICES ASSUME NEW i \in 1..Len(delivered'), i \in Nat,
                      config.verify_crc \/ SoundUpTo(i)'
               PROVE  i <= Len(log') /\ PictureGiven(i)'
  <2>1. \A i \in 1..Len(delivered') : i \in Nat
    BY <1>2, DeliveredGrows
  <2> QED
    BY <1>1, <1>3, <2>1 DEF PicturesAreTrue, PictureGiven
<1>4. ASSUME NEW m \in Nat, m <= i PROVE config.verify_crc \/ SoundUpTo(m)
  BY <1>3, <1>4, SoundBefore
<1>5. ASSUME NEW mode, log'[i].mode = mode,
             delivered'[i].pixels16 = PicturesOf(i, mode),
             mode = "single" => Shows(delivered'[i].pixels8, PictureOf(i, "HG"))
      PROVE  PictureGiven(i)'
  <2>1. /\ PicturesOf(i, mode)' = PicturesOf(i, mode)
        /\ PictureOf(i, "HG")' = PictureOf(i, "HG")
    BY <1>1, WhatIsSentStays
  <2> QED
    BY <1>5, <2>1 DEF PictureGiven
<1>6. CASE i <= k /\ delivered'[i] = delivered[i]
  <2>1. i <= Len(log) /\ PictureGiven(i)
    <3>1. i \in 1..Len(delivered) /\ (config.verify_crc \/ SoundUpTo(i))
      BY <1>2, <1>3, <1>4, <1>6
    <3> QED
      BY <3>1 DEF PicturesAreTrue, PictureGiven
  <2>2. i \in 1..Len(log) /\ Len(log) \in Nat
    BY <1>3, <2>1, LogTypes
  <2>3. log'[i] = log[i] /\ i <= Len(log')
    <3>1. CASE FpgaSends
      <4>1. PICK mode \in Modes, fault \in Faults :
              log' = Append(log, [mode |-> mode, fault |-> fault])
        BY <3>1, SentIs
      <4>2. Len(log') = Len(log) + 1 /\ \A j \in 1..Len(log) : log'[j] = log[j]
        BY <4>1, LogGrows
      <4> QED
        BY <2>2, <4>2
    <3>2. CASE log' = log
      BY <2>2, <3>2
    <3> QED
      BY <3>1, <3>2 DEF Next, vars, FpgaCloses, SessionStops, WorkerStep, LoopTest,
         ReceiveHeader, ReceiveExtension, ReceivePayload, ReceiveFails,
         ReceiveBreaks, FailReceive
  <2> QED
    BY <1>5, <1>6, <2>1, <2>3 DEF PictureGiven
<1>7. CASE ReceivePayload /\ delivered' # delivered
  <2>1. PICK some \in {0, 255} :
          /\ PayloadError(Payload(some)) = "none"
          /\ delivered' = Append(delivered, Converted(Payload(some)))
    BY <1>7 DEF ReceivePayload, Payload, Fail
  <2>2. pc = "payload" /\ Len(stream) >= buffer /\ log' = log
    BY <1>7 DEF ReceivePayload
  <2>3. ConfigOK /\ HeaderError(header) = "none" /\ buffer = header.payload_len
    BY <2>2 DEF TypeInv, HeaderInv
  <2>4. Payload(some) \in Seq(Byte) /\ Len(Payload(some)) = buffer
    BY <2>1, <2>2, PayloadIsBytes DEF TypeInv
  <2>5. Readable(config.width, config.order) /\ Converted(Payload(some)) \in Given
    BY <2>1, <2>3, <2>4, AcceptedTells, AcceptedIsGiven
  <2>6. /\ Len(delivered') = k + 1
        /\ \A j \in 1..k : delivered'[j] = delivered[j]
        /\ delivered'[k + 1] = Converted(Payload(some))
    BY <1>2, <2>1, <2>5, AppendProperties DEF TypeInv
  <2>7. CASE i <= k
    <3>1. i \in 1..k
      BY <1>3, <2>7
    <3> QED
      BY <1>6, <2>6, <2>7, <3>1
  <2>8. CASE i = k + 1
    <3>1. config.verify_crc \/ SoundUpTo(k)
      BY <1>4, <2>8
    <3>2. PICK rest : Follows(rest) /\ Position(rest, k)
      BY <1>2, <2>2, <3>1 DEF SyncInv
    <3>3. config.verify_crc \/ SoundUpTo(k + 1)
      BY <1>3, <1>4, <2>8
    <3> DEFINE mode == log[k + 1].mode
               p == FramePayload(k + 1, mode)
    <3>4. k < Len(log) /\ mode \in Modes /\ Payload(some) = p
      BY <1>2, <2>1, <2>2, <3>2, <3>3, PayloadTells
    <3>5. /\ Converted(p).pixels16 = PicturesOf(k + 1, mode)
          /\ mode = "single" => Shows(Converted(p).pixels8, PictureOf(k + 1, "HG"))
      <4> DEFINE frame == k + 1
      <4>1. ConfigOK /\ Readable(config.width, config.order) /\ mode \in Modes
            /\ frame \in Nat /\ HeaderError(header) = "none"
        BY <2>3, <2>5, <3>4
      <4> HIDE DEF frame, mode
      <4>2. /\ Converted(FramePayload(frame, mode)).pixels16 = PicturesOf(frame, mode)
            /\ mode = "single" => Shows(Converted(FramePayload(frame, mode)).pixels8,
                                        PictureOf(frame, "HG"))
        BY <4>1, FrameIsTrue
      <4> QED
        BY <4>2 DEF frame
    <3> HIDE DEF p
    <3>6. delivered'[i] = Converted(p) /\ log'[i].mode = mode
      BY <2>2, <2>6, <2>8, <3>4
    <3>7. i <= Len(log')
      BY <2>2, <2>8, <3>4, LogTypes
    <3> HIDE DEF mode
    <3>8. PictureGiven(i)'
      BY <1>5, <2>8, <3>5, <3>6
    <3> QED
      BY <3>7, <3>8
  <2>9. i <= k \/ i = k + 1
    BY <1>3, <2>6
  <2> QED
    BY <2>7, <2>8, <2>9
<1>8. delivered' = delivered \/ (ReceivePayload /\ delivered' # delivered)
  BY DeliveredGrows
<1>9. CASE delivered' = delivered
  BY <1>2, <1>3, <1>6, <1>9
<1> QED
  BY <1>7, <1>8, <1>9

-----------------------------------------------------------------------------
(* Faults. *)

LEMMA NoticedNext ==
    ASSUME TypeInv, HeaderInv, CutInv, SyncInv, FaultsAreNoticed, [Next]_vars
    PROVE  FaultsAreNoticed'
<1>1. config' = config
  BY ConfigStays
<1>2. PICK k \in Nat : k = Len(delivered)
  BY LogTypes
<1>3. SUFFICES ASSUME NEW i \in 1..Len(delivered'), i \in Nat,
                      config.verify_crc \/ SoundUpTo(i - 1)'
               PROVE  i <= Len(log') /\ log'[i].fault \notin Noticed
  <2>1. \A i \in 1..Len(delivered') : i \in Nat
    BY <1>2, DeliveredGrows
  <2> QED
    BY <1>1, <1>3, <2>1 DEF FaultsAreNoticed, Noticed
<1>4. config.verify_crc \/ SoundUpTo(i - 1)
  <2>1. i - 1 \in Nat /\ i - 1 <= i - 1
    BY <1>3
  <2> QED
    BY <1>3, <2>1, SoundBefore
<1>5. CASE i <= k
  <2>1. i <= Len(log) /\ log[i].fault \notin Noticed
    BY <1>2, <1>3, <1>4, <1>5 DEF FaultsAreNoticed, Noticed
  <2>2. i \in 1..Len(log) /\ Len(log) \in Nat
    BY <1>3, <2>1, LogTypes
  <2>3. CASE FpgaSends
    <3>1. PICK mode \in Modes, fault \in Faults :
            log' = Append(log, [mode |-> mode, fault |-> fault])
      BY <2>3, SentIs
    <3>2. Len(log') = Len(log) + 1 /\ \A j \in 1..Len(log) : log'[j] = log[j]
      BY <3>1, LogGrows
    <3> QED
      BY <2>1, <2>2, <3>2
  <2>4. CASE log' = log
    BY <2>1, <2>4
  <2> QED
    BY <2>3, <2>4 DEF Next, vars, FpgaCloses, SessionStops, WorkerStep, LoopTest,
       ReceiveHeader, ReceiveExtension, ReceivePayload, ReceiveFails, ReceiveBreaks
<1>6. CASE ~(i <= k)
  <2>1. ReceivePayload /\ i = k + 1 /\ delivered' # delivered
    BY <1>2, <1>3, <1>6, DeliveredGrows
  <2>2. PICK some \in {0, 255} : PayloadError(Payload(some)) = "none"
    BY <2>1 DEF ReceivePayload, Payload, Fail
  <2>3. pc = "payload" /\ Len(stream) >= buffer /\ log' = log
    BY <2>1 DEF ReceivePayload
  <2>4. PICK rest : Follows(rest) /\ Position(rest, k)
    BY <1>2, <1>4, <2>1, <2>3 DEF SyncInv
  <2>5. k < Len(log) /\ log[k + 1].fault \notin Noticed
    BY <1>2, <2>2, <2>3, <2>4, PayloadTells
  <2> QED
    BY <2>1, <2>3, <2>5, LogTypes
<1> QED
  BY <1>5, <1>6

-----------------------------------------------------------------------------
(* Sound frames. *)

(* A sound payload is received whole, as it was sent. *)
LEMMA SoundPayload ==
    ASSUME TypeInv, HeaderInv, NEW rest, Follows(rest), NEW k \in Nat, Position(rest, k),
           pc = "payload", SoundUpTo(k + 1)
    PROVE  \E frame \in Nat, mode \in Modes, extension \in Extensions :
             /\ header = HeaderOf(FramePayload(frame, mode), extension, "none")
             /\ Len(stream) >= buffer
             /\ \A some \in {0, 255} : Payload(some) = FramePayload(frame, mode)
<1>1. PICK extension \in Extensions :
        /\ k < Len(log) /\ header = HeaderAt(k + 1, extension)
        /\ stream = Bytes(PayloadAt(k + 1)) \o rest[k + 1]
  BY DEF Position
<1> DEFINE mode == log[k + 1].mode
           p == FramePayload(k + 1, mode)
           r == rest[k + 1]
<1>2. k + 1 \in Nat /\ mode \in Modes /\ log[k + 1].fault = "none" /\ r \in Seq(Item)
  <2>1. k + 1 \in 1..Len(log)
    BY <1>1, LogTypes
  <2>2. mode \in Modes /\ log[k + 1].fault = "none"
    BY <2>1, LogTypes DEF SoundUpTo
  <2>3. r \in Seq(Item)
    BY DEF Follows
  <2> QED
    BY <2>2, <2>3
<1>3. header = HeaderOf(p, extension, "none") /\ PayloadAt(k + 1) = p
  BY <1>1, <1>2 DEF HeaderAt, PayloadAt, Damaged
<1>4. p \in Seq(Byte) /\ Len(p) \in Nat
  BY <1>2, FrameIsBytes, LenProperties DEF TypeInv
<1>5. buffer = header.payload_len /\ buffer \in Nat
  BY DEF HeaderInv, TypeInv
<1> HIDE DEF p, r
<1>6. buffer = Len(p)
  <2>1. header.payload_len = Len(p) + 0
    BY <1>3 DEF HeaderOf
  <2> QED
    BY <1>4, <1>5, <2>1
<1>7. /\ Len(stream) = Len(p) + Len(r) /\ Len(r) \in Nat
      /\ \A i \in 1..Len(p) : stream[i] = <<"byte", p[i]>>
  <2>1. p \in Seq(Byte) /\ r \in Seq(Item)
    BY <1>2, <1>4
  <2> DEFINE s == Bytes(p) \o r
  <2>2. Len(s) = Len(p) + Len(r) /\ \A i \in 1..Len(p) : s[i] = <<"byte", p[i]>>
    BY <2>1, FrontOfStream
  <2>3. stream = s
    BY <1>1, <1>3 DEF r
  <2> HIDE DEF s
  <2> QED
    BY <2>1, <2>2, <2>3, LenProperties
<1>8. Len(stream) >= buffer
  BY <1>4, <1>6, <1>7
<1>9. ASSUME NEW some \in {0, 255} PROVE Payload(some) = p
  <2> DEFINE q == Payload(some)
  <2>1. q \in Seq(Byte) /\ Len(q) = buffer
    BY <1>5, <1>8, PayloadIsBytes DEF TypeInv
  <2>2. ASSUME NEW i \in 1..buffer PROVE q[i] = p[i]
    <3>1. stream[i] = <<"byte", p[i]>>
      BY <1>6, <1>7
    <3>2. stream[i][1] = "byte" /\ stream[i][2] = p[i]
      BY <3>1
    <3> QED
      BY <3>2 DEF Payload
  <2> HIDE DEF q
  <2>3. q = p
    BY <1>4, <1>6, <2>1, <2>2, SeqEqual
  <2> QED
    BY <2>3 DEF q
<1> QED
  BY <1>2, <1>3, <1>8, <1>9 DEF p

LEMMA SoundNext ==
    ASSUME TypeInv, HeaderInv, CutInv, SyncInv, SoundFramesAreAccepted, [Next]_vars
    PROVE  SoundFramesAreAccepted'
<1> DEFINE EndOfConnection == {"none", "HEADER_RECEIVE_FAILED"}
<1>1. config' = config /\ ConfigOK
  BY ConfigStays DEF TypeInv
<1>2. PICK k \in Nat, j \in Nat : k = Len(delivered) /\ j = Len(delivered') /\ k <= j
  BY DeliveredGrows
<1>3. SUFFICES ASSUME Supported, SoundUpTo(j + 1)', ~broken' PROVE error' \in EndOfConnection
  <2>1. Supported' = Supported
    BY <1>1, WhatIsSentStays
  <2> QED
    BY <1>2, <1>3, <2>1 DEF SoundFramesAreAccepted
<1>4. SoundUpTo(k + 1) /\ SoundUpTo(k)
  <2>1. j + 1 \in Nat /\ k + 1 \in Nat /\ k + 1 <= j + 1 /\ k <= j + 1
    BY <1>2
  <2> QED
    BY <1>3, <2>1, SoundBefore
<1>5. ~broken /\ ~ReceiveBreaks
  BY <1>3 DEF Next, vars, worker, FpgaSends, FpgaCloses, SessionStops, WorkerStep, LoopTest,
              ReceiveHeader, ReceiveExtension, ReceivePayload, ReceiveFails, ReceiveBreaks
<1>6. error \in EndOfConnection
  BY <1>2, <1>3, <1>4, <1>5 DEF SoundFramesAreAccepted
<1>7. CASE error' = error
  BY <1>7, <1>6
<1>8. ASSUME pc # "ended" PROVE \E rest : Follows(rest) /\ Position(rest, k)
  BY <1>2, <1>4, <1>8 DEF SyncInv
<1>9. ASSUME k + 1 \in 1..Len(log), NEW extension \in Extensions, NEW h,
             h = HeaderAt(k + 1, extension)
      PROVE  HeaderError(h) = "none" /\ h.payload_len \in 1..MaxPayload
  <2> DEFINE mode == log[k + 1].mode
             g == HeaderOf(FramePayload(k + 1, mode), extension, "none")
  <2>1. log[k + 1].fault = "none" /\ mode \in Modes /\ k + 1 \in Nat
    BY <1>4, <1>9, LogTypes DEF SoundUpTo
  <2>2. h = g
    BY <1>9, <2>1 DEF HeaderAt
  <2> HIDE DEF mode
  <2>3. HeaderError(g) = "none" /\ g.payload_len \in 1..MaxPayload
    BY <1>1, <1>3, <2>1, SoundIsAccepted
  <2> QED
    BY <2>2, <2>3
<1>10. CASE ReceiveHeader
  <2> DEFINE h == HeaderIn(Received(HeaderSize))
  <2>1. pc = "header" /\ Len(stream) >= HeaderSize
    BY <1>10 DEF ReceiveHeader
  <2>2. PICK rest : Follows(rest) /\ Position(rest, k)
    BY <1>8, <2>1
  <2>3. PICK extension \in Extensions : k < Len(log) /\ h = HeaderAt(k + 1, extension)
    BY <1>4, <2>1, <2>2, HeaderTells
  <2>4. k + 1 \in 1..Len(log)
    BY <2>3, LogTypes
  <2> HIDE DEF h
  <2>5. HeaderError(h) = "none" /\ h.payload_len \in 1..MaxPayload
    BY <1>9, <2>3, <2>4
  <2>6. error' = error
    BY <1>10, <2>5 DEF ReceiveHeader, StartPayload, h
  <2> QED
    BY <1>7, <2>6
<1>11. CASE ReceiveExtension
  <2>1. pc = "extension"
    BY <1>11 DEF ReceiveExtension
  <2>2. PICK rest : Follows(rest) /\ Position(rest, k)
    BY <1>8, <2>1
  <2>3. PICK extension \in Extensions : k < Len(log) /\ header = HeaderAt(k + 1, extension)
    BY <2>1, <2>2 DEF Position
  <2>4. k + 1 \in 1..Len(log)
    BY <2>3, LogTypes
  <2>5. header.payload_len \in 1..MaxPayload
    BY <1>9, <2>3, <2>4
  <2>6. error' = error
    BY <1>11, <2>5 DEF ReceiveExtension, StartPayload
  <2> QED
    BY <1>7, <2>6
<1>12. ASSUME pc = "payload"
       PROVE  Len(stream) >= buffer /\ \A some \in {0, 255} : PayloadError(Payload(some)) = "none"
  <2>1. PICK rest : Follows(rest) /\ Position(rest, k)
    BY <1>8, <1>12
  <2>2. PICK frame \in Nat, mode \in Modes, extension \in Extensions :
          /\ header = HeaderOf(FramePayload(frame, mode), extension, "none")
          /\ Len(stream) >= buffer
          /\ \A some \in {0, 255} : Payload(some) = FramePayload(frame, mode)
    BY <1>4, <1>12, <2>1, SoundPayload
  <2>3. PayloadError(FramePayload(frame, mode)) = "none"
    BY <1>1, <1>3, <2>2, SoundIsAccepted
  <2> QED
    BY <2>2, <2>3
<1>13. CASE ReceivePayload
  <2>1. pc = "payload"
    BY <1>13 DEF ReceivePayload
  <2>2. \A some \in {0, 255} : PayloadError(Payload(some)) = "none"
    BY <1>12, <2>1
  <2>3. error' = error
    BY <1>13, <2>2 DEF ReceivePayload, Payload
  <2> QED
    BY <1>7, <2>3
<1>14. CASE ReceiveFails
  <2>1. CASE pc = "payload"
    <3>1. stream \in Seq(Item) /\ buffer \in Nat /\ Len(stream) \in Nat
      BY LenProperties DEF TypeInv
    <3>2. ~running
      BY <1>12, <1>14, <2>1, <3>1 DEF ReceiveFails, Wanted
    <3>3. error' = error
      BY <1>14, <3>2 DEF ReceiveFails, FailReceive, Fail
    <3> QED
      BY <1>7, <3>3
  <2>2. CASE pc # "payload"
    <3>1. error' = "HEADER_RECEIVE_FAILED" \/ error' = error
      BY <1>14, <2>2 DEF ReceiveFails, FailReceive, Fail
    <3> QED
      BY <1>6, <3>1
  <2> QED
    BY <2>1, <2>2
<1>15. CASE FpgaSends \/ FpgaCloses \/ SessionStops \/ LoopTest \/ UNCHANGED vars
  BY <1>7, <1>15 DEF FpgaSends, FpgaCloses, SessionStops, LoopTest, vars, worker
<1> QED
  BY <1>10, <1>11, <1>13, <1>14, <1>15, <1>5 DEF Next, WorkerStep

-----------------------------------------------------------------------------
(* All together. *)

StreamInv ==
    /\ TypeInv /\ HeaderInv /\ CutInv /\ SyncInv
    /\ PicturesAreTrue /\ FaultsAreNoticed /\ SoundFramesAreAccepted

LEMMA StreamInit == Init => StreamInv
<1> SUFFICES ASSUME Init PROVE StreamInv
  OBVIOUS
<1>1. TypeInv /\ HeaderInv
  BY TypeInit, BufferInit DEF BufferInv
<1>2. Len(log) = 0 /\ Len(delivered) = 0 /\ log = <<>> /\ delivered = <<>> /\ stream = <<>>
  BY DEF Init
<1>3. CutInv
  BY <1>2 DEF CutInv
<1>4. PicturesAreTrue /\ FaultsAreNoticed /\ SoundFramesAreAccepted
  BY <1>2 DEF Init, PicturesAreTrue, FaultsAreNoticed, SoundFramesAreAccepted
<1>5. SyncInv
  <2> DEFINE rest == [i \in Nat |-> <<>>]
  <2>1. rest \in [Nat -> Seq(Item)] /\ rest[0] = <<>>
    BY EmptySeq
  <2> HIDE DEF rest
  <2>2. Follows(rest)
    BY <1>2, <2>1 DEF Follows
  <2>3. Position(rest, Len(delivered))
    BY <1>2, <2>1 DEF Init, Position
  <2> QED
    BY <2>2, <2>3 DEF SyncInv
<1> QED
  BY <1>1, <1>3, <1>4, <1>5 DEF StreamInv

LEMMA StreamNext == StreamInv /\ [Next]_vars => StreamInv'
<1> SUFFICES ASSUME StreamInv, [Next]_vars PROVE StreamInv'
  OBVIOUS
<1>1. /\ TypeInv /\ HeaderInv /\ CutInv /\ SyncInv
      /\ PicturesAreTrue /\ FaultsAreNoticed /\ SoundFramesAreAccepted
  BY DEF StreamInv
<1>2. TypeInv' /\ HeaderInv' /\ CutInv'
  BY <1>1, TypeNext, BufferNext, CutNext, TypedConfig DEF BufferInv
<1>3. SyncInv'
  BY <1>1, SyncSends, SyncSteps
<1>4. PicturesAreTrue' /\ FaultsAreNoticed' /\ SoundFramesAreAccepted'
  BY <1>1, PicturesNext, NoticedNext, SoundNext
<1> QED
  BY <1>2, <1>3, <1>4 DEF StreamInv

(* ImageReceiveLoop hands over exactly the pictures the FPGA took, in order and  *)
(* none missing, each plane and each pixel in its place: with the CRC verified    *)
(* whatever the faults in the stream, and without it up to the first of them, for *)
(* every format and length of the session.                                        *)
THEOREM PicturesTrue == Spec => []PicturesAreTrue
<1>1. StreamInv => PicturesAreTrue
  BY DEF StreamInv
<1> QED
  BY <1>1, StreamInit, StreamNext, PTL DEF Spec

(* The checks of ImageReceiveLoop find every wrong field or size of a header, every *)
(* bit above the twelve of a pixel and every frame cut short, at the first fault    *)
(* and with the CRC verified behind it too: none is handed over.                    *)
THEOREM FaultsNoticed == Spec => []FaultsAreNoticed
<1>1. StreamInv => FaultsAreNoticed
  BY DEF StreamInv
<1> QED
  BY <1>1, StreamInit, StreamNext, PTL DEF Spec

(* No frame without a fault, of a format that ImageReceiveLoop can handle, ends *)
(* the session, whatever comes behind it.                                       *)
THEOREM SoundAccepted == Spec => []SoundFramesAreAccepted
<1>1. StreamInv => SoundFramesAreAccepted
  BY DEF StreamInv
<1> QED
  BY <1>1, StreamInit, StreamNext, PTL DEF Spec
=============================================================================
