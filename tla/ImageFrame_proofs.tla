--------------------------- MODULE ImageFrame_proofs ---------------------------
(* The arithmetic of the image protocol, for every width, height and size_t. *)
EXTENDS ImageFrame, SequenceTheorems, TLAPS

(* A quotient is what it should be: a is in the quotient-th interval of b. *)
LEMMA Quotient ==
    ASSUME NEW a \in Nat, NEW b \in Nat \ {0}
    PROVE  /\ a \div b \in Nat /\ a % b \in 0..b - 1
           /\ a = b * (a \div b) + (a % b)
    OBVIOUS

(* Multiplication keeps order. *)
LEMMA TimesMonotone ==
    ASSUME NEW a \in Nat, NEW b \in Nat, NEW c \in Nat, a <= b
    PROVE  a * c <= b * c
<1>1. b - a \in Nat
  OBVIOUS
<1>2. (b - a) * c \in Nat
  BY <1>1
<1>3. b * c = a * c + (b - a) * c
  OBVIOUS
<1> QED
  BY <1>2, <1>3

(* The guard by division is the guard on the product, which cannot wrap. *)
LEMMA DivisionGuard ==
    ASSUME NEW a \in Nat, NEW b \in Nat \ {0}, NEW limit \in Nat
    PROVE  a <= limit \div b <=> a * b <= limit
<1> DEFINE q == limit \div b
<1>1. q \in Nat /\ limit = b * q + (limit % b) /\ limit % b \in 0..b - 1
  BY Quotient
<1>2. ASSUME a <= q PROVE a * b <= limit
  <2>1. a * b <= q * b
    BY <1>1, <1>2, TimesMonotone
  <2> QED
    BY <1>1, <2>1
<1>3. ASSUME ~(a <= q) PROVE ~(a * b <= limit)
  <2>1. q + 1 <= a
    BY <1>1, <1>3
  <2>2. (q + 1) * b <= a * b
    BY <1>1, <2>1, TimesMonotone
  <2>3. (q + 1) * b = b * q + b
    BY <1>1
  <2> QED
    BY <1>1, <2>2, <2>3
<1> QED
  BY <1>2, <1>3

LEMMA NoWrap ==
    ASSUME NEW a \in Nat, NEW b \in Nat, a * b <= SizeMax
    PROVE  Times(a, b) = a * b
<1>1. a * b \in Nat /\ SizeMax \in Nat
  BY SizesAssumption
<1>2. \A x \in Nat : x <= SizeMax => x % (SizeMax + 1) = x
  BY <1>1
<1> QED
  BY <1>1, <1>2 DEF Times

(* TryComputeRaw16Low12PayloadSize succeeds exactly if the true size fits    *)
(* in a size_t, and then computes it: it never gives a wrapped product.      *)
THEOREM PayloadSizeNeverWraps ==
    ASSUME NEW width \in Nat, NEW height \in Nat
    PROVE  /\ PayloadSizeFits(width, height)
                <=> width # 0 /\ height # 0 /\ 2 * (width * height) <= SizeMax
           /\ PayloadSizeFits(width, height)
                => PayloadSize(width, height) = 2 * (width * height)
<1>0. SizeMax \in Nat /\ width * height \in Nat
  BY SizesAssumption
<1>1. CASE width = 0 \/ height = 0
  BY <1>1 DEF PayloadSizeFits
<1>2. CASE width # 0 /\ height # 0
  <2>1. width <= SizeMax \div height <=> width * height <= SizeMax
    BY <1>0, <1>2, DivisionGuard
  <2>2. width * height <= SizeMax \div 2 <=> 2 * (width * height) <= SizeMax
    BY <1>0, DivisionGuard
  <2>3. width * height <= SizeMax => Times(width, height) = width * height
    BY NoWrap
  <2>4. PayloadSizeFits(width, height) <=> 2 * (width * height) <= SizeMax
    BY <1>0, <1>2, <2>1, <2>2, <2>3 DEF PayloadSizeFits
  <2>5. ASSUME 2 * (width * height) <= SizeMax
        PROVE  PayloadSize(width, height) = 2 * (width * height)
    <3>1. Times(width, height) = width * height
      BY <1>0, <2>3, <2>5
    <3>2. Times(width * height, 2) = 2 * (width * height)
      BY <1>0, <2>5, NoWrap
    <3> QED
      BY <3>1, <3>2 DEF PayloadSize
  <2> QED
    BY <1>2, <2>4, <2>5
<1> QED
  BY <1>1, <1>2

-----------------------------------------------------------------------------

(* Division gives back the quotient and the rest a number was made of. *)
LEMMA Split ==
    ASSUME NEW b \in Nat \ {0}, NEW q \in Nat, NEW r \in 0..b - 1
    PROVE  /\ b * q + r \in Nat
           /\ (b * q + r) \div b = q /\ (b * q + r) % b = r
<1> DEFINE a == b * q + r
           p == a \div b
<1>1. a \in Nat /\ b * q \in Nat
  OBVIOUS
<1>2. p \in Nat /\ a % b \in 0..b - 1 /\ a = b * p + (a % b)
  BY <1>1, Quotient
<1> HIDE DEF p
<1>3. ASSUME q + 1 <= p PROVE FALSE
  <2>1. (q + 1) * b <= p * b
    BY <1>2, <1>3, TimesMonotone
  <2>2. (q + 1) * b = b * q + b
    OBVIOUS
  <2> QED
    BY <1>1, <1>2, <2>1, <2>2
<1>4. ASSUME p + 1 <= q PROVE FALSE
  <2>1. (p + 1) * b <= q * b
    BY <1>2, <1>4, TimesMonotone
  <2>2. (p + 1) * b = b * p + b
    BY <1>2
  <2> QED
    BY <1>1, <1>2, <2>1, <2>2
<1>5. p = q
  BY <1>2, <1>3, <1>4
<1> QED
  BY <1>1, <1>2, <1>5 DEF p

(* A place in a picture is a row and a place in it, and conversely. *)
LEMMA RowOf ==
    ASSUME NEW width \in Nat \ {0}, NEW height \in Nat,
           NEW place \in 0..width * height - 1
    PROVE  /\ place \div width \in 0..height - 1 /\ place % width \in 0..width - 1
           /\ place = width * (place \div width) + (place % width)
<1> DEFINE row == place \div width
<1>1. place \in Nat /\ width * height \in Nat
  OBVIOUS
<1>2. row \in Nat /\ place % width \in 0..width - 1 /\ place = width * row + (place % width)
  BY <1>1, Quotient
<1> HIDE DEF row
<1>3. ASSUME height <= row PROVE FALSE
  <2>1. height * width <= row * width
    BY <1>2, <1>3, TimesMonotone
  <2> QED
    BY <1>1, <1>2, <2>1
<1> QED
  BY <1>2, <1>3 DEF row

LEMMA InPicture ==
    ASSUME NEW width \in Nat \ {0}, NEW height \in Nat,
           NEW row \in 0..height - 1, NEW x \in 0..width - 1
    PROVE  width * row + x \in 0..width * height - 1
<1>1. width * row \in Nat
  OBVIOUS
<1>2. (row + 1) * width <= height * width
  BY TimesMonotone
<1>3. (row + 1) * width = width * row + width
  OBVIOUS
<1> QED
  BY <1>1, <1>2, <1>3

(* A place in a row of four lanes is a sample and a lane; the two orders of   *)
(* the row are the two ways to count them.                                    *)
LEMMA LaneOf ==
    ASSUME NEW laneWidth \in Nat \ {0}, NEW x \in 0..4 * laneWidth - 1
    PROVE  /\ x \div 4 \in 0..laneWidth - 1 /\ x % 4 \in 0..3
           /\ x = 4 * (x \div 4) + (x % 4)
           /\ x \div laneWidth \in 0..3 /\ x % laneWidth \in 0..laneWidth - 1
           /\ x = laneWidth * (x \div laneWidth) + (x % laneWidth)
<1>1. /\ x \div 4 \in 0..laneWidth - 1 /\ x % 4 \in 0..3
      /\ x = 4 * (x \div 4) + (x % 4)
  OBVIOUS
<1> DEFINE lane == x \div laneWidth
<1>0. x \in Nat
  OBVIOUS
<1>2. /\ lane \in Nat /\ x % laneWidth \in 0..laneWidth - 1
      /\ x = laneWidth * lane + (x % laneWidth)
  BY <1>0, Quotient
<1> HIDE DEF lane
<1>3. ASSUME 4 <= lane PROVE FALSE
  <2>1. 4 * laneWidth <= lane * laneWidth
    BY <1>2, <1>3, TimesMonotone
  <2> QED
    BY <1>2, <2>1
<1>4. lane \in 0..3
  BY <1>2, <1>3
<1> QED
  BY <1>1, <1>2, <1>4 DEF lane

LEMMA LanePlace ==
    ASSUME NEW laneWidth \in Nat \ {0},
           NEW lane \in 0..3, NEW sample \in 0..laneWidth - 1
    PROVE  /\ 4 * sample + lane \in 0..4 * laneWidth - 1
           /\ laneWidth * lane + sample \in 0..4 * laneWidth - 1
<1>1. 4 * sample + lane \in 0..4 * laneWidth - 1
  OBVIOUS
<1>2. CASE lane = 0
  BY <1>1, <1>2
<1>3. CASE lane = 1
  BY <1>1, <1>3
<1>4. CASE lane = 2
  BY <1>1, <1>4
<1>5. CASE lane = 3
  BY <1>1, <1>5
<1> QED
  BY <1>2, <1>3, <1>4, <1>5

(* ConvertGlux1605Hdr4LaneInterleaved writes inside the picture, and the     *)
(* sender's interleaving undoes it: no two pixels of a payload are written   *)
(* to one place.                                                             *)
THEOREM DestinationIsInjective ==
    ASSUME NEW width \in Nat \ {0}, NEW height \in Nat, width % LaneCount = 0,
           NEW source \in 0..width * height - 1
    PROVE  /\ Destination(source, width, "four_lane") \in 0..width * height - 1
           /\ PayloadIndex(Destination(source, width, "four_lane"), width, "four_lane") = source
<1> DEFINE L == width \div 4
           row == source \div width
           x == source % width
           sample == x \div 4
           lane == x % 4
           target == L * lane + sample
<1>1. L \in Nat \ {0} /\ width = 4 * L
  BY DEF LaneCount
<1>2. row \in 0..height - 1 /\ x \in 0..width - 1 /\ source = width * row + x
  BY RowOf
<1> HIDE DEF L, row, x
<1>3. sample \in 0..L - 1 /\ lane \in 0..3 /\ x = 4 * sample + lane
  BY <1>1, <1>2, LaneOf
<1> HIDE DEF sample, lane
<1>4. target \in 0..width - 1
  BY <1>1, <1>3, LanePlace
<1>5. Destination(source, width, "four_lane") = width * row + target
  <2>1. Destination(source, width, "four_lane") = row * width + lane * L + sample
    BY DEF Destination, LaneCount, L, row, x, lane, sample
  <2> QED
    BY <1>1, <1>2, <1>3, <2>1
<1>6. target \div L = lane /\ target % L = sample
  BY <1>1, <1>3, Split
<1> HIDE DEF target
<1>7. width * row + target \in 0..width * height - 1
  BY <1>2, <1>4, InPicture
<1>8. (width * row + target) \div width = row /\ (width * row + target) % width = target
  BY <1>2, <1>4, Split
<1>9. PayloadIndex(width * row + target, width, "four_lane") = row * width + sample * 4 + lane
  BY <1>6, <1>8 DEF PayloadIndex, LaneCount, L
<1>10. row * width + sample * 4 + lane = source
  BY <1>2, <1>3
<1> QED
  BY <1>5, <1>7, <1>9, <1>10

(* Conversely every pixel of the picture is written, by the pixel of the     *)
(* payload that the sender put there: the reordering is a bijection.         *)
THEOREM DestinationIsOnto ==
    ASSUME NEW width \in Nat \ {0}, NEW height \in Nat, width % LaneCount = 0,
           NEW pixel \in 0..width * height - 1
    PROVE  /\ PayloadIndex(pixel, width, "four_lane") \in 0..width * height - 1
           /\ Destination(PayloadIndex(pixel, width, "four_lane"), width, "four_lane") = pixel
<1> DEFINE L == width \div 4
           row == pixel \div width
           x == pixel % width
           lane == x \div L
           sample == x % L
           place == 4 * sample + lane
<1>1. L \in Nat \ {0} /\ width = 4 * L
  BY DEF LaneCount
<1>2. row \in 0..height - 1 /\ x \in 0..width - 1 /\ pixel = width * row + x
  BY RowOf
<1> HIDE DEF L, row, x
<1>3. sample \in 0..L - 1 /\ lane \in 0..3 /\ x = L * lane + sample
  BY <1>1, <1>2, LaneOf
<1> HIDE DEF sample, lane
<1>4. place \in 0..width - 1
  BY <1>1, <1>3, LanePlace
<1>5. PayloadIndex(pixel, width, "four_lane") = width * row + place
  <2>1. PayloadIndex(pixel, width, "four_lane") = row * width + sample * 4 + lane
    BY DEF PayloadIndex, LaneCount, L, row, x, lane, sample
  <2> QED
    BY <1>2, <1>3, <2>1
<1>6. place \div 4 = sample /\ place % 4 = lane
  BY <1>3
<1> HIDE DEF place
<1>7. width * row + place \in 0..width * height - 1
  BY <1>2, <1>4, InPicture
<1>8. (width * row + place) \div width = row /\ (width * row + place) % width = place
  BY <1>2, <1>4, Split
<1>9. Destination(width * row + place, width, "four_lane") = row * width + lane * L + sample
  BY <1>6, <1>8 DEF Destination, LaneCount, L
<1>10. row * width + lane * L + sample = pixel
  BY <1>1, <1>2, <1>3
<1> QED
  BY <1>5, <1>7, <1>9, <1>10

(* A pixel of twelve bits scales to eight, black to black and white to white, *)
(* and a brighter one never to a darker.                                      *)
THEOREM GrayScale ==
    ASSUME NEW v \in 0..4095, NEW w \in 0..4095
    PROVE  /\ Gray8(v) \in 0..255
           /\ v <= w => Gray8(v) <= Gray8(w)
           /\ Gray8(0) = 0 /\ Gray8(4095) = 255
  BY DEF Gray8

(* What was put behind one another comes apart. *)
LEMMA ComesApart ==
    ASSUME NEW S, NEW s \in Seq(S), NEW t \in Seq(S)
    PROVE  /\ s \o t \in Seq(S) /\ Len(s) \in Nat /\ Len(t) \in Nat
           /\ Len(s \o t) = Len(s) + Len(t)
           /\ SubSeq(s \o t, 1, Len(s)) = s
           /\ SubSeq(s \o t, Len(s) + 1, Len(s \o t)) = t
<1> DEFINE n == Len(s)
           m == Len(t)
           all == s \o t
           head == SubSeq(all, 1, n)
           tail == SubSeq(all, n + 1, n + m)
<1>1. n \in Nat /\ m \in Nat
  BY LenProperties
<1>2. /\ all \in Seq(S) /\ Len(all) = n + m
      /\ \A i \in 1..n + m : all[i] = IF i <= n THEN s[i] ELSE t[i - n]
  BY ConcatProperties
<1> HIDE DEF all
<1>3. \A i \in 1..n + m : all[i] \in S
  <2> SUFFICES ASSUME NEW i \in 1..n + m PROVE all[i] \in S
    OBVIOUS
  <2> QED
    BY <1>2, ElementOfSeq
<1>4. /\ head \in Seq(S) /\ Len(head) = n
      /\ \A i \in 1..n : head[i] = all[i]
  <2>1. \A i \in 1..n : all[i] \in S
    BY <1>1, <1>3
  <2>2. /\ head \in Seq(S) /\ Len(head) = IF 1 <= n THEN n - 1 + 1 ELSE 0
        /\ \A i \in 1..n - 1 + 1 : head[i] = all[1 + i - 1]
    BY <1>1, <2>1, SubSeqProperties
  <2> HIDE DEF head
  <2> QED
    BY <1>1, <2>2
<1>5. /\ tail \in Seq(S) /\ Len(tail) = m
      /\ \A i \in 1..m : tail[i] = all[n + i]
  <2>1. \A i \in n + 1..n + m : all[i] \in S
    BY <1>1, <1>3
  <2>2. n + 1 \in Int /\ n + m \in Int
    BY <1>1
  <2>3. /\ tail \in Seq(S)
        /\ Len(tail) = IF n + 1 <= n + m THEN (n + m) - (n + 1) + 1 ELSE 0
        /\ \A i \in 1..(n + m) - (n + 1) + 1 : tail[i] = all[(n + 1) + i - 1]
    <3> DEFINE from == n + 1
               to == n + m
    <3>1. from \in Int /\ to \in Int /\ \A i \in from..to : all[i] \in S
      BY <2>1, <2>2
    <3> HIDE DEF from, to
    <3>2. /\ SubSeq(all, from, to) \in Seq(S)
          /\ Len(SubSeq(all, from, to)) = IF from <= to THEN to - from + 1 ELSE 0
          /\ \A i \in 1..to - from + 1 : SubSeq(all, from, to)[i] = all[from + i - 1]
      BY <3>1, SubSeqProperties
    <3> QED
      BY <3>2 DEF from, to
  <2> HIDE DEF tail
  <2> QED
    BY <1>1, <2>3
<1> HIDE DEF head, tail
<1>6. head = s
  BY <1>1, <1>2, <1>4, SeqEqual
<1>7. tail = t
  <2>1. ASSUME NEW i \in 1..m PROVE tail[i] = t[i]
    <3>1. n + i \in 1..n + m /\ ~(n + i <= n) /\ (n + i) - n = i
      BY <1>1
    <3>2. all[n + i] = IF n + i <= n THEN s[n + i] ELSE t[(n + i) - n]
      BY <1>2, <3>1
    <3>3. all[n + i] = t[i]
      BY <3>1, <3>2
    <3> QED
      BY <1>5, <3>3
  <2> QED
    BY <1>5, <2>1, SeqEqual
<1> QED
  BY <1>1, <1>2, <1>6, <1>7 DEF all, head, tail

(* The values of a byte and of a pixel. *)
Byte == 0..255
Bits12 == 0..4095

(* A quarter of a width has four quarters. *)
Readable(width, order) == order \in ReadoutOrders /\ (order = "four_lane" => width % LaneCount = 0)

(* Where the pixels of a picture are, and where those of its payload. *)
Places(width, height) == 0..width * height - 1
IsPicture(picture, width, height) == picture \in [Places(width, height) -> Bits12]

(* Sender and receiver agree on the place of every pixel, in either order. *)
LEMMA PlacesAgree ==
    ASSUME NEW width \in Nat \ {0}, NEW height \in Nat, NEW order, Readable(width, order),
           NEW source \in Places(width, height)
    PROVE  /\ Destination(source, width, order) \in Places(width, height)
           /\ PayloadIndex(source, width, order) \in Places(width, height)
           /\ PayloadIndex(Destination(source, width, order), width, order) = source
           /\ Destination(PayloadIndex(source, width, order), width, order) = source
<1> USE DEF Places
<1>1. CASE order = "row_major"
  BY <1>1 DEF Destination, PayloadIndex
<1>2. CASE order = "four_lane"
  <2>1. width % LaneCount = 0
    BY <1>2 DEF Readable
  <2> QED
    BY <1>2, <2>1, DestinationIsInjective, DestinationIsOnto
<1> QED
  BY <1>1, <1>2 DEF Readable, ReadoutOrders

(* The two bytes of a value. *)
LEMMA Halving ==
    ASSUME NEW v \in Bits12
    PROVE  v % 256 \in Byte /\ v \div 256 \in Byte /\ v = (v % 256) + 256 * (v \div 256)
  BY DEF Byte, Bits12

(* A payload, of the pixels in its own order; two bytes make up the pixel that was
   split into them. *)
Halves(pixels, count) ==
    [byte \in 1..2 * count |-> IF byte % 2 = 1 THEN pixels[(byte - 1) \div 2] % 256
                                               ELSE pixels[(byte - 1) \div 2] \div 256]
LEMMA HalvesMake ==
    ASSUME NEW count \in Nat, NEW pixels, \A s \in 0..count - 1 : pixels[s] \in Bits12
    PROVE  /\ Halves(pixels, count) \in Seq(Byte) /\ Len(Halves(pixels, count)) = 2 * count
           /\ \A s \in 0..count - 1 : Pixel16(Halves(pixels, count), s) = pixels[s]
<1>1. ASSUME NEW byte \in 1..2 * count PROVE Halves(pixels, count)[byte] \in Byte
  <2> DEFINE source == (byte - 1) \div 2
  <2>1. source \in 0..count - 1
    OBVIOUS
  <2> HIDE DEF source
  <2>2. pixels[source] % 256 \in Byte /\ pixels[source] \div 256 \in Byte
    <3> DEFINE v == pixels[source]
    <3>1. v \in Bits12
      BY <2>1
    <3> HIDE DEF v
    <3>2. v % 256 \in Byte /\ v \div 256 \in Byte
      BY <3>1, Halving
    <3> QED
      BY <3>2 DEF v
  <2>3. Halves(pixels, count)[byte] = IF byte % 2 = 1 THEN pixels[source] % 256 ELSE pixels[source] \div 256
    BY DEF Halves, source
  <2> QED
    BY <2>2, <2>3
<1>2. Halves(pixels, count) = [byte \in 1..2 * count |-> Halves(pixels, count)[byte]]
  BY DEF Halves
<1>3. Halves(pixels, count) \in [1..2 * count -> Byte]
  BY <1>1, <1>2
<1>4. Halves(pixels, count) \in Seq(Byte) /\ Len(Halves(pixels, count)) = 2 * count
  BY <1>3
<1>5. ASSUME NEW s \in 0..count - 1 PROVE Pixel16(Halves(pixels, count), s) = pixels[s]
  <2> DEFINE low == 2 * s + 1
             high == 2 * s + 2
  <2>1. /\ low \in 1..2 * count /\ low % 2 = 1 /\ (low - 1) \div 2 = s
        /\ high \in 1..2 * count /\ high % 2 = 0 /\ (high - 1) \div 2 = s
    OBVIOUS
  <2>3. Pixel16(Halves(pixels, count), s) = Halves(pixels, count)[low] + 256 * Halves(pixels, count)[high]
    BY DEF Pixel16
  <2> HIDE DEF low, high
  <2>2. Halves(pixels, count)[low] = pixels[s] % 256 /\ Halves(pixels, count)[high] = pixels[s] \div 256
    BY <2>1 DEF Halves
  <2>4. pixels[s] = (pixels[s] % 256) + 256 * (pixels[s] \div 256)
    <3> DEFINE v == pixels[s]
    <3>1. v \in Bits12
      OBVIOUS
    <3> HIDE DEF v
    <3>2. v = (v % 256) + 256 * (v \div 256)
      BY <3>1, Halving
    <3> QED
      BY <3>2 DEF v
  <2> QED
    BY <2>2, <2>3, <2>4
<1> QED
  BY <1>4, <1>5

(* Pixels of twelve bits leave the four high bits zero. *)
Raw12(payload, count) == \A s \in 0..count - 1 : Pixel16(payload, s) \in Bits12
LEMMA HighBits ==
    ASSUME NEW payload, NEW count \in Nat, Raw12(payload, count)
    PROVE  HighBitsAreZero(payload, count)
<1> SUFFICES ASSUME NEW i \in 0..count - 1 PROVE Pixel16(payload, i) < 4096
  BY DEF HighBitsAreZero
<1> DEFINE v == Pixel16(payload, i)
           sources == 0..count - 1
           values == Bits12
<1>1. v \in Bits12
  <2>1. i \in sources /\ \A s \in sources : Pixel16(payload, s) \in Bits12
    BY DEF Raw12
  <2> HIDE DEF sources
  <2> QED
    BY <2>1
<1> HIDE DEF v
<1>2. v < 4096
  BY <1>1 DEF Bits12
<1> QED
  BY <1>2 DEF v

(* A payload holds the pixels of its picture, each where the sender put it. *)
LEMMA PayloadCarries ==
    ASSUME NEW width \in Nat \ {0}, NEW height \in Nat \ {0},
           NEW order, Readable(width, order),
           NEW picture, IsPicture(picture, width, height)
    PROVE  LET payload == PayloadOf(picture, width, height, order)
           IN  /\ payload \in Seq(Byte) /\ Len(payload) = 2 * (width * height)
               /\ \A source \in Places(width, height) :
                    /\ Pixel16(payload, source) = picture[Destination(source, width, order)]
                    /\ Pixel16(payload, source) \in Bits12
<1> DEFINE count == width * height
           places == Places(width, height)
           payload == PayloadOf(picture, width, height, order)
           To == [source \in places |-> Destination(source, width, order)]
           From == [pixel \in places |-> PayloadIndex(pixel, width, order)]
           sent == [source \in places |-> picture[To[source]]]
<1>a. /\ picture = [place \in places |-> picture[place]] /\ DOMAIN picture = places
      /\ \A place \in places : picture[place] \in Bits12
  BY DEF IsPicture
<1>1. /\ count \in Nat /\ 2 * width * height = 2 * count
      /\ places = 0..count - 1 /\ places \subseteq Nat
  BY DEF Places
<1> HIDE DEF count
<1>2. /\ To \in [places -> places] /\ From \in [places -> places]
      /\ \A place \in places : To[From[place]] = place /\ From[To[place]] = place
  <2>1. \A place \in places :
            /\ Destination(place, width, order) \in places
            /\ PayloadIndex(place, width, order) \in places
            /\ PayloadIndex(Destination(place, width, order), width, order) = place
            /\ Destination(PayloadIndex(place, width, order), width, order) = place
    BY <1>1, PlacesAgree
  <2> HIDE DEF places
  <2> QED
    BY <2>1
<1>3. \A source \in places : sent[source] = picture[To[source]] /\ sent[source] \in Bits12
  <2> HIDE DEF places, To
  <2> QED
    BY <1>a, <1>2
<1>4. payload = Halves(sent, count)
  <2>2. ASSUME NEW byte \in 1..2 * count
        PROVE  (CHOOSE p \in places : PayloadIndex(p, width, order) = (byte - 1) \div 2)
                    = To[(byte - 1) \div 2]
    <3> DEFINE source == (byte - 1) \div 2
    <3>1. source \in 0..count - 1
      BY <1>1
    <3>2. source \in places
      BY <1>1, <3>1
    <3> HIDE DEF source, places
    <3>3. \A p \in places : PayloadIndex(p, width, order) = From[p]
      OBVIOUS
    <3> HIDE DEF To, From
    <3>4. \A p \in places : PayloadIndex(p, width, order) = source <=> p = To[source]
      BY <1>2, <3>2, <3>3
    <3>5. To[source] \in places
      BY <1>2, <3>2
    <3>6. (CHOOSE p \in places : PayloadIndex(p, width, order) = source) = To[source]
      BY <3>4, <3>5
    <3> QED
      BY <3>6 DEF source
  <2>3. ASSUME NEW byte \in 1..2 * count
        PROVE  sent[(byte - 1) \div 2] = picture[To[(byte - 1) \div 2]]
    <3>1. (byte - 1) \div 2 \in 0..count - 1
      BY <1>1
    <3> QED
      BY <1>1, <1>3, <3>1
  <2>4. payload = [byte \in 1..2 * count |->
                    LET pixel == CHOOSE p \in places :
                                    PayloadIndex(p, width, order) = (byte - 1) \div 2
                    IN  IF byte % 2 = 1 THEN picture[pixel] % 256 ELSE picture[pixel] \div 256]
    BY <1>a, <1>1 DEF PayloadOf
  <2> HIDE DEF payload, sent, To, places
  <2>5. ASSUME NEW byte \in 1..2 * count
        PROVE  (LET pixel == CHOOSE p \in places :
                                PayloadIndex(p, width, order) = (byte - 1) \div 2
                IN  IF byte % 2 = 1 THEN picture[pixel] % 256 ELSE picture[pixel] \div 256)
               = IF byte % 2 = 1 THEN sent[(byte - 1) \div 2] % 256
                                 ELSE sent[(byte - 1) \div 2] \div 256
    <3> DEFINE pixel == CHOOSE p \in places :
                            PayloadIndex(p, width, order) = (byte - 1) \div 2
    <3>1. pixel = To[(byte - 1) \div 2]
      BY <2>2
    <3>2. picture[pixel] = sent[(byte - 1) \div 2]
      BY <2>3, <3>1
    <3> HIDE DEF pixel
    <3>3. (IF byte % 2 = 1 THEN picture[pixel] % 256 ELSE picture[pixel] \div 256)
            = IF byte % 2 = 1 THEN sent[(byte - 1) \div 2] % 256
                              ELSE sent[(byte - 1) \div 2] \div 256
      BY <3>2
    <3> QED
      BY <3>3 DEF pixel
  <2> QED
    BY <2>4, <2>5 DEF Halves
<1> HIDE DEF sent
<1>5. /\ payload \in Seq(Byte) /\ Len(payload) = 2 * count
      /\ \A source \in places : Pixel16(payload, source) = sent[source]
  <2>1. \A source \in 0..count - 1 : sent[source] \in Bits12
    <3> TAKE source \in 0..count - 1
    <3>1. source \in places
      BY <1>1
    <3> HIDE DEF places
    <3> QED
      BY <1>3, <3>1
  <2>2. /\ Halves(sent, count) \in Seq(Byte) /\ Len(Halves(sent, count)) = 2 * count
        /\ \A source \in 0..count - 1 : Pixel16(Halves(sent, count), source) = sent[source]
    BY <1>1, <2>1, HalvesMake
  <2> QED
    BY <1>1, <1>4, <2>2
<1> HIDE DEF payload
<1>6. ASSUME NEW source \in places
      PROVE  /\ Pixel16(payload, source) = picture[Destination(source, width, order)]
             /\ Pixel16(payload, source) \in Bits12
  <2>1. To[source] = Destination(source, width, order)
    OBVIOUS
  <2>2. Pixel16(payload, source) = sent[source]
    BY <1>5
  <2>3. sent[source] = picture[To[source]] /\ sent[source] \in Bits12
    BY <1>3
  <2> HIDE DEF places, To
  <2>4. Pixel16(payload, source) = picture[To[source]] /\ Pixel16(payload, source) \in Bits12
    BY <2>2, <2>3
  <2> QED
    BY <2>1, <2>4
<1> QED
  BY <1>5, <1>6 DEF payload, count

(* The converter writes every pixel once: what it makes of a payload, whatever is in
   it, is the pixels that the sender's order gives. *)
LEMMA EachPixelOnce ==
    ASSUME NEW width \in Nat \ {0}, NEW height \in Nat \ {0},
           NEW order, Readable(width, order), NEW payload
    PROVE  Pixels16(payload, width, height, order) =
             [pixel \in Places(width, height) |->
                Pixel12(payload, PayloadIndex(pixel, width, order))]
<1> DEFINE places == Places(width, height)
           To == [source \in places |-> Destination(source, width, order)]
           From == [pixel \in places |-> PayloadIndex(pixel, width, order)]
<1>1. places \subseteq Nat
  BY DEF Places
<1>2. /\ To \in [places -> places] /\ From \in [places -> places]
      /\ \A place \in places : To[From[place]] = place /\ From[To[place]] = place
  <2>1. \A place \in places :
            /\ Destination(place, width, order) \in places
            /\ PayloadIndex(place, width, order) \in places
            /\ PayloadIndex(Destination(place, width, order), width, order) = place
            /\ Destination(PayloadIndex(place, width, order), width, order) = place
    BY PlacesAgree
  <2> HIDE DEF places
  <2> QED
    BY <2>1
<1>3. ASSUME NEW pixel \in places
      PROVE  LET writers == {s \in places : Destination(s, width, order) = pixel}
             IN  (IF writers = {} THEN 0
                  ELSE Pixel12(payload, CHOOSE s \in writers : \A t \in writers : t <= s))
                    = Pixel12(payload, PayloadIndex(pixel, width, order))
  <2> DEFINE written == {s \in places : To[s] = pixel}
             writers == {s \in places : Destination(s, width, order) = pixel}
  <2>1. written = writers /\ From[pixel] = PayloadIndex(pixel, width, order)
    OBVIOUS
  <2>2. From[pixel] \in written /\ \A s \in written : s = From[pixel]
    <3> HIDE DEF places, To, From
    <3> QED
      BY <1>2
  <2>3. From[pixel] <= From[pixel]
    <3> HIDE DEF places, From
    <3>1. From[pixel] \in Nat
      BY <1>1, <1>2
    <3> QED
      BY <3>1
  <2> HIDE DEF places, To, From, written, writers
  <2>4. (CHOOSE s \in written : \A t \in written : t <= s) = From[pixel]
    BY <2>2, <2>3
  <2>5. (IF writers = {} THEN 0
         ELSE Pixel12(payload, CHOOSE s \in writers : \A t \in writers : t <= s))
            = Pixel12(payload, PayloadIndex(pixel, width, order))
    BY <2>1, <2>2, <2>4
  <2> QED
    BY <2>5 DEF writers
<1>4. Pixels16(payload, width, height, order) =
        [pixel \in places |->
           LET writers == {s \in places : Destination(s, width, order) = pixel}
           IN  IF writers = {} THEN 0
               ELSE Pixel12(payload, CHOOSE s \in writers : \A t \in writers : t <= s)]
  BY DEF Pixels16, Places
<1> QED
  BY <1>3, <1>4

(* A pixel has twelve bits, whatever there is in the payload. *)
LEMMA MaskIsPixel ==
    ASSUME NEW width \in Nat, NEW height \in Nat,
           NEW payload \in Seq(Byte), Len(payload) = 2 * (width * height),
           NEW source \in Places(width, height)
    PROVE  Pixel12(payload, source) \in Bits12
<1> DEFINE count == width * height
           at == 2 * source + 1
           low == payload[at]
           high == payload[at + 1]
<1>1. count \in Nat /\ Len(payload) = 2 * count /\ source \in 0..count - 1
  BY DEF Places
<1> HIDE DEF count
<1>2. at \in 1..Len(payload) /\ at + 1 \in 1..Len(payload) /\ at + 1 = 2 * source + 2
  BY <1>1
<1>3. Pixel16(payload, source) = low + 256 * high
  BY <1>2 DEF Pixel16
<1> HIDE DEF at
<1>4. low \in Byte /\ high \in Byte
  BY <1>2, ElementOfSeq
<1> HIDE DEF low, high
<1>5. low + 256 * high \in Nat
  BY <1>4 DEF Byte
<1>6. \A v \in Nat : v % 4096 \in Bits12
  BY DEF Bits12
<1> QED
  BY <1>3, <1>5, <1>6 DEF Pixel12

(* What the converter makes of a payload that it accepts is a picture. *)
LEMMA AcceptedIsPicture ==
    ASSUME NEW width \in Nat, NEW height \in Nat, NEW order \in ReadoutOrders,
           NEW payload \in Seq(Byte),
           ConvertError(payload, width, height, order) = "none"
    PROVE  IsPicture(Pixels16(payload, width, height, order), width, height)
<1>1. /\ PayloadSizeFits(width, height) /\ Len(payload) = PayloadSize(width, height)
      /\ Readable(width, order)
  BY DEF ConvertError, Readable
<1>2. /\ width \in Nat \ {0} /\ height \in Nat \ {0}
      /\ Len(payload) = 2 * (width * height)
  BY <1>1, PayloadSizeNeverWraps DEF PayloadSizeFits
<1>3. ASSUME NEW pixel \in Places(width, height)
      PROVE  Pixel12(payload, PayloadIndex(pixel, width, order)) \in Bits12
  <2>1. PayloadIndex(pixel, width, order) \in Places(width, height)
    BY <1>1, <1>2, PlacesAgree
  <2> QED
    BY <1>2, <2>1, MaskIsPixel
<1>4. Pixels16(payload, width, height, order) =
        [pixel \in Places(width, height) |->
            Pixel12(payload, PayloadIndex(pixel, width, order))]
  BY <1>1, <1>2, EachPixelOnce
<1>5. Pixels16(payload, width, height, order) \in [Places(width, height) -> Bits12]
  BY <1>3, <1>4
<1> QED
  BY <1>5 DEF IsPicture

(* What the converter makes of the payload of a picture is that picture, whatever its
   size and its readout order: no pixel is lost, moved or changed, and no check of
   the converter (ImageConverter.cpp) refuses it. *)
THEOREM PictureRoundTrip ==
    ASSUME NEW width \in Nat, NEW height \in Nat, PayloadSizeFits(width, height),
           NEW order, Readable(width, order),
           NEW picture, IsPicture(picture, width, height)
    PROVE  LET payload == PayloadOf(picture, width, height, order)
           IN  /\ payload \in Seq(Byte)
               /\ Len(payload) = PayloadSize(width, height)
               /\ ConvertError(payload, width, height, order) = "none"
               /\ Pixels16(payload, width, height, order) = picture
<1> DEFINE count == width * height
           payload == PayloadOf(picture, width, height, order)
<1>1. /\ width \in Nat \ {0} /\ height \in Nat \ {0} /\ count \in Nat
      /\ PayloadSize(width, height) = 2 * count
  BY PayloadSizeNeverWraps DEF PayloadSizeFits
<1>2. /\ payload \in Seq(Byte) /\ Len(payload) = 2 * count
      /\ \A source \in Places(width, height) :
            /\ Pixel16(payload, source) = picture[Destination(source, width, order)]
            /\ Pixel16(payload, source) \in Bits12
  BY <1>1, PayloadCarries
<1> HIDE DEF payload
<1>3. ConvertError(payload, width, height, order) = "none"
  <2>1. Raw12(payload, count)
    <3> SUFFICES ASSUME NEW source \in 0..count - 1 PROVE Pixel16(payload, source) \in Bits12
      BY DEF Raw12
    <3>1. source \in Places(width, height)
      BY DEF Places
    <3> QED
      BY <1>2, <3>1
  <2>2. HighBitsAreZero(payload, count)
    BY <1>1, <2>1, HighBits
  <2> QED
    BY <1>1, <1>2, <2>2 DEF ConvertError, Readable, count
<1>4. Pixels16(payload, width, height, order) =
        [pixel \in Places(width, height) |->
            Pixel12(payload, PayloadIndex(pixel, width, order))]
  BY <1>1, EachPixelOnce
<1>5. ASSUME NEW pixel \in Places(width, height)
      PROVE  Pixel12(payload, PayloadIndex(pixel, width, order)) = picture[pixel]
  <2> DEFINE source == PayloadIndex(pixel, width, order)
  <2>1. source \in Places(width, height) /\ Destination(source, width, order) = pixel
    BY <1>1, PlacesAgree
  <2> HIDE DEF source
  <2>2. Pixel16(payload, source) = picture[pixel] /\ Pixel16(payload, source) \in Bits12
    BY <1>2, <2>1
  <2>3. \A v \in Bits12 : v % 4096 = v
    BY DEF Bits12
  <2> QED
    BY <2>2, <2>3 DEF Pixel12, source
<1>6. picture = [pixel \in Places(width, height) |-> picture[pixel]]
  BY DEF IsPicture
<1>7. Pixels16(payload, width, height, order) = picture
  BY <1>4, <1>5, <1>6
<1> QED
  BY <1>1, <1>2, <1>3, <1>7 DEF payload
=============================================================================
