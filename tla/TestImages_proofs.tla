------------------------- MODULE TestImages_proofs -------------------------
(***************************************************************************)
(* That the self-test of spectra_bridge_test succeeds for every bank its    *)
(* options can select and whatever is drawn on the images: what it builds   *)
(* and the bridge's parser and converter agree.                            *)
(***************************************************************************)
EXTENDS TestImages, ImageFrame_proofs

\* What the test images need of a size_t: two planes can be counted.
PlanesCanBeCounted == 4 * (kImageWidth * kImageHeight) <= SizeMax

(* A gray value scaled to twelve bits stays within them (main.cpp, Raw12FromGray8). *)
LEMMA Raw12IsTwelveBits ==
    ASSUME NEW value \in 0..255
    PROVE  /\ Raw12FromGray8(value) \in 0..4095
           /\ (Raw12FromGray8(value) * 1) \div 1 = Raw12FromGray8(value)
  BY DEF Raw12FromGray8

(* Gray to twelve bits (main.cpp) and back (ImageConverter.cpp) loses at most one
   level of gray. *)
THEOREM GrayLosesAtMostOne ==
    ASSUME NEW value \in 0..255
    PROVE  Gray8(Raw12FromGray8(value)) \in {value - 1, value}
  BY DEF Raw12FromGray8, Gray8

(* The sizes of the test images. *)
TestSize == PayloadSize(kImageWidth, kImageHeight)
LEMMA TestSizes ==
    ASSUME PlanesCanBeCounted
    PROVE  /\ kImageWidth \in Nat \ {0} /\ kImageHeight \in Nat \ {0}
           /\ PayloadSizeFits(kImageWidth, kImageHeight)
           /\ TestSize \in Nat \ {0} /\ IsTwoPlanes(2 * TestSize, TestSize)
           /\ Readable(kImageWidth, "four_lane")
<1> DEFINE count == kImageWidth * kImageHeight
<1>1. kImageWidth \in Nat \ {0} /\ kImageHeight \in Nat \ {0} /\ count \in Nat \ {0}
  BY SMT DEF kImageWidth, kImageHeight
<1>2. Readable(kImageWidth, "four_lane")
  BY SMT DEF kImageWidth, Readable, LaneCount, ReadoutOrders
<1> HIDE DEF count
<1>3. SizeMax \in Nat /\ 4 * count <= SizeMax
  BY SizesAssumption DEF PlanesCanBeCounted, count
<1>4. PayloadSizeFits(kImageWidth, kImageHeight) /\ TestSize = 2 * count
  <2>1. 2 * count <= SizeMax
    BY <1>1, <1>3
  <2> QED
    BY <1>1, <2>1, PayloadSizeNeverWraps DEF TestSize, count
<1>5. TestSize \in Nat \ {0} /\ TestSize * 2 <= SizeMax
  BY <1>1, <1>3, <1>4
<1>6. TestSize <= SizeMax \div 2 /\ Times(TestSize, 2) = 2 * TestSize
  BY <1>3, <1>5, DivisionGuard, NoWrap
<1> QED
  BY <1>1, <1>2, <1>4, <1>5, <1>6 DEF IsTwoPlanes

(* The plane made of an image passes VerifyConvertedPlane against that image. *)
LEMMA PlaneIsRead ==
    ASSUME PlanesCanBeCounted, NEW image8 \in Gray8Images
    PROVE  LET plane == ConvertGray8ToRaw16Low12Payload(image8, 1, 1)
           IN  /\ plane \in Seq(Byte) /\ Len(plane) = TestSize
               /\ VerifyConvertedPlane(plane, image8)
<1> DEFINE picture == [pixel \in Pixels |-> Raw12FromGray8(image8[pixel])]
           plane == PayloadOf(picture, kImageWidth, kImageHeight, "four_lane")
           Scaled(pixel) == (Raw12FromGray8(image8[pixel]) * 1) \div 1
           scaled == [pixel \in Pixels |-> IF Scaled(pixel) > 4095 THEN 4095 ELSE Scaled(pixel)]
<1>1. \A pixel \in Pixels :
          /\ Raw12FromGray8(image8[pixel]) \in 0..4095
          /\ (Raw12FromGray8(image8[pixel]) * 1) \div 1 = Raw12FromGray8(image8[pixel])
  <2> SUFFICES ASSUME NEW pixel \in Pixels
               PROVE  /\ Raw12FromGray8(image8[pixel]) \in 0..4095
                      /\ (Raw12FromGray8(image8[pixel]) * 1) \div 1 = Raw12FromGray8(image8[pixel])
    OBVIOUS
  <2> DEFINE value == image8[pixel]
  <2>1. value \in 0..255
    BY DEF Gray8Images
  <2> HIDE DEF value
  <2>2. Raw12FromGray8(value) \in 0..4095 /\ (Raw12FromGray8(value) * 1) \div 1 = Raw12FromGray8(value)
    BY <2>1 DEF Raw12FromGray8
  <2> QED
    BY <2>2 DEF value
<1>2. scaled = picture
  <2>1. ASSUME NEW pixel \in Pixels
        PROVE  (IF Scaled(pixel) > 4095 THEN 4095 ELSE Scaled(pixel)) = Raw12FromGray8(image8[pixel])
    <3> DEFINE value == Raw12FromGray8(image8[pixel])
    <3>1. value \in 0..4095 /\ Scaled(pixel) = value
      BY <1>1
    <3> HIDE DEF value, Scaled
    <3>2. (IF Scaled(pixel) > 4095 THEN 4095 ELSE Scaled(pixel)) = value
      BY <3>1
    <3> QED
      BY <3>2 DEF value
  <2> HIDE DEF Scaled
  <2> QED
    BY <2>1
<1>3. ConvertGray8ToRaw16Low12Payload(image8, 1, 1) = plane
  <2>1. ConvertGray8ToRaw16Low12Payload(image8, 1, 1)
            = PayloadOf(scaled, kImageWidth, kImageHeight, "four_lane")
    BY DEF ConvertGray8ToRaw16Low12Payload
  <2> HIDE DEF scaled, picture
  <2> QED
    BY <1>2, <2>1
<1>4. IsPicture(picture, kImageWidth, kImageHeight)
  <2> DEFINE values == Bits12
  <2>1. \A pixel \in Pixels : Raw12FromGray8(image8[pixel]) \in values
    BY <1>1 DEF Bits12
  <2> HIDE DEF values
  <2>2. picture \in [Pixels -> values]
    BY <2>1
  <2> QED
    BY <2>2 DEF IsPicture, Places, Pixels, values
<1> HIDE DEF picture
<1>5. kImageWidth \in Nat /\ kImageHeight \in Nat
  BY TestSizes
<1>6. /\ plane \in Seq(Byte) /\ Len(plane) = PayloadSize(kImageWidth, kImageHeight)
      /\ ConvertError(plane, kImageWidth, kImageHeight, "four_lane") = "none"
      /\ Pixels16(plane, kImageWidth, kImageHeight, "four_lane") = picture
  BY <1>4, <1>5, TestSizes, PictureRoundTrip
<1> HIDE DEF plane
<1>7. VerifyConvertedPlane(plane, image8)
  BY <1>6 DEF VerifyConvertedPlane, picture
<1> QED
  BY <1>3, <1>6, <1>7 DEF TestSize

(* Two planes one behind the other are cut apart where they were joined. *)
LEMMA PlanesComeApart ==
    ASSUME NEW S, NEW hg \in Seq(S), NEW lg \in Seq(S),
           Len(hg) = Len(lg), Len(hg) # 0
    PROVE  /\ Len(hg \o lg) = 2 * Len(hg)
           /\ SubSeq(hg \o lg, 1, Len(hg)) = hg
           /\ SubSeq(hg \o lg, Len(hg) + 1, 2 * Len(hg)) = lg
<1>1. /\ Len(hg \o lg) = Len(hg) + Len(lg) /\ Len(hg) \in Nat
      /\ SubSeq(hg \o lg, 1, Len(hg)) = hg
      /\ SubSeq(hg \o lg, Len(hg) + 1, Len(hg \o lg)) = lg
  BY ComesApart, SMTT(30)
<1>2. Len(hg \o lg) = 2 * Len(hg)
  BY <1>1
<1> QED
  BY <1>1, <1>2

\* An image that has what its mode needs: both planes of its own for HDR.
Complete(image, hdr_mode) ==
    /\ image.pixels8 \in Gray8Images
    /\ hdr_mode => image.hg_pixels8 \in Gray8Images /\ image.lg_pixels8 \in Gray8Images

(* A plane is not an empty vector. *)
LEMMA PlanesAreNotEmpty ==
    ASSUME NEW image8 \in Gray8Images
    PROVE  image8 # NoPixels
<1>1. 0 \in Pixels
  <2> DEFINE count == kImageWidth * kImageHeight
  <2>1. count \in Nat \ {0}
    BY SMT DEF kImageWidth, kImageHeight
  <2> HIDE DEF count
  <2>2. 0 \in 0..count - 1
    BY <2>1
  <2> QED
    BY <2>2 DEF count, Pixels
<1> QED
  BY <1>1 DEF Gray8Images, NoPixels

(* A gray image scaled and clamped is a gray image (main.cpp, ScaleImage8). *)
LEMMA ScaledIsGray ==
    ASSUME NEW image8 \in Gray8Images
    PROVE  ScaleImage8(image8, 1, 4, 4) \in Gray8Images
<1>1. ASSUME NEW pixel \in Pixels
      PROVE  ClampGray8((image8[pixel] * 1) \div 4 + 4) \in 0..255
  <2>1. image8[pixel] \in 0..255
    BY DEF Gray8Images
  <2> QED
    BY <2>1 DEF ClampGray8
<1>2. DOMAIN image8 = Pixels
  BY DEF Gray8Images
<1> QED
  BY <1>1, <1>2 DEF ScaleImage8, Gray8Images

(* Every image of every bank that --scene, --hdr and --image select is complete:
   an HDR payload is only built of an image with HG and LG planes of its own
   (main.cpp, LoadConfiguredImageBank), so the two fallbacks for a missing LG,
   which differ, are never taken. *)
THEOREM BanksAreComplete ==
    ASSUME NEW scene \in Scenes, NEW hdr \in BOOLEAN, OptionsAccepted(scene, hdr),
           NEW bank \in ConfiguredBanks(ParseOptions(scene, hdr)),
           NEW i \in DOMAIN bank
    PROVE  Complete(bank[i], ParseOptions(scene, hdr).hdr_mode)
<1> DEFINE options == ParseOptions(scene, hdr)
<1>1. options.hdr_mode <=> SceneUsesHdrPayload(options.scene)
  BY DEF ParseOptions, OptionsAccepted, SceneUsesHdrPayload
<1>2. ASSUME NEW image \in SingleImages, ~options.hdr_mode
      PROVE  Complete(image, options.hdr_mode)
  <2> HIDE DEF options
  <2> QED
    BY <1>2 DEF SingleImages, Complete
<1>3. ASSUME NEW image \in PairImages
      PROVE  Complete(image, options.hdr_mode)
  <2> HIDE DEF options
  <2> QED
    BY DEF PairImages, Complete
<1>4. ASSUME bank \in SceneBanks(options.scene)
      PROVE  Complete(bank[i], options.hdr_mode)
  <2>1. CASE options.hdr_mode
    <3>1. SceneUsesHdrPayload(options.scene)
      BY <1>1, <2>1
    <3> HIDE DEF options
    <3>2. bank \in [1..(IF options.scene \in {"normal", "hdr"} THEN 3 ELSE 8) -> PairImages]
      BY <1>4, <3>1 DEF SceneBanks
    <3>3. bank[i] \in PairImages
      BY <3>2
    <3> QED
      BY <1>3, <3>3
  <2>2. CASE ~options.hdr_mode
    <3>1. ~SceneUsesHdrPayload(options.scene)
      BY <1>1, <2>2
    <3> HIDE DEF options
    <3>2. bank \in [1..(IF options.scene \in {"normal", "hdr"} THEN 3 ELSE 8) -> SingleImages]
      BY <1>4, <3>1 DEF SceneBanks
    <3>3. bank[i] \in SingleImages
      BY <3>2
    <3> QED
      BY <1>2, <2>2, <3>3
  <2> QED
    BY <2>1, <2>2
<1>5. ASSUME bank \in {<<ImageOfFile(image8, options.hdr_mode)>> : image8 \in Gray8Images}
      PROVE  Complete(bank[i], options.hdr_mode)
  <2> HIDE DEF options
  <2>1. PICK image8 \in Gray8Images : bank = <<ImageOfFile(image8, options.hdr_mode)>>
    BY <1>5
  <2>2. bank[i] = ImageOfFile(image8, options.hdr_mode)
    BY <2>1
  <2> DEFINE image == ImageOfFile(image8, options.hdr_mode)
  <2>3. /\ image.pixels8 = image8
        /\ options.hdr_mode => image.hg_pixels8 = image8
        /\ options.hdr_mode => image.lg_pixels8 = ScaleImage8(image8, 1, 4, 4)
    BY DEF ImageOfFile
  <2> HIDE DEF image
  <2>4. Complete(image, options.hdr_mode)
    BY <2>3, ScaledIsGray DEF Complete
  <2> QED
    BY <2>2, <2>4 DEF image
<1> QED
  BY <1>4, <1>5 DEF ConfiguredBanks

(* The self-test (main.cpp, RunSelfTest) succeeds on every image of every bank that
   the options select, whatever is drawn on it, in SDR and in HDR: the header it
   writes is accepted, and each plane it cuts out of the payload converts without an
   error to the pixels it was made of. *)
THEOREM SelfTestSucceeds ==
    ASSUME PlanesCanBeCounted,
           NEW scene \in Scenes, NEW hdr \in BOOLEAN, OptionsAccepted(scene, hdr),
           NEW bank \in ConfiguredBanks(ParseOptions(scene, hdr)),
           NEW i \in DOMAIN bank
    PROVE  SelfTest(bank[i], ParseOptions(scene, hdr).hdr_mode)
<1> DEFINE image == bank[i]
           hdr_mode == ParseOptions(scene, hdr).hdr_mode
           payload == PayloadFor(image, hdr_mode)
           size == PayloadSize(kImageWidth, kImageHeight)
<1>1. Complete(image, hdr_mode)
  BY BanksAreComplete
<1> HIDE DEF image, hdr_mode
<1>2. /\ size = TestSize /\ size \in Nat \ {0} /\ PayloadSizeFits(kImageWidth, kImageHeight)
      /\ kImageWidth # 0 /\ kImageHeight # 0 /\ IsTwoPlanes(2 * size, size)
  BY TestSizes DEF TestSize
<1>3. ASSUME Len(payload) \in {size, 2 * size}
      PROVE  ParseImageFrameHeader(HeaderFor(payload)) = "none"
  <2>1. /\ HeaderFor(payload).wrong = {} /\ HeaderFor(payload).header_len = HeaderSize
        /\ HeaderFor(payload).width = kImageWidth /\ HeaderFor(payload).height = kImageHeight
        /\ HeaderFor(payload).payload_len = Len(payload)
    BY DEF HeaderFor
  <2>2. IsSinglePlane(Len(payload), size) \/ IsTwoPlanes(Len(payload), size)
    BY <1>2, <1>3 DEF IsSinglePlane
  <2>3. HeaderSize \in HeaderSize..MaxHeaderSize
    BY SizesAssumption
  <2> HIDE DEF payload
  <2> QED
    BY <1>2, <2>1, <2>2, <2>3 DEF ParseImageFrameHeader
<1>0. hdr_mode \in BOOLEAN
  BY DEF hdr_mode, ParseOptions, SceneUsesHdrPayload
<1>4. ASSUME hdr_mode = TRUE PROVE SelfTest(image, hdr_mode)
  <2> DEFINE hg == ConvertGray8ToRaw16Low12Payload(image.hg_pixels8, 1, 1)
             lg == ConvertGray8ToRaw16Low12Payload(image.lg_pixels8, 1, 1)
  <2>1. /\ image.hg_pixels8 \in Gray8Images /\ image.lg_pixels8 \in Gray8Images
    BY <1>1, <1>4 DEF Complete
  <2>2. /\ hg \in Seq(Byte) /\ Len(hg) = size /\ VerifyConvertedPlane(hg, image.hg_pixels8)
        /\ lg \in Seq(Byte) /\ Len(lg) = size /\ VerifyConvertedPlane(lg, image.lg_pixels8)
    BY <1>2, <2>1, PlaneIsRead
  <2>3. HgOf(image) = image.hg_pixels8 /\ image.lg_pixels8 # NoPixels
    BY <2>1, PlanesAreNotEmpty DEF HgOf
  <2>4. payload = hg \o lg
    BY <1>4, <2>3 DEF PayloadFor, BuildHdrPayloadForImage
  <2> HIDE DEF hg, lg, payload, size
  <2>5. /\ Len(payload) = 2 * size
        /\ SubSeq(payload, 1, size) = hg /\ SubSeq(payload, size + 1, 2 * size) = lg
    <3>1. /\ Len(hg \o lg) = 2 * Len(hg) /\ SubSeq(hg \o lg, 1, Len(hg)) = hg
          /\ SubSeq(hg \o lg, Len(hg) + 1, 2 * Len(hg)) = lg
      <4> DEFINE bytes == Byte
      <4>1. hg \in Seq(bytes) /\ lg \in Seq(bytes) /\ Len(hg) = Len(lg) /\ Len(hg) # 0
        BY <1>2, <2>2
      <4> HIDE DEF bytes
      <4> QED
        BY <4>1, PlanesComeApart, ZenonT(60)
    <3> QED
      BY Zenon, <2>2, <2>4, <3>1
  <2>6. ParseImageFrameHeader(HeaderFor(payload)) = "none"
    BY <1>3, <2>5
  <2>7. IsTwoPlanes(Len(payload), size)
    BY <1>2, <2>5
  <2> QED
    BY <1>4, <2>2, <2>3, <2>5, <2>6, <2>7 DEF SelfTest, payload, size
<1>5. ASSUME hdr_mode = FALSE PROVE SelfTest(image, hdr_mode)
  <2>1. payload = ConvertGray8ToRaw16Low12Payload(image.pixels8, 1, 1)
    BY <1>5 DEF PayloadFor
  <2>2. Len(payload) = size /\ VerifyConvertedPlane(payload, image.pixels8)
    BY <1>1, <1>2, <2>1, PlaneIsRead DEF Complete
  <2> QED
    BY <1>3, <1>5, <2>2 DEF SelfTest
<1> QED
  BY <1>0, <1>4, <1>5 DEF image, hdr_mode
=============================================================================
