------------------------------ MODULE TestImages ------------------------------
(***************************************************************************)
(* The images that main.cpp (spectra_bridge_test) sends and tests itself    *)
(* with: which bank of images its options select, the payload made of an    *)
(* image, and the self-test that sends it through the bridge's own parser   *)
(* and converter.  What is drawn on an image is left open.                  *)
(***************************************************************************)
EXTENDS ImageFrame

kImageWidth == 800
kImageHeight == 600
Pixels == 0..kImageWidth * kImageHeight - 1

Scenes == {"normal", "hdr", "dark", "flat", "hdr-dark", "hdr-flat"}
SceneUsesHdrPayload(scene) == scene \in {"hdr", "hdr-dark", "hdr-flat"}

\* ParseOptions, of --scene and --hdr: the combinations it accepts, and what it
\* makes of one.
OptionsAccepted(scene, hdr) == hdr => SceneUsesHdrPayload(scene) \/ scene = "normal"
ParseOptions(scene, hdr) ==
    [scene    |-> IF hdr /\ scene = "normal" THEN "hdr" ELSE scene,
     hdr_mode |-> hdr \/ SceneUsesHdrPayload(scene)]

-----------------------------------------------------------------------------
\* TestImage.  A vector that is empty is NoPixels.
NoPixels == <<>>
Gray8Images == [Pixels -> 0..255]

SingleImages == [pixels8 : Gray8Images, hg_pixels8 : {NoPixels}, lg_pixels8 : {NoPixels}]
PairImages ==
    {image \in [pixels8 : Gray8Images, hg_pixels8 : Gray8Images, lg_pixels8 : Gray8Images] :
        image.pixels8 = image.hg_pixels8}

\* The banks of a scene, from files or generated: three qualities of a spectrum,
\* or eight samples of a calibration.
SceneBanks(scene) ==
    [1..(IF scene \in {"normal", "hdr"} THEN 3 ELSE 8) ->
        IF SceneUsesHdrPayload(scene) THEN PairImages ELSE SingleImages]

ClampGray8(value) == IF value < 0 THEN 0 ELSE IF value > 255 THEN 255 ELSE value
ScaleImage8(image8, numerator, denominator, offset) ==
    [pixel \in DOMAIN image8 |->
        ClampGray8((image8[pixel] * numerator) \div denominator + offset)]

\* The image of a file that --image names.
ImageOfFile(image8, hdr_mode) ==
    [pixels8    |-> image8,
     hg_pixels8 |-> IF hdr_mode THEN image8 ELSE NoPixels,
     lg_pixels8 |-> IF hdr_mode THEN ScaleImage8(image8, 1, 4, 4) ELSE NoPixels]

\* LoadConfiguredImageBank: the scene's bank, or the one image of a file.
ConfiguredBanks(options) ==
    SceneBanks(options.scene)
        \cup {<<ImageOfFile(image8, options.hdr_mode)>> : image8 \in Gray8Images}

-----------------------------------------------------------------------------
Raw12FromGray8(value) == (value * 4095) \div 255

ConvertGray8ToRaw16Low12Payload(image8, numerator, denominator) ==
    LET Scaled(pixel) == (Raw12FromGray8(image8[pixel]) * numerator) \div denominator
    IN  PayloadOf([pixel \in Pixels |-> IF Scaled(pixel) > 4095 THEN 4095 ELSE Scaled(pixel)],
                  kImageWidth, kImageHeight, "four_lane")

\* Without planes of its own an image is its HG, and its LG a quarter of that.
HgOf(image) == IF image.hg_pixels8 = NoPixels THEN image.pixels8 ELSE image.hg_pixels8
BuildHdrPayloadForImage(image) ==
    ConvertGray8ToRaw16Low12Payload(HgOf(image), 1, 1) \o
        IF image.lg_pixels8 = NoPixels
        THEN ConvertGray8ToRaw16Low12Payload(HgOf(image), 1, 4)
        ELSE ConvertGray8ToRaw16Low12Payload(image.lg_pixels8, 1, 1)

PayloadFor(image, hdr_mode) ==
    IF hdr_mode THEN BuildHdrPayloadForImage(image)
                ELSE ConvertGray8ToRaw16Low12Payload(image.pixels8, 1, 1)

\* The header that SendOneImageFrame and RunSelfTest write before a payload.
HeaderFor(payload) ==
    [wrong |-> {}, header_len |-> HeaderSize, payload_len |-> Len(payload),
     width |-> kImageWidth, height |-> kImageHeight, crc32 |-> payload]

\* VerifyConvertedPlane, of what the converter makes of a plane.
VerifyConvertedPlane(plane, expected8) ==
    /\ ConvertError(plane, kImageWidth, kImageHeight, "four_lane") = "none"
    /\ Pixels16(plane, kImageWidth, kImageHeight, "four_lane")
        = [pixel \in Pixels |-> Raw12FromGray8(expected8[pixel])]

\* RunSelfTest of one image.  Its fallback for an image without LG is another one
\* than that of BuildHdrPayloadForImage: a quarter of the gray values.
SelfTest(image, hdr_mode) ==
    LET payload == PayloadFor(image, hdr_mode)
        size == PayloadSize(kImageWidth, kImageHeight)
        expectedLg == IF image.lg_pixels8 = NoPixels
                      THEN ScaleImage8(HgOf(image), 1, 4, 0) ELSE image.lg_pixels8
    IN  /\ ParseImageFrameHeader(HeaderFor(payload)) = "none"
        /\ IF hdr_mode
           THEN /\ IsTwoPlanes(Len(payload), size)
                /\ VerifyConvertedPlane(SubSeq(payload, 1, size), HgOf(image))
                /\ VerifyConvertedPlane(SubSeq(payload, size + 1, 2 * size), expectedLg)
           ELSE VerifyConvertedPlane(payload, image.pixels8)
=============================================================================
