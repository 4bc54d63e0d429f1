-------------------------- MODULE FoxdbgImageProofs -------------------------
(***************************************************************************)
(* Proofs about FoxdbgImage: for any number of image channels, any sizes   *)
(* of compressed images and any size of the encode buffer.                 *)
(***************************************************************************)
EXTENDS FoxdbgImage, TLAPS

\* The server has pixels of cur in its hands and reads the dimensions next.
HoldsPixels ==
  pc = "info" =>
    /\ cur \in Images
    /\ raw_data_buffer.channel = cur
    /\ raw_data_buffer.info \in 0..info[cur]
    /\ described => info[cur] > 0

\* It has both copies.
HoldsBoth ==
  pc \notin {"idle", "info"} =>
    /\ cur \in Images
    /\ raw_data_buffer.channel = cur
    /\ described => info_data_buffer.channel = cur
    /\ info_data_buffer.channel = cur =>
         /\ raw_data_buffer.info <= info_data_buffer.info
         /\ info_data_buffer.info <= info[cur]

\* A copy of dimensions is of dimensions that were written.
CopyWasWritten ==
  info_data_buffer.channel \in Images =>
    info_data_buffer.info \in 1..info[info_data_buffer.channel]

\* Pixels are laid out by dimensions that have been written.
PixelsHaveInfo == \A c \in Images : pixels[c] <= info[c]

\* The text is at most as long as the estimate allows for.
TextBounded ==
  /\ pc = "encode" => bytes_written = 0 /\ i = 0
  /\ pc = "encode.bytes" =>
       Estimate <= EncodeSize /\ bytes_written <= FixedText + 33 + 4 * i
  /\ pc = "send" =>
       bytes_written = 0 \/ bytes_written + 1 <= EncodeSize

IInv ==
  TypeOK /\ HoldsPixels /\ HoldsBoth /\ CopyWasWritten /\ PixelsHaveInfo /\ TextBounded

USE DEF Copy

-----------------------------------------------------------------------------
LEMMA InitIInv == Init => IInv
<1> SUFFICES ASSUME Init PROVE IInv
  OBVIOUS
<1> USE DEF Init
<1>1. TypeOK
  <2>1. i \in 0..compressedSize /\ 0 \in 0..MaxInfos
    BY ImageAssumption
  <2>2. [c \in Images |-> NoPixels] \in [Images -> 0..MaxInfos \union {NoPixels}]
    OBVIOUS
  <2>. QED
    BY <2>1, <2>2 DEF TypeOK, Nothing
<1>2. HoldsPixels /\ HoldsBoth /\ TextBounded
  BY DEF HoldsPixels, HoldsBoth, TextBounded
<1>3. CopyWasWritten /\ PixelsHaveInfo
  BY ImageAssumption DEF CopyWasWritten, PixelsHaveInfo, Nothing, NoPixels
<1>. QED
  BY <1>1, <1>2, <1>3 DEF IInv

\* The conjuncts that a step of the server preserves which copies no dimensions.
LEMMA AppQuiet ==
  ASSUME PixelsHaveInfo, UNCHANGED app
  PROVE  PixelsHaveInfo'
BY DEF PixelsHaveInfo, app

LEMMA CopyQuiet ==
  ASSUME CopyWasWritten, UNCHANGED <<app, info_data_buffer>>
  PROVE  CopyWasWritten'
BY DEF CopyWasWritten, app

LEMMA WriteInfoIInv ==
  ASSUME IInv, NEW c \in Images, WriteInfo(c)
  PROVE  IInv'
<1> USE DEF WriteInfo, IInv, copies, encoder
<1>1. info' = [info EXCEPT ![c] = @ + 1] /\ info[c] \in Nat /\ info[c] + 1 \in 0..MaxInfos
  BY ImageAssumption DEF TypeOK
<1>2. TypeOK'
  BY <1>1 DEF TypeOK
<1>3. \A d \in Images : info[d] \in Nat /\ info'[d] \in Nat /\ info[d] <= info'[d]
  BY <1>1, ImageAssumption DEF TypeOK
<1>4. HoldsPixels'
  BY <1>3, ImageAssumption DEF HoldsPixels, TypeOK
<1>5. HoldsBoth'
  BY <1>3, ImageAssumption DEF HoldsBoth, TypeOK
<1>6. PixelsHaveInfo'
  <2>1. \A d \in Images : pixels[d] \in Int
    BY DEF TypeOK, NoPixels
  <2>. QED
    BY <1>3, <2>1 DEF PixelsHaveInfo
<1>7. TextBounded'
  BY DEF TextBounded, Estimate
<1>8. CopyWasWritten'
  BY <1>3, ImageAssumption DEF CopyWasWritten, TypeOK
<1>. QED
  BY <1>2, <1>4, <1>5, <1>6, <1>7, <1>8

LEMMA WritePixelsIInv ==
  ASSUME IInv, NEW c \in Images, WritePixels(c)
  PROVE  IInv'
<1> USE DEF WritePixels, IInv, copies, encoder
<1>1. TypeOK'
  <2>1. info[c] \in 0..MaxInfos
    BY DEF TypeOK
  <2>2. pixels' \in [Images -> 0..MaxInfos \union {NoPixels}]
    BY <2>1 DEF TypeOK
  <2>. QED
    BY <2>2 DEF TypeOK
<1>2. HoldsPixels' /\ HoldsBoth' /\ CopyWasWritten'
  BY DEF HoldsPixels, HoldsBoth, CopyWasWritten
<1>3. PixelsHaveInfo'
  BY ImageAssumption DEF PixelsHaveInfo, TypeOK, NoPixels
<1>4. TextBounded'
  BY DEF TextBounded, Estimate
<1>. QED
  BY <1>1, <1>2, <1>3, <1>4

LEMMA ReadDataIInv ==
  ASSUME IInv, NEW c \in Images, ReadData(c)
  PROVE  IInv'
<1> USE DEF ReadData, IInv, encoder
<1>1. TypeOK'
  <2>1. pixels[c] \in 0..MaxInfos /\ (info[c] > 0) \in BOOLEAN
    BY DEF TypeOK
  <2>2. raw_data_buffer' \in Copy
    BY <2>1
  <2>. QED
    BY <2>1, <2>2 DEF TypeOK, app
<1>2. HoldsPixels'
  <2>1. pixels[c] \in 0..info[c] /\ UNCHANGED info
    BY ImageAssumption DEF PixelsHaveInfo, TypeOK, NoPixels, app
  <2>. QED
    BY <2>1 DEF HoldsPixels
<1>3. HoldsBoth' /\ TextBounded'
  BY DEF HoldsBoth, TextBounded
<1>. QED
  BY <1>1, <1>2, <1>3, AppQuiet, CopyQuiet

LEMMA ReadInfoIInv ==
  ASSUME IInv, ReadInfo
  PROVE  IInv'
<1> USE DEF ReadInfo, IInv, encoder
<1>1. cur \in Images /\ info[cur] \in 0..MaxInfos
  BY DEF HoldsPixels, TypeOK
<1>2. TypeOK'
  BY <1>1 DEF TypeOK, app
<1>3. HoldsBoth'
  BY <1>1, ImageAssumption DEF HoldsBoth, HoldsPixels, CopyWasWritten, TypeOK, app
<1>4. CopyWasWritten'
  BY <1>1, ImageAssumption DEF CopyWasWritten, app
<1>5. HoldsPixels' /\ TextBounded'
  BY DEF HoldsPixels, TextBounded
<1>. QED
  BY <1>2, <1>3, <1>4, <1>5, AppQuiet

LEMMA CompressIInv ==
  ASSUME IInv, Compress
  PROVE  IInv'
<1> USE DEF Compress, IInv, copies, encoder
<1>a. CASE pc' = "idle" /\ UNCHANGED encoder
  BY <1>a DEF TypeOK, HoldsBoth, HoldsPixels, CopyWasWritten, PixelsHaveInfo,
             TextBounded, app
<1>b. CASE pc' = "encode" /\ compressedSize' \in CompressedSizes /\ i' = 0 /\ bytes_written' = 0
  <2>1. i' \in 0..compressedSize'
    BY <1>b, ImageAssumption
  <2>2. TypeOK'
    BY <1>b, <2>1 DEF TypeOK, app
  <2>3. HoldsBoth' /\ HoldsPixels' /\ TextBounded'
    BY <1>b DEF HoldsBoth, HoldsPixels, TextBounded, app
  <2>. QED
    BY <2>2, <2>3, AppQuiet, CopyQuiet
<1>. QED
  BY <1>a, <1>b

LEMMA EncodeHeadIInv ==
  ASSUME IInv, EncodeHead
  PROVE  IInv'
<1> USE DEF EncodeHead, IInv, copies
<1>1. TypeOK'
  BY ImageAssumption DEF TypeOK, app, FixedText
<1>2. HoldsBoth' /\ HoldsPixels'
  BY DEF HoldsBoth, HoldsPixels, app
<1>3. TextBounded'
  <2>1. CASE Estimate > EncodeSize
    BY <2>1 DEF TextBounded
  <2>2. CASE ~(Estimate > EncodeSize)
    <3>1. Estimate \in Nat /\ Estimate' = Estimate /\ i = 0 /\ i' = 0
      BY ImageAssumption DEF TypeOK, Estimate, TextBounded
    <3>2. PICK d \in FieldDigits : bytes_written' = FixedText + d
      BY <2>2
    <3>3. bytes_written' <= FixedText + 33 + 4 * i'
      BY <3>1, <3>2, ImageAssumption DEF FixedText
    <3>. QED
      BY <2>2, <3>1, <3>3, ImageAssumption DEF TextBounded
  <2>. QED
    BY <2>1, <2>2
<1>. QED
  BY <1>1, <1>2, <1>3, AppQuiet, CopyQuiet

LEMMA EncodeByteIInv ==
  ASSUME IInv, EncodeByte
  PROVE  IInv'
<1> USE DEF EncodeByte, IInv, copies
<1>1. compressedSize \in Nat /\ i \in Nat /\ bytes_written \in Nat
  BY ImageAssumption DEF TypeOK
<1>2. PICK digits \in 1..3 :
        bytes_written' = bytes_written + digits + IF i < compressedSize - 1 THEN 1 ELSE 0
  OBVIOUS
<1>3. bytes_written' \in Nat /\ bytes_written' <= bytes_written + 4
  BY <1>1, <1>2
<1>4. i' \in 0..compressedSize
  BY <1>1
<1>5. TypeOK'
  BY <1>3, <1>4 DEF TypeOK, app
<1>6. HoldsBoth' /\ HoldsPixels'
  BY DEF HoldsBoth, HoldsPixels, app
<1>7. TextBounded'
  BY <1>1, <1>3, ImageAssumption DEF TextBounded, Estimate, FixedText
<1>. QED
  BY <1>5, <1>6, <1>7, AppQuiet, CopyQuiet

LEMMA EncodeTailIInv ==
  ASSUME IInv, EncodeTail
  PROVE  IInv'
<1> USE DEF EncodeTail, IInv, copies
<1>1. compressedSize \in Nat /\ bytes_written \in Nat
  BY ImageAssumption DEF TypeOK
<1>2. TypeOK'
  BY <1>1 DEF TypeOK, app
<1>3. HoldsBoth' /\ HoldsPixels'
  BY DEF HoldsBoth, HoldsPixels, app
<1>4. TextBounded'
  BY <1>1, ImageAssumption DEF TextBounded, Estimate, FixedText
<1>. QED
  BY <1>2, <1>3, <1>4, AppQuiet, CopyQuiet

LEMMA SendIInv ==
  ASSUME IInv, Send
  PROVE  IInv'
<1> USE DEF Send, IInv, copies, encoder
<1>1. TypeOK'
  BY DEF TypeOK, app
<1>2. HoldsBoth' /\ HoldsPixels' /\ TextBounded'
  BY DEF HoldsBoth, HoldsPixels, TextBounded
<1>. QED
  BY <1>1, <1>2, AppQuiet, CopyQuiet

LEMMA StutterIInv ==
  ASSUME IInv, UNCHANGED vars
  PROVE  IInv'
BY DEF IInv, TypeOK, HoldsPixels, HoldsBoth, CopyWasWritten, PixelsHaveInfo, TextBounded,
       Estimate, vars, app, copies, encoder

LEMMA Invariance == Spec => []IInv
<1>1. IInv /\ [Next]_vars => IInv'
  <2> SUFFICES ASSUME IInv, [Next]_vars PROVE IInv'
    OBVIOUS
  <2>1. CASE Next
    BY <2>1, WriteInfoIInv, WritePixelsIInv, ReadDataIInv, ReadInfoIInv, CompressIInv,
       EncodeHeadIInv, EncodeByteIInv, EncodeTailIInv, SendIInv DEF Next
  <2>2. CASE UNCHANGED vars
    BY <2>2, StutterIInv
  <2>. QED
    BY <2>1, <2>2
<1>. QED
  BY InitIInv, <1>1, PTL DEF Spec

-----------------------------------------------------------------------------
\* Type correctness of the sending of images.
THEOREM ImageTypeCorrect == Spec => []TypeOK
<1>1. IInv => TypeOK
  BY DEF IInv
<1>. QED
  BY Invariance, <1>1, PTL

\* Whatever channels take turns in the static buffers and in whatever order the
\* application writes pixels and dimensions, an image is compressed from the
\* pixels of its own channel, and described by dimensions of its own if the
\* channel had any when send_image was called.
THEOREM ImagesAreOwn == Spec => []DimensionsAreOwn
<1>1. IInv => DimensionsAreOwn
  BY DEF IInv, HoldsBoth, DimensionsAreOwn
<1>. QED
  BY Invariance, <1>1, PTL

\* Because send_image reads the pixels before the dimensions, the channel's own
\* dimensions are never older than those its pixels were laid out by.
THEOREM ImagesNotOutgrown == Spec => []DimensionsNotOlder
<1>1. IInv => DimensionsNotOlder
  BY DEF IInv, HoldsBoth, DimensionsNotOlder
<1>. QED
  BY Invariance, <1>1, PTL

\* The estimate of encode_image_byte_array is large enough for every image, every
\* dimensions and every size of the buffer.
THEOREM EstimateSuffices == Spec => []EncodeStaysInBuffer
<1>1. IInv => EncodeStaysInBuffer
  BY ImageAssumption
     DEF IInv, TypeOK, TextBounded, EncodeStaysInBuffer, Estimate, FixedText
<1>. QED
  BY Invariance, <1>1, PTL
=============================================================================
