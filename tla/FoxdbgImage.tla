----------------------------- MODULE FoxdbgImage ----------------------------
(***************************************************************************)
(* An image of foxdbg is two writes of the application, the dimensions to  *)
(* the info buffer of the channel and the pixels to its data buffer, and   *)
(* two reads of send_image, which copies them into static buffers that all *)
(* image channels share, compresses the pixels with what the other copy    *)
(* says of them and writes the bytes out as text (encode_image_byte_array  *)
(* of lib/foxdbg_protocol.cpp).                                            *)
(*                                                                         *)
(* The buffers of a channel are latest-value cells, which FoxdbgBuffer     *)
(* implements.  Dimensions are numbered per channel in the order in which  *)
(* they are written; pixels are known by the dimensions they are laid out  *)
(* by: the latest ones written, or none when the application has written   *)
(* none, which the library does not look at.                               *)
(***************************************************************************)
EXTENDS Integers

CONSTANTS
  Images,           \* channels of type IMAGE
  NoChannel,        \* no channel
  CompressedSizes,  \* numbers of bytes that tjCompress2 may make of an image
  FieldDigits,      \* numbers of characters of width, height and channels together
  EncodeSize,       \* encode_buffer_size
  TxSize,           \* tx_buffer_size
  MaxInfos          \* bound: dimensions written per channel

\* Three ints take 3 to 33 characters.
ASSUME ImageAssumption ==
  /\ NoChannel \notin Images
  /\ CompressedSizes \subseteq Nat
  /\ FieldDigits \subseteq 3..33
  /\ EncodeSize \in Nat /\ TxSize \in Nat /\ MaxInfos \in Nat

VARIABLES
  info,         \* info[c]: dimensions that the info buffer of c holds, 0: none
  pixels,       \* pixels[c]: dimensions of what the data buffer of c holds, 0: none
                \* were written before it, NoPixels: the buffer holds nothing
  pc,           \* what the server thread does
  cur,          \* the channel send_image was called for
  raw_data_buffer,   \* static: channel and dimensions of the pixels copied last
  info_data_buffer,  \* static: channel and number of the dimensions copied last
  compressedSize,
  i,            \* loop index of encode_image_byte_array
  bytes_written,
  \* History, read by no guard:
  described,    \* dimensions of cur had been written when send_image was called
  frame         \* the latest frame: pixels and dimensions it was made of, and its length

app == <<info, pixels>>
copies == <<raw_data_buffer, info_data_buffer>>
encoder == <<compressedSize, i, bytes_written>>
vars == <<app, pc, cur, copies, encoder, described, frame>>

NoPixels == -1

Nothing == [channel |-> NoChannel, info |-> 0]

Init ==
  /\ info = [c \in Images |-> 0] /\ pixels = [c \in Images |-> NoPixels]
  /\ pc = "idle" /\ cur = NoChannel
  /\ raw_data_buffer = Nothing /\ info_data_buffer = Nothing
  /\ compressedSize = 0 /\ i = 0 /\ bytes_written = 0
  /\ described = FALSE
  /\ frame = [pixels |-> Nothing, info |-> Nothing, length |-> 0]

-----------------------------------------------------------------------------
(* The application.                                                        *)

\* foxdbg_write_channel_info(c, &image_info, sizeof(image_info))
WriteInfo(c) ==
  /\ info[c] < MaxInfos
  /\ info' = [info EXCEPT ![c] = @ + 1]
  /\ UNCHANGED <<pixels, pc, cur, copies, encoder, described, frame>>

\* foxdbg_write_channel(c, data, width * height * channels): what exceeds the buffer
\* is replaced by nothing.
WritePixels(c) ==
  /\ \E fits \in BOOLEAN :
       pixels' = [pixels EXCEPT ![c] = IF fits THEN info[c] ELSE NoPixels]
  /\ UNCHANGED <<info, pc, cur, copies, encoder, described, frame>>

-----------------------------------------------------------------------------
(* send_image(c), called by the loop of transmissions for a channel that   *)
(* is subscribed and due.                                                  *)

\* The first read: without pixels the function returns.
ReadData(c) ==
  /\ pc = "idle"
  /\ pixels[c] # NoPixels
  /\ cur' = c
  /\ described' = (info[c] > 0)
  /\ raw_data_buffer' = [channel |-> c, info |-> pixels[c]]
  /\ pc' = "info"
  /\ UNCHANGED <<app, info_data_buffer, encoder, frame>>

\* Mutant: dimensions that have been copied are kept.
BugReadInfoOnce ==
  /\ pc = "info"
  /\ info_data_buffer' = IF info_data_buffer # Nothing \/ info[cur] = 0 THEN info_data_buffer
                         ELSE [channel |-> cur, info |-> info[cur]]
  /\ pc' = "compress"
  /\ UNCHANGED <<app, cur, raw_data_buffer, encoder, described, frame>>

\* Mutant: the dimensions of the channel copied last are still there.
BugReadInfo ==
  /\ pc = "info"
  /\ info_data_buffer' = IF info_data_buffer.channel = cur \/ info[cur] = 0
                         THEN info_data_buffer
                         ELSE [channel |-> cur, info |-> info[cur]]
  /\ pc' = "compress"
  /\ UNCHANGED <<app, cur, raw_data_buffer, encoder, described, frame>>

\* The second read.  An info buffer that was never written has zero bytes to copy:
\* the dimensions copied last, of whatever channel, or the zeros of the start stay.
ReadInfo ==
  /\ pc = "info"
  /\ info_data_buffer' = IF info[cur] = 0 THEN info_data_buffer
                         ELSE [channel |-> cur, info |-> info[cur]]
  /\ pc' = "compress"
  /\ UNCHANGED <<app, cur, raw_data_buffer, encoder, described, frame>>

\* tjCompress2 fails and the function returns, or it makes some bytes.
Compress ==
  /\ pc = "compress"
  /\ \/ pc' = "idle" /\ UNCHANGED encoder
     \/ /\ pc' = "encode"
        /\ compressedSize' \in CompressedSizes
        /\ i' = 0 /\ bytes_written' = 0
  /\ UNCHANGED <<app, cur, copies, described, frame>>

-----------------------------------------------------------------------------
(* encode_image_byte_array.                                                *)

\* The text around the numbers: {"width":,"height":,"channels":,"encoding":"jpeg","data":[
FixedText == 58

\* estimated_total_size
Estimate == 100 + 4 * compressedSize + 10

\* Mutant: the estimate leaves out the text before the bytes.
BugEncodeHead ==
  /\ pc = "encode"
  /\ IF 4 * compressedSize + 10 > EncodeSize
     THEN pc' = "send" /\ UNCHANGED bytes_written
     ELSE /\ pc' = "encode.bytes"
          /\ \E d \in FieldDigits : bytes_written' = FixedText + d
  /\ UNCHANGED <<app, cur, copies, compressedSize, i, described, frame>>

\* An estimate that is too large makes the function return 0; otherwise it
\* writes the text before the bytes.
EncodeHead ==
  /\ pc = "encode"
  /\ IF Estimate > EncodeSize
     THEN pc' = "send" /\ UNCHANGED bytes_written
     ELSE /\ pc' = "encode.bytes"
          /\ \E d \in FieldDigits : bytes_written' = FixedText + d
  /\ UNCHANGED <<app, cur, copies, compressedSize, i, described, frame>>

\* Mutant: the loop goes on to compressedSize itself.
BugEncodeByte ==
  /\ pc = "encode.bytes"
  /\ i <= compressedSize
  /\ \E digits \in 1..3 :
       bytes_written' = bytes_written + digits + IF i < compressedSize - 1 THEN 1 ELSE 0
  /\ i' = i + 1
  /\ UNCHANGED <<app, pc, cur, copies, compressedSize, described, frame>>

\* One byte in one to three digits, and a comma unless it is the last.
EncodeByte ==
  /\ pc = "encode.bytes"
  /\ i < compressedSize
  /\ \E digits \in 1..3 :
       bytes_written' = bytes_written + digits + IF i < compressedSize - 1 THEN 1 ELSE 0
  /\ i' = i + 1
  /\ UNCHANGED <<app, pc, cur, copies, compressedSize, described, frame>>

\* The two brackets, and a NUL that is not counted.
EncodeTail ==
  /\ pc = "encode.bytes"
  /\ i = compressedSize
  /\ bytes_written' = bytes_written + 2
  /\ pc' = "send"
  /\ UNCHANGED <<app, cur, copies, compressedSize, i, described, frame>>

\* LWS_PRE bytes for lws and 13 of header come before the text.  Text of no
\* length, which the encoder returns when it fails, is sent as well.
Send ==
  /\ pc = "send"
  /\ frame' = IF TxSize >= bytes_written + 16 + 13
              THEN [pixels |-> raw_data_buffer, info |-> info_data_buffer,
                    length |-> bytes_written]
              ELSE frame
  /\ pc' = "idle"
  /\ UNCHANGED <<app, cur, copies, encoder, described>>

-----------------------------------------------------------------------------
Next ==
  \/ \E c \in Images : WriteInfo(c) \/ WritePixels(c) \/ ReadData(c)
  \/ ReadInfo \/ Compress
  \/ EncodeHead \/ EncodeByte \/ EncodeTail \/ Send

Spec == Init /\ [][Next]_vars

-----------------------------------------------------------------------------
(* Properties.                                                             *)

Copy == [channel : Images \union {NoChannel}, info : 0..MaxInfos]

\* Every variable keeps its type, and the loop stays within the bytes.
TypeOK ==
  /\ info \in [Images -> 0..MaxInfos]
  /\ pixels \in [Images -> 0..MaxInfos \union {NoPixels}]
  /\ pc \in {"idle", "info", "compress", "encode", "encode.bytes", "send"}
  /\ cur \in Images \union {NoChannel}
  /\ raw_data_buffer \in Copy
  /\ info_data_buffer \in Copy
  /\ compressedSize \in CompressedSizes \union {0}
  /\ i \in 0..compressedSize
  /\ bytes_written \in Nat
  /\ described \in BOOLEAN
  /\ frame \in [pixels : Copy, info : Copy, length : Nat]

\* What is compressed are the pixels of the channel that the frame is sent for, and
\* they are described by its own dimensions if it had any when its turn came,
\* although all channels share the copies.  A channel that had none is described
\* by whatever is left in the copy.
DimensionsAreOwn ==
  pc \notin {"idle", "info"} =>
    /\ raw_data_buffer.channel = cur
    /\ described => info_data_buffer.channel = cur

\* The channel's own dimensions are never older than those its pixels were laid out
\* by: they are exactly those, unless the application has already written the
\* next ones.
DimensionsNotOlder ==
  pc \notin {"idle", "info"} /\ info_data_buffer.channel = cur =>
    /\ raw_data_buffer.info <= info_data_buffer.info
    /\ info_data_buffer.info <= info[cur]

\* No byte of the text, nor the NUL after it, is written past encode_buffer.
EncodeStaysInBuffer ==
  pc \in {"encode.bytes", "send"} =>
    bytes_written = 0 \/ bytes_written + 1 <= EncodeSize
=============================================================================
