---------------------------- MODULE FoxdbgTypes -----------------------------
(***************************************************************************)
(* The channel types of foxdbg and what the switches over them decide: the *)
(* structures of lib/foxdbg_channel.h, the buffers that lib/foxdbg.c       *)
(* allocates, and the populated sizes and schemas of the senders of        *)
(* lib/foxdbg_protocol.cpp.  Sizes are those of a 64-bit build.            *)
(***************************************************************************)
EXTENDS Naturals

\* foxdbg_channel_type_t
Types == {"IMAGE", "POINTCLOUD", "CUBES", "LINES", "POSE", "TRANSFORM",
          "LOCATION", "FLOAT", "INTEGER", "BOOLEAN"}

\* The types a receive channel may have.
RxTypes == {"FLOAT", "INTEGER", "BOOLEAN"}

\* sizeof the structure that content of type t is made of; a byte for an image.
ElementSize ==
  LET vector3 == 12
      color == 16
      pointer == 8
  IN [IMAGE      |-> 1,
      POINTCLOUD |-> 16,
      CUBES      |-> 3 * vector3 + color,
      LINES      |-> 2 * vector3 + color + 4,
      POSE       |-> 2 * vector3 + color,
      TRANSFORM  |-> 2 * pointer + 2 * vector3,
      LOCATION   |-> 2 * 4 + 3 * 8,
      FLOAT      |-> 4,
      INTEGER    |-> 4,
      BOOLEAN    |-> 1]

LARGE_BUFFER_SIZE == 10 * 1024 * 1024

\* Types whose content is a number of elements; the others have exactly one.
Large == {"IMAGE", "POINTCLOUD", "CUBES", "LINES"}

\* foxdbg_add_channel: the size of the data buffer, and of the info buffer (0: none).
PayloadSize(t) == IF t \in Large THEN LARGE_BUFFER_SIZE ELSE ElementSize[t]
InfoSize(t) == IF t = "IMAGE" THEN 12 ELSE 0

\* The populated sizes that the sender of type t goes on with.
SenderAccepts(t, n) ==
  /\ n <= LARGE_BUFFER_SIZE
  /\ IF t \in Large THEN n > 0 /\ n % ElementSize[t] = 0 ELSE n = ElementSize[t]
=============================================================================
