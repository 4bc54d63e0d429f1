---------------------------- MODULE FoxdbgBuffer ----------------------------
(***************************************************************************)
(* The double buffer of a foxdbg channel (lib/foxdbg_buffer.c), with the   *)
(* two functions that write it (foxdbg_write_channel and                   *)
(* foxdbg_write_channel_info of lib/foxdbg.c, on application threads) and  *)
(* the read that opens every send_* function of lib/foxdbg_protocol.cpp    *)
(* (on the server thread).  One step per mutex operation, per access to    *)
(* the shared fields and per word copied.                                  *)
(*                                                                         *)
(* The content of memory is abstract: a word holds the number of the write *)
(* call that stored it, and Indeterminate when no call did.                *)
(***************************************************************************)
EXTENDS Naturals

CONSTANTS
  Writers,      \* application threads that write the channel
  Readers,      \* threads that send its frames (the program has one)
  Nobody,       \* the owner of a free mutex
  Capacity,     \* buffer_size, in words
  RawSize,      \* size of the static buffer a sender copies into, in words
  Sizes,        \* sizes that write calls are made with
  FrameSizes,   \* populated sizes that the channel's sender accepts
  RejectsOversize, \* TRUE: foxdbg_write_channel, FALSE: foxdbg_write_channel_info
  EncodesCopy,  \* TRUE: the frame is made from the copy, FALSE: send_pointcloud
  MaxWrites     \* bound: number of write calls

Threads == Writers \union Readers

ASSUME ThreadAssumption ==
  /\ Writers \intersect Readers = {}
  /\ Nobody \notin Threads

\* foxdbg_channel.h: LARGE_BUFFER_SIZE is the size of raw_data_buffer, and
\* info_data_buffer is larger than any info structure.
ASSUME SizeAssumption ==
  /\ Capacity \in Nat \ {0}
  /\ RawSize \in Nat
  /\ Capacity <= RawSize
  /\ Sizes \subseteq Nat
  /\ FrameSizes \subseteq Nat
  /\ MaxWrites \in Nat

ASSUME PathAssumption ==
  /\ RejectsOversize \in BOOLEAN
  /\ EncodesCopy \in BOOLEAN

Mutexes == {"swap_mutex", "read_mutex", "write_mutex"}
Cells == {"buffer_a", "buffer_b"}
Indeterminate == 0
Versions == 1..MaxWrites

VARIABLES
  mutex,              \* mutex[m]: the thread that holds m
  mem,                \* mem[c][i]: word i of the memory block c
  front_buffer, front_buffer_size,
  back_buffer, back_buffer_size,
  pc,                 \* pc[t]: what thread t does next
  data,               \* data[t]: the block begin_write or begin_read handed out
  size,               \* size[t]: size to write, or populated size to read
  k,                  \* k[t]: number of words memcpy has copied
  raw,                \* raw[r]: raw_data_buffer (info_data_buffer) of reader r
  frame,              \* frame[r]: the latest frame that r sent
  \* History, read by no guard of the code's control flow:
  issued,             \* number of write calls made
  asked,              \* asked[v]: size that write call v was made with
  ver,                \* ver[w]: number of the current (latest) call of w
  tag,                \* tag[c]: number of the latest call that completed c
  seen,               \* seen[r]: tag of the block that the read of r found
  returned,           \* number of the latest write call that returned
  floor               \* floor[r]: value of returned when the read of r began

buf == <<front_buffer, front_buffer_size, back_buffer, back_buffer_size>>
history == <<issued, asked, ver, tag, seen, returned, floor>>
vars == <<mutex, mem, buf, pc, data, size, k, raw, frame, history>>

-----------------------------------------------------------------------------
Lock(t, m) == mutex[m] = Nobody /\ mutex' = [mutex EXCEPT ![m] = t]

Unlock(m) == mutex' = [mutex EXCEPT ![m] = Nobody]

Goto(t, from, to) == pc[t] = from /\ pc' = [pc EXCEPT ![t] = to]

LockStep(t, m, from, to) ==
  /\ Goto(t, from, to)
  /\ Lock(t, m)
  /\ UNCHANGED <<mem, buf, data, size, k, raw, frame, history>>

UnlockStep(t, m, from, to) ==
  /\ Goto(t, from, to)
  /\ Unlock(m)
  /\ UNCHANGED <<mem, buf, data, size, k, raw, frame, history>>

\* The size check of the write functions.
Fits(n) == n <= Capacity

\* The size check of the send_* functions.
Accepts(n) == n <= RawSize /\ n \in FrameSizes

\* Word i of block c; beyond its end lies memory that no write call stored.
Word(c, i) == IF i < Capacity THEN mem[c][i] ELSE Indeterminate

-----------------------------------------------------------------------------
\* foxdbg_buffer_alloc; no call is being made yet.
Init ==
  /\ mutex = [m \in Mutexes |-> Nobody]
  /\ mem = [c \in Cells |-> [i \in 0..(Capacity - 1) |-> Indeterminate]]
  /\ front_buffer = "buffer_a" /\ front_buffer_size = 0
  /\ back_buffer = "buffer_b" /\ back_buffer_size = 0
  /\ pc = [t \in Threads |-> "idle"]
  /\ data = [t \in Threads |-> "buffer_a"]
  /\ size = [t \in Threads |-> 0]
  /\ k = [t \in Threads |-> 0]
  /\ raw = [r \in Readers |-> [i \in 0..(RawSize - 1) |-> Indeterminate]]
  /\ frame = [r \in Readers |-> [size |-> 0, words |-> [i \in {} |-> 0]]]
  /\ issued = 0
  /\ asked = [v \in Versions |-> 0]
  /\ ver = [w \in Writers |-> 0]
  /\ tag = [c \in Cells |-> 0]
  /\ seen = [r \in Readers |-> 0]
  /\ returned = 0
  /\ floor = [r \in Readers |-> 0]

-----------------------------------------------------------------------------
(* An application thread writes.                                           *)

\* foxdbg_write_channel or foxdbg_write_channel_info is called with s words.
CallWrite(w) ==
  /\ Goto(w, "idle", "begin_write.swap")
  /\ issued < MaxWrites
  /\ issued' = issued + 1
  /\ \E s \in Sizes : /\ size' = [size EXCEPT ![w] = s]
                      /\ asked' = [asked EXCEPT ![issued + 1] = s]
  /\ ver' = [ver EXCEPT ![w] = issued + 1]
  /\ UNCHANGED <<mutex, mem, buf, data, k, raw, frame, tag, seen, returned, floor>>

\* foxdbg_buffer_begin_write
BeginWriteLockSwap(w) ==
  LockStep(w, "swap_mutex", "begin_write.swap", "begin_write.write")

BeginWriteLockWrite(w) ==
  LockStep(w, "write_mutex", "begin_write.write", "begin_write.data")

\* Mutant: begin_write hands out the front buffer.
BugBeginWriteData(w) ==
  /\ Goto(w, "begin_write.data", "memcpy")
  /\ data' = [data EXCEPT ![w] = front_buffer]
  /\ k' = [k EXCEPT ![w] = 0]
  /\ UNCHANGED <<mutex, mem, buf, size, raw, frame, history>>

BeginWriteData(w) ==
  /\ Goto(w, "begin_write.data", "memcpy")
  /\ data' = [data EXCEPT ![w] = back_buffer]
  /\ k' = [k EXCEPT ![w] = 0]
  /\ UNCHANGED <<mutex, mem, buf, size, raw, frame, history>>

\* Mutant: one word too many.
BugCopyIn(w) ==
  /\ pc[w] = "memcpy"
  /\ Fits(size[w])
  /\ k[w] <= size[w]
  /\ k' = [k EXCEPT ![w] = @ + 1]
  /\ UNCHANGED <<mutex, mem, buf, pc, data, size, raw, frame, history>>

\* One word of the memcpy of the write functions.
CopyIn(w) ==
  /\ pc[w] = "memcpy"
  /\ Fits(size[w])
  /\ k[w] < size[w]
  /\ mem' = [mem EXCEPT ![data[w]][k[w]] = ver[w]]
  /\ k' = [k EXCEPT ![w] = @ + 1]
  /\ UNCHANGED <<mutex, buf, pc, data, size, raw, frame, history>>

\* Mutant: the data path too reports what it was called with.
BugPopulatedSize(n) == n

\* The populated_size that the write functions pass to foxdbg_buffer_end_write:
\* the data path reports 0 for content that does not fit, the info path the
\* size it was called with.
PopulatedSize(n) == IF Fits(n) \/ ~RejectsOversize THEN n ELSE 0

\* foxdbg_buffer_end_write
EndWriteSize(w) ==
  /\ Goto(w, "memcpy", "end_write.write")
  /\ Fits(size[w]) => k[w] = size[w]
  /\ back_buffer_size' = PopulatedSize(size[w])
  /\ tag' = [tag EXCEPT ![data[w]] = ver[w]]
  /\ UNCHANGED <<mutex, mem, front_buffer, front_buffer_size, back_buffer, data, size, k,
                 raw, frame, issued, asked, ver, seen, returned, floor>>

EndWriteUnlockWrite(w) ==
  UnlockStep(w, "write_mutex", "end_write.write", "end_write.swap")

\* Mutant: end_write does not swap.
BugEndWriteUnlockSwap(w) ==
  UnlockStep(w, "swap_mutex", "end_write.swap", "idle")

EndWriteUnlockSwap(w) ==
  UnlockStep(w, "swap_mutex", "end_write.swap", "swap_buffers.swap")

\* swap_buffers
SwapLockSwap(w) ==
  LockStep(w, "swap_mutex", "swap_buffers.swap", "swap_buffers.read")

SwapLockRead(w) ==
  LockStep(w, "read_mutex", "swap_buffers.read", "swap_buffers.write")

SwapLockWrite(w) ==
  LockStep(w, "write_mutex", "swap_buffers.write", "swap_buffers.pointers")

\* Mutant: the temporary is assigned back to the pointer it came from.
BugSwapPointers(w) ==
  /\ Goto(w, "swap_buffers.pointers", "swap_buffers.sizes")
  /\ UNCHANGED <<mutex, mem, buf, data, size, k, raw, frame, history>>

SwapPointers(w) ==
  /\ Goto(w, "swap_buffers.pointers", "swap_buffers.sizes")
  /\ front_buffer' = back_buffer
  /\ back_buffer' = front_buffer
  /\ UNCHANGED <<mutex, mem, front_buffer_size, back_buffer_size, data, size, k,
                 raw, frame, history>>

SwapSizes(w) ==
  /\ Goto(w, "swap_buffers.sizes", "swap_buffers.unwrite")
  /\ front_buffer_size' = back_buffer_size
  /\ back_buffer_size' = front_buffer_size
  /\ UNCHANGED <<mutex, mem, front_buffer, back_buffer, data, size, k,
                 raw, frame, history>>

SwapUnlockWrite(w) ==
  UnlockStep(w, "write_mutex", "swap_buffers.unwrite", "swap_buffers.unread")

SwapUnlockRead(w) ==
  UnlockStep(w, "read_mutex", "swap_buffers.unread", "swap_buffers.unswap")

\* The last unlock of swap_buffers, after which the write function returns.
SwapUnlockSwap(w) ==
  /\ Goto(w, "swap_buffers.unswap", "idle")
  /\ Unlock("swap_mutex")
  /\ returned' = IF ver[w] > returned THEN ver[w] ELSE returned
  /\ UNCHANGED <<mem, buf, data, size, k, raw, frame,
                 issued, asked, ver, tag, seen, floor>>

-----------------------------------------------------------------------------
(* The server thread sends the channel.                                    *)

\* A send_* function is called.
CallSend(r) ==
  /\ Goto(r, "idle", "begin_read.swap")
  /\ floor' = [floor EXCEPT ![r] = returned]
  /\ UNCHANGED <<mutex, mem, buf, data, size, k, raw, frame,
                 issued, asked, ver, tag, seen, returned>>

\* Mutant: begin_read takes read_mutex only.
BugBeginReadLockSwap(r) ==
  /\ Goto(r, "begin_read.swap", "begin_read.read")
  /\ UNCHANGED <<mutex, mem, buf, data, size, k, raw, frame, history>>

\* foxdbg_buffer_begin_read
BeginReadLockSwap(r) ==
  LockStep(r, "swap_mutex", "begin_read.swap", "begin_read.read")

BeginReadLockRead(r) ==
  LockStep(r, "read_mutex", "begin_read.read", "begin_read.data")

\* Mutant: begin_read hands out the block that is being written.
BugBeginReadDataBack(r) ==
  /\ Goto(r, "begin_read.data", "copy_out")
  /\ data' = [data EXCEPT ![r] = back_buffer]
  /\ size' = [size EXCEPT ![r] = back_buffer_size]
  /\ k' = [k EXCEPT ![r] = 0]
  /\ seen' = [seen EXCEPT ![r] = tag[back_buffer]]
  /\ UNCHANGED <<mutex, mem, buf, raw, frame, issued, asked, ver, tag, returned, floor>>

\* Mutant: the mutexes protect the pointer only, not the copy.
BugBeginReadDataUnlocked(r) ==
  /\ Goto(r, "begin_read.data", "copy_out")
  /\ data' = [data EXCEPT ![r] = front_buffer]
  /\ size' = [size EXCEPT ![r] = front_buffer_size]
  /\ k' = [k EXCEPT ![r] = 0]
  /\ seen' = [seen EXCEPT ![r] = tag[front_buffer]]
  /\ mutex' = [m \in Mutexes |-> Nobody]
  /\ UNCHANGED <<mem, buf, raw, frame, issued, asked, ver, tag, returned, floor>>

BeginReadData(r) ==
  /\ Goto(r, "begin_read.data", "copy_out")
  /\ data' = [data EXCEPT ![r] = front_buffer]
  /\ size' = [size EXCEPT ![r] = front_buffer_size]
  /\ k' = [k EXCEPT ![r] = 0]
  /\ seen' = [seen EXCEPT ![r] = tag[front_buffer]]
  /\ UNCHANGED <<mutex, mem, buf, raw, frame, issued, asked, ver, tag, returned, floor>>

\* One word of the memcpy into raw_data_buffer.
CopyOut(r) ==
  /\ pc[r] = "copy_out"
  /\ Accepts(size[r])
  /\ k[r] < size[r]
  /\ raw' = [raw EXCEPT ![r][k[r]] = Word(data[r], k[r])]
  /\ k' = [k EXCEPT ![r] = @ + 1]
  /\ UNCHANGED <<mutex, mem, buf, pc, data, size, frame, history>>

\* foxdbg_buffer_end_read, on both branches of the size check
EndReadUnlockRead(r) ==
  /\ Accepts(size[r]) => k[r] = size[r]
  /\ UnlockStep(r, "read_mutex", "copy_out", "end_read.swap")

\* Mutant: a refused size does not return.
BugEndReadNoReturn(r) ==
  UnlockStep(r, "swap_mutex", "end_read.swap", "encode")

\* Mutant: a refused size is read again with swap_mutex still held.
BugEndReadRetry(r) ==
  IF Accepts(size[r])
  THEN UnlockStep(r, "swap_mutex", "end_read.swap", "encode")
  ELSE /\ Goto(r, "end_read.swap", "begin_read.read")
       /\ UNCHANGED <<mutex, mem, buf, data, size, k, raw, frame, history>>

\* The branch that refuses the size returns after foxdbg_buffer_end_read.
EndReadUnlockSwap(r) ==
  UnlockStep(r, "swap_mutex", "end_read.swap",
             IF Accepts(size[r]) THEN "encode" ELSE "idle")

\* Mutant: the frame is made from the block after its release.
BugEncode(r) ==
  /\ Goto(r, "encode", "idle")
  /\ frame' = [frame EXCEPT ![r] =
       [size  |-> size[r], words |-> [i \in 0..(size[r] - 1) |-> Word(data[r], i)]]]
  /\ UNCHANGED <<mutex, mem, buf, data, size, k, raw, history>>

\* The rest of the send_* function: the frame is made from raw_data_buffer,
\* except by send_pointcloud, which goes back to the block it was handed.  A
\* frame whose text (or image) does not fit tx_buffer is not sent.
Encode(r) ==
  /\ Goto(r, "encode", "idle")
  /\ \/ frame' = [frame EXCEPT ![r] =
            [size  |-> size[r],
             words |-> [i \in 0..(size[r] - 1) |->
                          IF EncodesCopy THEN raw[r][i] ELSE Word(data[r], i)]]]
     \/ UNCHANGED frame
  /\ UNCHANGED <<mutex, mem, buf, data, size, k, raw, history>>

-----------------------------------------------------------------------------
WriteStep(w) ==
  \/ BeginWriteData(w) \/ CopyIn(w)
  \/ EndWriteSize(w) \/ EndWriteUnlockWrite(w) \/ EndWriteUnlockSwap(w)
  \/ SwapPointers(w) \/ SwapSizes(w)
  \/ SwapUnlockWrite(w) \/ SwapUnlockRead(w) \/ SwapUnlockSwap(w)

WriteLock(w) ==
  \/ BeginWriteLockSwap(w) \/ BeginWriteLockWrite(w)
  \/ SwapLockSwap(w) \/ SwapLockRead(w) \/ SwapLockWrite(w)

ReadStep(r) ==
  \/ CallSend(r) \/ BeginReadData(r) \/ CopyOut(r)
  \/ EndReadUnlockRead(r) \/ EndReadUnlockSwap(r) \/ Encode(r)

ReadLock(r) == BeginReadLockSwap(r) \/ BeginReadLockRead(r)

Next ==
  \/ \E w \in Writers : CallWrite(w) \/ WriteStep(w) \/ WriteLock(w)
  \/ \E r \in Readers : ReadStep(r) \/ ReadLock(r)

Spec == Init /\ [][Next]_vars

\* A thread that is not blocked runs; a thread that asks for a mutex which is
\* free again and again gets it.  The server sends for ever; nothing makes the
\* application write.
Fairness ==
  /\ \A w \in Writers : WF_vars(WriteStep(w)) /\ SF_vars(WriteLock(w))
  /\ \A r \in Readers : WF_vars(ReadStep(r)) /\ SF_vars(ReadLock(r))

FairSpec == Spec /\ Fairness

-----------------------------------------------------------------------------
(* Properties.                                                             *)

\* The places where a thread may stand, each named for the function it is in.
Labels ==
  {"idle", "begin_write.swap", "begin_write.write", "begin_write.data", "memcpy",
   "end_write.write", "end_write.swap", "swap_buffers.swap", "swap_buffers.read",
   "swap_buffers.write", "swap_buffers.pointers", "swap_buffers.sizes",
   "swap_buffers.unwrite", "swap_buffers.unread", "swap_buffers.unswap",
   "begin_read.swap", "begin_read.read", "begin_read.data", "copy_out",
   "end_read.swap", "encode"}

SharedType ==
  /\ mutex \in [Mutexes -> Threads \union {Nobody}]
  /\ mem \in [Cells -> [0..(Capacity - 1) -> Nat]]
  /\ front_buffer \in Cells /\ front_buffer_size \in Nat
  /\ back_buffer \in Cells /\ back_buffer_size \in Nat

ThreadType ==
  /\ pc \in [Threads -> Labels]
  /\ data \in [Threads -> Cells]
  /\ size \in [Threads -> Nat]
  /\ k \in [Threads -> Nat]
  /\ raw \in [Readers -> [0..(RawSize - 1) -> Nat]]

HistoryType ==
  /\ issued \in 0..MaxWrites
  /\ asked \in [Versions -> Nat]
  /\ ver \in [Writers -> 0..issued]
  /\ tag \in [Cells -> 0..issued]
  /\ seen \in [Readers -> 0..issued]
  /\ returned \in 0..issued
  /\ floor \in [Readers -> 0..issued]

\* The copy loops stay within the sizes they were given.
CopyBounds == \A t \in Threads : pc[t] \in {"memcpy", "copy_out"} => k[t] <= size[t]

\* Every variable keeps its type, no write call is numbered past the bound, and
\* the copies of the write and send functions stay within their sizes.
TypeOK == SharedType /\ ThreadType /\ HistoryType /\ CopyBounds

\* The n first words of a block are what one write call of n words stored.
Whole(words, n) ==
  n # 0 => \E v \in 1..issued : /\ asked[v] = n
                                /\ \A i \in 0..(n - 1) : words[i] = v

\* A frame that leaves the server is the content of one write call, complete
\* and of the size that call was made with: no mixture of two calls, no old
\* words under a new size (the swap exchanges pointers and sizes apart).
FrameWhole == \A r \in Readers : Whole(frame[r].words, frame[r].size)

\* swap_mutex is taken first and released last everywhere, so no thread ever
\* waits for read_mutex or write_mutex: the order of acquisition cannot
\* deadlock, and a reader and a writer of one buffer never overlap.
InnerLocksUncontended ==
  \A t \in Threads :
    /\ pc[t] \in {"begin_write.write", "swap_buffers.write"} => mutex["write_mutex"] = Nobody
    /\ pc[t] \in {"begin_read.read", "swap_buffers.read"} => mutex["read_mutex"] = Nobody

\* What swap_buffers moves to the front is what its caller has just written,
\* although the mutexes are free between end_write and the swap.
SwapPublishesOwnWrite ==
  \A w \in Writers : pc[w] = "swap_buffers.pointers" => tag[back_buffer] = ver[w]

\* When no write call is in progress the front buffer holds the latest one.
LatestWriteVisible ==
  (\A w \in Writers : pc[w] = "idle") => tag[front_buffer] = issued

\* A read that begins after a write call returned does not find older content.
ReadIsFresh ==
  \A r \in Readers : pc[r] \in {"copy_out", "end_read.swap", "encode"}
                       => floor[r] <= seen[r]

\* Successive reads of the server thread never go back to older content.
ReadsNeverGoBack == [][\A r \in Readers : seen[r] <= seen'[r]]_seen

\* The size begin_read reports is populated: those words were stored, by one
\* call, in the block it hands out.
ReadSizeIsPopulated ==
  \A r \in Readers : (pc[r] = "copy_out" /\ k[r] = 0)
    => Whole([i \in 0..(size[r] - 1) |-> Word(data[r], i)], size[r])

\* The block that a sender still makes its frame from is not the one that a
\* write call is filling.
ReadIsExclusive ==
  \A r \in Readers, w \in Writers :
    /\ pc[r] \in {"copy_out", "end_read.swap"} \union (IF EncodesCopy THEN {} ELSE {"encode"})
    /\ Accepts(size[r])
    /\ pc[w] = "memcpy"
    => data[r] # data[w]

\* The places that a call has from place l to its return.
PlacesLeft(l) ==
  CASE l = "idle" -> 0
    [] l \in {"swap_buffers.unswap", "encode"} -> 1
    [] l \in {"swap_buffers.unread", "end_read.swap"} -> 2
    [] l \in {"swap_buffers.unwrite", "copy_out"} -> 3
    [] l \in {"swap_buffers.sizes", "begin_read.data"} -> 4
    [] l \in {"swap_buffers.pointers", "begin_read.read"} -> 5
    [] l \in {"swap_buffers.write", "begin_read.swap"} -> 6
    [] l = "swap_buffers.read" -> 7
    [] l = "swap_buffers.swap" -> 8
    [] l = "end_write.swap"    -> 9
    [] l = "end_write.write"   -> 10
    [] l = "memcpy"            -> 11
    [] l = "begin_write.data"  -> 12
    [] l = "begin_write.write" -> 13
    [] l = "begin_write.swap"  -> 14

\* The words that the call of t still copies at most.
WordsLeft(t) ==
  CASE pc[t] \in {"begin_write.swap", "begin_write.write", "begin_write.data"} -> size[t]
    [] pc[t] = "memcpy" -> size[t] - k[t]
    [] pc[t] \in {"begin_read.swap", "begin_read.read", "begin_read.data"} -> RawSize
    [] pc[t] = "copy_out" -> IF Accepts(size[t]) THEN size[t] - k[t] ELSE 0
    [] OTHER -> 0

Remaining(t) == PlacesLeft(pc[t]) + WordsLeft(t)

\* A call of the application or of the server comes nearer to its return with each
\* step that its thread takes, and no other thread puts that off: nothing that a
\* buffer may hold sends a call round again.
CallsEnd ==
  [][\A t \in Threads :
       \/ pc[t] = "idle"
       \/ UNCHANGED <<pc[t], size[t], k[t]>>
       \/ Remaining(t)' \in Nat /\ Remaining(t)' < Remaining(t)]_vars

\* Every write call of the application returns, whatever the server reads.
WriteReturns == \A w \in Writers : pc[w] # "idle" ~> pc[w] = "idle"

\* What a returned write call stored, or something newer, reaches the server.
WriteIsSeen ==
  \A v \in Versions, r \in Readers : returned = v ~> seen[r] >= v

-----------------------------------------------------------------------------
(* The buffer implements the latest-value cell: a write takes effect when  *)
(* swap_buffers exchanges the pointers.                                    *)

LV == INSTANCE LatestValue WITH
  call   <- [w \in Writers |-> IF pc[w] = "idle" THEN 0 ELSE ver[w]],
  stored <- tag[front_buffer],
  done   <- {w \in Writers :
               pc[w] \in {"swap_buffers.sizes", "swap_buffers.unwrite",
                          "swap_buffers.unread", "swap_buffers.unswap"}}

\* Every behaviour of one writer's buffer is one of the abstract cell: writes
\* are atomic, reads are whole and current.
ImplementsLatestValue == LV!ASpec
=============================================================================
