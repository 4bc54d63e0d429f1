----------------------- MODULE FoxdbgBufferOrderProofs ----------------------
(***************************************************************************)
(* What holds of the double buffer when one thread writes a channel: swaps *)
(* publish what was just written, and reads are fresh and in order, for    *)
(* any capacity, any sizes and any number of write calls and readers.      *)
(***************************************************************************)
EXTENDS FoxdbgBufferProofs

\* Where a write call stands: its content is not in the back block yet, is in it,
\* or has been moved to the front.
Filling == {"begin_write.swap", "begin_write.write", "begin_write.data", "memcpy"}

Filled ==
  {"end_write.write", "end_write.swap", "swap_buffers.swap", "swap_buffers.read",
   "swap_buffers.write", "swap_buffers.pointers"}

Published ==
  {"swap_buffers.sizes", "swap_buffers.unwrite", "swap_buffers.unread", "swap_buffers.unswap"}

Reading == {"copy_out", "end_read.swap", "encode"}

OneWriter == \A v, w \in Writers : v = w

WriterOrder ==
  \A w \in Writers :
    /\ pc[w] \in {"idle"} \union Filling \union Filled \union Published
    /\ ver[w] = issued
    /\ pc[w] = "memcpy" => data[w] = back_buffer
    /\ pc[w] \in {"idle"} \union Published => tag[front_buffer] = issued
    /\ pc[w] \in Filling \union Filled => tag[front_buffer] + 1 = issued
    /\ pc[w] \in Filled => tag[back_buffer] = issued

ReaderOrder ==
  \A r \in Readers :
    /\ pc[r] \notin Filling \union Filled \union Published
    /\ floor[r] <= returned
    /\ seen[r] <= tag[front_buffer]
    /\ pc[r] \in Reading => floor[r] <= seen[r]

OrderInv ==
  /\ front_buffer # back_buffer
  /\ returned <= tag[front_buffer]
  /\ WriterOrder
  /\ ReaderOrder

USE DEF Filling, Filled, Published, Reading

\* Of a buffer that was never written.
LEMMA InitOrderInv == Init => OrderInv
<1> SUFFICES ASSUME Init PROVE OrderInv
  OBVIOUS
<1>1. \A t \in Threads : pc[t] = "idle"
  BY DEF Init
<1>2. front_buffer \in Cells /\ front_buffer # back_buffer /\ tag[front_buffer] = 0
  BY DEF Init, Cells
<1>3. WriterOrder
  <2>1. \A w \in Writers : ver[w] = 0 /\ issued = 0 /\ pc[w] = "idle"
    BY <1>1 DEF Init, Threads
  <2> QED
    BY <2>1, <1>2 DEF WriterOrder
<1>4. ReaderOrder
  <2>1. \A r \in Readers : floor[r] = 0 /\ seen[r] = 0 /\ returned = 0 /\ pc[r] = "idle"
    BY <1>1 DEF Init, Threads
  <2> QED
    BY <2>1, <1>2 DEF ReaderOrder
<1> QED
  BY <1>2, <1>3, <1>4 DEF OrderInv, Init

\* The types that the steps below need.
LEMMA OrderTypes ==
  ASSUME TypeOK
  PROVE  /\ front_buffer \in Cells /\ back_buffer \in Cells
         /\ tag \in [Cells -> Nat] /\ issued \in Nat /\ returned \in Nat
         /\ ver \in [Writers -> Nat] /\ seen \in [Readers -> Nat] /\ floor \in [Readers -> Nat]
         /\ pc \in [Threads -> Labels] /\ data \in [Threads -> Cells]
         /\ Writers \subseteq Threads /\ Readers \subseteq Threads
         /\ \A w \in Writers, r \in Readers : w # r
<1>1. \A n \in 0..issued : n \in Nat
  BY DEF TypeOK, HistoryType
<1>2. tag \in [Cells -> Nat] /\ ver \in [Writers -> Nat] /\ seen \in [Readers -> Nat]
      /\ floor \in [Readers -> Nat] /\ issued \in Nat /\ returned \in Nat
  BY <1>1, SizeAssumption DEF TypeOK, HistoryType
<1> QED
  BY <1>2, ThreadAssumption DEF TypeOK, SharedType, ThreadType, Threads

\* A step of a writer that stays in one of the phases, and changes nothing that
\* the order of writes and reads is about.
LEMMA WriterMoves ==
  ASSUME TypeOK, OrderInv, NEW w \in Writers, NEW from, NEW to, Goto(w, from, to),
         \E phase \in {Filling \ {"memcpy"}, Filled, Published} : from \in phase /\ to \in phase,
         UNCHANGED <<buf, data, issued, ver, tag, seen, returned, floor>>
  PROVE  OrderInv'
<1>1. pc[w] = from /\ pc' = [pc EXCEPT ![w] = to] /\ pc'[w] = to
  BY OrderTypes DEF Goto
<1>2. \A t \in Threads \ {w} : pc'[t] = pc[t]
  BY <1>1, OrderTypes
<1>3. WriterOrder'
  BY <1>1, <1>2, OrderTypes DEF OrderInv, WriterOrder, buf
<1>4. ReaderOrder'
  BY <1>2, OrderTypes DEF OrderInv, ReaderOrder, buf
<1> QED
  BY <1>3, <1>4 DEF OrderInv, buf

\* The same of a reader.
LEMMA ReaderMoves ==
  ASSUME TypeOK, OrderInv, NEW r \in Readers, NEW from, NEW to, Goto(r, from, to),
         to \notin Filling \union Filled \union Published,
         to \in Reading => from \in Reading,
         UNCHANGED <<buf, data, issued, ver, tag, seen, returned, floor>>
  PROVE  OrderInv'
<1>1. pc[r] = from /\ pc' = [pc EXCEPT ![r] = to] /\ pc'[r] = to
  BY OrderTypes DEF Goto
<1>2. \A t \in Threads \ {r} : pc'[t] = pc[t]
  BY <1>1, OrderTypes
<1>3. WriterOrder'
  BY <1>2, OrderTypes DEF OrderInv, WriterOrder, buf
<1>4. ReaderOrder'
  BY <1>1, <1>2, OrderTypes DEF OrderInv, ReaderOrder, buf
<1> QED
  BY <1>3, <1>4 DEF OrderInv, buf

LEMMA WriterOrderInv ==
  ASSUME OneWriter, TypeOK, OrderInv, NEW w \in Writers,
         CallWrite(w) \/ WriteStep(w) \/ WriteLock(w)
  PROVE  OrderInv'
<1>0. \A v \in Writers : v = w
  BY DEF OneWriter
<1>1. CASE CallWrite(w)
  <2>1. /\ pc[w] = "idle" /\ pc'[w] = "begin_write.swap" /\ issued' = issued + 1
        /\ ver'[w] = issued + 1 /\ \A r \in Readers : pc'[r] = pc[r]
        /\ UNCHANGED <<buf, tag, seen, returned, floor>>
    BY <1>1, OrderTypes DEF CallWrite, Goto
  <2> QED
    BY <1>0, <2>1, OrderTypes DEF OrderInv, WriterOrder, ReaderOrder, buf
<1>2. CASE BeginWriteData(w)
  <2>1. /\ pc[w] = "begin_write.data" /\ pc'[w] = "memcpy" /\ data'[w] = back_buffer
        /\ \A r \in Readers : pc'[r] = pc[r]
        /\ UNCHANGED <<buf, issued, ver, tag, seen, returned, floor>>
    BY <1>2, OrderTypes DEF BeginWriteData, Goto, history
  <2> QED
    BY <1>0, <2>1, OrderTypes DEF OrderInv, WriterOrder, ReaderOrder, buf
<1>3. CASE CopyIn(w)
  BY <1>3 DEF CopyIn, OrderInv, WriterOrder, ReaderOrder, buf, history
<1>4. CASE EndWriteSize(w)
  <2>1. /\ pc[w] = "memcpy" /\ pc'[w] = "end_write.write"
        /\ tag' = [tag EXCEPT ![back_buffer] = issued]
        /\ \A r \in Readers : pc'[r] = pc[r]
        /\ UNCHANGED <<front_buffer, back_buffer, data, issued, ver, seen, returned, floor>>
    BY <1>4, OrderTypes DEF EndWriteSize, Goto, OrderInv, WriterOrder
  <2>2. tag'[back_buffer] = issued /\ tag'[front_buffer] = tag[front_buffer]
    BY <2>1, OrderTypes DEF OrderInv
  <2> QED
    BY <1>0, <2>1, <2>2, OrderTypes DEF OrderInv, WriterOrder, ReaderOrder
<1>5. CASE EndWriteUnlockWrite(w) \/ EndWriteUnlockSwap(w)
           \/ SwapUnlockWrite(w) \/ SwapUnlockRead(w)
  BY <1>5, WriterMoves
  DEF EndWriteUnlockWrite, EndWriteUnlockSwap, SwapUnlockWrite, SwapUnlockRead,
      UnlockStep, history
<1>6. CASE SwapPointers(w)
  <2>1. /\ pc[w] = "swap_buffers.pointers" /\ pc'[w] = "swap_buffers.sizes"
        /\ front_buffer' = back_buffer /\ back_buffer' = front_buffer
        /\ \A r \in Readers : pc'[r] = pc[r]
        /\ UNCHANGED <<issued, ver, tag, seen, returned, floor>>
    BY <1>6, OrderTypes DEF SwapPointers, Goto, history
  <2>2. tag'[front_buffer'] = issued /\ tag[front_buffer] + 1 = issued
    BY <2>1 DEF OrderInv, WriterOrder
  <2> QED
    BY <1>0, <2>1, <2>2, OrderTypes DEF OrderInv, WriterOrder, ReaderOrder
<1>7. CASE SwapSizes(w)
  <2>1. /\ pc[w] = "swap_buffers.sizes" /\ pc'[w] = "swap_buffers.unwrite"
        /\ \A r \in Readers : pc'[r] = pc[r]
        /\ UNCHANGED <<front_buffer, back_buffer, issued, ver, tag, seen, returned, floor>>
    BY <1>7, OrderTypes DEF SwapSizes, Goto, history
  <2> QED
    BY <1>0, <2>1, OrderTypes DEF OrderInv, WriterOrder, ReaderOrder
<1>8. CASE SwapUnlockSwap(w)
  <2>1. /\ pc[w] = "swap_buffers.unswap" /\ pc'[w] = "idle"
        /\ returned' = IF ver[w] > returned THEN ver[w] ELSE returned
        /\ \A r \in Readers : pc'[r] = pc[r]
        /\ UNCHANGED <<buf, issued, ver, tag, seen, floor>>
    BY <1>8, OrderTypes DEF SwapUnlockSwap, Goto
  <2>2. returned <= returned' /\ returned' <= tag[front_buffer] /\ returned' \in Nat
    BY <2>1, OrderTypes DEF OrderInv, WriterOrder
  <2> QED
    BY <1>0, <2>1, <2>2, OrderTypes DEF OrderInv, WriterOrder, ReaderOrder, buf
<1>9. CASE WriteLock(w)
  BY <1>9, WriterMoves
  DEF WriteLock, BeginWriteLockSwap, BeginWriteLockWrite, SwapLockSwap, SwapLockRead,
      SwapLockWrite, LockStep, history
<1> QED
  BY <1>1, <1>2, <1>3, <1>4, <1>5, <1>6, <1>7, <1>8, <1>9 DEF WriteStep

LEMMA ReaderOrderInv ==
  ASSUME TypeOK, OrderInv, NEW r \in Readers, ReadStep(r) \/ ReadLock(r)
  PROVE  OrderInv'
<1>1. CASE CallSend(r)
  <2>1. /\ pc[r] = "idle" /\ pc'[r] = "begin_read.swap" /\ floor'[r] = returned
        /\ \A t \in Threads \ {r} : pc'[t] = pc[t]
        /\ \A q \in Readers \ {r} : floor'[q] = floor[q]
        /\ UNCHANGED <<buf, data, issued, ver, tag, seen, returned>>
    BY <1>1, OrderTypes DEF CallSend, Goto
  <2> QED
    BY <2>1, OrderTypes DEF OrderInv, WriterOrder, ReaderOrder, buf
<1>2. CASE BeginReadData(r)
  <2>1. /\ pc[r] = "begin_read.data" /\ pc'[r] = "copy_out" /\ seen'[r] = tag[front_buffer]
        /\ \A t \in Threads \ {r} : pc'[t] = pc[t] /\ data'[t] = data[t]
        /\ \A q \in Readers \ {r} : seen'[q] = seen[q]
        /\ UNCHANGED <<buf, issued, ver, tag, returned, floor>>
    BY <1>2, OrderTypes DEF BeginReadData, Goto
  <2> QED
    BY <2>1, OrderTypes DEF OrderInv, WriterOrder, ReaderOrder, buf
<1>3. CASE CopyOut(r)
  BY <1>3 DEF CopyOut, OrderInv, WriterOrder, ReaderOrder, buf, history
<1>4. CASE EndReadUnlockRead(r)
  BY <1>4, ReaderMoves DEF EndReadUnlockRead, UnlockStep, history
<1>5. CASE EndReadUnlockSwap(r)
  <2>1. PICK to \in {"encode", "idle"} : Goto(r, "end_read.swap", to)
    BY <1>5 DEF EndReadUnlockSwap, UnlockStep
  <2> QED
    BY <1>5, <2>1, ReaderMoves DEF EndReadUnlockSwap, UnlockStep, history
<1>6. CASE Encode(r)
  BY <1>6, ReaderMoves DEF Encode, history
<1>7. CASE ReadLock(r)
  BY <1>7, ReaderMoves
  DEF ReadLock, BeginReadLockSwap, BeginReadLockRead, LockStep, history
<1> QED
  BY <1>1, <1>2, <1>3, <1>4, <1>5, <1>6, <1>7 DEF ReadStep

LEMMA NextOrderInv ==
  ASSUME OneWriter
  PROVE  TypeOK /\ OrderInv /\ [Next]_vars => OrderInv'
<1> SUFFICES ASSUME TypeOK, OrderInv, [Next]_vars PROVE OrderInv'
  OBVIOUS
<1>1. CASE Next
  BY <1>1, WriterOrderInv, ReaderOrderInv DEF Next
<1>2. CASE UNCHANGED vars
  BY <1>2 DEF vars, buf, history, OrderInv, WriterOrder, ReaderOrder
<1> QED
  BY <1>1, <1>2

LEMMA OrderInvariance ==
  ASSUME OneWriter
  PROVE  Spec => [](TypeOK /\ OrderInv)
BY InitTypeOK, NextTypeOK, InitOrderInv, NextOrderInv, PTL DEF Spec

-----------------------------------------------------------------------------
\* With one writer what swap_buffers moves to the front is what was just written.
THEOREM SwapsPublish ==
  ASSUME OneWriter
  PROVE  Spec => []SwapPublishesOwnWrite
<1>1. OrderInv => SwapPublishesOwnWrite
  BY DEF OrderInv, WriterOrder, SwapPublishesOwnWrite
<1> QED
  BY <1>1, OrderInvariance, PTL

\* With one writer the front buffer holds the latest write whenever no write call
\* is in progress.
THEOREM LatestIsVisible ==
  ASSUME OneWriter, Writers # {}
  PROVE  Spec => []LatestWriteVisible
<1>1. OrderInv => LatestWriteVisible
  BY DEF OrderInv, WriterOrder, LatestWriteVisible
<1> QED
  BY <1>1, OrderInvariance, PTL

\* With one writer a read finds what the latest returned write stored, or newer.
THEOREM ReadsAreFresh ==
  ASSUME OneWriter
  PROVE  Spec => []ReadIsFresh
<1>1. OrderInv => ReadIsFresh
  BY DEF OrderInv, ReaderOrder, ReadIsFresh
<1> QED
  BY <1>1, OrderInvariance, PTL

\* With one writer the reads of a thread never go back to older content.
THEOREM ReadsInOrder ==
  ASSUME OneWriter
  PROVE  Spec => ReadsNeverGoBack
<1>1. TypeOK /\ OrderInv /\ [Next]_vars => [\A r \in Readers : seen[r] <= seen'[r]]_seen
  <2> SUFFICES ASSUME TypeOK, OrderInv, [Next]_vars, seen' # seen, NEW q \in Readers
               PROVE  seen[q] <= seen'[q]
    OBVIOUS
  <2>1. PICK r \in Readers : BeginReadData(r)
    BY DEF Next, vars, history, CallWrite, WriteStep, WriteLock, BeginWriteData, CopyIn,
       EndWriteSize, EndWriteUnlockWrite, EndWriteUnlockSwap, SwapPointers, SwapSizes,
       SwapUnlockWrite, SwapUnlockRead, SwapUnlockSwap, BeginWriteLockSwap,
       BeginWriteLockWrite, SwapLockSwap, SwapLockRead, SwapLockWrite, LockStep, UnlockStep,
       ReadStep, ReadLock, CallSend, CopyOut, EndReadUnlockRead, EndReadUnlockSwap, Encode,
       BeginReadLockSwap, BeginReadLockRead
  <2>2. seen' = [seen EXCEPT ![r] = tag[front_buffer]]
    BY <2>1 DEF BeginReadData
  <2> QED
    BY <2>2, OrderTypes DEF OrderInv, ReaderOrder
<1> QED
  BY <1>1, OrderInvariance, PTL DEF Spec, ReadsNeverGoBack

-----------------------------------------------------------------------------
(* The data path of one writer implements LatestValue: what the front      *)
(* block holds is the content of the call that its tag names.              *)

DataPath == OneWriter /\ EncodesCopy /\ RejectsOversize

\* The populated size that call v leaves, when calls were made with the sizes made.
Populated(v, made) == IF v = 0 \/ made[v] > Capacity THEN 0 ELSE made[v]

\* Under the size n the block c holds the content of call v.
Stores(m, c, n, v, made) ==
  n = Populated(v, made) /\ \A i \in 0..(n - 1) : m[c][i] = v

FrontCell ==
  (\A w \in Writers : pc[w] # "swap_buffers.sizes")
    => Stores(mem, front_buffer, front_buffer_size, tag[front_buffer], asked)

BackCell ==
  \A w \in Writers :
    /\ pc[w] \in Filled => Stores(mem, back_buffer, back_buffer_size, issued, asked)
    /\ pc[w] = "swap_buffers.sizes"
         => Stores(mem, front_buffer, back_buffer_size, issued, asked)

Copied(r) ==
  /\ Accepts(size[r])
  /\ size[r] = Populated(seen[r], asked)
  /\ \A i \in 0..(size[r] - 1) : raw[r][i] = seen[r]

ReadCell ==
  \A r \in Readers :
    /\ pc[r] = "copy_out" => seen[r] = tag[front_buffer]
    /\ (pc[r] = "end_read.swap" /\ Accepts(size[r])) \/ pc[r] = "encode" => Copied(r)

CellInv == FrontCell /\ BackCell /\ ReadCell

\* The invariants that are known already.
KnownInv == TypeOK /\ LockInv /\ ContentInv /\ OrderInv

LEMMA InitCellInv == Init => CellInv
<1> SUFFICES ASSUME Init PROVE CellInv
  OBVIOUS
<1>1. \A t \in Threads : pc[t] = "idle"
  BY DEF Init
<1>2. Stores(mem, front_buffer, front_buffer_size, tag[front_buffer], asked)
  BY DEF Init, Stores, Populated, Cells
<1> QED
  BY <1>1, <1>2 DEF CellInv, FrontCell, BackCell, ReadCell, Threads

\* A step that takes a writer between places CellInv does not tell apart.
LEMMA WriterQuiet ==
  ASSUME KnownInv, CellInv, NEW w \in Writers, NEW from, NEW to, Goto(w, from, to),
         from # "swap_buffers.sizes", to # "swap_buffers.sizes",
         to \in Filled => from \in Filled,
         UNCHANGED <<mem, buf, size, raw, issued, asked, tag, seen>>
  PROVE  CellInv'
<1>1. pc[w] = from /\ pc'[w] = to /\ \A t \in Threads \ {w} : pc'[t] = pc[t]
  BY OrderTypes DEF KnownInv, Goto
<1>2. \A v \in Writers : /\ pc'[v] \in Filled => pc[v] \in Filled
                         /\ pc'[v] = "swap_buffers.sizes" <=> pc[v] = "swap_buffers.sizes"
  BY <1>1, OrderTypes DEF KnownInv
<1>3. FrontCell' /\ BackCell'
  BY <1>2 DEF CellInv, FrontCell, BackCell, buf
<1>4. ReadCell'
  BY <1>1, OrderTypes DEF KnownInv, CellInv, ReadCell, Copied, buf
<1> QED
  BY <1>3, <1>4 DEF CellInv

\* The same of a reader.
LEMMA ReaderQuiet ==
  ASSUME KnownInv, CellInv, NEW r \in Readers, NEW from, NEW to, Goto(r, from, to),
         to \notin {"copy_out", "end_read.swap", "encode"},
         UNCHANGED <<mem, buf, size, raw, issued, asked, tag, seen>>
  PROVE  CellInv'
<1>1. pc[r] = from /\ pc'[r] = to /\ \A t \in Threads \ {r} : pc'[t] = pc[t]
  BY OrderTypes DEF KnownInv, Goto
<1>2. FrontCell' /\ BackCell'
  BY <1>1, OrderTypes DEF KnownInv, CellInv, FrontCell, BackCell, buf
<1>3. ReadCell'
  BY <1>1, OrderTypes DEF KnownInv, CellInv, ReadCell, Copied, buf
<1> QED
  BY <1>2, <1>3 DEF CellInv

\* Calls made so far keep their sizes when another is made.
LEMMA PopulatedKept ==
  ASSUME TypeOK, NEW w \in Writers, CallWrite(w)
  PROVE  \A v \in 0..issued : Populated(v, asked') = Populated(v, asked)
<1>1. \A v \in 1..issued : asked'[v] = asked[v]
  BY SizeAssumption DEF CallWrite, TypeOK, HistoryType, Versions
<1> QED
  BY <1>1 DEF Populated

\* The data path reports what it stored.
LEMMA EndWriteStores ==
  ASSUME DataPath, KnownInv, NEW w \in Writers, EndWriteSize(w)
  PROVE  Stores(mem, back_buffer, back_buffer_size', issued, asked)
<1>1. /\ ver[w] = issued /\ issued # 0 /\ asked[issued] = size[w] /\ size[w] \in Nat
      /\ \A i \in 0..(k[w] - 1) : mem[back_buffer][i] = issued
  <2>1. pc[w] = "memcpy" /\ w \in Threads
    BY OrderTypes DEF KnownInv, EndWriteSize, Goto
  <2>2. ver[w] = issued /\ ver[w] \in 1..issued /\ asked[ver[w]] = size[w]
    BY <2>1 DEF KnownInv, OrderInv, WriterOrder, ContentInv, WriterInv
  <2>3. \A i \in 0..(k[w] - 1) : mem[back_buffer][i] = ver[w]
    BY <2>1 DEF KnownInv, ContentInv, WriterInv
  <2>4. size[w] \in Nat
    BY <2>1 DEF KnownInv, TypeOK, ThreadType
  <2>5. ver[w] # 0
    BY <2>2, OrderTypes DEF KnownInv
  <2> QED
    BY <2>2, <2>3, <2>4, <2>5
<1>2. CASE Fits(size[w])
  <2>1. k[w] = size[w] /\ back_buffer_size' = size[w]
    BY <1>2 DEF EndWriteSize, PopulatedSize
  <2> QED
    BY <1>1, <1>2, <2>1, SizeAssumption DEF Fits, Stores, Populated
<1>3. CASE ~Fits(size[w])
  <2>1. back_buffer_size' = 0 /\ size[w] > Capacity
    BY <1>1, <1>3, SizeAssumption DEF EndWriteSize, PopulatedSize, DataPath, Fits
  <2> QED
    BY <1>1, <2>1 DEF Stores, Populated
<1> QED
  BY <1>2, <1>3

LEMMA WriterCellInv ==
  ASSUME DataPath, KnownInv, CellInv, NEW w \in Writers,
         CallWrite(w) \/ WriteStep(w) \/ WriteLock(w)
  PROVE  CellInv'
<1>0. /\ \A v \in Writers : v = w
      /\ w \in Threads /\ Readers \subseteq Threads /\ \A r \in Readers : r # w
  BY OrderTypes DEF DataPath, OneWriter, KnownInv
<1> USE DEF history
<1>1. CASE CallWrite(w)
  <2>1. /\ pc[w] = "idle" /\ pc'[w] = "begin_write.swap"
        /\ \A r \in Readers : pc'[r] = pc[r] /\ (size'[r] = size[r])
        /\ UNCHANGED <<mem, buf, raw, tag, seen>>
    BY <1>0, <1>1, OrderTypes DEF CallWrite, Goto, KnownInv, TypeOK, ThreadType
  <2>2. tag[front_buffer] \in 0..issued /\ \A r \in Readers : seen[r] \in 0..issued
    BY OrderTypes DEF KnownInv, TypeOK, HistoryType
  <2>3. FrontCell' /\ BackCell'
    BY <1>0, <1>1, <2>1, <2>2, PopulatedKept
    DEF KnownInv, CellInv, FrontCell, BackCell, Stores, buf
  <2>4. ReadCell'
    BY <1>1, <2>1, <2>2, PopulatedKept
    DEF KnownInv, CellInv, ReadCell, Copied, Accepts, buf
  <2> QED
    BY <2>3, <2>4 DEF CellInv
<1>2. CASE BeginWriteData(w)
  BY <1>2, WriterQuiet DEF BeginWriteData
<1>3. CASE CopyIn(w)
  <2>1. /\ pc[w] = "memcpy" /\ data[w] = back_buffer /\ front_buffer # back_buffer
        /\ \E x : mem' = [mem EXCEPT ![back_buffer] = x]
        /\ UNCHANGED <<buf, pc, size, raw, history>>
    <3>1. mem' = [mem EXCEPT ![data[w]][k[w]] = ver[w]]
      BY <1>3 DEF CopyIn
    <3> QED
      BY <1>3, <3>1 DEF CopyIn, KnownInv, OrderInv, WriterOrder
  <2>2. mem'[front_buffer] = mem[front_buffer]
    BY <2>1 DEF KnownInv, TypeOK, SharedType
  <2> QED
    BY <1>0, <2>1, <2>2 DEF CellInv, FrontCell, BackCell, ReadCell, Copied, Stores, buf
<1>4. CASE EndWriteSize(w)
  <2>1. /\ pc[w] = "memcpy" /\ pc'[w] = "end_write.write"
        /\ tag'[front_buffer] = tag[front_buffer]
        /\ \A r \in Readers : pc'[r] = pc[r]
        /\ UNCHANGED <<mem, front_buffer, front_buffer_size, back_buffer, size, raw,
                       issued, asked, seen>>
    BY <1>0, <1>4, OrderTypes DEF EndWriteSize, Goto, KnownInv, OrderInv, WriterOrder
  <2>2. FrontCell' /\ BackCell'
    BY <1>0, <1>4, <2>1, EndWriteStores DEF CellInv, FrontCell, BackCell
  <2>3. ReadCell'
    BY <2>1 DEF CellInv, ReadCell, Copied
  <2> QED
    BY <2>2, <2>3 DEF CellInv
<1>5. CASE EndWriteUnlockWrite(w) \/ EndWriteUnlockSwap(w)
           \/ SwapUnlockWrite(w) \/ SwapUnlockRead(w)
  BY <1>5, WriterQuiet
  DEF EndWriteUnlockWrite, EndWriteUnlockSwap, SwapUnlockWrite, SwapUnlockRead, UnlockStep
<1>6. CASE SwapPointers(w)
  <2>1. /\ pc[w] = "swap_buffers.pointers" /\ pc'[w] = "swap_buffers.sizes"
        /\ front_buffer' = back_buffer /\ back_buffer' = front_buffer
        /\ \A r \in Readers : pc'[r] = pc[r]
        /\ UNCHANGED <<mem, back_buffer_size, size, raw, issued, asked, tag, seen>>
    BY <1>0, <1>6, OrderTypes DEF SwapPointers, Goto, KnownInv
  <2>2. \A r \in Readers : pc[r] # "copy_out"
    BY <1>0, <2>1, Alone DEF KnownInv, HoldsSwap, HoldsRead, HoldsWrite
  <2>3. FrontCell' /\ BackCell'
    BY <1>0, <2>1 DEF CellInv, FrontCell, BackCell
  <2>4. ReadCell'
    BY <2>1, <2>2 DEF CellInv, ReadCell, Copied
  <2> QED
    BY <2>3, <2>4 DEF CellInv
<1>7. CASE SwapSizes(w)
  <2>1. /\ pc[w] = "swap_buffers.sizes" /\ pc'[w] = "swap_buffers.unwrite"
        /\ front_buffer_size' = back_buffer_size
        /\ \A r \in Readers : pc'[r] = pc[r]
        /\ UNCHANGED <<mem, front_buffer, size, raw, issued, asked, tag, seen>>
    BY <1>0, <1>7, OrderTypes DEF SwapSizes, Goto, KnownInv
  <2>2. tag[front_buffer] = issued
    BY <2>1 DEF KnownInv, OrderInv, WriterOrder
  <2>3. FrontCell' /\ BackCell'
    BY <1>0, <2>1, <2>2 DEF CellInv, FrontCell, BackCell
  <2>4. ReadCell'
    BY <2>1 DEF CellInv, ReadCell, Copied
  <2> QED
    BY <2>3, <2>4 DEF CellInv
<1>8. CASE SwapUnlockSwap(w)
  BY <1>8, WriterQuiet DEF SwapUnlockSwap
<1>9. CASE WriteLock(w)
  BY <1>9, WriterQuiet
  DEF WriteLock, BeginWriteLockSwap, BeginWriteLockWrite, SwapLockSwap, SwapLockRead,
      SwapLockWrite, LockStep
<1> QED
  BY <1>1, <1>2, <1>3, <1>4, <1>5, <1>6, <1>7, <1>8, <1>9 DEF WriteStep

\* What a reader has copied when its loop ends.
LEMMA EndReadCopied ==
  ASSUME KnownInv, CellInv, NEW r \in Readers, pc[r] = "copy_out", Accepts(size[r]),
         k[r] = size[r]
  PROVE  Copied(r)
<1>1. r \in Threads /\ \A w \in Writers : w \in Threads /\ w # r
  BY OrderTypes DEF KnownInv
<1>2. \A w \in Writers : pc[w] # "swap_buffers.sizes"
  BY <1>1, Alone DEF KnownInv, HoldsSwap, HoldsRead
<1>3. /\ Stores(mem, front_buffer, size[r], seen[r], asked)
      /\ \A i \in 0..(size[r] - 1) : raw[r][i] = Word(front_buffer, i)
  BY <1>2 DEF CellInv, FrontCell, ReadCell, KnownInv, ContentInv, ReaderInv
<1>4. size[r] \in Nat /\ size[r] <= Capacity
  <2>1. seen[r] # 0 => asked[seen[r]] \in Nat
    BY SizeAssumption DEF KnownInv, TypeOK, HistoryType, Versions
  <2>2. size[r] \in Nat
    BY <1>1 DEF KnownInv, TypeOK, ThreadType
  <2> QED
    BY <1>3, <2>1, <2>2, SizeAssumption DEF Stores, Populated
<1>5. \A i \in 0..(size[r] - 1) : Word(front_buffer, i) = mem[front_buffer][i]
  BY <1>4, SizeAssumption DEF Word
<1> QED
  BY <1>3, <1>5 DEF Stores, Copied

LEMMA ReaderCellInv ==
  ASSUME KnownInv, CellInv, NEW r \in Readers, ReadStep(r) \/ ReadLock(r)
  PROVE  CellInv'
<1>0. r \in Threads /\ Readers \subseteq Threads /\ \A w \in Writers : w \in Threads /\ w # r
  BY OrderTypes DEF KnownInv
<1> USE DEF history
<1>1. CASE CallSend(r)
  BY <1>1, ReaderQuiet DEF CallSend
<1>2. CASE BeginReadData(r)
  <2>1. /\ pc[r] = "begin_read.data" /\ pc'[r] = "copy_out" /\ seen'[r] = tag[front_buffer]
        /\ \A t \in Threads \ {r} : pc'[t] = pc[t] /\ size'[t] = size[t]
        /\ \A q \in Readers \ {r} : seen'[q] = seen[q]
        /\ UNCHANGED <<mem, buf, raw, issued, asked, tag>>
    BY <1>0, <1>2, OrderTypes DEF BeginReadData, Goto, KnownInv, TypeOK, ThreadType
  <2>2. FrontCell' /\ BackCell'
    BY <1>0, <2>1 DEF CellInv, FrontCell, BackCell, buf
  <2>3. ReadCell'
    BY <1>0, <2>1 DEF CellInv, ReadCell, Copied, Accepts, buf
  <2> QED
    BY <2>2, <2>3 DEF CellInv
<1>3. CASE CopyOut(r)
  <2>1. /\ pc[r] = "copy_out" /\ \A q \in Readers \ {r} : raw'[q] = raw[q]
        /\ UNCHANGED <<mem, buf, pc, size, issued, asked, tag, seen>>
    BY <1>3 DEF CopyOut, KnownInv, TypeOK, ThreadType
  <2> QED
    BY <2>1 DEF CellInv, FrontCell, BackCell, ReadCell, Copied, buf
<1>4. CASE EndReadUnlockRead(r)
  <2>1. /\ pc[r] = "copy_out" /\ pc'[r] = "end_read.swap"
        /\ Accepts(size[r]) => k[r] = size[r]
        /\ \A t \in Threads \ {r} : pc'[t] = pc[t]
        /\ UNCHANGED <<mem, buf, size, raw, issued, asked, tag, seen>>
    BY <1>0, <1>4, OrderTypes DEF EndReadUnlockRead, UnlockStep, Goto, KnownInv
  <2>2. FrontCell' /\ BackCell'
    BY <1>0, <2>1 DEF CellInv, FrontCell, BackCell, buf
  <2>3. Accepts(size[r]) => Copied(r)
    BY <2>1, EndReadCopied
  <2>4. ReadCell'
    BY <1>0, <2>1, <2>3 DEF CellInv, ReadCell, Copied, buf
  <2> QED
    BY <2>2, <2>4 DEF CellInv
<1>5. CASE EndReadUnlockSwap(r)
  <2>1. /\ pc[r] = "end_read.swap"
        /\ pc'[r] = IF Accepts(size[r]) THEN "encode" ELSE "idle"
        /\ \A t \in Threads \ {r} : pc'[t] = pc[t]
        /\ UNCHANGED <<mem, buf, size, raw, issued, asked, tag, seen>>
    BY <1>0, <1>5, OrderTypes DEF EndReadUnlockSwap, UnlockStep, Goto, KnownInv
  <2>2. FrontCell' /\ BackCell'
    BY <1>0, <2>1 DEF CellInv, FrontCell, BackCell, buf
  <2>3. ReadCell'
    BY <1>0, <2>1 DEF CellInv, ReadCell, Copied, buf
  <2> QED
    BY <2>2, <2>3 DEF CellInv
<1>6. CASE Encode(r)
  BY <1>6, ReaderQuiet DEF Encode
<1>7. CASE ReadLock(r)
  BY <1>7, ReaderQuiet DEF ReadLock, BeginReadLockSwap, BeginReadLockRead, LockStep
<1> QED
  BY <1>1, <1>2, <1>3, <1>4, <1>5, <1>6, <1>7 DEF ReadStep

LEMMA NextCellInv ==
  ASSUME DataPath
  PROVE  KnownInv /\ CellInv /\ [Next]_vars => CellInv'
<1> SUFFICES ASSUME KnownInv, CellInv, [Next]_vars PROVE CellInv'
  OBVIOUS
<1>1. CASE Next
  BY <1>1, WriterCellInv, ReaderCellInv DEF Next
<1>2. CASE UNCHANGED vars
  BY <1>2 DEF vars, buf, history, CellInv, FrontCell, BackCell, ReadCell, Copied
<1> QED
  BY <1>1, <1>2

\* A step of a writer that does not touch what the cell is about.
LEMMA WriterStutter ==
  ASSUME KnownInv, NEW w \in Writers, NEW from, NEW to, Goto(w, from, to),
         from # "idle", to # "idle", from \in Published <=> to \in Published,
         tag'[front_buffer'] = tag[front_buffer],
         UNCHANGED <<issued, asked, ver, seen, frame>>
  PROVE  UNCHANGED LV!avars
<1>1. pc[w] = from /\ pc'[w] = to /\ \A t \in Threads \ {w} : pc'[t] = pc[t]
  BY OrderTypes DEF KnownInv, Goto
<1>2. \A v \in Writers : /\ pc'[v] = "idle" <=> pc[v] = "idle"
                         /\ pc'[v] \in Published <=> pc[v] \in Published
  BY <1>1, OrderTypes DEF KnownInv
<1> QED
  BY <1>2 DEF LV!avars

\* The same of a step of a reader.
LEMMA ReaderStutter ==
  ASSUME KnownInv, NEW r \in Readers,
         \A t \in Threads \ {r} : pc'[t] = pc[t],
         UNCHANGED <<buf, tag, issued, asked, ver>>
  PROVE  /\ UNCHANGED <<issued, asked, tag, front_buffer>>
         /\ \A w \in Writers : pc'[w] = pc[w] /\ ver'[w] = ver[w]
<1>1. \A w \in Writers : w \in Threads \ {r}
  BY OrderTypes DEF KnownInv
<1> QED
  BY <1>1 DEF buf

LEMMA WriterImplements ==
  ASSUME DataPath, KnownInv, CellInv, NEW w \in Writers,
         CallWrite(w) \/ WriteStep(w) \/ WriteLock(w)
  PROVE  [LV!ANext]_LV!avars
<1>0. /\ \A v \in Writers : v = w
      /\ w \in Threads /\ front_buffer # back_buffer
      /\ ver[w] = issued /\ issued \in Nat
  BY OrderTypes DEF DataPath, OneWriter, KnownInv, OrderInv, WriterOrder
<1> USE DEF history
<1> DEFINE call == [v \in Writers |-> IF pc[v] = "idle" THEN 0 ELSE ver[v]]
           done == {v \in Writers : pc[v] \in Published}
<1>1. CASE CallWrite(w)
  <2>1. /\ pc[w] = "idle" /\ pc'[w] = "begin_write.swap" /\ ver'[w] = issued + 1
        /\ UNCHANGED <<buf, tag, seen, frame>>
    BY <1>0, <1>1, OrderTypes DEF CallWrite, Goto, KnownInv
  <2>2. call[w] = 0 /\ call' = [call EXCEPT ![w] = issued + 1] /\ UNCHANGED done
    BY <1>0, <2>1
  <2>3. /\ issued < MaxWrites /\ issued' = issued + 1
        /\ \E s \in Sizes : asked' = [asked EXCEPT ![issued + 1] = s]
        /\ UNCHANGED <<tag, front_buffer, seen, frame>>
    BY <1>1, <2>1 DEF CallWrite, buf
  <2>4. LV!Call(w)
    BY <2>2, <2>3 DEF LV!Call
  <2> QED
    BY <2>4 DEF LV!ANext
<1>2. CASE BeginWriteData(w)
  BY <1>2, WriterStutter DEF BeginWriteData, buf
<1>3. CASE CopyIn(w)
  BY <1>3 DEF CopyIn, LV!avars, buf
<1>4. CASE EndWriteSize(w)
  <2>1. tag'[front_buffer'] = tag[front_buffer]
    BY <1>0, <1>4, OrderTypes DEF EndWriteSize, Goto, KnownInv, OrderInv, WriterOrder
  <2> QED
    BY <1>4, <2>1, WriterStutter DEF EndWriteSize
<1>5. CASE EndWriteUnlockWrite(w) \/ EndWriteUnlockSwap(w)
           \/ SwapUnlockWrite(w) \/ SwapUnlockRead(w)
  BY <1>5, WriterStutter
  DEF EndWriteUnlockWrite, EndWriteUnlockSwap, SwapUnlockWrite, SwapUnlockRead,
      UnlockStep, buf
<1>6. CASE SwapPointers(w)
  <2>1. /\ pc[w] = "swap_buffers.pointers" /\ pc'[w] = "swap_buffers.sizes"
        /\ front_buffer' = back_buffer
        /\ UNCHANGED <<issued, asked, ver, tag, seen, frame>>
    BY <1>0, <1>6, OrderTypes DEF SwapPointers, Goto, KnownInv
  <2>2. tag[back_buffer] = issued /\ issued # 0
    BY <2>1, OrderTypes DEF KnownInv, OrderInv, WriterOrder
  <2>3. LV!Store(w)
    BY <1>0, <2>1, <2>2 DEF LV!Store
  <2> QED
    BY <2>3 DEF LV!ANext
<1>7. CASE SwapSizes(w)
  BY <1>7, WriterStutter DEF SwapSizes
<1>8. CASE SwapUnlockSwap(w)
  <2>1. /\ pc[w] = "swap_buffers.unswap" /\ pc'[w] = "idle"
        /\ UNCHANGED <<buf, issued, asked, ver, tag, seen, frame>>
    BY <1>0, <1>8, OrderTypes DEF SwapUnlockSwap, Goto, KnownInv
  <2>2. issued # 0
    BY <2>1 DEF KnownInv, ContentInv, WriterInv
  <2>3. call[w] # 0 /\ call' = [call EXCEPT ![w] = 0]
    BY <1>0, <2>1, <2>2
  <2>4. w \in done /\ done' = done \ {w}
    BY <1>0, <2>1
  <2>5. LV!Return(w)
    BY <2>1, <2>3, <2>4 DEF LV!Return, buf
  <2> QED
    BY <2>5 DEF LV!ANext
<1>9. CASE WriteLock(w)
  BY <1>9, WriterStutter
  DEF WriteLock, BeginWriteLockSwap, BeginWriteLockWrite, SwapLockSwap, SwapLockRead,
      SwapLockWrite, LockStep, buf
<1> QED
  BY <1>1, <1>2, <1>3, <1>4, <1>5, <1>6, <1>7, <1>8, <1>9 DEF WriteStep

LEMMA ReaderImplements ==
  ASSUME DataPath, KnownInv, CellInv, NEW r \in Readers, ReadStep(r) \/ ReadLock(r)
  PROVE  [LV!ANext]_LV!avars
<1>0. /\ \A t \in Threads \ {r} : pc'[t] = pc[t]
      /\ UNCHANGED <<buf, tag, issued, asked, ver>>
  BY OrderTypes
  DEF KnownInv, Goto, ReadStep, ReadLock, CallSend, BeginReadData, CopyOut,
      EndReadUnlockRead, EndReadUnlockSwap, Encode, BeginReadLockSwap, BeginReadLockRead,
      LockStep, UnlockStep, history
<1>1. /\ UNCHANGED <<issued, asked, tag, front_buffer>>
      /\ \A w \in Writers : pc'[w] = pc[w] /\ ver'[w] = ver[w]
  BY <1>0, ReaderStutter
<1>2. ASSUME UNCHANGED <<seen, frame>> PROVE UNCHANGED LV!avars
  BY <1>1, <1>2 DEF LV!avars
<1>3. CASE BeginReadData(r)
  <2>1. LV!Look(r)
    BY <1>1, <1>3 DEF BeginReadData, LV!Look
  <2> QED
    BY <2>1 DEF LV!ANext
<1>4. CASE Encode(r)
  <2>1. CASE UNCHANGED frame
    BY <1>2, <1>4, <2>1 DEF Encode, history
  <2>2. CASE frame' = [frame EXCEPT ![r] =
               [size |-> size[r], words |-> [i \in 0..(size[r] - 1) |-> raw[r][i]]]]
    <3>1. Copied(r)
      BY <1>4 DEF Encode, Goto, CellInv, ReadCell
    <3>2. size[r] = LV!StoredSize(seen[r])
      BY <3>1 DEF Copied, Populated, LV!StoredSize
    <3>3. [i \in 0..(size[r] - 1) |-> raw[r][i]] = [i \in 0..(size[r] - 1) |-> seen[r]]
      BY <3>1 DEF Copied
    <3>4. frame' = [frame EXCEPT ![r] = LV!Content(seen[r])]
      BY <2>2, <3>2, <3>3 DEF LV!Content
    <3>5. LV!Deliver(r)
      BY <1>1, <1>4, <3>1, <3>2, <3>4 DEF Copied, Accepts, Encode, history, LV!Deliver
    <3> QED
      BY <3>5 DEF LV!ANext
  <2> QED
    BY <1>4, <2>1, <2>2 DEF Encode, DataPath
<1>5. CASE CallSend(r) \/ CopyOut(r) \/ EndReadUnlockRead(r) \/ EndReadUnlockSwap(r)
           \/ ReadLock(r)
  BY <1>2, <1>5
  DEF CallSend, CopyOut, EndReadUnlockRead, EndReadUnlockSwap, ReadLock,
      BeginReadLockSwap, BeginReadLockRead, LockStep, UnlockStep, history
<1> QED
  BY <1>3, <1>4, <1>5 DEF ReadStep

\* The double buffer with its mutexes, two blocks and copied words is a cell that
\* holds the latest write: with one writer, for any capacity, sizes and number of
\* write calls and any number of readers.
THEOREM BufferIsLatestValue ==
  ASSUME DataPath
  PROVE  Spec => ImplementsLatestValue
<1>1. CopiesAndRejects /\ OneWriter
  BY DataPath DEF DataPath, CopiesAndRejects
<1>2. Init => LV!AInit
  <2> SUFFICES ASSUME Init PROVE LV!AInit
    OBVIOUS
  <2>1. \A w \in Writers : pc[w] = "idle"
    BY DEF Init, Threads
  <2>2. tag[front_buffer] = 0
    BY DEF Init, Cells
  <2>3. [w \in Writers |-> IF pc[w] = "idle" THEN 0 ELSE ver[w]] = [w \in Writers |-> 0]
    BY <2>1
  <2>4. {w \in Writers : pc[w] \in Published} = {}
    BY <2>1
  <2>5. /\ issued = 0 /\ asked = [v \in LV!Versions |-> 0]
        /\ seen = [r \in Readers |-> 0] /\ frame = [r \in Readers |-> LV!NoFrame]
    BY DEF Init, LV!NoFrame, LV!Versions, Versions
  <2> QED
    BY <2>2, <2>3, <2>4, <2>5 DEF LV!AInit
<1>3. Spec => []KnownInv
  <2>1. Spec => [](TypeOK /\ LockInv /\ ContentInv)
    BY <1>1, InitTypeOK, NextTypeOK, InitLockInv, NextLockInv, InitContentInv, NextContentInv,
       PTL DEF Spec
  <2>2. Spec => [](TypeOK /\ OrderInv)
    BY <1>1, OrderInvariance
  <2> QED
    BY <2>1, <2>2, PTL DEF KnownInv
<1>4. Spec => []CellInv
  BY <1>3, InitCellInv, NextCellInv, DataPath, PTL DEF Spec
<1>5. KnownInv /\ CellInv /\ [Next]_vars => [LV!ANext]_LV!avars
  <2> SUFFICES ASSUME KnownInv, CellInv, [Next]_vars PROVE [LV!ANext]_LV!avars
    OBVIOUS
  <2>1. CASE Next
    BY <2>1, WriterImplements, ReaderImplements, DataPath DEF Next
  <2>2. CASE UNCHANGED vars
    BY <2>2 DEF vars, buf, history, LV!avars
  <2> QED
    BY <2>1, <2>2
<1> QED
  BY <1>2, <1>3, <1>4, <1>5, PTL DEF Spec, ImplementsLatestValue, LV!ASpec
=============================================================================
