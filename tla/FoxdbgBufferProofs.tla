------------------------- MODULE FoxdbgBufferProofs -------------------------
(***************************************************************************)
(* What holds of the double buffer for every set of writer and reader      *)
(* threads, every capacity and every set of sizes.                         *)
(***************************************************************************)
EXTENDS FoxdbgBuffer, TLAPS

-----------------------------------------------------------------------------
(* Types.                                                                  *)

\* A word of a block, or one beyond its end, is a number.
LEMMA WordType ==
  ASSUME SharedType, NEW c \in Cells, NEW i \in Nat
  PROVE  Word(c, i) \in Nat
BY SizeAssumption DEF SharedType, Word, Indeterminate

\* foxdbg_buffer_alloc leaves every variable in its type.
LEMMA InitTypeOK == Init => TypeOK
<1> SUFFICES ASSUME Init PROVE TypeOK
  OBVIOUS
<1>1. SharedType
  BY SizeAssumption DEF Init, SharedType, Mutexes, Cells, Indeterminate
<1>2. ThreadType
  BY SizeAssumption DEF Init, ThreadType, Cells, Labels, Indeterminate
<1>3. HistoryType
  BY SizeAssumption DEF Init, HistoryType
<1>4. CopyBounds
  BY DEF Init, CopyBounds
<1> QED
  BY <1>1, <1>2, <1>3, <1>4 DEF TypeOK

\* The steps that take or give back a mutex.
LEMMA LockTypeOK ==
  ASSUME TypeOK, NEW t \in Threads, NEW m \in Mutexes,
         NEW from \in Labels, NEW to \in Labels \ {"memcpy", "copy_out"},
         LockStep(t, m, from, to) \/ UnlockStep(t, m, from, to)
  PROVE  TypeOK'
<1> USE DEF LockStep, UnlockStep, Lock, Unlock, Goto
<1>1. SharedType'
  BY DEF TypeOK, SharedType, buf
<1>2. ThreadType'
  BY DEF TypeOK, ThreadType
<1>3. HistoryType'
  BY DEF TypeOK, HistoryType, history
<1>4. CopyBounds'
  BY DEF TypeOK, ThreadType, CopyBounds
<1> QED
  BY <1>1, <1>2, <1>3, <1>4 DEF TypeOK

\* The steps of a write call that touch no mutex keep the types.
LEMMA WriterTypeOK ==
  ASSUME TypeOK, NEW w \in Writers, CallWrite(w) \/ WriteStep(w) \/ WriteLock(w)
  PROVE  TypeOK'
<1>0. w \in Threads
  BY DEF Threads
<1>1. CASE CallWrite(w)
  <2> USE <1>0, <1>1 DEF CallWrite, Goto, buf
  <2>1. SharedType'
    BY SizeAssumption DEF TypeOK, SharedType
  <2>2. ThreadType'
    BY SizeAssumption DEF TypeOK, SharedType, ThreadType, Labels
  <2>3. HistoryType'
    <3>1. /\ issued \in Nat /\ issued' = issued + 1 /\ issued' \in 0..MaxWrites
          /\ \A i \in 0..issued : i \in 0..issued'
      BY SizeAssumption DEF TypeOK, HistoryType
    <3>2. asked' \in [Versions -> Nat]
      BY <3>1, SizeAssumption DEF TypeOK, HistoryType, Versions
    <3>3. ver' \in [Writers -> 0..issued'] /\ tag' \in [Cells -> 0..issued']
      BY <3>1 DEF TypeOK, HistoryType
    <3>4. seen' \in [Readers -> 0..issued'] /\ floor' \in [Readers -> 0..issued']
      BY <3>1 DEF TypeOK, HistoryType
    <3> QED
      BY <3>1, <3>2, <3>3, <3>4 DEF TypeOK, HistoryType
  <2>4. CopyBounds'
    BY DEF TypeOK, ThreadType, CopyBounds
  <2> QED
    BY <2>1, <2>2, <2>3, <2>4 DEF TypeOK
<1>2. CASE BeginWriteData(w)
  <2> USE <1>0, <1>2 DEF BeginWriteData, Goto, buf, history
  <2>1. SharedType'
    BY SizeAssumption DEF TypeOK, SharedType
  <2>2. ThreadType'
    BY SizeAssumption DEF TypeOK, SharedType, ThreadType, Labels
  <2>3. HistoryType'
    BY SizeAssumption DEF TypeOK, SharedType, ThreadType, HistoryType
  <2>4. CopyBounds'
    BY DEF TypeOK, ThreadType, CopyBounds
  <2> QED
    BY <2>1, <2>2, <2>3, <2>4 DEF TypeOK
<1>3. CASE CopyIn(w)
  <2> USE <1>0, <1>3 DEF CopyIn, Fits, buf, history
  <2>1. SharedType'
    <3>1. data[w] \in Cells /\ ver[w] \in Nat
      BY DEF TypeOK, ThreadType, HistoryType
    <3> QED
      BY <3>1, SizeAssumption DEF TypeOK, SharedType
  <2>2. ThreadType'
    BY DEF TypeOK, ThreadType
  <2>3. HistoryType'
    BY SizeAssumption DEF TypeOK, SharedType, ThreadType, HistoryType
  <2>4. CopyBounds'
    BY DEF TypeOK, ThreadType, CopyBounds
  <2> QED
    BY <2>1, <2>2, <2>3, <2>4 DEF TypeOK
<1>4. CASE EndWriteSize(w)
  <2> USE <1>0, <1>4 DEF EndWriteSize, PopulatedSize, Goto
  <2>1. SharedType'
    BY SizeAssumption DEF TypeOK, SharedType, ThreadType
  <2>2. ThreadType'
    BY SizeAssumption DEF TypeOK, SharedType, ThreadType, Labels
  <2>3. HistoryType'
    BY SizeAssumption DEF TypeOK, SharedType, ThreadType, HistoryType
  <2>4. CopyBounds'
    BY DEF TypeOK, ThreadType, CopyBounds
  <2> QED
    BY <2>1, <2>2, <2>3, <2>4 DEF TypeOK
<1>5. CASE SwapPointers(w)
  <2> USE <1>0, <1>5 DEF SwapPointers, Goto, history
  <2>1. SharedType'
    BY SizeAssumption DEF TypeOK, SharedType
  <2>2. ThreadType'
    BY SizeAssumption DEF TypeOK, SharedType, ThreadType, Labels
  <2>3. HistoryType'
    BY SizeAssumption DEF TypeOK, SharedType, ThreadType, HistoryType
  <2>4. CopyBounds'
    BY DEF TypeOK, ThreadType, CopyBounds
  <2> QED
    BY <2>1, <2>2, <2>3, <2>4 DEF TypeOK
<1>6. CASE SwapSizes(w)
  <2> USE <1>0, <1>6 DEF SwapSizes, Goto, history
  <2>1. SharedType'
    BY SizeAssumption DEF TypeOK, SharedType
  <2>2. ThreadType'
    BY SizeAssumption DEF TypeOK, SharedType, ThreadType, Labels
  <2>3. HistoryType'
    BY SizeAssumption DEF TypeOK, SharedType, ThreadType, HistoryType
  <2>4. CopyBounds'
    BY DEF TypeOK, ThreadType, CopyBounds
  <2> QED
    BY <2>1, <2>2, <2>3, <2>4 DEF TypeOK
<1>7. CASE SwapUnlockSwap(w)
  <2> USE <1>0, <1>7 DEF SwapUnlockSwap, Goto, Unlock, buf
  <2>1. SharedType'
    BY SizeAssumption DEF TypeOK, SharedType
  <2>2. ThreadType'
    BY SizeAssumption DEF TypeOK, SharedType, ThreadType, Labels
  <2>3. HistoryType'
    BY SizeAssumption DEF TypeOK, SharedType, ThreadType, HistoryType
  <2>4. CopyBounds'
    BY DEF TypeOK, ThreadType, CopyBounds
  <2> QED
    BY <2>1, <2>2, <2>3, <2>4 DEF TypeOK
<1>8. CASE EndWriteUnlockWrite(w) \/ EndWriteUnlockSwap(w)
           \/ SwapUnlockWrite(w) \/ SwapUnlockRead(w)
  BY <1>0, <1>8, LockTypeOK
  DEF EndWriteUnlockWrite, EndWriteUnlockSwap, SwapUnlockWrite, SwapUnlockRead,
      Mutexes, Labels
<1>9. CASE WriteLock(w)
  BY <1>0, <1>9, LockTypeOK
  DEF WriteLock, BeginWriteLockSwap, BeginWriteLockWrite, SwapLockSwap, SwapLockRead,
      SwapLockWrite, Mutexes, Labels
<1> QED
  BY <1>1, <1>2, <1>3, <1>4, <1>5, <1>6, <1>7, <1>8, <1>9 DEF WriteStep

\* The steps of a send_* function keep the types.
LEMMA ReaderTypeOK ==
  ASSUME TypeOK, NEW r \in Readers, ReadStep(r) \/ ReadLock(r)
  PROVE  TypeOK'
<1>0. r \in Threads
  BY DEF Threads
<1>1. CASE CallSend(r)
  <2> USE <1>0, <1>1 DEF CallSend, Goto, buf
  <2>1. SharedType'
    BY SizeAssumption DEF TypeOK, SharedType
  <2>2. ThreadType'
    BY SizeAssumption DEF TypeOK, SharedType, ThreadType, Labels
  <2>3. HistoryType'
    BY SizeAssumption DEF TypeOK, SharedType, ThreadType, HistoryType
  <2>4. CopyBounds'
    BY DEF TypeOK, ThreadType, CopyBounds
  <2> QED
    BY <2>1, <2>2, <2>3, <2>4 DEF TypeOK
<1>2. CASE BeginReadData(r)
  <2> USE <1>0, <1>2 DEF BeginReadData, Goto, buf
  <2>1. SharedType'
    BY SizeAssumption DEF TypeOK, SharedType
  <2>2. ThreadType'
    BY SizeAssumption DEF TypeOK, SharedType, ThreadType, Labels
  <2>3. HistoryType'
    BY SizeAssumption DEF TypeOK, SharedType, ThreadType, HistoryType
  <2>4. CopyBounds'
    BY DEF TypeOK, SharedType, ThreadType, CopyBounds
  <2> QED
    BY <2>1, <2>2, <2>3, <2>4 DEF TypeOK
<1>3. CASE CopyOut(r)
  <2> USE <1>0, <1>3 DEF CopyOut, Accepts, buf, history
  <2>1. SharedType'
    BY SizeAssumption DEF TypeOK, SharedType
  <2>2. ThreadType'
    <3>1. data[r] \in Cells /\ k[r] \in Nat
      BY DEF TypeOK, ThreadType
    <3>2. Word(data[r], k[r]) \in Nat
      BY <3>1, WordType DEF TypeOK
    <3>3. raw' \in [Readers -> [0..(RawSize - 1) -> Nat]]
      BY <3>2, SizeAssumption DEF TypeOK, ThreadType
    <3> QED
      BY <3>3 DEF TypeOK, ThreadType
  <2>3. HistoryType'
    BY SizeAssumption DEF TypeOK, SharedType, ThreadType, HistoryType
  <2>4. CopyBounds'
    BY DEF TypeOK, ThreadType, CopyBounds
  <2> QED
    BY <2>1, <2>2, <2>3, <2>4 DEF TypeOK
<1>4. CASE Encode(r)
  <2> USE <1>0, <1>4 DEF Encode, Goto, buf, history
  <2>1. SharedType'
    BY SizeAssumption DEF TypeOK, SharedType
  <2>2. ThreadType'
    BY SizeAssumption DEF TypeOK, SharedType, ThreadType, Labels
  <2>3. HistoryType'
    BY SizeAssumption DEF TypeOK, SharedType, ThreadType, HistoryType
  <2>4. CopyBounds'
    BY DEF TypeOK, ThreadType, CopyBounds
  <2> QED
    BY <2>1, <2>2, <2>3, <2>4 DEF TypeOK
<1>5. CASE EndReadUnlockRead(r) \/ ReadLock(r)
  BY <1>0, <1>5, LockTypeOK
  DEF EndReadUnlockRead, ReadLock, BeginReadLockSwap, BeginReadLockRead, Mutexes, Labels
<1>6. CASE EndReadUnlockSwap(r)
  <2>1. CASE Accepts(size[r])
    BY <1>6, <2>1, <1>0, LockTypeOK DEF EndReadUnlockSwap, Mutexes, Labels
  <2>2. CASE ~Accepts(size[r])
    BY <1>6, <2>2, <1>0, LockTypeOK DEF EndReadUnlockSwap, Mutexes, Labels
  <2> QED
    BY <2>1, <2>2
<1> QED
  BY <1>1, <1>2, <1>3, <1>4, <1>5, <1>6 DEF ReadStep

\* Every step keeps the types.
LEMMA NextTypeOK == TypeOK /\ [Next]_vars => TypeOK'
<1> SUFFICES ASSUME TypeOK, [Next]_vars PROVE TypeOK'
  OBVIOUS
<1>1. CASE Next
  BY <1>1, WriterTypeOK, ReaderTypeOK DEF Next
<1>2. CASE UNCHANGED vars
  BY <1>2 DEF vars, buf, history, TypeOK, SharedType, ThreadType, HistoryType, CopyBounds
<1> QED
  BY <1>1, <1>2

\* No step leaves the types of the buffer: the copy loops of the write and send
\* functions stay within the sizes that they were given.
THEOREM TypeCorrect == Spec => []TypeOK
BY InitTypeOK, NextTypeOK, PTL DEF Spec

-----------------------------------------------------------------------------
(* Mutexes.  A mutex belongs to the thread that stands where it holds it,  *)
(* and every thread that holds read_mutex or write_mutex holds swap_mutex. *)

\* The places where a thread holds write_mutex, read_mutex, swap_mutex.
HoldsWrite ==
  {"begin_write.data", "memcpy", "end_write.write",
   "swap_buffers.pointers", "swap_buffers.sizes", "swap_buffers.unwrite"}

HoldsRead ==
  {"swap_buffers.write", "swap_buffers.pointers", "swap_buffers.sizes",
   "swap_buffers.unwrite", "swap_buffers.unread", "begin_read.data", "copy_out"}

HoldsSwap ==
  HoldsWrite \union HoldsRead \union
  {"begin_write.write", "end_write.swap", "swap_buffers.read", "swap_buffers.unswap",
   "begin_read.read", "end_read.swap"}

Holds(m) == IF m = "swap_mutex" THEN HoldsSwap
            ELSE IF m = "read_mutex" THEN HoldsRead ELSE HoldsWrite

LockInv == \A t \in Threads, m \in Mutexes : mutex[m] = t <=> pc[t] \in Holds(m)

\* At first no mutex is held and no thread stands where it holds one.
LEMMA InitLockInv == Init => LockInv
BY ThreadAssumption
DEF Init, LockInv, Holds, HoldsSwap, HoldsRead, HoldsWrite, Mutexes

\* A lock step enters the places where m is held and no others.
LEMMA LockStepInv ==
  ASSUME TypeOK, LockInv, NEW t \in Threads, NEW m \in Mutexes,
         NEW from \in Labels, NEW to \in Labels, LockStep(t, m, from, to),
         to \in Holds(m),
         \A n \in Mutexes \ {m} : from \in Holds(n) <=> to \in Holds(n)
  PROVE  LockInv'
<1> SUFFICES ASSUME NEW u \in Threads, NEW n \in Mutexes
             PROVE  mutex'[n] = u <=> pc'[u] \in Holds(n)
  BY DEF LockInv
<1> USE ThreadAssumption DEF TypeOK, SharedType, ThreadType, LockInv, LockStep, Lock, Goto
<1>1. CASE u = t
  BY <1>1
<1>2. CASE u # t
  BY <1>2
<1> QED
  BY <1>1, <1>2

\* An unlock step leaves the places where m is held and no others.
LEMMA UnlockStepInv ==
  ASSUME TypeOK, LockInv, NEW t \in Threads, NEW m \in Mutexes,
         NEW from \in Labels, NEW to \in Labels, Goto(t, from, to), Unlock(m),
         from \in Holds(m), to \notin Holds(m),
         \A n \in Mutexes \ {m} : from \in Holds(n) <=> to \in Holds(n)
  PROVE  LockInv'
<1> SUFFICES ASSUME NEW u \in Threads, NEW n \in Mutexes
             PROVE  mutex'[n] = u <=> pc'[u] \in Holds(n)
  BY DEF LockInv
<1> USE ThreadAssumption DEF TypeOK, SharedType, ThreadType, LockInv, Unlock, Goto
<1>1. CASE u = t
  BY <1>1
<1>2. CASE u # t
  BY <1>2
<1> QED
  BY <1>1, <1>2

\* Any other step moves between places where the same mutexes are held.
LEMMA MoveStepInv ==
  ASSUME TypeOK, LockInv, NEW t \in Threads, NEW from \in Labels, NEW to \in Labels,
         Goto(t, from, to), UNCHANGED mutex,
         \A n \in Mutexes : from \in Holds(n) <=> to \in Holds(n)
  PROVE  LockInv'
BY DEF TypeOK, ThreadType, LockInv, Goto

\* Every step keeps mutexes and places in accord.
LEMMA NextLockInv == TypeOK /\ LockInv /\ [Next]_vars => LockInv'
<1> SUFFICES ASSUME TypeOK, LockInv, [Next]_vars PROVE LockInv'
  OBVIOUS
<1> USE DEF Holds, HoldsSwap, HoldsRead, HoldsWrite, Mutexes, Labels
<1>1. ASSUME NEW w \in Writers, CallWrite(w) PROVE LockInv'
  BY <1>1, MoveStepInv DEF CallWrite, Threads
<1>2. ASSUME NEW w \in Writers, WriteLock(w) PROVE LockInv'
  <2>0. w \in Threads
    BY DEF Threads
  <2>1. CASE BeginWriteLockSwap(w)
    BY <2>0, <2>1, LockStepInv DEF BeginWriteLockSwap
  <2>2. CASE BeginWriteLockWrite(w)
    BY <2>0, <2>2, LockStepInv DEF BeginWriteLockWrite
  <2>3. CASE SwapLockSwap(w)
    BY <2>0, <2>3, LockStepInv DEF SwapLockSwap
  <2>4. CASE SwapLockRead(w)
    BY <2>0, <2>4, LockStepInv DEF SwapLockRead
  <2>5. CASE SwapLockWrite(w)
    BY <2>0, <2>5, LockStepInv DEF SwapLockWrite
  <2> QED
    BY <1>2, <2>1, <2>2, <2>3, <2>4, <2>5 DEF WriteLock
<1>3. ASSUME NEW w \in Writers, WriteStep(w) PROVE LockInv'
  <2>0. w \in Threads
    BY DEF Threads
  <2>1. CASE BeginWriteData(w)
    BY <2>0, <2>1, MoveStepInv DEF BeginWriteData
  <2>2. CASE CopyIn(w)
    BY <2>2 DEF CopyIn, LockInv
  <2>3. CASE EndWriteSize(w)
    BY <2>0, <2>3, MoveStepInv DEF EndWriteSize
  <2>4. CASE EndWriteUnlockWrite(w)
    BY <2>0, <2>4, UnlockStepInv DEF EndWriteUnlockWrite, UnlockStep
  <2>5. CASE EndWriteUnlockSwap(w)
    BY <2>0, <2>5, UnlockStepInv DEF EndWriteUnlockSwap, UnlockStep
  <2>6. CASE SwapPointers(w)
    BY <2>0, <2>6, MoveStepInv DEF SwapPointers
  <2>7. CASE SwapSizes(w)
    BY <2>0, <2>7, MoveStepInv DEF SwapSizes
  <2>8. CASE SwapUnlockWrite(w)
    BY <2>0, <2>8, UnlockStepInv DEF SwapUnlockWrite, UnlockStep
  <2>9. CASE SwapUnlockRead(w)
    BY <2>0, <2>9, UnlockStepInv DEF SwapUnlockRead, UnlockStep
  <2>10. CASE SwapUnlockSwap(w)
    BY <2>0, <2>10, UnlockStepInv DEF SwapUnlockSwap
  <2> QED
    BY <1>3, <2>1, <2>2, <2>3, <2>4, <2>5, <2>6, <2>7, <2>8, <2>9, <2>10 DEF WriteStep
<1>4. ASSUME NEW r \in Readers, ReadStep(r) \/ ReadLock(r) PROVE LockInv'
  <2>0. r \in Threads
    BY DEF Threads
  <2>1. CASE CallSend(r)
    BY <2>0, <2>1, MoveStepInv DEF CallSend
  <2>2. CASE BeginReadLockSwap(r)
    BY <2>0, <2>2, LockStepInv DEF BeginReadLockSwap
  <2>3. CASE BeginReadLockRead(r)
    BY <2>0, <2>3, LockStepInv DEF BeginReadLockRead
  <2>4. CASE BeginReadData(r)
    BY <2>0, <2>4, MoveStepInv DEF BeginReadData
  <2>5. CASE CopyOut(r)
    BY <2>5 DEF CopyOut, LockInv
  <2>6. CASE EndReadUnlockRead(r)
    BY <2>0, <2>6, UnlockStepInv DEF EndReadUnlockRead, UnlockStep
  <2>7. CASE EndReadUnlockSwap(r)
    <3>1. CASE Accepts(size[r])
      BY <2>0, <2>7, <3>1, UnlockStepInv DEF EndReadUnlockSwap, UnlockStep
    <3>2. CASE ~Accepts(size[r])
      BY <2>0, <2>7, <3>2, UnlockStepInv DEF EndReadUnlockSwap, UnlockStep
    <3> QED
      BY <3>1, <3>2
  <2>8. CASE Encode(r)
    BY <2>0, <2>8, MoveStepInv DEF Encode
  <2> QED
    BY <1>4, <2>1, <2>2, <2>3, <2>4, <2>5, <2>6, <2>7, <2>8 DEF ReadStep, ReadLock
<1>5. CASE UNCHANGED vars
  BY <1>5 DEF vars, LockInv
<1> QED
  BY <1>1, <1>2, <1>3, <1>4, <1>5 DEF Next

\* Two threads never hold the same mutex.
LEMMA HoldersAgree ==
  ASSUME LockInv, NEW t \in Threads, NEW u \in Threads, NEW m \in Mutexes,
         pc[t] \in Holds(m), pc[u] \in Holds(m)
  PROVE  t = u
BY DEF LockInv

\* The step of LockInv to the property: the thread that finds read_mutex or
\* write_mutex taken would share swap_mutex with its owner.
LEMMA LockInvUncontended == TypeOK /\ LockInv => InnerLocksUncontended
<1> SUFFICES ASSUME TypeOK, LockInv, NEW t \in Threads, NEW m \in {"read_mutex", "write_mutex"},
                    pc[t] \in HoldsSwap, pc[t] \notin Holds(m)
             PROVE  mutex[m] = Nobody
  BY DEF InnerLocksUncontended, Holds, HoldsSwap, HoldsRead, HoldsWrite
<1>1. SUFFICES ASSUME mutex[m] # Nobody PROVE FALSE
  OBVIOUS
<1>2. mutex[m] \in Threads
  BY <1>1 DEF TypeOK, SharedType, Mutexes
<1>3. pc[mutex[m]] \in Holds(m)
  BY <1>2 DEF LockInv, Mutexes
<1>4. pc[mutex[m]] \in HoldsSwap
  BY <1>3 DEF Holds, HoldsSwap
<1>5. mutex[m] = t
  BY <1>2, <1>4, HoldersAgree DEF Holds, Mutexes
<1> QED
  BY <1>3, <1>5

\* No thread ever waits for read_mutex or write_mutex: the order in which the
\* three mutexes are taken cannot deadlock, for any number of threads.
THEOREM InnerLocksNeverContended == Spec => []InnerLocksUncontended
<1>1. Spec => [](TypeOK /\ LockInv)
  BY InitTypeOK, NextTypeOK, InitLockInv, NextLockInv, PTL DEF Spec
<1> QED
  BY <1>1, LockInvUncontended, PTL

-----------------------------------------------------------------------------
(* Content.  A block is whole under a size when its first words are those  *)
(* of one write call of that size.  Both blocks are whole under their own  *)
(* sizes, but for the one that a write call is filling; between the two    *)
(* exchanges of swap_buffers each is whole under the other's size.         *)

\* Whole, of a sequence of words and of a block of memory, as operators of the
\* state they depend on: last is issued, made is asked, m is mem.
WordsWhole(words, n, last, made) ==
  n # 0 => \E v \in 1..last : made[v] = n /\ \A i \in 0..(n - 1) : words[i] = v

BlockWhole(m, c, n, last, made) ==
  n # 0 => \E v \in 1..last : /\ made[v] = n /\ n <= Capacity
                              /\ \A i \in 0..(n - 1) : m[c][i] = v

BlocksInv ==
  /\ front_buffer # back_buffer
  /\ (\A w \in Writers : pc[w] # "swap_buffers.sizes")
       => BlockWhole(mem, front_buffer, front_buffer_size, issued, asked)
  /\ (\A w \in Writers : pc[w] \notin {"memcpy", "swap_buffers.sizes"})
       => BlockWhole(mem, back_buffer, back_buffer_size, issued, asked)
  /\ \A w \in Writers : pc[w] = "swap_buffers.sizes"
       => /\ BlockWhole(mem, front_buffer, back_buffer_size, issued, asked)
          /\ BlockWhole(mem, back_buffer, front_buffer_size, issued, asked)

\* A write call in progress has its number, and what it has copied so far is
\* in the back block.
WriterInv ==
  \A w \in Writers :
    /\ pc[w] # "idle" => ver[w] \in 1..issued /\ asked[ver[w]] = size[w]
    /\ pc[w] = "memcpy" => /\ data[w] = back_buffer
                           /\ \A i \in 0..(k[w] - 1) : mem[back_buffer][i] = ver[w]

\* A write call is made with one of the sizes.
SizeInv == \A w \in Writers : pc[w] # "idle" => size[w] \in Sizes

\* A read in progress has copied the front block, and a copy that is complete
\* is the content of one write call.
ReaderInv ==
  \A r \in Readers :
    /\ pc[r] = "copy_out" => /\ data[r] = front_buffer
                             /\ size[r] = front_buffer_size
                             /\ \A i \in 0..(k[r] - 1) : raw[r][i] = Word(front_buffer, i)
    /\ (pc[r] = "end_read.swap" /\ Accepts(size[r])) \/ pc[r] = "encode"
         => WordsWhole(raw[r], size[r], issued, asked)

FrameInv ==
  /\ frame = [r \in Readers |-> frame[r]]
  /\ \A r \in Readers : /\ frame[r].size \in Nat
                          /\ WordsWhole(frame[r].words, frame[r].size, issued, asked)

ContentInv == BlocksInv /\ WriterInv /\ SizeInv /\ ReaderInv /\ FrameInv

\* What the content of frames rests on: the sender makes its frame from its
\* copy, and no write call reports more words than it stored.
CopiesAndRejects ==
  EncodesCopy /\ (RejectsOversize \/ \A s \in Sizes : s <= Capacity)

\* Of a buffer that was never written the content invariant holds.
LEMMA InitContentInv == Init => ContentInv
BY DEF Init, ContentInv, BlocksInv, WriterInv, SizeInv, ReaderInv, FrameInv, BlockWhole,
       WordsWhole, Threads

\* What one write call stored stays so when another is made.
LEMMA WholeGrows ==
  ASSUME NEW last \in Nat, NEW made \in [Versions -> Nat], last + 1 \in Versions,
         NEW s \in Nat, NEW n \in Nat
  PROVE  /\ \A words : WordsWhole(words, n, last, made)
              => WordsWhole(words, n, last + 1, [made EXCEPT ![last + 1] = s])
         /\ \A m, c : BlockWhole(m, c, n, last, made)
              => BlockWhole(m, c, n, last + 1, [made EXCEPT ![last + 1] = s])
<1>1. \A v \in 1..last : v \in 1..(last + 1) /\ [made EXCEPT ![last + 1] = s][v] = made[v]
  BY SizeAssumption DEF Versions
<1> QED
  BY <1>1 DEF WordsWhole, BlockWhole

\* A step that takes a thread between places ContentInv does not mention.
LEMMA QuietStepInv ==
  ASSUME TypeOK, ContentInv, NEW t \in Threads, NEW from, NEW to, Goto(t, from, to),
         from \notin {"memcpy", "swap_buffers.sizes"},
         from # "idle" \/ t \in Readers,
         to \notin {"memcpy", "swap_buffers.sizes", "copy_out", "end_read.swap", "encode"},
         UNCHANGED <<mem, buf, data, size, k, raw, frame, issued, asked, ver>>
  PROVE  ContentInv'
<1>1. \A u \in Threads : u # t => pc'[u] = pc[u]
  BY DEF Goto, TypeOK, ThreadType
<1>2. pc[t] = from /\ pc'[t] = to
  BY DEF Goto, TypeOK, ThreadType
<1>3. \A w \in Writers : w \in Threads /\ (t \in Readers => w # t)
  BY ThreadAssumption DEF Threads
<1>4. \A r \in Readers : r \in Threads
  BY DEF Threads
<1>5. \A w \in Writers : /\ pc[w] = "memcpy" <=> pc'[w] = "memcpy"
                         /\ pc[w] = "swap_buffers.sizes" <=> pc'[w] = "swap_buffers.sizes"
                         /\ pc'[w] # "idle" => pc[w] # "idle"
  BY <1>1, <1>2, <1>3
<1>6. BlocksInv'
  BY <1>5 DEF ContentInv, BlocksInv, buf
<1>7. WriterInv' /\ SizeInv'
  BY <1>5 DEF ContentInv, WriterInv, SizeInv, buf
<1>8. ReaderInv'
  BY <1>1, <1>2, <1>4 DEF ContentInv, ReaderInv, Word, buf
<1>9. FrameInv'
  BY DEF ContentInv, FrameInv
<1> QED
  BY <1>6, <1>7, <1>8, <1>9 DEF ContentInv

\* While a thread stands where it holds swap_mutex, every other writer and
\* reader stands where ContentInv says nothing of the blocks.
LEMMA Alone ==
  ASSUME LockInv, NEW t \in Threads, pc[t] \in HoldsSwap
  PROVE  \A u \in Threads \ {t} :
           pc[u] \notin {"memcpy", "swap_buffers.sizes", "copy_out", "end_read.swap"}
BY HoldersAgree DEF Holds, HoldsSwap, HoldsRead, HoldsWrite, Mutexes

\* A new write call disturbs no content.
LEMMA CallWriteInv ==
  ASSUME TypeOK, ContentInv, NEW w \in Writers, CallWrite(w)
  PROVE  ContentInv'
<1> DEFINE s == size'[w]
<1>0. /\ w \in Threads /\ Writers \subseteq Threads /\ Readers \subseteq Threads
      /\ \A r \in Readers : r # w
  BY ThreadAssumption DEF Threads
<1>1. /\ pc[w] = "idle" /\ pc'[w] = "begin_write.swap"
      /\ \A u \in Threads \ {w} : pc'[u] = pc[u] /\ size'[u] = size[u]
  BY <1>0 DEF CallWrite, Goto, TypeOK, ThreadType
<1>2. s \in Sizes /\ s \in Nat /\ asked' = [asked EXCEPT ![issued + 1] = s]
  BY <1>0, SizeAssumption DEF CallWrite, TypeOK, ThreadType
<1>3. /\ issued \in Nat /\ issued' = issued + 1 /\ issued + 1 \in Versions
      /\ asked \in [Versions -> Nat] /\ 1..issued \subseteq Versions
  BY SizeAssumption DEF CallWrite, TypeOK, HistoryType, Versions
<1>4. \A n \in Nat : /\ \A x : WordsWhole(x, n, issued, asked) => WordsWhole(x, n, issued', asked')
                     /\ \A m, c : BlockWhole(m, c, n, issued, asked)
                                    => BlockWhole(m, c, n, issued', asked')
  BY <1>2, <1>3, WholeGrows
<1>5. BlocksInv'
  <2>1. front_buffer_size \in Nat /\ back_buffer_size \in Nat
    BY DEF TypeOK, SharedType
  <2>2. UNCHANGED <<mem, front_buffer, front_buffer_size, back_buffer, back_buffer_size>>
    BY DEF CallWrite, buf
  <2>3. \A v \in Writers : /\ pc[v] = "memcpy" <=> pc'[v] = "memcpy"
                           /\ pc[v] = "swap_buffers.sizes" <=> pc'[v] = "swap_buffers.sizes"
    BY <1>0, <1>1
  <2> QED
    BY <1>4, <2>1, <2>2, <2>3 DEF ContentInv, BlocksInv
<1>6. WriterInv'
  <2> SUFFICES ASSUME NEW v \in Writers
               PROVE  /\ pc'[v] # "idle" => ver'[v] \in 1..issued' /\ asked'[ver'[v]] = size'[v]
                      /\ pc'[v] = "memcpy" => /\ data'[v] = back_buffer'
                                              /\ \A i \in 0..(k'[v] - 1) : mem'[back_buffer'][i] = ver'[v]
    BY DEF WriterInv
  <2>1. CASE v = w
    <3>1. ver'[w] = issued + 1
      BY DEF CallWrite, TypeOK, HistoryType
    <3> QED
      BY <1>1, <1>2, <1>3, <2>1, <3>1
  <2>2. CASE v # w
    <3>1. v \in Threads /\ ver'[v] = ver[v] /\ pc'[v] = pc[v] /\ size'[v] = size[v]
      BY <1>0, <1>1, <2>2 DEF CallWrite, TypeOK, HistoryType
    <3>2. pc'[v] # "idle" => ver'[v] \in 1..issued' /\ asked'[ver'[v]] = size'[v]
      BY <1>2, <1>3, <3>1 DEF ContentInv, WriterInv
    <3>3. UNCHANGED <<mem, data, k, back_buffer>>
      BY DEF CallWrite, buf
    <3> QED
      BY <3>1, <3>2, <3>3 DEF ContentInv, WriterInv
  <2> QED
    BY <2>1, <2>2
<1>7. SizeInv'
  BY <1>0, <1>1, <1>2 DEF ContentInv, SizeInv
<1>8. ReaderInv'
  <2>1. UNCHANGED <<mem, data, k, raw, front_buffer, front_buffer_size>>
    BY DEF CallWrite, buf
  <2>2. \A r \in Readers : size[r] \in Nat /\ size'[r] = size[r] /\ pc'[r] = pc[r]
    BY <1>0, <1>1 DEF TypeOK, ThreadType
  <2> QED
    BY <1>4, <2>1, <2>2 DEF ContentInv, ReaderInv, Word, Accepts
<1>9. FrameInv'
  BY <1>4 DEF ContentInv, FrameInv, CallWrite
<1> QED
  BY <1>5, <1>6, <1>7, <1>8, <1>9 DEF ContentInv

\* The steps of a write call keep the content invariant.
LEMMA WriteStepInv ==
  ASSUME CopiesAndRejects, TypeOK, LockInv, ContentInv, NEW w \in Writers, WriteStep(w)
  PROVE  ContentInv'
<1>0. /\ w \in Threads /\ Writers \subseteq Threads /\ Readers \subseteq Threads
      /\ \A r \in Readers : r # w
  BY ThreadAssumption DEF Threads
<1>1. CASE BeginWriteData(w)
  <2> USE <1>1 DEF BeginWriteData, Goto
  <2>1. /\ pc[w] = "begin_write.data" /\ pc'[w] = "memcpy"
        /\ data'[w] = back_buffer /\ k'[w] = 0
        /\ \A u \in Threads \ {w} : pc'[u] = pc[u] /\ data'[u] = data[u] /\ k'[u] = k[u]
        /\ UNCHANGED <<mem, buf, size, raw, frame, issued, asked, ver>>
    BY <1>0 DEF TypeOK, ThreadType, history
  <2>2. \A u \in Threads \ {w} : pc[u] \notin {"memcpy", "swap_buffers.sizes", "copy_out"}
    BY <1>0, <2>1, Alone DEF HoldsSwap, HoldsWrite
  <2> QED
    BY <1>0, <2>1, <2>2
    DEF ContentInv, BlocksInv, WriterInv, SizeInv, ReaderInv, FrameInv, buf
<1>2. CASE CopyIn(w)
  <2>1. /\ pc[w] = "memcpy" /\ pc' = pc /\ k[w] \in Nat /\ k[w] < Capacity
        /\ k[w] < size[w] /\ k'[w] = k[w] + 1
        /\ \A u \in Threads \ {w} : k'[u] = k[u]
        /\ data[w] = back_buffer /\ front_buffer # back_buffer
        /\ UNCHANGED <<buf, data, size, raw, frame, issued, asked, ver>>
    BY <1>0, <1>2, SizeAssumption
    DEF CopyIn, Fits, TypeOK, ThreadType, ContentInv, WriterInv, BlocksInv, history
  <2>2. \A u \in Threads \ {w} :
          pc[u] \notin {"memcpy", "swap_buffers.sizes", "copy_out"}
    BY <1>0, <2>1, Alone DEF HoldsSwap, HoldsWrite
  <2>3. /\ mem'[front_buffer] = mem[front_buffer]
        /\ mem'[back_buffer] = [mem[back_buffer] EXCEPT ![k[w]] = ver[w]]
    BY <1>2, <2>1 DEF CopyIn, TypeOK, SharedType
  <2>4. \A n : BlockWhole(mem, front_buffer, n, issued, asked)
                 => BlockWhole(mem', front_buffer, n, issued, asked)
    BY <2>3 DEF BlockWhole
  <2>5. BlocksInv'
    BY <1>0, <2>1, <2>2, <2>4 DEF ContentInv, BlocksInv, buf
  <2>6. WriterInv'
    <3>1. \A i \in 0..k[w] : mem'[back_buffer][i] = ver[w]
      <4>1. mem[back_buffer] \in [0..(Capacity - 1) -> Nat]
        BY DEF TypeOK, SharedType
      <4> QED
        BY <2>1, <2>3, <4>1, SizeAssumption DEF ContentInv, WriterInv
    <3> QED
      BY <1>0, <2>1, <2>2, <3>1 DEF ContentInv, WriterInv, buf
  <2>7. SizeInv' /\ FrameInv'
    BY <2>1 DEF ContentInv, SizeInv, FrameInv
  <2>8. ReaderInv'
    BY <1>0, <2>1, <2>2 DEF ContentInv, ReaderInv
  <2> QED
    BY <2>5, <2>6, <2>7, <2>8 DEF ContentInv
<1>3. CASE EndWriteSize(w)
  <2>1. /\ pc[w] = "memcpy" /\ pc'[w] = "end_write.write"
        /\ \A u \in Threads \ {w} : pc'[u] = pc[u]
        /\ back_buffer_size' = PopulatedSize(size[w])
        /\ Fits(size[w]) => k[w] = size[w]
        /\ UNCHANGED <<mem, front_buffer, front_buffer_size, back_buffer, data, size, k,
                       raw, frame, issued, asked, ver>>
    BY <1>0, <1>3 DEF EndWriteSize, Goto, TypeOK, ThreadType
  <2>2. \A u \in Threads \ {w} : pc[u] \notin {"memcpy", "swap_buffers.sizes", "copy_out"}
    BY <1>0, <2>1, Alone DEF HoldsSwap, HoldsWrite
  <2>3. BlockWhole(mem, back_buffer, PopulatedSize(size[w]), issued, asked)
    <3>1. /\ ver[w] \in 1..issued /\ asked[ver[w]] = size[w] /\ size[w] \in Sizes
          /\ \A i \in 0..(k[w] - 1) : mem[back_buffer][i] = ver[w]
      BY <2>1 DEF ContentInv, WriterInv, SizeInv
    <3>2. CASE Fits(size[w])
      BY <2>1, <3>1, <3>2 DEF BlockWhole, PopulatedSize, Fits
    <3>3. CASE ~Fits(size[w])
      BY <3>1, <3>3 DEF CopiesAndRejects, BlockWhole, PopulatedSize, Fits
    <3> QED
      BY <3>2, <3>3
  <2> QED
    BY <1>0, <2>1, <2>2, <2>3
    DEF ContentInv, BlocksInv, WriterInv, SizeInv, ReaderInv, FrameInv, Word
<1>4. CASE SwapPointers(w)
  <2>1. /\ pc[w] = "swap_buffers.pointers" /\ pc'[w] = "swap_buffers.sizes"
        /\ \A u \in Threads \ {w} : pc'[u] = pc[u]
        /\ front_buffer' = back_buffer /\ back_buffer' = front_buffer
        /\ UNCHANGED <<mem, front_buffer_size, back_buffer_size, data, size, k,
                       raw, frame, issued, asked, ver>>
    BY <1>0, <1>4 DEF SwapPointers, Goto, TypeOK, ThreadType, history
  <2>2. \A u \in Threads \ {w} : pc[u] \notin {"memcpy", "swap_buffers.sizes", "copy_out"}
    BY <1>0, <2>1, Alone DEF HoldsSwap, HoldsWrite
  <2> QED
    BY <1>0, <2>1, <2>2
    DEF ContentInv, BlocksInv, WriterInv, SizeInv, ReaderInv, FrameInv
<1>5. CASE SwapSizes(w)
  <2>1. /\ pc[w] = "swap_buffers.sizes" /\ pc'[w] = "swap_buffers.unwrite"
        /\ \A u \in Threads \ {w} : pc'[u] = pc[u]
        /\ front_buffer_size' = back_buffer_size /\ back_buffer_size' = front_buffer_size
        /\ UNCHANGED <<mem, front_buffer, back_buffer, data, size, k,
                       raw, frame, issued, asked, ver>>
    BY <1>0, <1>5 DEF SwapSizes, Goto, TypeOK, ThreadType, history
  <2>2. \A u \in Threads \ {w} : pc[u] \notin {"memcpy", "swap_buffers.sizes", "copy_out"}
    BY <1>0, <2>1, Alone DEF HoldsSwap, HoldsWrite
  <2> QED
    BY <1>0, <2>1, <2>2
    DEF ContentInv, BlocksInv, WriterInv, SizeInv, ReaderInv, FrameInv
<1>6. CASE EndWriteUnlockWrite(w) \/ EndWriteUnlockSwap(w)
           \/ SwapUnlockWrite(w) \/ SwapUnlockRead(w)
  BY <1>0, <1>6, QuietStepInv
  DEF EndWriteUnlockWrite, EndWriteUnlockSwap, SwapUnlockWrite, SwapUnlockRead,
      UnlockStep, history
<1>7. CASE SwapUnlockSwap(w)
  BY <1>0, <1>7, QuietStepInv DEF SwapUnlockSwap
<1> QED
  BY <1>1, <1>2, <1>3, <1>4, <1>5, <1>6, <1>7 DEF WriteStep

\* The locks that a write call takes change no content.
LEMMA WriteLockInv ==
  ASSUME TypeOK, ContentInv, NEW w \in Writers, WriteLock(w)
  PROVE  ContentInv'
BY QuietStepInv
DEF WriteLock, BeginWriteLockSwap, BeginWriteLockWrite, SwapLockSwap, SwapLockRead,
    SwapLockWrite, LockStep, history, Threads

\* The steps of a send_* function keep the content invariant.
LEMMA ReadStepInv ==
  ASSUME CopiesAndRejects, TypeOK, LockInv, ContentInv, NEW r \in Readers,
         ReadStep(r) \/ ReadLock(r)
  PROVE  ContentInv'
<1>0. /\ r \in Threads /\ Writers \subseteq Threads /\ Readers \subseteq Threads
      /\ \A w \in Writers : r # w
  BY ThreadAssumption DEF Threads
<1>1. CASE CallSend(r) \/ ReadLock(r)
  BY <1>0, <1>1, QuietStepInv
  DEF CallSend, ReadLock, BeginReadLockSwap, BeginReadLockRead, LockStep, history
<1>2. CASE BeginReadData(r)
  <2>1. /\ pc[r] = "begin_read.data" /\ pc'[r] = "copy_out"
        /\ data'[r] = front_buffer /\ size'[r] = front_buffer_size /\ k'[r] = 0
        /\ \A u \in Threads \ {r} : /\ pc'[u] = pc[u] /\ data'[u] = data[u]
                                     /\ size'[u] = size[u] /\ k'[u] = k[u]
        /\ UNCHANGED <<mem, buf, raw, frame, issued, asked, ver>>
    BY <1>0, <1>2 DEF BeginReadData, Goto, TypeOK, ThreadType
  <2> QED
    BY <1>0, <2>1
    DEF ContentInv, BlocksInv, WriterInv, SizeInv, ReaderInv, FrameInv, Word, Accepts, buf
<1>3. CASE CopyOut(r)
  <2>1. /\ pc[r] = "copy_out" /\ pc' = pc /\ k[r] \in Nat /\ k[r] < RawSize
        /\ k'[r] = k[r] + 1 /\ data[r] = front_buffer
        /\ \A u \in Threads \ {r} : k'[u] = k[u]
        /\ UNCHANGED <<mem, buf, data, size, frame, issued, asked, ver>>
    BY <1>0, <1>3, SizeAssumption
    DEF CopyOut, Accepts, TypeOK, ThreadType, ContentInv, ReaderInv, history
  <2>2. /\ \A q \in Readers \ {r} : raw'[q] = raw[q]
        /\ raw'[r] = [raw[r] EXCEPT ![k[r]] = Word(front_buffer, k[r])]
        /\ raw[r] \in [0..(RawSize - 1) -> Nat]
    BY <1>3, <2>1 DEF CopyOut, TypeOK, ThreadType
  <2>3. \A i \in 0..k[r] : raw'[r][i] = Word(front_buffer, i)
    BY <2>1, <2>2, SizeAssumption DEF ContentInv, ReaderInv
  <2>4. \A i \in 0..(k'[r] - 1) : raw'[r][i] = Word(front_buffer, i)'
    BY <2>1, <2>3 DEF Word, buf
  <2>5. ReaderInv'
    <3>1. ASSUME NEW q \in Readers \ {r}
          PROVE  /\ pc'[q] = pc[q] /\ data'[q] = data[q] /\ size'[q] = size[q]
                 /\ k'[q] = k[q] /\ raw'[q] = raw[q]
      BY <1>0, <2>1, <2>2
    <3>2. \A i : Word(front_buffer, i)' = Word(front_buffer, i)
      BY <2>1 DEF Word, buf
    <3>3. UNCHANGED <<issued, asked, front_buffer, front_buffer_size>>
      BY <2>1 DEF buf
    <3>4. pc'[r] = "copy_out" /\ data'[r] = front_buffer /\ size'[r] = front_buffer_size
      BY <2>1 DEF ContentInv, ReaderInv
    <3> QED
      BY <2>4, <3>1, <3>2, <3>3, <3>4 DEF ContentInv, ReaderInv, Accepts
  <2> QED
    BY <1>0, <2>1, <2>5 DEF ContentInv, BlocksInv, WriterInv, SizeInv, FrameInv, buf
<1>4. CASE EndReadUnlockRead(r)
  <2>1. /\ pc[r] = "copy_out" /\ pc'[r] = "end_read.swap"
        /\ \A u \in Threads \ {r} : pc'[u] = pc[u]
        /\ Accepts(size[r]) => k[r] = size[r]
        /\ UNCHANGED <<mem, buf, data, size, k, raw, frame, issued, asked, ver>>
    BY <1>0, <1>4 DEF EndReadUnlockRead, UnlockStep, Goto, TypeOK, ThreadType, history
  <2>2. BlockWhole(mem, front_buffer, size[r], issued, asked)
    BY <1>0, <2>1, Alone
    DEF ContentInv, BlocksInv, ReaderInv, HoldsSwap, HoldsRead
  <2>3. Accepts(size[r]) => WordsWhole(raw[r], size[r], issued, asked)
    <3>1. \A i \in 0..(k[r] - 1) : raw[r][i] = Word(front_buffer, i)
      BY <2>1 DEF ContentInv, ReaderInv
    <3>2. size[r] \in Nat
      BY <1>0 DEF TypeOK, ThreadType
    <3> QED
      BY <2>1, <2>2, <3>1, <3>2, SizeAssumption DEF BlockWhole, WordsWhole, Word
  <2> QED
    BY <1>0, <2>1, <2>3
    DEF ContentInv, BlocksInv, WriterInv, SizeInv, ReaderInv, FrameInv, Word, Accepts, buf
<1>5. CASE EndReadUnlockSwap(r)
  <2>1. /\ pc[r] = "end_read.swap"
        /\ pc'[r] = IF Accepts(size[r]) THEN "encode" ELSE "idle"
        /\ \A u \in Threads \ {r} : pc'[u] = pc[u]
        /\ UNCHANGED <<mem, buf, data, size, k, raw, frame, issued, asked, ver>>
    BY <1>0, <1>5 DEF EndReadUnlockSwap, UnlockStep, Goto, TypeOK, ThreadType, history
  <2>2. pc'[r] = "encode" => WordsWhole(raw[r], size[r], issued, asked)
    BY <2>1 DEF ContentInv, ReaderInv
  <2>3. pc'[r] \in {"encode", "idle"}
    BY <2>1
  <2>4. ReaderInv'
    BY <1>0, <2>1, <2>2, <2>3 DEF ContentInv, ReaderInv, Word, Accepts, buf
  <2> QED
    BY <1>0, <2>1, <2>3, <2>4
    DEF ContentInv, BlocksInv, WriterInv, SizeInv, FrameInv, buf
<1>6. CASE Encode(r)
  <2>1. /\ pc[r] = "encode" /\ pc'[r] = "idle"
        /\ \A u \in Threads \ {r} : pc'[u] = pc[u]
        /\ UNCHANGED <<mem, buf, data, size, k, raw, issued, asked, ver>>
    BY <1>0, <1>6 DEF Encode, Goto, TypeOK, ThreadType, history
  <2>2. FrameInv'
    <3> DEFINE new == [size  |-> size[r],
                       words |-> [i \in 0..(size[r] - 1) |-> raw[r][i]]]
    <3>1. frame' = [frame EXCEPT ![r] = new] \/ frame' = frame
      BY <1>6 DEF Encode, CopiesAndRejects
    <3>2. new.size = size[r] /\ \A i \in 0..(size[r] - 1) : new.words[i] = raw[r][i]
      OBVIOUS
    <3>3. size[r] \in Nat /\ WordsWhole(raw[r], size[r], issued, asked)
      BY <1>0, <2>1 DEF ContentInv, ReaderInv, TypeOK, ThreadType
    <3>4. WordsWhole(new.words, new.size, issued, asked) /\ new.size \in Nat
      BY <3>2, <3>3 DEF WordsWhole
    <3> HIDE DEF new
    <3>5. CASE frame' = [frame EXCEPT ![r] = new]
      BY <2>1, <3>4, <3>5 DEF ContentInv, FrameInv
    <3>6. CASE frame' = frame
      BY <2>1, <3>6 DEF ContentInv, FrameInv
    <3> QED
      BY <3>1, <3>5, <3>6
  <2> QED
    BY <1>0, <2>1, <2>2
    DEF ContentInv, BlocksInv, WriterInv, SizeInv, ReaderInv, Word, Accepts, buf
<1> QED
  BY <1>1, <1>2, <1>3, <1>4, <1>5, <1>6 DEF ReadStep

\* Every step keeps the content invariant.
LEMMA NextContentInv ==
  ASSUME CopiesAndRejects
  PROVE  TypeOK /\ LockInv /\ ContentInv /\ [Next]_vars => ContentInv'
<1> SUFFICES ASSUME TypeOK, LockInv, ContentInv, [Next]_vars PROVE ContentInv'
  OBVIOUS
<1>1. CASE Next
  BY <1>1, CallWriteInv, WriteStepInv, WriteLockInv, ReadStepInv DEF Next
<1>2. CASE UNCHANGED vars
  BY <1>2
  DEF vars, buf, history, ContentInv, BlocksInv, WriterInv, SizeInv, ReaderInv, FrameInv,
      Word, Accepts
<1> QED
  BY <1>1, <1>2

\* Every frame is the complete content of one write call, for any number of
\* writer threads, any capacity and any sizes, when the sender encodes its copy
\* and oversized writes are refused (or never made).
THEOREM FramesAreWhole ==
  ASSUME CopiesAndRejects
  PROVE  Spec => []FrameWhole
<1>1. Spec => [](TypeOK /\ LockInv /\ ContentInv)
  BY InitTypeOK, NextTypeOK, InitLockInv, NextLockInv, InitContentInv, NextContentInv,
     PTL DEF Spec
<1>2. ContentInv => FrameWhole
  BY DEF ContentInv, FrameInv, WordsWhole, FrameWhole, Whole
<1> QED
  BY <1>1, <1>2, PTL
-----------------------------------------------------------------------------
\* The block in the hands of a sender is never the one that a write call fills,
\* for any number of writer threads, when the sender encodes its copy.
THEOREM ReadsAreExclusive ==
  ASSUME EncodesCopy
  PROVE  Spec => []ReadIsExclusive
<1>1. Spec => []LockInv
  BY InitTypeOK, NextTypeOK, InitLockInv, NextLockInv, PTL DEF Spec
<1>2. LockInv => ReadIsExclusive
  <2> SUFFICES ASSUME LockInv, NEW r \in Readers, NEW w \in Writers,
                      pc[r] \in {"copy_out", "end_read.swap"}, pc[w] = "memcpy"
               PROVE  FALSE
    BY DEF ReadIsExclusive
  <2>1. r \in Threads /\ w \in Threads /\ r # w
    BY ThreadAssumption DEF Threads
  <2>2. pc[r] \in HoldsSwap
    BY DEF HoldsSwap, HoldsRead
  <2> QED
    BY <2>1, <2>2, Alone
<1> QED
  BY <1>1, <1>2, PTL

\* The size that begin_read reports is one that a write call populated, for any
\* number of writer threads, when oversized writes are refused.
THEOREM ReadSizesArePopulated ==
  ASSUME CopiesAndRejects
  PROVE  Spec => []ReadSizeIsPopulated
<1>1. Spec => [](TypeOK /\ LockInv /\ ContentInv)
  BY InitTypeOK, NextTypeOK, InitLockInv, NextLockInv, InitContentInv, NextContentInv,
     PTL DEF Spec
<1>2. TypeOK /\ LockInv /\ ContentInv => ReadSizeIsPopulated
  <2> SUFFICES ASSUME TypeOK, LockInv, ContentInv, NEW r \in Readers, pc[r] = "copy_out"
               PROVE  Whole([i \in 0..(size[r] - 1) |-> Word(data[r], i)], size[r])
    BY DEF ReadSizeIsPopulated
  <2>1. r \in Threads /\ \A w \in Writers : w \in Threads /\ w # r
    BY ThreadAssumption DEF Threads
  <2>2. \A w \in Writers : pc[w] # "swap_buffers.sizes"
    BY <2>1, Alone DEF HoldsSwap, HoldsRead
  <2>3. /\ BlockWhole(mem, front_buffer, front_buffer_size, issued, asked)
        /\ data[r] = front_buffer /\ size[r] = front_buffer_size /\ size[r] \in Nat
    BY <2>1, <2>2 DEF ContentInv, BlocksInv, ReaderInv, TypeOK, ThreadType
  <2> QED
    BY <2>3, SizeAssumption DEF BlockWhole, Whole, Word
<1> QED
  BY <1>1, <1>2, PTL

-----------------------------------------------------------------------------
(* Calls end.                                                              *)

\* What a thread does leaves the places and the loops of the others alone.
LEMMA StepsAreOwn ==
  ASSUME TypeOK, NEW t \in Threads, NEW u \in Threads, u # t,
         \/ t \in Writers /\ (CallWrite(t) \/ WriteStep(t) \/ WriteLock(t))
         \/ t \in Readers /\ (ReadStep(t) \/ ReadLock(t))
  PROVE  UNCHANGED <<pc[u], size[u], k[u]>>
<1> USE DEF TypeOK, ThreadType, Goto, LockStep, UnlockStep
<1>1. CASE t \in Writers /\ CallWrite(t)
  BY <1>1 DEF CallWrite
<1>2. CASE t \in Writers /\ WriteStep(t)
  BY <1>2
  DEF WriteStep, BeginWriteData, CopyIn, EndWriteSize, EndWriteUnlockWrite,
      EndWriteUnlockSwap, SwapPointers, SwapSizes, SwapUnlockWrite, SwapUnlockRead,
      SwapUnlockSwap
<1>3. CASE t \in Writers /\ WriteLock(t)
  BY <1>3
  DEF WriteLock, BeginWriteLockSwap, BeginWriteLockWrite, SwapLockSwap, SwapLockRead,
      SwapLockWrite
<1>4. CASE t \in Readers /\ ReadStep(t)
  BY <1>4
  DEF ReadStep, CallSend, BeginReadData, CopyOut, EndReadUnlockRead, EndReadUnlockSwap,
      Encode
<1>5. CASE t \in Readers /\ ReadLock(t)
  BY <1>5 DEF ReadLock, BeginReadLockSwap, BeginReadLockRead
<1> QED
  BY <1>1, <1>2, <1>3, <1>4, <1>5

\* The bound is a number, since the loops stay within their sizes.
LEMMA RemainingType ==
  ASSUME TypeOK, NEW t \in Threads
  PROVE  WordsLeft(t) \in Nat /\ PlacesLeft(pc[t]) \in 0..14
<1>1. pc[t] \in Labels /\ size[t] \in Nat /\ k[t] \in Nat
  BY DEF TypeOK, ThreadType
<1>2. pc[t] \in {"memcpy", "copy_out"} => size[t] - k[t] \in Nat
  BY <1>1 DEF TypeOK, CopyBounds
<1>3. WordsLeft(t) \in Nat
  BY <1>1, <1>2, SizeAssumption DEF WordsLeft
<1>4. PlacesLeft(pc[t]) \in 0..14
  BY <1>1 DEF PlacesLeft, Labels
<1> QED
  BY <1>3, <1>4

Bounded == \A t \in Threads : Remaining(t) \in Nat

LEMMA RemainingIsBounded == TypeOK' => Bounded'
<1>1. TypeOK => Bounded
  BY RemainingType DEF Remaining, Bounded
<1> QED
  BY <1>1, PTL

\* Each step of a write call.
LEMMA WriterRemaining ==
  ASSUME TypeOK, TypeOK', NEW w \in Writers, WriteStep(w) \/ WriteLock(w)
  PROVE  Remaining(w)' < Remaining(w)
<1>0. /\ w \in Threads /\ pc[w] \in Labels /\ size[w] \in Nat /\ k[w] \in Nat
      /\ pc[w] \in {"memcpy", "copy_out"} => k[w] <= size[w]
      /\ pc \in [Threads -> Labels] /\ k \in [Threads -> Nat]
  BY DEF TypeOK, ThreadType, CopyBounds, Threads
<1> USE <1>0 DEF Remaining, PlacesLeft, WordsLeft, Goto, LockStep, UnlockStep
<1>1. CASE BeginWriteData(w)
  BY <1>1 DEF BeginWriteData
<1>2. CASE CopyIn(w)
  BY <1>2 DEF CopyIn
<1>3. CASE EndWriteSize(w)
  BY <1>3 DEF EndWriteSize
<1>4. CASE EndWriteUnlockWrite(w) \/ EndWriteUnlockSwap(w)
  BY <1>4 DEF EndWriteUnlockWrite, EndWriteUnlockSwap
<1>5. CASE SwapPointers(w) \/ SwapSizes(w)
  BY <1>5 DEF SwapPointers, SwapSizes
<1>6. CASE SwapUnlockWrite(w) \/ SwapUnlockRead(w) \/ SwapUnlockSwap(w)
  BY <1>6 DEF SwapUnlockWrite, SwapUnlockRead, SwapUnlockSwap
<1>7. CASE BeginWriteLockSwap(w) \/ BeginWriteLockWrite(w)
  BY <1>7 DEF BeginWriteLockSwap, BeginWriteLockWrite
<1>8. CASE SwapLockSwap(w) \/ SwapLockRead(w) \/ SwapLockWrite(w)
  BY <1>8 DEF SwapLockSwap, SwapLockRead, SwapLockWrite
<1> QED
  BY <1>1, <1>2, <1>3, <1>4, <1>5, <1>6, <1>7, <1>8 DEF WriteStep, WriteLock

\* Each step of a send_* function that has been called.
LEMMA ReaderRemaining ==
  ASSUME TypeOK, TypeOK', NEW r \in Readers, ReadStep(r) \/ ReadLock(r), pc[r] # "idle"
  PROVE  Remaining(r)' < Remaining(r)
<1>0. /\ r \in Threads /\ pc[r] \in Labels /\ size[r] \in Nat /\ k[r] \in Nat
      /\ pc[r] \in {"memcpy", "copy_out"} => k[r] <= size[r]
      /\ pc \in [Threads -> Labels] /\ k \in [Threads -> Nat] /\ size \in [Threads -> Nat]
      /\ front_buffer_size \in Nat /\ RawSize \in Nat
  BY SizeAssumption DEF TypeOK, ThreadType, SharedType, CopyBounds, Threads
<1> USE <1>0 DEF Remaining, PlacesLeft, WordsLeft, Goto, LockStep, UnlockStep
<1>1. CASE BeginReadData(r)
  BY <1>1 DEF BeginReadData, Accepts
<1>2. CASE CopyOut(r)
  BY <1>2 DEF CopyOut
<1>3. CASE EndReadUnlockRead(r)
  BY <1>3 DEF EndReadUnlockRead
<1>4. CASE EndReadUnlockSwap(r)
  BY <1>4 DEF EndReadUnlockSwap
<1>5. CASE Encode(r)
  BY <1>5 DEF Encode
<1>6. CASE ReadLock(r)
  BY <1>6 DEF ReadLock, BeginReadLockSwap, BeginReadLockRead
<1>7. ~CallSend(r)
  BY DEF CallSend
<1> QED
  BY <1>1, <1>2, <1>3, <1>4, <1>5, <1>6, <1>7 DEF ReadStep

\* Every call ends, for any number of threads, any capacity and any sizes: with
\* InnerLocksNeverContended, all that can hold it up is a wait for swap_mutex,
\* whose holder is itself never held up.
THEOREM EveryCallEnds == Spec => CallsEnd
<1>1. ASSUME TypeOK, TypeOK', [Next]_vars, NEW t \in Threads, pc[t] # "idle",
             ~UNCHANGED <<pc[t], size[t], k[t]>>
      PROVE  Remaining(t)' \in Nat /\ Remaining(t)' < Remaining(t)
  <2>1. Remaining(t)' \in Nat
    BY <1>1, RemainingIsBounded DEF Bounded
  <2>2. Next
    BY <1>1 DEF vars
  <2>3. \/ t \in Writers /\ (WriteStep(t) \/ WriteLock(t))
        \/ t \in Readers /\ (ReadStep(t) \/ ReadLock(t))
    BY <1>1, <2>2, StepsAreOwn DEF Next, Threads, CallWrite, Goto
  <2> QED
    BY <1>1, <2>1, <2>3, WriterRemaining, ReaderRemaining
<1>2. TypeOK /\ TypeOK' /\ [Next]_vars =>
        [\A t \in Threads :
           \/ pc[t] = "idle"
           \/ UNCHANGED <<pc[t], size[t], k[t]>>
           \/ Remaining(t)' \in Nat /\ Remaining(t)' < Remaining(t)]_vars
  BY <1>1
<1> QED
  BY <1>2, TypeCorrect, PTL DEF Spec, CallsEnd
=============================================================================
