---------------------------- MODULE LatestValue ----------------------------
(***************************************************************************)
(* What a foxdbg channel buffer promises to the application thread that    *)
(* writes it and to the server thread that reads it: a cell that holds the *)
(* content of the latest write.  A write call takes effect at one instant  *)
(* between its call and its return; a read delivers, whole, what the cell  *)
(* held at one instant of the read.  No mutex, no second buffer, no words. *)
(*                                                                         *)
(* Write calls are numbered 1, 2, ... in the order in which they are made; *)
(* version v is the content that call v stores and version 0 the empty     *)
(* content of a buffer that was never written.                             *)
(***************************************************************************)
EXTENDS Naturals

CONSTANTS
  Writers,      \* threads that call foxdbg_write_channel
  Readers,      \* threads that send the channel's frames
  Sizes,        \* the sizes that write calls are made with
  FrameSizes,   \* the populated sizes a sender accepts
  Capacity,     \* allocated size of the buffer
  MaxWrites     \* bound: number of write calls

VARIABLES
  issued,       \* number of write calls made so far
  asked,        \* asked[v]: the size that write call v was made with
  call,         \* call[w]: the version w is writing, 0 when w makes no call
  stored,       \* version that the cell holds
  done,         \* the writers whose write call has taken effect
  seen,         \* seen[r]: version that the latest read of r found
  frame         \* frame[r]: the latest frame that r delivered

avars == <<issued, asked, call, stored, done, seen, frame>>

Versions == 1..MaxWrites

\* Populated size of version v: a write that does not fit stores nothing.
StoredSize(v) == IF v = 0 \/ asked[v] > Capacity THEN 0 ELSE asked[v]

\* The whole content of version v.
Content(v) == [size  |-> StoredSize(v),
               words |-> [i \in 0..(StoredSize(v) - 1) |-> v]]

NoFrame == [size |-> 0, words |-> [i \in {} |-> 0]]

AInit ==
  /\ issued = 0
  /\ asked  = [v \in Versions |-> 0]
  /\ call   = [w \in Writers |-> 0]
  /\ stored = 0
  /\ done   = {}
  /\ seen   = [r \in Readers |-> 0]
  /\ frame  = [r \in Readers |-> NoFrame]

Call(w) ==
  /\ call[w] = 0
  /\ issued < MaxWrites
  /\ issued' = issued + 1
  /\ \E s \in Sizes : asked' = [asked EXCEPT ![issued + 1] = s]
  /\ call' = [call EXCEPT ![w] = issued + 1]
  /\ UNCHANGED <<stored, done, seen, frame>>

\* The instant at which the write call of w takes effect.
Store(w) ==
  /\ call[w] # 0
  /\ w \notin done
  /\ stored' = call[w]
  /\ done' = done \union {w}
  /\ UNCHANGED <<issued, asked, call, seen, frame>>

Return(w) ==
  /\ call[w] # 0
  /\ w \in done
  /\ call' = [call EXCEPT ![w] = 0]
  /\ done' = done \ {w}
  /\ UNCHANGED <<issued, asked, stored, seen, frame>>

\* The instant at which a read looks at the cell.
Look(r) ==
  /\ seen' = [seen EXCEPT ![r] = stored]
  /\ UNCHANGED <<issued, asked, call, stored, done, frame>>

\* The read delivers the whole content of the version it found.
Deliver(r) ==
  /\ StoredSize(seen[r]) \in FrameSizes
  /\ frame' = [frame EXCEPT ![r] = Content(seen[r])]
  /\ UNCHANGED <<issued, asked, call, stored, done, seen>>

ANext ==
  \/ \E w \in Writers : Call(w) \/ Store(w) \/ Return(w)
  \/ \E r \in Readers : Look(r) \/ Deliver(r)

ASpec == AInit /\ [][ANext]_avars
=============================================================================
