---------------------------- MODULE FoxdbgProofs ----------------------------
(***************************************************************************)
(* The composition of foxdbg for any channels, types, rates and bounds:    *)
(* its server is that of FoxdbgSession, its frames are the channel's own,  *)
(* and no two frames of a channel are closer than its period.              *)
(***************************************************************************)
EXTENDS Foxdbg, FoxdbgPacingProofs

\* The loop variable stays in the list, a sender is called after the clock was read,
\* and between two turns of the loop of transmissions no frame is kept.
LoopInv ==
  /\ linked \in 0..MaxChannels
  /\ cur \in Channels \union {End}
  /\ pc = "transmit.next" => elapsed # Unread
  /\ pc # "transmit.next" => frame = NoFrame
  /\ frame # NoFrame => cur # End

\* What can be sent was written.
ContentInv == \A c \in Channels : content[c].size # 0 => content[c].version > 0

\* The channel is about to be stamped.
Stamping(c) == pc = "transmit.next" /\ c = cur /\ IsDue

\* Unless that is so, or long enough has passed, the latest frame of a channel came
\* before its stamp: since then the clock has gone on from some tick of the
\* millisecond that it read.  Once the clock was read and the channel found due,
\* long enough has passed, and still has when the sender writes its frame.
RateInv ==
  /\ \A c \in Channels :
       \/ Stamping(c)
       \/ since[c] = Long(c)
       \/ 0 <= age[c] /\ PerMs * age[c] + phase < since[c] + PerMs
  /\ pc = "transmit" /\ elapsed # Unread /\ IsDue => since[cur] = Long(cur)

IInv == TypeOK /\ LoopInv /\ ContentInv /\ RateInv /\ FrameIsOwn /\ FramesKeepThePeriod

LEMMA TargetType ==
  ASSUME NEW c \in Channels
  PROVE  Target(c) \in 1..1000 /\ Long(c) \in Nat /\ Long(c) > PerMs * Target(c)
<1>1. TargetHz[c] \in Int /\ 1 <= TargetHz[c] /\ TargetHz[c] <= 1000
  BY ClockAssumption
<1>2. Target(c) \in 1..1000
  BY <1>1, TargetOfRate DEF Target
<1>3. PerMs * Target(c) \in Nat
  BY <1>2, ClockAssumption
<1> QED
  BY <1>2, <1>3 DEF Long

LEMMA EndIsNoChannel == End \notin Channels /\ End \in Int
BY ContentAssumption DEF End, Channels

\* A reading more than a period after the stamp, in whatever tick of its millisecond
\* the channel was stamped, is long enough after the frame that came before.
LEMMA LateIsLong ==
  ASSUME NEW c \in Channels, NEW a \in Int, NEW f \in Nat, a > Target(c)
  PROVE  Long(c) + PerMs <= PerMs * a + f + 1
<1>1. PerMs \in Nat /\ PerMs > 0 /\ Target(c) \in Int /\ a >= Target(c) + 1
  BY ClockAssumption, TargetType
<1>2. PerMs * a >= PerMs * (Target(c) + 1)
  BY <1>1, Z3
<1>3. PerMs * (Target(c) + 1) = PerMs * Target(c) + PerMs
  BY <1>1, Z3
<1>4. PerMs * a \in Int /\ PerMs * Target(c) \in Int
  BY <1>1
<1> QED
  BY <1>1, <1>2, <1>3, <1>4 DEF Long

\* A difference that the clock has not made negative is compared as it is.
LEMMA ElapsedIsAge ==
  ASSUME NEW c \in Channels, age[c] \in 0..MaxAge
  PROVE  Elapsed(age[c], 0) = age[c]
<1>1. MaxAge \in Nat /\ MaxBack \in Nat /\ MaxAge + MaxBack < Modulus /\ Modulus \in Nat
  BY ClockAssumption, ModulusAssumption
<1>2. age[c] \in Int /\ 0 <= age[c] - 0 /\ age[c] - 0 < Modulus
  BY <1>1
<1> QED
  BY <1>2, ElapsedInOrder

\* The ticks of a step of the clock are whole milliseconds and a new phase.
LEMMA TicksSplit ==
  ASSUME phase \in 0..(PerMs - 1), NEW d \in Int
  PROVE  /\ (phase + d) % PerMs \in 0..(PerMs - 1)
         /\ (phase + d) \div PerMs \in Int
         /\ phase + d = PerMs * ((phase + d) \div PerMs) + ((phase + d) % PerMs)
         /\ IF d < 0 THEN (phase + d) \div PerMs >= d ELSE (phase + d) \div PerMs >= 0
<1>1. PerMs \in Nat /\ PerMs > 0
  BY ClockAssumption
<1>2. \A x \in Int : /\ x % PerMs \in 0..(PerMs - 1) /\ x \div PerMs \in Int
                     /\ x = PerMs * (x \div PerMs) + (x % PerMs)
  BY <1>1, Z3
<1> DEFINE q == (phase + d) \div PerMs
           f == (phase + d) % PerMs
<1>3. /\ phase \in Nat /\ q \in Int /\ f \in 0..(PerMs - 1) /\ phase + d = PerMs * q + f
  BY <1>1, <1>2
<1> HIDE DEF q, f
<1>4. ASSUME d < 0 PROVE q >= d
  <2>1. PerMs * q > PerMs * (d - 1)
    <3>1. PerMs * (d - 1) = PerMs * d - PerMs /\ PerMs * d <= d
      BY <1>1, <1>4, Z3
    <3> QED
      BY <1>1, <1>3, <3>1, Z3
  <2>2. q > d - 1
    BY <1>1, <1>3, <2>1, Z3
  <2> QED
    BY <1>3, <2>2
<1>5. ASSUME d >= 0 PROVE q >= 0
  <2>1. PerMs * q > PerMs * (-1)
    BY <1>1, <1>3, <1>5, Z3
  <2> QED
    BY <1>1, <1>3, <2>1, Z3
<1> QED
  BY <1>3, <1>4, <1>5 DEF q, f

\* No sender goes on with a populated size of zero.
LEMMA NothingIsRefused ==
  ASSUME NEW c \in Channels, Accepted(c)
  PROVE  content[c].size # 0
<1>1. Type[c] \in Types
  BY ContentAssumption
<1>2. \A t \in Types : ~SenderAccepts(t, 0)
  BY DEF SenderAccepts, Types, Large, ElementSize
<1> QED
  BY <1>1, <1>2 DEF Accepted

LEMMA InitIInv == Init => IInv
<1> SUFFICES ASSUME Init PROVE IInv
  OBVIOUS
<1>1. \A c \in Channels : Long(c) \in Nat
  BY TargetType
<1>2. TypeOK
  BY <1>1, ContentAssumption, ClockAssumption DEF Init, TypeOK, NoFrame, End
<1>3. LoopInv
  BY ContentAssumption DEF Init, LoopInv
<1> QED
  BY <1>2, <1>3 DEF IInv, Init, ContentInv, RateInv, FrameIsOwn, FramesKeepThePeriod

-----------------------------------------------------------------------------
(* Steps of the server that are those of FoxdbgSession: none stands between *)
(* a frame and its stamp, before or after.                                  *)

ServerStep ==
  \/ \E w \in Conns : Callback(w) \/ Writeable(w)
  \/ Walk
  \/ Exit

LEMMA CallbackSteps ==
  ASSUME IInv, NEW w \in Conns, Callback(w) \/ Writeable(w)
  PROVE  /\ pc # "transmit.next" /\ pc' # "transmit.next" /\ elapsed = Unread
         /\ linked' = linked /\ cur' \in Channels \union {End}
         /\ UNCHANGED <<clock, data>>
<1>1. S!FirstChannel \in Channels \union {End}
  BY ContentAssumption DEF S!FirstChannel, S!End, End, Channels
<1>2. /\ linked \in 0..MaxChannels /\ cur \in Channels \union {End}
      /\ elapsed # Unread => pc \in {"transmit", "transmit.next"}
  BY DEF IInv, LoopInv, TypeOK
<1>3. CASE S!Established(w) /\ UNCHANGED <<clock, data>>
  BY <1>1, <1>2, <1>3 DEF S!Established, S!Callback, S!app
<1>4. CASE S!Closed(w) /\ UNCHANGED <<clock, data>>
  BY <1>1, <1>2, <1>4 DEF S!Closed, S!Callback, S!app
<1>5. CASE S!Drop(w) /\ UNCHANGED <<clock, data>>
  BY <1>2, <1>5 DEF S!Drop, S!app, S!thread
<1>6. CASE S!ReceiveSubscribe(w) /\ UNCHANGED <<clock, data>>
  BY <1>2, <1>6 DEF S!ReceiveSubscribe, S!Callback, S!app
<1>7. CASE S!ReceiveUnsubscribe(w) /\ UNCHANGED <<clock, data>>
  BY <1>2, <1>7 DEF S!ReceiveUnsubscribe, S!Callback, S!app
<1>8. CASE S!Writeable(w) /\ UNCHANGED <<clock, data>>
  BY <1>1, <1>2, <1>8 DEF S!Writeable, S!Callback, S!app
<1> QED
  BY <1>3, <1>4, <1>5, <1>6, <1>7, <1>8 DEF Callback, Writeable

LEMMA WalkSteps ==
  ASSUME IInv, Walk \/ Exit
  PROVE  /\ pc # "transmit.next" /\ pc' # "transmit.next" /\ elapsed = Unread
         /\ linked' = linked /\ cur' \in Channels \union {End}
         /\ UNCHANGED <<clock, data>>
<1>1. /\ linked \in 0..MaxChannels /\ cur \in Channels \union {End}
      /\ elapsed # Unread => pc \in {"transmit", "transmit.next"} /\ cur # End
  BY DEF IInv, LoopInv, TypeOK
<1>2. S!FirstChannel \in Channels \union {End} /\ S!NextChannel(cur) \in Channels \union {End}
  BY <1>1, ContentAssumption DEF S!FirstChannel, S!NextChannel, S!End, End, Channels
<1>3. CASE S!DisconnectStep /\ UNCHANGED <<clock, data>>
  BY <1>1, <1>2, <1>3 DEF S!DisconnectStep, S!app
<1>4. CASE S!DisconnectReturn /\ UNCHANGED <<clock, data>>
  BY <1>1, <1>2, <1>4 DEF S!DisconnectReturn, S!app
<1>5. CASE S!AdvertiseStep /\ UNCHANGED <<clock, data>>
  BY <1>1, <1>2, <1>5 DEF S!AdvertiseStep, S!app
<1>6. CASE S!AdvertiseSend /\ UNCHANGED <<clock, data>>
  BY <1>1, <1>6 DEF S!AdvertiseSend, S!app
<1>7. CASE S!TakeElement /\ UNCHANGED <<clock, data>>
  BY <1>1, <1>2, <1>7 DEF S!TakeElement, S!app
<1>8. CASE S!ReceiveReturn /\ UNCHANGED <<clock, data>>
  BY <1>1, <1>8 DEF S!ReceiveReturn, S!app
<1>9. CASE S!FindStep /\ UNCHANGED <<clock, data>>
  BY <1>1, <1>2, <1>9 DEF S!FindStep, S!app
<1>10. CASE S!FindEnd /\ UNCHANGED <<clock, data>>
  BY <1>1, <1>10 DEF S!FindEnd, S!app
<1>11. CASE S!TransmitReturn /\ UNCHANGED <<clock, data>>
  BY <1>1, <1>11 DEF S!TransmitReturn, S!app, S!End, End
<1>12. CASE S!Exit /\ UNCHANGED <<clock, data>>
  BY <1>1, <1>12 DEF S!Exit, S!app
<1> QED
  BY <1>3, <1>4, <1>5, <1>6, <1>7, <1>8, <1>9, <1>10, <1>11, <1>12 DEF Walk, Exit

LEMMA ServerIInv ==
  ASSUME IInv, ServerStep
  PROVE  IInv'
<1>1. /\ pc # "transmit.next" /\ pc' # "transmit.next" /\ elapsed = Unread
      /\ linked' = linked /\ cur' \in Channels \union {End}
      /\ UNCHANGED <<clock, data>>
  BY CallbackSteps, WalkSteps DEF ServerStep
<1>2. frame = NoFrame
  BY <1>1 DEF IInv, LoopInv
<1>3. TypeOK'
  BY <1>1, <1>2 DEF IInv, TypeOK, clock, data, Long
<1>4. LoopInv'
  BY <1>1, <1>2 DEF IInv, LoopInv, data
<1>5. RateInv'
  BY <1>1 DEF IInv, RateInv, Stamping, clock, data, Long
<1> QED
  BY <1>1, <1>2, <1>3, <1>4, <1>5
  DEF IInv, ContentInv, FrameIsOwn, FramesKeepThePeriod, clock, data

-----------------------------------------------------------------------------
(* The application and the clock.                                          *)

LEMMA ApplicationIInv ==
  ASSUME IInv, Application
  PROVE  IInv'
<1>1. linked' \in 0..MaxChannels /\ pc' = pc /\ cur' = cur /\ UNCHANGED <<clock, data>>
  BY ContentAssumption
  DEF IInv, LoopInv, Application, S!AddChannel, S!Stop, S!app, S!thread
<1> QED
  BY <1>1 DEF IInv, TypeOK, LoopInv, ContentInv, RateInv, Stamping, IsDue, Long, FrameIsOwn,
              FramesKeepThePeriod, clock, data

LEMMA WriteIInv ==
  ASSUME IInv, NEW c \in Channels, WriteChannel(c)
  PROVE  IInv'
<1>1. PICK n \in Nat : content' = [content EXCEPT ![c] = [version |-> writes + 1, size |-> n]]
  <2>1. PICK s \in Sizes[c] : content' = [content EXCEPT ![c] =
           [version |-> writes + 1, size |-> IF s <= PayloadSize(Type[c]) THEN s ELSE 0]]
    BY DEF WriteChannel
  <2>2. s \in Nat
    BY <2>1, ContentAssumption
  <2> QED
    BY <2>1, <2>2
<1>2. writes \in Nat /\ writes' = writes + 1 /\ writes' \in 0..MaxWrites
      /\ UNCHANGED <<session, clock, raw_data_buffer, elapsed, frame>>
  BY ContentAssumption DEF IInv, TypeOK, WriteChannel
<1>3. \A d \in Channels : /\ content[d].version \in 0..writes
                          /\ content'[d] = IF d = c THEN [version |-> writes + 1, size |-> n]
                                           ELSE content[d]
  BY <1>1 DEF IInv, TypeOK
<1>4. TypeOK'
  <2>1. content' \in [Channels -> [version : 0..writes', size : Nat]]
    BY <1>1, <1>2 DEF IInv, TypeOK
  <2>2. raw_data_buffer' \in [channel : Channels \union {End}, version : 0..writes']
    BY <1>2 DEF IInv, TypeOK
  <2>3. frame' \in [channel : Channels \union {End}, version : 0..writes', gap : Nat]
    BY <1>2 DEF IInv, TypeOK
  <2> QED
    BY <2>1, <2>2, <2>3, <1>2 DEF IInv, TypeOK, clock, session, Long
<1>5. ContentInv'
  BY <1>2, <1>3 DEF IInv, ContentInv
<1>6. FrameIsOwn'
  <2> SUFFICES ASSUME frame' # NoFrame
               PROVE  /\ frame'.channel = cur'
                      /\ 0 < frame'.version /\ frame'.version <= content'[cur'].version
    BY DEF FrameIsOwn
  <2>1. frame # NoFrame /\ frame' = frame /\ cur' = cur
    BY <1>2 DEF session
  <2>2. frame.channel = cur /\ 0 < frame.version /\ frame.version <= content[cur].version
    BY <2>1 DEF IInv, FrameIsOwn
  <2>3. frame.version \in 0..writes
    BY DEF IInv, TypeOK
  <2>4. CASE cur \in Channels
    BY <2>1, <2>2, <2>3, <2>4, <1>2, <1>3
  <2>5. CASE cur \notin Channels
    BY <2>1, <2>2, <2>5, <1>1 DEF IInv, TypeOK
  <2> QED
    BY <2>4, <2>5
<1> QED
  BY <1>2, <1>4, <1>5, <1>6
  DEF IInv, LoopInv, RateInv, Stamping, IsDue, Long, FramesKeepThePeriod, clock, session

\* What the clock reads after d ticks.
LEMMA AdvanceType ==
  ASSUME IInv, NEW d \in Int, Advance(d), NEW b \in Nat, IF d < 0 THEN b >= back - d ELSE b >= back
  PROVE  /\ phase' \in 0..(PerMs - 1)
         /\ age' \in [Channels -> (-b)..MaxAge]
<1>1. phase \in 0..(PerMs - 1) /\ back \in Nat /\ MaxAge \in Nat
  BY ClockAssumption DEF IInv, TypeOK
<1> DEFINE q == (phase + d) \div PerMs
<1>2. (phase + d) % PerMs \in 0..(PerMs - 1) /\ q \in Int /\ IF d < 0 THEN q >= d ELSE q >= 0
  BY <1>1, TicksSplit
<1>3. age' = [c \in Channels |-> IF age[c] + q < MaxAge THEN age[c] + q ELSE MaxAge]
  BY DEF Advance
<1> HIDE DEF q
<1>4. ASSUME NEW c \in Channels
      PROVE  (IF age[c] + q < MaxAge THEN age[c] + q ELSE MaxAge) \in (-b)..MaxAge
  <2>1. age[c] \in (-back)..MaxAge
    BY DEF IInv, TypeOK
  <2> QED
    BY <1>1, <1>2, <2>1
<1> QED
  BY <1>2, <1>3, <1>4 DEF Advance

\* A tick on both sides keeps the one below the other.
LEMMA StillBelow ==
  ASSUME NEW old \in Int, NEW new \in Int, NEW whole \in Int, NEW from \in Int, NEW to \in Int,
         NEW bound \in Int, NEW unit \in Int,
         new <= old + whole, from + 1 = whole + to, old + from < bound + unit
  PROVE  new + to < bound + 1 + unit
OBVIOUS

\* A tick.
LEMMA TickIInv ==
  ASSUME IInv, Tick
  PROVE  IInv'
<1>1. UNCHANGED <<session, back, data>> /\ back \in 0..MaxBack /\ back \in Nat
  BY ClockAssumption DEF Tick, IInv, TypeOK
<1>2. phase' \in 0..(PerMs - 1) /\ age' \in [Channels -> (-back)..MaxAge]
  BY <1>1, AdvanceType DEF Tick
<1>3. \A c \in Channels :
        /\ since'[c] = IF since[c] < Long(c) THEN since[c] + 1 ELSE Long(c)
        /\ since[c] \in 0..Long(c) /\ Long(c) \in Nat
  <2> TAKE c \in Channels
  <2>1. since[c] \in Nat /\ since[c] <= Long(c)
    BY DEF IInv, TypeOK
  <2>2. since'[c] = IF since[c] < Long(c) THEN since[c] + 1 ELSE Long(c)
    BY Zenon DEF Tick
  <2>3. Long(c) \in Nat
    BY TargetType
  <2> QED
    BY <2>1, <2>2, <2>3
<1>4. since' \in [Channels -> Nat] /\ \A c \in Channels : since'[c] <= Long(c)
  BY <1>3 DEF Tick
<1>5. TypeOK'
  BY <1>1, <1>2, <1>4 DEF IInv, TypeOK, session, data, Long
<1>6. ASSUME NEW c \in Channels, since'[c] # Long(c),
             0 <= age[c], PerMs * age[c] + phase < since[c] + PerMs
      PROVE  0 <= age'[c] /\ PerMs * age'[c] + phase' < since'[c] + PerMs
  <2> DEFINE q == (phase + 1) \div PerMs
             a == age[c] + q
  <2>1. since'[c] = since[c] + 1 /\ since[c] \in Nat
    BY <1>3, <1>6
  <2>2. /\ phase \in 0..(PerMs - 1) /\ age[c] \in Int /\ MaxAge \in Nat
        /\ PerMs \in Nat /\ PerMs > 0 /\ age[c] <= MaxAge
    BY <1>1, ClockAssumption DEF IInv, TypeOK
  <2>3. q \in Int /\ q >= 0 /\ phase + 1 = PerMs * q + phase' /\ phase' \in Nat
    BY <2>2, TicksSplit DEF Tick, Advance
  <2>4. age'[c] = IF a < MaxAge THEN a ELSE MaxAge
    BY DEF Tick, Advance
  <2> HIDE DEF q
  <2>5. PerMs * a = PerMs * age[c] + PerMs * q
    BY <2>2, <2>3, Z3
  <2>6. PerMs * age'[c] <= PerMs * a /\ age'[c] >= 0 /\ age'[c] \in Int
    <3>1. age'[c] <= a /\ age'[c] \in Int /\ age'[c] >= 0 /\ a \in Int
      BY <1>6, <2>2, <2>3, <2>4
    <3> HIDE DEF a
    <3> QED
      BY <2>2, <3>1, Z3
  <2> DEFINE new == PerMs * age'[c]
             old == PerMs * age[c]
             whole == PerMs * q
  <2>7. new \in Int /\ old \in Int /\ whole \in Int
    BY <2>2, <2>3, <2>6
  <2>8. new <= old + whole
    BY <2>5, <2>6
  <2>9. old + phase < since[c] + PerMs /\ phase + 1 = whole + phase'
    BY <1>6, <2>3
  <2> HIDE DEF new, old, whole
  <2>10. new + phase' < since'[c] + PerMs
    <3>1. phase \in Int /\ phase' \in Int /\ since[c] \in Int /\ PerMs \in Int
      BY <2>1, <2>2, <2>3
    <3>2. new + phase' < since[c] + 1 + PerMs
      BY <2>7, <2>8, <2>9, <3>1, StillBelow
    <3> QED
      BY <2>1, <3>2
  <2> QED
    BY <2>6, <2>10 DEF new
<1>7. RateInv'
  <2>1. ASSUME NEW c \in Channels, since[c] = Long(c) PROVE since'[c] = Long(c)
    BY <1>3, <2>1
  <2>2. /\ UNCHANGED <<pc, cur, elapsed>>
        /\ \A c \in Channels : Long(c)' = Long(c) /\ (Stamping(c) => Stamping(c)')
    BY <1>1 DEF session, data, Long, Stamping, IsDue
  <2>3. pc = "transmit" /\ elapsed # Unread /\ IsDue => cur \in Channels
    BY DEF IInv, TypeOK, LoopInv
  <2> QED
    BY <1>6, <2>1, <2>2, <2>3 DEF IInv, RateInv, IsDue, Long
<1> QED
  BY <1>1, <1>5, <1>7
  DEF IInv, LoopInv, ContentInv, FrameIsOwn, FramesKeepThePeriod, session, data

LEMMA SetClockIInv ==
  ASSUME IInv, NEW d \in (-MaxBack)..PerMs, SetClock(d)
  PROVE  IInv'
<1>1. /\ UNCHANGED <<session, data>> /\ back' \in 0..MaxBack /\ back' \in Nat
      /\ d \in Int /\ IF d < 0 THEN back' >= back - d ELSE back' >= back
  BY ClockAssumption DEF SetClock, IInv, TypeOK
<1>2. phase' \in 0..(PerMs - 1) /\ age' \in [Channels -> (-back')..MaxAge]
  BY <1>1, AdvanceType DEF SetClock
<1>3. \A c \in Channels : since'[c] = Long(c) /\ Long(c) \in Nat
  BY TargetType DEF SetClock
<1>4. TypeOK'
  <2>1. since' \in [Channels -> Nat] /\ \A c \in Channels : since'[c] <= Long(c)
    BY <1>3 DEF SetClock
  <2> QED
    BY <1>1, <1>2, <2>1 DEF IInv, TypeOK, session, data, Long
<1>5. RateInv'
  <2>1. pc' = "transmit" /\ elapsed' # Unread => cur' \in Channels
    BY <1>1 DEF IInv, TypeOK, LoopInv, session, data
  <2> QED
    BY <1>3, <2>1 DEF RateInv, Long
<1> QED
  BY <1>1, <1>4, <1>5
  DEF IInv, LoopInv, ContentInv, FrameIsOwn, FramesKeepThePeriod, session, data

-----------------------------------------------------------------------------
(* A turn of the loop of transmissions.                                    *)

\* What is read of a clock that was set back is a natural number all the same.
LEMMA ReadingType ==
  ASSUME NEW now \in Int, now >= -MaxBack, now <= MaxAge
  PROVE  Elapsed(now, 0) \in Nat
<1>1. MaxBack \in Nat /\ MaxAge \in Nat /\ Modulus \in Nat /\ MaxAge + MaxBack < Modulus
  BY ClockAssumption, ModulusAssumption
<1>2. CASE 0 <= now
  <2>1. 0 <= now - 0 /\ now - 0 < Modulus
    BY <1>1, <1>2
  <2>2. Elapsed(now, 0) = now - 0
    BY <2>1, ElapsedInOrder
  <2> QED
    BY <1>2, <2>2
<1>3. CASE now < 0
  <2>1. 0 - now <= Modulus
    BY <1>1
  <2>2. Elapsed(now, 0) = Modulus - (0 - now)
    BY <1>3, <2>1, ElapsedSetBack
  <2> QED
    BY <1>1, <1>3, <2>2
<1> QED
  BY <1>2, <1>3

\* The reading of the clock.
LEMMA TransmitReadIInv ==
  ASSUME IInv, TransmitRead
  PROVE  IInv'
<1>1. /\ cur \in Channels /\ pc = "transmit" /\ frame = NoFrame /\ elapsed = Unread
      /\ elapsed' = Elapsed(age[cur], 0)
      /\ UNCHANGED <<session, clock, content, writes, raw_data_buffer, frame>>
  BY DEF IInv, LoopInv, TransmitRead
<1>2. elapsed' \in Nat
  <2>1. /\ age[cur] \in Int /\ age[cur] >= -back /\ age[cur] <= MaxAge
        /\ back \in 0..MaxBack
    BY <1>1, ClockAssumption DEF IInv, TypeOK
  <2>2. age[cur] >= -MaxBack
    BY <2>1, ClockAssumption
  <2> QED
    BY <1>1, <2>1, <2>2, ReadingType
<1>3. TypeOK'
  BY <1>1, <1>2, EndIsNoChannel DEF IInv, TypeOK, session, clock, Long
<1>4. ASSUME Due(elapsed', Target(cur)) PROVE since[cur] = Long(cur)
  <2> SUFFICES ASSUME since[cur] # Long(cur) PROVE FALSE
    OBVIOUS
  <2>1. 0 <= age[cur] /\ PerMs * age[cur] + phase < since[cur] + PerMs
    BY <1>1 DEF IInv, RateInv, Stamping
  <2>2. /\ age[cur] \in 0..MaxAge /\ phase \in Nat /\ PerMs \in Nat
        /\ since[cur] \in Nat /\ since[cur] <= Long(cur) /\ Long(cur) \in Nat
    BY <1>1, <2>1, ClockAssumption, TargetType DEF IInv, TypeOK
  <2>3. age[cur] > Target(cur) /\ age[cur] \in Int
    BY <1>1, <1>4, <2>2, ElapsedIsAge DEF Due
  <2>4. Long(cur) + PerMs <= PerMs * age[cur] + phase + 1
    BY <1>1, <2>2, <2>3, LateIsLong
  <2> DEFINE m == PerMs * age[cur]
  <2>5. m \in Int /\ m + phase < since[cur] + PerMs /\ Long(cur) + PerMs <= m + phase + 1
    BY <2>1, <2>2, <2>3, <2>4
  <2> HIDE DEF m
  <2> QED
    BY <2>2, <2>5
<1>5. RateInv'
  BY <1>1, <1>4 DEF IInv, RateInv, Stamping, IsDue, Long, session, clock
<1> QED
  BY <1>1, <1>3, <1>5
  DEF IInv, LoopInv, ContentInv, FrameIsOwn, FramesKeepThePeriod, session, clock

\* The frame that a turn writes.
LEMMA TransmitSendIInv ==
  ASSUME IInv, TransmitSend
  PROVE  IInv'
<1>1. /\ cur \in Channels /\ cur' = cur /\ linked' = linked
      /\ pc = "transmit" /\ pc' = "transmit.next"
      /\ frame = NoFrame /\ elapsed # Unread
      /\ UNCHANGED <<content, writes, age, phase, back, elapsed>>
  BY DEF IInv, LoopInv, TypeOK, TransmitSend
<1>2. \A c \in Channels : ~Stamping(c) /\ (Stamping(c)' <=> c = cur /\ IsDue)
  BY <1>1 DEF Stamping, IsDue
<1>3. CASE /\ IsDue /\ Accepted(cur) /\ frame' # NoFrame
           /\ raw_data_buffer' = [channel |-> cur, version |-> content[cur].version]
           /\ frame' = [channel |-> cur, version |-> content[cur].version, gap |-> since[cur]]
           /\ since' = [since EXCEPT ![cur] = 0]
  <2>1. /\ since[cur] = Long(cur) /\ Long(cur) \in Nat
        /\ Long(cur) > PerMs * Target(cur)
    BY <1>1, <1>3, TargetType DEF IInv, RateInv
  <2>2. content[cur] \in [version : 0..writes, size : Nat] /\ content[cur].version > 0
    BY <1>1, <1>3, NothingIsRefused DEF IInv, TypeOK, ContentInv
  <2>3. /\ since' \in [Channels -> Nat]
        /\ \A c \in Channels : since'[c] <= Long(c) /\ (c # cur => since'[c] = since[c])
    BY <1>1, <1>3, <2>1 DEF IInv, TypeOK
  <2>4. TypeOK'
    BY <1>1, <1>3, <2>1, <2>2, <2>3, EndIsNoChannel DEF IInv, TypeOK, Long
  <2>5. RateInv'
    BY <1>1, <1>2, <1>3, <2>3 DEF IInv, RateInv, Long
  <2>6. FrameIsOwn' /\ FramesKeepThePeriod'
    BY <1>1, <1>3, <2>1, <2>2 DEF FrameIsOwn, FramesKeepThePeriod
  <2> QED
    BY <1>1, <2>4, <2>5, <2>6, EndIsNoChannel DEF IInv, LoopInv, ContentInv
<1>4. CASE /\ raw_data_buffer' \in {raw_data_buffer,
                                    [channel |-> cur, version |-> content[cur].version]}
           /\ UNCHANGED <<frame, since>>
  <2>1. content[cur] \in [version : 0..writes, size : Nat]
    BY <1>1 DEF IInv, TypeOK
  <2>2. TypeOK'
    BY <1>1, <1>4, <2>1, EndIsNoChannel DEF IInv, TypeOK, Long
  <2>3. RateInv'
    BY <1>1, <1>2, <1>4 DEF IInv, RateInv, Long
  <2> QED
    BY <1>1, <1>4, <2>2, <2>3
    DEF IInv, LoopInv, ContentInv, FrameIsOwn, FramesKeepThePeriod
<1> QED
  BY <1>1, <1>3, <1>4, EndIsNoChannel DEF TransmitSend, NoFrame

LEMMA TransmitNextIInv ==
  ASSUME IInv, TransmitNext
  PROVE  IInv'
<1>1. /\ pc = "transmit.next" /\ pc' = "transmit" /\ linked' = linked
      /\ elapsed' = Unread /\ frame' = NoFrame
      /\ UNCHANGED <<content, writes, raw_data_buffer, phase, back, since>>
  BY DEF TransmitNext
<1>2. cur' \in Channels \union {End} /\ cur \in Channels
  BY ContentAssumption
  DEF IInv, TypeOK, LoopInv, TransmitNext, S!NextChannel, S!End, End, Channels
<1>3. 0 \in (-back)..MaxAge
  BY ClockAssumption DEF IInv, TypeOK
<1>4. age' \in [Channels -> (-back)..MaxAge]
  BY <1>2, <1>3 DEF IInv, TypeOK, TransmitNext, Stamp
<1>5. \A c \in Channels : age'[c] = IF Stamping(c) THEN 0 ELSE age[c]
  BY <1>1, <1>2 DEF IInv, TypeOK, TransmitNext, Stamp, Stamping
<1>6. TypeOK'
  BY <1>1, <1>4 DEF IInv, TypeOK, NoFrame, Long
<1>7. RateInv'
  <2>1. ASSUME NEW c \in Channels, Stamping(c)
        PROVE  0 <= age'[c] /\ PerMs * age'[c] + phase' < since'[c] + PerMs
    <3>1. age'[c] = 0 /\ phase' \in 0..(PerMs - 1) /\ since'[c] \in Nat /\ PerMs \in Nat
      BY <1>1, <1>5, <2>1, ClockAssumption DEF IInv, TypeOK
    <3>2. PerMs * 0 = 0
      BY <3>1
    <3> QED
      BY <3>1, <3>2
  <2>2. \A c \in Channels : Long(c)' = Long(c) /\ (~Stamping(c) => age'[c] = age[c])
    BY <1>5 DEF Long
  <2> QED
    BY <1>1, <2>1, <2>2 DEF IInv, RateInv
<1> QED
  BY <1>1, <1>2, <1>6, <1>7 DEF IInv, LoopInv, ContentInv, FrameIsOwn, FramesKeepThePeriod

LEMMA NextIInv == IInv /\ [Next]_vars => IInv'
<1> SUFFICES ASSUME IInv, [Next]_vars PROVE IInv'
  OBVIOUS
<1>1. CASE Application
  BY <1>1, ApplicationIInv
<1>2. ASSUME NEW c \in Channels, WriteChannel(c) PROVE IInv'
  BY <1>2, WriteIInv
<1>3. CASE Tick
  BY <1>3, TickIInv
<1>4. ASSUME NEW d \in (-MaxBack)..PerMs, SetClock(d) PROVE IInv'
  BY <1>4, SetClockIInv
<1>5. CASE ServerStep
  BY <1>5, ServerIInv
<1>6. CASE TransmitRead \/ TransmitSend
  BY <1>6, TransmitReadIInv, TransmitSendIInv
<1>7. CASE TransmitNext
  BY <1>7, TransmitNextIInv
<1>8. CASE UNCHANGED vars
  BY <1>8 DEF IInv, TypeOK, LoopInv, ContentInv, RateInv, Stamping, IsDue, Long, FrameIsOwn,
              FramesKeepThePeriod, vars, session, clock, data
<1> QED
  BY <1>1, <1>2, <1>3, <1>4, <1>5, <1>6, <1>7, <1>8 DEF Next, Handler, ServerStep

LEMMA Invariance == Spec => []IInv
BY InitIInv, NextIInv, PTL DEF Spec

-----------------------------------------------------------------------------
\* Types, and a clock that lags behind the stamps by no more than it was set back.
THEOREM FoxdbgTypeCorrect == Spec => []TypeOK
<1>1. IInv => TypeOK
  BY DEF IInv
<1> QED
  BY <1>1, Invariance, PTL

\* Though all senders share one static buffer, a frame carries content that was
\* written to the channel it is sent for.
THEOREM FramesAreOwn == Spec => []FrameIsOwn
<1>1. IInv => FrameIsOwn
  BY DEF IInv
<1> QED
  BY <1>1, Invariance, PTL

\* Between two frames of a channel more than its target_tx_time passes, for any rates,
\* any grain of the clock and any order of the steps of the application, the
\* clients and time, unless the clock is set between them.
THEOREM PeriodIsKept == Spec => []FramesKeepThePeriod
<1>1. IInv => FramesKeepThePeriod
  BY DEF IInv
<1> QED
  BY <1>1, Invariance, PTL

-----------------------------------------------------------------------------
(* The composition implements FoxdbgSession.                               *)

LEMMA NothingToSend ==
  ASSUME NEW c \in Channels, content[c].size = 0
  PROVE  ~Sendable(c)
BY NothingIsRefused DEF Sendable

LEMMA InitSession == Init => S!Init
<1> SUFFICES ASSUME Init PROVE S!Init
  OBVIOUS
<1>1. [c \in Channels |-> Sendable(c)] = [c \in S!Channels |-> FALSE]
  <2>1. ASSUME NEW c \in Channels PROVE Sendable(c) = FALSE
    <3>1. ~Sendable(c)
      BY NothingToSend DEF Init
    <3> QED
      BY <3>1 DEF Sendable
  <2> QED
    BY <2>1 DEF S!Channels, Channels
<1> QED
  BY <1>1 DEF Init, S!Init, S!End, End, S!Channels, Channels

LEMMA NextSession ==
  ASSUME IInv, [Next]_vars
  PROVE  [S!Next]_S!vars
<1> DEFINE w == [c \in Channels |-> Sendable(c)]
<1>1. CASE Application
  BY <1>1 DEF Application, S!Next
<1>2. ASSUME NEW c \in Channels, WriteChannel(c) PROVE S!WriteChannel(c)
  <2>1. w' = [w EXCEPT ![c] = Sendable(c)']
    <3>1. ASSUME NEW d \in Channels, d # c PROVE Sendable(d)' = Sendable(d)
      <4>1. content'[d] = content[d]
        BY <1>2, <3>1 DEF WriteChannel, IInv, TypeOK
      <4> QED
        BY <4>1 DEF Sendable, Accepted, Fits
    <3>2. \A d \in Channels : w'[d] = IF d = c THEN Sendable(c)' ELSE w[d]
      BY <3>1
    <3> QED
      BY <3>2
  <2>2. Sendable(c)' \in BOOLEAN
    BY DEF Sendable, Accepted, Fits, SenderAccepts
  <2> QED
    BY <1>2, <2>1, <2>2
    DEF WriteChannel, session, S!WriteChannel, S!lws, S!protocol, S!thread, S!history
<1>3. ASSUME UNCHANGED <<session, content>> PROVE UNCHANGED S!vars
  <2>1. UNCHANGED w
    BY <1>3 DEF Sendable, Accepted, Fits
  <2> QED
    BY <1>3, <2>1 DEF session, S!vars, S!app, S!lws, S!protocol, S!thread, S!history
<1>4. CASE ServerStep
  BY <1>4 DEF ServerStep, Callback, Writeable, Walk, Exit, S!Next, S!Handler
<1>5. CASE TransmitSend
  <2>1. cur \in Channels /\ cur # End /\ pc = "transmit"
    BY <1>5 DEF IInv, TypeOK, LoopInv, TransmitSend
  <2>2. UNCHANGED w
    BY <1>5 DEF TransmitSend, Sendable, Accepted, Fits
  <2>3. S!Sends(cur) <=> sub[cur] >= 0 /\ Sendable(cur)
    BY <2>1 DEF S!Sends
  <2>4. \/ /\ S!Sends(cur) /\ client # NoConn
           /\ sent' = [to |-> client, id |-> sub[cur], channel |-> cur]
        \/ UNCHANGED sent
    BY <1>5, <2>3 DEF TransmitSend, Sendable
  <2>5. S!TransmitSend
    BY <1>5, <2>1, <2>2, <2>4
    DEF TransmitSend, S!TransmitSend, S!app, S!lws, S!protocol, S!End, End
  <2> QED
    BY <2>5 DEF S!Next, S!Handler
<1>6. CASE TransmitNext
  <2>1. UNCHANGED w
    BY <1>6 DEF TransmitNext, Sendable, Accepted, Fits
  <2>2. S!TransmitNext
    BY <1>6, <2>1 DEF TransmitNext, S!TransmitNext, S!app, S!lws, S!protocol, S!history
  <2> QED
    BY <2>2 DEF S!Next, S!Handler
<1>7. CASE \/ TransmitRead \/ Tick \/ \E d \in (-MaxBack)..PerMs : SetClock(d)
           \/ UNCHANGED vars
  BY <1>3, <1>7 DEF TransmitRead, Tick, SetClock, vars, data
<1>8. CASE \E c \in Channels : WriteChannel(c)
  BY <1>2, <1>8 DEF S!Next, S!Channels, Channels
<1> QED
  BY <1>1, <1>4, <1>5, <1>6, <1>7, <1>8 DEF Next, Handler, ServerStep

\* With contents, types, periods and a clock instead of a Boolean per channel,
\* the server still does nothing that FoxdbgSession does not.
THEOREM FoxdbgImplementsSession == Spec => ImplementsSession
BY InitSession, NextSession, Invariance, PTL DEF Spec, ImplementsSession, S!Spec

-----------------------------------------------------------------------------
(* What is proved of the server holds of the composition.                  *)

\* FoxdbgSession with the substitution of Foxdbg, and with its theorems.
Server == INSTANCE FoxdbgSessionProofs WITH written <- [c \in Channels |-> Sendable(c)]

LEMMA ServerConstants == Server!SessionAssumption
BY ServerAssumption
DEF S!SessionAssumption, Server!SessionAssumption

\* The two instances have the same initial states and the same steps.
LEMMA SameInit == S!Init <=> Server!Init
BY DEF S!Init, Server!Init, S!Channels, Server!Channels, S!End, Server!End

LEMMA SameVars == S!vars = Server!vars /\ S!vars' = Server!vars'
BY DEF S!vars, Server!vars, S!app, Server!app, S!lws, Server!lws, S!protocol,
       Server!protocol, S!thread, Server!thread, S!history, Server!history

LEMMA SameNext == S!Next <=> Server!Next
<1> USE DEF S!app, Server!app, S!lws, Server!lws, S!protocol, Server!protocol,
            S!thread, Server!thread, S!history, Server!history, S!FirstChannel,
            Server!FirstChannel, S!NextChannel, Server!NextChannel, S!Opened,
            Server!Opened, S!Callback, Server!Callback, S!Matches, Server!Matches,
            S!Sends, Server!Sends, S!Channels, Server!Channels, S!End, Server!End
<1>1. S!AddChannel <=> Server!AddChannel
  BY DEF S!AddChannel, Server!AddChannel
<1>2. S!Stop <=> Server!Stop
  BY DEF S!Stop, Server!Stop
<1>3. S!DisconnectStep <=> Server!DisconnectStep
  BY DEF S!DisconnectStep, Server!DisconnectStep
<1>4. S!DisconnectReturn <=> Server!DisconnectReturn
  BY DEF S!DisconnectReturn, Server!DisconnectReturn
<1>5. S!AdvertiseStep <=> Server!AdvertiseStep
  BY DEF S!AdvertiseStep, Server!AdvertiseStep
<1>6. S!AdvertiseSend <=> Server!AdvertiseSend
  BY DEF S!AdvertiseSend, Server!AdvertiseSend
<1>7. S!Exit <=> Server!Exit
  BY DEF S!Exit, Server!Exit
<1>8. S!TakeElement <=> Server!TakeElement
  BY DEF S!TakeElement, Server!TakeElement
<1>9. S!ReceiveReturn <=> Server!ReceiveReturn
  BY DEF S!ReceiveReturn, Server!ReceiveReturn
<1>10. S!FindStep <=> Server!FindStep
  BY DEF S!FindStep, Server!FindStep
<1>11. S!FindEnd <=> Server!FindEnd
  BY DEF S!FindEnd, Server!FindEnd
<1>12. S!TransmitSend <=> Server!TransmitSend
  BY DEF S!TransmitSend, Server!TransmitSend
<1>13. S!TransmitNext <=> Server!TransmitNext
  BY DEF S!TransmitNext, Server!TransmitNext
<1>14. S!TransmitReturn <=> Server!TransmitReturn
  BY DEF S!TransmitReturn, Server!TransmitReturn
<1>15. \A w \in Conns : S!Established(w) <=> Server!Established(w)
  BY DEF S!Established, Server!Established, S!Cardinality, Server!Cardinality
<1>16. \A w \in Conns : S!Closed(w) <=> Server!Closed(w)
  BY DEF S!Closed, Server!Closed
<1>17. \A w \in Conns : S!Drop(w) <=> Server!Drop(w)
  BY DEF S!Drop, Server!Drop
<1>18. \A w \in Conns : S!ReceiveSubscribe(w) <=> Server!ReceiveSubscribe(w)
  BY DEF S!ReceiveSubscribe, Server!ReceiveSubscribe
<1>19. \A w \in Conns : S!ReceiveUnsubscribe(w) <=> Server!ReceiveUnsubscribe(w)
  BY DEF S!ReceiveUnsubscribe, Server!ReceiveUnsubscribe
<1>20. \A w \in Conns : S!Writeable(w) <=> Server!Writeable(w)
  BY DEF S!Writeable, Server!Writeable
<1>21. \A c \in S!Channels : S!WriteChannel(c) <=> Server!WriteChannel(c)
  BY DEF S!WriteChannel, Server!WriteChannel
<1> HIDE DEF S!app, Server!app, S!lws, Server!lws, S!protocol, Server!protocol,
             S!thread, Server!thread, S!history, Server!history, S!FirstChannel,
             Server!FirstChannel, S!NextChannel, Server!NextChannel, S!Opened,
             Server!Opened, S!Callback, Server!Callback, S!Matches, Server!Matches,
             S!Sends, Server!Sends, S!End, Server!End
<1> QED
  BY <1>1, <1>2, <1>3, <1>4, <1>5, <1>6, <1>7, <1>8, <1>9, <1>10, <1>11,
     <1>12, <1>13, <1>14, <1>15, <1>16, <1>17, <1>18, <1>19, <1>20, <1>21
  DEF S!Next, Server!Next, S!Handler, Server!Handler

\* The server of the composition is a server of FoxdbgSession.
LEMMA IsServer == Spec => Server!Spec
<1>1. [S!Next]_S!vars => [Server!Next]_Server!vars
  BY SameNext, SameVars
<1> QED
  BY <1>1, FoxdbgImplementsSession, SameInit, PTL DEF ImplementsSession, S!Spec, Server!Spec

\* No announcement and no frame of a channel's content is written through a
\* pointer to a connection that lws has closed.
THEOREM FramesGoToOpenConnections == Spec => []S!WritesOnlyToOpen
<1>1. S!WritesOnlyToOpen <=> Server!WritesOnlyToOpen
  BY DEF S!WritesOnlyToOpen, Server!WritesOnlyToOpen
<1>2. Server!Spec => []Server!WritesOnlyToOpen
  BY Server!WritesGoToOpenConnections, ServerConstants, PTL
<1> QED
  BY <1>1, <1>2, IsServer, PTL

\* Frames are for the connection that was established last.
THEOREM FramesGoToTheLatest == Spec => []S!LatestConnectionWins
<1>1. S!LatestConnectionWins <=> Server!LatestConnectionWins
  BY DEF S!LatestConnectionWins, Server!LatestConnectionWins
<1>2. Server!Spec => []Server!LatestConnectionWins
  BY Server!TheClientIsTheLatest, ServerConstants, PTL
<1> QED
  BY <1>1, <1>2, IsServer, PTL

\* When its connect handler has returned, an open connection has been told of all
\* the channels that existed when it connected, or of none because their
\* announcement is too long.
THEOREM ChannelsAreAnnounced == Spec => []S!AdvertisedAtConnect
<1>1. S!AdvertisedAtConnect <=> Server!AdvertisedAtConnect
  BY DEF S!AdvertisedAtConnect, Server!AdvertisedAtConnect, S!TooLongFor, Server!TooLongFor
<1>2. Server!Spec => []Server!AdvertisedAtConnect
  BY Server!AnnouncementsAreComplete, ServerConstants, PTL
<1> QED
  BY <1>1, <1>2, IsServer, PTL

\* No content, size, rate or clock ends the transmissions to an open connection.
THEOREM FramesGoOn == Spec => []S!TransmitLoopAlive
<1>1. S!TransmitLoopAlive <=> Server!TransmitLoopAlive
  BY DEF S!TransmitLoopAlive, Server!TransmitLoopAlive, S!Opened, Server!Opened
<1>2. Server!Spec => []Server!TransmitLoopAlive
  BY Server!TransmissionGoesOn, ServerConstants, PTL
<1> QED
  BY <1>1, <1>2, IsServer, PTL

\* When clients come one at a time, content is sent under the subscription that
\* this client made: the composition implements the session of one client.
THEOREM FramesAreOfTheSession ==
  ASSUME MaxOpen = 1, IsFiniteSet(Conns)
  PROVE  Spec => S!ImplementsClientSession
<1>1. Server!OneAtATime
  BY DEF Server!OneAtATime, Server!IsFiniteSet, IsFiniteSet
<1>2. Server!Spec => Server!ImplementsClientSession
  BY Server!SessionsAreOwn, ServerConstants, <1>1, PTL
<1>3. S!ImplementsClientSession <=> Server!ImplementsClientSession
  <2> USE DEF S!CS!NoSubs, Server!CS!NoSubs, S!CS!NoFrame, Server!CS!NoFrame,
              S!Channels, Server!Channels
  <2>1. S!CS!SInit <=> Server!CS!SInit
    BY DEF S!CS!SInit, Server!CS!SInit
  <2>2. [S!CS!SNext]_(S!CS!svars) <=> [Server!CS!SNext]_(Server!CS!svars)
    BY DEF S!CS!SNext, Server!CS!SNext, S!CS!svars, Server!CS!svars,
           S!CS!Join, Server!CS!Join, S!CS!Leave, Server!CS!Leave,
           S!CS!Subscribe, Server!CS!Subscribe, S!CS!Unsubscribe, Server!CS!Unsubscribe,
           S!CS!Deliver, Server!CS!Deliver
  <2> QED
    BY <2>1, <2>2, PTL
    DEF S!ImplementsClientSession, Server!ImplementsClientSession, S!CS!SSpec, Server!CS!SSpec
<1> QED
  BY <1>2, <1>3, IsServer, PTL
=============================================================================
