------------------------- MODULE FoxdbgPacingProofs -------------------------
(***************************************************************************)
(* What the pacing of foxdbg guarantees for every rate and every clock.    *)
(***************************************************************************)
EXTENDS FoxdbgPacing, TLAPS

\* While the clock is not behind the stamp, elapsed is the time that passed.
LEMMA ElapsedInOrder ==
  ASSUME NEW now \in Int, NEW last \in Int, 0 <= now - last, now - last < Modulus
  PROVE  Elapsed(now, last) = now - last
BY ModulusAssumption, Z3 DEF Elapsed

\* When the clock was set back behind the stamp, elapsed wraps.
LEMMA ElapsedSetBack ==
  ASSUME NEW now \in Int, NEW last \in Int, now < last, last - now <= Modulus
  PROVE  Elapsed(now, last) = Modulus - (last - now)
<1> DEFINE d == now - last
<1>1. /\ d \in Int /\ Modulus \in Int /\ Modulus > 0
      /\ 0 <= d + Modulus /\ d + Modulus < Modulus
  BY ModulusAssumption
<1>2. d % Modulus = d + Modulus
  BY <1>1, Z3
<1> QED
  BY <1>2, ModulusAssumption DEF Elapsed

\* The period of a rate that makes sense is the whole number of milliseconds in it.
LEMMA TargetOfRate ==
  ASSUME NEW hz \in Int, 1 <= hz, hz <= 1000
  PROVE  TargetTxTime(hz) = 1000 \div hz /\ TargetTxTime(hz) \in 1..1000
<1>1. (1000 \div hz) \in 1..1000
  BY Z3
<1> QED
  BY <1>1, ModulusAssumption, Z3 DEF TargetTxTime, Quotient

\* An integer is above a quotient rounded down exactly when its product is above the
\* dividend.
LEMMA AboveQuotient ==
  ASSUME NEW hz \in Int, 1 <= hz, hz <= 1000, NEW t \in Int
  PROVE  t > 1000 \div hz <=> t * hz > 1000
<1> DEFINE q == 1000 \div hz
<1>1. q \in Int /\ hz * q <= 1000 /\ 1000 < hz * q + hz
  BY Z3
<1> HIDE DEF q
<1>2. ASSUME t > q PROVE t * hz > 1000
  BY <1>1, <1>2, Z3
<1>3. ASSUME t <= q PROVE t * hz <= 1000
  BY <1>1, <1>3, Z3
<1> QED
  BY <1>1, <1>2, <1>3 DEF q

\* The division rounds the period down, and the strict comparison makes up for it:
\* a channel is due from the first reading of the clock on that is more than
\* 1 / target_hz seconds after the reading it was stamped with, neither before nor
\* after it.  Readings are whole milliseconds: of the time between the two moments
\* they say no more than FramesKeepThePeriod does.
THEOREM DueAtTheRate ==
  ASSUME NEW hz \in Int, 1 <= hz, hz <= 1000, NEW now \in Int, NEW last \in Int,
         0 <= now - last, now - last < Modulus
  PROVE  Due(Elapsed(now, last), TargetTxTime(hz)) <=> (now - last) * hz > 1000
<1>1. Elapsed(now, last) = now - last
  BY ElapsedInOrder
<1>2. TargetTxTime(hz) = 1000 \div hz
  BY TargetOfRate
<1>3. now - last \in Int
  OBVIOUS
<1> QED
  BY <1>1, <1>2, <1>3, AboveQuotient DEF Due

\* A rate above the grain of the clock makes a period of zero: such a channel is
\* due in every millisecond but that of its latest stamp, so at most at 1000 Hz.
THEOREM FastRateIsDueEveryTick ==
  ASSUME NEW hz \in Int, hz > 1000, NEW now \in Int, NEW last \in Int,
         -Modulus < now - last, now - last < Modulus
  PROVE  Due(Elapsed(now, last), TargetTxTime(hz)) <=> now # last
<1>1. 1000 \div hz = 0
  BY Z3
<1>2. TargetTxTime(hz) = 0
  BY <1>1, ModulusAssumption, Z3 DEF TargetTxTime, Quotient
<1>3. ASSUME 0 <= now - last PROVE Elapsed(now, last) = now - last
  BY <1>3, ElapsedInOrder
<1>4. ASSUME now - last < 0 PROVE Elapsed(now, last) > 0
  <2>1. Elapsed(now, last) = Modulus - (last - now)
    BY <1>4, ElapsedSetBack, ModulusAssumption
  <2> QED
    BY <2>1, ModulusAssumption
<1> QED
  BY <1>2, <1>3, <1>4 DEF Due

\* A wall clock that is set back cannot stall a channel: the unsigned difference
\* wraps, and the channel is due at once instead of after the time set back.
THEOREM SetBackIsDueAtOnce ==
  ASSUME NEW hz \in Int, 1 <= hz, hz <= 1000, NEW now \in Int, NEW last \in Int,
         now < last, last - now < Modulus - 1000
  PROVE  Due(Elapsed(now, last), TargetTxTime(hz))
<1>1. Elapsed(now, last) = Modulus - (last - now)
  BY ElapsedSetBack, ModulusAssumption
<1>2. TargetTxTime(hz) \in 1..1000
  BY TargetOfRate
<1> QED
  BY <1>1, <1>2, ModulusAssumption DEF Due

\* A negative target_hz converts to a period of almost 2^64 milliseconds: with a
\* clock that is not set back such a channel is never due.
THEOREM NegativeRateIsNeverDue ==
  ASSUME NEW hz \in -1000..-1, NEW now \in Int, NEW last \in Int,
         0 <= now - last, now - last < Modulus - 1000
  PROVE  ~Due(Elapsed(now, last), TargetTxTime(hz))
<1>1. (1000 \div (-hz)) \in 1..1000
  BY Z3
<1>2. TargetTxTime(hz) = (-(1000 \div (-hz))) % Modulus
  BY DEF TargetTxTime, Quotient
<1>3. TargetTxTime(hz) \in Int /\ TargetTxTime(hz) >= Modulus - 1000
  <2> DEFINE q == 1000 \div (-hz)
  <2>1. q \in 1..1000 /\ Modulus \in Int /\ Modulus > 1000
    BY <1>1, ModulusAssumption
  <2> HIDE DEF q
  <2>2. (-q) % Modulus = Modulus - q
    BY <2>1, Z3
  <2> QED
    BY <1>2, <2>1, <2>2 DEF q
<1>4. Elapsed(now, last) = now - last
  BY ElapsedInOrder, ModulusAssumption
<1> QED
  BY <1>3, <1>4, ModulusAssumption DEF Due
=============================================================================
