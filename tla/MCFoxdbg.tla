------------------------------ MODULE MCFoxdbg ------------------------------
(***************************************************************************)
(* Instances of Foxdbg for TLC.                                            *)
(***************************************************************************)
EXTENDS Foxdbg, TLC

\* A list of elements, then a single value.
MCType == [c \in Channels |-> IF c = 0 THEN "CUBES" ELSE "FLOAT"]

\* Periods of a millisecond.
MCFast == [c \in Channels |-> 1000]

\* A period of 2.5 milliseconds, which is rounded down, and one of 1.
MCTargetHz == [c \in Channels |-> IF c = 0 THEN 400 ELSE 1000]

\* One element, or two, whose text does not fit; a number, or a byte too many.
MCSizes == [c \in Channels |-> IF c = 0 THEN {52, 104} ELSE {4, 5}]

\* The client subscribes one channel at a time, and may drop its subscriptions.
MCSubscribe == {<<[id |-> 0, channelId |-> c]>> : c \in Channels}
MCUnsubscribe == {<<0>>}

MCAllFit == SUBSET Channels
=============================================================================
