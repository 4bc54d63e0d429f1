-------------------------- MODULE MCFoxdbgSession --------------------------
(***************************************************************************)
(* Instances of FoxdbgSession for TLC.                                     *)
(***************************************************************************)
EXTENDS FoxdbgSession, TLC

CONSTANTS w1, w2, bad

Pair(id, c) == [id |-> id, channelId |-> c]

\* One subscription; two in one message; one of a channel that does not exist,
\* or that throws, before a good one.
MCSubscribeLists ==
  {<<Pair(0, 0)>>, <<Pair(1, 1)>>, <<Pair(0, 0), Pair(1, 1)>>,
   <<Pair(0, MaxChannels), Pair(1, 0)>>, <<bad, Pair(0, 1)>>}

MCUnsubscribeLists == {<<0>>, <<1>>, <<bad, 1, 0>>}

\* The smallest conversation: one channel at a time, one subscription dropped.
MCOneEach == {<<Pair(0, c)>> : c \in Channels}

MCDropFirst == {<<0>>}

\* All announcements fit, or only those of fewer channels than the list may hold.
MCAllFit == SUBSET Channels

MCAllButOneFit == {L \in SUBSET Channels : Cardinality(L) < MaxChannels}

\* Connections are interchangeable; only safety is checked under it.
Symmetry == Permutations(Conns)
=============================================================================
