------------------------------- MODULE Foxdbg -------------------------------
(***************************************************************************)
(* From a write of the application to a frame at the client: the server    *)
(* thread of FoxdbgSession, with the content of the channels (each a       *)
(* latest-value cell, which FoxdbgBuffer implements), the types that       *)
(* decide what a sender accepts (FoxdbgTypes) and the clock that paces the *)
(* frames (FoxdbgPacing) in the place of its variable written and of its   *)
(* free choice of the channels that are due.                               *)
(*                                                                         *)
(* Time passes in ticks, PerMs of them in a millisecond; the clock is read *)
(* in whole milliseconds.  Nothing compares readings but now -             *)
(* last_tx_time, so a channel keeps that difference; it stays at MaxAge    *)
(* when it is larger.                                                      *)
(***************************************************************************)
EXTENDS FoxdbgTypes, FoxdbgPacing, Sequences, FiniteSets

CONSTANTS
  Conns, NoConn, MaxOpen, MaxChannels, SubIds,
  SubscribeLists, UnsubscribeLists, Malformed, Announceable,  \* as in FoxdbgSession
  Type,         \* Type[c]: channel_type of channel c
  TargetHz,     \* TargetHz[c]: target_hz of channel c
  MaxElements,  \* elements whose text fits tx_buffer
  Sizes,        \* Sizes[c]: sizes of the writes to channel c
  MaxWrites,    \* bound: write calls
  PerMs,        \* ticks in a millisecond
  MaxBack,      \* bound: ticks that the clock is set back in all
  MaxAge        \* bound: milliseconds that are told apart

Channels == 0..(MaxChannels - 1)
End == MaxChannels

\* target_tx_time of channel c
Target(c) == TargetTxTime(TargetHz[c])

\* An image has two cells (FoxdbgImage), a point cloud is read twice (FoxdbgBuffer).
ASSUME ContentAssumption ==
  /\ MaxChannels \in Nat \ {0}
  /\ Type \in [Channels -> Types \ {"IMAGE", "POINTCLOUD"}]
  /\ Sizes \in [Channels -> SUBSET Nat]
  /\ MaxElements \in Nat \ {0} /\ MaxWrites \in Nat

\* A difference that is cut at MaxAge is due, also after the clock is set back.
ASSUME ClockAssumption ==
  /\ TargetHz \in [Channels -> 1..1000]
  /\ PerMs \in Nat \ {0}
  /\ MaxBack \in Nat /\ MaxAge \in Nat
  /\ MaxAge + MaxBack < Modulus
  /\ \A c \in Channels : /\ MaxAge - MaxBack > Target(c)
                         /\ Modulus - MaxBack > Target(c)

VARIABLES
  linked, running, conn, armed, client, sub, pc, wsi, cur, todo, listed,
  advertised, had, newest, sent,                    \* as in FoxdbgSession
  content,      \* content[c]: version and populated size
  writes,       \* number of write calls
  age,          \* age[c]: now - last_tx_time of channel c, up to MaxAge
  phase,        \* ticks since the clock began to read its millisecond
  back,         \* ticks that the clock was set back
  raw_data_buffer,  \* static: the content that was copied last, and its channel
  elapsed,      \* local of the loop, Unread before the clock is read
  \* History, read by no guard:
  frame,        \* the frame that the current turn of the loop wrote, and the time
                \* since the one before it of that channel
  since         \* since[c]: ticks since the latest frame of c, up to Long(c)

session == <<linked, running, conn, armed, client, sub, pc, wsi, cur, todo, listed,
             advertised, had, newest, sent>>
clock == <<age, phase, back, since>>
data == <<content, writes, raw_data_buffer, elapsed, frame>>
vars == <<session, clock, data>>

NoFrame == [channel |-> End, version |-> 0, gap |-> 0]
Unread == -1

-----------------------------------------------------------------------------
\* elapsed > current->target_tx_time
IsDue == Due(elapsed, Target(cur))

\* A time since the last frame of c that is long enough.
Long(c) == PerMs * Target(c) + 1

\* The sender of c goes on with the content, and its message fits tx_buffer.
Accepted(c) == SenderAccepts(Type[c], content[c].size)
Fits(c) == content[c].size <= MaxElements * ElementSize[Type[c]]
Sendable(c) == Accepted(c) /\ Fits(c)

S == INSTANCE FoxdbgSession WITH written <- [c \in Channels |-> Sendable(c)]

ASSUME ServerAssumption == S!SessionAssumption

Init ==
  /\ linked = 0 /\ running = TRUE
  /\ conn = [w \in Conns |-> "none"] /\ armed = [w \in Conns |-> FALSE]
  /\ client = NoConn /\ sub = [c \in Channels |-> -1]
  /\ pc = "service" /\ wsi = NoConn /\ cur = End /\ todo = <<>> /\ listed = {}
  /\ advertised = [w \in Conns |-> {}] /\ had = [w \in Conns |-> 0]
  /\ newest = NoConn /\ sent = [to |-> NoConn, id |-> -1, channel |-> -1]
  /\ content = [c \in Channels |-> [version |-> 0, size |-> 0]]
  /\ writes = 0
  /\ age = [c \in Channels |-> MaxAge] /\ phase = 0 /\ back = 0
  /\ raw_data_buffer = [channel |-> End, version |-> 0]
  /\ elapsed = Unread
  /\ frame = NoFrame
  /\ since = [c \in Channels |-> Long(c)]

-----------------------------------------------------------------------------
(* The application and the clock.                                          *)

\* foxdbg_write_channel: what exceeds the data buffer is replaced by nothing.
WriteChannel(c) ==
  /\ c < linked
  /\ writes < MaxWrites
  /\ writes' = writes + 1
  /\ \E n \in Sizes[c] :
       content' = [content EXCEPT ![c] =
         [version |-> writes + 1, size |-> IF n <= PayloadSize(Type[c]) THEN n ELSE 0]]
  /\ UNCHANGED <<session, clock, raw_data_buffer, elapsed, frame>>

\* foxdbg_add_channel and foxdbg_shutdown.
Application ==
  /\ UNCHANGED <<clock, data>>
  /\ S!AddChannel \/ S!Stop

\* The clock goes d ticks on; what it reads is cut at MaxAge.
Advance(d) ==
  /\ phase' = (phase + d) % PerMs
  /\ age' = [c \in Channels |->
               LET now == age[c] + (phase + d) \div PerMs IN IF now < MaxAge THEN now ELSE MaxAge]

\* A tick passes.
Tick ==
  /\ Advance(1)
  /\ since' = [c \in Channels |-> IF since[c] < Long(c) THEN since[c] + 1 ELSE Long(c)]
  /\ UNCHANGED <<session, back, data>>

\* The wall clock is set d ticks forward, or back when d is negative; setting it by
\* more is several of these.  What is promised of the rate does not span that.
SetClock(d) ==
  /\ d < 0 => back - d <= MaxBack
  /\ back' = IF d < 0 THEN back - d ELSE back
  /\ Advance(d)
  /\ since' = [c \in Channels |-> Long(c)]
  /\ UNCHANGED <<session, data>>

-----------------------------------------------------------------------------
(* The server thread.                                                      *)

\* A callback of connection w begins, or lws drops w.
Callback(w) ==
  /\ UNCHANGED <<clock, data>>
  /\ \/ S!Established(w) \/ S!Closed(w) \/ S!Drop(w)
     \/ S!ReceiveSubscribe(w) \/ S!ReceiveUnsubscribe(w)

Writeable(w) == UNCHANGED <<clock, data>> /\ S!Writeable(w)

\* One channel of the loop: the clock is read.
TransmitRead ==
  /\ pc = "transmit"
  /\ cur # End
  /\ elapsed = Unread
  /\ elapsed' = Elapsed(age[cur], 0)
  /\ UNCHANGED <<session, clock, content, writes, raw_data_buffer, frame>>

\* Mutant: a refused size does not return.
BugTransmitSend ==
  /\ pc = "transmit"
  /\ elapsed # Unread
  /\ IF sub[cur] >= 0 /\ IsDue
     THEN /\ raw_data_buffer' = IF Accepted(cur)
                                THEN [channel |-> cur, version |-> content[cur].version]
                                ELSE raw_data_buffer
          /\ IF Fits(cur) /\ client # NoConn
             THEN /\ sent' = [to |-> client, id |-> sub[cur], channel |-> cur]
                  /\ frame' = [channel |-> raw_data_buffer'.channel,
                               version |-> raw_data_buffer'.version, gap |-> since[cur]]
                  /\ since' = [since EXCEPT ![cur] = 0]
             ELSE UNCHANGED <<sent, frame, since>>
     ELSE UNCHANGED <<raw_data_buffer, sent, frame, since>>
  /\ pc' = "transmit.next"
  /\ UNCHANGED <<linked, running, conn, armed, client, sub, wsi, cur, todo, listed,
                 advertised, had, newest, content, writes, age, phase, back, elapsed>>

\* When the channel is subscribed and due, its sender copies the content, unless it
\* refuses the size, and writes the frame it makes from the copy.
TransmitSend ==
  /\ pc = "transmit"
  /\ elapsed # Unread
  /\ IF sub[cur] >= 0 /\ IsDue /\ Accepted(cur)
     THEN /\ raw_data_buffer' = [channel |-> cur, version |-> content[cur].version]
          /\ IF Fits(cur) /\ client # NoConn
             THEN /\ sent' = [to |-> client, id |-> sub[cur], channel |-> cur]
                  /\ frame' = [channel |-> raw_data_buffer'.channel,
                               version |-> raw_data_buffer'.version, gap |-> since[cur]]
                  /\ since' = [since EXCEPT ![cur] = 0]
             ELSE UNCHANGED <<sent, frame, since>>
     ELSE UNCHANGED <<raw_data_buffer, sent, frame, since>>
  /\ pc' = "transmit.next"
  /\ UNCHANGED <<linked, running, conn, armed, client, sub, wsi, cur, todo, listed,
                 advertised, had, newest, content, writes, age, phase, back, elapsed>>

\* Mutant: last_tx_time is the time that was read before the sender was called.
BugStamp == IF IsDue THEN [age EXCEPT ![cur] = @ - elapsed] ELSE age

\* Mutant: last_tx_time is when the channel is due next.
BugStampNext == IF IsDue THEN [age EXCEPT ![cur] = -Target(cur)] ELSE age

\* The same elapsed decides whether last_tx_time is set, to what the clock reads now.
Stamp == IF IsDue THEN [age EXCEPT ![cur] = 0] ELSE age

TransmitNext ==
  /\ pc = "transmit.next"
  /\ age' = Stamp
  /\ elapsed' = Unread
  /\ frame' = NoFrame
  /\ cur' = S!NextChannel(cur)
  /\ pc' = "transmit"
  /\ UNCHANGED <<linked, running, conn, armed, client, sub, wsi, todo, listed,
                 advertised, had, newest, sent, content, writes, raw_data_buffer,
                 phase, back, since>>

\* The other steps of a handler that has begun.
Walk ==
  /\ UNCHANGED <<clock, data>>
  /\ \/ S!DisconnectStep \/ S!DisconnectReturn
     \/ S!AdvertiseStep \/ S!AdvertiseSend
     \/ S!TakeElement \/ S!ReceiveReturn \/ S!FindStep \/ S!FindEnd
     \/ S!TransmitReturn

Handler == Walk \/ TransmitRead \/ TransmitSend \/ TransmitNext

Exit == UNCHANGED <<clock, data>> /\ S!Exit

Next ==
  \/ Application
  \/ \E c \in Channels : WriteChannel(c)
  \/ Tick
  \/ \E d \in (-MaxBack)..PerMs : SetClock(d)
  \/ \E w \in Conns : Callback(w) \/ Writeable(w)
  \/ Handler
  \/ Exit

Spec == Init /\ [][Next]_vars

\* Time passes, a handler that has begun runs to its end, and lws_service gives
\* every connection that is writeable its turn among the other events.
Fairness ==
  /\ WF_vars(Tick)
  /\ WF_vars(Handler)
  /\ \A w \in Conns : SF_vars(Writeable(w))

FairSpec == Spec /\ Fairness

-----------------------------------------------------------------------------
(* Properties.                                                             *)

\* Every variable keeps its type; the clock is not behind a stamp by more than it
\* was set back, and the clock is read for a channel of the list.
TypeOK ==
  /\ content \in [Channels -> [version : 0..writes, size : Nat]]
  /\ writes \in 0..MaxWrites
  /\ age \in [Channels -> (-back)..MaxAge]
  /\ phase \in 0..(PerMs - 1)
  /\ back \in 0..MaxBack
  /\ raw_data_buffer \in [channel : Channels \union {End}, version : 0..writes]
  /\ elapsed \in Nat \union {Unread}
  /\ elapsed # Unread => pc \in {"transmit", "transmit.next"} /\ cur # End
  /\ frame \in [channel : Channels \union {End}, version : 0..writes, gap : Nat]
  /\ since \in [Channels -> Nat] /\ \A c \in Channels : since[c] <= Long(c)

\* The senders of all channels share raw_data_buffer: a frame carries content of
\* the channel it is sent for, and of a write that the channel has seen.
FrameIsOwn ==
  frame # NoFrame =>
    /\ frame.channel = cur
    /\ 0 < frame.version /\ frame.version <= content[cur].version

\* Between two frames of a channel more than its target_tx_time passes, although the
\* clock is read in whole milliseconds and time passes from its reading to the
\* frame and from the frame to the stamp, whatever else happens between them: other
\* channels, subscriptions, frames not sent.  A clock that is set between them is
\* the exception; and target_tx_time is itself up to a millisecond shorter than
\* 1 / target_hz.
FramesKeepThePeriod == frame # NoFrame => frame.gap > PerMs * Target(cur)

\* A channel that stays subscribed by a client that stays, with content to send,
\* is sent again and again with the content of its latest write, also after the
\* clock was set back.
SubscribedIsServed ==
  \A c \in Channels :
    <>[](running /\ client # NoConn /\ sub[c] >= 0 /\ Sendable(c))
      => []<>(frame.channel = c /\ frame.version = content[c].version)

\* The composition is the server of FoxdbgSession, so that what is shown there
\* of connections, subscriptions and announcements holds here.
ImplementsSession == S!Spec
=============================================================================
