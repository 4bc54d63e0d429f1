---------------------------- MODULE ClientSession ---------------------------
(***************************************************************************)
(* What the foxdbg server promises to a Foxglove client that is alone: a   *)
(* session that starts without any subscription, keeps exactly those the   *)
(* client makes, ends with all of them, and in which a frame carries the   *)
(* subscription id under which this client subscribed to its channel.  No  *)
(* channel list, no callbacks, no traversals.                              *)
(***************************************************************************)
EXTENDS Integers

CONSTANTS
  Conns,        \* connections
  NoConn,       \* no connection
  Channels,     \* channel ids
  SubIds        \* subscription ids that clients choose

VARIABLES
  session,      \* connection of the client in session, NoConn when there is none
  subs,         \* subs[c]: subscription id of channel c, -1 when not subscribed
  frame         \* latest frame sent: receiver, subscription id and channel

svars == <<session, subs, frame>>

NoSubs == [c \in Channels |-> -1]
NoFrame == [to |-> NoConn, id |-> -1, channel |-> -1]

SInit == session = NoConn /\ subs = NoSubs /\ frame = NoFrame

Join(w) ==
  /\ session = NoConn
  /\ session' = w
  /\ subs' = NoSubs
  /\ UNCHANGED frame

Leave ==
  /\ session # NoConn
  /\ session' = NoConn
  /\ subs' = NoSubs
  /\ UNCHANGED frame

Subscribe(c, id) ==
  /\ session # NoConn
  /\ subs' = [subs EXCEPT ![c] = id]
  /\ UNCHANGED <<session, frame>>

Unsubscribe(c) ==
  /\ session # NoConn
  /\ subs' = [subs EXCEPT ![c] = -1]
  /\ UNCHANGED <<session, frame>>

Deliver(c) ==
  /\ session # NoConn
  /\ subs[c] # -1
  /\ frame' = [to |-> session, id |-> subs[c], channel |-> c]
  /\ UNCHANGED <<session, subs>>

SNext ==
  \/ \E w \in Conns : Join(w)
  \/ Leave
  \/ \E c \in Channels : \/ \E id \in SubIds : Subscribe(c, id)
                         \/ Unsubscribe(c)
                         \/ Deliver(c)

SSpec == SInit /\ [][SNext]_svars
=============================================================================
