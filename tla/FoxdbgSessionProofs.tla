------------------------ MODULE FoxdbgSessionProofs -------------------------
(***************************************************************************)
(* What holds of the server thread for every set of connections, any       *)
(* number of them open at a time, and every length of the channel list.    *)
(***************************************************************************)
EXTENDS FoxdbgSession, FiniteSetTheorems, TLAPS

\* The server thread may still run a callback.
Serving == running \/ pc \notin {"service", "exited"}

\* The transmission loop.
Transmitting == {"transmit", "transmit.next"}
USE DEF Transmitting

\* The types the proof needs.
PartType ==
  /\ linked \in 0..MaxChannels
  /\ conn \in [Conns -> {"none", "open", "closing"}]
  /\ armed \in [Conns -> BOOLEAN]
  /\ client \in Conns \union {NoConn}
  /\ cur \in 0..(linked - 1) \union {End}
  /\ listed \subseteq 0..(linked - 1)
  /\ advertised \in [Conns -> SUBSET Channels]
  /\ had \in [Conns -> 0..linked]

\* What a handler that has begun knows of its connection and of the client:
\* foxdbg_protocol_disconnect leaves no client, and when it was called by
\* foxdbg_protocol_connect the latest connection waits to become the client.
HandlerInv ==
  /\ pc \in {"disconnect", "advertise"} \union Transmitting => wsi \in Conns
  /\ pc = "disconnect" => /\ client = NoConn
                          /\ conn[wsi] = "open" => wsi = newest
  /\ pc = "advertise" => client = wsi
  /\ pc = "transmit.next" => cur # End

\* The client is an open connection until the server stops, and the latest.
ClientInv ==
  /\ Serving /\ client # NoConn => conn[client] = "open"
  /\ LatestConnectionWins

\* An open connection waits for WRITEABLE, or its handler is about to ask.
ArmedInv ==
  Serving => \A w \in Conns : conn[w] = "open" =>
               armed[w] \/ (w = wsi /\ pc \in {"disconnect", "advertise"} \union Transmitting)

\* What the connect handler of w has told it, or could not.
Told(w) ==
  \/ 0..(had[w] - 1) \subseteq advertised[w]
  \/ advertised[w] = {} /\ TooLongFor(w)

\* An open connection was told of the channels it came for, or its connect
\* handler is about to: what the walk has passed is listed.
AdvertisedInv ==
  /\ \A w \in Conns :
       /\ conn[w] = "none" => advertised[w] = {}
       /\ conn[w] = "open" =>
            \/ Told(w)
            \/ w = wsi /\ pc \in {"disconnect", "advertise"} /\ advertised[w] = {}
  /\ pc = "advertise" =>
       (IF cur = End THEN 0..(had[wsi] - 1) ELSE 0..(cur - 1)) \subseteq listed

SessionInv == PartType /\ HandlerInv /\ ClientInv /\ ArmedInv /\ AdvertisedInv

\* At first there is no connection and no handler.
LEMMA InitSessionInv == Init => SessionInv
BY SessionAssumption
DEF Init, SessionInv, PartType, HandlerInv, ClientInv, LatestConnectionWins, ArmedInv,
    AdvertisedInv, Channels, End

\* Channels that are added later do not make an announcement fit.
LEMMA ToldStays ==
  ASSUME PartType, NEW w \in Conns, linked' \in {linked, linked + 1},
         had'[w] = had[w], advertised'[w] = advertised[w], Told(w)
  PROVE  Told(w)'
<1>1. ASSUME TooLongFor(w) PROVE TooLongFor(w)'
  <2>1. PICK added \in SUBSET (had[w]..(linked - 1)) :
               0..(had[w] - 1) \union added \notin Announceable
    BY <1>1 DEF TooLongFor
  <2>2. linked \in Nat /\ had[w] \in Nat /\ linked' \in Nat /\ linked <= linked'
    BY SessionAssumption DEF PartType
  <2>3. added \in SUBSET (had'[w]..(linked' - 1))
    BY <2>2
  <2> QED
    BY <2>1, <2>3 DEF TooLongFor
<1> QED
  BY <1>1 DEF Told

-----------------------------------------------------------------------------
(* Steps that leave connections, client and announcements alone.           *)

\* Such a step keeps the invariant when it enters and leaves no handler that
\* the invariant speaks of.
LEMMA QuietInv ==
  ASSUME SessionInv,
         linked' = linked, running' = running, conn' = conn, armed' = armed,
         client' = client, wsi' = wsi, listed' = listed,
         advertised' = advertised, had' = had, newest' = newest,
         cur' \in 0..(linked - 1) \union {End},
         pc \notin {"disconnect", "advertise", "service", "exited"},
         pc' \notin {"disconnect", "advertise", "exited"},
         pc' \in Transmitting <=> pc \in Transmitting,
         pc' = "transmit.next" => cur' # End
  PROVE  SessionInv'
<1>1. PartType'
  BY DEF SessionInv, PartType, End
<1>2. HandlerInv'
  BY DEF SessionInv, HandlerInv
<1>3. ClientInv'
  BY DEF SessionInv, ClientInv, LatestConnectionWins, Serving
<1>4. ArmedInv'
  BY DEF SessionInv, ArmedInv, Serving
<1>5. AdvertisedInv'
  BY ToldStays DEF SessionInv, AdvertisedInv
<1> QED
  BY <1>1, <1>2, <1>3, <1>4, <1>5 DEF SessionInv

\* The node after c is in the list, or is the end.
LEMMA NextChannelInList ==
  ASSUME PartType, cur # End
  PROVE  /\ NextChannel(cur) \in 0..(linked - 1) \union {End}
         /\ NextChannel(cur) # End => NextChannel(cur) = cur + 1
         /\ NextChannel(cur) = End => cur + 1 >= linked
         /\ cur \in Channels
BY SessionAssumption DEF PartType, NextChannel, End, Channels

\* So is the first node.
LEMMA FirstChannelInList ==
  ASSUME PartType
  PROVE  /\ FirstChannel \in 0..(linked - 1) \union {End}
         /\ FirstChannel # End => FirstChannel = 0
         /\ FirstChannel = End => linked = 0
BY SessionAssumption DEF PartType, FirstChannel, End

-----------------------------------------------------------------------------
(* One lemma per group of actions.                                         *)

\* The positions of a list are those of a longer one.
LEMMA LongerList ==
  ASSUME NEW m \in Int, NEW n \in Int, m <= n
  PROVE  0..(m - 1) \subseteq 0..(n - 1) /\ 0..m \subseteq 0..n
OBVIOUS

\* The application touches nothing but the length of the list, which
\* grows, and the flag running, which falls.
LEMMA ApplicationInv ==
  ASSUME SessionInv,
         AddChannel \/ Stop \/ \E c \in Channels : WriteChannel(c)
  PROVE  SessionInv'
<1>1. /\ linked' \in {linked, linked + 1} /\ linked' \in 0..MaxChannels
      /\ running' => running
      /\ UNCHANGED <<lws, client, thread, advertised, had, newest>>
  BY SessionAssumption
  DEF SessionInv, PartType, AddChannel, Stop, WriteChannel, app, protocol, history, lws, thread
<1> USE <1>1 DEF lws, thread
<1>2. PartType'
  <2>1. linked \in Int /\ linked' \in Int /\ linked <= linked'
    BY SessionAssumption DEF SessionInv, PartType
  <2>2. 0..(linked - 1) \subseteq 0..(linked' - 1) /\ 0..linked \subseteq 0..linked'
    BY <2>1, LongerList
  <2>3. listed' \subseteq 0..(linked' - 1) /\ cur' \in 0..(linked' - 1) \union {End}
    BY <2>2 DEF SessionInv, PartType
  <2>4. had' \in [Conns -> 0..linked']
    BY <2>2 DEF SessionInv, PartType
  <2> QED
    BY <2>3, <2>4 DEF SessionInv, PartType
<1>3. HandlerInv'
  BY DEF SessionInv, HandlerInv
<1>4. ClientInv'
  BY DEF SessionInv, ClientInv, LatestConnectionWins, Serving
<1>5. ArmedInv'
  BY DEF SessionInv, ArmedInv, Serving
<1>6. AdvertisedInv'
  BY ToldStays DEF SessionInv, AdvertisedInv
<1> QED
  BY <1>2, <1>3, <1>4, <1>5, <1>6 DEF SessionInv

\* ESTABLISHED: the new connection is the newest, and is armed and announced to
\* by the handler that has begun.
LEMMA EstablishedInv ==
  ASSUME SessionInv, NEW w \in Conns, Established(w)
  PROVE  SessionInv'
<1> USE SessionAssumption DEF Established, Callback, app
<1>1. PartType'
  BY FirstChannelInList DEF SessionInv, PartType
<1>2. HandlerInv'
  BY DEF SessionInv, PartType, HandlerInv
<1>3. ClientInv'
  BY DEF SessionInv, PartType, ClientInv, LatestConnectionWins, Serving
<1>4. ArmedInv'
  BY DEF SessionInv, PartType, ArmedInv, Serving
<1>5. AdvertisedInv'
  <2>1. (pc' = "advertise" =>
          (IF cur' = End THEN 0..(had'[w] - 1) ELSE 0..(cur' - 1)) \subseteq listed')
    BY FirstChannelInList DEF SessionInv, PartType
  <2>2. pc' \in {"disconnect", "advertise"} /\ wsi' = w /\ advertised'[w] = {}
    BY DEF SessionInv, AdvertisedInv
  <2>3. ASSUME NEW v \in Conns, v # w, Told(v) PROVE Told(v)'
    BY <2>3, ToldStays DEF SessionInv, PartType
  <2>4. \A v \in Conns \ {w} : /\ conn'[v] = conn[v] /\ advertised'[v] = advertised[v]
                               /\ conn[v] = "open" => Told(v)
                               /\ conn[v] = "none" => advertised[v] = {}
    BY DEF SessionInv, PartType, AdvertisedInv
  <2>5. conn'[w] = "open"
    BY DEF SessionInv, PartType
  <2> QED
    BY <2>1, <2>2, <2>3, <2>4, <2>5 DEF AdvertisedInv
<1> QED
  BY <1>1, <1>2, <1>3, <1>4, <1>5 DEF SessionInv

\* CLOSED: there is no client while the connection goes away.
LEMMA ClosedInv ==
  ASSUME SessionInv, NEW w \in Conns, Closed(w)
  PROVE  SessionInv'
<1> USE SessionAssumption DEF Closed, Callback, app, history
<1>1. PartType'
  BY FirstChannelInList DEF SessionInv, PartType
<1>2. HandlerInv'
  BY DEF SessionInv, PartType, HandlerInv
<1>3. ClientInv'
  BY DEF SessionInv, ClientInv, LatestConnectionWins
<1>4. ArmedInv'
  BY DEF SessionInv, PartType, ArmedInv, Serving
<1>5. AdvertisedInv'
  BY ToldStays DEF SessionInv, PartType, AdvertisedInv
<1> QED
  BY <1>1, <1>2, <1>3, <1>4, <1>5 DEF SessionInv

\* The walk of foxdbg_protocol_disconnect, and its return.
LEMMA DisconnectInv ==
  ASSUME SessionInv, DisconnectStep \/ DisconnectReturn
  PROVE  SessionInv'
<1>1. CASE DisconnectStep
  <2> USE <1>1 DEF DisconnectStep, app, lws, history
  <2>1. PartType'
    BY NextChannelInList DEF SessionInv, PartType
  <2>2. HandlerInv'
    BY DEF SessionInv, HandlerInv
  <2>3. ClientInv'
    BY DEF SessionInv, ClientInv, LatestConnectionWins, Serving
  <2>4. ArmedInv'
    BY DEF SessionInv, ArmedInv, Serving
  <2>5. AdvertisedInv'
    BY ToldStays DEF SessionInv, AdvertisedInv
  <2> QED
    BY <2>1, <2>2, <2>3, <2>4, <2>5 DEF SessionInv
<1>2. CASE DisconnectReturn /\ conn[wsi] = "open"
  <2> USE <1>2 DEF DisconnectReturn, app
  <2>0. wsi \in Conns
    BY DEF SessionInv, HandlerInv
  <2>1. PartType'
    BY <2>0, FirstChannelInList DEF SessionInv, PartType
  <2>2. HandlerInv'
    BY <2>0 DEF SessionInv, HandlerInv
  <2>3. ClientInv'
    BY <2>0 DEF SessionInv, HandlerInv, ClientInv, LatestConnectionWins, Serving
  <2>4. ArmedInv'
    BY DEF SessionInv, ArmedInv, Serving
  <2>5. AdvertisedInv'
    BY ToldStays, <2>0, FirstChannelInList DEF SessionInv, PartType, AdvertisedInv
  <2> QED
    BY <2>1, <2>2, <2>3, <2>4, <2>5 DEF SessionInv
<1>3. CASE DisconnectReturn /\ conn[wsi] # "open"
  <2> USE <1>3 DEF DisconnectReturn, app
  <2>0. wsi \in Conns /\ client = NoConn
    BY DEF SessionInv, HandlerInv
  <2>1. PartType'
    BY <2>0 DEF SessionInv, PartType
  <2>2. HandlerInv'
    BY DEF HandlerInv
  <2>3. ClientInv'
    BY <2>0 DEF ClientInv, LatestConnectionWins
  <2>4. ArmedInv'
    BY <2>0 DEF SessionInv, PartType, ArmedInv, Serving
  <2>5. AdvertisedInv'
    BY ToldStays, <2>0 DEF SessionInv, PartType, AdvertisedInv
  <2> QED
    BY <2>1, <2>2, <2>3, <2>4, <2>5 DEF SessionInv
<1> QED
  BY <1>1, <1>2, <1>3

\* The walk of send_advertise, and the announcement.
LEMMA AdvertiseInv ==
  ASSUME SessionInv, AdvertiseStep \/ AdvertiseSend
  PROVE  SessionInv'
<1>0. pc = "advertise" /\ wsi \in Conns /\ client = wsi
  BY DEF AdvertiseStep, AdvertiseSend, SessionInv, HandlerInv
<1>1. CASE AdvertiseStep
  <2> USE <1>0, <1>1 DEF AdvertiseStep, app, lws, protocol, history
  <2>1. PartType'
    BY NextChannelInList DEF SessionInv, PartType
  <2>2. HandlerInv'
    BY DEF SessionInv, HandlerInv
  <2>3. ClientInv'
    BY DEF SessionInv, ClientInv, LatestConnectionWins, Serving
  <2>4. ArmedInv'
    BY DEF SessionInv, ArmedInv, Serving
  <2>5. (IF cur' = End THEN 0..(had[wsi] - 1) ELSE 0..(cur' - 1)) \subseteq listed'
    <3>1. cur \in Nat /\ had[wsi] \in 0..linked /\ linked \in Nat
      BY SessionAssumption DEF SessionInv, PartType, End
    <3>2. 0..(cur - 1) \subseteq listed
      BY DEF SessionInv, AdvertisedInv
    <3>3. 0..cur \subseteq listed'
      BY <3>1, <3>2
    <3>4. CASE cur' = End
      BY <3>1, <3>3, <3>4, NextChannelInList DEF SessionInv
    <3>5. CASE cur' # End
      BY <3>1, <3>3, <3>5, NextChannelInList DEF SessionInv
    <3> QED
      BY <3>4, <3>5
  <2>6. AdvertisedInv'
    BY ToldStays, <2>5 DEF SessionInv, AdvertisedInv
  <2> QED
    BY <2>1, <2>2, <2>3, <2>4, <2>6 DEF SessionInv
<1>2. CASE AdvertiseSend
  <2> USE <1>0, <1>2 DEF AdvertiseSend, app, protocol
  <2>0. listed \in SUBSET Channels
    BY SessionAssumption DEF SessionInv, PartType, Channels
  <2>1. PartType'
    BY <2>0 DEF SessionInv, PartType
  <2>2. HandlerInv'
    BY DEF HandlerInv
  <2>3. ClientInv'
    BY DEF SessionInv, ClientInv, LatestConnectionWins, Serving
  <2>4. ArmedInv'
    BY DEF SessionInv, PartType, ArmedInv, Serving
  <2>5. 0..(had[wsi] - 1) \subseteq listed /\ listed \subseteq 0..(linked - 1)
    BY DEF SessionInv, PartType, AdvertisedInv
  <2>6. ASSUME listed \in Announceable PROVE AdvertisedInv'
    <3>0. conn[wsi] = "open" /\ advertised' = [advertised EXCEPT ![wsi] = listed]
      BY <2>6, SessionAssumption DEF SessionInv, ClientInv, Serving
    <3>1. ASSUME NEW v \in Conns, v = wsi PROVE Told(v)'
      BY <3>1, <2>5, <3>0 DEF SessionInv, PartType, Told
    <3>2. ASSUME NEW v \in Conns, v # wsi, Told(v) PROVE Told(v)'
      BY <3>2, ToldStays DEF SessionInv, PartType
    <3>3. ASSUME NEW v \in Conns, conn[v] = "open" PROVE Told(v)'
      BY <3>1, <3>2, <3>3 DEF SessionInv, AdvertisedInv
    <3>4. ASSUME NEW v \in Conns, conn[v] = "none" PROVE advertised'[v] = {}
      BY <3>0, <3>4 DEF SessionInv, PartType, AdvertisedInv
    <3>5. conn' = conn /\ pc' = "service"
      OBVIOUS
    <3> HIDE DEF AdvertiseSend
    <3> QED
      BY <3>3, <3>4, <3>5 DEF AdvertisedInv
  <2>7. ASSUME listed \notin Announceable PROVE AdvertisedInv'
    <3>1. \A v \in Conns : Told(v) => Told(v)'
      BY <2>7, ToldStays DEF SessionInv, PartType
    <3>2. ASSUME NEW v \in Conns, v = wsi, advertised[v] = {} PROVE Told(v)'
      <4>1. had[v] \in Nat /\ linked \in Nat
        BY SessionAssumption DEF SessionInv, PartType
      <4>2. listed \ (0..(had[v] - 1)) \in SUBSET (had[v]..(linked - 1))
        <5>1. ASSUME NEW c \in listed, c \notin 0..(had[v] - 1)
              PROVE  c \in had[v]..(linked - 1)
          <6>1. c \in 0..(linked - 1)
            BY <2>5
          <6> QED
            BY <4>1, <5>1, <6>1
        <5> QED
          BY <5>1
      <4>3. 0..(had[v] - 1) \union (listed \ (0..(had[v] - 1))) = listed
        BY <2>5, <3>2
      <4>4. TooLongFor(v)'
        BY <2>7, <4>2, <4>3 DEF TooLongFor
      <4> QED
        BY <2>7, <3>2, <4>4 DEF Told
    <3>3. ASSUME NEW v \in Conns, conn[v] = "open" PROVE Told(v)'
      BY <3>1, <3>2, <3>3 DEF SessionInv, AdvertisedInv
    <3>4. conn' = conn /\ pc' = "service" /\ advertised' = advertised
      BY <2>7
    <3> HIDE DEF AdvertiseSend
    <3> QED
      BY <3>3, <3>4 DEF SessionInv, AdvertisedInv
  <2> QED
    BY <2>1, <2>2, <2>3, <2>4, <2>6, <2>7 DEF SessionInv
<1> QED
  BY <1>1, <1>2

\* The end of the server: connections are dropped, the client is forgotten.
LEMMA EndOfServerInv ==
  ASSUME SessionInv, Exit \/ \E w \in Conns : Drop(w)
  PROVE  SessionInv'
<1>1. CASE Exit
  BY <1>1 DEF Exit, app, lws, history, SessionInv, PartType, HandlerInv, ClientInv,
    LatestConnectionWins, Serving, ArmedInv, AdvertisedInv, Told, TooLongFor
<1>2. ASSUME NEW w \in Conns, Drop(w) PROVE SessionInv'
  <2> USE <1>2 DEF Drop, app, protocol, thread
  <2>1. PartType'
    BY DEF SessionInv, PartType
  <2>2. HandlerInv'
    BY DEF HandlerInv
  <2>3. ClientInv'
    BY DEF SessionInv, ClientInv, LatestConnectionWins, Serving
  <2>4. ArmedInv'
    BY DEF ArmedInv, Serving
  <2>5. ASSUME NEW v \in Conns, v # w, Told(v) PROVE Told(v)'
    BY <2>5, ToldStays DEF SessionInv, PartType
  <2>6. conn'[w] = "none" /\ advertised'[w] = {}
    BY DEF SessionInv, PartType
  <2>7. AdvertisedInv'
    BY <2>5, <2>6 DEF SessionInv, PartType, AdvertisedInv
  <2> QED
    BY <2>1, <2>2, <2>3, <2>4, <2>7 DEF SessionInv
<1> QED
  BY <1>1, <1>2

\* A message begins to be handled, or a WRITEABLE: only that takes a
\* connection's turn away, until its handler asks for the next.
LEMMA TurnInv ==
  ASSUME SessionInv, NEW w \in Conns,
         ReceiveSubscribe(w) \/ ReceiveUnsubscribe(w) \/ Writeable(w)
  PROVE  SessionInv'
<1> USE DEF ReceiveSubscribe, ReceiveUnsubscribe, Writeable, Callback, app, lws,
        protocol, history
<1>1. PartType'
  BY FirstChannelInList DEF SessionInv, PartType
<1>2. HandlerInv'
  BY DEF HandlerInv
<1>3. ClientInv'
  BY DEF SessionInv, ClientInv, LatestConnectionWins, Serving
<1>4. ArmedInv'
  BY DEF SessionInv, PartType, ArmedInv, Serving
<1>5. AdvertisedInv'
  BY ToldStays DEF SessionInv, AdvertisedInv
<1> QED
  BY <1>1, <1>2, <1>3, <1>4, <1>5 DEF SessionInv

\* The walks of foxdbg_protocol_receive and of the transmission loop.
LEMMA WalkInv ==
  ASSUME SessionInv, TakeElement \/ FindStep \/ FindEnd \/ TransmitSend \/ TransmitNext
  PROVE  \/ SessionInv'
         \/ FindStep /\ pc' = "service"
<1>1. CASE TakeElement
  <2>1. cur' \in 0..(linked - 1) \union {End}
    BY <1>1, FirstChannelInList DEF TakeElement, SessionInv, PartType
  <2> QED
    BY <1>1, <2>1, QuietInv DEF TakeElement, app, lws, protocol, history
<1>2. CASE FindStep /\ pc' # "service"
  <2>1. cur' \in 0..(linked - 1) \union {End}
    BY <1>2, NextChannelInList DEF FindStep, SessionInv, PartType
  <2> QED
    BY <1>2, <2>1, QuietInv DEF FindStep, app, lws, history
<1>3. CASE FindEnd
  BY <1>3, QuietInv DEF FindEnd, app, lws, protocol, history, SessionInv, PartType
<1>4. CASE TransmitSend
  BY <1>4, QuietInv DEF TransmitSend, app, lws, protocol, SessionInv, PartType
<1>5. CASE TransmitNext
  <2>1. cur' \in 0..(linked - 1) \union {End}
    BY <1>5, NextChannelInList DEF TransmitNext, SessionInv, PartType, HandlerInv
  <2> QED
    BY <1>5, <2>1, QuietInv DEF TransmitNext, app, lws, protocol, history
<1> QED
  BY <1>1, <1>2, <1>3, <1>4, <1>5

\* A handler returns to lws_service: the message is done, or WRITEABLE is asked
\* for again.
LEMMA ReturnInv ==
  ASSUME SessionInv,
         ReceiveReturn \/ TransmitReturn \/ (FindStep /\ pc' = "service")
  PROVE  SessionInv'
<1>1. /\ pc \notin {"disconnect", "advertise", "service", "exited", "transmit.next"}
      /\ pc' = "service"
      /\ UNCHANGED <<linked, running, conn, client, wsi, cur, listed, advertised, had, newest>>
      /\ armed' = IF pc = "transmit" THEN [armed EXCEPT ![wsi] = TRUE] ELSE armed
      /\ pc = "transmit" => wsi \in Conns
  BY DEF ReceiveReturn, TransmitReturn, FindStep, app, lws, protocol, history, SessionInv,
    HandlerInv
<1> USE <1>1
<1>2. PartType'
  BY DEF SessionInv, PartType
<1>3. HandlerInv'
  BY DEF HandlerInv
<1>4. ClientInv'
  BY DEF SessionInv, ClientInv, LatestConnectionWins, Serving
<1>5. ArmedInv'
  BY DEF SessionInv, PartType, ArmedInv, Serving
<1>6. AdvertisedInv'
  BY ToldStays DEF SessionInv, AdvertisedInv
<1> QED
  BY <1>2, <1>3, <1>4, <1>5, <1>6 DEF SessionInv

\* Every step keeps the invariant.
LEMMA NextSessionInv == SessionInv /\ [Next]_vars => SessionInv'
<1> SUFFICES ASSUME SessionInv, [Next]_vars PROVE SessionInv'
  OBVIOUS
<1>1. CASE AddChannel \/ Stop \/ \E c \in Channels : WriteChannel(c)
  BY <1>1, ApplicationInv
<1>2. ASSUME NEW w \in Conns,
             \/ Established(w) \/ Closed(w) \/ Drop(w)
             \/ ReceiveSubscribe(w) \/ ReceiveUnsubscribe(w) \/ Writeable(w)
      PROVE  SessionInv'
  BY <1>2, EstablishedInv, ClosedInv, EndOfServerInv, TurnInv
<1>3. CASE Handler
  <2>1. CASE DisconnectStep \/ DisconnectReturn
    BY <2>1, DisconnectInv
  <2>2. CASE AdvertiseStep \/ AdvertiseSend
    BY <2>2, AdvertiseInv
  <2>3. CASE ReceiveReturn \/ TransmitReturn \/ (FindStep /\ pc' = "service")
    BY <2>3, ReturnInv
  <2>4. CASE TakeElement \/ FindStep \/ FindEnd \/ TransmitSend \/ TransmitNext
    BY <2>3, <2>4, WalkInv
  <2> QED
    BY <1>3, <2>1, <2>2, <2>3, <2>4 DEF Handler
<1>4. CASE Exit
  BY <1>4, EndOfServerInv
<1>5. CASE UNCHANGED vars
  BY <1>5 DEF vars, app, lws, protocol, thread, history, SessionInv, PartType, HandlerInv,
    ClientInv, LatestConnectionWins, Serving, ArmedInv, AdvertisedInv, Told, TooLongFor
<1> QED
  BY <1>1, <1>2, <1>3, <1>4, <1>5 DEF Next

-----------------------------------------------------------------------------
(* The theorems.                                                           *)

\* The invariant holds of every reachable state.
LEMMA SessionInvariant == Spec => []SessionInv
BY InitSessionInv, NextSessionInv, PTL DEF Spec

\* The handlers of the protocol never write through a pointer to a connection
\* that lws has closed, however many clients come and go and whenever the
\* server is stopped.
THEOREM WritesGoToOpenConnections == Spec => []WritesOnlyToOpen
<1>1. SessionInv => WritesOnlyToOpen
  BY DEF SessionInv, ClientInv, Serving, WritesOnlyToOpen
<1> QED
  BY <1>1, SessionInvariant, PTL

\* The client of the server is the latest connection, or there is none.
THEOREM TheClientIsTheLatest == Spec => []LatestConnectionWins
<1>1. SessionInv => LatestConnectionWins
  BY DEF SessionInv, ClientInv
<1> QED
  BY <1>1, SessionInvariant, PTL

\* Channels that are added while the connect handler walks the list never make it
\* miss one that was there before: a client is told of all of these, or of nothing,
\* and of nothing only if the text of the channels in the list is too long.
THEOREM AnnouncementsAreComplete == Spec => []AdvertisedAtConnect
<1>1. SessionInv => AdvertisedAtConnect
  BY DEF SessionInv, AdvertisedInv, Told, AdvertisedAtConnect
<1> QED
  BY <1>1, SessionInvariant, PTL

\* As long as the server runs, no open connection is left without a pending
\* WRITEABLE.
THEOREM TransmissionGoesOn == Spec => []TransmitLoopAlive
<1>1. SessionInv => TransmitLoopAlive
  BY DEF SessionInv, ArmedInv, Serving, TransmitLoopAlive, Opened
<1> QED
  BY <1>1, SessionInvariant, PTL


-----------------------------------------------------------------------------
(* The types of what the invariant above does not speak of.                *)

Elements == [id : SubIds, channelId : Nat] \union {Malformed}

Labels == {"service", "disconnect", "advertise", "subscribe", "unsubscribe",
           "subscribe.find", "unsubscribe.find", "transmit", "transmit.next", "exited"}

Frames == [to : Conns \union {NoConn}, id : SubIds \union {-1}, channel : Channels \union {-1}]

RestType ==
  /\ written \in [Channels -> BOOLEAN]
  /\ running \in BOOLEAN
  /\ sub \in [Channels -> SubIds \union {-1}]
  /\ pc \in Labels
  /\ wsi \in Conns \union {NoConn}
  /\ listed \subseteq 0..(linked - 1)
  /\ newest \in Conns \union {NoConn}
  /\ sent \in Frames
  /\ pc \in {"subscribe", "subscribe.find"} => todo \in Seq(Elements)
  /\ pc = "subscribe.find" => todo # <<>> /\ Head(todo) # Malformed

LEMMA InitRestType == Init => RestType
<1> SUFFICES ASSUME Init PROVE RestType
  OBVIOUS
<1>1. sent \in Frames
  BY DEF Init, Frames
<1> QED
  BY <1>1 DEF Init, RestType, Labels

LEMMA ApplicationRestType ==
  ASSUME SessionInv, RestType,
         AddChannel \/ Stop \/ \E c \in Channels : WriteChannel(c)
  PROVE  RestType'
<1>1. linked \in Nat /\ linked' \in {linked, linked + 1}
  BY SessionAssumption
  DEF SessionInv, PartType, AddChannel, Stop, WriteChannel, app
<1>2. CASE AddChannel
  BY <1>1, <1>2 DEF AddChannel, RestType, lws, protocol, thread, history
<1>3. CASE Stop
  BY <1>3 DEF Stop, RestType, app, lws, protocol, thread, history
<1>4. ASSUME NEW c \in Channels, WriteChannel(c) PROVE RestType'
  BY <1>4 DEF WriteChannel, RestType, lws, protocol, thread, history
<1> QED
  BY <1>2, <1>3, <1>4

LEMMA CallbackRestType ==
  ASSUME SessionInv, RestType, NEW w \in Conns,
         \/ Established(w) \/ Closed(w) \/ Drop(w)
         \/ ReceiveSubscribe(w) \/ ReceiveUnsubscribe(w) \/ Writeable(w)
  PROVE  RestType'
<1> USE DEF app, lws, protocol, thread, history, Callback, Labels
<1>1. CASE Established(w)
  BY <1>1 DEF Established, RestType
<1>2. CASE Closed(w)
  BY <1>2 DEF Closed, RestType
<1>3. CASE Drop(w)
  BY <1>3 DEF Drop, RestType
<1>4. CASE ReceiveSubscribe(w)
  <2>1. todo' \in Seq(Elements)
    BY <1>4, SessionAssumption DEF ReceiveSubscribe, Elements
  <2> QED
    BY <1>4, <2>1 DEF ReceiveSubscribe, RestType
<1>5. CASE ReceiveUnsubscribe(w)
  BY <1>5 DEF ReceiveUnsubscribe, RestType
<1>6. CASE Writeable(w)
  BY <1>6 DEF Writeable, RestType
<1> QED
  BY <1>1, <1>2, <1>3, <1>4, <1>5, <1>6

\* What a search found: an id that its client chose.
LEMMA FoundId ==
  ASSUME SessionInv, RestType, pc = "subscribe.find"
  PROVE  Head(todo).id \in SubIds
BY DEF RestType, Elements

LEMMA HandlerRestType ==
  ASSUME SessionInv, RestType, Handler
  PROVE  RestType'
<1> USE DEF app, lws, protocol, thread, history, Labels
<1>0. linked \in Nat /\ (cur # End => cur \in Channels /\ cur \in 0..(linked - 1))
  BY NextChannelInList DEF SessionInv, PartType
<1>1. CASE DisconnectStep
  BY <1>1 DEF DisconnectStep, RestType
<1>2. CASE DisconnectReturn
  BY <1>2 DEF DisconnectReturn, RestType
<1>3. CASE AdvertiseStep
  BY <1>0, <1>3 DEF AdvertiseStep, RestType
<1>4. CASE AdvertiseSend
  BY <1>4 DEF AdvertiseSend, RestType
<1>5. CASE TakeElement
  BY <1>5 DEF TakeElement, RestType
<1>6. CASE ReceiveReturn
  BY <1>6 DEF ReceiveReturn, RestType
<1>7. CASE FindStep
  BY <1>7, FoundId DEF FindStep, RestType
<1>8. CASE FindEnd
  BY <1>8 DEF FindEnd, RestType
<1>9. CASE TransmitSend
  <2>1. sent' \in Frames
    <3>1. sub[cur] \in SubIds \union {-1} /\ client \in Conns \union {NoConn}
      BY <1>0, <1>9 DEF TransmitSend, RestType, SessionInv, PartType
    <3> QED
      BY <1>0, <1>9, <3>1 DEF TransmitSend, RestType, Frames
  <2> QED
    BY <1>9, <2>1 DEF TransmitSend, RestType
<1>10. CASE TransmitNext
  BY <1>10 DEF TransmitNext, RestType
<1>11. CASE TransmitReturn
  BY <1>11 DEF TransmitReturn, RestType
<1> QED
  BY <1>1, <1>2, <1>3, <1>4, <1>5, <1>6, <1>7, <1>8, <1>9, <1>10, <1>11 DEF Handler

LEMMA NextRestType == SessionInv /\ RestType /\ [Next]_vars => RestType'
<1> SUFFICES ASSUME SessionInv, RestType, [Next]_vars PROVE RestType'
  OBVIOUS
<1>1. CASE Exit
  BY <1>1 DEF Exit, RestType, Labels, app, lws, history
<1>2. CASE UNCHANGED vars
  BY <1>2 DEF vars, app, lws, protocol, thread, history, RestType
<1> QED
  BY <1>1, <1>2, ApplicationRestType, CallbackRestType, HandlerRestType DEF Next

LEMMA RestInvariant == Spec => []RestType
BY InitRestType, NextRestType, SessionInvariant, PTL DEF Spec

\* Types, and loops that stand on nodes of the list, whatever is appended to it.
THEOREM SessionTypeCorrect == Spec => []TypeOK
<1>1. SessionInv /\ RestType => TypeOK
  BY DEF SessionInv, PartType, RestType, Labels, Frames, TypeOK
<1> QED
  BY <1>1, SessionInvariant, RestInvariant, PTL

-----------------------------------------------------------------------------
(* One client at a time: the server implements ClientSession.              *)

OneAtATime == MaxOpen = 1 /\ IsFiniteSet(Conns)

Receiving == {"subscribe", "unsubscribe", "subscribe.find", "unsubscribe.find"}

Unsubscribed == \A c \in Channels : sub[c] = -1

\* The only open connection is the client, a message is the client's, and without
\* a client nothing is subscribed but what the walk of disconnect has not reached.
SoleInv ==
  /\ Serving => \A w \in Conns : conn[w] = "open" => client = w
  /\ pc \in Receiving => client # NoConn
  /\ \A c \in Channels : c >= linked => sub[c] = -1
  /\ client = NoConn /\ pc \notin {"disconnect", "exited"} => Unsubscribed
  /\ pc = "disconnect" => \A c \in Channels : cur = End \/ c < cur => sub[c] = -1

\* A connection is established only when no other is open, so there is no client.
LEMMA EstablishedAlone ==
  ASSUME OneAtATime, SessionInv, NEW w \in Conns, Established(w)
  PROVE  client = NoConn /\ \A v \in Conns : conn[v] # "open"
<1>1. IsFiniteSet(Opened)
  BY FS_Subset DEF OneAtATime, Opened
<1>2. Cardinality(Opened) = 0
  BY <1>1, FS_CardinalityType DEF Established, OneAtATime
<1>3. Opened = {}
  BY <1>1, <1>2, FS_EmptySet
<1> QED
  BY <1>3 DEF Established, Callback, Opened, SessionInv, PartType, ClientInv, Serving

LEMMA InitSoleInv == Init => SoleInv
BY DEF Init, SoleInv, Unsubscribed, Receiving

\* Steps that leave connections, the client and the subscriptions alone.
LEMMA StillSoleInv ==
  ASSUME SoleInv, linked' >= linked, linked \in Nat, linked' \in Nat,
         UNCHANGED <<conn, client, sub>>,
         running' => running,
         pc \notin {"disconnect", "exited"}, pc' \notin {"disconnect", "exited"},
         pc = "service" => pc' = "service" \/ running,
         pc' \in Receiving => client # NoConn
  PROVE  SoleInv'
BY DEF SoleInv, Serving, Unsubscribed, Channels

LEMMA ApplicationSoleInv ==
  ASSUME SessionInv, SoleInv,
         AddChannel \/ Stop \/ \E c \in Channels : WriteChannel(c)
  PROVE  SoleInv'
<1>1. /\ linked \in Nat /\ linked' \in Nat /\ linked' >= linked
      /\ running' => running
      /\ UNCHANGED <<conn, client, sub, pc, cur>>
  BY SessionAssumption
  DEF SessionInv, PartType, AddChannel, Stop, WriteChannel,
      app, lws, protocol, thread
<1> QED
  BY <1>1 DEF SoleInv, Serving, Unsubscribed, Channels

LEMMA CallbackSoleInv ==
  ASSUME OneAtATime, SessionInv, SoleInv, NEW w \in Conns,
         \/ Established(w) \/ Closed(w) \/ Drop(w)
         \/ ReceiveSubscribe(w) \/ ReceiveUnsubscribe(w) \/ Writeable(w)
  PROVE  SoleInv'
<1> USE DEF app, lws, protocol, thread, Callback, Receiving
<1>0. linked \in Nat /\ w # NoConn /\ conn \in [Conns -> {"none", "open", "closing"}]
  BY SessionAssumption DEF SessionInv, PartType
<1>1. CASE Established(w)
  BY <1>0, <1>1, EstablishedAlone DEF Established, SoleInv, Serving, Unsubscribed
<1>2. CASE Closed(w)
  <2>1. \A v \in Conns : conn'[v] # "open"
    BY <1>0, <1>2 DEF Closed, SoleInv, Serving
  <2>2. \A c \in Channels : cur' = End \/ c < cur' => sub'[c] = -1
    BY <1>0, <1>2, FirstChannelInList DEF Closed, SessionInv, SoleInv, Channels
  <2> QED
    BY <1>0, <1>2, <2>1, <2>2 DEF Closed, SoleInv
<1>3. CASE Drop(w)
  BY <1>0, <1>3 DEF Drop, SoleInv, Serving, Unsubscribed
<1>4. CASE ReceiveSubscribe(w)
  BY <1>0, <1>4 DEF ReceiveSubscribe, SoleInv, Serving, Unsubscribed
<1>5. CASE ReceiveUnsubscribe(w)
  BY <1>0, <1>5 DEF ReceiveUnsubscribe, SoleInv, Serving, Unsubscribed
<1>6. CASE Writeable(w)
  BY <1>0, <1>6 DEF Writeable, SoleInv, Serving, Unsubscribed
<1> QED
  BY <1>1, <1>2, <1>3, <1>4, <1>5, <1>6

\* The walk of foxdbg_protocol_disconnect ends with no connection and no
\* subscription left.
LEMMA DisconnectSoleInv ==
  ASSUME SessionInv, RestType, SoleInv, DisconnectStep \/ DisconnectReturn
  PROVE  SoleInv'
<1>0. /\ client = NoConn /\ wsi \in Conns /\ wsi # NoConn /\ conn[wsi] # "open"
      /\ pc = "disconnect" /\ linked \in Nat
      /\ \A w \in Conns : conn[w] # "open"
  BY SessionAssumption
  DEF DisconnectStep, DisconnectReturn, SessionInv, PartType, HandlerInv, SoleInv, Serving
<1>1. CASE DisconnectStep
  <2>1. \A c \in Channels : sub'[c] = IF c = cur THEN -1 ELSE sub[c]
    BY <1>1 DEF DisconnectStep, RestType
  <2>2. \A c \in Channels : cur' = End \/ c < cur' => sub'[c] = -1
    BY <1>0, <1>1, <2>1, NextChannelInList
    DEF DisconnectStep, SessionInv, SoleInv, Channels
  <2> QED
    BY <1>0, <1>1, <2>1, <2>2 DEF DisconnectStep, SoleInv, app, lws, Receiving
<1>2. CASE DisconnectReturn
  <2>1. Unsubscribed /\ UNCHANGED <<linked, sub, client>> /\ pc' = "service"
    BY <1>0, <1>2 DEF DisconnectReturn, SoleInv, Unsubscribed, app
  <2>2. \A w \in Conns : conn'[w] # "open"
    BY <1>0, <1>2 DEF DisconnectReturn, SessionInv, PartType
  <2> QED
    BY <2>1, <2>2 DEF SoleInv, Unsubscribed, Receiving
<1> QED
  BY <1>1, <1>2

\* A handler that knows its client.
LEMMA HandlerSoleInv ==
  ASSUME SessionInv, RestType, SoleInv,
         \/ AdvertiseStep \/ AdvertiseSend
         \/ TakeElement \/ ReceiveReturn \/ FindStep \/ FindEnd
         \/ TransmitSend \/ TransmitNext \/ TransmitReturn
  PROVE  SoleInv'
<1> USE DEF app, lws, protocol, Receiving
<1>0. linked \in Nat /\ linked >= linked
  BY DEF SessionInv, PartType
<1>1. CASE FindStep
  <2>1. client # NoConn /\ cur \in Channels /\ cur < linked
    <3>1. client # NoConn /\ cur # End
      BY <1>1 DEF FindStep, SoleInv
    <3>2. cur \in Channels
      BY <3>1, NextChannelInList DEF SessionInv
    <3>3. cur \in 0..(linked - 1)
      BY <3>1 DEF SessionInv, PartType
    <3> QED
      BY <1>0, <3>1, <3>2, <3>3
  <2>2. \A c \in Channels : c # cur => sub'[c] = sub[c]
    BY <1>1 DEF FindStep, RestType
  <2>3. /\ UNCHANGED <<linked, conn, client, running>>
        /\ pc \notin {"service", "exited", "disconnect"}
        /\ pc' \notin {"exited", "disconnect"} /\ pc \in Receiving
    BY <1>1 DEF FindStep
  <2>4. \A c \in Channels : c >= linked => sub'[c] = -1
    <3>1. \A c \in Channels : c >= linked => c # cur
      BY <1>0, <2>1 DEF Channels
    <3> QED
      BY <2>2, <3>1 DEF SoleInv
  <2>5. Serving
    BY <2>3 DEF Serving
  <2> QED
    BY <2>1, <2>3, <2>4, <2>5 DEF SoleInv
<1>2. CASE AdvertiseStep \/ AdvertiseSend
  BY <1>0, <1>2, StillSoleInv DEF AdvertiseStep, AdvertiseSend
<1>3. CASE TakeElement \/ ReceiveReturn \/ FindEnd
  <2>1. client # NoConn
    BY <1>3 DEF TakeElement, ReceiveReturn, FindEnd, SoleInv
  <2> QED
    BY <1>0, <1>3, <2>1, StillSoleInv DEF TakeElement, ReceiveReturn, FindEnd
<1>4. CASE TransmitSend \/ TransmitNext \/ TransmitReturn
  BY <1>0, <1>4, StillSoleInv DEF TransmitSend, TransmitNext, TransmitReturn
<1> QED
  BY <1>1, <1>2, <1>3, <1>4

LEMMA NextSoleInv ==
  ASSUME OneAtATime, SessionInv, RestType, SoleInv, [Next]_vars
  PROVE  SoleInv'
<1>1. CASE Exit
  BY <1>1 DEF Exit, SoleInv, Serving, Receiving, app, lws
<1>2. CASE UNCHANGED vars
  BY <1>2 DEF vars, app, lws, protocol, thread, SoleInv, Serving, Unsubscribed
<1> QED
  BY <1>1, <1>2, ApplicationSoleInv, CallbackSoleInv, DisconnectSoleInv, HandlerSoleInv
  DEF Next, Handler

\* What a step of the server is to its client.
LEMMA NextClientSession ==
  ASSUME OneAtATime, SessionInv, RestType, SoleInv, [Next]_vars
  PROVE  [CS!SNext]_CS!svars
<1> DEFINE subs == IF client = NoConn THEN [c \in Channels |-> -1] ELSE sub
<1>0. /\ \A w \in Conns : w # NoConn
      /\ sub \in [Channels -> SubIds \union {-1}]
      /\ cur # End => cur \in Channels
  BY SessionAssumption, NextChannelInList DEF SessionInv, RestType
<1>1. ASSUME UNCHANGED <<client, sent>>, sub' = sub \/ client = NoConn
      PROVE  UNCHANGED CS!svars
  BY <1>1 DEF CS!svars
<1>2. ASSUME NEW w \in Conns, Established(w) PROVE CS!Join(w)
  <2>1. client = NoConn /\ client' = w /\ UNCHANGED <<sub, sent>>
    BY <1>2, EstablishedAlone DEF Established
  <2>2. sub = [c \in Channels |-> -1]
    BY <1>0, <1>2, <2>1 DEF Established, Callback, SoleInv, Unsubscribed
  <2> QED
    BY <1>0, <2>1, <2>2 DEF CS!Join, CS!NoSubs
<1>3. ASSUME NEW w \in Conns, Closed(w) PROVE CS!Leave
  <2>1. client = w
    BY <1>3 DEF Closed, Callback, SoleInv, Serving
  <2> QED
    BY <1>0, <1>3, <2>1 DEF Closed, history, CS!Leave, CS!NoSubs
<1>4. CASE Exit
  BY <1>1, <1>4 DEF Exit, history, CS!Leave, CS!NoSubs, CS!svars, CS!SNext
<1>5. CASE FindStep
  <2>1. client # NoConn /\ cur \in Channels /\ UNCHANGED <<client, sent>>
    BY <1>0, <1>5 DEF FindStep, SoleInv, Receiving, history
  <2>2. CASE UNCHANGED sub
    BY <1>1, <2>1, <2>2
  <2>3. CASE pc = "subscribe.find" /\ sub' = [sub EXCEPT ![cur] = Head(todo).id]
    BY <2>1, <2>3, FoundId DEF CS!Subscribe, CS!SNext
  <2>4. CASE sub' = [sub EXCEPT ![cur] = -1]
    BY <2>1, <2>4 DEF CS!Unsubscribe, CS!SNext
  <2> QED
    BY <1>5, <2>2, <2>3, <2>4 DEF FindStep
<1>6. CASE TransmitSend
  <2>1. cur \in Channels /\ UNCHANGED <<client, sub>>
    BY <1>0, <1>6 DEF TransmitSend, protocol
  <2>2. CASE /\ Sends(cur) /\ client # NoConn
             /\ sent' = [to |-> client, id |-> sub[cur], channel |-> cur]
    <3>1. sub[cur] # -1
      BY <2>2 DEF Sends
    <3> QED
      BY <1>6, <2>1, <2>2, <3>1 DEF TransmitSend, CS!Deliver, CS!SNext
  <2>3. CASE UNCHANGED sent
    BY <1>1, <2>1, <2>3
  <2> QED
    BY <1>6, <2>2, <2>3 DEF TransmitSend
<1>7. CASE DisconnectStep \/ DisconnectReturn
  <2>1. /\ client = NoConn /\ wsi \in Conns /\ conn[wsi] # "open"
    BY <1>0, <1>7
    DEF DisconnectStep, DisconnectReturn, SessionInv, HandlerInv, SoleInv, Serving
  <2> QED
    BY <1>1, <1>7, <2>1 DEF DisconnectStep, DisconnectReturn, history
<1>8. CASE \/ AddChannel \/ Stop
           \/ \E c \in Channels : WriteChannel(c)
  <2>1. UNCHANGED <<client, sub, sent>>
    BY <1>8 DEF AddChannel, Stop, WriteChannel, protocol, history
  <2> QED
    BY <1>1, <2>1
<1>9. ASSUME NEW w \in Conns, Drop(w) \/ ReceiveSubscribe(w) \/ ReceiveUnsubscribe(w) \/ Writeable(w)
      PROVE  UNCHANGED CS!svars
  <2>1. UNCHANGED <<client, sub, sent>>
    BY <1>9 DEF Drop, ReceiveSubscribe, ReceiveUnsubscribe, Writeable, protocol, history
  <2> QED
    BY <1>1, <2>1
<1>10. CASE \/ AdvertiseStep \/ AdvertiseSend
            \/ TakeElement \/ ReceiveReturn \/ FindEnd
            \/ TransmitNext \/ TransmitReturn
  <2>1. UNCHANGED <<client, sub, sent>>
    BY <1>10 DEF AdvertiseStep, AdvertiseSend, TakeElement, ReceiveReturn, FindEnd,
                 TransmitNext, TransmitReturn, protocol, history
  <2> QED
    BY <1>1, <2>1
<1>11. CASE UNCHANGED vars
  BY <1>1, <1>11 DEF vars, protocol, history
<1> QED
  BY <1>2, <1>3, <1>4, <1>5, <1>6, <1>7, <1>8, <1>9, <1>10, <1>11 DEF Next, Handler, CS!SNext

LEMMA SoleInvariant ==
  ASSUME OneAtATime
  PROVE  Spec => []SoleInv
<1>1. SoleInv /\ SessionInv /\ RestType /\ [Next]_vars => SoleInv'
  BY NextSoleInv, OneAtATime
<1> QED
  BY <1>1, InitSoleInv, SessionInvariant, RestInvariant, PTL DEF Spec

\* When clients come one at a time, each gets a session of its own: it starts
\* without subscriptions, holds those the client makes, and ends with all of
\* them, for any list of channels and whatever is appended to it meanwhile.
THEOREM SessionsAreOwn ==
  ASSUME OneAtATime
  PROVE  Spec => ImplementsClientSession
<1>1. Init => CS!SInit
  BY DEF Init, CS!SInit, CS!NoSubs, CS!NoFrame
<1>2. SoleInv /\ SessionInv /\ RestType /\ [Next]_vars => [CS!SNext]_CS!svars
  BY NextClientSession, OneAtATime
<1> QED
  BY <1>1, <1>2, SoleInvariant, OneAtATime, SessionInvariant, RestInvariant, PTL
  DEF Spec, ImplementsClientSession, CS!SSpec

\* When clients come one at a time, a sender that gives up for want of a client has
\* none to send to: what send_json and send_buffer print, "Client not connected", is
\* then true, and a connection that ends while another is open is what refutes it.
THEOREM NotConnectedIsTrueAlone ==
  ASSUME OneAtATime
  PROVE  Spec => []NotConnectedMeansNone
<1>1. SoleInv => NotConnectedMeansNone
  BY SessionAssumption DEF SoleInv, NotConnectedMeansNone, Opened, Serving
<1> QED
  BY <1>1, SoleInvariant, OneAtATime, PTL

-----------------------------------------------------------------------------
(* Handlers end.                                                           *)

Searching == {"subscribe.find", "unsubscribe.find"}

\* What is left of a message is a sequence, and a search is for its first element.
MessageInv ==
  /\ pc \in Receiving => todo \in Seq(Elements \union SubIds)
  /\ pc \in Searching => todo # <<>>

LEMMA InitMessageInv == Init => MessageInv
BY DEF Init, MessageInv, Receiving, Searching

LEMMA NextMessageInv == MessageInv /\ [Next]_vars => MessageInv'
<1> SUFFICES ASSUME MessageInv, [Next]_vars PROVE MessageInv'
  OBVIOUS
<1> USE DEF MessageInv, Receiving, Searching
<1>1. ASSUME NEW w \in Conns, ReceiveSubscribe(w) \/ ReceiveUnsubscribe(w) PROVE MessageInv'
  <2>1. SubscribeLists \subseteq Seq(Elements \union SubIds)
    BY SessionAssumption DEF Elements
  <2>2. UnsubscribeLists \subseteq Seq(Elements \union SubIds)
    BY SessionAssumption DEF Elements
  <2> QED
    BY <1>1, <2>1, <2>2 DEF ReceiveSubscribe, ReceiveUnsubscribe
<1>2. CASE TakeElement
  BY <1>2 DEF TakeElement
<1>3. CASE FindStep
  BY <1>3 DEF FindStep
<1>4. CASE FindEnd
  BY <1>4 DEF FindEnd
<1>5. CASE ReceiveReturn
  BY <1>5 DEF ReceiveReturn
<1>6. ASSUME NEW w \in Conns, Established(w) \/ Closed(w) \/ Drop(w) \/ Writeable(w)
      PROVE  MessageInv'
  BY <1>6 DEF Established, Closed, Drop, Writeable, Callback, thread
<1>7. CASE \/ DisconnectStep \/ DisconnectReturn \/ AdvertiseStep \/ AdvertiseSend
           \/ TransmitSend \/ TransmitNext \/ TransmitReturn \/ Exit
  BY <1>7 DEF DisconnectStep, DisconnectReturn, AdvertiseStep, AdvertiseSend,
              TransmitSend, TransmitNext, TransmitReturn, Exit
<1>8. CASE \/ AddChannel \/ Stop \/ (\E c \in Channels : WriteChannel(c))
           \/ UNCHANGED vars
  BY <1>8 DEF AddChannel, Stop, WriteChannel, thread, vars
<1> QED
  BY <1>1, <1>2, <1>3, <1>4, <1>5, <1>6, <1>7, <1>8 DEF Next, Handler

LEMMA MessageInvariant == Spec => []MessageInv
BY InitMessageInv, NextMessageInv, PTL DEF Spec

\* The nodes that a walk has before it.
LEMMA NodesLeft ==
  ASSUME PartType
  PROVE  /\ MaxChannels \in Nat /\ End - cur \in 0..MaxChannels
         /\ End - FirstChannel \in 0..MaxChannels
         /\ cur # End => End - NextChannel(cur) \in 0..(End - cur - 1)
<1>1. /\ MaxChannels \in Nat /\ linked \in 0..MaxChannels
      /\ cur \in 0..(linked - 1) \union {End}
  BY SessionAssumption DEF PartType
<1> QED
  BY <1>1 DEF FirstChannel, NextChannel, End

\* An element of a message costs no more than a walk and two steps.
LEMMA ElementsLeft ==
  ASSUME NEW n \in Nat, n > 0
  PROVE  /\ (n - 1) * (MaxChannels + 2) \in Nat
         /\ n * (MaxChannels + 2) = (n - 1) * (MaxChannels + 2) + MaxChannels + 2
<1>1. MaxChannels \in Nat
  BY SessionAssumption
<1> QED
  BY <1>1, Z3

LEMMA HandlerRemaining ==
  ASSUME SessionInv, MessageInv, Handler
  PROVE  Remaining' \in Nat /\ Remaining' < Remaining
<1>1. /\ MaxChannels \in Nat /\ End - cur \in 0..MaxChannels
      /\ End - FirstChannel \in 0..MaxChannels
      /\ cur # End => End - NextChannel(cur) \in 0..(End - cur - 1)
  BY NodesLeft DEF SessionInv
<1>2. CASE DisconnectStep
  BY <1>1, <1>2 DEF DisconnectStep, Remaining, End
<1>3. CASE DisconnectReturn
  BY <1>1, <1>3 DEF DisconnectReturn, Remaining, End
<1>4. CASE AdvertiseStep
  BY <1>1, <1>4 DEF AdvertiseStep, Remaining, End
<1>5. CASE AdvertiseSend
  BY <1>1, <1>5 DEF AdvertiseSend, Remaining, End
<1>6. CASE TransmitSend
  BY <1>1, <1>6 DEF TransmitSend, Remaining, End
<1>7. CASE TransmitNext
  <2>1. cur # End
    BY <1>7 DEF TransmitNext, SessionInv, HandlerInv
  <2> QED
    BY <1>1, <1>7, <2>1 DEF TransmitNext, Remaining, End
<1>8. CASE TransmitReturn
  BY <1>1, <1>8 DEF TransmitReturn, Remaining, End
<1>9. CASE ReceiveReturn
  BY <1>1, <1>9 DEF ReceiveReturn, Remaining
<1>10. CASE TakeElement \/ FindStep \/ FindEnd
  <2>1. todo \in Seq(Elements \union SubIds) /\ todo # <<>>
    BY <1>10 DEF TakeElement, FindStep, FindEnd, MessageInv, Receiving, Searching
  <2> DEFINE n == Len(todo)
             rest == (n - 1) * (MaxChannels + 2)
  <2>2. n \in Nat /\ n > 0 /\ Len(Tail(todo)) = n - 1
    BY <2>1
  <2>3. rest \in Nat /\ n * (MaxChannels + 2) = rest + MaxChannels + 2
    BY <2>2, ElementsLeft
  <2>4. /\ pc \in {"subscribe", "unsubscribe"} => Remaining = rest + MaxChannels + 3
        /\ pc \in Searching => Remaining = rest + (End - cur) + 2
    BY <1>1, <2>3 DEF Remaining, Searching
  <2>5. CASE todo' = Tail(todo) /\ pc' \in {"subscribe", "unsubscribe"}
    <3>1. Remaining' = rest + 1
      BY <2>2, <2>5 DEF Remaining
    <3> QED
      BY <1>1, <1>10, <2>3, <2>4, <3>1 DEF TakeElement, FindStep, FindEnd, Searching
  <2>6. CASE todo' = todo /\ pc' \in Searching
    <3>1. Remaining' = rest + (End - cur') + 2
      BY <2>6 DEF Remaining, Searching, End
    <3> QED
      BY <1>1, <1>10, <2>1, <2>3, <2>4, <2>6, <3>1
      DEF TakeElement, FindStep, FindEnd, Searching
  <2>7. CASE pc' = "service"
    <3>1. Remaining' = 0
      BY <2>7 DEF Remaining
    <3> QED
      BY <1>1, <1>10, <2>3, <2>4, <2>7, <3>1 DEF TakeElement, FindStep, FindEnd, Searching
  <2> QED
    BY <1>10, <2>5, <2>6, <2>7 DEF TakeElement, FindStep, FindEnd, Searching
<1> QED
  BY <1>2, <1>3, <1>4, <1>5, <1>6, <1>7, <1>8, <1>9, <1>10 DEF Handler

\* Every handler ends, for any number of channels and any messages: each of its
\* steps brings its end nearer and nobody else's step puts it off.
THEOREM EveryHandlerEnds == Spec => HandlersEnd
<1>1. ASSUME SessionInv, MessageInv, [Next]_vars, pc \notin {"service", "exited"}
      PROVE  IF Handler THEN Remaining' \in Nat /\ Remaining' < Remaining
                        ELSE UNCHANGED thread
  <2>1. CASE Handler
    BY <1>1, <2>1, HandlerRemaining
  <2>2. CASE ~Handler
    <3>1. UNCHANGED thread
      BY <1>1, <2>2
      DEF Next, vars, AddChannel, WriteChannel, Stop, Exit, Established,
          Closed, Drop, ReceiveSubscribe, ReceiveUnsubscribe, Writeable, Callback
    <3> QED
      BY <2>2, <3>1
  <2> QED
    BY <2>1, <2>2
<1>2. SessionInv /\ MessageInv /\ [Next]_vars =>
        [pc \notin {"service", "exited"} =>
           IF Handler THEN Remaining' \in Nat /\ Remaining' < Remaining
                      ELSE UNCHANGED thread]_vars
  BY <1>1
<1> QED
  BY <1>2, SessionInvariant, MessageInvariant, PTL DEF Spec, HandlersEnd
=============================================================================
