---------------------------- MODULE FoxdbgSession ---------------------------
(***************************************************************************)
(* The server thread of foxdbg as its clients see it: the websocket        *)
(* callback of lib/foxdbg_thread.cpp and the handlers of                   *)
(* lib/foxdbg_protocol.cpp that it calls, over the channel list that       *)
(* application threads extend through lib/foxdbg.c.                        *)
(*                                                                         *)
(* Callbacks run one at a time on the server thread.  Each walks the       *)
(* channel list one node per step, so that foxdbg_add_channel can append   *)
(* between two steps.  A channel is the position of its node, which is its *)
(* channel_id when one thread adds channels.                               *)
(***************************************************************************)
EXTENDS Integers, Sequences, FiniteSets

CONSTANTS
  Conns,        \* websocket connections (struct lws)
  NoConn,       \* NULL
  MaxOpen,      \* bound: connections open at a time
  MaxChannels,  \* bound: channels the application adds
  SubIds,       \* subscription ids that clients choose
  SubscribeLists,    \* "subscriptions" arrays of the messages of clients
  UnsubscribeLists,  \* "subscriptionIds" arrays of the messages of clients
  Malformed,    \* an array element whose conversion throws
  Announceable  \* sets of channels whose announcement fits tx_buffer

Channels == 0..(MaxChannels - 1)
End == MaxChannels      \* the NULL that ends the list

ASSUME SessionAssumption ==
  /\ NoConn \notin Conns
  /\ MaxOpen \in Nat \ {0}
  /\ MaxChannels \in Nat \ {0}
  /\ SubIds \subseteq Nat
  /\ Malformed \notin SubIds \union [id : SubIds, channelId : Nat]
  /\ SubscribeLists \subseteq Seq([id : SubIds, channelId : Nat] \union {Malformed})
  /\ UnsubscribeLists \subseteq Seq(SubIds \union {Malformed})
  /\ Announceable \subseteq SUBSET Nat

VARIABLES
  linked,       \* number of channels in the list
  written,      \* written[c]: the data buffer holds content that the sender accepts
                \* and whose message fits tx_buffer
  running,      \* std::atomic_bool running
  conn,         \* conn[w]: "none", "open", or "closing" while CLOSED is handled
  armed,        \* armed[w]: lws_callback_on_writable was called for w
  client,       \* static struct lws *client
  sub,          \* sub[c]: subscription_id of channel c
  pc,           \* what the server thread does
  wsi,          \* connection whose callback is running
  cur,          \* current: the node that the loop of a handler has reached
  todo,         \* elements of the message that are still to be handled
  listed,       \* channels_info of send_advertise
  \* History, read by no guard:
  advertised,   \* advertised[w]: channels announced to w
  had,          \* had[w]: length of the list when w connected
  newest,       \* the connection that was established last
  sent          \* latest frame sent: receiver, subscription id and channel

app == <<linked, written>>
lws == <<conn, armed>>
protocol == <<client, sub>>
thread == <<pc, wsi, cur, todo, listed>>
history == <<advertised, had, newest, sent>>
vars == <<app, running, lws, protocol, thread, history>>

-----------------------------------------------------------------------------
\* The node *channels points to, and the node after c.
FirstChannel == IF linked = 0 THEN End ELSE 0

\* Mutant: the loop runs past the last node.
BugNextChannel(c) == c + 1

NextChannel(c) == IF c + 1 < linked THEN c + 1 ELSE End

Opened == {w \in Conns : conn[w] = "open"}

\* A callback begins: websocket_callback tests running before anything else.
Callback(w) ==
  /\ pc = "service"
  /\ running
  /\ wsi' = w

Init ==
  /\ linked = 0 /\ written = [c \in Channels |-> FALSE]
  /\ running = TRUE
  /\ conn = [w \in Conns |-> "none"] /\ armed = [w \in Conns |-> FALSE]
  /\ client = NoConn
  /\ sub = [c \in Channels |-> -1]
  /\ pc = "service" /\ wsi = NoConn /\ cur = End /\ todo = <<>> /\ listed = {}
  /\ advertised = [w \in Conns |-> {}] /\ had = [w \in Conns |-> 0]
  /\ newest = NoConn
  /\ sent = [to |-> NoConn, id |-> -1, channel |-> -1]

-----------------------------------------------------------------------------
(* The application.                                                        *)

\* foxdbg_add_channel: the new node is complete when it is linked.
AddChannel ==
  /\ linked < MaxChannels
  /\ linked' = linked + 1
  /\ UNCHANGED <<written, running, lws, protocol, thread, history>>

\* foxdbg_write_channel, as one step (FoxdbgBuffer has all of them): the content
\* can be sent by the sender of the channel, or it cannot.
WriteChannel(c) ==
  /\ c < linked
  /\ \E accepted \in BOOLEAN : written' = [written EXCEPT ![c] = accepted]
  /\ UNCHANGED <<linked, running, lws, protocol, thread, history>>

\* foxdbg_thread_shutdown: running.store(false)
Stop ==
  /\ running
  /\ running' = FALSE
  /\ UNCHANGED <<app, lws, protocol, thread, history>>

-----------------------------------------------------------------------------
(* ESTABLISHED and CLOSED.                                                 *)

\* Mutant: the first client stays the client.
BugEstablished(w) ==
  /\ Callback(w)
  /\ conn[w] = "none"
  /\ Cardinality(Opened) < MaxOpen
  /\ conn' = [conn EXCEPT ![w] = "open"]
  /\ newest' = w
  /\ had' = [had EXCEPT ![w] = linked]
  /\ cur' = FirstChannel
  /\ client' = IF client = NoConn THEN w ELSE client
  /\ pc' = "advertise"
  /\ listed' = {}
  /\ UNCHANGED <<app, running, armed, sub, todo, advertised, sent>>

\* foxdbg_protocol_connect calls foxdbg_protocol_disconnect first when there is
\* a client, then becomes the handler of w and announces.
Established(w) ==
  /\ Callback(w)
  /\ conn[w] = "none"
  /\ Cardinality(Opened) < MaxOpen
  /\ conn' = [conn EXCEPT ![w] = "open"]
  /\ newest' = w
  /\ had' = [had EXCEPT ![w] = linked]
  /\ cur' = FirstChannel
  /\ IF client # NoConn
     THEN client' = NoConn /\ pc' = "disconnect"
     ELSE client' = w /\ pc' = "advertise"
  /\ listed' = {}
  /\ UNCHANGED <<app, running, armed, sub, todo, advertised, sent>>

\* foxdbg_protocol_disconnect: its argument is not used.
Closed(w) ==
  /\ Callback(w)
  /\ conn[w] = "open"
  /\ conn' = [conn EXCEPT ![w] = "closing"]
  /\ armed' = [armed EXCEPT ![w] = FALSE]
  /\ client' = NoConn
  /\ cur' = FirstChannel
  /\ pc' = "disconnect"
  /\ UNCHANGED <<app, running, sub, todo, listed, history>>

\* Mutant: the loop stops at the last node.
BugDisconnectStep ==
  /\ pc = "disconnect"
  /\ cur # End
  /\ sub' = IF NextChannel(cur) = End THEN sub ELSE [sub EXCEPT ![cur] = -1]
  /\ cur' = NextChannel(cur)
  /\ UNCHANGED <<app, running, lws, client, pc, wsi, todo, listed, history>>

\* The loop of foxdbg_protocol_disconnect.
DisconnectStep ==
  /\ pc = "disconnect"
  /\ cur # End
  /\ sub' = [sub EXCEPT ![cur] = -1]
  /\ cur' = NextChannel(cur)
  /\ UNCHANGED <<app, running, lws, client, pc, wsi, todo, listed, history>>

\* Its return: to foxdbg_protocol_connect, or to lws, which frees the connection.
DisconnectReturn ==
  /\ pc = "disconnect"
  /\ cur = End
  /\ IF conn[wsi] = "open"
     THEN /\ client' = wsi
          /\ cur' = FirstChannel
          /\ pc' = "advertise"
          /\ UNCHANGED <<conn, advertised, had>>
     ELSE /\ conn' = [conn EXCEPT ![wsi] = "none"]
          /\ advertised' = [advertised EXCEPT ![wsi] = {}]
          /\ had' = [had EXCEPT ![wsi] = 0]
          /\ pc' = "service"
          /\ UNCHANGED <<client, cur>>
  /\ UNCHANGED <<app, running, armed, sub, wsi, todo, listed, newest, sent>>

\* Mutant: the loop stops at the last node.
BugAdvertiseStep ==
  /\ pc = "advertise"
  /\ cur # End
  /\ listed' = IF NextChannel(cur) = End THEN listed ELSE listed \union {cur}
  /\ cur' = NextChannel(cur)
  /\ UNCHANGED <<app, running, lws, protocol, pc, wsi, todo, history>>

\* The loop of send_advertise.
AdvertiseStep ==
  /\ pc = "advertise"
  /\ cur # End
  /\ listed' = listed \union {cur}
  /\ cur' = NextChannel(cur)
  /\ UNCHANGED <<app, running, lws, protocol, pc, wsi, todo, history>>

\* send_json, which sends nothing when there is no client or the text is too long,
\* and the callback asks for the first WRITEABLE of wsi.
AdvertiseSend ==
  /\ pc = "advertise"
  /\ cur = End
  /\ advertised' = IF client # NoConn /\ listed \in Announceable
                   THEN [advertised EXCEPT ![client] = listed]
                   ELSE advertised
  /\ armed' = [armed EXCEPT ![wsi] = TRUE]
  /\ pc' = "service"
  /\ UNCHANGED <<app, running, conn, protocol, wsi, cur, todo, listed,
                 had, newest, sent>>

\* Once running is false every callback of w returns -1 and lws drops w.
Drop(w) ==
  /\ pc = "service"
  /\ ~running
  /\ conn[w] = "open"
  /\ conn' = [conn EXCEPT ![w] = "none"]
  /\ armed' = [armed EXCEPT ![w] = FALSE]
  /\ advertised' = [advertised EXCEPT ![w] = {}]
  /\ had' = [had EXCEPT ![w] = 0]
  /\ UNCHANGED <<app, running, protocol, thread, newest, sent>>

\* The loop of foxdbg_server_thread_main ends; foxdbg_protocol_shutdown.
Exit ==
  /\ pc = "service"
  /\ ~running
  /\ pc' = "exited"
  /\ client' = NoConn
  /\ UNCHANGED <<app, running, lws, sub, wsi, cur, todo, listed, history>>

-----------------------------------------------------------------------------
(* RECEIVE: a message of client w.  Binary messages, other operations and  *)
(* messages without the expected keys change nothing.                      *)

ReceiveSubscribe(w) ==
  /\ Callback(w)
  /\ conn[w] = "open"
  /\ pc' = "subscribe"
  /\ \E list \in SubscribeLists : todo' = list
  /\ UNCHANGED <<app, running, lws, protocol, cur, listed, history>>

ReceiveUnsubscribe(w) ==
  /\ Callback(w)
  /\ conn[w] = "open"
  /\ pc' = "unsubscribe"
  /\ \E list \in UnsubscribeLists : todo' = list
  /\ UNCHANGED <<app, running, lws, protocol, cur, listed, history>>

\* The next element of the array; one that throws is skipped.
TakeElement ==
  /\ pc \in {"subscribe", "unsubscribe"}
  /\ todo # <<>>
  /\ IF Head(todo) = Malformed
     THEN todo' = Tail(todo) /\ UNCHANGED <<pc, cur>>
     ELSE /\ pc' = IF pc = "subscribe" THEN "subscribe.find" ELSE "unsubscribe.find"
          /\ cur' = FirstChannel
          /\ UNCHANGED todo
  /\ UNCHANGED <<app, running, lws, protocol, wsi, listed, history>>

\* The end of the array.
ReceiveReturn ==
  /\ pc \in {"subscribe", "unsubscribe"}
  /\ todo = <<>>
  /\ pc' = "service"
  /\ UNCHANGED <<app, running, lws, protocol, wsi, cur, todo, listed, history>>

\* Does the node that the search has reached match the element?
Matches(c, element) ==
  IF pc = "subscribe.find" THEN c = element.channelId ELSE sub[c] = element

\* One node of the search for the channel of an element.  The first match ends
\* the handler: the rest of the array is not looked at.
FindStep ==
  /\ pc \in {"subscribe.find", "unsubscribe.find"}
  /\ cur # End
  /\ IF Matches(cur, Head(todo))
     THEN /\ sub' = [sub EXCEPT ![cur] = IF pc = "subscribe.find" THEN Head(todo).id ELSE -1]
          /\ pc' = "service"
          /\ todo' = <<>>
          /\ UNCHANGED cur
     ELSE cur' = NextChannel(cur) /\ UNCHANGED <<sub, pc, todo>>
  /\ UNCHANGED <<app, running, lws, client, wsi, listed, history>>

\* No channel matches: on to the next element.
FindEnd ==
  /\ pc \in {"subscribe.find", "unsubscribe.find"}
  /\ cur = End
  /\ todo' = Tail(todo)
  /\ pc' = IF pc = "subscribe.find" THEN "subscribe" ELSE "unsubscribe"
  /\ UNCHANGED <<app, running, lws, protocol, wsi, cur, listed, history>>

-----------------------------------------------------------------------------
(* SERVER_WRITEABLE: foxdbg_protocol_transmit_subscriptions.               *)

\* Mutant: running is not tested.
BugWriteable(w) ==
  /\ pc = "service"
  /\ conn[w] = "open"
  /\ armed[w]
  /\ armed' = [armed EXCEPT ![w] = FALSE]
  /\ wsi' = w
  /\ cur' = FirstChannel
  /\ pc' = "transmit"
  /\ UNCHANGED <<app, running, conn, protocol, todo, listed, history>>

Writeable(w) ==
  /\ Callback(w)
  /\ conn[w] = "open"
  /\ armed[w]
  /\ armed' = [armed EXCEPT ![w] = FALSE]
  /\ cur' = FirstChannel
  /\ pc' = "transmit"
  /\ UNCHANGED <<app, running, conn, protocol, todo, listed, history>>

\* A send_* function that is called for c finds content to send.
Sends(c) == sub[c] >= 0 /\ written[c]

\* One channel of the loop: a send_* function reads the content and writes the
\* frame, or the channel is not due (Foxdbg has the arithmetic of that).
\* send_buffer gives up when there is no client.
TransmitSend ==
  /\ pc = "transmit"
  /\ cur # End
  /\ \/ /\ Sends(cur) /\ client # NoConn
        /\ sent' = [to |-> client, id |-> sub[cur], channel |-> cur]
     \/ UNCHANGED sent
  /\ pc' = "transmit.next"
  /\ UNCHANGED <<app, running, lws, protocol, wsi, cur, todo, listed,
                 advertised, had, newest>>

\* Mutant: the loop goes on only behind a channel that is subscribed.
BugTransmitNext ==
  /\ pc = "transmit.next"
  /\ cur' = IF sub[cur] >= 0 THEN NextChannel(cur) ELSE cur
  /\ pc' = "transmit"
  /\ UNCHANGED <<app, running, lws, protocol, wsi, todo, listed, history>>

\* current = current->next
TransmitNext ==
  /\ pc = "transmit.next"
  /\ cur' = NextChannel(cur)
  /\ pc' = "transmit"
  /\ UNCHANGED <<app, running, lws, protocol, wsi, todo, listed, history>>

\* Mutant: WRITEABLE is asked for again only while something is subscribed.
BugTransmitReturn ==
  /\ pc = "transmit"
  /\ cur = End
  /\ armed' = [armed EXCEPT ![wsi] = \E c \in Channels : sub[c] >= 0]
  /\ pc' = "service"
  /\ UNCHANGED <<app, running, conn, protocol, wsi, cur, todo, listed, history>>

\* The callback asks for the next WRITEABLE of wsi.
TransmitReturn ==
  /\ pc = "transmit"
  /\ cur = End
  /\ armed' = [armed EXCEPT ![wsi] = TRUE]
  /\ pc' = "service"
  /\ UNCHANGED <<app, running, conn, protocol, wsi, cur, todo, listed, history>>

-----------------------------------------------------------------------------
\* A handler that has begun.
Handler ==
  \/ DisconnectStep \/ DisconnectReturn
  \/ AdvertiseStep \/ AdvertiseSend
  \/ TakeElement \/ ReceiveReturn \/ FindStep \/ FindEnd
  \/ TransmitSend \/ TransmitNext \/ TransmitReturn

Next ==
  \/ AddChannel
  \/ \E c \in Channels : WriteChannel(c)
  \/ Stop
  \/ \E w \in Conns : \/ Established(w) \/ Closed(w) \/ Drop(w)
                      \/ ReceiveSubscribe(w) \/ ReceiveUnsubscribe(w)
                      \/ Writeable(w)
  \/ Handler
  \/ Exit

Spec == Init /\ [][Next]_vars

-----------------------------------------------------------------------------
(* Properties.                                                             *)

\* Every variable keeps its type, and no loop stands on a node that is not in
\* the list.
TypeOK ==
  /\ linked \in 0..MaxChannels
  /\ written \in [Channels -> BOOLEAN]
  /\ running \in BOOLEAN
  /\ conn \in [Conns -> {"none", "open", "closing"}]
  /\ armed \in [Conns -> BOOLEAN]
  /\ client \in Conns \union {NoConn}
  /\ sub \in [Channels -> SubIds \union {-1}]
  /\ pc \in {"service", "disconnect", "advertise", "subscribe", "unsubscribe",
             "subscribe.find", "unsubscribe.find", "transmit", "transmit.next", "exited"}
  /\ wsi \in Conns \union {NoConn}
  /\ cur \in 0..(linked - 1) \union {End}
  /\ listed \subseteq 0..(linked - 1)
  /\ advertised \in [Conns -> SUBSET Channels]
  /\ had \in [Conns -> 0..linked]
  /\ newest \in Conns \union {NoConn}
  /\ sent \in [to : Conns \union {NoConn}, id : SubIds \union {-1}, channel : Channels \union {-1}]

\* Whenever a handler may write to client, the connection is one that lws has not
\* closed: no announcement or frame is written through a pointer lws has freed,
\* whatever the order of connects, disconnects and the shutdown.
WritesOnlyToOpen ==
  pc \in {"advertise", "transmit"} /\ client # NoConn => conn[client] = "open"

\* The client is the connection that was established last, or none.
LatestConnectionWins ==
  pc \notin {"disconnect", "exited"} => client \in {newest, NoConn}

\* The announcement of the channels that existed when w connected, with some that were
\* added, is too long for tx_buffer.
TooLongFor(w) ==
  \E added \in SUBSET (had[w]..(linked - 1)) : 0..(had[w] - 1) \union added \notin Announceable

\* Once its connect handler has returned, a client has been told of all the channels
\* that existed when it connected, though others may have been added while the
\* handler walked the list; or of none at all, and then it would have been too long.
AdvertisedAtConnect ==
  \A w \in Conns : pc = "service" /\ conn[w] = "open" =>
    \/ 0..(had[w] - 1) \subseteq advertised[w]
    \/ advertised[w] = {} /\ TooLongFor(w)

\* While the server runs, every open connection waits for its next WRITEABLE:
\* the loop of transmissions never dies.
TransmitLoopAlive ==
  pc = "service" /\ running => \A w \in Opened : armed[w]

\* The steps that the handler that has begun still takes at most: the nodes before
\* it, once for each element of a message, twice for a connect after a disconnect
\* and with two steps to a node of the loop of transmissions.
Remaining ==
  LET nodes == End - cur
  IN  CASE pc = "disconnect"    -> nodes + MaxChannels + 2
        [] pc = "advertise"     -> nodes + 1
        [] pc = "transmit"      -> 2 * nodes + 1
        [] pc = "transmit.next" -> 2 * nodes
        [] pc \in {"subscribe", "unsubscribe"} -> Len(todo) * (MaxChannels + 2) + 1
        [] pc \in {"subscribe.find", "unsubscribe.find"} ->
             (Len(todo) - 1) * (MaxChannels + 2) + nodes + 2
        [] OTHER -> 0

\* A handler always comes nearer to its end, whatever is appended to the list that
\* it walks, whatever the message holds and whoever else takes steps: lws_service
\* gets its thread back.
HandlersEnd ==
  [][pc \notin {"service", "exited"} =>
       IF Handler THEN Remaining' \in Nat /\ Remaining' < Remaining
                  ELSE UNCHANGED thread]_vars

\* send_json and send_buffer give up with "Client not connected" only when no
\* client is connected.
NotConnectedMeansNone ==
  pc = "transmit" /\ cur # End /\ client = NoConn =>
    ~(Sends(cur) /\ Opened # {})

-----------------------------------------------------------------------------
(* With one connection at a time the server implements the session of one  *)
(* client.  A disconnect ends the session before it clears the list.       *)

CS == INSTANCE ClientSession WITH
  session <- client,
  subs    <- IF client = NoConn THEN [c \in Channels |-> -1] ELSE sub,
  frame   <- sent

\* A client never inherits a subscription, and is sent only what it asked for
\* under the id it chose.
ImplementsClientSession == CS!SSpec
=============================================================================
