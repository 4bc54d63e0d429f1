# A TLA+ specification of foxdbg

foxdbg is a small C/C++ library that lets an application publish values, images and
point clouds to Foxglove Studio over a websocket. The application writes channels from
its own threads; one server thread, owned by libwebsockets (lws), sends the channels a
client subscribed to. This directory models that library, model-checks it with TLC and
proves with TLAPS everything of it that is not liveness. Paths below are relative to the repository;
line numbers are in `PROJECT.json`, definition by definition.

## 1. The system

Everything of the library is under `lib/` (2800 lines). `extern/` (libwebsockets,
libjpeg-turbo, nlohmann json) and `examples/c/stb_image.h` (8000 lines) are vendored.

| component | code | state | operations | called by |
|---|---|---|---|---|
| channel buffer | `foxdbg_buffer.c` | two blocks, front/back pointers and populated sizes, three mutexes | alloc, begin/end write, begin/end read, swap | channel writes, senders |
| channel registry | `foxdbg.c`, `foxdbg_channel.h` | linked lists of channels and receive channels, their counters | add, get, add_rx, get_rx, reset by init | application; walked by the server |
| channel writes | `foxdbg.c` | none of their own | write_channel, write_channel_info | application |
| senders | `foxdbg_protocol.cpp`, `send_*` | static `raw_data_buffer`, `info_data_buffer`, `encode_buffer`, `tx_buffer` | one per channel type | transmission loop |
| pacing | `foxdbg_protocol.cpp`, `foxdbg.c` | `target_tx_time`, `last_tx_time` per channel | the test and the stamp of the loop | transmission loop |
| client session | `foxdbg_protocol.cpp`, `foxdbg_thread.cpp` | `client`, `subscription_id` per channel | connect, disconnect, receive, transmit | websocket callback, on the server thread |
| lifecycle | `foxdbg_thread.cpp`, `foxdbg.c` | `running`, `context`, the thread | init, shutdown, server loop | application / server thread |
| encoders | `foxdbg_protocol.cpp` | none | JSON text, JPEG bytes as text | senders |

Interaction is by shared memory only: the application and the server thread share the
buffers (under mutexes), the channel lists (without any), `subscription_id` (atomic macros),
`running` (an atomic) and the static `context` (plain). All handlers of the protocol run one
at a time on the server thread, inside `lws_service`.

What is hard, and what makes each component correct:

* **buffer** - pointers and sizes are exchanged in separate statements, mutexes are released
  between the end of a write and its swap, a copy takes many steps. Correct: frames are the
  whole content of one write, reads are fresh and never go back, the lock order cannot
  deadlock, writes return, written content is seen.
* **registry** - nodes are linked while others follow the pointers. Correct: no node is lost,
  ids are places in the list, a search answers for the list of one instant.
* **session** - clients connect, overlap and leave in any order; channels are appended while a
  handler walks the list; the server may be stopped between any two callbacks. Correct:
  nothing is written to a dead connection, a client inherits no subscription and is sent what
  it asked for under its own id, the announcement is complete or too long to be sent,
  transmission goes on.
* **pacing** - an unsigned difference of a wall clock that is read in whole milliseconds and
  may be set, and a stamp taken after the frame. Correct: frames of a channel keep their
  period, none starves.
* **senders** - all channels share the static copies; an image is two writes and two reads.
  Correct: a frame carries its own channel's content and dimensions, text stays in its buffer.
* **lifecycle** - a wakeup, a flag and a static pointer set by different threads. Correct:
  shutdown returns, in the worst case when a timer of lws expires; init serves; the thread
  exists exactly between the two.

`PROJECT.json` lists every hazard with its line and the properties that would catch it.

## 2. Modules

| module | what it is |
|---|---|
| `LatestValue` | abstract: what a buffer promises. A write takes effect at one instant between call and return; a read delivers, whole, what the cell held at one instant. |
| `FoxdbgBuffer` | the buffer, its two write functions and the read that opens every sender. Refines `LatestValue` for one writer. |
| `ChannelRegistry` | abstract: what the channel functions promise. Lists that grow at the end, and searches that take an instant. |
| `FoxdbgTypes` | channel types: sizes of their structures and buffers, sizes their senders accept. |
| `FoxdbgChannels` | the two lists, appended and searched node by node. Refines `ChannelRegistry`. |
| `ClientSession` | abstract: what a client that is alone is promised. |
| `FoxdbgSession` | websocket callback and protocol handlers over the growing channel list. Refines `ClientSession` when one connection is open at a time. |
| `FoxdbgPacing` | the arithmetic of `target_hz`, `last_tx_time` and the clock. |
| `Foxdbg` | the composition: the server of `FoxdbgSession` over channels with content, types and a clock. Refines `FoxdbgSession`. |
| `FoxdbgImage` | `send_image` and `encode_image_byte_array`. |
| `FoxdbgLifecycle` | init, shutdown and the server loop. |
| `FoxdbgBufferProofs`, `FoxdbgBufferOrderProofs`, `FoxdbgChannelsProofs`, `FoxdbgSessionProofs`, `FoxdbgPacingProofs`, `FoxdbgProofs`, `FoxdbgImageProofs`, `FoxdbgLifecycleProofs` | theorems about the module each is named for. |
| `MCFoxdbgBuffer`, `MCFoxdbgSession`, `MCFoxdbg` | symmetry sets, client messages, types and sizes for TLC. |

How they fit: `FoxdbgBuffer` implements a latest-value cell, so `Foxdbg` and `FoxdbgImage`
have a cell where the code has a buffer. `FoxdbgChannels` implements a list that grows at
its end, so `FoxdbgSession` has a number of linked nodes. `Foxdbg` uses the
actions of `FoxdbgSession` through `INSTANCE`, with its variable `written` replaced by what
the content and the types say, and decides by the clock where `FoxdbgSession` lets any
channel be due; it implements `FoxdbgSession`, which implements `ClientSession`.

### FoxdbgBuffer

`pc[t]` names the place where thread `t` stands: `begin_write.swap` is "in
`foxdbg_buffer_begin_write`, about to lock `swap_mutex`". Each lock, unlock, pointer
exchange, size exchange and copied word is a step; a thread that cannot lock has no step.
A word of memory holds the number of the write call that stored it, so mixtures of two
writes, or old words under a new size, are visible. `Capacity` and `RawSize` are
`buffer_size` and the size of the static copy. `RejectsOversize` selects
`foxdbg_write_channel` (an oversized write stores nothing and reports 0) or
`foxdbg_write_channel_info` (it stores nothing and reports the caller's size).
`EncodesCopy` selects the senders that use their copy or `send_pointcloud`, which uses the
block it has released. `FrameSizes` is the size check of the channel's sender. A frame may
not fit `tx_buffer`; that depends on its text, so `Encode` may or may not send.

The variables `issued, asked, ver, tag, seen, returned, floor` are history: no guard of the
code reads them (`issued` only carries the bound `MaxWrites`).

In `ImplementsLatestValue` the cell holds `tag[front_buffer]` and a write takes effect when
the pointers are exchanged (`SwapPointers`), although its size follows a step later: no
reader can be between the two.

### FoxdbgChannels and FoxdbgTypes

`next[n]` and `head[k]` are the pointers, `count[k]` the counter of list `k` (`"tx"`: channels,
`"rx"`: receive channels, whose functions are the same code over other variables).
`AddBegin` fills a node, `AddWalk` is one turn of the loop to the last node, `AddLink` the
store that links, `AddCount` the counter and the return. A search holds a pointer between
its steps. It is by topic (`foxdbg_get_channel`, `foxdbg_get_rx_channel`), by id
(`foxdbg_write_channel`), or by id among the channels with an info buffer
(`foxdbg_write_channel_info`), which a channel has exactly when it is an image.
`foxdbg_init` empties the lists and leaves the nodes allocated. The module has one
adding and one searching thread, which is how the example program uses the library; the
search stands for all walks, of the server too. Stores are seen in program order: the code
uses plain stores, which promise less on a weakly ordered machine.

`FoxdbgTypes` has one line per switch over the types: sizes of the structures in a 64-bit
build, the buffers `foxdbg_add_channel` allocates, the sizes the senders accept.

### FoxdbgSession

A channel is the position of its node. The loops of `disconnect`, `send_advertise`,
`receive` and `transmit_subscriptions` advance `cur` one node per step, so the application's
`AddChannel` falls between any two. `TransmitSend` sends or does not: whether a channel is
due is left open. `written` abstracts the buffer (its content can be sent or not); `Foxdbg`
has both in full. `Announceable` is the set of the sets of channels whose announcement fits
`tx_buffer`: `send_json` drops a longer one, and the client is told of no channel. `conn` and
`armed` are lws: a connection, and a pending request for WRITEABLE. Callbacks refuse to run
once `running` is false, and lws then drops the connection (`Drop`): the protocol's
`disconnect` is not called.

A message's array is a sequence; `Malformed` is an element whose conversion throws inside
the `try`. The handlers return at the first match, which loses the rest of the array.
Messages are assumed to be JSON: a parse error throws outside the `try` blocks.

### FoxdbgPacing and Foxdbg

`Elapsed` is a difference modulo 2^w. In `Foxdbg` time passes in ticks, `PerMs` of them in a
millisecond, and the clock is read in whole milliseconds: `phase` is the number of ticks since
it began to read the present one. A channel keeps `age[c]`, which is what the clock reads less
`last_tx_time`: nothing in the code compares times in another way. It is cut at `MaxAge`, and
negative after the clock was set back behind the stamp; `ClockAssumption` says when the cut
changes no decision. `SetClock` sets the clock forward by up to a millisecond or back by up to
`MaxBack` ticks, any number of times forward.

A turn of the loop of transmissions is three steps: `TransmitRead` reads the clock,
`TransmitSend` runs the sender up to its return, `TransmitNext` stamps `last_tx_time` with a
second reading and goes on. Time passes between any two of them, so that a stamp of the time
before the send differs from the stamp of the code (it is a mutant). `since[c]` is a history of real time, in ticks, since the last frame of the
channel. `FramesKeepThePeriod` says that this is more than `target_tx_time` at every frame.
It says no more than that: the period is rounded down, so that 30 Hz gives frames that may
follow each other after a little more than 33 milliseconds, and a clock that is set
forward by a period lets a frame follow at once (`SetClock` ends the promise).

`raw_data_buffer` is the static copy of all senders: a sender that refuses a size leaves it
alone. Types with two reads or two cells (point clouds, images) have their own modules.

### FoxdbgImage

Dimensions are numbered per channel in the order they are written; pixels are known by the
dimensions they are laid out by, the latest ones written before them, or 0 when there were
none: the library does not look at the order of the two calls, and neither does the module.
`send_image` reads the two buffers one after the other, and both may be written between. An
info buffer that was never written has no bytes to copy, so that such a channel is described
by what the static `info_data_buffer` has left of another one; `described` remembers whether
the channel had dimensions when its turn came. Compression fails or gives a number of
bytes; the encoder then writes one to three digits and a comma per byte.

### FoxdbgLifecycle

The application calls init and shutdown in any order; the server thread creates a context,
loops, tests `running`, polls. `wakeup[x]` is the eventfd that `lws_cancel_service` writes: it
stays readable until the poll that reads it. Facts of the vendored lws the module rests on:
`lws_service(NULL)` returns at once; `poll` waits no longer than for the next timer, and lws
keeps one of 30 seconds armed (`ServiceTimer`); `lws_cancel_service` follows its argument;
creating a context on a port that another context listens on fails, and may fail for
reasons that are not foxdbg's, also the first time (`refused`); foxdbg never destroys a
context.

`app = "crashed"` is the end of the process: a shutdown that overtakes the creation of the
context, comes before any init, or follows a failed creation, hands lws a null pointer; an
init while a thread is not joined makes `std::thread` terminate. No run forbids these, since
no statement in the repository orders the calls.

## 3. Runs

Passing:

| run | instance | shows |
|---|---|---|
| `buffer_one_writer` | 1 writer, 1 reader, 2-word blocks, sizes 1, 2 and 3 (too big), 4 writes | whole frames, lock order, publication, freshness, undisturbed reads, calls that only come nearer to their return, refinement of `LatestValue`; under fairness writes return and content is seen |
| `session_one_client` | 2 connections one at a time, 3 channels, 2 ids, batches, unknown channel, throwing element | refinement of `ClientSession`, handlers that only come nearer to their end |
| `session_two_clients` | 2 connections at once, 3 channels, an announcement of all three too long | no write to a dead connection, latest client wins, an announcement that is complete or too long, the WRITEABLE loop |
| `lifecycle` | 3 calls of init, shutdowns among them, contexts that cannot be created | thread and calls agree, shutdown returns, with a client connected without the timer of lws |
| `channels` | 3 nodes in two lists, 2 topics, 2 types (one with an info buffer), 3 ids, one reset | the lists are chains, ids are places, refinement of `ChannelRegistry` |
| `image` | 2 image channels, 2 dimensions each or none, 0, 2 or 20 compressed bytes | own pixels, own dimensions where there are any, never older ones, the encoder's text stays in its buffer |
| `foxdbg` | 1 client, a list and a value channel of 1000 Hz, texts that do not fit, clock set forward and back | frames are their channel's, refinement of `FoxdbgSession`; under fairness a subscribed channel is served for ever |
| `foxdbg_pacing` | the same with 2 ticks in a millisecond, 400 Hz (2.5 ms, rounded to 2) and 1000 Hz | frames keep the period |

Violated, each a disagreement between a statement in the code and what it does:

| run | property | what happens |
|---|---|---|
| `buffer_lost_publish` | `SwapPublishesOwnWrite` | W1 ends its write and releases; W2 writes, ends, both then swap: the second swap brings the older content back to the front, where it stays until the next write |
| `buffer_pointcloud` | `ReadIsExclusive` | the point cloud is built from the block after `end_read`; two further writes reach it |
| `session_not_connected` | `NotConnectedMeansNone` | A connects, B connects, A closes: B is open but no longer the client and its subscriptions are gone |
| `lifecycle_restart` | `ServesContext` | the second init cannot bind the port the first one's context still owns, and spins |

### Bounds

* `buffer_*`, `MaxWrites` 4 (3 with two writers): two writes fill both blocks, the third
  reuses the first block under a reader that still holds or remembers it, the fourth makes
  that happen again with a different size. Blocks of two words are the smallest that can be
  torn. What holds with two writers (whole frames, lock order, undisturbed reads) is proved
  for any number of them, so only the violated property is run with two.
* `session_*`: three channels are the smallest list with a first, an inner and a last node,
  an addition during a walk of more than one node and a batch that names two channels; an
  announcement of all three is too long, of two it fits, so that a channel added during the
  walk decides whether the client is told. Two connections are the smallest overlap; one
  channel is enough for `session_not_connected`.
* `lifecycle`, `MaxInits` 3: up, down, up again after a failed start.
* `channels`, `MaxNodes` 3: a walk that passes a node before it links behind another, or two
  lists of which one has two nodes. Ids 0 to 2 are the places of a list of three, and not
  found in shorter ones.
* `image`: 2 bytes make the loop write a comma and none; 20 exceed `EncodeSize`; the longest
  text of 2 bytes fits `EncodeSize` but not `TxSize`, the shortest fits both. Two
  dimensions are enough to be newer or older.
* `foxdbg`: one write call, since a cell has no memory but its latest content and
  `FrameIsOwn` compares channels; a second write multiplies the states by the versions. In
  `foxdbg` both channels have a period of a millisecond, the least; what is checked there does
  not depend on the period. In `foxdbg_pacing` one period is rounded, two ticks make readings
  that are half a millisecond off, and time passes between all steps of a turn. `MaxAge` is
  the least that `ClockAssumption` allows with one tick set back. `Modulus`
  is 10^6 for 2^64: TLC's integers are of 32 bits; the theorems have any modulus above 1000.
* Deadlock is checked in all runs but those of the lifecycle, where
  the system stops: after the last shutdown and after a crash.

### Fairness

* `FoxdbgBuffer`: weak fairness of a thread's own steps (a thread that is not blocked runs)
  and strong fairness of its lock steps: a mutex released again and again is eventually
  granted to a thread that keeps asking. POSIX does not promise this of
  `pthread_mutex_lock`, but the waiters sleep on a futex and the server thread leaves the
  mutex between any two channels; without it no statement about progress holds. Readers keep
  sending; the application need not write.
* `Foxdbg`: a handler runs to its end (weak); time passes (weak); lws gives a
  connection whose WRITEABLE is pending its turn among other events (strong: other callbacks
  disable it for the time they run). Nothing makes clients or the application do anything,
  and the clock is set back only finitely often.
* `FoxdbgLifecycle`: the server thread and the application inside init or shutdown run
  (weak). The application may stay up for ever, and no client need come. That the timer of
  lws expires is assumed by `ShutdownReturns` alone (`TimerExpires`);
  `ShutdownReturnsWithClient` does without it, and takes the socket of a client that is
  connected to stay writeable, since its every callback asks for the next.

## 4. What is proved

Assumptions: the named `ASSUME`s of the modules; everything else is a parameter. The
constants that the runs bound (threads, sizes, writes, connections, channels, nodes,
calls of init) are arbitrary in the theorems. Every invariant was checked by TLC first.

**Buffer, any number of writers and readers** (`FoxdbgBufferProofs`). `LockInv` says that a
mutex belongs to the thread that stands where it holds it, and that every holder of an
inner mutex holds `swap_mutex`. `InnerLocksUncontended` alone is not inductive, since it does
not know who holds what. From it: `InnerLocksNeverContended` and `ReadsAreExclusive`.
`EveryCallEnds`: the places and the words that a call has before it are a number that
each step of its thread lowers and no other thread's step changes, whatever size it finds in
the buffer. A thread waits for nothing but `swap_mutex`, whose holder waits for nothing; what
remains of liveness is that mutexes are granted.
`ContentInv` describes both blocks in every phase: each is the content of one write call,
except the back block during the copy and, between the exchange of the pointers and of the
sizes, each under the other's size. From it, when the sender uses its copy and oversized
writes store nothing (`CopiesAndRejects`): `FramesAreWhole` and `ReadSizesArePopulated`.

**Buffer, one writer** (`FoxdbgBufferOrderProofs`). `OrderInv` ties the history to the phase
of the writer: up to the exchange of the pointers the front block is of the call before
the current one and the back block, once filled, of the current one; afterwards the front
block is of the current call. `SwapsPublish`, `LatestIsVisible`, `ReadsAreFresh` and
`ReadsInOrder` follow. With `CellInv` (the blocks, and what a reader copies, are exactly the
content of the version of their tag) every step maps to a step of `LatestValue` or to none:
`BufferIsLatestValue`.

**Registry** (`FoxdbgChannelsProofs`). One inductive invariant: the chains, the type
invariant, where the walk of the adder stands (on a node of its list, on the last one when
it links), and that a node being added is not in a list. `ChannelsTypeCorrect`,
`AppendLosesNone`, `IdsIdentify`. A search of the code takes effect in the abstract list at
its last step, so `ChannelsAreRegistry` needs `SeekInv`: no node before the one that the
search stands on matches. Nodes are only appended, so that a prefix that was passed is still
the prefix at the answer; a reset (the `foxdbg_init` of a restart) is taken between two
searches only.

**Session** (`FoxdbgSessionProofs`). `SessionInv` adds to the properties what each
handler knows of its connection: a `disconnect` called by `connect` leaves no client and
the latest connection waiting; the walk of `send_advertise` has listed what it has
passed, so that a client is told of all of it or, when the text does not fit, of nothing
(`AnnouncementsAreComplete`, for any sets of channels that fit); a connection that is not
armed is the one whose handler is about to arm it. Once
`running` is false `client` may dangle, and the invariant says so: no callback can use it.
`SessionTypeCorrect` needs that what is left of a message is a sequence of its elements.
`SessionsAreOwn` needs in addition that without a client, outside a disconnect, no
channel is subscribed, which holds when `MaxOpen = 1`. Under the same assumption
`NotConnectedIsTrueAlone`: the property that `session_not_connected` violates holds, so the
overlap of two connections is the whole of that finding. `EveryHandlerEnds`: `Remaining`
counts the nodes before a walk, once for each element of a message; every step of a handler
lowers it and nobody else's raises it. The number of channels, `MaxChannels`, is a parameter: an
application that adds channels without end could keep a walk going.

**Pacing** (`FoxdbgPacingProofs`), for any modulus. `DueAtTheRate`: for rates from 1 to 1000
the test of the loop is exact in what the clock reads, a channel is due if and only if
more than 1 / `target_hz` seconds lie between two readings;
`FastRateIsDueEveryTick`, `NegativeRateIsNeverDue` and
`SetBackIsDueAtOnce` are what the unsigned arithmetic does with other rates and clocks.

**Composition** (`FoxdbgProofs`). `PeriodIsKept`: its invariant, `RateInv`, is that a channel
that is not about to be stamped either has not been sent for longer than its period, or its
stamp is no older than its latest frame: `age[c]` milliseconds and `phase` ticks are less than
the ticks since the frame and one millisecond, the most that a reading is off. A channel that
reads as due has therefore waited for more than its period (`LateIsLong`), for any `PerMs`; the
reading and the frame are two steps, so the invariant keeps for a channel whose clock was
read what the frame will need.
`FramesAreOwn` follows from what the loop knows between a copy and its frame.
`FoxdbgImplementsSession` maps every step to one of `FoxdbgSession`; the steps of the clock and
its reading become none, a write `WriteChannel`. With `IsServer` (the instance of the session in
`Foxdbg` and that of its proofs are the same) the session's theorems become theorems of the
composition: `FramesGoToOpenConnections`, `FramesGoToTheLatest`, `ChannelsAreAnnounced`,
`FramesGoOn` and, when `MaxOpen = 1`, `FramesAreOfTheSession`. `ServerAssumption` states for
this the session's assumption on its constants.

**Images and lifecycle** (`FoxdbgImageProofs`, `FoxdbgLifecycleProofs`). `ImagesAreOwn` and
`ImagesNotOutgrown`, for writes in any order: a channel that had dimensions when
`send_image` was called still has them at the second read, and the pixels read first were
laid out by these or earlier ones. `EstimateSuffices`: after `i` bytes the text has at most
58 + 33 + 4 i characters, so the estimate of 110 + 4 compressedSize covers it with brackets
and NUL. `ThreadIsJoined`: the invariant relates the place of the application to whether the
thread exists. `RestartsNeverServe` says what the run `lifecycle_restart` shows an instance of:
the thread of a second or later init never has a context. `PortInv` is why: a shutdown that
does not crash has found a context, and that one keeps the port.

## 5. Only model-checked

Liveness (`WriteReturns`, `WriteIsSeen`, `SubscribedIsServed`, `ShutdownReturns`,
`ShutdownReturnsWithClient`) stays with TLC: the prover handles neither fairness nor ENABLED.
`EveryCallEnds` and `EveryHandlerEnds` are the part of it that is safety: bounded work, for
every value of the constants. Of the violated properties, `SwapPublishesOwnWrite`,
`ReadIsExclusive` and `NotConnectedMeansNone` are proved under the conditions that exclude
their counterexample (one writer, a sender that uses its copy, one connection at a time);
of `ServesContext` the opposite is proved for every init but the first.

## 6. Not modelled

* `foxdbg_update` (`lib/foxdbg.h:55`) is declared and has no definition, so receive channels
  are lists that nothing fills.
* The text of messages and the conversion of angles; what JPEG makes of pixels; thread
  priority and affinity.
* The heap: failed allocations are branches of `FoxdbgChannels`, leaks (buffers of a failed
  `foxdbg_add_channel`, a compressed image after a failure, all nodes at a new init) and
  the memory behind the pointers of a transform are not there.
* Messages that are not JSON, which end the process.
* Memory orderings weaker than sequential consistency; several threads adding channels.
* Info structures larger than the info buffer, beyond `FoxdbgBuffer`'s
  `RejectsOversize = FALSE`: `foxdbg_write_channel_info` reports the caller's size as
  populated though it copied nothing, so `ReadSizeIsPopulated`, which is proved of
  `foxdbg_write_channel`, does not hold there. The example passes the size of the structure.
* Vendored code: its behaviour is in the models where foxdbg relies on it.

## 7. Plan

Done: every component of `lib/` that keeps state, the composition and the theorems
above. Left, in this order:

1. The cells of `Foxdbg` and `FoxdbgImage` as instances of `LatestValue`, so that the theorem
   on the buffer composes with theirs as a theorem.
2. `FoxdbgChannels` with several adding threads, should the library come to promise it.
3. The lifecycle composed with the session, for what a second init does to a server
   that still walks the lists.
4. Point clouds inside `Foxdbg`, once their sender uses its copy.
