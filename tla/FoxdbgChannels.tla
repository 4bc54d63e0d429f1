---------------------------- MODULE FoxdbgChannels --------------------------
(***************************************************************************)
(* The two channel lists of lib/foxdbg.c: one application thread appends   *)
(* to them with foxdbg_add_channel and foxdbg_add_rx_channel while another *)
(* thread searches them without a lock (foxdbg_get_channel,                *)
(* foxdbg_get_rx_channel, the searches of foxdbg_write_channel and         *)
(* foxdbg_write_channel_info, and the loops of the server).  Stores are    *)
(* seen in the order of the program.                                       *)
(***************************************************************************)
EXTENDS FoxdbgTypes, Integers, Sequences

CONSTANTS
  Topics,       \* topic names
  AskedTypes,   \* channel types that calls are made with
  Ids,          \* ids that the functions that write are called with
  NotFound,     \* the search fails: -1, or nothing is written
  MaxNodes,     \* bound: channels allocated
  MaxInits      \* bound: calls of foxdbg_init after the first

Kinds == {"tx", "rx"}
Null == 0
Nodes == 1..MaxNodes

ASSUME ChannelsAssumption ==
  /\ MaxNodes \in Nat /\ MaxInits \in Nat
  /\ Ids \subseteq Nat

VARIABLES
  head,         \* channels, rx_channels
  count,        \* channel_count, rx_channel_count
  node,         \* node[n]: the structure at n
  next,         \* next[n]: its field next
  used,         \* number of nodes allocated
  pc,           \* what the adding thread does
  kind,         \* the list it adds to
  current,      \* its loop variable
  returned,     \* what its latest call returned
  seek,         \* what the searching thread searches for, and where, or Idle
  at,           \* its loop variable
  found,        \* what its latest search answered
  inits,        \* number of calls of foxdbg_init
  \* History, read by no guard:
  order         \* order[k]: the nodes linked to list k

lists == <<head, count, node, next, used, order>>
adder == <<pc, kind, current, returned>>
seeker == <<seek, at, found>>
vars == <<lists, adder, seeker, inits>>

Idle == [kind |-> "none"]

\* foxdbg_add_channel, or foxdbg_add_rx_channel, has a case for type y.
Accepts(k, y) == y \in IF k = "tx" THEN Types ELSE RxTypes

Init ==
  /\ head = [k \in Kinds |-> Null] /\ count = [k \in Kinds |-> 0]
  /\ node = [n \in Nodes |-> Idle] /\ next = [n \in Nodes |-> Null]
  /\ used = 0
  /\ pc = "idle" /\ kind = "tx" /\ current = Null /\ returned = -1
  /\ seek = Idle /\ at = Null /\ found = NotFound
  /\ inits = 0
  /\ order = [k \in Kinds |-> <<>>]

-----------------------------------------------------------------------------
(* The adding thread.                                                      *)

\* A type without a case, or no memory for a buffer or the structure.
AddFail ==
  /\ pc = "idle"
  /\ returned' = -1
  /\ UNCHANGED <<lists, pc, kind, current, seeker, inits>>

\* The new structure is filled before the list is touched.
AddBegin(k, t, y) ==
  /\ pc = "idle"
  /\ Accepts(k, y)
  /\ used < MaxNodes
  /\ used' = used + 1
  /\ node' = [node EXCEPT ![used + 1] =
       [topic |-> t, type |-> y, channel_id |-> count[k],
        data |-> PayloadSize(y), info |-> InfoSize(y)]]
  /\ next' = [next EXCEPT ![used + 1] = Null]
  /\ kind' = k
  /\ current' = head[k]
  /\ pc' = "walk"
  /\ UNCHANGED <<head, count, order, returned, seeker, inits>>

\* Mutant: the loop is left after the first node.
BugAddWalk ==
  /\ pc = "walk"
  /\ pc' = "link"
  /\ UNCHANGED <<lists, kind, current, returned, seeker, inits>>

\* while (current && current->next)
AddWalk ==
  /\ pc = "walk"
  /\ IF current # Null /\ next[current] # Null
     THEN current' = next[current] /\ UNCHANGED pc
     ELSE pc' = "link" /\ UNCHANGED current
  /\ UNCHANGED <<lists, kind, returned, seeker, inits>>

\* One store makes the node part of the list.
AddLink ==
  /\ pc = "link"
  /\ IF current # Null
     THEN next' = [next EXCEPT ![current] = used] /\ UNCHANGED head
     ELSE head' = [head EXCEPT ![kind] = used] /\ UNCHANGED next
  /\ order' = [order EXCEPT ![kind] = Append(@, used)]
  /\ pc' = "count"
  /\ UNCHANGED <<count, node, used, kind, current, returned, seeker, inits>>

\* Mutant: both lists are counted by channel_count.
BugAddCount ==
  /\ pc = "count"
  /\ count' = [count EXCEPT !["tx"] = @ + 1]
  /\ returned' = node[used].channel_id
  /\ pc' = "idle"
  /\ UNCHANGED <<head, node, next, used, order, kind, current, seeker, inits>>

AddCount ==
  /\ pc = "count"
  /\ count' = [count EXCEPT ![kind] = @ + 1]
  /\ returned' = node[used].channel_id
  /\ pc' = "idle"
  /\ UNCHANGED <<head, node, next, used, order, kind, current, seeker, inits>>

\* foxdbg_init, when no other call is in progress.  Nothing frees the nodes.
Reset ==
  /\ pc = "idle"
  /\ seek = Idle
  /\ inits < MaxInits
  /\ inits' = inits + 1
  /\ head' = [k \in Kinds |-> Null]
  /\ count' = [k \in Kinds |-> 0]
  /\ order' = [k \in Kinds |-> <<>>]
  /\ UNCHANGED <<node, next, used, adder, seeker>>

-----------------------------------------------------------------------------
(* The searching thread.                                                   *)

\* foxdbg_get_channel and foxdbg_get_rx_channel compare topics; foxdbg_write_channel
\* compares ids, in the list of tx channels, and so does foxdbg_write_channel_info,
\* which passes by a channel that has no info buffer.
Searches ==
  [kind : Kinds, by : {"topic"}, key : Topics] \union
  [kind : {"tx"}, by : {"id", "info"}, key : Ids]

Matches(n, s) ==
  IF s.by = "topic" THEN node[n].topic = s.key
  ELSE node[n].channel_id = s.key /\ (s.by = "info" => node[n].info > 0)

\* What the call makes of the node that matches: the id it returns, or the channel
\* it writes to.
Hit(n, s) == IF s.by = "topic" THEN node[n].channel_id ELSE node[n].topic

\* Mutant: an empty list is not looked for.
BugSeekBegin(s) ==
  /\ seek = Idle
  /\ seek' = s /\ at' = head[s.kind]
  /\ UNCHANGED <<found, lists, adder, inits>>

SeekBegin(s) ==
  /\ seek = Idle
  /\ IF head[s.kind] = Null
     THEN found' = NotFound /\ UNCHANGED <<seek, at>>
     ELSE seek' = s /\ at' = head[s.kind] /\ UNCHANGED found
  /\ UNCHANGED <<lists, adder, inits>>

\* Mutant: the last node is not looked at.
BugSeekStep ==
  /\ seek # Idle
  /\ IF Matches(at, seek)
     THEN found' = Hit(at, seek) /\ seek' = Idle /\ UNCHANGED at
     ELSE IF next[at] = Null \/ next[next[at]] = Null
          THEN found' = NotFound /\ seek' = Idle /\ UNCHANGED at
          ELSE at' = next[at] /\ UNCHANGED <<seek, found>>
  /\ UNCHANGED <<lists, adder, inits>>

SeekStep ==
  /\ seek # Idle
  /\ IF Matches(at, seek)
     THEN found' = Hit(at, seek) /\ seek' = Idle /\ UNCHANGED at
     ELSE IF next[at] = Null
          THEN found' = NotFound /\ seek' = Idle /\ UNCHANGED at
          ELSE at' = next[at] /\ UNCHANGED <<seek, found>>
  /\ UNCHANGED <<lists, adder, inits>>

-----------------------------------------------------------------------------
Next ==
  \/ AddFail
  \/ \E k \in Kinds, t \in Topics, y \in AskedTypes : AddBegin(k, t, y)
  \/ AddWalk \/ AddLink \/ AddCount
  \/ Reset
  \/ \E s \in Searches : SeekBegin(s)
  \/ SeekStep

Spec == Init /\ [][Next]_vars

-----------------------------------------------------------------------------
(* Properties.                                                             *)

Structures ==
  [topic : Topics, type : Types, channel_id : Nat, data : Nat, info : Nat]

\* Every variable keeps its type: a search stands on a node that has been filled.
TypeOK ==
  /\ head \in [Kinds -> 0..used]
  /\ count \in [Kinds -> Nat]
  /\ used \in 0..MaxNodes
  /\ node \in [Nodes -> Structures \union {Idle}]
  /\ \A n \in 1..used : node[n] \in Structures
  /\ next \in [Nodes -> 0..used]
  /\ pc \in {"idle", "walk", "link", "count"}
  /\ kind \in Kinds
  /\ current \in 0..used
  /\ returned \in Int
  /\ \/ seek = Idle
     \/ seek \in Searches /\ at \in 1..used
  /\ order \in [Kinds -> Seq(1..used)]
  /\ inits \in 0..MaxInits

\* Following the pointers gives the nodes in the order in which they were linked:
\* an append loses none of them and ties no two lists together.
ListsAreChains ==
  \A k \in Kinds :
    LET o == order[k] IN
    /\ head[k] = IF o = <<>> THEN Null ELSE o[1]
    /\ \A p \in 1..Len(o) : next[o[p]] = IF p = Len(o) THEN Null ELSE o[p + 1]

\* The id of a channel is its place in its list, so ids are unique and the server
\* announces under an id the channel that the application writes under it.
IdsArePlaces ==
  /\ \A k \in Kinds : \A p \in 1..Len(order[k]) : node[order[k][p]].channel_id = p - 1
  /\ pc = "idle" => \A k \in Kinds : count[k] = Len(order[k])

-----------------------------------------------------------------------------
R == INSTANCE ChannelRegistry WITH
  ChannelTypes <- Types,
  InfoTypes <- {t \in Types : InfoSize(t) > 0},
  NoSearch <- Idle,
  search   <- seek,
  list     <- [k \in Kinds |-> [p \in 1..Len(order[k]) |->
                 [topic |-> node[order[k][p]].topic, type |-> node[order[k][p]].type]]],
  adding   <- IF pc = "count" THEN node[used].channel_id ELSE -1

\* The lists are the registry: channels added one by one, and searches that see
\* the list of one instant, while nodes are being linked.
ImplementsRegistry == R!RSpec
=============================================================================
