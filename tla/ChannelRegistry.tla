--------------------------- MODULE ChannelRegistry --------------------------
(***************************************************************************)
(* What the channel functions of foxdbg promise to an application that     *)
(* adds channels on one thread: each kind of channel is a list that only   *)
(* grows, a channel's id is its place in the list, and a search answers    *)
(* with the first match of the list as it is at one instant of the call.   *)
(***************************************************************************)
EXTENDS Integers, Sequences

CONSTANTS
  Kinds, Topics, ChannelTypes,
  InfoTypes,    \* the types of channels that have a description
  Searches,     \* by topic, answered with an id, or by id, to write the content or
                \* the description, which reaches a topic
  NoSearch,
  NotFound

VARIABLES
  list,         \* list[k]: the channels of kind k, in the order they were added
  adding,       \* id of the channel that the current call has added, or -1
  returned,     \* what the latest call that adds a channel returned
  search,       \* the search that is being made, or NoSearch
  found         \* what the latest search answered

rvars == <<list, adding, returned, search, found>>

Matches(s, p) ==
  IF s.by = "topic" THEN list[s.kind][p].topic = s.key
  ELSE p - 1 = s.key /\ (s.by = "info" => list[s.kind][p].type \in InfoTypes)

Answer(s) ==
  LET matching == {p \in 1..Len(list[s.kind]) : Matches(s, p)}
      first == CHOOSE p \in matching : \A q \in matching : p <= q
  IN IF matching = {} THEN NotFound
     ELSE IF s.by = "topic" THEN first - 1 ELSE list[s.kind][first].topic

RInit ==
  /\ list = [k \in Kinds |-> <<>>]
  /\ adding = -1
  /\ returned = -1
  /\ search = NoSearch
  /\ found = NotFound

Add(k, t, y) ==
  /\ adding = -1
  /\ list' = [list EXCEPT ![k] = Append(@, [topic |-> t, type |-> y])]
  /\ adding' = Len(list[k])
  /\ UNCHANGED <<returned, search, found>>

Return ==
  /\ adding # -1
  /\ returned' = adding
  /\ adding' = -1
  /\ UNCHANGED <<list, search, found>>

Refuse ==
  /\ adding = -1
  /\ returned' = -1
  /\ UNCHANGED <<list, adding, search, found>>

Ask(s) ==
  /\ search = NoSearch
  /\ search' = s
  /\ UNCHANGED <<list, adding, returned, found>>

\* The instant of which the answer speaks.
Reply ==
  /\ search # NoSearch
  /\ found' = Answer(search)
  /\ search' = NoSearch
  /\ UNCHANGED <<list, adding, returned>>

\* An empty list is answered for at once.
AskNone(s) ==
  /\ search = NoSearch
  /\ list[s.kind] = <<>>
  /\ found' = NotFound
  /\ UNCHANGED <<list, adding, returned, search>>

\* foxdbg_init
Restart ==
  /\ adding = -1
  /\ list' = [k \in Kinds |-> <<>>]
  /\ UNCHANGED <<adding, returned, search, found>>

RNext ==
  \/ \E k \in Kinds, t \in Topics, y \in ChannelTypes : Add(k, t, y)
  \/ Return \/ Refuse
  \/ \E s \in Searches : Ask(s) \/ AskNone(s)
  \/ Reply
  \/ Restart

RSpec == RInit /\ [][RNext]_rvars
=============================================================================
