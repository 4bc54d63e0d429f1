------------------------ MODULE FoxdbgChannelsProofs ------------------------
(***************************************************************************)
(* Proofs about FoxdbgChannels: for any topics, any number of channels and *)
(* of calls of foxdbg_init, while another thread searches.                 *)
(***************************************************************************)
EXTENDS FoxdbgChannels, SequenceTheorems, TLAPS

USE DEF Kinds, Null, Nodes

\* No node is linked twice.
LinkedOnce ==
  \A k, l \in Kinds : \A p \in 1..Len(order[k]), q \in 1..Len(order[l]) :
    order[k][p] = order[l][q] => k = l /\ p = q

\* The node that is being added is in no list, ends one, and carries its length.
NewNode ==
  pc \in {"walk", "link"} =>
    /\ used >= 1
    /\ next[used] = Null
    /\ node[used].channel_id = Len(order[kind])
    /\ node[used].info = InfoSize(node[used].type)
    /\ \A k \in Kinds : \A p \in 1..Len(order[k]) : order[k][p] # used

\* The loop of an append stands on a node of its list, and ends on the last one.
OnList ==
  /\ pc = "walk" =>
       IF order[kind] = <<>> THEN current = Null
       ELSE \E p \in 1..Len(order[kind]) : current = order[kind][p]
  /\ pc = "link" =>
       IF order[kind] = <<>> THEN current = Null
       ELSE current = order[kind][Len(order[kind])]

\* A list is counted once its new node is linked.
Counted ==
  /\ \A k \in Kinds : ~(pc = "count" /\ k = kind) => count[k] = Len(order[k])
  /\ pc = "count" =>
       /\ used >= 1
       /\ Len(order[kind]) >= 1 /\ order[kind][Len(order[kind])] = used
       /\ count[kind] = Len(order[kind]) - 1

\* A channel of a list has its place as its id, and the info buffer of its type.
Places ==
  \A k \in Kinds : \A p \in 1..Len(order[k]) :
    /\ node[order[k][p]].channel_id = p - 1
    /\ node[order[k][p]].info = InfoSize(node[order[k][p]].type)

IInv ==
  TypeOK /\ ListsAreChains /\ LinkedOnce /\ NewNode /\ OnList /\ Counted /\ Places

-----------------------------------------------------------------------------
\* What TypeOK says of a list, without Seq.
LEMMA OrderType ==
  ASSUME TypeOK
  PROVE  \A k \in Kinds : /\ order[k] \in Seq(1..used)
                          /\ Len(order[k]) \in Nat
                          /\ \A p \in 1..Len(order[k]) : order[k][p] \in 1..used
                          /\ order[k] = <<>> <=> Len(order[k]) = 0
BY DEF TypeOK

\* A list of nodes stays one when there are more nodes.
LEMMA SeqGrows ==
  ASSUME NEW m \in Nat, NEW o \in Seq(1..m)
  PROVE  o \in Seq(1..(m + 1))
OBVIOUS

\* A node at the end of a list.
LEMMA AppendFacts ==
  ASSUME NEW m \in Nat, NEW o \in Seq(1..m), NEW e \in 1..m
  PROVE  /\ Len(Append(o, e)) = Len(o) + 1
         /\ Append(o, e) # <<>>
         /\ Append(o, e)[Len(o) + 1] = e
         /\ \A p \in 1..Len(o) : Append(o, e)[p] = o[p]
         /\ Append(o, e) \in Seq(1..m)
<1>1. Append(o, e) \in Seq(1..m) /\ Len(Append(o, e)) = Len(o) + 1 /\ Len(o) \in Nat
  OBVIOUS
<1>2. Append(o, e)[Len(o) + 1] = e /\ \A p \in 1..Len(o) : Append(o, e)[p] = o[p]
  OBVIOUS
<1>3. Append(o, e) # <<>>
  <2>1. Len(<<>>) = 0
    OBVIOUS
  <2>2. Len(Append(o, e)) # 0
    BY <1>1
  <2>. QED
    BY <2>1, <2>2
<1>. QED
  BY <1>1, <1>2, <1>3

\* The sizes of the buffers of a channel.
LEMMA SizeType ==
  ASSUME NEW y \in Types
  PROVE  PayloadSize(y) \in Nat /\ InfoSize(y) \in Nat
BY DEF PayloadSize, InfoSize, Types, Large, LARGE_BUFFER_SIZE, ElementSize

LEMMA InitIInv == Init => IInv
<1> SUFFICES ASSUME Init PROVE IInv
  OBVIOUS
<1> USE DEF Init
<1>1. order \in [Kinds -> Seq(1..used)] /\ \A k \in Kinds : order[k] = <<>> /\ Len(order[k]) = 0
  OBVIOUS
<1>2. TypeOK
  BY <1>1, ChannelsAssumption DEF TypeOK
<1>3. ListsAreChains /\ LinkedOnce
  BY <1>1 DEF ListsAreChains, LinkedOnce
<1>4. NewNode /\ OnList /\ Counted /\ Places
  BY <1>1 DEF NewNode, OnList, Counted, Places
<1>. QED
  BY <1>2, <1>3, <1>4 DEF IInv

-----------------------------------------------------------------------------
(* The steps that leave the lists alone.                                   *)

LEMMA QuietIInv ==
  ASSUME IInv, UNCHANGED lists, UNCHANGED <<pc, kind, current>>, TypeOK'
  PROVE  IInv'
BY DEF IInv, ListsAreChains, LinkedOnce, NewNode, OnList, Counted, Places, lists

LEMMA AddFailIInv ==
  ASSUME IInv, AddFail
  PROVE  IInv'
<1>1. TypeOK'
  BY DEF IInv, TypeOK, AddFail, lists, seeker
<1>. QED
  BY <1>1, QuietIInv DEF AddFail

LEMMA SeekBeginIInv ==
  ASSUME IInv, NEW s \in Searches, SeekBegin(s)
  PROVE  IInv'
<1>1. s.kind \in Kinds
  BY DEF Searches
<1>2. TypeOK'
  <2>1. CASE head[s.kind] = Null
    BY <2>1 DEF IInv, TypeOK, SeekBegin, lists, adder
  <2>2. CASE head[s.kind] # Null
    <3>1. head[s.kind] \in 1..used
      BY <1>1, <2>2 DEF IInv, TypeOK
    <3>. QED
      BY <2>2, <3>1 DEF IInv, TypeOK, SeekBegin, lists, adder, Searches
  <2>. QED
    BY <2>1, <2>2
<1>. QED
  BY <1>2, QuietIInv DEF SeekBegin, adder

LEMMA SeekStepIInv ==
  ASSUME IInv, SeekStep
  PROVE  IInv'
<1>1. at \in 1..used /\ next[at] \in 0..used /\ seek \in Searches
  <2>1. at \in 1..used /\ seek \in Searches
    BY DEF IInv, TypeOK, SeekStep
  <2>2. at \in Nodes /\ next \in [Nodes -> 0..used]
    BY <2>1, ChannelsAssumption DEF IInv, TypeOK
  <2>. QED
    BY <2>1, <2>2
<1>2. TypeOK'
  <2>1. CASE seek' = Idle
    BY <2>1 DEF IInv, TypeOK, SeekStep, lists, adder, Searches
  <2>2. CASE seek' = seek /\ at' = next[at] /\ next[at] # Null
    BY <1>1, <2>2 DEF IInv, TypeOK, SeekStep, lists, adder, Searches
  <2>. QED
    BY <2>1, <2>2 DEF SeekStep
<1>. QED
  BY <1>2, QuietIInv DEF SeekStep, adder

-----------------------------------------------------------------------------
(* The steps of an append.                                                 *)

LEMMA AddBeginIInv ==
  ASSUME IInv, NEW k \in Kinds, NEW t \in Topics, NEW y \in AskedTypes, AddBegin(k, t, y)
  PROVE  IInv'
<1> USE DEF AddBegin, IInv
<1>1. used \in Nat /\ used + 1 \in 1..MaxNodes /\ used' = used + 1 /\ count[k] \in Nat
  BY ChannelsAssumption DEF TypeOK
<1>2. order' = order /\ head' = head /\ count' = count
  OBVIOUS
<1>3. \A l \in Kinds : \A p \in 1..Len(order[l]) :
        /\ order[l][p] \in 1..used
        /\ node'[order[l][p]] = node[order[l][p]]
        /\ next'[order[l][p]] = next[order[l][p]]
  <2>1. \A n \in 1..used : n \in Nodes /\ n # used + 1 /\ node'[n] = node[n] /\ next'[n] = next[n]
    <3>1. \A n \in 1..used : n \in Nodes /\ n # used + 1
      BY <1>1, ChannelsAssumption
    <3>. QED
      BY <3>1 DEF TypeOK
  <2>2. \A l \in Kinds : \A p \in 1..Len(order[l]) : order[l][p] \in 1..used
    BY OrderType
  <2>. QED
    BY <2>1, <2>2
<1>4. node'[used + 1] =
        [topic |-> t, type |-> y, channel_id |-> count[k],
         data |-> PayloadSize(y), info |-> InfoSize(y)]
  BY <1>1 DEF TypeOK
<1>5. TypeOK'
  <2>1. node'[used + 1] \in Structures
    BY <1>1, <1>4, SizeType DEF Accepts, Structures, TypeOK, RxTypes, Types
  <2>2. node' \in [Nodes -> Structures \union {Idle}]
    BY <1>1, <1>4, <2>1 DEF TypeOK
  <2>3. \A n \in 1..used' : node'[n] \in Structures
    <3>1. \A n \in 1..used : n \in Nodes /\ n # used + 1 /\ node'[n] = node[n]
      <4>1. \A n \in 1..used : n \in Nodes /\ n # used + 1
        BY <1>1, ChannelsAssumption
      <4>. QED
        BY <4>1 DEF TypeOK
    <3>2. \A n \in 1..used : node'[n] \in Structures
      BY <3>1 DEF TypeOK
    <3>3. \A n \in 1..used' : n \in 1..used \/ n = used + 1
      BY <1>1
    <3>. QED
      BY <2>1, <3>2, <3>3
  <2>4. next' \in [Nodes -> 0..used']
    BY <1>1 DEF TypeOK
  <2>5. order' \in [Kinds -> Seq(1..used')]
    <3>1. \A l \in Kinds : order[l] \in Seq(1..used')
      BY <1>1, OrderType, SeqGrows
    <3>. QED
      BY <1>2, <3>1 DEF TypeOK
  <2>. QED
    BY <1>1, <2>2, <2>3, <2>4, <2>5 DEF TypeOK, seeker
<1>6. ListsAreChains' /\ LinkedOnce' /\ Places'
  BY <1>2, <1>3 DEF ListsAreChains, LinkedOnce, Places
<1>7. NewNode'
  <2>1. /\ next'[used + 1] = Null /\ node'[used + 1].channel_id = Len(order[k])
        /\ node'[used + 1].info = InfoSize(node'[used + 1].type)
    BY <1>1, <1>4 DEF TypeOK, Counted
  <2>2. \A l \in Kinds : \A p \in 1..Len(order[l]) : order[l][p] # used + 1
    BY <1>1, <1>3
  <2>. QED
    BY <1>1, <1>2, <2>1, <2>2 DEF NewNode
<1>8. OnList'
  <2>1. order[k] # <<>> => 1 \in 1..Len(order[k])
    BY OrderType
  <2>. QED
    BY <1>2, <2>1 DEF OnList, ListsAreChains
<1>9. Counted'
  BY <1>2 DEF Counted
<1>. QED
  BY <1>5, <1>6, <1>7, <1>8, <1>9

LEMMA AddWalkIInv ==
  ASSUME IInv, AddWalk
  PROVE  IInv'
<1> USE DEF AddWalk, IInv
<1> DEFINE o == order[kind]
<1>0. kind \in Kinds /\ current \in 0..used /\ next \in [Nodes -> 0..used] /\ used \in 0..MaxNodes
  BY DEF TypeOK
<1>1. o \in Seq(1..used) /\ Len(o) \in Nat /\ (o = <<>> <=> Len(o) = 0)
      /\ \A p \in 1..Len(o) : o[p] \in 1..used
  BY <1>0, OrderType
<1>2. current' \in 0..used /\ TypeOK'
  <2>1. current # Null => next[current] \in 0..used
    BY <1>0, ChannelsAssumption
  <2>. QED
    BY <1>0, <2>1 DEF TypeOK, lists, seeker
<1>3. ListsAreChains' /\ LinkedOnce' /\ Places' /\ NewNode' /\ Counted'
  BY DEF ListsAreChains, LinkedOnce, Places, NewNode, Counted, lists
<1>4. \A p \in 1..Len(o) : next[o[p]] = IF p = Len(o) THEN Null ELSE o[p + 1]
  BY <1>0 DEF ListsAreChains
<1>5. OnList'
  <2>1. CASE o = <<>>
    BY <2>1 DEF OnList, lists
  <2>2. CASE o # <<>>
    <3>1. PICK p \in 1..Len(o) : current = o[p]
      BY <2>2 DEF OnList
    <3>2. current \in 1..used /\ next[current] = IF p = Len(o) THEN Null ELSE o[p + 1]
      BY <1>1, <1>4, <3>1
    <3>3. CASE p = Len(o)
      BY <2>2, <3>1, <3>2, <3>3 DEF OnList, lists
    <3>4. CASE p # Len(o)
      <4>1. p + 1 \in 1..Len(o) /\ o[p + 1] \in 1..used
        BY <1>1, <3>4
      <4>2. current' = o[p + 1] /\ pc' = "walk"
        BY <3>2, <3>4, <4>1
      <4>. QED
        BY <2>2, <4>1, <4>2 DEF OnList, lists
    <3>. QED
      BY <3>3, <3>4
  <2>. QED
    BY <2>1, <2>2
<1>. QED
  BY <1>2, <1>3, <1>5

LEMMA AddLinkIInv ==
  ASSUME IInv, AddLink
  PROVE  IInv'
<1> USE DEF AddLink, IInv
<1> DEFINE o == order[kind]
           n == Len(o)
<1>0. kind \in Kinds /\ used \in 1..MaxNodes /\ order \in [Kinds -> Seq(1..used)]
      /\ next \in [Nodes -> 0..used] /\ head \in [Kinds -> 0..used]
  BY ChannelsAssumption DEF TypeOK, NewNode
<1>1. o \in Seq(1..used) /\ n \in Nat /\ (o = <<>> <=> n = 0)
      /\ \A p \in 1..n : o[p] \in 1..used
  BY <1>0, OrderType
<1>2. \A k \in Kinds : \A p \in 1..Len(order[k]) : order[k][p] \in 1..used /\ order[k][p] # used
  BY OrderType DEF NewNode
<1>3. order' = [order EXCEPT ![kind] = Append(o, used)] /\ order'[kind] = Append(o, used)
  BY <1>0
<1>4. /\ Len(order'[kind]) = n + 1
      /\ order'[kind] # <<>>
      /\ order'[kind][n + 1] = used
      /\ \A p \in 1..n : order'[kind][p] = o[p]
      /\ Append(o, used) \in Seq(1..used)
  BY <1>0, <1>1, <1>3, AppendFacts
<1>5. \A k \in Kinds \ {kind} : order'[k] = order[k]
  BY <1>0, <1>3
<1>6. IF n = 0 THEN current = Null ELSE current = o[n] /\ current \in 1..used /\ current # used
  BY <1>0, <1>1, <1>2 DEF OnList
<1>7. head' = IF n = 0 THEN [head EXCEPT ![kind] = used] ELSE head
  BY <1>6
<1>8. next' = IF n = 0 THEN next ELSE [next EXCEPT ![o[n]] = used]
  BY <1>6
<1>9. TypeOK'
  <2>1. head' \in [Kinds -> 0..used]
    BY <1>0, <1>7
  <2>2. next' \in [Nodes -> 0..used]
    <3>1. CASE n = 0
      BY <1>0, <1>8, <3>1
    <3>2. CASE n # 0
      <4>1. o[n] \in Nodes
        BY <1>0, <1>1, <3>2, ChannelsAssumption
      <4>. QED
        BY <1>0, <1>8, <3>2, <4>1
    <3>. QED
      BY <3>1, <3>2
  <2>3. order' \in [Kinds -> Seq(1..used)]
    BY <1>0, <1>3, <1>4
  <2>. QED
    BY <2>1, <2>2, <2>3 DEF TypeOK, seeker
<1>10. ListsAreChains'
  <2> SUFFICES ASSUME NEW k \in Kinds
               PROVE  /\ head'[k] = IF order'[k] = <<>> THEN Null ELSE order'[k][1]
                      /\ \A p \in 1..Len(order'[k]) :
                           next'[order'[k][p]] = IF p = Len(order'[k]) THEN Null
                                                 ELSE order'[k][p + 1]
    BY DEF ListsAreChains
  <2>1. /\ head[k] = IF order[k] = <<>> THEN Null ELSE order[k][1]
        /\ \A p \in 1..Len(order[k]) :
             next[order[k][p]] = IF p = Len(order[k]) THEN Null ELSE order[k][p + 1]
    BY DEF ListsAreChains
  <2>2. CASE k # kind
    <3>1. head'[k] = head[k] /\ order'[k] = order[k]
      BY <1>0, <1>5, <1>7, <2>2
    <3>2. \A p \in 1..Len(order[k]) : next'[order[k][p]] = next[order[k][p]]
      <4> SUFFICES ASSUME NEW p \in 1..Len(order[k]) PROVE next'[order[k][p]] = next[order[k][p]]
        OBVIOUS
      <4>1. CASE n = 0
        BY <1>8, <4>1
      <4>2. CASE n # 0
        <5>1. n \in 1..n
          BY <1>1, <4>2
        <5>2. order[k][p] # o[n]
          BY <1>0, <2>2, <5>1 DEF LinkedOnce
        <5>. QED
          BY <1>0, <1>2, <1>8, <4>2, <5>2
      <4>. QED
        BY <4>1, <4>2
    <3>3. ASSUME NEW p \in 1..Len(order'[k])
          PROVE  next'[order'[k][p]] = IF p = Len(order'[k]) THEN Null ELSE order'[k][p + 1]
      BY <2>1, <3>1, <3>2
    <3>4. head'[k] = IF order'[k] = <<>> THEN Null ELSE order'[k][1]
      BY <2>1, <3>1
    <3>. QED
      BY <3>3, <3>4
  <2>3. CASE k = kind
    <3>1. head'[k] = order'[k][1]
      <4>1. CASE n = 0
        BY <1>0, <1>4, <1>7, <2>3, <4>1
      <4>2. CASE n # 0
        BY <1>1, <1>4, <1>7, <2>1, <2>3, <4>2
      <4>. QED
        BY <4>1, <4>2
    <3>2. ASSUME NEW p \in 1..(n + 1)
          PROVE  next'[order'[k][p]] = IF p = n + 1 THEN Null ELSE order'[k][p + 1]
      <4>1. CASE p = n + 1
        <5>1. next'[used] = next[used]
          BY <1>0, <1>1, <1>2, <1>6, <1>8
        <5>. QED
          BY <1>4, <2>3, <4>1, <5>1 DEF NewNode
      <4>2. CASE p = n
        <5>1. n # 0 /\ p \in 1..n /\ order'[k][p] = o[n]
          BY <1>1, <1>4, <2>3, <4>2
        <5>2. next'[o[n]] = used
          <6>1. o[n] \in Nodes
            <7>1. n \in 1..n
              BY <1>1, <5>1
            <7>2. o[n] \in 1..used
              BY <1>1, <7>1
            <7>. QED
              BY <1>0, <7>2, ChannelsAssumption
          <6>. QED
            BY <1>0, <1>8, <5>1, <6>1
        <5>. QED
          BY <1>1, <1>4, <2>3, <4>2, <5>1, <5>2
      <4>3. CASE p < n
        <5>1. p \in 1..n /\ n \in 1..n /\ p + 1 \in 1..n /\ n # 0
          BY <1>1, <4>3
        <5>2. o[p] # o[n]
          BY <1>0, <4>3, <5>1 DEF LinkedOnce
        <5>3. next'[o[p]] = next[o[p]]
          BY <1>0, <1>1, <1>8, <5>1, <5>2
        <5>. QED
          BY <1>4, <2>1, <2>3, <4>3, <5>1, <5>3
      <4>. QED
        BY <1>1, <4>1, <4>2, <4>3
    <3>. QED
      BY <1>4, <2>3, <3>1, <3>2
  <2>. QED
    BY <2>2, <2>3
<1>11. LinkedOnce'
  <2> SUFFICES ASSUME NEW k \in Kinds, NEW l \in Kinds,
                      NEW p \in 1..Len(order'[k]), NEW q \in 1..Len(order'[l]),
                      order'[k][p] = order'[l][q]
               PROVE  k = l /\ p = q
    BY DEF LinkedOnce
  <2>1. \/ k = kind /\ p = n + 1 /\ order'[k][p] = used
        \/ p \in 1..Len(order[k]) /\ order'[k][p] = order[k][p] /\ order[k][p] # used
    BY <1>1, <1>2, <1>4, <1>5
  <2>2. \/ l = kind /\ q = n + 1 /\ order'[l][q] = used
        \/ q \in 1..Len(order[l]) /\ order'[l][q] = order[l][q] /\ order[l][q] # used
    BY <1>1, <1>2, <1>4, <1>5
  <2>. QED
    BY <2>1, <2>2 DEF LinkedOnce
<1>12. Places'
  <2> SUFFICES ASSUME NEW k \in Kinds, NEW p \in 1..Len(order'[k])
               PROVE  /\ node[order'[k][p]].channel_id = p - 1
                      /\ node[order'[k][p]].info = InfoSize(node[order'[k][p]].type)
    BY DEF Places
  <2>1. \/ k = kind /\ p = n + 1 /\ order'[k][p] = used
        \/ p \in 1..Len(order[k]) /\ order'[k][p] = order[k][p]
    BY <1>1, <1>4, <1>5
  <2>2. node[used].channel_id = n /\ node[used].info = InfoSize(node[used].type)
    BY DEF NewNode
  <2>. QED
    BY <1>1, <2>1, <2>2 DEF Places
<1>13. NewNode' /\ OnList'
  BY DEF NewNode, OnList
<1>14. Counted'
  BY <1>0, <1>1, <1>4, <1>5 DEF Counted
<1>. QED
  BY <1>9, <1>10, <1>11, <1>12, <1>13, <1>14

LEMMA AddCountIInv ==
  ASSUME IInv, AddCount
  PROVE  IInv'
<1> USE DEF AddCount, IInv
<1>1. used \in 1..used /\ node[used].channel_id \in Nat /\ kind \in Kinds
      /\ count \in [Kinds -> Nat]
  BY DEF TypeOK, Counted, Structures
<1>2. TypeOK'
  BY <1>1 DEF TypeOK, seeker
<1>3. ListsAreChains' /\ LinkedOnce' /\ Places' /\ NewNode' /\ OnList'
  BY DEF ListsAreChains, LinkedOnce, Places, NewNode, OnList
<1>4. Counted'
  BY <1>1, OrderType DEF Counted
<1>. QED
  BY <1>2, <1>3, <1>4

LEMMA ResetIInv ==
  ASSUME IInv, Reset
  PROVE  IInv'
<1> USE DEF Reset, IInv
<1>1. \A k \in Kinds : order'[k] = <<>> /\ Len(order'[k]) = 0 /\ head'[k] = Null /\ count'[k] = 0
  OBVIOUS
<1>2. TypeOK'
  BY ChannelsAssumption DEF TypeOK, adder, seeker
<1>3. ListsAreChains' /\ LinkedOnce' /\ Places'
  BY <1>1 DEF ListsAreChains, LinkedOnce, Places
<1>4. NewNode' /\ OnList' /\ Counted'
  BY <1>1 DEF NewNode, OnList, Counted, adder
<1>. QED
  BY <1>2, <1>3, <1>4

LEMMA StutterIInv ==
  ASSUME IInv, UNCHANGED vars
  PROVE  IInv'
<1>1. TypeOK'
  BY DEF IInv, TypeOK, vars, lists, adder, seeker
<1>. QED
  BY <1>1, QuietIInv DEF vars, adder

LEMMA Invariance == Spec => []IInv
<1>1. IInv /\ [Next]_vars => IInv'
  <2> SUFFICES ASSUME IInv, [Next]_vars PROVE IInv'
    OBVIOUS
  <2>1. CASE Next
    BY <2>1, AddFailIInv, AddBeginIInv, AddWalkIInv, AddLinkIInv, AddCountIInv, ResetIInv,
       SeekBeginIInv, SeekStepIInv DEF Next
  <2>2. CASE UNCHANGED vars
    BY <2>2, StutterIInv
  <2>. QED
    BY <2>1, <2>2
<1>. QED
  BY InitIInv, <1>1, PTL DEF Spec

-----------------------------------------------------------------------------
\* Type correctness of the channel lists; a search never stands on a node that is
\* not filled.
THEOREM ChannelsTypeCorrect == Spec => []TypeOK
<1>1. IInv => TypeOK
  BY DEF IInv
<1>. QED
  BY Invariance, <1>1, PTL

\* The pointers of a list always lead through the nodes that were linked, in order.
THEOREM AppendLosesNone == Spec => []ListsAreChains
<1>1. IInv => ListsAreChains
  BY DEF IInv
<1>. QED
  BY Invariance, <1>1, PTL

\* The id that foxdbg_add_channel returns is the place of the channel in its list.
THEOREM IdsIdentify == Spec => []IdsArePlaces
<1>1. IInv => IdsArePlaces
  BY DEF IInv, IdsArePlaces, Places, Counted
<1>. QED
  BY Invariance, <1>1, PTL

-----------------------------------------------------------------------------
(* The lists implement the registry.                                       *)

\* A search stands on a node of its list, and none before that one matches.
SeekInv ==
  seek # Idle =>
    \E p \in 1..Len(order[seek.kind]) :
      /\ at = order[seek.kind][p]
      /\ \A q \in 1..(p - 1) : ~Matches(order[seek.kind][q], seek)

\* The list of the registry, and the id that an append has given away.
Entry(n) == [topic |-> node[n].topic, type |-> node[n].type]
List == [k \in Kinds |-> [p \in 1..Len(order[k]) |-> Entry(order[k][p])]]
Adding == IF pc = "count" THEN node[used].channel_id ELSE -1

Entries == [topic : Topics, type : Types]

\* What is asked for: a list, a way to compare, and a key.
LEMMA SearchesFacts ==
  /\ \A s \in Searches : s.kind \in Kinds /\ s.by \in {"topic", "id", "info"}
  /\ Idle \notin Searches
<1>1. \A s \in Searches : s.kind \in Kinds /\ s.by \in {"topic", "id", "info"}
  BY DEF Searches
<1>2. Idle.kind \notin Kinds
  BY DEF Idle
<1>. QED
  BY <1>1, <1>2

\* What the registry has of a sequence of nodes.
LEMMA EntriesType ==
  ASSUME TypeOK, NEW o \in Seq(1..used)
  PROVE  /\ [p \in 1..Len(o) |-> Entry(o[p])] \in Seq(Entries)
         /\ Len([p \in 1..Len(o) |-> Entry(o[p])]) = Len(o)
<1> DEFINE n == Len(o)
           l == [p \in 1..n |-> Entry(o[p])]
<1>1. n \in Nat /\ \A p \in 1..n : o[p] \in 1..used
  BY LenProperties, ElementOfSeq
<1>2. \A p \in 1..n : Entry(o[p]) \in Entries
  BY <1>1 DEF TypeOK, Structures, Entry, Entries
<1>3. l \in [1..n -> Entries]
  BY <1>2
<1>4. l \in Seq(Entries)
  BY <1>1, <1>3, SeqDef
<1>. QED
  BY <1>1, <1>4, LenProperties

LEMMA ListType ==
  ASSUME TypeOK, NEW k \in Kinds
  PROVE  /\ List[k] \in Seq(Entries)
         /\ Len(List[k]) = Len(order[k])
         /\ \A p \in 1..Len(order[k]) : List[k][p] = Entry(order[k][p])
<1>1. List[k] = [p \in 1..Len(order[k]) |-> Entry(order[k][p])]
  BY DEF List
<1>. QED
  BY <1>1, EntriesType, OrderType

\* A search that goes on keeps its place while its list grows behind it.
LEMMA SeekKept ==
  ASSUME SeekInv, seek # Idle, UNCHANGED <<seek, at>>,
         Len(order[seek.kind]) \in Nat, Len(order'[seek.kind]) \in Nat,
         Len(order[seek.kind]) <= Len(order'[seek.kind]),
         \A p \in 1..Len(order[seek.kind]) :
           /\ order'[seek.kind][p] = order[seek.kind][p]
           /\ node'[order[seek.kind][p]] = node[order[seek.kind][p]]
  PROVE  SeekInv'
<1> DEFINE o == order[seek.kind]
<1>1. PICK p \in 1..Len(o) : at = o[p] /\ \A q \in 1..(p - 1) : ~Matches(o[q], seek)
  BY DEF SeekInv
<1>2. p \in 1..Len(order'[seek'.kind]) /\ at' = order'[seek'.kind][p]
  BY <1>1
<1>3. ASSUME NEW q \in 1..(p - 1) PROVE ~Matches(order[seek.kind][q], seek)'
  <2>1. q \in 1..Len(o)
    BY <1>1
  <2>2. order'[seek.kind][q] = o[q] /\ node'[o[q]] = node[o[q]]
    BY <2>1
  <2>. QED
    BY <1>1, <2>2 DEF Matches
<1>. QED
  BY <1>2, <1>3 DEF SeekInv

\* What an append does to the nodes of the lists, and to the lists.
LEMMA AddBeginKeeps ==
  ASSUME IInv, NEW k \in Kinds, NEW t \in Topics, NEW y \in AskedTypes, AddBegin(k, t, y)
  PROVE  \A l \in Kinds : \A p \in 1..Len(order[l]) : node'[order[l][p]] = node[order[l][p]]
<1>1. \A l \in Kinds : \A p \in 1..Len(order[l]) : order[l][p] \in 1..used
  BY OrderType DEF IInv
<1>2. \A n \in 1..used : n \in Nodes /\ n # used + 1
  BY ChannelsAssumption DEF IInv, TypeOK
<1>3. \A n \in 1..used : node'[n] = node[n]
  BY <1>2 DEF AddBegin, IInv, TypeOK
<1>. QED
  BY <1>1, <1>3

LEMMA AddLinkKeeps ==
  ASSUME IInv, AddLink
  PROVE  /\ kind \in Kinds /\ used \in 1..MaxNodes
         /\ Len(order'[kind]) = Len(order[kind]) + 1
         /\ order'[kind][Len(order[kind]) + 1] = used
         /\ \A p \in 1..Len(order[kind]) : order'[kind][p] = order[kind][p]
         /\ \A k \in Kinds \ {kind} : order'[k] = order[k]
<1>1. kind \in Kinds /\ used \in 1..MaxNodes /\ used \in 1..used
  BY ChannelsAssumption DEF IInv, TypeOK, NewNode, AddLink
<1>2. order[kind] \in Seq(1..used) /\ order' = [order EXCEPT ![kind] = Append(@, used)]
  BY <1>1, OrderType DEF IInv, AddLink
<1>3. order'[kind] = Append(order[kind], used) /\ \A k \in Kinds \ {kind} : order'[k] = order[k]
  BY <1>1, <1>2 DEF IInv, TypeOK
<1>. QED
  BY <1>1, <1>2, <1>3, AppendFacts, ChannelsAssumption

LEMMA SeekBeginSeekInv ==
  ASSUME IInv, NEW s \in Searches, SeekBegin(s)
  PROVE  SeekInv'
<1>1. s.kind \in Kinds
  BY SearchesFacts
<1>2. CASE head[s.kind] = Null
  BY <1>2 DEF SeekBegin, SeekInv
<1>3. CASE head[s.kind] # Null
  <2>1. order[s.kind] # <<>> /\ head[s.kind] = order[s.kind][1]
    BY <1>1, <1>3 DEF IInv, ListsAreChains
  <2>2. 1 \in 1..Len(order[s.kind])
    BY <1>1, <2>1, OrderType DEF IInv
  <2>3. seek' = s /\ at' = order[s.kind][1] /\ order' = order
    BY <1>3, <2>1 DEF SeekBegin, lists
  <2>. QED
    BY <2>2, <2>3 DEF SeekInv
<1>. QED
  BY <1>2, <1>3

\* Where the search stands, and what its step makes of that.
LEMMA SeekAt ==
  ASSUME IInv, SeekInv, seek # Idle
  PROVE  \E p \in 1..Len(order[seek.kind]) :
           /\ seek \in Searches /\ seek.kind \in Kinds
           /\ at = order[seek.kind][p]
           /\ \A q \in 1..(p - 1) : ~Matches(order[seek.kind][q], seek)
           /\ next[at] = IF p = Len(order[seek.kind]) THEN Null ELSE order[seek.kind][p + 1]
           /\ next[at] = Null <=> p = Len(order[seek.kind])
<1>1. seek \in Searches /\ seek.kind \in Kinds
  BY SearchesFacts DEF IInv, TypeOK
<1>2. PICK p \in 1..Len(order[seek.kind]) :
        at = order[seek.kind][p] /\ \A q \in 1..(p - 1) : ~Matches(order[seek.kind][q], seek)
  BY DEF SeekInv
<1>3. next[at] = IF p = Len(order[seek.kind]) THEN Null ELSE order[seek.kind][p + 1]
  BY <1>1, <1>2 DEF IInv, ListsAreChains
<1>4. p # Len(order[seek.kind]) => order[seek.kind][p + 1] \in 1..used
  <2>1. Len(order[seek.kind]) \in Nat
    BY <1>1, OrderType DEF IInv
  <2>2. p # Len(order[seek.kind]) => p + 1 \in 1..Len(order[seek.kind])
    BY <2>1
  <2>. QED
    BY <1>1, <2>2, OrderType DEF IInv
<1>. QED
  BY <1>1, <1>2, <1>3, <1>4

LEMMA SeekStepSeekInv ==
  ASSUME IInv, SeekInv, SeekStep
  PROVE  SeekInv'
<1>1. CASE seek' = Idle
  BY <1>1 DEF SeekInv
<1>2. CASE seek' # Idle
  <2>1. /\ seek # Idle /\ ~Matches(at, seek) /\ next[at] # Null
        /\ seek' = seek /\ at' = next[at] /\ order' = order /\ node' = node
    BY <1>2 DEF SeekStep, lists
  <2> DEFINE o == order[seek.kind]
  <2>2. PICK p \in 1..Len(o) :
          /\ seek.kind \in Kinds
          /\ at = o[p]
          /\ \A q \in 1..(p - 1) : ~Matches(o[q], seek)
          /\ next[at] = IF p = Len(o) THEN Null ELSE o[p + 1]
          /\ next[at] = Null <=> p = Len(o)
    BY <2>1, SeekAt
  <2>3. Len(o) \in Nat
    BY <2>2, OrderType DEF IInv
  <2>4. p + 1 \in 1..Len(o) /\ at' = o[p + 1]
    BY <2>1, <2>2, <2>3
  <2>5. \A q \in 1..((p + 1) - 1) : ~Matches(o[q], seek)
    <3>1. \A q \in 1..((p + 1) - 1) : q = p \/ q \in 1..(p - 1)
      BY <2>2
    <3>. QED
      BY <2>1, <2>2, <3>1
  <2>6. \A n : Matches(n, seek)' <=> Matches(n, seek)
    BY <2>1 DEF Matches
  <2>. QED
    BY <2>1, <2>4, <2>5, <2>6 DEF SeekInv
<1>. QED
  BY <1>1, <1>2

LEMMA NextSeekInv ==
  ASSUME IInv, SeekInv, [Next]_vars
  PROVE  SeekInv'
<1>0. \A k \in Kinds : Len(order[k]) \in Nat
  BY OrderType DEF IInv
<1>1. seek # Idle => seek.kind \in Kinds
  BY SearchesFacts DEF IInv, TypeOK
<1>2. CASE UNCHANGED <<seek, at, order, node>>
  <2>1. \A n : Matches(n, seek)' <=> Matches(n, seek)
    BY <1>2 DEF Matches
  <2>. QED
    BY <1>2, <2>1 DEF SeekInv
<1>3. CASE seek' = Idle
  BY <1>3 DEF SeekInv
<1>4. ASSUME NEW k \in Kinds, NEW t \in Topics, NEW y \in AskedTypes, AddBegin(k, t, y), seek # Idle
      PROVE  SeekInv'
  <2>1. UNCHANGED <<seek, at, order>>
    BY <1>4 DEF AddBegin, seeker
  <2>. QED
    BY <1>0, <1>1, <1>4, <2>1, AddBeginKeeps, SeekKept
<1>5. CASE AddLink /\ seek # Idle
  <2>1. UNCHANGED <<seek, at, node>>
    BY <1>5 DEF AddLink, seeker
  <2>2. /\ Len(order'[seek.kind]) \in Nat
        /\ Len(order[seek.kind]) <= Len(order'[seek.kind])
        /\ \A p \in 1..Len(order[seek.kind]) : order'[seek.kind][p] = order[seek.kind][p]
    BY <1>0, <1>1, <1>5, AddLinkKeeps
  <2>. QED
    BY <1>0, <1>1, <1>5, <2>1, <2>2, SeekKept
<1>6. CASE AddFail \/ AddWalk \/ AddCount \/ UNCHANGED vars
  BY <1>2, <1>6 DEF AddFail, AddWalk, AddCount, vars, lists, seeker
<1>7. CASE Reset
  BY <1>3, <1>7 DEF Reset, seeker
<1>8. (AddLink \/ \E k \in Kinds, t \in Topics, y \in AskedTypes : AddBegin(k, t, y)) /\ seek = Idle
        => seek' = Idle
  BY DEF AddLink, AddBegin, seeker
<1>. QED
  BY <1>3, <1>4, <1>5, <1>6, <1>7, <1>8, SeekBeginSeekInv, SeekStepSeekInv DEF Next

LEMMA SeekInvariance == Spec => []SeekInv
<1>1. Init => SeekInv
  BY DEF Init, SeekInv
<1>2. IInv /\ SeekInv /\ [Next]_vars => SeekInv'
  BY NextSeekInv
<1>. QED
  BY <1>1, <1>2, Invariance, PTL DEF Spec

-----------------------------------------------------------------------------
\* The comparison of the walk is that of the registry.
LEMMA SameMatches ==
  ASSUME IInv, NEW s \in Searches, NEW p \in 1..Len(order[s.kind])
  PROVE  R!Matches(s, p) <=> Matches(order[s.kind][p], s)
<1>1. s.kind \in Kinds
  BY SearchesFacts
<1>2. List[s.kind][p] = Entry(order[s.kind][p])
  BY <1>1, ListType DEF IInv
<1>3. /\ node[order[s.kind][p]].channel_id = p - 1
      /\ node[order[s.kind][p]].info = InfoSize(node[order[s.kind][p]].type)
  BY <1>1 DEF IInv, Places
<1>4. node[order[s.kind][p]].type \in Types
  BY <1>1, OrderType DEF IInv, TypeOK, Structures
<1>5. R!Matches(s, p) <=>
        IF s.by = "topic" THEN List[s.kind][p].topic = s.key
        ELSE /\ p - 1 = s.key
             /\ s.by = "info" => List[s.kind][p].type \in {t \in Types : InfoSize(t) > 0}
  BY DEF R!Matches, List, Entry
<1>. QED
  BY <1>2, <1>3, <1>4, <1>5 DEF Matches, Entry

\* The answer of the registry: that of the first place that matches, or none.
LEMMA FirstMatchAnswers ==
  ASSUME IInv, NEW s \in Searches, NEW p \in 1..Len(order[s.kind]),
         Matches(order[s.kind][p], s),
         \A q \in 1..(p - 1) : ~Matches(order[s.kind][q], s)
  PROVE  R!Answer(s) = Hit(order[s.kind][p], s)
<1> DEFINE matching == {q \in 1..Len(order[s.kind]) : R!Matches(s, q)}
           first == CHOOSE r \in matching : \A q \in matching : r <= q
<1>1. s.kind \in Kinds /\ Len(order[s.kind]) \in Nat
  BY SearchesFacts, OrderType DEF IInv
<1>2. p \in matching
  BY SameMatches
<1>3. \A q \in matching : p <= q
  <2> SUFFICES ASSUME NEW q \in matching, q < p PROVE FALSE
    BY <1>1
  <2>1. q \in 1..(p - 1) /\ Matches(order[s.kind][q], s)
    BY <1>1, SameMatches
  <2>. QED
    BY <2>1
<1>4. \A r \in matching : (\A q \in matching : r <= q) => r = p
  BY <1>1, <1>2, <1>3
<1>5. first = p
  BY <1>2, <1>3, <1>4
<1>6. Len(List[s.kind]) = Len(order[s.kind]) /\ List[s.kind][p] = Entry(order[s.kind][p])
  BY <1>1, ListType DEF IInv
<1>7. R!Answer(s) = IF s.by = "topic" THEN first - 1 ELSE List[s.kind][first].topic
  <2>1. R!Answer(s) =
          LET m == {q \in 1..Len(List[s.kind]) : R!Matches(s, q)}
              f == CHOOSE r \in m : \A q \in m : r <= q
          IN IF m = {} THEN NotFound ELSE IF s.by = "topic" THEN f - 1 ELSE List[s.kind][f].topic
    BY DEF R!Answer, List, Entry
  <2>2. matching # {}
    BY <1>2
  <2>3. {q \in 1..Len(List[s.kind]) : R!Matches(s, q)} = matching
    BY <1>6
  <2>. QED
    BY <2>1, <2>2, <2>3
<1>8. node[order[s.kind][p]].channel_id = p - 1
  BY <1>1 DEF IInv, Places
<1> HIDE DEF first, matching
<1>. QED
  BY <1>5, <1>6, <1>7, <1>8 DEF Hit, Entry

LEMMA NoMatchAnswers ==
  ASSUME IInv, NEW s \in Searches,
         \A q \in 1..Len(order[s.kind]) : ~Matches(order[s.kind][q], s)
  PROVE  R!Answer(s) = NotFound
<1>1. Len(List[s.kind]) = Len(order[s.kind])
  BY SearchesFacts, ListType DEF IInv
<1>2. {q \in 1..Len(List[s.kind]) : R!Matches(s, q)} = {}
  BY <1>1, SameMatches
<1>3. R!Answer(s) =
        LET m == {q \in 1..Len(List[s.kind]) : R!Matches(s, q)}
            f == CHOOSE r \in m : \A q \in m : r <= q
        IN IF m = {} THEN NotFound ELSE IF s.by = "topic" THEN f - 1 ELSE List[s.kind][f].topic
  BY DEF R!Answer, List, Entry
<1>. QED
  BY <1>2, <1>3

-----------------------------------------------------------------------------
\* The list of the registry is that of the nodes, whatever else changes.
LEMMA SameList ==
  ASSUME TypeOK, order' = order,
         \A k \in Kinds : \A p \in 1..Len(order[k]) : node'[order[k][p]] = node[order[k][p]]
  PROVE  List' = List
BY DEF List, Entry

\* One store appends the new channel.
LEMMA LinkedList ==
  ASSUME IInv, IInv', AddLink
  PROVE  List' = [List EXCEPT ![kind] = Append(@, Entry(used))]
<1> DEFINE n == Len(order[kind])
           s == Append(List[kind], Entry(used))
<1>1. /\ kind \in Kinds /\ used \in 1..MaxNodes
      /\ Len(order'[kind]) = n + 1
      /\ order'[kind][n + 1] = used
      /\ \A p \in 1..n : order'[kind][p] = order[kind][p]
      /\ \A k \in Kinds \ {kind} : order'[k] = order[k]
  BY AddLinkKeeps
<1>2. n \in Nat /\ List[kind] \in Seq(Entries) /\ Len(List[kind]) = n
      /\ \A p \in 1..n : List[kind][p] = Entry(order[kind][p])
  BY <1>1, ListType, OrderType DEF IInv
<1>3. \A m : Entry(m)' = Entry(m)
  BY DEF Entry, AddLink
<1>4. List'[kind] \in Seq(Entries) /\ Len(List'[kind]) = n + 1
      /\ \A p \in 1..(n + 1) : List'[kind][p] = Entry(order'[kind][p])
  <2>1. List'[kind] = [p \in 1..Len(order'[kind]) |-> Entry(order'[kind][p])]
    BY <1>1, <1>3 DEF List
  <2>2. order'[kind] \in Seq(1..used)
    <3>1. used' = used
      BY DEF AddLink
    <3>. QED
      BY <1>1, <3>1 DEF IInv, TypeOK
  <2>. QED
    BY <1>1, <2>1, <2>2, EntriesType DEF IInv
<1>5. Entry(used) \in Entries
  <2>1. used \in 1..used
    BY <1>1, ChannelsAssumption
  <2>2. node[used] \in Structures
    BY <2>1 DEF IInv, TypeOK
  <2>. QED
    BY <2>2 DEF Structures, Entry, Entries
<1>6. s \in Seq(Entries) /\ Len(s) = n + 1
      /\ \A p \in 1..(n + 1) : s[p] = IF p = n + 1 THEN Entry(used) ELSE List[kind][p]
  BY <1>2, <1>5, AppendProperties
<1>7. \A p \in 1..(n + 1) : List'[kind][p] = s[p]
  BY <1>1, <1>2, <1>4, <1>6
<1>8. List'[kind] = s
  BY <1>4, <1>6, <1>7, SeqEqual
<1>9. \A k \in Kinds \ {kind} : List'[k] = List[k]
  BY <1>1, <1>3 DEF List
<1>10. List \in [Kinds -> Seq(Entries)] /\ DOMAIN List' = Kinds /\ List' = [k \in Kinds |-> List'[k]]
  BY ListType DEF IInv, List
<1>. QED
  BY <1>1, <1>8, <1>9, <1>10 DEF List

\* Steps that the registry does not see, or sees as a call beginning to fail.
LEMMA RegistryStill ==
  ASSUME List' = List, Adding' = Adding, UNCHANGED <<returned, seek, found>>
  PROVE  UNCHANGED R!rvars
BY DEF R!rvars, List, Entry, Adding

LEMMA AddFailRegistry ==
  ASSUME IInv, AddFail
  PROVE  R!Refuse
<1>1. List' = List
  BY SameList DEF IInv, AddFail, lists
<1>2. Adding = -1 /\ Adding' = -1
  BY DEF AddFail, Adding
<1>3. returned' = -1 /\ UNCHANGED <<seek, found>>
  BY DEF AddFail, seeker
<1>. QED
  BY <1>1, <1>2, <1>3 DEF R!Refuse, List, Entry, Adding

LEMMA AddBeginRegistry ==
  ASSUME IInv, NEW k \in Kinds, NEW t \in Topics, NEW y \in AskedTypes, AddBegin(k, t, y)
  PROVE  UNCHANGED R!rvars
<1>1. List' = List
  BY AddBeginKeeps, SameList DEF IInv, AddBegin
<1>2. Adding' = Adding /\ UNCHANGED <<returned, seek, found>>
  BY DEF AddBegin, Adding, seeker
<1>. QED
  BY <1>1, <1>2, RegistryStill

LEMMA AddWalkRegistry ==
  ASSUME IInv, AddWalk
  PROVE  UNCHANGED R!rvars
<1>1. List' = List
  BY SameList DEF IInv, AddWalk, lists
<1>2. Adding' = Adding /\ UNCHANGED <<returned, seek, found>>
  BY DEF AddWalk, Adding, seeker
<1>. QED
  BY <1>1, <1>2, RegistryStill

\* The store that links the node is the instant at which the channel is there.
LEMMA AddLinkRegistry ==
  ASSUME IInv, IInv', AddLink
  PROVE  \E k \in Kinds, t \in Topics, y \in Types : R!Add(k, t, y)
<1>1. kind \in Kinds /\ used \in 1..used
  BY AddLinkKeeps, ChannelsAssumption
<1>2. PICK k \in Kinds, t \in Topics, y \in Types :
        k = kind /\ t = node[used].topic /\ y = node[used].type
  BY <1>1 DEF IInv, TypeOK, Structures
<1>3. List' = [List EXCEPT ![k] = Append(@, [topic |-> t, type |-> y])]
  BY <1>2, LinkedList DEF Entry
<1>4. Adding = -1 /\ Adding' = Len(List[k])
  <2>1. Len(List[k]) = Len(order[k])
    BY ListType DEF IInv
  <2>2. node[used].channel_id = Len(order[k])
    BY <1>2 DEF AddLink, IInv, NewNode
  <2>. QED
    BY <2>1, <2>2 DEF AddLink, Adding
<1>5. UNCHANGED <<returned, seek, found>>
  BY DEF AddLink, seeker
<1>6. R!Add(k, t, y)
  BY <1>3, <1>4, <1>5 DEF R!Add, List, Entry, Adding
<1>. QED
  BY <1>6

LEMMA AddCountRegistry ==
  ASSUME IInv, AddCount
  PROVE  R!Return
<1>1. List' = List
  BY SameList DEF IInv, AddCount
<1>2. node[used].channel_id # -1
  <2>1. used \in 1..used
    BY DEF AddCount, IInv, Counted, TypeOK
  <2>. QED
    BY <2>1 DEF IInv, TypeOK, Structures
<1>3. Adding # -1 /\ returned' = Adding /\ Adding' = -1
  BY <1>2 DEF AddCount, Adding
<1>4. UNCHANGED <<seek, found>>
  BY DEF AddCount, seeker
<1>. QED
  BY <1>1, <1>3, <1>4 DEF R!Return, List, Entry, Adding

LEMMA ResetRegistry ==
  ASSUME Reset
  PROVE  R!Restart
<1>1. List' = [k \in Kinds |-> <<>>]
  <2>1. \A k \in Kinds : order'[k] = <<>> /\ Len(order'[k]) = 0
    BY DEF Reset
  <2>2. \A k \in Kinds : [p \in 1..Len(order[k]) |-> Entry(order[k][p])]' = <<>>
    BY <2>1
  <2>. QED
    BY <2>2 DEF List
<1>2. Adding = -1 /\ Adding' = Adding /\ UNCHANGED <<returned, seek, found>>
  BY DEF Reset, adder, seeker, Adding
<1>. QED
  BY <1>1, <1>2 DEF R!Restart, List, Entry, Adding

LEMMA SeekBeginRegistry ==
  ASSUME IInv, NEW s \in Searches, SeekBegin(s)
  PROVE  R!Ask(s) \/ R!AskNone(s)
<1>1. List' = List
  BY SameList DEF IInv, SeekBegin, lists
<1>2. Adding' = Adding /\ returned' = returned
  BY DEF SeekBegin, lists, adder, Adding
<1>3. CASE head[s.kind] = Null
  <2>1. s.kind \in Kinds
    BY SearchesFacts
  <2>2. order[s.kind] = <<>>
    <3>1. order[s.kind] # <<>> => order[s.kind][1] \in 1..used
      <4>1. order[s.kind] # <<>> => 1 \in 1..Len(order[s.kind])
        BY <2>1, OrderType DEF IInv
      <4>. QED
        BY <2>1, <4>1, OrderType DEF IInv
    <3>. QED
      BY <1>3, <2>1, <3>1 DEF IInv, ListsAreChains
  <2>3. List[s.kind] = <<>>
    BY <2>1, <2>2, ListType, OrderType, EmptySeq DEF IInv
  <2>4. seek = Idle /\ found' = NotFound /\ seek' = seek
    BY <1>3 DEF SeekBegin
  <2>. QED
    BY <1>1, <1>2, <2>3, <2>4 DEF R!AskNone, List, Entry, Adding
<1>4. CASE head[s.kind] # Null
  <2>1. seek = Idle /\ seek' = s /\ found' = found
    BY <1>4 DEF SeekBegin
  <2>. QED
    BY <1>1, <1>2, <2>1 DEF R!Ask, List, Entry, Adding
<1>. QED
  BY <1>3, <1>4

\* A search takes effect when its walk ends: no earlier place matches, and at the
\* end of the list none does.
LEMMA SeekStepRegistry ==
  ASSUME IInv, SeekInv, SeekStep
  PROVE  R!Reply \/ UNCHANGED R!rvars
<1>1. List' = List
  BY SameList DEF IInv, SeekStep, lists
<1>2. Adding' = Adding /\ returned' = returned /\ seek # Idle
  BY DEF SeekStep, lists, adder, Adding
<1> DEFINE o == order[seek.kind]
<1>3. PICK p \in 1..Len(o) :
        /\ seek \in Searches /\ seek.kind \in Kinds
        /\ at = o[p]
        /\ \A q \in 1..(p - 1) : ~Matches(o[q], seek)
        /\ next[at] = Null <=> p = Len(o)
  BY <1>2, SeekAt
<1>4. CASE Matches(at, seek)
  <2>1. found' = R!Answer(seek) /\ seek' = Idle
    BY <1>3, <1>4, FirstMatchAnswers DEF SeekStep
  <2>. QED
    BY <1>1, <1>2, <2>1 DEF R!Reply, List, Entry, Adding
<1>5. CASE ~Matches(at, seek) /\ next[at] = Null
  <2>1. Len(o) \in Nat
    BY <1>3, OrderType DEF IInv
  <2>2. \A q \in 1..Len(o) : q = p \/ q \in 1..(p - 1)
    BY <1>3, <1>5, <2>1
  <2>3. \A q \in 1..Len(o) : ~Matches(o[q], seek)
    BY <1>3, <1>5, <2>2
  <2>4. found' = R!Answer(seek) /\ seek' = Idle
    BY <1>3, <1>5, <2>3, NoMatchAnswers DEF SeekStep
  <2>. QED
    BY <1>1, <1>2, <2>4 DEF R!Reply, List, Entry, Adding
<1>6. CASE ~Matches(at, seek) /\ next[at] # Null
  <2>1. UNCHANGED <<seek, found>>
    BY <1>6 DEF SeekStep
  <2>. QED
    BY <1>1, <1>2, <2>1, RegistryStill
<1>. QED
  BY <1>4, <1>5, <1>6

LEMMA NextRegistry ==
  ASSUME IInv, IInv', SeekInv, [Next]_vars
  PROVE  [R!RNext]_R!rvars
<1>1. CASE AddFail
  BY <1>1, AddFailRegistry DEF R!RNext
<1>2. CASE \E k \in Kinds, t \in Topics, y \in AskedTypes : AddBegin(k, t, y)
  BY <1>2, AddBeginRegistry
<1>3. CASE AddWalk
  BY <1>3, AddWalkRegistry
<1>4. CASE AddLink
  BY <1>4, AddLinkRegistry DEF R!RNext
<1>5. CASE AddCount
  BY <1>5, AddCountRegistry DEF R!RNext
<1>6. CASE Reset
  BY <1>6, ResetRegistry DEF R!RNext
<1>7. CASE \E s \in Searches : SeekBegin(s)
  BY <1>7, SeekBeginRegistry DEF R!RNext
<1>8. CASE SeekStep
  BY <1>8, SeekStepRegistry DEF R!RNext
<1>9. CASE UNCHANGED vars
  <2>1. List' = List
    BY <1>9, SameList DEF IInv, vars, lists
  <2>2. Adding' = Adding /\ UNCHANGED <<returned, seek, found>>
    BY <1>9 DEF vars, lists, adder, seeker, Adding
  <2>. QED
    BY <2>1, <2>2, RegistryStill
<1>. QED
  BY <1>1, <1>2, <1>3, <1>4, <1>5, <1>6, <1>7, <1>8, <1>9 DEF Next

\* The lists are the registry: a channel is there from one store on, under the id
\* that the call returns, and a search, which takes no lock while nodes are linked
\* behind it, answers for the list as it is at the end of its walk.
THEOREM ChannelsAreRegistry == Spec => ImplementsRegistry
<1>1. Init => R!RInit
  <2> SUFFICES ASSUME Init PROVE R!RInit
    OBVIOUS
  <2>1. \A k \in Kinds : [p \in 1..Len(order[k]) |-> Entry(order[k][p])] = <<>>
    <3>1. \A k \in Kinds : order[k] = <<>> /\ Len(order[k]) = 0
      BY DEF Init
    <3>. QED
      BY <3>1
  <2>2. List = [k \in Kinds |-> <<>>]
    BY <2>1 DEF List
  <2>3. Adding = -1 /\ returned = -1 /\ seek = Idle /\ found = NotFound
    BY DEF Init, Adding
  <2>. QED
    BY <2>2, <2>3 DEF R!RInit, List, Entry, Adding
<1>2. IInv /\ IInv' /\ SeekInv /\ [Next]_vars => [R!RNext]_R!rvars
  BY NextRegistry
<1>. QED
  BY <1>1, <1>2, Invariance, SeekInvariance, PTL DEF Spec, ImplementsRegistry, R!RSpec
=============================================================================
