-------------------------- MODULE FlowDirectionProofs --------------------------
(***************************************************************************)
(* Proofs about FlowDirection: for files of any number and length, any     *)
(* records and any parameters, the ways the replayer chooses, the packets  *)
(* it rewrites and its counters, and the flows the extractor lists, are    *)
(* what the records read say as a whole.                                   *)
(***************************************************************************)
EXTENDS FlowDirection, FiniteSetTheorems, TLAPS

-----------------------------------------------------------------------------
(* The first of a set of places *)

\* A set of places that is not empty has a smallest one: the intervals below its members
\* have a smallest one by inclusion.
LEMMA Smallest ==
  ASSUME NEW n \in Nat, NEW S \in SUBSET (1..n), S # {}
  PROVE  \E i \in S : \A j \in S : i <= j
<1> DEFINE Below(i) == 1..(i - 1)
           T == {Below(i) : i \in S}
           R == StrictSubsetOrdering(1..n)
<1>1. IsFiniteSet(1..n)
  BY FS_Interval
<1>2. FiniteSubsetsOf(1..n) = SUBSET (1..n)
  BY <1>1, FS_FiniteSubsetsOfFinite
<1>3. IsWellFoundedOn(R, SUBSET (1..n))
  BY <1>2, FS_StrictSubsetOrderingWellFounded
<1>4. T \subseteq SUBSET (1..n) /\ T # {}
  <2>1. \A i \in S : Below(i) \subseteq 1..n
    OBVIOUS
  <2> QED
    BY <2>1
<1>5. PICK x \in T : \A y \in T : <<y, x>> \notin R
  <2> HIDE DEF T, R
  <2> QED
    BY <1>3, <1>4, WFMin
<1>6. PICK i \in S : x = Below(i)
  BY <1>5
<1>7. ASSUME NEW j \in S, j < i
      PROVE  FALSE
  <2>1. Below(j) \subseteq Below(i) /\ j \in Below(i) /\ j \notin Below(j)
    BY <1>7
  <2>2. <<Below(j), Below(i)>> \in R
    BY <2>1, <1>4 DEF StrictSubsetOrdering
  <2> QED
    BY <2>2, <1>5, <1>6
<1> QED
  BY <1>7

LEMMA FirstIsFirst ==
  ASSUME NEW n \in Nat, NEW S \in SUBSET (1..n), S # {}
  PROVE  First(S) \in S /\ \A j \in S : First(S) <= j
BY Smallest DEF First

LEMMA FirstIsOnly ==
  ASSUME NEW S \in SUBSET Nat, NEW i \in S, \A j \in S : i <= j
  PROVE  First(S) = i
<1>1. First(S) \in S /\ \A j \in S : First(S) <= j
  BY DEF First
<1>2. i \in Nat /\ First(S) \in Nat
  BY <1>1
<1>3. First(S) <= i /\ i <= First(S)
  BY <1>1
<1> QED
  BY <1>2, <1>3

\* A later member changes nothing.
LEMMA FirstStays ==
  ASSUME NEW n \in Nat, NEW S \in SUBSET (1..n), S # {}, NEW T, S \subseteq T, T \subseteq S \cup {n + 1}
  PROVE  First(T) = First(S)
<1>1. First(S) \in S /\ \A j \in S : First(S) <= j
  BY FirstIsFirst
<1>2. First(S) \in 1..n
  BY <1>1
<1>3. T \in SUBSET Nat /\ First(S) \in T
  <2>1. \A j \in T : j \in 1..n \/ j = n + 1
    OBVIOUS
  <2>2. \A j \in T : j \in Nat
    BY <2>1
  <2>3. First(S) \in T
    BY <1>1
  <2> QED
    BY <2>2, <2>3
<1>4. \A j \in T : First(S) <= j
  BY <1>1, <1>2
<1> QED
  BY <1>3, <1>4, FirstIsOnly

-----------------------------------------------------------------------------
(* Sequences whose entries have no common type *)

IsSeq(s) == s \in Seq({s[i] : i \in DOMAIN s})

LEMMA EmptyIsSeq == IsSeq(<< >>)
BY DEF IsSeq

LEMMA AppendIsSeq ==
  ASSUME NEW s, IsSeq(s), NEW e
  PROVE  /\ IsSeq(Append(s, e))
         /\ Len(s) \in Nat /\ DOMAIN s = 1..Len(s)
         /\ Len(Append(s, e)) = Len(s) + 1 /\ DOMAIN Append(s, e) = 1..(Len(s) + 1)
         /\ Append(s, e)[Len(s) + 1] = e
         /\ \A i \in 1..Len(s) : Append(s, e)[i] = s[i]
<1> DEFINE R == {s[i] : i \in DOMAIN s}
           t == Append(s, e)
<1>1. s \in Seq(R \cup {e})
  BY DEF IsSeq
<1>2. Len(s) \in Nat /\ DOMAIN s = 1..Len(s)
  BY <1>1
<1>3. /\ Len(t) = Len(s) + 1 /\ DOMAIN t = 1..(Len(s) + 1)
      /\ t[Len(s) + 1] = e /\ \A i \in 1..Len(s) : t[i] = s[i]
  <2> HIDE DEF R
  <2> QED
    BY <1>1
<1>4. t \in Seq(R \cup {e})
  <2> HIDE DEF R
  <2> QED
    BY <1>1
<1>5. IsSeq(t)
  <2> DEFINE T == {t[i] : i \in DOMAIN t}
  <2>1. \A i \in 1..Len(t) : t[i] \in T
    BY <1>3
  <2>2. t \in Seq(T)
    <3> HIDE DEF T, t
    <3> QED
      BY <2>1, <1>4
  <2> QED
    BY <2>2 DEF IsSeq
<1> QED
  BY <1>2, <1>3, <1>5

-----------------------------------------------------------------------------
(* The invariant *)

\* The records of all files are one sequence; each file begins where the one before ends.
Reading ==
  /\ read \in Seq(Records)
  /\ begins \in Seq(Nat) /\ Len(begins) # 0
  /\ \A m, n \in 1..Len(begins) : m <= n => begins[m] <= begins[n]
  /\ \A n \in 1..Len(begins) : begins[n] <= Len(read)
  /\ status \in {"running", "answered", "failed"}

KeyAt(k) == {i \in Packets : Key(read[i]) = k}
Pairs == {{k, Reversed(k)} : k \in DOMAIN table}

\* The way of a direction, from all the records: that of the hints; or uplink, unless its
\* first packet is no SYN and the other direction was there before.
WayOf(k) ==
  IF Hinted THEN IF HintSaysDown(k) /\ ~HintSaysUp(k) THEN "downlink" ELSE "uplink"
  ELSE IF /\ read[FirstOf(k)].kind # "syn"
          /\ KeyAt(Reversed(k)) # {} /\ FirstOf(Reversed(k)) < FirstOf(k)
       THEN Opposite(table[Reversed(k)]) ELSE "uplink"

\* flow_table holds the directions of all packets read, each with its way.
FlowTable ==
  /\ NoFlows => table = << >> /\ flowCount = 0
  /\ ~NoFlows => /\ DOMAIN table = {Key(read[i]) : i \in Packets}
                 /\ \A k \in DOMAIN table : table[k] = WayOf(k)
                 /\ IsFiniteSet(Pairs) /\ flowCount = Cardinality(Pairs)

\* A packet left by the way of its direction, and rewritten for that way.
Sent ==
  /\ IsSeq(wire)
  /\ \A i \in 1..Len(wire) :
       /\ NoFlows => /\ wire[i].way = "uplink"
                     /\ wire[i].out = [src |-> wire[i].in.src, dst |-> wire[i].in.dst]
       /\ ~NoFlows => /\ Key(wire[i].in) \in DOMAIN table
                      /\ wire[i].way = table[Key(wire[i].in)]
                      /\ wire[i].out = Rewritten(wire[i].in, wire[i].way)

Counted ==
  /\ packetsCount \in Nat /\ totalPackets \in Nat
  /\ uplinkPackets \in Nat /\ downlinkPackets \in Nat
  /\ IsFiniteSet(Packets) /\ totalPackets + packetsCount = Cardinality(Packets)
  /\ uplinkPackets + downlinkPackets = Len(wire)

-----------------------------------------------------------------------------
(* One more record *)

LEMMA PlacesAreRead ==
  ASSUME Reading
  PROVE  /\ Len(read) \in Nat /\ DOMAIN read = 1..Len(read)
         /\ \A i \in 1..Len(read) : read[i] \in Records
         /\ Packets \subseteq 1..Len(read)
         /\ \A k : KeyAt(k) \subseteq 1..Len(read)
BY DEF Reading, Packets, KeyAt

LEMMA FirstOfKey ==
  ASSUME Reading, NEW k, KeyAt(k) # {}
  PROVE  /\ FirstOf(k) \in KeyAt(k) /\ FirstOf(k) \in 1..Len(read)
         /\ Key(read[FirstOf(k)]) = k
         /\ \A j \in KeyAt(k) : FirstOf(k) <= j
<1>1. KeyAt(k) \in SUBSET (1..Len(read)) /\ Len(read) \in Nat
  BY PlacesAreRead
<1>2. FirstOf(k) = First(KeyAt(k))
  BY DEF FirstOf, KeyAt
<1>3. FirstOf(k) \in KeyAt(k) /\ \A j \in KeyAt(k) : FirstOf(k) <= j
  BY <1>1, <1>2, FirstIsFirst
<1> QED
  BY <1>1, <1>3 DEF KeyAt

\* What was read keeps its place; of each direction the first record stays the first.
LEMMA ReadOneMore ==
  ASSUME Reading, NEW p \in Records, read' = Append(read, p)
  PROVE  /\ read' \in Seq(Records) /\ Len(read') = Len(read) + 1
         /\ DOMAIN read' = 1..(Len(read) + 1)
         /\ read'[Len(read) + 1] = p /\ \A i \in 1..Len(read) : read'[i] = read[i]
         /\ Packets' = IF p.kind = "noip" THEN Packets ELSE Packets \cup {Len(read) + 1}
         /\ \A k : KeyAt(k)' = IF p.kind # "noip" /\ Key(p) = k
                               THEN KeyAt(k) \cup {Len(read) + 1} ELSE KeyAt(k)
         /\ \A k : KeyAt(k) # {} => FirstOf(k)' = FirstOf(k)
         /\ p.kind # "noip" /\ KeyAt(Key(p)) = {} => FirstOf(Key(p))' = Len(read) + 1
<1> DEFINE n == Len(read)
<1>1. n \in Nat /\ DOMAIN read = 1..n /\ Packets \subseteq 1..n /\ \A k : KeyAt(k) \subseteq 1..n
  BY PlacesAreRead
<1>2. /\ read' \in Seq(Records) /\ Len(read') = n + 1 /\ DOMAIN read' = 1..(n + 1)
      /\ read'[n + 1] = p /\ \A i \in 1..n : read'[i] = read[i]
  BY DEF Reading
<1>3. \A i : i \in 1..(n + 1) <=> i \in 1..n \/ i = n + 1
  BY <1>1
<1>4. Packets' = IF p.kind = "noip" THEN Packets ELSE Packets \cup {n + 1}
  BY <1>1, <1>2, <1>3 DEF Packets
<1>5. \A k : KeyAt(k)' = IF p.kind # "noip" /\ Key(p) = k THEN KeyAt(k) \cup {n + 1} ELSE KeyAt(k)
  <2> TAKE k
  <2>1. KeyAt(k)' = {i \in Packets' : Key(read'[i]) = k}
    BY DEF KeyAt
  <2>2. \A i \in Packets : Key(read'[i]) = Key(read[i])
    BY <1>1, <1>2
  <2>3. CASE p.kind = "noip"
    BY <2>1, <2>2, <2>3, <1>4 DEF KeyAt
  <2>4. CASE p.kind # "noip"
    <3>1. \A i : i \in KeyAt(k)' <=> i \in KeyAt(k) \/ (i = n + 1 /\ Key(p) = k)
      BY <2>1, <2>2, <2>4, <1>2, <1>4 DEF KeyAt
    <3> QED
      BY <3>1, <2>4
  <2> QED
    BY <2>3, <2>4
<1>6. ASSUME NEW k, KeyAt(k) # {}
      PROVE  FirstOf(k)' = FirstOf(k)
  <2>1. FirstOf(k)' = First(KeyAt(k)') /\ FirstOf(k) = First(KeyAt(k))
    BY DEF FirstOf, KeyAt
  <2>2. KeyAt(k) \subseteq KeyAt(k)' /\ KeyAt(k)' \subseteq KeyAt(k) \cup {n + 1}
    BY <1>5
  <2> QED
    BY <1>1, <1>6, <2>1, <2>2, FirstStays
<1>7. ASSUME p.kind # "noip", KeyAt(Key(p)) = {}
      PROVE  FirstOf(Key(p))' = n + 1
  <2>1. KeyAt(Key(p))' = {n + 1}
    BY <1>5, <1>7
  <2>2. FirstOf(Key(p))' = First({n + 1})
    BY <2>1 DEF FirstOf, KeyAt
  <2> QED
    BY <1>1, <2>2, FirstIsOnly
<1> QED
  BY <1>2, <1>4, <1>5, <1>6, <1>7

-----------------------------------------------------------------------------
(* The flow table *)

LEMMA ReversedTwice ==
  ASSUME NEW p
  PROVE  Reversed(Reversed(Key(p))) = Key(p)
BY DEF Reversed, Key

\* The parameters stay as they are, and what is read off them.
LEMMA SameConfig ==
  ASSUME config' = config
  PROVE  /\ NoFlows' = NoFlows /\ Hinted' = Hinted
         /\ \A k : HintSaysUp(k)' = HintSaysUp(k) /\ HintSaysDown(k)' = HintSaysDown(k)
         /\ \A p, way : Rewritten(p, way)' = Rewritten(p, way)
<1>1. NoFlows' = NoFlows /\ Hinted' = Hinted
  BY DEF NoFlows, Hinted
<1>2. \A k : HintSaysUp(k)' = HintSaysUp(k) /\ HintSaysDown(k)' = HintSaysDown(k)
  BY DEF HintSaysUp, HintSaysDown
<1>3. \A p, way : Rewritten(p, way)' = Rewritten(p, way)
  BY DEF Rewritten, Forced, Override
<1> QED
  BY <1>1, <1>2, <1>3

LEMMA KnownKeys ==
  ASSUME FlowTable, ~NoFlows
  PROVE  \A k : k \in DOMAIN table <=> KeyAt(k) # {}
BY DEF FlowTable, KeyAt

\* A direction met again leaves the table, and its ways stay those of all records.
LEMMA OldWaysStay ==
  ASSUME Reading, NEW p \in Records, read' = Append(read, p), config' = config,
         NEW k, KeyAt(k) # {}, table[Reversed(k)]' = table[Reversed(k)] \/ KeyAt(Reversed(k)) = {}
  PROVE  WayOf(k)' = WayOf(k)
<1> DEFINE n == Len(read)
           r == Reversed(k)
<1>1. FirstOf(k) \in 1..n /\ FirstOf(k)' = FirstOf(k) /\ read'[FirstOf(k)] = read[FirstOf(k)]
  BY FirstOfKey, ReadOneMore
<1>2. CASE KeyAt(r) # {}
  <2>1. KeyAt(r)' # {} /\ FirstOf(r)' = FirstOf(r) /\ table[r]' = table[r]
    BY <1>2, ReadOneMore
  <2> QED
    BY <1>1, <1>2, <2>1, SameConfig DEF WayOf
<1>3. CASE KeyAt(r) = {}
  <2>1. ~(KeyAt(r)' # {} /\ FirstOf(r)' < FirstOf(k)')
    <3>1. CASE p.kind # "noip" /\ Key(p) = r
      <4>1. FirstOf(r)' = n + 1 /\ n \in Nat
        BY <1>3, <3>1, ReadOneMore, PlacesAreRead
      <4> QED
        BY <1>1, <4>1
    <3>2. CASE ~(p.kind # "noip" /\ Key(p) = r)
      <4>1. KeyAt(r)' = {}
        BY <1>3, <3>2, ReadOneMore
      <4> QED
        BY <4>1
    <3> QED
      BY <3>1, <3>2
  <2> QED
    BY <1>3, <2>1, SameConfig DEF WayOf
<1> QED
  BY <1>2, <1>3

\* What get_direction decides for a new direction is its way from all records.
LEMMA NewWayIsRight ==
  ASSUME Reading, FlowTable, ~NoFlows,
         NEW p \in Records, p.kind # "noip", KeyAt(Key(p)) = {},
         read' = Append(read, p), config' = config,
         \A k \in DOMAIN table : table'[k] = table[k]
  PROVE  WayOf(Key(p))' = NewWay(p)
<1> DEFINE n == Len(read)
           k == Key(p)
           r == Reversed(k)
<1>1. n \in Nat /\ FirstOf(k)' = n + 1 /\ read'[n + 1] = p /\ read'[FirstOf(k)'] = p
  BY ReadOneMore, PlacesAreRead
<1>2. CASE r \in DOMAIN table
  <2>1. KeyAt(r) # {} /\ r # k
    BY <1>2, KnownKeys
  <2>2. KeyAt(r)' # {} /\ FirstOf(r)' = FirstOf(r) /\ FirstOf(r) \in 1..n
    BY <2>1, ReadOneMore, FirstOfKey
  <2>3. table[r]' = table[r]
    BY <1>2
  <2> QED
    BY <1>1, <1>2, <2>2, <2>3, SameConfig DEF WayOf, NewWay
<1>3. CASE r \notin DOMAIN table
  <2>1. KeyAt(r) = {}
    BY <1>3, KnownKeys
  <2>2. ~(KeyAt(r)' # {} /\ FirstOf(r)' < FirstOf(k)')
    <3>1. CASE r = k
      BY <3>1, <1>1
    <3>2. CASE r # k
      BY <3>2, <2>1, ReadOneMore
    <3> QED
      BY <3>1, <3>2
  <2> QED
    BY <1>1, <1>3, <2>2, SameConfig DEF WayOf, NewWay
<1> QED
  BY <1>2, <1>3

\* A new direction makes a flow unless the other one was there.
LEMMA OneMorePair ==
  ASSUME NEW p, Key(p) \notin DOMAIN table, NEW D, D = DOMAIN table \cup {Key(p)},
         \A k \in DOMAIN table : Reversed(Reversed(k)) = k, IsFiniteSet(Pairs)
  PROVE  LET Q == {{k, Reversed(k)} : k \in D}
         IN  IsFiniteSet(Q) /\ Cardinality(Pairs) \in Nat
             /\ Cardinality(Q) =
                  Cardinality(Pairs) + (IF Reversed(Key(p)) \in DOMAIN table THEN 0 ELSE 1)
<1> DEFINE Q == {{k, Reversed(k)} : k \in D}
           m == Key(p)
           pair == {m, Reversed(m)}
<1>1. Q = Pairs \cup {pair}
  BY DEF Pairs
<1>2. pair \in Pairs <=> Reversed(m) \in DOMAIN table
  <2>1. ASSUME Reversed(m) \in DOMAIN table
        PROVE  pair \in Pairs
    <3>1. {Reversed(m), Reversed(Reversed(m))} \in Pairs
      BY <2>1 DEF Pairs
    <3>2. Reversed(Reversed(m)) = m
      BY ReversedTwice
    <3> QED
      BY <3>1, <3>2
  <2>2. ASSUME pair \in Pairs
        PROVE  Reversed(m) \in DOMAIN table
    <3>1. PICK k \in DOMAIN table : pair = {k, Reversed(k)}
      BY <2>2 DEF Pairs
    <3>2. k # m
      OBVIOUS
    <3>3. k \in pair
      BY <3>1
    <3> QED
      BY <3>2, <3>3
  <2> QED
    BY <2>1, <2>2
<1>3. IsFiniteSet(Pairs \cup {pair})
      /\ Cardinality(Pairs \cup {pair}) = IF pair \in Pairs THEN Cardinality(Pairs) ELSE Cardinality(Pairs) + 1
  <2> HIDE DEF pair
  <2> QED
    BY FS_AddElement
<1>4. Cardinality(Pairs) \in Nat
  BY FS_CardinalityType
<1>5. /\ IsFiniteSet(Q) /\ Cardinality(Pairs) \in Nat
      /\ Cardinality(Q) =
           Cardinality(Pairs) + (IF Reversed(m) \in DOMAIN table THEN 0 ELSE 1)
  <2> HIDE DEF Q, pair, m
  <2> QED
    BY <1>1, <1>2, <1>3, <1>4
<1> QED
  BY <1>5

LEMMA TableRead ==
  ASSUME Reading, FlowTable, NEW p \in Records, ReadRecord(p)
  PROVE  FlowTable'
<1> DEFINE n == Len(read)
           m == Key(p)
<1>1. read' = Append(read, p) /\ config' = config /\ Replay(p)
  BY DEF ReadRecord
<1>2. NoFlows' = NoFlows
  BY <1>1, SameConfig
<1>3. CASE NoFlows
  <2>1. UNCHANGED <<table, flowCount>>
    BY <1>1, <1>3 DEF Replay, replayVars
  <2> QED
    BY <2>1, <1>2, <1>3 DEF FlowTable
<1>4. CASE ~NoFlows /\ (p.kind = "noip" \/ m \in DOMAIN table)
  <2>1. UNCHANGED <<table, flowCount>>
    BY <1>1, <1>4 DEF Replay, RememberWay, replayVars
  <2>2. \A k : KeyAt(k)' # {} <=> KeyAt(k) # {}
    <3> TAKE k
    <3>1. CASE p.kind # "noip" /\ m = k
      BY <1>1, <1>4, <3>1, KnownKeys, ReadOneMore
    <3>2. CASE ~(p.kind # "noip" /\ m = k)
      BY <1>1, <3>2, ReadOneMore
    <3> QED
      BY <3>1, <3>2
  <2>3. \A k : k \in DOMAIN table' <=> KeyAt(k)' # {}
    BY <1>4, <2>1, <2>2, KnownKeys
  <2>4. DOMAIN table' = {Key(read[i]) : i \in Packets}'
    BY <2>3, <1>4, <2>1 DEF FlowTable, KeyAt
  <2>5. \A k \in DOMAIN table' : table'[k] = WayOf(k)'
    BY <1>1, <1>4, <2>1, KnownKeys, OldWaysStay DEF FlowTable
  <2>6. Pairs' = Pairs
    BY <2>1 DEF Pairs
  <2> QED
    BY <1>2, <1>4, <2>1, <2>4, <2>5, <2>6 DEF FlowTable
<1>5. CASE ~NoFlows /\ p.kind # "noip" /\ m \notin DOMAIN table
  <2>1. /\ table' = [k \in DOMAIN table \cup {m} |-> IF k = m THEN NewWay(p) ELSE table[k]]
        /\ flowCount' = flowCount + (IF Reversed(m) \in DOMAIN table THEN 0 ELSE 1)
    BY <1>1, <1>5 DEF Replay, RememberWay
  <2>2. KeyAt(m) = {} /\ \A k \in DOMAIN table : table'[k] = table[k]
    BY <1>5, <2>1, KnownKeys
  <2>3. DOMAIN table' = DOMAIN table \cup {m}
    BY <2>1
  <2>4. DOMAIN table' = {Key(read[i]) : i \in Packets}'
    <3>1. Packets' = Packets \cup {n + 1} /\ read'[n + 1] = p
          /\ \A i \in Packets : read'[i] = read[i]
      BY <1>1, <1>5, ReadOneMore, PlacesAreRead
    <3> QED
      BY <3>1, <2>3, <1>5 DEF FlowTable
  <2>5. ASSUME NEW k \in DOMAIN table'
        PROVE  table'[k] = WayOf(k)'
    <3>1. CASE k = m
      <4>1. WayOf(m)' = NewWay(p)
        BY <1>1, <1>5, <2>2, NewWayIsRight
      <4> QED
        BY <4>1, <3>1, <2>1
    <3>2. CASE k # m
      <4>1. k \in DOMAIN table /\ KeyAt(k) # {}
        BY <3>2, <2>3, <1>5, KnownKeys
      <4>2. table[Reversed(k)]' = table[Reversed(k)] \/ KeyAt(Reversed(k)) = {}
        BY <1>5, <2>2, KnownKeys
      <4>3. WayOf(k)' = WayOf(k)
        BY <1>1, <4>1, <4>2, OldWaysStay
      <4> QED
        BY <4>1, <4>3, <2>2, <1>5 DEF FlowTable
    <3> QED
      BY <3>1, <3>2
  <2>6. IsFiniteSet(Pairs') /\ flowCount' = Cardinality(Pairs')
    <3>1. \A k \in DOMAIN table : Reversed(Reversed(k)) = k
      BY <1>5, ReversedTwice DEF FlowTable
    <3>2. IsFiniteSet(Pairs) /\ flowCount = Cardinality(Pairs)
      BY <1>5 DEF FlowTable
    <3>3. Pairs' = {{k, Reversed(k)} : k \in DOMAIN table'}
      BY DEF Pairs
    <3> QED
      BY <1>5, <2>1, <2>3, <3>1, <3>2, <3>3, OneMorePair
  <2> QED
    BY <1>2, <1>5, <2>4, <2>5, <2>6 DEF FlowTable
<1> QED
  BY <1>3, <1>4, <1>5

-----------------------------------------------------------------------------
(* What is sent and counted *)

\* The table forgets nothing, and a packet's direction is in it when the packet is sent.
LEMMA TableGrows ==
  ASSUME NEW p, RememberWay(p)
  PROVE  /\ \A k \in DOMAIN table : k \in DOMAIN table' /\ table'[k] = table[k]
         /\ Key(p) \in DOMAIN table' /\ table'[Key(p)] = Way(p)
<1>1. CASE Key(p) \in DOMAIN table
  BY <1>1 DEF RememberWay, Way
<1>2. CASE Key(p) \notin DOMAIN table
  <2> DEFINE m == Key(p)
  <2>1. table' = [k \in DOMAIN table \cup {m} |-> IF k = m THEN NewWay(p) ELSE table[k]]
    BY <1>2 DEF RememberWay
  <2> HIDE DEF m
  <2>2. /\ \A k \in DOMAIN table : k \in DOMAIN table' /\ (k # m => table'[k] = table[k])
        /\ m \in DOMAIN table' /\ table'[m] = NewWay(p)
    BY <2>1
  <2> USE DEF m
  <2> QED
    BY <1>2, <2>2 DEF Way
<1> QED
  BY <1>1, <1>2

\* A packet refused by its socket is not on the wire, which stays as it was.
LEMMA SendSends ==
  ASSUME IsSeq(wire), NEW p, NEW way, NEW out, Send(p, way, out)
  PROVE  /\ IsSeq(wire')
         /\ \A i \in 1..Len(wire') :
              \/ i \in 1..Len(wire) /\ wire'[i] = wire[i]
              \/ wire'[i] = [in |-> p, out |-> out, way |-> way]
<1> DEFINE e == [in |-> p, out |-> out, way |-> way]
<1>1. CASE wire' = Append(wire, e)
  <2> HIDE DEF e
  <2>1. /\ IsSeq(wire') /\ Len(wire) \in Nat /\ Len(wire') = Len(wire) + 1
        /\ wire'[Len(wire) + 1] = e /\ \A i \in 1..Len(wire) : wire'[i] = wire[i]
    BY <1>1, AppendIsSeq
  <2>2. \A i \in 1..Len(wire') : (i \in 1..Len(wire) /\ wire'[i] = wire[i]) \/ wire'[i] = e
    BY <2>1
  <2> USE DEF e
  <2> QED
    BY <2>1, <2>2
<1>2. CASE wire' = wire
  BY <1>2
<1> QED
  BY <1>1, <1>2 DEF Send

LEMMA SentRead ==
  ASSUME Sent, NEW p \in Records, ReadRecord(p)
  PROVE  Sent'
<1>1. config' = config /\ Replay(p)
  BY DEF ReadRecord
<1>2. /\ NoFlows' = NoFlows
      /\ \A q, way : Rewritten(q, way)' = Rewritten(q, way)
  BY <1>1, SameConfig
<1>3. CASE p.kind = "noip"
  <2>1. UNCHANGED <<table, wire>>
    BY <1>1, <1>3 DEF Replay, replayVars
  <2> QED
    BY <1>2, <2>1 DEF Sent
<1>4. CASE p.kind # "noip" /\ NoFlows
  <2> DEFINE out == [src |-> p.src, dst |-> p.dst]
  <2>1. Send(p, "uplink", out)
    BY <1>1, <1>4 DEF Replay
  <2>2. /\ IsSeq(wire')
        /\ \A i \in 1..Len(wire') :
             \/ i \in 1..Len(wire) /\ wire'[i] = wire[i]
             \/ wire'[i] = [in |-> p, out |-> out, way |-> "uplink"]
    <3> HIDE DEF out
    <3> QED
      BY <2>1, SendSends DEF Sent
  <2> QED
    BY <1>2, <1>4, <2>2 DEF Sent
<1>5. CASE p.kind # "noip" /\ ~NoFlows
  <2> DEFINE out == Rewritten(p, Way(p))
  <2>1. RememberWay(p) /\ Send(p, Way(p), out)
    BY <1>1, <1>5 DEF Replay
  <2>2. /\ IsSeq(wire')
        /\ \A i \in 1..Len(wire') :
             \/ i \in 1..Len(wire) /\ wire'[i] = wire[i]
             \/ wire'[i] = [in |-> p, out |-> out, way |-> Way(p)]
    <3> HIDE DEF out
    <3> QED
      BY <2>1, SendSends DEF Sent
  <2>3. ASSUME NEW i \in 1..Len(wire')
        PROVE  /\ Key(wire'[i].in) \in DOMAIN table'
               /\ wire'[i].way = table'[Key(wire'[i].in)]
               /\ (wire[i].out = Rewritten(wire[i].in, wire[i].way))'
    <3>1. CASE i \in 1..Len(wire) /\ wire'[i] = wire[i]
      BY <1>2, <1>5, <2>1, <3>1, TableGrows DEF Sent
    <3>2. CASE wire'[i] = [in |-> p, out |-> out, way |-> Way(p)]
      BY <1>2, <2>1, <3>2, TableGrows
    <3> QED
      BY <2>2, <3>1, <3>2
  <2> QED
    BY <1>2, <1>5, <2>2, <2>3 DEF Sent
<1> QED
  BY <1>3, <1>4, <1>5

LEMMA CountedSend ==
  ASSUME Counted, IsSeq(wire), NEW p, NEW way, NEW out, Send(p, way, out)
  PROVE  /\ packetsCount' = packetsCount + 1
         /\ uplinkPackets' \in Nat /\ downlinkPackets' \in Nat
         /\ uplinkPackets' + downlinkPackets' = Len(wire')
<1> DEFINE e == [in |-> p, out |-> out, way |-> way]
<1>1. CASE /\ wire' = Append(wire, e)
           /\ uplinkPackets' = uplinkPackets + (IF way = "uplink" THEN 1 ELSE 0)
           /\ downlinkPackets' = downlinkPackets + (IF way = "uplink" THEN 0 ELSE 1)
  <2>1. Len(wire) \in Nat /\ Len(wire') = Len(wire) + 1
    <3> HIDE DEF e
    <3> QED
      BY <1>1, AppendIsSeq
  <2> QED
    BY <1>1, <2>1 DEF Counted, Send
<1>2. CASE UNCHANGED <<wire, uplinkPackets, downlinkPackets>>
  BY <1>2 DEF Counted, Send
<1> QED
  BY <1>1, <1>2 DEF Send

LEMMA CountedRead ==
  ASSUME Reading, Sent, Counted, NEW p \in Records, ReadRecord(p)
  PROVE  Counted'
<1>1. read' = Append(read, p) /\ Replay(p) /\ totalPackets' = totalPackets
  BY DEF ReadRecord
<1>2. CASE p.kind = "noip"
  <2>1. UNCHANGED replayVars /\ Packets' = Packets
    BY <1>1, <1>2, ReadOneMore DEF Replay
  <2> QED
    BY <1>1, <2>1 DEF Counted, replayVars
<1>3. CASE p.kind # "noip"
  <2>1. PICK way, out : Send(p, way, out)
    BY <1>1, <1>3 DEF Replay
  <2>2. Packets' = Packets \cup {Len(read) + 1} /\ Len(read) + 1 \notin Packets
    BY <1>1, <1>3, ReadOneMore, PlacesAreRead
  <2>3. IsFiniteSet(Packets') /\ Cardinality(Packets') = Cardinality(Packets) + 1
    BY <2>2, FS_AddElement DEF Counted
  <2>4. /\ packetsCount' = packetsCount + 1
        /\ uplinkPackets' \in Nat /\ downlinkPackets' \in Nat
        /\ uplinkPackets' + downlinkPackets' = Len(wire')
    BY <2>1, CountedSend DEF Sent
  <2>5. /\ packetsCount \in Nat /\ totalPackets \in Nat
        /\ totalPackets + packetsCount = Cardinality(Packets)
    BY DEF Counted
  <2>6. packetsCount' \in Nat /\ totalPackets' + packetsCount' = Cardinality(Packets')
    BY <1>1, <2>3, <2>4, <2>5
  <2> QED
    BY <1>1, <2>3, <2>4, <2>5, <2>6 DEF Counted
<1> QED
  BY <1>2, <1>3

-----------------------------------------------------------------------------
(* The extractor's flows *)

\* What the extractor knows of a flow whose packets are at the places S.
Entry(S) ==
  [src |-> read[First(S)].src, dst |-> read[First(S)].dst,
   client |-> ClientOf(S), finalized |-> Tells(S) # {}]

\* Its table is what the packets of the open file say, and what it has reported is what
\* the packets of each file that was closed say.
Open == Len(begins)

FlowsSoFar ==
  /\ DOMAIN flows = {Flow(read[i]) : i \in Seen(Open)}
  /\ \A f \in DOMAIN flows : flows[f] = Entry(FlowIn(f, Open))

Extracted ==
  /\ IsSeq(results)
  /\ Len(results) = IF status = "running" THEN Open - 1 ELSE Open
  /\ \A n \in 1..Len(results) : results[n] = FlowsOf(n)
  /\ status = "running" => FlowsSoFar

LEMMA FlowPlaces ==
  ASSUME Reading
  PROVE  \A n : /\ InFile(n) \subseteq 1..Len(read) /\ Seen(n) \subseteq InFile(n)
                /\ \A f : FlowIn(f, n) \subseteq Seen(n)
BY PlacesAreRead DEF InFile, Seen, FlowIn

LEMMA AcrossIs ==
  ASSUME NEW a, NEW b
  PROVE  Across({a, b}, a) = b /\ Across({a, b}, b) = a
<1>1. CASE a = b
  BY <1>1 DEF Across
<1>2. CASE a # b
  <2>1. (CHOOSE d \in {a, b} : d # a) = b
    BY <1>2
  <2>2. (CHOOSE d \in {a, b} : d # b) = a
    BY <1>2
  <2>3. {a, b} # {a} /\ {a, b} # {b}
    BY <1>2
  <2> QED
    BY <2>1, <2>2, <2>3 DEF Across
<1> QED
  BY <1>1, <1>2

\* The client of a flow is one of its ends.
LEMMA ClientIsAnEnd ==
  ASSUME Reading, NEW n, NEW f, FlowIn(f, n) # {}
  PROVE  /\ First(FlowIn(f, n)) \in FlowIn(f, n)
         /\ f = {read[First(FlowIn(f, n))].src, read[First(FlowIn(f, n))].dst}
         /\ ClientOf(FlowIn(f, n)) \in f
<1> DEFINE S == FlowIn(f, n)
           N == Len(read)
<1>1. S # {} /\ S \in SUBSET (1..N) /\ N \in Nat /\ Tells(S) \in SUBSET (1..N)
  BY FlowPlaces, PlacesAreRead DEF Tells
<1>2. First(S) \in S
  <2> HIDE DEF S
  <2> QED
    BY <1>1, FirstIsFirst
<1>3. \A i \in S : f = {read[i].src, read[i].dst}
  BY DEF FlowIn, Flow
<1>4. CASE Tells(S) # {}
  <2>1. First(Tells(S)) \in Tells(S)
    <3> HIDE DEF S
    <3> QED
      BY <1>1, <1>4, FirstIsFirst
  <2>2. First(Tells(S)) \in S
    BY <2>1 DEF Tells
  <2>3. Signalled(read[First(Tells(S))]) \in f
    BY <1>3, <2>2 DEF Signalled
  <2> QED
    BY <1>2, <1>3, <1>4, <2>3 DEF ClientOf
<1>5. CASE Tells(S) = {}
  BY <1>2, <1>3, <1>5 DEF ClientOf
<1> QED
  BY <1>4, <1>5, <1>2, <1>3

\* What is reported when the file ends.
LEMMA ReportIsRight ==
  ASSUME Reading, FlowsSoFar
  PROVE  ReportFlows = FlowsOf(Open)
<1> DEFINE C(f) == ClientOf(FlowIn(f, Open))
           Line(f) == IF flows[f].client = flows[f].src THEN <<flows[f].src, flows[f].dst>>
                      ELSE <<flows[f].dst, flows[f].src>>
<1>1. ASSUME NEW f \in DOMAIN flows
      PROVE  Line(f) = <<C(f), Across(f, C(f))>>
  <2>1. PICK i \in Seen(Open) : f = Flow(read[i])
    BY DEF FlowsSoFar
  <2>2. FlowIn(f, Open) # {}
    BY <2>1 DEF FlowIn
  <2> DEFINE a == read[First(FlowIn(f, Open))].src
             b == read[First(FlowIn(f, Open))].dst
  <2>3. f = {a, b} /\ C(f) \in {a, b}
    BY <2>2, ClientIsAnEnd
  <2>4. flows[f].src = a /\ flows[f].dst = b /\ flows[f].client = C(f)
    <3>1. flows[f] = Entry(FlowIn(f, Open))
      BY <1>1 DEF FlowsSoFar
    <3> QED
      BY <3>1 DEF Entry
  <2> HIDE DEF a, b, C
  <2>5. Across({a, b}, a) = b /\ Across({a, b}, b) = a
    BY AcrossIs
  <2>6. CASE C(f) = a
    BY <2>3, <2>4, <2>5, <2>6
  <2>7. CASE C(f) = b /\ C(f) # a
    BY <2>3, <2>4, <2>5, <2>7
  <2> QED
    BY <2>3, <2>6, <2>7
<1>2. ReportFlows = {Line(f) : f \in DOMAIN flows}
  BY DEF ReportFlows
<1>3. FlowsOf(Open) = {<<C(f), Across(f, C(f))>> : f \in DOMAIN flows}
  BY DEF FlowsOf, FlowsSoFar
<1> HIDE DEF Line, C
<1> QED
  BY <1>1, <1>2, <1>3

-----------------------------------------------------------------------------
(* One more record in the open file *)

LEMMA FilesRead ==
  ASSUME Reading, NEW p \in Records, read' = Append(read, p), begins' = begins
  PROVE  /\ Open' = Open /\ Open \in Nat \ {0}
         /\ \A n \in 1..(Open - 1) : InFile(n)' = InFile(n)
         /\ InFile(Open)' = InFile(Open) \cup {Len(read) + 1}
<1>1. Open' = Open /\ Open \in Nat \ {0}
  BY DEF Open, Reading
<1>2. Len(read) \in Nat /\ DOMAIN read = 1..Len(read) /\ DOMAIN read' = 1..(Len(read) + 1)
  BY PlacesAreRead, ReadOneMore
<1>3. ASSUME NEW n \in 1..(Open - 1)
      PROVE  InFile(n)' = InFile(n)
  <2>1. begins[n + 1] \in Nat /\ begins[n + 1] <= Len(read) /\ begins'[n + 1] = begins[n + 1]
    BY <1>1 DEF Reading, Open
  <2>2. n < Len(begins) /\ n < Len(begins')
    BY <1>1 DEF Open
  <2>3. \A i \in 1..(Len(read) + 1) : i <= begins[n + 1] => i \in 1..Len(read)
    BY <2>1, <1>2
  <2> QED
    BY <1>2, <2>1, <2>2, <2>3 DEF InFile
<1>4. InFile(Open)' = InFile(Open) \cup {Len(read) + 1}
  <2>1. begins[Open] \in Nat /\ begins[Open] <= Len(read) /\ ~(Open < Len(begins))
        /\ begins'[Open'] = begins[Open] /\ ~(Open' < Len(begins'))
    BY <1>1 DEF Reading, Open
  <2>2. InFile(Open) = {i \in 1..Len(read) : begins[Open] < i}
    BY <1>2, <2>1 DEF InFile
  <2>3. InFile(Open)' = {i \in 1..(Len(read) + 1) : begins[Open] < i}
    BY <1>2, <2>1 DEF InFile
  <2> QED
    BY <1>2, <2>1, <2>2, <2>3
<1> QED
  BY <1>1, <1>3, <1>4

\* What the packets at some places say does not change when more is read.
LEMMA EntryStays ==
  ASSUME NEW N \in Nat, NEW S \in SUBSET (1..N), S # {}, \A i \in S : read'[i] = read[i]
  PROVE  Entry(S)' = Entry(S) /\ ClientOf(S)' = ClientOf(S) /\ Tells(S)' = Tells(S)
<1>1. Tells(S)' = Tells(S)
  BY DEF Tells
<1>2. First(S) \in S
  BY FirstIsFirst
<1>3. Tells(S) # {} => First(Tells(S)) \in S
  <2>1. Tells(S) \in SUBSET (1..N) /\ Tells(S) \subseteq S
    BY DEF Tells
  <2> QED
    BY <2>1, FirstIsFirst
<1>4. ClientOf(S)' = ClientOf(S)
  BY <1>1, <1>2, <1>3 DEF ClientOf
<1> QED
  BY <1>1, <1>2, <1>4 DEF Entry

\* The report on a file depends on its own packets.
LEMMA ReportStays ==
  ASSUME Reading, NEW n, InFile(n)' = InFile(n), \A i \in InFile(n) : read'[i] = read[i]
  PROVE  FlowsOf(n)' = FlowsOf(n)
<1>1. Seen(n)' = Seen(n)
  BY DEF Seen
<1>2. \A i \in Seen(n) : read'[i] = read[i]
  BY FlowPlaces
<1>3. \A f : FlowIn(f, n)' = FlowIn(f, n)
  BY <1>1, <1>2 DEF FlowIn
<1>4. ASSUME NEW f, FlowIn(f, n) # {}
      PROVE  ClientOf(FlowIn(f, n))' = ClientOf(FlowIn(f, n))
  <2>1. Len(read) \in Nat /\ FlowIn(f, n) \in SUBSET (1..Len(read))
    BY FlowPlaces, PlacesAreRead
  <2>2. \A i \in FlowIn(f, n) : read'[i] = read[i]
    BY <1>2, FlowPlaces
  <2>3. PICK S : S = FlowIn(f, n)
    OBVIOUS
  <2>4. ClientOf(S)' = ClientOf(S)
    BY <1>4, <2>1, <2>2, <2>3, EntryStays
  <2> QED
    BY <1>3, <2>3, <2>4 DEF ClientOf, Tells
<1> DEFINE Fs == {Flow(read[i]) : i \in Seen(n)}
           C(f) == ClientOf(FlowIn(f, n))
<1>5. Fs' = Fs
  BY <1>1, <1>2
<1>6. \A f \in Fs : FlowIn(f, n) # {}
  BY DEF FlowIn
<1>7. \A f \in Fs : C(f)' = C(f)
  BY <1>4, <1>6
<1>8. FlowsOf(n) = {<<C(f), Across(f, C(f))>> : f \in Fs}
      /\ FlowsOf(n)' = {<<C(f)', Across(f, C(f)')>> : f \in Fs'}
  BY DEF FlowsOf
<1> HIDE DEF Fs, C
<1> QED
  BY <1>5, <1>7, <1>8

\* A record that the extractor skips tells nothing of any flow.
LEMMA SkippedRecord ==
  ASSUME Reading, FlowsSoFar, NEW p \in Records, p.kind = "noip" \/ p.cut,
         read' = Append(read, p), begins' = begins, flows' = flows
  PROVE  FlowsSoFar'
<1> DEFINE N == Len(read)
<1>1. Open' = Open /\ InFile(Open)' = InFile(Open) \cup {N + 1}
  BY FilesRead
<1>2. read'[N + 1] = p /\ \A i \in 1..N : read'[i] = read[i]
  BY ReadOneMore
<1>3. N \in Nat /\ Seen(Open) \subseteq 1..N /\ InFile(Open) \subseteq 1..N
  BY PlacesAreRead, FlowPlaces
<1>4. Seen(Open)' = Seen(Open)
  <2>1. Seen(Open)' = {i \in InFile(Open) \cup {N + 1} : read'[i].kind # "noip" /\ ~read'[i].cut}
    BY <1>1 DEF Seen
  <2> QED
    BY <2>1, <1>2, <1>3 DEF Seen
<1>5. \A i \in Seen(Open) : read'[i] = read[i]
  BY <1>2, <1>3
<1>6. \A f : FlowIn(f, Open)' = FlowIn(f, Open)
  BY <1>1, <1>4, <1>5 DEF FlowIn
<1>7. DOMAIN flows' = {Flow(read'[i]) : i \in Seen(Open)}
  BY <1>5 DEF FlowsSoFar
<1>8. ASSUME NEW f \in DOMAIN flows
      PROVE  (flows[f] = Entry(FlowIn(f, Open)))'
  <2>1. PICK S : S = FlowIn(f, Open)
    OBVIOUS
  <2>2. S # {} /\ S \in SUBSET (1..N) /\ \A i \in S : read'[i] = read[i]
    BY <2>1, <1>3, <1>5 DEF FlowsSoFar, FlowIn
  <2>3. Entry(S)' = Entry(S)
    BY <1>3, <2>2, EntryStays
  <2>4. flows'[f] = Entry(S)
    BY <2>1 DEF FlowsSoFar
  <2>5. FlowIn(f, Open)' = S
    BY <1>6, <2>1
  <2>6. Entry(FlowIn(f, Open))' = Entry(S)'
    BY <2>5 DEF Entry, ClientOf, Tells
  <2> QED
    BY <2>3, <2>4, <2>6
<1> QED
  BY <1>1, <1>4, <1>7, <1>8 DEF FlowsSoFar

\* A packet of a flow met before: the first that tells settles the client.
LEMMA NextPacket ==
  ASSUME NEW N \in Nat, NEW S \in SUBSET (1..N), S # {}, \A i \in S : read'[i] = read[i],
         NEW p, read'[N + 1] = p, Flow(p) \in DOMAIN flows, flows[Flow(p)] = Entry(S)
  PROVE  Entry(S \cup {N + 1})' = Corrected(p)
<1> DEFINE T == S \cup {N + 1}
<1>1. First(T) = First(S) /\ First(S) \in S
  <2>1. S \subseteq T /\ T \subseteq S \cup {N + 1}
    OBVIOUS
  <2> HIDE DEF T
  <2> QED
    BY <2>1, FirstIsFirst, FirstStays
<1>2. Known(p) = Entry(S)
  BY DEF Known
<1>3. Tells(S)' = Tells(S) /\ Tells(S) \in SUBSET (1..N) /\ Tells(S) \subseteq S
  BY DEF Tells
<1>4. Tells(T)' = IF p.kind \in Telling THEN Tells(S) \cup {N + 1} ELSE Tells(S)
  <2>1. Tells(T)' = {i \in S \cup {N + 1} : read'[i].kind \in Telling}
    BY DEF Tells
  <2> QED
    BY <2>1 DEF Tells
<1>5. CASE Tells(S) # {}
  <2>1. Tells(T)' # {} /\ First(Tells(T)') = First(Tells(S)) /\ First(Tells(S)) \in S
    <3>1. First(Tells(S)) \in S
      BY <1>3, <1>5, FirstIsFirst
    <3>2. Tells(S) \subseteq Tells(T)' /\ Tells(T)' \subseteq Tells(S) \cup {N + 1}
      BY <1>4
    <3> QED
      BY <1>3, <1>5, <3>1, <3>2, FirstStays
  <2>2. ClientOf(T)' = ClientOf(S)
    BY <1>5, <2>1 DEF ClientOf
  <2>3. Entry(T)' = Entry(S)
    BY <1>1, <1>5, <2>1, <2>2 DEF Entry
  <2>4. Entry(S).finalized
    BY <1>5 DEF Entry
  <2>5. Corrected(p) = Known(p)
    BY <1>2, <2>4 DEF Corrected
  <2> QED
    BY <1>2, <2>3, <2>5
<1>6. CASE Tells(S) = {} /\ p.kind \notin Telling
  <2>1. Tells(T)' = {}
    BY <1>4, <1>6
  <2>2. ClientOf(T)' = ClientOf(S)
    BY <1>1, <1>6, <2>1 DEF ClientOf
  <2>3. Entry(T)' = Entry(S)
    BY <1>1, <1>6, <2>1, <2>2 DEF Entry
  <2>4. Corrected(p) = Known(p)
    BY <1>6 DEF Corrected
  <2> QED
    BY <1>2, <2>3, <2>4
<1>7. CASE Tells(S) = {} /\ p.kind \in Telling
  <2>1. Tells(T)' = {N + 1} /\ First({N + 1}) = N + 1
    <3>1. N + 1 \in Nat
      OBVIOUS
    <3>2. First({N + 1}) = N + 1
      BY <3>1, FirstIsOnly
    <3> QED
      BY <1>4, <1>7, <3>2
  <2>2. ClientOf(T)' = Signalled(p)
    BY <2>1 DEF ClientOf
  <2>3. Entry(T)' = [src |-> read[First(S)].src, dst |-> read[First(S)].dst,
                     client |-> Signalled(p), finalized |-> TRUE]
    BY <1>1, <2>1, <2>2 DEF Entry
  <2>4. Entry(S) = [src |-> read[First(S)].src, dst |-> read[First(S)].dst,
                    client |-> ClientOf(S), finalized |-> FALSE]
    BY <1>7 DEF Entry
  <2> QED
    BY <1>2, <1>7, <2>3, <2>4 DEF Corrected
<1> QED
  BY <1>5, <1>6, <1>7

\* The first packet of a flow.
LEMMA FirstPacket ==
  ASSUME NEW N \in Nat, NEW p, read'[N + 1] = p, Flow(p) \notin DOMAIN flows
  PROVE  Entry({N + 1})' = Corrected(p)
<1>1. First({N + 1}) = N + 1
  BY FirstIsOnly
<1>2. Tells({N + 1})' = IF p.kind \in Telling THEN {N + 1} ELSE {}
  BY DEF Tells
<1>3. Known(p) = [src |-> p.src, dst |-> p.dst, client |-> p.src, finalized |-> FALSE]
  BY DEF Known
<1>4. CASE p.kind \in Telling
  <2>1. ClientOf({N + 1})' = Signalled(p)
    BY <1>1, <1>2, <1>4 DEF ClientOf
  <2>2. Entry({N + 1})' = [src |-> p.src, dst |-> p.dst, client |-> Signalled(p), finalized |-> TRUE]
    BY <1>1, <1>2, <1>4, <2>1 DEF Entry
  <2> QED
    BY <1>3, <1>4, <2>2 DEF Corrected
<1>5. CASE p.kind \notin Telling
  <2>1. ClientOf({N + 1})' = p.src
    BY <1>1, <1>2, <1>5 DEF ClientOf
  <2> QED
    BY <1>1, <1>2, <1>3, <1>5, <2>1 DEF Entry, Corrected
<1> QED
  BY <1>4, <1>5

LEMMA TakenRecord ==
  ASSUME Reading, FlowsSoFar, NEW p \in Records, p.kind # "noip", ~p.cut,
         read' = Append(read, p), begins' = begins,
         flows' = [f \in DOMAIN flows \cup {Flow(p)} |->
                     IF f = Flow(p) THEN Corrected(p) ELSE flows[f]]
  PROVE  FlowsSoFar'
<1> DEFINE N == Len(read)
           D == DOMAIN flows
<1>1. Open' = Open /\ InFile(Open)' = InFile(Open) \cup {N + 1}
  BY FilesRead
<1>2. read'[N + 1] = p /\ \A i \in 1..N : read'[i] = read[i]
  BY ReadOneMore
<1>3. N \in Nat /\ Seen(Open) \subseteq 1..N /\ InFile(Open) \subseteq 1..N
      /\ \A f : FlowIn(f, Open) \in SUBSET (1..N)
  BY PlacesAreRead, FlowPlaces
<1>4. Seen(Open)' = Seen(Open) \cup {N + 1}
  <2>1. Seen(Open)' = {i \in InFile(Open) \cup {N + 1} : read'[i].kind # "noip" /\ ~read'[i].cut}
    BY <1>1 DEF Seen
  <2> QED
    BY <2>1, <1>2, <1>3 DEF Seen
<1>5. \A i \in Seen(Open) : read'[i] = read[i]
  BY <1>2, <1>3
<1>6. \A f : FlowIn(f, Open)' =
               IF f = Flow(p) THEN FlowIn(f, Open) \cup {N + 1} ELSE FlowIn(f, Open)
  <2> TAKE f
  <2>1. FlowIn(f, Open)' = {i \in Seen(Open) \cup {N + 1} : Flow(read'[i]) = f}
    BY <1>1, <1>4 DEF FlowIn
  <2> QED
    BY <2>1, <1>2, <1>5 DEF FlowIn
<1>7. D' = D \cup {Flow(p)}
  OBVIOUS
<1>8. D' = {Flow(read'[i]) : i \in Seen(Open) \cup {N + 1}}
  BY <1>2, <1>5, <1>7 DEF FlowsSoFar
<1>9. \A f : f \in D <=> FlowIn(f, Open) # {}
  BY DEF FlowsSoFar, FlowIn
<1>10. ASSUME NEW f \in D'
       PROVE  (flows[f] = Entry(FlowIn(f, Open)))'
  <2>1. PICK S : S = FlowIn(f, Open)
    OBVIOUS
  <2>2. S \in SUBSET (1..N) /\ \A i \in S : read'[i] = read[i]
    BY <2>1, <1>2, <1>3
  <2>3. CASE f # Flow(p)
    <3>1. f \in D /\ S # {} /\ flows'[f] = flows[f] /\ flows[f] = Entry(S)
      BY <1>7, <1>9, <2>1, <2>3 DEF FlowsSoFar
    <3>2. Entry(S)' = Entry(S)
      BY <1>3, <2>2, <3>1, EntryStays
    <3>3. FlowIn(f, Open)' = S
      BY <1>6, <2>1, <2>3
    <3>4. Entry(FlowIn(f, Open))' = Entry(S)'
      BY <3>3 DEF Entry, ClientOf, Tells
    <3> QED
      BY <3>1, <3>2, <3>4
  <2>4. CASE f = Flow(p)
    <3>1. flows'[f] = Corrected(p)
      BY <1>7, <2>4
    <3>2. PICK n \in Nat : n = N
      BY <1>3
    <3>3. FlowIn(f, Open)' = S \cup {n + 1}
      BY <1>6, <2>1, <2>4, <3>2
    <3>4. Entry(FlowIn(f, Open))' = Entry(S \cup {n + 1})'
      BY <3>3 DEF Entry, ClientOf, Tells
    <3>5. read'[n + 1] = p /\ S \in SUBSET (1..n)
      BY <1>2, <2>2, <3>2
    <3>6. CASE f \in D
      <4>1. S # {} /\ flows[f] = Entry(S)
        BY <1>9, <2>1, <3>6 DEF FlowsSoFar
      <4>2. Entry(S \cup {n + 1})' = Corrected(p)
        BY <2>2, <2>4, <3>5, <3>6, <4>1, NextPacket
      <4> QED
        BY <3>1, <3>4, <4>2
    <3>7. CASE f \notin D
      <4>1. S \cup {n + 1} = {n + 1}
        BY <1>9, <2>1, <3>7
      <4>2. Entry({n + 1})' = Corrected(p)
        BY <2>4, <3>5, <3>7, FirstPacket
      <4>3. Entry(S \cup {n + 1})' = Entry({n + 1})'
        BY <4>1
      <4> QED
        BY <3>1, <3>4, <4>2, <4>3
    <3> QED
      BY <3>6, <3>7
  <2> QED
    BY <2>3, <2>4
<1> QED
  BY <1>1, <1>4, <1>8, <1>10 DEF FlowsSoFar

LEMMA ExtractedRead ==
  ASSUME Reading, Extracted, NEW p \in Records, ReadRecord(p)
  PROVE  Extracted'
<1>1. /\ read' = Append(read, p) /\ begins' = begins /\ Extract(p)
      /\ status = "running" /\ status' = status /\ results' = results
  BY DEF ReadRecord
<1>2. FlowsSoFar'
  <2>1. FlowsSoFar
    BY <1>1 DEF Extracted
  <2>2. CASE p.kind = "noip" \/ p.cut
    BY <1>1, <2>1, <2>2, SkippedRecord DEF Extract
  <2>3. CASE p.kind # "noip" /\ ~p.cut
    BY <1>1, <2>1, <2>3, TakenRecord DEF Extract
  <2> QED
    BY <2>2, <2>3
<1>3. Open' = Open /\ Open \in Nat \ {0} /\ \A n \in 1..(Open - 1) : InFile(n)' = InFile(n)
  BY <1>1, FilesRead
<1>4. ASSUME NEW n \in 1..Len(results)
      PROVE  FlowsOf(n)' = FlowsOf(n)
  <2>1. InFile(n)' = InFile(n)
    BY <1>1, <1>3 DEF Extracted
  <2>2. \A i \in InFile(n) : read'[i] = read[i]
    BY <1>1, ReadOneMore, FlowPlaces
  <2> QED
    BY <2>1, <2>2, ReportStays
<1> QED
  BY <1>1, <1>2, <1>3, <1>4 DEF Extracted

-----------------------------------------------------------------------------
(* The end of a file *)

\* A file that has been closed keeps its records; the next one has none yet.
LEMMA FilesClosed ==
  ASSUME Reading, read' = read, begins' = Append(begins, Len(read))
  PROVE  /\ Open' = Open + 1 /\ Open \in Nat \ {0}
         /\ \A n \in 1..Open : InFile(n)' = InFile(n)
         /\ InFile(Open)' = {}
<1>1. Open \in Nat \ {0} /\ Len(read) \in Nat /\ DOMAIN read = 1..Len(read)
  BY PlacesAreRead DEF Open, Reading
<1>2. /\ Len(begins) = Open /\ Len(begins') = Open + 1 /\ begins'[Open + 1] = Len(read)
      /\ \A n \in 1..Open : begins'[n] = begins[n] /\ begins[n] \in Nat
  BY <1>1 DEF Open, Reading
<1>3. ASSUME NEW n \in 1..Open
      PROVE  InFile(n)' = InFile(n)
  <2>1. CASE n < Open
    <3>1. begins'[n] = begins[n] /\ begins'[n + 1] = begins[n + 1]
      BY <1>1, <1>2, <2>1
    <3> QED
      BY <1>1, <1>2, <2>1, <3>1 DEF InFile
  <2>2. CASE n = Open
    <3>1. InFile(n) = {i \in 1..Len(read) : begins[n] < i}
      BY <1>1, <1>2, <2>2 DEF InFile
    <3>2. InFile(n)' = {i \in 1..Len(read) : begins[n] < i /\ i <= Len(read)}
      BY <1>1, <1>2, <2>2 DEF InFile
    <3> QED
      BY <1>1, <3>1, <3>2
  <2> QED
    BY <1>1, <2>1, <2>2
<1>4. InFile(Open)' = {}
  <2>1. InFile(Open)' = {i \in 1..Len(read) :
                           begins'[Open'] < i /\ (Open' < Len(begins') => i <= begins'[Open' + 1])}
    BY <1>1 DEF InFile
  <2>2. Open' = Open + 1 /\ begins'[Open'] = Len(read)
    BY <1>2 DEF Open
  <2> QED
    BY <1>1, <2>1, <2>2
<1>5. Open' = Open + 1
  BY <1>2 DEF Open
<1> QED
  BY <1>1, <1>3, <1>4, <1>5

\* What is read, decided and reported is the same while read, table and begins are.
LEMMA SameReading ==
  ASSUME UNCHANGED <<config, read, table>>
  PROVE  /\ Packets' = Packets /\ Pairs' = Pairs /\ NoFlows' = NoFlows
         /\ \A k : WayOf(k)' = WayOf(k)
<1>1. Packets' = Packets /\ \A k : KeyAt(k)' = KeyAt(k) /\ FirstOf(k)' = FirstOf(k)
  BY DEF Packets, KeyAt, FirstOf
<1>2. Pairs' = Pairs
  BY DEF Pairs
<1>3. \A k : WayOf(k)' = WayOf(k)
  BY <1>1, SameConfig DEF WayOf
<1> QED
  BY <1>1, <1>2, <1>3, SameConfig

\* No file is read here: what the replayer has is kept.
LEMMA ReplayKept ==
  ASSUME FlowTable, Sent, UNCHANGED <<config, read, table, flowCount, wire>>
  PROVE  FlowTable' /\ Sent'
<1>1. FlowTable'
  BY SameReading DEF FlowTable
<1>2. Sent'
  BY SameConfig DEF Sent
<1> QED
  BY <1>1, <1>2

LEMMA ReportsKept ==
  ASSUME Reading, read' = read, NEW n, InFile(n)' = InFile(n)
  PROVE  FlowsOf(n)' = FlowsOf(n)
BY ReportStays

\* The report on the open file joins those on the files before it.
LEMMA ReportAdded ==
  ASSUME Reading, Extracted, status = "running", read' = read,
         results' = Append(results, ReportFlows),
         \A n \in 1..Open : InFile(n)' = InFile(n)
  PROVE  /\ IsSeq(results') /\ Len(results') = Open /\ Open \in Nat \ {0}
         /\ \A n \in 1..Len(results') : results'[n] = FlowsOf(n)'
<1>1. Open \in Nat \ {0} /\ Len(results) = Open - 1
  BY DEF Extracted, Open, Reading
<1>2. /\ IsSeq(results') /\ Len(results') = Open
      /\ results'[Open] = ReportFlows /\ \A n \in 1..(Open - 1) : results'[n] = results[n]
  <2>1. IsSeq(results)
    BY DEF Extracted
  <2> QED
    BY <1>1, <2>1, AppendIsSeq
<1>3. ReportFlows = FlowsOf(Open)
  BY ReportIsRight DEF Extracted
<1>4. \A n \in 1..Open : FlowsOf(n)' = FlowsOf(n)
  BY ReportsKept
<1>5. ASSUME NEW n \in 1..Open
      PROVE  results'[n] = FlowsOf(n)'
  <2>1. CASE n = Open
    <3>1. results'[n] = FlowsOf(n)
      BY <2>1, <1>2, <1>3
    <3> QED
      BY <3>1, <1>4
  <2>2. CASE n \in 1..(Open - 1)
    <3>1. results'[n] = FlowsOf(n)
      BY <2>2, <1>1, <1>2 DEF Extracted
    <3> QED
      BY <3>1, <1>4
  <2> QED
    BY <1>1, <2>1, <2>2
<1> QED
  BY <1>1, <1>2, <1>5

LEMMA EndFileKeeps ==
  ASSUME Reading, FlowTable, Sent, Counted, Extracted, EndFile
  PROVE  Reading' /\ FlowTable' /\ Sent' /\ Counted' /\ Extracted'
<1>1. /\ status = "running" /\ read' = read /\ flows' = << >>
      /\ results' = Append(results, ReportFlows)
      /\ UNCHANGED <<config, read, table, flowCount, wire>>
  BY DEF EndFile
<1>2. FlowTable' /\ Sent'
  BY <1>1, ReplayKept
<1>3. Counted'
  <2>1. Packets' = Packets
    BY <1>1, SameReading
  <2>2. totalPackets' = totalPackets + packetsCount /\ packetsCount' = 0
        /\ UNCHANGED <<uplinkPackets, downlinkPackets>>
    BY DEF EndFile
  <2> QED
    BY <1>1, <2>1, <2>2 DEF Counted
<1>4. CASE begins' = Append(begins, Len(read)) /\ status' = status
  <2>1. /\ Open' = Open + 1 /\ Open \in Nat \ {0} /\ InFile(Open)' = {}
        /\ \A n \in 1..Open : InFile(n)' = InFile(n)
    BY <1>1, <1>4, FilesClosed
  <2>2. Reading'
    <3>1. Len(read) \in Nat
      BY PlacesAreRead
    <3>2. /\ begins' \in Seq(Nat) /\ Len(begins') = Open + 1 /\ begins'[Open + 1] = Len(read)
          /\ \A n \in 1..Open : begins'[n] = begins[n] /\ begins[n] \in Nat /\ begins[n] <= Len(read)
      BY <1>4, <2>1, <3>1 DEF Reading, Open
    <3>3. \A m, n \in 1..(Open + 1) : m <= n => begins'[m] <= begins'[n]
      <4> TAKE m, n \in 1..(Open + 1)
      <4> HAVE m <= n
      <4>1. CASE n = Open + 1
        BY <2>1, <3>1, <3>2, <4>1
      <4>2. CASE n \in 1..Open
        <5>1. m \in 1..Open
          BY <2>1, <4>2
        <5>2. begins[m] <= begins[n]
          BY <4>2, <5>1 DEF Reading, Open
        <5> QED
          BY <3>2, <4>2, <5>1, <5>2
      <4> QED
        BY <2>1, <4>1, <4>2
    <3>4. \A n \in 1..(Open + 1) : begins'[n] <= Len(read)
      <4> TAKE n \in 1..(Open + 1)
      <4> QED
        BY <2>1, <3>1, <3>2
    <3> QED
      BY <1>1, <1>4, <2>1, <3>2, <3>3, <3>4 DEF Reading
  <2>3. Seen(Open)' = {}
    BY <2>1 DEF Seen
  <2>4. FlowsSoFar'
    BY <1>1, <2>3 DEF FlowsSoFar
  <2>5. /\ IsSeq(results') /\ Len(results') = Open
        /\ \A n \in 1..Len(results') : results'[n] = FlowsOf(n)'
    BY <1>1, <2>1, ReportAdded
  <2>6. Extracted'
    BY <1>1, <1>4, <2>1, <2>4, <2>5 DEF Extracted
  <2> QED
    BY <1>2, <1>3, <2>2, <2>6
<1>5. CASE begins' = begins /\ status' = "answered"
  <2>1. Open' = Open /\ \A n : InFile(n)' = InFile(n)
    BY <1>1, <1>5 DEF Open, InFile
  <2>2. Reading'
    BY <1>1, <1>5 DEF Reading
  <2>3. Extracted'
    BY <1>1, <1>5, <2>1, ReportAdded DEF Extracted
  <2> QED
    BY <1>2, <1>3, <2>2, <2>3
<1> QED
  BY <1>4, <1>5 DEF EndFile

LEMMA EndInHeaderKeeps ==
  ASSUME Reading, FlowTable, Sent, Counted, Extracted, EndInHeader
  PROVE  Reading' /\ FlowTable' /\ Sent' /\ Counted' /\ Extracted'
<1>1. /\ status = "running" /\ read' = read /\ begins' = begins /\ status' = "failed"
      /\ results' = Append(results, ReportFlows)
      /\ UNCHANGED <<config, read, table, flowCount, wire>>
      /\ UNCHANGED <<totalPackets, packetsCount, uplinkPackets, downlinkPackets>>
  BY DEF EndInHeader, replayVars
<1>2. FlowTable' /\ Sent'
  BY <1>1, ReplayKept
<1>3. Counted'
  BY <1>1, SameReading DEF Counted
<1>4. Open' = Open /\ \A n : InFile(n)' = InFile(n)
  BY <1>1 DEF Open, InFile
<1>5. Reading'
  BY <1>1 DEF Reading
<1>6. Extracted'
  BY <1>1, <1>4, ReportAdded DEF Extracted
<1> QED
  BY <1>2, <1>3, <1>5, <1>6

-----------------------------------------------------------------------------
(* The theorems *)

\* A record that is cut short is the last of its file.
CutIsLast ==
  \A n \in 1..Open : \A i, j \in InFile(n) : read[i].cut => j <= i

LEMMA CutRead ==
  ASSUME Reading, CutIsLast, NEW p \in Records, ReadRecord(p)
  PROVE  CutIsLast'
<1> DEFINE N == Len(read)
<1>1. read' = Append(read, p) /\ begins' = begins /\ ~CutShort
  BY DEF ReadRecord
<1>2. /\ Open' = Open /\ Open \in Nat \ {0}
      /\ \A n \in 1..(Open - 1) : InFile(n)' = InFile(n)
      /\ InFile(Open)' = InFile(Open) \cup {N + 1}
  BY <1>1, FilesRead
<1>3. /\ N \in Nat /\ \A n : InFile(n) \subseteq 1..N
      /\ read'[N + 1] = p /\ \A i \in 1..N : read'[i] = read[i]
  BY <1>1, PlacesAreRead, FlowPlaces, ReadOneMore
<1>4. ASSUME NEW i \in InFile(Open), read[i].cut
      PROVE  FALSE
  <2>1. begins[Open] < i /\ begins[Open] \in Nat /\ i \in 1..N
    BY <1>2, <1>3 DEF InFile, Reading, Open
  <2>2. N \in InFile(Open)
    BY <1>3, <2>1, PlacesAreRead DEF InFile, Open
  <2>3. N <= i
    BY <1>2, <1>4, <2>2 DEF CutIsLast
  <2>4. i = N /\ N > begins[Open]
    BY <1>3, <2>1, <2>3
  <2> QED
    BY <1>1, <1>4, <2>4 DEF CutShort, Opened, Open
<1>5. ASSUME NEW n \in 1..Open, NEW i \in InFile(n)', NEW j \in InFile(n)', read'[i].cut
      PROVE  j <= i
  <2>1. CASE n # Open
    <3>1. i \in InFile(n) /\ j \in InFile(n)
      BY <1>2, <1>5, <2>1
    <3> QED
      BY <1>3, <1>5, <3>1 DEF CutIsLast
  <2>2. CASE n = Open
    <3>1. i \in InFile(Open) \cup {N + 1} /\ j \in InFile(Open) \cup {N + 1}
      BY <1>2, <1>5, <2>2
    <3>2. i = N + 1
      BY <1>3, <1>4, <1>5, <3>1
    <3> QED
      BY <1>3, <3>1, <3>2
  <2> QED
    BY <2>1, <2>2
<1> QED
  BY <1>2, <1>5 DEF CutIsLast

LEMMA CutEnd ==
  ASSUME Reading, CutIsLast, EndFile \/ EndInHeader
  PROVE  CutIsLast'
<1>1. CASE begins' = begins /\ read' = read
  BY <1>1 DEF CutIsLast, Open, InFile
<1>2. CASE begins' = Append(begins, Len(read)) /\ read' = read
  <2>1. /\ Open' = Open + 1 /\ Open \in Nat \ {0} /\ InFile(Open)' = {}
        /\ \A n \in 1..Open : InFile(n)' = InFile(n)
    BY <1>2, FilesClosed
  <2>2. ASSUME NEW n \in 1..(Open + 1), NEW i \in InFile(n)', NEW j \in InFile(n)', read'[i].cut
        PROVE  j <= i
    <3>1. CASE n = Open + 1
      <4>1. InFile(n)' = {}
        BY <2>1, <3>1 DEF InFile
      <4> QED
        BY <4>1
    <3>2. CASE n \in 1..Open
      BY <1>2, <2>1, <2>2, <3>2 DEF CutIsLast
    <3> QED
      BY <2>1, <3>1, <3>2
  <2> QED
    BY <2>1, <2>2 DEF CutIsLast
<1> QED
  BY <1>1, <1>2 DEF EndFile, EndInHeader

\* Replayer and extractor are, at every record, where all the records read put them.
Inv == Reading /\ CutIsLast /\ FlowTable /\ Sent /\ Counted /\ Extracted

LEMMA ReadingRead ==
  ASSUME Reading, NEW p \in Records, ReadRecord(p)
  PROVE  Reading'
<1>1. read' = Append(read, p) /\ begins' = begins /\ status' = status
  BY DEF ReadRecord
<1>2. read' \in Seq(Records) /\ Len(read') = Len(read) + 1 /\ Len(read) \in Nat
  BY <1>1, ReadOneMore, PlacesAreRead
<1>3. \A n \in 1..Len(begins) : begins[n] \in Nat /\ begins[n] <= Len(read)
  BY DEF Reading
<1>4. \A n \in 1..Len(begins) : begins[n] <= Len(read')
  BY <1>2, <1>3
<1> QED
  BY <1>1, <1>2, <1>4 DEF Reading

LEMMA InvInit ==
  ASSUME Init
  PROVE  Inv
<1> USE DEF Init
<1>1. Reading
  BY DEF Reading
<1>2. Packets = {} /\ Pairs = {}
  BY DEF Packets, Pairs
<1>3. FlowTable
  BY <1>2, FS_EmptySet DEF FlowTable
<1>4. Sent
  BY EmptyIsSeq DEF Sent
<1>5. Counted
  BY <1>2, FS_EmptySet DEF Counted
<1>6. Extracted
  <2>1. Open = 1 /\ Seen(Open) = {}
    BY DEF Open, Seen, InFile
  <2>2. FlowsSoFar
    BY <2>1 DEF FlowsSoFar
  <2> QED
    BY <2>1, <2>2, EmptyIsSeq DEF Extracted
<1>7. CutIsLast
  BY DEF CutIsLast, InFile
<1> QED
  BY <1>1, <1>3, <1>4, <1>5, <1>6, <1>7 DEF Inv

LEMMA InvNext ==
  ASSUME Inv, [Next]_vars
  PROVE  Inv'
<1> USE DEF Inv
<1>1. ASSUME NEW p \in Records, ReadRecord(p)
      PROVE  Inv'
  BY <1>1, ReadingRead, CutRead, TableRead, SentRead, CountedRead, ExtractedRead
<1>2. CASE EndFile
  BY <1>2, EndFileKeeps, CutEnd
<1>3. CASE EndInHeader
  BY <1>3, EndInHeaderKeeps, CutEnd
<1>4. CASE UNCHANGED vars
  <2> USE <1>4 DEF vars, replayVars
  <2>1. Reading'
    BY DEF Reading
  <2>2. FlowTable' /\ Sent'
    BY ReplayKept
  <2>3. Counted'
    BY SameReading DEF Counted
  <2>4. Open' = Open /\ \A n : InFile(n)' = InFile(n)
    BY DEF Open, InFile
  <2>5. \A n : FlowsOf(n)' = FlowsOf(n)
    BY <2>4, ReportsKept
  <2>6. FlowsSoFar => FlowsSoFar'
    <3>1. Seen(Open)' = Seen(Open) /\ \A f : FlowIn(f, Open)' = FlowIn(f, Open)
      BY <2>4 DEF Seen, FlowIn
    <3> QED
      BY <3>1 DEF FlowsSoFar, Entry, ClientOf, Tells
  <2>7. Extracted'
    BY <2>4, <2>5, <2>6 DEF Extracted
  <2>8. CutIsLast'
    BY <2>4 DEF CutIsLast
  <2> QED
    BY <2>1, <2>2, <2>3, <2>7, <2>8
<1> QED
  BY <1>1, <1>2, <1>3, <1>4 DEF Next

\* The invariant holds, for files of any number and length and any parameters.
THEOREM InvInvariant == Spec => []Inv
<1>1. Init => Inv
  BY InvInit
<1>2. Inv /\ [Next]_vars => Inv'
  BY InvNext
<1> QED
  BY <1>1, <1>2, PTL DEF Spec

\* The two directions of a flow leave by different interfaces, with the two exceptions
\* that OppositeWays names.
THEOREM OppositeCorrect == Spec => []OppositeWays
<1>1. Inv => OppositeWays
  <2> SUFFICES ASSUME Inv, NEW k \in DOMAIN table, Reversed(k) \in DOMAIN table, Reversed(k) # k
               PROVE  \/ table[Reversed(k)] = Opposite(table[k])
                      \/ Hinted /\ (HintSaysUp(k) <=> HintSaysDown(k))
                      \/ ~Hinted /\ (LateSyn(k) \/ LateSyn(Reversed(k)))
    BY DEF OppositeWays
  <2> DEFINE r == Reversed(k)
  <2>1. Reading /\ FlowTable /\ ~NoFlows
    BY DEF Inv, FlowTable
  <2>2. PICK i \in Packets : k = Key(read[i])
    BY <2>1 DEF FlowTable
  <2>3. Reversed(r) = k
    BY <2>2, ReversedTwice
  <2>4. table[k] = WayOf(k) /\ table[r] = WayOf(r)
    BY <2>1 DEF FlowTable
  <2>5. KeyAt(k) # {} /\ KeyAt(r) # {}
    BY <2>1, KnownKeys
  <2>6. CASE Hinted
    <3>1. (HintSaysUp(r) <=> HintSaysDown(k)) /\ (HintSaysDown(r) <=> HintSaysUp(k))
      BY DEF HintSaysUp, HintSaysDown, Reversed
    <3> HIDE DEF r
    <3>2. /\ table[k] = IF HintSaysDown(k) /\ ~HintSaysUp(k) THEN "downlink" ELSE "uplink"
          /\ table[r] = IF HintSaysDown(r) /\ ~HintSaysUp(r) THEN "downlink" ELSE "uplink"
      BY <2>4, <2>6 DEF WayOf
    <3>3. CASE HintSaysUp(k) <=> HintSaysDown(k)
      BY <2>6, <3>3
    <3>4. CASE HintSaysUp(k) /\ ~HintSaysDown(k)
      BY <3>1, <3>2, <3>4 DEF Opposite, r
    <3>5. CASE ~HintSaysUp(k) /\ HintSaysDown(k)
      BY <3>1, <3>2, <3>5 DEF Opposite, r
    <3> QED
      BY <3>3, <3>4, <3>5
  <2>7. CASE ~Hinted
    <3>1. /\ FirstOf(k) \in KeyAt(k) /\ FirstOf(r) \in KeyAt(r)
          /\ FirstOf(k) \in Nat /\ FirstOf(r) \in Nat /\ FirstOf(k) # FirstOf(r)
      BY <2>1, <2>5, FirstOfKey, PlacesAreRead
    <3>2. table[k] \in {"uplink", "downlink"} /\ table[r] \in {"uplink", "downlink"}
      BY <2>4, <2>7 DEF WayOf, Opposite
    <3>3. CASE FirstOf(r) < FirstOf(k)
      <4>1. CASE read[FirstOf(k)].kind = "syn"
        BY <2>7, <3>3, <4>1 DEF LateSyn
      <4>2. CASE read[FirstOf(k)].kind # "syn"
        <5>1. table[k] = Opposite(table[r])
          BY <2>4, <2>5, <2>7, <3>3, <4>2 DEF WayOf
        <5> QED
          BY <5>1, <3>2 DEF Opposite
      <4> QED
        BY <4>1, <4>2
    <3>4. CASE FirstOf(k) < FirstOf(r)
      <4>1. CASE read[FirstOf(r)].kind = "syn"
        BY <2>3, <2>7, <3>4, <4>1 DEF LateSyn
      <4>2. CASE read[FirstOf(r)].kind # "syn"
        BY <2>3, <2>4, <2>5, <2>7, <3>4, <4>2 DEF WayOf
      <4> QED
        BY <4>1, <4>2
    <3> QED
      BY <3>1, <3>3, <3>4
  <2> QED
    BY <2>6, <2>7
<1> QED
  BY <1>1, InvInvariant, PTL

\* Packets of opposite ways and turned ends are rewritten to turned ends.
LEMMA MirrorImage ==
  ASSUME NEW p, NEW q, ~p.tagged, ~q.tagged, p.src = q.dst, p.dst = q.src,
         NEW v \in Ways, NEW w \in Ways, v # w
  PROVE  /\ Rewritten(p, v).src = Rewritten(q, w).dst
         /\ Rewritten(p, v).dst = Rewritten(q, w).src
<1>1. Forced(p, v).src = Forced(q, w).dst /\ Forced(p, v).dst = Forced(q, w).src
  BY DEF Forced, Ways
<1> QED
  BY <1>1 DEF Rewritten

\* A rewritten flow is still one flow.
THEOREM MirroredCorrect == Spec => []Mirrored
<1>1. Inv => Mirrored
  <2> SUFFICES ASSUME Inv, NEW i \in DOMAIN wire, NEW j \in DOMAIN wire,
                      ~wire[i].in.tagged, ~wire[j].in.tagged
               PROVE  /\ Key(wire[i].in) = Key(wire[j].in) => wire[i].out = wire[j].out
                      /\ wire[i].in.src = wire[j].in.dst /\ wire[i].in.dst = wire[j].in.src
                           /\ wire[i].way # wire[j].way
                         => wire[i].out.src = wire[j].out.dst /\ wire[i].out.dst = wire[j].out.src
    BY DEF Mirrored
  <2> DEFINE p == wire[i].in
             q == wire[j].in
  <2>1. DOMAIN wire = 1..Len(wire) /\ Sent
    BY DEF Inv, Sent, IsSeq
  <2>2. Key(p) = Key(q) => p.src = q.src /\ p.dst = q.dst
    BY DEF Key
  <2>3. CASE NoFlows
    BY <2>1, <2>2, <2>3 DEF Sent
  <2>4. CASE ~NoFlows
    <3>1. /\ wire[i].way = table[Key(p)] /\ wire[j].way = table[Key(q)]
          /\ wire[i].out = Rewritten(p, wire[i].way) /\ wire[j].out = Rewritten(q, wire[j].way)
      BY <2>1, <2>4 DEF Sent
    <3>2. wire[i].way \in Ways /\ wire[j].way \in Ways
      BY <2>1, <2>4 DEF Sent, Inv, FlowTable, WayOf, Opposite, Ways
    <3>3. ASSUME Key(p) = Key(q)
          PROVE  wire[i].out = wire[j].out
      <4>1. wire[i].way = wire[j].way
        BY <3>1, <3>3
      <4>2. \A w : Forced(p, w) = Forced(q, w)
        BY <3>3, <2>2 DEF Forced
      <4>3. \A w : Rewritten(p, w) = Rewritten(q, w)
        BY <3>3, <2>2, <4>2 DEF Rewritten
      <4> QED
        BY <3>1, <4>1, <4>3
    <3>4. ASSUME p.src = q.dst, p.dst = q.src, wire[i].way # wire[j].way
          PROVE  wire[i].out.src = wire[j].out.dst /\ wire[i].out.dst = wire[j].out.src
      BY <3>1, <3>2, <3>4, MirrorImage
    <3> QED
      BY <3>3, <3>4
  <2> QED
    BY <2>3, <2>4
<1> QED
  BY <1>1, InvInvariant, PTL

\* Every result of the extractor is what the packets of its file say.
THEOREM FirstSignalCorrect == Spec => []FirstSignalWins
<1>1. Inv => FirstSignalWins
  BY DEF Inv, Extracted, IsSeq, FirstSignalWins
<1> QED
  BY <1>1, InvInvariant, PTL

\* The counters of a replay count the flows and packets that were read.
THEOREM CountsCorrect == Spec => []CountsFlows
<1>1. Inv => CountsFlows
  <2> SUFFICES ASSUME Inv
               PROVE  CountsFlows
    OBVIOUS
  <2>1. ~NoFlows => Pairs = {{Key(read[i]), Reversed(Key(read[i]))} : i \in Packets}
    BY DEF Inv, FlowTable, Pairs
  <2> QED
    BY <2>1 DEF Inv, FlowTable, Counted, CountsFlows
<1> QED
  BY <1>1, InvInvariant, PTL

-----------------------------------------------------------------------------
(* The two parts agree *)

\* A line of a report names the two ends of a flow of its file.
LEMMA LineIsFlow ==
  ASSUME Reading, NEW n, NEW r \in FlowsOf(n)
  PROVE  /\ r[1] = ClientOf(FlowIn({r[1], r[2]}, n))
         /\ FlowIn({r[1], r[2]}, n) # {}
<1> DEFINE C(f) == ClientOf(FlowIn(f, n))
<1>1. PICK i \in Seen(n) : r = <<C(Flow(read[i])), Across(Flow(read[i]), C(Flow(read[i])))>>
  BY DEF FlowsOf
<1> DEFINE f == Flow(read[i])
           a == read[First(FlowIn(f, n))].src
           b == read[First(FlowIn(f, n))].dst
<1>2. FlowIn(f, n) # {}
  BY DEF FlowIn
<1>3. f = {a, b} /\ C(f) \in f
  <2> HIDE DEF f
  <2> QED
    BY <1>2, ClientIsAnEnd
<1>4. r[1] = C(f) /\ r[2] = Across(f, C(f))
  BY <1>1
<1>5. {r[1], r[2]} = f
  <2> HIDE DEF f, a, b, C
  <2>1. Across({a, b}, a) = b /\ Across({a, b}, b) = a
    BY AcrossIs
  <2>2. CASE C(f) = a
    BY <1>3, <1>4, <2>1, <2>2
  <2>3. CASE C(f) = b
    BY <1>3, <1>4, <2>1, <2>3
  <2> QED
    BY <1>3, <2>2, <2>3
<1> HIDE DEF f
<1> QED
  BY <1>2, <1>4, <1>5

\* If a flow opens with a SYN in a file and was not met before, the SYN's sender is the
\* client that the report on the file names.
LEMMA SynIsReported ==
  ASSUME Inv, NEW n \in 1..Open, NEW f, FlowIn(f, n) # {}, OpensWithSyn(f), ~MetBefore(f, n)
  PROVE  /\ First(Met(f)) \in Met(f) /\ \A j \in Met(f) : First(Met(f)) <= j
         /\ ClientOf(FlowIn(f, n)) = read[First(Met(f))].src
<1> DEFINE i == First(Met(f))
           N == Len(read)
           S == FlowIn(f, n)
<1>1. Reading /\ CutIsLast
  BY DEF Inv
<1>2. /\ N \in Nat /\ DOMAIN read = 1..N /\ Met(f) \in SUBSET (1..N) /\ S \in SUBSET (1..N)
  BY <1>1, PlacesAreRead, FlowPlaces DEF Met
<1>3. PICK m \in S : m \in Seen(n) /\ m \in InFile(n)
  BY DEF FlowIn, Seen
<1>4. S \subseteq Met(f)
  BY <1>2 DEF FlowIn, Seen, InFile, Met, Packets
<1>5. i \in Met(f) /\ \A j \in Met(f) : i <= j
  <2>1. Met(f) # {}
    BY <1>3, <1>4
  <2> QED
    BY <1>2, <2>1, FirstIsFirst
<1>6. i \in 1..N /\ m \in 1..N /\ i <= m
  BY <1>2, <1>3, <1>4, <1>5
<1>7. i \in InFile(n)
  <2>1. begins[n] \in Nat /\ ~(i <= begins[n])
    BY <1>1, <1>5 DEF MetBefore, Reading, Open
  <2>2. n < Len(begins) => i <= begins[n + 1]
    <3>1. n < Len(begins) => m <= begins[n + 1] /\ begins[n + 1] \in Nat
      BY <1>1, <1>3 DEF InFile, Reading, Open
    <3> QED
      BY <1>6, <3>1
  <2> QED
    BY <1>2, <1>6, <2>1, <2>2 DEF InFile
<1>8. ~read[i].cut
  <2> SUFFICES ASSUME read[i].cut
               PROVE  FALSE
    OBVIOUS
  <2>1. m <= i
    BY <1>1, <1>3, <1>7 DEF CutIsLast
  <2>2. m = i
    BY <1>6, <2>1
  <2> QED
    BY <1>3, <2>2 DEF Seen
<1>9. i \in S /\ read[i].kind = "syn"
  BY <1>5, <1>7, <1>8 DEF Met, Packets, FlowIn, Seen, OpensWithSyn
<1>10. First(Tells(S)) = i
  <2>1. i \in Tells(S) /\ \A j \in Tells(S) : i <= j
    BY <1>4, <1>5, <1>9 DEF Tells, Telling
  <2>2. Tells(S) \in SUBSET Nat
    BY <1>2 DEF Tells
  <2> HIDE DEF S, i
  <2> QED
    BY <2>1, <2>2, FirstIsOnly
<1>11. ClientOf(S) = read[i].src
  <2>1. Tells(S) # {} /\ Signalled(read[i]) = read[i].src
    BY <1>9 DEF Tells, Telling, Signalled
  <2> QED
    BY <1>10, <2>1 DEF ClientOf
<1> QED
  BY <1>5, <1>11

\* Where no rule of the replayer but its first packets decides and a flow opens with a
\* SYN, the extractor's client is the end whose packets leave by the uplink.
THEOREM AgreeCorrect == Spec => []AgreeOnClient
<1>1. Inv => AgreeOnClient
  <2> SUFFICES ASSUME Inv, ~Hinted, ~NoFlows, NEW n \in DOMAIN results, NEW r \in results[n],
                      r[1] # r[2], OpensWithSyn({r[1], r[2]}), OneRoute({r[1], r[2]}),
                      ~MetBefore({r[1], r[2]}, n),
                      NEW k \in DOMAIN table, k.src = r[1], k.dst = r[2]
               PROVE  /\ table[k] = "uplink"
                      /\ Reversed(k) \in DOMAIN table /\ ~LateSyn(Reversed(k))
                           => table[Reversed(k)] = "downlink"
    BY DEF AgreeOnClient
  <2> DEFINE f == {r[1], r[2]}
             i == First(Met(f))
             back == Reversed(k)
  <2>1. Reading /\ FlowTable
    BY DEF Inv
  <2>2. n \in 1..Open /\ r \in FlowsOf(n)
    <3>1. Open \in Nat /\ IsSeq(results) /\ Len(results) <= Open
      BY <2>1 DEF Inv, Extracted, Open, Reading
    <3>2. DOMAIN results = 1..Len(results) /\ Len(results) \in Nat
      BY <3>1, AppendIsSeq
    <3> QED
      BY <3>1, <3>2 DEF Inv, Extracted
  <2>3. r[1] = ClientOf(FlowIn(f, n)) /\ FlowIn(f, n) # {}
    BY <2>1, <2>2, LineIsFlow
  <2>4. i \in Met(f) /\ (\A j \in Met(f) : i <= j) /\ r[1] = read[i].src
    <3> HIDE DEF f
    <3> QED
      BY <2>2, <2>3, SynIsReported DEF f
  <2>5. i \in Packets /\ read[i].src = r[1] /\ read[i].dst = r[2] /\ read[i].kind = "syn"
    BY <2>4 DEF Met, Flow, OpensWithSyn
  <2>6. k = Key(read[i])
    <3>1. PICK j \in Packets : k = Key(read[j])
      BY <2>1 DEF FlowTable
    <3>2. read[j].src = r[1] /\ read[j].dst = r[2]
      BY <3>1 DEF Key
    <3>3. j \in Met(f)
      BY <3>2 DEF Met, Flow
    <3>4. Key(read[j]) \in {Key(read[i]), Reversed(Key(read[i]))}
      BY <2>4, <3>3 DEF OneRoute
    <3>5. Reversed(Key(read[i])).src = r[2]
      BY <2>5 DEF Reversed, Key
    <3> QED
      BY <3>1, <3>4, <3>5
  <2>7. \A l \in KeyAt(k) \cup KeyAt(back) : l \in Met(f)
    <3>1. k.src = r[1] /\ k.dst = r[2] /\ back.src = r[2] /\ back.dst = r[1]
      BY DEF Reversed
    <3>2. \A l \in KeyAt(k) : read[l].src = k.src /\ read[l].dst = k.dst
      BY DEF KeyAt, Key
    <3>3. \A l \in KeyAt(back) : read[l].src = back.src /\ read[l].dst = back.dst
      BY DEF KeyAt, Key
    <3>4. \A l \in KeyAt(k) \cup KeyAt(back) : l \in Packets /\ Flow(read[l]) = f
      BY <3>1, <3>2, <3>3 DEF KeyAt, Flow
    <3> QED
      BY <3>4 DEF Met
  <2>8. FirstOf(k) = i
    <3>1. i \in KeyAt(k) /\ KeyAt(k) \in SUBSET Nat
      BY <2>1, <2>5, <2>6, PlacesAreRead DEF KeyAt
    <3>2. FirstOf(k) = First(KeyAt(k))
      BY DEF FirstOf, KeyAt
    <3>3. \A l \in KeyAt(k) : i <= l
      BY <2>4, <2>7
    <3> HIDE DEF i
    <3> QED
      BY <3>1, <3>2, <3>3, FirstIsOnly
  <2>9. table[k] = "uplink"
    BY <2>1, <2>5, <2>8 DEF FlowTable, WayOf
  <2>10. ASSUME back \in DOMAIN table, ~LateSyn(back)
         PROVE  table[back] = "downlink"
    <3>1. Reversed(back) = k /\ k # back
      BY <2>5, <2>6, ReversedTwice DEF Reversed, Key
    <3>2. KeyAt(back) # {} /\ KeyAt(k) # {}
      BY <2>1, <2>10, KnownKeys
    <3>3. FirstOf(back) \in KeyAt(back) /\ FirstOf(back) \in Nat
      BY <2>1, <3>2, FirstOfKey
    <3>4. i \in Nat /\ FirstOf(back) # i
      BY <2>1, <2>5, <2>6, <3>1, <3>3, PlacesAreRead DEF KeyAt
    <3>5. FirstOf(k) < FirstOf(back)
      BY <2>4, <2>7, <2>8, <3>3, <3>4
    <3>6. read[FirstOf(back)].kind # "syn"
      BY <2>10, <3>1, <3>5 DEF LateSyn
    <3>7. WayOf(back) = Opposite(table[k])
      BY <3>1, <3>2, <3>5, <3>6 DEF WayOf
    <3> QED
      BY <2>1, <2>9, <2>10, <3>7 DEF FlowTable, Opposite
  <2> QED
    BY <2>9, <2>10
<1> QED
  BY <1>1, InvInvariant, PTL

=============================================================================
