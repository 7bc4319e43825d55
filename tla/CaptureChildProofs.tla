-------------------------- MODULE CaptureChildProofs --------------------------
(***************************************************************************)
(* Proofs about CaptureChild for any number of frames and any room in the  *)
(* socket's queue.  Inv accounts for every frame the kernel took, from the *)
(* queue over the buffer into the file and through the sort; it is         *)
(* inductive, it implies what the runs check of one capture, and with it   *)
(* every step of the process is a step of Recorder, or none.               *)
(***************************************************************************)
EXTENDS CaptureChild, FiniteSetTheorems, FunctionTheorems, TLAPS

Frames(s) == {s[i] : i \in DOMAIN s}

\* No frame is twice in s.
Distinct(s) == \A i, j \in DOMAIN s : s[i].at = s[j].at => i = j

InTimeOrder(s) == \A i, j \in DOMAIN s : i < j => s[i].ts <= s[j].ts

\* Every frame is at one place: on its way, in the queue, in the buffer or in the
\* file, and there once; so there are no more of them than were taken.
Placed ==
  /\ taken \cap flight = {}
  /\ Distinct(queue) /\ Distinct(buffer) /\ Distinct(disk)
  /\ Places(queue) \cup Places(buffer) \cup Places(disk) \subseteq taken
  /\ Places(queue) \cap Places(buffer) = {}
  /\ Places(queue) \cap Places(disk) = {}
  /\ Places(buffer) \cap Places(disk) = {}
  /\ Len(disk) + Len(buffer) + Len(queue) <= Cardinality(taken)

\* Where the two threads can stand together, and what they know of the stop.
Stopping == {"join", "close", "read", "write", "swap", "exit0"}
Life ==
  /\ main = "boot" => recv = "none" /\ taken = {}
  /\ main \in {"boot", "probe"} => due = {}
  /\ main \in {"boot", "probe", "watch"} => ~stopped
  /\ main \in Stopping \ {"join"} => recv = "ended"
  /\ main \in Stopping /\ fault = "none" => stopEvt
  /\ recv \in {"drain", "ended"} /\ fault = "none" => stopped

\* No frame is lost without a fault: what was taken is on its way into the file,
\* and once the receive thread has ended, what is due is past the queue.
Kept ==
  fault = "none" =>
    /\ main \in {"probe", "watch", "join", "close"} =>
         taken \subseteq Places(disk) \cup Places(buffer) \cup Places(queue)
    /\ main \in {"join", "close"} /\ recv = "ended" =>
         due \subseteq Places(disk) \cup Places(buffer)
    /\ main \in {"read", "write", "swap", "exit0"} => due \subseteq Places(disk)

\* What the sort holds between its steps.
Sorting ==
  /\ main = "write" => snap = disk
  /\ main = "swap" => snap = Sorted(disk)
  /\ main = "exit0" => InTimeOrder(disk)

\* What the receive thread has written, and whether it goes on.
Written == Frames(buffer) \cup Frames(disk)
Arrived == Frames(queue) \cup Written
Reading == main \in Running /\ recv # "ended"

\* Frames of a queue that stand in the order of the wire.
Ascending(s) == \A i, j \in DOMAIN s : i < j => s[i].at < s[j].at

\* Stamps of one clock follow the wire: the interface's always do, the others do
\* when frames are delivered in wire order.
Stamped ==
  /\ \A f \in Arrived : f.clock = "hw" => f.ts = HwAhead + f.at
  /\ \A f \in Arrived : f.clock = "sw" => f.ts <= SwAhead + Cardinality(taken)
  /\ \A f \in Frames(queue) : f.ts = Absent <=> f.clock = "mono"
  /\ \A f \in Written : f.ts # Absent
  /\ Reading => \A f \in Written : f.clock = "mono" => f.ts <= Len(buffer) + Len(disk)
  /\ single =>
       /\ \A x \in taken, y \in flight : x < y
       /\ Ascending(queue)
       /\ \A f \in Written, g \in Frames(queue) : f.at < g.at
       /\ \A f, g \in Arrived :
            f.at < g.at /\ f.clock = g.clock /\ f.ts # Absent /\ g.ts # Absent => f.ts < g.ts

Inv == TypeOK /\ Placed /\ Life /\ Kept /\ Sorting /\ Stamped

-----------------------------------------------------------------------------
(* Sequences of frames *)

\* What Append does to the frames of a sequence.
LEMMA AppendFrames ==
  ASSUME NEW s \in Seq(Frame), NEW f \in Frame
  PROVE  /\ Append(s, f) \in Seq(Frame)
         /\ Len(Append(s, f)) = Len(s) + 1
         /\ Frames(Append(s, f)) = Frames(s) \cup {f}
         /\ Places(Append(s, f)) = Places(s) \cup {f.at}
         /\ Distinct(s) /\ f.at \notin Places(s) => Distinct(Append(s, f))
<1> DEFINE t == Append(s, f)
<1>1. /\ t \in Seq(Frame) /\ Len(t) = Len(s) + 1 /\ Len(s) \in Nat
      /\ DOMAIN s = 1..Len(s) /\ DOMAIN t = 1..(Len(s) + 1)
      /\ \A i \in DOMAIN s : t[i] = s[i]
      /\ t[Len(s) + 1] = f
  OBVIOUS
<1> HIDE DEF t
<1>2. DOMAIN t = DOMAIN s \cup {Len(s) + 1}  BY <1>1
<1>3. Frames(t) = Frames(s) \cup {f}  BY <1>1, <1>2 DEF Frames
<1>4. Places(t) = Places(s) \cup {f.at}  BY <1>1, <1>2 DEF Places
<1>5. Distinct(s) /\ f.at \notin Places(s) => Distinct(t)  BY <1>1, <1>2 DEF Distinct, Places
<1> QED  BY <1>1, <1>3, <1>4, <1>5 DEF t

\* What \o does to them.
LEMMA ConcatFrames ==
  ASSUME NEW s \in Seq(Frame), NEW t \in Seq(Frame)
  PROVE  /\ s \o t \in Seq(Frame)
         /\ Len(s \o t) = Len(s) + Len(t)
         /\ Frames(s \o t) = Frames(s) \cup Frames(t)
         /\ Places(s \o t) = Places(s) \cup Places(t)
         /\ Distinct(s) /\ Distinct(t) /\ Places(s) \cap Places(t) = {} => Distinct(s \o t)
<1> DEFINE u == s \o t
<1>1. /\ u \in Seq(Frame) /\ Len(u) = Len(s) + Len(t) /\ Len(s) \in Nat /\ Len(t) \in Nat
      /\ DOMAIN s = 1..Len(s) /\ DOMAIN t = 1..Len(t) /\ DOMAIN u = 1..(Len(s) + Len(t))
      /\ \A i \in DOMAIN s : u[i] = s[i]
      /\ \A i \in DOMAIN t : u[Len(s) + i] = t[i]
  OBVIOUS
<1> HIDE DEF u
<1>2. \A i \in DOMAIN u : i \in DOMAIN s \/ \E j \in DOMAIN t : i = Len(s) + j
  <2> SUFFICES ASSUME NEW i \in DOMAIN u, i \notin DOMAIN s
               PROVE  \E j \in DOMAIN t : i = Len(s) + j
    OBVIOUS
  <2>1. i - Len(s) \in DOMAIN t /\ i = Len(s) + (i - Len(s))  BY <1>1
  <2> QED  BY <2>1
<1>3. /\ \A i \in DOMAIN s : i \in DOMAIN u
      /\ \A j \in DOMAIN t : Len(s) + j \in DOMAIN u
  BY <1>1
<1>4. Frames(u) = Frames(s) \cup Frames(t)  BY <1>1, <1>2, <1>3 DEF Frames
<1>5. Places(u) = Places(s) \cup Places(t)
  <2>1. Places(u) \subseteq Places(s) \cup Places(t)  BY <1>1, <1>2 DEF Places
  <2>2. Places(s) \subseteq Places(u) /\ Places(t) \subseteq Places(u)  BY <1>1, <1>3 DEF Places
  <2> QED  BY <2>1, <2>2
<1>6. ASSUME Distinct(s), Distinct(t), Places(s) \cap Places(t) = {}
      PROVE  Distinct(u)
  <2> SUFFICES ASSUME NEW i \in DOMAIN u, NEW j \in DOMAIN u, u[i].at = u[j].at
               PROVE  i = j
    BY DEF Distinct
  <2>1. \A m \in DOMAIN s, n \in DOMAIN t : s[m].at # t[n].at  BY <1>6 DEF Places
  <2> QED  BY <1>1, <1>2, <1>6, <2>1 DEF Distinct
<1> QED  BY <1>1, <1>4, <1>5, <1>6 DEF u

\* A sequence is its head and its tail.
LEMMA TailFrames ==
  ASSUME NEW s \in Seq(Frame), s # <<>>
  PROVE  /\ Head(s) \in Frame /\ Tail(s) \in Seq(Frame)
         /\ Len(Tail(s)) = Len(s) - 1 /\ Len(s) > 0
         /\ Frames(s) = Frames(Tail(s)) \cup {Head(s)}
         /\ Places(s) = Places(Tail(s)) \cup {Head(s).at}
         /\ Distinct(s) => Distinct(Tail(s)) /\ Head(s).at \notin Places(Tail(s))
<1> DEFINE t == Tail(s)
<1>1. /\ t \in Seq(Frame) /\ Len(t) = Len(s) - 1 /\ Len(s) \in Nat \ {0}
      /\ DOMAIN s = 1..Len(s) /\ DOMAIN t = 1..(Len(s) - 1)
      /\ Head(s) = s[1] /\ Head(s) \in Frame
      /\ \A i \in DOMAIN t : t[i] = s[i + 1]
  OBVIOUS
<1> HIDE DEF t
<1>2. /\ 1 \in DOMAIN s
      /\ \A i \in DOMAIN t : i + 1 \in DOMAIN s /\ i + 1 # 1
      /\ \A i \in DOMAIN s : i # 1 => i - 1 \in DOMAIN t /\ t[i - 1] = s[i]
  BY <1>1
<1>3. Frames(s) = Frames(t) \cup {Head(s)}  BY <1>1, <1>2 DEF Frames
<1>4. Places(s) = Places(t) \cup {Head(s).at}
  <2>1. Places(s) \subseteq Places(t) \cup {Head(s).at}  BY <1>1, <1>2 DEF Places
  <2>2. Places(t) \subseteq Places(s) /\ Head(s).at \in Places(s)  BY <1>1, <1>2 DEF Places
  <2> QED  BY <2>1, <2>2
<1>5. ASSUME Distinct(s) PROVE Distinct(t) /\ Head(s).at \notin Places(t)
  <2>1. \A i, j \in DOMAIN t : t[i].at = t[j].at => i = j
    <3> SUFFICES ASSUME NEW i \in DOMAIN t, NEW j \in DOMAIN t, t[i].at = t[j].at
                 PROVE  i = j
      OBVIOUS
    <3>1. i + 1 = j + 1  BY <1>1, <1>2, <1>5 DEF Distinct
    <3> QED  BY <1>1, <3>1
  <2>2. \A i \in DOMAIN t : t[i].at # s[1].at  BY <1>1, <1>2, <1>5 DEF Distinct
  <2> QED  BY <1>1, <2>1, <2>2 DEF Distinct, Places
<1> QED  BY <1>1, <1>3, <1>4, <1>5 DEF t

-----------------------------------------------------------------------------
(* The sort *)

\* The order of the sort is a strict total order of the places in s.
LEMMA BeforeIsOrder ==
  ASSUME NEW s \in Seq(Frame), NEW i \in DOMAIN s, NEW j \in DOMAIN s
  PROVE  /\ i # j => Before(s, i, j) \/ Before(s, j, i)
         /\ ~ Before(s, i, i)
         /\ \A k \in DOMAIN s : Before(s, k, i) /\ Before(s, i, j) => Before(s, k, j)
<1>1. \A k \in DOMAIN s : k \in Nat /\ s[k] \in Frame  OBVIOUS
<1>2. \A f \in Frame : f.ts \in Nat  BY FramesAssumption DEF Frame
<1>3. \A k \in DOMAIN s : k \in Nat /\ s[k].ts \in Nat  BY <1>1, <1>2
<1> QED  BY <1>3 DEF Before

\* Ranks follow the order, and there are no more of them than places.
LEMMA RankFollows ==
  ASSUME NEW s \in Seq(Frame), NEW i \in DOMAIN s
  PROVE  /\ Rank(s, i) \in 0..Len(s) - 1
         /\ \A j \in DOMAIN s : Before(s, i, j) => Rank(s, i) < Rank(s, j)
<1> DEFINE B(j) == {k \in DOMAIN s : Before(s, k, j)}
<1>1. /\ Len(s) \in Nat /\ DOMAIN s = 1..Len(s)
      /\ IsFiniteSet(DOMAIN s) /\ Cardinality(DOMAIN s) = Len(s)
  <2> DEFINE n == Len(s)
  <2>1. n \in Nat /\ DOMAIN s = 1..n  OBVIOUS
  <2> HIDE DEF n
  <2>2. IsFiniteSet(1..n) /\ Cardinality(1..n) = n  BY <2>1, FS_Interval
  <2> QED  BY <2>1, <2>2 DEF n
<1>2. \A j \in DOMAIN s : Rank(s, j) = Cardinality(B(j))  BY DEF Rank
<1>3. \A j \in DOMAIN s : IsFiniteSet(B(j)) /\ Cardinality(B(j)) \in Nat
  BY <1>1, FS_Subset, FS_CardinalityType
<1>4. Rank(s, i) \in 0..Len(s) - 1
  <2>1. B(i) \in SUBSET (DOMAIN s \ {i})  BY BeforeIsOrder
  <2>2. IsFiniteSet(DOMAIN s \ {i}) /\ Cardinality(DOMAIN s \ {i}) = Len(s) - 1
    BY <1>1, FS_RemoveElement
  <2>3. Cardinality(B(i)) <= Len(s) - 1  BY <2>1, <2>2, FS_Subset
  <2> HIDE DEF B
  <2> QED  BY <1>1, <1>2, <1>3, <2>3
<1>5. ASSUME NEW j \in DOMAIN s, Before(s, i, j)
      PROVE  Rank(s, i) < Rank(s, j)
  <2>1. B(i) \in SUBSET B(j)  BY <1>5, BeforeIsOrder
  <2>2. i \in B(j) /\ i \notin B(i)  BY <1>5, BeforeIsOrder
  <2>3. Cardinality(B(i)) <= Cardinality(B(j)) /\ Cardinality(B(i)) # Cardinality(B(j))
    BY <1>3, <2>1, <2>2, FS_Subset
  <2> HIDE DEF B
  <2> QED  BY <1>2, <1>3, <2>3
<1> QED  BY <1>4, <1>5

\* Every rank is the rank of one place.
LEMMA RankIsBijective ==
  ASSUME NEW s \in Seq(Frame)
  PROVE  /\ \A i, j \in DOMAIN s : Rank(s, i) = Rank(s, j) => i = j
         /\ \A k \in DOMAIN s : \E i \in DOMAIN s : Rank(s, i) = k - 1
<1> DEFINE n == Len(s)
           r == [i \in 1..n |-> Rank(s, i)]
<1>1. n \in Nat /\ DOMAIN s = 1..n  OBVIOUS
<1> HIDE DEF n
<1>2. \A i \in 1..n : Rank(s, i) \in 0..n - 1  BY <1>1, RankFollows DEF n
<1>3. \A i, j \in 1..n : Rank(s, i) = Rank(s, j) => i = j
  <2> SUFFICES ASSUME NEW i \in 1..n, NEW j \in 1..n, i # j
               PROVE  Rank(s, i) # Rank(s, j)
    OBVIOUS
  <2>1. Rank(s, i) \in Int /\ Rank(s, j) \in Int  BY <1>1, <1>2
  <2>2. CASE Before(s, i, j)  BY <1>1, <2>1, <2>2, RankFollows
  <2>3. CASE Before(s, j, i)  BY <1>1, <2>1, <2>3, RankFollows
  <2> QED  BY <1>1, <2>2, <2>3, BeforeIsOrder
<1>4. r \in Injection(1..n, 0..n - 1)
  <2>1. r \in [1..n -> 0..n - 1]  BY <1>2
  <2>2. \A i, j \in 1..n : r[i] = r[j] => i = j  BY <1>3
  <2> HIDE DEF r
  <2> QED  BY <2>1, <2>2, Fun_IsInj
<1>5. /\ IsFiniteSet(0..n - 1)
      /\ Cardinality(1..n) = Cardinality(0..n - 1)
  BY <1>1, FS_Interval
<1>6. r \in Surjection(1..n, 0..n - 1)  BY <1>4, <1>5, FS_Injection
<1>7. \A k \in 0..n - 1 : \E i \in 1..n : Rank(s, i) = k
  <2> HIDE DEF r
  <2>1. \A k \in 0..n - 1 : \E i \in 1..n : r[i] = k  BY <1>6 DEF Surjection
  <2> QED  BY <2>1 DEF r
<1>8. \A k \in 1..n : k - 1 \in 0..n - 1  BY <1>1
<1> QED  BY <1>1, <1>3, <1>7, <1>8

\* _sort_pcap_by_timestamp gives back the very records it read, in timestamp order,
\* those of one timestamp in the order of the file: a stable sort.
THEOREM SortIsStable ==
  ASSUME NEW s \in Seq(Frame)
  PROVE  \E order \in Bijection(DOMAIN s, DOMAIN s) :
           /\ Sorted(s) = [k \in DOMAIN s |-> s[order[k]]]
           /\ \A k, l \in DOMAIN s : k < l => Before(s, order[k], order[l])
<1> DEFINE order == [k \in DOMAIN s |-> CHOOSE i \in DOMAIN s : Rank(s, i) = k - 1]
<1>1. \A k \in DOMAIN s : order[k] \in DOMAIN s /\ Rank(s, order[k]) = k - 1
  BY RankIsBijective
<1>2. DOMAIN s \subseteq Nat  OBVIOUS
<1>3. Sorted(s) = [k \in DOMAIN s |-> s[order[k]]]  BY DEF Sorted
<1>4. order \in [DOMAIN s -> DOMAIN s]  BY <1>1
<1> HIDE DEF order
<1>5. \A k, l \in DOMAIN s : order[k] = order[l] => k = l  BY <1>1, <1>2
<1>6. \A i \in DOMAIN s : \E k \in DOMAIN s : order[k] = i
  <2> SUFFICES ASSUME NEW i \in DOMAIN s PROVE \E k \in DOMAIN s : order[k] = i  OBVIOUS
  <2> DEFINE k == Rank(s, i) + 1
  <2>1. k \in DOMAIN s /\ Rank(s, i) = k - 1  BY RankFollows
  <2> HIDE DEF k
  <2>2. Rank(s, order[k]) = Rank(s, i)  BY <1>1, <2>1
  <2>3. order[k] = i  BY <1>1, <2>1, <2>2, RankIsBijective
  <2> QED  BY <2>1, <2>3
<1>7. order \in Bijection(DOMAIN s, DOMAIN s)  BY <1>4, <1>5, <1>6, Fun_IsBij
<1>8. ASSUME NEW k \in DOMAIN s, NEW l \in DOMAIN s, k < l
      PROVE  Before(s, order[k], order[l])
  <2>1. order[k] # order[l]  BY <1>2, <1>5, <1>8
  <2>2. ~ Before(s, order[l], order[k])
    <3>1. Before(s, order[l], order[k]) => l - 1 < k - 1  BY <1>1, RankFollows
    <3> QED  BY <1>2, <1>8, <3>1
  <2> QED  BY <1>1, <2>1, <2>2, BeforeIsOrder
<1> QED  BY <1>3, <1>7, <1>8

\* A reordering has the same frames, each as often.
LEMMA ReorderFrames ==
  ASSUME NEW s \in Seq(Frame), NEW order \in [DOMAIN s -> DOMAIN s],
         \A k, l \in DOMAIN s : order[k] = order[l] => k = l,
         \A i \in DOMAIN s : \E k \in DOMAIN s : order[k] = i,
         NEW t, t = [k \in DOMAIN s |-> s[order[k]]]
  PROVE  /\ t \in Seq(Frame) /\ Len(t) = Len(s)
         /\ Frames(t) = Frames(s) /\ Places(t) = Places(s)
         /\ Distinct(s) => Distinct(t)
<1>1. DOMAIN t = DOMAIN s /\ \A k \in DOMAIN s : t[k] = s[order[k]] /\ order[k] \in DOMAIN s
  OBVIOUS
<1>2. t \in Seq(Frame) /\ Len(t) = Len(s)
  <2>1. Len(s) \in Nat /\ DOMAIN s = 1..Len(s) /\ \A i \in DOMAIN s : s[i] \in Frame  OBVIOUS
  <2>2. t \in [1..Len(s) -> Frame]  BY <1>1, <2>1
  <2> QED  BY <2>1, <2>2
<1>3. Frames(t) = Frames(s)
  <2>1. Frames(t) \subseteq Frames(s)  BY <1>1 DEF Frames
  <2>2. Frames(s) \subseteq Frames(t)  BY <1>1 DEF Frames
  <2> QED  BY <2>1, <2>2
<1>4. Places(t) = Places(s)
  <2>1. Places(t) \subseteq Places(s)  BY <1>1 DEF Places
  <2>2. Places(s) \subseteq Places(t)  BY <1>1 DEF Places
  <2> QED  BY <2>1, <2>2
<1>5. Distinct(s) => Distinct(t)  BY <1>1 DEF Distinct
<1> QED  BY <1>2, <1>3, <1>4, <1>5

\* What the sort keeps of a file.
LEMMA SortedFrames ==
  ASSUME NEW s \in Seq(Frame)
  PROVE  /\ Sorted(s) \in Seq(Frame) /\ Len(Sorted(s)) = Len(s)
         /\ Frames(Sorted(s)) = Frames(s) /\ Places(Sorted(s)) = Places(s)
         /\ Distinct(s) => Distinct(Sorted(s))
         /\ InTimeOrder(Sorted(s))
<1>1. PICK order \in Bijection(DOMAIN s, DOMAIN s) :
           /\ Sorted(s) = [k \in DOMAIN s |-> s[order[k]]]
           /\ \A k, l \in DOMAIN s : k < l => Before(s, order[k], order[l])
  BY SortIsStable
<1>2. /\ order \in [DOMAIN s -> DOMAIN s]
      /\ \A k, l \in DOMAIN s : order[k] = order[l] => k = l
      /\ \A i \in DOMAIN s : \E k \in DOMAIN s : order[k] = i
  BY Fun_BijectionProperties
<1>3. InTimeOrder(Sorted(s))
  <2>1. \A k \in DOMAIN s : order[k] \in DOMAIN s  BY <1>2
  <2>2. \A k \in DOMAIN s : s[k] \in Frame  OBVIOUS
  <2>3. \A f \in Frame : f.ts \in Nat  BY FramesAssumption DEF Frame
  <2>4. \A k, l \in DOMAIN s : k < l => s[order[k]].ts <= s[order[l]].ts
    <3> SUFFICES ASSUME NEW k \in DOMAIN s, NEW l \in DOMAIN s, k < l
                 PROVE  s[order[k]].ts <= s[order[l]].ts
      OBVIOUS
    <3>1. Before(s, order[k], order[l])  BY <1>1
    <3>2. s[order[k]].ts \in Nat /\ s[order[l]].ts \in Nat  BY <2>1, <2>2, <2>3
    <3> QED  BY <3>1, <3>2 DEF Before
  <2>5. DOMAIN Sorted(s) = DOMAIN s /\ \A k \in DOMAIN s : Sorted(s)[k] = s[order[k]]  BY <1>1
  <2> QED  BY <2>4, <2>5 DEF InTimeOrder
<1>4. /\ Sorted(s) \in Seq(Frame) /\ Len(Sorted(s)) = Len(s)
      /\ Frames(Sorted(s)) = Frames(s) /\ Places(Sorted(s)) = Places(s)
      /\ Distinct(s) => Distinct(Sorted(s))
  BY <1>1, <1>2, ReorderFrames, Zenon
<1> QED  BY <1>3, <1>4

-----------------------------------------------------------------------------
(* Frames that arrived *)

\* An empty sequence has no frames.
LEMMA NoFrames ==
  <<>> \in Seq(Frame) /\ Len(<<>>) = 0 /\ Frames(<<>>) = {} /\ Places(<<>>) = {} /\ Distinct(<<>>)
<1>1. <<>> \in Seq(Frame) /\ Len(<<>>) = 0 /\ DOMAIN <<>> = {}  OBVIOUS
<1> QED  BY <1>1 DEF Frames, Places, Distinct

\* The frames taken can be counted.
LEMMA TakenCount ==
  ASSUME TypeOK
  PROVE  /\ IsFiniteSet(taken)
         /\ Cardinality(taken) \in Nat /\ Cardinality(taken) <= MaxFrames
<1>1. taken \in SUBSET (1..MaxFrames)  BY FramesAssumption DEF TypeOK
<1>2. IsFiniteSet(1..MaxFrames) /\ Cardinality(1..MaxFrames) = MaxFrames
  BY FramesAssumption, FS_Interval
<1> QED  BY <1>1, <1>2, FS_Subset, FS_CardinalityType

\* Neither dropping the queue nor reading from it puts it out of order.
LEMMA AscendingKept ==
  ASSUME NEW s \in Seq(Frame), Ascending(s), NEW t,
         t = s \/ t = <<>> \/ (s # <<>> /\ t = Tail(s))
  PROVE  Ascending(t)
<1>1. CASE t = s  BY <1>1
<1>2. CASE t = <<>>
  <2>1. DOMAIN t = {}  BY <1>2
  <2> QED  BY <2>1 DEF Ascending
<1>3. CASE t = Tail(s) /\ s # <<>>
  <2>1. /\ DOMAIN t = 1..(Len(s) - 1) /\ DOMAIN s = 1..Len(s) /\ Len(s) \in Nat
        /\ \A i \in DOMAIN t : t[i] = s[i + 1]
    BY <1>3
  <2>2. \A i, j \in DOMAIN t : i < j => i + 1 \in DOMAIN s /\ j + 1 \in DOMAIN s /\ i + 1 < j + 1
    BY <2>1
  <2> QED  BY <2>1, <2>2 DEF Ascending
<1> QED  BY <1>1, <1>2, <1>3

\* Stamps stay as they are while nothing new is taken or written, and the thread
\* reads on only if none that it wrote was dropped.
LEMMA StampedKept ==
  ASSUME TypeOK, TypeOK', Stamped, UNCHANGED <<single, flight, taken>>,
         queue' = queue \/ queue' = <<>> \/ (queue # <<>> /\ queue' = Tail(queue)),
         Written' \subseteq Written,
         Reading' => Reading /\ Len(buffer') + Len(disk') = Len(buffer) + Len(disk)
  PROVE  Stamped'
<1>1. Frames(queue') \subseteq Frames(queue)
  <2>1. CASE queue # <<>> /\ queue' = Tail(queue)  BY <2>1, TailFrames DEF TypeOK
  <2> QED  BY <2>1, NoFrames
<1>2. Arrived' \subseteq Arrived  BY <1>1 DEF Arrived
<1>3. single => Ascending(queue')  BY AscendingKept DEF TypeOK, Stamped
<1>4. Reading' => \A f \in Written' : f.clock = "mono" => f.ts <= Len(buffer') + Len(disk')
  BY DEF Stamped
<1>5. /\ \A f \in Arrived' : f.clock = "hw" => f.ts = HwAhead + f.at
      /\ \A f \in Arrived' : f.clock = "sw" => f.ts <= SwAhead + Cardinality(taken)
      /\ \A f \in Frames(queue') : f.ts = Absent <=> f.clock = "mono"
      /\ \A f \in Written' : f.ts # Absent
  BY <1>1, <1>2 DEF Stamped
<1>6. single =>
        /\ \A x \in taken, y \in flight : x < y
        /\ \A f \in Written', g \in Frames(queue') : f.at < g.at
        /\ \A f, g \in Arrived' :
             f.at < g.at /\ f.clock = g.clock /\ f.ts # Absent /\ g.ts # Absent => f.ts < g.ts
  BY <1>1, <1>2 DEF Stamped
<1> QED  BY <1>3, <1>4, <1>5, <1>6 DEF Stamped

\* A step that moves no frame keeps the account of them.
LEMMA StillFrames ==
  ASSUME Placed, Stamped, UNCHANGED <<single, flight, taken, queue, buffer, disk>>,
         Reading' => Reading
  PROVE  Placed' /\ Stamped'
BY DEF Placed, Stamped, Arrived, Written

\* So does one that drops the queue or the buffer.
LEMMA DroppedFrames ==
  ASSUME TypeOK, TypeOK', Placed, Stamped, UNCHANGED <<single, flight, taken, disk>>,
         queue' = queue \/ queue' = <<>>, buffer' = buffer \/ buffer' = <<>>,
         Reading' => Reading /\ buffer' = buffer
  PROVE  Placed' /\ Stamped'
<1>1. /\ Places(queue') \subseteq Places(queue) /\ Places(buffer') \subseteq Places(buffer)
      /\ Frames(queue') \subseteq Frames(queue) /\ Frames(buffer') \subseteq Frames(buffer)
      /\ Distinct(queue') /\ Distinct(buffer')
  BY NoFrames DEF Placed
<1>2. Len(queue') <= Len(queue) /\ Len(buffer') <= Len(buffer)
  BY NoFrames DEF TypeOK
<1>3. Len(disk) + Len(buffer') + Len(queue') <= Cardinality(taken)
  BY <1>2, TakenCount DEF Placed, TypeOK
<1>4. Placed'  BY <1>1, <1>3 DEF Placed
<1>5. Stamped'
  <2>1. Written' \subseteq Written  BY <1>1 DEF Written
  <2> QED  BY <2>1, StampedKept
<1> QED  BY <1>4, <1>5

\* So does one that flushes the buffer.
LEMMA FlushedFrames ==
  ASSUME TypeOK, TypeOK', Placed, Stamped, UNCHANGED <<single, flight, taken>>,
         queue' = queue \/ queue' = <<>>, disk' = disk \o buffer, buffer' = <<>>,
         Reading' => Reading
  PROVE  /\ Placed' /\ Stamped'
         /\ Places(disk') = Places(disk) \cup Places(buffer)
<1>1. /\ Places(queue') \subseteq Places(queue) /\ Frames(queue') \subseteq Frames(queue)
      /\ Distinct(queue')
  BY NoFrames DEF Placed
<1>2. Len(queue') <= Len(queue)
  BY NoFrames DEF TypeOK
<1>3. /\ Len(disk') = Len(disk) + Len(buffer)
      /\ Frames(disk') = Frames(disk) \cup Frames(buffer)
      /\ Places(disk') = Places(disk) \cup Places(buffer)
      /\ Distinct(disk')
  BY ConcatFrames DEF TypeOK, Placed
<1>4. Len(disk') + Len(buffer') + Len(queue') <= Cardinality(taken)
  BY <1>2, <1>3, TakenCount, NoFrames DEF Placed, TypeOK
<1>5. Placed'  BY <1>1, <1>3, <1>4, NoFrames DEF Placed
<1>6. Stamped'
  <2>1. Written' \subseteq Written  BY <1>3, NoFrames DEF Written
  <2>2. Len(disk') + Len(buffer') = Len(disk) + Len(buffer)  BY <1>3, NoFrames DEF TypeOK
  <2>3. Len(buffer') + Len(disk') = Len(buffer) + Len(disk)  BY <2>2, <1>3, NoFrames DEF TypeOK
  <2> QED  BY <2>1, <2>3, StampedKept
<1> QED  BY <1>3, <1>5, <1>6

-----------------------------------------------------------------------------
(* The inductive invariant *)

\* Inv holds when the child is forked.
LEMMA InvInit == Init => Inv
<1> SUFFICES ASSUME Init PROVE Inv  OBVIOUS
<1>1. TypeOK
  <2>1. 0 \in 0..MaxFrames /\ 0 <= QueueMax  BY FramesAssumption
  <2> QED  BY <2>1, NoFrames DEF Init, TypeOK, Running
<1>2. Placed /\ Stamped
  <2>1. Cardinality({}) = 0  BY FS_EmptySet
  <2>2. DOMAIN <<>> = {}  OBVIOUS
  <2> QED  BY <2>1, <2>2, NoFrames DEF Init, Placed, Stamped, Arrived, Written, Ascending
<1>3. Life /\ Kept /\ Sorting  BY DEF Init, Life, Kept, Sorting, Stopping
<1> QED  BY <1>1, <1>2, <1>3 DEF Inv

\* A frame goes onto the wire.
LEMMA InvTransmit == Inv /\ Transmit => Inv'
<1> SUFFICES ASSUME Inv, Transmit PROVE Inv'  OBVIOUS
<1>1. TypeOK'  BY FramesAssumption DEF Inv, TypeOK, Transmit
<1>2. Placed'
  <2>1. sent + 1 \notin taken  BY FramesAssumption DEF Inv, TypeOK
  <2> QED  BY <2>1 DEF Inv, Placed, Transmit
<1>3. Stamped'
  <2>1. \A x \in taken : x < sent + 1  BY DEF Inv, TypeOK
  <2> QED  BY <2>1 DEF Inv, Stamped, Arrived, Written, Reading, Transmit
<1>4. Life' /\ Kept' /\ Sorting'  BY DEF Inv, Life, Kept, Sorting, Transmit
<1> QED  BY <1>1, <1>2, <1>3, <1>4 DEF Inv

\* The kernel takes a frame, or has no room for it.
LEMMA InvDeliver ==
  ASSUME Inv, NEW w \in flight, Deliver(w)
  PROVE  Inv'
<1>1. CASE ~ (Bound /\ Len(queue) < QueueMax)
  <2>1. /\ flight' = flight \ {w}
        /\ UNCHANGED <<main, recv, stopEvt, stopped, fault, mode, single, sent, queue, taken,
                       due, buffer, disk, snap>>
    BY <1>1 DEF Deliver
  <2>2. TypeOK'  BY <2>1 DEF Inv, TypeOK
  <2>3. Placed' /\ Stamped'  BY <2>1 DEF Inv, Placed, Stamped, Arrived, Written, Reading
  <2>4. Life' /\ Kept' /\ Sorting'  BY <2>1 DEF Inv, Life, Kept, Sorting
  <2> QED  BY <2>2, <2>3, <2>4 DEF Inv
<1>2. CASE Bound /\ Len(queue) < QueueMax
  <2>1. PICK f \in Stamp(w) : queue' = Append(queue, f)
    BY <1>2 DEF Deliver
  <2>2. /\ flight' = flight \ {w} /\ taken' = taken \cup {w}
        /\ single => \A x \in flight : w <= x
        /\ UNCHANGED <<main, recv, stopEvt, stopped, fault, mode, single, sent, due, buffer,
                       disk, snap>>
    BY <1>2 DEF Deliver
  <2>3. w \in 1..MaxFrames /\ w \in 1..sent /\ w \notin taken
    BY FramesAssumption DEF Inv, TypeOK, Placed
  <2>4. /\ IsFiniteSet(taken) /\ Cardinality(taken) \in Nat
        /\ Cardinality(taken') = Cardinality(taken) + 1 /\ Cardinality(taken') <= MaxFrames
    <3>1. IsFiniteSet(taken) /\ Cardinality(taken) \in Nat  BY TakenCount DEF Inv
    <3>2. Cardinality(taken') = Cardinality(taken) + 1  BY <2>2, <2>3, <3>1, FS_AddElement
    <3>3. taken' \in SUBSET (1..MaxFrames)  BY <2>2, <2>3, FramesAssumption DEF Inv, TypeOK
    <3>4. IsFiniteSet(1..MaxFrames) /\ Cardinality(1..MaxFrames) = MaxFrames
      BY FramesAssumption, FS_Interval
    <3> QED  BY <3>1, <3>2, <3>3, <3>4, FS_Subset
  <2>5. /\ f.at = w /\ f.clock \in Clock /\ f.ts \in Nat
        /\ f.clock = "hw" => f.ts = HwAhead + w
        /\ f.clock = "sw" => f.ts = SwAhead + Cardinality(taken) + 1
        /\ f.ts = Absent <=> f.clock = "mono"
    BY <2>3, <2>4, FramesAssumption, ClocksAssumption DEF Stamp, Absent, Clock
  <2>6. f \in Frame
    BY <2>3, <2>4, FramesAssumption, ClocksAssumption DEF Stamp, Absent, Clock, Frame
  <2>7. /\ queue' \in Seq(Frame) /\ Len(queue') = Len(queue) + 1
        /\ Frames(queue') = Frames(queue) \cup {f}
        /\ Places(queue') = Places(queue) \cup {w}
        /\ Distinct(queue')
    <3>1. w \notin Places(queue)  BY <2>3 DEF Inv, Placed
    <3> QED  BY <2>1, <2>5, <2>6, <3>1, AppendFrames DEF Inv, TypeOK, Placed
  <2>8. TypeOK'  BY <1>2, <2>2, <2>3, <2>7, FramesAssumption DEF Inv, TypeOK
  <2>9. Placed'
    <3>1. Len(disk') + Len(buffer') + Len(queue') <= Cardinality(taken')
      BY <2>2, <2>4, <2>7 DEF Inv, TypeOK, Placed
    <3> QED  BY <2>2, <2>3, <2>7, <3>1 DEF Inv, Placed
  <2>10. Stamped'
    <3>1. \A g \in Arrived' : g \in Frame /\ g.ts \in Nat /\ g.at \in Nat
      <4>1. \A g \in Arrived' : g \in Frame  BY <2>8 DEF TypeOK, Arrived, Written, Frames
      <4> QED  BY <4>1, FramesAssumption DEF Frame
    <3>2. Arrived' = Arrived \cup {f} /\ Written' = Written
      BY <2>2, <2>7 DEF Arrived, Written
    <3>3. \A g \in Arrived : g.at \in taken
      BY DEF Inv, Placed, Arrived, Written, Frames, Places
    <3>4. single => \A x \in taken : x < w  BY DEF Inv, Stamped
    <3>5. /\ \A g \in Arrived' : g.clock = "hw" => g.ts = HwAhead + g.at
          /\ \A g \in Frames(queue') : g.ts = Absent <=> g.clock = "mono"
          /\ \A g \in Written' : g.ts # Absent
          /\ Reading' => \A g \in Written' : g.clock = "mono" => g.ts <= Len(buffer') + Len(disk')
      BY <2>2, <2>5, <2>7, <3>2 DEF Inv, Stamped, Reading
    <3>6. \A g \in Arrived' : g.clock = "sw" => g.ts <= SwAhead + Cardinality(taken')
      BY <2>2, <2>4, <2>5, <3>1, <3>2, ClocksAssumption DEF Inv, Stamped
    <3>7. single' => \A x \in taken', y \in flight' : x < y
      <4>1. \A x \in flight : x \in Nat  BY DEF Inv, TypeOK
      <4> QED  BY <2>2, <2>3, <4>1 DEF Inv, Stamped
    <3>8. single' => Ascending(queue')
      <4>1. /\ DOMAIN queue = 1..Len(queue) /\ DOMAIN queue' = 1..(Len(queue) + 1) /\ Len(queue) \in Nat
            /\ \A i \in DOMAIN queue : queue'[i] = queue[i]
            /\ queue'[Len(queue) + 1] = f
        BY <2>1, <2>6 DEF Inv, TypeOK
      <4>2. single => \A i \in DOMAIN queue : queue[i].at < w
        BY <3>3, <3>4 DEF Arrived, Frames
      <4>3. ASSUME single, NEW i \in DOMAIN queue', NEW j \in DOMAIN queue', i < j
            PROVE  queue'[i].at < queue'[j].at
        <5>1. i \in DOMAIN queue  BY <4>1, <4>3
        <5>2. CASE j \in DOMAIN queue  BY <4>1, <4>3, <5>1, <5>2 DEF Inv, Stamped, Ascending
        <5>3. CASE j = Len(queue) + 1  BY <2>5, <4>1, <4>2, <4>3, <5>1, <5>3
        <5> QED  BY <4>1, <5>2, <5>3
      <4> QED  BY <2>2, <4>3 DEF Ascending
    <3>9. single' => \A g \in Written', h \in Frames(queue') : g.at < h.at
      <4>1. single => \A g \in Written : g.at < f.at
        BY <2>5, <3>3, <3>4 DEF Arrived
      <4> QED  BY <2>2, <2>7, <3>2, <4>1 DEF Inv, Stamped
    <3>10. ASSUME single', NEW g \in Arrived', NEW h \in Arrived',
                  g.at < h.at, g.clock = h.clock, g.ts # Absent, h.ts # Absent
           PROVE  g.ts < h.ts
      <4>1. CASE g \in Arrived /\ h \in Arrived  BY <2>2, <3>10, <4>1 DEF Inv, Stamped
      <4>2. CASE g = f /\ h \in Arrived
        <5>1. h.at < w  BY <2>2, <3>3, <3>4, <3>10, <4>2
        <5> QED  BY <2>3, <2>5, <3>1, <3>10, <4>2, <5>1
      <4>3. CASE g \in Arrived /\ h = f
        <5>1. CASE f.clock = "hw"
          <6>1. g.ts = HwAhead + g.at /\ h.ts = HwAhead + h.at
            BY <2>5, <3>10, <4>3, <5>1 DEF Inv, Stamped
          <6> QED  BY <3>1, <3>10, <6>1, ClocksAssumption
        <5>2. CASE f.clock = "sw"
          <6>1. g.ts <= SwAhead + Cardinality(taken)
            BY <3>10, <4>3, <5>2 DEF Inv, Stamped
          <6> QED  BY <2>4, <2>5, <3>1, <4>3, <5>2, <6>1, ClocksAssumption
        <5>3. CASE f.clock = "mono"  BY <2>5, <3>10, <4>3, <5>3
        <5> QED  BY <2>5, <5>1, <5>2, <5>3 DEF Clock
      <4>4. CASE g = f /\ h = f  BY <3>1, <3>10, <4>4
      <4> QED  BY <3>2, <4>1, <4>2, <4>3, <4>4
    <3> QED  BY <3>5, <3>6, <3>7, <3>8, <3>9, <3>10 DEF Stamped
  <2>11. Life'  BY <1>2, <2>2 DEF Inv, Life, Bound
  <2>12. Kept' /\ Sorting'  BY <1>2, <2>2, <2>7 DEF Inv, Kept, Sorting, Bound
  <2> QED  BY <2>8, <2>9, <2>10, <2>11, <2>12 DEF Inv
<1> QED  BY <1>1, <1>2

\* A frame is read and written.
LEMMA InvReadFrame ==
  ASSUME Inv, ReadFrame, main \in Running
  PROVE  Inv'
<1> DEFINE h == Head(queue)
           d == Decoded(h)
           b == Append(buffer, d)
<1>1. /\ queue # <<>> /\ queue' = Tail(queue)
      /\ \/ buffer' = b /\ disk' = disk
         \/ buffer' = <<>> /\ disk' = disk \o b
      /\ recv \in {"recv", "drain"} /\ recv' \in {"check", "drain"}
      /\ recv' = "drain" => recv = "drain"
      /\ UNCHANGED <<main, stopEvt, stopped, fault, mode, single, sent, flight, taken, due, snap>>
  BY DEF ReadFrame, RecvUnchanged, wireVars
<1>2. /\ h \in Frame /\ queue' \in Seq(Frame) /\ Len(queue') = Len(queue) - 1 /\ Len(queue) > 0
      /\ Frames(queue) = Frames(queue') \cup {h} /\ Places(queue) = Places(queue') \cup {h.at}
      /\ Distinct(queue') /\ h.at \notin Places(queue')
  BY <1>1, TailFrames DEF Inv, TypeOK, Placed
<1>3. /\ Len(queue) \in Nat /\ Len(buffer) \in Nat /\ Len(disk) \in Nat
      /\ Len(disk) + Len(buffer) + Len(queue) <= Cardinality(taken)
      /\ Cardinality(taken) \in Nat /\ Cardinality(taken) <= MaxFrames
  BY TakenCount DEF Inv, TypeOK, Placed
<1> HIDE DEF h
<1>4. /\ d \in Frame /\ d.at = h.at /\ d.clock = h.clock /\ d.ts # Absent
      /\ d = h \/ (d.clock = "mono" /\ d.ts = Len(buffer) + Len(disk) + 1)
  <2>1. Len(buffer) + Len(disk) + 1 \in Nat /\ Len(buffer) + Len(disk) + 1 # Absent
    BY <1>3 DEF Absent
  <2>2. h.ts = Absent => h.clock = "mono"  BY <1>2 DEF Inv, Stamped
  <2>3. CASE h.ts = Absent
    <3>1. d = [h EXCEPT !.ts = Len(buffer) + Len(disk) + 1]  BY <2>3 DEF Decoded
    <3> QED  BY <1>2, <2>1, <2>2, <2>3, <3>1 DEF Frame
  <2>4. CASE h.ts # Absent  BY <1>2, <2>4 DEF Decoded
  <2> QED  BY <2>3, <2>4
<1> HIDE DEF d
<1>5. /\ b \in Seq(Frame) /\ Len(b) = Len(buffer) + 1
      /\ Frames(b) = Frames(buffer) \cup {d} /\ Places(b) = Places(buffer) \cup {h.at}
      /\ Distinct(b)
  <2>1. h.at \notin Places(buffer)  BY <1>2 DEF Inv, Placed
  <2> QED  BY <1>4, <2>1, AppendFrames DEF Inv, TypeOK, Placed
<1> HIDE DEF b
\* Wherever the frame lands, buffer and file together have one frame more.
<1>6. /\ buffer' \in Seq(Frame) /\ disk' \in Seq(Frame)
      /\ Len(disk') + Len(buffer') = Len(disk) + Len(buffer) + 1
      /\ Frames(disk') \cup Frames(buffer') = Frames(disk) \cup Frames(buffer) \cup {d}
      /\ Places(disk') \cup Places(buffer') = Places(disk) \cup Places(buffer) \cup {h.at}
      /\ Places(disk') \cap Places(buffer') = {}
      /\ Distinct(disk') /\ Distinct(buffer')
  <2>1. Places(disk) \cap Places(b) = {}  BY <1>2, <1>5 DEF Inv, Placed
  <2>2. CASE buffer' = b /\ disk' = disk
    <3>1. Len(disk') + Len(buffer') = Len(disk) + Len(buffer) + 1  BY <1>3, <1>5, <2>2
    <3>2. /\ Frames(disk') \cup Frames(buffer') = Frames(disk) \cup Frames(buffer) \cup {d}
          /\ Places(disk') \cup Places(buffer') = Places(disk) \cup Places(buffer) \cup {h.at}
      BY <1>5, <2>2
    <3>3. disk \in Seq(Frame) /\ Distinct(disk)  BY DEF Inv, TypeOK, Placed
    <3> QED  BY <1>5, <2>1, <2>2, <3>1, <3>2, <3>3
  <2>3. CASE buffer' = <<>> /\ disk' = disk \o b
    <3>1. /\ disk' \in Seq(Frame) /\ Len(disk') = Len(disk) + Len(b)
          /\ Frames(disk') = Frames(disk) \cup Frames(b)
          /\ Places(disk') = Places(disk) \cup Places(b)
          /\ Distinct(disk')
      BY <1>5, <2>1, <2>3, ConcatFrames DEF Inv, TypeOK, Placed
    <3> QED  BY <1>3, <1>5, <2>3, <3>1, NoFrames
  <2> QED  BY <1>1, <2>2, <2>3
<1>7. TypeOK'
  <2>1. Len(queue') <= QueueMax  BY <1>2, <1>3, FramesAssumption DEF Inv, TypeOK
  <2> QED  BY <1>1, <1>2, <1>6, <2>1 DEF Inv, TypeOK
<1>8. Placed'
  <2>1. Len(disk') + Len(buffer') + Len(queue') <= Cardinality(taken)
    BY <1>2, <1>3, <1>6, <1>7 DEF TypeOK
  <2> QED  BY <1>1, <1>2, <1>6, <2>1 DEF Inv, Placed
<1>9. Stamped'
  <2>1. /\ Written' = Written \cup {d} /\ h \in Frames(queue)
        /\ Frames(queue') \subseteq Frames(queue) /\ Arrived' \subseteq Arrived \cup {d}
    BY <1>2, <1>6 DEF Arrived, Written
  <2>2. /\ \A g \in Arrived \cup Arrived' : g \in Frame /\ g.ts \in Nat /\ g.at \in Nat
        /\ h.at \in Nat /\ d.at = h.at
    <3>1. \A g \in Arrived \cup Arrived' : g \in Frame
      BY <1>7 DEF Inv, TypeOK, Arrived, Written, Frames
    <3> QED  BY <1>2, <1>4, <3>1, FramesAssumption DEF Frame
  <2>3. h \in Arrived /\ (d = h => d \in Arrived)  BY <2>1 DEF Arrived
  <2>4. /\ \A g \in Arrived' : g.clock = "hw" => g.ts = HwAhead + g.at
        /\ \A g \in Arrived' : g.clock = "sw" => g.ts <= SwAhead + Cardinality(taken')
        /\ \A g \in Frames(queue') : g.ts = Absent <=> g.clock = "mono"
        /\ \A g \in Written' : g.ts # Absent
    BY <1>1, <1>4, <2>1, <2>3 DEF Inv, Stamped
  <2>5. \A g \in Written' : g.clock = "mono" => g.ts <= Len(buffer') + Len(disk')
    <3>1. Reading  BY <1>1 DEF Reading
    <3>2. Len(buffer') + Len(disk') = Len(buffer) + Len(disk) + 1
      BY <1>3, <1>6, <1>7 DEF TypeOK
    <3>3. d.clock = "mono" => d.ts = Len(buffer) + Len(disk) + 1
      BY <1>4, <2>1 DEF Inv, Stamped
    <3>4. \A g \in Written : g.clock = "mono" => g.ts <= Len(buffer) + Len(disk)
      BY <3>1 DEF Inv, Stamped
    <3>5. \A g \in Written : g.ts \in Nat  BY <2>2 DEF Arrived
    <3> QED  BY <1>3, <2>1, <3>2, <3>3, <3>4, <3>5
  <2>6. single =>
          /\ \A x \in taken, y \in flight : x < y
          /\ Ascending(queue) /\ Ascending(queue')
    BY <1>1, AscendingKept DEF Inv, TypeOK, Stamped
  <2>7. ASSUME single, NEW g \in Written', NEW x \in Frames(queue')
        PROVE  g.at < x.at
    <3>1. CASE g \in Written  BY <2>1, <2>7, <3>1 DEF Inv, Stamped
    <3>2. CASE g = d
      <4>1. PICK i \in DOMAIN queue' : x = queue'[i]  BY <2>7 DEF Frames
      <4>2. /\ 1 \in DOMAIN queue /\ i + 1 \in DOMAIN queue /\ 1 < i + 1
            /\ h = queue[1] /\ x = queue[i + 1]
        BY <1>1, <4>1 DEF h, Inv, TypeOK
      <4> QED  BY <1>4, <2>6, <2>7, <3>2, <4>2 DEF Ascending
    <3> QED  BY <2>1, <3>1, <3>2
  <2>8. ASSUME single, NEW g \in Arrived', NEW x \in Arrived',
               g.at < x.at, g.clock = x.clock, g.ts # Absent, x.ts # Absent
        PROVE  g.ts < x.ts
    <3>1. CASE g \in Arrived /\ x \in Arrived  BY <2>8, <3>1 DEF Inv, Stamped
    <3>2. CASE d = h  BY <2>1, <2>3, <2>8, <3>1, <3>2
    <3>3. ASSUME d.clock = "mono", d.ts = Len(buffer) + Len(disk) + 1,
                 NEW y \in Arrived', y \in Arrived, y.clock = "mono", y.ts # Absent
          PROVE  y.ts < d.ts /\ y.at < d.at
      <4>1. y \in Written  BY <3>3 DEF Arrived, Inv, Stamped
      <4>2. y.ts <= Len(buffer) + Len(disk)  BY <1>1, <3>3, <4>1 DEF Inv, Stamped, Reading
      <4>3. y.at < h.at  BY <2>1, <2>8, <4>1 DEF Inv, Stamped
      <4> QED  BY <1>3, <1>4, <2>2, <3>3, <4>2, <4>3
    <3>4. CASE d # h
      <4>1. d.clock = "mono" /\ d.ts = Len(buffer) + Len(disk) + 1  BY <1>4, <3>4
      <4>2. CASE g \in Arrived /\ x = d  BY <2>8, <3>3, <4>1, <4>2
      <4>3. CASE g = d /\ x \in Arrived
        <5>1. x.at < g.at  BY <2>8, <3>3, <4>1, <4>3
        <5> QED  BY <2>2, <2>8, <5>1
      <4>4. CASE g = d /\ x = d  BY <2>2, <2>8, <4>4
      <4> QED  BY <2>1, <3>1, <4>2, <4>3, <4>4
    <3> QED  BY <3>2, <3>4
  <2> QED  BY <1>1, <2>4, <2>5, <2>6, <2>7, <2>8 DEF Stamped
<1>10. Life'
  <2>1. main \notin {"boot", "close", "read", "write", "swap", "exit0"}
    BY <1>1 DEF Inv, Life, Stopping
  <2> QED  BY <1>1, <2>1 DEF Inv, Life, Stopping
<1>11. Kept' /\ Sorting'
  <2>1. main \notin {"boot", "close", "read", "write", "swap", "exit0"}
    BY <1>1 DEF Inv, Life, Stopping
  <2> QED  BY <1>1, <1>2, <1>6, <2>1 DEF Inv, Kept, Sorting
<1> QED  BY <1>7, <1>8, <1>9, <1>10, <1>11 DEF Inv

\* The other steps of the receive thread.
LEMMA InvRecv ==
  ASSUME Inv, main \in Running, Check \/ ReadTimesOut \/ NetDown \/ WriteFails
  PROVE  Inv'
<1>1. main \notin {"boot", "close", "read", "write", "swap", "exit0"}
  BY DEF Inv, Life, Stopping, Check, ReadTimesOut, NetDown, WriteFails
<1> USE <1>1 DEF RecvUnchanged, wireVars
<1>2. CASE Check
  <2>1. TypeOK'  BY <1>2 DEF Check, Inv, TypeOK
  <2>2. Placed' /\ Stamped'  BY <1>2, StillFrames DEF Check, Inv, Reading
  <2>3. Life' /\ Kept' /\ Sorting'  BY <1>2 DEF Check, Inv, Life, Kept, Sorting, Stopping
  <2> QED  BY <2>1, <2>2, <2>3 DEF Inv
<1>3. CASE ReadTimesOut
  <2>1. TypeOK'  BY <1>3 DEF ReadTimesOut, Inv, TypeOK
  <2>2. Placed' /\ Stamped'  BY <1>3, StillFrames DEF ReadTimesOut, Inv, Reading
  <2>3. Life'  BY <1>3 DEF ReadTimesOut, Inv, Life, Stopping
  <2>4. Kept' /\ Sorting'
    <3>1. Places(queue) = {} /\ due \subseteq taken  BY <1>3, NoFrames DEF ReadTimesOut, Inv, TypeOK
    <3> QED  BY <1>3, <3>1 DEF ReadTimesOut, Inv, Kept, Sorting
  <2> QED  BY <2>1, <2>2, <2>3, <2>4 DEF Inv
<1>4. CASE NetDown
  <2>1. TypeOK'  BY <1>4 DEF NetDown, Inv, TypeOK
  <2>2. Placed' /\ Stamped'  BY <1>4, StillFrames DEF NetDown, Inv, Reading
  <2>3. Life' /\ Kept' /\ Sorting'  BY <1>4 DEF NetDown, Inv, Life, Kept, Sorting, Stopping
  <2> QED  BY <2>1, <2>2, <2>3 DEF Inv
<1>5. CASE WriteFails
  <2>1. /\ queue' \in Seq(Frame) /\ Len(queue') = Len(queue) - 1
        /\ Frames(queue') \subseteq Frames(queue) /\ Places(queue') \subseteq Places(queue)
        /\ Distinct(queue')
    BY <1>5, TailFrames DEF WriteFails, Inv, TypeOK, Placed
  <2>2. Len(queue) \in Nat /\ Len(buffer) \in Nat /\ Len(disk) \in Nat /\ Cardinality(taken) \in Nat
    BY TakenCount DEF Inv, TypeOK
  <2>3. TypeOK'  BY <1>5, <2>1, <2>2, FramesAssumption DEF WriteFails, Inv, TypeOK
  <2>4. Placed'
    <3>1. Len(disk) + Len(buffer) + Len(queue') <= Cardinality(taken)
      BY <2>1, <2>2 DEF Inv, Placed
    <3> QED  BY <1>5, <2>1, <3>1 DEF WriteFails, Inv, Placed
  <2>5. Stamped'
    <3>1. Written' = Written /\ ~ Reading'  BY <1>5 DEF WriteFails, Written, Reading
    <3> QED  BY <1>5, <2>3, <3>1, StampedKept DEF WriteFails, Inv
  <2>6. Life' /\ Kept' /\ Sorting'
    BY <1>5 DEF WriteFails, Inv, Life, Kept, Sorting, Stopping
  <2> QED  BY <2>3, <2>4, <2>5, <2>6 DEF Inv
<1> QED  BY <1>2, <1>3, <1>4, <1>5

\* The main thread up to the end of the join, the parent's stop and a kill.
LEMMA InvControl ==
  ASSUME Inv,
         Start \/ StartFails \/ Watch \/ Joined \/ JoinTimesOut \/ SortRead \/ SortFails
           \/ Killed \/ Stop
  PROVE  Inv'
<1> USE DEF MainUnchanged, wireVars
<1>1. /\ UNCHANGED <<mode, single, sent, flight, taken, queue, disk>>
      /\ buffer' = buffer \/ buffer' = <<>>
  BY DEF Start, StartFails, Watch, Joined, JoinTimesOut, SortRead, SortFails, Killed, Stop
<1>2. TypeOK'
  <2> USE DEF Inv, TypeOK, Running, Exited
  <2>1. CASE Start         BY <2>1 DEF Start
  <2>2. CASE StartFails    BY <2>2 DEF StartFails
  <2>3. CASE Watch         BY <2>3 DEF Watch
  <2>4. CASE Joined        BY <2>4 DEF Joined
  <2>5. CASE JoinTimesOut  BY <2>5, NoFrames DEF JoinTimesOut
  <2>6. CASE SortRead      BY <2>6 DEF SortRead
  <2>7. CASE SortFails     BY <2>7 DEF SortFails
  <2>8. CASE Killed        BY <2>8, NoFrames DEF Killed
  <2>9. CASE Stop          BY <2>9 DEF Stop
  <2> QED  BY <2>1, <2>2, <2>3, <2>4, <2>5, <2>6, <2>7, <2>8, <2>9
<1>3. Placed' /\ Stamped'
  <2>1. Reading' => Reading /\ buffer' = buffer
    <3>1. CASE Start
      <4>1. recv = "none" /\ main = "boot" /\ buffer' = buffer  BY <3>1 DEF Inv, Life, Start
      <4> QED  BY <4>1 DEF Reading, Running
    <3>2. CASE Stop \/ Watch \/ Joined \/ SortRead
      BY <3>2 DEF Stop, Watch, Joined, SortRead, Reading, Running
    <3>3. CASE StartFails \/ JoinTimesOut \/ SortFails \/ Killed
      BY <3>3 DEF StartFails, JoinTimesOut, SortFails, Killed, Reading, Running
    <3> QED  BY <3>1, <3>2, <3>3
  <2> QED  BY <1>1, <1>2, <2>1, DroppedFrames DEF Inv
<1>4. Life'
  <2> USE DEF Inv, Life, Stopping
  <2>1. CASE Start         BY <2>1 DEF Start
  <2>2. CASE StartFails    BY <2>2 DEF StartFails
  <2>3. CASE Watch         BY <2>3 DEF Watch
  <2>4. CASE Joined        BY <2>4 DEF Joined
  <2>5. CASE JoinTimesOut  BY <2>5 DEF JoinTimesOut
  <2>6. CASE SortRead      BY <2>6 DEF SortRead
  <2>7. CASE SortFails     BY <2>7 DEF SortFails
  <2>8. CASE Killed        BY <2>8 DEF Killed
  <2>9. CASE Stop          BY <2>9 DEF Stop, Running
  <2> QED  BY <2>1, <2>2, <2>3, <2>4, <2>5, <2>6, <2>7, <2>8, <2>9
<1>5. Kept'
  <2> USE DEF Inv, Kept
  <2>1. CASE Start         BY <2>1 DEF Start, Life
  <2>2. CASE StartFails    BY <2>2 DEF StartFails
  <2>3. CASE Watch         BY <2>3 DEF Watch, Life
  <2>4. CASE Joined        BY <2>4 DEF Joined
  <2>5. CASE JoinTimesOut  BY <2>5 DEF JoinTimesOut
  <2>6. CASE SortRead      BY <2>6 DEF SortRead
  <2>7. CASE SortFails     BY <2>7 DEF SortFails
  <2>8. CASE Killed        BY <2>8 DEF Killed
  <2>9. CASE Stop          BY <2>9 DEF Stop, Life, Stopping
  <2> QED  BY <2>1, <2>2, <2>3, <2>4, <2>5, <2>6, <2>7, <2>8, <2>9
<1>6. Sorting'
  <2> USE DEF Inv, Sorting
  <2>1. CASE Start         BY <2>1 DEF Start
  <2>2. CASE StartFails    BY <2>2 DEF StartFails
  <2>3. CASE Watch         BY <2>3 DEF Watch
  <2>4. CASE Joined        BY <2>4 DEF Joined
  <2>5. CASE JoinTimesOut  BY <2>5 DEF JoinTimesOut
  <2>6. CASE SortRead      BY <2>6 DEF SortRead
  <2>7. CASE SortFails     BY <2>7 DEF SortFails
  <2>8. CASE Killed        BY <2>8 DEF Killed
  <2>9. CASE Stop          BY <2>9 DEF Stop
  <2> QED  BY <2>1, <2>2, <2>3, <2>4, <2>5, <2>6, <2>7, <2>8, <2>9
<1> QED  BY <1>2, <1>3, <1>4, <1>5, <1>6 DEF Inv

\* The steps of the main thread that write: the probe, which may give up, the end
\* of the file, and the sort.
LEMMA InvFile ==
  ASSUME Inv, Probe \/ Close \/ SortWrite \/ SortSwap
  PROVE  Inv'
<1> USE DEF MainUnchanged, wireVars
<1>1. disk \o buffer \in Seq(Frame) /\ Places(disk \o buffer) = Places(disk) \cup Places(buffer)
  BY ConcatFrames DEF Inv, TypeOK
<1>2. CASE Probe
  <2>1. TypeOK'  BY <1>1, <1>2, NoFrames DEF Probe, Inv, TypeOK, Running, Exited
  <2>2. Placed' /\ Stamped'
    BY <1>2, <2>1, StillFrames, FlushedFrames DEF Probe, Inv, Reading, Running
  <2>3. Life' /\ Kept' /\ Sorting'
    BY <1>2 DEF Probe, Inv, Life, Kept, Sorting, Stopping
  <2> QED  BY <2>1, <2>2, <2>3 DEF Inv
<1>3. CASE Close
  <2>1. TypeOK'
    <3>1. 0 <= QueueMax  BY FramesAssumption
    <3> QED  BY <1>1, <1>3, <3>1, NoFrames DEF Close, Inv, TypeOK, Running, Exited
  <2>2. Placed' /\ Stamped'
    BY <1>3, <2>1, DroppedFrames, FlushedFrames DEF Close, Inv, Life, Stopping, Reading
  <2>3. Life'  BY <1>3 DEF Close, Inv, Life, Stopping
  <2>4. Kept'  BY <1>1, <1>3 DEF Close, Inv, Kept, Life, Stopping
  <2>5. Sorting'  BY <1>3 DEF Close, Inv, Sorting
  <2> QED  BY <2>1, <2>2, <2>3, <2>4, <2>5 DEF Inv
<1>4. CASE SortWrite
  <2>1. TypeOK'  BY <1>4, SortedFrames DEF SortWrite, Inv, TypeOK, Running, Exited
  <2>2. Placed' /\ Stamped'  BY <1>4, StillFrames DEF SortWrite, Inv, Reading, Running
  <2>3. Life' /\ Kept' /\ Sorting'
    BY <1>4 DEF SortWrite, Inv, Life, Kept, Sorting, Stopping
  <2> QED  BY <2>1, <2>2, <2>3 DEF Inv
<1>5. CASE SortSwap
  <2>1. /\ main = "swap" /\ main' = "exit0" /\ disk' = Sorted(disk)
        /\ UNCHANGED <<mode, single, sent, flight, taken, due, queue, buffer, stopEvt, stopped,
                       recv, fault, snap>>
    BY <1>5 DEF SortSwap, Inv, Sorting
  <2>2. /\ disk' \in Seq(Frame) /\ Len(disk') = Len(disk)
        /\ Frames(disk') = Frames(disk) /\ Places(disk') = Places(disk)
        /\ Distinct(disk') /\ InTimeOrder(disk')
    BY <2>1, SortedFrames DEF Inv, TypeOK, Placed
  <2>3. TypeOK'  BY <2>1, <2>2 DEF Inv, TypeOK, Running, Exited
  <2>4. Placed'  BY <2>1, <2>2 DEF Inv, Placed
  <2>5. Stamped'
    <3>1. Written' = Written /\ ~ Reading'  BY <2>1, <2>2 DEF Written, Reading, Running
    <3> QED  BY <2>1, <2>3, <3>1, StampedKept DEF Inv
  <2>6. Life' /\ Kept' /\ Sorting'
    BY <2>1, <2>2 DEF Inv, Life, Kept, Sorting, Stopping
  <2> QED  BY <2>3, <2>4, <2>5, <2>6 DEF Inv
<1> QED  BY <1>2, <1>3, <1>4, <1>5

\* A step that changes nothing keeps Inv.
LEMMA InvStutter == Inv /\ UNCHANGED vars => Inv'
<1> SUFFICES ASSUME Inv, UNCHANGED vars PROVE Inv'  OBVIOUS
<1>1. TypeOK' /\ Life' /\ Kept' /\ Sorting'
  BY DEF Inv, TypeOK, Life, Kept, Sorting, vars
<1>2. Placed' /\ Stamped'  BY StillFrames DEF Inv, Reading, vars
<1> QED  BY <1>1, <1>2 DEF Inv

\* Every step keeps Inv.
LEMMA InvNext == Inv /\ [Next]_vars => Inv'
<1> SUFFICES ASSUME Inv, [Next]_vars PROVE Inv'  OBVIOUS
<1>1. CASE KernelStep  BY <1>1, InvTransmit, InvDeliver DEF KernelStep
<1>2. CASE RecvStep    BY <1>2, InvReadFrame, InvRecv DEF RecvStep
<1>3. CASE MainStep    BY <1>3, InvControl, InvFile DEF MainStep
<1>4. CASE Stop        BY <1>4, InvControl
<1>5. CASE Killed      BY <1>5, InvControl
<1>6. CASE Finished \/ UNCHANGED vars  BY <1>6, InvStutter DEF Finished
<1> QED  BY <1>1, <1>2, <1>3, <1>4, <1>5, <1>6 DEF Next

\* Every frame the kernel took is accounted for, in every reachable state.
THEOREM InvInvariant == Spec => []Inv
BY InvInit, InvNext, PTL DEF Spec

-----------------------------------------------------------------------------
(* What follows for one capture *)

\* The child's variables have their types whatever goes wrong: the socket's queue
\* never overflows, and no frame is taken or due that was not sent.
THEOREM TypeCorrect == Spec => []TypeOK
BY InvInvariant, PTL DEF Inv

\* _capture_process_main exits with zero only over a file that has every frame the
\* kernel had taken when the stop came, unless the interface or the disk failed.
THEOREM CompleteCorrect == Spec => []ExitZeroIsComplete
<1>1. Inv => ExitZeroIsComplete  BY DEF Inv, Kept, ExitZeroIsComplete
<1> QED  BY <1>1, InvInvariant, PTL

\* However the kernel mixes hardware stamps, software stamps and frames without a
\* stamp in one file, _sort_pcap_by_timestamp leaves the frames of the interface's
\* clock in the order of the wire, and with the single receive queue those of each
\* of the other clocks too.
THEOREM WireOrderCorrect == Spec => []FileInWireOrder
<1>1. Inv => FileInWireOrder
  <2> SUFFICES ASSUME Inv, main = "exit0",
                      NEW i \in DOMAIN disk, NEW j \in DOMAIN disk, i < j,
                      disk[i].clock = disk[j].clock, disk[i].clock = "hw" \/ single
               PROVE  disk[i].at < disk[j].at
    BY DEF FileInWireOrder
  <2>1. disk[i] \in Written /\ disk[j] \in Written  BY DEF Written, Frames
  <2>2. disk[i] \in Arrived /\ disk[j] \in Arrived  BY <2>1 DEF Arrived
  <2>3. disk[i] \in Frame /\ disk[j] \in Frame  BY DEF Inv, TypeOK
  <2>4. /\ disk[i].at \in Nat /\ disk[i].ts \in Nat /\ disk[j].at \in Nat /\ disk[j].ts \in Nat
    BY <2>3, FramesAssumption DEF Frame
  <2>5. disk[i].ts <= disk[j].ts  BY DEF Inv, Sorting, InTimeOrder
  <2>6. disk[i].at # disk[j].at
    <3>1. i # j  BY DEF Inv, TypeOK
    <3> QED  BY <3>1 DEF Inv, Placed, Distinct
  <2>7. CASE disk[i].clock = "hw"
    <3>1. disk[i].ts = HwAhead + disk[i].at /\ disk[j].ts = HwAhead + disk[j].at
      BY <2>2, <2>7 DEF Inv, Stamped
    <3> QED  BY <2>4, <2>5, <2>6, <3>1, ClocksAssumption
  <2>8. CASE single
    <3>1. disk[j].at < disk[i].at => disk[j].ts < disk[i].ts
      BY <2>1, <2>2, <2>8 DEF Inv, Stamped
    <3> QED  BY <2>4, <2>5, <2>6, <3>1
  <2> QED  BY <2>7, <2>8
<1> QED  BY <1>1, InvInvariant, PTL

\* No step of the child, nor its death at any point of the sort, takes a record out
\* of the closed file.
THEOREM SortKeepsCorrect == Spec => SortKeepsFrames
<1>1. ASSUME Inv, [Next]_vars, main \in {"read", "write", "swap"}
      PROVE  Len(disk') = Len(disk) /\ Places(disk') = Places(disk)
  <2>1. recv = "ended"  BY <1>1 DEF Inv, Life, Stopping
  <2>2. CASE SortSwap
    <3>1. disk' = Sorted(disk)  BY <1>1, <2>2 DEF SortSwap, Inv, Sorting
    <3> QED  BY <1>1, <3>1, SortedFrames DEF Inv, TypeOK
  <2>3. CASE ~ SortSwap
    <3>1. disk' = disk
      BY <1>1, <2>1, <2>3
         DEF Next, KernelStep, Transmit, Deliver, Stop, RecvStep, Check, ReadFrame, ReadTimesOut,
             NetDown, WriteFails, MainStep, Start, StartFails, Probe, Watch, Joined, JoinTimesOut,
             Close, SortRead, SortWrite, SortFails, Killed, Finished, vars
    <3> QED  BY <3>1
  <2> QED  BY <2>2, <2>3
<1>2. Inv /\ [Next]_vars =>
        [(main \in {"read", "write", "swap"})
           => Len(disk') = Len(disk) /\ Places(disk') = Places(disk)]_vars
  BY <1>1
<1> QED  BY <1>2, InvInvariant, PTL DEF Spec, SortKeepsFrames

-----------------------------------------------------------------------------
(* The refinement of Recorder *)

\* A child that is forked is a new capture.
LEMMA RefinesInit == Init => R!Init
BY DEF Init, R!Init, Phase

\* The kernel and the receive thread only take frames and break.
LEMMA RefinesInput ==
  ASSUME Inv, KernelStep \/ RecvStep
  PROVE  [R!Next]_R!vars
<1>1. CASE Transmit
  BY <1>1 DEF Transmit, R!vars, Phase, Running
<1>2. ASSUME NEW w \in flight, Deliver(w) PROVE [R!Next]_R!vars
  <2>1. UNCHANGED <<main, stopEvt, fault, due, disk>>  BY <1>2 DEF Deliver
  <2>2. CASE UNCHANGED taken  BY <2>1, <2>2 DEF R!vars, Phase, Running
  <2>3. CASE Bound /\ taken' = taken \cup {w}
    <3>1. w \in 1..MaxFrames /\ w \notin taken  BY FramesAssumption DEF Inv, TypeOK, Placed
    <3> QED
      BY <2>1, <2>3, <3>1 DEF Bound, R!Next, R!Take, Phase, Running
  <2> QED  BY <1>2, <2>2, <2>3 DEF Deliver
<1>3. CASE RecvStep
  <2>1. main \in Running /\ UNCHANGED <<main, stopEvt, taken, due>>
    BY <1>3 DEF RecvStep, Check, ReadFrame, ReadTimesOut, NetDown, WriteFails, RecvUnchanged
  <2>2. main # "exit0"  BY <2>1 DEF Running
  <2>3. CASE UNCHANGED fault  BY <2>1, <2>2, <2>3 DEF R!vars, Phase, Running
  <2>4. CASE fault' # "none"
    BY <2>1, <2>2, <2>4 DEF R!Next, R!Break, R!vars, Phase, Running
  <2> QED
    BY <1>3, <2>3, <2>4 DEF RecvStep, Check, ReadFrame, ReadTimesOut, NetDown, WriteFails, RecvUnchanged
<1> QED  BY <1>1, <1>2, <1>3 DEF KernelStep

\* The main thread, the parent and whoever kills the child go through Recorder's
\* phases, and the file that is kept is what Recorder promises.
LEMMA RefinesControl ==
  ASSUME Inv, MainStep \/ Stop \/ Killed
  PROVE  [R!Next]_R!vars
<1> USE DEF MainUnchanged, Phase, Running, R!vars, R!Next
<1>1. CASE Start         BY <1>1 DEF Start
<1>2. CASE StartFails    BY <1>2 DEF StartFails, R!Lose
<1>3. CASE Probe         BY <1>3 DEF Probe, R!Lose, R!Begin
<1>4. CASE Watch         BY <1>4 DEF Watch
<1>5. CASE Joined        BY <1>5 DEF Joined
<1>6. CASE JoinTimesOut  BY <1>6 DEF JoinTimesOut, R!Lose
<1>7. CASE Close         BY <1>7 DEF Close, R!Break
<1>8. CASE SortRead      BY <1>8 DEF SortRead
<1>9. CASE SortWrite     BY <1>9 DEF SortWrite
<1>10. CASE SortSwap
  <2>1. /\ main = "swap" /\ main' = "exit0" /\ disk' = Sorted(disk)
        /\ UNCHANGED <<stopEvt, taken, due, fault>>
    BY <1>10 DEF SortSwap, Inv, Sorting
  <2>2. /\ disk' \in Seq(Frame) /\ Places(disk') = Places(disk)
        /\ Distinct(disk') /\ InTimeOrder(disk')
    BY <2>1, SortedFrames DEF Inv, TypeOK, Placed
  <2>3. R!InOrder(disk')
    <3>1. \A i, j \in DOMAIN disk' : i < j => i # j  BY <2>2
    <3> QED  BY <2>2, <3>1 DEF R!InOrder, Distinct, InTimeOrder
  <2>4. R!Places(disk') \subseteq taken  BY <2>2 DEF R!Places, Places, Inv, Placed
  <2>5. fault = "none" => due \subseteq R!Places(disk') /\ stopEvt
    BY <2>1, <2>2 DEF R!Places, Places, Inv, Kept, Life, Stopping
  <2> QED  BY <2>1, <2>3, <2>4, <2>5 DEF R!Keep
<1>11. CASE SortFails    BY <1>11 DEF SortFails, R!Lose
<1>12. CASE Stop         BY <1>12 DEF Stop, R!Stop
<1>13. CASE Killed       BY <1>13 DEF Killed, R!Lose
<1> QED
  BY <1>1, <1>2, <1>3, <1>4, <1>5, <1>6, <1>7, <1>8, <1>9, <1>10, <1>11, <1>12, <1>13 DEF MainStep

\* The capture process keeps the promise of Recorder: every behaviour of it, with
\* any number of frames, is one of Recorder.
THEOREM RefinesRecorder == Spec => ImplementsRecorder
<1>1. Inv /\ [Next]_vars => [R!Next]_R!vars
  <2> SUFFICES ASSUME Inv, [Next]_vars PROVE [R!Next]_R!vars  OBVIOUS
  <2>1. CASE Finished \/ UNCHANGED vars
    BY <2>1 DEF Finished, vars, R!vars, Phase, Running
  <2> QED  BY <2>1, RefinesInput, RefinesControl DEF Next
<1> QED  BY <1>1, RefinesInit, InvInvariant, PTL DEF Spec, ImplementsRecorder, R!Spec

=============================================================================
