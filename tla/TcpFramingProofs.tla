-------------------------- MODULE TcpFramingProofs --------------------------
(***************************************************************************)
(* Theorems about TcpFraming: until a piece that ran past the end of its   *)
(* frame has been thrown away, the handler reads lengths where lengths     *)
(* are, so answers match requests and uploads arrive as they were sent,    *)
(* for any paths, files and cuts of the stream.                            *)
(***************************************************************************)
EXTENDS TcpFraming, SequenceTheorems, TLAPS

\* The units of the stream.
Unit ==
  {Byte(b) : b \in Bytes} \cup {Marker} \cup {Type(d) : d \in {"cmd", "unknown", "21", "22", "24"}}
  \cup {<<"len", n>> : n \in Nat} \cup {<<"pad", 0>>}
  \cup {<<"path", p>> : p \in Paths} \cup {<<"size", n>> : n \in Nat}

\* How the units w, which the handler has not read, are cut into frames: r units end the
\* frame that it is in, then each b of B begins a frame of size[b] units of content, at
\* least `least` of them.  All of that is the content str, from behind unit c to unit s;
\* pos[b] is what of str comes before b.
CutBy(w, r, c, str, s, least, B, size, pos) ==
  /\ r \in B /\ Len(w) \in B /\ pos[r] = c + r /\ pos[Len(w)] = s
  /\ \A i \in 1..r : w[i] = str[c + i]
  /\ \A b \in B : r <= b /\ b <= Len(w) /\ pos[b] <= s
  /\ \A b \in B : b < Len(w) =>
       /\ size[b] >= least /\ b + 2 + size[b] \in B /\ pos[b + 2 + size[b]] = pos[b] + size[b]
       /\ w[b + 1] = <<"len", size[b]>> /\ w[b + 2] = <<"pad", 0>>
       /\ \A j \in 1..size[b] : w[b + 2 + j] = str[pos[b] + j]

Cut(w, r, c, str, s, least) ==
  \E B \in SUBSET Nat, size \in [Nat -> Nat], pos \in [Nat -> Nat] :
    CutBy(w, r, c, str, s, least, B, size, pos)

\* v is what is left of w when k units are read.
Behind(w, k, v) ==
  v \in Seq(Unit) /\ k \in Nat /\ Len(w) = Len(v) + k /\ \A i \in 1..Len(v) : v[i] = w[i + k]

-----------------------------------------------------------------------------
(* Streams *)

\* What \o gives, element by element.
LEMMA Joined ==
  ASSUME NEW S, NEW v \in Seq(S), NEW w \in Seq(S)
  PROVE  /\ v \o w \in Seq(S) /\ Len(v) \in Nat /\ Len(w) \in Nat /\ Len(v \o w) = Len(v) + Len(w)
         /\ \A i \in 1..Len(v) : (v \o w)[i] = v[i]
         /\ \A i \in 1..Len(w) : (v \o w)[Len(v) + i] = w[i]
<1>1. Len(v) \in Nat /\ Len(w) \in Nat  BY LenProperties
<1>2. /\ v \o w \in Seq(S) /\ Len(v \o w) = Len(v) + Len(w)
      /\ \A i \in 1..Len(v) + Len(w) : (v \o w)[i] = IF i <= Len(v) THEN v[i] ELSE w[i - Len(v)]
  BY ConcatProperties
<1>3. ASSUME NEW i \in 1..Len(v) PROVE (v \o w)[i] = v[i]
  <2>1. i \in 1..Len(v) + Len(w) /\ i <= Len(v)  BY <1>1
  <2> QED  BY <1>2, <2>1
<1>4. ASSUME NEW i \in 1..Len(w) PROVE (v \o w)[Len(v) + i] = w[i]
  <2>1. Len(v) + i \in 1..Len(v) + Len(w) /\ ~ (Len(v) + i <= Len(v)) /\ Len(v) + i - Len(v) = i
    BY <1>1
  <2> QED  BY <1>2, <2>1
<1> QED  BY <1>1, <1>2, <1>3, <1>4

\* The same for units.
LEMMA JoinedUnits ==
  ASSUME NEW v \in Seq(Unit), NEW w \in Seq(Unit)
  PROVE  /\ v \o w \in Seq(Unit) /\ Len(v \o w) = Len(v) + Len(w)
         /\ \A i \in 1..Len(v) : (v \o w)[i] = v[i]
         /\ \A i \in 1..Len(w) : (v \o w)[Len(v) + i] = w[i]
BY Joined

\* The places of a frame of n units behind b.
LEMMA InFrame ==
  ASSUME NEW b \in Nat, NEW n \in Nat, NEW m \in Nat, b + 2 + n <= m
  PROVE  b + 1 \in 1..m /\ b + 2 \in 1..m /\ \A j \in 1..n : b + 2 + j \in 1..m
OBVIOUS

\* What is below m is below what lies behind m.
LEMMA StillBelow ==
  ASSUME NEW b \in Nat, NEW m \in Nat, NEW n \in Nat, b <= m
  PROVE  b <= m + n /\ b <= m + 2 + n /\ m <= m + 2 + n
OBVIOUS

\* A frame is its length and its payload.
LEMMA FramedUnits ==
  ASSUME NEW v \in Seq(Unit)
  PROVE  /\ Framed(v) \in Seq(Unit) /\ Len(Framed(v)) = Len(v) + 2
         /\ Framed(v)[1] = <<"len", Len(v)>> /\ Framed(v)[2] = <<"pad", 0>>
         /\ \A j \in 1..Len(v) : Framed(v)[2 + j] = v[j]
<1> DEFINE hd == Header(Len(v))
<1>1. Len(v) \in Nat  BY LenProperties
<1>2. hd \in Seq(Unit) /\ Len(hd) = 2 /\ hd[1] = <<"len", Len(v)>> /\ hd[2] = <<"pad", 0>>
  BY <1>1 DEF Header, Unit
<1> HIDE DEF hd
<1>3. /\ hd \o v \in Seq(Unit) /\ Len(hd \o v) = 2 + Len(v)
      /\ (hd \o v)[1] = hd[1] /\ (hd \o v)[2] = hd[2]
      /\ \A i \in 1..Len(v) : (hd \o v)[2 + i] = v[i]
  <2>0. hd \in Seq(Unit)  BY <1>2
  <2>1. /\ hd \o v \in Seq(Unit) /\ Len(hd \o v) = Len(hd) + Len(v)
        /\ \A i \in 1..Len(hd) : (hd \o v)[i] = hd[i]
        /\ \A i \in 1..Len(v) : (hd \o v)[Len(hd) + i] = v[i]
    BY <2>0, JoinedUnits
  <2> QED  BY <1>1, <1>2, <2>1
<1>4. Framed(v) = hd \o v  BY DEF Framed, hd
<1> QED  BY <1>1, <1>2, <1>3, <1>4

\* Nothing is on the way: all that was sent is behind.
LEMMA CutEmpty ==
  ASSUME NEW c \in Nat, NEW str, NEW least \in Nat
  PROVE  Cut(<<>>, 0, c, str, c, least)
<1> DEFINE size == [b \in Nat |-> 0]
           pos == [b \in Nat |-> c]
<1>1. CutBy(<<>>, 0, c, str, c, least, {0}, size, pos)  BY DEF CutBy
<1>2. {0} \in SUBSET Nat /\ size \in [Nat -> Nat] /\ pos \in [Nat -> Nat]  OBVIOUS
<1> QED  BY <1>1, <1>2 DEF Cut

\* A frame is sent.
LEMMA CutSend ==
  ASSUME NEW w \in Seq(Unit), NEW r \in Nat, NEW c \in Nat, NEW str, NEW s \in Nat,
         NEW least \in Nat, Cut(w, r, c, str, s, least),
         NEW v \in Seq(Unit), Len(v) >= least, \A j \in 1..Len(v) : v[j] = str[s + j]
  PROVE  w \o Framed(v) \in Seq(Unit) /\ Cut(w \o Framed(v), r, c, str, s + Len(v), least)
<1> DEFINE n == Len(v)
           m == Len(w)
           x == w \o Framed(v)
<1>1. n \in Nat /\ m \in Nat  BY LenProperties
<1>2. /\ x \in Seq(Unit) /\ Len(x) = m + 2 + n
      /\ \A i \in 1..m : x[i] = w[i]
      /\ x[m + 1] = <<"len", n>> /\ x[m + 2] = <<"pad", 0>>
      /\ \A j \in 1..n : x[m + 2 + j] = str[s + j]
  <2> DEFINE f == Framed(v)
  <2>1. /\ f \in Seq(Unit) /\ Len(f) = n + 2 /\ f[1] = <<"len", n>> /\ f[2] = <<"pad", 0>>
        /\ \A j \in 1..n : f[2 + j] = v[j]
    BY FramedUnits
  <2> HIDE DEF f
  <2>0. f \in Seq(Unit)  BY <2>1
  <2>2. /\ w \o f \in Seq(Unit) /\ Len(w \o f) = m + Len(f)
        /\ \A i \in 1..m : (w \o f)[i] = w[i]
        /\ \A i \in 1..Len(f) : (w \o f)[m + i] = f[i]
    <3> HIDE DEF n, m
    <3>1. /\ w \o f \in Seq(Unit) /\ Len(w \o f) = Len(w) + Len(f)
          /\ \A i \in 1..Len(w) : (w \o f)[i] = w[i]
          /\ \A i \in 1..Len(f) : (w \o f)[Len(w) + i] = f[i]
      BY <2>0, JoinedUnits
    <3> QED  BY <3>1 DEF m
  <2>3. x = w \o f  BY DEF f
  <2>4. \A j \in 1..n : v[j] = str[s + j]  OBVIOUS
  <2> HIDE DEF x, n, m
  <2>5. x[m + 1] = f[1] /\ x[m + 2] = f[2]
    <3>1. 1 \in 1..Len(f) /\ 2 \in 1..Len(f)  BY <1>1, <2>1
    <3> QED  BY <2>2, <2>3, <3>1
  <2>6. ASSUME NEW j \in 1..n PROVE x[m + 2 + j] = str[s + j]
    <3>1. 2 + j \in 1..Len(f) /\ m + 2 + j = m + (2 + j)  BY <1>1, <2>1
    <3> QED  BY <2>1, <2>2, <2>3, <2>4, <3>1
  <2>7. Len(x) = m + 2 + n  BY <1>1, <2>1, <2>2, <2>3
  <2> QED  BY <2>1, <2>2, <2>3, <2>5, <2>6, <2>7
<1>3. PICK B \in SUBSET Nat, size \in [Nat -> Nat], pos \in [Nat -> Nat] :
        CutBy(w, r, c, str, s, least, B, size, pos)
  BY DEF Cut
<1> HIDE DEF n, m, x
<1> DEFINE C == B \cup {m + 2 + n}
           size2 == [size EXCEPT ![m] = n]
           pos2 == [pos EXCEPT ![m + 2 + n] = s + n]
<1>4. /\ B \in SUBSET Nat /\ size \in [Nat -> Nat] /\ pos \in [Nat -> Nat]
      /\ r \in B /\ m \in B /\ pos[r] = c + r /\ pos[m] = s
      /\ \A i \in 1..r : w[i] = str[c + i]
      /\ \A b \in B : r <= b /\ b <= m /\ pos[b] <= s
      /\ \A b \in B : b < m =>
           /\ size[b] >= least /\ b + 2 + size[b] \in B /\ pos[b + 2 + size[b]] = pos[b] + size[b]
           /\ w[b + 1] = <<"len", size[b]>> /\ w[b + 2] = <<"pad", 0>>
           /\ \A j \in 1..size[b] : w[b + 2 + j] = str[pos[b] + j]
  BY <1>3 DEF CutBy, m
<1>5. m + 2 + n \in Nat /\ m + 2 + n \notin B  BY <1>1, <1>4
<1>6. C \in SUBSET Nat /\ size2 \in [Nat -> Nat] /\ pos2 \in [Nat -> Nat]
  <2>1. C \in SUBSET Nat  BY <1>4, <1>5
  <2>2. size2 \in [Nat -> Nat]  BY <1>1, <1>4
  <2>3. s + n \in Nat  BY <1>1
  <2>4. pos2 \in [Nat -> Nat]  BY <1>4, <1>5, <2>3
  <2> QED  BY <2>1, <2>2, <2>4
<1>13. /\ pos2[m + 2 + n] = s + n /\ size2[m] = n
       /\ \A b \in Nat : b # m + 2 + n => pos2[b] = pos[b]
       /\ \A b \in Nat : b # m => size2[b] = size[b]
  BY <1>1, <1>4, <1>5
<1>14. \A b \in B : b \in Nat /\ size[b] \in Nat /\ pos[b] \in Nat /\ pos2[b] = pos[b]
  BY <1>4, <1>5, <1>13
<1> HIDE DEF size2, pos2, C
<1>16. Len(x) = m + 2 + n  BY <1>2
<1>15. \A b : b \in C <=> b \in B \/ b = m + 2 + n  BY DEF C
<1>7. r \in C /\ Len(x) \in C /\ pos2[r] = c + r /\ pos2[Len(x)] = s + n
  BY <1>2, <1>4, <1>13, <1>14, <1>15
<1>8. \A i \in 1..r : x[i] = str[c + i]
  <2>1. r <= m  BY <1>4
  <2> QED  BY <1>1, <1>2, <1>4, <2>1
<1>9. \A b \in C : r <= b /\ b <= Len(x) /\ pos2[b] <= s + n
  <2>1. ASSUME NEW b \in B PROVE r <= b /\ b <= Len(x) /\ pos2[b] <= s + n
    <3>1. b \in Nat /\ pos[b] \in Nat /\ pos2[b] = pos[b] /\ r <= b /\ b <= m /\ pos[b] <= s
      BY <1>4, <1>14
    <3>2. m <= m + 2 + n /\ b <= m + 2 + n  BY <1>1, <3>1, StillBelow, Zenon
    <3>3. pos[b] <= s + n  BY <1>1, <3>1, StillBelow, Zenon
    <3> QED  BY <1>16, <3>1, <3>2, <3>3, Zenon
  <2>2. r <= m + 2 + n /\ pos2[m + 2 + n] <= s + n  BY <1>1, <1>4, <1>13
  <2>3. m + 2 + n <= Len(x)  BY <1>1, <1>2
  <2> QED  BY <1>15, <2>1, <2>2, <2>3
<1>10. ASSUME NEW b \in C, b < Len(x)
       PROVE  /\ size2[b] >= least /\ b + 2 + size2[b] \in C
              /\ pos2[b + 2 + size2[b]] = pos2[b] + size2[b]
              /\ x[b + 1] = <<"len", size2[b]>> /\ x[b + 2] = <<"pad", 0>>
              /\ \A j \in 1..size2[b] : x[b + 2 + j] = str[pos2[b] + j]
  <2>1. b \in B /\ b \in Nat
    <3>1. b # m + 2 + n  BY <1>1, <1>2, <1>10
    <3> QED  BY <1>14, <1>15, <3>1
  <2>2. CASE b = m
    <3>1. size2[b] = n /\ pos2[b] = s /\ b + 2 + size2[b] = m + 2 + n
      BY <1>4, <1>13, <1>14, <2>1, <2>2
    <3>2. n >= least  BY DEF n
    <3> QED  BY <1>2, <1>13, <1>15, <2>2, <3>1, <3>2
  <2>3. CASE b # m
    <3>1. b < m  BY <1>1, <1>4, <2>1, <2>3
    <3>2. /\ size[b] >= least /\ b + 2 + size[b] \in B /\ pos[b + 2 + size[b]] = pos[b] + size[b]
          /\ w[b + 1] = <<"len", size[b]>> /\ w[b + 2] = <<"pad", 0>>
          /\ \A j \in 1..size[b] : w[b + 2 + j] = str[pos[b] + j]
      BY <1>4, <2>1, <3>1
    <3>3. b + 2 + size[b] <= m /\ size[b] \in Nat  BY <1>4, <1>14, <2>1, <3>2
    <3>4. size2[b] = size[b] /\ pos2[b] = pos[b] /\ pos2[b + 2 + size[b]] = pos[b + 2 + size[b]]
      BY <1>13, <1>14, <2>1, <2>3, <3>2
    <3>5. x[b + 1] = w[b + 1] /\ x[b + 2] = w[b + 2]
      <4>1. b + 1 \in 1..m /\ b + 2 \in 1..m  BY <1>1, <2>1, <3>3, InFrame, Zenon
      <4> QED  BY <1>2, <4>1
    <3>6. ASSUME NEW j \in 1..size[b] PROVE x[b + 2 + j] = w[b + 2 + j]
      <4>1. b + 2 + j \in 1..m  BY <1>1, <2>1, <3>3, InFrame, Zenon
      <4> QED  BY <1>2, <4>1
    <3>7. b + 2 + size2[b] \in C  BY <1>15, <3>2, <3>4
    <3> QED  BY <3>2, <3>4, <3>5, <3>6, <3>7
  <2> QED  BY <2>2, <2>3
<1>11. CutBy(x, r, c, str, s + n, least, C, size2, pos2)  BY <1>7, <1>8, <1>9, <1>10 DEF CutBy
<1>12. Cut(x, r, c, str, s + n, least)  BY <1>6, <1>11 DEF Cut
<1> QED  BY <1>2, <1>12 DEF x, n

\* Places counted from before and from behind k units that were read.
LEMMA Moved == \A b, k, j \in Nat : b + k + 2 + j = (b + 2 + j) + k
OBVIOUS

\* The next boundary, counted from behind k units that were read.
LEMMA MovedBack ==
  \A b, k, n, q, l \in Nat :
     b + k + 2 + n <= l + k /\ q <= b => b + 2 + n \in Nat /\ q <= b + 2 + n /\ b + 2 + n <= l
OBVIOUS

\* The first boundary behind k units that are read is q units on.
StartsAt(q, k, d, v, str, B, pos) ==
  q + k \in B /\ pos[q + k] = d + q /\ \A i \in 1..q : v[i] = str[d + i]

\* Units are read: what is left is cut as before.
LEMMA CutShift ==
  ASSUME NEW w \in Seq(Unit), NEW r \in Nat, NEW c \in Nat, NEW str, NEW s \in Nat,
         NEW least \in Nat, NEW B \in SUBSET Nat,
         NEW size \in [Nat -> Nat], NEW pos \in [Nat -> Nat],
         CutBy(w, r, c, str, s, least, B, size, pos),
         NEW v, NEW k, Behind(w, k, v), NEW q \in Nat, NEW d \in Nat,
         StartsAt(q, k, d, v, str, B, pos)
  PROVE  Cut(v, q, d, str, s, least)
<1> DEFINE C == {b \in Nat : q <= b /\ b + k \in B}
           size2 == [b \in Nat |-> size[b + k]]
           pos2 == [b \in Nat |-> pos[b + k]]
           l == Len(v)
<1>0. v \in Seq(Unit) /\ k \in Nat /\ Len(w) = l + k /\ \A i \in 1..l : v[i] = w[i + k]
  BY DEF Behind
<1>1. l \in Nat  BY <1>0, LenProperties
<1>2. /\ \A b \in B : b \in Nat /\ b <= l + k /\ pos[b] <= s
      /\ l + k \in B /\ pos[l + k] = s
  BY <1>0 DEF CutBy
<1>3. \A b \in B : b < l + k =>
        /\ size[b] >= least /\ b + 2 + size[b] \in B /\ pos[b + 2 + size[b]] = pos[b] + size[b]
        /\ w[b + 1] = <<"len", size[b]>> /\ w[b + 2] = <<"pad", 0>>
        /\ \A j \in 1..size[b] : w[b + 2 + j] = str[pos[b] + j]
  BY <1>0 DEF CutBy
<1>4. k \in Nat /\ \A i \in 1..l : v[i] = w[i + k]  BY <1>0
<1>5. \A i \in 1..q : v[i] = str[d + i]  BY DEF StartsAt
<1>10. q + k \in B /\ pos[q + k] = d + q  BY DEF StartsAt
<1>6. q <= l
  <2>1. q + k <= l + k  BY <1>2, <1>10
  <2> QED  BY <1>1, <1>4, <2>1
<1>7. C \in SUBSET Nat /\ size2 \in [Nat -> Nat] /\ pos2 \in [Nat -> Nat]
  <2>1. \A b \in Nat : b + k \in Nat  BY <1>4
  <2>2. \A a \in Nat : size[a] \in Nat /\ pos[a] \in Nat  OBVIOUS
  <2>3. \A b \in Nat : size[b + k] \in Nat /\ pos[b + k] \in Nat  BY <2>1, <2>2, Zenon
  <2> QED  BY <2>3, Zenon
<1>8. \A b \in Nat : size2[b] = size[b + k] /\ pos2[b] = pos[b + k]  OBVIOUS
<1>9. \A b : b \in C <=> b \in Nat /\ q <= b /\ b + k \in B  OBVIOUS
<1> HIDE DEF C, size2, pos2, l
<1>11. q \in C /\ l \in C /\ pos2[q] = d + q /\ pos2[l] = s
  <2>0. q <= q  OBVIOUS
  <2>1. q \in C  BY <1>9, <1>10, <2>0, Zenon
  <2>2. l \in C  BY <1>1, <1>2, <1>6, <1>9, Zenon
  <2>3. pos2[q] = d + q  BY <1>8, <1>10, Zenon
  <2>4. pos2[l] = s  BY <1>1, <1>2, <1>8, Zenon
  <2> QED  BY <2>1, <2>2, <2>3, <2>4
<1>12. \A b \in C : q <= b /\ b <= l /\ pos2[b] <= s
  <2>1. ASSUME NEW b \in C PROVE q <= b /\ b <= l /\ pos2[b] <= s
    <3>1. b \in Nat /\ q <= b /\ b + k \in B  BY <1>9, <2>1
    <3>2. b + k <= l + k /\ pos[b + k] <= s  BY <1>2, <3>1
    <3>3. b <= l  BY <1>1, <1>4, <3>1, <3>2
    <3> QED  BY <1>8, <3>1, <3>2, <3>3
  <2> QED  BY <2>1
<1>13. ASSUME NEW b \in C, b < l
       PROVE  /\ size2[b] >= least /\ b + 2 + size2[b] \in C
              /\ pos2[b + 2 + size2[b]] = pos2[b] + size2[b]
              /\ v[b + 1] = <<"len", size2[b]>> /\ v[b + 2] = <<"pad", 0>>
              /\ \A j \in 1..size2[b] : v[b + 2 + j] = str[pos2[b] + j]
  <2> DEFINE a == b + k
             n == size[a]
  <2>1. b \in Nat /\ q <= b /\ a \in B /\ a \in Nat /\ n \in Nat  BY <1>4, <1>9, <1>13
  <2>2. a < l + k  BY <1>1, <1>4, <1>13, <2>1
  <2>3. /\ n >= least /\ a + 2 + n \in B /\ pos[a + 2 + n] = pos[a] + n
        /\ w[a + 1] = <<"len", n>> /\ w[a + 2] = <<"pad", 0>>
        /\ \A j \in 1..n : w[a + 2 + j] = str[pos[a] + j]
    BY <1>3, <2>1, <2>2
  <2>4. a + 2 + n <= l + k  BY <1>2, <2>3
  <2>5. size2[b] = n /\ pos2[b] = pos[a]  BY <1>8, <2>1
  <2>6. a + 1 = (b + 1) + k /\ a + 2 = (b + 2) + k /\ a + 2 + n = (b + 2 + n) + k  BY <1>4, <2>1
  <2> HIDE DEF n
  <2>7. b + 2 + n \in Nat /\ q <= b + 2 + n /\ b + 2 + n <= l
    <3>1. a + 2 + n <= l + k /\ n \in Nat /\ b \in Nat /\ q <= b  BY <2>1, <2>4
    <3> QED  BY <1>1, <1>4, <3>1, MovedBack, Zenon
  <2>8. b + 2 + n \in C /\ pos2[b + 2 + n] = pos2[b] + n
    <3>1. b + 2 + n \in C  BY <1>9, <2>3, <2>6, <2>7
    <3>2. pos2[b + 2 + n] = pos[(b + 2 + n) + k]  BY <1>8, <2>7, Zenon
    <3>3. pos2[b + 2 + n] = pos[a + 2 + n]  BY <2>6, <3>2, Zenon
    <3> QED  BY <2>3, <2>5, <3>1, <3>3
  <2>9. v[b + 1] = <<"len", n>> /\ v[b + 2] = <<"pad", 0>>
    <3>1. b + 1 \in 1..l /\ b + 2 \in 1..l  BY <1>1, <2>1, <2>7, InFrame, Zenon
    <3> QED  BY <1>4, <2>3, <2>6, <3>1
  <2>10. ASSUME NEW j \in 1..n PROVE v[b + 2 + j] = str[pos2[b] + j]
    <3>1. b + 2 + j \in 1..l  BY <1>1, <2>1, <2>7, InFrame, Zenon
    <3>2. a + 2 + j = (b + 2 + j) + k
      <4>1. b \in Nat /\ k \in Nat /\ j \in Nat  BY <1>4, <2>1
      <4>2. b + k + 2 + j = (b + 2 + j) + k  BY <4>1, Moved, SMT
      <4> QED  BY <4>2, Zenon
    <3>3. v[b + 2 + j] = w[(b + 2 + j) + k]  BY <1>4, <3>1, Zenon
    <3>4. v[b + 2 + j] = w[a + 2 + j]  BY <3>2, <3>3, Zenon
    <3> QED  BY <2>3, <2>5, <3>4
  <2> QED  BY <2>3, <2>5, <2>8, <2>9, <2>10
<1>14. CutBy(v, q, d, str, s, least, C, size2, pos2)
  BY <1>5, <1>11, <1>12, <1>13 DEF CutBy, l
<1> QED  BY <1>7, <1>14 DEF Cut

\* What ends the current frame, and that it is all when nothing follows.
LEMMA CutFacts ==
  ASSUME NEW w \in Seq(Unit), NEW r \in Nat, NEW c \in Nat, NEW str, NEW s \in Nat,
         NEW least \in Nat, Cut(w, r, c, str, s, least)
  PROVE  /\ r <= Len(w) /\ c + r <= s
         /\ Len(w) = r => c + r = s
<1>1. PICK B \in SUBSET Nat, size \in [Nat -> Nat], pos \in [Nat -> Nat] :
        CutBy(w, r, c, str, s, least, B, size, pos)
  BY DEF Cut
<1>2. /\ r \in B /\ pos[r] = c + r /\ pos[Len(w)] = s
      /\ \A b \in B : b <= Len(w) /\ pos[b] <= s
  BY <1>1 DEF CutBy
<1> QED  BY <1>2

\* The rest of the current frame is content.
LEMMA CutContent ==
  ASSUME NEW w, NEW r, NEW c, NEW str, NEW s, NEW least, Cut(w, r, c, str, s, least)
  PROVE  \A i \in 1..r : w[i] = str[c + i]
BY DEF Cut, CutBy

\* Some of the current frame is read.
LEMMA CutSkip ==
  ASSUME NEW w \in Seq(Unit), NEW r \in Nat, NEW c \in Nat, NEW str, NEW s \in Nat,
         NEW least \in Nat, Cut(w, r, c, str, s, least),
         NEW v, NEW k, Behind(w, k, v), k <= r
  PROVE  Cut(v, r - k, c + k, str, s, least)
<1>1. PICK B \in SUBSET Nat, size \in [Nat -> Nat], pos \in [Nat -> Nat] :
        CutBy(w, r, c, str, s, least, B, size, pos)
  BY DEF Cut
<1> DEFINE q == r - k
           d == c + k
<1>0. v \in Seq(Unit) /\ k \in Nat /\ Len(w) = Len(v) + k /\ \A i \in 1..Len(v) : v[i] = w[i + k]
  BY DEF Behind
<1>2. q \in Nat /\ d \in Nat /\ q + k = r /\ d + q = c + r  BY <1>0
<1>3. r \in B /\ pos[r] = c + r /\ \A i \in 1..r : w[i] = str[c + i]  BY <1>1 DEF CutBy
<1>4. r <= Len(w) /\ Len(v) \in Nat  BY <1>0, CutFacts, LenProperties
<1>5. ASSUME NEW i \in 1..q PROVE v[i] = str[d + i]
  <2>1. i \in 1..Len(v) /\ i + k \in 1..r /\ c + (i + k) = d + i
    BY <1>0, <1>2, <1>4
  <2>2. v[i] = w[i + k] /\ w[i + k] = str[c + (i + k)]  BY <1>0, <1>3, <2>1
  <2> QED  BY <2>1, <2>2
<1> HIDE DEF q, d
<1>6. StartsAt(q, k, d, v, str, B, pos)  BY <1>2, <1>3, <1>5 DEF StartsAt
<1>7. Cut(v, q, d, str, s, least)  BY <1>1, <1>2, <1>6, CutShift
<1> QED  BY <1>7 DEF q, d

\* Behind the current frame is the length of the next, and what is left of the content
\* has room for it.
LEMMA CutOpen ==
  ASSUME NEW w \in Seq(Unit), NEW c \in Nat, NEW str, NEW s \in Nat,
         NEW least \in Nat, Cut(w, 0, c, str, s, least), Len(w) > 0
  PROVE  \E n \in Nat :
           /\ n >= least /\ c + n <= s /\ n + 2 <= Len(w)
           /\ w[1] = <<"len", n>> /\ w[2] = <<"pad", 0>>
           /\ \A v : Behind(w, 2, v) => Cut(v, n, c, str, s, least)
<1>1. PICK B \in SUBSET Nat, size \in [Nat -> Nat], pos \in [Nat -> Nat] :
        CutBy(w, 0, c, str, s, least, B, size, pos)
  BY DEF Cut
<1> DEFINE n == size[0]
<1>2. n \in Nat  BY <1>1
<1>3. 0 \in B /\ pos[0] = c /\ \A b \in B : b <= Len(w) /\ pos[b] <= s
  BY <1>1 DEF CutBy
<1>4. /\ n >= least /\ 0 + 2 + n \in B /\ pos[0 + 2 + n] = pos[0] + n
      /\ w[0 + 1] = <<"len", n>> /\ w[0 + 2] = <<"pad", 0>>
      /\ \A j \in 1..n : w[0 + 2 + j] = str[pos[0] + j]
  BY <1>1, <1>3 DEF CutBy
<1> HIDE DEF n
<1>5. /\ n >= least /\ n + 2 \in B /\ pos[n + 2] = c + n
      /\ w[1] = <<"len", n>> /\ w[2] = <<"pad", 0>>
  <2>1. 0 + 2 + n = n + 2 /\ 0 + 1 = 1 /\ 0 + 2 = 2  BY <1>2
  <2> QED  BY <1>3, <1>4, <2>1
<1>6. c + n <= s /\ n + 2 <= Len(w)  BY <1>3, <1>5
<1>7. ASSUME NEW v, Behind(w, 2, v) PROVE Cut(v, n, c, str, s, least)
  <2>4. v \in Seq(Unit) /\ Len(w) = Len(v) + 2 /\ \A i \in 1..Len(v) : v[i] = w[i + 2]
    BY <1>7 DEF Behind
  <2>0. Len(v) \in Nat  BY <2>4, LenProperties
  <2>1. ASSUME NEW i \in 1..n PROVE v[i] = str[c + i]
    <3>0. i \in 1..Len(v)
      <4>1. n + 2 <= Len(v) + 2  BY <1>6, <2>4
      <4>2. n <= Len(v)  BY <1>2, <2>0, <4>1
      <4> QED  BY <1>2, <2>0, <4>2
    <3>1. i \in 1..Len(v) /\ 0 + 2 + i = i + 2  BY <2>0, <3>0
    <3>2. v[i] = w[i + 2]  BY <2>4, <3>1
    <3> QED  BY <1>3, <1>4, <3>1, <3>2
  <2>2. 2 \in Nat /\ 0 \in Nat  OBVIOUS
  <2>3. StartsAt(n, 2, c, v, str, B, pos)  BY <1>5, <2>1 DEF StartsAt
  <2> QED  BY <1>1, <1>2, <1>7, <2>2, <2>3, CutShift
<1> QED  BY <1>2, <1>5, <1>6, <1>7

-----------------------------------------------------------------------------
(* Pieces *)

\* With pending and t received of a frame and w still on the way: all of it is the
\* content str, of which d units came in earlier frames and s units were sent.
StreamedBy(w, p, t, str, d, s, least) ==
  /\ w \in Seq(Unit) /\ p \in Nat /\ t \in Seq(Unit)
  /\ \A i \in 1..Len(t) : t[i] = str[d + i]
  /\ (p = 0 /\ t = <<>>) \/ (Len(t) < p /\ p >= least)
  /\ Cut(w, p - Len(t), d + Len(t), str, s, least)

\* A whole frame t of that content, with v behind it.
Arrived(t, v, str, d, s, least) ==
  /\ t \in Seq(Unit) /\ v \in Seq(Unit)
  /\ Len(t) >= least /\ d + Len(t) <= s
  /\ \A i \in 1..Len(t) : t[i] = str[d + i]
  /\ Cut(v, 0, d + Len(t), str, s, least)

\* What SubSeq cuts off and what it leaves.
LEMMA Split ==
  ASSUME NEW w \in Seq(Unit), NEW k \in Nat, k <= Len(w)
  PROVE  /\ SubSeq(w, 1, k) \in Seq(Unit) /\ Len(SubSeq(w, 1, k)) = k
         /\ \A i \in 1..k : SubSeq(w, 1, k)[i] = w[i]
         /\ Behind(w, k, SubSeq(w, k + 1, Len(w)))
<1>1. Len(w) \in Nat  BY LenProperties
<1>2. \A i \in 1..Len(w) : w[i] \in Unit  BY ElementOfSeq
<1>3. /\ SubSeq(w, 1, k) \in Seq(Unit) /\ Len(SubSeq(w, 1, k)) = k
      /\ \A i \in 1..k : SubSeq(w, 1, k)[i] = w[i]
  BY <1>1, <1>2, SubSeqProperties
<1>4. /\ SubSeq(w, k + 1, Len(w)) \in Seq(Unit) /\ Len(w) = Len(SubSeq(w, k + 1, Len(w))) + k
      /\ \A i \in 1..Len(SubSeq(w, k + 1, Len(w))) : SubSeq(w, k + 1, Len(w))[i] = w[i + k]
  BY <1>1, <1>2, SubSeqProperties
<1> QED  BY <1>3, <1>4 DEF Behind

\* Units read in two goes.
LEMMA BehindMore ==
  ASSUME NEW w, NEW j, NEW k, NEW x, NEW v, Behind(w, j, x), Behind(w, k, v), j <= k
  PROVE  Behind(x, k - j, v)
<1>1. /\ x \in Seq(Unit) /\ j \in Nat /\ Len(w) = Len(x) + j /\ \A i \in 1..Len(x) : x[i] = w[i + j]
  BY DEF Behind
<1>2. /\ v \in Seq(Unit) /\ k \in Nat /\ Len(w) = Len(v) + k /\ \A i \in 1..Len(v) : v[i] = w[i + k]
  BY DEF Behind
<1>3. Len(x) \in Nat /\ Len(v) \in Nat  BY <1>1, <1>2, LenProperties
<1>4. k - j \in Nat /\ Len(x) = Len(v) + (k - j)
  <2>1. j \in Nat /\ k \in Nat /\ Len(x) + j = Len(v) + k  BY <1>1, <1>2
  <2> QED  BY <1>3, <2>1
<1>5. ASSUME NEW i \in 1..Len(v) PROVE v[i] = x[i + (k - j)]
  <2>1. i + (k - j) \in 1..Len(x) /\ (i + (k - j)) + j = i + k
    <3>1. j \in Nat /\ k \in Nat  BY <1>1, <1>2
    <3> QED  BY <1>3, <1>4, <3>1
  <2> QED  BY <1>1, <1>2, <2>1
<1> QED  BY <1>2, <1>4, <1>5 DEF Behind

\* A piece that stays in the frame, or ends it.
LEMMA PieceInFrame ==
  ASSUME NEW str, NEW d \in Nat, NEW s \in Nat, NEW least \in Nat, NEW w, NEW p, NEW t,
         StreamedBy(w, p, t, str, d, s, least), p # 0,
         NEW k \in 1..Len(w), Len(t \o SubSeq(w, 1, k)) <= p
  PROVE  IF Len(t \o SubSeq(w, 1, k)) < p
         THEN StreamedBy(SubSeq(w, k + 1, Len(w)), p, t \o SubSeq(w, 1, k), str, d, s, least)
         ELSE Arrived(t \o SubSeq(w, 1, k), SubSeq(w, k + 1, Len(w)), str, d, s, least)
<1> DEFINE g == SubSeq(w, 1, k)
           v == SubSeq(w, k + 1, Len(w))
           u == t \o g
           r == p - Len(t)
           c == d + Len(t)
<1>1. /\ w \in Seq(Unit) /\ p \in Nat /\ t \in Seq(Unit)
      /\ \A i \in 1..Len(t) : t[i] = str[d + i]
      /\ Len(t) < p /\ p >= least
      /\ Cut(w, r, c, str, s, least)
  BY DEF StreamedBy
<1>2. Len(w) \in Nat /\ Len(t) \in Nat  BY <1>1, LenProperties
<1>3. k \in Nat /\ k <= Len(w)  BY <1>2
<1>4. /\ g \in Seq(Unit) /\ Len(g) = k /\ Behind(w, k, v)
      /\ \A i \in 1..k : g[i] = w[i]
  BY <1>1, <1>3, Split
<1>5. v \in Seq(Unit)  BY <1>4 DEF Behind
<1> HIDE DEF g, v
<1>6. /\ u \in Seq(Unit) /\ Len(u) = Len(t) + Len(g)
      /\ \A i \in 1..Len(t) : u[i] = t[i]
      /\ \A i \in 1..Len(g) : u[Len(t) + i] = g[i]
  BY <1>1, <1>4, JoinedUnits
<1>7. Len(u) <= p  BY DEF g
<1>8. r \in Nat /\ c \in Nat /\ Len(u) = Len(t) + k /\ k <= r
  BY <1>1, <1>2, <1>3, <1>4, <1>6, <1>7
<1> HIDE DEF u
<1>9. p - Len(u) = r - k /\ d + Len(u) = c + k
  BY <1>1, <1>2, <1>3, <1>8
<1> HIDE DEF r, c
<1>10. r <= Len(w) /\ c + r <= s /\ \A i \in 1..r : w[i] = str[c + i]
  <2>1. w \in Seq(Unit) /\ Cut(w, r, c, str, s, least) /\ r \in Nat /\ c \in Nat  BY <1>1, <1>8
  <2>2. r <= Len(w) /\ c + r <= s  BY <2>1, CutFacts
  <2>3. \A i \in 1..r : w[i] = str[c + i]  BY <2>1, CutContent, SMT
  <2> QED  BY <2>2, <2>3, Zenon
<1>11. Cut(v, r - k, c + k, str, s, least)
  BY <1>1, <1>3, <1>4, <1>8, CutSkip
<1>12. ASSUME NEW i \in 1..Len(u) PROVE u[i] = str[d + i]
  <2>1. CASE i \in 1..Len(t)  BY <1>1, <1>6, <2>1
  <2>2. CASE i \notin 1..Len(t)
    <3>1. PICK j \in 1..k : i = Len(t) + j
      <4>1. i - Len(t) \in 1..k /\ i = Len(t) + (i - Len(t))
        BY <1>2, <1>3, <1>8, <1>12, <2>2
      <4> QED  BY <4>1
    <3>2. j \in 1..k  BY <3>1
    <3>3. j \in 1..r /\ c + j = d + i  BY <1>2, <1>3, <1>8, <3>1 DEF c
    <3>4. u[i] = g[j] /\ g[j] = w[j]  BY <1>4, <1>6, <3>1, <3>2
    <3>5. w[j] = str[c + j]  BY <1>10, <3>3
    <3> QED  BY <3>3, <3>4, <3>5
  <2> QED  BY <2>1, <2>2
<1>13. CASE Len(u) < p
  <2>1. Cut(v, p - Len(u), d + Len(u), str, s, least)  BY <1>9, <1>11
  <2>2. StreamedBy(v, p, u, str, d, s, least)
    BY <1>1, <1>5, <1>6, <1>12, <1>13, <2>1 DEF StreamedBy
  <2> QED  BY <1>13, <2>2 DEF u, v, g
<1>14. CASE ~ (Len(u) < p)
  <2>1. Len(u) = p /\ k = r
    <3>1. Len(u) \in Nat  BY <1>2, <1>3, <1>8
    <3>2. Len(u) = p  BY <1>1, <1>7, <1>14, <3>1
    <3>3. p \in Nat /\ Len(t) \in Nat /\ k \in Nat /\ Len(t) + k = p
      BY <1>1, <1>2, <1>3, <1>8, <3>2
    <3>4. k = p - Len(t)  BY <3>3
    <3> QED  BY <3>2, <3>4 DEF r
  <2>2. r - k = 0 /\ c + r = d + Len(u)  BY <1>3, <1>9, <2>1
  <2>3. Cut(v, 0, d + Len(u), str, s, least)  BY <1>9, <1>11, <2>2
  <2>4. d + Len(u) <= s /\ Len(u) >= least  BY <1>1, <1>10, <2>1, <2>2
  <2>5. Arrived(u, v, str, d, s, least)
    BY <1>5, <1>6, <1>12, <2>3, <2>4 DEF Arrived
  <2> QED  BY <1>14, <2>5 DEF u, v, g
<1> QED  BY <1>13, <1>14

\* A piece that begins a frame has its length, n.
LEMMA PieceOfNext ==
  ASSUME NEW str, NEW d \in Nat, NEW s \in Nat, NEW least \in Nat, NEW w, NEW t,
         StreamedBy(w, 0, t, str, d, s, least),
         NEW k \in 1..Len(w), k >= 2, NEW n \in Announced(SubSeq(w, 1, k)),
         \/ Len(SubSeq(SubSeq(w, 1, k), 3, k)) < n
         \/ Len(SubSeq(SubSeq(w, 1, k), 3, k)) = n
  PROVE  IF Len(SubSeq(SubSeq(w, 1, k), 3, k)) < n
         THEN StreamedBy(SubSeq(w, k + 1, Len(w)), n, SubSeq(SubSeq(w, 1, k), 3, k),
                         str, d, s, least)
         ELSE Arrived(SubSeq(SubSeq(w, 1, k), 3, k), SubSeq(w, k + 1, Len(w)), str, d, s, least)
<1> DEFINE g == SubSeq(w, 1, k)
           v == SubSeq(w, k + 1, Len(w))
           x == SubSeq(w, 3, Len(w))
           u == SubSeq(g, 3, k)
<1>1. w \in Seq(Unit) /\ t = <<>> /\ Cut(w, 0, d, str, s, least)
  <2>1. /\ w \in Seq(Unit) /\ t \in Seq(Unit) /\ ((0 = 0 /\ t = <<>>) \/ Len(t) < 0)
        /\ Cut(w, 0 - Len(t), d + Len(t), str, s, least)
    BY DEF StreamedBy
  <2>2. t = <<>> /\ Len(t) = 0  BY <2>1, LenProperties
  <2>3. 0 - 0 = 0 /\ d + 0 = d  OBVIOUS
  <2> QED  BY <2>1, <2>2, <2>3
<1>2. Len(w) \in Nat  BY <1>1, LenProperties
<1>3. k \in Nat /\ k <= Len(w) /\ 2 \in Nat /\ 2 <= Len(w) /\ Len(w) > 0 /\ 2 + 1 = 3  BY <1>2
<1>4. /\ g \in Seq(Unit) /\ Len(g) = k /\ Behind(w, k, v)
      /\ \A i \in 1..k : g[i] = w[i]
  BY <1>1, <1>3, Split
<1>5. Behind(w, 2, x)
  <2>1. Behind(w, 2, SubSeq(w, 2 + 1, Len(w)))  BY <1>1, <1>3, Split
  <2> QED  BY <1>3, <2>1
<1>6. /\ u \in Seq(Unit) /\ Len(g) = Len(u) + 2 /\ \A i \in 1..Len(u) : u[i] = g[i + 2]
  <2>0. g \in Seq(Unit) /\ 2 \in Nat /\ 2 <= Len(g)  BY <1>3, <1>4
  <2>1. Behind(g, 2, SubSeq(g, 2 + 1, Len(g)))  BY <2>0, Split
  <2>2. Behind(g, 2, u)  BY <1>3, <1>4, <2>1
  <2> QED  BY <2>2 DEF Behind
<1>7. v \in Seq(Unit) /\ x \in Seq(Unit)  BY <1>4, <1>5 DEF Behind
<1>8. n \in Announced(g) /\ (Len(u) < n \/ Len(u) = n)  OBVIOUS
<1> HIDE DEF g, v, x, u
<1>9. PICK m \in Nat :
        /\ m >= least /\ d + m <= s /\ m + 2 <= Len(w)
        /\ w[1] = <<"len", m>> /\ w[2] = <<"pad", 0>>
        /\ \A y : Behind(w, 2, y) => Cut(y, m, d, str, s, least)
  BY <1>1, <1>3, CutOpen
<1>10. n = m
  <2>1. 1 \in 1..k /\ 2 \in 1..k  BY <1>3
  <2>2. g[1] = w[1] /\ g[2] = w[2]  BY <1>4, <2>1
  <2>3. w[1][1] = "len" /\ w[1][2] = m  BY <1>9
  <2>4. Announced(g) = {m}  BY <1>9, <2>2, <2>3 DEF Announced
  <2> QED  BY <1>8, <2>4
<1>11. n \in Nat /\ n >= least /\ Cut(x, n, d, str, s, least)  BY <1>5, <1>9, <1>10
<1>12. Len(u) \in Nat /\ k - 2 \in Nat /\ Len(u) = k - 2 /\ k - 2 <= n
  BY <1>3, <1>4, <1>6, <1>8, <1>11, LenProperties
<1>13. n <= Len(x) /\ d + n <= s /\ \A i \in 1..n : x[i] = str[d + i]
  <2>1. x \in Seq(Unit) /\ n \in Nat /\ Cut(x, n, d, str, s, least)  BY <1>7, <1>11
  <2>2. n <= Len(x) /\ d + n <= s  BY <2>1, CutFacts
  <2>3. \A i \in 1..n : x[i] = str[d + i]  BY <2>1, CutContent, SMT
  <2> QED  BY <2>2, <2>3, Zenon
<1>14. Behind(x, k - 2, v)
  <2>1. 2 <= k  OBVIOUS
  <2> QED  BY <1>4, <1>5, <2>1, BehindMore
<1>15. Cut(v, n - Len(u), d + Len(u), str, s, least)
  <2>1. Cut(v, n - (k - 2), d + (k - 2), str, s, least)
    BY <1>7, <1>11, <1>12, <1>14, CutSkip
  <2> QED  BY <1>12, <2>1
<1>16. ASSUME NEW i \in 1..Len(u) PROVE u[i] = str[d + i]
  <2>1. i \in 1..n /\ i + 2 \in 1..k /\ i \in 1..Len(x)
    BY <1>3, <1>7, <1>12, <1>11, <1>13, LenProperties
  <2>2. u[i] = g[i + 2] /\ g[i + 2] = w[i + 2]  BY <1>4, <1>6, <2>1
  <2>3. x[i] = w[i + 2]  BY <1>5, <2>1 DEF Behind
  <2> QED  BY <1>13, <2>1, <2>2, <2>3
<1>17. CASE Len(u) < n
  <2>1. StreamedBy(v, n, u, str, d, s, least)
    BY <1>6, <1>7, <1>11, <1>15, <1>16, <1>17 DEF StreamedBy
  <2> QED  BY <1>17, <2>1 DEF u, v, g
<1>18. CASE ~ (Len(u) < n)
  <2>1. Len(u) = n  BY <1>8, <1>11, <1>12, <1>18
  <2>2. n - Len(u) = 0  BY <1>11, <2>1
  <2>3. Arrived(u, v, str, d, s, least)
    BY <1>6, <1>7, <1>11, <1>13, <1>15, <1>16, <2>1, <2>2 DEF Arrived
  <2> QED  BY <1>18, <2>3 DEF u, v, g
<1> QED  BY <1>17, <1>18

\* A read, when no piece runs past its frame: the connection ends, the frame is not yet
\* whole, or it is dispatched.
LEMMA RecvStep ==
  ASSUME NEW str, NEW d \in Nat, NEW s \in Nat, NEW least \in Nat,
         StreamedBy(wire, pending, total, str, d, s, least),
         NEW k \in 1..Len(wire), Recv(k), ~dropped'
  PROVE  \/ open' = FALSE /\ UNCHANGED <<answers, disk>>
         \/ StreamedBy(wire', pending', total', str, d, s, least) /\ Keep
         \/ \E t : /\ Arrived(t, wire', str, d, s, least) /\ pending' = 0 /\ total' = <<>>
                   /\ Dispatch(t)
<1> DEFINE g == SubSeq(wire, 1, k)
<1>1. wire' = SubSeq(wire, k + 1, Len(wire))  BY DEF Recv
<1>2. pending \in Nat  BY DEF StreamedBy
<1>3. CASE pending # 0
  <2> DEFINE u == total \o g
  <2>1. Frame(pending, u)  BY <1>3 DEF Recv
  <2>2. CASE Len(u) < pending
    <3>1. pending' = pending /\ total' = u /\ Keep  BY <2>1, <2>2 DEF Frame
    <3>2. Len(u) <= pending
      <4>1. Len(u) \in Nat
        <5>1. wire \in Seq(Unit) /\ total \in Seq(Unit)  BY DEF StreamedBy
        <5>2. k \in Nat /\ k <= Len(wire)  BY <5>1, LenProperties
        <5>3. g \in Seq(Unit)  BY <5>1, <5>2, Split
        <5>4. u \in Seq(Unit)  BY <5>1, <5>3, JoinedUnits
        <5> QED  BY <5>4, LenProperties
      <4> QED  BY <1>2, <2>2, <4>1
    <3>3. StreamedBy(wire', pending, u, str, d, s, least)  BY <1>1, <1>3, <2>2, <3>2, PieceInFrame
    <3> QED  BY <3>1, <3>3
  <2>3. CASE ~ (Len(u) < pending)
    <3>1. Len(u) = pending /\ pending' = 0 /\ total' = <<>> /\ Dispatch(u)
      BY <2>1, <2>3 DEF Frame
    <3>2. Len(u) <= pending  BY <1>2, <3>1
    <3>3. Arrived(u, wire', str, d, s, least)  BY <1>1, <1>3, <2>3, <3>2, PieceInFrame
    <3> QED  BY <3>1, <3>3
  <2> QED  BY <2>2, <2>3
<1>4. CASE pending = 0 /\ k < 2
  BY <1>4 DEF Recv, Hangup
<1>5. CASE pending = 0 /\ ~ (k < 2)
  <2> DEFINE u == SubSeq(g, 3, k)
  <2>1. PICK n \in Announced(g) : Frame(n, u)  BY <1>5 DEF Recv
  <2>2. StreamedBy(wire, 0, total, str, d, s, least)  BY <1>5
  <2>3. wire \in Seq(Unit) /\ total = <<>>  BY <2>2 DEF StreamedBy
  <2>4. k \in Nat /\ k <= Len(wire) /\ k >= 2  BY <1>5, <2>3, LenProperties
  <2>5. CASE Len(u) < n
    <3>1. pending' = n /\ total' = u /\ Keep  BY <2>1, <2>5 DEF Frame
    <3>2. StreamedBy(wire', n, u, str, d, s, least)
      BY <1>1, <2>1, <2>2, <2>4, <2>5, PieceOfNext
    <3> QED  BY <3>1, <3>2
  <2>6. CASE ~ (Len(u) < n)
    <3>1. Len(u) = n /\ pending' = 0 /\ total' = <<>> /\ Dispatch(u)
      BY <2>1, <2>6 DEF Frame
    <3>2. Arrived(u, wire', str, d, s, least)
      <4> HIDE DEF u
      <4>1. ~ (Len(u) < n) /\ Len(u) = n  BY <2>6, <3>1
      <4> USE DEF u
      <4> QED  BY <1>1, <2>1, <2>2, <2>4, <4>1, PieceOfNext
    <3> QED  BY <3>1, <3>2
  <2> QED  BY <2>5, <2>6
<1> QED  BY <1>3, <1>4, <1>5

\* All of the stream has been read.
LEMMA NothingLeft ==
  ASSUME NEW v \in Seq(Unit), NEW str, NEW s \in Nat, NEW least \in Nat, least > 0,
         Cut(v, 0, s, str, s, least)
  PROVE  v = <<>>
<1>1. ASSUME Len(v) > 0 PROVE FALSE
  <2>1. PICK n \in Nat : n >= least /\ s + n <= s  BY <1>1, CutOpen
  <2> QED  BY <2>1
<1> QED  BY <1>1, EmptySeq, LenProperties

\* A request, or the first content, sent when all is quiet.
LEMMA FirstFrame ==
  ASSUME NEW v \in Seq(Unit)
  PROVE  StreamedBy(<<>> \o Framed(v), 0, <<>>, v, 0, Len(v), Len(v))
<1> DEFINE x == <<>> \o Framed(v)
<1>1. Len(v) \in Nat /\ <<>> \in Seq(Unit) /\ Len(<<>>) = 0 /\ 0 \in Nat  BY LenProperties, EmptySeq
<1>2. Cut(<<>>, 0, 0, v, 0, Len(v))  BY <1>1, CutEmpty
<1>3. Len(v) >= Len(v) /\ \A j \in 1..Len(v) : v[j] = v[0 + j]  BY <1>1
<1>4. x \in Seq(Unit) /\ Cut(x, 0, 0, v, 0 + Len(v), Len(v))
  <2>1. PICK z \in Nat : z = 0  BY <1>1
  <2>2. PICK e \in Seq(Unit) : e = <<>>  BY <1>1
  <2>3. PICK n \in Nat : n = Len(v)  BY <1>1
  <2>4. Cut(e, z, z, v, z, n)  BY <1>2, <2>1, <2>2, <2>3
  <2>5. \A j \in 1..Len(v) : v[j] = v[z + j]  BY <1>3, <2>1
  <2>6. Len(v) >= n  BY <1>1, <2>3
  <2>7. e \o Framed(v) \in Seq(Unit)  BY <2>2, FramedUnits, JoinedUnits
  <2>8. Cut(e \o Framed(v), z, z, v, z + Len(v), n)
    BY <2>1, <2>2, <2>3, <2>4, <2>5, <2>6, CutSend
  <2> QED  BY <2>1, <2>2, <2>3, <2>7, <2>8
<1> HIDE DEF x
<1>5. 0 + Len(v) = Len(v) /\ 0 - 0 = 0 /\ 0 + 0 = 0  BY <1>1
<1>6. StreamedBy(x, 0, <<>>, v, 0, Len(v), Len(v))  BY <1>1, <1>4, <1>5 DEF StreamedBy
<1> QED  BY <1>6 DEF x

\* More content sent.
LEMMA NextFrame ==
  ASSUME NEW w, NEW p, NEW t, NEW str, NEW d \in Nat, NEW s \in Nat, NEW least \in Nat,
         StreamedBy(w, p, t, str, d, s, least),
         NEW v \in Seq(Unit), Len(v) >= least, \A j \in 1..Len(v) : v[j] = str[s + j]
  PROVE  StreamedBy(w \o Framed(v), p, t, str, d, s + Len(v), least)
<1>1. /\ w \in Seq(Unit) /\ p \in Nat /\ t \in Seq(Unit)
      /\ (p = 0 /\ t = <<>>) \/ (Len(t) < p /\ p >= least)
      /\ Cut(w, p - Len(t), d + Len(t), str, s, least)
  BY DEF StreamedBy
<1>2. p - Len(t) \in Nat /\ d + Len(t) \in Nat
  <2>1. Len(t) \in Nat /\ (t = <<>> => Len(t) = 0)  BY <1>1, LenProperties
  <2> QED  BY <1>1, <2>1
<1>3. /\ w \o Framed(v) \in Seq(Unit)
      /\ Cut(w \o Framed(v), p - Len(t), d + Len(t), str, s + Len(v), least)
  BY <1>1, <1>2, CutSend
<1> QED  BY <1>3 DEF StreamedBy

-----------------------------------------------------------------------------
(* The invariant *)

\* What the client uploads, and what it asked for last.
Whole == Content(file)

Request ==
  CASE waiting = "21" -> <<Type("21"), <<"path", path>>>>
    [] waiting = "22" -> <<Type("22"), <<"size", left>>>>
    [] waiting = "24" -> <<Type("24")>>
    [] OTHER -> <<Type(waiting)>>

\* The last step of the upload that the handler took: its answer may be on the way.
Stage ==
  IF answers # <<>> /\ waiting \in {"21", "22", "23", "24"} THEN waiting
  ELSE IF waiting = "21" THEN "none" ELSE step

Streamed(str, d, s, least) == StreamedBy(wire, pending, total, str, d, s, least)

Quiet == wire = <<>> /\ pending = 0 /\ total = <<>>

\* The client keeps to the order of the steps, and knows what of the file is left.
Upload ==
  /\ file \in Seq(Unit) /\ left \in 0..Len(Whole)
  /\ path \in Paths \/ (step = "none" /\ waiting \in {"none", "cmd", "unknown"})
  /\ \/ waiting \in {"none", "21", "cmd", "unknown"}
     \/ waiting = "22" /\ step = "21"
     \/ waiting \in {"sending", "23"} /\ step = "22"
     \/ waiting = "24" /\ step = "23"
  /\ waiting \in {"21", "cmd", "unknown"} => step # "22"
  /\ step = "21" \/ waiting = "21" \/ (step = "22" /\ waiting = "none") => left = Len(Whole)
  /\ waiting = "sending" => left > 0
  /\ waiting = "23" => left = 0

\* What the handler has taken is the client's upload.
Registers ==
  /\ Stage \in {"21", "22", "23"} => filepath = path
  /\ bin = (Stage = "22")
  /\ Stage = "22" => /\ content \in Seq(Unit) /\ length = Len(Whole) /\ Len(content) < length
                     /\ \A i \in 1..Len(content) : content[i] = Whole[i]
  /\ Stage = "23" => content = Whole

\* What is on the way is what the client has sent since.
Traffic ==
  /\ answers # <<>> => Quiet /\ waiting \notin {"none", "sending"}
  /\ waiting = "none" => Quiet
  /\ waiting \in {"cmd", "unknown", "21", "22", "24"} /\ answers = <<>>
       => Streamed(Request, 0, Len(Request), Len(Request)) \/ (waiting = "unknown" /\ Quiet)
  /\ Stage = "22" => Streamed(Whole, Len(content), Len(Whole) - left, 1)

Answers ==
  /\ answers \in {<<>>, <<waiting>>}
  /\ answers = <<"24">> => disk[path] = file \/ file = <<Marker>>

Sync == Answers /\ (open => Upload /\ Registers /\ Traffic)

\* A stream out of step is out of step until the client reconnects.
IInv == ~dropped => Sync

\* A file is made of units.
LEMMA FilesAreUnits == \A f \in Files : f \in Seq(Unit)
<1>1. ASSUME NEW n \in 0..MaxSize, NEW f \in [1..n -> {Byte(b) : b \in Bytes}]
      PROVE  f \in Seq(Unit)
  <2>1. n \in Nat  BY SizeAssumption
  <2>2. f \in [1..n -> Unit]  BY DEF Unit
  <2> QED  BY <2>1, <2>2
<1> QED  BY <1>1 DEF Files

\* What is sent for a file is made of units, and not empty.
LEMMA ContentUnits ==
  ASSUME NEW f \in Seq(Unit)
  PROVE  Content(f) \in Seq(Unit) /\ Len(Content(f)) \in Nat /\ Len(Content(f)) > 0
<1>1. CASE f = <<>>
  <2>1. Marker \in Unit  BY DEF Unit
  <2> QED  BY <1>1, <2>1 DEF Content
<1>2. CASE f # <<>>  BY <1>2, EmptySeq, LenProperties DEF Content
<1> QED  BY <1>1, <1>2

\* A connection that has just been made.
Fresh ==
  /\ waiting = "none" /\ step = "none" /\ path = "tmp" /\ file = <<>> /\ left = 0
  /\ answers = <<>> /\ bin = FALSE /\ wire = <<>> /\ pending = 0 /\ total = <<>>

\* The two ends of it are in step.
LEMMA FreshSync == Fresh => Sync
<1> SUFFICES ASSUME Fresh PROVE Sync
  OBVIOUS
<1> USE DEF Fresh
<1>1. file \in Seq(Unit) /\ left \in 0..Len(Whole)
  <2>1. file \in Seq(Unit)  BY EmptySeq
  <2> QED  BY <2>1, ContentUnits DEF Whole
<1>2. Stage = "none"  BY DEF Stage
<1>3. Upload  BY <1>1 DEF Upload
<1>4. Registers  BY <1>2 DEF Registers
<1>5. Traffic  BY <1>2 DEF Traffic, Quiet
<1> QED  BY <1>3, <1>4, <1>5 DEF Sync, Answers

-----------------------------------------------------------------------------
(* The client's steps *)

\* A client that waits for nothing: nothing is on its way.
LEMMA Idle ==
  ASSUME Sync, open, waiting = "none"
  PROVE  /\ Upload /\ Registers /\ Traffic
         /\ answers = <<>> /\ Quiet /\ Stage = step
<1>1. Upload /\ Registers /\ Traffic  BY DEF Sync
<1>2. answers = <<>> /\ Quiet  BY <1>1 DEF Traffic
<1> QED  BY <1>1, <1>2 DEF Stage

\* The next request is the only one on the way.
LEMMA RequestSent ==
  ASSUME Sync, open, waiting = "none", NEW v \in Seq(Unit), Send(v),
         waiting' \in {"cmd", "unknown", "21", "22", "24"}, Request' = v, Stage' # "22"
  PROVE  Answers' /\ Traffic' /\ open'
<1>1. answers = <<>> /\ wire = <<>> /\ pending = 0 /\ total = <<>>  BY Idle DEF Quiet
<1>2. /\ open' = open /\ answers' = <<>> /\ wire' = <<>> \o Framed(v)
      /\ pending' = 0 /\ total' = <<>>
  BY <1>1 DEF Send, serverVars
<1>3. StreamedBy(wire', pending', total', v, 0, Len(v), Len(v))  BY <1>2, FirstFrame
<1>4. Streamed(Request, 0, Len(Request), Len(Request))'  BY <1>3 DEF Streamed
<1> QED  BY <1>2, <1>4 DEF Answers, Traffic

\* The client sends a command.
LEMMA SendCommandStep ==
  ASSUME Sync, SendCommand
  PROVE  Sync'
<1>0. PICK c \in Commands : Send(<<Type(c)>>) /\ waiting' = c  BY DEF SendCommand
<1> DEFINE v == <<Type(c)>>
<1>1. /\ open /\ waiting = "none" /\ step # "22" /\ Send(v) /\ waiting' = c
      /\ c \in {"cmd", "unknown"} /\ UNCHANGED <<step, path, file, left>>
  BY <1>0 DEF SendCommand, Send, Commands
<1>2. UNCHANGED <<serverVars, answers>>  BY <1>1 DEF Send
<1>3. Upload /\ Registers /\ Traffic /\ answers = <<>> /\ Stage = step  BY <1>1, Idle
<1>4. v \in Seq(Unit) /\ Request' = v /\ Stage' = step
  <2>1. v \in Seq(Unit)
    <3>1. Type(c) \in Unit  BY <1>1 DEF Unit
    <3> QED  BY <3>1
  <2>2. Request' = v  BY <1>1 DEF Request
  <2>3. Stage' = step  BY <1>1, <1>2, <1>3 DEF Stage
  <2> QED  BY <2>1, <2>2, <2>3
<1>5. Answers' /\ Traffic' /\ open'  BY <1>1, <1>4, RequestSent
<1>6. Upload'  BY <1>1, <1>3 DEF Upload, Whole
<1>7. Registers'  BY <1>1, <1>2, <1>3, <1>4 DEF Registers, Whole, serverVars
<1> QED  BY <1>5, <1>6, <1>7 DEF Sync

\* It begins an upload.
LEMMA SendPathStep ==
  ASSUME Sync, SendPath
  PROVE  Sync'
<1>1. PICK p \in Paths, f \in Files :
        path' = p /\ file' = f /\ left' = Len(Content(f)) /\ Send(<<Type("21"), <<"path", p>>>>)
  BY DEF SendPath
<1> DEFINE v == <<Type("21"), <<"path", p>>>>
<1>2. /\ open /\ waiting = "none" /\ step # "22" /\ waiting' = "21" /\ step' = step
  BY <1>1 DEF SendPath, Send
<1>3. UNCHANGED <<serverVars, answers>>  BY <1>1 DEF Send
<1>4. Upload /\ Registers /\ Traffic /\ answers = <<>> /\ Stage = step  BY <1>2, Idle
<1>5. v \in Seq(Unit) /\ Request' = v /\ Stage' = "none"
  <2>1. p \in Paths  BY <1>1
  <2>2. Type("21") \in Unit /\ <<"path", p>> \in Unit  BY <2>1 DEF Unit
  <2>3. v \in Seq(Unit)  BY <2>2
  <2>4. Request' = v  BY <1>1, <1>2 DEF Request
  <2>5. Stage' = "none"  BY <1>2, <1>3, <1>4 DEF Stage
  <2> QED  BY <2>3, <2>4, <2>5
<1>6. Answers' /\ Traffic' /\ open'
  <2>1. Send(v)  BY <1>1
  <2> QED  BY <1>2, <1>5, <2>1, RequestSent
<1>7. Upload'
  <2>1. f \in Seq(Unit)  BY <1>1, FilesAreUnits
  <2>2. Len(Content(f)) \in Nat  BY <2>1, ContentUnits
  <2>3. file' \in Seq(Unit) /\ Whole' = Content(f) /\ left' = Len(Whole')
    BY <1>1, <2>1 DEF Whole
  <2>4. left' \in 0..Len(Whole')  BY <2>2, <2>3
  <2> QED  BY <1>1, <1>2, <2>3, <2>4 DEF Upload
<1>8. Registers'
  <2>1. bin' = FALSE  BY <1>2, <1>3, <1>4 DEF Registers, serverVars
  <2> QED  BY <1>5, <2>1 DEF Registers
<1> QED  BY <1>6, <1>7, <1>8 DEF Sync

\* It says how long the file is.
LEMMA SendSizeStep ==
  ASSUME Sync, SendSize
  PROVE  Sync'
<1> DEFINE v == <<Type("22"), <<"size", left>>>>
<1>1. /\ open /\ waiting = "none" /\ step = "21" /\ Send(v) /\ waiting' = "22"
      /\ UNCHANGED <<step, path, file, left>>
  BY DEF SendSize, Send
<1>2. UNCHANGED <<serverVars, answers>>  BY <1>1 DEF Send
<1>3. Upload /\ Registers /\ Traffic /\ answers = <<>> /\ Stage = step  BY <1>1, Idle
<1>4. v \in Seq(Unit) /\ Request' = v /\ Stage' = step
  <2>1. left \in Nat
    <3>1. left = Len(Whole) /\ file \in Seq(Unit)  BY <1>1, <1>3 DEF Upload
    <3> QED  BY <3>1, ContentUnits DEF Whole
  <2>2. Type("22") \in Unit /\ <<"size", left>> \in Unit  BY <2>1 DEF Unit
  <2>3. v \in Seq(Unit)  BY <2>2
  <2>4. Request' = v  BY <1>1 DEF Request
  <2>5. Stage' = step  BY <1>1, <1>2, <1>3 DEF Stage
  <2> QED  BY <2>3, <2>4, <2>5
<1>5. Answers' /\ Traffic' /\ open'  BY <1>1, <1>4, RequestSent
<1>6. Upload'  BY <1>1, <1>3 DEF Upload, Whole
<1>7. Registers'  BY <1>1, <1>2, <1>3, <1>4 DEF Registers, Whole, serverVars
<1> QED  BY <1>5, <1>6, <1>7 DEF Sync

\* It asks for the file to be written.
LEMMA SendWriteStep ==
  ASSUME Sync, SendWrite
  PROVE  Sync'
<1> DEFINE v == <<Type("24")>>
<1>1. /\ open /\ waiting = "none" /\ step = "23" /\ Send(v) /\ waiting' = "24"
      /\ UNCHANGED <<step, path, file, left>>
  BY DEF SendWrite, Send
<1>2. UNCHANGED <<serverVars, answers>>  BY <1>1 DEF Send
<1>3. Upload /\ Registers /\ Traffic /\ answers = <<>> /\ Stage = step  BY <1>1, Idle
<1>4. v \in Seq(Unit) /\ Request' = v /\ Stage' = step
  <2>1. v \in Seq(Unit)  BY DEF Unit
  <2>2. Request' = v  BY <1>1 DEF Request
  <2>3. Stage' = step  BY <1>1, <1>2, <1>3 DEF Stage
  <2> QED  BY <2>1, <2>2, <2>3
<1>5. Answers' /\ Traffic' /\ open'  BY <1>1, <1>4, RequestSent
<1>6. Upload'  BY <1>1, <1>3 DEF Upload, Whole
<1>7. Registers'  BY <1>1, <1>2, <1>3, <1>4 DEF Registers, Whole, serverVars
<1> QED  BY <1>5, <1>6, <1>7 DEF Sync

\* It sends some of the file, or the rest.
LEMMA SendContentStep ==
  ASSUME Sync, SendContent
  PROVE  Sync'
<1>1. PICK n \in 1..left :
        /\ Send(SubSeq(Whole, Len(Whole) - left + 1, Len(Whole) - left + 1 + n - 1))
        /\ left' = left - n /\ waiting' = (IF n = left THEN "23" ELSE "sending")
  BY DEF SendContent, Whole
<1>2. /\ open /\ ((waiting = "none" /\ step = "22") \/ waiting = "sending")
      /\ UNCHANGED <<step, path, file, serverVars, answers>>
  BY <1>1 DEF SendContent, Send
<1>3. Upload /\ Registers /\ Traffic /\ answers = <<>> /\ Stage = "22" /\ step = "22"
  <2>1. Upload /\ Registers /\ Traffic  BY <1>2 DEF Sync
  <2>2. answers = <<>> /\ step = "22"  BY <1>2, <2>1 DEF Traffic, Upload
  <2> QED  BY <1>2, <2>1, <2>2 DEF Stage
<1> DEFINE from == Len(Whole) - left + 1
           v == SubSeq(Whole, from, from + n - 1)
           s == Len(Whole) - left
<1>4. Whole \in Seq(Unit) /\ Len(Whole) \in Nat /\ left \in 0..Len(Whole)
  BY <1>3, ContentUnits DEF Upload, Whole
<1>5. n \in 1..left  BY <1>1
<1>6. /\ v \in Seq(Unit) /\ Len(v) = n /\ n >= 1
      /\ \A j \in 1..Len(v) : v[j] = Whole[s + j]
  <2>1. /\ from \in Int /\ from + n - 1 \in Int /\ from + n - 1 <= Len(Whole) /\ from >= 1
        /\ (from + n - 1) - from + 1 = n /\ from <= from + n - 1
    BY <1>4, <1>5
  <2>2. \A i \in from..(from + n - 1) : Whole[i] \in Unit
    <3>1. \A i \in 1..Len(Whole) : Whole[i] \in Unit  BY <1>4, ElementOfSeq
    <3> QED  BY <1>4, <2>1, <3>1
  <2>3. /\ v \in Seq(Unit)
        /\ Len(v) = (IF from <= from + n - 1 THEN (from + n - 1) - from + 1 ELSE 0)
        /\ \A i \in 1..((from + n - 1) - from + 1) : v[i] = Whole[from + i - 1]
    BY <2>1, <2>2, SubSeqProperties
  <2>4. Len(v) = n  BY <2>1, <2>3
  <2>5. ASSUME NEW j \in 1..Len(v) PROVE v[j] = Whole[s + j]
    <3>1. j \in 1..n  BY <2>4, <2>5
    <3>2. from + j - 1 = s + j  BY <1>4, <1>5, <3>1
    <3> QED  BY <2>1, <2>3, <3>1, <3>2
  <2> QED  BY <1>5, <2>3, <2>4, <2>5
<1>7. wire' = wire \o Framed(v)  BY <1>1 DEF Send
<1> HIDE DEF v, from
<1>8. s \in Nat /\ s + n = Len(Whole) - left' /\ left' \in 0..Len(Whole) /\ (n # left => left' > 0)
      /\ (n = left => left' = 0)
  BY <1>1, <1>4, <1>5
<1>9. Streamed(Whole, Len(content), s, 1)  BY <1>3 DEF Traffic
<1>10. StreamedBy(wire', pending, total, Whole, Len(content), s + n, 1)
  <2>1. content \in Seq(Unit)  BY <1>3 DEF Registers
  <2>2. Len(content) \in Nat  BY <2>1, LenProperties
  <2>3. StreamedBy(wire, pending, total, Whole, Len(content), s, 1)  BY <1>9 DEF Streamed
  <2>4. StreamedBy(wire \o Framed(v), pending, total, Whole, Len(content), s + Len(v), 1)
    BY <1>6, <1>8, <2>2, <2>3, NextFrame
  <2> QED  BY <1>6, <1>7, <2>4
<1>11. Stage' = "22" /\ Whole' = Whole  BY <1>1, <1>2, <1>3 DEF Stage, Whole
<1>12. Streamed(Whole, Len(content), Len(Whole) - left, 1)'
  BY <1>2, <1>8, <1>10, <1>11 DEF Streamed, serverVars
<1>13. Traffic'  BY <1>1, <1>2, <1>3, <1>12 DEF Traffic
<1>14. Answers'  BY <1>2, <1>3 DEF Answers
<1>15. Upload'
  <2>1. path' \in Paths  BY <1>2, <1>3 DEF Upload
  <2>2. file' \in Seq(Unit)  BY <1>2, <1>3 DEF Upload
  <2>3. left' \in 0..Len(Whole')  BY <1>8, <1>11
  <2> QED  BY <1>1, <1>2, <1>3, <1>8, <2>1, <2>2, <2>3 DEF Upload
<1>16. Registers'  BY <1>2, <1>3, <1>11 DEF Registers, serverVars
<1> QED  BY <1>13, <1>14, <1>15, <1>16 DEF Sync

-----------------------------------------------------------------------------
(* The handler's steps *)

\* A whole frame is the request, and nothing is behind it.
LEMMA RequestArrived ==
  ASSUME NEW r \in Seq(Unit), Len(r) > 0, NEW t, NEW v, Arrived(t, v, r, 0, Len(r), Len(r))
  PROVE  t = r /\ v = <<>>
<1>1. /\ t \in Seq(Unit) /\ v \in Seq(Unit)
      /\ Len(t) >= Len(r) /\ 0 + Len(t) <= Len(r)
      /\ \A i \in 1..Len(t) : t[i] = r[0 + i]
      /\ Cut(v, 0, 0 + Len(t), r, Len(r), Len(r))
  BY DEF Arrived
<1>2. Len(t) \in Nat /\ Len(r) \in Nat  BY <1>1, LenProperties
<1>3. Len(t) = Len(r) /\ 0 + Len(t) = Len(r)  BY <1>1, <1>2
<1>4. \A i \in 1..Len(t) : t[i] = r[i]
  <2>1. \A i \in 1..Len(t) : 0 + i = i  BY <1>2
  <2> QED  BY <1>1, <2>1
<1>5. t = r  BY <1>1, <1>3, <1>4, SeqEqual
<1>6. Cut(v, 0, Len(r), r, Len(r), Len(r))  BY <1>1, <1>3
<1>7. v = <<>>  BY <1>1, <1>2, <1>6, NothingLeft
<1> QED  BY <1>5, <1>7

\* What the handler answers to a request, which it reads as the client meant it.
LEMMA CommandDone ==
  ASSUME ~bin, Dispatch(<<Type("cmd")>>)
  PROVE  /\ \/ answers' = Append(answers, "cmd") /\ UNCHANGED open
            \/ open' = FALSE /\ answers' = answers
         /\ UNCHANGED <<bin, filepath, length, content, disk>>
BY DEF Dispatch, TakePath, TakeSize, WriteFile, RunCommand, TakeGarbage, TakeNothing, Type, Reply,
       StayOpen, Hangup

\* What nothing handles is not answered.
LEMMA UnknownIgnored ==
  ASSUME ~bin, Dispatch(<<Type("unknown")>>)
  PROVE  UNCHANGED <<open, answers, bin, filepath, length, content, disk>>
<1> DEFINE t == <<Type("unknown")>>
<1>1. t # <<>> /\ t[1] = Type("unknown") /\ t[1][1] = "type"  BY DEF Type
<1>2. /\ t[1] # Type("21") /\ t[1] # Type("22")
      /\ t # <<Type("24")>> /\ t # <<Type("cmd")>>
  BY DEF Type
<1> HIDE DEF t
<1>3. Dispatch(t)  BY DEF t
<1>4. RunCommand(t)
  BY <1>1, <1>2, <1>3 DEF Dispatch, TakePath, TakeSize, WriteFile, TakeGarbage, TakeNothing
<1> QED  BY <1>2, <1>4 DEF RunCommand, StayOpen

\* Datatype 21.
LEMMA PathTaken ==
  ASSUME ~bin, NEW p, Dispatch(<<Type("21"), <<"path", p>>>>)
  PROVE  /\ answers' = Append(answers, "21") /\ filepath' = p
         /\ UNCHANGED <<open, bin, length, content, disk>>
<1> DEFINE t == <<Type("21"), <<"path", p>>>>
<1>1. t # <<>> /\ Len(t) = 2 /\ t[1] = Type("21") /\ t[2] = <<"path", p>> /\ t[2][2] = p
  BY DEF Type
<1> HIDE DEF t
<1>2. t[1] # Type("22") /\ t[1][1] = "type" /\ t # <<Type("24")>> /\ t # <<Type("cmd")>> /\ t # <<Type("unknown")>>
  BY <1>1 DEF Type
<1>3. Dispatch(t)  BY DEF t
<1>4. TakePath(t)
  BY <1>1, <1>2, <1>3 DEF Dispatch, TakeSize, WriteFile, RunCommand, TakeGarbage, TakeNothing
<1> QED  BY <1>1, <1>4 DEF TakePath, Reply, StayOpen

\* Datatype 22.
LEMMA SizeTaken ==
  ASSUME ~bin, NEW n, Dispatch(<<Type("22"), <<"size", n>>>>)
  PROVE  /\ answers' = Append(answers, "22") /\ length' = n /\ content' = <<>> /\ bin' = TRUE
         /\ UNCHANGED <<open, filepath, disk>>
<1> DEFINE t == <<Type("22"), <<"size", n>>>>
<1>1. t # <<>> /\ Len(t) = 2 /\ t[1] = Type("22") /\ t[2] = <<"size", n>> /\ t[2][2] = n
  BY DEF Type
<1> HIDE DEF t
<1>2. t[1] # Type("21") /\ t[1][1] = "type" /\ t # <<Type("24")>> /\ t # <<Type("cmd")>> /\ t # <<Type("unknown")>>
  BY <1>1 DEF Type
<1>3. Dispatch(t)  BY DEF t
<1>4. TakeSize(t)
  BY <1>1, <1>2, <1>3 DEF Dispatch, TakePath, WriteFile, RunCommand, TakeGarbage, TakeNothing
<1> QED  BY <1>1, <1>4 DEF TakeSize, Reply, StayOpen

\* Datatype 24.
LEMMA FileWritten ==
  ASSUME ~bin, Dispatch(<<Type("24")>>)
  PROVE  /\ \/ /\ answers' = Append(answers, "24") /\ content' = <<>> /\ UNCHANGED open
               /\ \A p \in Paths : p = filepath =>
                    disk'[p] = IF content = <<Marker>> THEN <<>> ELSE content
            \/ open' = FALSE /\ answers' = answers
         /\ UNCHANGED <<bin, filepath, length>>
<1> DEFINE t == <<Type("24")>>
<1>1. t # <<>> /\ Len(t) = 1 /\ t[1] = Type("24") /\ t = <<Type("24")>>  BY DEF Type
<1> HIDE DEF t
<1>2. t[1] # Type("21") /\ t[1] # Type("22") /\ t[1][1] = "type" /\ t # <<Type("cmd")>> /\ t # <<Type("unknown")>>
  BY <1>1 DEF Type
<1>3. Dispatch(t)  BY DEF t
<1>4. WriteFile(t)
  BY <1>1, <1>2, <1>3 DEF Dispatch, TakePath, TakeSize, RunCommand, TakeGarbage, TakeNothing
<1> QED  BY <1>1, <1>4 DEF WriteFile, Reply, StayOpen, Hangup

\* What is asked for is made of units, and not empty.
LEMMA RequestUnits ==
  ASSUME Upload, waiting \in {"cmd", "unknown", "21", "22", "24"}
  PROVE  Request \in Seq(Unit) /\ Len(Request) \in Nat /\ Len(Request) > 0
<1>1. CASE waiting \in {"cmd", "unknown"}
  <2>1. Type(waiting) \in Unit  BY <1>1 DEF Unit
  <2>2. Request = <<Type(waiting)>>  BY <1>1 DEF Request
  <2> QED  BY <2>1, <2>2
<1>2. CASE waiting = "21"
  <2>1. path \in Paths  BY <1>2 DEF Upload
  <2>2. Type("21") \in Unit /\ <<"path", path>> \in Unit  BY <2>1 DEF Unit
  <2>3. Request = <<Type("21"), <<"path", path>>>>  BY <1>2 DEF Request
  <2> QED  BY <2>2, <2>3
<1>3. CASE waiting = "22"
  <2>1. left \in Nat
    <3>1. left = Len(Whole) /\ file \in Seq(Unit)  BY <1>3 DEF Upload
    <3> QED  BY <3>1, ContentUnits DEF Whole
  <2>2. Type("22") \in Unit /\ <<"size", left>> \in Unit  BY <2>1 DEF Unit
  <2>3. Request = <<Type("22"), <<"size", left>>>>  BY <1>3 DEF Request
  <2> QED  BY <2>2, <2>3
<1>4. CASE waiting = "24"
  <2>1. Type("24") \in Unit  BY DEF Unit
  <2>2. Request = <<Type("24")>>  BY <1>4 DEF Request
  <2> QED  BY <2>1, <2>2
<1> QED  BY <1>1, <1>2, <1>3, <1>4

\* A request is on the way.
LEMMA RecvRequest ==
  ASSUME Sync, open, answers = <<>>, waiting \in {"cmd", "unknown", "21", "22", "24"},
         NEW k \in 1..Len(wire), Recv(k), ~dropped'
  PROVE  Sync'
<1>1. Upload /\ Registers /\ Traffic  BY DEF Sync
<1>2. UNCHANGED <<step, waiting, path, file, left>>  BY DEF Recv, clientVars
<1>3. Stage = (IF waiting = "21" THEN "none" ELSE step) /\ Stage # "22"
  BY <1>1 DEF Stage, Upload
<1>4. ~bin  BY <1>1, <1>3 DEF Registers
<1>5. Request \in Seq(Unit) /\ Len(Request) \in Nat /\ Len(Request) > 0
  BY <1>1, RequestUnits
<1>6. Request' = Request /\ Whole' = Whole /\ Upload'
  <2>1. Request' = Request  BY <1>2 DEF Request
  <2>2. Whole' = Whole  BY <1>2 DEF Whole
  <2>3. Upload'  BY <1>1, <1>2, <2>2 DEF Upload
  <2> QED  BY <2>1, <2>2, <2>3
<1>7. StreamedBy(wire, pending, total, Request, 0, Len(Request), Len(Request))
  <2>1. ~Quiet
    <3>1. Quiet => Len(wire) = 0  BY DEF Quiet
    <3> QED  BY <3>1
  <2> QED  BY <1>1, <2>1 DEF Traffic, Streamed
<1>8. \/ open' = FALSE /\ UNCHANGED <<answers, disk>>
      \/ /\ StreamedBy(wire', pending', total', Request, 0, Len(Request), Len(Request))
         /\ Keep
      \/ \E t : /\ Arrived(t, wire', Request, 0, Len(Request), Len(Request))
                /\ pending' = 0 /\ total' = <<>> /\ Dispatch(t)
  <2>1. 0 \in Nat  OBVIOUS
  <2> QED  BY <1>5, <1>7, <2>1, RecvStep
<1>9. CASE open' = FALSE /\ UNCHANGED <<answers, disk>>
  BY <1>9 DEF Sync, Answers
<1>10. CASE /\ StreamedBy(wire', pending', total', Request, 0, Len(Request), Len(Request))
            /\ Keep
  <2>1. UNCHANGED <<open, bin, filepath, length, content, disk, answers>>  BY <1>10 DEF Keep
  <2>2. Stage' = Stage  BY <1>2, <2>1 DEF Stage
  <2>3. Streamed(Request, 0, Len(Request), Len(Request))'  BY <1>6, <1>10 DEF Streamed
  <2>4. Traffic'  BY <1>2, <1>3, <2>1, <2>2, <2>3 DEF Traffic
  <2>5. Registers'  BY <1>1, <1>2, <1>6, <2>1, <2>2 DEF Registers
  <2>6. Answers'  BY <2>1 DEF Answers
  <2> QED  BY <1>6, <2>4, <2>5, <2>6 DEF Sync
<1>11. CASE \E t : /\ Arrived(t, wire', Request, 0, Len(Request), Len(Request))
                   /\ pending' = 0 /\ total' = <<>> /\ Dispatch(t)
  <2>1. PICK t : /\ Arrived(t, wire', Request, 0, Len(Request), Len(Request))
                 /\ pending' = 0 /\ total' = <<>> /\ Dispatch(t)
    BY <1>11
  <2>2. t = Request /\ wire' = <<>>  BY <1>5, <2>1, RequestArrived
  <2>3. Quiet' /\ Dispatch(Request)  BY <2>1, <2>2 DEF Quiet
  <2>8. CASE waiting = "unknown"
    <3>1. Request = <<Type("unknown")>>  BY <2>8 DEF Request
    <3>2. UNCHANGED <<open, answers, bin, filepath, length, content, disk>>
      BY <1>4, <2>3, <3>1, UnknownIgnored
    <3>3. Stage' = Stage  BY <1>2, <3>2 DEF Stage
    <3>4. answers' = <<>> /\ waiting' = "unknown"  BY <1>2, <2>8, <3>2
    <3>5. Traffic'  BY <1>3, <2>3, <3>3, <3>4 DEF Traffic
    <3>6. Registers'  BY <1>1, <1>2, <1>6, <3>2, <3>3 DEF Registers
    <3>7. Answers'  BY <3>4 DEF Answers
    <3> QED  BY <1>6, <3>5, <3>6, <3>7 DEF Sync
  <2>4. CASE waiting = "cmd"
    <3>1. Request = <<Type("cmd")>>  BY <2>4 DEF Request
    <3>2. /\ \/ answers' = Append(answers, "cmd") /\ UNCHANGED open
             \/ open' = FALSE /\ answers' = answers
          /\ UNCHANGED <<bin, filepath, length, content, disk>>
      BY <1>4, <2>3, <3>1, CommandDone
    <3>3. CASE open' = FALSE /\ answers' = answers  BY <3>2, <3>3 DEF Sync, Answers
    <3>4. CASE answers' = Append(answers, "cmd") /\ UNCHANGED open
      <4>1. answers' = <<"cmd">>  BY <3>4
      <4>2. answers' # <<>> /\ answers' # <<"24">> /\ waiting' = "cmd"  BY <1>2, <2>4, <4>1
      <4>3. Stage' = Stage  BY <1>2, <1>3, <2>4, <4>2 DEF Stage
      <4>4. Traffic'  BY <1>3, <2>3, <4>2, <4>3 DEF Traffic
      <4>5. Registers'  BY <1>1, <1>2, <1>6, <3>2, <4>3 DEF Registers
      <4>6. Answers'  BY <4>1, <4>2 DEF Answers
      <4> QED  BY <1>6, <4>4, <4>5, <4>6 DEF Sync
    <3> QED  BY <3>2, <3>3, <3>4
  <2>5. CASE waiting = "21"
    <3>1. Request = <<Type("21"), <<"path", path>>>>  BY <2>5 DEF Request
    <3>2. /\ answers' = Append(answers, "21") /\ filepath' = path
          /\ UNCHANGED <<open, bin, length, content, disk>>
      BY <1>4, <2>3, <3>1, PathTaken
    <3>3. answers' = <<"21">>  BY <3>2
    <3>4. answers' # <<>> /\ answers' # <<"24">> /\ waiting' = "21" /\ path' = path
      BY <1>2, <2>5, <3>3
    <3>5. Stage' = "21"  BY <3>4 DEF Stage
    <3>6. Traffic'  BY <2>3, <3>4, <3>5 DEF Traffic
    <3>7. Registers'  BY <1>4, <3>2, <3>4, <3>5, <1>1 DEF Registers
    <3>8. Answers'  BY <3>3, <3>4 DEF Answers
    <3> QED  BY <1>6, <3>6, <3>7, <3>8 DEF Sync
  <2>6. CASE waiting = "22"
    <3>1. Request = <<Type("22"), <<"size", left>>>>  BY <2>6 DEF Request
    <3>2. /\ answers' = Append(answers, "22") /\ length' = left /\ content' = <<>> /\ bin' = TRUE
          /\ UNCHANGED <<open, filepath, disk>>
      BY <1>4, <2>3, <3>1, SizeTaken
    <3>3. answers' = <<"22">>  BY <3>2
    <3>4. answers' # <<>> /\ answers' # <<"24">> /\ waiting' = "22" /\ path' = path
          /\ left' = left
      BY <1>2, <2>6, <3>3
    <3>5. Stage' = "22"  BY <3>4 DEF Stage
    <3>6. left = Len(Whole) /\ file \in Seq(Unit) /\ step = "21"  BY <1>1, <2>6 DEF Upload
    <3>7. Len(Whole) \in Nat /\ Len(Whole) > 0  BY <3>6, ContentUnits DEF Whole
    <3>8. content' \in Seq(Unit) /\ Len(content') = 0  BY <3>2, EmptySeq
    <3>9. Streamed(Whole, Len(content), Len(Whole) - left, 1)'
      <4>1. wire' = <<>> /\ pending' = 0 /\ total' = <<>>  BY <2>3 DEF Quiet
      <4>2. Len(content') = 0 /\ Len(Whole') - left' = 0  BY <1>6, <3>4, <3>6, <3>7, <3>8
      <4>3. Cut(<<>>, 0, 0, Whole, 0, 1)  BY CutEmpty
      <4>4. StreamedBy(<<>>, 0, <<>>, Whole, 0, 0, 1)
        <5>1. <<>> \in Seq(Unit) /\ Len(<<>>) = 0 /\ 0 - 0 = 0 /\ 0 + 0 = 0  BY EmptySeq
        <5> QED  BY <4>3, <5>1 DEF StreamedBy
      <4> QED  BY <1>6, <4>1, <4>2, <4>4 DEF Streamed
    <3>10. Traffic'  BY <2>3, <3>4, <3>9 DEF Traffic
    <3>11. Registers'
      <4>1. filepath = path
        <5>1. Stage = "21"  BY <1>3, <2>6, <3>6
        <5> QED  BY <1>1, <5>1 DEF Registers
      <4>2. Len(content') < length' /\ length' = Len(Whole')  BY <1>6, <3>2, <3>6, <3>7, <3>8
      <4>3. \A i \in 1..Len(content') : content'[i] = Whole'[i]  BY <3>8
      <4> QED  BY <3>2, <3>4, <3>5, <3>8, <4>1, <4>2, <4>3 DEF Registers
    <3>12. Answers'  BY <3>3, <3>4 DEF Answers
    <3> QED  BY <1>6, <3>10, <3>11, <3>12 DEF Sync
  <2>7. CASE waiting = "24"
    <3>1. Request = <<Type("24")>>  BY <2>7 DEF Request
    <3>2. /\ \/ /\ answers' = Append(answers, "24") /\ content' = <<>> /\ UNCHANGED open
                /\ \A p \in Paths : p = filepath =>
                     disk'[p] = IF content = <<Marker>> THEN <<>> ELSE content
             \/ open' = FALSE /\ answers' = answers
          /\ UNCHANGED <<bin, filepath, length>>
      BY <1>4, <2>3, <3>1, FileWritten
    <3>3. CASE open' = FALSE /\ answers' = answers
      <4>1. answers' = <<>>  BY <3>3
      <4> QED  BY <3>3, <4>1 DEF Sync, Answers
    <3>4. CASE /\ answers' = Append(answers, "24") /\ content' = <<>> /\ UNCHANGED open
               /\ \A p \in Paths : p = filepath =>
                    disk'[p] = IF content = <<Marker>> THEN <<>> ELSE content
      <4>1. answers' = <<"24">>  BY <3>4
      <4>2. answers' # <<>> /\ waiting' = "24" /\ path' = path /\ file' = file
        BY <1>2, <2>7, <4>1
      <4>3. Stage' = "24"  BY <4>2 DEF Stage
      <4>4. step = "23" /\ path \in Paths  BY <1>1, <2>7 DEF Upload
      <4>5. filepath = path /\ content = Whole
        <5>1. Stage = "23"  BY <1>3, <2>7, <4>4
        <5> QED  BY <1>1, <5>1 DEF Registers
      <4>6. disk'[path'] = file' \/ file' = <<Marker>>
        <5>1. disk'[path] = IF Whole = <<Marker>> THEN <<>> ELSE Whole  BY <3>4, <4>4, <4>5
        <5> QED  BY <4>2, <5>1 DEF Whole, Content
      <4>7. Traffic'  BY <2>3, <4>2, <4>3 DEF Traffic
      <4>8. Registers'  BY <1>4, <3>2, <4>3, <1>1, <1>3 DEF Registers
      <4>9. Answers'  BY <4>1, <4>2, <4>6 DEF Answers
      <4> QED  BY <1>6, <4>7, <4>8, <4>9 DEF Sync
    <3> QED  BY <3>2, <3>3, <3>4
  <2> QED  BY <2>4, <2>5, <2>6, <2>7, <2>8
<1> QED  BY <1>8, <1>9, <1>10, <1>11

\* Content is on the way, or awaited.
LEMMA RecvContent ==
  ASSUME Sync, open, answers = <<>>, waiting \in {"sending", "23"},
         NEW k \in 1..Len(wire), Recv(k), ~dropped'
  PROVE  Sync'
<1>1. Upload /\ Registers /\ Traffic  BY DEF Sync
<1>2. UNCHANGED <<step, waiting, path, file, left>>  BY DEF Recv, clientVars
<1>3. Stage = "22" /\ step = "22" /\ bin = TRUE  BY <1>1 DEF Stage, Upload, Registers
<1> DEFINE d == Len(content)
           s == Len(Whole) - left
<1>4. /\ content \in Seq(Unit) /\ length = Len(Whole) /\ Len(content) < length
      /\ \A i \in 1..Len(content) : content[i] = Whole[i]
  BY <1>1, <1>3 DEF Registers
<1>5. Whole \in Seq(Unit) /\ Len(Whole) \in Nat /\ left \in 0..Len(Whole) /\ d \in Nat /\ s \in Nat
  <2>1. Whole \in Seq(Unit) /\ Len(Whole) \in Nat /\ left \in 0..Len(Whole)
    BY <1>1, ContentUnits DEF Upload, Whole
  <2> QED  BY <1>4, <2>1, LenProperties
<1>6. Whole' = Whole /\ Upload'
  <2>1. Whole' = Whole  BY <1>2 DEF Whole
  <2> QED  BY <1>1, <1>2, <2>1 DEF Upload
<1>7. StreamedBy(wire, pending, total, Whole, d, s, 1)  BY <1>1, <1>3 DEF Traffic, Streamed
<1>8. \/ open' = FALSE /\ UNCHANGED <<answers, disk>>
      \/ StreamedBy(wire', pending', total', Whole, d, s, 1) /\ Keep
      \/ \E t : /\ Arrived(t, wire', Whole, d, s, 1)
                /\ pending' = 0 /\ total' = <<>> /\ Dispatch(t)
  <2>1. 1 \in Nat /\ d \in Nat /\ s \in Nat  BY <1>5
  <2> HIDE DEF d, s
  <2> QED  BY <1>7, <2>1, RecvStep
<1>9. CASE open' = FALSE /\ UNCHANGED <<answers, disk>>
  BY <1>9 DEF Sync, Answers
<1>10. CASE StreamedBy(wire', pending', total', Whole, d, s, 1) /\ Keep
  <2>1. UNCHANGED <<open, bin, filepath, length, content, disk, answers>>  BY <1>10 DEF Keep
  <2>2. Stage' = Stage  BY <1>2, <2>1 DEF Stage
  <2>3. Streamed(Whole, Len(content), Len(Whole) - left, 1)'
    BY <1>2, <1>6, <1>10, <2>1 DEF Streamed
  <2>4. Traffic'  BY <1>2, <1>3, <2>1, <2>2, <2>3 DEF Traffic
  <2>5. Registers'  BY <1>1, <1>2, <1>6, <2>1, <2>2 DEF Registers
  <2>6. Answers'  BY <2>1 DEF Answers
  <2> QED  BY <1>6, <2>4, <2>5, <2>6 DEF Sync
<1>11. CASE \E t : /\ Arrived(t, wire', Whole, d, s, 1)
                   /\ pending' = 0 /\ total' = <<>> /\ Dispatch(t)
  <2>1. PICK t : /\ Arrived(t, wire', Whole, d, s, 1)
                 /\ pending' = 0 /\ total' = <<>> /\ Dispatch(t)
    BY <1>11
  <2>2. /\ t \in Seq(Unit) /\ wire' \in Seq(Unit)
        /\ Len(t) >= 1 /\ d + Len(t) <= s
        /\ \A i \in 1..Len(t) : t[i] = Whole[d + i]
        /\ Cut(wire', 0, d + Len(t), Whole, s, 1)
    BY <2>1 DEF Arrived
  <2>3. TakeContent(t)  BY <1>3, <2>1 DEF Dispatch
  <2> DEFINE c == content \o t
  <2>4. /\ c \in Seq(Unit) /\ Len(c) = d + Len(t)
        /\ \A i \in 1..d : c[i] = content[i]
        /\ \A i \in 1..Len(t) : c[d + i] = t[i]
    BY <1>4, <2>2, JoinedUnits
  <2> HIDE DEF c
  <2>5. Len(t) \in Nat /\ Len(c) \in Nat  BY <2>2, <2>4, LenProperties
  <2>6. ASSUME NEW i \in 1..Len(c) PROVE c[i] = Whole[i]
    <3>1. CASE i \in 1..d  BY <1>4, <2>4, <3>1
    <3>2. CASE i \notin 1..d
      <4>1. PICK j \in 1..Len(t) : i = d + j
        <5>1. i - d \in 1..Len(t) /\ i = d + (i - d)
          <6>1. Len(c) = d + Len(t)  BY <2>4
          <6> QED  BY <1>5, <2>5, <2>6, <3>2, <6>1
        <5> QED  BY <5>1
      <4> QED  BY <2>2, <2>4, <4>1
    <3> QED  BY <3>1, <3>2
  <2>7. Len(c) <= s /\ s <= length /\ ~ (Len(c) > length)
    <3>1. Len(c) <= s  BY <2>2, <2>4
    <3>2. s <= length  BY <1>4, <1>5
    <3> QED  BY <1>4, <1>5, <2>5, <3>1, <3>2
  <2>8. /\ content' = c /\ bin' = (Len(c) < length)
        /\ IF Len(c) = length THEN answers' = Append(answers, "23") ELSE answers' = answers
        /\ UNCHANGED <<open, filepath, length, disk>>
    BY <2>3, <2>7 DEF TakeContent, Reply, StayOpen, c
  <2>9. CASE Len(c) = length
    <3>1. left = 0 /\ s = Len(Whole) /\ s = Len(c)
      BY <1>4, <1>5, <2>5, <2>7, <2>9
    <3>2. waiting = "23"  BY <1>1, <3>1 DEF Upload
    <3>3. answers' = <<"23">>  BY <2>8, <2>9
    <3>4. answers' # <<>> /\ answers' # <<"24">> /\ waiting' = "23" /\ path' = path
      BY <1>2, <3>2, <3>3
    <3>5. Stage' = "23"  BY <3>4 DEF Stage
    <3>6. wire' = <<>>
      <4>1. s \in Nat /\ 1 \in Nat /\ 1 > 0  BY <1>5
      <4>2. Cut(wire', 0, s, Whole, s, 1)  BY <2>2, <2>4, <3>1
      <4> HIDE DEF s
      <4> QED  BY <2>2, <4>1, <4>2, NothingLeft
    <3>7. Traffic'  BY <2>1, <3>4, <3>5, <3>6 DEF Traffic, Quiet
    <3>8. content' = Whole'
      <4>1. Len(c) = Len(Whole)  BY <1>4, <2>9
      <4>2. c = Whole  BY <1>5, <2>4, <2>6, <4>1, SeqEqual
      <4> QED  BY <1>6, <2>8, <4>2
    <3>9. Registers'
      <4>1. filepath' = path'  BY <1>1, <1>2, <1>3, <2>8 DEF Registers
      <4>2. bin' = FALSE
        <5>1. ~ (Len(c) < length)  BY <2>5, <2>9
        <5>2. bin' = (Len(c) < length)  BY <2>8
        <5>3. length \in Nat /\ Len(c) \in Nat  BY <1>4, <1>5, <2>5
        <5>4. (Len(c) < length) = FALSE  BY <5>1, <5>3
        <5> QED  BY <5>2, <5>4, Zenon
      <4> QED  BY <3>5, <3>8, <4>1, <4>2 DEF Registers
    <3>10. Answers'  BY <3>3, <3>4 DEF Answers
    <3> QED  BY <1>6, <3>7, <3>9, <3>10 DEF Sync
  <2>10. CASE Len(c) # length
    <3>1. answers' = <<>>  BY <2>8, <2>10
    <3>2. Stage' = "22"  BY <1>2, <1>3, <3>1 DEF Stage
    <3>3. Len(c) < length
      BY <1>4, <1>5, <2>5, <2>7, <2>10
    <3>4. Streamed(Whole, Len(content), Len(Whole) - left, 1)'
      <4>1. Cut(wire', 0, Len(c), Whole, s, 1)  BY <2>2, <2>4
      <4>2. StreamedBy(wire', 0, <<>>, Whole, Len(c), s, 1)
        <5>1. <<>> \in Seq(Unit) /\ Len(<<>>) = 0 /\ 0 - 0 = 0 /\ Len(c) + 0 = Len(c)
          BY <2>5, EmptySeq
        <5> HIDE DEF s
        <5> QED  BY <2>2, <4>1, <5>1 DEF StreamedBy
      <4> QED  BY <1>2, <1>6, <2>1, <2>8, <4>2 DEF Streamed
    <3>5. Traffic'  BY <1>2, <3>1, <3>2, <3>4 DEF Traffic
    <3>6. Registers'
      <4>1. filepath' = path'  BY <1>1, <1>2, <1>3, <2>8 DEF Registers
      <4>2. bin' = TRUE  BY <2>8, <3>3
      <4>3. length' = Len(Whole')  BY <1>4, <1>6, <2>8
      <4> QED  BY <1>6, <2>4, <2>6, <2>8, <3>2, <3>3, <4>1, <4>2, <4>3 DEF Registers
    <3>7. Answers'  BY <3>1 DEF Answers
    <3> QED  BY <1>6, <3>5, <3>6, <3>7 DEF Sync
  <2> QED  BY <2>9, <2>10
<1> QED  BY <1>8, <1>9, <1>10, <1>11

\* The client takes an answer.
LEMMA ReceiveStep ==
  ASSUME Sync, Receive
  PROVE  Sync'
<1>1. /\ answers = <<waiting>> /\ answers' = <<>> /\ waiting' = "none"
      /\ UNCHANGED <<wire, path, file, left>>
      /\ UNCHANGED <<open, why, pending, total, bin, filepath, length, content, dropped, disk>>
  BY DEF Sync, Answers, Receive, serverVars
<1>2. Answers'  BY <1>1 DEF Answers
<1>3. CASE ~open  BY <1>1, <1>2, <1>3 DEF Sync
<1>4. CASE open
  <2>1. Upload /\ Registers /\ Traffic  BY <1>4 DEF Sync
  <2>2. Quiet /\ waiting \in {"cmd", "unknown", "21", "22", "23", "24"} /\ answers # <<>>
    BY <1>1, <2>1 DEF Traffic, Upload
  <2>3. Whole' = Whole /\ Quiet'  BY <1>1, <2>2 DEF Whole, Quiet
  <2>4. step' = CASE waiting \in {"21", "22", "23"} -> waiting
                  [] waiting = "24" -> "none"
                  [] OTHER -> step
    BY DEF Receive
  <2>5. Stage' = step'  BY <1>1 DEF Stage
  <2>6. \/ waiting \in {"cmd", "unknown"} /\ step' = step /\ Stage = step /\ step # "22"
        \/ waiting \in {"21", "22", "23"} /\ step' = waiting /\ Stage = waiting
        \/ waiting = "24" /\ step' = "none" /\ Stage = "24"
    BY <2>1, <2>2, <2>4 DEF Stage, Upload
  <2>7. Upload'
    <3>1. file' \in Seq(Unit) /\ left' \in 0..Len(Whole')  BY <1>1, <2>1, <2>3 DEF Upload
    <3>2. path' \in Paths \/ step' = "none"
      BY <1>1, <2>1, <2>6 DEF Upload
    <3>3. step' \in {"21", "22"} => left' = Len(Whole')
      BY <1>1, <2>1, <2>3, <2>6 DEF Upload
    <3> QED  BY <1>1, <3>1, <3>2, <3>3 DEF Upload
  <2>8. Registers'
    <3>1. CASE waiting = "24"
      <4>1. bin = FALSE  BY <2>1, <2>6, <3>1 DEF Registers
      <4>2. Stage' = "none"  BY <2>5, <2>6, <3>1
      <4>3. bin' = FALSE  BY <1>1, <4>1
      <4> QED  BY <4>2, <4>3 DEF Registers
    <3>2. CASE waiting # "24"
      <4>1. Stage' = Stage  BY <2>5, <2>6, <3>2
      <4> QED  BY <1>1, <2>1, <2>3, <4>1 DEF Registers
    <3> QED  BY <3>1, <3>2
  <2>9. Stage' = "22" => Streamed(Whole, Len(content), Len(Whole) - left, 1)'
    <3>1. Stage' = "22" => Stage = "22"  BY <2>5, <2>6
    <3> QED  BY <1>1, <2>1, <2>3, <3>1 DEF Traffic, Streamed
  <2>10. Traffic'  BY <1>1, <2>3, <2>9 DEF Traffic
  <2> QED  BY <1>2, <2>7, <2>8, <2>10 DEF Sync
<1> QED  BY <1>3, <1>4

-----------------------------------------------------------------------------
(* The invariant is kept *)

\* As long as something is on the way there is no answer.
LEMMA OnTheWay ==
  ASSUME Sync, open, NEW k \in 1..Len(wire)
  PROVE  /\ Upload /\ Registers /\ Traffic
         /\ answers = <<>> /\ waiting \in {"cmd", "unknown", "21", "22", "24", "sending", "23"}
<1>2. Upload /\ Registers /\ Traffic  BY DEF Sync
<1>3. wire # <<>>
  <2>1. 1..Len(wire) # {}  OBVIOUS
  <2>2. ASSUME wire = <<>> PROVE FALSE
    <3>1. Len(wire) = 0  BY <2>2
    <3> QED  BY <2>1, <3>1
  <2> QED  BY <2>2
<1>4. answers = <<>> /\ waiting \in {"cmd", "unknown", "21", "22", "24", "sending", "23"}
  BY <1>2, <1>3 DEF Traffic, Quiet, Upload
<1> QED  BY <1>2, <1>4

\* The handler reads, and nothing is thrown away.
LEMMA ReadStep ==
  ASSUME Sync, NEW k \in 1..Len(wire), Recv(k), ~dropped'
  PROVE  Sync'
<1>1. open  BY DEF Recv
<1>4. answers = <<>> /\ waiting \in {"cmd", "unknown", "21", "22", "24", "sending", "23"}
  BY <1>1, OnTheWay
<1>5. CASE waiting \in {"cmd", "unknown", "21", "22", "24"}  BY <1>1, <1>4, <1>5, RecvRequest
<1>6. CASE waiting \in {"sending", "23"}  BY <1>1, <1>4, <1>6, RecvContent
<1> QED  BY <1>4, <1>5, <1>6

\* Every step keeps the two ends in step, or says that they are not.
LEMMA NextInv ==
  ASSUME IInv, [Next]_vars
  PROVE  IInv'
<1> SUFFICES ASSUME ~dropped' PROVE Sync'  BY DEF IInv
<1>1. CASE Reconnect
  <2>1. (Fresh => Sync)'  BY FreshSync, PTL
  <2>2. Fresh'  BY <1>1 DEF Reconnect, Fresh
  <2> QED  BY <2>1, <2>2
<1>2. CASE UNCHANGED vars
  <2>1. Sync  BY <1>2 DEF IInv, vars, serverVars
  <2>2. /\ UNCHANGED <<open, pending, total, bin, filepath, length, content, disk>>
        /\ UNCHANGED <<wire, answers, step, waiting, path, file, left>>
    BY <1>2 DEF vars, serverVars, clientVars
  <2>3. Stage' = Stage /\ Whole' = Whole /\ Request' = Request /\ Quiet' = Quiet
    BY <2>2 DEF Stage, Whole, Request, Quiet
  <2>4. Upload => Upload'  BY <2>2, <2>3 DEF Upload
  <2>5. Registers => Registers'  BY <2>2, <2>3 DEF Registers
  <2>6. Traffic => Traffic'  BY <2>2, <2>3 DEF Traffic, Streamed
  <2>7. Answers => Answers'  BY <2>2 DEF Answers
  <2> QED  BY <2>1, <2>2, <2>4, <2>5, <2>6, <2>7 DEF Sync
<1>3. CASE Leave
  <2>1. UNCHANGED <<dropped, answers, disk, path, file, waiting>> /\ open' = FALSE
    BY <1>3 DEF Leave, clientVars
  <2> QED  BY <2>1 DEF IInv, Sync, Answers
<1>4. CASE SendCommand \/ SendPath \/ SendSize \/ SendContent \/ SendWrite \/ Receive
  <2>1. UNCHANGED dropped
    BY <1>4 DEF SendCommand, SendPath, SendSize, SendContent, SendWrite, Receive, Send, serverVars
  <2>2. Sync  BY <2>1 DEF IInv
  <2> QED  BY <1>4, <2>2, SendCommandStep, SendPathStep, SendSizeStep, SendContentStep,
              SendWriteStep, ReceiveStep
<1>5. CASE ServerStep
  <2>1. PICK k \in 1..Len(wire) : Recv(k)  BY <1>5 DEF ServerStep
  <2>2. ~dropped  BY <2>1 DEF Recv, Frame
  <2> QED  BY <2>1, <2>2, ReadStep DEF IInv
<1> QED  BY <1>1, <1>2, <1>3, <1>4, <1>5 DEF Next

-----------------------------------------------------------------------------
(* What is thrown away *)

\* Behind the frame that is read there is another, all of it content.
LEMMA AnotherFrame ==
  ASSUME NEW w \in Seq(Unit), NEW r \in Nat, NEW c \in Nat, NEW str, NEW s \in Nat,
         NEW least \in Nat, Cut(w, r, c, str, s, least), r < Len(w)
  PROVE  r + 1 \in 1..Len(w) /\ w[r + 1][1] = "len" /\ c + r + least <= s
<1> DEFINE v == SubSeq(w, r + 1, Len(w))
           d == c + r
<1>1. Len(w) \in Nat /\ r <= Len(w) /\ r <= r /\ r - r = 0 /\ d \in Nat  BY LenProperties
<1>2. Behind(w, r, v)  BY <1>1, Split
<1>3. v \in Seq(Unit) /\ Len(w) = Len(v) + r /\ \A i \in 1..Len(v) : v[i] = w[i + r]
  BY <1>2 DEF Behind
<1> HIDE DEF v
<1>4. Cut(v, r - r, c + r, str, s, least)  BY <1>1, <1>2, CutSkip
<1>5. Cut(v, 0, d, str, s, least)  BY <1>1, <1>4
<1>6. Len(v) > 0 /\ 1 \in 1..Len(v)
  <2>1. Len(v) \in Nat  BY <1>3, LenProperties
  <2> QED  BY <1>1, <1>3, <2>1
<1> HIDE DEF d
<1>7. PICK n \in Nat : n >= least /\ d + n <= s /\ v[1] = <<"len", n>>
  <2>1. v \in Seq(Unit) /\ d \in Nat /\ Len(v) > 0 /\ Cut(v, 0, d, str, s, least)
    BY <1>1, <1>3, <1>5, <1>6
  <2>2. \E n \in Nat :
          /\ n >= least /\ d + n <= s /\ n + 2 <= Len(v)
          /\ v[1] = <<"len", n>> /\ v[2] = <<"pad", 0>>
          /\ \A y : Behind(v, 2, y) => Cut(y, n, d, str, s, least)
    BY <2>1, CutOpen
  <2> QED  BY <2>2
<1>8. v[1] = w[1 + r] /\ 1 + r = r + 1  BY <1>3, <1>6
<1>9. w[r + 1][1] = "len"  BY <1>7, <1>8
<1>10. d + least <= s  BY <1>1, <1>7
<1> QED  BY <1>1, <1>9, <1>10 DEF d

\* A piece that runs past its frame: a second one, with its length, has come.
LEMMA DropStep ==
  ASSUME NEW str, NEW d \in Nat, NEW s \in Nat, NEW least \in Nat,
         StreamedBy(wire, pending, total, str, d, s, least),
         NEW k \in 1..Len(wire), Recv(k), ~dropped, dropped'
  PROVE  d + least + least <= s /\ \E i \in 2..Len(wire) : wire[i][1] = "len"
<1> DEFINE g == SubSeq(wire, 1, k)
<1>1. /\ wire \in Seq(Unit) /\ pending \in Nat /\ total \in Seq(Unit)
      /\ (pending = 0 /\ total = <<>>) \/ (Len(total) < pending /\ pending >= least)
      /\ Cut(wire, pending - Len(total), d + Len(total), str, s, least)
  BY DEF StreamedBy
<1>2. Len(wire) \in Nat /\ Len(total) \in Nat /\ (total = <<>> => Len(total) = 0)
  BY <1>1, LenProperties
<1>3. k \in Nat /\ k <= Len(wire)  BY <1>2
<1>4. g \in Seq(Unit) /\ Len(g) = k /\ \A i \in 1..k : g[i] = wire[i]  BY <1>1, <1>3, Split
<1> HIDE DEF g
<1>5. CASE pending # 0
  <2> DEFINE u == total \o g
             r == pending - Len(total)
             c == d + Len(total)
  <2>1. Frame(pending, u)  BY <1>5 DEF Recv, g
  <2>2. ~ (Len(u) < pending) /\ Len(u) # pending  BY <2>1 DEF Frame
  <2>3. Len(u) = Len(total) + k  BY <1>1, <1>4, JoinedUnits
  <2>4. r \in Nat /\ c \in Nat /\ r >= 1 /\ pending >= least /\ c + r = d + pending
    BY <1>1, <1>2, <1>5
  <2>5. r < Len(wire)
    <3>1. ~ (Len(total) + k < pending) /\ Len(total) + k # pending  BY <2>2, <2>3
    <3>2. k > r  BY <1>1, <1>2, <1>3, <3>1
    <3> QED  BY <1>2, <1>3, <2>4, <3>2
  <2>6. Cut(wire, r, c, str, s, least)  BY <1>1
  <2> HIDE DEF r, c
  <2>7. r + 1 \in 1..Len(wire) /\ wire[r + 1][1] = "len" /\ c + r + least <= s
    BY <1>1, <2>4, <2>5, <2>6, AnotherFrame
  <2>8. r + 1 \in 2..Len(wire)  BY <1>2, <2>4, <2>7
  <2>9. d + least + least <= s
    <3>1. d + pending + least <= s  BY <2>4, <2>7
    <3> QED  BY <1>1, <2>4, <3>1
  <2> QED  BY <2>7, <2>8, <2>9
<1>6. CASE pending = 0
  <2>1. k >= 2
    <3>1. ASSUME k < 2 PROVE FALSE  BY <1>6, <3>1 DEF Recv
    <3> QED  BY <1>3, <3>1
  <2> DEFINE u == SubSeq(g, 3, k)
             x == SubSeq(wire, 3, Len(wire))
  <2>2. PICK n \in Announced(g) : Frame(n, u)
    <3>1. ~ (k < 2)  BY <1>3, <2>1
    <3> QED  BY <1>6, <3>1 DEF Recv, g
  <2>3. ~ (Len(u) < n) /\ Len(u) # n  BY <2>2 DEF Frame
  <2>4. Cut(wire, 0, d, str, s, least)
    <3>1. total = <<>> /\ Len(total) = 0  BY <1>1, <1>2, <1>6
    <3>2. 0 - 0 = 0 /\ d + 0 = d  OBVIOUS
    <3>3. Cut(wire, pending - Len(total), d + Len(total), str, s, least)  BY <1>1
    <3> QED  BY <1>6, <3>1, <3>2, <3>3
  <2>5. 2 \in Nat /\ 2 <= Len(wire) /\ Len(wire) > 0 /\ 2 <= k /\ 2 + 1 = 3  BY <1>2, <1>3, <2>1
  <2>6. PICK m \in Nat :
          /\ m >= least /\ d + m <= s /\ m + 2 <= Len(wire)
          /\ wire[1] = <<"len", m>> /\ wire[2] = <<"pad", 0>>
          /\ \A y : Behind(wire, 2, y) => Cut(y, m, d, str, s, least)
    BY <1>1, <2>4, <2>5, CutOpen
  <2>7. n = m
    <3>1. 1 \in 1..k /\ 2 \in 1..k  BY <1>3, <2>1
    <3>2. g[1] = <<"len", m>> /\ g[2] = <<"pad", 0>>  BY <1>4, <2>6, <3>1
    <3>3. g[1][1] = "len" /\ g[1][2] = m  BY <3>2
    <3>4. Announced(g) = {m}  BY <3>2, <3>3 DEF Announced
    <3> QED  BY <2>2, <3>4
  <2>8. Behind(wire, 2, x)
    <3>1. Behind(wire, 2, SubSeq(wire, 2 + 1, Len(wire)))  BY <1>1, <2>5, Split
    <3> QED  BY <2>5, <3>1
  <2>9. Len(u) = k - 2
    <3>1. Behind(g, 2, SubSeq(g, 2 + 1, Len(g)))  BY <1>4, <2>5, Split
    <3>2. Behind(g, 2, u)  BY <1>4, <2>5, <3>1
    <3>3. u \in Seq(Unit) /\ k = Len(u) + 2  BY <1>4, <3>2 DEF Behind
    <3>4. Len(u) \in Nat  BY <3>3, LenProperties
    <3> QED  BY <1>3, <3>3, <3>4
  <2> HIDE DEF x, u
  <2>10. x \in Seq(Unit) /\ Len(wire) = Len(x) + 2 /\ \A i \in 1..Len(x) : x[i] = wire[i + 2]
    BY <2>8 DEF Behind
  <2>11. m < Len(x)
    <3>1. m \in Nat /\ ~ (k - 2 < m) /\ k - 2 # m  BY <2>3, <2>6, <2>7, <2>9
    <3>2. Len(x) \in Nat /\ k <= Len(x) + 2  BY <1>3, <2>10, LenProperties
    <3> QED  BY <1>3, <3>1, <3>2
  <2>12. Cut(x, m, d, str, s, least) /\ m \in Nat /\ m >= least  BY <2>6, <2>8
  <2>13. m + 1 \in 1..Len(x) /\ x[m + 1][1] = "len" /\ d + m + least <= s
    BY <2>10, <2>11, <2>12, AnotherFrame
  <2>14. (m + 1) + 2 \in 2..Len(wire) /\ wire[(m + 1) + 2][1] = "len"
    <3>1. x[m + 1] = wire[(m + 1) + 2]  BY <2>10, <2>13
    <3>2. Len(x) \in Nat /\ Len(wire) = Len(x) + 2 /\ m + 1 <= Len(x)
      BY <2>10, <2>13, LenProperties
    <3>3. (m + 1) + 2 \in 2..Len(wire)  BY <2>12, <3>2
    <3> QED  BY <2>13, <3>1, <3>3
  <2>15. d + least + least <= s  BY <2>12, <2>13
  <2> QED  BY <2>14, <2>15
<1> QED  BY <1>5, <1>6

\* The first piece is thrown away while a file is sent, and the length of a later frame
\* was there already.
RunTogether ==
  ~dropped /\ dropped' => /\ waiting \in {"sending", "23"}
                          /\ \E i \in 2..Len(wire) : wire[i][1] = "len"

LEMMA DropLemma ==
  ASSUME IInv, [Next]_vars
  PROVE  RunTogether
<1> SUFFICES ASSUME ~dropped, dropped'
             PROVE  /\ waiting \in {"sending", "23"}
                    /\ \E i \in 2..Len(wire) : wire[i][1] = "len"
  BY DEF RunTogether
<1>1. Sync  BY DEF IInv
<1>2. PICK k \in 1..Len(wire) : Recv(k)
  <2>1. ~ UNCHANGED dropped  OBVIOUS
  <2>2. ~ UNCHANGED vars  BY <2>1 DEF vars, serverVars
  <2>3. ~ (SendCommand \/ SendPath \/ SendSize \/ SendContent \/ SendWrite \/ Receive)
    BY <2>1 DEF SendCommand, SendPath, SendSize, SendContent, SendWrite, Receive, Send, serverVars
  <2>4. ~ (Leave \/ Reconnect)  BY <2>1 DEF Leave, Reconnect
  <2> QED  BY <2>2, <2>3, <2>4 DEF Next, ServerStep
<1>3. open  BY <1>2 DEF Recv
<1>4. /\ Upload /\ Registers /\ Traffic
      /\ answers = <<>> /\ waiting \in {"cmd", "unknown", "21", "22", "24", "sending", "23"}
  BY <1>1, <1>2, <1>3, OnTheWay
<1>5. ASSUME waiting \in {"cmd", "unknown", "21", "22", "24"} PROVE FALSE
  <2>1. Request \in Seq(Unit) /\ Len(Request) \in Nat /\ Len(Request) > 0
    BY <1>4, <1>5, RequestUnits
  <2>2. StreamedBy(wire, pending, total, Request, 0, Len(Request), Len(Request))
    <3>1. Quiet => Len(wire) = 0  BY DEF Quiet
    <3> QED  BY <1>2, <1>4, <1>5, <3>1 DEF Traffic, Streamed
  <2>3. 0 \in Nat  OBVIOUS
  <2>4. 0 + Len(Request) + Len(Request) <= Len(Request)
    BY <1>2, <2>1, <2>2, <2>3, DropStep
  <2> QED  BY <2>1, <2>4
<1>6. waiting \in {"sending", "23"}  BY <1>4, <1>5
<1>7. \E i \in 2..Len(wire) : wire[i][1] = "len"
  <2>1. Stage = "22"  BY <1>4, <1>6 DEF Stage, Upload
  <2> DEFINE d == Len(content)
             s == Len(Whole) - left
  <2>2. d \in Nat /\ s \in Nat /\ 1 \in Nat
    <3>1. content \in Seq(Unit)  BY <1>4, <2>1 DEF Registers
    <3>2. Len(Whole) \in Nat /\ left \in 0..Len(Whole)  BY <1>4, ContentUnits DEF Upload, Whole
    <3> QED  BY <3>1, <3>2, LenProperties
  <2>3. StreamedBy(wire, pending, total, Whole, d, s, 1)  BY <1>4, <2>1 DEF Traffic, Streamed
  <2> HIDE DEF d, s
  <2> QED  BY <1>2, <2>2, <2>3, DropStep
<1> QED  BY <1>6, <1>7

-----------------------------------------------------------------------------
(* Theorems *)

\* As long as nothing was thrown away the two ends are in step: what is on the way is what
\* the client sent since the handler's last answer, and what the handler has gathered is
\* the client's file so far (protocol.py, MyTCPHandler.handle).
THEOREM InStep == Spec => []IInv
<1>1. Init => IInv  BY FreshSync DEF Init, Fresh, IInv
<1>2. IInv /\ [Next]_vars => IInv'  BY NextInv
<1> QED  BY <1>1, <1>2, PTL DEF Spec

\* For any files and any way the stream is cut, every answer is to the request the client
\* waits for, as long as nothing was thrown away.
THEOREM AnswersAlwaysMatch == Spec => []AnswersMatch
<1>1. IInv => AnswersMatch  BY DEF IInv, Sync, Answers, AnswersMatch
<1> QED  BY <1>1, InStep, PTL

\* For any file, in however many frames, cut anywhere: answered "24 ok" means on the disk,
\* byte for byte, unless something was thrown away or the file is the marker.
THEOREM UploadAlwaysFaithful == Spec => []UploadIsFaithful
<1>1. IInv => UploadIsFaithful  BY DEF IInv, Sync, Answers, UploadIsFaithful
<1> QED  BY <1>1, InStep, PTL

\* Nothing is thrown away but pieces of a file that is sent in more than one frame, when
\* the handler reads the end of one together with the beginning of another: a client that
\* sends each file in one frame can rely on the other theorems.
THEOREM OnlyRunTogether == Spec => [][RunTogether]_vars
<1>1. IInv /\ [Next]_vars => [RunTogether]_vars  BY DropLemma
<1> QED  BY <1>1, InStep, PTL DEF Spec

=============================================================================
