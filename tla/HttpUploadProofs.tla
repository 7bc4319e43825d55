-------------------------- MODULE HttpUploadProofs --------------------------
(***************************************************************************)
(* Proofs about HttpUpload for any number of uploads and downloads, any    *)
(* sizes, any order of the fields and any overlap of the requests.         *)
(* TypeInv is what holds of names and types; Inv says which inode an       *)
(* upload writes and what is in it as long as no other upload that ran at  *)
(* the same time had that inode in hand, and that neither the path nor a   *)
(* download then shares it.                                                *)
(***************************************************************************)
EXTENDS HttpUpload, SequenceTheorems, TLAPS

\* n chunks of upload u.
Fill(n, u) == [j \in 1..n |-> u]

\* The chunks upload u has put into its file while it holds it open, and those
\* there are once it has closed it.
Written(u) == IF Buffered(u) THEN at[u] - 1 ELSE at[u]
Stored(u)  == IF u \in unflushed THEN size[u] - 1 ELSE size[u]

\* An upload that goes through `<path>.part`, and one that has a file of its own.
Uploading(u) == Running(u) /\ made[u] = "part"
Receiving(u) == upc[u] \in {"fields", "value"} /\ made[u] # "none"

\* An inode that no request has come across yet.
Unused(i) ==
  /\ i # part /\ i # dest
  /\ \A g \in Gets : gino[g] # i
  /\ \A w \in Uploads : fh[w] # i

\* A download that runs has a file.
GetOK(g) ==
  /\ gpc[g] = "open" => dest # NoInode
  /\ gpc[g] = "send" => gino[g] # NoInode
  /\ gpc[g] \in {"idle", "open"} => gino[g] = NoInode
  /\ gino[g] = NoInode => gbody[g] = <<>>

TypeInv == TypeOK /\ \A g \in Gets : GetOK(g)

\* Where an upload stands, before it opens its file and after.
FreshOK(u) ==
  /\ upc[u] = "idle" => made[u] = "none"
  /\ upc[u] # "idle" => size[u] > 0
  /\ upc[u] # "done" => answer[u] # "ok"
  /\ upc[u] = "value" => made[u] # "none"
  /\ upc[u] = "copying" => made[u] = "temp"
  /\ upc[u] \in {"idle", "publish", "done"} => fh[u] = NoInode
  /\ made[u] = "none" =>
       /\ at[u] = 0 /\ fh[u] = NoInode
       /\ u \notin temps /\ u \notin unflushed
       /\ Unused(<<u, "body">>) /\ data[<<u, "body">>] = <<>>
  /\ upc[u] \in {"idle", "fields", "value", "publish"} => Unused(<<u, "copy">>)
  /\ Receiving(u) =>
       /\ fh[u] # NoInode /\ at[u] <= size[u] /\ u \notin unflushed
       /\ upc[u] = "fields" => at[u] = size[u]

\* A temporary file is the upload's own.
TempOK(u) ==
  Running(u) /\ made[u] = "temp" =>
    /\ u \in temps
    /\ <<u, "body">> # part /\ <<u, "body">> # dest
    /\ \A g \in Gets : gino[g] # <<u, "body">>
    /\ \A w \in Uploads \ {u} : fh[w] # <<u, "body">>
    /\ Receiving(u) => fh[u] = <<u, "body">> /\ data[<<u, "body">>] = Fill(Written(u), u)
    /\ upc[u] \in {"publish", "copying"} => data[<<u, "body">>] = Fill(Stored(u), u)

\* A `<path>.part` that was never shared is what the upload has written.
OwnOK(u) ==
  Uploading(u) =>
    /\ /\ Receiving(u)
       /\ fh[u] \notin shared \/ (part # NoInode /\ part \notin shared)
       => fh[u] = part /\ data[part] = Fill(Written(u), u)
    /\ upc[u] = "publish" /\ part # NoInode /\ part \notin shared
       => data[part] = Fill(Stored(u), u)

\* Two uploads that overlap share whatever they have.
TwoOK ==
  \A u, w \in Uploads :
    u # w /\ Uploading(u) /\ Uploading(w) =>
      /\ part # NoInode => part \in shared
      /\ fh[u] # NoInode => fh[u] \in shared

\* While an upload copies its body to the destination.
CopyOK(u) ==
  upc[u] = "copying" =>
    /\ dest # NoInode /\ fh[u] # NoInode /\ fh[u] # part /\ fh[u] # <<u, "body">>
    /\ at[u] <= Stored(u)
    /\ fh[u] \notin shared =>
         /\ data[fh[u]] = Fill(at[u], u)
         /\ \A w \in Uploads \ {u} : fh[w] # fh[u]

\* `<path>.part` is no file of another name.
PartOK ==
  part # NoInode => part \in Body /\ part # dest /\ \A g \in Gets : gino[g] # part

\* No upload that is over left it or its temporary file behind.
CleanOK ==
  ~ crashed =>
    /\ part # NoInode => \E u \in Uploads : made[u] = "part" /\ (Running(u) \/ Abandoned(u))
    /\ \A u \in temps : made[u] = "temp" /\ (Running(u) \/ Abandoned(u))

\* What the path names, by the upload that put it there, or is about to.
Cut(u) ==
  /\ made[u] = "temp" /\ answer[u] # "ok" /\ upc[u] \in {"copying", "done"}
  /\ upc[u] = "copying" => fh[u] = dest
  /\ data[dest] = Fill(Len(data[dest]), u)
Origin(u) ==
  \/ made[u] # "none" /\ data[dest] = Fill(size[u], u)
  \/ Cut(u)
  \/ u \in unflushed /\ data[dest] = Fill(size[u] - 1, u)

DestOK ==
  dest # NoInode /\ dest \notin shared =>
    data[dest] = <<Old>> \/ \E u \in Uploads : Origin(u)

\* Chunks a download sent and may send still.
Chunks(s) == {s[j] : j \in 1..Len(s)}
Mixed(x, y) == x # y /\ \A u \in Uploads : made[u] = "temp" => u \notin {x, y}
PureOK(g) ==
  gino[g] # NoInode /\ gino[g] \notin shared =>
    \A x, y \in Chunks(gbody[g]) \cup Chunks(data[gino[g]]) : ~ Mixed(x, y)

Inv ==
  /\ \A u \in Uploads : FreshOK(u) /\ TempOK(u) /\ OwnOK(u) /\ CopyOK(u)
  /\ TwoOK /\ PartOK /\ CleanOK /\ DestOK
  /\ \A g \in Gets : PureOK(g)

-----------------------------------------------------------------------------
(* Files written by one upload *)

\* A file that one upload filled holds that upload's chunks and no others.
LEMMA FillIs ==
  ASSUME NEW n \in Nat, NEW u \in Uploads
  PROVE  /\ Fill(n, u) \in Seq(Chunk)
         /\ Len(Fill(n, u)) = n
         /\ \A j \in 1..n : Fill(n, u)[j] = u
         /\ Chunks(Fill(n, u)) \subseteq {u}
<1>1. Fill(n, u) \in [1..n -> Chunk]  BY DEF Fill, Chunk
<1>2. Fill(n, u) \in Seq(Chunk)  BY <1>1
<1>3. Len(Fill(n, u)) = n  BY <1>1, <1>2, LenProperties
<1>4. \A j \in 1..n : Fill(n, u)[j] = u  BY DEF Fill
<1> QED  BY <1>2, <1>3, <1>4 DEF Chunks

\* Writing a chunk anywhere makes a file of chunks.
LEMMA WriteIs ==
  ASSUME NEW s \in Seq(Chunk), NEW k \in Nat \ {0}, NEW c \in Chunk
  PROVE  WriteAt(s, k, c) \in Seq(Chunk)
<1> DEFINE m == IF k > Len(s) THEN k ELSE Len(s)
<1>1. m \in Nat  OBVIOUS
<1>2. Hole \in Chunk  BY DEF Chunk
<1>3. \A j \in 1..Len(s) : s[j] \in Chunk  OBVIOUS
<1>4. WriteAt(s, k, c) \in [1..m -> Chunk]  BY <1>2, <1>3 DEF WriteAt
<1> QED  BY <1>1, <1>4

\* An upload that writes behind its own last chunk has one chunk more.
LEMMA WriteNext ==
  ASSUME NEW n \in Nat, NEW u \in Uploads
  PROVE  WriteAt(Fill(n, u), n + 1, u) = Fill(n + 1, u)
<1>1. Len(Fill(n, u)) = n /\ \A j \in 1..n : Fill(n, u)[j] = u  BY FillIs
<1> QED  BY <1>1 DEF WriteAt, Fill

\* An empty file is one with no chunk of any upload.
LEMMA FillNone ==
  ASSUME NEW u \in Uploads
  PROVE  Fill(0, u) = <<>>
<1>1. Fill(0, u) \in Seq(Chunk) /\ Len(Fill(0, u)) = 0  BY FillIs
<1> QED  BY <1>1, EmptySeq

-----------------------------------------------------------------------------
(* Types *)

NameTypes ==
  /\ {part, dest} \subseteq Inodes \cup {NoInode}
  /\ temps \subseteq Uploads /\ unflushed \subseteq Uploads /\ shared \subseteq Inodes
DataTypes == data \in [Inodes -> Seq(Chunk)]
CallTypes ==
  /\ upc \in [Uploads -> {"idle", "fields", "value", "publish", "copying", "done"}]
  /\ layout \in [Uploads -> Layouts \cup {<<>>}]
  /\ field \in [Uploads -> Nat]
  /\ size \in [Uploads -> 0..MaxSize]
  /\ path \in [Uploads -> {"none", "good", "bad"}]
  /\ fh \in [Uploads -> Inodes \cup {NoInode}]
  /\ at \in [Uploads -> Nat]
  /\ made \in [Uploads -> {"none", "part", "temp"}]
  /\ answer \in [Uploads -> {"none", "ok", "bad request", "server error", "hung up"}]

\* Names, files and handles.
LEMMA InodeFacts ==
  /\ Old \in Inodes /\ NoInode \notin Inodes /\ Body \subseteq Inodes /\ Copy \subseteq Inodes
  /\ \A u \in Uploads : <<u, "body">> \in Body /\ <<u, "copy">> \in Copy
BY SentinelAssumption DEF Inodes, Body, Copy

\* The types hold when the server comes up.
LEMMA TypeInit == Init => TypeInv
<1> SUFFICES ASSUME Init PROVE TypeInv  OBVIOUS
<1>1. DataTypes
  <2>1. <<Old>> \in Seq(Chunk) /\ <<>> \in Seq(Chunk)  BY DEF Chunk
  <2> QED  BY <2>1 DEF Init, DataTypes
<1>2. CallTypes  BY SizeAssumption DEF Init, CallTypes
<1>3. NameTypes  BY InodeFacts DEF Init, NameTypes
<1>4. /\ gpc \in [Gets -> {"idle", "open", "send", "done"}]
      /\ glen \in [Gets -> Nat]
      /\ gino \in [Gets -> Inodes \cup {NoInode}]
      /\ gbody \in [Gets -> Seq(Chunk)]
  BY DEF Init
<1>5. crashed \in BOOLEAN /\ \A g \in Gets : GetOK(g)  BY DEF Init, GetOK
<1> QED  BY <1>1, <1>2, <1>3, <1>4, <1>5 DEF TypeInv, TypeOK, DataTypes, CallTypes, NameTypes

\* How a request changes names, handles and counters.
LEMMA PostShape ==
  ASSUME NEW u \in Uploads, PostBegin(u) \/ PostStep(u)
  PROVE  /\ field' \in {field, [field EXCEPT ![u] = @ + 1]}
         /\ at' \in {at, [at EXCEPT ![u] = @ + 1], [at EXCEPT ![u] = 0]}
         /\ size' = size \/ \E n \in 1..MaxSize : size' = [size EXCEPT ![u] = n]
         /\ layout' = layout \/ \E l \in Layouts : layout' = [layout EXCEPT ![u] = l]
         /\ path' \in {path, [path EXCEPT ![u] = "good"], [path EXCEPT ![u] = "bad"]}
         /\ fh' = fh \/ \E i \in {NoInode, part, dest, <<u, "body">>, <<u, "copy">>} :
                           fh' = [fh EXCEPT ![u] = i]
         /\ part' \in {part, NoInode, <<u, "body">>}
         /\ dest' \in {dest, <<u, "body">>, <<u, "copy">>} \/ (dest' = part /\ part # NoInode)
         /\ temps' \in {temps, temps \cup {u}, temps \ {u}}
         /\ unflushed' \in {unflushed, unflushed \cup {u}}
         /\ \E i \in {part, dest, <<u, "body">>, <<u, "copy">>} \ {NoInode} :
              shared' \in {shared, shared \cup {i}, shared \ {i}}
<1>0. <<u, "body">> # NoInode /\ <<u, "copy">> # NoInode  BY InodeFacts
<1> USE DEF Finish, Discard, Flush, fsVars
<1>1. CASE PostBegin(u)      BY <1>0, <1>1 DEF PostBegin
<1>2. CASE PathField(u)      BY <1>0, <1>2 DEF PathField
<1>3. CASE OtherField(u)     BY <1>0, <1>3 DEF OtherField
<1>4. CASE OpenPart(u)       BY <1>0, <1>4 DEF OpenPart
<1>5. CASE OpenTemp(u)       BY <1>0, <1>5 DEF OpenTemp
<1>6. CASE WriteChunk(u)     BY <1>0, <1>6 DEF WriteChunk
<1>7. CASE ValueEnds(u)      BY <1>0, <1>7 DEF ValueEnds
<1>8. CASE PostFails(u)
  <2>1. /\ UNCHANGED <<dest, layout, field, size, path, at, unflushed, shared>>
        /\ part' \in {part, NoInode} /\ temps' \in {temps, temps \ {u}}
        /\ fh' = [fh EXCEPT ![u] = NoInode]
    BY <1>8 DEF PostFails
  <2> QED  BY <1>0, <2>1
<1>9. CASE BodyEnds(u)       BY <1>0, <1>9 DEF BodyEnds
<1>10. CASE PublishPart(u)    BY <1>0, <1>10 DEF PublishPart
<1>11. CASE PublishTemp(u)    BY <1>0, <1>11 DEF PublishTemp
<1>12. CASE CopyBegin(u)      BY <1>0, <1>12 DEF CopyBegin
<1>13. CASE CopyChunk(u)      BY <1>0, <1>13 DEF CopyChunk
<1>14. CASE CopyEnds(u)       BY <1>0, <1>14 DEF CopyEnds
<1>15. CASE PublishRaises(u) BY <1>0, <1>15 DEF PublishRaises
<1> QED
  BY <1>1, <1>2, <1>3, <1>4, <1>5, <1>6, <1>7, <1>8, <1>9, <1>10, <1>11, <1>12,
     <1>13, <1>14, <1>15 DEF PostStep

\* Places, kinds of files and answers of an upload stay what they can be.
LEMMA PostCodes ==
  ASSUME TypeInv, NEW u \in Uploads, PostBegin(u) \/ PostStep(u)
  PROVE  /\ upc' \in [Uploads -> {"idle", "fields", "value", "publish", "copying", "done"}]
         /\ made' \in [Uploads -> {"none", "part", "temp"}]
         /\ answer' \in [Uploads -> {"none", "ok", "bad request", "server error", "hung up"}]
<1> USE DEF TypeInv, TypeOK, Finish, fsVars
<1>1. CASE PostBegin(u)      BY <1>1 DEF PostBegin
<1>2. CASE PathField(u)      BY <1>2 DEF PathField
<1>3. CASE OtherField(u)     BY <1>3 DEF OtherField
<1>4. CASE OpenPart(u)       BY <1>4 DEF OpenPart
<1>5. CASE OpenTemp(u)       BY <1>5 DEF OpenTemp
<1>6. CASE WriteChunk(u)     BY <1>6 DEF WriteChunk
<1>7. CASE ValueEnds(u)      BY <1>7 DEF ValueEnds
<1>8. CASE PostFails(u)
  <2>1. PICK code \in {"bad request", "server error"} : Finish(u, code)  BY <1>8 DEF PostFails
  <2>2. UNCHANGED made  BY <1>8 DEF PostFails
  <2> QED  BY <2>1, <2>2
<1>9. CASE BodyEnds(u)       BY <1>9 DEF BodyEnds
<1>10. CASE PublishPart(u)    BY <1>10 DEF PublishPart
<1>11. CASE PublishTemp(u)    BY <1>11 DEF PublishTemp
<1>12. CASE CopyBegin(u)      BY <1>12 DEF CopyBegin
<1>13. CASE CopyChunk(u)      BY <1>13 DEF CopyChunk
<1>14. CASE CopyEnds(u)       BY <1>14 DEF CopyEnds
<1>15. CASE PublishRaises(u) BY <1>15 DEF PublishRaises
<1> QED
  BY <1>1, <1>2, <1>3, <1>4, <1>5, <1>6, <1>7, <1>8, <1>9, <1>10, <1>11, <1>12,
     <1>13, <1>14, <1>15 DEF PostStep

\* Locals of uploads, and the names, keep their types; the path once there stays.
LEMMA PostCalls ==
  ASSUME TypeInv, NEW u \in Uploads, PostBegin(u) \/ PostStep(u)
  PROVE  NameTypes' /\ CallTypes' /\ (dest # NoInode => dest' # NoInode)
<1>1. /\ field \in [Uploads -> Nat] /\ at \in [Uploads -> Nat] /\ size \in [Uploads -> 0..MaxSize]
      /\ layout \in [Uploads -> Layouts \cup {<<>>}] /\ path \in [Uploads -> {"none", "good", "bad"}]
      /\ fh \in [Uploads -> Inodes \cup {NoInode}]
      /\ part \in Inodes \cup {NoInode} /\ dest \in Inodes \cup {NoInode}
      /\ temps \subseteq Uploads /\ unflushed \subseteq Uploads /\ shared \subseteq Inodes
  BY DEF TypeInv, TypeOK
<1>2. field' \in [Uploads -> Nat]
  <2>1. field' \in {field, [field EXCEPT ![u] = @ + 1]}  BY PostShape
  <2>2. field[u] + 1 \in Nat  BY <1>1
  <2>3. CASE field' = field  BY <1>1, <2>3
  <2>4. CASE field' = [field EXCEPT ![u] = @ + 1]  BY <1>1, <2>2, <2>4
  <2> QED  BY <2>1, <2>3, <2>4
<1>3. at' \in [Uploads -> Nat]
  <2>1. at' \in {at, [at EXCEPT ![u] = @ + 1], [at EXCEPT ![u] = 0]}  BY PostShape
  <2>2. at[u] + 1 \in Nat  BY <1>1
  <2>3. CASE at' = at  BY <1>1, <2>3
  <2>4. CASE at' = [at EXCEPT ![u] = @ + 1]  BY <1>1, <2>2, <2>4
  <2>5. CASE at' = [at EXCEPT ![u] = 0]  BY <1>1, <2>5
  <2> QED  BY <2>1, <2>3, <2>4, <2>5
<1>4. size' \in [Uploads -> 0..MaxSize]
  <2>1. size' = size \/ \E n \in 1..MaxSize : size' = [size EXCEPT ![u] = n]  BY PostShape
  <2>2. \A n \in 1..MaxSize : n \in 0..MaxSize  BY SizeAssumption
  <2> QED  BY <1>1, <2>1, <2>2
<1>5. layout' \in [Uploads -> Layouts \cup {<<>>}]
  <2>1. layout' = layout \/ \E l \in Layouts : layout' = [layout EXCEPT ![u] = l]  BY PostShape
  <2> QED  BY <1>1, <2>1
<1>6. path' \in [Uploads -> {"none", "good", "bad"}]  BY <1>1, PostShape
<1>7. fh' \in [Uploads -> Inodes \cup {NoInode}]
  <2>1. {NoInode, part, dest, <<u, "body">>, <<u, "copy">>} \subseteq Inodes \cup {NoInode}
    BY <1>1, InodeFacts
  <2>2. fh' = fh \/ \E i \in Inodes \cup {NoInode} : fh' = [fh EXCEPT ![u] = i]
    BY <2>1, PostShape
  <2> QED  BY <1>1, <2>2
<1>8. NameTypes'
  <2>1. <<u, "body">> \in Inodes /\ <<u, "copy">> \in Inodes  BY InodeFacts
  <2>2. /\ part' \in {part, NoInode, <<u, "body">>}
        /\ dest' \in {dest, <<u, "body">>, <<u, "copy">>} \/ (dest' = part /\ part # NoInode)
    BY PostShape
  <2>3. {part, dest}' \subseteq Inodes \cup {NoInode}  BY <1>1, <2>1, <2>2
  <2>4. /\ temps' \in {temps, temps \cup {u}, temps \ {u}}
        /\ unflushed' \in {unflushed, unflushed \cup {u}}
    BY PostShape
  <2>5. temps' \subseteq Uploads /\ unflushed' \subseteq Uploads  BY <1>1, <2>4
  <2>6. shared' \subseteq Inodes
    <3>1. {part, dest, <<u, "body">>, <<u, "copy">>} \ {NoInode} \subseteq Inodes  BY <1>1, <2>1
    <3>2. shared \subseteq Inodes  BY <1>1
    <3>3. PICK i \in Inodes : shared' \in {shared, shared \cup {i}, shared \ {i}}
      BY <3>1, PostShape
    <3> QED  BY <3>2, <3>3
  <2> QED  BY <2>3, <2>5, <2>6 DEF NameTypes
<1>9. dest # NoInode => dest' # NoInode
  <2>1. <<u, "body">> # NoInode /\ <<u, "copy">> # NoInode  BY InodeFacts
  <2> QED  BY <2>1, PostShape
<1> QED  BY <1>2, <1>3, <1>4, <1>5, <1>6, <1>7, <1>8, <1>9, PostCodes DEF CallTypes

\* A write to an inode, or to none, keeps the data of all inodes.
LEMMA WriteTypes ==
  ASSUME DataTypes, NEW i \in Inodes \cup {NoInode}, NEW k \in Nat \ {0}, NEW c \in Chunk
  PROVE  [data EXCEPT ![i] = WriteAt(@, k, c)] \in [Inodes -> Seq(Chunk)]
<1>1. CASE i \in Inodes
  <2>1. WriteAt(data[i], k, c) \in Seq(Chunk)  BY <1>1, WriteIs DEF DataTypes
  <2> QED  BY <2>1 DEF DataTypes
<1>2. CASE i = NoInode  BY <1>2, InodeFacts DEF DataTypes
<1> QED  BY <1>1, <1>2

\* What an upload writes are chunks.
LEMMA PostData ==
  ASSUME TypeInv, NEW u \in Uploads, PostBegin(u) \/ PostStep(u)
  PROVE  DataTypes'
<1>1. DataTypes /\ u \in Chunk /\ fh[u] \in Inodes \cup {NoInode} /\ at[u] \in Nat
  BY DEF TypeInv, TypeOK, DataTypes, Chunk
<1>2. Buffered(u) => size[u] \in Nat \ {0}
  BY <1>1 DEF Buffered
<1>3. ASSUME Flush(u), Buffered(u) PROVE DataTypes'
  <2>1. [data EXCEPT ![fh[u]] = WriteAt(@, size[u], u)] \in [Inodes -> Seq(Chunk)]
    BY <1>1, <1>2, <1>3, WriteTypes
  <2> QED  BY <1>3, <2>1 DEF Flush, DataTypes
<1>4. ASSUME NEW i, data' = [data EXCEPT ![i] = <<>>] PROVE DataTypes'
  <2>1. <<>> \in Seq(Chunk)  OBVIOUS
  <2> QED  BY <1>1, <1>4, <2>1 DEF DataTypes
<1>5. CASE data' = data  BY <1>1, <1>5 DEF DataTypes
<1>6. CASE OpenPart(u)  BY <1>4, <1>6 DEF OpenPart
<1>7. CASE WriteChunk(u)
  <2>1. [data EXCEPT ![fh[u]] = WriteAt(@, at[u] + 1, u)] \in [Inodes -> Seq(Chunk)]
    <3>1. at[u] + 1 \in Nat \ {0}  BY <1>1
    <3> QED  BY <1>1, <3>1, WriteTypes
  <2> QED  BY <1>5, <1>7, <2>1 DEF WriteChunk, DataTypes
<1>8. CASE PostFails(u)  BY <1>3, <1>5, <1>8 DEF PostFails
<1>9. CASE BodyEnds(u)  BY <1>3, <1>5, <1>9 DEF BodyEnds
<1>10. CASE CopyBegin(u)  BY <1>4, <1>10 DEF CopyBegin
<1>11. CASE CopyChunk(u)
  <2> DEFINE c == data[<<u, "body">>][at[u] + 1]
  <2>1. c \in Chunk
    <3>1. data[<<u, "body">>] \in Seq(Chunk)  BY <1>1, InodeFacts DEF DataTypes
    <3>2. at[u] + 1 \in 1..Len(data[<<u, "body">>])  BY <1>1, <1>11, <3>1 DEF CopyChunk
    <3> QED  BY <3>1, <3>2, ElementOfSeq
  <2>2. at[u] + 1 \in Nat \ {0}  BY <1>1
  <2>3. data' = [data EXCEPT ![fh[u]] = WriteAt(@, at[u] + 1, c)]  BY <1>11 DEF CopyChunk
  <2> HIDE DEF c
  <2>4. [data EXCEPT ![fh[u]] = WriteAt(@, at[u] + 1, c)] \in [Inodes -> Seq(Chunk)]
    BY <1>1, <2>1, <2>2, WriteTypes
  <2> QED  BY <2>3, <2>4 DEF DataTypes
<1> QED
  BY <1>5, <1>6, <1>7, <1>8, <1>9, <1>10, <1>11
     DEF PostStep, PostBegin, PathField, OtherField, OpenTemp, ValueEnds, PublishPart, PublishTemp,
         CopyEnds, PublishRaises, fsVars

\* No request of either kind leaves the types, and a destination that is there stays.
LEMMA PostTypes ==
  ASSUME TypeInv, NEW u \in Uploads, PostBegin(u) \/ PostStep(u)
  PROVE  TypeInv'
<1>1. UNCHANGED getVars /\ UNCHANGED crashed
  BY DEF PostStep, PostBegin, PathField, OtherField, OpenPart, OpenTemp, WriteChunk, ValueEnds, PostFails,
         BodyEnds, PublishPart, PublishTemp, CopyBegin, CopyChunk, CopyEnds, PublishRaises
<1>2. NameTypes' /\ CallTypes' /\ (dest # NoInode => dest' # NoInode)  BY PostCalls
<1>3. DataTypes'  BY PostData
<1>4. \A g \in Gets : GetOK(g)'  BY <1>1, <1>2 DEF TypeInv, GetOK, getVars
<1> QED
  BY <1>1, <1>2, <1>3, <1>4
     DEF TypeInv, TypeOK, NameTypes, DataTypes, CallTypes, getVars

\* A step of a download keeps the types.
LEMMA GetTypes ==
  ASSUME TypeInv, NEW g \in Gets, GetStat(g) \/ GetOpen(g) \/ GetChunk(g) \/ GetEnd(g)
  PROVE  TypeInv'
<1>1. UNCHANGED <<fsVars, upVars, unflushed, shared, crashed>>
  BY DEF GetStat, GetOpen, GetChunk, GetEnd
<1>2. /\ gpc' \in [Gets -> {"idle", "open", "send", "done"}]
      /\ glen' \in [Gets -> Nat]
      /\ gino' \in [Gets -> Inodes \cup {NoInode}]
  <2>1. dest # NoInode => data[dest] \in Seq(Chunk)  BY DEF TypeInv, TypeOK
  <2>2. dest # NoInode => Len(data[dest]) \in Nat  BY <2>1
  <2> QED  BY <2>2 DEF TypeInv, TypeOK, GetStat, GetOpen, GetChunk, GetEnd
<1>3. gbody' \in [Gets -> Seq(Chunk)]
  <2>1. CASE GetChunk(g)
    <3> DEFINE c == data[gino[g]][Len(gbody[g]) + 1]
    <3>1. gbody[g] \in Seq(Chunk) /\ data[gino[g]] \in Seq(Chunk)
      BY <2>1 DEF GetChunk, TypeInv, TypeOK, GetOK
    <3>2. Len(gbody[g]) + 1 \in 1..Len(data[gino[g]])  BY <2>1, <3>1 DEF GetChunk
    <3>3. c \in Chunk  BY <3>1, <3>2, ElementOfSeq
    <3>4. gbody' = [gbody EXCEPT ![g] = Append(gbody[g], c)]  BY <2>1 DEF GetChunk
    <3> HIDE DEF c
    <3>5. Append(gbody[g], c) \in Seq(Chunk)  BY <3>1, <3>3
    <3> QED  BY <3>4, <3>5 DEF TypeInv, TypeOK
  <2>2. CASE gbody' = gbody  BY <2>2 DEF TypeInv, TypeOK
  <2> QED  BY <2>1, <2>2 DEF GetStat, GetOpen, GetEnd
<1>4. \A h \in Gets : GetOK(h)'
  <2> SUFFICES ASSUME NEW h \in Gets PROVE GetOK(h)'  OBVIOUS
  <2> USE <1>1 DEF TypeInv, TypeOK, GetOK, fsVars
  <2>1. CASE GetStat(g)   BY <2>1 DEF GetStat
  <2>2. CASE GetOpen(g)   BY <2>2 DEF GetOpen
  <2>3. CASE GetChunk(g)  BY <2>3 DEF GetChunk
  <2>4. CASE GetEnd(g)    BY <2>4 DEF GetEnd
  <2> QED  BY <2>1, <2>2, <2>3, <2>4
<1> QED  BY <1>1, <1>2, <1>3, <1>4 DEF TypeInv, TypeOK, fsVars, upVars

\* So does a restart.
LEMMA RestartTypes == TypeInv /\ Restart => TypeInv'
<1> SUFFICES ASSUME TypeInv, Restart PROVE TypeInv'  OBVIOUS
<1>1. UNCHANGED <<part, dest, temps, data, layout, field, size, path, at, made, glen, gino, gbody, unflushed, shared>>
  BY DEF Restart, fsVars
<1>2. /\ upc' \in [Uploads -> {"idle", "fields", "value", "publish", "copying", "done"}]
      /\ answer' \in [Uploads -> {"none", "ok", "bad request", "server error", "hung up"}]
      /\ fh' \in [Uploads -> Inodes \cup {NoInode}]
  BY DEF TypeInv, TypeOK, Restart
<1>3. gpc' \in [Gets -> {"idle", "open", "send", "done"}]  BY DEF TypeInv, TypeOK, Restart
<1>4. crashed' \in BOOLEAN  BY DEF Restart
<1>5. ASSUME NEW g \in Gets PROVE GetOK(g)'
  <2>1. GetOK(g) /\ gpc'[g] \in {"idle", "done"} /\ (gpc'[g] = "idle" => gpc[g] = "idle")
    BY DEF TypeInv, Restart
  <2> QED  BY <1>1, <2>1 DEF GetOK
<1> QED  BY <1>1, <1>2, <1>3, <1>4, <1>5 DEF TypeInv, TypeOK

\* And so does a step of somebody else.
LEMMA TypeStutter == TypeInv /\ UNCHANGED vars => TypeInv'
<1> SUFFICES ASSUME TypeInv, UNCHANGED vars PROVE TypeInv'  OBVIOUS
<1>1. TypeOK'  BY DEF TypeInv, TypeOK, vars, fsVars, upVars, getVars
<1>2. \A g \in Gets : GetOK(g)'  BY DEF TypeInv, GetOK, vars, fsVars, getVars
<1> QED  BY <1>1, <1>2 DEF TypeInv

\* Names, files and requests have their types in every reachable state, overlapping
\* uploads or not, and a download that was told there is a file opens one.
THEOREM TypeCorrect == Spec => []TypeOK
<1>1. TypeInv /\ [Next]_vars => TypeInv'
  BY PostTypes, GetTypes, RestartTypes, TypeStutter DEF Next
<1>2. Spec => []TypeInv  BY TypeInit, <1>1, PTL DEF Spec
<1> QED  BY <1>2, PTL DEF TypeInv

-----------------------------------------------------------------------------
(* What a request can touch *)

\* The files of two uploads, and the two of one upload, are different.
LEMMA InodesDiffer ==
  \A u, w \in Uploads : /\ <<u, "body">> # <<w, "copy">>
                        /\ u # w => <<u, "body">> # <<w, "body">> /\ <<u, "copy">> # <<w, "copy">>
OBVIOUS

\* An upload leaves the locals and the files of the others alone.
LEMMA PostLocals ==
  ASSUME TypeInv, NEW u \in Uploads, PostBegin(u) \/ PostStep(u)
  PROVE  /\ \A w \in Uploads \ {u} :
              /\ upc'[w] = upc[w] /\ size'[w] = size[w] /\ fh'[w] = fh[w] /\ at'[w] = at[w]
              /\ made'[w] = made[w] /\ answer'[w] = answer[w] /\ path'[w] = path[w]
              /\ w \in temps' <=> w \in temps
              /\ w \in unflushed' <=> w \in unflushed
         /\ UNCHANGED <<getVars, crashed>>
         /\ PostBegin(u) \/ size' = size
<1> USE DEF TypeInv, TypeOK, Finish, Discard, fsVars
<1>1. CASE PostBegin(u)      BY <1>1 DEF PostBegin
<1>2. CASE PathField(u)      BY <1>2 DEF PathField
<1>3. CASE OtherField(u)     BY <1>3 DEF OtherField
<1>4. CASE OpenPart(u)       BY <1>4 DEF OpenPart
<1>5. CASE OpenTemp(u)       BY <1>5 DEF OpenTemp
<1>6. CASE WriteChunk(u)     BY <1>6 DEF WriteChunk
<1>7. CASE ValueEnds(u)      BY <1>7 DEF ValueEnds
<1>8. CASE PostFails(u)      BY <1>8 DEF PostFails
<1>9. CASE BodyEnds(u)       BY <1>9 DEF BodyEnds
<1>10. CASE PublishPart(u)   BY <1>10 DEF PublishPart
<1>11. CASE PublishTemp(u)   BY <1>11 DEF PublishTemp
<1>12. CASE CopyBegin(u)     BY <1>12 DEF CopyBegin
<1>13. CASE CopyChunk(u)     BY <1>13 DEF CopyChunk
<1>14. CASE CopyEnds(u)      BY <1>14 DEF CopyEnds
<1>15. CASE PublishRaises(u) BY <1>15 DEF PublishRaises
<1> QED
  BY <1>1, <1>2, <1>3, <1>4, <1>5, <1>6, <1>7, <1>8, <1>9, <1>10, <1>11, <1>12,
     <1>13, <1>14, <1>15 DEF PostStep

\* How the two names move: `<path>.part` to what an upload creates or away, the path
\* to `<path>.part`, to a temporary file or to a new copy.
LEMMA PostNames ==
  ASSUME TypeInv, Inv, NEW u \in Uploads, PostBegin(u) \/ PostStep(u)
  PROVE  /\ \/ part' = part
            \/ part' = NoInode /\ Uploading(u)
            \/ part' = <<u, "body">> /\ part = NoInode /\ made[u] = "none" /\ OpenPart(u)
         /\ \/ dest' = dest
            \/ dest' = part /\ part' = NoInode /\ part # NoInode /\ PublishPart(u)
            \/ dest' = <<u, "body">> /\ part' = part /\ PublishTemp(u)
            \/ dest' = <<u, "copy">> /\ dest = NoInode /\ part' = part /\ CopyBegin(u)
<1> USE DEF Finish, Discard, fsVars
<1>0. upc[u] = "fields" /\ fh[u] = NoInode => made[u] = "none"
  BY DEF Inv, FreshOK, Receiving
<1>1. CASE PostBegin(u)      BY <1>1 DEF PostBegin
<1>2. CASE PathField(u)      BY <1>2 DEF PathField
<1>3. CASE OtherField(u)     BY <1>3 DEF OtherField
<1>4. CASE OpenPart(u)       BY <1>0, <1>4 DEF OpenPart, Field
<1>5. CASE OpenTemp(u)       BY <1>5 DEF OpenTemp
<1>6. CASE WriteChunk(u)     BY <1>6 DEF WriteChunk
<1>7. CASE ValueEnds(u)      BY <1>7 DEF ValueEnds
<1>8. CASE PostFails(u)      BY <1>8 DEF PostFails, Uploading, Running
<1>9. CASE BodyEnds(u)       BY <1>9 DEF BodyEnds, Uploading, Running
<1>10. CASE PublishPart(u)   BY <1>10 DEF PublishPart, Uploading, Running
<1>11. CASE PublishTemp(u)   BY <1>11 DEF PublishTemp
<1>12. CASE CopyBegin(u)     BY <1>12 DEF CopyBegin
<1>13. CASE CopyChunk(u)     BY <1>13 DEF CopyChunk
<1>14. CASE CopyEnds(u)      BY <1>14 DEF CopyEnds
<1>15. CASE PublishRaises(u) BY <1>15 DEF PublishRaises
<1> QED
  BY <1>1, <1>2, <1>3, <1>4, <1>5, <1>6, <1>7, <1>8, <1>9, <1>10, <1>11, <1>12,
     <1>13, <1>14, <1>15 DEF PostStep

\* How an upload's handle moves, and which inodes become shared.
LEMMA PostHandle ==
  ASSUME TypeInv, Inv, NEW u \in Uploads, PostBegin(u) \/ PostStep(u)
  PROVE  /\ \/ fh'[u] = fh[u]
            \/ fh'[u] = NoInode
            \/ OpenPart(u) /\ made[u] = "none" /\ fh'[u] = part' /\ part' # NoInode
            \/ OpenTemp(u) /\ made[u] = "none" /\ fh'[u] = <<u, "body">>
            \/ CopyBegin(u) /\ fh'[u] = dest'
         /\ \A w \in Uploads : made[w] # "none" => made'[w] = made[w]
         /\ ~ OpenPart(u) /\ ~ CopyBegin(u) => shared' = shared
<1> USE DEF TypeInv, TypeOK, Finish, Discard, fsVars
<1>0. /\ upc[u] = "fields" /\ fh[u] = NoInode => made[u] = "none"
      /\ upc[u] = "idle" => made[u] = "none"
      /\ <<u, "body">> # NoInode
  BY InodeFacts DEF Inv, FreshOK, Receiving
<1>1. CASE PostBegin(u)      BY <1>1 DEF PostBegin
<1>2. CASE PathField(u)      BY <1>2 DEF PathField
<1>3. CASE OtherField(u)     BY <1>3 DEF OtherField
<1>4. CASE OpenPart(u)       BY <1>0, <1>4 DEF OpenPart, Field
<1>5. CASE OpenTemp(u)       BY <1>0, <1>5 DEF OpenTemp, Field
<1>6. CASE WriteChunk(u)     BY <1>6 DEF WriteChunk
<1>7. CASE ValueEnds(u)      BY <1>7 DEF ValueEnds
<1>8. CASE PostFails(u)      BY <1>8 DEF PostFails
<1>9. CASE BodyEnds(u)       BY <1>9 DEF BodyEnds
<1>10. CASE PublishPart(u)   BY <1>10 DEF PublishPart
<1>11. CASE PublishTemp(u)   BY <1>11 DEF PublishTemp
<1>12. CASE CopyBegin(u)     BY <1>12 DEF CopyBegin
<1>13. CASE CopyChunk(u)     BY <1>13 DEF CopyChunk
<1>14. CASE CopyEnds(u)      BY <1>14 DEF CopyEnds
<1>15. CASE PublishRaises(u) BY <1>15 DEF PublishRaises
<1> QED
  BY <1>1, <1>2, <1>3, <1>4, <1>5, <1>6, <1>7, <1>8, <1>9, <1>10, <1>11, <1>12,
     <1>13, <1>14, <1>15 DEF PostStep

\* An upload writes what it opens, what it empties to copy over, or what its handle
\* leads to.
LEMMA PostWrites ==
  ASSUME TypeInv, Inv, NEW u \in Uploads, PostBegin(u) \/ PostStep(u), NEW i \in Inodes,
         data'[i] # data[i]
  PROVE  \/ OpenPart(u) /\ i = part'
         \/ CopyBegin(u) /\ i = dest'
         \/ i = fh[u] /\ shared' = shared /\ (Receiving(u) \/ CopyChunk(u))
<1>1. Buffered(u) => made[u] # "none"
  <2>1. made[u] = "none" => at[u] = 0  BY DEF Inv, FreshOK
  <2> QED  BY <2>1 DEF Buffered
<1>2. upc[u] = "value" => made[u] # "none"  BY DEF Inv, FreshOK
<1>3. data \in [Inodes -> Seq(Chunk)]  BY DEF TypeInv, TypeOK
<1>4. CASE PostFails(u)  BY <1>1, <1>3, <1>4 DEF PostFails, Flush, Receiving
<1>5. CASE BodyEnds(u)   BY <1>1, <1>3, <1>5 DEF BodyEnds, Flush, Receiving
<1>6. CASE WriteChunk(u) BY <1>2, <1>3, <1>6 DEF WriteChunk, Receiving
<1>7. CASE OpenPart(u)   BY <1>3, <1>7 DEF OpenPart
<1>8. CASE CopyBegin(u)  BY <1>3, <1>8 DEF CopyBegin
<1>9. CASE CopyChunk(u)  BY <1>3, <1>9 DEF CopyChunk
<1> QED
  BY <1>4, <1>5, <1>6, <1>7, <1>8, <1>9
     DEF PostStep, PostBegin, PathField, OtherField, OpenTemp, ValueEnds, PublishPart, PublishTemp,
         CopyEnds, PublishRaises, fsVars

\* An inode that nobody has come across stays so, unless it is the upload's own and
\* the upload creates it.
LEMMA UnusedKept ==
  ASSUME TypeInv, Inv, NEW u \in Uploads, PostBegin(u) \/ PostStep(u), NEW i \in Inodes, Unused(i),
         i = <<u, "body">> => made'[u] = "none",
         i = <<u, "copy">> => upc'[u] # "copying"
  PROVE  Unused(i)' /\ data'[i] = data[i]
<1>1. i # NoInode /\ i # part /\ i # dest /\ i # fh[u]  BY InodeFacts DEF Unused
<1>2. /\ OpenPart(u) => made'[u] = "part"
      /\ OpenTemp(u) => made'[u] = "temp"
      /\ PublishTemp(u) => made'[u] = "temp"
      /\ CopyBegin(u) => upc'[u] = "copying"
  BY DEF OpenPart, OpenTemp, PublishTemp, CopyBegin, TypeInv, TypeOK
<1>3. part' # i  BY <1>1, <1>2, PostNames
<1>4. dest' # i  BY <1>1, <1>2, PostNames
<1>5. \A w \in Uploads : fh'[w] # i
  <2>1. fh'[u] # i  BY <1>1, <1>2, <1>3, <1>4, PostHandle
  <2> QED  BY <2>1, PostLocals DEF Unused
<1>6. data'[i] = data[i]  BY <1>1, <1>3, <1>4, PostWrites
<1>7. gino' = gino  BY PostLocals DEF getVars
<1> QED  BY <1>3, <1>4, <1>5, <1>6, <1>7 DEF Unused

\* A handle that no other upload shared leads to `<path>.part`, to the upload's own
\* temporary file or, while it copies, to what was the destination.
LEMMA HandleOf ==
  ASSUME TypeInv, Inv, NEW u \in Uploads, Receiving(u), fh[u] \notin shared
  PROVE  (fh[u] = part /\ part # NoInode) \/ (made[u] = "temp" /\ fh[u] = <<u, "body">>)
<1>1. Running(u) /\ fh[u] # NoInode /\ made[u] \in {"part", "temp"}
  BY DEF Inv, FreshOK, Receiving, Running, TypeInv, TypeOK
<1>2. CASE made[u] = "part"  BY <1>1, <1>2 DEF Inv, OwnOK, Uploading
<1>3. CASE made[u] = "temp"  BY <1>1, <1>3 DEF Inv, TempOK
<1> QED  BY <1>1, <1>2, <1>3

-----------------------------------------------------------------------------
(* The steps of an upload *)

\* What the other uploads know stays true.
LEMMA PostOthers ==
  ASSUME TypeInv, Inv, NEW u \in Uploads, PostBegin(u) \/ PostStep(u), NEW w \in Uploads \ {u}
  PROVE  FreshOK(w)' /\ TempOK(w)' /\ OwnOK(w)' /\ CopyOK(w)'
<1> DEFINE b == <<w, "body">>
           c == <<w, "copy">>
<1>1. /\ upc'[w] = upc[w] /\ size'[w] = size[w] /\ fh'[w] = fh[w] /\ at'[w] = at[w]
      /\ made'[w] = made[w] /\ answer'[w] = answer[w]
      /\ w \in temps' <=> w \in temps
      /\ w \in unflushed' <=> w \in unflushed
      /\ gino' = gino
      /\ \A x \in Uploads \ {u} : fh'[x] = fh[x]
  BY PostLocals DEF getVars
<1>2. /\ b \notin {<<u, "body">>, <<u, "copy">>} /\ c \notin {<<u, "body">>, <<u, "copy">>}
      /\ b \in Inodes /\ c \in Inodes /\ NoInode \notin Inodes
  BY InodesDiffer, InodeFacts
<1>3. FreshOK(w) /\ TempOK(w) /\ OwnOK(w) /\ CopyOK(w)  BY DEF Inv
<1>4. FreshOK(w)'
  <2>1. Unused(b) => Unused(b)' /\ data'[b] = data[b]  BY <1>2, UnusedKept
  <2>2. Unused(c) => Unused(c)'  BY <1>2, UnusedKept
  <2> QED  BY <1>1, <1>3, <2>1, <2>2 DEF FreshOK, Receiving
<1>5. TempOK(w)'
  <2> SUFFICES ASSUME Running(w), made[w] = "temp" PROVE TempOK(w)'
    BY <1>1 DEF TempOK, Running
  <2>1. /\ b # part /\ b # dest /\ b # fh[u]
        /\ \A g \in Gets : gino[g] # b
        /\ \A x \in Uploads \ {w} : fh[x] # b
    BY <1>3 DEF TempOK
  <2>2. b # part' /\ b # dest'  BY <1>2, <2>1, PostNames
  <2>3. fh'[u] # b  BY <1>2, <2>1, <2>2, PostHandle
  <2>4. data'[b] = data[b]  BY <1>2, <2>1, <2>2, PostWrites
  <2>5. \A x \in Uploads \ {w} : fh'[x] # b  BY <1>1, <2>1, <2>3
  <2> QED
    BY <1>1, <1>3, <2>1, <2>2, <2>4, <2>5
       DEF TempOK, Receiving, Running, Written, Stored, Buffered
<1>6. OwnOK(w)'
  <2> SUFFICES ASSUME Uploading(w) PROVE OwnOK(w)'
    BY <1>1 DEF OwnOK, Uploading, Running
  <2>1. made[w] = "part" /\ upc[w] # "copying"
    BY <1>3 DEF Uploading, FreshOK
  <2>2. /\ Uploading(u) => (part # NoInode => part \in shared)
        /\ Uploading(u) => (fh[w] # NoInode => fh[w] \in shared)
    BY DEF Inv, TwoOK
  <2>3. Receiving(w) => fh[w] # NoInode  BY <1>3 DEF FreshOK
  <2>4. CASE OpenPart(u)
    <3>1. part' \in shared' /\ part' # NoInode
      BY <1>2, <2>4, InodeFacts DEF OpenPart, Uploading
    <3>2. fh[w] \notin shared' /\ Receiving(w) => FALSE
      <4>1. shared \subseteq shared'  BY <2>4 DEF OpenPart, Uploading
      <4>2. fh[w] \notin shared /\ Receiving(w) => fh[w] = part  BY <1>3 DEF OwnOK, Uploading
      <4>3. part # NoInode => part' = part  BY <2>4 DEF OpenPart
      <4> QED  BY <2>3, <3>1, <4>1, <4>2, <4>3
    <3> QED  BY <1>1, <3>1, <3>2 DEF OwnOK, Receiving
  <2>5. CASE ~ OpenPart(u) /\ Uploading(u)
    <3>1. part' = part \/ part' = NoInode  BY <2>5, PostNames
    <3>2. shared' = shared
      <4>1. ~ CopyBegin(u)  BY <2>5 DEF CopyBegin, Uploading
      <4> QED  BY <2>5, <4>1, PostHandle
    <3> QED  BY <1>1, <2>2, <2>3, <2>5, <3>1, <3>2 DEF OwnOK, Receiving
  <2>6. CASE ~ OpenPart(u) /\ ~ Uploading(u)
    <3>1. part' = part  BY <2>6, PostNames
    <3>2. shared \subseteq shared'
      <4>1. CopyBegin(u) => shared \subseteq shared'  BY DEF CopyBegin
      <4> QED  BY <2>6, <4>1, PostHandle
    <3>3. part # NoInode => data'[part] = data[part]
      <4>1. ASSUME part # NoInode, data'[part] # data[part] PROVE FALSE
        <5>1. part \in Inodes /\ part # dest /\ part # <<u, "copy">>
          BY <4>1, InodesDiffer, InodeFacts DEF Inv, PartOK, Body
        <5>2. ~ CopyBegin(u) \/ part # dest'  BY <5>1, PostNames DEF CopyBegin, PublishPart, PublishTemp
        <5>3. part = fh[u] /\ (Receiving(u) \/ CopyChunk(u))
          BY <2>6, <4>1, <5>1, <5>2, PostWrites
        <5>4. ~ CopyChunk(u)  BY <5>3 DEF CopyChunk, Inv, CopyOK
        <5>5. made[u] = "temp" /\ Running(u)
          BY <2>6, <5>3, <5>4 DEF Receiving, Running, Uploading, TypeInv, TypeOK
        <5>6. fh[u] # part  BY <5>3, <5>4, <5>5 DEF Inv, TempOK
        <5> QED  BY <5>3, <5>6
      <4> QED  BY <4>1
    <3>4. Written(w)' = Written(w) /\ Stored(w)' = Stored(w)
      BY <1>1 DEF Written, Stored, Buffered
    <3>5. Receiving(w)' <=> Receiving(w)  BY <1>1 DEF Receiving
    <3>6. Receiving(w) /\ (fh[w] \notin shared \/ (part # NoInode /\ part \notin shared))
            => fh[w] = part /\ part # NoInode /\ data[part] = Fill(Written(w), w)
      BY <1>3, <2>3 DEF OwnOK
    <3>7. upc[w] = "publish" /\ part # NoInode /\ part \notin shared
            => data[part] = Fill(Stored(w), w)
      BY <1>3 DEF OwnOK
    <3> QED  BY <1>1, <3>1, <3>2, <3>3, <3>4, <3>5, <3>6, <3>7 DEF OwnOK
  <2> QED  BY <2>4, <2>5, <2>6
<1>7. CopyOK(w)'
  <2> SUFFICES ASSUME upc[w] = "copying" PROVE CopyOK(w)'
    BY <1>1 DEF CopyOK
  <2>1. /\ fh[w] # NoInode /\ fh[w] # part /\ fh[w] # b /\ fh[w] \in Inodes
        /\ at[w] <= Stored(w)
        /\ fh[w] \notin shared =>
             /\ data[fh[w]] = Fill(at[w], w)
             /\ \A x \in Uploads \ {w} : fh[x] # fh[w]
    BY <1>3 DEF CopyOK, TypeInv, TypeOK
  <2>2. made[u] = "none" => fh[w] # <<u, "body">>
    BY DEF Inv, FreshOK, Unused
  <2>3. fh[w] # part'  BY <2>1, <2>2, PostNames
  <2>4. ASSUME fh[w] \notin shared'
        PROVE  data'[fh[w]] = data[fh[w]] /\ fh'[u] # fh[w] /\ fh[w] \notin shared
    <3>1. CASE OpenPart(u)
      <4>1. fh[w] \notin shared  BY <2>3, <2>4, <3>1 DEF OpenPart
      <4>2. fh'[u] = part' /\ UNCHANGED dest  BY <3>1 DEF OpenPart, TypeInv, TypeOK
      <4>3. ~ CopyBegin(u)  BY <3>1 DEF OpenPart, CopyBegin, Field
      <4>4. fh[u] # fh[w]  BY <2>1, <4>1
      <4> QED  BY <2>1, <2>3, <4>1, <4>2, <4>3, <4>4, PostWrites
    <3>2. CASE CopyBegin(u)
      <4>1. fh[w] \notin shared /\ fh[w] # dest' /\ fh'[u] = dest' /\ ~ OpenPart(u)
        BY <2>4, <3>2 DEF CopyBegin, OpenPart, Field, TypeInv, TypeOK
      <4>2. fh[u] # fh[w]  BY <2>1, <4>1
      <4> QED  BY <2>1, <4>1, <4>2, PostWrites
    <3>3. CASE ~ OpenPart(u) /\ ~ CopyBegin(u)
      <4>1. fh[w] \notin shared  BY <2>4, <3>3, PostHandle
      <4>2. fh[u] # fh[w]  BY <2>1, <4>1
      <4>3. data'[fh[w]] = data[fh[w]]  BY <2>1, <3>3, <4>2, PostWrites
      <4>4. fh'[u] # fh[w]  BY <2>1, <2>2, <3>3, <4>2, PostHandle
      <4> QED  BY <4>1, <4>3, <4>4
    <3> QED  BY <3>1, <3>2, <3>3
  <2>5. Stored(w)' = Stored(w)  BY <1>1 DEF Stored
  <2>6. dest' # NoInode  BY <1>3, PostCalls DEF CopyOK
  <2> QED  BY <1>1, <2>1, <2>3, <2>4, <2>5, <2>6 DEF CopyOK
<1> QED  BY <1>4, <1>5, <1>6, <1>7


\* A chunk that goes behind an upload's own chunks, or into the buffer.
LEMMA WriteKeeps ==
  ASSUME TypeInv, Inv, NEW u \in Uploads, WriteChunk(u), data[fh[u]] = Fill(Written(u), u)
  PROVE  data'[fh[u]] = Fill(Written(u)', u)
<1>1. /\ upc[u] = "value" /\ at[u] < size[u] /\ at'[u] = at[u] + 1 /\ size' = size /\ fh' = fh
      /\ fh[u] \in Inodes \cup {NoInode} /\ data \in [Inodes -> Seq(Chunk)]
  BY DEF WriteChunk, TypeInv, TypeOK
<1>2. size[u] \in Nat /\ at[u] \in Nat
  <2>1. size[u] \in 0..MaxSize /\ at[u] \in Nat  BY DEF TypeInv, TypeOK
  <2> QED  BY <2>1, SizeAssumption
<1>3. fh[u] \in Inodes  BY <1>1 DEF Inv, FreshOK, Receiving
<1>4. Written(u) = at[u]  BY <1>1, <1>2 DEF Written, Buffered
<1>5. Written(u)' = IF at[u] + 1 = size[u] THEN at[u] ELSE at[u] + 1
  <2>1. Buffered(u)' <=> at[u] + 1 = size[u]  BY <1>1, <1>2 DEF Buffered
  <2>2. (at[u] + 1) - 1 = at[u]  BY <1>2
  <2> QED  BY <1>1, <2>1, <2>2 DEF Written
<1>6. CASE at[u] + 1 = size[u]  BY <1>4, <1>5, <1>6 DEF WriteChunk
<1>7. CASE at[u] + 1 # size[u]
  <2>1. data' = [data EXCEPT ![fh[u]] = WriteAt(Fill(at[u], u), at[u] + 1, u)]
    BY <1>4, <1>7 DEF WriteChunk
  <2> QED  BY <1>1, <1>2, <1>3, <1>5, <1>7, <2>1, WriteNext
<1> QED  BY <1>6, <1>7

\* The end of the body, flushed or dropped.
LEMMA CloseKeeps ==
  ASSUME TypeInv, Inv, NEW u \in Uploads, BodyEnds(u), made[u] # "none",
         data[fh[u]] = Fill(Written(u), u)
  PROVE  data'[fh[u]] = Fill(Stored(u)', u)
<1>1. /\ upc[u] = "fields" /\ size' = size
      /\ fh[u] \in Inodes \cup {NoInode} /\ data \in [Inodes -> Seq(Chunk)]
  BY DEF BodyEnds, TypeInv, TypeOK
<1>2. size[u] \in Nat /\ at[u] \in Nat
  <2>1. size[u] \in 0..MaxSize /\ at[u] \in Nat  BY DEF TypeInv, TypeOK
  <2> QED  BY <2>1, SizeAssumption
<1>3. fh[u] \in Inodes /\ at[u] = size[u] /\ size[u] > 0 /\ u \notin unflushed
  BY <1>1 DEF Inv, FreshOK, Receiving
<1>4. Buffered(u) /\ Written(u) = size[u] - 1  BY <1>2, <1>3 DEF Written, Buffered
<1>5. CASE Flush(u) /\ UNCHANGED unflushed
  <2>1. size[u] - 1 \in Nat /\ (size[u] - 1) + 1 = size[u]  BY <1>2, <1>3
  <2>2. data' = [data EXCEPT ![fh[u]] = WriteAt(Fill(size[u] - 1, u), size[u], u)]
    BY <1>4, <1>5 DEF Flush
  <2>3. data'[fh[u]] = Fill(size[u], u)  BY <1>1, <1>3, <2>1, <2>2, WriteNext
  <2> QED  BY <1>1, <1>3, <1>5, <2>3 DEF Stored
<1>6. CASE unflushed' = unflushed \cup {u} /\ UNCHANGED data
  BY <1>1, <1>4, <1>6 DEF Stored
<1> QED  BY <1>4, <1>5, <1>6 DEF BodyEnds

\* Where the upload that takes the step stands.
LEMMA PostFresh ==
  ASSUME TypeInv, Inv, NEW u \in Uploads, PostBegin(u) \/ PostStep(u)
  PROVE  FreshOK(u)'
<1> DEFINE b == <<u, "body">>
           c == <<u, "copy">>
<1>1. FreshOK(u)  BY DEF Inv
<1>2. b # c /\ b \in Inodes /\ c \in Inodes /\ NoInode \notin Inodes  BY InodesDiffer, InodeFacts
<1>3. Unused(b) /\ made'[u] = "none" => Unused(b)' /\ data'[b] = data[b]  BY <1>2, UnusedKept
<1>4. Unused(c) /\ upc'[u] # "copying" => Unused(c)'  BY <1>2, UnusedKept
<1>5. size[u] \in Nat /\ at[u] \in Nat
  <2>1. size[u] \in 0..MaxSize /\ at[u] \in Nat  BY DEF TypeInv, TypeOK
  <2> QED  BY <2>1, SizeAssumption
<1>6. made[u] = "none" => ~ Buffered(u)  BY <1>1 DEF FreshOK, Buffered
<1>6a. \A n \in 1..MaxSize : n > 0  BY SizeAssumption
<1>6b. made[u] = "none" => at[u] = 0 /\ 0 <= size[u] /\ u \notin unflushed
  BY <1>1, <1>5 DEF FreshOK
<1>6c. at[u] < size[u] => at[u] + 1 <= size[u]  BY <1>5
<1> USE DEF TypeInv, TypeOK, Finish, Discard, fsVars, FreshOK, Receiving
<1>7. CASE PostBegin(u)
  <2>1. size'[u] > 0
    <3>1. PICK n \in 1..MaxSize : size' = [size EXCEPT ![u] = n]  BY <1>7 DEF PostBegin
    <3>2. size'[u] = n  BY <3>1
    <3> QED  BY <1>6a, <3>2
  <2> QED  BY <1>1, <1>3, <1>4, <1>7, <2>1 DEF PostBegin
<1>8. CASE PathField(u)      BY <1>1, <1>3, <1>4, <1>8 DEF PathField, Field
<1>9. CASE OtherField(u)     BY <1>1, <1>3, <1>4, <1>9 DEF OtherField, Field
<1>10. CASE OpenPart(u)
  <2>1. made[u] = "none" /\ part' # NoInode  BY <1>1, <1>2, <1>10 DEF OpenPart, Field
  <2> QED  BY <1>1, <1>4, <1>10, <1>6b, <2>1 DEF OpenPart, Field
<1>11. CASE OpenTemp(u)
  <2>1. made[u] = "none"  BY <1>1, <1>2, <1>11 DEF OpenTemp, Field
  <2> QED  BY <1>1, <1>2, <1>4, <1>11, <1>6b, <2>1 DEF OpenTemp, Field
<1>12. CASE WriteChunk(u)
  <2>1. at'[u] = at[u] + 1 /\ at[u] < size[u]  BY <1>12 DEF WriteChunk
  <2> QED  BY <1>1, <1>4, <1>12, <1>6c, <2>1 DEF WriteChunk
<1>13. CASE ValueEnds(u)     BY <1>1, <1>4, <1>13 DEF ValueEnds
<1>14. CASE PostFails(u)     BY <1>1, <1>3, <1>4, <1>6, <1>14 DEF PostFails
<1>15. CASE BodyEnds(u)      BY <1>1, <1>3, <1>4, <1>6, <1>15 DEF BodyEnds
<1>16. CASE PublishPart(u)   BY <1>1, <1>16 DEF PublishPart
<1>17. CASE PublishTemp(u)   BY <1>1, <1>17 DEF PublishTemp
<1>18. CASE CopyBegin(u)     BY <1>1, <1>18 DEF CopyBegin
<1>19. CASE CopyChunk(u)     BY <1>1, <1>19 DEF CopyChunk
<1>20. CASE CopyEnds(u)      BY <1>1, <1>20 DEF CopyEnds
<1>21. CASE PublishRaises(u) BY <1>1, <1>3, <1>4, <1>21 DEF PublishRaises
<1> QED
  BY <1>7, <1>8, <1>9, <1>10, <1>11, <1>12, <1>13, <1>14, <1>15, <1>16, <1>17, <1>18,
     <1>19, <1>20, <1>21 DEF PostStep

\* Its temporary file stays its own, with what it has written.
LEMMA PostTemp ==
  ASSUME TypeInv, Inv, NEW u \in Uploads, PostBegin(u) \/ PostStep(u)
  PROVE  TempOK(u)'
<1> DEFINE b == <<u, "body">>
<1> SUFFICES ASSUME Running(u)', made'[u] = "temp" PROVE TempOK(u)'  BY DEF TempOK
<1>1. FreshOK(u) /\ TempOK(u) /\ CopyOK(u)  BY DEF Inv
<1>2. b # <<u, "copy">> /\ b \in Inodes /\ NoInode \notin Inodes  BY InodesDiffer, InodeFacts
<1>3. gino' = gino /\ \A w \in Uploads \ {u} : fh'[w] = fh[w]  BY PostLocals DEF getVars
<1>4. CASE OpenTemp(u)
  <2>1. /\ upc[u] = "fields" /\ fh[u] = NoInode /\ upc'[u] = "value" /\ u \in temps'
        /\ fh'[u] = b /\ UNCHANGED <<part, dest, data, size, at>>
    BY <1>4 DEF OpenTemp, Field, TypeInv, TypeOK
  <2>2. made[u] = "none"  BY <1>1, <2>1 DEF FreshOK, Receiving
  <2>3. at[u] = 0 /\ Unused(b) /\ data[b] = <<>>  BY <1>1, <2>2 DEF FreshOK
  <2>4. data'[b] = Fill(Written(u)', u)  BY <2>1, <2>3, FillNone DEF Written, Buffered
  <2> QED  BY <1>3, <2>1, <2>3, <2>4 DEF TempOK, Unused
<1>5. CASE ~ OpenTemp(u)
  <2>1. made[u] = "temp" /\ Running(u)
    <3>1. made[u] = "temp"
      BY <1>5
         DEF PostStep, PostBegin, PathField, OtherField, OpenPart, WriteChunk, ValueEnds,
             PostFails, BodyEnds, PublishPart, PublishTemp, CopyBegin, CopyChunk, CopyEnds,
             PublishRaises, TypeInv, TypeOK
    <3>2. upc[u] # "idle"  BY <1>1, <3>1 DEF FreshOK
    <3>3. upc[u] # "done"
      BY <3>2
         DEF PostStep, PostBegin, PathField, OtherField, OpenPart, OpenTemp, WriteChunk, ValueEnds,
             PostFails, BodyEnds, PublishPart, PublishTemp, CopyBegin, CopyChunk, CopyEnds,
             PublishRaises, Field
    <3> QED  BY <3>1, <3>2, <3>3 DEF Running
  <2>2. /\ u \in temps /\ b # part /\ b # dest
        /\ \A g \in Gets : gino[g] # b
        /\ \A w \in Uploads \ {u} : fh[w] # b
        /\ Receiving(u) => fh[u] = b /\ data[b] = Fill(Written(u), u)
        /\ upc[u] \in {"publish", "copying"} => data[b] = Fill(Stored(u), u)
    BY <1>1, <2>1 DEF TempOK
  <2>3. b # part' /\ b # dest'
    <3>1. ~ PublishTemp(u)  BY DEF PublishTemp, Finish, Running, TypeInv, TypeOK
    <3> QED  BY <1>2, <2>1, <2>2, <3>1, PostNames
  <2>4. /\ \A g \in Gets : gino'[g] # b
        /\ \A w \in Uploads \ {u} : fh'[w] # b
    BY <1>3, <2>2
  <2> USE DEF TypeInv, TypeOK
  <2>5. CASE PathField(u) \/ OtherField(u) \/ ValueEnds(u)
    <3>1. /\ UNCHANGED <<temps, data, size, fh, at>> /\ Receiving(u) /\ upc'[u] \in {"fields", "value"}
      BY <2>1, <2>5 DEF PathField, OtherField, ValueEnds, Field, Receiving, fsVars
    <3>2. Written(u)' = Written(u)  BY <3>1 DEF Written, Buffered
    <3> QED  BY <2>2, <2>3, <2>4, <3>1, <3>2 DEF TempOK
  <2>6. CASE WriteChunk(u)
    <3>1. upc[u] = "value" /\ UNCHANGED <<temps, upc, fh>>  BY <2>6 DEF WriteChunk
    <3>2. fh[u] = b /\ data[b] = Fill(Written(u), u)  BY <2>1, <2>2, <3>1 DEF Receiving
    <3>3. data'[b] = Fill(Written(u)', u)  BY <2>6, <3>2, WriteKeeps
    <3> QED  BY <2>2, <2>3, <2>4, <3>1, <3>2, <3>3 DEF TempOK
  <2>7. CASE BodyEnds(u)
    <3>1. upc[u] = "fields" /\ upc'[u] = "publish" /\ UNCHANGED temps
      BY <2>7 DEF BodyEnds, Finish, Running
    <3>2. fh[u] = b /\ data[b] = Fill(Written(u), u)  BY <2>1, <2>2, <3>1 DEF Receiving
    <3>3. data'[b] = Fill(Stored(u)', u)  BY <2>1, <2>7, <3>2, CloseKeeps
    <3> QED  BY <2>2, <2>3, <2>4, <3>1, <3>2, <3>3 DEF TempOK, Receiving
  <2>8. CASE CopyBegin(u) \/ CopyChunk(u)
    <3>1. /\ upc[u] \in {"publish", "copying"} /\ upc'[u] = "copying"
          /\ UNCHANGED <<temps, size, unflushed>>
      BY <2>8 DEF CopyBegin, CopyChunk
    <3>2. data'[b] = data[b]
      <4>1. CASE CopyBegin(u)
        <5>1. data' = [data EXCEPT ![dest'] = <<>>]  BY <4>1 DEF CopyBegin
        <5> QED  BY <1>2, <2>3, <5>1
      <4>2. CASE CopyChunk(u)
        <5>1. fh[u] # b  BY <1>1, <4>2 DEF CopyChunk, CopyOK
        <5> QED  BY <1>2, <4>2, <5>1 DEF CopyChunk
      <4> QED  BY <2>8, <4>1, <4>2
    <3>3. Stored(u)' = Stored(u)  BY <3>1 DEF Stored
    <3> QED  BY <2>2, <2>3, <2>4, <3>1, <3>2, <3>3 DEF TempOK, Receiving
  <2>9. PathField(u) \/ OtherField(u) \/ ValueEnds(u) \/ WriteChunk(u) \/ BodyEnds(u)
          \/ CopyBegin(u) \/ CopyChunk(u)
    BY <1>5, <2>1
       DEF PostStep, PostBegin, OpenPart, PostFails, PublishPart, PublishTemp, CopyEnds,
           PublishRaises, Finish, Running
  <2> QED  BY <2>5, <2>6, <2>7, <2>8, <2>9
<1> QED  BY <1>4, <1>5

\* Its `<path>.part` holds what it has written, if nobody shared it.
LEMMA PostPartOwn ==
  ASSUME TypeInv, Inv, NEW u \in Uploads, PostBegin(u) \/ PostStep(u)
  PROVE  OwnOK(u)'
<1> SUFFICES ASSUME Uploading(u)' PROVE OwnOK(u)'  BY DEF OwnOK
<1>1. FreshOK(u) /\ OwnOK(u)  BY DEF Inv
<1>2. Running(u)' /\ made'[u] = "part"  BY DEF Uploading
<1>5. at'[u] = 0 => Written(u)' = 0  BY DEF Written, Buffered
<1> USE DEF TypeInv, TypeOK
<1>3. CASE OpenPart(u)
  <2>1. /\ upc[u] = "fields" /\ fh[u] = NoInode /\ upc'[u] = "value"
        /\ fh'[u] = part' /\ data'[part'] = <<>> /\ UNCHANGED <<size, at>>
    BY <1>3, InodeFacts DEF OpenPart, Field
  <2>2. at[u] = 0  BY <1>1, <2>1 DEF FreshOK, Receiving
  <2>3. Written(u)' = 0  BY <1>5, <2>1, <2>2
  <2>4. data'[part'] = Fill(Written(u)', u)  BY <2>1, <2>3, FillNone
  <2> QED  BY <2>1, <2>4 DEF OwnOK
<1>4. CASE ~ OpenPart(u)
  <2>1. made[u] = "part"
    BY <1>2, <1>4
       DEF PostStep, PostBegin, PathField, OtherField, OpenTemp, WriteChunk, ValueEnds,
           PostFails, BodyEnds, PublishPart, PublishTemp, CopyBegin, CopyChunk, CopyEnds,
           PublishRaises
  <2>2. upc[u] # "idle" /\ upc[u] # "copying"  BY <1>1, <2>1 DEF FreshOK
  <2>3. CASE PathField(u) \/ OtherField(u) \/ ValueEnds(u)
    <3>1. UNCHANGED <<part, data, size, fh, at, shared>> /\ Receiving(u) /\ upc'[u] \in {"fields", "value"}
      BY <2>1, <2>3 DEF PathField, OtherField, ValueEnds, Field, Receiving, fsVars
    <3>2. Written(u)' = Written(u)  BY <3>1 DEF Written, Buffered
    <3>3. Uploading(u)  BY <2>1, <3>1 DEF Uploading, Receiving, Running
    <3> QED  BY <1>1, <3>1, <3>2, <3>3 DEF OwnOK
  <2>4. CASE WriteChunk(u)
    <3>1. upc[u] = "value" /\ UNCHANGED <<part, upc, fh, shared>>  BY <2>4 DEF WriteChunk
    <3>2. Receiving(u) /\ Uploading(u)  BY <2>1, <3>1 DEF Receiving, Uploading, Running
    <3>3. fh[u] = part /\ data[part] = Fill(Written(u), u) => data'[part] = Fill(Written(u)', u)
      BY <2>4, WriteKeeps
    <3> QED  BY <1>1, <3>1, <3>2, <3>3 DEF OwnOK
  <2>5. CASE BodyEnds(u)
    <3>1. upc[u] = "fields" /\ upc'[u] = "publish" /\ UNCHANGED <<part, shared>>
      BY <1>2, <2>5 DEF BodyEnds, Finish, Running
    <3>2. Receiving(u) /\ Uploading(u)  BY <2>1, <3>1 DEF Receiving, Uploading, Running
    <3>3. fh[u] = part /\ data[part] = Fill(Written(u), u) => data'[part] = Fill(Stored(u)', u)
      BY <2>1, <2>5, CloseKeeps
    <3> QED  BY <1>1, <3>1, <3>2, <3>3 DEF OwnOK, Receiving
  <2>6. PathField(u) \/ OtherField(u) \/ ValueEnds(u) \/ WriteChunk(u) \/ BodyEnds(u)
    BY <1>2, <1>4, <2>1, <2>2
       DEF PostStep, PostBegin, OpenTemp, PostFails, PublishPart, PublishTemp, CopyBegin,
           CopyChunk, CopyEnds, PublishRaises, Finish, Running
  <2> QED  BY <2>3, <2>4, <2>5, <2>6
<1> QED  BY <1>3, <1>4

\* A copy goes into a file that is neither the body nor anybody's `<path>.part`.
LEMMA PostCopy ==
  ASSUME TypeInv, Inv, NEW u \in Uploads, PostBegin(u) \/ PostStep(u)
  PROVE  CopyOK(u)'
<1> DEFINE b == <<u, "body">>
           c == <<u, "copy">>
<1> SUFFICES ASSUME upc'[u] = "copying" PROVE CopyOK(u)'  BY DEF CopyOK
<1>1. FreshOK(u) /\ TempOK(u) /\ CopyOK(u) /\ PartOK  BY DEF Inv
<1>2. b # c /\ b \in Inodes /\ c \in Inodes /\ NoInode \notin Inodes /\ c \notin Body
  BY InodesDiffer, InodeFacts DEF Body
<1>3. size[u] \in Nat /\ at[u] \in Nat
  <2>1. size[u] \in 0..MaxSize /\ at[u] \in Nat  BY DEF TypeInv, TypeOK
  <2> QED  BY <2>1, SizeAssumption
<1>4. \A w \in Uploads \ {u} : fh'[w] = fh[w]  BY PostLocals
<1>5. data \in [Inodes -> Seq(Chunk)] /\ dest \in Inodes \cup {NoInode}  BY DEF TypeInv, TypeOK
<1>6. CASE CopyBegin(u)
  <2>1. /\ upc[u] = "publish" /\ made[u] = "temp" /\ at'[u] = 0
        /\ dest' = IF dest = NoInode THEN c ELSE dest
        /\ fh'[u] = dest' /\ data' = [data EXCEPT ![dest'] = <<>>]
        /\ shared' = IF \E w \in Uploads \ {u} : fh[w] = dest' THEN shared \cup {dest'} ELSE shared
        /\ UNCHANGED <<part, size, unflushed>>
    BY <1>6 DEF CopyBegin, TypeInv, TypeOK
  <2>2. b # dest /\ size[u] > 0  BY <1>1, <2>1 DEF TempOK, FreshOK, Running
  <2>3. dest' \in Inodes /\ dest' # NoInode /\ dest' # b  BY <1>2, <1>5, <2>1, <2>2
  <2>4. dest' # part'  BY <1>1, <1>2, <2>1, <2>3 DEF PartOK
  <2>5. data'[dest'] = Fill(0, u)  BY <1>5, <2>1, <2>3, FillNone
  <2>6. 0 <= Stored(u)'  BY <1>3, <2>1, <2>2 DEF Stored
  <2>7. dest' \notin shared' => \A w \in Uploads \ {u} : fh'[w] # dest'  BY <1>4, <2>1
  <2> QED  BY <2>1, <2>3, <2>4, <2>5, <2>6, <2>7 DEF CopyOK
<1>7. CASE CopyChunk(u)
  <2>1. /\ upc[u] = "copying" /\ at[u] < Len(data[b]) /\ at'[u] = at[u] + 1
        /\ UNCHANGED <<part, dest, fh, size, unflushed, shared>>
    BY <1>7 DEF CopyChunk, TypeInv, TypeOK
  <2>2. /\ dest # NoInode /\ fh[u] # NoInode /\ fh[u] # part /\ fh[u] # b /\ made[u] = "temp" /\ size[u] > 0
        /\ data[b] = Fill(Stored(u), u)
    BY <1>1, <2>1 DEF CopyOK, TempOK, FreshOK, Running
  <2>3. Stored(u) \in Nat /\ Stored(u)' = Stored(u)  BY <1>3, <2>1, <2>2 DEF Stored
  <2>4. Len(data[b]) = Stored(u) /\ \A j \in 1..Stored(u) : data[b][j] = u
    <3>1. Len(Fill(Stored(u), u)) = Stored(u) /\ \A j \in 1..Stored(u) : Fill(Stored(u), u)[j] = u
      BY <2>3, FillIs
    <3> QED  BY <2>2, <3>1
  <2>5. at[u] + 1 \in 1..Stored(u) /\ at[u] + 1 <= Stored(u)  BY <1>3, <2>1, <2>3, <2>4
  <2>6. ASSUME fh[u] \notin shared PROVE data'[fh[u]] = Fill(at[u] + 1, u)
    <3>1. data[fh[u]] = Fill(at[u], u) /\ fh[u] \in Inodes
      BY <1>1, <2>1, <2>2, <2>6 DEF CopyOK, TypeInv, TypeOK
    <3>2. data[b][at[u] + 1] = u  BY <2>4, <2>5
    <3>3. data' = [data EXCEPT ![fh[u]] = WriteAt(Fill(at[u], u), at[u] + 1, u)]
      BY <1>7, <3>1, <3>2 DEF CopyChunk
    <3>4. data'[fh[u]] = WriteAt(Fill(at[u], u), at[u] + 1, u)  BY <1>5, <3>1, <3>3
    <3> QED  BY <1>3, <3>4, WriteNext
  <2>7. fh[u] \notin shared => \A w \in Uploads \ {u} : fh[w] # fh[u]
    BY <1>1, <2>1 DEF CopyOK
  <2> QED  BY <1>4, <2>1, <2>2, <2>3, <2>5, <2>6, <2>7 DEF CopyOK
<1>8. CopyBegin(u) \/ CopyChunk(u)
  BY DEF PostStep, PostBegin, PathField, OtherField, OpenPart, OpenTemp, WriteChunk, ValueEnds,
         PostFails, BodyEnds, PublishPart, PublishTemp, CopyEnds, PublishRaises, Finish, Field,
         TypeInv, TypeOK
<1> QED  BY <1>6, <1>7, <1>8

\* Uploads that overlap in `<path>.part` know it of every file they have.
LEMMA PostTwo ==
  ASSUME TypeInv, Inv, NEW u \in Uploads, PostBegin(u) \/ PostStep(u)
  PROVE  TwoOK'
<1>1. \A w \in Uploads \ {u} : upc'[w] = upc[w] /\ made'[w] = made[w] /\ fh'[w] = fh[w]
  BY PostLocals
<1>2. \A w \in Uploads \ {u} : Uploading(w)' <=> Uploading(w)
  BY <1>1 DEF Uploading, Running
<1>3. CASE OpenPart(u)
  <2>1. /\ fh'[u] = part' /\ part' # NoInode /\ (part # NoInode => part' = part)
        /\ shared' = IF \E w \in Uploads \ {u} : Uploading(w)
                     THEN shared \cup {part'} ELSE shared \ {part'}
    BY <1>3, InodeFacts DEF OpenPart, Uploading, TypeInv, TypeOK
  <2> SUFFICES ASSUME NEW x \in Uploads \ {u}, Uploading(x) PROVE TwoOK'
    BY <1>2 DEF TwoOK
  <2>2. part' \in shared' /\ shared \subseteq shared'  BY <2>1
  <2>3. ASSUME NEW w \in Uploads \ {u}, Uploading(w), fh[w] # NoInode PROVE fh[w] \in shared'
    <3>1. Receiving(w)
      BY <2>3 DEF Inv, FreshOK, Uploading, Running, Receiving, TypeInv, TypeOK
    <3>2. fh[w] \notin shared => fh[w] = part /\ part # NoInode
      BY <2>3, <3>1 DEF Inv, OwnOK
    <3> QED  BY <2>1, <2>2, <3>2
  <2> QED  BY <1>1, <1>2, <2>1, <2>2, <2>3 DEF TwoOK
<1>4. CASE ~ OpenPart(u)
  <2>1. Uploading(u)' => Uploading(u)
    <3>1. made'[u] = "part" => made[u] = "part"
      BY <1>4
         DEF PostStep, PostBegin, PathField, OtherField, OpenTemp, WriteChunk, ValueEnds,
             PostFails, BodyEnds, PublishPart, PublishTemp, CopyBegin, CopyChunk, CopyEnds,
             PublishRaises, TypeInv, TypeOK
    <3>2. upc[u] = "idle" => made[u] = "none"  BY DEF Inv, FreshOK
    <3>3. upc[u] = "done" => FALSE
      BY DEF PostStep, PostBegin, PathField, OtherField, OpenPart, OpenTemp, WriteChunk, ValueEnds,
             PostFails, BodyEnds, PublishPart, PublishTemp, CopyBegin, CopyChunk, CopyEnds,
             PublishRaises, Field
    <3> QED  BY <3>1, <3>2, <3>3 DEF Uploading, Running
  <2>2. part' = part \/ part' = NoInode  BY <1>4, PostNames
  <2>3. Uploading(u) => fh'[u] = fh[u] \/ fh'[u] = NoInode
    <3>1. Uploading(u) => ~ CopyBegin(u)  BY DEF Uploading, CopyBegin
    <3> QED  BY <1>4, <3>1, PostHandle DEF Uploading
  <2>4. shared \subseteq shared'
    <3>1. CopyBegin(u) => shared \subseteq shared'  BY DEF CopyBegin
    <3> QED  BY <1>4, <3>1, PostHandle
  <2> QED  BY <1>1, <1>2, <2>1, <2>2, <2>3, <2>4 DEF Inv, TwoOK
<1> QED  BY <1>3, <1>4

\* `<path>.part` stays a file of no other name.
LEMMA PostPart ==
  ASSUME TypeInv, Inv, NEW u \in Uploads, PostBegin(u) \/ PostStep(u)
  PROVE  PartOK'
<1> SUFFICES ASSUME part' # NoInode
             PROVE  part' \in Body /\ part' # dest' /\ \A g \in Gets : gino'[g] # part'
  BY DEF PartOK
<1>1. gino' = gino  BY PostLocals DEF getVars
<1>2. CASE part' = part
  <2>1. part \in Body /\ part # dest /\ \A g \in Gets : gino[g] # part
    BY <1>2 DEF Inv, PartOK
  <2>2. <<u, "copy">> # part  BY <2>1, InodesDiffer DEF Body
  <2>3. PublishTemp(u) => <<u, "body">> # part
    BY DEF PublishTemp, Inv, TempOK, Running
  <2> QED  BY <1>1, <1>2, <2>1, <2>2, <2>3, PostNames
<1>3. CASE part' = <<u, "body">> /\ made[u] = "none" /\ OpenPart(u)
  <2>1. Unused(<<u, "body">>)  BY <1>3 DEF Inv, FreshOK
  <2>2. dest' = dest  BY <1>3 DEF OpenPart
  <2> QED  BY <1>1, <1>3, <2>1, <2>2, InodeFacts DEF Unused
<1> QED  BY <1>2, <1>3, PostNames

\* An upload that ends takes its `<path>.part` or its temporary file along, unless
\* its path was a bad one.
LEMMA PostCleans ==
  ASSUME TypeInv, Inv, NEW u \in Uploads, PostBegin(u) \/ PostStep(u)
  PROVE  /\ Uploading(u) /\ ~ Running(u)' => part' = NoInode \/ Abandoned(u)'
         /\ Running(u) /\ made[u] = "temp" /\ ~ Running(u)' => u \notin temps' \/ Abandoned(u)'
         /\ u \in temps' => u \in temps \/ (made'[u] = "temp" /\ Running(u)')
         /\ upc[u] # "done" /\ (OpenPart(u) => Uploading(u)')
<1> USE DEF TypeInv, TypeOK, Running, Finish, Discard, fsVars, Uploading, Field
<1>0. upc[u] = "copying" => made[u] = "temp"  BY DEF Inv, FreshOK
<1>1. CASE PostBegin(u)      BY <1>1 DEF PostBegin, OpenPart
<1>2. CASE PathField(u)      BY <1>2 DEF PathField, OpenPart
<1>3. CASE OtherField(u)     BY <1>3 DEF OtherField, OpenPart
<1>4. CASE OpenPart(u)       BY <1>4 DEF OpenPart
<1>5. CASE OpenTemp(u)       BY <1>5 DEF OpenTemp, OpenPart
<1>6. CASE WriteChunk(u)     BY <1>6 DEF WriteChunk, OpenPart
<1>7. CASE ValueEnds(u)      BY <1>7 DEF ValueEnds, OpenPart
<1>8. CASE PostFails(u)      BY <1>8 DEF PostFails, OpenPart
<1>9. CASE BodyEnds(u)       BY <1>9 DEF BodyEnds, OpenPart
<1>10. CASE PublishPart(u)   BY <1>10 DEF PublishPart, OpenPart
<1>11. CASE PublishTemp(u)   BY <1>11 DEF PublishTemp, OpenPart
<1>12. CASE CopyBegin(u)     BY <1>12 DEF CopyBegin, OpenPart
<1>13. CASE CopyChunk(u)     BY <1>13 DEF CopyChunk, OpenPart
<1>14. CASE CopyEnds(u)      BY <1>0, <1>14 DEF CopyEnds, OpenPart
<1>15. CASE PublishRaises(u)
  <2>1. made[u] # "none" => Abandoned(u)'  BY <1>15 DEF PublishRaises, Abandoned
  <2> QED  BY <1>15, <2>1 DEF PublishRaises, OpenPart
<1> QED
  BY <1>1, <1>2, <1>3, <1>4, <1>5, <1>6, <1>7, <1>8, <1>9, <1>10, <1>11, <1>12,
     <1>13, <1>14, <1>15 DEF PostStep

\* Whatever is left has an upload that runs, or one that gave it up for its path.
LEMMA PostClean ==
  ASSUME TypeInv, Inv, NEW u \in Uploads, PostBegin(u) \/ PostStep(u)
  PROVE  CleanOK'
<1>1. crashed' = crashed  BY PostLocals
<1>2. \A w \in Uploads \ {u} :
        /\ Running(w)' <=> Running(w)
        /\ Abandoned(w)' <=> Abandoned(w)
        /\ made'[w] = made[w]
        /\ w \in temps' <=> w \in temps
  BY PostLocals DEF Running, Abandoned
<1>3. ~ Abandoned(u)  BY PostCleans DEF Abandoned
<1>4. made[u] # "none" => made'[u] = made[u]  BY PostHandle
<1>5. ASSUME ~ crashed, part' # NoInode
      PROVE  \E w \in Uploads : made'[w] = "part" /\ (Running(w) \/ Abandoned(w))'
  <2>1. CASE part' = part
    <3>1. PICK w \in Uploads : made[w] = "part" /\ (Running(w) \/ Abandoned(w))
      BY <1>5, <2>1 DEF Inv, CleanOK
    <3>2. CASE w # u  BY <1>2, <3>1, <3>2
    <3>3. CASE w = u
      <4>1. made'[u] = "part" /\ Uploading(u)  BY <1>3, <1>4, <3>1, <3>3 DEF Uploading
      <4> QED  BY <1>5, <4>1, PostCleans
    <3> QED  BY <3>2, <3>3
  <2>2. CASE OpenPart(u)  BY <2>2, PostCleans DEF Uploading
  <2> QED  BY <1>5, <2>1, <2>2, PostNames
<1>6. ASSUME ~ crashed, NEW w \in temps' PROVE made'[w] = "temp" /\ (Running(w) \/ Abandoned(w))'
  <2>1. w \in Uploads  BY PostTypes DEF TypeInv, TypeOK
  <2>2. CASE w # u
    <3>1. w \in temps  BY <1>2, <1>6, <2>1, <2>2
    <3> QED  BY <1>2, <1>6, <2>1, <2>2, <3>1 DEF Inv, CleanOK
  <2>3. CASE w = u /\ w \in temps
    <3>1. Running(u) /\ made[u] = "temp"  BY <1>3, <1>6, <2>3 DEF Inv, CleanOK
    <3> QED  BY <1>4, <1>6, <2>3, <3>1, PostCleans
  <2> QED  BY <1>6, <2>1, <2>2, <2>3, PostCleans
<1> QED  BY <1>1, <1>5, <1>6 DEF CleanOK

\* What the path names, when no two uploads shared it, one upload has put there.
LEMMA PostDest ==
  ASSUME TypeInv, Inv, NEW u \in Uploads, PostBegin(u) \/ PostStep(u)
  PROVE  DestOK'
<1> DEFINE b == <<u, "body">>
           c == <<u, "copy">>
<1> SUFFICES ASSUME dest' # NoInode, dest' \notin shared'
             PROVE  data'[dest'] = <<Old>> \/ \E w \in Uploads : Origin(w)'
  BY DEF DestOK
<1>1. \A w \in Uploads : made[w] # "none" => made'[w] = made[w] /\ size'[w] = size[w]
  <2>1. PostBegin(u) => made[u] = "none"  BY DEF PostBegin, Inv, FreshOK
  <2> QED  BY <2>1, PostLocals, PostHandle
<1>2. unflushed \subseteq unflushed'  BY PostShape
<1>3. FreshOK(u) /\ TempOK(u) /\ OwnOK(u) /\ CopyOK(u) /\ PartOK  BY DEF Inv
<1>4. FreshOK(u)' /\ CopyOK(u)'  BY PostFresh, PostCopy
<1>5. ASSUME made'[u] # "none", data'[dest'] = Fill(Stored(u)', u) PROVE Origin(u)'
  BY <1>5 DEF Origin, Stored
<1>6. ASSUME upc'[u] = "copying", fh'[u] = dest' PROVE Origin(u)'
  <2>1. made'[u] = "temp" /\ data'[dest'] = Fill(at'[u], u) /\ answer'[u] # "ok"
    BY <1>4, <1>6 DEF CopyOK, FreshOK
  <2>2. at'[u] \in Nat  BY PostTypes DEF TypeInv, TypeOK
  <2>3. Len(data'[dest']) = at'[u]  BY <2>1, <2>2, FillIs
  <2> QED  BY <1>6, <2>1, <2>3 DEF Origin, Cut
<1>7. CASE CopyBegin(u)
  <2>1. upc'[u] = "copying" /\ fh'[u] = dest'  BY <1>7 DEF CopyBegin, TypeInv, TypeOK
  <2> QED  BY <1>6, <2>1
<1>8. CASE dest' # dest /\ ~ CopyBegin(u)
  <2>1. CASE PublishPart(u) /\ dest' = part /\ part # NoInode
    <3>1. upc[u] = "publish" /\ made[u] = "part" /\ UNCHANGED <<data, size, made, unflushed, shared>>
      BY <2>1 DEF PublishPart
    <3>2. data[part] = Fill(Stored(u), u)
      BY <1>3, <2>1, <3>1 DEF OwnOK, Uploading, Running
    <3> QED  BY <1>5, <2>1, <3>1, <3>2 DEF Stored
  <2>2. CASE PublishTemp(u) /\ dest' = b
    <3>1. upc[u] = "publish" /\ made[u] = "temp" /\ UNCHANGED <<data, size, made, unflushed>>
      BY <2>2 DEF PublishTemp
    <3>2. data[b] = Fill(Stored(u), u)  BY <1>3, <3>1 DEF TempOK, Running
    <3> QED  BY <1>5, <2>2, <3>1, <3>2 DEF Stored
  <2> QED  BY <1>8, <2>1, <2>2, PostNames
<1>9. CASE dest' = dest /\ ~ CopyBegin(u)
  <2>1. dest \notin shared
    <3>1. CASE OpenPart(u)
      <4>1. made[u] = "none"
        BY <1>3, <3>1, InodeFacts DEF OpenPart, Field, FreshOK, Receiving
      <4>2. part' # dest  BY <1>3, <3>1, <4>1 DEF OpenPart, PartOK, FreshOK, Unused
      <4> QED  BY <1>9, <3>1, <4>2 DEF OpenPart
    <3>2. CASE ~ OpenPart(u)  BY <1>9, <3>2, PostHandle
    <3> QED  BY <3>1, <3>2
  <2>2. dest \in Inodes  BY <1>9 DEF TypeInv, TypeOK
  <2>3. CASE data'[dest] # data[dest]
    <3>1. ~ (OpenPart(u) /\ dest = part')
      BY <1>9, PostPart DEF PartOK
    <3>2. dest = fh[u] /\ (Receiving(u) \/ CopyChunk(u))
      BY <1>9, <2>2, <2>3, <3>1, PostWrites
    <3>3. ~ Receiving(u)
      <4>1. SUFFICES ASSUME Receiving(u) PROVE FALSE  OBVIOUS
      <4>2. (fh[u] = part /\ part # NoInode) \/ (made[u] = "temp" /\ fh[u] = b)
        BY <2>1, <3>2, <4>1, HandleOf
      <4>3. made[u] = "temp" => b # dest  BY <1>3, <4>1 DEF TempOK, Receiving, Running
      <4> QED  BY <1>3, <3>2, <4>2, <4>3 DEF PartOK
    <3>4. upc'[u] = "copying" /\ fh'[u] = dest'
      BY <1>9, <3>2, <3>3 DEF CopyChunk, TypeInv, TypeOK
    <3> QED  BY <1>6, <3>4
  <2>4. CASE data'[dest] = data[dest]
    <3>1. CASE data[dest] = <<Old>>  BY <1>9, <2>4, <3>1
    <3>2. ASSUME NEW w \in Uploads, Origin(w) PROVE Origin(w)'
      <4>1. CASE ~ Cut(w)
        <5>1. made[w] # "none"  BY <3>2, <4>1 DEF Origin, Inv, FreshOK
        <5> QED  BY <1>1, <1>2, <1>9, <2>4, <3>2, <4>1, <5>1 DEF Origin
      <4>2. CASE Cut(w) /\ w # u
        <5>1. /\ upc'[w] = upc[w] /\ fh'[w] = fh[w] /\ made'[w] = made[w] /\ answer'[w] = answer[w]
          BY <4>2, PostLocals
        <5> QED  BY <1>9, <2>4, <4>2, <5>1 DEF Origin, Cut
      <4>3. CASE Cut(w) /\ w = u
        <5>1. upc[u] = "copying" /\ fh[u] = dest /\ made[u] = "temp" /\ answer[u] # "ok"
          BY <4>3, PostCleans DEF Cut
        <5>2. CASE CopyChunk(u)
          <6>1. upc'[u] = "copying" /\ fh'[u] = dest'  BY <1>9, <5>1, <5>2 DEF CopyChunk
          <6> QED  BY <1>6, <4>3, <6>1
        <5>3. CASE CopyEnds(u)
          <6>1. /\ UNCHANGED <<data, size, made, unflushed>> /\ upc'[u] = "done"
                /\ answer'[u] = IF at[u] = Len(data[b]) THEN "ok" ELSE "server error"
            BY <5>3 DEF CopyEnds, Finish, TypeInv, TypeOK
          <6>2. data[dest] = Fill(at[u], u) /\ data[b] = Fill(Stored(u), u) /\ size[u] > 0
            BY <1>3, <2>1, <5>1 DEF CopyOK, TempOK, FreshOK, Running
          <6>3. CASE at[u] = Len(data[b])
            <7>1. Stored(u) \in Nat
              <8>1. size[u] \in 0..MaxSize /\ MaxSize \in Nat  BY SizeAssumption DEF TypeInv, TypeOK
              <8> QED  BY <6>2, <8>1 DEF Stored
            <7>2. at[u] = Stored(u)  BY <6>2, <6>3, <7>1, FillIs
            <7>3. data'[dest'] = Fill(Stored(u)', u)  BY <1>9, <6>1, <6>2, <7>2 DEF Stored
            <7> QED  BY <1>5, <4>3, <5>1, <6>1, <7>3
          <6>4. CASE at[u] # Len(data[b])
            BY <1>9, <4>3, <5>1, <6>1, <6>4 DEF Cut, Origin
          <6> QED  BY <6>3, <6>4
        <5>4. CopyChunk(u) \/ CopyEnds(u)
          BY <5>1
             DEF PostStep, PostBegin, PathField, OtherField, OpenPart, OpenTemp, WriteChunk,
                 ValueEnds, PostFails, BodyEnds, PublishPart, PublishTemp, CopyBegin,
                 PublishRaises, Field
        <5> QED  BY <5>2, <5>3, <5>4
      <4> QED  BY <4>1, <4>2, <4>3
    <3> QED  BY <1>9, <2>1, <3>1, <3>2 DEF Inv, DestOK
  <2> QED  BY <2>3, <2>4
<1> QED  BY <1>7, <1>8, <1>9

\* A download that meets an upload gets nothing of it, unless it copies over the file.
LEMMA PostPure ==
  ASSUME TypeInv, Inv, NEW u \in Uploads, PostBegin(u) \/ PostStep(u), NEW g \in Gets
  PROVE  PureOK(g)'
<1> SUFFICES ASSUME gino[g] # NoInode, gino[g] \notin shared',
                    NEW x \in Chunks(gbody[g]) \cup Chunks(data'[gino[g]]),
                    NEW y \in Chunks(gbody[g]) \cup Chunks(data'[gino[g]])
             PROVE  ~ Mixed(x, y)'
  BY PostLocals DEF PureOK, getVars
<1>1. Mixed(x, y)' => Mixed(x, y)  BY PostHandle DEF Mixed
<1>2. gino[g] \in Inodes /\ gino' = gino  BY PostLocals DEF TypeInv, TypeOK, getVars
<1>3. part' # NoInode => gino[g] # part'  BY <1>2, PostPart DEF PartOK
<1>4. gino[g] \notin shared
  <2>1. CASE OpenPart(u)
    <3>1. part' # NoInode  BY <2>1, InodeFacts DEF OpenPart
    <3> QED  BY <1>3, <2>1, <3>1 DEF OpenPart
  <2>2. CASE CopyBegin(u)  BY <2>2 DEF CopyBegin
  <2>3. CASE ~ OpenPart(u) /\ ~ CopyBegin(u)  BY <2>3, PostHandle
  <2> QED  BY <2>1, <2>2, <2>3
<1>5. x \in Chunks(gbody[g]) /\ y \in Chunks(gbody[g]) => ~ Mixed(x, y)
  BY <1>4 DEF Inv, PureOK
<1>6. CASE data'[gino[g]] = data[gino[g]]  BY <1>1, <1>4, <1>6 DEF Inv, PureOK
<1>7. CASE CopyBegin(u) /\ gino[g] = dest'
  <2>1. data'[gino[g]] = <<>>
    BY <1>2, <1>7 DEF CopyBegin, TypeInv, TypeOK
  <2>2. Chunks(<<>>) = {}  BY DEF Chunks
  <2> QED  BY <1>1, <1>5, <2>1, <2>2
<1>8. CASE gino[g] = fh[u] /\ CopyChunk(u)
  <2>1. upc'[u] = "copying" /\ fh'[u] = gino[g]  BY <1>8 DEF CopyChunk
  <2>2. made'[u] = "temp" /\ data'[gino[g]] = Fill(at'[u], u)
    BY <2>1, PostCopy, PostFresh DEF CopyOK, FreshOK
  <2>3. at'[u] \in Nat  BY PostTypes DEF TypeInv, TypeOK
  <2>4. Chunks(data'[gino[g]]) \subseteq {u}  BY <2>2, <2>3, FillIs
  <2>5. x = u \/ y = u => ~ Mixed(x, y)'  BY <2>2 DEF Mixed
  <2> QED  BY <1>1, <1>5, <2>4, <2>5
<1>9. ~ (gino[g] = fh[u] /\ Receiving(u))
  <2> SUFFICES ASSUME gino[g] = fh[u], Receiving(u) PROVE FALSE  OBVIOUS
  <2>1. (fh[u] = part /\ part # NoInode) \/ (made[u] = "temp" /\ fh[u] = <<u, "body">>)
    BY <1>4, HandleOf
  <2>2. made[u] = "temp" => gino[g] # <<u, "body">>  BY DEF Inv, TempOK, Receiving, Running
  <2> QED  BY <2>1, <2>2 DEF Inv, PartOK
<1>10. OpenPart(u) => part' # NoInode  BY InodeFacts DEF OpenPart
<1> QED  BY <1>2, <1>3, <1>6, <1>7, <1>8, <1>9, <1>10, PostWrites

\* What the path names is made of one kind of chunk.
LEMMA DestIsOneKind ==
  ASSUME TypeInv, Inv, dest # NoInode, dest \notin shared
  PROVE  \E c : Chunks(data[dest]) \subseteq {c}
<1>1. CASE data[dest] = <<Old>>  BY <1>1 DEF Chunks
<1>2. ASSUME NEW u \in Uploads, Origin(u) PROVE Chunks(data[dest]) \subseteq {u}
  <2>1. size[u] \in Nat /\ (u \in unflushed => size[u] - 1 \in Nat)
    <3>1. u \in unflushed => size[u] > 0  BY DEF Inv, FreshOK
    <3>2. size[u] \in 0..MaxSize /\ MaxSize \in Nat  BY SizeAssumption DEF TypeInv, TypeOK
    <3> QED  BY <3>1, <3>2
  <2>2. data[dest] \in Seq(Chunk)  BY DEF TypeInv, TypeOK
  <2>3. \E n \in Nat : data[dest] = Fill(n, u)
    <3>1. Len(data[dest]) \in Nat  BY <2>2
    <3> QED  BY <1>2, <2>1, <3>1 DEF Origin, Cut
  <2> QED  BY <2>3, FillIs
<1> QED  BY <1>1, <1>2 DEF Inv, DestOK

-----------------------------------------------------------------------------
(* The steps of a download, and a restart *)

\* A download opens what the path names, and so reads one kind of chunk, and sends
\* what it reads.
LEMMA GetPure ==
  ASSUME TypeInv, Inv, NEW g \in Gets, GetStat(g) \/ GetOpen(g) \/ GetChunk(g) \/ GetEnd(g),
         NEW h \in Gets
  PROVE  PureOK(h)'
<1>1. UNCHANGED <<data, made, dest, shared>>
  BY DEF GetStat, GetOpen, GetChunk, GetEnd, fsVars, upVars
<1>2. \A x, y : Mixed(x, y)' <=> Mixed(x, y)  BY <1>1 DEF Mixed
<1>3. CASE gino'[h] = gino[h] /\ gbody'[h] = gbody[h]
  BY <1>1, <1>2, <1>3 DEF Inv, PureOK
<1>4. CASE GetOpen(g) /\ h = g
  <2>1. gino'[h] = dest /\ gbody'[h] = <<>> /\ dest # NoInode
    BY <1>4 DEF GetOpen, TypeInv, TypeOK, GetOK
  <2>2. Chunks(<<>>) = {}  BY DEF Chunks
  <2> SUFFICES ASSUME dest \notin shared PROVE PureOK(h)'
    BY <1>1, <2>1 DEF PureOK
  <2>3. PICK c : Chunks(data[dest]) \subseteq {c}  BY <2>1, DestIsOneKind
  <2> QED  BY <1>1, <2>1, <2>2, <2>3 DEF PureOK, Mixed
<1>5. CASE GetChunk(g) /\ h = g
  <2> DEFINE s == gbody[g]
             c == data[gino[g]][Len(s) + 1]
  <2>1. gino[g] # NoInode /\ gino' = gino /\ gbody'[h] = Append(s, c)
    BY <1>5 DEF GetChunk, TypeInv, TypeOK, GetOK
  <2>2. s \in Seq(Chunk) /\ data[gino[g]] \in Seq(Chunk)  BY <2>1 DEF TypeInv, TypeOK
  <2>3. Len(s) + 1 \in 1..Len(data[gino[g]])  BY <1>5, <2>2 DEF GetChunk
  <2>4. c \in Chunks(data[gino[g]])  BY <2>3 DEF Chunks
  <2>5. c \in Chunk  BY <2>2, <2>3, ElementOfSeq
  <2> HIDE DEF c
  <2>6. Chunks(Append(s, c)) \subseteq Chunks(s) \cup {c}  BY <2>2, <2>5 DEF Chunks
  <2> QED  BY <1>1, <1>2, <1>5, <2>1, <2>4, <2>6 DEF Inv, PureOK
<1> QED  BY <1>3, <1>4, <1>5 DEF GetStat, GetOpen, GetChunk, GetEnd, TypeInv, TypeOK

\* A download changes nothing for the uploads: the file it opens is the path's.
LEMMA GetInv ==
  ASSUME TypeInv, Inv, NEW g \in Gets, GetStat(g) \/ GetOpen(g) \/ GetChunk(g) \/ GetEnd(g)
  PROVE  Inv'
<1>1. UNCHANGED <<part, dest, temps, data, upc, size, path, fh, at, made, answer, unflushed,
                  shared, crashed>>
  BY DEF GetStat, GetOpen, GetChunk, GetEnd, fsVars, upVars
<1>2. \A h \in Gets : gino'[h] \in {gino[h], dest}
  BY DEF GetStat, GetOpen, GetChunk, GetEnd, TypeInv, TypeOK
<1>3. \A i : Unused(i) => Unused(i)'  BY <1>1, <1>2 DEF Unused
<1>4. ASSUME NEW u \in Uploads PROVE FreshOK(u)' /\ TempOK(u)' /\ OwnOK(u)' /\ CopyOK(u)'
  <2>1. FreshOK(u)  BY DEF Inv
  <2>2. FreshOK(u)'  BY <1>1, <1>3, <2>1 DEF FreshOK, Receiving
  <2>3. TempOK(u)'
    BY <1>1, <1>2 DEF Inv, TempOK, Running, Receiving, Written, Stored, Buffered
  <2>4. OwnOK(u)'
    BY <1>1 DEF Inv, OwnOK, Uploading, Running, Receiving, Written, Stored, Buffered
  <2>5. CopyOK(u)'  BY <1>1 DEF Inv, CopyOK, Stored
  <2> QED  BY <2>2, <2>3, <2>4, <2>5
<1>5. TwoOK'  BY <1>1 DEF Inv, TwoOK, Uploading, Running
<1>6. PartOK'  BY <1>1, <1>2 DEF Inv, PartOK
<1>7. CleanOK'  BY <1>1 DEF Inv, CleanOK, Running, Abandoned
<1>8. DestOK'  BY <1>1 DEF Inv, DestOK, Origin, Cut
<1> QED  BY <1>4, <1>5, <1>6, <1>7, <1>8, GetPure DEF Inv

\* A restart cuts every request and leaves the files.
LEMMA RestartInv == TypeInv /\ Inv /\ Restart => Inv'
<1> SUFFICES ASSUME TypeInv, Inv, Restart PROVE Inv'  OBVIOUS
<1>1. /\ UNCHANGED <<part, dest, temps, data, size, at, made, gino, gbody, unflushed, shared>>
      /\ crashed'
  BY DEF Restart, fsVars
<1>2. \A u \in Uploads : /\ upc'[u] = IF Running(u) THEN "done" ELSE upc[u]
                         /\ answer'[u] = IF Running(u) THEN "hung up" ELSE answer[u]
                         /\ fh'[u] = NoInode
  BY DEF Restart
<1>3. \A u \in Uploads : upc'[u] \in {"idle", "done"}  BY <1>2 DEF Running
<1>4. \A i \in Inodes : Unused(i) => Unused(i)'  BY <1>1, <1>2, InodeFacts DEF Unused
<1>5. ASSUME NEW u \in Uploads PROVE FreshOK(u)'
  <2>1. FreshOK(u)  BY DEF Inv
  <2>2. (upc'[u] = upc[u] /\ ~ Running(u)) \/ (upc'[u] = "done" /\ Running(u))  BY <1>2
  <2>3. upc'[u] = "idle" => upc[u] = "idle"  BY <2>2 DEF Running
  <2>4. upc'[u] # "done" => answer'[u] # "ok"  BY <1>2, <2>1, <2>2 DEF FreshOK
  <2>5. upc'[u] # "idle" => size[u] > 0  BY <2>1, <2>2 DEF FreshOK, Running
  <2>6. <<u, "body">> \in Inodes /\ <<u, "copy">> \in Inodes  BY InodeFacts
  <2> QED
    BY <1>1, <1>2, <1>3, <1>4, <2>1, <2>3, <2>4, <2>5, <2>6 DEF FreshOK, Receiving
<1>6. ASSUME NEW u \in Uploads PROVE TempOK(u)' /\ OwnOK(u)' /\ CopyOK(u)' /\ ~ Uploading(u)'
  BY <1>3, <1>6 DEF TempOK, OwnOK, CopyOK, Uploading, Running
<1>7. TwoOK'  BY <1>6 DEF TwoOK
<1>8. PartOK' /\ CleanOK'  BY <1>1 DEF Inv, PartOK, CleanOK
<1>9. DestOK'
  <2>1. \A u \in Uploads : Origin(u) => Origin(u)'  BY <1>1, <1>2 DEF Origin, Cut, Running
  <2> QED  BY <1>1, <2>1 DEF Inv, DestOK
<1>10. \A g \in Gets : PureOK(g)'  BY <1>1 DEF Inv, PureOK, Mixed
<1> QED  BY <1>5, <1>6, <1>7, <1>8, <1>9, <1>10 DEF Inv

-----------------------------------------------------------------------------
(* Inv, and what follows *)

\* Nothing is under way when the server comes up.
LEMMA InvInit == Init => Inv
<1> SUFFICES ASSUME Init PROVE Inv  OBVIOUS
<1>1. ASSUME NEW u \in Uploads PROVE FreshOK(u) /\ TempOK(u) /\ OwnOK(u) /\ CopyOK(u)
  <2>1. <<u, "body">> \notin {Old, NoInode} /\ <<u, "copy">> \notin {Old, NoInode}
    BY SentinelAssumption DEF Body, Copy
  <2>2. <<u, "body">> \in Inodes  BY InodeFacts
  <2> QED
    BY <2>1, <2>2
       DEF Init, FreshOK, TempOK, OwnOK, CopyOK, Unused, Running, Receiving, Uploading
<1>2. PartOK /\ CleanOK /\ TwoOK  BY DEF Init, PartOK, CleanOK, TwoOK, Uploading, Running
<1>3. DestOK  BY InodeFacts DEF Init, DestOK
<1>4. \A g \in Gets : PureOK(g)  BY DEF Init, PureOK
<1> QED  BY <1>1, <1>2, <1>3, <1>4 DEF Inv

\* Every step keeps the invariant.
LEMMA InvNext == TypeInv /\ Inv /\ [Next]_vars => Inv'
<1> SUFFICES ASSUME TypeInv, Inv, [Next]_vars PROVE Inv'  OBVIOUS
<1>1. ASSUME NEW u \in Uploads, PostBegin(u) \/ PostStep(u) PROVE Inv'
  <2>1. ASSUME NEW w \in Uploads PROVE FreshOK(w)' /\ TempOK(w)' /\ OwnOK(w)' /\ CopyOK(w)'
    <3>1. CASE w = u  BY <1>1, <3>1, PostFresh, PostTemp, PostPartOwn, PostCopy
    <3>2. CASE w # u  BY <1>1, <3>2, PostOthers
    <3> QED  BY <3>1, <3>2
  <2>2. TwoOK' /\ PartOK' /\ CleanOK' /\ DestOK'
    BY <1>1, PostTwo, PostPart, PostClean, PostDest
  <2>3. \A g \in Gets : PureOK(g)'  BY <1>1, PostPure
  <2> QED  BY <2>1, <2>2, <2>3 DEF Inv
<1>2. CASE UNCHANGED vars
  <2> USE <1>2 DEF vars, fsVars, upVars, getVars, Running, Uploading, Receiving
  <2>1. \A i : Unused(i)' <=> Unused(i)  BY DEF Unused
  <2>2. ASSUME NEW u \in Uploads PROVE FreshOK(u)' /\ TempOK(u)' /\ OwnOK(u)' /\ CopyOK(u)'
    <3>1. FreshOK(u)'  BY <2>1 DEF Inv, FreshOK
    <3>2. TempOK(u)'   BY DEF Inv, TempOK, Written, Stored, Buffered
    <3>3. OwnOK(u)'    BY DEF Inv, OwnOK, Written, Stored, Buffered
    <3>4. CopyOK(u)'   BY DEF Inv, CopyOK, Stored
    <3> QED  BY <3>1, <3>2, <3>3, <3>4
  <2>3. TwoOK' /\ PartOK'  BY DEF Inv, TwoOK, PartOK
  <2>4. CleanOK'  BY DEF Inv, CleanOK, Abandoned
  <2>5. DestOK'   BY DEF Inv, DestOK, Origin, Cut
  <2>6. \A g \in Gets : PureOK(g)'  BY DEF Inv, PureOK, Mixed
  <2> QED  BY <2>2, <2>3, <2>4, <2>5, <2>6 DEF Inv
<1> QED  BY <1>1, <1>2, GetInv, RestartInv DEF Next

\* However uploads and downloads overlap, an upload whose file no other has had in
\* hand knows what is in it, and neither the path nor a download shares it.
THEOREM InvInvariant == Spec => [](TypeInv /\ Inv)
<1>1. Init => TypeInv /\ Inv  BY TypeInit, InvInit
<1>2. TypeInv /\ Inv /\ [Next]_vars => (TypeInv /\ Inv)'
  BY InvNext, PostTypes, GetTypes, RestartTypes, TypeStutter DEF Next
<1> QED  BY <1>1, <1>2, PTL DEF Spec

\* The path names all of one upload or the old file, or a copy from another disk that
\* is not finished, or what is left after a last flush that failed, or a file that
\* uploads have shared.
THEOREM DestCorrect == Spec => []DestIsWhole
<1>1. TypeInv /\ Inv => DestIsWhole
  <2> SUFFICES ASSUME Inv, dest # NoInode, dest \notin shared PROVE DestIsWhole
    BY DEF DestIsWhole
  <2>1. \A u \in Uploads : made[u] # "none" => size[u] > 0  BY DEF Inv, FreshOK
  <2> QED  BY <2>1 DEF Inv, DestOK, DestIsWhole, Whole, Torn, Origin, Cut, Fill
<1> QED  BY <1>1, InvInvariant, PTL

\* When every request is over and the server did not go down under one, `<path>.part`
\* or a temporary file is left only by an upload whose bad path came after its file.
THEOREM CleanCorrect == Spec => []NothingLeftBehind
<1>1. TypeInv /\ Inv => NothingLeftBehind
  BY DEF TypeInv, TypeOK, Inv, CleanOK, NothingLeftBehind
<1> QED  BY <1>1, InvInvariant, PTL

\* A download sends the chunks of one version, unless an upload that copies from
\* another disk had a part in them or uploads shared the file.
THEOREM GetCorrect == Spec => []GetIsOneVersion
<1>1. TypeInv /\ Inv => GetIsOneVersion
  <2> SUFFICES ASSUME TypeInv, Inv, NEW g \in Gets,
                      NEW j \in 1..Len(gbody[g]), NEW k \in 1..Len(gbody[g]),
                      gbody[g][j] # gbody[g][k], gino[g] \notin shared
               PROVE  \E u \in Uploads : made[u] = "temp" /\ u \in {gbody[g][j], gbody[g][k]}
    BY DEF GetIsOneVersion
  <2>1. gbody[g][j] \in Chunks(gbody[g]) /\ gbody[g][k] \in Chunks(gbody[g])  BY DEF Chunks
  <2>2. gino[g] # NoInode
    <3>1. gbody[g] # <<>>  OBVIOUS
    <3>2. gino[g] = NoInode => gbody[g] = <<>>  BY DEF TypeInv, GetOK
    <3> QED  BY <3>1, <3>2
  <2> QED  BY <2>1, <2>2 DEF Inv, PureOK, Mixed
<1> QED  BY <1>1, InvInvariant, PTL

\* An upload that is answered ok leaves its own bytes, all that its file object got
\* rid of, under the path, unless the file was shared or renamed away from its copy.
THEOREM OkCorrect == Spec => OkIsPublished
<1> DEFINE Published(u) ==
             answer'[u] = "ok" /\ answer[u] # "ok" =>
               /\ dest' # NoInode
               /\ \/ data'[dest'] = [j \in 1..(IF u \in unflushed THEN size[u] - 1 ELSE size[u]) |-> u]
                  \/ dest' \in shared
                  \/ upc[u] = "copying" /\ dest # fh[u]
<1>1. TypeInv /\ Inv /\ [Next]_vars => \A u \in Uploads : Published(u)
  <2> SUFFICES ASSUME TypeInv, Inv, [Next]_vars, NEW u \in Uploads,
                      answer'[u] = "ok", answer[u] # "ok"
               PROVE  /\ dest' # NoInode
                      /\ \/ data'[dest'] = Fill(Stored(u), u)
                         \/ dest' \in shared
                         \/ upc[u] = "copying" /\ dest # fh[u]
    BY DEF Fill, Stored
  <2>1. PostBegin(u) \/ PostStep(u)
    <3>1. \A w \in Uploads \ {u} : (PostBegin(w) \/ PostStep(w)) => answer'[u] = answer[u]
      BY PostLocals
    <3>2. \A g \in Gets : (GetStat(g) \/ GetOpen(g) \/ GetChunk(g) \/ GetEnd(g)) => answer' = answer
      BY DEF GetStat, GetOpen, GetChunk, GetEnd, upVars
    <3>3. Restart => answer'[u] # "ok" \/ answer'[u] = answer[u]  BY DEF Restart
    <3>4. UNCHANGED vars => answer' = answer  BY DEF vars, upVars
    <3> QED  BY <3>1, <3>2, <3>3, <3>4 DEF Next
  <2>2. /\ answer \in [Uploads -> {"none", "ok", "bad request", "server error", "hung up"}]
        /\ dest \in Inodes \cup {NoInode} /\ part \in Inodes \cup {NoInode}
    BY DEF TypeInv, TypeOK
  <2>3. FreshOK(u) /\ TempOK(u) /\ OwnOK(u) /\ CopyOK(u)  BY DEF Inv
  <2>4. PublishPart(u) \/ PublishTemp(u) \/ CopyEnds(u)
    BY <2>1, <2>2
       DEF PostStep, PostBegin, PathField, OtherField, OpenPart, OpenTemp, WriteChunk, ValueEnds,
           PostFails, BodyEnds, CopyBegin, CopyChunk, PublishRaises, Finish
  <2>5. CASE PublishPart(u)
    <3>1. /\ upc[u] = "publish" /\ made[u] = "part" /\ data' = data
          /\ dest' = part /\ part # NoInode
      BY <2>2, <2>5 DEF PublishPart, Finish
    <3>2. part \notin shared => data[part] = Fill(Stored(u), u)
      BY <2>3, <3>1 DEF OwnOK, Uploading, Running
    <3> QED  BY <3>1, <3>2
  <2>6. CASE PublishTemp(u)
    <3>1. /\ upc[u] = "publish" /\ made[u] = "temp" /\ data' = data
          /\ dest' = <<u, "body">> /\ dest' # NoInode
      BY <2>2, <2>6, InodeFacts DEF PublishTemp, Finish
    <3> QED  BY <2>3, <3>1 DEF TempOK, Running
  <2>7. CASE CopyEnds(u)
    <3>1. upc[u] = "copying" /\ UNCHANGED <<dest, data>> /\ at[u] = Len(data[<<u, "body">>])
      BY <2>2, <2>7 DEF CopyEnds, Finish
    <3>2. dest # NoInode
      BY <2>3, <3>1 DEF CopyOK
    <3> SUFFICES ASSUME dest = fh[u], dest \notin shared PROVE data[dest] = Fill(Stored(u), u)
      BY <3>1, <3>2
    <3>3. /\ data[dest] = Fill(at[u], u) /\ size[u] > 0
          /\ data[<<u, "body">>] = Fill(Stored(u), u)
      BY <2>3, <3>1 DEF FreshOK, TempOK, CopyOK, Running
    <3>4. Stored(u) \in Nat
      <4>1. size[u] \in 0..MaxSize /\ MaxSize \in Nat  BY SizeAssumption DEF TypeInv, TypeOK
      <4> QED  BY <3>3, <4>1 DEF Stored
    <3>5. at[u] = Stored(u)  BY <3>1, <3>3, <3>4, FillIs
    <3> QED  BY <3>3, <3>5
  <2> QED  BY <2>4, <2>5, <2>6, <2>7
<1>2. TypeInv /\ Inv /\ [Next]_vars => [\A u \in Uploads : Published(u)]_vars  BY <1>1
<1> QED  BY <1>2, InvInvariant, PTL DEF Spec, OkIsPublished

=============================================================================
