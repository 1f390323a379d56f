----------------------------- MODULE CaptureProofs -----------------------------
(***************************************************************************)
(* Proofs about Capture: the samples that reach the consumer are in the    *)
(* order of their capture and none comes twice, across reconnects; while a *)
(* stream is healthy and nothing was full, no sample is lost on the way;   *)
(* between streams nothing is open; and the noise suppressor holds whole   *)
(* chunks.  For any sizes of chunk, frame, ring, read and channel, and     *)
(* however task, worker, hardware, consumer and owner interleave.          *)
(*                                                                         *)
(* The argument: what was consumed, what is in the channels and what is    *)
(* not yet in a chunk are one sequence of samples, cut into chunks from    *)
(* its front.  Framing and noise suppression only move the cut; a full     *)
(* ring, a full channel and the end of a stream only take samples out; a   *)
(* callback adds a number greater than all before it.                      *)
(***************************************************************************)
EXTENDS Capture, SequenceTheorems, TLAPS

(***************************************************************************)
(* The inductive invariant.                                                *)
(***************************************************************************)

Chunk == [1 .. ChunkSize -> Nat]

Suppressors == [frame : Seq(Nat), pending : Seq(Nat), staging : Seq(Nat)]

TypeOK ==
    /\ isLoopback \in BOOLEAN /\ denoise \in BOOLEAN /\ dropped \in BOOLEAN
    /\ pc \in {"start", "wait", "lost", "refused", "forward", "closing", "done"}
    /\ then \in {"lost", "done"}
    /\ worker \in {"none", "running", "broken", "ended"}
    /\ ring \in Seq(Nat) /\ accumulated \in Seq(Nat) /\ denoiser \in Suppressors
    /\ inner \in Seq(Chunk) /\ outer \in Seq(Chunk) /\ delivered \in Seq(Chunk)
    /\ captured \in Nat /\ base \in Nat

(* While forward returns the stream is closed already, its worker is not joined yet. *)
Control == ReleasedWhenIdle /\ (pc = "closing" => ~stream)

Whole(s) == \E k \in Nat : Len(s) = k * ChunkSize

(* Without noise suppression nothing is held, with it whole chunks are; a partial *)
(* chunk is none; ring and channels keep to their capacity.                       *)
HeldInv ==
    /\ Whole(Held(denoiser)) /\ (~denoise => denoiser = Fresh)
    /\ Len(accumulated) < ChunkSize
    /\ Len(inner) <= QueueSize /\ Len(outer) <= QueueSize /\ Len(ring) <= RingSize

AtMost(s, n) == \A i \in 1 .. Len(s) : s[i] <= n

(* Chunks and then l in order, and of samples captured so far. *)
IsFlow(chunks, l, n) ==
    /\ InOrder(chunks, l)
    /\ \A i \in 1 .. Len(chunks) : AtMost(chunks[i], n)
    /\ AtMost(l, n)

FlowInv == IsFlow(Chunks, Loose, captured)

IInv == TypeOK /\ Control /\ HeldInv /\ FlowInv /\ NothingLostSilently

(***************************************************************************)
(* Sequences of samples.                                                   *)
(***************************************************************************)

(* The assumptions on the constants. *)
LEMMA Sizes ==
    /\ ChunkSize \in Nat /\ ChunkSize > 0 /\ FrameSize \in Nat /\ FrameSize > 0
    /\ QueueSize \in Nat /\ QueueSize > 0 /\ ReadSize \in Nat /\ ReadSize > 0
    /\ RingSize \in Nat /\ RingSize > 0
BY SuppressorAssumption, CaptureAssumption

(* Two sequences after one another: what is in the one or the other is there ... *)
LEMMA Joined ==
    ASSUME NEW x \in Seq(Nat), NEW y \in Seq(Nat)
    PROVE  /\ x \o y \in Seq(Nat) /\ Len(x \o y) = Len(x) + Len(y)
           /\ Len(x) \in Nat /\ Len(y) \in Nat
           /\ \A i \in 1 .. Len(x) :
                 i \in 1 .. Len(x \o y) /\ (x \o y)[i] = x[i] /\ x[i] \in Nat
           /\ \A i \in 1 .. Len(y) :
                 /\ Len(x) + i \in 1 .. Len(x \o y) /\ Len(x) + i \in Nat
                 /\ (x \o y)[Len(x) + i] = y[i] /\ y[i] \in Nat
OBVIOUS

(* ... and nothing else is. *)
LEMMA JoinedFrom ==
    ASSUME NEW x \in Seq(Nat), NEW y \in Seq(Nat), NEW i \in 1 .. Len(x \o y)
    PROVE  \/ i \in 1 .. Len(x) /\ (x \o y)[i] = x[i]
           \/ \E j \in 1 .. Len(y) : i = Len(x) + j /\ (x \o y)[i] = y[j]
<1>1. CASE i <= Len(x)
  BY <1>1
<1>2. CASE i > Len(x)
  <2> DEFINE j == i - Len(x)
  <2>1. j \in 1 .. Len(y) /\ i = Len(x) + j /\ (x \o y)[i] = y[j]
    BY <1>2
  <2> QED
    BY <2>1
<1> QED
  BY <1>1, <1>2

(* Concatenation associates. *)
LEMMA Associates ==
    ASSUME NEW x \in Seq(Nat), NEW y \in Seq(Nat), NEW z \in Seq(Nat)
    PROVE  (x \o y) \o z = x \o (y \o z)
BY ConcatProperties

(* Every element of l is before every one of x \o y when it is before both parts. *)
LEMMA PrecedesJoined ==
    ASSUME NEW l \in Seq(Nat), NEW x \in Seq(Nat), NEW y \in Seq(Nat)
    PROVE  /\ Precedes(l, x \o y) <=> Precedes(l, x) /\ Precedes(l, y)
           /\ Precedes(x \o y, l) <=> Precedes(x, l) /\ Precedes(y, l)
<1> DEFINE c == x \o y
<1>1. /\ \A i \in 1 .. Len(x) : i \in 1 .. Len(c) /\ c[i] = x[i]
      /\ \A i \in 1 .. Len(y) : Len(x) + i \in 1 .. Len(c) /\ c[Len(x) + i] = y[i]
  BY Joined
<1>2. \A i \in 1 .. Len(c) : (\E j \in 1 .. Len(x) : c[i] = x[j]) \/ (\E j \in 1 .. Len(y) : c[i] = y[j])
  BY JoinedFrom
<1> HIDE DEF c
<1>3. Precedes(l, c) => Precedes(l, x) /\ Precedes(l, y)
  <2> SUFFICES ASSUME Precedes(l, c) PROVE Precedes(l, x) /\ Precedes(l, y)
    OBVIOUS
  <2>1. Precedes(l, x)
    BY <1>1 DEF Precedes
  <2>2. ASSUME NEW i \in 1 .. Len(l), NEW j \in 1 .. Len(y), l[i] # 0, y[j] # 0
        PROVE  l[i] < y[j]
    <3>1. Len(x) + j \in 1 .. Len(c) /\ c[Len(x) + j] = y[j]
      BY <1>1
    <3> QED
      BY <2>2, <3>1 DEF Precedes
  <2> QED
    BY <2>1, <2>2 DEF Precedes
<1>4. Precedes(l, x) /\ Precedes(l, y) => Precedes(l, c)
  BY <1>2 DEF Precedes
<1>5. Precedes(c, l) => Precedes(x, l) /\ Precedes(y, l)
  <2> SUFFICES ASSUME Precedes(c, l) PROVE Precedes(x, l) /\ Precedes(y, l)
    OBVIOUS
  <2>1. Precedes(x, l)
    BY <1>1 DEF Precedes
  <2>2. ASSUME NEW i \in 1 .. Len(y), NEW j \in 1 .. Len(l), y[i] # 0, l[j] # 0
        PROVE  y[i] < l[j]
    <3>1. Len(x) + i \in 1 .. Len(c) /\ c[Len(x) + i] = y[i]
      BY <1>1
    <3> QED
      BY <2>2, <3>1 DEF Precedes
  <2> QED
    BY <2>1, <2>2 DEF Precedes
<1>6. Precedes(x, l) /\ Precedes(y, l) => Precedes(c, l)
  BY <1>2 DEF Precedes
<1> QED
  BY <1>3, <1>4, <1>5, <1>6 DEF c

(* Two rising sequences, the first before the second, rise together. *)
LEMMA RisesJoined ==
    ASSUME NEW x \in Seq(Nat), NEW y \in Seq(Nat)
    PROVE  Rises(x \o y) <=> Rises(x) /\ Rises(y) /\ Precedes(x, y)
<1> DEFINE c == x \o y
<1>1. /\ \A i \in 1 .. Len(x) : i \in 1 .. Len(c) /\ c[i] = x[i]
      /\ \A i \in 1 .. Len(y) : Len(x) + i \in 1 .. Len(c) /\ c[Len(x) + i] = y[i]
  BY Joined
<1>2. \A i \in 1 .. Len(c) : \/ i \in 1 .. Len(x) /\ c[i] = x[i]
                             \/ \E j \in 1 .. Len(y) : i = Len(x) + j /\ c[i] = y[j]
  BY JoinedFrom
<1>3. Len(x) \in Nat
  OBVIOUS
<1> HIDE DEF c
<1>4. ASSUME Rises(c)
      PROVE  Rises(x) /\ Rises(y) /\ Precedes(x, y)
  <2>1. Rises(x)
    <3> SUFFICES ASSUME NEW i \in 1 .. Len(x), NEW j \in 1 .. Len(x), i < j, x[i] # 0, x[j] # 0
                 PROVE  x[i] < x[j]
      BY DEF Rises
    <3>1. i \in 1 .. Len(c) /\ j \in 1 .. Len(c) /\ c[i] = x[i] /\ c[j] = x[j]
      BY <1>1
    <3> QED
      BY <1>4, <3>1 DEF Rises
  <2>2. Rises(y)
    <3> SUFFICES ASSUME NEW i \in 1 .. Len(y), NEW j \in 1 .. Len(y), i < j, y[i] # 0, y[j] # 0
                 PROVE  y[i] < y[j]
      BY DEF Rises
    <3>1. PICK a \in 1 .. Len(c) : a = Len(x) + i /\ c[a] = y[i]
      BY <1>1
    <3>2. PICK b \in 1 .. Len(c) : b = Len(x) + j /\ c[b] = y[j]
      BY <1>1
    <3>3. a < b
      BY <3>1, <3>2, <1>3
    <3> QED
      BY <1>4, <3>1, <3>2, <3>3 DEF Rises
  <2>3. Precedes(x, y)
    <3> SUFFICES ASSUME NEW i \in 1 .. Len(x), NEW j \in 1 .. Len(y), x[i] # 0, y[j] # 0
                 PROVE  x[i] < y[j]
      BY DEF Precedes
    <3>1. i \in 1 .. Len(c) /\ c[i] = x[i]
      BY <1>1
    <3>2. PICK b \in 1 .. Len(c) : b = Len(x) + j /\ c[b] = y[j]
      BY <1>1
    <3>3. i < b
      BY <3>2, <1>3
    <3> QED
      BY <1>4, <3>1, <3>2, <3>3 DEF Rises
  <2> QED
    BY <2>1, <2>2, <2>3
<1>5. ASSUME Rises(x), Rises(y), Precedes(x, y)
      PROVE  Rises(c)
  <2> SUFFICES ASSUME NEW i \in 1 .. Len(c), NEW j \in 1 .. Len(c), i < j, c[i] # 0, c[j] # 0
               PROVE  c[i] < c[j]
    BY DEF Rises
  <2>1. CASE j \in 1 .. Len(x) /\ c[j] = x[j]
    <3>1. i \in 1 .. Len(x) /\ c[i] = x[i]
      BY <2>1, <1>1, <1>3
    <3> QED
      BY <1>5, <2>1, <3>1 DEF Rises
  <2>2. CASE \E b \in 1 .. Len(y) : j = Len(x) + b /\ c[j] = y[b]
    <3>1. PICK b \in 1 .. Len(y) : j = Len(x) + b /\ c[j] = y[b]
      BY <2>2
    <3>2. CASE i \in 1 .. Len(x) /\ c[i] = x[i]
      BY <1>5, <3>1, <3>2 DEF Precedes
    <3>3. CASE \E a \in 1 .. Len(y) : i = Len(x) + a /\ c[i] = y[a]
      <4>1. PICK a \in 1 .. Len(y) : i = Len(x) + a /\ c[i] = y[a]
        BY <3>3
      <4>2. a < b
        BY <3>1, <4>1, <1>3
      <4> QED
        BY <1>5, <3>1, <4>1, <4>2 DEF Rises
    <3> QED
      BY <3>2, <3>3, <1>2
  <2> QED
    BY <2>1, <2>2, <1>2
<1> QED
  BY <1>4, <1>5 DEF c

(* A bound holds of both parts. *)
LEMMA AtMostJoined ==
    ASSUME NEW x \in Seq(Nat), NEW y \in Seq(Nat), NEW n \in Nat
    PROVE  AtMost(x \o y, n) <=> AtMost(x, n) /\ AtMost(y, n)
<1> DEFINE c == x \o y
<1>1. /\ \A i \in 1 .. Len(x) : i \in 1 .. Len(c) /\ c[i] = x[i]
      /\ \A i \in 1 .. Len(y) : Len(x) + i \in 1 .. Len(c) /\ c[Len(x) + i] = y[i]
  BY Joined
<1>2. \A i \in 1 .. Len(c) : (\E j \in 1 .. Len(x) : c[i] = x[j]) \/ (\E j \in 1 .. Len(y) : c[i] = y[j])
  BY JoinedFrom
<1> HIDE DEF c
<1>3. ASSUME AtMost(c, n)
      PROVE  AtMost(x, n) /\ AtMost(y, n)
  <2>1. AtMost(x, n)
    BY <1>1, <1>3 DEF AtMost
  <2>2. ASSUME NEW i \in 1 .. Len(y)
        PROVE  y[i] <= n
    <3>1. PICK a \in 1 .. Len(c) : c[a] = y[i]
      BY <1>1
    <3> QED
      BY <1>3, <3>1 DEF AtMost
  <2> QED
    BY <2>1, <2>2 DEF AtMost
<1>4. AtMost(x, n) /\ AtMost(y, n) => AtMost(c, n)
  BY <1>2 DEF AtMost
<1> QED
  BY <1>3, <1>4 DEF c

(* A sample is in one of the parts. *)
LEMMA ContainsJoined ==
    ASSUME NEW x \in Seq(Nat), NEW y \in Seq(Nat), NEW n \in Nat
    PROVE  Contains(x \o y, n) <=> Contains(x, n) \/ Contains(y, n)
<1>1. Contains(x \o y, n) => Contains(x, n) \/ Contains(y, n)
  BY JoinedFrom DEF Contains
<1>2. Contains(x, n) => Contains(x \o y, n)
  BY Joined DEF Contains
<1>3. ASSUME Contains(y, n)
      PROVE  Contains(x \o y, n)
  <2>1. PICK i \in 1 .. Len(y) : y[i] = n
    BY <1>3 DEF Contains
  <2>2. Len(x) + i \in 1 .. Len(x \o y) /\ (x \o y)[Len(x) + i] = y[i]
    BY Joined
  <2> QED
    BY <2>1, <2>2 DEF Contains
<1> QED
  BY <1>1, <1>2, <1>3

(***************************************************************************)
(* Cutting into chunks.                                                    *)
(***************************************************************************)

(* The place of sample p of chunk i in what the chunks are cut from. *)
Place(i, p) == (i - 1) * ChunkSize + p

(* Places follow each other, chunk by chunk. *)
LEMMA Places ==
    ASSUME NEW k \in Nat, NEW i \in 1 .. k, NEW p \in 1 .. ChunkSize
    PROVE  /\ Place(i, p) \in Nat /\ Place(i, p) >= 1 /\ Place(i, p) <= k * ChunkSize
           /\ \A q \in 1 .. ChunkSize : p < q => Place(i, p) < Place(i, q)
           /\ \A j \in 1 .. k, q \in 1 .. ChunkSize : i < j => Place(i, p) < Place(j, q)
<1> USE Sizes
<1>1. (i - 1) * ChunkSize \in Nat /\ i * ChunkSize \in Nat /\ i * ChunkSize = (i - 1) * ChunkSize + ChunkSize
  OBVIOUS
<1>2. i * ChunkSize <= k * ChunkSize
  OBVIOUS
<1>3. ASSUME NEW j \in 1 .. k, i < j
      PROVE  i * ChunkSize <= (j - 1) * ChunkSize /\ (j - 1) * ChunkSize \in Nat
  <2>1. i <= j - 1 /\ j - 1 \in Nat /\ i \in Nat
    BY <1>3
  <2> QED
    BY <2>1
<1>4. k * ChunkSize \in Nat
  OBVIOUS
<1> QED
  BY <1>1, <1>2, <1>3, <1>4 DEF Place

(* Every place in full chunks is one of a chunk. *)
LEMMA PlaceOf ==
    ASSUME NEW k \in Nat, NEW m \in 1 .. k * ChunkSize
    PROVE  \E i \in 1 .. k, p \in 1 .. ChunkSize : Place(i, p) = m
<1> USE Sizes
<1> DEFINE i == (m - 1) \div ChunkSize
           p == (m - 1) % ChunkSize
<1>1. m \in Nat /\ m - 1 \in Nat
  OBVIOUS
<1>2. i \in Nat /\ p \in 0 .. ChunkSize - 1 /\ m - 1 = i * ChunkSize + p
  BY <1>1
<1>3. i * ChunkSize < k * ChunkSize
  BY <1>2
<1>4. i < k
  <2> HIDE DEF i
  <2>1. SUFFICES ASSUME i >= k
                 PROVE  i * ChunkSize >= k * ChunkSize
    BY <1>2, <1>3
  <2> QED
    BY <2>1, <1>2
<1>5. i + 1 \in 1 .. k /\ p + 1 \in 1 .. ChunkSize
  BY <1>2, <1>4
<1>6. Place(i + 1, p + 1) = m
  BY <1>2 DEF Place
<1> QED
  BY <1>5, <1>6

(* How many full chunks there are in n samples. *)
LEMMA FullChunks ==
    ASSUME NEW n \in Nat, NEW c \in Nat, c > 0
    PROVE  /\ n \div c \in Nat /\ (n \div c) * c \in Nat
           /\ (n \div c) * c <= n /\ n < (n \div c) * c + c
           /\ (n \div c) * c # 0 => (n \div c) * c >= c
           /\ \A k \in Nat : n = k * c => n \div c = k
<1> DEFINE q == n \div c
<1>1. q \in Nat /\ n % c \in 0 .. c - 1 /\ n = q * c + (n % c)
  <2>1. q \in Nat /\ n % c \in 0 .. c - 1
    OBVIOUS
  <2>2. n = c * q + (n % c)
    OBVIOUS
  <2>3. c * q = q * c
    BY <2>1
  <2> QED
    BY <2>1, <2>2, <2>3
<1>2. q * c \in Nat
  BY <1>1
<1>3. ASSUME q * c # 0
      PROVE  q * c >= c
  <2> HIDE DEF q
  <2>1. q >= 1
    BY <1>1, <1>3
  <2> QED
    BY <1>1, <2>1
<1>4. ASSUME NEW k \in Nat, n = k * c
      PROVE  q = k
  <2> HIDE DEF q
  <2>1. q * c <= k * c /\ k * c < (q + 1) * c
    <3>1. (q + 1) * c = q * c + c
      BY <1>1
    <3> QED
      BY <3>1, <1>1, <1>4, <1>2
  <2>2. q <= k
    <3>1. SUFFICES ASSUME q >= k + 1
                   PROVE  q * c >= (k + 1) * c
      BY <2>1, <1>1
    <3> QED
      BY <3>1, <1>1
  <2>3. k <= q
    <3>1. SUFFICES ASSUME k >= q + 1
                   PROVE  k * c >= (q + 1) * c
      BY <2>1, <1>1
    <3> QED
      BY <3>1, <1>1
  <2> QED
    BY <2>2, <2>3, <1>1
<1> QED
  BY <1>1, <1>2, <1>3, <1>4

(* A multiple leaves nothing over. *)
LEMMA Multiples ==
    ASSUME NEW k \in Nat, NEW c \in Nat, c > 0
    PROVE  (k * c) % c = 0
<1> DEFINE n == k * c
<1>1. n \in Nat
  OBVIOUS
<1>2. n \div c = k
  BY <1>1, FullChunks
<1> HIDE DEF n
<1>3. n = c * (n \div c) + (n % c) /\ n % c \in 0 .. c - 1
  BY <1>1
<1>4. c * k = k * c
  OBVIOUS
<1>5. n = c * k + (n % c)
  BY <1>2, <1>3
<1>6. n = c * k
  BY <1>4 DEF n
<1>7. c * k \in Nat
  OBVIOUS
<1>8. n % c = 0
  BY <1>1, <1>3, <1>5, <1>6, <1>7
<1> QED
  BY <1>8 DEF n

(* The chunks are those of the places. *)
LEMMA BlocksAre ==
    ASSUME NEW s \in Seq(Nat)
    PROVE  /\ Blocks(s) \in Seq(Chunk) /\ Len(Blocks(s)) = Len(s) \div ChunkSize
           /\ Len(s) \div ChunkSize \in Nat
           /\ \A i \in 1 .. Len(Blocks(s)) :
                 /\ Blocks(s)[i] \in Seq(Nat) /\ Len(Blocks(s)[i]) = ChunkSize
                 /\ \A p \in 1 .. ChunkSize :
                       Place(i, p) \in 1 .. InBlocks(s) /\ Blocks(s)[i][p] = s[Place(i, p)]
<1> USE Sizes
<1> DEFINE k == Len(s) \div ChunkSize
<1>1. k \in Nat /\ k * ChunkSize <= Len(s) /\ k * ChunkSize \in Nat /\ InBlocks(s) = k * ChunkSize
  BY FullChunks DEF InBlocks
<1> HIDE DEF k
<1>2. ASSUME NEW i \in 1 .. k
      PROVE  /\ SubSeq(s, (i - 1) * ChunkSize + 1, i * ChunkSize) \in Chunk
             /\ SubSeq(s, (i - 1) * ChunkSize + 1, i * ChunkSize) \in Seq(Nat)
             /\ Len(SubSeq(s, (i - 1) * ChunkSize + 1, i * ChunkSize)) = ChunkSize
             /\ \A p \in 1 .. ChunkSize :
                   /\ Place(i, p) \in 1 .. k * ChunkSize
                   /\ SubSeq(s, (i - 1) * ChunkSize + 1, i * ChunkSize)[p] = s[Place(i, p)]
  <2> DEFINE a == (i - 1) * ChunkSize
             c == SubSeq(s, a + 1, i * ChunkSize)
  <2>1. a \in Nat /\ i * ChunkSize = a + ChunkSize /\ a + ChunkSize <= Len(s)
    <3>1. i * ChunkSize <= k * ChunkSize
      BY <1>1
    <3> QED
      BY <3>1, <1>1
  <2> HIDE DEF a
  <2>2. c \in Seq(Nat) /\ Len(c) = ChunkSize
    BY <2>1
  <2>3. ASSUME NEW p \in 1 .. ChunkSize
        PROVE  c[p] = s[a + p]
    BY <2>1
  <2>4. \A p \in 1 .. ChunkSize : Place(i, p) = a + p /\ Place(i, p) \in 1 .. k * ChunkSize
    BY <1>1, Places DEF Place, a
  <2>5. c \in Chunk
    <3>1. c \in [1 .. Len(c) -> Nat]
      <4> HIDE DEF c
      <4> QED
        BY <2>2
    <3> QED
      BY <2>2, <3>1 DEF Chunk
  <2> HIDE DEF c
  <2> QED
    BY <2>2, <2>3, <2>4, <2>5 DEF c, a
<1>3. Blocks(s) = [i \in 1 .. k |-> SubSeq(s, (i - 1) * ChunkSize + 1, i * ChunkSize)]
  BY DEF Blocks, k
<1>4. Blocks(s) \in Seq(Chunk) /\ Len(Blocks(s)) = k
  <2>1. \A i \in 1 .. k : SubSeq(s, (i - 1) * ChunkSize + 1, i * ChunkSize) \in Chunk
    BY <1>2
  <2> QED
    BY <2>1, <1>3, <1>1
<1> QED
  BY <1>1, <1>2, <1>3, <1>4 DEF k

(* What does not fill a chunk. *)
LEMMA RestIs ==
    ASSUME NEW s \in Seq(Nat)
    PROVE  /\ Rest(s) \in Seq(Nat) /\ InBlocks(s) \in Nat /\ InBlocks(s) <= Len(s)
           /\ Len(Rest(s)) = Len(s) - InBlocks(s) /\ Len(Rest(s)) < ChunkSize
           /\ \A i \in 1 .. Len(Rest(s)) :
                 InBlocks(s) + i \in 1 .. Len(s) /\ Rest(s)[i] = s[InBlocks(s) + i]
<1>1. InBlocks(s) \in Nat /\ InBlocks(s) <= Len(s) /\ Len(s) < InBlocks(s) + ChunkSize /\ Len(s) \in Nat
  BY Sizes, FullChunks DEF InBlocks
<1> DEFINE b == InBlocks(s)
           r == SubSeq(s, b + 1, Len(s))
<1> HIDE DEF b
<1>2. r \in Seq(Nat) /\ Len(r) = Len(s) - b
  BY <1>1 DEF b
<1>3. ASSUME NEW i \in 1 .. Len(s) - b
      PROVE  b + i \in 1 .. Len(s) /\ r[i] = s[b + i]
  BY <1>1 DEF b
<1>4. Len(s) - b < ChunkSize
  BY <1>1, Sizes DEF b
<1> HIDE DEF r
<1> QED
  BY <1>1, <1>2, <1>3, <1>4 DEF Rest, r, b

(* Samples of c, padding aside, are samples of s. *)
Within(c, s) == \A i \in 1 .. Len(c) : c[i] # 0 => \E j \in 1 .. Len(s) : s[j] = c[i]

(* What is within s is ordered with others, and bounded, as s is. *)
LEMMA WithinOrder ==
    ASSUME NEW c \in Seq(Nat), NEW s \in Seq(Nat), NEW l \in Seq(Nat), NEW n \in Nat, Within(c, s)
    PROVE  /\ Precedes(l, s) => Precedes(l, c)
           /\ Precedes(s, l) => Precedes(c, l)
           /\ AtMost(s, n) => AtMost(c, n)
<1>1. Precedes(l, s) => Precedes(l, c)
  BY DEF Precedes, Within
<1>2. Precedes(s, l) => Precedes(c, l)
  BY DEF Precedes, Within
<1>3. ASSUME AtMost(s, n), NEW i \in 1 .. Len(c)
      PROVE  c[i] <= n
  <2>1. CASE c[i] = 0
    BY <2>1
  <2>2. CASE c[i] # 0
    BY <1>3, <2>2 DEF Within, AtMost
  <2> QED
    BY <2>1, <2>2
<1> QED
  BY <1>1, <1>2, <1>3 DEF AtMost

(* A chunk is a sequence of samples. *)
LEMMA ChunkIsSeq ==
    ASSUME NEW c \in Chunk
    PROVE  c \in Seq(Nat) /\ Len(c) = ChunkSize
BY Sizes DEF Chunk

(* The chunks of s and its rest are within s, in its order. *)
LEMMA BlocksOrder ==
    ASSUME NEW s \in Seq(Nat)
    PROVE  /\ Within(Rest(s), s) /\ \A i \in 1 .. Len(Blocks(s)) : Within(Blocks(s)[i], s)
           /\ Rises(s) =>
                 /\ Rises(Rest(s))
                 /\ \A i \in 1 .. Len(Blocks(s)) :
                       Rises(Blocks(s)[i]) /\ Precedes(Blocks(s)[i], Rest(s))
                 /\ \A i, j \in 1 .. Len(Blocks(s)) :
                       i < j => Precedes(Blocks(s)[i], Blocks(s)[j])
<1> DEFINE b == Blocks(s)
           r == Rest(s)
           m == InBlocks(s)
<1>1. /\ m \in Nat /\ m <= Len(s) /\ Len(s) \in Nat /\ r \in Seq(Nat)
      /\ \A i \in 1 .. Len(r) : m + i \in 1 .. Len(s) /\ r[i] = s[m + i]
  BY RestIs
<1>2. \A i \in 1 .. Len(b) :
         /\ b[i] \in Seq(Nat) /\ Len(b[i]) = ChunkSize
         /\ \A p \in 1 .. ChunkSize : Place(i, p) \in 1 .. m /\ b[i][p] = s[Place(i, p)]
  BY BlocksAre
<1>3. Len(b) \in Nat
  BY BlocksAre
<1>4. \A i \in 1 .. Len(b), p \in 1 .. ChunkSize :
         /\ \A q \in 1 .. ChunkSize : p < q => Place(i, p) < Place(i, q)
         /\ \A j \in 1 .. Len(b), q \in 1 .. ChunkSize : i < j => Place(i, p) < Place(j, q)
  BY <1>3, Places
<1> HIDE DEF b, r, m
<1>5. 1 .. m \subseteq 1 .. Len(s)
  BY <1>1
<1>6. Within(r, s)
  BY <1>1 DEF Within
<1>7. ASSUME NEW i \in 1 .. Len(b)
      PROVE  Within(b[i], s)
  <2>1. Len(b[i]) = ChunkSize
    BY <1>2
  <2>2. ASSUME NEW p \in 1 .. ChunkSize
        PROVE  \E j \in 1 .. Len(s) : s[j] = b[i][p]
    <3>1. Place(i, p) \in 1 .. Len(s) /\ b[i][p] = s[Place(i, p)]
      BY <1>2, <1>5
    <3> QED
      BY <3>1
  <2> QED
    BY <2>1, <2>2 DEF Within
<1>8. ASSUME Rises(s)
      PROVE  /\ Rises(r)
             /\ \A i \in 1 .. Len(b) : Rises(b[i]) /\ Precedes(b[i], r)
             /\ \A i, j \in 1 .. Len(b) : i < j => Precedes(b[i], b[j])
  <2>1. ASSUME NEW i \in 1 .. Len(r), NEW j \in 1 .. Len(r), i < j, r[i] # 0, r[j] # 0
        PROVE  r[i] < r[j]
    <3>1. m + i < m + j
      BY <2>1, <1>1
    <3> QED
      BY <1>8, <2>1, <3>1, <1>1 DEF Rises
  <2>2. ASSUME NEW i \in 1 .. Len(b), NEW p \in 1 .. ChunkSize, NEW q \in 1 .. ChunkSize,
               p < q, b[i][p] # 0, b[i][q] # 0
        PROVE  b[i][p] < b[i][q]
    <3>1. Place(i, p) < Place(i, q)
      BY <2>2, <1>4
    <3>2. Place(i, p) \in 1 .. Len(s) /\ Place(i, q) \in 1 .. Len(s)
      BY <1>2, <1>5
    <3>3. b[i][p] = s[Place(i, p)] /\ b[i][q] = s[Place(i, q)]
      BY <1>2
    <3> QED
      BY <1>8, <2>2, <3>1, <3>2, <3>3 DEF Rises
  <2>3. ASSUME NEW i \in 1 .. Len(b), NEW p \in 1 .. ChunkSize, NEW j \in 1 .. Len(r),
               b[i][p] # 0, r[j] # 0
        PROVE  b[i][p] < r[j]
    <3>1. Place(i, p) \in 1 .. m /\ Place(i, p) \in 1 .. Len(s) /\ b[i][p] = s[Place(i, p)]
      BY <1>2, <1>5
    <3>2. PICK k \in 1 .. Len(s) : k = m + j /\ r[j] = s[k]
      BY <1>1
    <3>3. Place(i, p) < k
      BY <3>1, <3>2, <1>1
    <3> QED
      BY <1>8, <2>3, <3>1, <3>2, <3>3 DEF Rises
  <2>4. ASSUME NEW i \in 1 .. Len(b), NEW j \in 1 .. Len(b), i < j,
               NEW p \in 1 .. ChunkSize, NEW q \in 1 .. ChunkSize, b[i][p] # 0, b[j][q] # 0
        PROVE  b[i][p] < b[j][q]
    <3>1. Place(i, p) < Place(j, q)
      BY <2>4, <1>4
    <3>2. Place(i, p) \in 1 .. Len(s) /\ Place(j, q) \in 1 .. Len(s)
      BY <1>2, <1>5
    <3>3. b[i][p] = s[Place(i, p)] /\ b[j][q] = s[Place(j, q)]
      BY <1>2
    <3> QED
      BY <1>8, <2>4, <3>1, <3>2, <3>3 DEF Rises
  <2>5. \A i \in 1 .. Len(b) : Len(b[i]) = ChunkSize
    BY <1>2
  <2>6. Rises(r)
    BY <2>1 DEF Rises
  <2>7. \A i \in 1 .. Len(b) : Rises(b[i])
    BY <2>2, <2>5 DEF Rises
  <2>8. \A i \in 1 .. Len(b) : Precedes(b[i], r)
    BY <2>3, <2>5 DEF Precedes
  <2>9. \A i, j \in 1 .. Len(b) : i < j => Precedes(b[i], b[j])
    BY <2>4, <2>5 DEF Precedes
  <2> QED
    BY <2>6, <2>7, <2>8, <2>9
<1> QED
  BY <1>6, <1>7, <1>8 DEF b, r

(* No sample of s is neither in a chunk of it nor in its rest. *)
LEMMA BlocksContain ==
    ASSUME NEW s \in Seq(Nat), NEW n \in Nat, Contains(s, n)
    PROVE  Contains(Rest(s), n) \/ \E i \in 1 .. Len(Blocks(s)) : Contains(Blocks(s)[i], n)
<1> DEFINE m == InBlocks(s)
<1>1. PICK a \in 1 .. Len(s) : s[a] = n
  BY DEF Contains
<1>2. m \in Nat /\ a \in Nat /\ Len(s) \in Nat /\ Len(Rest(s)) = Len(s) - m
  BY RestIs
<1>3. CASE a <= m
  <2>1. m = (Len(s) \div ChunkSize) * ChunkSize /\ Len(s) \div ChunkSize \in Nat
    BY BlocksAre DEF InBlocks
  <2>2. a \in 1 .. (Len(s) \div ChunkSize) * ChunkSize
    BY <1>2, <1>3, <2>1
  <2>3. PICK i \in 1 .. Len(s) \div ChunkSize, p \in 1 .. ChunkSize : Place(i, p) = a
    BY <2>1, <2>2, PlaceOf
  <2>4. i \in 1 .. Len(Blocks(s)) /\ Len(Blocks(s)[i]) = ChunkSize /\ Blocks(s)[i][p] = s[a]
    BY <2>3, BlocksAre
  <2>5. Contains(Blocks(s)[i], n)
    BY <1>1, <2>4 DEF Contains
  <2> QED
    BY <2>4, <2>5
<1>4. CASE a > m
  <2> DEFINE j == a - m
  <2>1. j \in 1 .. Len(Rest(s)) /\ m + j = a
    BY <1>2, <1>4
  <2>2. Rest(s)[j] = n
    BY <1>1, <2>1, RestIs
  <2> QED
    BY <2>1, <2>2 DEF Contains
<1> QED
  BY <1>2, <1>3, <1>4

(* Padding adds no sample and takes none. *)
LEMMA PaddedIs ==
    ASSUME NEW a \in Seq(Nat), Len(a) <= ChunkSize
    PROVE  /\ Padded(a) \in Seq(Nat) /\ Padded(a) \in Chunk /\ Len(Padded(a)) = ChunkSize
           /\ Within(Padded(a), a) /\ (Rises(a) => Rises(Padded(a)))
<1> USE Sizes
<1> DEFINE c == Padded(a)
<1>1. /\ c \in Chunk
      /\ \A i \in 1 .. ChunkSize : IF i <= Len(a) THEN i \in 1 .. Len(a) /\ c[i] = a[i] ELSE c[i] = 0
  BY DEF Padded, Chunk
<1> HIDE DEF c
<1>2. c \in Seq(Nat) /\ Len(c) = ChunkSize
  BY <1>1, ChunkIsSeq
<1>3. \A i \in 1 .. Len(c) : c[i] # 0 => i \in 1 .. Len(a) /\ c[i] = a[i]
  BY <1>1, <1>2
<1>4. Within(c, a)
  BY <1>3 DEF Within
<1>5. Rises(a) => Rises(c)
  BY <1>3 DEF Rises
<1> QED
  BY <1>1, <1>2, <1>4, <1>5 DEF c

(***************************************************************************)
(* Chunks and what follows them.                                           *)
(***************************************************************************)

(* What follows the chunks can be seen as two parts. *)
LEMMA FlowParts ==
    ASSUME NEW cs \in Seq(Chunk), NEW x \in Seq(Nat), NEW y \in Seq(Nat), NEW n \in Nat
    PROVE  IsFlow(cs, x \o y, n) <=> IsFlow(cs, x, n) /\ IsFlow(cs, y, n) /\ Precedes(x, y)
<1>1. \A i \in 1 .. Len(cs) : cs[i] \in Seq(Nat)
  BY ChunkIsSeq
<1>2. \A i \in 1 .. Len(cs) :
         Precedes(cs[i], x \o y) <=> Precedes(cs[i], x) /\ Precedes(cs[i], y)
  BY <1>1, PrecedesJoined
<1> QED
  BY <1>2, RisesJoined, AtMostJoined DEF IsFlow, InOrder

(* Chunks picked in their order are in order, with fewer of what followed or not. *)
LEMMA FlowPicked ==
    ASSUME NEW cs \in Seq(Chunk), NEW ds \in Seq(Chunk), NEW l \in Seq(Nat), NEW n \in Nat,
           IsFlow(cs, l, n), NEW e \in [1 .. Len(ds) -> 1 .. Len(cs)],
           \A i \in 1 .. Len(ds) : ds[i] = cs[e[i]],
           \A i, j \in 1 .. Len(ds) : i < j => e[i] < e[j]
    PROVE  IsFlow(ds, l, n)
<1>1. \A i \in 1 .. Len(ds) : e[i] \in 1 .. Len(cs)
  OBVIOUS
<1> QED
  BY <1>1 DEF IsFlow, InOrder

(* Two sequences of chunks after one another. *)
LEMMA ChunksJoined ==
    ASSUME NEW a \in Seq(Chunk), NEW b \in Seq(Chunk)
    PROVE  /\ a \o b \in Seq(Chunk) /\ Len(a \o b) = Len(a) + Len(b)
           /\ Len(a) \in Nat /\ Len(b) \in Nat
           /\ \A i \in 1 .. Len(a) : i \in 1 .. Len(a \o b) /\ (a \o b)[i] = a[i]
           /\ \A i \in 1 .. Len(b) : Len(a) + i \in 1 .. Len(a \o b) /\ (a \o b)[Len(a) + i] = b[i]
           /\ \A i \in 1 .. Len(a \o b) :
                 \/ i \in 1 .. Len(a) /\ (a \o b)[i] = a[i]
                 \/ \E j \in 1 .. Len(b) : i = Len(a) + j /\ (a \o b)[i] = b[j]
<1>1. /\ a \o b \in Seq(Chunk) /\ Len(a \o b) = Len(a) + Len(b) /\ Len(a) \in Nat /\ Len(b) \in Nat
      /\ \A i \in 1 .. Len(a) + Len(b) :
            (a \o b)[i] = IF i <= Len(a) THEN a[i] ELSE b[i - Len(a)]
  BY ConcatProperties
<1>2. \A i \in 1 .. Len(b) : Len(a) + i - Len(a) = i /\ ~(Len(a) + i <= Len(a))
  BY <1>1
<1>3. ASSUME NEW i \in 1 .. Len(a) + Len(b), i > Len(a)
      PROVE  \E j \in 1 .. Len(b) : i = Len(a) + j /\ (a \o b)[i] = b[j]
  <2>1. i - Len(a) \in 1 .. Len(b) /\ i = Len(a) + (i - Len(a)) /\ (a \o b)[i] = b[i - Len(a)]
    BY <1>1, <1>3
  <2> QED
    BY <2>1
<1> QED
  BY <1>1, <1>2, <1>3

LEMMA ChunksAssociate ==
    ASSUME NEW a \in Seq(Chunk), NEW b \in Seq(Chunk), NEW c \in Seq(Chunk)
    PROVE  (a \o b) \o c = a \o (b \o c)
BY ConcatAssociative

(* Only the first chunks of b go in. *)
LEMMA FlowPrefix ==
    ASSUME NEW a \in Seq(Chunk), NEW b \in Seq(Chunk), NEW l \in Seq(Nat), NEW n \in Nat,
           IsFlow(a \o b, l, n), NEW k \in Nat, k <= Len(b)
    PROVE  SubSeq(b, 1, k) \in Seq(Chunk) /\ IsFlow(a \o SubSeq(b, 1, k), l, n)
<1> DEFINE c == SubSeq(b, 1, k)
           d == a \o c
           e == [i \in 1 .. Len(d) |-> i]
<1>1. c \in Seq(Chunk) /\ Len(c) = k /\ \A i \in 1 .. k : c[i] = b[i]
  OBVIOUS
<1> HIDE DEF c
<1>2. d \in Seq(Chunk) /\ Len(d) = Len(a) + k /\ Len(a) \in Nat /\ Len(b) \in Nat /\ Len(a \o b) = Len(a) + Len(b)
      /\ a \o b \in Seq(Chunk)
  BY <1>1, ChunksJoined
<1>3. \A i \in 1 .. Len(d) : i \in 1 .. Len(a \o b)
  BY <1>2
<1>4. ASSUME NEW i \in 1 .. Len(d)
      PROVE  d[i] = (a \o b)[i]
  <2>1. CASE i \in 1 .. Len(a) /\ d[i] = a[i]
    BY <2>1, ChunksJoined
  <2>2. CASE \E j \in 1 .. Len(c) : i = Len(a) + j /\ d[i] = c[j]
    <3>1. PICK j \in 1 .. Len(c) : i = Len(a) + j /\ d[i] = c[j]
      BY <2>2
    <3>2. j \in 1 .. Len(b) /\ c[j] = b[j]
      BY <1>1, <1>2
    <3> QED
      BY <3>1, <3>2, ChunksJoined
  <2> QED
    BY <2>1, <2>2, <1>1, ChunksJoined
<1> HIDE DEF d
<1>5. e \in [1 .. Len(d) -> 1 .. Len(a \o b)] /\ \A i \in 1 .. Len(d) : e[i] = i
  BY <1>3
<1> HIDE DEF e
<1>6. IsFlow(d, l, n)
  <2>1. /\ \A i \in 1 .. Len(d) : d[i] = (a \o b)[e[i]]
        /\ \A i, j \in 1 .. Len(d) : i < j => e[i] < e[j]
    BY <1>4, <1>5
  <2> QED
    BY <2>1, <1>2, <1>5, FlowPicked
<1> QED
  BY <1>1, <1>6 DEF c, d

(* The first chunk of b is taken out. *)
LEMMA FlowWithout ==
    ASSUME NEW a \in Seq(Chunk), NEW b \in Seq(Chunk), b # <<>>, NEW l \in Seq(Nat), NEW n \in Nat,
           IsFlow(a \o b, l, n)
    PROVE  IsFlow(a \o Tail(b), l, n)
<1> DEFINE c == Tail(b)
           d == a \o c
           e == [i \in 1 .. Len(d) |-> IF i <= Len(a) THEN i ELSE i + 1]
<1>1. c \in Seq(Chunk) /\ Len(c) = Len(b) - 1 /\ Len(b) >= 1 /\ \A i \in 1 .. Len(c) : c[i] = b[i + 1]
  OBVIOUS
<1> HIDE DEF c
<1>2. /\ d \in Seq(Chunk) /\ Len(d) = Len(a) + Len(b) - 1 /\ Len(a) \in Nat /\ Len(b) \in Nat
      /\ Len(a \o b) = Len(a) + Len(b) /\ a \o b \in Seq(Chunk)
  BY <1>1, ChunksJoined
<1>3. ASSUME NEW i \in 1 .. Len(d)
      PROVE  e[i] \in 1 .. Len(a \o b) /\ d[i] = (a \o b)[e[i]]
  <2>1. CASE i \in 1 .. Len(a) /\ d[i] = a[i]
    <3>1. e[i] = i
      BY <2>1
    <3> QED
      BY <2>1, <3>1, ChunksJoined
  <2>2. CASE \E j \in 1 .. Len(c) : i = Len(a) + j /\ d[i] = c[j]
    <3>1. PICK j \in 1 .. Len(c) : i = Len(a) + j /\ d[i] = c[j]
      BY <2>2
    <3>2. j + 1 \in 1 .. Len(b) /\ c[j] = b[j + 1]
      BY <1>1, <1>2
    <3>3. e[i] = Len(a) + (j + 1)
      BY <3>1, <1>2
    <3>4. Len(a) + (j + 1) \in 1 .. Len(a \o b) /\ (a \o b)[Len(a) + (j + 1)] = b[j + 1]
      BY <3>2, ChunksJoined
    <3> QED
      BY <3>1, <3>2, <3>3, <3>4
  <2>3. \/ i \in 1 .. Len(a) /\ d[i] = a[i]
        \/ \E j \in 1 .. Len(c) : i = Len(a) + j /\ d[i] = c[j]
    BY <1>1, ChunksJoined
  <2> QED
    BY <2>1, <2>2, <2>3
<1>4. \A i, j \in 1 .. Len(d) : i < j => e[i] < e[j]
  BY <1>2
<1> HIDE DEF d
<1>5. e \in [1 .. Len(d) -> 1 .. Len(a \o b)]
  BY <1>3
<1> HIDE DEF e
<1>6. IsFlow(d, l, n)
  BY <1>2, <1>3, <1>4, <1>5, FlowPicked
<1> QED
  BY <1>6 DEF c, d

(* Full chunks are cut from the front of what follows. *)
LEMMA FlowCut ==
    ASSUME NEW cs \in Seq(Chunk), NEW s \in Seq(Nat), NEW y \in Seq(Nat), NEW n \in Nat,
           IsFlow(cs, s \o y, n)
    PROVE  IsFlow(cs \o Blocks(s), Rest(s) \o y, n)
<1> DEFINE b == Blocks(s)
           r == Rest(s)
           c == cs \o b
<1>1. IsFlow(cs, s, n) /\ IsFlow(cs, y, n) /\ Precedes(s, y)
  BY FlowParts
<1>2. b \in Seq(Chunk) /\ r \in Seq(Nat) /\ \A i \in 1 .. Len(b) : b[i] \in Seq(Nat)
  BY BlocksAre, RestIs
<1>3. \A i \in 1 .. Len(cs) : cs[i] \in Seq(Nat)
  BY ChunkIsSeq
<1>4. Within(r, s) /\ \A i \in 1 .. Len(b) : Within(b[i], s)
  BY BlocksOrder
<1>5. Rises(s) /\ AtMost(s, n)
  BY <1>1 DEF IsFlow, InOrder
<1>6. /\ Rises(r) /\ \A i \in 1 .. Len(b) : Rises(b[i]) /\ Precedes(b[i], r)
      /\ \A i, j \in 1 .. Len(b) : i < j => Precedes(b[i], b[j])
  BY <1>5, BlocksOrder
<1> HIDE DEF b, r
<1>7. \A i \in 1 .. Len(b) : Precedes(b[i], y) /\ AtMost(b[i], n)
  BY <1>1, <1>2, <1>4, <1>5, WithinOrder
<1>8. Precedes(r, y) /\ AtMost(r, n)
  BY <1>1, <1>2, <1>4, <1>5, WithinOrder
<1>9. \A i \in 1 .. Len(cs) : Precedes(cs[i], s)
  BY <1>1 DEF IsFlow, InOrder
<1>10. \A i \in 1 .. Len(cs) : Precedes(cs[i], r) /\ \A j \in 1 .. Len(b) : Precedes(cs[i], b[j])
  BY <1>2, <1>3, <1>4, <1>9, WithinOrder
<1>11. /\ c \in Seq(Chunk) /\ Len(cs) \in Nat
       /\ \A i \in 1 .. Len(c) : \/ i \in 1 .. Len(cs) /\ c[i] = cs[i]
                               \/ \E j \in 1 .. Len(b) : i = Len(cs) + j /\ c[i] = b[j]
  BY <1>2, ChunksJoined
<1> HIDE DEF c
<1>12. \A i \in 1 .. Len(cs) : Rises(cs[i]) /\ Precedes(cs[i], y) /\ AtMost(cs[i], n)
  BY <1>1 DEF IsFlow, InOrder
<1>13. \A i, j \in 1 .. Len(cs) : i < j => Precedes(cs[i], cs[j])
  BY <1>1 DEF IsFlow, InOrder
<1>14. \A i \in 1 .. Len(c) : Rises(c[i]) /\ Precedes(c[i], y) /\ Precedes(c[i], r) /\ AtMost(c[i], n)
  BY <1>6, <1>7, <1>10, <1>11, <1>12
<1>15. ASSUME NEW i \in 1 .. Len(c), NEW j \in 1 .. Len(c), i < j
       PROVE  Precedes(c[i], c[j])
  <2>1. CASE j \in 1 .. Len(cs) /\ c[j] = cs[j]
    <3>1. i \in 1 .. Len(cs) /\ c[i] = cs[i]
      BY <1>11, <1>15, <2>1
    <3> QED
      BY <1>13, <1>15, <2>1, <3>1
  <2>2. CASE \E q \in 1 .. Len(b) : j = Len(cs) + q /\ c[j] = b[q]
    <3>1. PICK q \in 1 .. Len(b) : j = Len(cs) + q /\ c[j] = b[q]
      BY <2>2
    <3>2. CASE i \in 1 .. Len(cs) /\ c[i] = cs[i]
      BY <1>10, <3>1, <3>2
    <3>3. CASE \E p \in 1 .. Len(b) : i = Len(cs) + p /\ c[i] = b[p]
      <4>1. PICK p \in 1 .. Len(b) : i = Len(cs) + p /\ c[i] = b[p]
        BY <3>3
      <4>2. p < q
        BY <1>11, <1>15, <3>1, <4>1
      <4> QED
        BY <1>6, <3>1, <4>1, <4>2
    <3> QED
      BY <3>2, <3>3, <1>11
  <2> QED
    BY <2>1, <2>2, <1>11
<1>16. IsFlow(c, r, n)
  BY <1>6, <1>8, <1>14, <1>15 DEF IsFlow, InOrder
<1>17. IsFlow(c, y, n)
  BY <1>1, <1>14, <1>15 DEF IsFlow, InOrder
<1> QED
  BY <1>2, <1>8, <1>11, <1>16, <1>17, FlowParts DEF b, r, c

(* A partial chunk in the middle is filled up. *)
LEMMA FlowPadded ==
    ASSUME NEW cs \in Seq(Chunk), NEW x \in Seq(Nat), NEW a \in Seq(Nat), NEW y \in Seq(Nat),
           NEW n \in Nat, IsFlow(cs, x \o (a \o y), n), Len(a) <= ChunkSize
    PROVE  IsFlow(cs, x \o (Padded(a) \o y), n)
<1> DEFINE c == Padded(a)
<1>1. c \in Seq(Nat) /\ Within(c, a) /\ (Rises(a) => Rises(c))
  BY PaddedIs
<1>2. IsFlow(cs, x, n) /\ IsFlow(cs, a \o y, n) /\ Precedes(x, a \o y) /\ a \o y \in Seq(Nat)
  BY Joined, FlowParts
<1>3. IsFlow(cs, a, n) /\ IsFlow(cs, y, n) /\ Precedes(a, y) /\ Precedes(x, a) /\ Precedes(x, y)
  BY <1>2, FlowParts, PrecedesJoined
<1> HIDE DEF c
<1>4. \A i \in 1 .. Len(cs) : cs[i] \in Seq(Nat)
  BY ChunkIsSeq
<1>5. Precedes(x, c) /\ Precedes(c, y)
  BY <1>1, <1>3, WithinOrder
<1>6. AtMost(c, n) /\ Rises(c)
  BY <1>1, <1>3, WithinOrder DEF IsFlow, InOrder
<1>7. \A i \in 1 .. Len(cs) : Precedes(cs[i], c)
  <2>1. \A i \in 1 .. Len(cs) : Precedes(cs[i], a)
    BY <1>3 DEF IsFlow, InOrder
  <2> QED
    BY <2>1, <1>1, <1>4, WithinOrder
<1>8. IsFlow(cs, c, n)
  BY <1>3, <1>6, <1>7 DEF IsFlow, InOrder
<1>9. IsFlow(cs, c \o y, n) /\ Precedes(x, c \o y) /\ c \o y \in Seq(Nat)
  BY <1>1, <1>3, <1>5, <1>8, FlowParts, PrecedesJoined, Joined
<1> QED
  BY <1>2, <1>9, FlowParts DEF c

(* A newly captured sample comes after all others. *)
LEMMA FlowCaptured ==
    ASSUME NEW cs \in Seq(Chunk), NEW l \in Seq(Nat), NEW n \in Nat, IsFlow(cs, l, n)
    PROVE  IsFlow(cs, l, n + 1) /\ IsFlow(cs, l \o <<n + 1>>, n + 1)
<1> DEFINE x == <<n + 1>>
<1>1. x \in Seq(Nat) /\ Len(x) = 1 /\ x[1] = n + 1
  OBVIOUS
<1> HIDE DEF x
<1>2. \A c \in Seq(Nat) : AtMost(c, n) => AtMost(c, n + 1) /\ Precedes(c, x)
  BY <1>1 DEF AtMost, Precedes
<1>3. \A i \in 1 .. Len(cs) : cs[i] \in Seq(Nat)
  BY ChunkIsSeq
<1>4. Rises(x) /\ AtMost(x, n + 1)
  BY <1>1 DEF Rises, AtMost
<1>5. IsFlow(cs, l, n + 1)
  BY <1>2, <1>3 DEF IsFlow
<1>6. IsFlow(cs, x, n + 1)
  BY <1>2, <1>3, <1>4 DEF IsFlow, InOrder
<1>7. Precedes(l, x)
  BY <1>2 DEF IsFlow
<1>8. IsFlow(cs, l \o x, n + 1)
  BY <1>1, <1>5, <1>6, <1>7, FlowParts
<1> QED
  BY <1>5, <1>8 DEF x

(* Cutting full chunks loses no sample. *)
LEMMA HasCut ==
    ASSUME NEW cs \in Seq(Chunk), NEW s \in Seq(Nat), NEW y \in Seq(Nat), NEW n \in Nat,
           Has(cs, s \o y, n)
    PROVE  Has(cs \o Blocks(s), Rest(s) \o y, n)
<1> DEFINE b == Blocks(s)
           r == Rest(s)
           c == cs \o b
<1>1. b \in Seq(Chunk) /\ r \in Seq(Nat)
  BY BlocksAre, RestIs
<1>2. /\ \A i \in 1 .. Len(cs) : i \in 1 .. Len(c) /\ c[i] = cs[i]
      /\ \A i \in 1 .. Len(b) : Len(cs) + i \in 1 .. Len(c) /\ c[Len(cs) + i] = b[i]
  BY <1>1, ChunksJoined
<1> HIDE DEF c
<1>3. CASE \E i \in 1 .. Len(cs) : Contains(cs[i], n)
  BY <1>2, <1>3 DEF Has, c
<1>4. CASE Contains(y, n)
  BY <1>1, <1>4, ContainsJoined DEF Has
<1>5. CASE Contains(s, n)
  <2>1. CASE Contains(r, n)
    BY <1>1, <2>1, ContainsJoined DEF Has
  <2>2. CASE \E i \in 1 .. Len(b) : Contains(b[i], n)
    <3>1. PICK i \in 1 .. Len(b) : Contains(b[i], n)
      BY <2>2
    <3>2. PICK j \in 1 .. Len(c) : c[j] = b[i]
      BY <1>2
    <3> QED
      BY <3>1, <3>2 DEF Has, c
  <2> QED
    BY <1>5, <2>1, <2>2, BlocksContain
<1> QED
  BY <1>3, <1>4, <1>5, ContainsJoined DEF Has

(* A newly captured sample is there, and no other goes. *)
LEMMA HasCaptured ==
    ASSUME NEW cs, NEW l \in Seq(Nat), NEW n \in Nat
    PROVE  /\ Has(cs, l \o <<n>>, n)
           /\ \A k \in Nat : Has(cs, l, k) => Has(cs, l \o <<n>>, k)
<1> DEFINE x == <<n>>
<1>1. x \in Seq(Nat) /\ Len(x) = 1 /\ x[1] = n
  OBVIOUS
<1> HIDE DEF x
<1>2. Contains(x, n)
  BY <1>1 DEF Contains
<1>3. Has(cs, l \o x, n)
  BY <1>1, <1>2, ContainsJoined DEF Has
<1>4. \A k \in Nat : Has(cs, l, k) => Has(cs, l \o x, k)
  BY <1>1, ContainsJoined DEF Has
<1> QED
  BY <1>3, <1>4 DEF x

(***************************************************************************)
(* The noise suppressor.                                                   *)
(***************************************************************************)

(* Of whole chunks nothing is left over. *)
LEMMA WholeIs ==
    ASSUME NEW s \in Seq(Nat), Whole(s)
    PROVE  Rest(s) = <<>> /\ InBlocks(s) = Len(s)
<1>1. PICK k \in Nat : Len(s) = k * ChunkSize
  BY DEF Whole
<1>2. Len(s) \in Nat /\ Len(s) \div ChunkSize = k
  BY <1>1, Sizes, FullChunks
<1>3. InBlocks(s) = Len(s)
  BY <1>1, <1>2 DEF InBlocks
<1>4. Rest(s) \in Seq(Nat) /\ Len(Rest(s)) = 0
  BY <1>2, <1>3, RestIs
<1> QED
  BY <1>3, <1>4

(* Joining whole chunks and taking them away. *)
LEMMA WholeJoined ==
    ASSUME NEW x \in Seq(Nat), NEW y \in Seq(Nat)
    PROVE  /\ Whole(x) /\ Whole(y) => Whole(x \o y)
           /\ Whole(x) /\ Whole(x \o y) => Whole(y)
<1> USE Sizes
<1>1. Len(x \o y) = Len(x) + Len(y) /\ Len(x) \in Nat /\ Len(y) \in Nat
  BY Joined
<1>2. ASSUME Whole(x), Whole(y)
      PROVE  Whole(x \o y)
  <2>1. PICK k \in Nat : Len(x) = k * ChunkSize
    BY <1>2 DEF Whole
  <2>2. PICK m \in Nat : Len(y) = m * ChunkSize
    BY <1>2 DEF Whole
  <2>3. k + m \in Nat /\ (k + m) * ChunkSize = k * ChunkSize + m * ChunkSize
    OBVIOUS
  <2> QED
    BY <1>1, <2>1, <2>2, <2>3 DEF Whole
<1>3. ASSUME Whole(x), Whole(x \o y)
      PROVE  Whole(y)
  <2>1. PICK k \in Nat : Len(x) = k * ChunkSize
    BY <1>3 DEF Whole
  <2>2. PICK m \in Nat : Len(x \o y) = m * ChunkSize
    BY <1>3 DEF Whole
  <2>3. k * ChunkSize <= m * ChunkSize
    BY <1>1, <2>1, <2>2
  <2>4. k <= m
    <3>1. SUFFICES ASSUME k >= m + 1
                   PROVE  k * ChunkSize >= m * ChunkSize + ChunkSize
      BY <2>3
    <3>2. (m + 1) * ChunkSize = m * ChunkSize + ChunkSize
      OBVIOUS
    <3> QED
      BY <3>1, <3>2
  <2>5. m - k \in Nat /\ (m - k) * ChunkSize = m * ChunkSize - k * ChunkSize
    BY <2>4
  <2>6. Len(y) = (m - k) * ChunkSize
    BY <1>1, <2>1, <2>2, <2>5
  <2> QED
    BY <2>5, <2>6 DEF Whole
<1> QED
  BY <1>2, <1>3

(* A sequence is its beginning and its end. *)
LEMMA Split ==
    ASSUME NEW s \in Seq(Nat), NEW n \in Nat, n <= Len(s)
    PROVE  /\ SubSeq(s, 1, n) \in Seq(Nat) /\ Len(SubSeq(s, 1, n)) = n
           /\ SubSeq(s, n + 1, Len(s)) \in Seq(Nat)
           /\ s = SubSeq(s, 1, n) \o SubSeq(s, n + 1, Len(s))
<1>1. /\ SubSeq(s, 1, n) \in Seq(Nat) /\ Len(SubSeq(s, 1, n)) = n
      /\ SubSeq(s, n + 1, Len(s)) \in Seq(Nat)
  OBVIOUS
<1>2. Len(s) \in Nat /\ 1 \in 1 .. Len(s) + 1 /\ n \in 1 - 1 .. Len(s) /\ Len(s) \in n .. Len(s)
  OBVIOUS
<1>3. SubSeq(s, 1, n) \o SubSeq(s, n + 1, Len(s)) = SubSeq(s, 1, Len(s))
  BY <1>2, ConcatAdjacentSubSeq
<1>4. SubSeq(s, 1, Len(s)) = s
  BY SubSeqFull
<1> QED
  BY <1>1, <1>3, <1>4

(* What the pending and the filling frame hold and what is fed comes out in    *)
(* its order: first what is released, then what is pending and the next frame. *)
LEMMA ReleasedFirst ==
    ASSUME NEW d \in Suppressors, NEW s \in Seq(Nat)
    PROVE  /\ Released(d, s) \in Seq(Nat)
           /\ Process(d, s).pending \in Seq(Nat) /\ Process(d, s).frame \in Seq(Nat)
           /\ d.pending \o (d.frame \o s)
                 = Released(d, s) \o (Process(d, s).pending \o Process(d, s).frame)
<1> USE Sizes
<1> DEFINE fed == d.frame \o s
           n == InFrames(d, s)
           m == n - FrameSize
           old == d.pending
           rest == SubSeq(fed, n + 1, Len(fed))
           start == SubSeq(fed, 1, n)
<1>1. d.frame \in Seq(Nat) /\ old \in Seq(Nat) /\ d.staging \in Seq(Nat)
  BY DEF Suppressors
<1>2. fed \in Seq(Nat) /\ Len(fed) \in Nat
  BY <1>1, Joined
<1> HIDE DEF fed, old
<1>3. n \in Nat /\ n <= Len(fed) /\ (n # 0 => n >= FrameSize)
  BY <1>2, FullChunks DEF InFrames, fed
<1> HIDE DEF n
<1>4. /\ start \in Seq(Nat) /\ Len(start) = n /\ rest \in Seq(Nat)
      /\ fed = start \o rest
  BY <1>2, <1>3, Split
<1>5. /\ Process(d, s).frame = rest
      /\ Process(d, s).pending = IF n = 0 THEN old ELSE SubSeq(fed, m + 1, n)
      /\ Released(d, s) = IF n = 0 THEN <<>>
                          ELSE SubSeq(old \o start, 1, Len(old \o start) - FrameSize)
  BY DEF Process, Released, fed, n, old
<1>6. CASE n = 0
  <2>1. start = <<>> /\ fed = rest
    BY <1>4, <1>6
  <2>2. <<>> \o (old \o rest) = old \o rest
    BY <1>1, <1>4
  <2> QED
    BY <1>1, <1>4, <1>5, <1>6, <2>1, <2>2 DEF old, fed
<1>7. CASE n # 0
  <2> DEFINE front == SubSeq(start, 1, m)
             next == SubSeq(fed, m + 1, n)
             all == old \o start
  <2> HIDE DEF start, rest
  <2>1. m \in Nat /\ m <= n /\ n - m = FrameSize
    BY <1>3, <1>7
  <2>2. front \in Seq(Nat) /\ Len(front) = m /\ start = front \o SubSeq(start, m + 1, n)
    BY <1>4, <2>1, Split
  <2>3. SubSeq(start, m + 1, n) = next /\ next \in Seq(Nat)
    BY <1>2, <1>3, <1>4, <2>1 DEF start
  <2>4. all \in Seq(Nat) /\ Len(all) = Len(old) + n /\ Len(old) \in Nat
    BY <1>1, <1>4, Joined
  <2> HIDE DEF front, next, m
  <2>5. /\ all = (old \o front) \o next /\ old \o front \in Seq(Nat)
        /\ Len(old \o front) = Len(old) + m
    <3>1. start = front \o next
      BY <2>2, <2>3
    <3>2. (old \o front) \o next = old \o (front \o next)
      <4>1. old \in Seq(Nat) /\ front \in Seq(Nat) /\ next \in Seq(Nat)
        BY <1>1, <2>2, <2>3
      <4> QED
        BY <4>1, Associates
    <3>3. old \o front \in Seq(Nat) /\ Len(old \o front) = Len(old) + m
      BY <1>1, <2>2, Joined
    <3> QED
      BY <3>1, <3>2, <3>3, Zenon
  <2>6. Released(d, s) = old \o front
    <3> DEFINE x == old \o front
    <3>1. x \in Seq(Nat) /\ all = x \o next /\ Len(x) = Len(old) + m
      BY <2>5
    <3> HIDE DEF x, all
    <3>2. Len(all) - FrameSize = Len(x)
      <4>1. Len(all) = Len(old) + n /\ Len(x) = Len(old) + m /\ Len(old) \in Nat
        BY <2>4, <3>1 DEF all
      <4> QED
        BY <4>1, <2>1, <1>3
    <3>3. SubSeq(all, 1, Len(x)) = x
      BY <3>1, <2>3
    <3> QED
      BY <1>5, <1>7, <3>2, <3>3 DEF x, all
  <2>7. old \o fed = (old \o front) \o (next \o rest)
    <3>1. old \o (start \o rest) = (old \o start) \o rest
      BY <1>1, <1>4, Associates
    <3>2. ((old \o front) \o next) \o rest = (old \o front) \o (next \o rest)
      BY <2>5, <2>3, <1>4, Associates
    <3> QED
      BY <1>4, <2>5, <3>1, <3>2, Zenon
  <2> QED
    BY <1>4, <1>5, <1>7, <2>3, <2>5, <2>6, <2>7 DEF old, fed, next, m
<1> QED
  BY <1>6, <1>7

(* What is held, and what is fed, is cut in the same way as without noise suppression. *)
LEMMA FedIs ==
    ASSUME NEW d \in Suppressors, NEW s \in Seq(Nat)
    PROVE  /\ Process(d, s) \in Suppressors /\ Held(d) \in Seq(Nat) /\ Held(Process(d, s)) \in Seq(Nat)
           /\ d.staging \o Released(d, s) \in Seq(Nat)
           /\ \E y \in Seq(Nat) :
                 /\ Held(d) \o s = (d.staging \o Released(d, s)) \o y
                 /\ Held(Process(d, s)) = Rest(d.staging \o Released(d, s)) \o y
<1> DEFINE P == Process(d, s)
           y == P.pending \o P.frame
           r == Released(d, s)
           g == d.staging
           p == d.pending
           f == d.frame
<1>1. f \in Seq(Nat) /\ p \in Seq(Nat) /\ g \in Seq(Nat)
  BY DEF Suppressors
<1>2. r \in Seq(Nat) /\ P.pending \in Seq(Nat) /\ P.frame \in Seq(Nat)
      /\ p \o (f \o s) = r \o y
  BY ReleasedFirst
<1>3. g \o r \in Seq(Nat) /\ Rest(g \o r) \in Seq(Nat) /\ y \in Seq(Nat)
  BY <1>1, <1>2, Joined, RestIs
<1>4. P = [frame |-> P.frame, pending |-> P.pending, staging |-> Rest(g \o r)]
  BY DEF Process
<1>5. P \in Suppressors
  BY <1>2, <1>3, <1>4 DEF Suppressors
<1>6. Held(P) = (Rest(g \o r) \o P.pending) \o P.frame /\ Held(d) = (g \o p) \o f
  BY <1>4 DEF Held
<1>7. Held(P) = Rest(g \o r) \o y
  <2> DEFINE a == Rest(g \o r)
             b == P.pending
             c == P.frame
  <2>1. a \in Seq(Nat) /\ b \in Seq(Nat) /\ c \in Seq(Nat)
    BY <1>2, <1>3
  <2> HIDE DEF a, b, c
  <2>2. (a \o b) \o c = a \o (b \o c)
    BY <2>1, Associates
  <2> QED
    BY <1>6, <2>2, Zenon DEF a, b, c
<1>8. p \o (f \o s) = r \o y /\ p \in Seq(Nat) /\ f \in Seq(Nat) /\ g \in Seq(Nat) /\ r \in Seq(Nat)
  BY <1>1, <1>2
<1> HIDE DEF P, r, g, y, p, f
<1>9. g \o p \in Seq(Nat) /\ f \o s \in Seq(Nat) /\ (g \o p) \o f \in Seq(Nat)
  BY <1>8, Joined
<1>10. Held(d) \o s = (g \o r) \o y /\ Held(d) \in Seq(Nat)
  <2> DEFINE q == g \o p
  <2>0. q \in Seq(Nat) /\ f \in Seq(Nat) /\ g \in Seq(Nat) /\ p \in Seq(Nat)
    BY <1>8, <1>9
  <2>1. (q \o f) \o s = q \o (f \o s)
    <3> HIDE DEF q
    <3> QED
      BY <2>0, Associates
  <2>2. (g \o p) \o (f \o s) = g \o (p \o (f \o s))
    BY <1>8, <1>9, Associates
  <2>3. (g \o r) \o y = g \o (r \o y)
    <3>1. g \in Seq(Nat) /\ r \in Seq(Nat) /\ y \in Seq(Nat)
      BY <1>3, <1>8
    <3> QED
      BY <3>1, Associates
  <2>4. Held(d) \o s = (g \o r) \o y
    BY <1>6, <1>8, <2>1, <2>2, <2>3, Zenon
  <2> QED
    BY <1>6, <1>9, <2>4, Zenon
<1>11. Held(P) \in Seq(Nat)
  BY <1>3, <1>7, Joined
<1>12. \E z \in Seq(Nat) : Held(d) \o s = (g \o r) \o z /\ Held(P) = Rest(g \o r) \o z
  BY <1>3, <1>7, <1>10
<1> QED
  BY <1>3, <1>5, <1>10, <1>11, <1>12 DEF P, r, g

(* The full part of a sequence is whole. *)
LEMMA WholeFront ==
    ASSUME NEW s \in Seq(Nat)
    PROVE  /\ SubSeq(s, 1, InBlocks(s)) \in Seq(Nat) /\ Whole(SubSeq(s, 1, InBlocks(s)))
           /\ s = SubSeq(s, 1, InBlocks(s)) \o Rest(s)
<1>1. InBlocks(s) \in Nat /\ InBlocks(s) <= Len(s)
  BY RestIs
<1>2. InBlocks(s) = (Len(s) \div ChunkSize) * ChunkSize /\ Len(s) \div ChunkSize \in Nat
  BY BlocksAre DEF InBlocks
<1>3. /\ SubSeq(s, 1, InBlocks(s)) \in Seq(Nat) /\ Len(SubSeq(s, 1, InBlocks(s))) = InBlocks(s)
      /\ s = SubSeq(s, 1, InBlocks(s)) \o SubSeq(s, InBlocks(s) + 1, Len(s))
  BY <1>1, Split
<1> QED
  BY <1>2, <1>3 DEF Whole, Rest

(* What whole chunks s become, with noise suppression or without. *)
Output(den, d, s) == IF den THEN Processed(d, s) ELSE Blocks(s)

After(den, d, s) == IF den THEN Process(d, s) ELSE d

(* Nothing is held at first. *)
LEMMA FreshHolds == Fresh \in Suppressors /\ Held(Fresh) = <<>> /\ Whole(<<>>)
<1>1. Fresh \in Suppressors /\ Held(Fresh) = <<>>
  BY DEF Fresh, Suppressors, Held
<1>2. 0 \in Nat /\ Len(<<>>) = 0 * ChunkSize
  BY Sizes
<1> QED
  BY <1>1, <1>2 DEF Whole

(* Either way samples stay in order, none is lost, and whole chunks are held. *)
LEMMA Treated ==
    ASSUME NEW cs \in Seq(Chunk), NEW d \in Suppressors, NEW s \in Seq(Nat), NEW y \in Seq(Nat),
           NEW den \in BOOLEAN, Whole(s), Whole(Held(d)), ~den => d = Fresh
    PROVE  /\ Output(den, d, s) \in Seq(Chunk) /\ After(den, d, s) \in Suppressors
           /\ Held(After(den, d, s)) \in Seq(Nat) /\ Whole(Held(After(den, d, s)))
           /\ ~den => After(den, d, s) = Fresh
           /\ \A n \in Nat :
                 /\ IsFlow(cs, Held(d) \o (s \o y), n) =>
                       IsFlow(cs \o Output(den, d, s), Held(After(den, d, s)) \o y, n)
                 /\ Has(cs, Held(d) \o (s \o y), n) =>
                       Has(cs \o Output(den, d, s), Held(After(den, d, s)) \o y, n)
<1>1. CASE den
  <2> DEFINE b == d.staging \o Released(d, s)
             P == Process(d, s)
             h == Held(d)
  <2>1. /\ P \in Suppressors /\ h \in Seq(Nat) /\ Held(P) \in Seq(Nat) /\ b \in Seq(Nat)
    BY FedIs
  <2>2. PICK z \in Seq(Nat) : h \o s = b \o z /\ Held(P) = Rest(b) \o z
    BY FedIs
  <2>3. Output(den, d, s) = Blocks(b) /\ After(den, d, s) = P
    BY <1>1 DEF Output, After, Processed
  <2>4. Blocks(b) \in Seq(Chunk) /\ Rest(b) \in Seq(Nat)
    BY <2>1, BlocksAre, RestIs
  <2> HIDE DEF b, P, h
  <2>5. h \o (s \o y) = b \o (z \o y)
    <3>1. h \o (s \o y) = (h \o s) \o y
      <4>1. h \in Seq(Nat)
        BY <2>1
      <4> QED
        BY <4>1, Associates
    <3>2. (b \o z) \o y = b \o (z \o y)
      BY <2>1, Associates
    <3> QED
      BY <2>2, <3>1, <3>2, Zenon
  <2>6. Rest(b) \o (z \o y) = Held(P) \o y
    <3>1. (Rest(b) \o z) \o y = Rest(b) \o (z \o y)
      BY <2>4, Associates
    <3> QED
      BY <2>2, <3>1, Zenon
  <2>7. z \o y \in Seq(Nat)
    BY Joined
  <2>8. Whole(Held(P))
    <3> DEFINE f == SubSeq(b, 1, InBlocks(b))
    <3>1. f \in Seq(Nat) /\ Whole(f) /\ b = f \o Rest(b)
      BY <2>1, WholeFront
    <3> HIDE DEF f
    <3>2. Whole(h \o s)
      BY <2>1, WholeJoined DEF h
    <3>3. (f \o Rest(b)) \o z = f \o (Rest(b) \o z)
      BY <3>1, <2>4, Associates
    <3>4. Whole(f \o Held(P))
      BY <2>2, <3>1, <3>2, <3>3, Zenon
    <3> QED
      BY <2>1, <3>1, <3>4, WholeJoined
  <2>9. ASSUME NEW n \in Nat
        PROVE  /\ IsFlow(cs, h \o (s \o y), n) => IsFlow(cs \o Blocks(b), Held(P) \o y, n)
               /\ Has(cs, h \o (s \o y), n) => Has(cs \o Blocks(b), Held(P) \o y, n)
    <3>1. IsFlow(cs, b \o (z \o y), n) => IsFlow(cs \o Blocks(b), Rest(b) \o (z \o y), n)
      BY <2>1, <2>7, FlowCut
    <3>2. Has(cs, b \o (z \o y), n) => Has(cs \o Blocks(b), Rest(b) \o (z \o y), n)
      BY <2>1, <2>7, HasCut
    <3> QED
      BY <3>1, <3>2, <2>5, <2>6, Zenon
  <2> QED
    BY <1>1, <2>1, <2>3, <2>4, <2>8, <2>9 DEF h
<1>2. CASE ~den
  <2>1. d = Fresh /\ Output(den, d, s) = Blocks(s) /\ After(den, d, s) = d
    BY <1>2 DEF Output, After
  <2>2. Held(d) = <<>> /\ Rest(s) = <<>> /\ Blocks(s) \in Seq(Chunk)
    BY <2>1, FreshHolds, WholeIs, BlocksAre
  <2>3. s \o y \in Seq(Nat) /\ <<>> \o y = y /\ <<>> \o (s \o y) = s \o y /\ <<>> \in Seq(Nat)
    BY Joined, ConcatEmptySeq
  <2>4. ASSUME NEW n \in Nat
        PROVE  /\ IsFlow(cs, s \o y, n) => IsFlow(cs \o Blocks(s), Rest(s) \o y, n)
               /\ Has(cs, s \o y, n) => Has(cs \o Blocks(s), Rest(s) \o y, n)
    BY FlowCut, HasCut
  <2>5. ASSUME NEW n \in Nat
        PROVE  /\ IsFlow(cs, Held(d) \o (s \o y), n) => IsFlow(cs \o Blocks(s), Held(d) \o y, n)
               /\ Has(cs, Held(d) \o (s \o y), n) => Has(cs \o Blocks(s), Held(d) \o y, n)
    BY <2>2, <2>3, <2>4, Zenon
  <2>6. Held(d) \in Seq(Nat)
    BY <2>2, <2>3
  <2> QED
    BY <2>1, <2>2, <2>5, <2>6, Zenon
<1> QED
  BY <1>1, <1>2

(***************************************************************************)
(* The steps.                                                              *)
(***************************************************************************)

(* What the chunks are, and what is loose, in parts. *)
LEMMA Parts ==
    ASSUME TypeOK
    PROVE  /\ Held(denoiser) \in Seq(Nat) /\ accumulated \in Seq(Nat) /\ ring \in Seq(Nat)
           /\ delivered \in Seq(Chunk) /\ outer \in Seq(Chunk) /\ inner \in Seq(Chunk)
           /\ delivered \o outer \in Seq(Chunk) /\ Chunks \in Seq(Chunk) /\ Loose \in Seq(Nat)
           /\ accumulated \o ring \in Seq(Nat)
           /\ Loose = Held(denoiser) \o (accumulated \o ring)
<1>1. /\ Held(denoiser) \in Seq(Nat) /\ accumulated \in Seq(Nat) /\ ring \in Seq(Nat)
      /\ delivered \in Seq(Chunk) /\ outer \in Seq(Chunk) /\ inner \in Seq(Chunk)
  BY FedIs DEF TypeOK
<1>2. delivered \o outer \in Seq(Chunk)
  BY <1>1, ChunksJoined
<1>3. Chunks \in Seq(Chunk)
  BY <1>1, <1>2, ChunksJoined DEF Chunks
<1>4. accumulated \o ring \in Seq(Nat)
  BY <1>1, Joined
<1>5. (Held(denoiser) \o accumulated) \o ring = Held(denoiser) \o (accumulated \o ring)
  BY <1>1, Associates
<1>6. Loose = Held(denoiser) \o (accumulated \o ring)
  BY <1>5 DEF Loose
<1>7. Held(denoiser) \o (accumulated \o ring) \in Seq(Nat)
  BY <1>1, <1>4, Joined
<1> QED
  BY <1>1, <1>2, <1>3, <1>4, <1>6, <1>7

(* What the channel takes of some chunks. *)
LEMMA Sent ==
    ASSUME TypeOK, HeldInv, NEW chunks \in Seq(Chunk)
    PROVE  /\ Fits(chunks) \in Seq(Chunk) /\ inner \o Fits(chunks) \in Seq(Chunk)
           /\ Len(inner \o Fits(chunks)) <= QueueSize
           /\ Len(Fits(chunks)) >= Len(chunks) => Fits(chunks) = chunks
           /\ \A l \in Seq(Nat), n \in Nat :
                 IsFlow(Chunks \o chunks, l, n) =>
                     IsFlow(delivered \o outer \o (inner \o Fits(chunks)), l, n)
           /\ delivered \o outer \o (inner \o chunks) = Chunks \o chunks
<1> USE Sizes
<1> DEFINE k == IF Len(chunks) < QueueSize - Len(inner) THEN Len(chunks) ELSE QueueSize - Len(inner)
           f == SubSeq(chunks, 1, k)
           a == delivered \o outer
<1>1. inner \in Seq(Chunk) /\ a \in Seq(Chunk) /\ Chunks \in Seq(Chunk) /\ Chunks = a \o inner
  BY Parts DEF Chunks
<1>2. Len(inner) \in Nat /\ Len(chunks) \in Nat /\ Len(inner) <= QueueSize
  BY <1>1, ChunksJoined DEF HeldInv
<1>3. k \in Nat /\ k <= Len(chunks) /\ k <= QueueSize - Len(inner)
  BY <1>2
<1>4. f = Fits(chunks)
  BY DEF Fits
<1> HIDE DEF k, a
<1>5. f \in Seq(Chunk) /\ Len(f) = k
  BY <1>3
<1>6. k >= Len(chunks) => f = chunks
  <2> SUFFICES ASSUME k = Len(chunks) PROVE f = chunks
    BY <1>2, <1>3
  <2> QED
    BY SubSeqFull
<1> HIDE DEF f
<1>7. inner \o f \in Seq(Chunk) /\ Len(inner \o f) <= QueueSize
  BY <1>1, <1>2, <1>3, <1>5, ChunksJoined
<1>8. a \o (inner \o f) = Chunks \o f /\ a \o (inner \o chunks) = Chunks \o chunks
  <2>1. (a \o inner) \o f = a \o (inner \o f)
    BY <1>1, <1>5, ChunksAssociate
  <2>2. (a \o inner) \o chunks = a \o (inner \o chunks)
    BY <1>1, ChunksAssociate
  <2> QED
    BY <1>1, <2>1, <2>2, Zenon
<1>9. ASSUME NEW l \in Seq(Nat), NEW n \in Nat, IsFlow(Chunks \o chunks, l, n)
      PROVE  IsFlow(a \o (inner \o f), l, n)
  <2>1. IsFlow(Chunks \o f, l, n)
    BY <1>1, <1>3, <1>9, FlowPrefix DEF f
  <2> QED
    BY <1>8, <2>1, Zenon
<1> QED
  BY <1>4, <1>5, <1>6, <1>7, <1>8, <1>9 DEF a

(* At first there is nothing. *)
LEMMA InitHolds == Init => IInv
<1> SUFFICES ASSUME Init PROVE IInv
  OBVIOUS
<1>1. TypeOK
  <2>1. dropped \in BOOLEAN /\ isLoopback \in BOOLEAN /\ denoise \in BOOLEAN
    BY DEF Init
  <2>2. ring \in Seq(Nat) /\ accumulated \in Seq(Nat) /\ denoiser \in Suppressors
    BY FreshHolds DEF Init
  <2>3. inner \in Seq(Chunk) /\ outer \in Seq(Chunk) /\ delivered \in Seq(Chunk)
    BY DEF Init
  <2> QED
    BY <2>1, <2>2, <2>3 DEF Init, TypeOK
<1>2. Control
  BY DEF Init, Control, ReleasedWhenIdle
<1>3. HeldInv
  BY Sizes, FreshHolds DEF Init, HeldInv
<1>4. Chunks = <<>> /\ Loose = <<>>
  BY FreshHolds DEF Init, Chunks, Loose
<1>5. IsFlow(<<>>, <<>>, 0)
  BY DEF IsFlow, InOrder, AtMost, Rises
<1>6. FlowInv
  BY <1>4, <1>5 DEF Init, FlowInv
<1>7. NothingLostSilently
  BY DEF Init, NothingLostSilently
<1> QED
  BY <1>1, <1>2, <1>3, <1>6, <1>7 DEF IInv

(* A step that moves no sample. *)
LEMMA NothingMoves ==
    ASSUME IInv, UNCHANGED <<denoise, samples, downstream, base, captured>>,
           pc' = "forward" /\ worker' = "running" => pc = "forward" /\ worker = "running"
    PROVE  HeldInv' /\ FlowInv' /\ NothingLostSilently'
<1>1. HeldInv'
  BY DEF IInv, HeldInv, samples, downstream
<1>2. Chunks' = Chunks /\ Loose' = Loose /\ captured' = captured /\ base' = base /\ dropped' = dropped
  BY DEF Chunks, Loose, samples, downstream
<1>3. FlowInv'
  BY <1>2 DEF IInv, FlowInv
<1>4. NothingLostSilently'
  BY <1>2 DEF IInv, NothingLostSilently
<1> QED
  BY <1>1, <1>3, <1>4

LEMMA AttemptStandbyKeeps ==
    ASSUME IInv, AttemptStandby PROVE IInv'
<1> USE DEF AttemptStandby, owner, hardware, device, samples, downstream
<1>1. TypeOK' /\ Control'
  BY DEF IInv, TypeOK, Control, ReleasedWhenIdle, Attempting
<1>2. HeldInv' /\ FlowInv' /\ NothingLostSilently'
  BY NothingMoves DEF IInv
<1> QED
  BY <1>1, <1>2 DEF IInv

LEMMA AttemptFailsKeeps ==
    ASSUME IInv, NoSuchDevice \/ StreamNotBuilt \/ PlayFails \/ AttemptRefused PROVE IInv'
<1> USE DEF NoSuchDevice, StreamNotBuilt, PlayFails, AttemptFails, AttemptRefused, owner, samples, downstream
<1>1. TypeOK' /\ Control'
  BY DEF IInv, TypeOK, Control, ReleasedWhenIdle, Attempting
<1>2. HeldInv' /\ FlowInv' /\ NothingLostSilently'
  BY NothingMoves DEF IInv
<1> QED
  BY <1>1, <1>2 DEF IInv

LEMMA TaskKeeps ==
    ASSUME IInv, AfterLoss \/ WaitEnds \/ ForwardFails \/ ForwardUnwanted \/ ForwardStops \/ WatchdogTick
    PROVE  IInv'
<1> USE DEF AfterLoss, WaitEnds, ForwardFails, ForwardUnwanted, ForwardStops, WatchdogTick, LeaveForward,
            owner, hardware, device, samples, downstream
<1>1. TypeOK' /\ Control'
  BY DEF IInv, TypeOK, Control, ReleasedWhenIdle
<1>2. HeldInv' /\ FlowInv' /\ NothingLostSilently'
  BY NothingMoves DEF IInv
<1> QED
  BY <1>1, <1>2 DEF IInv

LEMMA EnvironmentKeeps ==
    ASSUME IInv, WorkerBreaks \/ StreamError \/ Unplug \/ Plug \/ HangUp \/ StopCall \/ StopReturn
    PROVE  IInv'
<1> USE DEF WorkerBreaks, StreamError, Unplug, Plug, HangUp, StopCall, StopReturn,
            owner, hardware, task, device, samples, downstream
<1>1. TypeOK' /\ Control'
  BY DEF IInv, TypeOK, Control, ReleasedWhenIdle
<1>2. HeldInv' /\ FlowInv' /\ NothingLostSilently'
  BY NothingMoves DEF IInv
<1> QED
  BY <1>1, <1>2 DEF IInv

(* What is left of a stream is thrown away. *)
LEMMA ThrownAway ==
    ASSUME IInv
    PROVE  IsFlow(delivered \o outer \o <<>>, Held(Fresh) \o <<>> \o <<>>, captured)
<1> DEFINE a == delivered \o outer
<1>1. a \in Seq(Chunk) /\ inner \in Seq(Chunk) /\ Loose \in Seq(Nat) /\ Chunks = a \o inner
  BY Parts DEF IInv, Chunks
<1>2. captured \in Nat /\ Len(inner) \in Nat
  BY <1>1 DEF IInv, TypeOK
<1> HIDE DEF a
<1>3. IsFlow(a \o SubSeq(inner, 1, 0), Loose, captured)
  BY <1>1, <1>2, FlowPrefix DEF IInv, FlowInv
<1>4. SubSeq(inner, 1, 0) = <<>> /\ Loose = Loose \o <<>> /\ <<>> \in Seq(Nat)
  BY <1>1
<1>5. a \o <<>> \in Seq(Chunk)
  BY <1>1
<1>6. IsFlow(a \o <<>>, Loose \o <<>>, captured)
  BY <1>3, <1>4, Zenon
<1>7. IsFlow(a \o <<>>, <<>>, captured)
  BY <1>1, <1>2, <1>4, <1>5, <1>6, FlowParts
<1>8. Held(Fresh) \o <<>> \o <<>> = <<>>
  BY FreshHolds
<1> QED
  BY <1>7, <1>8 DEF a

LEMMA AttemptOpensKeeps ==
    ASSUME IInv, AttemptOpens PROVE IInv'
<1> USE DEF AttemptOpens, owner, hardware, downstream
<1>1. TypeOK'
  <2>1. dropped' \in BOOLEAN
    OBVIOUS
  <2>2. ring' \in Seq(Nat) /\ accumulated' \in Seq(Nat) /\ denoiser' \in Suppressors /\ inner' \in Seq(Chunk)
    BY FreshHolds
  <2> QED
    BY <2>1, <2>2 DEF IInv, TypeOK
<1>2. Control'
  BY DEF Control, ReleasedWhenIdle
<1>3. HeldInv'
  BY FreshHolds, Sizes DEF IInv, HeldInv
<1>4. FlowInv'
  BY ThrownAway DEF IInv, FlowInv, Chunks, Loose
<1>5. NothingLostSilently'
  BY DEF NothingLostSilently, IInv, TypeOK
<1> QED
  BY <1>1, <1>2, <1>3, <1>4, <1>5 DEF IInv

LEMMA SourceStoppedKeeps ==
    ASSUME IInv, SourceStopped PROVE IInv'
<1> USE DEF SourceStopped, owner, hardware, downstream
<1>1. TypeOK'
  BY FreshHolds DEF IInv, TypeOK
<1>2. Control'
  BY DEF IInv, TypeOK, Control, ReleasedWhenIdle
<1>3. HeldInv'
  BY FreshHolds, Sizes DEF IInv, HeldInv
<1>4. FlowInv'
  BY ThrownAway DEF IInv, FlowInv, Chunks, Loose
<1>5. NothingLostSilently'
  BY DEF NothingLostSilently
<1> QED
  BY <1>1, <1>2, <1>3, <1>4, <1>5 DEF IInv

LEMMA CallbackKeeps ==
    ASSUME IInv, Callback PROVE IInv'
<1> USE DEF Callback, owner, task, device, downstream
<1> DEFINE n == captured + 1
           add == IF Len(ring) < RingSize THEN <<n>> ELSE <<>>
<1>1. /\ captured \in Nat /\ base \in Nat /\ ring \in Seq(Nat) /\ accumulated \in Seq(Nat)
      /\ captured' = n /\ dropped \in BOOLEAN
  BY DEF IInv, TypeOK
<1>2. ring' = ring \o add /\ ring' \in Seq(Nat)
  BY <1>1
<1>3. TypeOK'
  <2>1. dropped' \in BOOLEAN
    OBVIOUS
  <2> QED
    BY <1>1, <1>2, <2>1 DEF IInv, TypeOK
<1>4. Control' /\ HeldInv'
  <2>1. Len(ring') <= RingSize
    BY <1>1, Sizes DEF IInv, HeldInv
  <2> QED
    BY <2>1 DEF IInv, Control, ReleasedWhenIdle, HeldInv
<1>5. Chunks' = Chunks /\ Chunks \in Seq(Chunk) /\ Loose \in Seq(Nat) /\ Held(denoiser) \in Seq(Nat)
  BY Parts DEF IInv, Chunks
<1>6. Loose' = Loose \o add
  <2> DEFINE h == Held(denoiser) \o accumulated
  <2>1. h \in Seq(Nat)
    BY <1>1, <1>5, Joined
  <2>2. Loose = h \o ring /\ Loose' = h \o (ring \o add)
    BY <1>2 DEF Loose
  <2>3. add \in Seq(Nat)
    BY <1>1
  <2> HIDE DEF h, add
  <2>4. (h \o ring) \o add = h \o (ring \o add)
    BY <1>1, <2>1, <2>3, Associates
  <2> QED
    BY <2>2, <2>4, Zenon
<1>7. FlowInv'
  <2>1. IsFlow(Chunks, Loose, captured)
    BY DEF IInv, FlowInv
  <2>2. IsFlow(Chunks, Loose, n) /\ IsFlow(Chunks, Loose \o <<n>>, n)
    BY <1>1, <1>5, <2>1, FlowCaptured
  <2>3. Loose \o <<>> = Loose
    BY <1>5
  <2>4. CASE Len(ring) < RingSize
    <3>1. Loose' = Loose \o <<n>>
      BY <1>6, <2>4
    <3> HIDE DEF n
    <3> QED
      BY <1>1, <1>5, <2>2, <3>1 DEF FlowInv
  <2>5. CASE ~(Len(ring) < RingSize)
    <3>1. Loose' = Loose
      BY <1>6, <2>3, <2>5
    <3> HIDE DEF n
    <3> QED
      BY <1>1, <1>5, <2>2, <3>1 DEF FlowInv
  <2> QED
    BY <2>4, <2>5
<1>8. NothingLostSilently'
  <2> SUFFICES ASSUME pc = "forward", worker = "running", ~dropped', NEW k \in base + 1 .. n
               PROVE  Has(Chunks', Loose', k)
    BY <1>1 DEF NothingLostSilently
  <2>1. ~dropped /\ Len(ring) # RingSize
    OBVIOUS
  <2>2. Loose' = Loose \o <<n>>
    <3>1. Len(ring) < RingSize
      BY <1>1, <2>1, Sizes DEF IInv, HeldInv
    <3> QED
      BY <1>6, <3>1
  <2>3. k \in Nat /\ n \in Nat
    BY <1>1
  <2>4. CASE k = n
    BY <1>5, <2>2, <2>3, <2>4, HasCaptured
  <2>5. CASE k # n
    <3>1. k \in base + 1 .. captured
      BY <1>1, <2>5
    <3>2. Has(Chunks, Loose, k)
      BY <2>1, <3>1 DEF IInv, NothingLostSilently
    <3> HIDE DEF n
    <3> QED
      BY <1>5, <2>2, <2>3, <3>2, HasCaptured
  <2> QED
    BY <2>4, <2>5
<1> QED
  BY <1>3, <1>4, <1>7, <1>8 DEF IInv

LEMMA ConsumeKeeps ==
    ASSUME IInv, Consume PROVE IInv'
<1> USE DEF Consume, owner, hardware, task, device, samples
<1>1. /\ delivered \in Seq(Chunk) /\ outer \in Seq(Chunk) /\ outer # <<>> /\ Head(outer) \in Chunk
      /\ delivered' \in Seq(Chunk) /\ outer' \in Seq(Chunk) /\ Len(outer') <= Len(outer)
  BY DEF IInv, TypeOK
<1>2. delivered' \o outer' = delivered \o outer
  <2> DEFINE h == Head(outer)
             t == Tail(outer)
  <2>1. outer = <<h>> \o t /\ t \in Seq(Chunk) /\ <<h>> \in Seq(Chunk)
    BY <1>1
  <2>2. delivered' = delivered \o <<h>> /\ outer' = t
    BY <1>1
  <2> DEFINE x == <<h>>
  <2> HIDE DEF t, x
  <2>3. (delivered \o x) \o t = delivered \o (x \o t)
    BY <1>1, <2>1, ConcatAssociative DEF x
  <2> QED
    BY <2>1, <2>2, <2>3, Zenon DEF x
<1>3. Chunks' = Chunks /\ Loose' = Loose
  BY <1>2 DEF Chunks, Loose
<1>4. TypeOK' /\ Control'
  BY <1>1 DEF IInv, TypeOK, Control, ReleasedWhenIdle
<1>5. HeldInv'
  BY <1>1, Sizes DEF IInv, HeldInv
<1>6. FlowInv' /\ NothingLostSilently'
  BY <1>3 DEF IInv, FlowInv, NothingLostSilently
<1> QED
  BY <1>4, <1>5, <1>6 DEF IInv

LEMMA ForwardChunkKeeps ==
    ASSUME IInv, ForwardChunk PROVE IInv'
<1> USE DEF ForwardChunk, owner, hardware, device
<1>1. /\ delivered \in Seq(Chunk) /\ outer \in Seq(Chunk) /\ inner \in Seq(Chunk) /\ inner # <<>>
      /\ Head(inner) \in Chunk /\ Loose \in Seq(Nat) /\ captured \in Nat /\ dropped \in BOOLEAN
      /\ inner' \in Seq(Chunk) /\ Len(inner') <= Len(inner) /\ outer' \in Seq(Chunk)
  BY Parts DEF IInv, TypeOK
<1>2. TypeOK' /\ Control'
  <2>1. dropped' \in BOOLEAN
    OBVIOUS
  <2> QED
    BY <1>1, <2>1 DEF IInv, TypeOK, Control, ReleasedWhenIdle
<1>3. HeldInv'
  <2>1. Len(outer') <= QueueSize
    BY <1>1, Sizes DEF IInv, HeldInv
  <2> QED
    BY <1>1, <2>1, Sizes DEF IInv, HeldInv
<1>4. Loose' = Loose
  BY DEF Loose
<1> DEFINE a == delivered \o outer
           h == Head(inner)
           t == Tail(inner)
<1>5. a \in Seq(Chunk) /\ Chunks = a \o inner
  BY Parts DEF IInv, Chunks
<1>6. CASE Len(outer) < QueueSize
  <2> DEFINE x == <<h>>
  <2>1. inner = x \o t /\ x \in Seq(Chunk) /\ t \in Seq(Chunk) /\ inner' = t
    BY <1>1
  <2>2. outer' = outer \o x
    BY <1>1, <1>6
  <2>3. Chunks' = (delivered \o (outer \o x)) \o t
    BY <2>1, <2>2 DEF Chunks
  <2> HIDE DEF x, t
  <2>4. delivered \o (outer \o x) = a \o x
    <3>1. (delivered \o outer) \o x = delivered \o (outer \o x)
      <4>1. delivered \in Seq(Chunk) /\ outer \in Seq(Chunk) /\ x \in Seq(Chunk)
        BY <1>1, <2>1
      <4> QED
        BY <4>1, ChunksAssociate
    <3> QED
      BY <3>1
  <2> HIDE DEF a
  <2>5. (a \o x) \o t = a \o (x \o t)
    <3>1. a \in Seq(Chunk) /\ x \in Seq(Chunk) /\ t \in Seq(Chunk)
      BY <1>5, <2>1
    <3> QED
      BY <3>1, ChunksAssociate
  <2>6. Chunks' = Chunks
    BY <1>5, <2>1, <2>3, <2>4, <2>5, Zenon
  <2>7. dropped' => dropped \/ Len(outer) = QueueSize
    OBVIOUS
  <2>8. FlowInv' /\ NothingLostSilently'
    BY <1>4, <2>6 DEF IInv, FlowInv, NothingLostSilently
  <2> QED
    BY <1>2, <1>3, <2>8 DEF IInv
<1>7. CASE ~(Len(outer) < QueueSize)
  <2>1. outer' = outer /\ inner' = t
    BY <1>7
  <2>2. Chunks' = a \o t
    BY <2>1 DEF Chunks
  <2>3. IsFlow(a \o inner, Loose, captured)
    BY <1>5 DEF IInv, FlowInv
  <2> HIDE DEF a
  <2>4. IsFlow(a \o t, Loose, captured)
    BY <1>1, <1>5, <2>3, FlowWithout
  <2>5. FlowInv'
    BY <1>4, <2>2, <2>4 DEF FlowInv
  <2>6. dropped'
    <3>1. Len(outer) <= QueueSize /\ Len(outer) \in Nat
      BY <1>1 DEF IInv, HeldInv
    <3>2. Len(outer) = QueueSize
      BY <1>7, <3>1, Sizes
    <3> QED
      BY <3>2
  <2>7. NothingLostSilently'
    BY <2>6 DEF NothingLostSilently
  <2> QED
    BY <1>2, <1>3, <2>5, <2>7 DEF IInv
<1> QED
  BY <1>6, <1>7

(* The ring is what the worker reads and what it leaves. *)
LEMMA UnreadIs ==
    ASSUME TypeOK
    PROVE  /\ Unread \in Seq(Nat) /\ SubSeq(ring, Len(Unread) + 1, Len(ring)) \in Seq(Nat)
           /\ Len(SubSeq(ring, Len(Unread) + 1, Len(ring))) <= Len(ring)
           /\ ring = Unread \o SubSeq(ring, Len(Unread) + 1, Len(ring))
<1> DEFINE n == IF Len(ring) < ReadSize THEN Len(ring) ELSE ReadSize
<1>1. ring \in Seq(Nat) /\ n \in Nat /\ n <= Len(ring) /\ Unread = SubSeq(ring, 1, n)
  BY Sizes DEF TypeOK, Unread
<1> HIDE DEF n
<1>2. Unread \in Seq(Nat) /\ Len(Unread) = n
      /\ SubSeq(ring, n + 1, Len(ring)) \in Seq(Nat) /\ ring = Unread \o SubSeq(ring, n + 1, Len(ring))
  BY <1>1, Split
<1>3. Len(SubSeq(ring, n + 1, Len(ring))) <= Len(ring)
  BY <1>1
<1> QED
  BY <1>2, <1>3

LEMMA WorkerReadsKeeps ==
    ASSUME IInv, WorkerReads PROVE IInv'
<1> DEFINE framed == accumulated \o Unread
           ready == SubSeq(framed, 1, InBlocks(framed))
           rest == Rest(framed)
           y == rest \o ring'
           out == Output(denoise, denoiser, ready)
           d == After(denoise, denoiser, ready)
<1>1. TypeOK /\ HeldInv
  BY DEF IInv
<1>2. /\ ring' \in Seq(Nat) /\ Len(ring') <= Len(ring) /\ ring = Unread \o ring' /\ Unread \in Seq(Nat)
  BY <1>1, UnreadIs DEF WorkerReads
<1>3. /\ accumulated \in Seq(Nat) /\ denoiser \in Suppressors /\ denoise \in BOOLEAN
      /\ Whole(Held(denoiser)) /\ (~denoise => denoiser = Fresh) /\ Held(denoiser) \in Seq(Nat)
      /\ captured \in Nat /\ base \in Nat /\ dropped \in BOOLEAN
  BY <1>1, Parts DEF TypeOK, HeldInv
<1>4. framed \in Seq(Nat)
  BY <1>2, <1>3, Joined
<1>5. accumulated' = rest /\ denoiser' = d /\ SendChunks(out)
  BY DEF WorkerReads, DrainReady, Output, After
<1> HIDE DEF framed, out, d
<1>6. /\ ready \in Seq(Nat) /\ Whole(ready) /\ framed = ready \o rest
      /\ rest \in Seq(Nat) /\ Len(rest) < ChunkSize
  BY <1>4, WholeFront, RestIs
<1> HIDE DEF ready, rest
<1>7. y \in Seq(Nat)
  BY <1>2, <1>6, Joined
<1>8. Loose = Held(denoiser) \o (ready \o y)
  <2> DEFINE r == ring'
  <2>1. r \in Seq(Nat) /\ ring = Unread \o r
    BY <1>2
  <2> HIDE DEF r
  <2>2. accumulated \o (Unread \o r) = framed \o r
    BY <1>2, <1>3, <2>1, Associates DEF framed
  <2>3. (ready \o rest) \o r = ready \o (rest \o r)
    BY <1>6, <2>1, Associates
  <2>4. Loose = Held(denoiser) \o (accumulated \o ring)
    BY <1>1, Parts
  <2> QED
    BY <1>6, <2>1, <2>2, <2>3, <2>4, Zenon DEF r
<1> HIDE DEF y
<1>9. /\ out \in Seq(Chunk) /\ d \in Suppressors /\ Held(d) \in Seq(Nat) /\ Whole(Held(d))
      /\ ~denoise => d = Fresh
  BY <1>3, <1>6, <1>7, Treated, Parts, <1>1 DEF out, d
<1>10. ASSUME NEW n \in Nat
       PROVE  /\ IsFlow(Chunks, Loose, n) => IsFlow(Chunks \o out, Held(d) \o y, n)
              /\ Has(Chunks, Loose, n) => Has(Chunks \o out, Held(d) \o y, n)
  <2>1. Chunks \in Seq(Chunk)
    BY <1>1, Parts
  <2>2. /\ IsFlow(Chunks, Held(denoiser) \o (ready \o y), n) => IsFlow(Chunks \o out, Held(d) \o y, n)
        /\ Has(Chunks, Held(denoiser) \o (ready \o y), n) => Has(Chunks \o out, Held(d) \o y, n)
    BY <1>3, <1>6, <1>7, <2>1, Treated DEF out, d
  <2> QED
    BY <1>8, <2>2, Zenon
<1>11. Loose' = Held(d) \o y /\ Held(d) \o y \in Seq(Nat)
  <2> DEFINE r == ring'
  <2>1. r \in Seq(Nat)
    BY <1>2
  <2>2. Loose' = (Held(d) \o rest) \o r
    BY <1>5 DEF Loose
  <2> HIDE DEF r
  <2>3. (Held(d) \o rest) \o r = Held(d) \o (rest \o r)
    BY <1>6, <1>9, <2>1, Associates
  <2> QED
    BY <1>7, <1>9, <2>2, <2>3, Joined DEF r, y
<1>12. /\ inner' = inner \o Fits(out) /\ inner' \in Seq(Chunk) /\ Len(inner') <= QueueSize
       /\ \A l \in Seq(Nat), n \in Nat : IsFlow(Chunks \o out, l, n) =>
                IsFlow(delivered \o outer \o inner', l, n)
  BY <1>1, <1>5, <1>9, Sent DEF SendChunks
<1>13. Chunks' = delivered \o outer \o inner'
  BY DEF Chunks, WorkerReads, downstream
<1>14. TypeOK'
  <2>1. dropped' \in BOOLEAN
    BY <1>5 DEF SendChunks
  <2> QED
    BY <1>2, <1>3, <1>5, <1>6, <1>9, <1>12, <2>1
       DEF IInv, TypeOK, WorkerReads, owner, hardware, task, device, downstream
<1>15. Control'
  BY DEF IInv, Control, ReleasedWhenIdle, WorkerReads, task, device
<1>16. HeldInv'
  <2>1. Len(ring') <= RingSize
    BY <1>1, <1>2, Sizes DEF HeldInv, TypeOK
  <2>2. Whole(Held(denoiser')) /\ (~denoise' => denoiser' = Fresh) /\ Len(accumulated') < ChunkSize
    BY <1>5, <1>6, <1>9 DEF WorkerReads, owner
  <2> QED
    BY <1>1, <1>12, <2>1, <2>2 DEF HeldInv, WorkerReads, downstream
<1>17. FlowInv'
  <2>1. IsFlow(Chunks, Loose, captured) /\ captured' = captured
    BY DEF IInv, FlowInv, WorkerReads, hardware
  <2>2. IsFlow(Chunks', Loose', captured)
    BY <1>3, <1>10, <1>11, <1>12, <1>13, <2>1
  <2> QED
    BY <2>1, <2>2 DEF FlowInv
<1>18. NothingLostSilently'
  <2> SUFFICES ASSUME pc = "forward", worker = "running", ~dropped', NEW k \in base + 1 .. captured
               PROVE  Has(Chunks', Loose', k)
    BY DEF NothingLostSilently, WorkerReads, hardware, task, device
  <2>1. ~dropped /\ ~(Len(Fits(out)) < Len(out))
    BY <1>5 DEF SendChunks
  <2>2. Fits(out) = out
    <3>1. Fits(out) \in Seq(Chunk) /\ (Len(Fits(out)) >= Len(out) => Fits(out) = out)
      BY <1>1, <1>9, Sent
    <3> QED
      BY <1>9, <2>1, <3>1
  <2>3. Chunks' = Chunks \o out
    BY <1>1, <1>9, <1>12, <1>13, <2>2, Sent
  <2>4. k \in Nat
    BY <1>3
  <2>5. Has(Chunks, Loose, k)
    BY <2>1 DEF IInv, NothingLostSilently
  <2> QED
    BY <1>10, <1>11, <2>3, <2>4, <2>5
<1> QED
  BY <1>14, <1>15, <1>16, <1>17, <1>18 DEF IInv

(* What the noise suppressor holds goes out in full chunks. *)
LEMMA FlushedAre ==
    ASSUME NEW cs \in Seq(Chunk), NEW d \in Suppressors, NEW y \in Seq(Nat), NEW n \in Nat,
           Whole(Held(d)), IsFlow(cs, Held(d) \o y, n)
    PROVE  Flushed(d) \in Seq(Chunk) /\ IsFlow(cs \o Flushed(d), y, n)
<1> DEFINE h == Held(d)
<1>1. h \in Seq(Nat) /\ Rest(h) = <<>> /\ Blocks(h) \in Seq(Chunk)
  BY FedIs, WholeIs, BlocksAre
<1>2. Flushed(d) = Blocks(h)
  BY <1>1 DEF Flushed, WithTail
<1> HIDE DEF h
<1>3. IsFlow(cs \o Blocks(h), Rest(h) \o y, n)
  BY <1>1, FlowCut DEF h
<1>4. <<>> \o y = y
  BY ConcatEmptySeq
<1> QED
  BY <1>1, <1>2, <1>3, <1>4, Zenon

LEMMA WorkerEndsKeeps ==
    ASSUME IInv, WorkerEnds PROVE IInv'
<1> DEFINE last == IF accumulated = <<>> THEN <<>> ELSE Padded(accumulated)
           out == Output(denoise, denoiser, last)
           d == After(denoise, denoiser, last)
           tail == IF denoise THEN out \o Flushed(d) ELSE out
           h == Held(denoiser)
<1>1. TypeOK /\ HeldInv
  BY DEF IInv
<1>2. /\ accumulated \in Seq(Nat) /\ ring \in Seq(Nat) /\ denoiser \in Suppressors /\ denoise \in BOOLEAN
      /\ Whole(h) /\ (~denoise => denoiser = Fresh) /\ h \in Seq(Nat)
      /\ captured \in Nat /\ dropped \in BOOLEAN /\ Len(accumulated) < ChunkSize
      /\ Chunks \in Seq(Chunk) /\ accumulated \o ring \in Seq(Nat)
      /\ Loose = h \o (accumulated \o ring)
  BY <1>1, Parts DEF TypeOK, HeldInv
<1>3. /\ ring' = ring /\ accumulated' = <<>> /\ denoiser' = Fresh /\ captured' = captured
      /\ worker' = "ended"
      /\ IF worker = "broken" THEN UNCHANGED <<inner, dropped>> ELSE SendChunks(tail)
  BY DEF WorkerEnds, hardware, Processed, Output, After
<1>4. last \in Seq(Nat) /\ Whole(last)
  <2>1. CASE accumulated = <<>>
    BY <2>1, FreshHolds
  <2>2. CASE accumulated # <<>>
    <3>1. Padded(accumulated) \in Seq(Nat) /\ Len(Padded(accumulated)) = ChunkSize
      BY <1>2, PaddedIs, Sizes
    <3>2. 1 \in Nat /\ ChunkSize = 1 * ChunkSize
      BY Sizes
    <3> QED
      BY <2>2, <3>1, <3>2 DEF Whole
  <2> QED
    BY <2>1, <2>2
<1> HIDE DEF h
<1>5. IsFlow(Chunks, h \o (accumulated \o ring), captured)
  BY <1>2 DEF IInv, FlowInv
<1>6. IsFlow(Chunks, h \o (last \o ring), captured)
  <2>1. CASE accumulated = <<>>
    BY <2>1, <1>5
  <2>2. CASE accumulated # <<>>
    <3>1. IsFlow(Chunks, h \o (Padded(accumulated) \o ring), captured)
      BY <1>2, <1>5, FlowPadded, Sizes
    <3> QED
      BY <2>2, <3>1
  <2> QED
    BY <2>1, <2>2
<1> HIDE DEF last
<1>7. /\ out \in Seq(Chunk) /\ d \in Suppressors /\ Held(d) \in Seq(Nat) /\ Whole(Held(d))
      /\ ~denoise => d = Fresh
      /\ IsFlow(Chunks \o out, Held(d) \o ring, captured)
  BY <1>2, <1>4, <1>6, Treated DEF h
<1> HIDE DEF out, d
<1>8. Chunks \o out \in Seq(Chunk)
  BY <1>2, <1>7, ChunksJoined
<1>9. tail \in Seq(Chunk) /\ IsFlow(Chunks \o tail, ring, captured)
  <2>1. CASE denoise
    <3> DEFINE f == Flushed(d)
    <3>1. f \in Seq(Chunk) /\ IsFlow((Chunks \o out) \o f, ring, captured)
      BY <1>2, <1>7, <1>8, FlushedAre
    <3>2. tail = out \o f
      BY <2>1
    <3> HIDE DEF f, tail
    <3>3. (Chunks \o out) \o f = Chunks \o (out \o f)
      BY <1>2, <1>7, <3>1, ChunksAssociate
    <3>4. out \o f \in Seq(Chunk)
      BY <1>7, <3>1, ChunksJoined
    <3> QED
      BY <3>1, <3>2, <3>3, <3>4, Zenon
  <2>2. CASE ~denoise
    <3>1. tail = out /\ Held(d) \o ring = ring
      BY <1>2, <1>7, <2>2, FreshHolds, ConcatEmptySeq
    <3> QED
      BY <1>7, <3>1
  <2> QED
    BY <2>1, <2>2
<1> HIDE DEF tail
<1>10. Loose' = ring
  <2>1. <<>> \o <<>> \o ring = ring
    BY <1>2
  <2> QED
    BY <1>3, <2>1, FreshHolds DEF Loose
<1>11. Chunks' = delivered \o outer \o inner'
  BY DEF Chunks, WorkerEnds, downstream
<1>12. /\ inner' \in Seq(Chunk) /\ Len(inner') <= QueueSize /\ dropped' \in BOOLEAN
       /\ IsFlow(Chunks', ring, captured)
  <2>1. CASE worker = "broken"
    <3>1. Chunks' = Chunks /\ inner' = inner /\ dropped' = dropped
      BY <1>3, <1>11, <2>1 DEF Chunks
    <3>2. h \o (accumulated \o ring) \in Seq(Nat)
      BY <1>2, Joined
    <3>3. IsFlow(Chunks, ring, captured)
      BY <1>2, <1>5, FlowParts
    <3> QED
      BY <1>1, <3>1, <3>3 DEF TypeOK, HeldInv
  <2>2. CASE worker # "broken"
    <3>1. SendChunks(tail)
      BY <1>3, <2>2
    <3>2. /\ inner' = inner \o Fits(tail) /\ inner' \in Seq(Chunk) /\ Len(inner') <= QueueSize
          /\ IsFlow(delivered \o outer \o inner', ring, captured)
      BY <1>1, <1>2, <1>9, <3>1, Sent DEF SendChunks
    <3>3. dropped' \in BOOLEAN
      BY <3>1 DEF SendChunks
    <3> QED
      BY <1>11, <3>2, <3>3
  <2> QED
    BY <2>1, <2>2
<1>13. TypeOK'
  <2>1. /\ ring' \in Seq(Nat) /\ accumulated' \in Seq(Nat) /\ denoiser' \in Suppressors
    BY <1>2, <1>3, FreshHolds
  <2> QED
    BY <1>1, <1>3, <1>12, <2>1 DEF TypeOK, WorkerEnds, owner, hardware, task, device, downstream
<1>14. Control'
  BY DEF IInv, TypeOK, Control, ReleasedWhenIdle, WorkerEnds, task
<1>15. HeldInv'
  BY <1>1, <1>3, <1>12, FreshHolds, Sizes DEF HeldInv, WorkerEnds, downstream
<1>16. FlowInv'
  BY <1>3, <1>10, <1>12 DEF FlowInv
<1>17. NothingLostSilently'
  BY <1>3 DEF NothingLostSilently
<1> QED
  BY <1>13, <1>14, <1>15, <1>16, <1>17 DEF IInv

(***************************************************************************)
(* The theorems.                                                           *)
(***************************************************************************)

(* The invariant holds in every state of every behaviour. *)
THEOREM CaptureInvariant == Spec => []IInv
<1>1. Init => IInv
  BY InitHolds
<1>2. IInv /\ [Next]_vars => IInv'
  <2> SUFFICES ASSUME IInv, [Next]_vars PROVE IInv'
    OBVIOUS
  <2>1. CASE Attempt
    BY <2>1, AttemptStandbyKeeps, AttemptOpensKeeps, AttemptFailsKeeps DEF Attempt
  <2>2. CASE AfterLoss \/ WaitEnds \/ ForwardStops \/ WatchdogTick
    BY <2>2, TaskKeeps
  <2>3. CASE Forward
    BY <2>3, ForwardChunkKeeps, TaskKeeps DEF Forward
  <2>4. CASE SourceStopped
    BY <2>4, SourceStoppedKeeps
  <2>5. CASE Worker
    BY <2>5, WorkerReadsKeeps, WorkerEndsKeeps, EnvironmentKeeps DEF Worker
  <2>6. CASE Callback
    BY <2>6, CallbackKeeps
  <2>7. CASE StreamError \/ Unplug \/ Plug \/ HangUp \/ StopCall \/ StopReturn
    BY <2>7, EnvironmentKeeps
  <2>8. CASE Consume
    BY <2>8, ConsumeKeeps
  <2>9. CASE UNCHANGED vars
    BY <2>9 DEF IInv, TypeOK, Control, ReleasedWhenIdle, HeldInv, FlowInv, Chunks, Loose,
                NothingLostSilently, vars, owner, hardware, task, device, samples, downstream
  <2> QED
    BY <2>1, <2>2, <2>3, <2>4, <2>5, <2>6, <2>7, <2>8, <2>9 DEF Next
<1> QED
  BY <1>1, <1>2, PTL DEF Spec

(* Samples reach the consumer in the order of their capture, none twice. *)
THEOREM SamplesComeInOrder == Spec => []InOrderOnce
<1>1. IInv => InOrderOnce
  BY DEF IInv, FlowInv, IsFlow, InOrderOnce
<1> QED
  BY <1>1, CaptureInvariant, PTL

(* While nothing was full, framing and noise suppression lose no sample. *)
THEOREM NoSampleIsLost == Spec => []NothingLostSilently
<1>1. IInv => NothingLostSilently
  BY DEF IInv
<1> QED
  BY <1>1, CaptureInvariant, PTL

(* Between streams no stream is open and no worker thread runs. *)
THEOREM DeviceIsReleased == Spec => []ReleasedWhenIdle
<1>1. IInv => ReleasedWhenIdle
  BY DEF IInv, Control
<1> QED
  BY <1>1, CaptureInvariant, PTL

(* The noise suppressor holds whole chunks, so its flush pads nothing. *)
THEOREM SuppressorHoldsChunks == Spec => []WholeChunksHeld
<1>1. IInv => WholeChunksHeld
  <2> SUFFICES ASSUME IInv PROVE WholeChunksHeld
    OBVIOUS
  <2>1. PICK k \in Nat : Len(Held(denoiser)) = k * ChunkSize
    BY DEF IInv, HeldInv, Whole
  <2>2. (k * ChunkSize) % ChunkSize = 0
    BY Sizes, Multiples
  <2> QED
    BY <2>1, <2>2 DEF WholeChunksHeld
<1> QED
  BY <1>1, CaptureInvariant, PTL
================================================================================
