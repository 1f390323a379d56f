------------------------- MODULE SubtitleServerProofs -------------------------
(***************************************************************************)
(* Proofs about SubtitleServer: whatever is broadcast reaches each client  *)
(* in order, at most once, and is lost only where a drop is counted; a     *)
(* join misses nothing and repeats no paced cue; a connection that is over *)
(* leaves nothing behind.  For any clients, capacities, policy and number  *)
(* of senders, and however the peers read.                                 *)
(*                                                                         *)
(* The argument: what a client was given, holds and waits for is one       *)
(* sequence, of which a broadcast appends to the end or drops one counted  *)
(* element, and which the connection only moves along; a payload still to  *)
(* be broadcast is in exactly one place, and in no client's sequence.      *)
(***************************************************************************)
EXTENDS SubtitleServer, SequenceTheorems, FiniteSetTheorems, TLAPS

(***************************************************************************)
(* The inductive invariant.                                                *)
(***************************************************************************)

Arriving == {"none", "handshake", "hello", "join"}
Joined == {"burst", "pump", "leave", "leave_quietly"}
Leaving == {"forget", "forget_quietly"}
Places == Arriving \cup Joined \cup Leaving \cup {"closed"}

TypeOK ==
    /\ history \in Seq(Nat) /\ paced \in Seq(Nat) /\ log \in Seq(Nat)
    /\ inFlight \subseteq Nat /\ themes \subseteq Nat
    /\ payloads \in Nat /\ replaying \in Nat /\ clientCount \in Nat
    /\ chan \in [Clients -> Seq(Nat)] /\ retry \in [Clients -> Seq(Nat)]
    /\ received \in [Clients -> Seq(Nat)] /\ offered \in [Clients -> Seq(Nat)]
    /\ hand \in [Clients -> Nat] /\ drops \in [Clients -> Nat] /\ since \in [Clients -> Nat]
    /\ registered \subseteq Clients /\ conn \in [Clients -> Places]
    /\ bound \in BOOLEAN /\ cancelled \in BOOLEAN
    /\ replayLoop \in {"none", "wait", "deliver", "done"}
    /\ stopPc \in {"idle", "clear", "reset", "join", "stopped"}

(* A replay loop that is started again took nothing over from the one before. *)
Control ==
    /\ stopPc # "idle" => cancelled /\ ~bound
    /\ stopPc = "idle" /\ ~bound => replayLoop = "none"
    /\ stopPc = "stopped" => replayLoop = "done"
    /\ replayLoop = "deliver" <=> replaying # 0

(* What the next payload is not. *)
Everywhere ==
    Range(history) \cup Range(paced) \cup Range(log) \cup inFlight \cup themes

Fresh ==
    /\ Everywhere \subseteq 1 .. payloads
    /\ replaying \in 0 .. payloads
    /\ \A c \in Clients : Range(Given(c)) \cup Range(offered[c]) \subseteq 1 .. payloads

(* Payloads that are to be broadcast are in one place each, and nowhere else. *)
Pending == inFlight \cup Range(paced) \cup ({replaying} \ {0})

Once(s) == \A i, j \in DOMAIN s : s[i] = s[j] => i = j

PendingInv ==
    /\ Once(paced) /\ inFlight \cap Range(paced) = {}
    /\ replaying \notin inFlight \cup Range(paced)
    /\ Range(log) \cap Pending = {}
    /\ \A c \in Clients : Range(Given(c)) \cap Pending = {}

(* Who is registered, and what a connection has before it joins and after it left. *)
ConnectionInv ==
    \A c \in Clients :
        /\ c \in registered => conn[c] \in Joined
        /\ conn[c] \in Arriving =>
               received[c] = <<>> /\ hand[c] = 0 /\ chan[c] = <<>> /\ drops[c] = 0
        /\ conn[c] \in Arriving \cup {"closed"} => retry[c] = <<>>
        /\ Len(chan[c]) <= ChannelSize
        /\ Range(retry[c]) \subseteq Range(log)

Counted == {c \in Clients : conn[c] \in {"hello", "join"} \cup Joined \cup Leaving}

CountInv == IsFiniteSet(Counted) /\ clientCount <= Cardinality(Counted)

(* p comes before q in s. *)
Before(s, p, q) == \E i, j \in DOMAIN s : i < j /\ s[i] = p /\ s[j] = q

(* What of s is in l comes in the order of l, and once. *)
InOrder(s, l) ==
    \A i, j \in DOMAIN s :
        i < j /\ s[i] \in Range(l) /\ s[j] \in Range(l) => Before(l, s[i], s[j])

(* Of what s has, what is in l. *)
Of(s, l) == Range(s) \cap Range(l)

Live(c) == Of(Given(c), log)

OrderInv ==
    /\ Once(log)
    /\ \A c \in Clients : InOrder(Given(c), log)

DropInv ==
    ~cancelled => \A c \in registered : Cardinality(Live(c)) + drops[c] = Len(log) - since[c]

(* The history has every cue that was broadcast or is on its way, unless it is full. *)
Sent == Range(log) \cup inFlight \cup ({replaying} \ {0})

HistoryInv ==
    /\ Len(history) <= ReplayMax
    /\ Len(history) < ReplayMax => Sent \subseteq Range(history) \cup themes
    /\ Range(history) \cap Range(paced) = {}
    /\ \A c \in registered : since[c] <= Len(log)
    /\ \A c \in registered : Range(offered[c]) \cap Range(paced) = {}

IInv ==
    /\ TypeOK /\ Control /\ Fresh /\ PendingInv /\ ConnectionInv /\ CountInv
    /\ OrderInv /\ DropInv /\ HistoryInv /\ PacedOnce /\ NoGapAtJoin

(***************************************************************************)
(* Ranges and orders of sequences.                                         *)
(***************************************************************************)

LEMMA RangeOfAppend ==
    ASSUME NEW s \in Seq(Nat), NEW x \in Nat
    PROVE  /\ Append(s, x) \in Seq(Nat) /\ Len(Append(s, x)) = Len(s) + 1
           /\ Range(Append(s, x)) = Range(s) \cup {x}
<1>1. /\ Append(s, x) \in Seq(Nat) /\ Len(Append(s, x)) = Len(s) + 1
      /\ DOMAIN Append(s, x) = 1 .. Len(s) + 1 /\ DOMAIN s = 1 .. Len(s) /\ Len(s) \in Nat
      /\ \A i \in 1 .. Len(s) : Append(s, x)[i] = s[i]
      /\ Append(s, x)[Len(s) + 1] = x
    BY AppendProperties
<1>2. Range(Append(s, x)) \subseteq Range(s) \cup {x}
  <2> SUFFICES ASSUME NEW i \in 1 .. Len(s) + 1 PROVE Append(s, x)[i] \in Range(s) \cup {x}
      BY <1>1 DEF Range
  <2>1. i \in 1 .. Len(s) \/ i = Len(s) + 1
      BY <1>1
  <2> QED
      BY <1>1, <2>1 DEF Range
<1>3. Range(s) \cup {x} \subseteq Range(Append(s, x))
  <2>1. 1 .. Len(s) \subseteq 1 .. Len(s) + 1 /\ Len(s) + 1 \in 1 .. Len(s) + 1
      BY <1>1
  <2> QED
      BY <1>1, <2>1 DEF Range
<1> QED
    BY <1>1, <1>2, <1>3

LEMMA RangeOfEmpty == Range(<<>>) = {}
BY DEF Range

LEMMA RangeOfTail ==
    ASSUME NEW s \in Seq(Nat), s # <<>>
    PROVE  /\ Tail(s) \in Seq(Nat) /\ Len(Tail(s)) = Len(s) - 1 /\ Head(s) \in Nat
           /\ Range(s) = {Head(s)} \cup Range(Tail(s))
<1>1. Len(s) > 0 /\ Tail(s) \in Seq(Nat) /\ Len(Tail(s)) = Len(s) - 1 /\ Head(s) = s[1]
    BY HeadTailProperties, EmptySeq
<1>2. \A i \in 1 .. Len(Tail(s)) : Tail(s)[i] = s[i + 1]
    BY HeadTailProperties
<1>3. Range(s) = {s[i] : i \in 1 .. Len(s)}
    BY RangeEquality
<1>4. Range(Tail(s)) = {s[i] : i \in 2 .. Len(s)}
  <2>1. Range(Tail(s)) = {Tail(s)[i] : i \in 1 .. Len(Tail(s))}
      BY <1>1, RangeEquality
  <2>2. ASSUME NEW i \in 2 .. Len(s) PROVE i - 1 \in 1 .. Len(Tail(s)) /\ Tail(s)[i - 1] = s[i]
    <3>1. i - 1 \in 1 .. Len(Tail(s)) /\ (i - 1) + 1 = i
        BY <1>1
    <3> QED
        BY <1>2, <3>1
  <2>3. \A i \in 1 .. Len(Tail(s)) : i + 1 \in 2 .. Len(s)
      BY <1>1
  <2>4. \A i \in 1 .. Len(Tail(s)) : Tail(s)[i] \in {s[j] : j \in 2 .. Len(s)}
      BY <2>3, <1>2
  <2>5. \A j \in 2 .. Len(s) : s[j] \in {Tail(s)[i] : i \in 1 .. Len(Tail(s))}
      BY <2>2
  <2> QED
      BY <2>1, <2>4, <2>5
<1>5. s[1] \in Nat
    BY <1>1, ElementOfSeq
<1> QED
    BY <1>1, <1>3, <1>4, <1>5

LEMMA TailOnce ==
    ASSUME NEW s \in Seq(Nat), s # <<>>, Once(s)
    PROVE  Once(Tail(s)) /\ Head(s) \notin Range(Tail(s))
<1>1. Len(s) > 0 /\ Tail(s) \in Seq(Nat) /\ Len(Tail(s)) = Len(s) - 1 /\ Head(s) = s[1]
    BY HeadTailProperties, EmptySeq
<1>2. \A i \in 1 .. Len(Tail(s)) : Tail(s)[i] = s[i + 1]
    BY HeadTailProperties
<1>3. /\ DOMAIN s = 1 .. Len(s) /\ DOMAIN Tail(s) = 1 .. Len(s) - 1
      /\ \A i \in DOMAIN Tail(s) : i + 1 \in DOMAIN s
      /\ 1 \in DOMAIN s /\ Len(s) \in Nat
    BY <1>1
<1>4. Once(Tail(s))
  <2> SUFFICES ASSUME NEW i \in DOMAIN Tail(s), NEW j \in DOMAIN Tail(s),
                      Tail(s)[i] = Tail(s)[j]
               PROVE  i = j
      BY DEF Once
  <2>1. s[i + 1] = s[j + 1]
      BY <1>1, <1>2, <1>3
  <2>2. i + 1 = j + 1
      BY <1>3, <2>1 DEF Once
  <2> QED
      BY <1>3, <2>2
<1>5. Head(s) \notin Range(Tail(s))
  <2> SUFFICES ASSUME NEW i \in DOMAIN Tail(s), Tail(s)[i] = s[1]
               PROVE  FALSE
      BY <1>1 DEF Range
  <2>1. s[i + 1] = s[1]
      BY <1>1, <1>2, <1>3
  <2>2. i + 1 = 1
      BY <1>3, <2>1 DEF Once
  <2> QED
      BY <1>3, <2>2
<1> QED
    BY <1>4, <1>5

LEMMA AppendOnce ==
    ASSUME NEW s \in Seq(Nat), NEW x \in Nat, Once(s), x \notin Range(s)
    PROVE  Once(Append(s, x))
BY DEF Once, Range

LEMMA BeforeAppend ==
    ASSUME NEW l \in Seq(Nat), NEW x \in Nat
    PROVE  /\ \A p, q : Before(l, p, q) => Before(Append(l, x), p, q)
           /\ \A p \in Range(l) : Before(Append(l, x), p, x)
<1>1. DOMAIN l = 1 .. Len(l) /\ DOMAIN Append(l, x) = 1 .. Len(l) + 1 /\ Len(l) \in Nat
    OBVIOUS
<1>2. /\ \A i \in DOMAIN l : Append(l, x)[i] = l[i]
      /\ Append(l, x)[Len(l) + 1] = x
    OBVIOUS
<1>3. ASSUME NEW p, NEW q, Before(l, p, q) PROVE Before(Append(l, x), p, q)
    BY <1>1, <1>2, <1>3 DEF Before
<1>4. ASSUME NEW p \in Range(l) PROVE Before(Append(l, x), p, x)
  <2>1. PICK i \in DOMAIN l : l[i] = p
      BY <1>4 DEF Range
  <2>2. i < Len(l) + 1 /\ i \in DOMAIN Append(l, x) /\ Len(l) + 1 \in DOMAIN Append(l, x)
      BY <1>1
  <2> QED
      BY <1>2, <2>1, <2>2 DEF Before
<1> QED
    BY <1>3, <1>4

LEMMA BeforeStrict ==
    ASSUME NEW l \in Seq(Nat), Once(l), NEW p
    PROVE  ~Before(l, p, p)
BY DEF Before, Once

(* A concatenation is in order if its parts are and the one comes before the other. *)
LEMMA OrderOfConcat ==
    ASSUME NEW s \in Seq(Nat), NEW t \in Seq(Nat), NEW l \in Seq(Nat)
    PROVE  InOrder(s \o t, l) <=>
               /\ InOrder(s, l) /\ InOrder(t, l)
               /\ \A p \in Range(s) \cap Range(l), q \in Range(t) \cap Range(l) : Before(l, p, q)
<1> DEFINE u == s \o t
<1>1. /\ DOMAIN s = 1 .. Len(s) /\ DOMAIN t = 1 .. Len(t) /\ DOMAIN u = 1 .. Len(s) + Len(t)
      /\ Len(s) \in Nat /\ Len(t) \in Nat
    BY ConcatProperties
<1>2. /\ \A i \in DOMAIN s : i \in DOMAIN u /\ u[i] = s[i]
      /\ \A j \in DOMAIN t : Len(s) + j \in DOMAIN u /\ u[Len(s) + j] = t[j]
  <2>1. \A i \in 1 .. Len(s) + Len(t) : u[i] = IF i <= Len(s) THEN s[i] ELSE t[i - Len(s)]
      BY ConcatProperties
  <2> HIDE DEF u
  <2>2. ASSUME NEW i \in DOMAIN s PROVE i \in DOMAIN u /\ u[i] = s[i]
      BY <1>1, <2>1
  <2>3. ASSUME NEW j \in DOMAIN t PROVE Len(s) + j \in DOMAIN u /\ u[Len(s) + j] = t[j]
    <3>1. Len(s) + j \in 1 .. Len(s) + Len(t) /\ ~(Len(s) + j <= Len(s)) /\ (Len(s) + j) - Len(s) = j
        BY <1>1
    <3> QED
        BY <1>1, <2>1, <3>1
  <2> QED
      BY <2>2, <2>3
<1>3. \A k \in DOMAIN u : k \in DOMAIN s \/ (\E j \in DOMAIN t : k = Len(s) + j)
  <2> SUFFICES ASSUME NEW k \in DOMAIN u, k \notin DOMAIN s
               PROVE  k - Len(s) \in DOMAIN t /\ k = Len(s) + (k - Len(s))
      OBVIOUS
  <2> HIDE DEF u
  <2> QED
      BY <1>1
<1> HIDE DEF u
<1>4. ASSUME InOrder(u, l)
      PROVE  /\ InOrder(s, l) /\ InOrder(t, l)
             /\ \A p \in Range(s) \cap Range(l), q \in Range(t) \cap Range(l) : Before(l, p, q)
  <2>1. InOrder(s, l)
      BY <1>2, <1>4 DEF InOrder
  <2>2. InOrder(t, l)
    <3> SUFFICES ASSUME NEW i \in DOMAIN t, NEW j \in DOMAIN t, i < j,
                        t[i] \in Range(l), t[j] \in Range(l)
                 PROVE  Before(l, t[i], t[j])
        BY DEF InOrder
    <3>1. Len(s) + i < Len(s) + j
        BY <1>1
    <3> QED
        BY <1>2, <1>4, <3>1 DEF InOrder
  <2>3. ASSUME NEW p \in Range(s) \cap Range(l), NEW q \in Range(t) \cap Range(l)
        PROVE  Before(l, p, q)
    <3>1. PICK i \in DOMAIN s : s[i] = p
        BY DEF Range
    <3>2. PICK j \in DOMAIN t : t[j] = q
        BY DEF Range
    <3>3. i < Len(s) + j
        BY <1>1
    <3> QED
        BY <1>2, <1>4, <3>1, <3>2, <3>3 DEF InOrder
  <2> QED
      BY <2>1, <2>2, <2>3
<1>5. ASSUME InOrder(s, l), InOrder(t, l),
             \A p \in Range(s) \cap Range(l), q \in Range(t) \cap Range(l) : Before(l, p, q)
      PROVE  InOrder(u, l)
  <2> SUFFICES ASSUME NEW i \in DOMAIN u, NEW j \in DOMAIN u, i < j,
                      u[i] \in Range(l), u[j] \in Range(l)
               PROVE  Before(l, u[i], u[j])
      BY DEF InOrder
  <2>1. CASE i \in DOMAIN s /\ j \in DOMAIN s
      BY <1>2, <1>5, <2>1 DEF InOrder
  <2>2. CASE i \in DOMAIN s /\ j \notin DOMAIN s
    <3>1. PICK k \in DOMAIN t : j = Len(s) + k
        BY <1>3, <2>2
    <3>2. u[i] \in Range(s) /\ u[j] \in Range(t)
        BY <1>2, <2>2, <3>1 DEF Range
    <3> QED
        BY <1>5, <3>2
  <2>3. CASE i \notin DOMAIN s
    <3>1. PICK k \in DOMAIN t : i = Len(s) + k
        BY <1>3, <2>3
    <3>2. j \notin DOMAIN s
        BY <1>1, <2>3, <3>1
    <3>3. PICK m \in DOMAIN t : j = Len(s) + m
        BY <1>3, <3>2
    <3>4. k < m
        BY <1>1, <3>1, <3>3
    <3> QED
        BY <1>2, <1>5, <3>1, <3>3, <3>4 DEF InOrder
  <2> QED
      BY <2>1, <2>2, <2>3
<1> QED
    BY <1>4, <1>5 DEF u

(* What is broadcast last is last wherever it is appended. *)
LEMMA OrderOfAppend ==
    ASSUME NEW s \in Seq(Nat), NEW l \in Seq(Nat), NEW x \in Nat, InOrder(s, l),
           x \notin Range(s)
    PROVE  InOrder(Append(s, x), Append(l, x)) /\ InOrder(s, Append(l, x))
<1>1. InOrder(s, Append(l, x))
  <2> SUFFICES ASSUME NEW i \in DOMAIN s, NEW j \in DOMAIN s, i < j,
                      s[i] \in Range(Append(l, x)), s[j] \in Range(Append(l, x))
               PROVE  Before(Append(l, x), s[i], s[j])
      BY DEF InOrder
  <2>1. s[i] \in Range(l) /\ s[j] \in Range(l)
    <3>1. s[i] \in Range(s) /\ s[j] \in Range(s)
        BY DEF Range
    <3> QED
        BY <3>1, RangeOfAppend
  <2> QED
      BY <2>1, BeforeAppend DEF InOrder
<1>2. InOrder(<<x>>, Append(l, x))
    BY DEF InOrder
<1>3. \A p \in Range(s) \cap Range(Append(l, x)), q \in Range(<<x>>) :
          Before(Append(l, x), p, q)
  <2>1. Range(<<x>>) = {x}
      BY DEF Range
  <2> QED
      BY <2>1, BeforeAppend, RangeOfAppend
<1>4. Append(s, x) = s \o <<x>> /\ <<x>> \in Seq(Nat)
  <2>1. Append(s, x) = s \o <<x>>
      BY AppendIsConcat
  <2> QED
      BY <2>1
<1> QED
    BY <1>1, <1>2, <1>3, <1>4, OrderOfConcat, RangeOfAppend

(* What is dropped, or was never broadcast, is of no consequence for the order. *)
LEMMA OrderWithout ==
    ASSUME NEW u \in Seq(Nat), NEW m \in Seq(Nat), NEW v \in Seq(Nat), NEW l \in Seq(Nat)
    PROVE  /\ InOrder(u \o m \o v, l) => InOrder(u \o v, l)
           /\ Range(m) \cap Range(l) = {} /\ InOrder(u \o v, l) => InOrder(u \o m \o v, l)
<1>1. u \o m \in Seq(Nat) /\ Range(u \o m) = Range(u) \cup Range(m)
    BY ConcatProperties, RangeConcatenation
<1>2. /\ InOrder(u \o m \o v, l) <=>
             /\ InOrder(u \o m, l) /\ InOrder(v, l)
             /\ \A p \in Range(u \o m) \cap Range(l), q \in Range(v) \cap Range(l) : Before(l, p, q)
      /\ InOrder(u \o m, l) <=>
             /\ InOrder(u, l) /\ InOrder(m, l)
             /\ \A p \in Range(u) \cap Range(l), q \in Range(m) \cap Range(l) : Before(l, p, q)
      /\ InOrder(u \o v, l) <=>
             /\ InOrder(u, l) /\ InOrder(v, l)
             /\ \A p \in Range(u) \cap Range(l), q \in Range(v) \cap Range(l) : Before(l, p, q)
    BY <1>1, OrderOfConcat
<1>3. Range(m) \cap Range(l) = {} => InOrder(m, l)
    BY DEF InOrder, Range
<1> QED
    BY <1>1, <1>2, <1>3

(***************************************************************************)
(* What a client was given, holds and waits for, as one sequence.          *)
(***************************************************************************)

InHand(h) == IF h = 0 THEN <<>> ELSE <<h>>

LEMMA GivenIs == \A c \in Clients :
    /\ Given(c) = received[c] \o InHand(hand[c]) \o chan[c] \o retry[c]
    /\ Given(c)' = received'[c] \o InHand(hand'[c]) \o chan'[c] \o retry'[c]
BY DEF Given, InHand

LEMMA Concatenations ==
    /\ \A s, t \in Seq(Nat) : s \o t \in Seq(Nat) /\ Range(s \o t) = Range(s) \cup Range(t)
    /\ \A s, t, u \in Seq(Nat) : s \o t \o u = s \o (t \o u)
BY ConcatProperties, RangeConcatenation, ConcatAssociative

LEMMA ConcatAssoc ==
    ASSUME NEW s \in Seq(Nat), NEW t \in Seq(Nat), NEW u \in Seq(Nat)
    PROVE  (s \o t) \o u = s \o (t \o u)
BY ConcatAssociative

LEMMA AppendRegroup ==
    ASSUME NEW s \in Seq(Nat), NEW t \in Seq(Nat), NEW p \in Nat
    PROVE  Append(s \o t, p) = s \o Append(t, p)
<1>1. s \o t \in Seq(Nat) /\ <<p>> \in Seq(Nat)
    BY Concatenations
<1>2. PICK y \in Seq(Nat) : y = <<p>>
    BY <1>1
<1>3. Append(s \o t, p) = (s \o t) \o y /\ Append(t, p) = t \o y
    BY <1>1, <1>2, AppendIsConcat
<1>4. (s \o t) \o y = s \o (t \o y)
    BY ConcatAssoc
<1> QED
    BY <1>3, <1>4

LEMMA HeadAndTail ==
    ASSUME NEW s \in Seq(Nat), s # <<>>
    PROVE  <<Head(s)>> \in Seq(Nat) /\ s = <<Head(s)>> \o Tail(s)
<1>1. Head(s) \in Nat /\ Tail(s) \in Seq(Nat)
    BY HeadTailProperties
<1>2. <<Head(s)>> \in Seq(Nat)
    BY <1>1
<1>3. s = <<Head(s)>> \o Tail(s)
    OBVIOUS
<1> QED
    BY <1>2, <1>3

LEMMA GivenParts ==
    ASSUME NEW r \in Seq(Nat), NEW h \in Nat, NEW s \in Seq(Nat), NEW t \in Seq(Nat)
    PROVE  /\ InHand(h) \in Seq(Nat) /\ Range(InHand(h)) = {h} \ {0}
           /\ r \o InHand(h) \o s \in Seq(Nat)
           /\ r \o InHand(h) \o s \o t \in Seq(Nat)
           /\ Range(r \o InHand(h) \o s \o t) =
                  Range(r) \cup ({h} \ {0}) \cup Range(s) \cup Range(t)
<1>1. InHand(h) \in Seq(Nat) /\ Range(InHand(h)) = {h} \ {0}
    BY DEF InHand, Range
<1> DEFINE a == r \o InHand(h)
           b == a \o s
<1>2. a \in Seq(Nat) /\ Range(a) = Range(r) \cup ({h} \ {0})
    BY <1>1, Concatenations
<1> HIDE DEF a
<1>3. b \in Seq(Nat) /\ Range(b) = Range(a) \cup Range(s)
    BY <1>2, Concatenations
<1> HIDE DEF b
<1>4. b \o t \in Seq(Nat) /\ Range(b \o t) = Range(b) \cup Range(t)
    BY <1>3, Concatenations
<1> QED
    BY <1>1, <1>2, <1>3, <1>4 DEF a, b

(* The connection takes the next payload from its channel ... *)
LEMMA GivenTaken ==
    ASSUME NEW r \in Seq(Nat), NEW s \in Seq(Nat), NEW t \in Seq(Nat), s # <<>>, Head(s) # 0
    PROVE  r \o InHand(Head(s)) \o Tail(s) \o t = r \o InHand(0) \o s \o t
<1>1. InHand(0) = <<>> /\ r \o InHand(0) = r
    BY ConcatEmptySeq DEF InHand
<1>2. Head(s) \in Nat /\ Tail(s) \in Seq(Nat) /\ InHand(Head(s)) = <<Head(s)>>
    BY HeadTailProperties DEF InHand
<1>3. <<Head(s)>> \o Tail(s) = s
    BY HeadAndTail
<1>4. <<Head(s)>> \in Seq(Nat)
    BY <1>2
<1>5. r \o <<Head(s)>> \o Tail(s) = r \o s
    BY <1>2, <1>3, <1>4, Concatenations
<1> QED
    BY <1>1, <1>2, <1>5

(* ... and sends it. *)
LEMMA GivenSent ==
    ASSUME NEW r \in Seq(Nat), NEW h \in Nat, h # 0, NEW s \in Seq(Nat), NEW t \in Seq(Nat)
    PROVE  Append(r, h) \o InHand(0) \o s \o t = r \o InHand(h) \o s \o t
<1>1. Append(r, h) = r \o <<h>> /\ Append(r, h) \in Seq(Nat)
    BY AppendIsConcat
<1>2. InHand(0) = <<>> /\ InHand(h) = <<h>>
    BY DEF InHand
<1>3. Append(r, h) \o InHand(0) = Append(r, h)
    BY <1>1, <1>2, ConcatEmptySeq
<1> QED
    BY <1>1, <1>2, <1>3

(* The first k of what waits, t and then p, and the rest of it. *)
Splits(t, p, k, x, v) ==
    /\ x = SubSeq(Append(t, p), 1, k) /\ v = SubSeq(Append(t, p), k + 1, Len(Append(t, p)))
    /\ Len(x) = k /\ Range(v) \subseteq Range(t) \cup {p}
    /\ x \o v = Append(t, p)

LEMMA QueueSplit ==
    ASSUME NEW t \in Seq(Nat), NEW p \in Nat, NEW k \in 0 .. Len(t) + 1
    PROVE  \E x, v \in Seq(Nat) : Splits(t, p, k, x, v)
<1>9. PICK w \in Seq(Nat) : w = Append(t, p)
    BY RangeOfAppend
<1>0. PICK x, v : x = SubSeq(w, 1, k) /\ v = SubSeq(w, k + 1, Len(w))
    OBVIOUS
<1>1. w \in Seq(Nat) /\ Len(w) = Len(t) + 1 /\ Range(w) = Range(t) \cup {p} /\ Len(t) \in Nat
    BY <1>9, RangeOfAppend
<1>2. \A i \in 1 .. Len(w) : w[i] \in Nat /\ w[i] \in Range(w)
    BY <1>1, ElementOfSeq, RangeEquality
<1>3. x \in Seq(Nat) /\ Len(x) = k
  <2>1. \A i \in 1 .. k : w[i] \in Nat
      BY <1>1, <1>2
  <2> QED
      BY <1>0, <2>1, SubSeqProperties
<1>4. v \in Seq(Nat) /\ Len(v) = Len(t) + 1 - k /\ Range(v) \subseteq Range(w)
  <2>1. \A i \in k + 1 .. Len(w) : w[i] \in Nat
    <3>1. k + 1 .. Len(w) \subseteq 1 .. Len(w)
        BY <1>1
    <3> QED
        BY <1>2, <3>1
  <2>2. v \in Seq(Nat) /\ Len(v) = Len(t) + 1 - k
      BY <1>0, <2>1, <1>1, SubSeqProperties
  <2>3. \A i \in k + 1 .. Len(w) : w[i] \in Range(w)
      BY <1>1, <1>2
  <2>4. v \in Seq(Range(w))
      BY <1>0, <2>3, <1>1, SubSeqProperties
  <2> QED
      BY <2>2, <2>4, RangeOfSeq
<1>5. x \o v = w
  <2>1. /\ 1 \in 1 .. Len(w) + 1 /\ k \in 1 - 1 .. Len(w) /\ Len(w) \in k .. Len(w)
        /\ SubSeq(w, 1, k) \o SubSeq(w, k + 1, Len(w)) = SubSeq(w, 1, Len(w))
    <3>1. /\ 1 \in 1 .. Len(w) + 1 /\ k \in 1 - 1 .. Len(w) /\ Len(w) \in k .. Len(w)
        BY <1>1
    <3> QED
        BY <1>1, <3>1, ConcatAdjacentSubSeq
  <2>2. SubSeq(w, 1, Len(w)) = w
      BY <1>1, SubSeqFull
  <2> QED
      BY <1>0, <2>1, <2>2
<1> QED
    BY <1>0, <1>1, <1>3, <1>4, <1>5, <1>9 DEF Splits

(* A channel s that takes x hands what follows a over in the order it waits. *)
HandsOver(a, s, t, p, x, v, u) ==
    /\ s \o x \in Seq(Nat) /\ Len(s \o x) = Len(s) + Len(x)
    /\ u = a \o (s \o x)
    /\ x \o v = Append(t, p) => Append(a \o s \o t, p) = u \o v

LEMMA GivenSplit ==
    ASSUME NEW a \in Seq(Nat), NEW s \in Seq(Nat), NEW t \in Seq(Nat), NEW p \in Nat,
           NEW x \in Seq(Nat), NEW v \in Seq(Nat)
    PROVE  \E u \in Seq(Nat) : HandsOver(a, s, t, p, x, v, u)
<1>1. s \o x \in Seq(Nat) /\ Len(s \o x) = Len(s) + Len(x)
    BY ConcatProperties
<1>2. a \o (s \o x) \in Seq(Nat)
    BY <1>1, Concatenations
<1>3. (a \o (s \o x)) \o v = (a \o s) \o (x \o v)
  <2>1. a \o s \in Seq(Nat) /\ a \o (s \o x) = (a \o s) \o x
      BY Concatenations
  <2>2. PICK b \in Seq(Nat) : b = a \o s
      BY <2>1
  <2>3. (b \o x) \o v = b \o (x \o v)
      BY ConcatAssoc
  <2> QED
      BY <2>1, <2>2, <2>3
<1>4. Append(a \o s \o t, p) = a \o s \o Append(t, p)
  <2>1. a \o s \in Seq(Nat)
      BY Concatenations
  <2>2. PICK b \in Seq(Nat) : b = a \o s
      BY <2>1
  <2>3. Append(b \o t, p) = b \o Append(t, p)
      BY AppendRegroup
  <2> QED
      BY <2>2, <2>3
<1> QED
    BY <1>1, <1>2, <1>3, <1>4 DEF HandsOver

LEMMA HeadApart ==
    ASSUME NEW u \in Seq(Nat), NEW v \in Seq(Nat), v # <<>>
    PROVE  /\ <<Head(v)>> \in Seq(Nat) /\ Tail(v) \in Seq(Nat)
           /\ Head(v) \in Range(v) /\ Range(Tail(v)) \subseteq Range(v)
           /\ u \o v = u \o <<Head(v)>> \o Tail(v)
<1>1. /\ <<Head(v)>> \in Seq(Nat) /\ Tail(v) \in Seq(Nat) /\ v = <<Head(v)>> \o Tail(v)
      /\ Head(v) \in Range(v) /\ Range(Tail(v)) \subseteq Range(v)
    BY HeadAndTail, RangeOfTail
<1>2. PICK y \in Seq(Nat), z \in Seq(Nat) : y = <<Head(v)>> /\ z = Tail(v)
    BY <1>1
<1>3. (u \o y) \o z = u \o (y \o z)
    BY ConcatAssoc
<1> QED
    BY <1>1, <1>2, <1>3

(* g, with p appended to it and without d elements of t and p, is h. *)
GivenAfter(g, h, p, t, d) ==
    \E u, m, v \in Seq(Nat) :
        /\ Append(g, p) = u \o m \o v
        /\ h = u \o v
        /\ \/ m = <<>> /\ d = 0
           \/ \E y \in Range(t) \cup {p} : m = <<y>> /\ d = 1

(* The channel s takes k of what waits, x, and v stays. *)
QueueStep(a, s, t, p, k, x, v) ==
    /\ x = SubSeq(Append(t, p), 1, k) /\ v = SubSeq(Append(t, p), k + 1, Len(Append(t, p)))
    /\ s \o x \in Seq(Nat) /\ Len(s \o x) = Len(s) + k
    /\ v \in Seq(Nat) /\ Range(v) \subseteq Range(t) \cup {p}
    /\ GivenAfter(a \o s \o t, a \o (s \o x) \o v, p, t, 0)
    /\ v # <<>> =>
           /\ Tail(v) \in Seq(Nat) /\ Range(Tail(v)) \subseteq Range(t) \cup {p}
           /\ GivenAfter(a \o s \o t, a \o (s \o x) \o Tail(v), p, t, 1)

LEMMA QueueSteps ==
    ASSUME NEW a \in Seq(Nat), NEW s \in Seq(Nat), NEW t \in Seq(Nat), NEW p \in Nat,
           NEW k \in 0 .. Len(t) + 1
    PROVE  \E x, v \in Seq(Nat) : QueueStep(a, s, t, p, k, x, v)
<1>1. PICK x \in Seq(Nat), v \in Seq(Nat) : Splits(t, p, k, x, v)
    BY QueueSplit
<1>2. PICK u \in Seq(Nat) : HandsOver(a, s, t, p, x, v, u)
    BY GivenSplit
<1>3. Range(v) \subseteq Range(t) \cup {p}
    BY <1>1 DEF Splits
<1>4. s \o x \in Seq(Nat) /\ Len(s \o x) = Len(s) + k
    BY <1>1, <1>2 DEF Splits, HandsOver
<1>5. Append(a \o s \o t, p) = u \o v
    BY <1>1, <1>2 DEF Splits, HandsOver
<1>6. GivenAfter(a \o s \o t, u \o v, p, t, 0)
  <2>1. <<>> \in Seq(Nat) /\ u \o <<>> = u
      BY ConcatEmptySeq
  <2> QED
      BY <1>5, <2>1 DEF GivenAfter
<1>7. ASSUME v # <<>>
      PROVE  /\ Tail(v) \in Seq(Nat) /\ Range(Tail(v)) \subseteq Range(t) \cup {p}
             /\ GivenAfter(a \o s \o t, u \o Tail(v), p, t, 1)
  <2>1. /\ <<Head(v)>> \in Seq(Nat) /\ Tail(v) \in Seq(Nat)
        /\ Head(v) \in Range(v) /\ Range(Tail(v)) \subseteq Range(v)
        /\ u \o v = u \o <<Head(v)>> \o Tail(v)
      BY <1>7, HeadApart
  <2>2. Head(v) \in Range(t) \cup {p} /\ Range(Tail(v)) \subseteq Range(t) \cup {p}
      BY <1>3, <2>1
  <2>3. Append(a \o s \o t, p) = u \o <<Head(v)>> \o Tail(v)
      BY <1>5, <2>1
  <2> QED
      BY <2>1, <2>2, <2>3 DEF GivenAfter
<1> QED
    BY <1>1, <1>2, <1>3, <1>4, <1>6, <1>7 DEF QueueStep, Splits, HandsOver

(* What a broadcast does to one client. *)
LEMMA BroadcastGives ==
    ASSUME TypeOK, ServerAssumption, NEW p \in Nat, BroadcastRaw(p),
           UNCHANGED <<hand, received>>, NEW c \in Clients, Len(chan[c]) <= ChannelSize
    PROVE  /\ chan'[c] \in Seq(Nat) /\ retry'[c] \in Seq(Nat) /\ drops'[c] \in Nat
           /\ Len(chan'[c]) <= ChannelSize
           /\ Range(retry'[c]) \subseteq Range(retry[c]) \cup {p}
           /\ c \notin registered =>
                  /\ Given(c)' = Given(c) /\ chan'[c] = chan[c] /\ retry'[c] = retry[c]
                  /\ drops'[c] = drops[c]
           /\ c \in registered =>
                  \/ GivenAfter(Given(c), Given(c)', p, retry[c], 0) /\ drops'[c] = drops[c]
                  \/ GivenAfter(Given(c), Given(c)', p, retry[c], 1) /\ drops'[c] = drops[c] + 1
<1>1. /\ received[c] \in Seq(Nat) /\ hand[c] \in Nat /\ chan[c] \in Seq(Nat)
      /\ retry[c] \in Seq(Nat) /\ drops[c] \in Nat
    BY DEF TypeOK
<1>2. PICK a \in Seq(Nat) : a = received[c] \o InHand(hand[c])
  <2>1. InHand(hand[c]) \in Seq(Nat)
      BY <1>1, GivenParts
  <2> QED
      BY <1>1, <2>1, Concatenations
<1>3. /\ Given(c) = a \o chan[c] \o retry[c]
      /\ Given(c)' = a \o chan'[c] \o retry'[c]
    BY <1>2, GivenIs
<1>4. PICK n \in Nat, m \in Nat : n = Len(chan[c]) /\ m = Len(retry[c])
    BY <1>1
<1>5. Taken(c, p) \in 0 .. m + 1 /\ Taken(c, p) <= ChannelSize - n
  <2>1. Len(Waiting(c, p)) = m + 1
      BY <1>1, <1>4, RangeOfAppend DEF Waiting
  <2>2. Taken(c, p) = IF m + 1 < ChannelSize - n THEN m + 1 ELSE ChannelSize - n
      BY <1>4, <2>1 DEF Taken
  <2>3. n <= ChannelSize /\ ChannelSize \in Nat
      BY <1>4 DEF ServerAssumption
  <2> QED
      BY <2>2, <2>3
<1>6. PICK x, v : QueueStep(a, chan[c], retry[c], p, Taken(c, p), x, v)
    BY <1>1, <1>4, <1>5, QueueSteps
<1>7. /\ SubSeq(Waiting(c, p), 1, Taken(c, p)) = x /\ StillWaiting(c, p) = v
      /\ chan[c] \o x \in Seq(Nat) /\ Len(chan[c] \o x) = Len(chan[c]) + Taken(c, p)
      /\ v \in Seq(Nat) /\ Range(v) \subseteq Range(retry[c]) \cup {p}
      /\ GivenAfter(Given(c), a \o (chan[c] \o x) \o v, p, retry[c], 0)
      /\ v # <<>> =>
             /\ Tail(v) \in Seq(Nat) /\ Range(Tail(v)) \subseteq Range(retry[c]) \cup {p}
             /\ GivenAfter(Given(c), a \o (chan[c] \o x) \o Tail(v), p, retry[c], 1)
    BY <1>3, <1>6, Zenon DEF QueueStep, Waiting, StillWaiting
<1>8. /\ c \in registered => chan'[c] = chan[c] \o x
      /\ c \notin registered =>
             chan'[c] = chan[c] /\ retry'[c] = retry[c] /\ drops'[c] = drops[c]
      /\ c \in registered /\ Overflows(c, p) => retry'[c] = Tail(v) /\ drops'[c] = drops[c] + 1
      /\ c \in registered /\ ~Overflows(c, p) => retry'[c] = v /\ drops'[c] = drops[c]
    BY <1>7 DEF BroadcastRaw
<1>9. Overflows(c, p) => v # <<>>
  <2>1. Overflows(c, p) => Len(v) > MaxRetry
      BY <1>7 DEF Overflows
  <2> QED
      BY <2>1, <1>7 DEF ServerAssumption
<1>10. CASE c \notin registered
    BY <1>1, <1>3, <1>8, <1>10
<1>11. CASE c \in registered
  <2>1. chan'[c] \in Seq(Nat) /\ Len(chan'[c]) <= ChannelSize
    <3>1. PICK k \in Nat : k = Taken(c, p) /\ k <= ChannelSize - n
        BY <1>5
    <3>2. chan'[c] = chan[c] \o x /\ Len(chan[c] \o x) = n + k /\ chan[c] \o x \in Seq(Nat)
        BY <1>4, <1>7, <1>8, <1>11, <3>1
    <3>3. n + k <= ChannelSize
        BY <3>1 DEF ServerAssumption
    <3> QED
        BY <3>2, <3>3
  <2>2. CASE Overflows(c, p)
    <3>1. v # <<>>
        BY <1>9, <2>2
    <3>2. retry'[c] = Tail(v) /\ drops'[c] = drops[c] + 1 /\ chan'[c] = chan[c] \o x
        BY <1>8, <1>11, <2>2
    <3>3. /\ Tail(v) \in Seq(Nat) /\ Range(Tail(v)) \subseteq Range(retry[c]) \cup {p}
          /\ GivenAfter(Given(c), a \o (chan[c] \o x) \o Tail(v), p, retry[c], 1)
        BY <1>7, <3>1
    <3>4. GivenAfter(Given(c), Given(c)', p, retry[c], 1)
        BY <1>3, <3>2, <3>3
    <3>5. drops'[c] \in Nat
        BY <1>1, <3>2
    <3> QED
        BY <1>11, <2>1, <3>2, <3>3, <3>4, <3>5
  <2>3. CASE ~Overflows(c, p)
      BY <1>1, <1>3, <1>7, <1>8, <1>11, <2>1, <2>3
  <2> QED
      BY <2>2, <2>3
<1> QED
    BY <1>10, <1>11

(***************************************************************************)
(* What that does to the order and the number of what was broadcast.       *)
(***************************************************************************)

LEMMA RangeFinite ==
    ASSUME NEW s \in Seq(Nat)
    PROVE  IsFiniteSet(Range(s)) /\ Cardinality(Range(s)) \in Nat
<1>1. s \in [1 .. Len(s) -> Range(s)] /\ Len(s) \in Nat
    BY DEF Range
<1>2. \A x \in Range(s) : \E i \in 1 .. Len(s) : s[i] = x
    BY DEF Range
<1>3. s \in Surjection(1 .. Len(s), Range(s))
    BY <1>1, <1>2 DEF Surjection, Range
<1>4. IsFiniteSet(1 .. Len(s))
    BY <1>1, FS_Interval
<1> QED
    BY <1>3, <1>4, FS_Surjection, FS_CardinalityType

LEMMA AfterRange ==
    ASSUME NEW g \in Seq(Nat), NEW h, NEW p \in Nat, NEW t, NEW d, GivenAfter(g, h, p, t, d)
    PROVE  h \in Seq(Nat) /\ Range(h) \subseteq Range(g) \cup {p}
<1>1. PICK u \in Seq(Nat), m \in Seq(Nat), v \in Seq(Nat) :
          Append(g, p) = u \o m \o v /\ h = u \o v
    BY DEF GivenAfter
<1>2. Range(h) = Range(u) \cup Range(v) /\ h \in Seq(Nat)
    BY <1>1, Concatenations
<1>3. PICK w \in Seq(Nat) : w = u \o m /\ Range(w) = Range(u) \cup Range(m)
    BY Concatenations
<1>4. Range(w \o v) = Range(w) \cup Range(v)
    BY Concatenations
<1>5. Range(Append(g, p)) = Range(g) \cup {p}
    BY RangeOfAppend
<1> QED
    BY <1>1, <1>2, <1>3, <1>4, <1>5

LEMMA AfterOrder ==
    ASSUME NEW g \in Seq(Nat), NEW h, NEW p \in Nat, NEW t, NEW d, GivenAfter(g, h, p, t, d),
           NEW l \in Seq(Nat), InOrder(g, l), p \notin Range(g)
    PROVE  InOrder(h, Append(l, p))
<1>1. PICK u \in Seq(Nat), m \in Seq(Nat), v \in Seq(Nat) :
          Append(g, p) = u \o m \o v /\ h = u \o v
    BY DEF GivenAfter
<1>2. PICK k \in Seq(Nat) : k = Append(l, p)
    BY RangeOfAppend
<1>3. InOrder(Append(g, p), k)
    BY <1>2, OrderOfAppend
<1>4. InOrder(u \o m \o v, k) => InOrder(u \o v, k)
    BY OrderWithout
<1> QED
    BY <1>1, <1>2, <1>3, <1>4

(* An element that was broadcast is in one place of a sequence that is in order. *)
LEMMA OrderApart ==
    ASSUME NEW u \in Seq(Nat), NEW m \in Seq(Nat), NEW v \in Seq(Nat), NEW l \in Seq(Nat),
           Once(l), InOrder(u \o m \o v, l), NEW y \in Range(m) \cap Range(l)
    PROVE  y \notin Range(u) /\ y \notin Range(v)
<1>1. PICK w \in Seq(Nat) : w = u \o m /\ Range(w) = Range(u) \cup Range(m)
    BY Concatenations
<1>2. /\ InOrder(w, l)
      /\ \A p \in Range(w) \cap Range(l), q \in Range(v) \cap Range(l) : Before(l, p, q)
    BY <1>1, OrderOfConcat
<1>3. \A p \in Range(u) \cap Range(l), q \in Range(m) \cap Range(l) : Before(l, p, q)
    BY <1>1, <1>2, OrderOfConcat
<1>4. ~Before(l, y, y)
    BY BeforeStrict
<1> QED
    BY <1>1, <1>2, <1>3, <1>4

LEMMA AfterCount ==
    ASSUME NEW g \in Seq(Nat), NEW h \in Seq(Nat), NEW p \in Nat,
           NEW t \in Seq(Nat), NEW l \in Seq(Nat), InOrder(g, l), Once(l),
           p \notin Range(g), p \notin Range(l), Range(t) \subseteq Range(l)
    PROVE  /\ GivenAfter(g, h, p, t, 0) =>
                  Cardinality(Of(h, Append(l, p))) = Cardinality(Of(g, l)) + 1
           /\ GivenAfter(g, h, p, t, 1) =>
                  Cardinality(Of(h, Append(l, p))) = Cardinality(Of(g, l))
<1>9. PICK old, new : /\ old = Range(g) \cap Range(l)
                      /\ new = Range(Append(g, p)) \cap Range(Append(l, p))
    OBVIOUS
<1>1. IsFiniteSet(old) /\ Cardinality(old) \in Nat
  <2>1. IsFiniteSet(Range(l))
      BY RangeFinite
  <2>2. old \in SUBSET Range(l)
      BY <1>9
  <2> QED
      BY <2>1, <2>2, FS_Subset, FS_CardinalityType
<1>2. new = old \cup {p} /\ p \notin old
    BY <1>9, RangeOfAppend
<1>3. IsFiniteSet(new) /\ Cardinality(new) = Cardinality(old) + 1
    BY <1>1, <1>2, FS_AddElement
<1>4. ASSUME GivenAfter(g, h, p, t, 0)
      PROVE  Cardinality(Range(h) \cap Range(Append(l, p))) = Cardinality(old) + 1
  <2>0. PICK d : d = 0
      OBVIOUS
  <2>1. PICK u \in Seq(Nat), m \in Seq(Nat), v \in Seq(Nat) :
            Append(g, p) = u \o m \o v /\ h = u \o v /\ m = <<>>
    <3>1. GivenAfter(g, h, p, t, d) /\ d # 1
        BY <1>4, <2>0
    <3> QED
        BY <3>1 DEF GivenAfter
  <2>2. h = Append(g, p)
    <3>1. u \o m = u
        BY <2>1, ConcatEmptySeq
    <3> QED
        BY <2>1, <3>1
  <2> QED
      BY <1>3, <1>9, <2>2
<1>5. ASSUME GivenAfter(g, h, p, t, 1)
      PROVE  Cardinality(Range(h) \cap Range(Append(l, p))) = Cardinality(old)
  <2>0. PICK u \in Seq(Nat), m \in Seq(Nat), v \in Seq(Nat), y \in Range(t) \cup {p} :
            Append(g, p) = u \o m \o v /\ h = u \o v /\ m = <<y>>
    <3>1. PICK d : d = 1
        OBVIOUS
    <3>2. GivenAfter(g, h, p, t, d) /\ d # 0
        BY <1>5, <3>1
    <3> QED
        BY <3>2 DEF GivenAfter
  <2>1. PICK k \in Seq(Nat) : k = Append(l, p) /\ Range(k) = Range(l) \cup {p} /\ Once(k)
      BY RangeOfAppend, AppendOnce
  <2>2. Range(m) = {y} /\ y \in Range(k)
    <3>1. Range(<<y>>) = {y}
        BY DEF Range
    <3> QED
        BY <2>0, <2>1, <3>1
  <2>3. InOrder(u \o m \o v, k)
    <3>1. InOrder(Append(g, p), Append(l, p))
        BY OrderOfAppend
    <3> QED
        BY <2>0, <2>1, <3>1
  <2>4. y \notin Range(u) /\ y \notin Range(v)
      BY <2>1, <2>2, <2>3, OrderApart
  <2>5. Range(h) = Range(u) \cup Range(v)
      BY <2>0, Concatenations
  <2>6. PICK w \in Seq(Nat) : w = u \o m /\ Range(w) = Range(u) \cup Range(m)
      BY Concatenations
  <2>7. Range(w \o v) = Range(w) \cup Range(v)
      BY Concatenations
  <2>8. Range(Append(g, p)) = Range(u) \cup {y} \cup Range(v)
      BY <2>0, <2>2, <2>6, <2>7
  <2>9. Range(h) \cap Range(Append(l, p)) = new \ {y} /\ y \in new
      BY <1>9, <2>1, <2>2, <2>4, <2>5, <2>8
  <2>10. Cardinality(new \ {y}) = Cardinality(new) - 1
      BY <1>3, <2>9, FS_RemoveElement
  <2> QED
    <3>1. Cardinality(Range(h) \cap Range(Append(l, p))) = Cardinality(new) - 1
        BY <2>9, <2>10
    <3>2. PICK n \in Nat : n = Cardinality(old)
        BY <1>1
    <3> QED
        BY <1>3, <3>1, <3>2
<1> QED
    BY <1>4, <1>5, <1>9 DEF Of

(* An acoustic payload goes into the channel, past what waits. *)
LEMMA GivenInserts ==
    ASSUME NEW a \in Seq(Nat), NEW s \in Seq(Nat), NEW t \in Seq(Nat), NEW q \in Nat
    PROVE  /\ a \o Append(s, q) \o t \in Seq(Nat)
           /\ Range(a \o Append(s, q) \o t) = Range(a \o s \o t) \cup {q}
           /\ \A l \in Seq(Nat) :
                  q \notin Range(l) /\ InOrder(a \o s \o t, l) => InOrder(a \o Append(s, q) \o t, l)
<1>1. PICK b \in Seq(Nat) : b = a \o s
    BY Concatenations
<1>2. PICK m \in Seq(Nat) : m = <<q>>
  <2>1. <<q>> \in Seq(Nat)
      OBVIOUS
  <2> QED
      BY <2>1
<1>3. Range(m) = {q}
    BY <1>2 DEF Range
<1>4. a \o Append(s, q) = b \o m
  <2>1. Append(a \o s, q) = a \o Append(s, q)
      BY AppendRegroup
  <2>2. Append(b, q) = b \o <<q>>
      BY AppendIsConcat
  <2> QED
      BY <1>1, <1>2, <2>1, <2>2
<1>5. PICK c \in Seq(Nat) : c = b \o m /\ Range(c) = Range(b) \cup Range(m)
    BY Concatenations
<1>6. c \o t \in Seq(Nat) /\ Range(c \o t) = Range(c) \cup Range(t)
    BY Concatenations
<1>7. Range(b \o t) = Range(b) \cup Range(t)
    BY Concatenations
<1>8. ASSUME NEW l \in Seq(Nat), q \notin Range(l), InOrder(b \o t, l)
      PROVE  InOrder(b \o m \o t, l)
    BY <1>3, <1>8, OrderWithout
<1> QED
    BY <1>1, <1>3, <1>4, <1>5, <1>6, <1>7, <1>8

(* Queues that are discarded take their payloads with them. *)
LEMMA GivenCut ==
    ASSUME NEW a \in Seq(Nat), NEW s \in Seq(Nat), NEW t \in Seq(Nat), NEW l \in Seq(Nat)
    PROVE  /\ Range(a \o s \o <<>>) \subseteq Range(a \o s \o t)
           /\ Range(a \o <<>> \o <<>>) \subseteq Range(a \o s \o t)
           /\ InOrder(a \o s \o t, l) => InOrder(a \o s \o <<>>, l) /\ InOrder(a \o <<>> \o <<>>, l)
<1>1. PICK b \in Seq(Nat) : b = a \o s /\ Range(b) = Range(a) \cup Range(s)
    BY Concatenations
<1>2. b \o <<>> = b /\ a \o <<>> = a
    BY ConcatEmptySeq
<1>3. Range(b \o t) = Range(b) \cup Range(t)
    BY Concatenations
<1>4. InOrder(b \o t, l) => InOrder(b, l)
    BY OrderOfConcat
<1>5. InOrder(a \o s, l) => InOrder(a, l)
    BY OrderOfConcat
<1> QED
    BY <1>1, <1>2, <1>3, <1>4, <1>5

(***************************************************************************)
(* The steps, by what they do to the payloads.                             *)
(***************************************************************************)

(* What the payloads' invariants are about. *)
Data == <<bufferVars, chan, retry, drops, log, hand, received, joinVars, replaying, cancelled>>

Quiet ==
    \/ ReplayLeaves \/ AcceptLeaves \/ Start \/ StopJoins
    \/ \E c \in Clients :
           \/ Accept(c) \/ HandshakeRejected(c) \/ HandshakeDone(c) \/ HelloFails(c)
           \/ HelloSent(c) \/ BurstSends(c) \/ BurstBreaks(c) \/ BurstDone(c)
           \/ PumpLeaves(c) \/ PeerCloses(c)
    \/ UNCHANGED vars

LEMMA Steps ==
    ASSUME [Next]_vars
    PROVE  \/ Quiet
           \/ RememberLive \/ BroadcastPaced \/ BroadcastAcoustic
           \/ BroadcastLive \/ BroadcastTheme \/ ReplayDelivers
           \/ ReplayTakes \/ StopCancels \/ StopClears \/ StopResets
           \/ \E c \in Clients :
                  Join(c) \/ PumpTakes(c) \/ PumpSends(c) \/ Unregister(c) \/ Forget(c)
BY DEF Next, Send, Replay, Stop, Connection, Quiet

LEMMA QuietData ==
    ASSUME Quiet
    PROVE  UNCHANGED Data
<1> USE DEF Data, bufferVars, queueVars, connVars, joinVars, replayVars, connFrame, sendFrame,
            ownerVars
<1>1. CASE ReplayLeaves \/ AcceptLeaves \/ Start \/ StopJoins
    BY <1>1 DEF ReplayLeaves, AcceptLeaves, Start, StopJoins
<1>2. ASSUME NEW c \in Clients,
             \/ Accept(c) \/ HandshakeRejected(c) \/ HandshakeDone(c) \/ HelloFails(c)
             \/ HelloSent(c) \/ BurstSends(c) \/ BurstBreaks(c) \/ BurstDone(c)
             \/ PumpLeaves(c) \/ PeerCloses(c)
      PROVE  UNCHANGED Data
    BY <1>2 DEF Accept, HandshakeRejected, HandshakeDone, HelloFails, HelloSent, BurstSends,
                BurstBreaks, BurstDone, PumpLeaves, PeerCloses
<1>3. CASE UNCHANGED vars
    BY <1>3 DEF vars
<1> QED
    BY <1>1, <1>2, <1>3 DEF Quiet

(* What stays as it is while a payload is handed over. *)
LEMMA Frames ==
    /\ UNCHANGED sendFrame =>
           UNCHANGED <<conn, burst, hand, received, registered, since, offered, cancelled,
                       bound, stopPc, clientCount>>
    /\ UNCHANGED connFrame =>
           UNCHANGED <<history, paced, payloads, inFlight, themes, bound, cancelled, stopPc,
                       replayLoop, replaying>>
BY DEF sendFrame, connFrame, connVars, joinVars, ownerVars, bufferVars, replayVars

LEMMA GivenTyped ==
    ASSUME TypeOK, NEW c \in Clients
    PROVE  /\ Given(c) \in Seq(Nat)
           /\ Range(Given(c)) = Range(received[c]) \cup ({hand[c]} \ {0})
                                    \cup Range(chan[c]) \cup Range(retry[c])
<1>1. PICK r \in Seq(Nat), h \in Nat, s \in Seq(Nat), t \in Seq(Nat) :
          r = received[c] /\ h = hand[c] /\ s = chan[c] /\ t = retry[c]
    BY DEF TypeOK
<1>2. /\ r \o InHand(h) \o s \o t \in Seq(Nat)
      /\ Range(r \o InHand(h) \o s \o t) = Range(r) \cup ({h} \ {0}) \cup Range(s) \cup Range(t)
    BY GivenParts
<1> QED
    BY <1>1, <1>2, GivenIs

LEMMA GivenStays ==
    ASSUME UNCHANGED <<received, hand, chan, retry>>
    PROVE  \A c \in Clients : Given(c)' = Given(c)
BY DEF Given

LEMMA GivenPumped ==
    ASSUME TypeOK, Fresh, NEW c \in Clients, PumpTakes(c) \/ PumpSends(c)
    PROVE  \A d \in Clients : Given(d)' = Given(d)
<1>1. PICK r \in Seq(Nat), h \in Nat, s \in Seq(Nat), t \in Seq(Nat) :
          r = received[c] /\ h = hand[c] /\ s = chan[c] /\ t = retry[c]
    BY DEF TypeOK
<1>2. ASSUME NEW d \in Clients, d # c PROVE Given(d)' = Given(d)
    BY <1>2 DEF Given, PumpTakes, PumpSends, TypeOK, queueVars
<1>3. CASE PumpTakes(c)
  <2>1. /\ h = 0 /\ s # <<>> /\ hand'[c] = Head(s) /\ chan'[c] = Tail(s)
        /\ received'[c] = r /\ retry'[c] = t
      BY <1>1, <1>3 DEF PumpTakes, TypeOK
  <2>2. Head(s) # 0
    <3>1. Head(s) \in Range(s)
        BY <2>1, RangeOfTail
    <3>2. Range(s) \subseteq 1 .. payloads
        BY <1>1, GivenTyped DEF Fresh
    <3> QED
        BY <3>1, <3>2
  <2>3. r \o InHand(Head(s)) \o Tail(s) \o t = r \o InHand(0) \o s \o t
      BY <2>1, <2>2, GivenTaken
  <2> QED
      BY <1>1, <1>2, <2>1, <2>3, GivenIs
<1>4. CASE PumpSends(c)
  <2>1. /\ h # 0 /\ hand'[c] = 0 /\ chan'[c] = s
        /\ received'[c] = Append(r, h) /\ retry'[c] = t
      BY <1>1, <1>4 DEF PumpSends, TypeOK, queueVars
  <2>3. h # 0
      BY <2>1
  <2>2. Append(r, h) \o InHand(0) \o s \o t = r \o InHand(h) \o s \o t
      BY <2>3, GivenSent
  <2> QED
      BY <1>1, <1>2, <2>1, <2>2, GivenIs
<1> QED
    BY <1>3, <1>4

LEMMA GivenAcoustic ==
    ASSUME TypeOK, BroadcastAcoustic, NEW d \in Clients
    PROVE  /\ Given(d)' \in Seq(Nat) /\ Range(Given(d)') \subseteq Range(Given(d)) \cup {payloads + 1}
           /\ Range(Given(d)) \subseteq Range(Given(d)')
           /\ \A l \in Seq(Nat) :
                  payloads + 1 \notin Range(l) /\ InOrder(Given(d), l) => InOrder(Given(d)', l)
<1>1. PICK a \in Seq(Nat), s \in Seq(Nat), t \in Seq(Nat), q \in Nat :
          /\ a = received[d] \o InHand(hand[d]) /\ s = chan[d] /\ t = retry[d]
          /\ q = payloads + 1
  <2>1. received[d] \in Seq(Nat) /\ hand[d] \in Nat /\ chan[d] \in Seq(Nat) /\ retry[d] \in Seq(Nat)
        /\ payloads + 1 \in Nat
      BY DEF TypeOK
  <2>2. InHand(hand[d]) \in Seq(Nat)
      BY <2>1, GivenParts
  <2> QED
      BY <2>1, <2>2, Concatenations
<1>2. Given(d) = a \o s \o t /\ Given(d)' = a \o chan'[d] \o t
    BY <1>1, GivenIs, Frames DEF BroadcastAcoustic
<1>3. chan'[d] = Append(s, q) \/ chan'[d] = s
    BY <1>1 DEF BroadcastAcoustic, NewPayload
<1>4. CASE chan'[d] = s
    BY <1>1, <1>2, <1>4, GivenTyped
<1>5. CASE chan'[d] = Append(s, q)
  <2>1. /\ a \o Append(s, q) \o t \in Seq(Nat)
        /\ Range(a \o Append(s, q) \o t) = Range(a \o s \o t) \cup {q}
        /\ \A l \in Seq(Nat) :
               q \notin Range(l) /\ InOrder(a \o s \o t, l) => InOrder(a \o Append(s, q) \o t, l)
      BY GivenInserts
  <2> QED
      BY <1>1, <1>2, <1>5, <2>1
<1> QED
    BY <1>3, <1>4, <1>5

LEMMA GivenForgotten ==
    ASSUME TypeOK, StopResets \/ \E c \in Clients : Forget(c), NEW d \in Clients
    PROVE  /\ Range(Given(d)') \subseteq Range(Given(d))
           /\ \A l \in Seq(Nat) : InOrder(Given(d), l) => InOrder(Given(d)', l)
<1>1. PICK a \in Seq(Nat), s \in Seq(Nat), t \in Seq(Nat) :
          a = received[d] \o InHand(hand[d]) /\ s = chan[d] /\ t = retry[d]
  <2>1. received[d] \in Seq(Nat) /\ hand[d] \in Nat /\ chan[d] \in Seq(Nat) /\ retry[d] \in Seq(Nat)
      BY DEF TypeOK
  <2>2. InHand(hand[d]) \in Seq(Nat)
      BY <2>1, GivenParts
  <2> QED
      BY <2>1, <2>2, Concatenations
<1>2. Given(d) = a \o s \o t /\ Given(d)' = a \o chan'[d] \o retry'[d]
    BY <1>1, GivenIs DEF Forget, StopResets, connVars
<1>3. \/ chan'[d] = s /\ retry'[d] = t
      \/ chan'[d] = s /\ retry'[d] = <<>>
      \/ chan'[d] = <<>> /\ retry'[d] = <<>>
    BY <1>1 DEF Forget, StopResets, TypeOK
<1> QED
    BY <1>2, <1>3, GivenCut

(***************************************************************************)
(* What each step keeps of the payloads' invariants.                       *)
(***************************************************************************)

DataInv == Fresh /\ PendingInv /\ OrderInv /\ DropInv /\ HistoryInv /\ PacedOnce /\ NoGapAtJoin

LEMMA SameOrder ==
    ASSUME TypeOK, OrderInv, DropInv, UNCHANGED log, \A c \in Clients : Given(c)' = Given(c)
    PROVE  /\ OrderInv'
           /\ UNCHANGED <<registered, since, drops, cancelled>> => DropInv'
<1>1. OrderInv'
    BY DEF OrderInv, Once, InOrder, Before
<1>2. \A c \in registered : Live(c)' = Live(c)
    BY DEF Live, TypeOK
<1>3. ASSUME UNCHANGED <<registered, since, drops, cancelled>> PROVE DropInv'
    BY <1>2, <1>3 DEF DropInv
<1> QED
    BY <1>1, <1>3

LEMMA QuietKeepsData ==
    ASSUME TypeOK, DataInv, UNCHANGED Data
    PROVE  DataInv'
<1>1. /\ UNCHANGED <<history, paced, payloads, inFlight, themes, chan, retry, drops, log, hand,
                     received, registered, since, offered, replaying, cancelled>>
      /\ \A c \in Clients : Given(c)' = Given(c)
    BY GivenStays DEF Data, bufferVars, joinVars
<1> USE <1>1 DEF DataInv
<1>2. Fresh'
    BY DEF Fresh, Everywhere
<1>3. PendingInv'
    BY DEF PendingInv, Pending, Once
<1>4. OrderInv' /\ DropInv'
    BY SameOrder
<1>6. HistoryInv'
    BY DEF HistoryInv, Sent
<1>7. PacedOnce' /\ NoGapAtJoin'
    BY DEF PacedOnce, NoGapAtJoin
<1> QED
    BY <1>2, <1>3, <1>4, <1>6, <1>7

LEMMA Pushes ==
    ASSUME NEW s \in Seq(Nat), NEW x \in Nat, NEW n \in Nat \ {0}, Len(s) <= n
    PROVE  /\ PushDropOldest(s, x, n) \in Seq(Nat) /\ Len(PushDropOldest(s, x, n)) <= n
           /\ Range(PushDropOldest(s, x, n)) \subseteq Range(s) \cup {x}
           /\ x \in Range(PushDropOldest(s, x, n))
           /\ Len(PushDropOldest(s, x, n)) < n =>
                  Len(s) < n /\ Range(PushDropOldest(s, x, n)) = Range(s) \cup {x}
<1>1. CASE Len(s) < n
  <2>1. PushDropOldest(s, x, n) = Append(s, x)
      BY <1>1 DEF PushDropOldest
  <2> QED
      BY <1>1, <2>1, RangeOfAppend
<1>2. CASE Len(s) = n
  <2>1. s # <<>>
      BY <1>2
  <2>2. PushDropOldest(s, x, n) = Append(Tail(s), x)
      BY <1>2 DEF PushDropOldest
  <2>3. PICK t \in Seq(Nat) : t = Tail(s) /\ Len(t) = n - 1 /\ Range(t) \subseteq Range(s)
      BY <1>2, <2>1, RangeOfTail
  <2>4. Append(t, x) \in Seq(Nat) /\ Len(Append(t, x)) = n /\ Range(Append(t, x)) = Range(t) \cup {x}
    <3>1. /\ Append(t, x) \in Seq(Nat) /\ Len(Append(t, x)) = Len(t) + 1
          /\ Range(Append(t, x)) = Range(t) \cup {x}
        BY RangeOfAppend
    <3> QED
        BY <2>3, <3>1
  <2> QED
      BY <2>2, <2>3, <2>4
<1> QED
    BY <1>1, <1>2

LEMMA PushesOnce ==
    ASSUME NEW s \in Seq(Nat), NEW x \in Nat, NEW n \in Nat \ {0}
    PROVE  /\ PushDropOldest(s, x, n) \in Seq(Nat)
           /\ Range(PushDropOldest(s, x, n)) \subseteq Range(s) \cup {x}
           /\ Once(s) /\ x \notin Range(s) => Once(PushDropOldest(s, x, n))
<1>1. CASE Len(s) < n
  <2>1. PushDropOldest(s, x, n) = Append(s, x)
      BY <1>1 DEF PushDropOldest
  <2> QED
      BY <1>1, <2>1, RangeOfAppend, AppendOnce
<1>2. CASE Len(s) >= n
  <2>1. s # <<>>
      BY <1>2
  <2>2. PushDropOldest(s, x, n) = Append(Tail(s), x)
      BY <1>2 DEF PushDropOldest
  <2>3. PICK t \in Seq(Nat) : t = Tail(s) /\ Range(t) \subseteq Range(s)
      BY <2>1, RangeOfTail
  <2>4. Append(t, x) \in Seq(Nat) /\ Range(Append(t, x)) = Range(t) \cup {x}
      BY RangeOfAppend
  <2>5. Once(s) /\ x \notin Range(s) => Once(Append(t, x))
      BY <2>1, <2>3, TailOnce, AppendOnce
  <2> QED
      BY <2>2, <2>3, <2>4, <2>5
<1> QED
    BY <1>1, <1>2

(* The one that is remembered, or is paced, was nowhere. *)
LEMMA NewIsFresh ==
    ASSUME TypeOK, Fresh, NewPayload
    PROVE  /\ payloads' = payloads + 1 /\ payloads' \in Nat \ {0} /\ payloads' \notin 1 .. payloads
           /\ 1 .. payloads \subseteq 1 .. payloads' /\ 1 .. payloads' = 1 .. payloads \cup {payloads'}
           /\ payloads' \notin Everywhere /\ payloads' # replaying
           /\ \A c \in Clients : payloads' \notin Range(Given(c)) \cup Range(offered[c])
           /\ payloads' \notin Pending
<1>1. payloads \in Nat /\ payloads' = payloads + 1 /\ replaying \in 0 .. payloads
    BY DEF TypeOK, Fresh, NewPayload
<1>2. /\ payloads' \in Nat \ {0} /\ payloads' \notin 1 .. payloads /\ payloads' # replaying
      /\ 1 .. payloads' = 1 .. payloads \cup {payloads'}
    BY <1>1
<1> QED
    BY <1>1, <1>2 DEF Fresh, Everywhere, Pending

LEMMA RememberKeepsData ==
    ASSUME ServerAssumption, TypeOK, DataInv, RememberLive
    PROVE  DataInv'
<1>1. /\ UNCHANGED <<paced, themes, chan, retry, drops, log, hand, received, registered, since,
                     offered, replaying, cancelled>>
      /\ inFlight' = inFlight \cup {payloads'} /\ NewPayload
      /\ history' = PushDropOldest(history, payloads', ReplayMax)
    BY Frames DEF RememberLive, queueVars, replayVars
<1>2. \A c \in Clients : Given(c)' = Given(c)
    BY <1>1, GivenStays
<1>3. /\ payloads' = payloads + 1 /\ payloads' \in Nat \ {0} /\ payloads' \notin 1 .. payloads
      /\ 1 .. payloads \subseteq 1 .. payloads' /\ payloads' \in 1 .. payloads'
      /\ payloads' \notin Everywhere /\ payloads' # replaying
      /\ \A c \in Clients : payloads' \notin Range(Given(c)) \cup Range(offered[c])
    BY <1>1, NewIsFresh DEF DataInv
<1>4. /\ Range(history') \subseteq Range(history) \cup {payloads'} /\ Len(history') <= ReplayMax
      /\ Len(history') < ReplayMax =>
             Len(history) < ReplayMax /\ Range(history') = Range(history) \cup {payloads'}
    BY <1>1, <1>3, Pushes DEF ServerAssumption, TypeOK, DataInv, HistoryInv
<1> USE DEF DataInv
<1>5. Fresh'
  <2>1. Everywhere' \subseteq 1 .. payloads'
      BY <1>1, <1>3, <1>4 DEF Fresh, Everywhere
  <2>2. replaying' \in 0 .. payloads'
      BY <1>1, <1>3 DEF Fresh, TypeOK
  <2> QED
      BY <1>1, <1>2, <1>3, <2>1, <2>2 DEF Fresh
<1>6. PendingInv'
    BY <1>1, <1>2, <1>3 DEF PendingInv, Pending, Once, Everywhere
<1>7. OrderInv' /\ DropInv'
    BY <1>1, <1>2, SameOrder
<1>8. HistoryInv'
    BY <1>1, <1>3, <1>4 DEF HistoryInv, Sent, Everywhere
<1>9. PacedOnce' /\ NoGapAtJoin'
    BY <1>1 DEF PacedOnce, NoGapAtJoin
<1> QED
    BY <1>5, <1>6, <1>7, <1>8, <1>9

LEMMA PacedKeepsData ==
    ASSUME ServerAssumption, TypeOK, DataInv, BroadcastPaced
    PROVE  DataInv'
<1>1. /\ UNCHANGED <<history, inFlight, themes, chan, retry, drops, log, hand, received,
                     registered, since, offered, replaying, cancelled>>
      /\ NewPayload /\ paced' = PushDropOldest(paced, payloads', ReplayMax)
    BY Frames DEF BroadcastPaced, queueVars, replayVars
<1>2. \A c \in Clients : Given(c)' = Given(c)
    BY <1>1, GivenStays
<1>3. /\ payloads' = payloads + 1 /\ payloads' \in Nat \ {0} /\ payloads' \notin 1 .. payloads
      /\ 1 .. payloads \subseteq 1 .. payloads' /\ payloads' \in 1 .. payloads'
      /\ payloads' \notin Everywhere /\ payloads' # replaying
      /\ \A c \in Clients : payloads' \notin Range(Given(c)) \cup Range(offered[c])
    BY <1>1, NewIsFresh DEF DataInv
<1>4. Range(paced') \subseteq Range(paced) \cup {payloads'} /\ Once(paced')
    BY <1>1, <1>3, PushesOnce DEF ServerAssumption, TypeOK, DataInv, PendingInv, Everywhere
<1> USE DEF DataInv
<1>5. Fresh'
  <2>1. Everywhere' \subseteq 1 .. payloads'
      BY <1>1, <1>3, <1>4 DEF Fresh, Everywhere
  <2>2. replaying' \in 0 .. payloads'
      BY <1>1, <1>3 DEF Fresh, TypeOK
  <2> QED
      BY <1>1, <1>2, <1>3, <2>1, <2>2 DEF Fresh
<1>6. PendingInv'
    BY <1>1, <1>2, <1>3, <1>4 DEF PendingInv, Pending, Everywhere
<1>7. OrderInv' /\ DropInv'
    BY <1>1, <1>2, SameOrder
<1>8. HistoryInv'
  <2>1. Range(history) \cap Range(paced') = {}
      BY <1>3, <1>4 DEF HistoryInv, Everywhere
  <2>2. \A c \in registered : Range(offered[c]) \cap Range(paced') = {}
    <3> SUFFICES ASSUME NEW c \in registered PROVE Range(offered[c]) \cap Range(paced') = {}
        OBVIOUS
    <3>1. c \in Clients /\ Range(offered[c]) \cap Range(paced) = {}
        BY DEF TypeOK, HistoryInv
    <3>2. payloads' \notin Range(offered[c])
        BY <1>3, <3>1
    <3> QED
        BY <1>4, <3>1, <3>2
  <2> QED
      BY <1>1, <2>1, <2>2 DEF HistoryInv, Sent
<1>9. PacedOnce' /\ NoGapAtJoin'
    BY <1>1 DEF PacedOnce, NoGapAtJoin
<1> QED
    BY <1>5, <1>6, <1>7, <1>8, <1>9

LEMMA AcousticKeepsData ==
    ASSUME TypeOK, DataInv, BroadcastAcoustic
    PROVE  DataInv'
<1>1. /\ UNCHANGED <<history, paced, inFlight, themes, retry, drops, log, hand, received,
                     registered, since, offered, replaying, cancelled>>
      /\ NewPayload
    BY Frames DEF BroadcastAcoustic, replayVars
<1>2. /\ payloads' = payloads + 1 /\ payloads' \in Nat \ {0} /\ payloads' \notin 1 .. payloads
      /\ 1 .. payloads \subseteq 1 .. payloads' /\ payloads' \in 1 .. payloads'
      /\ payloads' \notin Range(log) /\ payloads' \notin Pending
    BY <1>1, NewIsFresh DEF DataInv, Everywhere
<1>3. \A c \in Clients :
          /\ Range(Given(c)') \subseteq Range(Given(c)) \cup {payloads'}
          /\ Range(Given(c)) \subseteq Range(Given(c)')
          /\ InOrder(Given(c), log) => InOrder(Given(c)', log)
    BY <1>2, GivenAcoustic DEF TypeOK
<1> USE DEF DataInv
<1>4. Fresh'
  <2>1. Everywhere' \subseteq 1 .. payloads'
      BY <1>1, <1>2 DEF Fresh, Everywhere
  <2>2. replaying' \in 0 .. payloads'
      BY <1>1, <1>2 DEF Fresh, TypeOK
  <2>3. ASSUME NEW c \in Clients
        PROVE  Range(Given(c)') \cup Range(offered'[c]) \subseteq 1 .. payloads'
      BY <1>1, <1>2, <1>3 DEF Fresh
  <2> QED
      BY <2>1, <2>2, <2>3 DEF Fresh
<1>5. PendingInv'
  <2>1. Pending' = Pending
      BY <1>1 DEF Pending
  <2>2. \A c \in Clients : Range(Given(c)') \cap Pending = {}
      BY <1>2, <1>3 DEF PendingInv
  <2> QED
      BY <1>1, <2>1, <2>2 DEF PendingInv
<1>6. OrderInv'
    BY <1>1, <1>3 DEF OrderInv
<1>7. DropInv'
  <2>1. \A c \in registered : Live(c)' = Live(c)
    <3> SUFFICES ASSUME NEW c \in registered PROVE Live(c)' = Live(c)
        OBVIOUS
    <3>1. c \in Clients
        BY DEF TypeOK
    <3> QED
        BY <1>1, <1>2, <1>3, <3>1 DEF Live, Of
  <2> QED
      BY <1>1, <2>1 DEF DropInv
<1>8. HistoryInv' /\ PacedOnce' /\ NoGapAtJoin'
    BY <1>1 DEF HistoryInv, Sent, PacedOnce, NoGapAtJoin
<1> QED
    BY <1>4, <1>5, <1>6, <1>7, <1>8

(* What broadcast_raw(p) does when p has not been broadcast yet: p is in flight, is *)
(* taken for replay, or is new.                                                     *)
Hands(p) ==
    /\ BroadcastRaw(p)
    /\ UNCHANGED <<sendFrame, history, paced>>
    /\ payloads' \in Nat /\ 1 .. payloads \subseteq 1 .. payloads' /\ p \in 1 .. payloads'
    /\ p \notin Range(log) /\ \A c \in Clients : p \notin Range(Given(c))
    /\ inFlight' \subseteq inFlight
    /\ replaying' \in {replaying, 0}
    /\ Pending' = Pending \ {p}
    /\ themes \subseteq themes' /\ themes' \subseteq themes \cup {p}
    /\ p \in inFlight \cup {replaying} \cup themes'

LEMMA BroadcastsHand ==
    ASSUME TypeOK, Control, DataInv, BroadcastLive \/ BroadcastTheme \/ ReplayDelivers
    PROVE  \E p \in Nat \ {0} : Hands(p)
<1> USE DEF DataInv
<1>0. replaying \in 0 .. payloads /\ payloads \in Nat
    BY DEF Fresh, TypeOK
<1>1. CASE BroadcastLive
  <2>1. PICK p \in inFlight : BroadcastRaw(p) /\ inFlight' = inFlight \ {p}
      BY <1>1 DEF BroadcastLive
  <2>2. UNCHANGED <<sendFrame, history, paced, themes, payloads, replaying>>
      BY <1>1 DEF BroadcastLive, replayVars
  <2>3. p \in Pending /\ p \in 1 .. payloads /\ p \notin Range(paced) /\ p # replaying
      BY DEF Pending, Fresh, Everywhere, PendingInv
  <2>4. Pending' = Pending \ {p}
      BY <2>1, <2>2, <2>3 DEF Pending
  <2>5. p \notin Range(log) /\ \A c \in Clients : p \notin Range(Given(c))
      BY <2>3 DEF PendingInv
  <2> QED
      BY <1>0, <2>1, <2>2, <2>3, <2>4, <2>5 DEF Hands
<1>2. CASE BroadcastTheme
  <2>1. /\ NewPayload /\ BroadcastRaw(payloads') /\ themes' = themes \cup {payloads'}
        /\ UNCHANGED <<sendFrame, history, paced, inFlight, replaying>>
      BY <1>2 DEF BroadcastTheme, replayVars
  <2>2. /\ payloads' \in Nat \ {0} /\ 1 .. payloads \subseteq 1 .. payloads' /\ payloads' \in 1 .. payloads'
        /\ payloads' \notin Range(log) /\ payloads' \notin Pending
        /\ \A c \in Clients : payloads' \notin Range(Given(c))
      BY <2>1, NewIsFresh DEF Everywhere
  <2>3. Pending' = Pending \ {payloads'}
      BY <2>1, <2>2 DEF Pending
  <2>4. Hands(payloads')
      BY <2>1, <2>2, <2>3 DEF Hands
  <2> QED
      BY <2>2, <2>4
<1>3. CASE ReplayDelivers
  <2>1. /\ replayLoop = "deliver" /\ BroadcastRaw(replaying) /\ replaying' = 0
        /\ UNCHANGED <<sendFrame, history, paced, inFlight, themes, payloads>>
      BY <1>3 DEF ReplayDelivers, bufferVars
  <2>2. replaying # 0 /\ replaying \in Pending /\ replaying \in 1 .. payloads
        /\ replaying \notin inFlight \cup Range(paced)
      BY <1>0, <2>1 DEF Control, Pending, PendingInv
  <2>3. Pending' = Pending \ {replaying}
      BY <2>1, <2>2 DEF Pending
  <2>4. replaying \notin Range(log) /\ \A c \in Clients : replaying \notin Range(Given(c))
      BY <2>2 DEF PendingInv
  <2>5. Hands(replaying)
      BY <1>0, <2>1, <2>2, <2>3, <2>4 DEF Hands
  <2> QED
      BY <1>0, <2>2, <2>5
<1> QED
    BY <1>1, <1>2, <1>3

LEMMA HandsTyped ==
    ASSUME ServerAssumption, TypeOK, ConnectionInv, NEW p \in Nat, Hands(p)
    PROVE  /\ log' \in Seq(Nat) /\ Len(log') = Len(log) + 1 /\ Range(log') = Range(log) \cup {p}
           /\ \A i \in 1 .. Len(log) : log'[i] = log[i]
           /\ chan' \in [Clients -> Seq(Nat)] /\ retry' \in [Clients -> Seq(Nat)]
           /\ drops' \in [Clients -> Nat]
           /\ \A c \in Clients :
                  /\ Len(chan'[c]) <= ChannelSize
                  /\ Range(retry'[c]) \subseteq Range(retry[c]) \cup {p}
                  /\ c \notin registered =>
                         /\ Given(c)' = Given(c) /\ chan'[c] = chan[c] /\ retry'[c] = retry[c]
                         /\ drops'[c] = drops[c]
                  /\ c \in registered =>
                         \/ GivenAfter(Given(c), Given(c)', p, retry[c], 0) /\ drops'[c] = drops[c]
                         \/ GivenAfter(Given(c), Given(c)', p, retry[c], 1)
                                /\ drops'[c] = drops[c] + 1
<1>1. log' = Append(log, p) /\ BroadcastRaw(p) /\ UNCHANGED <<hand, received>>
    BY Frames DEF Hands, BroadcastRaw
<1>2. /\ log' \in Seq(Nat) /\ Len(log') = Len(log) + 1 /\ Range(log') = Range(log) \cup {p}
      /\ \A i \in 1 .. Len(log) : log'[i] = log[i]
  <2>1. PICK l \in Seq(Nat) : l = log
      BY DEF TypeOK
  <2>2. /\ Append(l, p) \in Seq(Nat) /\ Len(Append(l, p)) = Len(l) + 1
        /\ Range(Append(l, p)) = Range(l) \cup {p}
      BY RangeOfAppend
  <2>3. \A i \in 1 .. Len(l) : Append(l, p)[i] = l[i]
      BY AppendProperties
  <2> QED
      BY <1>1, <2>1, <2>2, <2>3
<1>3. ASSUME NEW c \in Clients
      PROVE  /\ chan'[c] \in Seq(Nat) /\ retry'[c] \in Seq(Nat) /\ drops'[c] \in Nat
             /\ Len(chan'[c]) <= ChannelSize
             /\ Range(retry'[c]) \subseteq Range(retry[c]) \cup {p}
             /\ c \notin registered =>
                    /\ Given(c)' = Given(c) /\ chan'[c] = chan[c] /\ retry'[c] = retry[c]
                    /\ drops'[c] = drops[c]
             /\ c \in registered =>
                    \/ GivenAfter(Given(c), Given(c)', p, retry[c], 0) /\ drops'[c] = drops[c]
                    \/ GivenAfter(Given(c), Given(c)', p, retry[c], 1)
                           /\ drops'[c] = drops[c] + 1
  <2>1. Len(chan[c]) <= ChannelSize
      BY DEF ConnectionInv
  <2> QED
      BY <1>1, <2>1, BroadcastGives
<1>4. /\ chan' = [c \in Clients |-> chan'[c]] /\ retry' = [c \in Clients |-> retry'[c]]
      /\ drops' = [c \in Clients |-> drops'[c]]
    BY <1>1 DEF BroadcastRaw
<1>5. /\ chan' \in [Clients -> Seq(Nat)] /\ retry' \in [Clients -> Seq(Nat)]
      /\ drops' \in [Clients -> Nat]
    BY <1>3, <1>4
<1> QED
    BY <1>2, <1>3, <1>5

LEMMA LiveFinite ==
    ASSUME TypeOK
    PROVE  \A c \in Clients : IsFiniteSet(Live(c)) /\ Cardinality(Live(c)) \in Nat
<1> SUFFICES ASSUME NEW c \in Clients
             PROVE  IsFiniteSet(Live(c)) /\ Cardinality(Live(c)) \in Nat
    OBVIOUS
<1>1. IsFiniteSet(Range(log))
    BY RangeFinite DEF TypeOK
<1>2. Live(c) \in SUBSET Range(log)
    BY DEF Live, Of
<1> QED
    BY <1>1, <1>2, FS_Subset, FS_CardinalityType

LEMMA HandsKeepsData ==
    ASSUME ServerAssumption, TypeOK, ConnectionInv, DataInv, NEW p \in Nat, p # 0, Hands(p)
    PROVE  DataInv'
<1>1. /\ UNCHANGED <<history, paced, registered, since, offered, cancelled>>
      /\ log' = Append(log, p)
    BY Frames DEF Hands, BroadcastRaw
<1>2. /\ log' \in Seq(Nat) /\ Len(log') = Len(log) + 1 /\ Range(log') = Range(log) \cup {p}
      /\ \A i \in 1 .. Len(log) : log'[i] = log[i]
    BY HandsTyped
<1>3. /\ p \notin Range(log) /\ p \in 1 .. payloads' /\ 1 .. payloads \subseteq 1 .. payloads'
      /\ payloads' \in Nat /\ Pending' = Pending \ {p}
      /\ inFlight' \subseteq inFlight /\ replaying' \in {replaying, 0}
      /\ themes \subseteq themes' /\ themes' \subseteq themes \cup {p}
      /\ p \in inFlight \cup {replaying} \cup themes'
      /\ \A c \in Clients : p \notin Range(Given(c))
    BY DEF Hands
<1> USE DEF DataInv
<1>4. ASSUME NEW c \in Clients
      PROVE  /\ Range(Given(c)') \subseteq Range(Given(c)) \cup {p}
             /\ InOrder(Given(c)', log')
             /\ c \in registered =>
                    Cardinality(Live(c)') + drops'[c] = Cardinality(Live(c)) + drops[c] + 1
  <2>0. Given(c)' \in Seq(Nat)
    <3>1. Given(c) \in Seq(Nat)
        BY GivenTyped
    <3>2. CASE c \notin registered
        BY <3>1, <3>2, HandsTyped
    <3>3. CASE GivenAfter(Given(c), Given(c)', p, retry[c], 0)
        BY <3>1, <3>3, AfterRange
    <3>4. CASE GivenAfter(Given(c), Given(c)', p, retry[c], 1)
        BY <3>1, <3>4, AfterRange
    <3> QED
        BY <3>2, <3>3, <3>4, HandsTyped
  <2>1. PICK g \in Seq(Nat), l \in Seq(Nat), h \in Seq(Nat) :
            g = Given(c) /\ l = log /\ h = Given(c)'
      BY <2>0, GivenTyped DEF TypeOK
  <2>2. InOrder(g, l) /\ Once(l) /\ p \notin Range(g) /\ p \notin Range(l)
        /\ Range(retry[c]) \subseteq Range(l) /\ drops[c] \in Nat
      BY <1>3, <2>1 DEF OrderInv, ConnectionInv, TypeOK
  <2>3. CASE c \notin registered
    <3>1. h = g
        BY <2>1, <2>3, HandsTyped
    <3>2. InOrder(g, Append(l, p))
        BY <2>2, OrderOfAppend
    <3> QED
        BY <1>1, <2>1, <2>3, <3>1, <3>2
  <2>4. CASE c \in registered
    <3>0. PICK t \in Seq(Nat) : t = retry[c] /\ Range(t) \subseteq Range(l)
        BY <2>2 DEF TypeOK
    <3>5. /\ GivenAfter(g, h, p, t, 0) =>
                 Cardinality(Of(h, Append(l, p))) = Cardinality(Of(g, l)) + 1
          /\ GivenAfter(g, h, p, t, 1) =>
                 Cardinality(Of(h, Append(l, p))) = Cardinality(Of(g, l))
        BY <2>2, <3>0, AfterCount
    <3>7. PICK e \in Nat : e = drops[c]
        BY DEF TypeOK
    <3>1. PICK m \in Nat, n \in Nat, k \in Seq(Nat) :
              k = Append(l, p) /\ m = Cardinality(Live(c)') /\ n = Cardinality(Live(c))
      <4>1. log' \in Seq(Nat) /\ Append(l, p) = log'
          BY <1>1, <1>2, <2>1
      <4>2. IsFiniteSet(Range(log')) /\ Live(c)' \in SUBSET Range(log')
          BY <4>1, RangeFinite DEF Live, Of
      <4>3. Cardinality(Live(c)') \in Nat
          BY <4>2, FS_Subset, FS_CardinalityType
      <4>4. Cardinality(Live(c)) \in Nat /\ retry[c] \in Seq(Nat)
          BY LiveFinite DEF TypeOK
      <4> QED
          BY <2>2, <4>1, <4>3, <4>4
    <3>2. m = Cardinality(Of(h, k)) /\ n = Cardinality(Of(g, l))
        BY <1>1, <2>1, <3>1 DEF Live
    <3>3. \/ GivenAfter(g, h, p, t, 0) /\ drops'[c] = e
          \/ GivenAfter(g, h, p, t, 1) /\ drops'[c] = e + 1
        BY <2>1, <2>4, <3>0, <3>7, HandsTyped
    <3>4. h \in Seq(Nat) /\ Range(h) \subseteq Range(g) \cup {p} /\ InOrder(h, k)
        BY <2>2, <3>1, <3>3, AfterRange, AfterOrder
    <3>6. m + drops'[c] = n + e + 1
      <4>1. CASE GivenAfter(g, h, p, t, 0) /\ drops'[c] = e
        <5>1. Cardinality(Of(h, k)) = Cardinality(Of(g, l)) + 1
            BY <3>1, <3>5, <4>1
        <5>2. m = n + 1
            BY <3>2, <5>1
        <5> QED
            BY <4>1, <5>2
      <4>2. CASE GivenAfter(g, h, p, t, 1) /\ drops'[c] = e + 1
        <5>1. Cardinality(Of(h, k)) = Cardinality(Of(g, l))
            BY <3>1, <3>5, <4>2
        <5>2. m = n
            BY <3>2, <5>1
        <5> QED
            BY <4>2, <5>2
      <4> QED
          BY <3>3, <4>1, <4>2
    <3> QED
        BY <1>1, <2>1, <3>1, <3>4, <3>6, <3>7
  <2> QED
      BY <2>3, <2>4
<1>5. Fresh'
  <2>1. Everywhere' \subseteq 1 .. payloads'
      BY <1>1, <1>2, <1>3 DEF Fresh, Everywhere
  <2>2. replaying' \in 0 .. payloads'
    <3>1. replaying = 0 \/ replaying \in 1 .. payloads
        BY DEF Fresh, TypeOK
    <3> QED
        BY <1>3, <3>1
  <2>3. ASSUME NEW c \in Clients
        PROVE  Range(Given(c)') \cup Range(offered'[c]) \subseteq 1 .. payloads'
      BY <1>1, <1>3, <1>4 DEF Fresh
  <2> QED
      BY <2>1, <2>2, <2>3 DEF Fresh
<1>6. PendingInv'
  <2>1. Range(log') \cap Pending' = {}
      BY <1>2, <1>3 DEF PendingInv
  <2>2. \A c \in Clients : Range(Given(c)') \cap Pending' = {}
      BY <1>3, <1>4 DEF PendingInv
  <2>3. replaying' \notin inFlight' \cup Range(paced')
    <3>1. 0 \notin inFlight \cup Range(paced)
        BY DEF Fresh, Everywhere
    <3> QED
        BY <1>1, <1>3, <3>1 DEF PendingInv
  <2> QED
      BY <1>1, <1>3, <2>1, <2>2, <2>3 DEF PendingInv
<1>7. OrderInv'
  <2>1. Once(log')
      BY <1>1, <1>3, AppendOnce DEF OrderInv, TypeOK
  <2> QED
      BY <1>4, <2>1 DEF OrderInv
<1>8. DropInv'
  <2> SUFFICES ASSUME ~cancelled, NEW c \in registered
               PROVE  Cardinality(Live(c)') + drops'[c] = Len(log') - since[c]
      BY <1>1 DEF DropInv
  <2>1. c \in Clients /\ since[c] \in Nat /\ Len(log) \in Nat
      BY DEF TypeOK
  <2>2. Cardinality(Live(c)) + drops[c] = Len(log) - since[c]
      BY DEF DropInv
  <2>3. Cardinality(Live(c)') + drops'[c] = Cardinality(Live(c)) + drops[c] + 1
      BY <1>4, <2>1
  <2>4. Cardinality(Live(c)) + drops[c] \in Nat
    <3>1. PICK m \in Nat, n \in Nat : m = Cardinality(Live(c)) /\ n = drops[c]
        BY <2>1, LiveFinite DEF TypeOK
    <3> QED
        BY <3>1
  <2>5. PICK k \in Nat, m \in Nat, n \in Nat :
            k = Cardinality(Live(c)) + drops[c] /\ m = since[c] /\ n = Len(log)
      BY <2>1, <2>4
  <2>6. k = n - m => k + 1 = (n + 1) - m
      OBVIOUS
  <2> QED
      BY <1>2, <2>2, <2>3, <2>5, <2>6
<1>9. HistoryInv'
  <2>1. Sent' \subseteq Sent \cup {p} /\ p \in Sent \cup themes'
      BY <1>2, <1>3 DEF Sent
  <2>2. Len(history') < ReplayMax => Sent' \subseteq Range(history') \cup themes'
      BY <1>1, <1>3, <2>1 DEF HistoryInv
  <2>3. \A c \in registered : since[c] <= Len(log')
    <3> SUFFICES ASSUME NEW c \in registered PROVE since[c] <= Len(log')
        OBVIOUS
    <3>1. since[c] \in Nat /\ Len(log) \in Nat /\ since[c] <= Len(log)
        BY DEF TypeOK, HistoryInv
    <3> QED
        BY <1>2, <3>1
  <2> QED
      BY <1>1, <2>2, <2>3 DEF HistoryInv
<1>10. PacedOnce'
    BY <1>1, <1>3 DEF PacedOnce
<1>11. NoGapAtJoin'
  <2> SUFFICES ASSUME BacklogPolicy = "send_all", NEW c \in registered, NEW i \in 1 .. since[c]
               PROVE  log'[i] \in Range(offered[c]) \cup themes' \/ Len(offered[c]) = ReplayMax
      BY <1>1 DEF NoGapAtJoin
  <2>1. i \in 1 .. Len(log)
    <3>1. since[c] \in Nat /\ Len(log) \in Nat /\ since[c] <= Len(log)
        BY DEF TypeOK, HistoryInv
    <3> QED
        BY <3>1
  <2> QED
      BY <1>2, <1>3, <2>1 DEF NoGapAtJoin
<1> QED
    BY <1>5, <1>6, <1>7, <1>8, <1>9, <1>10, <1>11

LEMMA ReplayTakesKeepsData ==
    ASSUME ServerAssumption, TypeOK, Control, DataInv, ReplayTakes
    PROVE  DataInv'
<1>1. /\ UNCHANGED <<themes, payloads, inFlight, chan, retry, drops, log, hand, received,
                     registered, since, offered, cancelled>>
      /\ paced # <<>> /\ paced' = Tail(paced) /\ replaying' = Head(paced)
      /\ history' = PushDropOldest(history, replaying', ReplayMax) /\ replayLoop = "wait"
    BY Frames DEF ReplayTakes, queueVars
<1>2. \A c \in Clients : Given(c)' = Given(c)
    BY <1>1, GivenStays
<1> USE DEF DataInv
<1>3. replaying = 0
    BY <1>1 DEF Control
<1>4. /\ replaying' \in Nat /\ Range(paced) = {replaying'} \cup Range(paced')
      /\ Once(paced') /\ replaying' \notin Range(paced')
    BY <1>1, RangeOfTail, TailOnce DEF TypeOK, PendingInv
<1>5. /\ Range(history') \subseteq Range(history) \cup {replaying'} /\ Len(history') <= ReplayMax
      /\ Len(history') < ReplayMax =>
             Len(history) < ReplayMax /\ Range(history') = Range(history) \cup {replaying'}
    BY <1>1, <1>4, Pushes DEF ServerAssumption, TypeOK, HistoryInv
<1>6. replaying' \in 1 .. payloads
    BY <1>4 DEF Fresh, Everywhere
<1>7. Fresh'
  <2>1. Everywhere' \subseteq 1 .. payloads
      BY <1>1, <1>4, <1>5, <1>6 DEF Fresh, Everywhere
  <2>2. replaying' \in 0 .. payloads
      BY <1>6 DEF TypeOK
  <2> QED
      BY <1>1, <1>2, <2>1, <2>2 DEF Fresh
<1>8. PendingInv'
  <2>1. Pending' = Pending
    <3>1. replaying' # 0
        BY <1>6 DEF TypeOK
    <3> QED
        BY <1>1, <1>3, <1>4, <3>1 DEF Pending
  <2>2. replaying' \notin inFlight' \cup Range(paced') /\ inFlight' \cap Range(paced') = {}
      BY <1>1, <1>4 DEF PendingInv
  <2> QED
      BY <1>1, <1>2, <1>4, <2>1, <2>2 DEF PendingInv
<1>9. OrderInv' /\ DropInv'
    BY <1>1, <1>2, SameOrder
<1>10. HistoryInv'
  <2>1. Sent' \subseteq Sent \cup {replaying'}
      BY <1>1 DEF Sent
  <2>2. Len(history') < ReplayMax => Sent' \subseteq Range(history') \cup themes'
      BY <1>1, <1>5, <2>1 DEF HistoryInv
  <2>3. Range(history') \cap Range(paced') = {}
      BY <1>4, <1>5 DEF HistoryInv
  <2>4. \A c \in registered' : Range(offered'[c]) \cap Range(paced') = {}
      BY <1>1, <1>4 DEF HistoryInv
  <2> QED
      BY <1>1, <1>5, <2>2, <2>3, <2>4 DEF HistoryInv
<1>11. PacedOnce'
    BY <1>1, <1>4 DEF PacedOnce, HistoryInv
<1>12. NoGapAtJoin'
    BY <1>1 DEF NoGapAtJoin
<1> QED
    BY <1>7, <1>8, <1>9, <1>10, <1>11, <1>12

LEMMA StopCancelsKeepsData ==
    ASSUME TypeOK, DataInv, StopCancels
    PROVE  DataInv'
<1>1. /\ UNCHANGED <<history, themes, payloads, inFlight, chan, retry, drops, log, hand, received,
                     registered, since, offered, replaying>>
      /\ paced' = <<>> /\ cancelled'
    BY DEF StopCancels, queueVars, connVars, joinVars, replayVars
<1>2. \A c \in Clients : Given(c)' = Given(c)
    BY <1>1, GivenStays
<1>3. Range(paced') = {} /\ Once(paced')
    BY <1>1, RangeOfEmpty DEF Once
<1> USE DEF DataInv
<1>4. Fresh'
    BY <1>1, <1>2, <1>3 DEF Fresh, Everywhere
<1>5. PendingInv'
  <2>1. Pending' \subseteq Pending
      BY <1>1, <1>3 DEF Pending
  <2> QED
      BY <1>1, <1>2, <1>3, <2>1 DEF PendingInv
<1>6. OrderInv'
    BY <1>1, <1>2, SameOrder
<1>7. DropInv'
    BY <1>1 DEF DropInv
<1>8. HistoryInv' /\ PacedOnce' /\ NoGapAtJoin'
    BY <1>1, <1>3 DEF HistoryInv, Sent, PacedOnce, NoGapAtJoin
<1> QED
    BY <1>4, <1>5, <1>6, <1>7, <1>8

(* Fewer are registered, and nothing else of the payloads changes. *)
LEMMA FewerKeepData ==
    ASSUME TypeOK, DataInv, StopClears \/ \E c \in Clients : Unregister(c)
    PROVE  DataInv'
<1>1. /\ UNCHANGED <<bufferVars, chan, retry, drops, log, hand, received, since, offered, replaying,
                     cancelled>>
      /\ registered' \subseteq registered
    BY Frames DEF StopClears, Unregister, queueVars, connVars, replayVars, connFrame
<1>2. \A c \in Clients : Given(c)' = Given(c)
    BY <1>1, GivenStays
<1>3. UNCHANGED <<history, paced, payloads, inFlight, themes>>
    BY <1>1 DEF bufferVars
<1> USE DEF DataInv
<1>4. Fresh'
    BY <1>1, <1>2, <1>3 DEF Fresh, Everywhere
<1>5. PendingInv'
    BY <1>1, <1>2, <1>3 DEF PendingInv, Pending
<1>6. OrderInv'
    BY <1>1, <1>2, SameOrder
<1>7. DropInv'
  <2>1. \A c \in registered : Live(c)' = Live(c)
      BY <1>1, <1>2 DEF Live, TypeOK
  <2> QED
      BY <1>1, <2>1 DEF DropInv
<1>8. HistoryInv' /\ PacedOnce' /\ NoGapAtJoin'
    BY <1>1, <1>3 DEF HistoryInv, Sent, PacedOnce, NoGapAtJoin
<1> QED
    BY <1>4, <1>5, <1>6, <1>7, <1>8

LEMMA PumpKeepsData ==
    ASSUME TypeOK, DataInv, NEW c \in Clients, PumpTakes(c) \/ PumpSends(c)
    PROVE  DataInv'
<1>1. UNCHANGED <<history, paced, payloads, inFlight, themes, retry, drops, log, registered, since,
                  offered, replaying, cancelled>>
    BY Frames DEF PumpTakes, PumpSends, queueVars, joinVars
<1>2. \A d \in Clients : Given(d)' = Given(d)
    BY GivenPumped DEF DataInv
<1> USE DEF DataInv
<1>3. Fresh'
    BY <1>1, <1>2 DEF Fresh, Everywhere
<1>4. PendingInv'
    BY <1>1, <1>2 DEF PendingInv, Pending
<1>5. OrderInv' /\ DropInv'
    BY <1>1, <1>2, SameOrder
<1>6. HistoryInv' /\ PacedOnce' /\ NoGapAtJoin'
    BY <1>1 DEF HistoryInv, Sent, PacedOnce, NoGapAtJoin
<1> QED
    BY <1>3, <1>4, <1>5, <1>6

(* What is forgotten is what a connection that is not registered any more waited for, *)
(* or, when the server stops, everybody's.                                            *)
LEMMA ForgetKeepsData ==
    ASSUME TypeOK, Control, ConnectionInv, DataInv,
           StopResets \/ \E c \in Clients : Forget(c)
    PROVE  DataInv'
<1>1. UNCHANGED <<history, paced, payloads, inFlight, themes, log, registered, since,
                  offered, replaying, cancelled>>
    BY Frames DEF Forget, StopResets, bufferVars, joinVars, replayVars
<1>2. \A d \in Clients :
          /\ Range(Given(d)') \subseteq Range(Given(d))
          /\ InOrder(Given(d), log) => InOrder(Given(d)', log)
    BY GivenForgotten DEF TypeOK
<1> USE DEF DataInv
<1>3. Fresh'
  <2>1. Everywhere' \subseteq 1 .. payloads' /\ replaying' \in 0 .. payloads'
      BY <1>1 DEF Fresh, Everywhere
  <2>2. \A d \in Clients : Range(Given(d)') \cup Range(offered'[d]) \subseteq 1 .. payloads'
      BY <1>1, <1>2 DEF Fresh
  <2> QED
      BY <2>1, <2>2 DEF Fresh
<1>4. PendingInv'
  <2>1. Pending' = Pending
      BY <1>1 DEF Pending
  <2>2. \A d \in Clients : Range(Given(d)') \cap Pending = {}
      BY <1>2 DEF PendingInv
  <2> QED
      BY <1>1, <2>1, <2>2 DEF PendingInv
<1>5. OrderInv'
    BY <1>1, <1>2 DEF OrderInv
<1>6. DropInv'
  <2>1. CASE StopResets
      BY <1>1, <2>1 DEF DropInv, Control, StopResets
  <2>2. ASSUME NEW c \in Clients, Forget(c) PROVE DropInv'
    <3>1. c \notin registered
        BY <2>2 DEF Forget, ConnectionInv, Joined
    <3>2. \A d \in registered : Live(d)' = Live(d) /\ drops'[d] = drops[d]
      <4> SUFFICES ASSUME NEW d \in registered PROVE Live(d)' = Live(d) /\ drops'[d] = drops[d]
          OBVIOUS
      <4>1. d \in Clients /\ d # c
          BY <3>1 DEF TypeOK
      <4>2. /\ received'[d] = received[d] /\ hand'[d] = hand[d] /\ chan'[d] = chan[d]
            /\ retry'[d] = retry[d] /\ drops'[d] = drops[d]
          BY <2>2, <4>1 DEF Forget, TypeOK
      <4>3. Given(d)' = Given(d)
          BY <4>2 DEF Given
      <4> QED
          BY <1>1, <4>2, <4>3 DEF Live
    <3> QED
        BY <1>1, <3>2 DEF DropInv
  <2> QED
      BY <2>1, <2>2
<1>7. HistoryInv' /\ PacedOnce' /\ NoGapAtJoin'
    BY <1>1 DEF HistoryInv, Sent, PacedOnce, NoGapAtJoin
<1> QED
    BY <1>3, <1>4, <1>5, <1>6, <1>7

(* select_for_client keeps some of the history, and with "send_all" all of it. *)
LEMMA SelectionsAre ==
    ASSUME NEW b \in Seq(Nat), NEW cues \in Selections(b)
    PROVE  /\ cues \in Seq(Nat) /\ Range(cues) \subseteq Range(b)
           /\ BacklogPolicy = "send_all" => cues = b
<1>1. CASE BacklogPolicy = "send_all"
    BY <1>1 DEF Selections
<1>2. CASE BacklogPolicy # "send_all"
  <2>1. PICK young \in Kept(Len(b)) : cues = [i \in DOMAIN young |-> b[young[i]]]
      BY <1>2 DEF Selections
  <2>2. PICK k \in 0 .. Len(b) : young \in [1 .. k -> 1 .. Len(b)]
      BY <2>1 DEF Kept
  <2>3. k \in Nat /\ DOMAIN cues = 1 .. k /\ \A i \in 1 .. k : cues[i] = b[young[i]]
      BY <2>1, <2>2
  <2>4. \A i \in 1 .. k : young[i] \in 1 .. Len(b) /\ b[young[i]] \in Nat
      BY <2>2
  <2>5. cues \in [1 .. k -> Nat]
      BY <2>1, <2>2, <2>4
  <2>6. cues \in Seq(Nat)
      BY <2>3, <2>5, SeqDef
  <2>7. Range(cues) \subseteq Range(b)
    <3> SUFFICES ASSUME NEW i \in 1 .. k PROVE cues[i] \in Range(b)
        BY <2>3 DEF Range
    <3>1. cues[i] = b[young[i]] /\ young[i] \in 1 .. Len(b)
        BY <2>3, <2>4
    <3>2. 1 .. Len(b) = DOMAIN b
        OBVIOUS
    <3> QED
        BY <3>1, <3>2 DEF Range
  <2> QED
      BY <1>2, <2>6, <2>7
<1> QED
    BY <1>1, <1>2

LEMMA JoinKeepsData ==
    ASSUME ServerAssumption, TypeOK, Control, ConnectionInv, DataInv, NEW c \in Clients, Join(c)
    PROVE  DataInv'
<1>1. PICK cues \in Selections(history) : offered' = [offered EXCEPT ![c] = cues]
    BY DEF Join
<1>2. /\ UNCHANGED <<history, paced, payloads, inFlight, themes, chan, retry, drops, log, hand,
                     received, replaying, cancelled>>
      /\ registered' = registered \cup {c} /\ since' = [since EXCEPT ![c] = Len(log)]
      /\ conn[c] = "join" /\ replayLoop # "deliver"
    BY Frames DEF Join, queueVars, DeliveryLockFree
<1>3. \A d \in Clients : Given(d)' = Given(d)
    BY <1>2, GivenStays
<1>4. /\ cues \in Seq(Nat) /\ Range(cues) \subseteq Range(history)
      /\ BacklogPolicy = "send_all" => cues = history
    BY SelectionsAre DEF TypeOK
<1>5. /\ offered'[c] = cues /\ since'[c] = Len(log)
      /\ \A d \in Clients \ {c} : offered'[d] = offered[d] /\ since'[d] = since[d]
    BY <1>1, <1>2 DEF TypeOK
<1>6. replaying = 0
    BY <1>2 DEF Control
<1>7. Range(Given(c)) = {} /\ drops[c] = 0
  <2>1. received[c] = <<>> /\ hand[c] = 0 /\ chan[c] = <<>> /\ retry[c] = <<>> /\ drops[c] = 0
      BY <1>2 DEF ConnectionInv, Arriving
  <2> QED
      BY <2>1, GivenTyped, RangeOfEmpty
<1> USE DEF DataInv
<1>8. Fresh'
  <2>1. Everywhere' \subseteq 1 .. payloads' /\ replaying' \in 0 .. payloads'
      BY <1>2 DEF Fresh, Everywhere
  <2>2. Range(cues) \subseteq 1 .. payloads
      BY <1>4 DEF Fresh, Everywhere
  <2>3. \A d \in Clients : Range(Given(d)') \cup Range(offered'[d]) \subseteq 1 .. payloads'
      BY <1>2, <1>3, <1>5, <2>2 DEF Fresh
  <2> QED
      BY <2>1, <2>3 DEF Fresh
<1>9. PendingInv'
    BY <1>2, <1>3 DEF PendingInv, Pending
<1>10. OrderInv'
    BY <1>2, <1>3, SameOrder
<1>11. DropInv'
  <2> SUFFICES ASSUME ~cancelled, NEW d \in registered'
               PROVE  Cardinality(Live(d)') + drops[d] = Len(log) - since'[d]
      BY <1>2 DEF DropInv
  <2>1. d \in Clients /\ Live(d)' = Live(d)
      BY <1>2, <1>3 DEF Live, TypeOK
  <2>2. CASE d = c
    <3>1. Live(c) = {}
        BY <1>7 DEF Live, Of
    <3>2. Cardinality(Live(c)) = 0
        BY <3>1, FS_EmptySet
    <3>3. PICK n \in Nat : n = Len(log)
        BY DEF TypeOK
    <3> QED
        BY <1>5, <1>7, <2>1, <2>2, <3>2, <3>3
  <2>3. CASE d # c
      BY <1>2, <1>5, <2>1, <2>3 DEF DropInv
  <2> QED
      BY <2>2, <2>3
<1>12. HistoryInv'
  <2>1. Len(log) \in Nat
      BY DEF TypeOK
  <2>2. \A d \in registered' : d \in Clients /\ (d = c \/ d \in registered)
      BY <1>2 DEF TypeOK
  <2>3. \A d \in registered' : since'[d] <= Len(log)
      BY <1>5, <2>1, <2>2 DEF HistoryInv
  <2>4. \A d \in registered' : Range(offered'[d]) \cap Range(paced) = {}
      BY <1>4, <1>5, <2>2 DEF HistoryInv
  <2> QED
      BY <1>2, <2>3, <2>4 DEF HistoryInv, Sent
<1>13. PacedOnce'
    BY <1>2, <1>6 DEF PacedOnce
<1>14. NoGapAtJoin'
  <2> SUFFICES ASSUME BacklogPolicy = "send_all", NEW d \in registered', NEW i \in 1 .. since'[d]
               PROVE  log[i] \in Range(offered'[d]) \cup themes \/ Len(offered'[d]) = ReplayMax
      BY <1>2 DEF NoGapAtJoin
  <2>1. CASE d = c
    <3>1. i \in 1 .. Len(log) /\ offered'[d] = history
        BY <1>4, <1>5, <2>1
    <3>2. log[i] \in Range(log)
      <4>1. DOMAIN log = 1 .. Len(log)
          BY DEF TypeOK
      <4> QED
          BY <3>1, <4>1 DEF Range
    <3>3. CASE Len(history) < ReplayMax
        BY <3>1, <3>2, <3>3 DEF HistoryInv, Sent
    <3>4. CASE ~(Len(history) < ReplayMax)
      <4>1. Len(history) \in Nat /\ ReplayMax \in Nat /\ Len(history) <= ReplayMax
          BY DEF TypeOK, ServerAssumption, HistoryInv
      <4>2. Len(history) = ReplayMax
          BY <3>4, <4>1
      <4> QED
          BY <3>1, <4>2
    <3> QED
        BY <3>3, <3>4
  <2>2. CASE d # c
    <3>1. d \in Clients /\ d \in registered /\ offered'[d] = offered[d] /\ since'[d] = since[d]
        BY <1>2, <1>5, <2>2 DEF TypeOK
    <3> QED
        BY <3>1 DEF NoGapAtJoin
  <2> QED
      BY <2>1, <2>2
<1> QED
    BY <1>8, <1>9, <1>10, <1>11, <1>12, <1>13, <1>14

LEMMA DataPreserved ==
    ASSUME ServerAssumption, TypeOK, Control, ConnectionInv, DataInv, [Next]_vars
    PROVE  DataInv'
<1>1. ASSUME Quiet PROVE DataInv'
    BY <1>1, QuietData, QuietKeepsData
<1>2. ASSUME BroadcastLive \/ BroadcastTheme \/ ReplayDelivers PROVE DataInv'
  <2>1. PICK p \in Nat \ {0} : Hands(p)
      BY <1>2, BroadcastsHand
  <2> QED
      BY <2>1, HandsKeepsData
<1>3. ASSUME NEW c \in Clients, Join(c) PROVE DataInv'
    BY <1>3, JoinKeepsData
<1>4. ASSUME NEW c \in Clients, PumpTakes(c) \/ PumpSends(c) PROVE DataInv'
    BY <1>4, PumpKeepsData
<1>5. ASSUME NEW c \in Clients, Unregister(c) PROVE DataInv'
    BY <1>5, FewerKeepData
<1>6. CASE StopResets \/ \E c \in Clients : Forget(c)
    BY <1>6, ForgetKeepsData
<1>8. CASE RememberLive \/ BroadcastPaced \/ BroadcastAcoustic
    BY <1>8, RememberKeepsData, PacedKeepsData, AcousticKeepsData
<1>9. CASE ReplayTakes \/ StopCancels \/ StopClears
    BY <1>9, ReplayTakesKeepsData, StopCancelsKeepsData, FewerKeepData
<1> QED
    BY <1>1, <1>2, <1>3, <1>4, <1>5, <1>6, <1>8, <1>9, Steps

(***************************************************************************)
(* Types, the control of the owner and the replay loop, and connections.   *)
(***************************************************************************)

(* What no broadcast, no sender and no replay changes. *)
LEMMA SendersLeave ==
    ASSUME Send \/ Replay
    PROVE  UNCHANGED <<conn, hand, received, registered, since, offered, cancelled,
                       bound, stopPc, clientCount>>
BY Frames DEF Send, Replay, RememberLive, BroadcastLive, BroadcastPaced, BroadcastTheme,
              BroadcastAcoustic, ReplayTakes, ReplayDelivers, ReplayLeaves

LEMMA OwnerLeaves ==
    ASSUME AcceptLeaves \/ Start \/ Stop
    PROVE  /\ UNCHANGED <<conn, hand, received, since, offered, log, chan, payloads, history, inFlight,
                          themes, replaying>>
           /\ registered' \subseteq registered
           /\ paced' = paced \/ paced' = <<>>
           /\ clientCount' = clientCount \/ clientCount' = 0
           /\ \/ UNCHANGED <<retry, drops>>
              \/ retry' = [c \in Clients |-> <<>>] /\ drops' = [c \in Clients |-> 0]
BY DEF AcceptLeaves, Start, Stop, StopCancels, StopClears, StopResets, StopJoins, bufferVars,
       queueVars, connVars, joinVars, replayVars

LEMMA ConnectionLeaves ==
    ASSUME NEW c \in Clients, Accept(c) \/ Connection(c) \/ PeerCloses(c)
    PROVE  /\ UNCHANGED <<history, paced, payloads, inFlight, themes, bound, cancelled, stopPc,
                          replayLoop, replaying, log>>
           /\ \A d \in Clients \ {c} : d \in registered' <=> d \in registered
<1>1. UNCHANGED connFrame \/ PeerCloses(c)
    BY DEF Accept, Connection, HandshakeRejected, HandshakeDone, HelloFails, HelloSent, Join,
           BurstSends, BurstBreaks, BurstDone, PumpTakes, PumpSends, PumpLeaves, Unregister, Forget
<1>2. UNCHANGED log /\ \A d \in Clients \ {c} : d \in registered' <=> d \in registered
    BY DEF Accept, Connection, HandshakeRejected, HandshakeDone, HelloFails, HelloSent, Join,
           BurstSends, BurstBreaks, BurstDone, PumpTakes, PumpSends, PumpLeaves, Unregister, Forget,
           PeerCloses, queueVars, joinVars
<1>3. CASE PeerCloses(c)
    BY <1>2, <1>3 DEF PeerCloses, bufferVars, ownerVars, replayVars
<1> QED
    BY <1>1, <1>2, <1>3, Frames

LEMMA ControlPreserved ==
    ASSUME TypeOK, Control, Fresh, [Next]_vars
    PROVE  /\ Control'
           /\ bound' \in BOOLEAN /\ cancelled' \in BOOLEAN
           /\ replayLoop' \in {"none", "wait", "deliver", "done"}
           /\ stopPc' \in {"idle", "clear", "reset", "join", "stopped"}
<1> USE DEF TypeOK, Control
<1>1. CASE Send
  <2>1. UNCHANGED <<replayLoop, replaying>>
      BY <1>1 DEF Send, RememberLive, BroadcastLive, BroadcastPaced, BroadcastTheme,
                  BroadcastAcoustic, replayVars
  <2> QED
      BY <1>1, <2>1, SendersLeave
<1>2. CASE Replay
  <2>1. CASE ReplayTakes
    <3>1. Head(paced) \in Range(paced)
        BY <2>1, RangeOfTail DEF ReplayTakes
    <3>2. Head(paced) # 0
        BY <3>1 DEF Fresh, Everywhere
    <3> QED
        BY <1>2, <2>1, <3>2, SendersLeave DEF ReplayTakes
  <2> QED
      BY <1>2, <2>1, SendersLeave DEF Replay, ReplayDelivers, ReplayLeaves
<1>3. CASE AcceptLeaves
    BY <1>3 DEF AcceptLeaves, replayVars
<1>4. CASE Start
    BY <1>4 DEF Start
<1>5. CASE Stop
  <2>1. UNCHANGED <<replayLoop, replaying>>
      BY <1>5 DEF Stop, StopCancels, StopClears, StopResets, StopJoins, replayVars
  <2>2. /\ cancelled' /\ ~bound' /\ cancelled' \in BOOLEAN /\ bound' \in BOOLEAN
        /\ stopPc' \in {"clear", "reset", "join", "stopped"}
        /\ stopPc' = "stopped" => replayLoop = "done"
    <3>1. CASE StopCancels
        BY <3>1 DEF StopCancels
    <3>2. CASE StopClears \/ StopResets \/ StopJoins
      <4>1. /\ stopPc # "idle" /\ cancelled' = cancelled /\ bound' = bound
            /\ stopPc' \in {"reset", "join", "stopped"}
            /\ stopPc' = "stopped" => replayLoop = "done"
          BY <3>2 DEF StopClears, StopResets, StopJoins
      <4>2. cancelled /\ ~bound
          BY <4>1
      <4> QED
          BY <4>1, <4>2
    <3> QED
        BY <1>5, <3>1, <3>2 DEF Stop
  <2>3. replayLoop' = "deliver" <=> replaying' # 0
      BY <2>1
  <2>4. stopPc' # "idle" /\ (stopPc' = "stopped" => replayLoop' = "done")
      BY <2>1, <2>2
  <2> QED
      BY <2>1, <2>2, <2>3, <2>4
<1>6. ASSUME NEW c \in Clients, Accept(c) \/ Connection(c) \/ PeerCloses(c)
      PROVE  UNCHANGED <<bound, cancelled, stopPc, replayLoop, replaying>>
    BY <1>6, ConnectionLeaves
<1>7. CASE UNCHANGED vars
    BY <1>7 DEF vars, ownerVars, replayVars
<1> QED
    BY <1>1, <1>2, <1>3, <1>4, <1>5, <1>6, <1>7 DEF Next

(* The count goes up with a handshake, and down when a greeting fails or a connection ends. *)
LEMMA CountSteps ==
    ASSUME TypeOK, NEW c \in Clients, Accept(c) \/ Connection(c) \/ PeerCloses(c)
    PROVE  \/ /\ c \notin Counted /\ clientCount' = clientCount + 1
              /\ conn' = [conn EXCEPT ![c] = "hello"]
           \/ /\ c \in Counted /\ clientCount' = IF clientCount = 0 THEN 0 ELSE clientCount - 1
              /\ conn' = [conn EXCEPT ![c] = "closed"]
           \/ /\ UNCHANGED clientCount
              /\ \E place \in Places : conn' = [conn EXCEPT ![c] = place]
                                       /\ (c \in Counted <=> place \in {"hello", "join"} \cup Joined \cup Leaving)
<1> USE DEF Counted, Places, Arriving, Joined, Leaving, GoesTo
<1>1. conn \in [Clients -> Places]
    BY DEF TypeOK
<1>2. CASE HandshakeDone(c)
    BY <1>2 DEF HandshakeDone
<1>3. CASE HelloFails(c) \/ Forget(c)
    BY <1>3 DEF HelloFails, Forget, Uncounted
<1>4. CASE \/ Accept(c) \/ HandshakeRejected(c) \/ HelloSent(c) \/ Join(c) \/ BurstDone(c)
           \/ PumpLeaves(c) \/ Unregister(c)
    BY <1>4 DEF Accept, HandshakeRejected, HelloSent, Join, BurstDone, PumpLeaves, Unregister
<1>5. CASE BurstSends(c) \/ BurstBreaks(c) \/ PumpTakes(c) \/ PumpSends(c) \/ PeerCloses(c)
  <2>1. UNCHANGED <<clientCount, conn>>
      BY <1>5 DEF BurstSends, BurstBreaks, PumpTakes, PumpSends, PeerCloses, connVars
  <2>2. conn' = [conn EXCEPT ![c] = conn[c]] /\ conn[c] \in Places
      BY <1>1, <2>1
  <2> QED
      BY <2>1, <2>2
<1> QED
    BY <1>2, <1>3, <1>4, <1>5 DEF Connection

LEMMA TypesPreserved ==
    ASSUME ServerAssumption, TypeOK, Control, ConnectionInv, DataInv, [Next]_vars
    PROVE  TypeOK'
<1>1. /\ bound' \in BOOLEAN /\ cancelled' \in BOOLEAN
      /\ replayLoop' \in {"none", "wait", "deliver", "done"}
      /\ stopPc' \in {"idle", "clear", "reset", "join", "stopped"}
    BY ControlPreserved DEF DataInv
<1>2. payloads + 1 \in Nat /\ (NewPayload => payloads' = payloads + 1)
    BY DEF TypeOK, NewPayload
<1>3. CASE Send \/ Replay
  <2>1. UNCHANGED <<conn, hand, received, registered, since, offered, clientCount>>
      BY <1>3, SendersLeave
  <2>2. /\ history' \in Seq(Nat) /\ paced' \in Seq(Nat) /\ inFlight' \subseteq Nat
        /\ themes' \subseteq Nat /\ payloads' \in Nat /\ replaying' \in Nat
    <3>1. CASE RememberLive
      <4>1. PushDropOldest(history, payloads', ReplayMax) \in Seq(Nat)
          BY <1>2, <3>1, PushesOnce DEF RememberLive, TypeOK, ServerAssumption
      <4> QED
          BY <1>2, <3>1, <4>1 DEF RememberLive, TypeOK, replayVars
    <3>2. CASE BroadcastPaced
      <4>1. PushDropOldest(paced, payloads', ReplayMax) \in Seq(Nat)
          BY <1>2, <3>2, PushesOnce DEF BroadcastPaced, TypeOK, ServerAssumption
      <4> QED
          BY <1>2, <3>2, <4>1 DEF BroadcastPaced, TypeOK, replayVars
    <3>3. CASE ReplayTakes
      <4>1. Tail(paced) \in Seq(Nat) /\ Head(paced) \in Nat
          BY <3>3, RangeOfTail DEF ReplayTakes, TypeOK
      <4>2. PushDropOldest(history, Head(paced), ReplayMax) \in Seq(Nat)
          BY <4>1, PushesOnce DEF TypeOK, ServerAssumption
      <4> QED
          BY <3>3, <4>1, <4>2 DEF ReplayTakes, TypeOK
    <3>4. CASE BroadcastLive \/ BroadcastTheme \/ BroadcastAcoustic
        BY <1>2, <3>4 DEF BroadcastLive, BroadcastTheme, BroadcastAcoustic, TypeOK, replayVars
    <3>5. CASE ReplayDelivers \/ ReplayLeaves
      <4>1. UNCHANGED bufferVars /\ replaying' \in {0, replaying}
          BY <3>5 DEF ReplayDelivers, ReplayLeaves
      <4> QED
          BY <4>1 DEF bufferVars, TypeOK
    <3> QED
        BY <1>3, <3>1, <3>2, <3>3, <3>4, <3>5 DEF Send, Replay
  <2>3. /\ log' \in Seq(Nat) /\ chan' \in [Clients -> Seq(Nat)]
        /\ retry' \in [Clients -> Seq(Nat)] /\ drops' \in [Clients -> Nat]
    <3>1. CASE BroadcastLive \/ BroadcastTheme \/ ReplayDelivers
        BY <3>1, BroadcastsHand, HandsTyped
    <3>2. CASE BroadcastAcoustic
      <4>1. payloads' \in Nat
          BY <1>2, <3>2 DEF BroadcastAcoustic
      <4>2. \A c \in Clients : Append(chan[c], payloads') \in Seq(Nat) /\ chan[c] \in Seq(Nat)
          BY <4>1, RangeOfAppend DEF TypeOK
      <4> QED
          BY <3>2, <4>2 DEF BroadcastAcoustic, TypeOK
    <3>3. CASE RememberLive \/ BroadcastPaced \/ ReplayTakes \/ ReplayLeaves
        BY <3>3 DEF RememberLive, BroadcastPaced, ReplayTakes, ReplayLeaves, queueVars, TypeOK
    <3> QED
        BY <1>3, <3>1, <3>2, <3>3 DEF Send, Replay
  <2> QED
      BY <1>1, <2>1, <2>2, <2>3 DEF TypeOK
<1>4. CASE AcceptLeaves \/ Start \/ Stop
  <2>1. <<>> \in Seq(Nat)
      OBVIOUS
  <2>2. /\ [c \in Clients |-> <<>>] \in [Clients -> Seq(Nat)]
        /\ [c \in Clients |-> 0] \in [Clients -> Nat]
      BY <2>1
  <2>3. retry' \in [Clients -> Seq(Nat)] /\ drops' \in [Clients -> Nat]
    <3>1. CASE UNCHANGED <<retry, drops>>
        BY <3>1 DEF TypeOK
    <3> QED
        BY <1>4, <2>2, <3>1, OwnerLeaves
  <2>4. /\ UNCHANGED <<conn, hand, received, since, offered, log, chan, payloads, history, inFlight,
                       themes, replaying>>
        /\ registered' \subseteq Clients /\ paced' \in Seq(Nat) /\ clientCount' \in Nat
    <3>1. 0 \in Nat /\ clientCount \in Nat /\ paced \in Seq(Nat) /\ registered \subseteq Clients
        BY DEF TypeOK
    <3> QED
        BY <1>4, <2>1, <3>1, OwnerLeaves
  <2> QED
      BY <1>1, <2>3, <2>4 DEF TypeOK
<1>5. ASSUME NEW c \in Clients, Accept(c) \/ Connection(c) \/ PeerCloses(c)
      PROVE  TypeOK'
  <2>1. UNCHANGED <<history, paced, payloads, inFlight, themes, replaying, log>>
      BY <1>5, ConnectionLeaves
  <2>2. conn' \in [Clients -> Places]
    <3>1. conn' = conn \/ \E place \in Places : GoesTo(c, place)
        BY <1>5 DEF Accept, Connection, HandshakeRejected, HandshakeDone, HelloFails, HelloSent, Join,
             BurstSends, BurstBreaks, BurstDone, PumpTakes, PumpSends, PumpLeaves, Unregister, Forget,
             PeerCloses, connVars, Places, Arriving, Joined, Leaving
    <3> QED
        BY <3>1 DEF GoesTo, TypeOK
  <2>5. clientCount' \in Nat
    <3>1. clientCount \in Nat
        BY DEF TypeOK
    <3>2. \/ clientCount' = clientCount + 1 \/ clientCount' = clientCount
          \/ clientCount' = IF clientCount = 0 THEN 0 ELSE clientCount - 1
        BY <1>5, CountSteps
    <3> QED
        BY <3>1, <3>2
  <2>3. registered' \subseteq Clients /\ since' \in [Clients -> Nat] /\ offered' \in [Clients -> Seq(Nat)]
    <3>1. CASE Join(c)
      <4>1. PICK cues \in Selections(history) : offered' = [offered EXCEPT ![c] = cues]
          BY <3>1 DEF Join
      <4>2. cues \in Seq(Nat) /\ Len(log) \in Nat
          BY SelectionsAre DEF TypeOK
      <4> QED
          BY <3>1, <4>1, <4>2 DEF Join, TypeOK
    <3>2. CASE ~Join(c)
        BY <1>5, <3>2 DEF Accept, Connection, HandshakeRejected, HandshakeDone, HelloFails, HelloSent,
               BurstSends, BurstBreaks, BurstDone, PumpTakes, PumpSends, PumpLeaves, Unregister, Forget,
               PeerCloses, joinVars, TypeOK
    <3> QED
        BY <3>1, <3>2
  <2>4. /\ chan' \in [Clients -> Seq(Nat)] /\ retry' \in [Clients -> Seq(Nat)]
        /\ received' \in [Clients -> Seq(Nat)]
        /\ hand' \in [Clients -> Nat] /\ drops' \in [Clients -> Nat]
    <3>1. CASE PumpTakes(c)
      <4>1. Tail(chan[c]) \in Seq(Nat) /\ Head(chan[c]) \in Nat
          BY <3>1, RangeOfTail DEF PumpTakes, TypeOK
      <4> QED
          BY <3>1, <4>1 DEF PumpTakes, TypeOK
    <3>2. CASE PumpSends(c)
      <4>1. Append(received[c], hand[c]) \in Seq(Nat)
          BY RangeOfAppend DEF TypeOK
      <4> QED
          BY <3>2, <4>1 DEF PumpSends, TypeOK, queueVars
    <3>3. CASE Forget(c)
        BY <3>3 DEF Forget, TypeOK
    <3>4. CASE ~(PumpTakes(c) \/ PumpSends(c) \/ Forget(c))
        BY <1>5, <3>4 DEF Accept, Connection, HandshakeRejected, HandshakeDone, HelloFails, HelloSent,
               Join, BurstSends, BurstBreaks, BurstDone, PumpLeaves, Unregister, PeerCloses,
               queueVars, connVars, TypeOK
    <3> QED
        BY <3>1, <3>2, <3>3, <3>4
  <2> QED
      BY <1>1, <2>1, <2>2, <2>3, <2>4, <2>5 DEF TypeOK
<1>6. CASE UNCHANGED vars
    BY <1>6 DEF vars, bufferVars, queueVars, connVars, joinVars, ownerVars, replayVars, TypeOK
<1> QED
    BY <1>3, <1>4, <1>5, <1>6 DEF Next

LEMMA ConnectionsPreserved ==
    ASSUME ServerAssumption, TypeOK, Control, ConnectionInv, DataInv, [Next]_vars, TypeOK'
    PROVE  ConnectionInv'
<1>1. CASE UNCHANGED <<conn, registered, received, hand, chan, drops, retry, log>>
    BY <1>1 DEF ConnectionInv
<1>2. CASE BroadcastLive \/ BroadcastTheme \/ ReplayDelivers
  <2>1. PICK p \in Nat : Hands(p)
      BY <1>2, BroadcastsHand
  <2>2. UNCHANGED <<conn, registered, received, hand>>
      BY <1>2, SendersLeave DEF Send, Replay
  <2>3. Range(log') = Range(log) \cup {p}
      BY <2>1, HandsTyped
  <2> SUFFICES ASSUME NEW c \in Clients
               PROVE  /\ c \in registered => conn[c] \in Joined
                      /\ conn[c] \in Arriving =>
                             received[c] = <<>> /\ hand[c] = 0 /\ chan'[c] = <<>> /\ drops'[c] = 0
                      /\ conn[c] \in Arriving \cup {"closed"} => retry'[c] = <<>>
                      /\ Len(chan'[c]) <= ChannelSize
                      /\ Range(retry'[c]) \subseteq Range(log')
      BY <2>2 DEF ConnectionInv
  <2>4. /\ Len(chan'[c]) <= ChannelSize /\ Range(retry'[c]) \subseteq Range(retry[c]) \cup {p}
        /\ c \notin registered => chan'[c] = chan[c] /\ retry'[c] = retry[c] /\ drops'[c] = drops[c]
      BY <2>1, HandsTyped
  <2>5. c \in registered => conn[c] \notin Arriving \cup {"closed"}
      BY DEF ConnectionInv, Arriving, Joined
  <2> QED
      BY <2>3, <2>4, <2>5 DEF ConnectionInv
<1>3. CASE BroadcastAcoustic
  <2>1. UNCHANGED <<conn, registered, received, hand, retry, log, drops>>
      BY <1>3, SendersLeave DEF Send, BroadcastAcoustic
  <2> SUFFICES ASSUME NEW c \in Clients
               PROVE  /\ conn[c] \in Arriving => chan'[c] = <<>>
                      /\ Len(chan'[c]) <= ChannelSize
      BY <2>1 DEF ConnectionInv
  <2>2. CASE c \in registered /\ Len(chan[c]) < ChannelSize
    <3>1. chan'[c] = Append(chan[c], payloads')
        BY <1>3, <2>2 DEF BroadcastAcoustic
    <3>2. payloads' \in Nat /\ Len(Append(chan[c], payloads')) = Len(chan[c]) + 1
      <4>1. payloads' \in Nat /\ chan[c] \in Seq(Nat)
          BY DEF TypeOK
      <4> QED
          BY <4>1, RangeOfAppend
    <3>3. PICK n \in Nat, m \in Nat : n = Len(chan[c]) /\ m = ChannelSize
      <4>1. chan[c] \in Seq(Nat) /\ ChannelSize \in Nat
          BY DEF TypeOK, ServerAssumption
      <4> QED
          BY <4>1
    <3>4. n + 1 <= m
        BY <2>2, <3>3
    <3> QED
        BY <2>2, <3>1, <3>2, <3>3, <3>4 DEF ConnectionInv, Arriving, Joined
  <2>3. CASE ~(c \in registered /\ Len(chan[c]) < ChannelSize)
    <3>1. chan'[c] = chan[c]
        BY <1>3, <2>3 DEF BroadcastAcoustic
    <3> QED
        BY <3>1 DEF ConnectionInv
  <2> QED
      BY <2>2, <2>3
<1>4. CASE RememberLive \/ BroadcastPaced \/ ReplayTakes \/ ReplayLeaves
  <2>1. UNCHANGED <<conn, registered, received, hand, chan, drops, retry, log>>
      BY <1>4, SendersLeave DEF Send, Replay, RememberLive, BroadcastPaced, ReplayTakes, ReplayLeaves,
             queueVars
  <2> QED
      BY <1>1, <2>1
<1>5. CASE AcceptLeaves \/ Start \/ Stop
  <2>1. UNCHANGED <<conn, received, hand, chan, log>> /\ registered' \subseteq registered
      BY <1>5, OwnerLeaves
  <2>2. \A c \in Clients : \/ retry'[c] = retry[c] /\ drops'[c] = drops[c]
                           \/ retry'[c] = <<>> /\ drops'[c] = 0
      BY <1>5, OwnerLeaves
  <2> QED
      BY <2>1, <2>2, RangeOfEmpty DEF ConnectionInv
<1>6. ASSUME NEW c \in Clients, Accept(c) \/ Connection(c) \/ PeerCloses(c)
      PROVE  ConnectionInv'
  <2>1. log' = log /\ \A d \in Clients \ {c} : d \in registered' <=> d \in registered
      BY <1>6, ConnectionLeaves
  <2>2. \A d \in Clients \ {c} :
            /\ conn'[d] = conn[d] /\ received'[d] = received[d] /\ hand'[d] = hand[d]
            /\ chan'[d] = chan[d] /\ drops'[d] = drops[d] /\ retry'[d] = retry[d]
      BY <1>6 DEF Accept, Connection, HandshakeRejected, HandshakeDone, HelloFails, HelloSent, Join,
             BurstSends, BurstBreaks, BurstDone, PumpTakes, PumpSends, PumpLeaves, Unregister, Forget,
             PeerCloses, GoesTo, queueVars, connVars, TypeOK
  <2>3. /\ c \in registered' => conn'[c] \in Joined
        /\ conn'[c] \in Arriving =>
               received'[c] = <<>> /\ hand'[c] = 0 /\ chan'[c] = <<>> /\ drops'[c] = 0
        /\ conn'[c] \in Arriving \cup {"closed"} => retry'[c] = <<>>
        /\ Len(chan'[c]) <= ChannelSize
        /\ Range(retry'[c]) \subseteq Range(log)
    <3> USE DEF TypeOK, Arriving, Joined, GoesTo
    <3>1. /\ c \in registered => conn[c] \in Joined
          /\ conn[c] \in Arriving =>
                 received[c] = <<>> /\ hand[c] = 0 /\ chan[c] = <<>> /\ drops[c] = 0
          /\ conn[c] \in Arriving \cup {"closed"} => retry[c] = <<>>
          /\ Len(chan[c]) <= ChannelSize
          /\ Range(retry[c]) \subseteq Range(log)
        BY DEF ConnectionInv
    <3>2. CASE Accept(c) \/ HandshakeRejected(c) \/ HandshakeDone(c) \/ HelloFails(c) \/ HelloSent(c)
        BY <3>1, <3>2 DEF Accept, HandshakeRejected, HandshakeDone, HelloFails, HelloSent, queueVars,
               joinVars
    <3>3. CASE Join(c)
        BY <3>1, <3>3 DEF Join, queueVars
    <3>4. CASE BurstSends(c) \/ BurstBreaks(c) \/ BurstDone(c) \/ PumpLeaves(c)
        BY <3>1, <3>4 DEF BurstSends, BurstBreaks, BurstDone, PumpLeaves, queueVars, joinVars
    <3>5. CASE PumpTakes(c)
      <4>1. Len(Tail(chan[c])) <= ChannelSize
        <5>1. Len(Tail(chan[c])) = Len(chan[c]) - 1 /\ chan[c] \in Seq(Nat)
            BY <3>5, RangeOfTail DEF PumpTakes
        <5> QED
            BY <3>1, <5>1 DEF ServerAssumption
      <4> QED
          BY <3>1, <3>5, <4>1 DEF PumpTakes, joinVars
    <3>6. CASE PumpSends(c)
        BY <3>1, <3>6 DEF PumpSends, queueVars, joinVars
    <3>7. CASE Unregister(c)
        BY <3>1, <3>7 DEF Unregister, queueVars
    <3>8. CASE Forget(c)
      <4>1. Len(<<>>) <= ChannelSize
          BY DEF ServerAssumption
      <4> QED
          BY <3>1, <3>8, <4>1, RangeOfEmpty DEF Forget, joinVars
    <3>9. CASE PeerCloses(c)
        BY <3>1, <3>9 DEF PeerCloses, queueVars, connVars, joinVars
    <3> QED
        BY <1>6, <3>2, <3>3, <3>4, <3>5, <3>6, <3>7, <3>8, <3>9 DEF Connection
  <2> QED
      BY <2>1, <2>2, <2>3 DEF ConnectionInv
<1>7. CASE UNCHANGED vars
    BY <1>1, <1>7 DEF vars, queueVars, connVars, joinVars
<1> QED
    BY <1>2, <1>3, <1>4, <1>5, <1>6, <1>7 DEF Next, Send, Replay

LEMMA CountsPreserved ==
    ASSUME TypeOK, CountInv, [Next]_vars
    PROVE  CountInv'
<1>0. clientCount \in Nat /\ Cardinality(Counted) \in Nat /\ IsFiniteSet(Counted)
    BY FS_CardinalityType DEF CountInv, TypeOK
<1>1. CASE Send \/ Replay
  <2>1. UNCHANGED <<conn, clientCount>>
      BY <1>1, SendersLeave
  <2> QED
      BY <2>1 DEF CountInv, Counted
<1>2. CASE AcceptLeaves \/ Start \/ Stop
  <2>1. conn' = conn /\ (clientCount' = clientCount \/ clientCount' = 0)
      BY <1>2, OwnerLeaves
  <2>2. Counted' = Counted
      BY <2>1 DEF Counted
  <2> QED
      BY <1>0, <2>1, <2>2 DEF CountInv
<1>3. ASSUME NEW c \in Clients, Accept(c) \/ Connection(c) \/ PeerCloses(c)
      PROVE  CountInv'
  <2>1. CASE /\ c \notin Counted /\ clientCount' = clientCount + 1
             /\ conn' = [conn EXCEPT ![c] = "hello"]
    <3>1. Counted' = Counted \cup {c}
        BY <2>1 DEF Counted, TypeOK
    <3>2. IsFiniteSet(Counted') /\ Cardinality(Counted') = Cardinality(Counted) + 1
        BY <1>0, <2>1, <3>1, FS_AddElement
    <3> QED
        BY <1>0, <2>1, <3>2 DEF CountInv
  <2>2. CASE /\ c \in Counted /\ clientCount' = IF clientCount = 0 THEN 0 ELSE clientCount - 1
             /\ conn' = [conn EXCEPT ![c] = "closed"]
    <3>1. Counted' = Counted \ {c}
        BY <2>2 DEF Counted, TypeOK, Joined, Leaving
    <3>2. IsFiniteSet(Counted') /\ Cardinality(Counted') = Cardinality(Counted) - 1
        BY <1>0, <2>2, <3>1, FS_RemoveElement
    <3>3. Cardinality(Counted') \in Nat
        BY <3>2, FS_CardinalityType
    <3> QED
        BY <1>0, <2>2, <3>2, <3>3 DEF CountInv
  <2>3. ASSUME UNCHANGED clientCount, NEW place \in Places, conn' = [conn EXCEPT ![c] = place],
               c \in Counted <=> place \in {"hello", "join"} \cup Joined \cup Leaving
        PROVE  CountInv'
    <3>1. Counted' = Counted
        BY <2>3 DEF Counted, TypeOK
    <3> QED
        BY <2>3, <3>1 DEF CountInv
  <2> QED
      BY <1>3, <2>1, <2>2, <2>3, CountSteps
<1>4. CASE UNCHANGED vars
    BY <1>4 DEF vars, connVars, CountInv, Counted
<1> QED
    BY <1>1, <1>2, <1>3, <1>4 DEF Next

(***************************************************************************)
(* The theorems.                                                           *)
(***************************************************************************)

LEMMA Initially ==
    ASSUME ServerAssumption, Init
    PROVE  IInv
<1>1. <<>> \in Seq(Nat) /\ Range(<<>>) = {} /\ Len(<<>>) = 0
    BY RangeOfEmpty
<1>2. TypeOK
    BY <1>1 DEF Init, TypeOK, Places, Arriving
<1>3. Control
    BY DEF Init, Control
<1>4. \A c \in Clients : Range(Given(c)) = {} /\ Given(c) = <<>>
  <2> SUFFICES ASSUME NEW c \in Clients PROVE Given(c) = <<>>
      BY <1>1
  <2>1. received[c] = <<>> /\ hand[c] = 0 /\ chan[c] = <<>> /\ retry[c] = <<>>
      BY DEF Init
  <2> QED
      BY <2>1 DEF Given
<1>5. Fresh
    BY <1>1, <1>4 DEF Init, Fresh, Everywhere
<1>6. PendingInv
    BY <1>1, <1>4 DEF Init, PendingInv, Pending, Once
<1>7. ConnectionInv
    BY <1>1 DEF Init, ConnectionInv, Arriving, ServerAssumption
<1>8. CountInv
  <2>1. Counted = {}
      BY DEF Init, Counted, Joined, Leaving
  <2> QED
      BY <2>1, FS_EmptySet DEF CountInv, Init
<1>9. OrderInv
    BY <1>1, <1>4 DEF Init, OrderInv, Once, InOrder
<1>10. DropInv /\ PacedOnce /\ NoGapAtJoin
    BY DEF Init, DropInv, PacedOnce, NoGapAtJoin
<1>11. HistoryInv
    BY <1>1 DEF Init, HistoryInv, Sent, ServerAssumption
<1> QED
    BY <1>2, <1>3, <1>5, <1>6, <1>7, <1>8, <1>9, <1>10, <1>11 DEF IInv

(* The inductive invariant, which the theorems below read off. *)
THEOREM ServerInvariant == Spec => []IInv
<1>1. Init => IInv
    BY Initially, ServerAssumption
<1>2. IInv /\ [Next]_vars => IInv'
  <2> SUFFICES ASSUME IInv, [Next]_vars PROVE IInv'
      OBVIOUS
  <2>1. DataInv
      BY DEF IInv, DataInv
  <2>2. DataInv' /\ TypeOK'
      BY <2>1, ServerAssumption, DataPreserved, TypesPreserved DEF IInv
  <2>3. Control'
      BY ControlPreserved DEF IInv
  <2>4. ConnectionInv' /\ CountInv'
      BY <2>1, <2>2, ServerAssumption, ConnectionsPreserved, CountsPreserved DEF IInv
  <2> QED
      BY <2>2, <2>3, <2>4 DEF IInv, DataInv
<1> QED
    BY <1>1, <1>2, PTL DEF Spec

(* A client is given the broadcasts in their order and each at most once,  *)
(* however often broadcast_raw drained or dropped from its retry queue.    *)
THEOREM DeliveryInOrder == Spec => []InOrderOnce
<1>1. IInv => InOrderOnce
  <2> SUFFICES ASSUME IInv, NEW c \in Clients, NEW i \in DOMAIN Given(c), NEW j \in DOMAIN Given(c),
                      i < j, InLog(Given(c)[i]), InLog(Given(c)[j])
               PROVE  Place(Given(c)[i]) < Place(Given(c)[j])
      BY DEF InOrderOnce
  <2>1. Once(log) /\ Before(log, Given(c)[i], Given(c)[j])
      BY DEF IInv, OrderInv, InOrder, InLog
  <2>2. PICK k \in DOMAIN log, m \in DOMAIN log : k < m /\ log[k] = Given(c)[i] /\ log[m] = Given(c)[j]
      BY <2>1 DEF Before
  <2>3. ASSUME NEW n \in DOMAIN log PROVE Place(log[n]) = n
      BY <2>1 DEF Place, Once
  <2> QED
      BY <2>2, <2>3
<1> QED
    BY <1>1, ServerInvariant, PTL

(* While the server runs, what was broadcast since a client was registered was given  *)
(* to it, waits for it or is counted among its drops.                                 *)
THEOREM NothingDroppedSilently == Spec => []EveryDropCounted
<1>1. IInv => EveryDropCounted
  <2> SUFFICES ASSUME IInv, ~cancelled, NEW c \in registered
               PROVE  Cardinality({p \in Range(Given(c)) : InLog(p)}) + drops[c] = Len(log) - since[c]
      BY DEF EveryDropCounted
  <2>1. {p \in Range(Given(c)) : InLog(p)} = Live(c)
      BY DEF InLog, Live, Of
  <2>2. Cardinality(Live(c)) + drops[c] = Len(log) - since[c]
      BY DEF IInv, DropInv
  <2> QED
      BY <2>1, <2>2
<1> QED
    BY <1>1, ServerInvariant, PTL

(* No cue falls between the history a joining client is given and what is broadcast to *)
(* it from then on: the history is remembered before, and read under its lock.         *)
THEOREM JoinMissesNothing == Spec => []NoGapAtJoin
<1>1. IInv => NoGapAtJoin
    BY DEF IInv
<1> QED
    BY <1>1, ServerInvariant, PTL

(* A delayed cue does not reach a client twice, from the history and from the replay loop. *)
THEOREM PacedComesOnce == Spec => []PacedOnce
<1>1. IInv => PacedOnce
    BY DEF IInv
<1> QED
    BY <1>1, ServerInvariant, PTL

(* Connections that are over leave no entry in the clients map, no retry queue and no count. *)
THEOREM ConnectionsLeaveNothing == Spec => []NothingLeft
<1>1. IInv => NothingLeft
  <2> SUFFICES ASSUME IInv, \A c \in Clients : conn[c] \in {"none", "closed"}
               PROVE  registered = {} /\ clientCount = 0 /\ \A c \in Clients : retry[c] = <<>>
      BY DEF NothingLeft
  <2>1. registered = {} /\ \A c \in Clients : retry[c] = <<>>
      BY DEF IInv, ConnectionInv, TypeOK, Joined, Arriving
  <2>2. Counted = {}
      BY DEF Counted, Joined, Leaving
  <2>3. clientCount \in Nat /\ clientCount <= 0
      BY <2>2, FS_EmptySet DEF IInv, CountInv, TypeOK
  <2> QED
      BY <2>1, <2>3
<1> QED
    BY <1>1, ServerInvariant, PTL
====
