----------------------------- MODULE UartProofs -----------------------------
(***************************************************************************)
(* Both ends of the UART, for any frames and any noise: the receive path   *)
(* of the Pico, for any capacity of its two rings and any width of their   *)
(* counters (512 bytes and 2^16, 8 commands and 2^8 in the code), and the  *)
(* Zero's decoder, for chunks of any size.                                 *)
(*                                                                         *)
(* The rings: a counter that wraps at a multiple of the capacity names the *)
(* same place as one that never wraps (MultipleAdded), and places less     *)
(* than a capacity apart are different (LessAdded).  So the place that is  *)
(* written is none of those still to be read, and the difference of two    *)
(* counters, narrowed to their width, is what is in the ring.              *)
(*                                                                         *)
(* The line: the parser, the ring and the wire, one behind the other, are  *)
(* the Way of a byte.  It is what noise and dropped candidates left of the *)
(* frames, in the order they were sent (Ordered), and every command told   *)
(* from it comes before it (Precede).  A candidate whose CRC is right ends *)
(* with the last byte of its frame, so the next one is of a later frame.   *)
(* Without a fault only noise has taken bytes (Present); as long as it     *)
(* cannot take all those of one frame, the next frame told is the next one *)
(* sent (Gapless).                                                         *)
(*                                                                         *)
(* The decoder: a turn of its loop that does not wait for more bytes does  *)
(* the same with more of them behind (TurnOfMore), so that what was fed in *)
(* chunks is decoded as if fed at once (DecodeMore), and what is true of   *)
(* the stream and kept by every turn is true of what feed leaves           *)
(* (DecodeKeeps).                                                          *)
(***************************************************************************)
EXTENDS UartReceive, StreamDecoder, SequenceLemmas

-----------------------------------------------------------------------------
(* Remainders. *)

LEMMA Division ==
    ASSUME NEW a \in Int, NEW c \in Nat, c > 0
    PROVE  /\ a \div c \in Int /\ a % c \in 0..(c - 1)
           /\ a = c * (a \div c) + (a % c)
  BY Z3

LEMMA NoMultipleBetween ==
    ASSUME NEW c \in Nat, c > 0, NEW k \in Int, c * k < c, 0 - c < c * k
    PROVE  k = 0
  BY Z3

LEMMA SameRemainder ==
    ASSUME NEW c \in Nat, c > 0, NEW k \in Int, NEW m \in Int,
           NEW r \in 0..(c - 1), NEW s \in 0..(c - 1),
           c * k + r = c * m + s
    PROVE  r = s
<1> DEFINE d == k - m
<1>1. d \in Int /\ c * d = s - r
  BY Z3
<1> HIDE DEF d
<1>2. d = 0
  BY <1>1, NoMultipleBetween
<1> QED
  BY <1>1, <1>2

LEMMA MultipleAdded ==
    ASSUME NEW a \in Int, NEW c \in Nat, NEW q \in Int, c > 0
    PROVE  (a + q * c) % c = a % c
<1> DEFINE b == a + q * c
<1> DEFINE k == a \div c
<1> DEFINE r == a % c
<1> DEFINE m == b \div c
<1> DEFINE s == b % c
<1>1. /\ b \in Int /\ k \in Int /\ m \in Int /\ r \in 0..(c - 1) /\ s \in 0..(c - 1)
      /\ a = c * k + r /\ b = c * m + s
  BY Division
<1>2. b = a + q * c
  OBVIOUS
<1> HIDE DEF b, k, r, m, s
<1>3. a + q * c = c * (k + q) + r
  BY <1>1, Z3
<1>4. k + q \in Int
  BY <1>1
<1>5. r = s
  BY <1>1, <1>2, <1>3, <1>4, SameRemainder
<1> QED
  BY <1>5 DEF r, s, b

LEMMA LessAdded ==
    ASSUME NEW a \in Int, NEW c \in Nat, NEW d \in 1..(c - 1), c > 0
    PROVE  (a + d) % c # a % c
<1> DEFINE b == a + d
<1> DEFINE k == a \div c
<1> DEFINE r == a % c
<1> DEFINE m == b \div c
<1> DEFINE s == b % c
<1>1. /\ b \in Int /\ k \in Int /\ m \in Int /\ r \in 0..(c - 1) /\ s \in 0..(c - 1)
      /\ a = c * k + r /\ b = c * m + s
  BY Division
<1>2. b = a + d
  OBVIOUS
<1> HIDE DEF b, k, r, m, s
<1>3. r # s
  <2> SUFFICES ASSUME r = s PROVE FALSE
    OBVIOUS
  <2> DEFINE e == m - k
  <2>1. e \in Int /\ c * e = d
    BY <1>1, <1>2, Z3
  <2> HIDE DEF e
  <2>2. e = 0
    BY <2>1, NoMultipleBetween
  <2> QED
    BY <2>1, <2>2
<1> QED
  BY <1>3 DEF r, s, b

-----------------------------------------------------------------------------
(* Free-running counters: h puts, t takes, both wrap at w, the capacity is c. *)

Divides(w, c) == w \in Nat /\ c \in Nat /\ c > 0 /\ w > c /\ w % c = 0

LEMMA Multiple ==
    ASSUME NEW w, NEW c, Divides(w, c)
    PROVE  \E q \in Int : w = q * c
<1>1. w \div c \in Int /\ w = c * (w \div c) + (w % c)
  BY Division DEF Divides
<1> DEFINE q == w \div c
<1>2. q \in Int /\ w = c * q
  BY <1>1 DEF Divides
<1> HIDE DEF q
<1>3. c * q = q * c
  BY <1>2, Z3 DEF Divides
<1> QED
  BY <1>2, <1>3

LEMMA Difference ==
    ASSUME NEW w \in Nat, NEW h \in 0..(w - 1), NEW t \in 0..(w - 1)
    PROVE  (h - t) % w = IF t =< h THEN h - t ELSE h - t + w
<1> DEFINE d == h - t
<1>1. d \in Int /\ w > 0 /\ d < w /\ 0 - w < d /\ (t =< h <=> d >= 0)
  OBVIOUS
<1> HIDE DEF d
<1>2. CASE d >= 0
  <2>1. d % w = d
    BY <1>1, <1>2, Z3
  <2> QED
    BY <1>1, <1>2, <2>1 DEF d
<1>3. CASE d < 0
  <2>1. d % w = d + w
    BY <1>1, <1>3, Z3
  <2> QED
    BY <1>1, <1>3, <2>1 DEF d
<1> QED
  BY <1>1, <1>2, <1>3

LEMMA Counted ==
    ASSUME NEW w \in Nat, NEW x \in 0..(w - 1)
    PROVE  /\ (x + 1) % w \in 0..(w - 1)
           /\ (x + 1) % w = IF x + 1 = w THEN 0 ELSE x + 1
<1>1. CASE x + 1 = w
  BY <1>1, Z3
<1>2. CASE x + 1 < w
  BY <1>2, Z3
<1> QED
  BY <1>1, <1>2

\* A wrapped counter names the same place.
LEMMA SamePlace ==
    ASSUME NEW w, NEW c, Divides(w, c), NEW x \in Int
    PROVE  (x + w) % c = x % c
<1>1. PICK q \in Int : w = q * c
  BY Multiple
<1> QED
  BY <1>1, MultipleAdded DEF Divides

LEMMA WritePlace ==
    ASSUME NEW w, NEW c, Divides(w, c), NEW h \in 0..(w - 1), NEW t \in 0..(w - 1)
    PROVE  (t + ((h - t) % w)) % c = h % c
<1> DEFINE n == (h - t) % w
<1>1. n = (IF t =< h THEN h - t ELSE h - t + w) /\ w \in Nat
  BY Difference DEF Divides
<1> HIDE DEF n
<1>2. t + n = h \/ t + n = h + w
  BY <1>1
<1>3. (t + n) % c = h % c
  BY <1>2, SamePlace
<1> QED
  BY <1>3 DEF n

LEMMA NextPlace ==
    ASSUME NEW w, NEW c, Divides(w, c), NEW t \in 0..(w - 1), NEW i \in Int
    PROVE  (((t + 1) % w) + i - 1) % c = (t + i) % c
<1> DEFINE s == (t + 1) % w
<1>1. s = (IF t + 1 = w THEN 0 ELSE t + 1) /\ w \in Nat
  BY Counted DEF Divides
<1> HIDE DEF s
<1> DEFINE x == s + i - 1
<1>2. x \in Int /\ (t + i = x \/ t + i = x + w)
  BY <1>1
<1> HIDE DEF x
<1>3. x % c = (t + i) % c
  BY <1>2, SamePlace
<1> QED
  BY <1>3 DEF x, s

-----------------------------------------------------------------------------
(* What is in a ring, in order. *)

Contents(s, S, n) == s \in Seq(S) /\ Len(s) = n

LEMMA InOrderIsSequence ==
    ASSUME NEW c, c \in Nat /\ c > 0, NEW S, NEW a \in [0..(c - 1) -> S],
           NEW t \in Int, NEW n \in Nat
    PROVE  Contents(InOrder(a, t, n, c), S, n)
<1>1. ASSUME NEW i \in 1..n PROVE a[(t + i - 1) % c] \in S
  <2> DEFINE x == t + i - 1
  <2>1. x \in Int
    OBVIOUS
  <2> HIDE DEF x
  <2>2. x % c \in 0..(c - 1)
    BY <2>1, Division
  <2> QED
    BY <2>2 DEF x
<1> QED
  BY <1>1 DEF InOrder, Contents

\* How far a counter is ahead of another, and the counter after the next item.
Ahead(h, t, w) == (h - t) % w

Following(x, w) == (x + 1) % w

\* One sequence is the other one with an item behind it.
Extends(new, old, n, item) ==
    Len(old) = n /\ Len(new) = n + 1 /\ SubSeq(new, 1, n) = old /\ new[n + 1] = item

LEMMA PutInOrder ==
    ASSUME NEW w, NEW c, Divides(w, c), NEW h \in 0..(w - 1), NEW t \in 0..(w - 1),
           Ahead(h, t, w) < c,
           NEW S, NEW a \in [0..(c - 1) -> S], NEW v \in S
    PROVE  LET n == Ahead(h, t, w)
               m == Ahead(Following(h, w), t, w)
               b == [a EXCEPT ![h % c] = v]
           IN  /\ n \in Nat /\ m = n + 1
               /\ Extends(InOrder(b, t, m, c), InOrder(a, t, n, c), n, v)
<1> USE DEF Ahead, Following
<1> DEFINE n == (h - t) % w
           g == (h + 1) % w
           m == (g - t) % w
           b == [a EXCEPT ![h % c] = v]
           old == InOrder(a, t, n, c)
           new == InOrder(b, t, m, c)
<1>1. w \in Nat /\ c \in Nat /\ c > 0 /\ c < w
  BY DEF Divides
<1>2. n = (IF t =< h THEN h - t ELSE h - t + w) /\ n \in Nat
  BY <1>1, Difference
<1>3. g \in 0..(w - 1) /\ g = IF h + 1 = w THEN 0 ELSE h + 1
  BY <1>1, Counted
<1>4. m = n + 1
  <2>1. m = IF t =< g THEN g - t ELSE g - t + w
    BY <1>1, <1>3, Difference
  <2>2. n < c
    OBVIOUS
  <2> HIDE DEF n, g, m
  <2> QED
    BY <1>1, <1>2, <1>3, <2>1, <2>2
<1>5. h % c \in 0..(c - 1) /\ b \in [0..(c - 1) -> S]
  BY <1>1, Division
<1>6. /\ old \in Seq(S) /\ Len(old) = n
      /\ new \in Seq(S) /\ Len(new) = n + 1
  <2>1. n \in Nat /\ m \in Nat /\ m = n + 1 /\ t \in Int
    BY <1>1, <1>2, <1>4
  <2> HIDE DEF n, m, b
  <2>2. Contents(old, S, n)
    BY <1>1, <2>1, InOrderIsSequence, Zenon
  <2>3. Contents(new, S, m)
    BY <1>1, <1>5, <2>1, InOrderIsSequence, Zenon
  <2> QED
    BY <2>1, <2>2, <2>3 DEF Contents
<1>7. ASSUME NEW i \in 1..n PROVE new[i] = old[i]
  <2> DEFINE x == t + i - 1
             d == n - (i - 1)
  <2>1. x \in Int /\ d \in 1..(c - 1) /\ x + d = t + n
    <3>1. n < c
      OBVIOUS
    <3> HIDE DEF n
    <3> QED
      BY <1>1, <1>2, <3>1
  <2>2. (x + d) % c = h % c
    BY <2>1, WritePlace
  <2> HIDE DEF x, d
  <2>3. x % c # h % c
    BY <1>1, <2>1, <2>2, LessAdded
  <2>4. x % c \in 0..(c - 1)
    BY <1>1, <2>1, Division
  <2>5. b[x % c] = a[x % c]
    BY <1>5, <2>3, <2>4
  <2>6. old[i] = a[x % c] /\ new[i] = b[x % c]
    BY <1>2, <1>4 DEF InOrder, x
  <2> QED
    BY <2>5, <2>6
<1>8. SubSeq(new, 1, n) = old
  <2> HIDE DEF old, new, n
  <2> QED
    BY <1>2, <1>6, <1>7, SubSeqProperties, SeqEqual
<1>9. new[n + 1] = v
  <2>1. (t + n) % c = h % c
    BY WritePlace
  <2>2. n + 1 \in 1..m /\ t + (n + 1) - 1 = t + n
    <3> HIDE DEF n, m
    <3> QED
      BY <1>2, <1>4
  <2>3. new[n + 1] = b[(t + (n + 1) - 1) % c]
    BY <2>2 DEF InOrder
  <2>4. b[h % c] = v
    BY <1>5
  <2> QED
    BY <2>1, <2>2, <2>3, <2>4
<1>10. Extends(new, old, n, v)
  BY <1>6, <1>8, <1>9 DEF Extends
<1> QED
  BY <1>2, <1>4, <1>10

LEMMA TakeInOrder ==
    ASSUME NEW w, NEW c, Divides(w, c), NEW h \in 0..(w - 1), NEW t \in 0..(w - 1),
           h # t,
           NEW S, NEW a \in [0..(c - 1) -> S]
    PROVE  LET n == Ahead(h, t, w)
               s == Following(t, w)
               m == Ahead(h, s, w)
           IN  /\ n \in Nat /\ m = n - 1
               /\ InOrder(a, t, n, c) # <<>>
               /\ InOrder(a, s, m, c) = Tail(InOrder(a, t, n, c))
<1> USE DEF Ahead, Following
<1> DEFINE n == (h - t) % w
           s == (t + 1) % w
           m == (h - s) % w
           old == InOrder(a, t, n, c)
           new == InOrder(a, s, m, c)
<1>1. w \in Nat /\ c \in Nat /\ c > 0 /\ c < w
  BY DEF Divides
<1>2. n = (IF t =< h THEN h - t ELSE h - t + w) /\ n \in Nat /\ n > 0
  BY <1>1, Difference
<1>3. s \in 0..(w - 1) /\ s = IF t + 1 = w THEN 0 ELSE t + 1
  BY <1>1, Counted
<1>4. m = n - 1 /\ m \in Nat
  <2>1. m = IF s =< h THEN h - s ELSE h - s + w
    BY <1>1, <1>3, Difference
  <2> HIDE DEF n, s, m
  <2> QED
    BY <1>1, <1>2, <1>3, <2>1
<1>5. /\ old \in Seq(S) /\ Len(old) = n
      /\ new \in Seq(S) /\ Len(new) = m
  <2>1. n \in Nat /\ m \in Nat /\ t \in Int /\ s \in Int
    BY <1>1, <1>2, <1>3, <1>4
  <2> HIDE DEF n, m, s
  <2>2. Contents(old, S, n)
    BY <1>1, <2>1, InOrderIsSequence, Zenon
  <2>3. Contents(new, S, m)
    BY <1>1, <2>1, InOrderIsSequence, Zenon
  <2> QED
    BY <2>2, <2>3 DEF Contents
<1>6. ASSUME NEW i \in 1..m PROVE new[i] = old[i + 1]
  <2>1. (s + i - 1) % c = (t + i) % c
    BY NextPlace
  <2>2. new[i] = a[(s + i - 1) % c]
    BY DEF InOrder
  <2>3. old[i + 1] = a[(t + i) % c]
    <3>1. i + 1 \in 1..n /\ t + (i + 1) - 1 = t + i
      <4> HIDE DEF n, m
      <4> QED
        BY <1>2, <1>4
    <3>2. old[i + 1] = a[(t + (i + 1) - 1) % c]
      BY <3>1 DEF InOrder
    <3> QED
      BY <3>1, <3>2
  <2> QED
    BY <2>1, <2>2, <2>3
<1>7. old # <<>> /\ new = Tail(old)
  <2> HIDE DEF old, new, n, m
  <2> QED
    BY <1>2, <1>4, <1>5, <1>6, HeadTailProperties, SeqEqual
<1> QED
  BY <1>2, <1>4, <1>7

-----------------------------------------------------------------------------
(* The receive ring and the command ring. *)

Array(a, c) == a = [i \in 0..(c - 1) |-> a[i]]

RxInv ==
    /\ head \in 0..(RxWrap - 1) /\ tail \in 0..(RxWrap - 1)
    /\ InRing =< RxCapacity
    /\ Array(ring, RxCapacity)
    /\ byte # NoByte => tail # head

CommandInv ==
    /\ cHead \in 0..(CommandWrap - 1) /\ cTail \in 0..(CommandWrap - 1)
    /\ Queued =< CommandCapacity
    /\ Array(commands, CommandCapacity)

RingsInv == RxInv /\ CommandInv

LEMMA Widths == Divides(RxWrap, RxCapacity) /\ Divides(CommandWrap, CommandCapacity)
  BY WrapAssumption DEF Divides

LEMMA PushKeepsRing ==
    ASSUME RxInv, NEW new, NEW error, Push(new, error), UNCHANGED byte
    PROVE  /\ RxInv'
           /\ \/ RxFifo!Put /\ Extends(Received', Received, InRing, new)
              \/ RxFifo!Refuse /\ faults'
<1> DEFINE S == {ring[i] : i \in 0..(RxCapacity - 1)} \cup {new}
<1>1. ring \in [0..(RxCapacity - 1) -> S] /\ new \in S
  BY DEF RxInv, Array
<1>2. /\ RxWrap \in Nat /\ RxCapacity \in Nat /\ RxCapacity > 0 /\ RxCapacity < RxWrap
      /\ head \in 0..(RxWrap - 1) /\ tail \in 0..(RxWrap - 1)
      /\ InRing \in Nat /\ InRing =< RxCapacity
  BY Widths, Division DEF Divides, RxInv, InRing
<1> HIDE DEF S
<1>3. CASE InRing >= RxCapacity
  <2>1. UNCHANGED <<ring, head, tail>> /\ rxOverflow' = rxOverflow + 1 /\ faults'
    BY <1>3 DEF Push, LatchIf
  <2>2. RxInv' /\ Received' = Received
    BY <2>1 DEF RxInv, Received, InRing
  <2>3. Len(Received) = InRing /\ InRing = RxCapacity
    <3>1. InRing = RxCapacity /\ tail \in Int
      BY <1>2, <1>3
    <3>2. Contents(InOrder(ring, tail, InRing, RxCapacity), S, InRing)
      BY <1>1, <1>2, <3>1, InOrderIsSequence, Zenon
    <3> QED
      BY <3>1, <3>2 DEF Received, Contents
  <2> QED
    BY <2>1, <2>2, <2>3 DEF RxFifo!Refuse
<1>4. CASE InRing < RxCapacity
  <2> ~(InRing >= RxCapacity)
    BY <1>2, <1>4
  <2>1. /\ ring' = [ring EXCEPT ![head % RxCapacity] = new]
        /\ head' = (head + 1) % RxWrap /\ UNCHANGED <<tail, rxOverflow>>
    BY DEF Push
  <2>2. /\ InRing' = InRing + 1
        /\ Len(Received) = InRing /\ Len(Received') = InRing + 1
        /\ SubSeq(Received', 1, InRing) = Received
        /\ Received'[InRing + 1] = new
    <3>1. InRing = Ahead(head, tail, RxWrap)
      BY DEF InRing, Ahead
    <3>2. LET m == Ahead(Following(head, RxWrap), tail, RxWrap)
              b == [ring EXCEPT ![head % RxCapacity] = new]
          IN  /\ m = InRing + 1
              /\ Extends(InOrder(b, tail, m, RxCapacity),
                         InOrder(ring, tail, InRing, RxCapacity), InRing, new)
      BY <1>1, <1>2, <1>4, <3>1, Widths, PutInOrder, Zenon
    <3>3. InRing' = Ahead(Following(head, RxWrap), tail, RxWrap)
      BY <2>1 DEF InRing, Ahead, Following
    <3> QED
      BY <2>1, <3>2, <3>3 DEF Received, Extends
  <2>3. RxFifo!Put
    BY <1>4, <2>1, <2>2 DEF RxFifo!Put
  <2>4. head' \in 0..(RxWrap - 1) /\ Array(ring', RxCapacity)
    BY <1>2, <2>1, Counted DEF RxInv, Array
  <2>5. tail' # head' /\ InRing' =< RxCapacity
    <3>1. InRing' = (head' - tail') % RxWrap /\ InRing' > 0
      BY <1>2, <2>2 DEF InRing
    <3>2. head' = tail' => InRing' = 0
      BY <1>2, <2>1, <2>4, <3>1, Difference
    <3> QED
      BY <1>2, <1>4, <2>2, <3>1, <3>2
  <2>6. Extends(Received', Received, InRing, new)
    BY <2>2 DEF Extends
  <2> QED
    BY <1>2, <2>1, <2>3, <2>4, <2>5, <2>6 DEF RxInv
<1> QED
  BY <1>2, <1>3, <1>4

LEMMA AdvanceKeepsRing ==
    ASSUME RxInv, tail # head, tail' = (tail + 1) % RxWrap, byte' = NoByte,
           UNCHANGED <<ring, head, rxOverflow>>
    PROVE  RxInv' /\ RxFifo!Take
<1> DEFINE S == {ring[i] : i \in 0..(RxCapacity - 1)}
<1>1. ring \in [0..(RxCapacity - 1) -> S]
  BY DEF RxInv, Array
<1>2. /\ RxWrap \in Nat /\ RxCapacity \in Nat
      /\ head \in 0..(RxWrap - 1) /\ tail \in 0..(RxWrap - 1)
      /\ InRing =< RxCapacity
  BY Widths DEF Divides, RxInv
<1> HIDE DEF S
<1>3. /\ InRing \in Nat /\ InRing' = InRing - 1
      /\ Received # <<>> /\ Received' = Tail(Received)
  <2>1. InRing = Ahead(head, tail, RxWrap)
    BY DEF InRing, Ahead
  <2>2. LET s == Following(tail, RxWrap)
            m == Ahead(head, s, RxWrap)
        IN  /\ InRing \in Nat /\ m = InRing - 1
            /\ InOrder(ring, tail, InRing, RxCapacity) # <<>>
            /\ InOrder(ring, s, m, RxCapacity) = Tail(InOrder(ring, tail, InRing, RxCapacity))
    BY <1>1, <1>2, <2>1, Widths, TakeInOrder, Zenon
  <2>3. tail' = Following(tail, RxWrap) /\ InRing' = Ahead(head, Following(tail, RxWrap), RxWrap)
    BY DEF InRing, Ahead, Following
  <2> QED
    BY <2>2, <2>3 DEF Received
<1>4. tail' \in 0..(RxWrap - 1)
  BY <1>2, Counted
<1>5. RxInv'
  BY <1>2, <1>3, <1>4 DEF RxInv
<1> QED
  BY <1>3, <1>5 DEF RxFifo!Take

LEMMA EnqueueKeepsRing ==
    ASSUME CommandInv, NEW frame, Enqueue(frame)
    PROVE  /\ CommandInv'
           /\ \/ CommandFifo!Put /\ Extends(ToDispatch', ToDispatch, Queued, frame)
              \/ CommandFifo!Refuse /\ faults'
<1> DEFINE S == {commands[i] : i \in 0..(CommandCapacity - 1)} \cup {frame}
<1>1. commands \in [0..(CommandCapacity - 1) -> S] /\ frame \in S
  BY DEF CommandInv, Array
<1>2. /\ CommandWrap \in Nat /\ CommandCapacity \in Nat /\ CommandCapacity > 0
      /\ cHead \in 0..(CommandWrap - 1) /\ cTail \in 0..(CommandWrap - 1)
      /\ Queued \in Nat /\ Queued =< CommandCapacity
  BY Widths, Division DEF Divides, CommandInv, Queued
<1> HIDE DEF S
<1>3. CASE CommandsFull
  <2>1. UNCHANGED <<commands, cHead, cTail>> /\ cmdOverflow' = cmdOverflow + 1 /\ faults'
    BY <1>3 DEF Enqueue, LatchIf
  <2>2. CommandInv' /\ ToDispatch' = ToDispatch
    BY <2>1 DEF CommandInv, ToDispatch, Queued
  <2>3. Len(ToDispatch) = Queued /\ Queued = CommandCapacity
    <3>1. Queued = CommandCapacity /\ cTail \in Int
      BY <1>2, <1>3 DEF CommandsFull
    <3>2. Contents(InOrder(commands, cTail, Queued, CommandCapacity), S, Queued)
      BY <1>1, <1>2, <3>1, InOrderIsSequence, Zenon
    <3> QED
      BY <3>1, <3>2 DEF ToDispatch, Contents
  <2> QED
    BY <2>1, <2>2, <2>3 DEF CommandFifo!Refuse
<1>4. CASE ~CommandsFull
  <2>1. /\ commands' = [commands EXCEPT ![cHead % CommandCapacity] = frame]
        /\ cHead' = (cHead + 1) % CommandWrap /\ UNCHANGED <<cTail, cmdOverflow>>
    BY <1>4 DEF Enqueue
  <2>2. Queued < CommandCapacity
    BY <1>2, <1>4 DEF CommandsFull
  <2>3. /\ Queued' = Queued + 1
        /\ Len(ToDispatch) = Queued /\ Len(ToDispatch') = Queued + 1
        /\ SubSeq(ToDispatch', 1, Queued) = ToDispatch
        /\ ToDispatch'[Queued + 1] = frame
    <3>1. Queued = Ahead(cHead, cTail, CommandWrap)
      BY DEF Queued, Ahead
    <3>2. LET m == Ahead(Following(cHead, CommandWrap), cTail, CommandWrap)
              b == [commands EXCEPT ![cHead % CommandCapacity] = frame]
          IN  /\ m = Queued + 1
              /\ Extends(InOrder(b, cTail, m, CommandCapacity),
                         InOrder(commands, cTail, Queued, CommandCapacity), Queued, frame)
      BY <1>1, <1>2, <2>2, <3>1, Widths, PutInOrder, Zenon
    <3>3. Queued' = Ahead(Following(cHead, CommandWrap), cTail, CommandWrap)
      BY <2>1 DEF Queued, Ahead, Following
    <3> QED
      BY <2>1, <3>2, <3>3 DEF ToDispatch, Extends
  <2>4. CommandFifo!Put
    BY <2>1, <2>2, <2>3 DEF CommandFifo!Put
  <2>5. cHead' \in 0..(CommandWrap - 1) /\ Array(commands', CommandCapacity)
    BY <1>2, <2>1, Counted DEF CommandInv, Array
  <2>6. Extends(ToDispatch', ToDispatch, Queued, frame)
    BY <2>3 DEF Extends
  <2> QED
    BY <1>2, <2>1, <2>2, <2>3, <2>4, <2>5, <2>6 DEF CommandInv
<1> QED
  BY <1>3, <1>4

LEMMA PopKeepsRing ==
    ASSUME CommandInv, PopCommand
    PROVE  CommandInv' /\ CommandFifo!Take
<1> DEFINE S == {commands[i] : i \in 0..(CommandCapacity - 1)}
<1>1. commands \in [0..(CommandCapacity - 1) -> S]
  BY DEF CommandInv, Array
<1>2. /\ CommandWrap \in Nat /\ CommandCapacity \in Nat
      /\ cHead \in 0..(CommandWrap - 1) /\ cTail \in 0..(CommandWrap - 1)
      /\ Queued =< CommandCapacity
  BY Widths DEF Divides, CommandInv
<1> HIDE DEF S
<1>3. /\ cTail # cHead /\ cTail' = (cTail + 1) % CommandWrap
      /\ UNCHANGED <<commands, cHead, cmdOverflow>>
  BY DEF PopCommand
<1>4. /\ Queued \in Nat /\ Queued' = Queued - 1
      /\ ToDispatch # <<>> /\ ToDispatch' = Tail(ToDispatch)
  <2>1. Queued = Ahead(cHead, cTail, CommandWrap) /\ cHead # cTail
    BY <1>3 DEF Queued, Ahead
  <2>2. LET s == Following(cTail, CommandWrap)
            m == Ahead(cHead, s, CommandWrap)
        IN  /\ Queued \in Nat /\ m = Queued - 1
            /\ InOrder(commands, cTail, Queued, CommandCapacity) # <<>>
            /\ InOrder(commands, s, m, CommandCapacity)
                  = Tail(InOrder(commands, cTail, Queued, CommandCapacity))
    BY <1>1, <1>2, <2>1, Widths, TakeInOrder, Zenon
  <2>3. cTail' = Following(cTail, CommandWrap)
        /\ Queued' = Ahead(cHead, Following(cTail, CommandWrap), CommandWrap)
    BY <1>3 DEF Queued, Ahead, Following
  <2> QED
    BY <1>3, <2>2, <2>3 DEF ToDispatch
<1>5. cTail' \in 0..(CommandWrap - 1)
  BY <1>2, <1>3, Counted
<1>6. CommandInv'
  BY <1>2, <1>3, <1>4, <1>5 DEF CommandInv
<1> QED
  BY <1>3, <1>4, <1>6 DEF CommandFifo!Take

-----------------------------------------------------------------------------
(* All steps. *)

RingsKeep ==
    /\ RingsInv'
    /\ [RxFifo!Next]_<<Received, rxOverflow>>
    /\ [CommandFifo!Next]_<<ToDispatch, cmdOverflow>>

LEMMA SameRx ==
    ASSUME RxInv, UNCHANGED rx, byte' = byte \/ tail # head
    PROVE  RxInv' /\ UNCHANGED <<Received, rxOverflow>>
  BY DEF RxInv, rx, Received, InRing

LEMMA SameCommands ==
    ASSUME CommandInv, UNCHANGED commandRing
    PROVE  CommandInv' /\ UNCHANGED <<ToDispatch, cmdOverflow>>
  BY DEF CommandInv, commandRing, ToDispatch, Queued

LEMMA ReceiveStep ==
    ASSUME RingsInv, [ReceiveNext]_receiveVars
    PROVE  RingsKeep
<1> USE DEF RingsInv
<1>1. ASSUME NEW new, NEW error, Interrupt, Push(new, error) PROVE RingsKeep
  <2>1. UNCHANGED <<byte, commandRing>>
    BY <1>1 DEF Interrupt
  <2>2. RxInv' /\ RxFifo!Next
    BY <1>1, <2>1, PushKeepsRing DEF RxFifo!Next
  <2> QED
    BY <2>1, <2>2, SameCommands DEF RingsKeep
<1>2. CASE ByteArrives \/ ByteDamaged
  BY <1>1, <1>2 DEF ByteArrives, ByteDamaged
<1>3. CASE AdvanceAndParse
  <2>1. RxInv' /\ RxFifo!Next
    BY <1>3, AdvanceKeepsRing DEF AdvanceAndParse, RxInv, RxFifo!Next
  <2>2. UNCHANGED commandRing \/ \E frame : Enqueue(frame)
    BY <1>3 DEF AdvanceAndParse, Parse, Discard
  <2>3. CASE UNCHANGED commandRing
    BY <2>1, <2>3, SameCommands DEF RingsKeep
  <2>4. CASE \E frame : Enqueue(frame)
    BY <2>1, <2>4, EnqueueKeepsRing DEF RingsKeep, CommandFifo!Next
  <2> QED
    BY <2>2, <2>3, <2>4
<1>4. CASE PopCommand
  <2>1. UNCHANGED <<rx, byte>>
    BY <1>4 DEF PopCommand
  <2> QED
    BY <1>4, <2>1, SameRx, PopKeepsRing DEF RingsKeep, CommandFifo!Next
<1>5. CASE ReadByte
  BY <1>5, SameRx, SameCommands DEF ReadByte, RingsKeep
<1>6. CASE ByteLost \/ PollDone \/ TakeFault \/ DispatchDone \/ UNCHANGED receiveVars
  <2>1. UNCHANGED <<rx, commandRing, byte>>
    BY <1>6 DEF ByteLost, Interrupt, PollDone, TakeFault, DispatchDone, receiveVars
  <2> QED
    BY <2>1, SameRx, SameCommands DEF RingsKeep
<1> QED
  BY <1>2, <1>3, <1>4, <1>5, <1>6 DEF ReceiveNext

LEMMA ReceiveInitially ==
    ASSUME ReceiveInit
    PROVE  RingsInv /\ RxFifo!Init /\ CommandFifo!Init
<1>1. /\ RxWrap \in Nat /\ RxWrap > 0 /\ RxCapacity \in Nat
      /\ CommandWrap \in Nat /\ CommandWrap > 0 /\ CommandCapacity \in Nat
  BY Widths DEF Divides
<1>2. InRing = 0 /\ Queued = 0
  <2>1. (0 - 0) % RxWrap = 0 /\ (0 - 0) % CommandWrap = 0
    BY <1>1, Difference
  <2> QED
    BY <2>1 DEF ReceiveInit, InRing, Queued
<1>3. Received = <<>> /\ ToDispatch = <<>>
  BY <1>2 DEF Received, ToDispatch, InOrder
<1>4. RxInv
  BY <1>1, <1>2 DEF ReceiveInit, RxInv, Array
<1>5. CommandInv
  BY <1>1, <1>2 DEF ReceiveInit, CommandInv, Array
<1> QED
  BY <1>3, <1>4, <1>5 DEF ReceiveInit, RingsInv, RxFifo!Init, CommandFifo!Init

-----------------------------------------------------------------------------
\* The inductive invariant of both rings: their counters stay below their
\* width and no further apart than the capacity.
THEOREM RingsInvariance == ReceiveSpec => []RingsInv
<1>1. RingsInv /\ [ReceiveNext]_receiveVars => RingsInv'
  BY ReceiveStep DEF RingsKeep
<1>2. ReceiveInit => RingsInv
  BY ReceiveInitially
<1> QED
  BY <1>1, <1>2, PTL DEF ReceiveSpec

\* Both rings are first in, first out and refuse an item only when they are
\* full, through any number of wraps of their uint16_t and uint8_t counters and
\* with the interrupt between any two steps (uart_transport.c,
\* pico_uart_transport_rx_push_isr, enqueue_command, pop_command).
THEOREM RingsKeptAlways == ReceiveSpec => RingsKept
<1>1. ReceiveInit => RxFifo!Init /\ CommandFifo!Init
  BY ReceiveInitially
<1>2. RingsInv /\ [ReceiveNext]_receiveVars =>
          /\ [RxFifo!Next]_<<Received, rxOverflow>>
          /\ [CommandFifo!Next]_<<ToDispatch, cmdOverflow>>
  BY ReceiveStep DEF RingsKeep
<1> QED
  BY <1>1, <1>2, RingsInvariance, PTL
  DEF ReceiveSpec, RingsKept, RxRingKept, CommandRingKept, RxFifo!Spec, CommandFifo!Spec

-----------------------------------------------------------------------------
(* The way of a byte: in the parser, received, still on the wire. *)

Byte == [frame : 0..FrameCount, at : Nat, last : BOOLEAN, value : Nat]

Way == Through(parser, Received, wire)

\* The commands that were told from the noise: delivered, or still queued.
Told == delivered \o ToDispatch

Size(payloads, n) == FrameLen(Len(payloads[n]))

\* A byte that noise has not touched has its place in its frame, and the value
\* of that place; a touched one ends no frame.
Placed(w, payloads) ==
    \A i \in 1..Len(w) :
        /\ w[i].frame # 0 => w[i].at \in 1..Size(payloads, w[i].frame)
                             /\ (w[i].last <=> w[i].at = Size(payloads, w[i].frame))
                             /\ w[i].value = Raw(payloads[w[i].frame])[w[i].at]
        /\ w[i].frame = 0 => ~w[i].last

Earlier(b, c) == b.frame < c.frame \/ (b.frame = c.frame /\ b.at < c.at)

Ordered(w) ==
    \A i, j \in 1..Len(w) : i < j /\ w[i].frame # 0 /\ w[j].frame # 0 => Earlier(w[i], w[j])

\* The commands e come before the bytes on the way w.
Precede(e, w) == \A i \in 1..Len(e), j \in 1..Len(w) : w[j].frame # 0 => e[i] < w[j].frame

Increasing(e) == \A i, j \in 1..Len(e) : i < j => e[i] < e[j]

InLine(e, w, payloads) == Placed(w, payloads) /\ Ordered(w) /\ Precede(e, w) /\ Increasing(e)

LineTypes(e, w) == e \in Seq(1..FrameCount) /\ w \in Seq(Byte)

\* What is left of w after noise: some bytes are gone, some are touched.
Remains(v, w) ==
    \E f \in [1..Len(v) -> 1..Len(w)] :
        /\ \A i, j \in 1..Len(v) : i < j => f[i] < f[j]
        /\ \A i \in 1..Len(v) : v[i] = w[f[i]] \/ (v[i].frame = 0 /\ ~v[i].last)

LEMMA PartRemains ==
    ASSUME NEW v, NEW w, Part(v, w)
    PROVE  Remains(v, w)
  BY DEF Part, Remains

LEMMA ChangedRemains ==
    ASSUME NEW v \in Seq(Byte), NEW w \in Seq(Byte), NEW k, NEW x, Changed(v, w, k, x),
           x.frame = 0, ~x.last
    PROVE  Remains(v, w)
<1> DEFINE f == [i \in 1..Len(v) |-> i]
<1>1. f \in [1..Len(v) -> 1..Len(w)]
  BY DEF Changed
<1>2. \A i, j \in 1..Len(v) : i < j => f[i] < f[j]
  OBVIOUS
<1>3. \A i \in 1..Len(v) : v[i] = w[f[i]] \/ (v[i].frame = 0 /\ ~v[i].last)
  BY DEF Changed
<1> QED
  BY <1>1, <1>2, <1>3 DEF Remains

LEMMA InLineRemains ==
    ASSUME NEW e, NEW w, NEW v, NEW payloads, InLine(e, w, payloads), Remains(v, w)
    PROVE  InLine(e, v, payloads)
<1>1. PICK f \in [1..Len(v) -> 1..Len(w)] :
          /\ \A i, j \in 1..Len(v) : i < j => f[i] < f[j]
          /\ \A i \in 1..Len(v) : v[i] = w[f[i]] \/ (v[i].frame = 0 /\ ~v[i].last)
  BY DEF Remains
<1>2. \A i \in 1..Len(v) : f[i] \in 1..Len(w)
                           /\ (v[i] = w[f[i]] \/ (v[i].frame = 0 /\ ~v[i].last))
  BY <1>1
<1>3. Placed(v, payloads)
  <2> SUFFICES ASSUME NEW i \in 1..Len(v)
               PROVE  /\ v[i].frame # 0 => v[i].at \in 1..Size(payloads, v[i].frame)
                                           /\ (v[i].last <=> v[i].at = Size(payloads, v[i].frame))
                                           /\ v[i].value = Raw(payloads[v[i].frame])[v[i].at]
                      /\ v[i].frame = 0 => ~v[i].last
    BY DEF Placed
  <2>1. CASE v[i] = w[f[i]]
    BY <1>2, <2>1 DEF InLine, Placed
  <2>2. CASE v[i].frame = 0 /\ ~v[i].last
    BY <2>2
  <2> QED
    BY <1>2, <2>1, <2>2
<1>4. Ordered(v)
  <2> SUFFICES ASSUME NEW i \in 1..Len(v), NEW j \in 1..Len(v), i < j,
                      v[i].frame # 0, v[j].frame # 0
               PROVE  Earlier(v[i], v[j])
    BY DEF Ordered
  <2>1. v[i] = w[f[i]] /\ v[j] = w[f[j]] /\ f[i] \in 1..Len(w) /\ f[j] \in 1..Len(w) /\ f[i] < f[j]
    BY <1>1, <1>2
  <2> QED
    BY <2>1 DEF InLine, Ordered
<1>5. Precede(e, v)
  BY <1>2 DEF InLine, Precede
<1> QED
  BY <1>3, <1>4, <1>5 DEF InLine

-----------------------------------------------------------------------------
(* Nothing is missing that noise did not take. *)

\* The byte at place k of frame n is on the way, or was damaged or lost.
OnWay(w, n, k) == \E j \in 1..Len(w) : w[j].frame = n /\ w[j].at = k
Taken(d, n, k) == \E i \in 1..Len(d) : d[i].frame = n /\ d[i].at = k
Known(e, n) == \E i \in 1..Len(e) : e[i] = n

Present(e, w, d, payloads) ==
    \A n \in 1..FrameCount : \A k \in 1..Size(payloads, n) :
        Known(e, n) \/ OnWay(w, n, k) \/ Taken(d, n, k)

\* Noise too light to take all the bytes of a frame, which nothing would notice.
LightNoise == MaxTrouble < FrameLen(0)

Gapless(e) == LightNoise => \A i \in 1..Len(e) : e[i] = i

LEMMA TakenMore ==
    ASSUME NEW d \in Seq(Byte), NEW b \in Byte
    PROVE  /\ Taken(Append(d, b), b.frame, b.at)
           /\ \A n, k : Taken(d, n, k) => Taken(Append(d, b), n, k)
<1> DEFINE c == Append(d, b)
<1>1. Len(c) = Len(d) + 1 /\ Len(d) \in Nat /\ c[Len(d) + 1] = b /\ \A i \in 1..Len(d) : c[i] = d[i]
  OBVIOUS
<1> HIDE DEF c
<1>2. Taken(c, b.frame, b.at)
  <2>1. Len(d) + 1 \in 1..Len(c)
    BY <1>1
  <2> QED
    BY <1>1, <2>1 DEF Taken
<1>3. ASSUME NEW n, NEW k, Taken(d, n, k) PROVE Taken(c, n, k)
  <2>1. PICK i \in 1..Len(d) : d[i].frame = n /\ d[i].at = k
    BY <1>3 DEF Taken
  <2>2. i \in 1..Len(c) /\ c[i] = d[i]
    BY <1>1
  <2> QED
    BY <2>1, <2>2 DEF Taken
<1> QED
  BY <1>2, <1>3 DEF c

\* Noise takes one byte: it is gone, or it is touched.
LEMMA PresentAfterNoise ==
    ASSUME NEW e, NEW w \in Seq(Byte), NEW v \in Seq(Byte), NEW d \in Seq(Byte), NEW payloads,
           NEW k, NEW x, Present(e, w, d, payloads),
           Removed(v, w, k) \/ Changed(v, w, k, x)
    PROVE  Present(e, v, Append(d, w[k]), payloads)
<1>1. w[k] \in Byte /\ k \in 1..Len(w)
  BY DEF Removed, Changed
<1>2. ASSUME NEW j \in 1..Len(w), j # k PROVE \E i \in 1..Len(v) : v[i] = w[j]
  <2>1. CASE Changed(v, w, k, x)
    BY <1>2, <2>1 DEF Changed
  <2>2. CASE Removed(v, w, k)
    <3>1. CASE j < k
      <4>1. j \in 1..Len(v) /\ v[j] = w[j]
        BY <1>1, <2>2, <3>1 DEF Removed
      <4> QED
        BY <4>1
    <3>2. CASE j > k
      <4>1. j - 1 \in 1..Len(v) /\ ~(j - 1 < k) /\ (j - 1) + 1 = j
        BY <1>1, <2>2, <3>2 DEF Removed
      <4>2. v[j - 1] = w[j]
        BY <2>2, <4>1 DEF Removed
      <4> QED
        BY <4>1, <4>2
    <3> QED
      BY <1>1, <1>2, <3>1, <3>2
  <2> QED
    BY <2>1, <2>2
<1> SUFFICES ASSUME NEW n \in 1..FrameCount, NEW p \in 1..Size(payloads, n), ~Known(e, n)
             PROVE  OnWay(v, n, p) \/ Taken(Append(d, w[k]), n, p)
  BY DEF Present
<1>3. CASE Taken(d, n, p)
  BY <1>1, <1>3, TakenMore
<1>4. CASE OnWay(w, n, p)
  <2>1. PICK j \in 1..Len(w) : w[j].frame = n /\ w[j].at = p
    BY <1>4 DEF OnWay
  <2>2. CASE j = k
    BY <1>1, <2>1, <2>2, TakenMore
  <2>3. CASE j # k
    BY <1>2, <2>1, <2>3 DEF OnWay
  <2> QED
    BY <2>2, <2>3
<1> QED
  BY <1>3, <1>4 DEF Present

\* Fewer bytes were taken than a frame has: one of each frame that is not
\* known is on the way.
LEMMA SomeByteOnWay ==
    ASSUME LightNoise, NEW e, NEW w, NEW d \in Seq(Byte), NEW payloads, NEW n \in 1..FrameCount,
           Present(e, w, d, payloads), payloads[n] \in Seq(Nat),
           Len(d) =< MaxTrouble, ~Known(e, n)
    PROVE  \E j \in 1..Len(w) : w[j].frame = n
<1> SUFFICES ASSUME \A j \in 1..Len(w) : w[j].frame # n PROVE FALSE
  OBVIOUS
<1>1. \A k \in 1..4 : k \in 1..Size(payloads, n)
  <2> DEFINE x == Len(payloads[n])
  <2>1. x \in Nat
    OBVIOUS
  <2>2. Size(payloads, n) = 3 + x + 1
    BY DEF Size, FrameLen, HeaderLen
  <2> HIDE DEF x
  <2> QED
    BY <2>1, <2>2
<1>2. \A k \in 1..4 : Taken(d, n, k)
  <2> SUFFICES ASSUME NEW k \in 1..4 PROVE Taken(d, n, k)
    OBVIOUS
  <2>1. Known(e, n) \/ OnWay(w, n, k) \/ Taken(d, n, k)
    BY <1>1, Zenon DEF Present
  <2>2. ~OnWay(w, n, k)
    BY DEF OnWay
  <2> QED
    BY <2>1, <2>2, Zenon
<1>3. MaxTrouble \in Nat /\ MaxTrouble < 4 /\ Len(d) \in Nat
  BY LineAssumption DEF LightNoise, FrameLen, HeaderLen
<1>4. /\ \E i \in 1..Len(d) : d[i].at = 1
      /\ \E i \in 1..Len(d) : d[i].at = 2
      /\ \E i \in 1..Len(d) : d[i].at = 3
      /\ \E i \in 1..Len(d) : d[i].at = 4
  BY <1>2 DEF Taken
<1>5. \A i \in 1..Len(d) : i \in {1, 2, 3}
  BY <1>3
<1>6. PICK a \in 1..Len(d), b \in 1..Len(d), c \in 1..Len(d), f \in 1..Len(d) :
           d[a].at = 1 /\ d[b].at = 2 /\ d[c].at = 3 /\ d[f].at = 4
  BY <1>4
<1>7. a # b /\ a # c /\ a # f /\ b # c /\ b # f /\ c # f
  BY <1>6
<1>8. a \in {1, 2, 3} /\ b \in {1, 2, 3} /\ c \in {1, 2, 3} /\ f \in {1, 2, 3}
  BY <1>5
<1> QED
  BY <1>7, <1>8

\* A candidate whose CRC is right is a frame as it was sent.
LEMMA RightCandidate ==
    ASSUME NEW e, NEW w, NEW payloads, LineTypes(e, w), InLine(e, w, payloads),
           NEW c \in Seq(Byte), c # <<>>, CrcRight(c), Len(c) =< Len(w),
           \A i \in 1..Len(c) : w[i] = c[i]
    PROVE  /\ c[1].frame \in 1..FrameCount
           /\ \A i \in 1..Len(c) : c[i].frame = c[1].frame
           /\ \A i \in 1..Len(e) : e[i] < c[1].frame
           /\ \A j \in (Len(c) + 1)..Len(w) : w[j].frame # 0 => c[1].frame < w[j].frame
<1> DEFINE m == Len(c)
           n == c[1].frame
<1>1. /\ m \in Nat /\ m >= 1 /\ Len(w) \in Nat /\ FrameCount \in Nat
      /\ DOMAIN c = 1..m /\ \A i \in 1..m : c[i] \in Byte
  BY LineAssumption DEF LineTypes
<1>2. c[m].last /\ \A i \in 1..m : c[i].frame = n /\ c[i].at = i
  BY <1>1 DEF CrcRight
<1>3. m \in 1..Len(w) /\ w[m] = c[m] /\ w[m].frame = n /\ w[m].at = m
  BY <1>1, <1>2
<1>4. n # 0 /\ n \in 1..FrameCount
  <2>1. n \in 0..FrameCount
    BY <1>1, <1>2 DEF Byte
  <2>2. n # 0
    BY <1>2, <1>3 DEF InLine, Placed
  <2> QED
    BY <1>1, <2>1, <2>2
<1>5. m = Size(payloads, n)
  BY <1>2, <1>3, <1>4 DEF InLine, Placed
<1>6. \A i \in 1..Len(e) : e[i] < n
  BY <1>3, <1>4 DEF InLine, Precede
<1>7. ASSUME NEW j \in (m + 1)..Len(w), w[j].frame # 0 PROVE n < w[j].frame
  <2>1. j \in 1..Len(w) /\ m < j
    BY <1>1
  <2>2. Earlier(w[m], w[j])
    BY <1>3, <1>4, <1>7, <2>1 DEF InLine, Ordered
  <2>3. CASE w[j].frame = n
    <3>1. m < w[j].at
      BY <1>3, <2>2, <2>3, <1>4 DEF Earlier
    <3>2. w[j].at \in 1..m
      BY <1>5, <1>7, <2>1, <2>3 DEF InLine, Placed
    <3> QED
      BY <1>1, <3>1, <3>2
  <2>4. CASE w[j].frame # n
    BY <1>3, <2>2, <2>4 DEF Earlier
  <2> QED
    BY <2>3, <2>4
<1> HIDE DEF m, n
<1> QED
  BY <1>1, <1>2, <1>4, <1>6, <1>7 DEF m, n

\* The frame is told, and its bytes are gone.
LEMMA FrameTold ==
    ASSUME NEW e, NEW w, NEW payloads, LineTypes(e, w), InLine(e, w, payloads),
           NEW n \in 1..FrameCount, NEW v \in Seq(Byte), NEW m, Dropped(v, w, m),
           \A i \in 1..Len(e) : e[i] < n,
           \A j \in (m + 1)..Len(w) : w[j].frame # 0 => n < w[j].frame
    PROVE  InLine(Append(e, n), v, payloads)
<1> DEFINE g == Append(e, n)
<1>1. /\ e \in Seq(1..FrameCount) /\ Len(e) \in Nat /\ w \in Seq(Byte) /\ FrameCount \in Nat
      /\ Len(g) = Len(e) + 1 /\ g[Len(e) + 1] = n /\ \A i \in 1..Len(e) : g[i] = e[i]
  BY LineAssumption DEF LineTypes
<1>2. Part(v, w)
  BY <1>1, DroppedIsPart
<1>3. InLine(e, v, payloads)
  BY <1>2, PartRemains, InLineRemains
<1> HIDE DEF g
<1>4. ASSUME NEW j \in 1..Len(v), v[j].frame # 0 PROVE n < v[j].frame
  <2>1. v[j] = w[m + j] /\ m + j \in (m + 1)..Len(w)
    BY DEF Dropped
  <2> QED
    BY <1>4, <2>1
<1>5. Precede(g, v)
  <2> SUFFICES ASSUME NEW i \in 1..Len(g), NEW j \in 1..Len(v), v[j].frame # 0
               PROVE  g[i] < v[j].frame
    BY DEF Precede
  <2>1. CASE i = Len(e) + 1
    BY <1>1, <1>4, <2>1
  <2>2. CASE i # Len(e) + 1
    <3>1. i \in 1..Len(e)
      BY <1>1, <2>2
    <3> QED
      BY <1>1, <1>3, <3>1 DEF InLine, Precede
  <2> QED
    BY <2>1, <2>2
<1>6. Increasing(g)
  <2> SUFFICES ASSUME NEW i \in 1..Len(g), NEW j \in 1..Len(g), i < j PROVE g[i] < g[j]
    BY DEF Increasing
  <2>1. i \in 1..Len(e) /\ g[i] = e[i]
    BY <1>1
  <2>2. CASE j = Len(e) + 1
    BY <1>1, <2>1, <2>2
  <2>3. CASE j # Len(e) + 1
    <3>1. j \in 1..Len(e)
      BY <1>1, <2>3
    <3> QED
      BY <1>1, <2>1, <3>1 DEF InLine, Increasing
  <2> QED
    BY <2>2, <2>3
<1> QED
  BY <1>3, <1>5, <1>6 DEF InLine, g

\* Where nothing is missing, the frame that is told is the next one.
LEMMA NextFrameTold ==
    ASSUME NEW e, NEW w, NEW payloads, LineTypes(e, w), InLine(e, w, payloads),
           \A k \in 1..FrameCount : payloads[k] \in Seq(Nat),
           NEW d \in Seq(Byte), Len(d) =< MaxTrouble, Present(e, w, d, payloads), Gapless(e),
           NEW n \in 1..FrameCount, NEW v \in Seq(Byte), NEW m, Dropped(v, w, m),
           \A i \in 1..m : w[i].frame = n,
           \A i \in 1..Len(e) : e[i] < n,
           \A j \in (m + 1)..Len(w) : w[j].frame # 0 => n < w[j].frame
    PROVE  Gapless(Append(e, n)) /\ Present(Append(e, n), v, d, payloads)
<1> DEFINE g == Append(e, n)
<1>1. /\ e \in Seq(1..FrameCount) /\ Len(e) \in Nat /\ w \in Seq(Byte) /\ FrameCount \in Nat
      /\ Len(g) = Len(e) + 1 /\ g[Len(e) + 1] = n /\ \A i \in 1..Len(e) : g[i] = e[i]
      /\ m \in Nat /\ Len(w) \in Nat
  BY LineAssumption DEF LineTypes, Dropped
<1> HIDE DEF g
<1>2. ASSUME LightNoise PROVE n = Len(e) + 1
  <2> DEFINE next == Len(e) + 1
  <2>1. next =< n
    <3>1. CASE Len(e) = 0
      BY <3>1
    <3>2. CASE Len(e) # 0
      <4>1. Len(e) \in 1..Len(e) /\ e[Len(e)] = Len(e)
        BY <1>1, <1>2, <3>2 DEF Gapless
      <4> QED
        BY <1>1, <4>1
    <3> QED
      BY <3>1, <3>2
  <2>2. next \in 1..FrameCount /\ ~Known(e, next)
    BY <1>1, <1>2, <2>1 DEF Known, Gapless
  <2> HIDE DEF next
  <2>3. PICK j \in 1..Len(w) : w[j].frame = next
    BY <1>2, <2>2, SomeByteOnWay
  <2>4. CASE j =< m
    BY <1>1, <2>3, <2>4 DEF next
  <2>5. CASE j > m
    <3>1. j \in (m + 1)..Len(w) /\ w[j].frame # 0
      BY <1>1, <2>2, <2>3, <2>5
    <3>2. n < next
      BY <2>3, <3>1
    <3> QED
      BY <1>1, <2>1, <2>2, <3>2
  <2> QED
    BY <1>1, <2>4, <2>5
<1>3. Gapless(g)
  <2> SUFFICES ASSUME LightNoise, NEW i \in 1..Len(g) PROVE g[i] = i
    BY DEF Gapless
  <2>1. i = Len(e) + 1 \/ i \in 1..Len(e)
    BY <1>1
  <2> QED
    BY <1>1, <1>2, <2>1 DEF Gapless
<1>4. Present(g, v, d, payloads)
  <2> SUFFICES ASSUME NEW k \in 1..FrameCount, NEW p \in 1..Size(payloads, k),
                      ~Known(g, k), ~Taken(d, k, p)
               PROVE  OnWay(v, k, p)
    BY DEF Present
  <2>1. k # n /\ ~Known(e, k)
    <3>1. Len(e) + 1 \in 1..Len(g) /\ 1..Len(e) \subseteq 1..Len(g)
      BY <1>1
    <3> QED
      BY <1>1, <3>1 DEF Known
  <2>2. PICK j \in 1..Len(w) : w[j].frame = k /\ w[j].at = p
    BY <2>1 DEF Present, OnWay
  <2>3. ~(j \in 1..m)
    BY <2>1, <2>2
  <2>4. j - m \in 1..Len(v) /\ m + (j - m) = j
    BY <1>1, <2>3 DEF Dropped
  <2>5. v[j - m] = w[j]
    BY <2>4 DEF Dropped
  <2> QED
    BY <2>2, <2>4, <2>5 DEF OnWay
<1> QED
  BY <1>3, <1>4 DEF g

-----------------------------------------------------------------------------
(* The receive path keeps its bytes and commands in line. *)

ReceiveTypes ==
    /\ script \in Scripts
    /\ parser \in Seq(Byte) /\ Received \in Seq(Byte) /\ wire \in Seq(Byte)
    /\ delivered \in Seq(1..FrameCount) /\ ToDispatch \in Seq(1..FrameCount)
    /\ damage \in Seq(Byte) /\ Len(damage) =< MaxTrouble
    /\ faults \in BOOLEAN
    /\ byte # NoByte => Received # <<>> /\ byte = Head(Received)
    /\ Len(parser) >= HeaderLen =>
          /\ parser[HeaderLen].value \in 0..MaxPayload
          /\ Len(parser) < FrameLen(parser[HeaderLen].value)

NothingLost == ~faults => Present(Told, Way, damage, script) /\ Gapless(Told)

LineInv == ReceiveTypes /\ InLine(Told, Way, script) /\ NothingLost

LEMMA ScriptPayloads ==
    ASSUME ReceiveTypes
    PROVE  \A n \in 1..FrameCount : script[n] \in Seq(Nat) /\ Crc(script[n]) \in Nat
  BY LineAssumption DEF ReceiveTypes

LEMMA LineSequences ==
    ASSUME ReceiveTypes
    PROVE  LineTypes(Told, Way)
<1>1. Way \in Seq(Byte)
  BY ThroughJoins DEF ReceiveTypes, Way
<1>2. Told \in Seq(1..FrameCount)
  <2> DEFINE S == 1..FrameCount
  <2>1. delivered \in Seq(S) /\ ToDispatch \in Seq(S)
    BY DEF ReceiveTypes
  <2> HIDE DEF S
  <2>2. Told \in Seq(S)
    BY <2>1, ConcatProperties DEF Told
  <2> QED
    BY <2>2 DEF S
<1> QED
  BY <1>1, <1>2 DEF LineTypes

LEMMA LineSequencesNext == ReceiveTypes => LineTypes(Told, Way)
  BY LineSequences

LEMMA NoiseIsByte ==
    ASSUME NEW value \in Values
    PROVE  /\ Damaged(value) \in Byte /\ Damaged(value).frame = 0 /\ ~Damaged(value).last
  BY LineAssumption DEF Damaged, Byte

LEMMA ExtendsIsAppend ==
    ASSUME NEW S, NEW old \in Seq(S), NEW x \in S, NEW n \in Nat,
           NEW new, new = [i \in 1..(n + 1) |-> new[i]], Extends(new, old, n, x)
    PROVE  new = Append(old, x)
<1> DEFINE R == {new[i] : i \in 1..(n + 1)}
           both == R \cup S
           short == SubSeq(new, 1, n)
<1>0. Len(old) = n /\ Len(new) = n + 1 /\ SubSeq(new, 1, n) = old /\ new[n + 1] = x
  BY DEF Extends
<1>1. new \in Seq(R)
  <2>1. new \in [1..(n + 1) -> R]
    OBVIOUS
  <2> HIDE DEF R
  <2>2. n + 1 \in Nat
    OBVIOUS
  <2> QED
    BY <2>1, <2>2
<1>2. \A i \in 1..n : new[i] \in R
  OBVIOUS
<1>3. R \subseteq both /\ S \subseteq both
  OBVIOUS
<1> HIDE DEF R, both
<1>4. Len(short) = n /\ \A i \in 1..n : short[i] = new[i]
  <2>1. Len(short) = (IF 1 =< n THEN n - 1 + 1 ELSE 0)
        /\ \A i \in 1..(n - 1 + 1) : short[i] = new[1 + i - 1]
    BY <1>2, SubSeqProperties
  <2> QED
    BY <2>1
<1>5. \A i \in 1..n : new[i] = old[i]
  BY <1>0, <1>4
<1> DEFINE a == Append(old, x)
<1>6. a \in Seq(S) /\ Len(a) = Len(old) + 1 /\ a[Len(old) + 1] = x /\ \A i \in 1..Len(old) : a[i] = old[i]
  OBVIOUS
<1> HIDE DEF a
<1>7. Len(a) = Len(new) /\ \A i \in 1..Len(a) : a[i] = new[i]
  <2>1. Len(a) = n + 1
    BY <1>0, <1>6
  <2> SUFFICES ASSUME NEW i \in 1..(n + 1) PROVE a[i] = new[i]
    BY <1>0, <2>1
  <2>2. CASE i = n + 1
    BY <1>0, <1>6, <2>2
  <2>3. CASE i # n + 1
    <3>1. i \in 1..n
      BY <2>3
    <3> QED
      BY <1>0, <1>5, <1>6, <3>1
  <2> QED
    BY <2>2, <2>3
<1>8. a \in Seq(both) /\ new \in Seq(both)
  BY <1>1, <1>3, <1>6
<1>9. a = new
  BY <1>7, <1>8, SeqEqual
<1> QED
  BY <1>9 DEF a

LEMMA InRingCounts == RxInv => InRing \in Nat
<1> SUFFICES ASSUME RxInv PROVE InRing \in Nat
  OBVIOUS
<1>1. head - tail \in Int /\ RxWrap \in Nat /\ RxWrap > 0
  BY Widths DEF RxInv, Divides
<1> QED
  BY <1>1, Division DEF InRing

LEMMA QueuedCounts == CommandInv => Queued \in Nat
<1> SUFFICES ASSUME CommandInv PROVE Queued \in Nat
  OBVIOUS
<1>1. cHead - cTail \in Int /\ CommandWrap \in Nat /\ CommandWrap > 0
  BY Widths DEF CommandInv, Divides
<1> QED
  BY <1>1, Division DEF Queued

\* What the interrupt does with a byte.
LEMMA ByteIsPut ==
    ASSUME RxInv, ReceiveTypes, NEW new \in Byte, NEW error \in BOOLEAN, Push(new, error), UNCHANGED byte
    PROVE  /\ faults' \in BOOLEAN /\ (faults => faults')
           /\ \/ Received' = Append(Received, new)
              \/ Received' = Received /\ faults'
<1>1. faults' \in BOOLEAN /\ (faults => faults')
  BY DEF Push, LatchIf, ReceiveTypes
<1>2. CASE RxFifo!Put /\ Extends(Received', Received, InRing, new)
  <2>1. Received \in Seq(Byte) /\ InRing = Len(Received) /\ InRing \in Nat
    BY <1>2 DEF ReceiveTypes, Extends
  <2>2. Received' = [i \in 1..(InRing + 1) |-> Received'[i]]
    <3>1. Received' = [i \in 1..InRing' |-> Received'[i]]
      BY DEF Received, InOrder
    <3>2. Len(Received') = InRing + 1
      BY <1>2 DEF Extends
    <3>3. InRing' = InRing + 1
      <4>1. RxInv'
        BY PushKeepsRing
      <4>2. InRing' \in Nat
        <5>1. (RxInv => InRing \in Nat)'
          BY InRingCounts, PTL
        <5> QED
          BY <4>1, <5>1
      <4>3. Len(Received') = InRing'
        BY <3>1, <4>2
      <4> QED
        BY <3>2, <4>3
    <3> QED
      BY <3>1, <3>3
  <2> QED
    BY <1>1, <1>2, <2>1, <2>2, ExtendsIsAppend
<1>3. CASE RxFifo!Refuse /\ faults'
  BY <1>1, <1>3 DEF RxFifo!Refuse
<1> QED
  BY <1>2, <1>3, PushKeepsRing

\* Steps that leave everything in its place, and steps that tell a fault.
LEMMA QuietStep ==
    ASSUME LineInv, ReceiveTypes', Way' = Way, Told' = Told, UNCHANGED <<damage, script>>,
           faults => faults'
    PROVE  LineInv'
<1>1. InLine(Told, Way, script)'
  BY DEF LineInv
<1>2. NothingLost'
  BY DEF LineInv, NothingLost
<1> QED
  BY <1>1, <1>2 DEF LineInv

LEMMA FaultStep ==
    ASSUME LineInv, ReceiveTypes', Remains(Way', Way), Told' = Told, UNCHANGED script, faults'
    PROVE  LineInv'
<1>1. InLine(Told, Way, script)'
  <2>1. InLine(Told, Way', script)
    BY InLineRemains DEF LineInv
  <2> QED
    BY <2>1
<1>2. NothingLost'
  BY DEF NothingLost
<1> QED
  BY <1>1, <1>2 DEF LineInv

LEMMA NoiseStep ==
    ASSUME LineInv, ReceiveTypes', NEW k, NEW x,
           \/ Removed(Way', Way, k)
           \/ Changed(Way', Way, k, x) /\ x.frame = 0 /\ ~x.last,
           damage' = Append(damage, Way[k]), Told' = Told, UNCHANGED script, faults => faults'
    PROVE  LineInv'
<1>0. LineTypes(Told, Way) /\ Way \in Seq(Byte)
  BY LineSequences DEF LineInv, LineTypes
<1>1. Way' \in Seq(Byte)
  <2>1. LineTypes(Told, Way)'
    BY LineSequencesNext, PTL
  <2> QED
    BY <2>1 DEF LineTypes
<1>2. Remains(Way', Way)
  <2>1. CASE Removed(Way', Way, k)
    BY <1>0, <1>1, <2>1, RemovedIsPart, PartRemains
  <2>2. CASE Changed(Way', Way, k, x) /\ x.frame = 0 /\ ~x.last
    BY <1>0, <1>1, <2>2, ChangedRemains
  <2> QED
    BY <2>1, <2>2
<1>3. InLine(Told, Way, script)'
  <2>1. InLine(Told, Way', script)
    BY <1>2, InLineRemains DEF LineInv
  <2> QED
    BY <2>1
<1>4. ASSUME ~faults' PROVE Present(Told, Way, damage, script)' /\ Gapless(Told)'
  <2>1. Present(Told, Way, damage, script) /\ Gapless(Told)
    BY <1>4 DEF LineInv, NothingLost
  <2>2. damage \in Seq(Byte)
    BY DEF LineInv, ReceiveTypes
  <2>3. Present(Told, Way', Append(damage, Way[k]), script)
    BY <1>0, <1>1, <2>1, <2>2, PresentAfterNoise
  <2> QED
    BY <2>1, <2>3
<1> QED
  BY <1>3, <1>4 DEF LineInv, NothingLost

\* After an interrupt, the byte in hand is still the first one received.
LEMMA InterruptTypes ==
    ASSUME RingsInv, ReceiveTypes, Interrupt, faults' \in BOOLEAN,
           \/ Received' = Received
           \/ \E x \in Byte : Received' = Append(Received, x),
           \/ damage' = damage
           \/ damage' = Append(damage, Head(wire)) /\ Len(damage) < MaxTrouble
    PROVE  /\ ReceiveTypes' /\ Told' = Told
           /\ UNCHANGED <<parser, byte, script>> /\ wire' = Tail(wire) /\ wire # <<>>
           /\ Head(wire) \in Byte
<1>1. /\ wire # <<>> /\ wire' = Tail(wire) /\ wire \in Seq(Byte)
      /\ UNCHANGED <<script, loop, byte, parser, commandRing, delivered>>
  BY DEF Interrupt, ReceiveTypes
<1>2. Head(wire) \in Byte /\ wire' \in Seq(Byte)
  BY <1>1, HeadTailProperties
<1>3. ToDispatch' = ToDispatch
  BY <1>1, SameCommands DEF RingsInv
<1>4. Received' \in Seq(Byte) /\ (Received # <<>> => Received' # <<>> /\ Head(Received') = Head(Received))
  <2>1. Received \in Seq(Byte)
    BY DEF ReceiveTypes
  <2>2. CASE Received' = Received
    BY <2>1, <2>2
  <2>3. ASSUME NEW x \in Byte, Received' = Append(Received, x)
        PROVE  Received' \in Seq(Byte) /\ (Received # <<>> => Received' # <<>> /\ Head(Received') = Head(Received))
    <3> DEFINE B == Byte
    <3>1. Received \in Seq(B) /\ x \in B
      BY <2>1, <2>3
    <3> HIDE DEF B
    <3>2. Append(Received, x) \in Seq(B)
      BY <3>1
    <3>3. ASSUME Received # <<>>
          PROVE  Append(Received, x) # <<>> /\ Head(Append(Received, x)) = Head(Received)
      <4>1. Len(Received) >= 1
        BY <3>1, <3>3
      <4>2. Append(Received, x)[1] = Received[1] /\ Len(Append(Received, x)) >= 1
        BY <3>1, <4>1
      <4>3. Append(Received, x) # <<>>
        BY <4>2
      <4> QED
        BY <3>1, <3>2, <3>3, <4>2, <4>3, HeadTailProperties
    <3> QED
      BY <2>3, <3>2, <3>3 DEF B
  <2> QED
    BY <2>2, <2>3
<1>5. damage' \in Seq(Byte) /\ Len(damage') =< MaxTrouble
  <2>1. damage \in Seq(Byte) /\ Len(damage) \in Nat /\ Len(damage) =< MaxTrouble /\ MaxTrouble \in Nat
    BY LineAssumption DEF ReceiveTypes
  <2>2. CASE damage' = damage
    BY <2>1, <2>2
  <2>3. CASE damage' = Append(damage, Head(wire)) /\ Len(damage) < MaxTrouble
    BY <1>2, <2>1, <2>3, AppendProperties
  <2> QED
    BY <2>2, <2>3
<1> QED
  BY <1>1, <1>2, <1>3, <1>4, <1>5 DEF ReceiveTypes, Told

LEMMA ByteArrivesInLine ==
    ASSUME RingsInv, LineInv, ByteArrives
    PROVE  LineInv'
<1>1. /\ ReceiveTypes /\ RxInv /\ Interrupt /\ Push(Head(wire), FALSE) /\ damage' = damage
      /\ parser \in Seq(Byte) /\ Received \in Seq(Byte) /\ wire \in Seq(Byte)
  BY DEF ByteArrives, LineInv, ReceiveTypes, RingsInv
<1>2. wire # <<>> /\ wire' = Tail(wire) /\ Head(wire) \in Byte /\ UNCHANGED <<parser, byte, script>>
  BY <1>1, HeadTailProperties DEF Interrupt
<1>3. /\ faults' \in BOOLEAN /\ (faults => faults')
      /\ Received' = Append(Received, Head(wire)) \/ (Received' = Received /\ faults')
  BY <1>1, <1>2, ByteIsPut
<1>4. ReceiveTypes' /\ Told' = Told
  BY <1>1, <1>2, <1>3, InterruptTypes
<1>5. CASE Received' = Append(Received, Head(wire))
  <2>1. Way' = Way
    BY <1>1, <1>2, <1>5, ThroughArrived DEF Way
  <2> QED
    BY <1>1, <1>2, <1>3, <1>4, <2>1, QuietStep
<1>6. CASE Received' = Received /\ faults'
  <2>1. Way' = Through(parser, Received, Tail(wire))
    BY <1>2, <1>6 DEF Way
  <2>2. Removed(Way', Way, Len(parser) + Len(Received) + 1)
    BY <1>1, <1>2, <2>1, ThroughLost DEF Way
  <2>3. Way \in Seq(Byte) /\ Way' \in Seq(Byte)
    <3>1. LineTypes(Told, Way) /\ LineTypes(Told, Way)'
      BY <1>1, <1>4, LineSequencesNext, PTL
    <3> QED
      BY <3>1 DEF LineTypes
  <2>4. Remains(Way', Way)
    BY <2>2, <2>3, RemovedIsPart, PartRemains
  <2> QED
    BY <1>2, <1>4, <1>6, <2>4, FaultStep
<1> QED
  BY <1>3, <1>5, <1>6

LEMMA NoiseInLine ==
    ASSUME RingsInv, LineInv, ByteDamaged \/ ByteLost
    PROVE  LineInv'
<1>1. /\ ReceiveTypes /\ RxInv /\ Interrupt /\ Len(damage) < MaxTrouble
      /\ damage' = Append(damage, Head(wire))
      /\ parser \in Seq(Byte) /\ Received \in Seq(Byte) /\ wire \in Seq(Byte) /\ faults \in BOOLEAN
  BY DEF ByteDamaged, ByteLost, LineInv, ReceiveTypes, RingsInv
<1>2. wire # <<>> /\ wire' = Tail(wire) /\ Head(wire) \in Byte /\ UNCHANGED <<parser, byte, script>>
  BY <1>1, HeadTailProperties DEF Interrupt
<1>3. /\ faults' \in BOOLEAN /\ (faults => faults')
      /\ \/ Received' = Received
         \/ \E x \in Byte : x.frame = 0 /\ ~x.last /\ Received' = Append(Received, x)
  <2>1. CASE ByteLost
    <3>1. UNCHANGED <<rx, latch>>
      BY <2>1 DEF ByteLost
    <3> QED
      BY <1>1, <3>1 DEF rx, latch, Received, InRing
  <2>2. CASE ByteDamaged
    <3>1. PICK value \in Values, error \in BOOLEAN : Push(Damaged(value), error)
      BY <2>2 DEF ByteDamaged
    <3>2. Damaged(value) \in Byte /\ Damaged(value).frame = 0 /\ ~Damaged(value).last
      BY NoiseIsByte
    <3>3. /\ faults' \in BOOLEAN /\ (faults => faults')
          /\ Received' = Append(Received, Damaged(value)) \/ (Received' = Received /\ faults')
      BY <1>1, <1>2, <3>1, <3>2, ByteIsPut
    <3> QED
      BY <3>2, <3>3
  <2> QED
    BY <2>1, <2>2
<1>4. ReceiveTypes' /\ Told' = Told
  BY <1>1, <1>2, <1>3, InterruptTypes
<1> DEFINE k == Len(parser) + Len(Received) + 1
<1>5. Way[k] = Head(wire) /\ Removed(Through(parser, Received, Tail(wire)), Way, k)
  BY <1>1, <1>2, ThroughLost DEF Way
<1> HIDE DEF k
<1>6. CASE Received' = Received
  <2>1. Removed(Way', Way, k)
    BY <1>2, <1>5, <1>6 DEF Way
  <2> QED
    BY <1>1, <1>2, <1>3, <1>4, <1>5, <2>1, NoiseStep
<1>7. ASSUME NEW x \in Byte, x.frame = 0, ~x.last, Received' = Append(Received, x) PROVE LineInv'
  <2>1. Changed(Way', Way, k, x)
    BY <1>1, <1>2, <1>7, ThroughChanged DEF Way, k
  <2> QED
    BY <1>1, <1>2, <1>3, <1>4, <1>5, <1>7, <2>1, NoiseStep
<1> QED
  BY <1>3, <1>6, <1>7

\* The byte in hand is the first one received.
LEMMA ReadByteInLine ==
    ASSUME RingsInv, LineInv, ReadByte
    PROVE  LineInv'
<1>1. /\ tail # head /\ byte' = ring[tail % RxCapacity]
      /\ UNCHANGED <<sender, rx, parser, commandRing, latch, delivered>>
  BY DEF ReadByte
<1>2. /\ Received' = Received /\ ToDispatch' = ToDispatch /\ UNCHANGED <<parser, wire, script, damage, faults, delivered>>
  BY <1>1 DEF sender, rx, latch, commandRing, Received, InRing, ToDispatch, Queued
<1>3. Received \in Seq(Byte)
  BY DEF LineInv, ReceiveTypes
<1>4. Received # <<>> /\ byte' = Head(Received)
  <2>1. InRing \in Nat /\ tail \in Nat /\ head \in Nat
    BY InRingCounts DEF RingsInv, RxInv
  <2>2. InRing # 0
    <3>1. /\ RxWrap \in Nat /\ head \in 0..(RxWrap - 1) /\ tail \in 0..(RxWrap - 1)
      BY Widths DEF RingsInv, RxInv, Divides
    <3>2. InRing = IF tail =< head THEN head - tail ELSE head - tail + RxWrap
      BY <3>1, Difference DEF InRing
    <3> QED
      BY <1>1, <3>1, <3>2
  <2>3. 1 \in 1..InRing /\ tail + 1 - 1 = tail
    BY <2>1, <2>2
  <2>4. Len(Received) = InRing /\ Received[1] = ring[(tail + 1 - 1) % RxCapacity]
    BY <2>1, <2>3 DEF Received, InOrder
  <2>5. Received # <<>>
    BY <1>3, <2>2, <2>4
  <2> QED
    BY <1>1, <1>3, <2>3, <2>4, <2>5
<1>5. ReceiveTypes'
  BY <1>2, <1>4 DEF LineInv, ReceiveTypes
<1>6. Way' = Way /\ Told' = Told
  BY <1>2 DEF Way, Told
<1> QED
  BY <1>2, <1>5, <1>6, QuietStep

LEMMA PopTells ==
    ASSUME RingsInv, LineInv, PopCommand
    PROVE  /\ delivered' \in Seq(1..FrameCount) /\ ToDispatch' \in Seq(1..FrameCount)
           /\ Told' = Told
<1>1. /\ delivered' = Append(delivered, commands[cTail % CommandCapacity]) /\ cTail # cHead
  BY DEF PopCommand
<1> DEFINE S == 1..FrameCount
<1>2. delivered \in Seq(S) /\ ToDispatch \in Seq(S)
  BY DEF LineInv, ReceiveTypes
<1>3. ToDispatch # <<>> /\ ToDispatch' = Tail(ToDispatch)
  BY PopKeepsRing DEF RingsInv, CommandFifo!Take
<1> HIDE DEF S
<1>4. Head(ToDispatch) = commands[cTail % CommandCapacity]
  <2>1. Queued \in Nat /\ cTail \in Nat
    BY QueuedCounts DEF RingsInv, CommandInv
  <2>2. Len(ToDispatch) = Queued /\ Len(ToDispatch) # 0
    <3>1. Len(ToDispatch) = Queued
      BY <2>1 DEF ToDispatch, InOrder
    <3> QED
      BY <1>2, <1>3, <3>1
  <2>3. 1 \in 1..Queued /\ cTail + 1 - 1 = cTail
    BY <2>1, <2>2
  <2>4. ToDispatch[1] = commands[(cTail + 1 - 1) % CommandCapacity]
    BY <2>3 DEF ToDispatch, InOrder
  <2> QED
    BY <1>2, <1>3, <2>3, <2>4
<1>5. /\ delivered' = Append(delivered, Head(ToDispatch)) /\ delivered' \in Seq(S)
      /\ ToDispatch' \in Seq(S) /\ Told' = Told
  <2>1. Head(ToDispatch) \in S /\ Tail(ToDispatch) \in Seq(S)
    BY <1>2, <1>3, HeadTailProperties
  <2>2. Append(delivered, Head(ToDispatch)) \o Tail(ToDispatch) = delivered \o ToDispatch
    BY <1>2, <1>3, <2>1
  <2> QED
    BY <1>1, <1>2, <1>3, <1>4, <2>1, <2>2 DEF Told
<1> QED
  BY <1>5 DEF S

LEMMA PopInLine ==
    ASSUME RingsInv, LineInv, PopCommand
    PROVE  LineInv'
<1>1. UNCHANGED <<sender, rx, byte, parser, latch>>
  BY DEF PopCommand
<1>2. Received' = Received /\ UNCHANGED <<parser, byte, wire, script, damage, faults>>
  BY <1>1 DEF sender, rx, latch, Received, InRing
<1>3. ReceiveTypes'
  BY <1>2, PopTells DEF LineInv, ReceiveTypes
<1>4. Way' = Way
  BY <1>2 DEF Way
<1> QED
  BY <1>2, <1>3, <1>4, PopTells, QuietStep

-----------------------------------------------------------------------------
(* The parser. *)

\* A candidate that is kept is not yet as long as its frame.
LEMMA KeptCandidate ==
    ASSUME ReceiveTypes, NEW c, c = Append(parser, byte), byte \in Byte,
           ~BadLength(c), ~Complete(c)
    PROVE  /\ c \in Seq(Byte)
           /\ Len(c) >= HeaderLen =>
                 c[HeaderLen].value \in 0..MaxPayload /\ Len(c) < FrameLen(c[HeaderLen].value)
<1>1. /\ parser \in Seq(Byte) /\ Len(parser) \in Nat /\ MaxPayload \in Nat
      /\ Len(parser) >= 3 => parser[3].value \in 0..MaxPayload /\ Len(parser) < 4 + parser[3].value
  BY LineAssumption DEF ReceiveTypes, HeaderLen, FrameLen
<1>2. /\ c \in Seq(Byte) /\ Len(c) = Len(parser) + 1 /\ \A i \in 1..Len(parser) : c[i] = parser[i]
  BY <1>1
<1>3. ~(Len(c) = 3 /\ c[3].value > MaxPayload)
  BY DEF BadLength, HeaderLen
<1>4. ~(Len(c) >= 3 /\ Len(c) = 4 + c[3].value)
  <2>1. Len(c) >= 3 => c[3] \in Byte
    BY <1>1, <1>2
  <2>2. Len(c) >= 3 => c[3].value \in Nat
    BY <2>1 DEF Byte
  <2> DEFINE x == c[3].value
  <2>3. ~(Len(c) >= 3 /\ Len(c) = 3 + x + 1)
    BY DEF Complete, HeaderLen, FrameLen
  <2> HIDE DEF x
  <2>4. Len(c) >= 3 => 3 + x + 1 = 4 + x
    BY <2>2 DEF x
  <2>5. ~(Len(c) >= 3 /\ Len(c) = 4 + x)
    BY <2>3, <2>4
  <2> QED
    BY <2>5 DEF x
<1>5. ASSUME Len(c) >= 3 PROVE c[3].value \in 0..MaxPayload /\ Len(c) < 4 + c[3].value
  <2>1. c[3] \in Byte
    BY <1>1, <1>2, <1>5
  <2>2. c[3].value \in Nat
    BY <2>1 DEF Byte
  <2>3. CASE Len(c) = 3
    BY <1>1, <1>3, <2>2, <2>3
  <2>4. CASE Len(c) # 3
    <3>1. Len(parser) >= 3 /\ c[3] = parser[3]
      BY <1>1, <1>2, <1>5, <2>4
    <3> DEFINE x == c[3].value  m == Len(parser)
    <3>2. x \in 0..MaxPayload /\ m < 4 + x /\ Len(c) = m + 1 /\ m \in Nat /\ x \in Nat
      BY <1>1, <1>2, <2>2, <3>1
    <3>3. Len(c) # 4 + x
      BY <1>4, <1>5
    <3> HIDE DEF x, m
    <3>4. Len(c) < 4 + x
      BY <3>2, <3>3
    <3> QED
      BY <3>2, <3>4 DEF x
  <2> QED
    BY <2>3, <2>4
<1>6. Len(c) >= HeaderLen => Len(c) < FrameLen(c[HeaderLen].value)
  <2> SUFFICES ASSUME Len(c) >= 3 PROVE Len(c) < 3 + c[3].value + 1
    BY DEF HeaderLen, FrameLen
  <2> DEFINE x == c[3].value
  <2>1. x \in 0..MaxPayload /\ Len(c) < 4 + x
    BY <1>5
  <2> HIDE DEF x
  <2>2. Len(c) < 3 + x + 1
    BY <1>1, <2>1
  <2> QED
    BY <2>2 DEF x
<1> QED
  BY <1>2, <1>5, <1>6 DEF HeaderLen

\* The byte in hand joins the candidate; then the candidate is kept, is
\* dropped with a fault, or is a frame that goes to the commands.
LEMMA Parsed ==
    ASSUME RingsInv, LineInv, AdvanceAndParse, NEW c, c = Append(parser, byte)
    PROVE  /\ byte \in Byte /\ byte' = NoByte /\ Received' = Tail(Received) /\ Received # <<>>
           /\ byte = Head(Received)
           /\ UNCHANGED <<wire, script, damage, delivered>>
           /\ \/ parser' = c /\ UNCHANGED <<ToDispatch, faults>> /\ ~BadLength(c) /\ ~Complete(c)
              \/ parser' = <<>> /\ ToDispatch' = ToDispatch /\ faults'
              \/ /\ parser' = <<>> /\ CrcRight(c) /\ faults' \in {faults, TRUE}
                 /\ Extends(ToDispatch', ToDispatch, Queued, c[1].frame)
<1>1. /\ byte # NoByte /\ byte' = NoByte /\ tail' = (tail + 1) % RxWrap /\ Parse(c)
      /\ UNCHANGED <<sender, ring, head, rxOverflow, delivered>>
      /\ tail # head
  BY DEF AdvanceAndParse, RingsInv, RxInv
<1>2. Received # <<>> /\ byte = Head(Received) /\ byte \in Byte
  BY <1>1, HeadTailProperties DEF LineInv, ReceiveTypes
<1>3. Received' = Tail(Received)
  BY <1>1, AdvanceKeepsRing DEF RingsInv, RxFifo!Take
<1>4. CASE Discard
  <2>1. ToDispatch' = ToDispatch
    BY <1>4, SameCommands DEF Discard, RingsInv
  <2> QED
    BY <1>1, <1>2, <1>3, <1>4, <2>1 DEF Discard, LatchIf, sender
<1>5. CASE parser' = c /\ UNCHANGED <<commandRing, latch>> /\ ~BadLength(c) /\ ~Complete(c)
  <2>1. ToDispatch' = ToDispatch
    BY <1>5, SameCommands DEF RingsInv
  <2> QED
    BY <1>1, <1>2, <1>3, <1>5, <2>1 DEF latch, sender
<1>6. CASE Enqueue(c[1].frame) /\ CrcRight(c)
  <2>1. \/ Extends(ToDispatch', ToDispatch, Queued, c[1].frame)
        \/ ToDispatch' = ToDispatch /\ faults'
    BY <1>6, EnqueueKeepsRing DEF RingsInv, CommandFifo!Refuse
  <2>2. parser' = <<>> /\ faults' \in {faults, TRUE}
    BY <1>6 DEF Enqueue, latch, LatchIf
  <2> QED
    BY <1>1, <1>2, <1>3, <1>6, <2>1, <2>2 DEF sender
<1> QED
  BY <1>1, <1>4, <1>5, <1>6 DEF Parse

\* The parser puts a command behind those it has told.
LEMMA CommandTold ==
    ASSUME RingsInv, ReceiveTypes, AdvanceAndParse, NEW n \in 1..FrameCount,
           Extends(ToDispatch', ToDispatch, Queued, n), delivered' = delivered
    PROVE  Told' = Append(Told, n) /\ ToDispatch' \in Seq(1..FrameCount)
<1>1. ToDispatch' = Append(ToDispatch, n)
  <2>1. ToDispatch \in Seq(1..FrameCount) /\ Queued = Len(ToDispatch) /\ Queued \in Nat
    BY DEF ReceiveTypes, Extends
  <2>2. ToDispatch' = [i \in 1..Queued' |-> ToDispatch'[i]]
    BY DEF ToDispatch, InOrder
  <2>3. CommandInv'
    BY ReceiveStep DEF ReceiveNext, RingsKeep, RingsInv
  <2>4. Queued' \in Nat
    <3>1. (CommandInv => Queued \in Nat)'
      BY QueuedCounts, PTL
    <3> QED
      BY <2>3, <3>1
  <2>5. Queued' = Queued + 1
    <3>1. Len(ToDispatch') = Queued'
      BY <2>2, <2>4
    <3> QED
      BY <3>1 DEF Extends
  <2> QED
    BY <2>1, <2>2, <2>5, ExtendsIsAppend
<1> DEFINE S == 1..FrameCount
<1>2. delivered \in Seq(S) /\ ToDispatch \in Seq(S) /\ n \in S
  BY DEF ReceiveTypes
<1> HIDE DEF S
<1>3. delivered \o Append(ToDispatch, n) = Append(delivered \o ToDispatch, n)
  BY <1>2
<1>4. ToDispatch' \in Seq(S)
  BY <1>1, <1>2
<1> QED
  BY <1>1, <1>3, <1>4 DEF Told, S

LEMMA ParseInLine ==
    ASSUME RingsInv, LineInv, AdvanceAndParse
    PROVE  LineInv'
<1> DEFINE c == Append(parser, byte)
<1>1. /\ byte \in Byte /\ byte' = NoByte /\ Received' = Tail(Received) /\ Received # <<>>
      /\ byte = Head(Received)
      /\ UNCHANGED <<wire, script, damage, delivered>>
      /\ \/ parser' = c /\ UNCHANGED <<ToDispatch, faults>> /\ ~BadLength(c) /\ ~Complete(c)
         \/ parser' = <<>> /\ ToDispatch' = ToDispatch /\ faults'
         \/ /\ parser' = <<>> /\ CrcRight(c) /\ faults' \in {faults, TRUE}
            /\ Extends(ToDispatch', ToDispatch, Queued, c[1].frame)
  BY Parsed
<1>2. /\ ReceiveTypes /\ parser \in Seq(Byte) /\ Received \in Seq(Byte) /\ wire \in Seq(Byte)
      /\ faults \in BOOLEAN
  BY DEF LineInv, ReceiveTypes
<1>3. c \in Seq(Byte) /\ c # <<>> /\ Len(c) = Len(parser) + 1 /\ Tail(Received) \in Seq(Byte)
  BY <1>1, <1>2, AppendProperties, HeadTailProperties
<1>4. Way = Through(c, Tail(Received), wire)
  BY <1>1, <1>2, ThroughMoved DEF Way
<1>5. LineTypes(Told, Way)
  BY <1>2, LineSequences
<1> HIDE DEF c
<1>6. CASE parser' = c /\ UNCHANGED <<ToDispatch, faults>> /\ ~BadLength(c) /\ ~Complete(c)
  <2>1. Len(c) >= HeaderLen =>
           c[HeaderLen].value \in 0..MaxPayload /\ Len(c) < FrameLen(c[HeaderLen].value)
    BY <1>1, <1>2, <1>6, KeptCandidate DEF c
  <2>2. ReceiveTypes'
    BY <1>1, <1>2, <1>3, <1>6, <2>1 DEF ReceiveTypes
  <2>3. Way' = Way /\ Told' = Told
    BY <1>1, <1>4, <1>6 DEF Way, Told
  <2> QED
    BY <1>1, <1>6, <2>2, <2>3, QuietStep
<1>7. ASSUME parser' = <<>>
      PROVE  /\ Way' \in Seq(Byte) /\ Dropped(Way', Way, Len(c))
             /\ \A i \in 1..Len(c) : Way[i] = c[i]
             /\ ToDispatch' \in Seq(1..FrameCount) /\ faults' \in BOOLEAN => ReceiveTypes'
  <2>1. Way' = Through(<<>>, Tail(Received), wire)
    BY <1>1, <1>7 DEF Way
  <2>2. <<>> \in Seq(Byte) /\ Len(<<>>) = 0
    OBVIOUS
  <2>3. Way' \in Seq(Byte)
    BY <1>2, <1>3, <2>1, <2>2, ThroughJoins
  <2>4. Dropped(Way', Way, Len(c)) /\ \A i \in 1..Len(c) : Way[i] = c[i]
    BY <1>2, <1>3, <1>4, <2>1, ThroughDropped
  <2>5. ~(Len(parser') >= HeaderLen)
    BY <1>7, <2>2 DEF HeaderLen
  <2> QED
    BY <1>1, <1>2, <1>3, <1>7, <2>2, <2>3, <2>4, <2>5 DEF ReceiveTypes
<1>8. CASE parser' = <<>> /\ ToDispatch' = ToDispatch /\ faults'
  <2>1. ReceiveTypes'
    BY <1>2, <1>7, <1>8 DEF ReceiveTypes
  <2>2. Remains(Way', Way)
    BY <1>5, <1>7, <1>8, DroppedIsPart, PartRemains DEF LineTypes
  <2>3. Told' = Told
    BY <1>1, <1>8 DEF Told
  <2> QED
    BY <1>1, <1>8, <2>1, <2>2, <2>3, FaultStep
<1>9. CASE /\ parser' = <<>> /\ CrcRight(c) /\ faults' \in {faults, TRUE}
           /\ Extends(ToDispatch', ToDispatch, Queued, c[1].frame)
  <2> DEFINE n == c[1].frame
             m == Len(c)
  <2>1. m =< Len(Way) /\ m \in Nat /\ Dropped(Way', Way, m) /\ Way' \in Seq(Byte)
    <3>1. Dropped(Way', Way, m) /\ Way' \in Seq(Byte) /\ m \in Nat
      BY <1>3, <1>7, <1>9
    <3>2. Way \in Seq(Byte)
      BY <1>5 DEF LineTypes
    <3>3. Len(Way') \in Nat /\ Len(Way) \in Nat
      BY <3>1, <3>2
    <3> HIDE DEF m
    <3> QED
      BY <3>1, <3>3 DEF Dropped
  <2>2. /\ n \in 1..FrameCount
        /\ \A i \in 1..m : c[i].frame = n
        /\ \A i \in 1..Len(Told) : Told[i] < n
        /\ \A j \in (m + 1)..Len(Way) : Way[j].frame # 0 => n < Way[j].frame
    BY <1>3, <1>5, <1>7, <1>9, <2>1, RightCandidate DEF LineInv
  <2>3. \A i \in 1..m : Way[i].frame = n
    BY <1>7, <1>9, <2>2
  <2>5. Told' = Append(Told, n) /\ ToDispatch' \in Seq(1..FrameCount)
    BY <1>1, <1>2, <1>9, <2>2, CommandTold
  <2> HIDE DEF n, m
  <2>6. ReceiveTypes'
    BY <1>2, <1>7, <1>9, <2>5
  <2>7. InLine(Told, Way, script)'
    <3>1. InLine(Append(Told, n), Way', script)
      BY <1>5, <2>1, <2>2, FrameTold DEF LineInv
    <3> QED
      BY <1>1, <2>5, <3>1
  <2>8. ASSUME ~faults' PROVE Present(Told, Way, damage, script)' /\ Gapless(Told)'
    <3>1. Present(Told, Way, damage, script) /\ Gapless(Told)
      <4>1. ~faults
        BY <1>2, <1>9, <2>8
      <4> QED
        BY <4>1 DEF LineInv, NothingLost
    <3>2. damage \in Seq(Byte) /\ Len(damage) =< MaxTrouble
          /\ \A k \in 1..FrameCount : script[k] \in Seq(Nat)
      BY <1>2, ScriptPayloads DEF ReceiveTypes
    <3>3. Gapless(Append(Told, n)) /\ Present(Append(Told, n), Way', damage, script)
      BY <1>5, <2>1, <2>2, <2>3, <3>1, <3>2, NextFrameTold DEF LineInv
    <3> QED
      BY <1>1, <2>5, <3>3
  <2> QED
    BY <2>6, <2>7, <2>8 DEF LineInv, NothingLost
<1> QED
  BY <1>1, <1>6, <1>8, <1>9

LEMMA LineStep ==
    ASSUME RingsInv, LineInv, [ReceiveNext]_receiveVars
    PROVE  LineInv'
<1>1. CASE PollDone \/ TakeFault \/ DispatchDone \/ UNCHANGED receiveVars
  <2>1. UNCHANGED <<sender, rx, byte, parser, commandRing, faults, delivered>>
    BY <1>1 DEF PollDone, TakeFault, DispatchDone, receiveVars, latch
  <2>2. Received' = Received /\ ToDispatch' = ToDispatch
    BY <2>1 DEF rx, commandRing, Received, InRing, ToDispatch, Queued
  <2>3. ReceiveTypes'
    BY <2>1, <2>2 DEF LineInv, ReceiveTypes, sender
  <2>4. Way' = Way /\ Told' = Told
    BY <2>1, <2>2 DEF Way, Told, sender
  <2> QED
    BY <2>1, <2>3, <2>4, QuietStep DEF sender
<1> QED
  BY <1>1, ByteArrivesInLine, NoiseInLine, ReadByteInLine, ParseInLine, PopInLine DEF ReceiveNext

-----------------------------------------------------------------------------
(* What is sent. *)

\* The sequence f is frame n, with this payload, as it is sent.
Framed(f, n, payload) ==
    /\ f \in Seq(Byte) /\ Len(f) = FrameLen(Len(payload))
    /\ \A i \in 1..FrameLen(Len(payload)) :
           /\ f[i].frame = n /\ f[i].at = i /\ (f[i].last <=> i = FrameLen(Len(payload)))
           /\ f[i].value = Raw(payload)[i]

LEMMA RawIsBytes ==
    ASSUME NEW payload \in Seq(Nat), Crc(payload) \in Nat
    PROVE  /\ Raw(payload) \in Seq(Nat) /\ Len(payload) \in Nat
           /\ Len(Raw(payload)) = FrameLen(Len(payload))
<1>1. Magic \in Nat /\ Version \in Nat /\ Len(payload) \in Nat
  BY LineAssumption DEF Magic, Version
<1> DEFINE h == <<Magic, Version, Len(payload)>>
           t == <<Crc(payload)>>
<1>2. h \in Seq(Nat) /\ t \in Seq(Nat) /\ Len(h) = 3 /\ Len(t) = 1
  BY <1>1
<1> HIDE DEF h, t
<1>3. h \o payload \in Seq(Nat) /\ Len(h \o payload) = Len(h) + Len(payload)
  BY <1>2, ConcatProperties, Zenon
<1>4. (h \o payload) \o t \in Seq(Nat)
      /\ Len((h \o payload) \o t) = Len(h \o payload) + Len(t)
  BY <1>2, <1>3, ConcatProperties, Zenon
<1> QED
  BY <1>1, <1>2, <1>3, <1>4 DEF Raw, h, t, FrameLen, HeaderLen

LEMMA Encoded ==
    ASSUME NEW n \in 1..FrameCount, NEW payload \in Seq(Nat), Crc(payload) \in Nat
    PROVE  Framed(Encode(n, payload), n, payload)
<1> DEFINE size == FrameLen(Len(payload))
           b(i) == [frame |-> n, at |-> i, last |-> i = size, value |-> Raw(payload)[i]]
           f == [i \in 1..size |-> b(i)]
<1>1. size \in Nat /\ FrameCount \in Nat
  BY RawIsBytes, LineAssumption DEF FrameLen, HeaderLen
<1>2. Encode(n, payload) = f
  BY DEF Encode
<1>3. ASSUME NEW i \in 1..size PROVE b(i) \in Byte
  <2>1. Raw(payload)[i] \in Nat
    BY RawIsBytes, ElementOfSeq
  <2> QED
    BY <1>1, <2>1 DEF Byte
<1>4. \A i \in 1..size : /\ b(i).frame = n /\ b(i).at = i /\ (b(i).last <=> i = size)
                           /\ b(i).value = Raw(payload)[i]
  OBVIOUS
<1> HIDE DEF b, size
<1>5. f \in Seq(Byte) /\ Len(f) = size /\ \A i \in 1..size : f[i] = b(i)
  BY <1>1, <1>3
<1> HIDE DEF f
<1> QED
  BY <1>2, <1>4, <1>5 DEF Framed, size

\* The frames 1..n, whole and in order.
Sent(w, n, payloads) ==
    /\ w \in Seq(Byte) /\ Placed(w, payloads) /\ Ordered(w)
    /\ \A i \in 1..Len(w) : w[i].frame \in 1..n
    /\ \A k \in 1..n : \A p \in 1..Size(payloads, k) : OnWay(w, k, p)

LEMMA NothingSent ==
    ASSUME NEW payloads
    PROVE  Sent(<<>>, 0, payloads)
  BY DEF Sent, Placed, Ordered

LEMMA FrameSent ==
    ASSUME NEW payloads, NEW n \in Nat, NEW b, Sent(b, n, payloads),
           NEW f, Framed(f, n + 1, payloads[n + 1])
    PROVE  Sent(b \o f, n + 1, payloads)
<1> DEFINE w == b \o f
           size == Size(payloads, n + 1)
<1>1. b \in Seq(Byte) /\ f \in Seq(Byte) /\ Len(b) \in Nat /\ Len(f) \in Nat /\ Len(f) = size
  BY DEF Sent, Framed, Size
<1>2. w \in Seq(Byte) /\ Len(w) \in Nat
  BY <1>1
<1>3. Halves(w, b, f)
  BY <1>1, ConcatHalves
<1> HIDE DEF w, size
<1>4. ASSUME NEW i \in 1..Len(w)
      PROVE  \/ i \in 1..Len(b) /\ w[i] = b[i] /\ w[i].frame \in 1..n
             \/ /\ i - Len(b) \in 1..size /\ w[i] = f[i - Len(b)]
                /\ w[i].frame = n + 1 /\ w[i].at = i - Len(b) /\ (w[i].last <=> i - Len(b) = size)
                /\ w[i].value = Raw(payloads[n + 1])[i - Len(b)]
  <2>1. CASE i \in 1..Len(b)
    BY <1>3, <2>1 DEF Halves, Sent
  <2>2. CASE ~(i \in 1..Len(b))
    <3> DEFINE j == i - Len(b)
    <3>1. j \in 1..Len(f) /\ Len(b) + j = i
      BY <1>1, <1>3, <2>2 DEF Halves
    <3> HIDE DEF j
    <3>2. w[i] = f[j]
      BY <1>3, <3>1 DEF Halves
    <3> QED
      BY <1>1, <3>1, <3>2 DEF Framed, Size, size, j
  <2> QED
    BY <2>1, <2>2
<1>5. Placed(w, payloads)
  <2> SUFFICES ASSUME NEW i \in 1..Len(w)
               PROVE  /\ w[i].frame # 0 => w[i].at \in 1..Size(payloads, w[i].frame)
                                           /\ (w[i].last <=> w[i].at = Size(payloads, w[i].frame))
                                           /\ w[i].value = Raw(payloads[w[i].frame])[w[i].at]
                      /\ w[i].frame = 0 => ~w[i].last
    BY DEF Placed
  <2>1. CASE i \in 1..Len(b) /\ w[i] = b[i] /\ w[i].frame \in 1..n
    BY <2>1 DEF Sent, Placed
  <2>2. CASE i - Len(b) \in 1..size /\ w[i].frame = n + 1 /\ w[i].at = i - Len(b)
             /\ (w[i].last <=> i - Len(b) = size)
             /\ w[i].value = Raw(payloads[n + 1])[i - Len(b)]
    BY <2>2 DEF size
  <2> QED
    BY <1>4, <2>1, <2>2
<1>6. Ordered(w)
  <2> SUFFICES ASSUME NEW i \in 1..Len(w), NEW j \in 1..Len(w), i < j,
                      w[i].frame # 0, w[j].frame # 0
               PROVE  Earlier(w[i], w[j])
    BY DEF Ordered
  <2>1. CASE i \in 1..Len(b) /\ j \in 1..Len(b)
    BY <1>4, <1>3, <2>1 DEF Sent, Ordered, Halves
  <2>2. CASE ~(j \in 1..Len(b))
    <3>1. j - Len(b) \in 1..size /\ w[j].frame = n + 1 /\ w[j].at = j - Len(b)
      BY <1>4, <2>2
    <3>2. CASE w[i].frame \in 1..n
      BY <3>1, <3>2 DEF Earlier
    <3>3. CASE i - Len(b) \in 1..size /\ w[i].frame = n + 1 /\ w[i].at = i - Len(b)
      BY <1>1, <3>1, <3>3 DEF Earlier
    <3> QED
      BY <1>4, <3>2, <3>3
  <2>3. CASE ~(i \in 1..Len(b)) /\ j \in 1..Len(b)
    BY <1>1, <2>3
  <2> QED
    BY <2>1, <2>2, <2>3
<1>7. \A i \in 1..Len(w) : w[i].frame \in 1..(n + 1)
  BY <1>4
<1>8. ASSUME NEW k \in 1..(n + 1), NEW p \in 1..Size(payloads, k) PROVE OnWay(w, k, p)
  <2>1. CASE k \in 1..n
    <3>1. PICK j \in 1..Len(b) : b[j].frame = k /\ b[j].at = p
      BY <2>1 DEF Sent, OnWay
    <3>2. j \in 1..Len(w) /\ w[j] = b[j]
      BY <1>1, <1>3 DEF Halves
    <3> QED
      BY <3>1, <3>2 DEF OnWay
  <2>2. CASE k = n + 1
    <3>1. p \in 1..Len(f) /\ f[p].frame = k /\ f[p].at = p
      BY <1>1, <1>8, <2>2 DEF Framed, Size, size
    <3>2. Len(b) + p \in 1..Len(w) /\ w[Len(b) + p] = f[p]
      BY <1>1, <1>3, <3>1 DEF Halves
    <3> QED
      BY <3>1, <3>2 DEF OnWay
  <2> QED
    BY <2>1, <2>2
<1> QED
  BY <1>2, <1>5, <1>6, <1>7, <1>8 DEF Sent, w

\* The function by which Stream is defined.
Bytes(g, payloads) ==
    g = [n \in 0..FrameCount |-> IF n = 0 THEN <<>> ELSE g[n - 1] \o Encode(n, payloads[n])]

LEMMA BytesExist ==
    ASSUME NEW payloads,
           \A n \in 1..FrameCount : payloads[n] \in Seq(Nat) /\ Crc(payloads[n]) \in Nat
    PROVE  \E g : Bytes(g, payloads)
<1> DEFINE next(n, b) == IF n \in 1..FrameCount THEN b \o Encode(n, payloads[n]) ELSE b
           step == [x \in Nat \X Seq(Byte) |-> next(x[1] + 1, x[2])]
<1>1. FrameCount \in Nat
  BY LineAssumption
<1>2. ASSUME NEW n \in Nat, NEW b \in Seq(Byte) PROVE next(n, b) \in Seq(Byte)
  <2>1. CASE n \in 1..FrameCount
    <3>1. Encode(n, payloads[n]) \in Seq(Byte)
      BY <2>1, Encoded DEF Framed
    <3> QED
      BY <2>1, <3>1
  <2> QED
    BY <2>1
<1> HIDE DEF next
<1>3. step \in [Nat \X Seq(Byte) -> Seq(Byte)]
  BY <1>2
<1>4. \A n \in Nat : \A b \in Seq(Byte) : step[<<n, b>>] = next(n + 1, b)
  OBVIOUS
<1>5. <<>> \in Seq(Byte)
  OBVIOUS
<1> HIDE DEF step
<1>6. PICK g \in [0..FrameCount -> Seq(Byte)] : Computed(g, <<>>, step, FrameCount)
  BY <1>1, <1>3, <1>5, RecursionExists
<1>7. ASSUME NEW n \in 0..FrameCount
      PROVE  g[n] = IF n = 0 THEN <<>> ELSE g[n - 1] \o Encode(n, payloads[n])
  <2>1. CASE n = 0
    BY <1>6, <2>1 DEF Computed
  <2>2. CASE n # 0
    <3>1. n - 1 \in 0..(FrameCount - 1) /\ n - 1 \in Nat /\ (n - 1) + 1 = n /\ n \in 1..FrameCount
          /\ n - 1 \in 0..FrameCount
      BY <1>1, <2>2
    <3>2. g[n] = step[<<n - 1, g[n - 1]>>] /\ g[n - 1] \in Seq(Byte)
      BY <1>6, <3>1 DEF Computed
    <3>3. g[n] = next(n, g[n - 1])
      BY <1>4, <3>1, <3>2
    <3> QED
      BY <2>2, <3>1, <3>3 DEF next
  <2> QED
    BY <2>1, <2>2
<1>8. g = [n \in 0..FrameCount |-> g[n]]
  BY <1>6
<1>9. [n \in 0..FrameCount |-> g[n]]
        = [n \in 0..FrameCount |-> IF n = 0 THEN <<>> ELSE g[n - 1] \o Encode(n, payloads[n])]
  BY <1>7, Zenon
<1> QED
  BY <1>8, <1>9 DEF Bytes

LEMMA StreamIsBytes ==
    ASSUME NEW payloads,
           \A n \in 1..FrameCount : payloads[n] \in Seq(Nat) /\ Crc(payloads[n]) \in Nat
    PROVE  \E g : Bytes(g, payloads) /\ Stream(payloads) = g[FrameCount]
<1> DEFINE chosen == CHOOSE g : Bytes(g, payloads)
<1>1. Bytes(chosen, payloads)
  BY BytesExist
<1>2. Stream(payloads) = chosen[FrameCount]
  BY DEF Stream, Bytes
<1> QED
  BY <1>1, <1>2

LEMMA StreamSent ==
    ASSUME NEW payloads,
           \A n \in 1..FrameCount : payloads[n] \in Seq(Nat) /\ Crc(payloads[n]) \in Nat
    PROVE  Sent(Stream(payloads), FrameCount, payloads)
<1>1. PICK g : Bytes(g, payloads) /\ Stream(payloads) = g[FrameCount]
  BY StreamIsBytes
<1>2. FrameCount \in Nat
  BY LineAssumption
<1> DEFINE T == {n \in Nat : n =< FrameCount => Sent(g[n], n, payloads)}
<1>3. 0 \in T
  <2>1. g[0] = <<>>
    BY <1>1, <1>2 DEF Bytes
  <2> QED
    BY <2>1, NothingSent
<1>4. ASSUME NEW n \in Nat, n \in T PROVE n + 1 \in T
  <2> SUFFICES ASSUME n + 1 =< FrameCount PROVE Sent(g[n + 1], n + 1, payloads)
    OBVIOUS
  <2>1. n + 1 \in 0..FrameCount /\ n + 1 # 0 /\ n + 1 \in 1..FrameCount /\ n =< FrameCount
        /\ (n + 1) - 1 = n
    BY <1>2
  <2>2. g[n + 1] = g[n] \o Encode(n + 1, payloads[n + 1])
    BY <1>1, <2>1 DEF Bytes
  <2>3. Framed(Encode(n + 1, payloads[n + 1]), n + 1, payloads[n + 1])
    BY <2>1, Encoded
  <2>4. Sent(g[n], n, payloads)
    BY <1>4, <2>1
  <2> QED
    BY <2>2, <2>3, <2>4, FrameSent
<1>5. FrameCount \in T
  <2> HIDE DEF T
  <2> QED
    BY <1>2, <1>3, <1>4, SetInduction
<1> QED
  BY <1>1, <1>2, <1>5

-----------------------------------------------------------------------------
(* From the start, and always. *)

LEMMA LineInitially ==
    ASSUME ReceiveInit
    PROVE  LineInv
<1>1. script \in Scripts /\ wire = Stream(script) /\ damage = <<>> /\ ~faults /\ faults \in BOOLEAN
      /\ parser = <<>> /\ delivered = <<>> /\ byte = NoByte
  BY DEF ReceiveInit
<1>2. Received = <<>> /\ ToDispatch = <<>>
  BY ReceiveInitially DEF RxFifo!Init, CommandFifo!Init
<1>3. Sent(wire, FrameCount, script)
  BY <1>1, StreamSent, LineAssumption
<1>4. <<>> \in Seq(Byte) /\ <<>> \in Seq(1..FrameCount) /\ Len(<<>>) = 0
  OBVIOUS
<1>5. ReceiveTypes
  <2>1. wire \in Seq(Byte)
    BY <1>3 DEF Sent
  <2>2. ~(Len(parser) >= HeaderLen) /\ Len(damage) =< MaxTrouble
    BY <1>1, <1>4, LineAssumption DEF HeaderLen
  <2> QED
    BY <1>1, <1>2, <1>4, <2>1, <2>2 DEF ReceiveTypes
<1>6. Way = wire
  <2>1. wire \in Seq(Byte)
    BY <1>3 DEF Sent
  <2>2. Through(<<>>, <<>>, wire) = wire
    BY <2>1 DEF Through
  <2> QED
    BY <1>1, <1>2, <2>2 DEF Way
<1>7. Told = <<>>
  BY <1>1, <1>2 DEF Told
<1>8. InLine(<<>>, wire, script)
  BY <1>3, <1>4 DEF InLine, Sent, Precede, Increasing
<1>9. Present(<<>>, wire, damage, script) /\ Gapless(<<>>)
  BY <1>3, <1>4 DEF Present, Gapless, Sent
<1> QED
  BY <1>5, <1>6, <1>7, <1>8, <1>9 DEF LineInv, NothingLost

\* The bytes and the commands stay in line: what is in the parser, in the ring
\* and on the wire is what is left of the frames, in the order they were sent;
\* the commands told from it come before it, and where no fault was latched
\* only noise has taken bytes (uart_transport.c, pico_uart_transport_poll).
THEOREM LineInvariance == ReceiveSpec => []LineInv
<1>1. ReceiveInit => LineInv
  BY LineInitially
<1>2. RingsInv /\ LineInv /\ [ReceiveNext]_receiveVars => LineInv'
  BY LineStep
<1> QED
  BY <1>1, <1>2, RingsInvariance, PTL DEF ReceiveSpec

LEMMA RingsHoldTheirRoom ==
    ASSUME RingsInv, ReceiveTypes
    PROVE  ReceiveTypeOK
<1>1. /\ RxWrap \in Nat /\ RxWrap > 0 /\ RxCapacity \in Nat
      /\ CommandWrap \in Nat /\ CommandWrap > 0 /\ CommandCapacity \in Nat
  BY Widths DEF Divides
<1>2. /\ head \in 0..(RxWrap - 1) /\ tail \in 0..(RxWrap - 1)
      /\ cHead \in 0..(CommandWrap - 1) /\ cTail \in 0..(CommandWrap - 1)
      /\ InRing =< RxCapacity /\ Queued =< CommandCapacity
  BY DEF RingsInv, RxInv, CommandInv
<1>3. InRing \in Nat /\ Queued \in Nat
  BY InRingCounts, QueuedCounts DEF RingsInv
<1>4. Len(parser) < FrameLen(MaxPayload)
  <2>1. Len(parser) \in Nat /\ MaxPayload \in Nat
    BY LineAssumption DEF ReceiveTypes
  <2>2. CASE Len(parser) >= 3
    <3> DEFINE x == parser[3].value
    <3>1. x \in 0..MaxPayload /\ Len(parser) < 3 + x + 1
      BY <2>2 DEF ReceiveTypes, HeaderLen, FrameLen
    <3> HIDE DEF x
    <3> QED
      BY <2>1, <3>1 DEF HeaderLen, FrameLen
  <2>3. CASE ~(Len(parser) >= 3)
    BY <2>1, <2>3 DEF HeaderLen, FrameLen
  <2> QED
    BY <2>2, <2>3
<1>5. InRing \in 0..RxCapacity /\ Queued \in 0..CommandCapacity
  BY <1>1, <1>2, <1>3
<1> QED
  BY <1>2, <1>4, <1>5 DEF ReceiveTypeOK

LEMMA EmptyAtRest ==
    ASSUME RingsInv, Quiescent
    PROVE  Received = <<>> /\ ToDispatch = <<>>
<1>1. /\ RxWrap \in Nat /\ RxWrap > 0 /\ CommandWrap \in Nat /\ CommandWrap > 0
      /\ head \in 0..(RxWrap - 1) /\ cHead \in 0..(CommandWrap - 1)
      /\ tail = head /\ cTail = cHead
  BY Widths DEF Divides, RingsInv, RxInv, CommandInv, Quiescent
<1>2. head - tail = 0 /\ cHead - cTail = 0
  BY <1>1
<1>3. 0 % RxWrap = 0 /\ 0 % CommandWrap = 0
  BY <1>1
<1>4. InRing = 0 /\ Queued = 0
  BY <1>2, <1>3 DEF InRing, Queued
<1> QED
  BY <1>4 DEF Received, ToDispatch, InOrder

LEMMA AllDelivered ==
    ASSUME LightNoise, RingsInv, LineInv, Quiescent, ~faults, parser = <<>>
    PROVE  delivered = [i \in 1..FrameCount |-> i]
<1>1. wire = <<>> /\ Received = <<>> /\ ToDispatch = <<>>
  BY EmptyAtRest DEF Quiescent
<1>2. /\ delivered \in Seq(1..FrameCount) /\ damage \in Seq(Byte) /\ Len(damage) =< MaxTrouble
      /\ Len(delivered) \in Nat /\ FrameCount \in Nat
  BY LineAssumption DEF LineInv, ReceiveTypes
<1>3. Way = <<>> /\ Told = delivered
  BY <1>1, <1>2 DEF Way, Told, Through
<1>4. Present(delivered, <<>>, damage, script) /\ Gapless(delivered)
  BY <1>3 DEF LineInv, NothingLost
<1>5. <<>> \in Seq(Byte) /\ Len(<<>>) = 0
  OBVIOUS
<1>6. Len(delivered) =< FrameCount
  <2>1. CASE Len(delivered) = 0
    BY <1>2, <2>1
  <2>2. CASE Len(delivered) # 0
    <3>1. Len(delivered) \in 1..Len(delivered)
      BY <1>2, <2>2
    <3>2. delivered[Len(delivered)] = Len(delivered)
      BY <1>4, <3>1 DEF Gapless
    <3>3. delivered[Len(delivered)] \in 1..FrameCount
      BY <1>2, <3>1
    <3> QED
      BY <1>2, <3>2, <3>3
  <2> QED
    BY <2>1, <2>2
<1>7. ~(Len(delivered) < FrameCount)
  <2> SUFFICES ASSUME Len(delivered) < FrameCount PROVE FALSE
    OBVIOUS
  <2> DEFINE n == Len(delivered) + 1
  <2>1. n \in 1..FrameCount
    BY <1>2
  <2>2. ~Known(delivered, n)
    BY <1>2, <1>4 DEF Known, Gapless
  <2>3. \A k \in 1..FrameCount : script[k] \in Seq(Nat)
    BY ScriptPayloads DEF LineInv
  <2> HIDE DEF n
  <2>4. LineTypes(delivered, <<>>)
    BY <1>2, <1>5 DEF LineTypes
  <2>5. \E j \in 1..Len(<<>>) : <<>>[j].frame = n
    BY <1>2, <1>4, <2>1, <2>2, <2>3, <2>4, SomeByteOnWay
  <2> QED
    BY <1>5, <2>5
<1>8. Len(delivered) = FrameCount
  BY <1>2, <1>6, <1>7
<1>9. delivered = [i \in 1..FrameCount |-> delivered[i]]
  BY <1>2, <1>8
<1> QED
  BY <1>4, <1>8, <1>9, Zenon DEF Gapless

LEMMA AccountedFor ==
    ASSUME RingsInv, LineInv
    PROVE  ReceiveTypeOK /\ DeliveredInOrder /\ (LightNoise => NoSilentLoss)
<1>1. ReceiveTypeOK
  BY RingsHoldTheirRoom DEF LineInv
<1>2. DeliveredInOrder
  <2> DEFINE S == 1..FrameCount
  <2>1. delivered \in Seq(S) /\ ToDispatch \in Seq(S)
    BY DEF LineInv, ReceiveTypes
  <2> HIDE DEF S
  <2>2. Halves(Told, delivered, ToDispatch)
    BY <2>1, ConcatHalves DEF Told
  <2>3. Len(delivered) \in Nat /\ Len(ToDispatch) \in Nat /\ DOMAIN delivered = 1..Len(delivered)
    BY <2>1
  <2>4. Increasing(Told)
    BY DEF LineInv, InLine
  <2> SUFFICES ASSUME NEW i \in 1..Len(delivered), NEW j \in 1..Len(delivered), i < j
               PROVE  delivered[i] < delivered[j]
    BY <2>3 DEF DeliveredInOrder
  <2>5. i \in 1..Len(Told) /\ j \in 1..Len(Told) /\ Told[i] = delivered[i] /\ Told[j] = delivered[j]
    BY <2>2, <2>3 DEF Halves
  <2> QED
    BY <2>4, <2>5 DEF Increasing
<1>3. LightNoise => NoSilentLoss
  BY AllDelivered DEF NoSilentLoss
<1> QED
  BY <1>1, <1>2, <1>3

\* Whatever noise does to the line and wherever the interrupt comes between two
\* steps of the main loop, what is delivered was sent, in that order, each
\* command once, and no ring holds more than it has room for (uart_transport.c,
\* pico_uart_transport_rx_push_isr, pico_uart_transport_poll, enqueue_command).
THEOREM DeliveredInOrderAlways == ReceiveSpec => [](ReceiveTypeOK /\ DeliveredInOrder)
<1>1. RingsInv /\ LineInv => ReceiveTypeOK /\ DeliveredInOrder
  BY AccountedFor
<1> QED
  BY <1>1, RingsInvariance, LineInvariance, PTL

\* And a command that does not arrive is noticed (note_decode_error, take_fault),
\* unless noise takes every byte of a frame: the link does not number its frames.
THEOREM CommandsAccountedForAlways ==
    ASSUME LightNoise
    PROVE  ReceiveSpec => []CommandsAccountedFor
<1>1. RingsInv /\ LineInv => CommandsAccountedFor
  BY AccountedFor DEF CommandsAccountedFor
<1> QED
  BY <1>1, RingsInvariance, LineInvariance, PTL

-----------------------------------------------------------------------------
(* What a damaged version costs. *)

\* The frame that noise has touched, 0 for none.
Hurt == IF damage = <<>> THEN 0 ELSE damage[1].frame

\* A frame that has not been told has its first byte on the way, unless it is h.
Reached(e, w, h) == \A n \in 1..FrameCount : n # h => Known(e, n) \/ OnWay(w, n, 1)

\* Where the first byte of a frame is, the others follow, but for a version that
\* noise has taken.
Followed(w, h, payloads) ==
    \A n \in 1..FrameCount : OnWay(w, n, 1) =>
        \A k \in 1..Size(payloads, n) : OnWay(w, n, k) \/ (n = h /\ k = 2)

\* Every byte has the first one of its frame before it, unless the parser has
\* dropped that and goes through the rest of the frame h.
Begun(w, h, p) ==
    \A j \in 1..Len(w) : w[j].frame # 0 =>
        \/ OnWay(w, w[j].frame, 1)
        \/ w[j].frame = h /\ p = 0 /\ w[1].frame = h

\* A touched byte is the version of frame h.
Touched(w, h) ==
    \A i \in 1..Len(w) : w[i].frame = 0 =>
        i > 1 /\ w[i - 1].frame = h /\ w[i - 1].frame # 0 /\ w[i - 1].at = 1

\* The parser has the first p bytes of one frame, or of h with a touched version.
Candidate(w, h, p) ==
    \A i \in 1..p :
        \/ w[i].frame = w[1].frame /\ w[i].at = i
        \/ i = 2 /\ w[1].frame = h /\ w[1].at = 1 /\ w[2].frame = 0

OneHurt(e, w, h, p, payloads) ==
    /\ Reached(e, w, h) /\ Followed(w, h, payloads) /\ Begun(w, h, p)
    /\ Touched(w, h) /\ Candidate(w, h, p)
    /\ h # 0 => ~OnWay(w, h, 2)

\* What the property assumes, at any time.
Light ==
    /\ rxOverflow + cmdOverflow = 0
    /\ damage = <<>> \/ (VersionDamaged /\ LooksPlain(script[damage[1].frame]))

DamageInv ==
    /\ rxOverflow \in Nat /\ cmdOverflow \in Nat
    /\ \A i \in 1..Len(wire) : wire[i].frame # 0
    /\ Light => OneHurt(Told, Way, Hurt, Len(parser), script)

\* Payloads that fit, of which that of frame h does not look like a start.
Plain(payloads, h) ==
    \A n \in 1..FrameCount :
        /\ payloads[n] \in Seq(Nat) /\ Len(payloads[n]) =< MaxPayload
        /\ Crc(payloads[n]) \in Nat
        /\ n = h => LooksPlain(payloads[n])

Lined(e, w, h, p, payloads) ==
    /\ LineTypes(e, w) /\ InLine(e, w, payloads) /\ OneHurt(e, w, h, p, payloads)
    /\ p \in 0..Len(w) /\ Plain(payloads, h)

LEMMA RawValues ==
    ASSUME NEW payload \in Seq(Nat), Len(payload) =< MaxPayload, Crc(payload) \in Nat
    PROVE  /\ Raw(payload)[1] = Magic /\ Raw(payload)[2] = Version /\ Raw(payload)[3] = Len(payload)
           /\ LooksPlain(payload)
              => \A k \in 2..FrameLen(Len(payload)) : Raw(payload)[k] # Magic
<1> DEFINE n == Len(payload)
           h == <<Magic, Version, n>>
           t == <<Crc(payload)>>
           a == h \o payload
           r == a \o t
<1>1. /\ n \in Nat /\ MaxPayload \in Nat /\ n =< MaxPayload
      /\ Magic = MaxPayload + 1 /\ Version = MaxPayload + 2
  BY LineAssumption DEF Magic, Version
<1>2. /\ Len(h) = 3 /\ h \in Seq(Nat) /\ h[1] = Magic /\ h[2] = Version /\ h[3] = n
      /\ Len(t) = 1 /\ t \in Seq(Nat) /\ t[1] = Crc(payload)
  BY <1>1
<1>3. r = Raw(payload) /\ FrameLen(n) = n + 4
  BY <1>1 DEF Raw, FrameLen, HeaderLen
<1> HIDE DEF h, t
<1>4. Halves(a, h, payload) /\ a \in Seq(Nat)
  BY <1>2, ConcatHalves, ConcatProperties
<1> HIDE DEF a
<1>5. Halves(r, a, t)
  BY <1>2, <1>4, ConcatHalves
<1> HIDE DEF r
<1>6. Len(a) = n + 3
  BY <1>1, <1>2, <1>4 DEF Halves
<1>7. r[1] = Magic /\ r[2] = Version /\ r[3] = n
  <2>1. \A i \in 1..3 : i \in 1..Len(a) /\ i \in 1..Len(h)
    BY <1>1, <1>2, <1>6
  <2>2. \A i \in 1..3 : r[i] = h[i]
    BY <1>4, <1>5, <2>1 DEF Halves
  <2> QED
    BY <1>2, <2>2
<1>8. ASSUME LooksPlain(payload), NEW k \in 2..(n + 4) PROVE r[k] # Magic
  <2>1. CASE k = 2 \/ k = 3
    BY <1>1, <1>7, <2>1
  <2>2. CASE k = n + 4
    <3>1. 1 \in 1..Len(t) /\ Len(a) + 1 = k
      BY <1>1, <1>2, <1>6, <2>2
    <3>2. r[k] = t[1]
      BY <1>5, <3>1 DEF Halves
    <3> QED
      BY <1>2, <1>8, <3>2 DEF LooksPlain
  <2>3. CASE k \in 4..(n + 3)
    <3>1. k \in 1..Len(a) /\ k - 3 \in 1..n /\ Len(h) + (k - 3) = k
      BY <1>1, <1>2, <1>6, <2>3
    <3>2. r[k] = payload[k - 3]
      BY <1>4, <1>5, <3>1 DEF Halves
    <3>3. k - 3 \in DOMAIN payload
      BY <1>1, <3>1
    <3> QED
      BY <1>8, <3>2, <3>3 DEF LooksPlain
  <2> QED
    BY <1>1, <2>1, <2>2, <2>3
<1> QED
  BY <1>3, <1>7, <1>8

\* A byte that noise has not touched.
LEMMA IntactByte ==
    ASSUME NEW e, NEW w, NEW h, NEW p, NEW payloads, Lined(e, w, h, p, payloads),
           NEW i \in 1..Len(w), w[i].frame # 0
    PROVE  /\ w[i].frame \in 1..FrameCount /\ w[i].frame \in Nat
           /\ w[i].at \in Nat /\ w[i].at >= 1
           /\ Size(payloads, w[i].frame) = Len(payloads[w[i].frame]) + 4
           /\ Len(payloads[w[i].frame]) \in 0..MaxPayload
           /\ w[i].at \in 1..Size(payloads, w[i].frame)
           /\ w[i].last <=> w[i].at = Size(payloads, w[i].frame)
           /\ w[i].at = 1 => w[i].value = Magic
           /\ w[i].at = 2 => w[i].value = Version
           /\ w[i].at = 3 => w[i].value = Len(payloads[w[i].frame])
           /\ w[i].at # 1 /\ w[i].frame = h => w[i].value # Magic
<1> DEFINE n == w[i].frame
           size == Size(payloads, n)
           payload == payloads[n]
<1>1. n \in 1..FrameCount
  <2>1. w[i] \in Byte /\ FrameCount \in Nat
    BY LineAssumption DEF Lined, LineTypes
  <2> QED
    BY <2>1 DEF Byte
<1>2. /\ payload \in Seq(Nat) /\ Len(payload) =< MaxPayload /\ Crc(payload) \in Nat
      /\ n = h => LooksPlain(payload)
  BY <1>1 DEF Lined, Plain
<1>3. Len(payload) \in Nat /\ MaxPayload \in Nat
  BY <1>2, LineAssumption
<1>4. size = Len(payload) + 4 /\ size = FrameLen(Len(payload))
  BY <1>3 DEF Size, FrameLen, HeaderLen
<1>5. w[i].at \in 1..size /\ (w[i].last <=> w[i].at = size) /\ w[i].value = Raw(payload)[w[i].at]
  BY DEF Lined, InLine, Placed
<1>6. /\ Raw(payload)[1] = Magic /\ Raw(payload)[2] = Version /\ Raw(payload)[3] = Len(payload)
      /\ n = h => \A k \in 2..size : Raw(payload)[k] # Magic
  BY <1>2, <1>4, RawValues
<1> HIDE DEF n, size, payload
<1>7. w[i].at # 1 => w[i].at \in 2..size
  BY <1>3, <1>4, <1>5
<1>8. Len(payload) \in 0..MaxPayload
  BY <1>2, <1>3
<1>9. n \in Nat /\ w[i].at \in Nat /\ w[i].at >= 1
  BY <1>1, <1>3, <1>4, <1>5, LineAssumption
<1> QED
  BY <1>1, <1>4, <1>5, <1>6, <1>7, <1>8, <1>9 DEF n, size, payload

LEMMA BytesInOrder ==
    ASSUME NEW e, NEW w, NEW h, NEW p, NEW payloads, Lined(e, w, h, p, payloads),
           NEW i \in 1..Len(w), NEW j \in 1..Len(w), w[i].frame # 0, w[j].frame # 0
    PROVE  /\ i < j => Earlier(w[i], w[j])
           /\ Earlier(w[i], w[j]) => i < j
           /\ w[i].frame = w[j].frame /\ w[i].at = w[j].at => i = j
<1>1. /\ w[i].frame \in Nat /\ w[j].frame \in Nat /\ w[i].at \in Nat /\ w[j].at \in Nat
      /\ i \in Nat /\ j \in Nat
  <2>1. w[i] \in Byte /\ w[j] \in Byte /\ Len(w) \in Nat /\ FrameCount \in Nat
    BY LineAssumption DEF Lined, LineTypes
  <2> QED
    BY <2>1 DEF Byte
<1>2. i < j => Earlier(w[i], w[j])
  BY DEF Lined, InLine, Ordered
<1>3. j < i => Earlier(w[j], w[i])
  BY DEF Lined, InLine, Ordered
<1>4. Earlier(w[i], w[j]) => i < j
  BY <1>1, <1>3 DEF Earlier
<1> QED
  BY <1>1, <1>2, <1>3, <1>4 DEF Earlier

\* The first byte of a candidate.
LEMMA FirstByte ==
    ASSUME NEW e, NEW w, NEW h, NEW p, NEW payloads, Lined(e, w, h, p, payloads), Len(w) > 0
    PROVE  /\ w[1].frame # 0 /\ 1 \in 1..Len(w)
           /\ p > 0 => w[1].at = 1
           /\ w[1].at # 1 => w[1].frame = h /\ p = 0
<1>1. 1 \in 1..Len(w) /\ Len(w) \in Nat /\ p \in Nat
  BY DEF Lined, LineTypes
<1>2. w[1].frame # 0
  BY <1>1 DEF Lined, OneHurt, Touched
<1>3. ASSUME p > 0 PROVE w[1].at = 1
  <2>1. 1 \in 1..p
    BY <1>1, <1>3
  <2> QED
    BY <2>1 DEF Lined, OneHurt, Candidate
<1>4. ASSUME w[1].at # 1 PROVE w[1].frame = h /\ p = 0
  <2>1. CASE OnWay(w, w[1].frame, 1)
    <3>1. PICK j \in 1..Len(w) : w[j].frame = w[1].frame /\ w[j].at = 1
      BY <2>1 DEF OnWay
    <3>2. w[1].at \in Nat /\ w[1].at > 1
      BY <1>1, <1>2, <1>4, IntactByte
    <3>3. Earlier(w[j], w[1])
      BY <3>1, <3>2 DEF Earlier
    <3>4. j < 1
      BY <1>1, <1>2, <3>1, <3>3, BytesInOrder
    <3> QED
      BY <3>4
  <2>2. CASE ~OnWay(w, w[1].frame, 1)
    BY <1>1, <1>2, <2>2 DEF Lined, OneHurt, Begun
  <2> QED
    BY <2>1, <2>2
<1> QED
  BY <1>1, <1>2, <1>3, <1>4

\* The byte behind a candidate of frame n is the next one of n, unless noise has
\* taken the version.
LEMMA NextByte ==
    ASSUME NEW e, NEW w, NEW h, NEW p, NEW payloads, Lined(e, w, h, p, payloads),
           0 < p, p < Len(w), p < Size(payloads, w[1].frame)
    PROVE  \/ w[p + 1].frame = w[1].frame /\ w[p + 1].at = p + 1
           \/ p = 1 /\ w[1].frame = h /\ w[2].frame = 0
           \/ p = 1 /\ w[1].frame = h /\ w[2].frame = h /\ w[2].at = 3
<1> DEFINE n == w[1].frame
           b == w[p + 1]
<1>1. /\ p \in Nat /\ p + 1 \in 1..Len(w) /\ p \in 1..Len(w) /\ Len(w) \in Nat /\ 1 \in 1..Len(w)
      /\ w[1].frame # 0 /\ w[1].at = 1
  <2>1. p \in 0..Len(w) /\ Len(w) \in Nat
    BY DEF Lined, LineTypes
  <2>2. p \in Nat /\ Len(w) > 0
    BY <2>1
  <2> QED
    BY <2>1, <2>2, FirstByte
<1>2. n \in 1..FrameCount /\ Size(payloads, n) \in Nat /\ Size(payloads, n) >= 4
  <2>1. n \in 1..FrameCount /\ Size(payloads, n) = Len(payloads[n]) + 4
        /\ Len(payloads[n]) \in 0..MaxPayload
    BY <1>1, IntactByte
  <2>2. Len(payloads[n]) \in Nat
    BY <2>1, LineAssumption
  <2> QED
    BY <2>1, <2>2
<1>3. OnWay(w, n, 1)
  BY <1>1 DEF OnWay
<1>4. \A k \in 1..Size(payloads, n) : OnWay(w, n, k) \/ (n = h /\ k = 2)
  BY <1>2, <1>3 DEF Lined, OneHurt, Followed
<1>5. \A i \in 1..p : \/ w[i].frame = n /\ w[i].at = i
                      \/ i = 2 /\ n = h /\ w[2].frame = 0
  BY DEF Lined, OneHurt, Candidate
<1>6. CASE b.frame = 0
  <2>1. w[p].frame = h /\ w[p].frame # 0 /\ w[p].at = 1
    <3>1. (p + 1) - 1 = p
      BY <1>1
    <3> QED
      BY <1>1, <1>6, <3>1 DEF Lined, OneHurt, Touched
  <2>2. w[p].frame = n /\ w[p].at = p
    BY <1>1, <1>5, <2>1
  <2>3. p = 1 /\ n = h
    BY <2>1, <2>2
  <2> QED
    BY <1>6, <2>3
<1>7. CASE b.frame # 0
  <2>0. /\ b.frame \in Nat /\ b.at \in Nat /\ n \in Nat /\ Earlier(w[1], b)
    <3>1. Earlier(w[1], b)
      BY <1>1, <1>7, BytesInOrder
    <3>2. b \in Byte /\ FrameCount \in Nat
      BY <1>1, LineAssumption DEF Lined, LineTypes
    <3>3. b.frame \in Nat /\ b.at \in Nat
      BY <3>2 DEF Byte
    <3> QED
      BY <1>2, <3>1, <3>2, <3>3
  \* A later byte of n on the way is b, or behind it.
  <2>1. ASSUME NEW k \in Nat, k > p, OnWay(w, n, k) PROVE b.frame = n /\ b.at =< k
    <3>1. PICK j \in 1..Len(w) : w[j].frame = n /\ w[j].at = k
      BY <2>1 DEF OnWay
    <3>2. ~(j \in 1..p)
      <4> SUFFICES ASSUME j \in 1..p PROVE FALSE
        OBVIOUS
      <4>1. w[j].at = j
        BY <1>1, <1>2, <1>5, <3>1
      <4> QED
        BY <1>1, <2>1, <3>1, <4>1
    <3>3. j = p + 1 \/ p + 1 < j
      BY <1>1, <3>2
    <3>4. CASE j = p + 1
      BY <3>1, <3>4, <2>1
    <3>5. CASE p + 1 < j
      <4>1. Earlier(b, w[j])
        BY <1>1, <1>7, <3>1, <3>5, BytesInOrder
      <4> QED
        BY <2>0, <2>1, <3>1, <4>1 DEF Earlier
    <3> QED
      BY <3>3, <3>4, <3>5
  <2>2. CASE p + 1 # 2 \/ n # h
    <3>1. OnWay(w, n, p + 1)
      <4>1. p + 1 \in 1..Size(payloads, n)
        BY <1>1, <1>2
      <4> QED
        BY <1>4, <2>2, <4>1
    <3>2. b.frame = n /\ b.at =< p + 1
      BY <1>1, <2>1, <3>1
    <3>3. b.at > 1
      BY <1>1, <2>0, <3>2 DEF Earlier
    <3>4. b.at > p
      <4>1. CASE w[p].frame = n /\ w[p].at = p
        <5>1. Earlier(w[p], b)
          BY <1>1, <1>2, <1>7, <4>1, BytesInOrder
        <5> QED
          BY <3>2, <4>1, <5>1, <1>1, <2>0 DEF Earlier
      <4>2. CASE p = 2 /\ n = h /\ w[2].frame = 0
        <5>1. ~OnWay(w, h, 2)
          BY <1>2, <4>2 DEF Lined, OneHurt
        <5>2. b.at # 2
          BY <1>1, <3>2, <4>2, <5>1 DEF OnWay
        <5> QED
          BY <2>0, <3>3, <4>2, <5>2
      <4>3. p \in 1..p
        BY <1>1
      <4> QED
        BY <1>5, <4>1, <4>2, <4>3
    <3> QED
      BY <1>1, <2>0, <3>2, <3>4
  <2>3. CASE p = 1 /\ n = h
    <3>1. OnWay(w, n, 3)
      <4>1. 3 \in 1..Size(payloads, n)
        BY <1>2
      <4> QED
        BY <1>4, <4>1
    <3>2. b.frame = n /\ b.at =< 3
      BY <2>1, <2>3, <3>1
    <3>3. b.at > 1
      BY <1>1, <2>0, <3>2 DEF Earlier
    <3>4. b.at = 2 \/ b.at = 3
      BY <2>0, <3>2, <3>3
    <3> QED
      BY <2>3, <3>2, <3>4
  <2> QED
    BY <1>1, <2>2, <2>3
<1> QED
  BY <1>6, <1>7

\* What is behind the first m bytes stays on the way when these are dropped.
LEMMA StaysOnWay ==
    ASSUME NEW w, NEW v, NEW m \in Nat, Len(v) \in Nat, Dropped(v, w, m), NEW n, NEW k
    PROVE  /\ OnWay(v, n, k) => OnWay(w, n, k)
           /\ OnWay(w, n, k) /\ (\A i \in 1..m : w[i].frame # n \/ w[i].at # k) => OnWay(v, n, k)
<1>1. /\ Len(w) = m + Len(v)
      /\ \A i \in 1..Len(v) : v[i] = w[m + i] /\ m + i \in 1..Len(w)
  BY DEF Dropped
<1>2. ASSUME OnWay(v, n, k) PROVE OnWay(w, n, k)
  BY <1>1, <1>2 DEF OnWay
<1>3. ASSUME OnWay(w, n, k), \A i \in 1..m : w[i].frame # n \/ w[i].at # k
      PROVE  OnWay(v, n, k)
  <2>1. PICK j \in 1..Len(w) : w[j].frame = n /\ w[j].at = k
    BY <1>3 DEF OnWay
  <2>2. ~(j \in 1..m)
    BY <1>3, <2>1
  <2>3. j - m \in 1..Len(v) /\ m + (j - m) = j
    BY <1>1, <2>2
  <2>4. v[j - m] = w[j]
    BY <1>1, <2>3
  <2> QED
    BY <2>1, <2>3, <2>4 DEF OnWay
<1> QED
  BY <1>2, <1>3

\* The bytes of a frame are dropped when it is told.
LEMMA FrameDropped ==
    ASSUME NEW e, NEW w, NEW h, NEW p, NEW payloads, Lined(e, w, h, p, payloads),
           NEW n \in 1..FrameCount, NEW m \in Nat, m > 1, NEW v \in Seq(Byte), Dropped(v, w, m),
           \A i \in 1..m : w[i].frame = n /\ w[i].at = i,
           \A j \in (m + 1)..Len(w) : w[j].frame # 0 => n < w[j].frame
    PROVE  OneHurt(Append(e, n), v, h, 0, payloads)
<1> DEFINE g == Append(e, n)
<1>1. /\ Len(w) = m + Len(v) /\ Len(v) \in Nat
      /\ \A i \in 1..Len(v) : v[i] = w[m + i] /\ m + i \in (m + 1)..Len(w) /\ m + i \in 1..Len(w)
  BY DEF Dropped
<1>2. \A k : Known(e, k) \/ k = n => Known(g, k)
  <2>1. /\ e \in Seq(1..FrameCount) /\ Len(e) \in Nat
        /\ Len(g) = Len(e) + 1 /\ g[Len(e) + 1] = n /\ \A i \in 1..Len(e) : g[i] = e[i]
    BY DEF Lined, LineTypes
  <2>2. Len(e) + 1 \in 1..Len(g) /\ 1..Len(e) \subseteq 1..Len(g)
    BY <2>1
  <2> QED
    BY <2>1, <2>2 DEF Known
<1> HIDE DEF g
<1>3. ASSUME NEW k, k # n, NEW q PROVE OnWay(w, k, q) => OnWay(v, k, q)
  BY <1>1, <1>3, StaysOnWay
<1>4. ASSUME NEW k, NEW q PROVE OnWay(v, k, q) => OnWay(w, k, q)
  BY <1>1, StaysOnWay
<1>5. ASSUME NEW j \in 1..Len(v), v[j].frame # 0 PROVE v[j].frame # n
  <2>1. n < v[j].frame
    BY <1>1, <1>5
  <2> QED
    BY <2>1
<1>6. Reached(g, v, h)
  <2> SUFFICES ASSUME NEW k \in 1..FrameCount, k # h PROVE Known(g, k) \/ OnWay(v, k, 1)
    BY DEF Reached
  <2>1. Known(e, k) \/ OnWay(w, k, 1)
    BY DEF Lined, OneHurt, Reached
  <2> QED
    BY <1>2, <1>3, <2>1
<1>7. Followed(v, h, payloads)
  <2> SUFFICES ASSUME NEW k \in 1..FrameCount, OnWay(v, k, 1), NEW q \in 1..Size(payloads, k),
                      ~(k = h /\ q = 2)
               PROVE  OnWay(v, k, q)
    BY DEF Followed
  <2>1. k # n
    <3>1. PICK j \in 1..Len(v) : v[j].frame = k
      BY DEF OnWay
    <3> QED
      BY <1>5, <3>1
  <2>2. OnWay(w, k, q)
    BY <1>4 DEF Lined, OneHurt, Followed
  <2> QED
    BY <1>3, <2>1, <2>2
<1>8. Begun(v, h, 0)
  <2> SUFFICES ASSUME NEW j \in 1..Len(v), v[j].frame # 0 PROVE OnWay(v, v[j].frame, 1)
    BY DEF Begun
  <2>1. v[j] = w[m + j] /\ m + j \in 1..Len(w) /\ v[j].frame # n
    BY <1>1, <1>5
  <2>2. w[1].frame = n
    BY <1>1
  <2>3. OnWay(w, v[j].frame, 1)
    BY <2>1, <2>2 DEF Lined, OneHurt, Begun
  <2> QED
    BY <1>3, <2>1, <2>3
<1>9. Touched(v, h)
  <2> SUFFICES ASSUME NEW i \in 1..Len(v), v[i].frame = 0
               PROVE  i > 1 /\ v[i - 1].frame = h /\ v[i - 1].frame # 0 /\ v[i - 1].at = 1
    BY DEF Touched
  <2>1. v[i] = w[m + i] /\ m + i \in 1..Len(w)
    BY <1>1
  <2>2. w[(m + i) - 1].frame = h /\ w[(m + i) - 1].frame # 0 /\ w[(m + i) - 1].at = 1
    BY <2>1 DEF Lined, OneHurt, Touched
  <2>3. i # 1
    <3>1. w[m].at # 1
      BY <1>1
    <3>2. (m + 1) - 1 = m
      OBVIOUS
    <3> QED
      BY <2>2, <3>1, <3>2
  <2>4. i > 1 /\ i - 1 \in 1..Len(v) /\ m + (i - 1) = (m + i) - 1
    BY <1>1, <2>3
  <2>5. v[i - 1] = w[(m + i) - 1]
    BY <1>1, <2>4
  <2> QED
    BY <2>2, <2>4, <2>5
<1>10. Candidate(v, h, 0)
  BY DEF Candidate
<1>11. h # 0 => ~OnWay(v, h, 2)
  BY <1>4 DEF Lined, OneHurt
<1> QED
  BY <1>6, <1>7, <1>8, <1>9, <1>10, <1>11 DEF OneHurt, g

\* Bytes of the frame that noise has touched are dropped.
LEMMA HurtDropped ==
    ASSUME NEW e, NEW w, NEW h, NEW p, NEW payloads, Lined(e, w, h, p, payloads),
           NEW m \in Nat, m > 0, NEW v \in Seq(Byte), Dropped(v, w, m),
           w[1].frame = h, \A i \in 1..m : w[i].frame \in {h, 0},
           ~(w[m].frame = h /\ w[m].at = 1)
    PROVE  OneHurt(e, v, h, 0, payloads)
<1>1. /\ Len(w) = m + Len(v) /\ Len(v) \in Nat
      /\ \A i \in 1..Len(v) : v[i] = w[m + i] /\ m + i \in (m + 1)..Len(w) /\ m + i \in 1..Len(w)
      /\ 1 \in 1..Len(w) /\ m \in 1..Len(w) /\ Len(w) > 0
  BY DEF Dropped
<1>2. h # 0
  BY <1>1, FirstByte
<1>3. h \in Nat /\ h \in 1..FrameCount
  BY <1>1, <1>2, IntactByte, LineAssumption
<1>4. ASSUME NEW k \in 1..FrameCount, k # h, NEW q PROVE OnWay(w, k, q) => OnWay(v, k, q)
  <2>1. \A i \in 1..m : w[i].frame # k \/ w[i].at # q
    BY <1>3, <1>4
  <2> QED
    BY <1>1, <2>1, StaysOnWay
<1>5. ASSUME NEW k, NEW q PROVE OnWay(v, k, q) => OnWay(w, k, q)
  BY <1>1, StaysOnWay
<1>6. ~OnWay(v, h, 1)
  <2> SUFFICES ASSUME NEW j \in 1..Len(v), v[j].frame = h, v[j].at = 1 PROVE FALSE
    BY DEF OnWay
  <2>1. w[m + j].frame = h /\ w[m + j].at = 1 /\ m + j \in 1..Len(w) /\ 1 < m + j
    BY <1>1
  <2>2. Earlier(w[1], w[m + j])
    BY <1>1, <1>2, <2>1, BytesInOrder
  <2>3. w[1].at >= 1 /\ w[1].at \in Nat
    BY <1>1, <1>2, IntactByte, Zenon
  <2> QED
    BY <1>3, <2>1, <2>2, <2>3 DEF Earlier
<1>7. Reached(e, v, h)
  BY <1>4 DEF Lined, OneHurt, Reached
<1>8. Followed(v, h, payloads)
  <2> SUFFICES ASSUME NEW k \in 1..FrameCount, OnWay(v, k, 1), NEW q \in 1..Size(payloads, k)
               PROVE  OnWay(v, k, q)
    BY DEF Followed
  <2>1. k # h
    BY <1>6
  <2>2. OnWay(w, k, q)
    BY <1>5, <2>1 DEF Lined, OneHurt, Followed
  <2> QED
    BY <1>4, <2>1, <2>2
<1>9. Begun(v, h, 0)
  <2> SUFFICES ASSUME NEW j \in 1..Len(v), v[j].frame # 0
               PROVE  OnWay(v, v[j].frame, 1) \/ (v[j].frame = h /\ v[1].frame = h)
    BY DEF Begun
  <2>1. v[j] = w[m + j] /\ m + j \in 1..Len(w)
    BY <1>1
  <2>2. v[j].frame \in 1..FrameCount
    BY <2>1, IntactByte
  <2>3. CASE v[j].frame # h
    <3>1. OnWay(w, v[j].frame, 1)
      BY <2>1, <2>3 DEF Lined, OneHurt, Begun
    <3> QED
      BY <1>4, <2>2, <2>3, <3>1
  <2>4. CASE v[j].frame = h
    <3>1. 1 \in 1..Len(v) /\ v[1] = w[m + 1] /\ m + 1 \in 1..Len(w) /\ (m + 1) - 1 = m
      BY <1>1
    <3>2. w[m + 1].frame # 0
      BY <3>1 DEF Lined, OneHurt, Touched
    <3>3. Earlier(w[1], w[m + 1])
      <4>1. 1 < m + 1 /\ w[1].frame # 0
        BY <1>2
      <4> QED
        BY <1>1, <3>1, <3>2, <4>1, BytesInOrder, Zenon
    <3>4. w[m + 1].frame \in Nat
      BY <3>1, <3>2, IntactByte, Zenon
    <3>5. h =< w[m + 1].frame
      BY <1>3, <3>3, <3>4 DEF Earlier
    <3>6. CASE j = 1
      BY <2>4, <3>6
    <3>7. CASE j # 1
      <4>1. m + 1 < m + j
        BY <3>7
      <4>2. Earlier(w[m + 1], w[m + j])
        BY <1>2, <2>1, <2>4, <3>1, <3>2, <4>1, BytesInOrder
      <4>3. w[m + 1].frame =< h
        BY <1>3, <2>1, <2>4, <3>4, <4>2 DEF Earlier
      <4> QED
        BY <1>3, <2>4, <3>1, <3>4, <3>5, <4>3
    <3> QED
      BY <3>6, <3>7
  <2> QED
    BY <2>3, <2>4
<1>10. Touched(v, h)
  <2> SUFFICES ASSUME NEW i \in 1..Len(v), v[i].frame = 0
               PROVE  i > 1 /\ v[i - 1].frame = h /\ v[i - 1].frame # 0 /\ v[i - 1].at = 1
    BY DEF Touched
  <2>1. v[i] = w[m + i] /\ m + i \in 1..Len(w)
    BY <1>1
  <2>2. w[(m + i) - 1].frame = h /\ w[(m + i) - 1].frame # 0 /\ w[(m + i) - 1].at = 1
    BY <2>1 DEF Lined, OneHurt, Touched
  <2>3. i # 1
    <3>1. (m + 1) - 1 = m
      OBVIOUS
    <3> QED
      BY <2>2, <3>1
  <2>4. i > 1 /\ i - 1 \in 1..Len(v) /\ m + (i - 1) = (m + i) - 1
    BY <1>1, <2>3
  <2>5. v[i - 1] = w[(m + i) - 1]
    BY <1>1, <2>4
  <2> QED
    BY <2>2, <2>4, <2>5
<1>11. Candidate(v, h, 0)
  BY DEF Candidate
<1>12. h # 0 => ~OnWay(v, h, 2)
  BY <1>5 DEF Lined, OneHurt
<1> QED
  BY <1>7, <1>8, <1>9, <1>10, <1>11, <1>12 DEF OneHurt

Failed(c) == c[1].value # Magic \/ BadVersion(c) \/ BadLength(c)

\* The first m bytes belong to the frame h, which noise has touched.
Spoiled(w, h, m) ==
    /\ w[1].frame = h /\ (\A i \in 1..m : w[i].frame \in {h, 0})
    /\ ~(w[m].frame = h /\ w[m].at = 1)

\* A candidate that is as long as its frame is the frame, or noise has touched it.
LEMMA WholeCandidate ==
    ASSUME NEW e, NEW w, NEW h, NEW p, NEW payloads, Lined(e, w, h, p, payloads),
           NEW m \in 1..Len(w), m >= 3, Candidate(w, h, m),
           w[1].frame # 0, w[1].at = 1, w[m].frame = w[1].frame, w[m].at = m,
           m = Size(payloads, w[1].frame),
           NEW c \in Seq(Byte), Len(c) = m, \A i \in 1..m : c[i] = w[i]
    PROVE  CrcRight(c) \/ (~CrcRight(c) /\ Spoiled(w, h, m))
<1> DEFINE n == w[1].frame
<1>1. m \in Nat /\ DOMAIN c = 1..m /\ 1 \in 1..m /\ m \in 1..m /\ 2 \in 1..m
  OBVIOUS
<1>2. w[m].last
  BY IntactByte
<1>3. CASE \A i \in 1..m : w[i].frame = n /\ w[i].at = i
  BY <1>1, <1>2, <1>3 DEF CrcRight
<1>4. CASE ~\A i \in 1..m : w[i].frame = n /\ w[i].at = i
  <2>1. n = h /\ w[2].frame = 0
    BY <1>4 DEF Candidate
  <2>2. ~CrcRight(c)
    BY <1>1, <2>1 DEF CrcRight
  <2>3. \A i \in 1..m : w[i].frame \in {h, 0}
    BY <2>1 DEF Candidate
  <2>4. w[m].at # 1
    BY <1>1
  <2> QED
    BY <2>1, <2>2, <2>3, <2>4 DEF Spoiled
<1> QED
  BY <1>3, <1>4

\* What the parser finds in its candidate c.
LEMMA Verdict ==
    ASSUME NEW e, NEW w, NEW h, NEW p, NEW payloads, Lined(e, w, h, p, payloads), p < Len(w),
           p >= 3 => p < FrameLen(w[3].value),
           NEW c \in Seq(Byte), Len(c) = p + 1, \A i \in 1..(p + 1) : c[i] = w[i]
    PROVE  \/ ~Failed(c) /\ ~Complete(c) /\ Candidate(w, h, p + 1)
           \/ ~Failed(c) /\ Complete(c) /\ CrcRight(c)
           \/ (Failed(c) \/ (Complete(c) /\ ~CrcRight(c))) /\ Spoiled(w, h, p + 1)
<1> DEFINE n == w[1].frame
           L == Len(payloads[n])
<1>1. /\ p \in Nat /\ Len(w) \in Nat /\ Len(w) > 0 /\ p + 1 \in 1..Len(w) /\ c[1] = w[1]
      /\ w[1].frame # 0 /\ 1 \in 1..Len(w) /\ 1 \in 1..(p + 1)
  <2>1. p \in 0..Len(w) /\ Len(w) \in Nat
    BY DEF Lined, LineTypes
  <2>2. p \in Nat /\ Len(w) > 0 /\ 1 \in 1..(p + 1) /\ p + 1 \in 1..Len(w)
    BY <2>1
  <2> QED
    BY <2>1, <2>2, FirstByte
<1>2. MaxPayload \in Nat /\ L \in 0..MaxPayload /\ Size(payloads, n) = L + 4
  BY <1>1, IntactByte, LineAssumption
<1>3. CASE p = 0
  <2>1. ~BadVersion(c) /\ ~BadLength(c) /\ ~Complete(c)
    BY <1>3 DEF BadVersion, BadLength, Complete, HeaderLen
  <2>2. CASE w[1].at = 1
    <3>1. c[1].value = Magic
      BY <1>1, <2>2, IntactByte
    <3>2. Candidate(w, h, p + 1)
      BY <1>3, <2>2 DEF Candidate
    <3> QED
      BY <2>1, <3>1, <3>2 DEF Failed
  <2>3. CASE w[1].at # 1
    <3>1. w[1].frame = h
      BY <1>1, <2>3, FirstByte
    <3>2. c[1].value # Magic
      BY <1>1, <2>3, <3>1, IntactByte
    <3>3. Spoiled(w, h, p + 1)
      BY <1>3, <2>3, <3>1 DEF Spoiled
    <3> QED
      BY <3>2, <3>3 DEF Failed
  <2> QED
    BY <2>2, <2>3
<1>4. CASE p > 0
  <2>1. w[1].at = 1 /\ c[1].value = Magic
    BY <1>1, <1>4, FirstByte, IntactByte
  <2>2. \A i \in 1..p : (w[i].frame = n /\ w[i].at = i) \/ (i = 2 /\ n = h /\ w[2].frame = 0)
    BY DEF Lined, OneHurt, Candidate
  <2>3. p < Size(payloads, n)
    <3>1. CASE p < 3
      BY <1>1, <1>2, <3>1
    <3>2. CASE p >= 3
      <4>1. 3 \in 1..p /\ 3 \in 1..Len(w)
        BY <1>1, <3>2
      <4>2. w[3].frame = n /\ w[3].at = 3
        BY <2>2, <4>1
      <4>3. w[3].value = L
        BY <1>1, <4>1, <4>2, IntactByte
      <4>4. FrameLen(L) = L + 4
        BY <1>2 DEF FrameLen, HeaderLen
      <4> QED
        BY <1>2, <3>2, <4>3, <4>4
    <3> QED
      BY <1>1, <3>1, <3>2
  <2>4. CASE w[p + 1].frame = n /\ w[p + 1].at = p + 1
    <3>1. Candidate(w, h, p + 1)
      <4>1. \A i \in 1..(p + 1) : i \in 1..p \/ i = p + 1
        BY <1>1
      <4> QED
        BY <2>1, <2>2, <2>4, <4>1 DEF Candidate
    <3>2. CASE p = 1
      <4>1. c[2] = w[2] /\ w[2].frame = n /\ w[2].at = 2 /\ 2 \in 1..Len(w)
        BY <1>1, <2>4, <3>2
      <4>2. c[2].value = Version
        BY <1>1, <4>1, IntactByte
      <4>3. ~BadVersion(c) /\ ~BadLength(c) /\ ~Complete(c)
        BY <3>2, <4>2 DEF BadVersion, BadLength, Complete, HeaderLen
      <4> QED
        BY <2>1, <3>1, <4>3 DEF Failed
    <3>3. CASE p > 1
      <4>1. p + 1 >= 3 /\ 3 \in 1..(p + 1) /\ 3 \in 1..Len(w)
        BY <1>1, <3>3
      <4>2. w[3].frame = n /\ w[3].at = 3
        BY <1>1, <3>1, <4>1 DEF Candidate
      <4>3. c[3].value = L
        BY <1>1, <4>1, <4>2, IntactByte
      <4>4. ~BadVersion(c) /\ ~BadLength(c)
        BY <1>1, <1>2, <4>1, <4>3 DEF BadVersion, BadLength, HeaderLen
      <4>5. Complete(c) <=> p + 1 = Size(payloads, n)
        <5>1. FrameLen(L) = L + 4
          BY <1>2 DEF FrameLen, HeaderLen
        <5> QED
          BY <1>2, <4>1, <4>3, <5>1 DEF Complete, HeaderLen
      <4>6. CASE ~Complete(c)
        BY <2>1, <3>1, <4>4, <4>6 DEF Failed
      <4>7. CASE Complete(c)
        <5>1. CrcRight(c) \/ (~CrcRight(c) /\ Spoiled(w, h, p + 1))
          BY <1>1, <2>1, <2>4, <3>1, <4>1, <4>5, <4>7, WholeCandidate
        <5> QED
          BY <2>1, <4>4, <4>7, <5>1 DEF Failed
      <4> QED
        BY <4>6, <4>7
    <3> QED
      BY <1>1, <1>4, <3>2, <3>3
  <2>5. CASE p = 1 /\ n = h /\ w[2].frame = 0
    <3>1. Candidate(w, h, p + 1)
      <4>1. \A i \in 1..2 : i = 1 \/ i = 2
        OBVIOUS
      <4> QED
        BY <2>1, <2>5, <4>1 DEF Candidate
    <3>2. ~BadLength(c) /\ ~Complete(c)
      BY <2>5 DEF BadLength, Complete, HeaderLen
    <3>3. CASE BadVersion(c)
      <4>1. \A i \in 1..2 : i = 1 \/ i = 2
        OBVIOUS
      <4>2. Spoiled(w, h, 2)
        BY <1>1, <2>5, <4>1 DEF Spoiled
      <4> QED
        BY <2>5, <3>3, <4>2 DEF Failed
    <3>4. CASE ~BadVersion(c)
      BY <2>1, <3>1, <3>2, <3>4 DEF Failed
    <3> QED
      BY <3>3, <3>4
  <2>6. CASE p = 1 /\ n = h /\ w[2].frame = h /\ w[2].at = 3
    <3>1. c[2] = w[2] /\ 2 \in 1..Len(w)
      BY <1>1, <2>6
    <3>2. c[2].value = L
      BY <1>1, <2>6, <3>1, IntactByte
    <3>3. BadVersion(c)
      BY <1>2, <2>6, <3>2 DEF BadVersion, Version
    <3>4. \A i \in 1..2 : i = 1 \/ i = 2
      OBVIOUS
    <3>5. Spoiled(w, h, 2)
      BY <1>1, <2>6, <3>4 DEF Spoiled
    <3> QED
      BY <2>6, <3>3, <3>5 DEF Failed
  <2> QED
    BY <1>1, <1>4, <2>3, <2>4, <2>5, <2>6, NextByte
<1> QED
  BY <1>1, <1>3, <1>4

\* Noise takes the version of a frame.
LEMMA VersionTouched ==
    ASSUME NEW e, NEW w, NEW p, NEW payloads, Lined(e, w, 0, p, payloads),
           NEW k \in 1..Len(w), k > p, w[k].frame # 0, w[k].at = 2,
           NEW v \in Seq(Byte), NEW x, Removed(v, w, k) \/ (Changed(v, w, k, x) /\ x.frame = 0)
    PROVE  OneHurt(e, v, w[k].frame, p, payloads)
<1> DEFINE n == w[k].frame
<1>1. /\ w \in Seq(Byte) /\ Len(w) \in Nat /\ Len(v) \in Nat /\ k \in Nat /\ p \in Nat
      /\ n \in 1..FrameCount /\ n \in Nat
  <2>1. w \in Seq(Byte) /\ p \in 0..Len(w)
    BY DEF Lined, LineTypes
  <2> QED
    BY <2>1, IntactByte
<1>2. \A i \in 1..Len(w) : w[i].frame # 0
  BY DEF Lined, OneHurt, Touched
<1>3. ASSUME NEW j \in 1..Len(w), j # k PROVE \E i \in 1..Len(v) : v[i] = w[j]
  <2>1. CASE Changed(v, w, k, x)
    BY <1>3, <2>1 DEF Changed
  <2>2. CASE Removed(v, w, k) /\ j < k
    <3>1. j \in 1..Len(v) /\ v[j] = w[j]
      BY <1>1, <2>2 DEF Removed
    <3> QED
      BY <3>1
  <2>3. CASE Removed(v, w, k) /\ j > k
    <3>1. j - 1 \in 1..Len(v) /\ ~(j - 1 < k) /\ (j - 1) + 1 = j
      BY <1>1, <2>3 DEF Removed
    <3>2. v[j - 1] = w[j]
      BY <2>3, <3>1 DEF Removed
    <3> QED
      BY <3>1, <3>2
  <2> QED
    BY <1>1, <1>3, <2>1, <2>2, <2>3
<1>4. ASSUME NEW j \in 1..Len(v), v[j].frame # 0 PROVE \E i \in 1..Len(w) : i # k /\ w[i] = v[j]
  <2>1. CASE Changed(v, w, k, x) /\ x.frame = 0
    BY <1>4, <2>1 DEF Changed
  <2>2. CASE Removed(v, w, k) /\ j < k
    BY <1>1, <2>2 DEF Removed
  <2>3. CASE Removed(v, w, k) /\ ~(j < k)
    <3>1. j + 1 \in 1..Len(w) /\ j + 1 # k /\ v[j] = w[j + 1]
      BY <1>1, <2>3 DEF Removed
    <3> QED
      BY <3>1
  <2> QED
    BY <1>1, <2>1, <2>2, <2>3
<1>5. ASSUME NEW m, NEW q, OnWay(w, m, q), m # n \/ q # 2 PROVE OnWay(v, m, q)
  <2>1. PICK j \in 1..Len(w) : w[j].frame = m /\ w[j].at = q
    BY <1>5 DEF OnWay
  <2>2. j # k
    BY <1>5, <2>1
  <2> QED
    BY <1>3, <2>1, <2>2 DEF OnWay
<1>6. ASSUME NEW m, m # 0, NEW q, OnWay(v, m, q) PROVE OnWay(w, m, q) /\ (m # n \/ q # 2)
  <2>1. PICK j \in 1..Len(v) : v[j].frame = m /\ v[j].at = q
    BY <1>6 DEF OnWay
  <2>2. PICK i \in 1..Len(w) : i # k /\ w[i] = v[j]
    BY <1>4, <1>6, <2>1
  <2>3. OnWay(w, m, q)
    BY <2>1, <2>2 DEF OnWay
  <2>4. w[i].frame # n \/ w[i].at # 2
    BY <1>2, <2>2, BytesInOrder
  <2> QED
    BY <2>1, <2>2, <2>3, <2>4
<1>7. Reached(e, v, n)
  <2> SUFFICES ASSUME NEW m \in 1..FrameCount, m # n PROVE Known(e, m) \/ OnWay(v, m, 1)
    BY DEF Reached
  <2>1. m # 0
    BY <1>1
  <2>2. Known(e, m) \/ OnWay(w, m, 1)
    BY <2>1 DEF Lined, OneHurt, Reached
  <2> QED
    BY <1>5, <2>2
<1>8. Followed(v, n, payloads)
  <2> SUFFICES ASSUME NEW m \in 1..FrameCount, OnWay(v, m, 1), NEW q \in 1..Size(payloads, m),
                      ~(m = n /\ q = 2)
               PROVE  OnWay(v, m, q)
    BY DEF Followed
  <2>1. m # 0 /\ OnWay(w, m, 1)
    BY <1>6
  <2>2. OnWay(w, m, q)
    BY <2>1 DEF Lined, OneHurt, Followed
  <2> QED
    BY <1>5, <2>2
<1>9. ASSUME NEW i \in 1..Len(w) PROVE OnWay(w, w[i].frame, 1)
  BY <1>2 DEF Lined, OneHurt, Begun
<1>10. Begun(v, n, p)
  <2> SUFFICES ASSUME NEW j \in 1..Len(v), v[j].frame # 0 PROVE OnWay(v, v[j].frame, 1)
    BY DEF Begun
  <2>1. PICK i \in 1..Len(w) : w[i] = v[j]
    BY <1>4
  <2> QED
    BY <1>5, <1>9, <2>1
<1>11. k > 1 /\ k - 1 \in 1..Len(w) /\ w[k - 1].frame = n /\ w[k - 1].at = 1
  <2>1. PICK j \in 1..Len(w) : w[j].frame = n /\ w[j].at = 1
    BY <1>9 DEF OnWay
  <2>2. j < k
    <3>1. Earlier(w[j], w[k])
      BY <2>1 DEF Earlier
    <3> QED
      BY <1>2, <3>1, BytesInOrder
  <2>3. k > 1 /\ k - 1 \in 1..Len(w) /\ k - 1 < k /\ (j = k - 1 \/ j < k - 1)
    BY <1>1, <2>2
  <2>4. CASE j = k - 1
    BY <2>1, <2>3, <2>4
  <2>5. CASE j < k - 1
    <3>1. Earlier(w[j], w[k - 1]) /\ Earlier(w[k - 1], w[k])
      BY <1>2, <2>3, <2>5, BytesInOrder
    <3>2. w[k - 1].frame \in Nat /\ w[k - 1].at \in Nat
      BY <1>2, <2>3, IntactByte, Zenon
    <3>3. w[j].frame = n /\ w[k].frame = n /\ w[j].at = 1 /\ w[k].at = 2
      BY <2>1
    <3>4. /\ n < w[k - 1].frame \/ (n = w[k - 1].frame /\ 1 < w[k - 1].at)
          /\ w[k - 1].frame < n \/ (w[k - 1].frame = n /\ w[k - 1].at < 2)
      BY <3>1, <3>3, Zenon DEF Earlier
    <3> QED
      BY <1>1, <3>2, <3>4
  <2> QED
    BY <2>3, <2>4, <2>5
<1>12. Touched(v, n)
  <2> SUFFICES ASSUME NEW i \in 1..Len(v), v[i].frame = 0
               PROVE  i > 1 /\ v[i - 1].frame = n /\ v[i - 1].frame # 0 /\ v[i - 1].at = 1
    BY DEF Touched
  <2>1. CASE Removed(v, w, k)
    <3>1. \E j \in 1..Len(w) : v[i] = w[j]
      BY <1>1, <2>1 DEF Removed
    <3> QED
      BY <1>2, <3>1
  <2>2. CASE Changed(v, w, k, x)
    <3>1. i = k
      BY <1>2, <2>2 DEF Changed
    <3>2. v[i - 1] = w[k - 1]
      BY <1>1, <1>11, <2>2, <3>1 DEF Changed
    <3> QED
      BY <1>2, <1>11, <3>1, <3>2
  <2> QED
    BY <2>1, <2>2
<1>13. Candidate(v, n, p)
  <2> SUFFICES ASSUME NEW i \in 1..p PROVE v[i].frame = v[1].frame /\ v[i].at = i
    BY DEF Candidate
  <2>1. i < k /\ 1 < k /\ i \in 1..Len(w) /\ i \in 1..Len(v) /\ 1 \in 1..Len(v)
    BY <1>1, <1>11 DEF Removed, Changed
  <2>2. v[i] = w[i] /\ v[1] = w[1]
    BY <1>1, <2>1 DEF Removed, Changed
  <2>3. w[i].frame = w[1].frame /\ w[i].at = i
    BY <1>2, <2>1 DEF Lined, OneHurt, Candidate
  <2> QED
    BY <2>2, <2>3
<1>14. ~OnWay(v, n, 2)
  BY <1>1, <1>6
<1> QED
  BY <1>7, <1>8, <1>10, <1>12, <1>13, <1>14 DEF OneHurt

-----------------------------------------------------------------------------
(* Every step keeps that. *)

LEMMA PlainScript ==
    ASSUME ReceiveTypes, Light
    PROVE  Plain(script, Hurt)
<1>1. \A n \in 1..FrameCount : script[n] \in Seq(Nat) /\ Crc(script[n]) \in Nat
  BY ScriptPayloads
<1>2. \A n \in 1..FrameCount : Len(script[n]) =< MaxPayload
  BY ScriptAssumption DEF ReceiveTypes
<1>3. ASSUME NEW n \in 1..FrameCount, n = Hurt PROVE LooksPlain(script[n])
  <2>1. n # 0
    BY LineAssumption
  <2>2. damage # <<>> /\ n = damage[1].frame
    BY <1>3, <2>1 DEF Hurt
  <2> QED
    BY <2>2 DEF Light
<1> QED
  BY <1>1, <1>2, <1>3 DEF Plain

\* The candidate is the first part of the way.
LEMMA ParserOnWay ==
    ASSUME ReceiveTypes
    PROVE  /\ Way \in Seq(Byte) /\ Len(parser) \in 0..Len(Way)
           /\ Len(Way) = Len(parser) + Len(Received) + Len(wire)
           /\ \A i \in 1..Len(parser) : Way[i] = parser[i]
<1>1. /\ parser \in Seq(Byte) /\ Received \in Seq(Byte) /\ wire \in Seq(Byte)
      /\ Len(parser) \in Nat /\ Len(Received) \in Nat /\ Len(wire) \in Nat
  BY DEF ReceiveTypes
<1>2. Way \in Seq(Byte) /\ Joins(Way, parser, Received, wire)
  BY <1>1, ThroughJoins DEF Way
<1> QED
  BY <1>1, <1>2 DEF Joins

LEMMA LinedNow ==
    ASSUME LineInv, DamageInv, Light
    PROVE  Lined(Told, Way, Hurt, Len(parser), script)
<1>1. ReceiveTypes /\ InLine(Told, Way, script)
  BY DEF LineInv
<1>2. LineTypes(Told, Way) /\ Len(parser) \in 0..Len(Way)
  BY <1>1, LineSequences, ParserOnWay
<1>3. Plain(script, Hurt)
  BY <1>1, PlainScript
<1> QED
  BY <1>1, <1>2, <1>3 DEF Lined, DamageInv

\* A step that leaves the way, the candidate and the damage alone.
LEMMA SameWay ==
    ASSUME DamageInv, Way' = Way, Told' = Told, UNCHANGED <<damage, script, parser>>,
           rxOverflow' = rxOverflow, cmdOverflow' = cmdOverflow,
           \A i \in 1..Len(wire') : wire'[i].frame # 0
    PROVE  DamageInv'
<1>1. Light' <=> Light
  BY DEF Light, VersionDamaged
<1>2. Hurt' = Hurt
  BY DEF Hurt
<1> QED
  BY <1>1, <1>2 DEF DamageInv

\* A step in which a ring overflows.
LEMMA Overflow ==
    ASSUME DamageInv,
           \/ rxOverflow' = rxOverflow + 1 /\ cmdOverflow' = cmdOverflow
           \/ rxOverflow' = rxOverflow /\ cmdOverflow' = cmdOverflow + 1,
           \A i \in 1..Len(wire') : wire'[i].frame # 0
    PROVE  DamageInv'
<1>1. rxOverflow' \in Nat /\ cmdOverflow' \in Nat /\ rxOverflow' + cmdOverflow' # 0
  BY DEF DamageInv
<1> QED
  BY <1>1 DEF DamageInv, Light

LEMMA PutOrOverflow ==
    ASSUME RxInv, ReceiveTypes, NEW new \in Byte, NEW error \in BOOLEAN, Push(new, error), UNCHANGED byte
    PROVE  \/ Received' = Append(Received, new) /\ rxOverflow' = rxOverflow
           \/ rxOverflow' = rxOverflow + 1
<1>1. CASE RxFifo!Put
  <2>1. rxOverflow' = rxOverflow /\ Len(Received') = Len(Received) + 1
    BY <1>1 DEF RxFifo!Put
  <2>2. Received' # Received
    <3>1. Len(Received) \in Nat
      BY DEF ReceiveTypes
    <3> QED
      BY <2>1, <3>1
  <2> QED
    BY <2>1, <2>2, ByteIsPut
<1>2. CASE RxFifo!Refuse
  BY <1>2 DEF RxFifo!Refuse
<1> QED
  BY <1>1, <1>2, PushKeepsRing

\* What the interrupt leaves of the wire.
LEMMA WireShortens ==
    ASSUME ReceiveTypes, DamageInv, Interrupt
    PROVE  /\ wire # <<>> /\ wire' = Tail(wire) /\ Head(wire) \in Byte /\ Head(wire).frame # 0
           /\ UNCHANGED <<script, parser, byte, cmdOverflow>>
           /\ \A i \in 1..Len(wire') : wire'[i].frame # 0
<1>1. wire \in Seq(Byte) /\ wire # <<>> /\ wire' = Tail(wire) /\ \A i \in 1..Len(wire) : wire[i].frame # 0
  BY DEF ReceiveTypes, DamageInv, Interrupt
<1>2. /\ Len(wire) > 0 /\ Len(wire) \in Nat /\ Head(wire) = wire[1] /\ Head(wire) \in Byte
      /\ Len(wire') = Len(wire) - 1 /\ \A i \in 1..Len(wire') : wire'[i] = wire[i + 1]
  BY <1>1, HeadTailProperties
<1>3. 1 \in 1..Len(wire) /\ \A i \in 1..Len(wire') : i + 1 \in 1..Len(wire)
  BY <1>2
<1> QED
  BY <1>1, <1>2, <1>3 DEF Interrupt, commandRing

LEMMA ByteArrivesUnhurt ==
    ASSUME RingsInv, LineInv, DamageInv, ByteArrives
    PROVE  DamageInv'
<1>1. /\ ReceiveTypes /\ RxInv /\ Interrupt /\ Push(Head(wire), FALSE) /\ damage' = damage
      /\ parser \in Seq(Byte) /\ Received \in Seq(Byte) /\ wire \in Seq(Byte)
  BY DEF ByteArrives, LineInv, ReceiveTypes, RingsInv
<1>2. /\ wire # <<>> /\ wire' = Tail(wire) /\ Head(wire) \in Byte /\ Head(wire).frame # 0
      /\ UNCHANGED <<script, parser, byte, cmdOverflow>>
      /\ \A i \in 1..Len(wire') : wire'[i].frame # 0
  BY <1>1, WireShortens
<1>3. CASE Received' = Append(Received, Head(wire)) /\ rxOverflow' = rxOverflow
  <2>1. Way' = Way
    BY <1>1, <1>2, <1>3, ThroughArrived DEF Way
  <2>2. Told' = Told
    <3>1. ToDispatch' = ToDispatch /\ delivered' = delivered
      BY <1>1, SameCommands DEF Interrupt, RingsInv
    <3> QED
      BY <3>1 DEF Told
  <2> QED
    BY <1>1, <1>2, <1>3, <2>1, <2>2, SameWay
<1>4. CASE rxOverflow' = rxOverflow + 1
  BY <1>2, <1>4, Overflow
<1> QED
  BY <1>1, <1>2, <1>3, <1>4, PutOrOverflow

LEMMA FirstAppended ==
    ASSUME NEW d \in Seq(Byte), NEW x \in Byte
    PROVE  /\ Append(d, x) # <<>>
           /\ Len(Append(d, x)) = 1 => d = <<>> /\ Append(d, x)[1] = x
<1>1. Len(Append(d, x)) = Len(d) + 1 /\ Len(d) \in Nat /\ Append(d, x)[Len(d) + 1] = x
  BY AppendProperties
<1>2. Len(d) + 1 # 0 /\ (Len(d) + 1 = 1 => Len(d) = 0)
  BY <1>1
<1>3. Len(Append(d, x)) # 0 /\ (Len(Append(d, x)) = 1 => Len(d) = 0)
  BY <1>1, <1>2
<1>4. Len(<<>>) = 0 /\ (Len(d) = 0 => d = <<>>)
  OBVIOUS
<1>5. Append(d, x) # <<>>
  BY <1>3, <1>4
<1>6. ASSUME Len(d) = 0 PROVE Append(d, x)[1] = x
  <2>1. Len(d) + 1 = 1
    BY <1>6
  <2> QED
    BY <1>1, <2>1
<1> QED
  BY <1>3, <1>4, <1>5, <1>6

LEMMA NoiseUnhurt ==
    ASSUME RingsInv, LineInv, DamageInv, ByteDamaged \/ ByteLost
    PROVE  DamageInv'
<1> DEFINE b == Head(wire)
           k == Len(parser) + Len(Received) + 1
<1>1. /\ ReceiveTypes /\ RxInv /\ Interrupt /\ damage' = Append(damage, b) /\ damage \in Seq(Byte)
      /\ parser \in Seq(Byte) /\ Received \in Seq(Byte) /\ wire \in Seq(Byte)
  BY DEF ByteDamaged, ByteLost, LineInv, ReceiveTypes, RingsInv
<1>2. /\ wire # <<>> /\ wire' = Tail(wire) /\ b \in Byte /\ b.frame # 0
      /\ UNCHANGED <<script, parser, byte, cmdOverflow>>
      /\ \A i \in 1..Len(wire') : wire'[i].frame # 0
  BY <1>1, WireShortens
<1>3. Told' = Told
  <2>1. ToDispatch' = ToDispatch /\ delivered' = delivered
    BY <1>1, SameCommands DEF Interrupt, RingsInv
  <2> QED
    BY <2>1 DEF Told
<1>4. Way[k] = b /\ Removed(Through(parser, Received, Tail(wire)), Way, k) /\ k > Len(parser)
  <2>1. Len(parser) \in Nat /\ Len(Received) \in Nat
    BY <1>1
  <2> QED
    BY <1>1, <1>2, <2>1, ThroughLost DEF Way
<1>5. \/ rxOverflow' = rxOverflow + 1
      \/ rxOverflow' = rxOverflow /\ Removed(Way', Way, k)
      \/ rxOverflow' = rxOverflow /\ \E x \in Byte : x.frame = 0 /\ Changed(Way', Way, k, x)
  <2>1. CASE ByteLost
    <3>1. Received' = Received /\ rxOverflow' = rxOverflow
      BY <2>1 DEF ByteLost, rx, Received, InRing
    <3> QED
      BY <1>2, <1>4, <3>1 DEF Way
  <2>2. CASE ByteDamaged
    <3>1. PICK value \in Values, error \in BOOLEAN : Push(Damaged(value), error)
      BY <2>2 DEF ByteDamaged
    <3>2. Damaged(value) \in Byte /\ Damaged(value).frame = 0
      BY NoiseIsByte
    <3>3. \/ Received' = Append(Received, Damaged(value)) /\ rxOverflow' = rxOverflow
          \/ rxOverflow' = rxOverflow + 1
      BY <1>1, <1>2, <3>1, <3>2, PutOrOverflow
    <3>4. CASE Received' = Append(Received, Damaged(value)) /\ rxOverflow' = rxOverflow
      <4>1. Changed(Way', Way, k, Damaged(value))
        BY <1>1, <1>2, <3>2, <3>4, ThroughChanged DEF Way
      <4> QED
        BY <3>2, <3>4, <4>1
    <3> QED
      BY <3>3, <3>4
  <2> QED
    BY <2>1, <2>2
<1>6. Way' \in Seq(Byte)
  <2>1. LineInv'
    BY NoiseInLine
  <2>2. (ReceiveTypes => LineTypes(Told, Way))'
    BY LineSequencesNext, PTL
  <2> QED
    BY <2>1, <2>2 DEF LineInv, LineTypes
<1> HIDE DEF b, k
<1>7. CASE rxOverflow' = rxOverflow + 1
  BY <1>2, <1>7, Overflow
<1>8. ASSUME NEW x, Removed(Way', Way, k) \/ (Changed(Way', Way, k, x) /\ x.frame = 0),
             rxOverflow' = rxOverflow
      PROVE  DamageInv'
  <2> SUFFICES ASSUME Light' PROVE OneHurt(Told', Way', Hurt', Len(parser)', script')
    BY <1>2, <1>8 DEF DamageInv
  <2>1. damage = <<>> /\ b.at = 2 /\ Hurt' = b.frame
    <3>1. damage' # <<>> /\ (Len(damage') = 1 => damage = <<>> /\ damage'[1] = b)
      BY <1>1, <1>2, FirstAppended, Zenon
    <3>2. damage' # <<>>
      BY <3>1
    <3>3. Len(damage') = 1 /\ damage'[1].at = 2
      BY <3>2 DEF Light, VersionDamaged
    <3>4. damage = <<>> /\ damage'[1] = b
      BY <3>1, <3>3, Zenon
    <3>5. Hurt' = damage'[1].frame
      BY <3>2 DEF Hurt
    <3> QED
      BY <3>3, <3>4, <3>5
  <2>2. Light /\ Hurt = 0
    BY <1>2, <1>8, <2>1 DEF Light, Hurt
  <2>3. Lined(Told, Way, 0, Len(parser), script)
    BY <2>2, LinedNow
  <2>4. k \in 1..Len(Way) /\ Way[k].frame # 0 /\ Way[k].at = 2
    BY <1>2, <1>4, <2>1 DEF Removed
  <2>5. OneHurt(Told, Way', Way[k].frame, Len(parser), script)
    BY <1>4, <1>6, <1>8, <2>3, <2>4, VersionTouched
  <2> QED
    BY <1>2, <1>3, <1>4, <2>1, <2>5
<1> QED
  BY <1>5, <1>7, <1>8

LEMMA NoneInSum == \A a, b \in Nat : a + b = 0 => a = 0 /\ b = 0
  OBVIOUS

LEMMA ParseUnhurt ==
    ASSUME RingsInv, LineInv, DamageInv, AdvanceAndParse
    PROVE  DamageInv'
<1> DEFINE c == Append(parser, byte)
           m == Len(parser) + 1
<1>1. /\ byte \in Byte /\ Received' = Tail(Received) /\ Received # <<>> /\ byte = Head(Received)
      /\ UNCHANGED <<wire, script, damage, delivered>>
  BY Parsed
<1>2. /\ ReceiveTypes /\ parser \in Seq(Byte) /\ Received \in Seq(Byte) /\ wire \in Seq(Byte)
      /\ Len(parser) \in Nat /\ Len(Received) \in Nat /\ Len(wire) \in Nat
  BY DEF LineInv, ReceiveTypes
<1>3. /\ c \in Seq(Byte) /\ c # <<>> /\ Len(c) = m /\ m \in Nat /\ m > 0
      /\ Tail(Received) \in Seq(Byte)
  BY <1>1, <1>2, AppendProperties, HeadTailProperties
<1>4. Way = Through(c, Tail(Received), wire)
  BY <1>1, <1>2, ThroughMoved DEF Way
<1>5. Parse(c) /\ rxOverflow' = rxOverflow /\ \A i \in 1..Len(wire') : wire'[i].frame # 0
  BY <1>1 DEF AdvanceAndParse, DamageInv
<1> HIDE DEF c
<1>6. /\ Way \in Seq(Byte) /\ Len(parser) < Len(Way) /\ m \in 1..Len(Way)
      /\ \A i \in 1..Len(parser) : Way[i] = parser[i]
  <2>1. Len(Received) > 0
    BY <1>1, <1>2
  <2> QED
    BY <1>2, <2>1, ParserOnWay
<1>7. \A i \in 1..m : Way[i] = c[i]
  <2>1. \A i \in 1..Len(c) : Through(c, Tail(Received), wire)[i] = c[i]
    BY <1>2, <1>3, ThroughDropped
  <2>2. 1..Len(c) = 1..m
    BY <1>3
  <2> QED
    BY <1>4, <2>1, <2>2
<1>8. ASSUME parser' = <<>> PROVE Way' \in Seq(Byte) /\ Dropped(Way', Way, m) /\ Len(parser') = 0
  <2>1. Way' = Through(<<>>, Tail(Received), wire)
    BY <1>1, <1>8 DEF Way
  <2>2. <<>> \in Seq(Byte) /\ Len(<<>>) = 0
    OBVIOUS
  <2>3. Way' \in Seq(Byte)
    BY <1>2, <1>3, <2>1, <2>2, ThroughJoins
  <2>4. Dropped(Way', Way, Len(c))
    BY <1>2, <1>3, <1>4, <2>1, ThroughDropped
  <2> QED
    BY <1>3, <1>8, <2>2, <2>3, <2>4
<1>9. CASE ~Light
  \* What spoils the premise does not go away.
  <2>1. cmdOverflow' = cmdOverflow \/ cmdOverflow' = cmdOverflow + 1
    BY <1>5 DEF Parse, Discard, Enqueue, commandRing
  <2>2. cmdOverflow' \in Nat /\ (cmdOverflow' = 0 => cmdOverflow = 0)
    BY <2>1 DEF DamageInv
  <2>3. /\ rxOverflow \in Nat /\ cmdOverflow \in Nat
        /\ rxOverflow' = rxOverflow /\ script' = script /\ damage' = damage
    BY <1>1, <1>5 DEF DamageInv
  <2>4. ~Light'
    <3>1. (damage' = <<>> \/ (VersionDamaged /\ LooksPlain(script[damage[1].frame]))')
          => damage = <<>> \/ (VersionDamaged /\ LooksPlain(script[damage[1].frame]))
      BY <2>3 DEF VersionDamaged
    <3>2. ASSUME rxOverflow' + cmdOverflow' = 0 PROVE rxOverflow + cmdOverflow = 0
      <4>1. rxOverflow' \in Nat /\ cmdOverflow' \in Nat
        BY <2>2, <2>3
      <4>2. rxOverflow' = 0 /\ cmdOverflow' = 0
        BY <3>2, <4>1, NoneInSum, Zenon
      <4>3. rxOverflow = 0 /\ cmdOverflow = 0
        BY <2>2, <2>3, <4>2
      <4> QED
        BY <4>3
    <3>3. ASSUME Light' PROVE Light
      <4>1. /\ rxOverflow' + cmdOverflow' = 0
            /\ damage' = <<>> \/ (VersionDamaged /\ LooksPlain(script[damage[1].frame]))'
        BY <3>3 DEF Light
      <4>2. rxOverflow + cmdOverflow = 0
        BY <3>2, <4>1
      <4> QED
        BY <3>1, <4>1, <4>2 DEF Light
    <3> QED
      BY <1>9, <3>3
  <2> QED
    BY <1>5, <2>2, <2>3, <2>4 DEF DamageInv
<1>10. CASE Light
  <2>1. Lined(Told, Way, Hurt, Len(parser), script)
    BY <1>10, LinedNow
  <2>2. Hurt' = Hurt
    BY <1>1 DEF Hurt
  <2>3. Len(parser) >= 3 => Len(parser) < FrameLen(Way[3].value)
    <3>1. Len(parser) >= 3 => 3 \in 1..Len(parser)
      BY <1>2
    <3> QED
      BY <1>2, <1>6, <3>1 DEF ReceiveTypes, HeaderLen
  <2>4. CASE ~Failed(c) /\ ~Complete(c) /\ Candidate(Way, Hurt, m)
    <3>1. parser' = c /\ UNCHANGED commandRing
      BY <1>5, <2>4 DEF Parse, Failed
    <3>2. Way' = Way
      BY <1>1, <1>4, <3>1 DEF Way
    <3>3. ToDispatch' = ToDispatch /\ cmdOverflow' = cmdOverflow
      BY <3>1, SameCommands DEF RingsInv
    <3>4. Told' = Told
      BY <1>1, <3>3 DEF Told
    <3>5. Begun(Way, Hurt, m)
      <4>1. 1 \in 1..m
        BY <1>3
      <4>2. Way[1].at = 1
        BY <2>4, <4>1 DEF Candidate
      <4>3. OnWay(Way, Way[1].frame, 1)
        <5>1. 1 \in 1..Len(Way)
          BY <1>6
        <5> QED
          BY <4>2, <5>1 DEF OnWay
      <4> QED
        BY <2>1, <4>3 DEF Begun, OneHurt, Lined
    <3>6. OneHurt(Told, Way, Hurt, m, script)
      BY <2>1, <2>4, <3>5 DEF OneHurt, Lined
    <3> QED
      BY <1>1, <1>3, <1>5, <2>2, <3>1, <3>2, <3>3, <3>4, <3>6 DEF DamageInv
  <2>5. CASE ~Failed(c) /\ Complete(c) /\ CrcRight(c)
    <3> DEFINE n == c[1].frame
    <3>1. Enqueue(n)
      BY <1>5, <2>5 DEF Parse, Failed
    <3>2. CASE cmdOverflow' = cmdOverflow + 1
      BY <1>5, <3>2, Overflow
    <3>3. CASE cmdOverflow' = cmdOverflow /\ Extends(ToDispatch', ToDispatch, Queued, n)
      <4>1. parser' = <<>>
        BY <3>1 DEF Enqueue
      <4>2. /\ n \in 1..FrameCount
            /\ \A j \in (m + 1)..Len(Way) : Way[j].frame # 0 => n < Way[j].frame
        <5>1. LineTypes(Told, Way) /\ InLine(Told, Way, script) /\ m =< Len(Way)
          BY <1>6, <2>1 DEF Lined
        <5> QED
          BY <1>3, <1>7, <2>5, <5>1, RightCandidate
      <4>3. \A i \in 1..m : Way[i].frame = n /\ Way[i].at = i
        <5>1. DOMAIN c = 1..m
          BY <1>3
        <5> QED
          BY <1>7, <2>5, <5>1 DEF CrcRight
      <4>4. m > 1
        BY <1>3, <2>5 DEF Complete, HeaderLen
      <4>5. Told' = Append(Told, n)
        BY <1>1, <1>2, <3>3, <4>2, CommandTold
      <4> HIDE DEF n
      <4>6. OneHurt(Append(Told, n), Way', Hurt, 0, script)
        BY <1>3, <1>8, <2>1, <4>1, <4>2, <4>3, <4>4, FrameDropped
      <4> QED
        BY <1>1, <1>5, <1>8, <2>2, <3>3, <4>1, <4>5, <4>6 DEF DamageInv
    <3> QED
      BY <3>1, <3>2, <3>3, EnqueueKeepsRing DEF RingsInv, CommandFifo!Put, CommandFifo!Refuse
  <2>6. CASE (Failed(c) \/ (Complete(c) /\ ~CrcRight(c))) /\ Spoiled(Way, Hurt, m)
    <3>1. parser' = <<>> /\ UNCHANGED commandRing
      BY <1>5, <2>6 DEF Parse, Failed, Discard
    <3>2. ToDispatch' = ToDispatch /\ cmdOverflow' = cmdOverflow
      BY <3>1, SameCommands DEF RingsInv
    <3>3. Told' = Told
      BY <1>1, <3>2 DEF Told
    <3>4. OneHurt(Told, Way', Hurt, 0, script)
      BY <1>3, <1>8, <2>1, <2>6, <3>1, HurtDropped DEF Spoiled
    <3> QED
      BY <1>1, <1>5, <1>8, <2>2, <3>1, <3>2, <3>3, <3>4 DEF DamageInv
  <2> QED
    BY <1>3, <1>6, <1>7, <2>1, <2>3, <2>4, <2>5, <2>6, Verdict
<1> QED
  BY <1>9, <1>10

LEMMA QuietUnhurt ==
    ASSUME RingsInv, LineInv, DamageInv,
           \/ PollDone \/ TakeFault \/ DispatchDone \/ ReadByte \/ UNCHANGED receiveVars
    PROVE  DamageInv'
<1>1. UNCHANGED <<sender, rx, parser, commandRing, delivered>>
  BY DEF PollDone, TakeFault, DispatchDone, ReadByte, receiveVars, latch
<1>2. UNCHANGED <<wire, script, damage, rxOverflow, cmdOverflow, parser>>
  BY <1>1 DEF sender, rx, commandRing
<1>3. Received' = Received /\ ToDispatch' = ToDispatch
  BY <1>1 DEF rx, commandRing, Received, InRing, ToDispatch, Queued
<1>4. Way' = Way /\ Told' = Told
  BY <1>1, <1>2, <1>3 DEF Way, Told
<1>5. \A i \in 1..Len(wire') : wire'[i].frame # 0
  BY <1>2 DEF DamageInv
<1> QED
  BY <1>2, <1>4, <1>5, SameWay

LEMMA PopUnhurt ==
    ASSUME RingsInv, LineInv, DamageInv, PopCommand
    PROVE  DamageInv'
<1>1. UNCHANGED <<sender, rx, parser, cmdOverflow>>
  BY DEF PopCommand
<1>2. UNCHANGED <<wire, script, damage, rxOverflow, cmdOverflow, parser>>
  BY <1>1 DEF sender, rx
<1>3. Received' = Received
  BY <1>1 DEF rx, Received, InRing
<1>4. Way' = Way
  BY <1>2, <1>3 DEF Way
<1>5. \A i \in 1..Len(wire') : wire'[i].frame # 0
  BY <1>2 DEF DamageInv
<1> QED
  BY <1>2, <1>4, <1>5, PopTells, SameWay

LEMMA DamageStep ==
    ASSUME RingsInv, LineInv, DamageInv, [ReceiveNext]_receiveVars
    PROVE  DamageInv'
  BY ByteArrivesUnhurt, NoiseUnhurt, ParseUnhurt, PopUnhurt, QuietUnhurt DEF ReceiveNext

LEMMA DamageInitially ==
    ASSUME ReceiveInit
    PROVE  DamageInv
<1>1. /\ wire = Stream(script) /\ damage = <<>> /\ parser = <<>> /\ delivered = <<>>
      /\ script \in Scripts /\ rxOverflow = 0 /\ cmdOverflow = 0
  BY DEF ReceiveInit
<1>2. Received = <<>> /\ ToDispatch = <<>>
  BY ReceiveInitially DEF RxFifo!Init, CommandFifo!Init
<1>3. Sent(wire, FrameCount, script)
  BY <1>1, StreamSent, LineAssumption
<1>4. Way = wire
  <2>1. wire \in Seq(Byte)
    BY <1>3 DEF Sent
  <2>2. Through(<<>>, <<>>, wire) = wire
    BY <2>1 DEF Through
  <2> QED
    BY <1>1, <1>2, <2>2 DEF Way
<1>5. Hurt = 0 /\ Len(parser) = 0
  BY <1>1 DEF Hurt
<1>6. \A i \in 1..Len(wire) : wire[i].frame # 0 /\ wire[i].frame \in 1..FrameCount
  <2>1. FrameCount \in Nat /\ \A i \in 1..Len(wire) : wire[i].frame \in 1..FrameCount
    BY <1>3, LineAssumption DEF Sent
  <2>2. 0 \notin 1..FrameCount
    BY <2>1
  <2> QED
    BY <2>1, <2>2
<1>7. \A n \in 1..FrameCount : 1 \in 1..Size(script, n)
  <2> TAKE n \in 1..FrameCount
  <2>1. script[n] \in Seq(Nat)
    BY <1>1, LineAssumption
  <2>2. Len(script[n]) \in Nat
    BY <2>1
  <2> QED
    BY <2>2 DEF Size, FrameLen, HeaderLen
<1>8. \A n \in 1..FrameCount : OnWay(wire, n, 1) /\ \A k \in 1..Size(script, n) : OnWay(wire, n, k)
  BY <1>3, <1>7 DEF Sent
<1>9. OneHurt(Told, wire, 0, 0, script)
  BY <1>6, <1>8 DEF OneHurt, Reached, Followed, Begun, Touched, Candidate
<1> QED
  BY <1>1, <1>4, <1>5, <1>6, <1>9 DEF DamageInv

LEMMA OneIsSome == \A s : Len(s) = 1 => s # <<>>
  OBVIOUS

\* Once everything has been received, what is left on the way is the parser's
\* candidate, which is not yet as long as its frame.
LEMMA OneFrameIsLost ==
    ASSUME RingsInv, LineInv, DamageInv
    PROVE  DamageCostsOneFrame
<1> SUFFICES ASSUME Quiescent, rxOverflow + cmdOverflow = 0,
                    VersionDamaged, LooksPlain(script[damage[1].frame]),
                    NEW n \in 1..FrameCount, n # damage[1].frame
             PROVE  \E i \in DOMAIN delivered : delivered[i] = n
  BY DEF DamageCostsOneFrame
<1> DEFINE p == Len(parser)
<1>1. /\ ReceiveTypes /\ parser \in Seq(Byte) /\ delivered \in Seq(1..FrameCount)
      /\ DOMAIN delivered = 1..Len(delivered)
  BY DEF LineInv, ReceiveTypes
<1>2. wire = <<>> /\ Received = <<>> /\ ToDispatch = <<>>
  BY EmptyAtRest DEF Quiescent
<1>3. Way = parser /\ Told = delivered
  BY <1>1, <1>2 DEF Way, Told, Through
<1>4. Light
  BY Zenon DEF Light
<1>5. Lined(delivered, parser, Hurt, p, script)
  BY <1>3, <1>4, LinedNow
<1>6. n # Hurt
  <2>1. damage # <<>>
    BY OneIsSome, Zenon DEF VersionDamaged
  <2> QED
    BY <2>1 DEF Hurt
<1>7. CASE Known(delivered, n)
  BY <1>1, <1>7 DEF Known
<1>8. ASSUME OnWay(parser, n, 1) PROVE FALSE
  <2>1. FrameCount \in Nat /\ MaxPayload \in Nat /\ n # 0
    BY LineAssumption
  <2>2. \A k \in 1..Size(script, n) : OnWay(parser, n, k)
    BY <1>5, <1>6, <1>8 DEF Lined, OneHurt, Followed
  <2>3. PICK j \in 1..p : parser[j].frame = n /\ parser[j].at = 1
    BY <1>8 DEF OnWay
  <2>4. /\ Size(script, n) = Len(script[n]) + 4 /\ Len(script[n]) \in 0..MaxPayload
    BY <1>5, <2>1, <2>3, IntactByte
  <2>5. ASSUME NEW k \in 1..Size(script, n) PROVE k \in 1..p /\ parser[k].frame = n /\ parser[k].at = k
    <3>1. PICK i \in 1..p : parser[i].frame = n /\ parser[i].at = k
      BY <2>2, <2>5 DEF OnWay
    <3>2. parser[i].at = i
      BY <1>5, <2>1, <3>1 DEF Lined, OneHurt, Candidate
    <3> QED
      BY <3>1, <3>2
  <2>6. p >= Len(script[n]) + 4 /\ p >= 3
    <3>1. Len(script[n]) + 4 \in 1..Size(script, n)
      BY <2>1, <2>4
    <3>2. Len(script[n]) + 4 \in 1..p
      BY <2>5, <3>1
    <3> QED
      BY <1>1, <2>4, <3>2
  <2>7. parser[3].value = Len(script[n])
    <3>1. 3 \in 1..Size(script, n)
      BY <2>1, <2>4
    <3>2. 3 \in 1..p /\ parser[3].frame = n /\ parser[3].at = 3
      BY <2>5, <3>1
    <3> QED
      BY <1>5, <2>1, <3>2, IntactByte
  <2>8. p < FrameLen(parser[3].value)
    BY <1>1, <2>6 DEF ReceiveTypes, HeaderLen
  <2>9. FrameLen(parser[3].value) = Len(script[n]) + 4
    BY <2>4, <2>7 DEF FrameLen, HeaderLen
  <2>10. p \in Nat /\ Len(script[n]) \in Nat
    BY <1>1, <2>1, <2>4
  <2> QED
    BY <2>6, <2>8, <2>9, <2>10
<1> QED
  BY <1>5, <1>6, <1>7, <1>8 DEF Lined, OneHurt, Reached

\* While noise has taken at most the version of one frame, no ring has refused
\* anything and the rest of that frame, payload and CRC, holds no start byte, the
\* parser drops bytes of that frame only: its candidate is the beginning of one frame, and
\* every frame that was not told has its bytes on the way
\* (uart_transport.c, pico_uart_transport_poll).
THEOREM DamageInvariance == ReceiveSpec => []DamageInv
<1>1. ReceiveInit => DamageInv
  BY DamageInitially
<1>2. RingsInv /\ LineInv /\ DamageInv /\ [ReceiveNext]_receiveVars => DamageInv'
  BY DamageStep
<1> QED
  BY <1>1, <1>2, RingsInvariance, LineInvariance, PTL DEF ReceiveSpec

\* A damaged version costs the frame it is in and no other, whatever start bytes
\* the other frames hold in their payloads and CRCs, when that frame holds none
\* but its first: a parser that looked at the version only when the frame is
\* complete "could consume a following valid frame" (uart_transport.c,
\* pico_uart_transport_poll).
THEOREM DamageCostsOneFrameAlways == ReceiveSpec => []DamageCostsOneFrame
<1>1. RingsInv /\ LineInv /\ DamageInv => DamageCostsOneFrame
  BY OneFrameIsLost
<1> QED
  BY <1>1, RingsInvariance, LineInvariance, DamageInvariance, PTL

-----------------------------------------------------------------------------
(* One turn of the Zero's decoder. *)

States == [buffer : Seq(Byte), frames : Seq(0..FrameCount), errors : Nat]

Span(b) == FrameLen(b[HeaderLen].value)

\* A frame at the start of the buffer is taken.
Accepts(b) == ~Waits(b) /\ Started(b) /\ HeaderRight(b) /\ CrcRight(SubSeq(b, 1, Span(b)))

Skips(b) == ~Waits(b) /\ ~Started(b)

Rejects(b) == ~Waits(b) /\ Started(b) /\ ~Accepts(b)

LEMMA HeaderIs ==
    ASSUME NEW b \in Seq(Byte), Len(b) >= 3
    PROVE  /\ 1 \in 1..Len(b) /\ 2 \in 1..Len(b) /\ 3 \in 1..Len(b) /\ Len(b) \in Nat
           /\ b[3].value \in Nat /\ Span(b) = b[3].value + 4 /\ Span(b) \in Nat
<1>1. Len(b) \in Nat
  OBVIOUS
<1>2. 1 \in 1..Len(b) /\ 2 \in 1..Len(b) /\ 3 \in 1..Len(b)
  BY <1>1
<1>3. b[3] \in Byte
  BY <1>2
<1>4. b[3].value \in Nat
  BY <1>3 DEF Byte
<1> QED
  BY <1>1, <1>2, <1>4 DEF Span, FrameLen, HeaderLen

LEMMA CutBuffer ==
    ASSUME NEW b \in Seq(Byte), NEW m \in 1..Len(b)
    PROVE  /\ SubSeq(b, 1, m) \in Seq(Byte) /\ Len(SubSeq(b, 1, m)) = m
           /\ \A i \in 1..m : SubSeq(b, 1, m)[i] = b[i]
           /\ SubSeq(b, m + 1, Len(b)) \in Seq(Byte)
           /\ Dropped(SubSeq(b, m + 1, Len(b)), b, m)
<1> DEFINE n == Len(b)
<1>1. n \in Nat /\ m \in 1..n /\ m \in Nat /\ m \in Int /\ 1 \in Int /\ n \in Int /\ m + 1 \in Int
  OBVIOUS
<1>2. \A i \in 1..m : b[i] \in Byte
  BY <1>1, ElementOfSeq
<1>3. \A i \in (m + 1)..n : b[i] \in Byte
  BY <1>1, ElementOfSeq
<1> HIDE DEF n
<1>4. /\ SubSeq(b, 1, m) \in Seq(Byte)
      /\ Len(SubSeq(b, 1, m)) = IF 1 <= m THEN m - 1 + 1 ELSE 0
      /\ \A i \in 1 .. (m - 1 + 1) : SubSeq(b, 1, m)[i] = b[1 + i - 1]
  BY <1>1, <1>2, SubSeqProperties
<1>5. /\ SubSeq(b, m + 1, n) \in Seq(Byte)
      /\ Len(SubSeq(b, m + 1, n)) = IF m + 1 <= n THEN n - (m + 1) + 1 ELSE 0
      /\ \A i \in 1 .. (n - (m + 1) + 1) : SubSeq(b, m + 1, n)[i] = b[m + 1 + i - 1]
  BY <1>1, <1>3, SubSeqProperties
<1>6. Len(SubSeq(b, 1, m)) = m /\ \A i \in 1..m : i \in 1..(m - 1 + 1) /\ 1 + i - 1 = i
  BY <1>1, <1>4
<1>7. /\ Len(SubSeq(b, m + 1, n)) = n - m
      /\ \A i \in 1..(n - m) : i \in 1..(n - (m + 1) + 1) /\ m + 1 + i - 1 = m + i
  BY <1>1, <1>5
<1>8. \A i \in 1..m : SubSeq(b, 1, m)[i] = b[i]
  BY <1>4, <1>6
<1>9. \A i \in 1..(n - m) : SubSeq(b, m + 1, n)[i] = b[m + i]
  BY <1>5, <1>7
<1>10. n = m + (n - m)
  BY <1>1
<1> QED
  BY <1>1, <1>4, <1>5, <1>6, <1>7, <1>8, <1>9, <1>10 DEF Dropped, n

LEMMA AcceptedFrame ==
    ASSUME NEW b \in Seq(Byte), Accepts(b)
    PROVE  /\ Len(b) \in Nat /\ Len(b) >= 3 /\ Span(b) \in 1..Len(b) /\ Span(b) >= 4
           /\ 1 \in 1..Len(b) /\ 1 \in 1..Span(b) /\ Span(b) \in 1..Span(b)
           /\ \A i \in 1..Span(b) : b[i].frame = b[1].frame /\ b[i].at = i
           /\ b[Span(b)].last
           /\ b[1].frame \in 0..FrameCount
<1>1. Len(b) \in Nat /\ Len(b) >= 3
  <2>1. Len(b) \in Nat /\ ~(Len(b) < HeaderLen)
    BY DEF Accepts, Waits
  <2> QED
    BY <2>1 DEF HeaderLen
<1>2. 1 \in 1..Len(b) /\ Span(b) = b[3].value + 4 /\ b[3].value \in Nat
  BY <1>1, HeaderIs
<1>3. Len(b) >= Span(b)
  BY DEF Accepts, Waits, Whole, Span
<1>4. Span(b) \in 1..Len(b) /\ Span(b) >= 4 /\ 1 \in 1..Span(b) /\ Span(b) \in 1..Span(b)
  BY <1>1, <1>2, <1>3
<1> DEFINE c == SubSeq(b, 1, Span(b))
<1>5. c \in Seq(Byte) /\ Len(c) = Span(b) /\ \A i \in 1..Span(b) : c[i] = b[i]
  BY <1>4, CutBuffer
<1>6. CrcRight(c)
  BY DEF Accepts
<1> HIDE DEF c
<1>7. DOMAIN c = 1..Span(b) /\ c[Len(c)] = b[Span(b)] /\ c[1] = b[1]
  BY <1>4, <1>5
<1>8. \A i \in 1..Span(b) : b[i].frame = b[1].frame /\ b[i].at = i
  BY <1>5, <1>6, <1>7 DEF CrcRight
<1>9. b[Span(b)].last
  BY <1>6, <1>7 DEF CrcRight
<1>10. b[1].frame \in 0..FrameCount
  <2>1. b[1] \in Byte
    BY <1>2
  <2> QED
    BY <2>1 DEF Byte
<1> QED
  BY <1>1, <1>2, <1>4, <1>8, <1>9, <1>10

LEMMA TurnDoes ==
    ASSUME NEW s \in States
    PROVE  LET b == s.buffer
               t == Turn(s)
           IN  /\ t \in States /\ b \in Seq(Byte)
               /\ \/ Waits(b) /\ t = s
                  \/ /\ Skips(b) \/ Rejects(b)
                     /\ b # <<>> /\ t.buffer = Tail(b) /\ t.frames = s.frames
                     /\ t.errors = IF Skips(b) THEN s.errors ELSE s.errors + 1
                  \/ /\ Accepts(b) /\ t.buffer = SubSeq(b, Span(b) + 1, Len(b))
                     /\ t.frames = Append(s.frames, b[1].frame) /\ t.errors = s.errors
<1> DEFINE b == s.buffer
           t == Turn(s)
<1>1. b \in Seq(Byte) /\ s.frames \in Seq(0..FrameCount) /\ s.errors \in Nat
      /\ s = [buffer |-> b, frames |-> s.frames, errors |-> s.errors]
  BY DEF States
<1>2. CASE Waits(b)
  BY <1>1, <1>2 DEF Turn
<1>3. CASE Skips(b)
  <2>1. t = [s EXCEPT !.buffer = Tail(b)]
    BY <1>3 DEF Skips, Turn
  <2>2. b # <<>>
    BY <1>3 DEF Skips, Waits
  <2>3. Tail(b) \in Seq(Byte)
    BY <1>1, <2>2, HeadTailProperties
  <2>4. t = [buffer |-> Tail(b), frames |-> s.frames, errors |-> s.errors]
    BY <1>1, <2>1
  <2> QED
    BY <1>1, <1>3, <2>2, <2>3, <2>4 DEF States
<1>4. CASE Rejects(b)
  <2>1. t = [s EXCEPT !.buffer = Reject(b), !.errors = @ + 1]
    BY <1>4 DEF Rejects, Accepts, Turn, Span
  <2>2. b # <<>>
    BY <1>4 DEF Rejects, Waits
  <2>3. Tail(b) \in Seq(Byte)
    BY <1>1, <2>2, HeadTailProperties
  <2>4. t = [buffer |-> Tail(b), frames |-> s.frames, errors |-> s.errors + 1]
    BY <1>1, <2>1 DEF Reject
  <2>5. ~Skips(b)
    BY <1>4 DEF Rejects, Skips
  <2> QED
    BY <1>1, <1>4, <2>2, <2>3, <2>4, <2>5 DEF States
<1>5. CASE Accepts(b)
  <2> DEFINE v == SubSeq(b, Span(b) + 1, Len(b))
             f == Append(s.frames, b[1].frame)
  <2>1. t = [s EXCEPT !.buffer = v, !.frames = Append(@, b[1].frame)]
    BY <1>5 DEF Accepts, Turn, Span
  <2>2. v \in Seq(Byte) /\ b[1].frame \in 0..FrameCount
    BY <1>1, <1>5, AcceptedFrame, CutBuffer
  <2>3. f \in Seq(0..FrameCount)
    BY <1>1, <2>2, AppendProperties
  <2> HIDE DEF v
  <2>4. t = [buffer |-> v, frames |-> f, errors |-> s.errors]
    BY <1>1, <2>1
  <2>5. t \in States
    BY <1>1, <2>2, <2>3, <2>4 DEF States
  <2>6. t.buffer = v /\ t.frames = f /\ t.errors = s.errors
    BY <2>4
  <2> HIDE DEF f, t
  <2>7. /\ t \in States /\ b \in Seq(Byte)
        /\ Accepts(b) /\ t.buffer = v /\ t.frames = f /\ t.errors = s.errors
    BY <1>1, <1>5, <2>5, <2>6
  <2> QED
    BY <2>7, Zenon DEF v, f, t
<1>6. Waits(b) \/ Skips(b) \/ Rejects(b) \/ Accepts(b)
  BY DEF Skips, Rejects
<1> QED
  BY <1>2, <1>3, <1>4, <1>5, <1>6

\* A turn that does not break takes a byte at least.
LEMMA TurnShortens ==
    ASSUME NEW s \in States
    PROVE  /\ Turn(s) \in States
           /\ Len(s.buffer) \in Nat /\ Len(Turn(s).buffer) \in Nat
           /\ Waits(s.buffer) => Turn(s) = s
           /\ ~Waits(s.buffer) => Len(Turn(s).buffer) < Len(s.buffer)
           /\ Len(s.buffer) = 0 => Waits(s.buffer)
<1> DEFINE b == s.buffer
           t == Turn(s)
<1>1. t \in States /\ b \in Seq(Byte) /\ t.buffer \in Seq(Byte)
      /\ Len(b) \in Nat /\ Len(t.buffer) \in Nat
  <2>1. t \in States /\ b \in Seq(Byte)
    BY TurnDoes
  <2>2. t.buffer \in Seq(Byte)
    BY <2>1 DEF States
  <2> QED
    BY <2>1, <2>2, LenProperties
<1>2. Len(b) = 0 => Waits(b)
  BY <1>1 DEF Waits
<1>3. Waits(b) => t = s
  BY TurnDoes DEF Skips, Rejects, Accepts
<1>4. ASSUME ~Waits(b) PROVE Len(t.buffer) < Len(b)
  <2>1. CASE b # <<>> /\ t.buffer = Tail(b)
    <3>1. Len(t.buffer) = Len(b) - 1
      BY <1>1, <2>1, HeadTailProperties
    <3> QED
      BY <1>1, <3>1
  <2>2. CASE Accepts(b) /\ t.buffer = SubSeq(b, Span(b) + 1, Len(b))
    <3>1. Span(b) \in 1..Len(b)
      BY <1>1, <2>2, AcceptedFrame
    <3>2. Dropped(t.buffer, b, Span(b))
      BY <1>1, <2>2, <3>1, CutBuffer
    <3> QED
      BY <1>1, <3>1, <3>2 DEF Dropped
  <2> QED
    BY <1>4, <2>1, <2>2, TurnDoes
<1> QED
  BY <1>1, <1>2, <1>3, <1>4

-----------------------------------------------------------------------------
(* The loop. *)

\* After n turns.
Turns(g, s, n) == g[0] = s /\ \A m \in 0..(n - 1) : g[m + 1] = Turn(g[m])

Reaches(s, n, r) == \E g \in [0..n -> States] : Turns(g, s, n) /\ g[n] = r

LEMMA SomeReached ==
    ASSUME NEW s \in States, NEW n \in Nat
    PROVE  \E g \in [0..n -> States] : Turns(g, s, n)
<1> DEFINE step == [x \in Nat \X States |-> Turn(x[2])]
<1>1. \A x \in Nat \X States : Turn(x[2]) \in States
  <2> TAKE x \in Nat \X States
  <2>1. x[2] \in States
    OBVIOUS
  <2> QED
    BY <2>1, TurnShortens
<1>2. step \in [Nat \X States -> States]
  BY <1>1
<1>3. \A m \in Nat : \A x \in States : step[<<m, x>>] = Turn(x)
  OBVIOUS
<1> HIDE DEF step
<1>4. PICK g \in [0..n -> States] : Computed(g, s, step, n)
  BY <1>2, RecursionExists
<1>5. g[0] = s
  BY <1>4 DEF Computed
<1>6. ASSUME NEW m \in 0..(n - 1) PROVE g[m + 1] = Turn(g[m])
  <2>1. m \in Nat /\ m \in 0..n
    OBVIOUS
  <2>2. g[m] \in States
    BY <1>4, <2>1
  <2>3. g[m + 1] = step[<<m, g[m]>>]
    BY <1>4 DEF Computed
  <2> QED
    BY <1>3, <2>1, <2>2, <2>3
<1> QED
  BY <1>4, <1>5, <1>6 DEF Turns

LEMMA SameTurns ==
    ASSUME NEW s \in States, NEW n \in Nat,
           NEW g \in [0..n -> States], Turns(g, s, n), NEW h \in [0..n -> States], Turns(h, s, n)
    PROVE  \A m \in 0..n : g[m] = h[m]
<1> DEFINE T == {m \in Nat : m =< n => g[m] = h[m]}
<1>1. 0 \in T
  BY DEF Turns
<1>2. ASSUME NEW m \in Nat, m \in T PROVE m + 1 \in T
  <2> SUFFICES ASSUME m + 1 =< n PROVE g[m + 1] = h[m + 1]
    OBVIOUS
  <2>1. m \in 0..(n - 1) /\ m =< n
    OBVIOUS
  <2>2. g[m] = h[m]
    BY <1>2, <2>1
  <2>3. g[m + 1] = Turn(g[m]) /\ h[m + 1] = Turn(h[m])
    BY <2>1 DEF Turns
  <2> QED
    BY <2>2, <2>3
<1>3. Nat \subseteq T
  <2> HIDE DEF T
  <2> QED
    BY <1>1, <1>2, SetInduction
<1> QED
  BY <1>3

LEMMA ReachedOnce ==
    ASSUME NEW s \in States, NEW n \in Nat, NEW r, Reaches(s, n, r), NEW q, Reaches(s, n, q)
    PROVE  r = q
<1>1. PICK g \in [0..n -> States] : Turns(g, s, n) /\ g[n] = r
  BY DEF Reaches
<1>2. PICK h \in [0..n -> States] : Turns(h, s, n) /\ h[n] = q
  BY DEF Reaches
<1>3. n \in 0..n
  OBVIOUS
<1> QED
  BY <1>1, <1>2, <1>3, SameTurns

\* The function by which Decode is defined.
After(g, s) ==
    g = [n \in 0..Len(s.buffer) |-> IF n = 0 THEN s ELSE Turn(g[n - 1])]

LEMMA AfterIs ==
    ASSUME NEW s \in States, NEW g
    PROVE  After(g, s) <=> /\ g \in [0..Len(s.buffer) -> States]
                           /\ Turns(g, s, Len(s.buffer))
<1> DEFINE n == Len(s.buffer)
<1>1. n \in Nat
  BY TurnShortens
<1> HIDE DEF n
<1>2. ASSUME g = [m \in 0..n |-> IF m = 0 THEN s ELSE Turn(g[m - 1])]
      PROVE  g \in [0..n -> States] /\ Turns(g, s, n)
  <2>1. g[0] = s
    BY <1>1, <1>2
  <2>2. ASSUME NEW m \in 0..(n - 1) PROVE g[m + 1] = Turn(g[m])
    <3>1. m + 1 \in 0..n /\ m + 1 # 0 /\ (m + 1) - 1 = m
      BY <1>1
    <3> QED
      BY <1>2, <3>1
  <2> DEFINE T == {m \in Nat : m =< n => g[m] \in States}
  <2>3. 0 \in T
    BY <2>1
  <2>4. ASSUME NEW m \in Nat, m \in T PROVE m + 1 \in T
    <3> SUFFICES ASSUME m + 1 =< n PROVE g[m + 1] \in States
      OBVIOUS
    <3>1. m \in 0..(n - 1) /\ m =< n
      BY <1>1
    <3>2. g[m] \in States
      BY <2>4, <3>1
    <3> QED
      BY <2>2, <3>1, <3>2, TurnShortens
  <2>5. Nat \subseteq T
    <3> HIDE DEF T
    <3> QED
      BY <2>3, <2>4, SetInduction
  <2>6. \A m \in 0..n : g[m] \in States
    BY <1>1, <2>5
  <2>7. g = [m \in 0..n |-> g[m]]
    BY <1>2
  <2> QED
    BY <2>1, <2>2, <2>6, <2>7 DEF Turns
<1>3. ASSUME g \in [0..n -> States], Turns(g, s, n)
      PROVE  g = [m \in 0..n |-> IF m = 0 THEN s ELSE Turn(g[m - 1])]
  <2>1. ASSUME NEW m \in 0..n PROVE g[m] = IF m = 0 THEN s ELSE Turn(g[m - 1])
    <3>1. CASE m = 0
      BY <1>3, <3>1 DEF Turns
    <3>2. CASE m # 0
      <4>1. m - 1 \in 0..(n - 1) /\ (m - 1) + 1 = m
        BY <1>1, <3>2
      <4> QED
        BY <1>3, <3>2, <4>1 DEF Turns
    <3> QED
      BY <3>1, <3>2
  <2>2. g = [m \in 0..n |-> g[m]]
    BY <1>3
  <2>3. [m \in 0..n |-> g[m]] = [m \in 0..n |-> IF m = 0 THEN s ELSE Turn(g[m - 1])]
    BY <2>1, Zenon
  <2> QED
    BY <2>2, <2>3, Zenon
<1> QED
  BY <1>2, <1>3, Zenon DEF After, n

LEMMA DecodeReaches ==
    ASSUME NEW s \in States
    PROVE  Reaches(s, Len(s.buffer), Decode(s))
<1> DEFINE chosen == CHOOSE g : After(g, s)
<1>1. Len(s.buffer) \in Nat
  BY TurnShortens
<1>2. \E g : After(g, s)
  BY <1>1, SomeReached, AfterIs
<1>3. After(chosen, s)
  BY <1>2
<1>4. Decode(s) = chosen[Len(s.buffer)]
  BY DEF Decode, After
<1> HIDE DEF chosen
<1> QED
  BY <1>3, <1>4, AfterIs DEF Reaches

\* What holds of a state and is kept by every turn holds of what feed leaves.
LEMMA DecodeKeeps ==
    ASSUME NEW s \in States, NEW P, s \in P,
           \A x \in States : x \in P => Turn(x) \in P
    PROVE  Decode(s) \in P /\ Decode(s) \in States /\ Waits(Decode(s).buffer)
<1> DEFINE n == Len(s.buffer)
<1>1. n \in Nat /\ Reaches(s, n, Decode(s))
  BY TurnShortens, DecodeReaches
<1>2. PICK g \in [0..n -> States] : Turns(g, s, n) /\ g[n] = Decode(s)
  BY <1>1 DEF Reaches
<1> HIDE DEF n
<1> DEFINE Good(m) == g[m] \in P /\ (Waits(g[m].buffer) \/ Len(g[m].buffer) + m =< n)
           T == {m \in Nat : m =< n => Good(m)}
<1>3. 0 \in T
  <2>1. g[0] = s
    BY <1>2 DEF Turns
  <2> QED
    BY <1>1, <2>1 DEF n
<1>4. ASSUME NEW m \in Nat, m \in T PROVE m + 1 \in T
  <2> HIDE DEF Good
  <2> SUFFICES ASSUME m + 1 =< n PROVE Good(m + 1)
    OBVIOUS
  <2>1. m \in 0..(n - 1) /\ m =< n /\ m \in 0..n
    BY <1>1
  <2>2. g[m] \in States /\ g[m + 1] = Turn(g[m])
    BY <1>2, <2>1 DEF Turns
  <2>3. g[m] \in P /\ (Waits(g[m].buffer) \/ Len(g[m].buffer) + m =< n)
    BY <1>4, <2>1 DEF Good
  <2>4. g[m + 1] \in P
    BY <2>2, <2>3
  <2> DEFINE x == g[m]
  <2>5. /\ Len(x.buffer) \in Nat /\ Len(Turn(x).buffer) \in Nat
        /\ Waits(x.buffer) => Turn(x) = x
        /\ ~Waits(x.buffer) => Len(Turn(x).buffer) < Len(x.buffer)
    BY <2>2, TurnShortens
  <2> HIDE DEF x
  <2>6. Waits(Turn(x).buffer) \/ Len(Turn(x).buffer) + (m + 1) =< n
    <3>1. CASE Waits(x.buffer)
      BY <2>5, <3>1
    <3>2. CASE ~Waits(x.buffer)
      <4>1. Len(x.buffer) + m =< n
        BY <2>3, <3>2 DEF x
      <4> QED
        BY <1>1, <2>5, <3>2, <4>1
    <3> QED
      BY <3>1, <3>2
  <2> QED
    BY <2>2, <2>4, <2>6 DEF x, Good
<1>5. n \in T
  <2> HIDE DEF T
  <2> QED
    BY <1>1, <1>3, <1>4, SetInduction
<1>6. g[n] \in P /\ (Waits(g[n].buffer) \/ Len(g[n].buffer) + n =< n)
  BY <1>1, <1>5
<1>7. g[n] \in States
  BY <1>1, <1>2
<1>8. Waits(g[n].buffer)
  <2> DEFINE k == Len(g[n].buffer)
  <2>1. k \in Nat /\ (k = 0 => Waits(g[n].buffer))
    BY <1>7, TurnShortens
  <2> HIDE DEF k
  <2>2. Waits(g[n].buffer) \/ k + n =< n
    BY <1>6 DEF k
  <2> QED
    BY <1>1, <2>1, <2>2
<1> QED
  BY <1>2, <1>6, <1>7, <1>8

LEMMA DecodeRests ==
    ASSUME NEW s \in States
    PROVE  Decode(s) \in States /\ Waits(Decode(s).buffer)
<1>1. \A x \in States : x \in States => Turn(x) \in States
  BY TurnShortens
<1> QED
  BY <1>1, DecodeKeeps

LEMMA TurnFirst ==
    ASSUME NEW s \in States, NEW n \in Nat, NEW r, Reaches(Turn(s), n, r)
    PROVE  Reaches(s, n + 1, r)
<1>1. PICK g \in [0..n -> States] : Turns(g, Turn(s), n) /\ g[n] = r
  BY DEF Reaches
<1> DEFINE h == [m \in 0..(n + 1) |-> IF m = 0 THEN s ELSE g[m - 1]]
<1>2. h \in [0..(n + 1) -> States] /\ h[0] = s /\ \A m \in 1..(n + 1) : h[m] = g[m - 1]
  BY <1>1
<1> HIDE DEF h
<1>3. ASSUME NEW m \in 0..n PROVE h[m + 1] = Turn(h[m])
  <2>1. m + 1 \in 1..(n + 1) /\ (m + 1) - 1 = m
    OBVIOUS
  <2>2. h[m + 1] = g[m]
    BY <1>2, <2>1
  <2>3. CASE m = 0
    BY <1>1, <1>2, <2>2, <2>3 DEF Turns
  <2>4. CASE m # 0
    <3>1. m \in 1..(n + 1) /\ m - 1 \in 0..(n - 1) /\ (m - 1) + 1 = m
      BY <2>4
    <3> QED
      BY <1>1, <1>2, <2>2, <3>1 DEF Turns
  <2> QED
    BY <2>3, <2>4
<1>4. n + 1 \in 1..(n + 1) /\ (n + 1) - 1 = n
  OBVIOUS
<1>5. h[n + 1] = r
  BY <1>1, <1>2, <1>4
<1> QED
  BY <1>2, <1>3, <1>4, <1>5 DEF Reaches, Turns

LEMMA OneMoreTurn ==
    ASSUME NEW s \in States, NEW n \in Nat, NEW r, Reaches(s, n, r), Waits(r.buffer)
    PROVE  Reaches(s, n + 1, r)
<1>1. PICK g \in [0..n -> States] : Turns(g, s, n) /\ g[n] = r
  BY DEF Reaches
<1>2. r \in States
  BY <1>1
<1>3. Turn(r) = r
  BY <1>2, TurnShortens
<1> DEFINE h == [m \in 0..(n + 1) |-> IF m = n + 1 THEN r ELSE g[m]]
<1>4. h \in [0..(n + 1) -> States] /\ h[n + 1] = r /\ \A m \in 0..n : h[m] = g[m]
  BY <1>1, <1>2
<1> HIDE DEF h
<1>5. h[0] = s
  BY <1>1, <1>4 DEF Turns
<1>6. ASSUME NEW m \in 0..n PROVE h[m + 1] = Turn(h[m])
  <2>1. CASE m = n
    BY <1>1, <1>3, <1>4, <2>1
  <2>2. CASE m # n
    <3>1. m \in 0..(n - 1) /\ m + 1 \in 0..n
      BY <2>2
    <3> QED
      BY <1>1, <1>4, <3>1 DEF Turns
  <2> QED
    BY <2>1, <2>2
<1>7. (n + 1) - 1 = n
  OBVIOUS
<1> QED
  BY <1>4, <1>5, <1>6, <1>7 DEF Reaches, Turns

LEMMA MoreTurns ==
    ASSUME NEW s \in States, NEW n \in Nat, NEW r, Reaches(s, n, r), Waits(r.buffer),
           NEW m \in Nat, n =< m
    PROVE  Reaches(s, m, r)
<1> DEFINE T == {k \in Nat : Reaches(s, n + k, r)}
<1>1. 0 \in T
  BY SMTT(10)
<1>2. ASSUME NEW k \in Nat, k \in T PROVE k + 1 \in T
  <2>1. n + k \in Nat /\ (n + k) + 1 = n + (k + 1)
    OBVIOUS
  <2>2. Reaches(s, (n + k) + 1, r)
    BY <1>2, <2>1, OneMoreTurn
  <2> QED
    BY <2>1, <2>2
<1>3. Nat \subseteq T
  <2> HIDE DEF T
  <2> QED
    BY <1>1, <1>2, SetInduction
<1>4. m - n \in Nat /\ n + (m - n) = m
  OBVIOUS
<1> QED
  BY <1>3, <1>4

\* The first turn makes no difference.
LEMMA DecodeTurn ==
    ASSUME NEW s \in States
    PROVE  Decode(Turn(s)) = Decode(s)
<1>1. CASE Waits(s.buffer)
  BY <1>1, TurnShortens
<1>2. CASE ~Waits(s.buffer)
  <2> DEFINE t == Turn(s)
             n == Len(s.buffer)
             k == Len(t.buffer)
             q == Decode(t)
  <2>1. t \in States /\ n \in Nat /\ k \in Nat /\ k < n
    BY <1>2, TurnShortens
  <2>2. Reaches(t, k, q)
    BY <2>1, DecodeReaches
  <2>3. Waits(q.buffer)
    BY <2>1, DecodeRests
  <2> HIDE DEF n, k, q
  <2>4. Reaches(s, k + 1, q)
    BY <2>1, <2>2, TurnFirst
  <2>5. k + 1 \in Nat /\ k + 1 =< n
    BY <2>1
  <2>6. Reaches(s, n, q)
    BY <2>1, <2>3, <2>4, <2>5, MoreTurns
  <2>7. Reaches(s, n, Decode(s))
    BY DecodeReaches DEF n
  <2> QED
    BY <2>1, <2>6, <2>7, ReachedOnce DEF q
<1> QED
  BY <1>1, <1>2

-----------------------------------------------------------------------------
(* How the stream is cut makes no difference. *)

Joined(s, d) == [buffer |-> s.buffer \o d, frames |-> s.frames, errors |-> s.errors]

LEMMA RestOfMore ==
    ASSUME NEW b \in Seq(Byte), NEW d \in Seq(Byte), NEW m \in 0..Len(b),
           NEW u \in Seq(Byte), Dropped(u, b, m), NEW v \in Seq(Byte), Dropped(v, b \o d, m)
    PROVE  v = u \o d
<1> DEFINE w == b \o d
           x == u \o d
<1>1. Halves(w, b, d) /\ Halves(x, u, d) /\ x \in Seq(Byte)
  BY ConcatHalves, ConcatProperties
<1>2. /\ Len(b) \in Nat /\ Len(d) \in Nat /\ Len(u) \in Nat /\ Len(v) \in Nat /\ m \in Nat
      /\ Len(b) = m + Len(u) /\ Len(w) = m + Len(v)
      /\ \A i \in 1..Len(u) : u[i] = b[m + i]
      /\ \A i \in 1..Len(v) : v[i] = w[m + i]
  BY DEF Dropped
<1> HIDE DEF w, x
<1>3. Len(v) = Len(x) /\ Len(x) = Len(u) + Len(d)
  BY <1>1, <1>2 DEF Halves
<1>4. ASSUME NEW i \in 1..Len(v) PROVE v[i] = x[i]
  <2>1. CASE i =< Len(u)
    <3>1. i \in 1..Len(u) /\ m + i \in 1..Len(b)
      BY <1>2, <2>1
    <3> QED
      BY <1>1, <1>2, <3>1 DEF Halves
  <2>2. CASE ~(i =< Len(u))
    <3>1. i - Len(u) \in 1..Len(d) /\ Len(u) + (i - Len(u)) = i /\ m + i = Len(b) + (i - Len(u))
      BY <1>2, <1>3, <2>2
    <3>2. x[i] = d[i - Len(u)] /\ w[m + i] = d[i - Len(u)]
      BY <1>1, <3>1 DEF Halves
    <3> QED
      BY <1>2, <3>2
  <2> QED
    BY <2>1, <2>2
<1> QED
  BY <1>1, <1>3, <1>4, SeqEqual DEF x

LEMMA TailDropped ==
    ASSUME NEW b \in Seq(Byte), b # <<>>
    PROVE  Tail(b) \in Seq(Byte) /\ Dropped(Tail(b), b, 1) /\ 1 \in 1..Len(b)
<1>1. /\ Tail(b) \in Seq(Byte) /\ Len(Tail(b)) = Len(b) - 1 /\ Len(b) \in Nat
      /\ \A i \in 1..Len(Tail(b)) : Tail(b)[i] = b[i + 1]
  BY HeadTailProperties
<1>2. Len(b) # 0
  OBVIOUS
<1>3. \A i \in 1..Len(Tail(b)) : i + 1 = 1 + i
  BY <1>1
<1>4. Len(b) = 1 + Len(Tail(b)) /\ 1 \in 1..Len(b)
  BY <1>1, <1>2
<1> QED
  BY <1>1, <1>3, <1>4 DEF Dropped

\* A turn that does not wait for more does not depend on it.
LEMMA TurnOfMore ==
    ASSUME NEW s \in States, NEW d \in Seq(Byte), ~Waits(s.buffer)
    PROVE  Joined(s, d) \in States /\ Turn(Joined(s, d)) = Joined(Turn(s), d)
<1> DEFINE b == s.buffer
           w == b \o d
           x == Joined(s, d)
           t == Turn(s)
           y == Turn(x)
<1>1. /\ b \in Seq(Byte) /\ w \in Seq(Byte) /\ Halves(w, b, d) /\ b # <<>>
      /\ s.frames \in Seq(0..FrameCount) /\ s.errors \in Nat
  <2>1. b \in Seq(Byte) /\ s.frames \in Seq(0..FrameCount) /\ s.errors \in Nat
    BY DEF States
  <2> QED
    BY <2>1, ConcatHalves, ConcatProperties DEF Waits
<1>2. x \in States /\ x.buffer = w /\ x.frames = s.frames /\ x.errors = s.errors
  BY <1>1 DEF Joined, States
<1>3. /\ Len(b) \in Nat /\ Len(b) > 0 /\ Len(w) \in Nat /\ Len(w) >= Len(b) /\ w # <<>>
      /\ Head(w) = Head(b) /\ \A i \in 1..Len(b) : w[i] = b[i]
  <2>1. Len(b) \in Nat /\ Len(d) \in Nat /\ Len(b) # 0 /\ Len(w) = Len(b) + Len(d)
    BY <1>1 DEF Halves
  <2>2. Len(w) # 0 /\ 1 \in 1..Len(b)
    BY <2>1
  <2>3. w # <<>> /\ w[1] = b[1]
    BY <1>1, <2>2 DEF Halves
  <2> HIDE DEF b, w
  <2>4. Head(w) = w[1] /\ Head(b) = b[1]
    BY <1>1, <2>3
  <2> QED
    BY <1>1, <2>1, <2>3, <2>4 DEF Halves
<1> HIDE DEF b, w, x
<1>4. Started(w) <=> Started(b)
  BY <1>1, <1>3 DEF Started
<1>5. ASSUME Started(b)
      PROVE  /\ Len(b) >= 3 /\ Len(w) >= 3 /\ Span(w) = Span(b) /\ Span(b) \in Nat /\ Span(b) >= 4
             /\ HeaderRight(w) <=> HeaderRight(b)
             /\ HeaderRight(b) => Len(b) >= Span(b)
  <2>1. ~(Len(b) < HeaderLen) /\ (HeaderRight(b) => Whole(b))
    BY <1>5 DEF Waits, b
  <2>2. Len(b) >= 3 /\ Len(w) >= 3
    BY <1>3, <2>1 DEF HeaderLen
  <2>3. 2 \in 1..Len(b) /\ 3 \in 1..Len(b) /\ b[3].value \in Nat /\ Span(b) = b[3].value + 4
    BY <1>1, <2>2, HeaderIs
  <2>4. w[2] = b[2] /\ w[3] = b[3]
    BY <1>3, <2>3
  <2>5. (HeaderRight(w) <=> HeaderRight(b)) /\ Span(w) = Span(b)
    BY <2>4 DEF HeaderRight, LengthAllowed, HeaderLen, Span
  <2>6. HeaderRight(b) => Len(b) >= Span(b)
    BY <2>1 DEF Whole, Span
  <2> QED
    BY <2>2, <2>3, <2>5, <2>6
<1>6. ~Waits(w)
  <2>1. CASE ~Started(b)
    BY <1>3, <1>4, <2>1 DEF Waits
  <2>2. CASE Started(b)
    <3>1. ~(Len(w) < HeaderLen)
      BY <1>3, <1>5, <2>2 DEF HeaderLen
    <3>2. HeaderRight(w) => Whole(w)
      BY <1>3, <1>5, <2>2 DEF Whole, Span
    <3> QED
      BY <1>3, <3>1, <3>2 DEF Waits
  <2> QED
    BY <2>1, <2>2
<1>7. Skips(w) <=> Skips(b)
  BY <1>4, <1>6 DEF Skips, b
<1>8. Accepts(w) <=> Accepts(b)
  <2>1. CASE Started(b) /\ HeaderRight(b)
    <3> DEFINE m == Span(b)
               c == SubSeq(b, 1, m)
               k == SubSeq(w, 1, m)
    <3>1. m \in 1..Len(b) /\ m \in 1..Len(w)
      BY <1>3, <1>5, <2>1
    <3> HIDE DEF m
    <3>2. c \in Seq(Byte) /\ Len(c) = m /\ \A i \in 1..m : c[i] = b[i]
      BY <1>1, <3>1, CutBuffer
    <3>3. k \in Seq(Byte) /\ Len(k) = m /\ \A i \in 1..m : k[i] = w[i]
      BY <1>1, <3>1, CutBuffer
    <3>4. \A i \in 1..m : i \in 1..Len(b)
      BY <1>3, <3>1
    <3> HIDE DEF c, k
    <3>5. c = k
      BY <1>3, <3>2, <3>3, <3>4, SeqEqual
    <3> QED
      BY <1>4, <1>5, <1>6, <2>1, <3>5 DEF Accepts, b, c, k, m
  <2>2. CASE ~(Started(b) /\ HeaderRight(b))
    BY <1>4, <1>5, <2>2 DEF Accepts
  <2> QED
    BY <2>1, <2>2
<1>9. Rejects(w) <=> Rejects(b)
  BY <1>4, <1>6, <1>8 DEF Rejects, b
<1>10. t \in States /\ y \in States
  BY <1>2, TurnShortens
<1>11. y.frames = t.frames /\ y.errors = t.errors /\ y.buffer = t.buffer \o d
  <2>1. CASE Skips(b) \/ Rejects(b)
    <3>1. /\ t.buffer = Tail(b) /\ t.frames = s.frames
          /\ t.errors = IF Skips(b) THEN s.errors ELSE s.errors + 1
      BY <2>1, TurnDoes DEF b, Skips, Rejects, Accepts
    <3>2. /\ y.buffer = Tail(w) /\ y.frames = s.frames
          /\ y.errors = IF Skips(b) THEN s.errors ELSE s.errors + 1
      BY <1>2, <1>7, <1>9, <2>1, TurnDoes DEF Skips, Rejects, Accepts
    <3>3. Tail(w) = Tail(b) \o d
      <4>1. Tail(b) \in Seq(Byte) /\ Dropped(Tail(b), b, 1) /\ 1 \in 0..Len(b)
        BY <1>1, <1>3, TailDropped
      <4>2. Tail(w) \in Seq(Byte) /\ Dropped(Tail(w), w, 1)
        BY <1>1, <1>3, TailDropped
      <4> QED
        BY <1>1, <4>1, <4>2, RestOfMore DEF w
    <3> QED
      BY <3>1, <3>2, <3>3
  <2>2. CASE Accepts(b)
    <3> DEFINE m == Span(b)
               u == SubSeq(b, m + 1, Len(b))
               v == SubSeq(w, m + 1, Len(w))
    <3>1. t.buffer = u /\ t.frames = Append(s.frames, b[1].frame) /\ t.errors = s.errors
      BY <2>2, TurnDoes DEF b, Skips, Rejects, Accepts
    <3>2. Span(w) = m /\ w[1] = b[1] /\ m \in 1..Len(b)
      <4>1. Started(b) /\ 1 \in 1..Len(b)
        BY <1>3, <2>2 DEF Accepts
      <4> QED
        BY <1>1, <1>3, <1>5, <2>2, <4>1, AcceptedFrame
    <3>3. y.buffer = v /\ y.frames = Append(s.frames, b[1].frame) /\ y.errors = s.errors
      BY <1>2, <1>8, <2>2, <3>2, TurnDoes DEF Skips, Rejects, Accepts
    <3> HIDE DEF m
    <3>4. u \in Seq(Byte) /\ Dropped(u, b, m)
      BY <1>1, <3>2, CutBuffer
    <3>5. m \in 1..Len(w) /\ m \in 0..Len(b)
      BY <1>3, <3>2
    <3>6. v \in Seq(Byte) /\ Dropped(v, w, m)
      BY <1>1, <3>5, CutBuffer
    <3> HIDE DEF u, v
    <3>7. v = u \o d
      BY <1>1, <3>4, <3>5, <3>6, RestOfMore DEF w
    <3> QED
      BY <3>1, <3>3, <3>7
  <2>3. Skips(b) \/ Rejects(b) \/ Accepts(b)
    BY DEF Skips, Rejects, b
  <2> QED
    BY <2>1, <2>2, <2>3
<1>12. y = [buffer |-> y.buffer, frames |-> y.frames, errors |-> y.errors]
  BY <1>10 DEF States
<1> QED
  BY <1>2, <1>11, <1>12 DEF Joined, x

LEMMA DecodeMore ==
    ASSUME NEW s \in States, NEW d \in Seq(Byte)
    PROVE  Decode(Joined(Decode(s), d)) = Decode(Joined(s, d))
<1> DEFINE P == {x \in States : Decode(Joined(x, d)) = Decode(Joined(s, d))}
<1>1. ASSUME NEW x \in States, x \in P PROVE Turn(x) \in P
  <2>1. Turn(x) \in States
    BY TurnShortens
  <2>2. CASE Waits(x.buffer)
    BY <1>1, <2>2, TurnShortens
  <2>3. CASE ~Waits(x.buffer)
    <3>1. Joined(x, d) \in States /\ Turn(Joined(x, d)) = Joined(Turn(x), d)
      BY <2>3, TurnOfMore
    <3>2. Decode(Joined(Turn(x), d)) = Decode(Joined(x, d))
      BY <3>1, DecodeTurn
    <3> QED
      BY <1>1, <2>1, <3>2
  <2> QED
    BY <2>2, <2>3
<1>2. s \in P
  OBVIOUS
<1>3. Decode(s) \in P
  <2> HIDE DEF P
  <2> QED
    BY <1>1, <1>2, DecodeKeeps
<1> QED
  BY <1>3

LEMMA WaitingStays ==
    ASSUME NEW s \in States, Waits(s.buffer)
    PROVE  Decode(s) = s
<1> DEFINE P == {s}
<1>1. \A x \in States : x \in P => Turn(x) \in P
  BY TurnShortens
<1>2. s \in P
  OBVIOUS
<1>3. Decode(s) \in P
  <2> HIDE DEF P
  <2> QED
    BY <1>1, <1>2, DecodeKeeps
<1> QED
  BY <1>3

-----------------------------------------------------------------------------
(* The stream that is fed to the decoder. *)

Fresh(b) == [buffer |-> b, frames |-> <<>>, errors |-> 0]

Now == [buffer |-> buffer, frames |-> frames, errors |-> errors]

\* The byte c is the one behind b.
Follows(b, c) ==
    IF b.last THEN c.frame = b.frame + 1 /\ c.at = 1 ELSE c.frame = b.frame /\ c.at = b.at + 1

\* Nothing is touched, and nothing is missing between the first byte and the last.
Straight(w) ==
    /\ \A j \in 1..Len(w) : w[j].frame # 0
    /\ \A j \in 1..(Len(w) - 1) : Follows(w[j], w[j + 1])

DecoderTypes ==
    /\ sequence \in Sequences /\ noise \in Nat
    /\ line \in Seq(Byte) /\ fed \in Seq(Byte) /\ Now \in States

\* What has been fed and what is still on the line, one behind the other, is in
\* line; the decoder is where it would be, had it been fed everything at once.
DecoderInv ==
    /\ DecoderTypes
    /\ Now = Decode(Fresh(fed))
    /\ InLine(<<>>, fed \o line, sequence)
    /\ noise = 0 => Straight(fed \o line)

LEMMA FreshIsState ==
    ASSUME NEW b \in Seq(Byte)
    PROVE  /\ Fresh(b) \in States /\ Fresh(b).buffer = b /\ Fresh(b).frames = <<>>
           /\ Fresh(b).errors = 0
<1>1. <<>> \in Seq(0..FrameCount)
  OBVIOUS
<1> QED
  BY <1>1 DEF Fresh, States

LEMMA StraightPart ==
    ASSUME NEW w \in Seq(Byte), Straight(w), NEW v \in Seq(Byte), NEW m \in Nat,
           m + Len(v) =< Len(w), \A i \in 1..Len(v) : v[i] = w[m + i]
    PROVE  Straight(v)
<1>1. Len(w) \in Nat /\ Len(v) \in Nat
  OBVIOUS
<1>2. ASSUME NEW j \in 1..Len(v) PROVE v[j].frame # 0
  <2>1. m + j \in 1..Len(w)
    BY <1>1
  <2> QED
    BY <2>1 DEF Straight
<1>3. ASSUME NEW j \in 1..(Len(v) - 1) PROVE Follows(v[j], v[j + 1])
  <2>1. m + j \in 1..(Len(w) - 1) /\ j \in 1..Len(v) /\ j + 1 \in 1..Len(v) /\ m + (j + 1) = (m + j) + 1
    BY <1>1
  <2>2. v[j] = w[m + j] /\ v[j + 1] = w[m + (j + 1)]
    BY <2>1
  <2>3. Follows(w[m + j], w[(m + j) + 1])
    BY <2>1 DEF Straight
  <2> QED
    BY <2>1, <2>2, <2>3
<1> QED
  BY <1>2, <1>3 DEF Straight

LEMMA PrefixRemains ==
    ASSUME NEW a \in Seq(Byte), NEW v \in Seq(Byte), NEW w \in Seq(Byte), Remains(v, w)
    PROVE  Remains(a \o v, a \o w)
<1> DEFINE x == a \o v
           y == a \o w
           l == Len(a)
<1>1. PICK f \in [1..Len(v) -> 1..Len(w)] :
          /\ \A i, j \in 1..Len(v) : i < j => f[i] < f[j]
          /\ \A i \in 1..Len(v) : v[i] = w[f[i]] \/ (v[i].frame = 0 /\ ~v[i].last)
  BY DEF Remains
<1>2. /\ Halves(x, a, v) /\ Halves(y, a, w)
      /\ l \in Nat /\ Len(v) \in Nat /\ Len(w) \in Nat
  BY ConcatHalves
<1>3. Len(x) = l + Len(v) /\ Len(y) = l + Len(w)
  BY <1>2 DEF Halves
<1> DEFINE g == [i \in 1..Len(x) |-> IF i =< l THEN i ELSE l + f[i - l]]
<1>4. ASSUME NEW i \in 1..Len(x)
      PROVE  \/ i =< l /\ g[i] = i /\ i \in 1..l
             \/ l < i /\ i - l \in 1..Len(v) /\ f[i - l] \in 1..Len(w) /\ g[i] = l + f[i - l]
  <2>1. CASE i =< l
    BY <1>2, <2>1
  <2>2. CASE ~(i =< l)
    <3>1. i - l \in 1..Len(v)
      BY <1>2, <1>3, <2>2
    <3>2. f[i - l] \in 1..Len(w)
      BY <1>1, <3>1
    <3> QED
      BY <1>2, <1>3, <2>2, <3>1, <3>2
  <2> QED
    BY <2>1, <2>2
<1>5. g = [i \in 1..Len(x) |-> g[i]]
  OBVIOUS
<1> HIDE DEF g, x, y, l
<1>6. \A i \in 1..Len(x) : g[i] \in 1..Len(y)
  BY <1>2, <1>3, <1>4
<1>7. g \in [1..Len(x) -> 1..Len(y)]
  BY <1>5, <1>6
<1>8. ASSUME NEW i \in 1..Len(x), NEW j \in 1..Len(x), i < j PROVE g[i] < g[j]
  <2>1. CASE j =< l
    BY <1>2, <1>4, <1>8, <2>1
  <2>2. CASE i =< l /\ l < j
    BY <1>2, <1>4, <2>2
  <2>3. CASE l < i
    <3>1. l < j /\ i - l < j - l
      BY <1>2, <1>8, <2>3
    <3>2. i - l \in 1..Len(v) /\ j - l \in 1..Len(v) /\ g[i] = l + f[i - l] /\ g[j] = l + f[j - l]
          /\ f[i - l] \in 1..Len(w) /\ f[j - l] \in 1..Len(w)
      BY <1>2, <1>4, <2>3, <3>1
    <3>3. f[i - l] < f[j - l]
      BY <1>1, <3>1, <3>2
    <3> QED
      BY <1>2, <3>2, <3>3
  <2> QED
    BY <1>2, <2>1, <2>2, <2>3
<1>9. ASSUME NEW i \in 1..Len(x) PROVE x[i] = y[g[i]] \/ (x[i].frame = 0 /\ ~x[i].last)
  <2>1. CASE i =< l /\ g[i] = i /\ i \in 1..l
    BY <1>2, <2>1 DEF Halves, l
  <2>2. CASE l < i /\ i - l \in 1..Len(v) /\ f[i - l] \in 1..Len(w) /\ g[i] = l + f[i - l]
    <3>1. l + (i - l) = i
      BY <1>2
    <3>2. x[i] = v[i - l]
      BY <1>2, <2>2, <3>1 DEF Halves, l
    <3>3. y[g[i]] = w[f[i - l]]
      BY <1>2, <2>2 DEF Halves, l
    <3> QED
      BY <1>1, <2>2, <3>2, <3>3
  <2> QED
    BY <1>4, <2>1, <2>2
<1> QED
  BY <1>7, <1>8, <1>9 DEF Remains, x, y

\* Cutting a part off the line and feeding it.
LEMMA FedAndLine ==
    ASSUME NEW a \in Seq(Byte), NEW b \in Seq(Byte), NEW n \in 1..Len(b)
    PROVE  (a \o SubSeq(b, 1, n)) \o SubSeq(b, n + 1, Len(b)) = a \o b
<1> DEFINE c == SubSeq(b, 1, n)
           d == SubSeq(b, n + 1, Len(b))
           x == (a \o c) \o d
           y == a \o b
<1>1. /\ c \in Seq(Byte) /\ Len(c) = n /\ \A i \in 1..n : c[i] = b[i]
      /\ d \in Seq(Byte) /\ Dropped(d, b, n)
  BY CutBuffer
<1>2. /\ n \in Nat /\ n =< Len(b) /\ Len(a) \in Nat /\ Len(b) \in Nat /\ Len(d) \in Nat
      /\ Len(b) = n + Len(d) /\ \A i \in 1..Len(d) : d[i] = b[n + i]
  BY <1>1 DEF Dropped
<1> HIDE DEF c, d
<1>3. a \o c \in Seq(Byte) /\ Halves(a \o c, a, c) /\ Halves(y, a, b) /\ y \in Seq(Byte)
  BY <1>1, ConcatHalves, ConcatProperties
<1>4. x \in Seq(Byte) /\ Halves(x, a \o c, d)
  BY <1>1, <1>3, ConcatHalves, ConcatProperties
<1> DEFINE u == a \o c
<1> HIDE DEF u, x, y
<1>5. Len(u) = Len(a) + n /\ Len(x) = Len(a) + Len(b) /\ Len(y) = Len(a) + Len(b)
  BY <1>1, <1>2, <1>3, <1>4 DEF Halves, u
<1>6. ASSUME NEW i \in 1..Len(x) PROVE x[i] = y[i]
  <2>1. CASE i =< Len(a)
    <3>1. i \in 1..Len(a) /\ i \in 1..Len(u)
      BY <1>2, <1>5, <2>1
    <3>2. x[i] = u[i] /\ u[i] = a[i] /\ y[i] = a[i]
      BY <1>3, <1>4, <3>1 DEF Halves, u
    <3> QED
      BY <3>2
  <2>2. CASE Len(a) < i /\ i =< Len(a) + n
    <3> DEFINE j == i - Len(a)
    <3>1. j \in 1..n /\ j \in 1..Len(b) /\ Len(a) + j = i /\ i \in 1..Len(u)
      BY <1>2, <1>5, <2>2
    <3> HIDE DEF j
    <3>2. x[i] = u[i] /\ u[i] = c[j] /\ y[i] = b[j]
      BY <1>1, <1>3, <1>4, <3>1 DEF Halves, u
    <3> QED
      BY <1>1, <3>1, <3>2
  <2>3. CASE Len(a) + n < i
    <3> DEFINE j == i - (Len(a) + n)
    <3>1. j \in 1..Len(d) /\ n + j \in 1..Len(b) /\ Len(a) + (n + j) = i /\ Len(u) + j = i
      BY <1>2, <1>5, <2>3
    <3> HIDE DEF j
    <3>2. x[i] = d[j] /\ y[i] = b[n + j]
      BY <1>3, <1>4, <3>1 DEF Halves, u
    <3> QED
      BY <1>2, <3>1, <3>2
  <2> QED
    BY <1>2, <2>1, <2>2, <2>3
<1>7. x = y
  BY <1>3, <1>4, <1>5, <1>6, SeqEqual
<1> QED
  BY <1>7 DEF x, y, c, d

LEMMA SentStraight ==
    ASSUME NEW payloads,
           \A n \in 1..FrameCount : payloads[n] \in Seq(Nat) /\ Crc(payloads[n]) \in Nat,
           NEW w, Sent(w, FrameCount, payloads)
    PROVE  Straight(w)
<1>1. w \in Seq(Byte) /\ Len(w) \in Nat /\ FrameCount \in Nat
  BY SequenceAssumption DEF Sent
<1>2. \A j \in 1..Len(w) : w[j].frame \in 1..FrameCount
  BY DEF Sent
<1>3. \A j \in 1..Len(w) : w[j].frame # 0 /\ w[j].frame \in Nat
  BY <1>1, <1>2
<1>4. \A j \in 1..Len(w) : /\ w[j].at \in 1..Size(payloads, w[j].frame)
                           /\ w[j].last <=> w[j].at = Size(payloads, w[j].frame)
  BY <1>3 DEF Sent, Placed
<1>5. \A n \in 1..FrameCount : Size(payloads, n) \in Nat /\ Size(payloads, n) >= 4
  BY LenProperties DEF Size, FrameLen, HeaderLen
<1>6. \A j \in 1..Len(w) : w[j].at \in Nat /\ w[j].at >= 1
  BY <1>2, <1>4, <1>5
<1>7. ASSUME NEW i \in 1..Len(w), NEW j \in 1..Len(w), i < j PROVE Earlier(w[i], w[j])
  BY <1>3, <1>7 DEF Sent, Ordered
<1>8. ASSUME NEW j \in 1..(Len(w) - 1) PROVE Follows(w[j], w[j + 1])
  <2> DEFINE b == w[j]
             c == w[j + 1]
             n == b.frame
  <2>1. j \in 1..Len(w) /\ j + 1 \in 1..Len(w) /\ j < j + 1 /\ j \in Nat
    BY <1>1
  <2>2. /\ n \in 1..FrameCount /\ n \in Nat /\ b.at \in Nat /\ b.at >= 1
        /\ b.at \in 1..Size(payloads, n) /\ (b.last <=> b.at = Size(payloads, n))
        /\ Size(payloads, n) \in Nat
    BY <1>2, <1>3, <1>4, <1>5, <1>6, <2>1
  <2>3. /\ c.frame \in 1..FrameCount /\ c.frame \in Nat /\ c.at \in Nat /\ c.at >= 1
        /\ c.at \in 1..Size(payloads, c.frame)
    BY <1>2, <1>3, <1>4, <1>6, <2>1
  <2>4. Earlier(b, c)
    BY <1>7, <2>1
  <2>5. CASE b.last
    <3>1. n < c.frame
      BY <2>2, <2>3, <2>4, <2>5 DEF Earlier
    <3>2. n + 1 \in 1..FrameCount
      <4>1. FrameCount \in Nat /\ n \in Nat /\ c.frame \in 1..FrameCount
        BY <1>1, <2>2, <2>3
      <4> QED
        BY <3>1, <4>1
    <3>3. 1 \in 1..Size(payloads, n + 1)
      BY <1>5, <3>2
    <3>4. PICK k \in 1..Len(w) : w[k].frame = n + 1 /\ w[k].at = 1
      BY <3>2, <3>3 DEF Sent, OnWay
    <3>5. ~(k =< j)
      <4>1. ~(k < j)
        BY <1>7, <2>1, <2>2, <3>4 DEF Earlier
      <4>2. k # j
        BY <2>2, <3>4
      <4> QED
        BY <2>1, <4>1, <4>2
    <3>6. ~(j + 1 < k)
      <4> SUFFICES ASSUME j + 1 < k PROVE FALSE
        OBVIOUS
      <4>1. Earlier(c, w[k])
        BY <1>7, <2>1
      <4> HIDE DEF b, c
      <4> QED
        BY <2>2, <2>3, <3>1, <3>4, <4>1 DEF Earlier
    <3>7. k = j + 1
      BY <2>1, <3>5, <3>6
    <3> QED
      BY <2>5, <3>4, <3>7 DEF Follows
  <2>6. CASE ~b.last
    <3>1. b.at + 1 \in 1..Size(payloads, n)
      BY <2>2, <2>6
    <3>2. PICK k \in 1..Len(w) : w[k].frame = n /\ w[k].at = b.at + 1
      BY <2>2, <3>1 DEF Sent, OnWay
    <3>3. ~(k =< j)
      <4>1. ASSUME k < j PROVE FALSE
        <5>1. Earlier(w[k], b)
          BY <1>7, <2>1, <4>1
        <5> HIDE DEF b, n
        <5> QED
          BY <2>2, <3>2, <5>1 DEF Earlier, n
      <4>2. k # j
        BY <2>2, <3>2
      <4> QED
        BY <2>1, <4>1, <4>2
    <3>4. ~(j + 1 < k)
      <4> SUFFICES ASSUME j + 1 < k PROVE FALSE
        OBVIOUS
      <4>1. Earlier(c, w[k])
        BY <1>7, <2>1
      <4>2. n =< c.frame /\ c.frame =< n
        BY <2>2, <2>3, <2>4, <3>2, <4>1 DEF Earlier
      <4>3. c.frame = n
        BY <2>2, <2>3, <4>2
      <4> HIDE DEF b, c
      <4> QED
        BY <2>2, <2>3, <2>4, <3>2, <4>1, <4>3 DEF Earlier
    <3>5. k = j + 1
      BY <2>1, <3>3, <3>4
    <3> QED
      BY <2>6, <3>2, <3>5 DEF Follows
  <2> QED
    BY <2>5, <2>6
<1> QED
  BY <1>3, <1>8 DEF Straight

LEMMA SequencePayloads ==
    ASSUME NEW payloads \in Sequences
    PROVE  /\ \A n \in 1..FrameCount : /\ payloads[n] \in Seq(Nat) /\ Len(payloads[n]) =< MaxPayload
                                        /\ Crc(payloads[n]) \in Nat
           /\ FrameCount \in Nat /\ MaxPayload \in Nat
  BY SequenceAssumption

\* The line is what is left of the stream behind the place where it is joined.
LEMMA DecoderInitially == DecoderInit => DecoderInv
<1> SUFFICES ASSUME DecoderInit PROVE DecoderInv
  OBVIOUS
<1> DEFINE s == Stream(sequence)
<1>1. sequence \in Sequences /\ noise = 0 /\ buffer = <<>> /\ frames = <<>> /\ errors = 0 /\ fed = <<>>
  BY DEF DecoderInit
<1>2. PICK i \in 1..Len(s) : line = SubSeq(s, i, Len(s))
  BY DEF DecoderInit
<1>3. Sent(s, FrameCount, sequence)
  BY <1>1, SequencePayloads, StreamSent
<1>4. s \in Seq(Byte) /\ Placed(s, sequence) /\ Ordered(s) /\ Straight(s) /\ Len(s) \in Nat
  <2>1. \A n \in 1..FrameCount : sequence[n] \in Seq(Nat) /\ Crc(sequence[n]) \in Nat
    BY <1>1, SequencePayloads
  <2> HIDE DEF s
  <2>2. Straight(s)
    BY <1>3, <2>1, SentStraight
  <2> QED
    BY <1>3, <2>2 DEF Sent
<1> HIDE DEF s
<1>5. line \in Seq(Byte) /\ \E m \in Nat : Dropped(line, s, m)
  <2>1. CASE i = 1
    <3>1. line = s
      BY <1>2, <1>4, <2>1
    <3> QED
      BY <1>4, <3>1 DEF Dropped
  <2>2. CASE i # 1
    <3>1. i - 1 \in 1..Len(s) /\ (i - 1) + 1 = i /\ i - 1 \in Nat
      BY <1>4, <2>2
    <3>2. line \in Seq(Byte) /\ Dropped(line, s, i - 1)
      BY <1>2, <1>4, <3>1, CutBuffer
    <3> QED
      BY <3>1, <3>2
  <2> QED
    BY <2>1, <2>2
<1>6. PICK m \in Nat : Dropped(line, s, m)
  BY <1>5
<1>7. Remains(line, s)
  BY <1>4, <1>5, <1>6, DroppedIsPart, PartRemains
<1>8. InLine(<<>>, s, sequence)
  BY <1>4 DEF InLine, Precede, Increasing
<1>9. InLine(<<>>, line, sequence)
  BY <1>7, <1>8, InLineRemains
<1>10. Straight(line)
  BY <1>4, <1>5, <1>6, StraightPart DEF Dropped
<1>11. fed \o line = line
  <2>1. <<>> \o line = line
    BY <1>5
  <2> QED
    BY <1>1, <2>1
<1>12. fed \in Seq(Byte) /\ Now = Fresh(fed) /\ Now \in States
  <2>1. fed \in Seq(Byte)
    BY <1>1
  <2>2. Now = Fresh(fed)
    BY <1>1 DEF Now, Fresh
  <2> QED
    BY <2>1, <2>2, FreshIsState
<1>13. Decode(Fresh(fed)) = Fresh(fed)
  BY <1>1, <1>12, WaitingStays, FreshIsState DEF Waits
<1>14. noise \in Nat
  BY <1>1
<1> QED
  BY <1>1, <1>5, <1>9, <1>10, <1>11, <1>12, <1>13, <1>14 DEF DecoderInv, DecoderTypes

LEMMA FeedDecodes == DecoderInv /\ (\E n \in 1..Len(line) : Feed(n)) => DecoderInv'
<1> SUFFICES ASSUME DecoderInv, NEW n \in 1..Len(line), Feed(n) PROVE DecoderInv'
  OBVIOUS
<1> DEFINE d == SubSeq(line, 1, n)
<1>1. DecoderTypes /\ Now = Decode(Fresh(fed)) /\ InLine(<<>>, fed \o line, sequence)
      /\ (noise = 0 => Straight(fed \o line))
  BY DEF DecoderInv
<1>2. line \in Seq(Byte) /\ fed \in Seq(Byte) /\ Now \in States
  BY <1>1 DEF DecoderTypes
<1>3. d \in Seq(Byte) /\ SubSeq(line, n + 1, Len(line)) \in Seq(Byte)
  BY <1>2, CutBuffer
<1>4. line' = SubSeq(line, n + 1, Len(line)) /\ fed' = fed \o d /\ UNCHANGED <<sequence, noise>>
  BY DEF Feed
<1>5. (fed \o line)' = fed \o line
  BY <1>2, <1>4, FedAndLine
<1>6. Joined(Now, d) = [buffer |-> buffer \o d, frames |-> frames, errors |-> errors]
  BY DEF Joined, Now
<1> HIDE DEF d
<1>7. Now' = Decode(Joined(Now, d))
  <2> DEFINE q == Decode(Joined(Now, d))
  <2>1. buffer' = q.buffer /\ frames' = q.frames /\ errors' = q.errors
    BY <1>6 DEF Feed, d
  <2>2. Joined(Now, d) \in States
    <3>1. buffer \in Seq(Byte) /\ frames \in Seq(0..FrameCount) /\ errors \in Nat
      BY <1>2 DEF Now, States
    <3>2. buffer \o d \in Seq(Byte)
      BY <1>3, <3>1, ConcatProperties
    <3> QED
      BY <1>6, <3>1, <3>2 DEF States
  <2>3. q \in States
    BY <2>2, DecodeRests
  <2> HIDE DEF q
  <2>4. q = [buffer |-> q.buffer, frames |-> q.frames, errors |-> q.errors]
    BY <2>3 DEF States
  <2>5. Now' = [buffer |-> buffer', frames |-> frames', errors |-> errors']
    BY DEF Now
  <2> QED
    BY <2>1, <2>4, <2>5 DEF q
<1>8. Joined(Fresh(fed), d) = Fresh(fed \o d)
  BY DEF Joined, Fresh
<1>9. Fresh(fed) \in States
  BY <1>2, FreshIsState
<1>10. Decode(Joined(Decode(Fresh(fed)), d)) = Decode(Joined(Fresh(fed), d))
  BY <1>3, <1>9, DecodeMore
<1>11. Now' = Decode(Fresh(fed'))
  BY <1>1, <1>4, <1>7, <1>8, <1>10
<1>12. fed' \in Seq(Byte) /\ line' \in Seq(Byte)
  BY <1>2, <1>3, <1>4, ConcatProperties DEF d
<1>13. Now' \in States
  BY <1>11, <1>12, FreshIsState, DecodeRests
<1>14. (Fresh(fed))' = Fresh(fed') /\ Decode(Fresh(fed))' = Decode(Fresh(fed'))
  BY DEF Fresh
<1>15. DecoderTypes'
  BY <1>1, <1>4, <1>12, <1>13 DEF DecoderTypes
<1>16. InLine(<<>>, (fed \o line)', sequence') /\ (noise' = 0 => Straight((fed \o line)'))
  BY <1>1, <1>4, <1>5
<1> QED
  BY <1>11, <1>14, <1>15, <1>16 DEF DecoderInv

LEMMA RemovedAt ==
    ASSUME NEW b \in Seq(Byte), NEW k \in 1..Len(b)
    PROVE  RemoveAt(b, k) \in Seq(Byte) /\ Removed(RemoveAt(b, k), b, k)
<1> DEFINE u == SubSeq(b, 1, k - 1)
           v == SubSeq(b, k + 1, Len(b))
           t == u \o v
<1>1. k \in Nat /\ Len(b) \in Nat /\ k >= 1 /\ k =< Len(b)
  OBVIOUS
<1>2. u \in Seq(Byte) /\ Len(u) = k - 1 /\ \A i \in 1..(k - 1) : u[i] = b[i]
  <2>1. CASE k = 1
    <3>1. u = <<>>
      BY <2>1
    <3> QED
      BY <2>1, <3>1
  <2>2. CASE k # 1
    <3>1. k - 1 \in 1..Len(b)
      BY <1>1, <2>2
    <3> QED
      BY <3>1, CutBuffer
  <2> QED
    BY <2>1, <2>2
<1>3. v \in Seq(Byte) /\ Dropped(v, b, k)
  BY CutBuffer
<1> HIDE DEF u, v
<1>4. t \in Seq(Byte) /\ Halves(t, u, v)
  BY <1>2, <1>3, ConcatHalves, ConcatProperties
<1> HIDE DEF t
<1>5. /\ Len(v) \in Nat /\ Len(t) = (k - 1) + Len(v) /\ Len(b) = k + Len(v)
      /\ \A i \in 1..(k - 1) : t[i] = b[i]
      /\ \A i \in 1..Len(v) : t[(k - 1) + i] = b[k + i]
  BY <1>2, <1>3, <1>4 DEF Halves, Dropped
<1>6. ASSUME NEW i \in 1..Len(t) PROVE t[i] = IF i < k THEN b[i] ELSE b[i + 1]
  <2>1. CASE i < k
    <3>1. i \in 1..(k - 1)
      BY <1>1, <2>1
    <3> QED
      BY <1>5, <2>1, <3>1
  <2>2. CASE ~(i < k)
    <3>1. i - (k - 1) \in 1..Len(v) /\ (k - 1) + (i - (k - 1)) = i /\ k + (i - (k - 1)) = i + 1
      BY <1>1, <1>5, <2>2
    <3> QED
      BY <1>5, <2>2, <3>1
  <2> QED
    BY <2>1, <2>2
<1>7. Len(t) = Len(b) - 1
  BY <1>1, <1>5
<1>8. RemoveAt(b, k) = t
  BY DEF RemoveAt, t, u, v
<1> QED
  BY <1>4, <1>6, <1>7, <1>8 DEF Removed

LEMMA NoiseKeepsLine == DecoderInv /\ Noise => DecoderInv'
<1> SUFFICES ASSUME DecoderInv, Noise PROVE DecoderInv'
  OBVIOUS
<1>1. DecoderTypes /\ Now = Decode(Fresh(fed)) /\ InLine(<<>>, fed \o line, sequence)
  BY DEF DecoderInv
<1>2. line \in Seq(Byte) /\ fed \in Seq(Byte) /\ noise \in Nat
  BY <1>1 DEF DecoderTypes
<1>3. noise' = noise + 1 /\ UNCHANGED <<sequence, decoder, fed>>
  BY DEF Noise
<1>4. PICK i \in DOMAIN line :
          \/ line' = RemoveAt(line, i)
          \/ \E value \in Values : line' = [line EXCEPT ![i] = Damaged(value)]
  BY DEF Noise
<1>5. i \in 1..Len(line) /\ Len(line) \in Nat
  BY <1>2
<1>6. ASSUME line' = RemoveAt(line, i)
      PROVE  line' \in Seq(Byte) /\ Remains(line', line)
  <2>1. line' \in Seq(Byte) /\ Removed(line', line, i)
    BY <1>2, <1>5, <1>6, RemovedAt
  <2>2. Remains(line', line)
    BY <1>2, <2>1, RemovedIsPart, PartRemains
  <2> QED
    BY <2>1, <2>2
<1>7. ASSUME NEW value \in Values, line' = [line EXCEPT ![i] = Damaged(value)]
      PROVE  line' \in Seq(Byte) /\ Remains(line', line)
  <2> DEFINE x == Damaged(value)
  <2>1. x \in Byte /\ x.frame = 0 /\ ~x.last
    BY NoiseIsByte DEF Damaged
  <2> HIDE DEF x
  <2>2. line' = [line EXCEPT ![i] = x]
    BY <1>7 DEF x
  <2>3. line' \in Seq(Byte) /\ Changed(line', line, i, x)
    BY <1>2, <1>5, <2>1, <2>2 DEF Changed
  <2> QED
    BY <1>2, <2>1, <2>3, ChangedRemains
<1>8. line' \in Seq(Byte) /\ Remains(line', line)
  BY <1>4, <1>6, <1>7
<1>9. Remains(fed \o line', fed \o line)
  BY <1>2, <1>8, PrefixRemains
<1>10. InLine(<<>>, fed \o line', sequence)
  BY <1>1, <1>9, InLineRemains
<1>11. noise' # 0 /\ noise' \in Nat
  BY <1>2, <1>3
<1>12. Now' = Now /\ (Fresh(fed))' = Fresh(fed) /\ Decode(Fresh(fed))' = Decode(Fresh(fed))
       /\ (fed \o line)' = fed \o line' /\ sequence' = sequence /\ fed' = fed
  BY <1>3 DEF Now, Fresh, decoder
<1>13. DecoderTypes'
  BY <1>1, <1>8, <1>11, <1>12 DEF DecoderTypes
<1> QED
  BY <1>1, <1>10, <1>11, <1>12, <1>13 DEF DecoderInv

\* The decoder is always where it would be, had it been fed everything at once,
\* and what goes through it is what is left of the frames, in their order: feed
\* (zero/app/uart_protocol.py) keeps what it must of what came before.
THEOREM DecoderInvariance == DecoderSpec => []DecoderInv
<1>1. DecoderInit => DecoderInv
  BY DecoderInitially
<1>2. DecoderInv /\ [DecoderNext]_decoderVars => DecoderInv'
  <2> SUFFICES ASSUME DecoderInv, [DecoderNext]_decoderVars PROVE DecoderInv'
    OBVIOUS
  <2>1. CASE DecoderNext
    BY <2>1, FeedDecodes, NoiseKeepsLine DEF DecoderNext
  <2>2. CASE UNCHANGED decoderVars
    BY <2>2 DEF DecoderInv, DecoderTypes, decoderVars, sending, decoder, Now, Fresh
  <2> QED
    BY <2>1, <2>2
<1> QED
  BY <1>1, <1>2, PTL DEF DecoderSpec

-----------------------------------------------------------------------------
(* What the decoder owes to its caller. *)

\* The frame n as it was sent, behind the first i bytes of w.
Copy(w, n, i) ==
    /\ i \in Nat /\ i + Size(sequence, n) =< Len(w)
    /\ \A k \in 1..Size(sequence, n) : w[i + k] = Encode(n, sequence[n])[k]

LEMMA SentFrame ==
    ASSUME sequence \in Sequences, NEW n \in 1..FrameCount
    PROVE  LET f == Encode(n, sequence[n])
               z == Size(sequence, n)
           IN  /\ f \in Seq(Byte) /\ Len(f) = z /\ z \in Nat /\ z >= 4 /\ n \in Nat /\ n # 0
               /\ Len(sequence[n]) \in Nat /\ Len(sequence[n]) =< MaxPayload
               /\ MaxPayload \in Nat /\ z = Len(sequence[n]) + 4
               /\ f[1].value = Magic /\ f[2].value = Version /\ f[3].value = Len(sequence[n])
               /\ \A k \in 1..z : f[k].frame = n /\ f[k].at = k
               /\ f[z].last
<1> DEFINE p == sequence[n]
           f == Encode(n, p)
           z == Size(sequence, n)
<1>1. p \in Seq(Nat) /\ Len(p) =< MaxPayload /\ MaxPayload \in Nat /\ Len(p) \in Nat
      /\ FrameCount \in Nat /\ Crc(p) \in Nat
  BY SequencePayloads
<1>2. Framed(f, n, p)
  BY <1>1, Encoded
<1>3. Raw(p)[1] = Magic /\ Raw(p)[2] = Version /\ Raw(p)[3] = Len(p)
  BY <1>1, RawValues
<1>4. z = FrameLen(Len(p)) /\ z = Len(p) + 4
  BY <1>1 DEF Size, FrameLen, HeaderLen
<1> HIDE DEF z, f, p
<1>5. z \in Nat /\ z >= 4 /\ 1 \in 1..z /\ 2 \in 1..z /\ 3 \in 1..z /\ z \in 1..z
  BY <1>1, <1>4
<1>6. f \in Seq(Byte) /\ Len(f) = z /\ \A k \in 1..z : /\ f[k].frame = n /\ f[k].at = k
                                                       /\ f[k].last <=> k = z
                                                       /\ f[k].value = Raw(p)[k]
  BY <1>2, <1>4 DEF Framed
<1>7. n \in Nat /\ n # 0
  BY <1>1
<1> QED
  BY <1>1, <1>3, <1>4, <1>5, <1>6, <1>7 DEF z, f, p

LEMMA WithinIs ==
    ASSUME sequence \in Sequences, NEW n \in 1..FrameCount, NEW w \in Seq(Byte)
    PROVE  Within(n, w) <=> \E i : Copy(w, n, i)
<1> DEFINE f == Encode(n, sequence[n])
           z == Size(sequence, n)
<1>1. f \in Seq(Byte) /\ Len(f) = z /\ z \in Nat /\ z >= 4 /\ Len(w) \in Nat
  BY SentFrame
<1> HIDE DEF f, z
<1>2. ASSUME NEW i \in Nat, i + z =< Len(w)
      PROVE  SubSeq(w, i + 1, i + z) = f <=> \A k \in 1..z : w[i + k] = f[k]
  <2> DEFINE u == SubSeq(w, i + 1, i + z)
  <2>1. \A k \in (i + 1)..(i + z) : w[k] \in Byte
    BY <1>1, <1>2
  <2>2. i + 1 \in Int /\ i + z \in Int
    BY <1>1, <1>2
  <2>3. /\ u \in Seq(Byte) /\ Len(u) = (IF i + 1 =< i + z THEN (i + z) - (i + 1) + 1 ELSE 0)
        /\ \A k \in 1..((i + z) - (i + 1) + 1) : u[k] = w[(i + 1) + k - 1]
    BY <2>1, <2>2, SubSeqProperties
  <2> HIDE DEF u
  <2>4. (i + z) - (i + 1) + 1 = z /\ i + 1 =< i + z /\ \A k \in 1..z : (i + 1) + k - 1 = i + k
    BY <1>1, <1>2
  <2>5. Len(u) = z /\ \A k \in 1..z : u[k] = w[i + k]
    BY <2>3, <2>4
  <2>6. u = f <=> \A k \in 1..z : u[k] = f[k]
    BY <1>1, <2>3, <2>5, SeqEqual
  <2> QED
    BY <2>5, <2>6 DEF u
<1>3. ASSUME Within(n, w) PROVE \E i : Copy(w, n, i)
  <2>1. PICK i \in 0..(Len(w) - z) : SubSeq(w, i + 1, i + z) = f
    BY <1>1, <1>3 DEF Within, f
  <2>2. i \in Nat /\ i + z =< Len(w)
    BY <1>1
  <2>3. Copy(w, n, i)
    BY <1>2, <2>1, <2>2 DEF Copy, f, z
  <2> QED
    BY <2>3
<1>4. ASSUME NEW i, Copy(w, n, i) PROVE Within(n, w)
  <2>1. i \in Nat /\ i + z =< Len(w) /\ \A k \in 1..z : w[i + k] = f[k]
    BY <1>4 DEF Copy, f, z
  <2>2. i \in 0..(Len(w) - z) /\ SubSeq(w, i + 1, i + z) = f
    BY <1>1, <1>2, <2>1
  <2> QED
    BY <1>1, <2>2 DEF Within, f
<1> QED
  BY <1>3, <1>4

\* A frame as it was sent, at the start of the buffer, is taken.
LEMMA CopyInFront ==
    ASSUME sequence \in Sequences, NEW n \in 1..FrameCount, NEW b \in Seq(Byte), Copy(b, n, 0)
    PROVE  Started(b) /\ (~Waits(b) => Accepts(b))
<1> DEFINE f == Encode(n, sequence[n])
           z == Size(sequence, n)
<1>1. /\ f \in Seq(Byte) /\ Len(f) = z /\ z \in Nat /\ z >= 4
      /\ Len(sequence[n]) \in Nat /\ Len(sequence[n]) =< MaxPayload /\ z = Len(sequence[n]) + 4
      /\ f[1].value = Magic /\ f[2].value = Version /\ f[3].value = Len(sequence[n])
      /\ \A k \in 1..z : f[k].frame = n /\ f[k].at = k
      /\ f[z].last
  BY SentFrame
<1>2. z =< Len(b) /\ \A k \in 1..z : b[0 + k] = f[k]
  BY <1>1 DEF Copy
<1> HIDE DEF f, z
<1>3. \A k \in 1..z : b[k] = f[k]
  <2> TAKE k \in 1..z
  <2>1. 0 + k = k
    OBVIOUS
  <2> QED
    BY <1>2, <2>1
<1>4. 1 \in 1..z /\ 2 \in 1..z /\ 3 \in 1..z /\ z \in 1..z /\ z \in 1..Len(b) /\ Len(b) \in Nat /\ Len(b) >= 4
  BY <1>1, <1>2
<1>5. b[1].value = Magic /\ b[2].value = Version /\ b[3].value = Len(sequence[n])
  BY <1>1, <1>3, <1>4
<1>6. Started(b)
  <2>1. b # <<>> /\ Head(b) = b[1]
    BY <1>4
  <2> QED
    BY <1>5, <2>1 DEF Started
<1>7. HeaderRight(b)
  BY <1>1, <1>5 DEF HeaderRight, LengthAllowed, HeaderLen
<1>8. Span(b) = z
  <2>1. Len(b) >= 3
    BY <1>4
  <2>2. Span(b) = b[3].value + 4
    BY <2>1, HeaderIs
  <2> QED
    BY <1>1, <1>5, <2>2
<1> DEFINE c == SubSeq(b, 1, z)
<1>9. c \in Seq(Byte) /\ Len(c) = z /\ \A k \in 1..z : c[k] = b[k]
  BY <1>4, CutBuffer
<1> HIDE DEF c
<1>10. CrcRight(c)
  <2>1. c[Len(c)] = f[z] /\ c[1] = f[1] /\ DOMAIN c = 1..z
    BY <1>3, <1>4, <1>9
  <2>2. \A k \in 1..z : c[k].frame = n /\ c[k].at = k
    BY <1>1, <1>3, <1>9
  <2>3. c[1].frame = n
    BY <1>4, <2>2
  <2> QED
    BY <1>1, <2>1, <2>2, <2>3 DEF CrcRight
<1> QED
  BY <1>6, <1>7, <1>8, <1>10 DEF Accepts, c

LEMMA CopyBehind ==
    ASSUME NEW b \in Seq(Byte), NEW n, NEW i, Copy(b, n, i), NEW m, NEW v, Dropped(v, b, m),
           m =< i, Size(sequence, n) \in Nat, v \in Seq(Byte)
    PROVE  Copy(v, n, i - m)
<1> DEFINE z == Size(sequence, n)
<1>1. /\ i \in Nat /\ m \in Nat /\ z \in Nat /\ Len(b) \in Nat /\ Len(v) \in Nat
      /\ i + z =< Len(b) /\ Len(b) = m + Len(v)
      /\ \A k \in 1..Len(v) : v[k] = b[m + k]
      /\ \A k \in 1..z : b[i + k] = Encode(n, sequence[n])[k]
  BY DEF Copy, Dropped
<1>2. i - m \in Nat /\ (i - m) + z =< Len(v)
  BY <1>1
<1>3. ASSUME NEW k \in 1..z PROVE v[(i - m) + k] = Encode(n, sequence[n])[k]
  <2> HIDE DEF z
  <2>1. (i - m) + k \in 1..Len(v) /\ m + ((i - m) + k) = i + k
    BY <1>1
  <2> QED
    BY <1>1, <2>1
<1> QED
  BY <1>2, <1>3 DEF Copy

\* A turn takes a frame that is as it was sent, or leaves it in the buffer.
LEMMA TurnSpares ==
    ASSUME sequence \in Sequences, NEW n \in 1..FrameCount, NEW s \in States,
           \E i : Copy(s.buffer, n, i)
    PROVE  Known(Turn(s).frames, n) \/ \E i : Copy(Turn(s).buffer, n, i)
<1> DEFINE b == s.buffer
           t == Turn(s)
           z == Size(sequence, n)
<1>1. PICK i : Copy(b, n, i)
  OBVIOUS
<1>2. b \in Seq(Byte) /\ t \in States /\ t.buffer \in Seq(Byte) /\ z \in Nat /\ z >= 4
      /\ s.frames \in Seq(0..FrameCount)
  <2>1. t \in States
    BY TurnShortens
  <2> QED
    BY <2>1, SentFrame DEF States
<1>3. i \in Nat /\ i + z =< Len(b) /\ Len(b) \in Nat
  BY <1>1, <1>2 DEF Copy
<1>4. CASE Waits(b)
  BY <1>1, <1>4, TurnShortens
<1>5. CASE Skips(b) \/ Rejects(b)
  <2>1. i # 0
    BY <1>1, <1>2, <1>5, CopyInFront DEF Skips, Rejects
  <2>2. t.buffer = Tail(b) /\ b # <<>>
    BY <1>5, TurnDoes DEF Skips, Rejects, Accepts
  <2>3. Dropped(t.buffer, b, 1) /\ 1 =< i
    BY <1>2, <1>3, <2>1, <2>2, TailDropped
  <2> HIDE DEF t, z
  <2>4. Copy(t.buffer, n, i - 1)
    BY <1>1, <1>2, <2>3, CopyBehind DEF z
  <2> QED
    BY <2>4 DEF t
<1>6. CASE Accepts(b)
  <2> DEFINE m == Span(b)
  <2>1. /\ m \in 1..Len(b)
        /\ \A j \in 1..m : b[j].frame = b[1].frame
    BY <1>2, <1>6, AcceptedFrame
  <2>2. t.buffer = SubSeq(b, m + 1, Len(b)) /\ t.frames = Append(s.frames, b[1].frame)
    BY <1>6, TurnDoes DEF Skips, Rejects, Accepts
  <2>3. Dropped(t.buffer, b, m)
    BY <1>2, <2>1, <2>2, CutBuffer
  <2> HIDE DEF m, t, z
  <2>4. CASE b[1].frame = n
    <3>1. Len(t.frames) = Len(s.frames) + 1 /\ t.frames[Len(s.frames) + 1] = n /\ Len(s.frames) \in Nat
      BY <1>2, <2>2, <2>4
    <3>2. Len(s.frames) + 1 \in 1..Len(t.frames)
      BY <3>1
    <3> QED
      BY <3>1, <3>2 DEF Known, t
  <2>5. CASE b[1].frame # n
    <3>1. m =< i
      <4> SUFFICES ASSUME ~(m =< i) PROVE FALSE
        OBVIOUS
      <4>1. i + 1 \in 1..m /\ 1 \in 1..z
        BY <1>2, <1>3, <2>1
      <4>2. b[i + 1] = Encode(n, sequence[n])[1]
        BY <1>1, <4>1 DEF Copy, z
      <4>3. Encode(n, sequence[n])[1].frame = n
        BY <4>1, SentFrame DEF z
      <4> QED
        BY <2>1, <2>5, <4>1, <4>2, <4>3
    <3>2. Copy(t.buffer, n, i - m)
      BY <1>1, <1>2, <2>3, <3>1, CopyBehind DEF z
    <3> QED
      BY <3>2 DEF t
  <2> QED
    BY <2>4, <2>5
<1>7. Waits(b) \/ Skips(b) \/ Rejects(b) \/ Accepts(b)
  BY DEF Skips, Rejects
<1> QED
  BY <1>4, <1>5, <1>6, <1>7

LEMMA TurnRemembers ==
    ASSUME NEW n, NEW s \in States, Known(s.frames, n)
    PROVE  Known(Turn(s).frames, n)
<1> DEFINE e == s.frames
           t == Turn(s)
<1>1. e \in Seq(0..FrameCount) /\ Len(e) \in Nat
  BY LenProperties DEF States
<1>2. PICK i \in 1..Len(e) : e[i] = n
  BY DEF Known
<1>3. t.frames = e \/ \E x : t.frames = Append(e, x)
  BY TurnDoes
<1> HIDE DEF t
<1>4. ASSUME NEW x, t.frames = Append(e, x) PROVE Known(t.frames, n)
  <2>1. i \in 1..Len(t.frames) /\ t.frames[i] = e[i]
    BY <1>1, <1>4
  <2> QED
    BY <1>2, <2>1 DEF Known
<1> QED
  BY <1>3, <1>4 DEF t

LEMMA FedSurvives ==
    ASSUME DecoderInv, NEW n \in 1..FrameCount, Within(n, fed)
    PROVE  Known(frames, n) \/ Within(n, buffer)
<1> DEFINE P == {x \in States : Known(x.frames, n) \/ \E i : Copy(x.buffer, n, i)}
<1>1. /\ sequence \in Sequences /\ fed \in Seq(Byte) /\ Now = Decode(Fresh(fed)) /\ Now \in States
      /\ Fresh(fed) \in States /\ Fresh(fed).buffer = fed
  BY FreshIsState DEF DecoderInv, DecoderTypes
<1>2. \E i : Copy(fed, n, i)
  BY <1>1, WithinIs
<1>3. Fresh(fed) \in P
  BY <1>1, <1>2
<1>4. ASSUME NEW x \in States, x \in P PROVE Turn(x) \in P
  BY <1>1, <1>4, TurnShortens, TurnSpares, TurnRemembers
<1>5. Now \in P
  <2> HIDE DEF P
  <2> QED
    BY <1>1, <1>3, <1>4, DecodeKeeps
<1>6. Now.frames = frames /\ Now.buffer = buffer
  BY DEF Now
<1>7. buffer \in Seq(Byte)
  BY <1>1, <1>6 DEF States
<1>8. Known(frames, n) \/ \E i : Copy(buffer, n, i)
  BY <1>5, <1>6
<1> QED
  BY <1>1, <1>7, <1>8, WithinIs

\* The frames that are taken are in the order in which they were sent.
LEMMA TurnInLine ==
    ASSUME NEW s \in States, LineTypes(s.frames, s.buffer), InLine(s.frames, s.buffer, sequence)
    PROVE  LineTypes(Turn(s).frames, Turn(s).buffer) /\ InLine(Turn(s).frames, Turn(s).buffer, sequence)
<1> DEFINE b == s.buffer
           e == s.frames
           t == Turn(s)
<1>1. b \in Seq(Byte) /\ e \in Seq(1..FrameCount) /\ t \in States /\ t.buffer \in Seq(Byte)
  <2>1. t \in States
    BY TurnShortens
  <2> QED
    BY <2>1 DEF LineTypes, States
<1>2. CASE Waits(b)
  BY <1>2, TurnShortens
<1>3. CASE Skips(b) \/ Rejects(b)
  <2>1. t.buffer = Tail(b) /\ b # <<>> /\ t.frames = e
    BY <1>3, TurnDoes DEF Skips, Rejects, Accepts
  <2>2. Dropped(t.buffer, b, 1)
    BY <1>1, <2>1, TailDropped
  <2>3. InLine(e, t.buffer, sequence)
    BY <1>1, <2>2, DroppedIsPart, PartRemains, InLineRemains
  <2> QED
    BY <1>1, <2>1, <2>3 DEF LineTypes
<1>4. CASE Accepts(b)
  <2> DEFINE m == Span(b)
             c == SubSeq(b, 1, m)
             n == b[1].frame
  <2>1. m \in 1..Len(b) /\ Len(b) \in Nat /\ 1 \in 1..m /\ CrcRight(c)
    BY <1>1, <1>4, AcceptedFrame DEF Accepts
  <2>2. t.buffer = SubSeq(b, m + 1, Len(b)) /\ t.frames = Append(e, n)
    BY <1>4, TurnDoes DEF Skips, Rejects, Accepts
  <2> HIDE DEF m
  <2>3. Dropped(t.buffer, b, m) /\ c \in Seq(Byte) /\ Len(c) = m /\ \A i \in 1..m : c[i] = b[i]
    BY <1>1, <2>1, <2>2, CutBuffer
  <2> HIDE DEF c, t
  <2>4. c # <<>> /\ Len(c) =< Len(b) /\ (\A i \in 1..Len(c) : b[i] = c[i]) /\ c[1].frame = n
    BY <2>1, <2>3
  <2>5. /\ c[1].frame \in 1..FrameCount
        /\ \A i \in 1..Len(e) : e[i] < c[1].frame
        /\ \A j \in (Len(c) + 1)..Len(b) : b[j].frame # 0 => c[1].frame < b[j].frame
    BY <2>1, <2>3, <2>4, RightCandidate
  <2>6. /\ n \in 1..FrameCount
        /\ \A i \in 1..Len(e) : e[i] < n
        /\ \A j \in (m + 1)..Len(b) : b[j].frame # 0 => n < b[j].frame
    BY <2>3, <2>4, <2>5
  <2> HIDE DEF n
  <2>7. InLine(Append(e, n), t.buffer, sequence)
    BY <1>1, <2>3, <2>6, FrameTold DEF t
  <2>8. Append(e, n) \in Seq(1..FrameCount)
    BY <1>1, <2>6, AppendProperties
  <2> QED
    BY <1>1, <2>2, <2>7, <2>8 DEF LineTypes, n, t
<1>5. Waits(b) \/ Skips(b) \/ Rejects(b) \/ Accepts(b)
  BY DEF Skips, Rejects
<1> QED
  BY <1>2, <1>3, <1>4, <1>5

LEMMA FedOfAll ==
    ASSUME DecoderInv
    PROVE  /\ fed \in Seq(Byte) /\ fed \o line \in Seq(Byte) /\ Remains(fed, fed \o line)
           /\ Len(fed) =< Len(fed \o line) /\ Len(fed) \in Nat
           /\ \A i \in 1..Len(fed) : fed[i] = (fed \o line)[i]
<1>1. fed \in Seq(Byte) /\ line \in Seq(Byte)
  BY DEF DecoderInv, DecoderTypes
<1> DEFINE w == fed \o line
<1>2. Halves(w, fed, line) /\ w \in Seq(Byte) /\ Len(fed) \in Nat /\ Len(line) \in Nat
  BY <1>1, ConcatHalves, ConcatProperties
<1> HIDE DEF w
<1>3. Len(w) = Len(fed) + Len(line) /\ \A i \in 1..Len(fed) : w[i] = fed[i]
  BY <1>2 DEF Halves
<1> DEFINE f == [i \in 1..Len(fed) |-> i]
<1>4. f \in [1..Len(fed) -> 1..Len(w)]
  BY <1>2, <1>3
<1>5. \A i, j \in 1..Len(fed) : i < j => f[i] < f[j]
  OBVIOUS
<1>6. \A i \in 1..Len(fed) : fed[i] = w[f[i]]
  BY <1>3
<1> HIDE DEF f
<1>7. Remains(fed, w)
  BY <1>4, <1>5, <1>6 DEF Remains
<1> QED
  BY <1>1, <1>2, <1>3, <1>7 DEF w

LEMMA TakenInOrder == DecoderInv => Increasing(frames)
<1> SUFFICES ASSUME DecoderInv PROVE Increasing(frames)
  OBVIOUS
<1> DEFINE P == {x \in States : LineTypes(x.frames, x.buffer) /\ InLine(x.frames, x.buffer, sequence)}
<1>1. InLine(<<>>, fed, sequence) /\ fed \in Seq(Byte)
  <2>1. InLine(<<>>, fed \o line, sequence)
    BY DEF DecoderInv
  <2>2. Remains(fed, fed \o line) /\ fed \in Seq(Byte)
    BY FedOfAll
  <2> QED
    BY <2>1, <2>2, InLineRemains
<1>2. Fresh(fed) \in P
  <2>1. LineTypes(<<>>, fed)
    BY <1>1 DEF LineTypes
  <2> QED
    BY <1>1, <2>1, FreshIsState
<1>3. \A x \in States : x \in P => Turn(x) \in P
  BY TurnInLine, TurnShortens
<1>4. Now = Decode(Fresh(fed)) /\ Fresh(fed) \in States
  BY <1>1, FreshIsState DEF DecoderInv
<1>5. Now \in P
  <2> HIDE DEF P
  <2> QED
    BY <1>2, <1>3, <1>4, DecodeKeeps
<1>6. Now.frames = frames
  BY DEF Now
<1> QED
  BY <1>5, <1>6 DEF InLine

-----------------------------------------------------------------------------
(* Without noise, from the start of a frame. *)

\* The buffer starts with a frame, and nothing in it is touched or missing.
Tidy(b) == Straight(b) /\ Placed(b, sequence) /\ (b # <<>> => b[1].at = 1)

LEMMA TidyFrame ==
    ASSUME sequence \in Sequences, NEW b \in Seq(Byte), Tidy(b), b # <<>>
    PROVE  LET n == b[1].frame
               z == Size(sequence, n)
           IN  /\ n \in 1..FrameCount /\ z \in Nat /\ z >= 4 /\ Len(b) \in Nat /\ Len(b) >= 1
               /\ \A k \in 1..Len(b) : k =< z => b[k].frame = n /\ b[k].at = k
               /\ Started(b)
               /\ Len(b) >= 3 => HeaderRight(b) /\ Span(b) = z
               /\ Len(b) >= z => b[z].last
<1> DEFINE n == b[1].frame
           z == Size(sequence, n)
<1>1. Len(b) \in Nat /\ Len(b) >= 1 /\ 1 \in 1..Len(b) /\ Head(b) = b[1]
  OBVIOUS
<1>2. n \in 1..FrameCount
  <2>1. b[1] \in Byte /\ FrameCount \in Nat /\ b[1].frame # 0
    BY <1>1, SequencePayloads DEF Tidy, Straight
  <2> QED
    BY <2>1 DEF Byte
<1>3. /\ z \in Nat /\ z >= 4 /\ n # 0 /\ n \in Nat
      /\ Len(sequence[n]) \in Nat /\ Len(sequence[n]) =< MaxPayload /\ z = Len(sequence[n]) + 4
      /\ sequence[n] \in Seq(Nat) /\ Crc(sequence[n]) \in Nat
  BY <1>2, SentFrame, SequencePayloads
<1> HIDE DEF n
<1>4. ASSUME NEW k \in 1..Len(b), b[k].frame = n
      PROVE  (b[k].last <=> b[k].at = z) /\ b[k].value = Raw(sequence[n])[b[k].at]
  BY <1>3, <1>4 DEF Tidy, Placed
<1> HIDE DEF z
<1> DEFINE T == {k \in Nat : k + 1 =< Len(b) /\ k + 1 =< z => b[k + 1].frame = n /\ b[k + 1].at = k + 1}
<1>5. 0 \in T
  <2>1. b[0 + 1] = b[1] /\ 0 + 1 = 1
    OBVIOUS
  <2>2. b[1].frame = n /\ b[1].at = 1
    BY DEF Tidy, n
  <2> QED
    BY <2>1, <2>2
<1>6. ASSUME NEW k \in Nat, k \in T PROVE k + 1 \in T
  <2> DEFINE j == k + 1
  <2> SUFFICES ASSUME j + 1 =< Len(b), j + 1 =< z PROVE b[j + 1].frame = n /\ b[j + 1].at = j + 1
    BY DEF T
  <2>1. j \in 1..Len(b) /\ j \in 1..(Len(b) - 1) /\ j # z /\ j \in Nat
    BY <1>1, <1>3
  <2>2. b[j].frame = n /\ b[j].at = j
    BY <1>1, <1>3, <1>6, <2>1
  <2> HIDE DEF j
  <2>3. ~b[j].last
    BY <1>4, <2>1, <2>2
  <2>4. Follows(b[j], b[j + 1])
    BY <2>1 DEF Tidy, Straight
  <2> QED
    BY <2>2, <2>3, <2>4 DEF Follows
<1>7. Nat \subseteq T
  <2> HIDE DEF T
  <2> QED
    BY <1>5, <1>6, SetInduction
<1>8. ASSUME NEW k \in 1..Len(b), k =< z PROVE b[k].frame = n /\ b[k].at = k
  <2>1. k - 1 \in Nat /\ (k - 1) + 1 = k /\ k =< Len(b)
    BY <1>1
  <2>2. k - 1 \in T
    BY <1>7, <2>1
  <2> QED
    BY <1>8, <2>1, <2>2
<1>9. Raw(sequence[n])[1] = Magic /\ Raw(sequence[n])[2] = Version /\ Raw(sequence[n])[3] = Len(sequence[n])
  BY <1>3, RawValues
<1> HIDE DEF T
<1>10. Started(b)
  <2>1. b[1].frame = n /\ b[1].at = 1
    BY <1>1, <1>3, <1>8
  <2>2. b[1].value = Magic
    BY <1>1, <1>4, <1>9, <2>1
  <2> QED
    BY <1>1, <2>2 DEF Started
<1>11. ASSUME Len(b) >= 3 PROVE HeaderRight(b) /\ Span(b) = z
  <2>1. 2 \in 1..Len(b) /\ 3 \in 1..Len(b) /\ 2 =< z /\ 3 =< z
    BY <1>1, <1>3, <1>11
  <2>2. b[2].frame = n /\ b[2].at = 2 /\ b[3].frame = n /\ b[3].at = 3
    BY <1>8, <2>1
  <2>3. b[2].value = Version /\ b[3].value = Len(sequence[n])
    BY <1>4, <1>9, <2>1, <2>2
  <2>4. Span(b) = b[3].value + 4
    BY <1>11, HeaderIs
  <2> QED
    BY <1>3, <2>3, <2>4 DEF HeaderRight, LengthAllowed, HeaderLen
<1>12. ASSUME Len(b) >= z PROVE b[z].last
  <2>1. z \in 1..Len(b)
    BY <1>1, <1>3, <1>12
  <2> QED
    BY <1>3, <1>4, <1>8, <2>1
<1> QED
  BY <1>1, <1>2, <1>3, <1>8, <1>10, <1>11, <1>12 DEF n, z

LEMMA TidyBehind ==
    ASSUME NEW b \in Seq(Byte), Tidy(b), NEW m \in 1..Len(b), b[m].last,
           NEW v \in Seq(Byte), Dropped(v, b, m)
    PROVE  Tidy(v)
<1>1. /\ m \in Nat /\ m >= 1 /\ Len(b) \in Nat /\ Len(v) \in Nat /\ Len(b) = m + Len(v)
      /\ \A i \in 1..Len(v) : v[i] = b[m + i]
  BY DEF Dropped
<1>2. Straight(b) /\ Placed(b, sequence)
  BY DEF Tidy
<1>3. m + Len(v) =< Len(b)
  BY <1>1
<1>4. Straight(v)
  BY <1>1, <1>2, <1>3, StraightPart
<1>5. \A i \in 1..Len(v) : m + i \in 1..Len(b)
  BY <1>1
<1>6. Placed(v, sequence)
  BY <1>1, <1>2, <1>5 DEF Placed
<1>7. ASSUME v # <<>> PROVE v[1].at = 1
  <2>1. Len(v) # 0
    BY <1>7
  <2>2. 1 \in 1..Len(v) /\ m \in 1..(Len(b) - 1)
    BY <1>1, <2>1
  <2>3. Follows(b[m], b[m + 1]) /\ v[1] = b[m + 1]
    BY <1>1, <1>2, <2>2 DEF Straight
  <2> QED
    BY <2>3 DEF Follows
<1> QED
  BY <1>4, <1>6, <1>7 DEF Tidy

\* A whole frame is taken, and behind it starts another one.
LEMMA TidyTurn ==
    ASSUME sequence \in Sequences, NEW s \in States, Tidy(s.buffer), s.errors = 0
    PROVE  Tidy(Turn(s).buffer) /\ Turn(s).errors = 0
<1> DEFINE b == s.buffer
           t == Turn(s)
           n == b[1].frame
           z == Size(sequence, n)
<1>1. b \in Seq(Byte) /\ t.buffer \in Seq(Byte)
  <2>1. t \in States
    BY TurnShortens
  <2> QED
    BY <2>1 DEF States
<1>2. CASE Waits(b)
  BY <1>2, TurnShortens
<1>3. CASE ~Waits(b)
  <2>1. b # <<>>
    BY <1>3 DEF Waits
  <2>2. /\ z \in Nat /\ z >= 4 /\ Len(b) \in Nat
        /\ \A k \in 1..Len(b) : k =< z => b[k].frame = n /\ b[k].at = k
        /\ Started(b)
        /\ Len(b) >= 3 => HeaderRight(b) /\ Span(b) = z
        /\ Len(b) >= z => b[z].last
    BY <1>1, <2>1, TidyFrame
  <2> HIDE DEF n, z, t
  <2>3. Len(b) >= 3
    BY <1>3, <2>2 DEF Waits, HeaderLen
  <2>4. Len(b) >= z
    BY <1>3, <2>2, <2>3 DEF Waits, Whole, Span
  <2>5. z \in 1..Len(b) /\ 1 \in 1..z /\ \A k \in 1..z : k \in 1..Len(b) /\ k =< z
    BY <2>2, <2>4
  <2> DEFINE c == SubSeq(b, 1, z)
  <2>6. c \in Seq(Byte) /\ Len(c) = z /\ \A k \in 1..z : c[k] = b[k]
    BY <1>1, <2>5, CutBuffer
  <2> HIDE DEF c
  <2>7. CrcRight(c)
    <3>1. c[Len(c)] = b[z] /\ DOMAIN c = 1..z
      BY <2>5, <2>6
    <3>2. \A k \in 1..z : c[k].frame = n /\ c[k].at = k
      BY <2>2, <2>5, <2>6
    <3>3. c[1].frame = n
      BY <2>5, <3>2
    <3> QED
      BY <2>2, <2>4, <3>1, <3>2, <3>3 DEF CrcRight
  <2>8. Accepts(b)
    BY <1>3, <2>2, <2>3, <2>7 DEF Accepts, c
  <2>9. t.buffer = SubSeq(b, z + 1, Len(b)) /\ t.errors = 0
    BY <2>2, <2>3, <2>8, TurnDoes DEF Skips, Rejects, Accepts, t
  <2>10. Dropped(t.buffer, b, z)
    BY <1>1, <2>5, <2>9, CutBuffer
  <2>11. Tidy(t.buffer)
    BY <1>1, <2>2, <2>4, <2>5, <2>10, TidyBehind
  <2> QED
    BY <2>9, <2>11 DEF t
<1> QED
  BY <1>2, <1>3

\* Nothing that the decoder still waits for is whole.
LEMMA NothingWhole ==
    ASSUME sequence \in Sequences, NEW b \in Seq(Byte), Tidy(b), Waits(b), NEW n \in 1..FrameCount
    PROVE  ~Within(n, b)
<1> SUFFICES ASSUME NEW i, Copy(b, n, i) PROVE FALSE
  BY WithinIs
<1> DEFINE x == Size(sequence, n)
           m == b[1].frame
           z == Size(sequence, m)
<1>1. x \in Nat /\ x >= 4 /\ Encode(n, sequence[n])[1].frame = n /\ Encode(n, sequence[n])[1].at = 1
  <2>1. x \in Nat /\ x >= 4
    BY SentFrame
  <2>2. 1 \in 1..x
    BY <2>1
  <2> HIDE DEF x
  <2> QED
    BY <2>1, <2>2, SentFrame DEF x
<1>2. i \in Nat /\ i + x =< Len(b) /\ Len(b) \in Nat
      /\ \A k \in 1..x : b[i + k] = Encode(n, sequence[n])[k]
  BY DEF Copy
<1> HIDE DEF x
<1>3. b # <<>>
  BY <1>1, <1>2
<1>4. /\ z \in Nat /\ z >= 4
      /\ \A k \in 1..Len(b) : k =< z => b[k].frame = m /\ b[k].at = k
      /\ Started(b)
      /\ Len(b) >= 3 => HeaderRight(b) /\ Span(b) = z
  BY <1>3, TidyFrame
<1> HIDE DEF z
<1>5. Len(b) >= 3
  BY <1>1, <1>2
<1>6. Len(b) < z
  <2>1. ~Whole(b)
    BY <1>2, <1>3, <1>4, <1>5 DEF Waits, HeaderLen
  <2> QED
    BY <1>2, <1>4, <1>5, <2>1 DEF Whole, Span
<1>7. i + 1 \in 1..Len(b) /\ 1 \in 1..x /\ i + 1 =< z
  <2>1. i + 1 =< Len(b) /\ i \in Nat /\ Len(b) \in Nat /\ 1 \in 1..x
    BY <1>1, <1>2
  <2>2. i + 1 =< z
    BY <1>4, <1>6, <2>1
  <2> QED
    BY <2>1, <2>2
<1>8. b[i + 1].frame = n /\ b[i + 1].at = 1
  BY <1>1, <1>2, <1>7
<1>9. b[i + 1].frame = m /\ b[i + 1].at = i + 1
  BY <1>4, <1>7
<1>10. i = 0 /\ n = m
  BY <1>2, <1>8, <1>9
<1> QED
  BY <1>1, <1>2, <1>4, <1>6, <1>10 DEF x, z

LEMMA QuietIsUpToDate == DecoderInv => UpToDate
<1> SUFFICES ASSUME DecoderInv, noise = 0, fed # <<>>, fed[1].at = 1
             PROVE  errors = 0 /\ \A n \in 1..FrameCount : Within(n, fed) => n \in ToSet(frames)
  BY DEF UpToDate
<1> DEFINE P == {x \in States : x.errors = 0 /\ Tidy(x.buffer)}
<1>1. /\ sequence \in Sequences /\ Now = Decode(Fresh(fed)) /\ Now \in States
      /\ InLine(<<>>, fed \o line, sequence) /\ Straight(fed \o line)
  BY DEF DecoderInv, DecoderTypes
<1> DEFINE w == fed \o line
<1>2. /\ fed \in Seq(Byte) /\ w \in Seq(Byte) /\ Len(fed) =< Len(w) /\ Len(fed) \in Nat
      /\ \A i \in 1..Len(fed) : fed[i] = w[i]
      /\ Remains(fed, w)
  BY FedOfAll
<1>3. Tidy(fed)
  <2> HIDE DEF w
  <2>1. 0 + Len(fed) =< Len(w) /\ \A i \in 1..Len(fed) : fed[i] = w[0 + i]
    <3>1. \A i \in 1..Len(fed) : 0 + i = i
      BY <1>2
    <3>2. 0 + Len(fed) = Len(fed)
      BY <1>2
    <3> QED
      BY <1>2, <3>1, <3>2
  <2>2. Straight(fed)
    BY <1>1, <1>2, <2>1, StraightPart DEF w
  <2>3. Placed(fed, sequence)
    BY <1>1, <1>2, InLineRemains DEF InLine, w
  <2> QED
    BY <2>2, <2>3 DEF Tidy
<1>4. Fresh(fed) \in P /\ Fresh(fed) \in States
  BY <1>2, <1>3, FreshIsState
<1>5. \A x \in States : x \in P => Turn(x) \in P
  BY <1>1, TidyTurn, TurnShortens
<1>6. Now \in P /\ Waits(Now.buffer)
  <2> HIDE DEF P
  <2> QED
    BY <1>1, <1>4, <1>5, DecodeKeeps
<1>7. Now.buffer = buffer /\ Now.errors = errors /\ Now.frames = frames
  BY DEF Now
<1>8. errors = 0 /\ Tidy(buffer) /\ Waits(buffer) /\ buffer \in Seq(Byte)
  BY <1>6, <1>7 DEF States
<1>9. ASSUME NEW n \in 1..FrameCount, Within(n, fed) PROVE n \in ToSet(frames)
  <2>1. Known(frames, n)
    BY <1>1, <1>8, <1>9, FedSurvives, NothingWhole
  <2>2. DOMAIN frames = 1..Len(frames)
    BY <1>1, <1>7 DEF States
  <2> QED
    BY <2>1, <2>2 DEF Known, ToSet
<1> QED
  BY <1>8, <1>9

-----------------------------------------------------------------------------
(* The promise of StreamDecoder. *)

LEMMA DecoderIsRight == DecoderInv => FramesAreDecoded
<1> SUFFICES ASSUME DecoderInv PROVE FramesAreDecoded
  OBVIOUS
<1>1. /\ Now = Decode(Fresh(fed)) /\ fed \in Seq(Byte) /\ Now \in States /\ sequence \in Sequences
  BY DEF DecoderInv, DecoderTypes
<1>2. /\ Now.buffer = buffer /\ Now.errors = errors /\ Now.frames = frames
  BY DEF Now
<1>3. /\ buffer \in Seq(Byte) /\ errors \in Nat /\ frames \in Seq(0..FrameCount)
  BY <1>1, <1>2 DEF States
<1>4. Waits(buffer)
  BY <1>1, <1>2, FreshIsState, DecodeRests
<1>5. DecoderTypeOK
  <2>1. ASSUME buffer # <<>> PROVE Head(buffer).value = Magic
    BY <1>4, <2>1 DEF Waits, Started
  <2>2. Len(buffer) < FrameLen(MaxPayload)
    <3>1. MaxPayload \in Nat /\ FrameLen(MaxPayload) = MaxPayload + 4 /\ Len(buffer) \in Nat
      BY <1>1, <1>3, SequencePayloads DEF FrameLen, HeaderLen
    <3>2. CASE Len(buffer) < 3
      BY <3>1, <3>2
    <3>3. CASE ~(Len(buffer) < 3)
      <4>1. Len(buffer) >= 3
        BY <3>1, <3>3
      <4>2. HeaderRight(buffer) /\ ~Whole(buffer)
        BY <1>3, <1>4, <3>3 DEF Waits, HeaderLen
      <4>3. buffer[3].value \in Nat /\ Span(buffer) = buffer[3].value + 4 /\ buffer[3].value =< MaxPayload
        BY <1>3, <4>1, <4>2, HeaderIs DEF HeaderRight, LengthAllowed, HeaderLen
      <4> QED
        BY <3>1, <4>2, <4>3 DEF Whole, Span
    <3> QED
      BY <3>2, <3>3
  <2> QED
    BY <1>3, <2>1, <2>2 DEF DecoderTypeOK
<1>6. ChunksDoNotMatter
  BY <1>1 DEF ChunksDoNotMatter, Now, Fresh
<1>7. IntactFramesSurvive
  <2>1. DOMAIN frames = 1..Len(frames)
    BY <1>3
  <2>2. ASSUME NEW n \in 1..FrameCount, Within(n, fed) PROVE n \in ToSet(frames) \/ Within(n, buffer)
    BY <2>1, <2>2, FedSurvives DEF Known, ToSet
  <2>3. \A i, j \in DOMAIN frames : i < j => frames[i] < frames[j]
    BY <2>1, TakenInOrder DEF Increasing
  <2> QED
    BY <2>2, <2>3 DEF IntactFramesSurvive
<1> QED
  BY <1>5, <1>6, <1>7, QuietIsUpToDate DEF FramesAreDecoded

\* However the serial port cuts the stream into chunks, wherever the Zero joins
\* it and whatever line noise makes of its bytes, IncrementalDecoder.feed
\* (zero/app/uart_protocol.py) ends where it would, fed everything at once; it
\* keeps less than one frame, returns what arrived as it was sent or still has
\* it in its buffer, in the order of sending, and on a quiet line joined at the
\* start of a frame returns each one with its last byte and rejects nothing.
THEOREM FramesAreDecodedAlways == DecoderSpec => []FramesAreDecoded
  BY DecoderInvariance, DecoderIsRight, PTL

=============================================================================
