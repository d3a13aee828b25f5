--------------------------- MODULE SequenceLemmas ---------------------------
(***************************************************************************)
(* Lemmas for the proofs about streams: induction over the naturals, taken *)
(* from the theorem that < is well founded; and what three buffers hold,   *)
(* one behind the other, when an item moves on or some are lost.           *)
(***************************************************************************)
EXTENDS Integers, SequencesExt, SequenceTheorems, WellFoundedInduction, TLAPS

-----------------------------------------------------------------------------
(* Induction over the naturals, from the theorem that < is well founded.   *)

LEMMA NatWellFounded == IsWellFoundedOn({ss \in Nat \X Nat : ss[1] < ss[2]}, Nat)
  BY NatLessThanWellFounded DEF OpToRel

LEMMA LeastElement ==
    ASSUME NEW T, T \subseteq Nat, T # {}
    PROVE  \E n \in T : \A m \in T : n =< m
<1> DEFINE R == {ss \in Nat \X Nat : ss[1] < ss[2]}
<1>1. IsWellFoundedOn(R, Nat)
  BY NatWellFounded
<1>2. \A n, m \in Nat : m < n => <<m, n>> \in R
  OBVIOUS
<1> HIDE DEF R
<1>3. PICK n \in T : \A m \in T : <<m, n>> \notin R
  BY <1>1, WFMin
<1>4. n \in Nat /\ \A m \in T : m \in Nat /\ ~(m < n)
  BY <1>2, <1>3
<1> QED
  BY <1>4

LEMMA SetInduction ==
    ASSUME NEW S, 0 \in S, \A n \in Nat : n \in S => n + 1 \in S
    PROVE  Nat \subseteq S
<1> SUFFICES ASSUME Nat \ S # {} PROVE FALSE
  OBVIOUS
<1>1. PICK n \in Nat \ S : \A m \in Nat \ S : n =< m
  BY LeastElement
<1>2. n # 0 /\ n - 1 \in Nat /\ n - 1 + 1 = n
  BY <1>1
<1>3. n - 1 \in S
  BY <1>1, <1>2
<1> QED
  BY <1>1, <1>2, <1>3

\* What a recursive function over 0..n computes, step by step.
Computed(g, v, step, n) == g[0] = v /\ \A m \in 0..(n - 1) : g[m + 1] = step[<<m, g[m]>>]

LEMMA RecursionExists ==
    ASSUME NEW V, NEW v \in V, NEW step \in [Nat \X V -> V], NEW n \in Nat
    PROVE  \E g \in [0..n -> V] : Computed(g, v, step, n)
<1> DEFINE S == {m \in Nat : \E g \in [0..m -> V] : Computed(g, v, step, m)}
<1>1. 0 \in S
  <2> DEFINE g == [m \in 0..0 |-> v]
  <2>1. g \in [0..0 -> V] /\ Computed(g, v, step, 0)
    BY DEF Computed
  <2> QED
    BY <2>1
<1>2. ASSUME NEW k \in Nat, k \in S PROVE k + 1 \in S
  <2>1. PICK g \in [0..k -> V] : Computed(g, v, step, k)
    BY <1>2
  <2> DEFINE next == step[<<k, g[k]>>]
             h == [m \in 0..(k + 1) |-> IF m = k + 1 THEN next ELSE g[m]]
  <2>2. next \in V
    BY <2>1
  <2> HIDE DEF next
  <2>3. h \in [0..(k + 1) -> V]
    BY <2>1, <2>2
  <2>4. (\A m \in 0..k : h[m] = g[m]) /\ h[k + 1] = next
    OBVIOUS
  <2> HIDE DEF h
  <2>5. ASSUME NEW m \in 0..((k + 1) - 1) PROVE h[m + 1] = step[<<m, h[m]>>]
    <3>1. CASE m = k
      BY <2>4, <3>1 DEF next
    <3>2. CASE m # k
      <4>1. m \in 0..(k - 1) /\ m + 1 \in 0..k /\ m \in 0..k
        BY <3>2
      <4> QED
        BY <2>1, <2>4, <4>1 DEF Computed
    <3> QED
      BY <3>1, <3>2
  <2>6. h[0] = v
    BY <2>1, <2>4 DEF Computed
  <2>7. Computed(h, v, step, k + 1)
    BY <2>5, <2>6 DEF Computed
  <2> QED
    BY <2>3, <2>7
<1>3. Nat \subseteq S
  <2> HIDE DEF S
  <2> QED
    BY <1>1, <1>2, SetInduction
<1> QED
  BY <1>3

-----------------------------------------------------------------------------
(* Folds.  The library folds a sequence over its places, the last one first, *)
(* with a recursive function it chooses: that it exists, and what it does.   *)

LEMMA MaxIs ==
    ASSUME NEW T, T \subseteq Nat, NEW m \in T, \A x \in T : x =< m
    PROVE  Max(T) = m
<1>1. \A x \in T : m >= x
  OBVIOUS
<1>2. \A y \in T : (\A x \in T : y >= x) => y = m
  OBVIOUS
<1> QED
  BY <1>1, <1>2 DEF Max

LEMMA GreatestElement ==
    ASSUME NEW n \in Nat, NEW T, T \subseteq 0..n, T # {}
    PROVE  \E m \in T : \A x \in T : x =< m
<1> DEFINE U == {n - x : x \in T}
<1>1. U \subseteq Nat /\ U # {}
  <2>1. PICK x \in T : TRUE
    OBVIOUS
  <2>2. n - x \in U
    BY <2>1
  <2>3. \A x0 \in T : n - x0 \in Nat
    OBVIOUS
  <2> QED
    BY <2>2, <2>3
<1> HIDE DEF U
<1>2. PICK u \in U : \A w \in U : u =< w
  BY <1>1, LeastElement
<1>3. PICK m \in T : u = n - m
  BY DEF U
<1>4. ASSUME NEW x \in T PROVE x =< m
  <2>1. n - x \in U
    BY DEF U
  <2>2. n - m =< n - x
    BY <1>2, <1>3, <2>1
  <2> QED
    BY <2>2
<1> QED
  BY <1>4

\* The folds over the sets of places up to the m-th, for each m.
Partial(g, v, step, n, s) ==
    /\ \A T \in SUBSET (1..n) : g[0][T] = v
    /\ \A m \in 0..(n - 1) : \A T \in SUBSET (1..n) :
          g[m + 1][T] = IF m + 1 \in T THEN step[<<g[m][T], s[m + 1]>>] ELSE g[m][T]

LEMMA PartialFolds ==
    ASSUME NEW X, NEW V, NEW v \in V, NEW step \in [V \X X -> V],
           NEW n \in Nat, NEW s \in [1..n -> X]
    PROVE  \E g \in [0..n -> [SUBSET (1..n) -> V]] : Partial(g, v, step, n, s)
<1> DEFINE W == [SUBSET (1..n) -> V]
           w == [T \in SUBSET (1..n) |-> v]
           Grown(m, f) == [T \in SUBSET (1..n) |->
                              IF m + 1 \in T THEN step[<<f[T], s[m + 1]>>] ELSE f[T]]
           grow == [p \in Nat \X W |-> Grown(p[1], p[2])]
<1>1. w \in W
  OBVIOUS
<1>2. \A m \in Nat, f \in W : Grown(m, f) \in W
  <2> SUFFICES ASSUME NEW m \in Nat, NEW f \in W PROVE Grown(m, f) \in W
    OBVIOUS
  <2>1. ASSUME NEW T \in SUBSET (1..n)
        PROVE  (IF m + 1 \in T THEN step[<<f[T], s[m + 1]>>] ELSE f[T]) \in V
    <3>1. f[T] \in V
      OBVIOUS
    <3>2. ASSUME m + 1 \in T PROVE step[<<f[T], s[m + 1]>>] \in V
      <4>1. s[m + 1] \in X
        BY <3>2
      <4>2. <<f[T], s[m + 1]>> \in V \X X
        BY <3>1, <4>1
      <4> QED
        BY <4>2
    <3> QED
      BY <3>1, <3>2
  <2> QED
    BY <2>1
<1>3. grow \in [Nat \X W -> W]
  <2> HIDE DEF W, Grown
  <2>1. \A p \in Nat \X W : p[1] \in Nat /\ p[2] \in W
    OBVIOUS
  <2> QED
    BY <1>2, <2>1
<1>4. PICK g \in [0..n -> W] : Computed(g, w, grow, n)
  <2> HIDE DEF W, w, grow
  <2> QED
    BY <1>1, <1>3, RecursionExists
<1>5. ASSUME NEW m \in 0..(n - 1) PROVE g[m + 1] = Grown(m, g[m])
  <2>1. g[m] \in W /\ m \in Nat
    <3> HIDE DEF W, w, grow
    <3>1. m \in Nat /\ m \in 0..n
      OBVIOUS
    <3> QED
      BY <1>4, <3>1
  <2>2. grow[<<m, g[m]>>] = Grown(m, g[m])
    <3> HIDE DEF W, Grown
    <3> QED
      BY <2>1
  <2>3. g[m + 1] = grow[<<m, g[m]>>]
    BY <1>4 DEF Computed
  <2> QED
    BY <2>2, <2>3
<1>6. g[0] = w
  BY <1>4 DEF Computed
<1>7. \A T \in SUBSET (1..n) : g[0][T] = v
  BY <1>6
<1>8. ASSUME NEW m \in 0..(n - 1), NEW T \in SUBSET (1..n)
      PROVE  g[m + 1][T] = IF m + 1 \in T THEN step[<<g[m][T], s[m + 1]>>] ELSE g[m][T]
  BY <1>5
<1> QED
  BY <1>4, <1>7, <1>8 DEF Partial

\* The recursive function that FoldLeft chooses exists.
FoldsBy(iter, v, step, n, s) ==
    \A T \in SUBSET (1..n) :
        /\ iter[T] = IF T = {} THEN v ELSE step[<<iter[T \ {Max(T)}], s[Max(T)]>>]
        /\ T # {} => Max(T) \in 1..n /\ T \ {Max(T)} \in SUBSET (1..n)

\* What is folded, and by what.
CanFold(X, V, v, step, n, s) ==
    v \in V /\ step \in [V \X X -> V] /\ n \in Nat /\ s \in [1..n -> X]

LEMMA FoldExists ==
    ASSUME NEW X, NEW V, NEW v, NEW step, NEW n, NEW s, CanFold(X, V, v, step, n, s)
    PROVE  \E iter \in [SUBSET (1..n) -> V] : FoldsBy(iter, v, step, n, s)
<1>0. v \in V /\ step \in [V \X X -> V] /\ n \in Nat /\ s \in [1..n -> X]
  BY DEF CanFold
<1> USE <1>0
<1>1. PICK g \in [0..n -> [SUBSET (1..n) -> V]] : Partial(g, v, step, n, s)
  BY PartialFolds
<1>1a. ASSUME NEW m \in 0..(n - 1), NEW T \in SUBSET (1..n)
       PROVE  /\ m + 1 \in T => g[m + 1][T] = step[<<g[m][T], s[m + 1]>>]
              /\ m + 1 \notin T => g[m + 1][T] = g[m][T]
  <2>1. g[m + 1][T] = IF m + 1 \in T THEN step[<<g[m][T], s[m + 1]>>] ELSE g[m][T]
    BY <1>1 DEF Partial
  <2> QED
    BY <2>1
<1>1b. \A T \in SUBSET (1..n) : g[0][T] = v
  BY <1>1 DEF Partial
<1>2. \A m \in 0..n, T \in SUBSET (1..n) : (\A x \in T : x =< m) => g[n][T] = g[m][T]
  <2> SUFFICES ASSUME NEW m \in 0..n, NEW T \in SUBSET (1..n), \A x \in T : x =< m
               PROVE  g[n][T] = g[m][T]
    OBVIOUS
  <2> DEFINE P == {k \in Nat : m + k =< n => g[m + k][T] = g[m][T]}
  <2>1. 0 \in P
    OBVIOUS
  <2>2. ASSUME NEW k \in Nat, k \in P PROVE k + 1 \in P
    <3> SUFFICES ASSUME m + (k + 1) =< n PROVE g[m + (k + 1)][T] = g[m][T]
      OBVIOUS
    <3>1. m + k \in 0..(n - 1) /\ m + (k + 1) = (m + k) + 1
      OBVIOUS
    <3>2. (m + k) + 1 \notin T
      OBVIOUS
    <3>3. g[(m + k) + 1][T] = g[m + k][T]
      BY <1>1a, <3>1, <3>2
    <3>4. g[m + k][T] = g[m][T]
      BY <2>2, <3>1
    <3> QED
      BY <3>1, <3>3, <3>4
  <2>3. Nat \subseteq P
    <3> HIDE DEF P
    <3> QED
      BY <2>1, <2>2, SetInduction
  <2>4. n - m \in Nat /\ m + (n - m) = n
    OBVIOUS
  <2>5. n - m \in P
    BY <2>3, <2>4
  <2> QED
    BY <2>4, <2>5
<1>3. \A m \in 0..n, T \in SUBSET (1..n), U \in SUBSET (1..n) :
         (\A x \in 1..m : x \in T <=> x \in U) => g[m][T] = g[m][U]
  <2> SUFFICES ASSUME NEW T \in SUBSET (1..n), NEW U \in SUBSET (1..n)
               PROVE  \A m \in 0..n : (\A x \in 1..m : x \in T <=> x \in U) => g[m][T] = g[m][U]
    OBVIOUS
  <2> DEFINE P == {m \in Nat : m =< n /\ (\A x \in 1..m : x \in T <=> x \in U) => g[m][T] = g[m][U]}
  <2>1. 0 \in P
    BY <1>1b
  <2>2. ASSUME NEW m \in Nat, m \in P PROVE m + 1 \in P
    <3> SUFFICES ASSUME m + 1 =< n, \A x \in 1..(m + 1) : x \in T <=> x \in U
                 PROVE  g[m + 1][T] = g[m + 1][U]
      OBVIOUS
    <3>1. m \in 0..(n - 1) /\ (m + 1 \in T <=> m + 1 \in U)
      OBVIOUS
    <3>2. g[m][T] = g[m][U]
      BY <2>2, <3>1
    <3>3. CASE m + 1 \in T
      <4>1. g[m + 1][T] = step[<<g[m][T], s[m + 1]>>] /\ g[m + 1][U] = step[<<g[m][U], s[m + 1]>>]
        BY <1>1a, <3>1, <3>3
      <4> QED
        BY <3>2, <4>1
    <3>4. CASE m + 1 \notin T
      <4>1. g[m + 1][T] = g[m][T] /\ g[m + 1][U] = g[m][U]
        BY <1>1a, <3>1, <3>4
      <4> QED
        BY <3>2, <4>1
    <3> QED
      BY <3>3, <3>4
  <2>3. Nat \subseteq P
    <3> HIDE DEF P
    <3> QED
      BY <2>1, <2>2, SetInduction
  <2> QED
    BY <2>3
<1> DEFINE iter == g[n]
<1>4. iter \in [SUBSET (1..n) -> V]
  <2>1. n \in 0..n
    OBVIOUS
  <2> QED
    BY <2>1
<1>5. ASSUME NEW T \in SUBSET (1..n)
      PROVE  /\ iter[T] = IF T = {} THEN v ELSE step[<<iter[T \ {Max(T)}], s[Max(T)]>>]
             /\ T # {} => Max(T) \in 1..n /\ T \ {Max(T)} \in SUBSET (1..n)
  <2>1. CASE T = {}
    <3>1. g[n][T] = g[0][T]
      BY <1>2, <2>1
    <3> QED
      BY <1>1b, <2>1, <3>1
  <2>2. CASE T # {}
    <3>1. PICK m \in T : \A x \in T : x =< m
      <4>1. T \subseteq 0..n
        OBVIOUS
      <4> QED
        BY <2>2, <4>1, GreatestElement
    <3>2. Max(T) = m
      <4>1. T \subseteq Nat
        OBVIOUS
      <4> QED
        BY <3>1, <4>1, MaxIs
    <3> DEFINE U == T \ {m}
    <3>3. m \in 1..n /\ m - 1 \in 0..(n - 1) /\ (m - 1) + 1 = m /\ m \in 0..n /\ m - 1 \in 0..n
          /\ U \in SUBSET (1..n)
      OBVIOUS
    <3>4. g[n][T] = g[m][T]
      BY <1>2, <3>1, <3>3
    <3>5. g[m][T] = step[<<g[m - 1][T], s[m]>>]
      <4>1. g[(m - 1) + 1][T] = step[<<g[m - 1][T], s[(m - 1) + 1]>>]
        BY <1>1a, <3>3
      <4> QED
        BY <3>3, <4>1
    <3>6. g[m - 1][T] = g[m - 1][U]
      <4>1. \A x \in 1..(m - 1) : x \in T <=> x \in U
        OBVIOUS
      <4> HIDE DEF U
      <4> QED
        BY <1>3, <3>3, <4>1
    <3>7. g[n][U] = g[m - 1][U]
      <4>1. \A x \in U : x =< m - 1
        BY <3>1
      <4> HIDE DEF U
      <4> QED
        BY <1>2, <3>3, <4>1
    <3>8. g[n][T] = step[<<g[n][U], s[m]>>]
      BY <3>4, <3>5, <3>6, <3>7
    <3> HIDE DEF U
    <3> QED
      BY <2>2, <3>2, <3>3, <3>8 DEF U
  <2> QED
    BY <2>1, <2>2
<1>6. FoldsBy(iter, v, step, n, s)
  <2> HIDE DEF iter
  <2> QED
    BY <1>5 DEF FoldsBy
<1> QED
  BY <1>4, <1>6

\* The places up to the k-th, without the last of them.
LEMMA FirstPlaces ==
    ASSUME NEW n \in Nat, NEW k \in 0..(n - 1)
    PROVE  /\ 1..(k + 1) \in SUBSET (1..n) /\ 1..(k + 1) # {} /\ k + 1 \in 1..n
           /\ Max(1..(k + 1)) = k + 1 /\ (1..(k + 1)) \ {k + 1} = 1..k
<1> DEFINE T == 1..(k + 1)
<1>1. /\ T \subseteq Nat /\ k + 1 \in T /\ (\A x \in T : x =< k + 1)
      /\ (\A x \in T : x \in 1..n) /\ \A x : x \in T \ {k + 1} <=> x \in 1..k
  OBVIOUS
<1> HIDE DEF T
<1>2. Max(T) = k + 1
  BY <1>1, MaxIs
<1>3. T \in SUBSET (1..n) /\ T # {} /\ T \ {k + 1} = 1..k /\ k + 1 \in 1..n
  BY <1>1
<1> QED
  BY <1>2, <1>3 DEF T

-----------------------------------------------------------------------------
(* What passes through three buffers, a before b before c. *)

Through(a, b, c) == (a \o b) \o c

\* The sequence t is s without its element k.
Removed(t, s, k) ==
    /\ k \in 1..Len(s)
    /\ Len(t) = Len(s) - 1
    /\ \A i \in 1..Len(t) : t[i] = IF i < k THEN s[i] ELSE s[i + 1]

\* The sequence t is s without some of its elements.
Part(t, s) ==
    \E f \in [1..Len(t) -> 1..Len(s)] :
        /\ \A i, j \in 1..Len(t) : i < j => f[i] < f[j]
        /\ \A i \in 1..Len(t) : t[i] = s[f[i]]

\* What is where in w, the sequences a, b and c one after the other.
Joins(w, a, b, c) ==
    /\ Len(w) = Len(a) + Len(b) + Len(c)
    /\ \A i \in 1..Len(a) : w[i] = a[i]
    /\ \A i \in 1..Len(b) : w[Len(a) + i] = b[i]
    /\ \A i \in 1..Len(c) : w[Len(a) + Len(b) + i] = c[i]

LEMMA ThroughJoins ==
    ASSUME NEW S, NEW a \in Seq(S), NEW b \in Seq(S), NEW c \in Seq(S)
    PROVE  Through(a, b, c) \in Seq(S) /\ Joins(Through(a, b, c), a, b, c)
  BY DEF Through, Joins

\* The last item is the same until it is taken.
LEMMA LastStays ==
    ASSUME NEW S, NEW s \in Seq(S), s # <<>>, Len(s) # 1
    PROVE  Tail(s) # <<>> /\ Tail(s)[Len(Tail(s))] = s[Len(s)]
<1> DEFINE n == Len(s)
           t == Tail(s)
<1>1. n \in Nat /\ n # 0 /\ n # 1
  BY EmptySeq
<1>2. Len(t) = n - 1 /\ \A i \in 1..Len(t) : t[i] = s[i + 1]
  BY HeadTailProperties
<1>3. Len(<<>>) = 0
  OBVIOUS
<1> HIDE DEF n, t
<1>4. n - 1 \in 1..Len(t) /\ (n - 1) + 1 = n /\ Len(t) # 0
  BY <1>1, <1>2
<1>5. t[n - 1] = s[n] /\ t # <<>>
  BY <1>2, <1>3, <1>4
<1> QED
  BY <1>2, <1>5 DEF n, t

LEMMA ThroughMoved ==
    ASSUME NEW S, NEW a \in Seq(S), NEW b \in Seq(S), NEW c \in Seq(S), b # <<>>
    PROVE  Through(Append(a, Head(b)), Tail(b), c) = Through(a, b, c)
<1>1. Head(b) \in S /\ Tail(b) \in Seq(S) /\ Append(a, Head(b)) \in Seq(S)
  BY HeadTailProperties, AppendProperties
<1>2. Append(a, Head(b)) \o Tail(b) = a \o b
  BY <1>1
<1> QED
  BY <1>2 DEF Through

LEMMA ThroughRead ==
    ASSUME NEW S, NEW a \in Seq(S), NEW c \in Seq(S), NEW n \in 1..Len(c)
    PROVE  Through(a, SubSeq(c, 1, n), SubSeq(c, n + 1, Len(c))) = Through(a, <<>>, c)
<1> DEFINE d == SubSeq(c, 1, n)
           e == SubSeq(c, n + 1, Len(c))
<1>1. c = d \o e
  BY ConcatAdjacentSubSeq, SubSeqFull
<1>2. d \in Seq(S) /\ e \in Seq(S)
  BY SubSeqProperties, LenProperties
<1>3. a \o <<>> = a
  BY ConcatEmptySeq
<1> HIDE DEF d, e
<1>4. (a \o d) \o e = a \o (d \o e)
  BY <1>2
<1> QED
  BY <1>1, <1>3, <1>4 DEF Through, d, e

LEMMA ThroughPutBack ==
    ASSUME NEW S, NEW a \in Seq(S), NEW b \in Seq(S), NEW c \in Seq(S)
    PROVE  Through(<<>>, a \o b, c) = Through(a, b, c)
<1>1. a \o b \in Seq(S)
  BY ConcatProperties
<1>2. <<>> \o (a \o b) = a \o b
  BY <1>1, ConcatEmptySeq
<1> QED
  BY <1>2 DEF Through

LEMMA ThroughTaken ==
    ASSUME NEW S, NEW a \in Seq(S), NEW b \in Seq(S), NEW c \in Seq(S), b # <<>>
    PROVE  /\ Removed(Through(a, Tail(b), c), Through(a, b, c), Len(a) + 1)
           /\ Through(a, b, c)[Len(a) + 1] = Head(b)
<1> DEFINE t == Tail(b)
<1>1. t \in Seq(S) /\ Len(t) = Len(b) - 1 /\ (\A i \in 1..Len(t) : t[i] = b[i + 1]) /\ Head(b) = b[1]
      /\ Len(b) > 0
  BY HeadTailProperties
<1>2. Len(a) \in Nat /\ Len(b) \in Nat /\ Len(c) \in Nat
  BY LenProperties
<1> HIDE DEF t
<1> DEFINE w == Through(a, b, c)
           v == Through(a, t, c)
<1>3. Joins(w, a, b, c) /\ Joins(v, a, t, c)
  BY <1>1, ThroughJoins, Zenon
<1> HIDE DEF v, w
<1>4. /\ Len(w) = Len(a) + Len(b) + Len(c) /\ Len(v) = Len(a) + Len(t) + Len(c)
      /\ w[Len(a) + 1] = b[1]
  BY <1>1, <1>2, <1>3 DEF Joins
<1>5. ASSUME NEW i \in 1..Len(v)
      PROVE  v[i] = IF i < Len(a) + 1 THEN w[i] ELSE w[i + 1]
  <2>0. i \in 1..(Len(a) + Len(t) + Len(c))
    BY <1>4
  <2>1. CASE i =< Len(a)
    <3>1. v[i] = a[i] /\ w[i] = a[i]
      BY <1>2, <1>3, <2>0, <2>1 DEF Joins
    <3> QED
      BY <1>2, <2>0, <2>1, <3>1
  <2>2. CASE i > Len(a) /\ i =< Len(a) + Len(t)
    <3> DEFINE j == i - Len(a)
    <3>1. j \in 1..Len(t) /\ j + 1 \in 1..Len(b) /\ i = Len(a) + j /\ i + 1 = Len(a) + (j + 1)
      BY <1>1, <1>2, <2>0, <2>2
    <3> HIDE DEF j
    <3>2. v[i] = t[j] /\ w[i + 1] = b[j + 1]
      BY <1>3, <3>1 DEF Joins
    <3>3. t[j] = b[j + 1]
      BY <1>1, <3>1
    <3> QED
      BY <1>2, <2>0, <2>2, <3>2, <3>3
  <2>3. CASE i > Len(a) + Len(t)
    <3> DEFINE j == i - (Len(a) + Len(t))
    <3>1. j \in 1..Len(c) /\ i = Len(a) + Len(t) + j /\ i + 1 = Len(a) + Len(b) + j
      BY <1>1, <1>2, <2>0, <2>3
    <3> HIDE DEF j
    <3>2. v[i] = c[j] /\ w[i + 1] = c[j]
      BY <1>3, <3>1 DEF Joins
    <3> QED
      BY <1>1, <1>2, <2>0, <2>3, <3>2
  <2> QED
    BY <1>1, <1>2, <2>0, <2>1, <2>2, <2>3
<1>6. w[Len(a) + 1] = Head(b) /\ Len(a) + 1 \in 1..Len(w) /\ Len(v) = Len(w) - 1
  BY <1>1, <1>2, <1>4
<1> QED
  BY <1>5, <1>6 DEF Removed, v, w, t

LEMMA RemovedIsPart ==
    ASSUME NEW S, NEW s \in Seq(S), NEW t \in Seq(S), NEW k, Removed(t, s, k)
    PROVE  Part(t, s)
<1> DEFINE f == [i \in 1..Len(t) |-> IF i < k THEN i ELSE i + 1]
<1>1. Len(s) \in Nat /\ Len(t) \in Nat
  BY LenProperties
<1>2. f \in [1..Len(t) -> 1..Len(s)]
  BY <1>1 DEF Removed
<1>3. \A i, j \in 1..Len(t) : i < j => f[i] < f[j]
  BY <1>1 DEF Removed
<1>4. \A i \in 1..Len(t) : t[i] = s[f[i]]
  BY <1>1 DEF Removed
<1> QED
  BY <1>2, <1>3, <1>4 DEF Part

\* What is left when what lies at the front, or behind a front, is dropped.
LEMMA FrontIsPart ==
    ASSUME NEW S, NEW a \in Seq(S), NEW c \in Seq(S)
    PROVE  Part(c, a \o c)
<1> DEFINE f == [i \in 1..Len(c) |-> Len(a) + i]
<1>1. Len(a) \in Nat /\ Len(c) \in Nat
  BY LenProperties
<1>2. f \in [1..Len(c) -> 1..Len(a \o c)]
  BY <1>1, ConcatProperties
<1>3. \A i, j \in 1..Len(c) : i < j => f[i] < f[j]
  BY <1>1
<1>4. \A i \in 1..Len(c) : c[i] = (a \o c)[f[i]]
  BY <1>1, ConcatProperties
<1> QED
  BY <1>2, <1>3, <1>4 DEF Part

LEMMA MiddleIsPart ==
    ASSUME NEW S, NEW a \in Seq(S), NEW c \in Seq(S), NEW n \in 0..Len(c)
    PROVE  Part(a \o SubSeq(c, n + 1, Len(c)), a \o c)
<1> DEFINE d == SubSeq(c, n + 1, Len(c))
<1>1. Len(a) \in Nat /\ Len(c) \in Nat
  BY LenProperties
<1>2. d \in Seq(S) /\ Len(d) = Len(c) - n /\ \A i \in 1..Len(d) : d[i] = c[n + i]
  <2>1. \A i \in (n + 1)..Len(c) : c[i] \in S
    BY <1>1
  <2>2. n + 1 \in Int /\ Len(c) \in Int
    BY <1>1
  <2> HIDE DEF d
  <2>3. d \in Seq(S) /\ Len(d) = (IF n + 1 =< Len(c) THEN Len(c) - (n + 1) + 1 ELSE 0)
        /\ \A i \in 1..(Len(c) - (n + 1) + 1) : d[i] = c[n + 1 + i - 1]
    BY <2>1, <2>2, SubSeqProperties DEF d
  <2> QED
    BY <1>1, <2>3
<1> HIDE DEF d
<1> DEFINE v == a \o d
           w == a \o c
<1>3. Len(v) = Len(a) + Len(d) /\ \A i \in 1..(Len(a) + Len(d)) : v[i] = IF i =< Len(a) THEN a[i] ELSE d[i - Len(a)]
  BY <1>2, ConcatProperties
<1>4. Len(w) = Len(a) + Len(c) /\ \A i \in 1..(Len(a) + Len(c)) : w[i] = IF i =< Len(a) THEN a[i] ELSE c[i - Len(a)]
  BY ConcatProperties
<1> HIDE DEF v, w
<1> DEFINE f == [i \in 1..Len(v) |-> IF i =< Len(a) THEN i ELSE i + n]
<1>5. f \in [1..Len(v) -> 1..Len(w)]
  BY <1>1, <1>2, <1>3, <1>4
<1>6. \A i, j \in 1..Len(v) : i < j => f[i] < f[j]
  BY <1>1, <1>2, <1>3
<1>7. ASSUME NEW i \in 1..Len(v) PROVE v[i] = w[f[i]]
  <2>1. CASE i =< Len(a)
    BY <1>1, <1>2, <1>3, <1>4, <2>1
  <2>2. CASE i > Len(a)
    <3> DEFINE p == Len(a)  q == Len(c)  r == Len(d)
    <3>0. /\ p \in Nat /\ q \in Nat /\ r = q - n /\ n \in 0..q
          /\ i \in 1..(p + r) /\ i > p
      BY <1>1, <1>2, <1>3, <2>2
    <3>1. f[i] = i + n
      BY <2>2
    <3> HIDE DEF p, q, r, f
    <3>2. /\ i - p \in 1..r /\ i + n \in 1..(p + q) /\ ~(i + n =< p) /\ ~(i =< p)
          /\ (i + n) - p = n + (i - p)
      BY <3>0
    <3>3. v[i] = d[i - p]
      BY <1>3, <3>0, <3>2 DEF p, r
    <3>4. d[i - p] = c[n + (i - p)]
      BY <1>2, <3>2 DEF r
    <3>5. w[i + n] = c[(i + n) - p]
      BY <1>4, <3>2 DEF p, q
    <3> QED
      BY <3>1, <3>2, <3>3, <3>4, <3>5
  <2> QED
    BY <1>1, <1>3, <2>1, <2>2
<1> QED
  BY <1>5, <1>6, <1>7 DEF Part, v, w, d

LEMMA ThroughArrived ==
    ASSUME NEW S, NEW a \in Seq(S), NEW b \in Seq(S), NEW c \in Seq(S), c # <<>>
    PROVE  Through(a, Append(b, Head(c)), Tail(c)) = Through(a, b, c)
<1>1. Head(c) \in S /\ Tail(c) \in Seq(S) /\ a \o b \in Seq(S)
  BY HeadTailProperties, ConcatProperties
<1> DEFINE h == Head(c)  d == a \o b
<1>2. a \o Append(b, h) = Append(d, h)
  BY <1>1
<1> HIDE DEF d
<1>3. Append(d, h) \o Tail(c) = d \o c
  BY <1>1
<1> QED
  BY <1>2, <1>3 DEF Through, d

LEMMA ThroughLost ==
    ASSUME NEW S, NEW a \in Seq(S), NEW b \in Seq(S), NEW c \in Seq(S), c # <<>>
    PROVE  /\ Removed(Through(a, b, Tail(c)), Through(a, b, c), Len(a) + Len(b) + 1)
           /\ Through(a, b, c)[Len(a) + Len(b) + 1] = Head(c)
<1> DEFINE d == a \o b
<1>1. d \in Seq(S) /\ Len(d) = Len(a) + Len(b) /\ <<>> \in Seq(S) /\ Tail(c) \in Seq(S)
  BY ConcatProperties, HeadTailProperties
<1>2. Through(a, b, c) = d \o c /\ Through(a, b, Tail(c)) = d \o Tail(c)
  BY DEF Through
<1> HIDE DEF d
<1>3. Through(d, c, <<>>) = d \o c /\ Through(d, Tail(c), <<>>) = d \o Tail(c)
  BY <1>1 DEF Through
<1>4. /\ Removed(Through(d, Tail(c), <<>>), Through(d, c, <<>>), Len(d) + 1)
      /\ Through(d, c, <<>>)[Len(d) + 1] = Head(c)
  BY <1>1, ThroughTaken
<1> QED
  BY <1>1, <1>2, <1>3, <1>4

\* What is where in w, the sequence b after a.
Halves(w, a, b) ==
    /\ Len(w) = Len(a) + Len(b)
    /\ \A i \in 1..Len(a) : w[i] = a[i]
    /\ \A i \in 1..Len(b) : w[Len(a) + i] = b[i]

LEMMA ConcatHalves ==
    ASSUME NEW S, NEW a \in Seq(S), NEW b \in Seq(S)
    PROVE  Halves(a \o b, a, b)
  BY DEF Halves

\* The sequence t is s but for its element k, which is x.
Changed(t, s, k, x) ==
    /\ k \in 1..Len(s)
    /\ Len(t) = Len(s)
    /\ \A i \in 1..Len(t) : t[i] = IF i = k THEN x ELSE s[i]

LEMMA ThroughChanged ==
    ASSUME NEW S, NEW a \in Seq(S), NEW b \in Seq(S), NEW c \in Seq(S), NEW x \in S, c # <<>>
    PROVE  Changed(Through(a, Append(b, x), Tail(c)), Through(a, b, c), Len(a) + Len(b) + 1, x)
<1> DEFINE d == a \o b
           t == Tail(c)
           u == a \o Append(b, x)
<1>1. /\ d \in Seq(S) /\ Len(d) = Len(a) + Len(b) /\ Len(a) \in Nat /\ Len(b) \in Nat
      /\ t \in Seq(S) /\ Len(t) = Len(c) - 1 /\ (\A i \in 1..Len(t) : t[i] = c[i + 1])
      /\ Len(c) \in Nat /\ Len(c) > 0
  BY ConcatProperties, HeadTailProperties, LenProperties
<1>2. u = Append(d, x)
  OBVIOUS
<1> HIDE DEF d, t, u
<1>3. /\ Len(u) = Len(d) + 1 /\ u[Len(d) + 1] = x /\ \A i \in 1..Len(d) : u[i] = d[i]
      /\ u \in Seq(S)
  BY <1>1, <1>2
<1> DEFINE v == u \o t
           w == d \o c
<1>4. /\ Len(v) = Len(u) + Len(t) /\ (\A i \in 1..Len(u) : v[i] = u[i])
      /\ \A i \in 1..Len(t) : v[Len(u) + i] = t[i]
  <2>1. Halves(v, u, t)
    BY <1>1, <1>3, ConcatHalves, Zenon
  <2> QED
    BY <2>1 DEF Halves
<1>5. /\ Len(w) = Len(d) + Len(c) /\ (\A i \in 1..Len(d) : w[i] = d[i])
      /\ \A i \in 1..Len(c) : w[Len(d) + i] = c[i]
  <2>1. Halves(w, d, c)
    BY <1>1, ConcatHalves, Zenon
  <2> QED
    BY <2>1 DEF Halves
<1> HIDE DEF v, w
<1> DEFINE k == Len(d) + 1
<1>6. k \in 1..Len(w) /\ Len(v) = Len(w) /\ Len(d) \in Nat
  BY <1>1, <1>3, <1>4, <1>5
<1>7. ASSUME NEW i \in 1..Len(v) PROVE v[i] = IF i = k THEN x ELSE w[i]
  <2>1. CASE i =< Len(d)
    <3>1. i \in 1..Len(d) /\ i \in 1..Len(u) /\ i # k
      BY <1>3, <1>6, <2>1
    <3> QED
      BY <1>3, <1>4, <1>5, <3>1
  <2>2. CASE i = k
    <3>1. k \in 1..Len(u)
      BY <1>3, <1>6
    <3> QED
      BY <1>3, <1>4, <2>2, <3>1
  <2>3. CASE i > k
    <3> DEFINE j == i - k
    <3>1. j \in 1..Len(t) /\ j + 1 \in 1..Len(c) /\ i = Len(u) + j /\ i = Len(d) + (j + 1) /\ i # k
      BY <1>1, <1>3, <1>4, <1>6, <2>3
    <3> HIDE DEF j
    <3>2. v[i] = t[j] /\ w[i] = c[j + 1] /\ t[j] = c[j + 1]
      BY <1>1, <1>4, <1>5, <3>1
    <3> QED
      BY <3>1, <3>2
  <2> QED
    BY <1>6, <2>1, <2>2, <2>3
<1>8. Changed(v, w, k, x)
  BY <1>6, <1>7 DEF Changed
<1>9. k = Len(a) + Len(b) + 1
  BY <1>1
<1> QED
  BY <1>8, <1>9 DEF Through, v, w, u, t, d

\* The sequence t is s without its first n elements.
Dropped(t, s, n) ==
    /\ n \in Nat
    /\ Len(s) = n + Len(t)
    /\ \A i \in 1..Len(t) : t[i] = s[n + i]

LEMMA ThroughDropped ==
    ASSUME NEW S, NEW a \in Seq(S), NEW b \in Seq(S), NEW c \in Seq(S)
    PROVE  /\ Dropped(Through(<<>>, b, c), Through(a, b, c), Len(a))
           /\ \A i \in 1..Len(a) : Through(a, b, c)[i] = a[i]
<1>1. <<>> \in Seq(S) /\ Len(a) \in Nat /\ Len(b) \in Nat /\ Len(c) \in Nat
  BY LenProperties
<1> DEFINE v == Through(<<>>, b, c)
           w == Through(a, b, c)
<1>2. Joins(v, <<>>, b, c) /\ Joins(w, a, b, c)
  BY <1>1, ThroughJoins, Zenon
<1> HIDE DEF v, w
<1>3. /\ Len(v) = Len(b) + Len(c)
      /\ \A i \in 1..Len(b) : v[i] = b[i]
      /\ \A i \in 1..Len(c) : v[Len(b) + i] = c[i]
  BY <1>1, <1>2 DEF Joins
<1>4. ASSUME NEW i \in 1..Len(v) PROVE v[i] = w[Len(a) + i]
  <2>1. CASE i =< Len(b)
    BY <1>1, <1>2, <1>3, <2>1 DEF Joins
  <2>2. CASE i > Len(b)
    <3> DEFINE j == i - Len(b)
    <3>1. j \in 1..Len(c) /\ i = Len(b) + j /\ Len(a) + i = Len(a) + Len(b) + j
      BY <1>1, <1>3, <2>2
    <3> HIDE DEF j
    <3>2. v[Len(b) + j] = c[j] /\ w[Len(a) + Len(b) + j] = c[j]
      BY <1>2, <1>3, <3>1 DEF Joins
    <3> QED
      BY <3>1, <3>2
  <2> QED
    BY <1>1, <2>1, <2>2
<1>5. Len(w) = Len(a) + Len(v)
  BY <1>1, <1>2, <1>3 DEF Joins
<1>6. \A i \in 1..Len(a) : w[i] = a[i]
  BY <1>2 DEF Joins
<1> QED
  BY <1>1, <1>4, <1>5, <1>6 DEF Dropped, v, w

LEMMA DroppedIsPart ==
    ASSUME NEW S, NEW s \in Seq(S), NEW t \in Seq(S), NEW n, Dropped(t, s, n)
    PROVE  Part(t, s)
<1> DEFINE f == [i \in 1..Len(t) |-> n + i]
<1>1. Len(s) \in Nat /\ Len(t) \in Nat
  BY LenProperties
<1>2. f \in [1..Len(t) -> 1..Len(s)]
  BY <1>1 DEF Dropped
<1>3. \A i, j \in 1..Len(t) : i < j => f[i] < f[j]
  BY <1>1 DEF Dropped
<1>4. \A i \in 1..Len(t) : t[i] = s[f[i]]
  BY DEF Dropped
<1> QED
  BY <1>2, <1>3, <1>4 DEF Part

=============================================================================
