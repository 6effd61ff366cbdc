----------------------------- MODULE DataLemmas -----------------------------
(***************************************************************************)
(* Facts about numbers and sequences that several proof modules use.  The  *)
(* first ones take the place of an induction: the induction theorems of    *)
(* the library have a predicate as a parameter, a least counterexample is  *)
(* an element of a set.                                                    *)
(***************************************************************************)
EXTENDS Integers, WellFoundedInduction, SequenceTheorems, TLAPS

\* A non-empty set of natural numbers has a least element.
LEMMA LeastNatural ==
  ASSUME NEW T \in SUBSET Nat, T # {}
  PROVE  \E n \in T : \A m \in T : n <= m
<1>1. IsWellFoundedOn(OpToRel(<, Nat), Nat)
  BY NatLessThanWellFounded
<1>2. \A m, n \in Nat : m < n => <<m, n>> \in OpToRel(<, Nat)
  BY DEF OpToRel
<1>3. \E R : IsWellFoundedOn(R, Nat) /\ \A m, n \in Nat : m < n => <<m, n>> \in R
  BY <1>1, <1>2
<1>4. PICK R : IsWellFoundedOn(R, Nat) /\ \A m, n \in Nat : m < n => <<m, n>> \in R
  BY <1>3
<1>5. IsWellFoundedOn(R, Nat) /\ T \subseteq Nat
  BY <1>4
<1>6. \E n \in T : \A m \in T : ~(<<m, n>> \in R)
  BY <1>5, WFMin
<1>7. PICK n \in T : \A m \in T : ~(<<m, n>> \in R)
  BY <1>6
<1>8. \A m \in T : m \in Nat /\ n \in Nat /\ ~(m < n)
  BY <1>4, <1>7
<1> QED
  BY <1>8

\* A set of natural numbers that holds 0 and the successors of its elements
\* holds them all.
LEMMA NatSetInduction ==
  ASSUME NEW S, 0 \in S, \A n \in Nat : n \in S => n + 1 \in S
  PROVE  \A n \in Nat : n \in S
<1> SUFFICES ASSUME {n \in Nat : n \notin S} # {} PROVE FALSE
  OBVIOUS
<1>1. PICK n \in {k \in Nat : k \notin S} : \A m \in {k \in Nat : k \notin S} : n <= m
  BY LeastNatural
<1>2. n # 0 /\ n - 1 \in Nat /\ n - 1 \in S
  BY <1>1
<1> QED
  BY <1>1, <1>2

\* Counting down from n reaches 1.
LEMMA DownwardSetInduction ==
  ASSUME NEW n \in Nat, NEW S, n + 1 \in S, \A k \in 1..n : k + 1 \in S => k \in S
  PROVE  \A k \in 1..(n + 1) : k \in S
<1> DEFINE D == {d \in Nat : d <= n => n + 1 - d \in S}
<1>1. 0 \in D
  OBVIOUS
<1>2. ASSUME NEW d \in Nat, d \in D PROVE d + 1 \in D
  <2> SUFFICES ASSUME d + 1 <= n PROVE n - d \in S
    OBVIOUS
  <2>1. n - d \in 1..n /\ (n - d) + 1 \in S
    BY <1>2
  <2> QED
    BY <2>1
<1>3. \A d \in Nat : d \in D
  <2> HIDE DEF D
  <2> QED
    BY <1>1, <1>2, NatSetInduction
<1>4. ASSUME NEW k \in 1..(n + 1) PROVE k \in S
  <2>1. n + 1 - k \in Nat /\ n + 1 - k <= n /\ n + 1 - (n + 1 - k) = k
    OBVIOUS
  <2> QED
    BY <1>3, <2>1
<1> QED
  BY <1>4

----------------------------------------------------------------------------
(***************************************************************************)
(* A sequence that is a stack.                                             *)
(***************************************************************************)

\* What is below the top.
LEMMA FrontElements ==
  ASSUME NEW S, NEW s \in Seq(S), Len(s) # 0
  PROVE  LET front == SubSeq(s, 1, Len(s) - 1)
         IN  /\ front \in Seq(S) /\ Len(front) = Len(s) - 1
             /\ \A k \in 1..(Len(s) - 1) : front[k] = s[k]
<1> DEFINE n == Len(s) - 1
           front == SubSeq(s, 1, n)
<1>1. 1 \in Int /\ n \in Nat /\ \A k \in 1..n : s[k] \in S
  OBVIOUS
<1>2. /\ front \in Seq(S)
      /\ Len(front) = IF 1 <= n THEN n - 1 + 1 ELSE 0
      /\ \A k \in 1..(n - 1 + 1) : front[k] = s[1 + k - 1]
  <2> HIDE DEF n
  <2> QED
    BY <1>1, SubSeqProperties
<1>3. front = SubSeq(s, 1, Len(s) - 1)
  OBVIOUS
<1> HIDE DEF n, front
<1>4. Len(front) = n /\ \A k \in 1..n : 1 + k - 1 = k /\ k \in 1..(n - 1 + 1)
  BY <1>1, <1>2
<1>5. \A k \in 1..n : front[k] = s[k]
  BY <1>2, <1>4
<1> QED
  BY <1>2, <1>3, <1>4, <1>5 DEF n

\* The top is replaced, and perhaps one more element pushed.
LEMMA ReplaceAndPush ==
  ASSUME NEW S, NEW s \in Seq(S), Len(s) # 0, NEW f \in S, NEW g \in S
  PROVE  LET r == [s EXCEPT ![Len(s)] = f]
             p == r \o <<g>>
         IN  /\ r \in Seq(S) /\ Len(r) = Len(s) /\ r[Len(s)] = f
             /\ \A k \in 1..(Len(s) - 1) : r[k] = s[k]
             /\ p \in Seq(S) /\ Len(p) = Len(s) + 1 /\ p[Len(s)] = f /\ p[Len(s) + 1] = g
             /\ \A k \in 1..(Len(s) - 1) : p[k] = s[k]
<1>1. PICK r : r = [s EXCEPT ![Len(s)] = f]
  OBVIOUS
<1>2. /\ r \in Seq(S) /\ Len(r) = Len(s) /\ r[Len(s)] = f /\ Len(s) \in Nat \ {0}
      /\ \A k \in 1..(Len(s) - 1) : r[k] = s[k]
  BY <1>1
<1>3. <<g>> \in Seq(S) /\ Len(<<g>>) = 1 /\ <<g>>[1] = g
  OBVIOUS
<1>4. /\ r \o <<g>> \in Seq(S) /\ Len(r \o <<g>>) = Len(s) + 1
      /\ \A k \in 1..(Len(s) + 1) :
           (r \o <<g>>)[k] = IF k <= Len(s) THEN r[k] ELSE <<g>>[k - Len(s)]
  BY <1>2, <1>3, ConcatProperties
<1>5. /\ (r \o <<g>>)[Len(s)] = f /\ (r \o <<g>>)[Len(s) + 1] = g
      /\ \A k \in 1..(Len(s) - 1) : (r \o <<g>>)[k] = s[k]
  BY <1>2, <1>3, <1>4
<1> QED
  BY <1>1, <1>2, <1>4, <1>5
----------------------------------------------------------------------------
(***************************************************************************)
(* A loop that appends one piece after the other to a sequence.            *)
(***************************************************************************)

\* concat[k] is what the first k of the n pieces give.
IsConcat(concat, n, piece) ==
  concat = [k \in 0..n |-> IF k = 0 THEN <<>> ELSE concat[k - 1] \o piece[k]]

\* The steps of the loop.
LEMMA ConcatUnfolds ==
  ASSUME NEW n \in Nat, NEW piece, NEW f, IsConcat(f, n, piece)
  PROVE  /\ f[0] = <<>> /\ \A k \in 1..n : f[k] = f[k - 1] \o piece[k]
         /\ f = [k \in 0..n |-> f[k]]
<1>1. f = [k \in 0..n |-> IF k = 0 THEN <<>> ELSE f[k - 1] \o piece[k]]
  BY DEF IsConcat
<1>2. ASSUME NEW k \in 0..n
      PROVE  f[k] = IF k = 0 THEN <<>> ELSE f[k - 1] \o piece[k]
  <2>1. PICK h : h = [j \in 0..n |-> IF j = 0 THEN <<>> ELSE f[j - 1] \o piece[j]]
    OBVIOUS
  <2>2. h[k] = IF k = 0 THEN <<>> ELSE f[k - 1] \o piece[k]
    BY <2>1
  <2>3. f = h
    BY <1>1, <2>1, Zenon
  <2> QED
    BY <2>2, <2>3
<1>3. f = [k \in 0..n |-> f[k]]
  <2>1. PICK h : h = [k \in 0..n |-> IF k = 0 THEN <<>> ELSE f[k - 1] \o piece[k]]
    OBVIOUS
  <2>2. h = [k \in 0..n |-> h[k]]
    BY <2>1
  <2>3. f = h
    BY <1>1, <2>1, Zenon
  <2> QED
    BY <2>2, <2>3
<1>4. 0 \in 0..n /\ \A k \in 1..n : k \in 0..n /\ k # 0
  OBVIOUS
<1> QED
  BY <1>2, <1>3, <1>4

\* There is such a function, and its values are sequences.
LEMMA ConcatExists ==
  ASSUME NEW S, NEW n \in Nat, NEW piece \in [1..n -> Seq(S)]
  PROVE  \E f \in [0..n -> Seq(S)] : IsConcat(f, n, piece)
<1> DEFINE Loops(m, f) ==
             f[0] = <<>> /\ \A k \in 1..m : f[k] = f[k - 1] \o piece[k]
           Good == {m \in Nat : m <= n => \E f \in [0..m -> Seq(S)] : Loops(m, f)}
<1>1. 0 \in Good
  <2> DEFINE f == [k \in 0..0 |-> <<>>]
  <2>1. f \in [0..0 -> Seq(S)]
    OBVIOUS
  <2>2. Loops(0, f)
    OBVIOUS
  <2> QED
    BY <2>1, <2>2
<1>2. ASSUME NEW m \in Nat, m \in Good
      PROVE  m + 1 \in Good
  <2>1. SUFFICES ASSUME m + 1 <= n
                 PROVE  \E g \in [0..(m + 1) -> Seq(S)] : Loops(m + 1, g)
    <3> HIDE DEF Loops
    <3> QED
      OBVIOUS
  <2>2. PICK f \in [0..m -> Seq(S)] : Loops(m, f)
    <3> HIDE DEF Loops
    <3>1. m <= n
      BY <2>1
    <3> QED
      BY <1>2, <3>1
  <2> DEFINE g == [k \in 0..(m + 1) |-> IF k <= m THEN f[k] ELSE f[m] \o piece[m + 1]]
  <2>3. f[m] \o piece[m + 1] \in Seq(S)
    <3>1. m + 1 \in 1..n /\ m \in 0..m
      BY <2>1
    <3>2. PICK a, b \in Seq(S) : a = f[m] /\ b = piece[m + 1]
      BY <3>1
    <3> QED
      BY <3>2
  <2>4. g \in [0..(m + 1) -> Seq(S)]
    BY <2>3
  <2>5. g[0] = <<>>
    BY <2>2
  <2>6. ASSUME NEW k \in 1..(m + 1)
        PROVE  g[k] = g[k - 1] \o piece[k]
    <3>1. CASE k = m + 1
      <4>1. g[k] = f[m] \o piece[k] /\ k - 1 = m /\ g[k - 1] = f[m]
        BY <3>1
      <4> QED
        BY <4>1
    <3>2. CASE k # m + 1
      <4>1. k \in 1..m /\ k - 1 \in 0..m
        BY <2>6, <3>2
      <4>2. g[k] = f[k] /\ g[k - 1] = f[k - 1]
        BY <4>1
      <4> QED
        BY <2>2, <4>1, <4>2
    <3> QED
      BY <3>1, <3>2
  <2> QED
    BY <2>4, <2>5, <2>6
<1>3. \A m \in Nat : m \in Good
  <2> HIDE DEF Good
  <2> QED
    BY <1>1, <1>2, NatSetInduction
<1>4. PICK f \in [0..n -> Seq(S)] : Loops(n, f)
  <2> HIDE DEF Loops
  <2> QED
    BY <1>3
<1>5. f = [k \in 0..n |-> IF k = 0 THEN <<>> ELSE f[k - 1] \o piece[k]]
  <2>1. ASSUME NEW k \in 0..n
        PROVE  f[k] = IF k = 0 THEN <<>> ELSE f[k - 1] \o piece[k]
    <3>1. k # 0 => k \in 1..n
      BY <2>1
    <3> QED
      BY <1>4, <3>1
  <2> QED
    BY <2>1
<1> QED
  BY <1>5 DEF IsConcat

\* What a longer loop gives if its other pieces are empty.
LEMMA ConcatAgree ==
  ASSUME NEW S, NEW n, NEW m, NEW piece, NEW other, NEW f, NEW g,
         n \in Nat, m \in 0..n, f \in [0..n -> Seq(S)],
         IsConcat(f, n, piece), IsConcat(g, m, other),
         \A k \in 1..m : piece[k] = other[k], \A k \in (m + 1)..n : piece[k] = <<>>
  PROVE  f[n] = g[m]
<1> DEFINE Good == {k \in Nat : k <= n => f[k] = IF k <= m THEN g[k] ELSE g[m]}
<1>1. /\ f[0] = <<>> /\ \A k \in 1..n : f[k] = f[k - 1] \o piece[k]
      /\ g[0] = <<>> /\ \A k \in 1..m : g[k] = g[k - 1] \o other[k]
  BY ConcatUnfolds
<1>2. 0 \in Good
  BY <1>1
<1>3. ASSUME NEW k \in Nat, k \in Good
      PROVE  k + 1 \in Good
  <2>1. SUFFICES ASSUME k + 1 <= n
                 PROVE  f[k + 1] = IF k + 1 <= m THEN g[k + 1] ELSE g[m]
    OBVIOUS
  <2>2. k \in 0..n /\ k + 1 \in 1..n /\ (k + 1) - 1 = k
    BY <2>1
  <2>3. f[k + 1] = f[k] \o piece[k + 1]
    BY <1>1, <2>2
  <2>4. CASE k + 1 <= m
    <3>1. k + 1 \in 1..m /\ f[k] = g[k]
      BY <1>3, <2>1, <2>4
    <3>2. g[k + 1] = g[k] \o other[k + 1]
      BY <1>1, <2>2, <3>1
    <3> QED
      BY <2>3, <2>4, <3>1, <3>2
  <2>5. CASE ~(k + 1 <= m)
    <3>1. k + 1 \in (m + 1)..n /\ f[k] = g[m]
      BY <1>3, <2>1, <2>5
    <3>2. f[k] \o <<>> = f[k]
      <4>1. PICK a \in Seq(S) : a = f[k]
        BY <2>2
      <4> QED
        BY <4>1
    <3> QED
      BY <2>3, <2>5, <3>1, <3>2
  <2> QED
    BY <2>4, <2>5
<1>4. \A k \in Nat : k \in Good
  <2> HIDE DEF Good
  <2> QED
    BY <1>2, <1>3, NatSetInduction
<1> QED
  BY <1>4

\* A loop that CHOOSEs its function has such a function.
LEMMA ConcatIsTyped ==
  ASSUME NEW S, NEW n \in Nat, NEW piece \in [1..n -> Seq(S)], NEW f, IsConcat(f, n, piece)
  PROVE  f \in [0..n -> Seq(S)]
<1>1. PICK g \in [0..n -> Seq(S)] : IsConcat(g, n, piece)
  BY ConcatExists
<1> DEFINE Good == {k \in Nat : k <= n => f[k] = g[k]}
<1>2. /\ f[0] = <<>> /\ \A k \in 1..n : f[k] = f[k - 1] \o piece[k]
      /\ g[0] = <<>> /\ \A k \in 1..n : g[k] = g[k - 1] \o piece[k]
      /\ f = [k \in 0..n |-> f[k]]
  <2>1. /\ f[0] = <<>> /\ \A k \in 1..n : f[k] = f[k - 1] \o piece[k]
        /\ f = [k \in 0..n |-> f[k]]
    BY ConcatUnfolds, Zenon
  <2>2. g[0] = <<>> /\ \A k \in 1..n : g[k] = g[k - 1] \o piece[k]
    <3>1. PICK h : h = g
      OBVIOUS
    <3>2. IsConcat(h, n, piece)
      BY <1>1, <3>1
    <3>3. /\ h[0] = <<>> /\ \A k \in 1..n : h[k] = h[k - 1] \o piece[k]
          /\ h = [k \in 0..n |-> h[k]]
      BY <3>2, ConcatUnfolds, Zenon
    <3> QED
      BY <3>1, <3>3, Zenon
  <2> QED
    BY <2>1, <2>2, Zenon
<1>3. 0 \in Good
  BY <1>2
<1>4. ASSUME NEW k \in Nat, k \in Good
      PROVE  k + 1 \in Good
  <2>1. SUFFICES ASSUME k + 1 <= n PROVE f[k + 1] = g[k + 1]
    OBVIOUS
  <2>2. k + 1 \in 1..n /\ (k + 1) - 1 = k /\ f[k] = g[k]
    BY <1>4, <2>1
  <2>3. f[k + 1] = f[k] \o piece[k + 1] /\ g[k + 1] = g[k] \o piece[k + 1]
    BY <1>2, <2>2
  <2> QED
    BY <2>2, <2>3
<1>5. \A k \in Nat : k \in Good
  <2> HIDE DEF Good
  <2> QED
    BY <1>3, <1>4, NatSetInduction
<1>6. \A k \in 0..n : f[k] \in Seq(S)
  BY <1>5
<1> QED
  BY <1>2, <1>6
=============================================================================
