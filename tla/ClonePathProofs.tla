--------------------------- MODULE ClonePathProofs --------------------------
(***************************************************************************)
(* Proofs about convert_abs_rel(), for all pairs of paths, and about       *)
(* ClonePath, for every host and every list of files: what is left of an   *)
(* active call of clone_path() when another one returns or fails.          *)
(***************************************************************************)
EXTENDS ClonePath, DataLemmas, FiniteSetTheorems

----------------------------------------------------------------------------
(***************************************************************************)
(* convert_abs_rel(), for all paths.                                       *)
(***************************************************************************)

\* The components of the source that the loop keeps.
Kept(source, dir) ==
  {j \in 1..Len(source) : j \in BothDiffer(source, dir) \/ j > Len(dir)}

\* The loop goes through the components of the source one by one.
LEMMA RestLoop ==
  ASSUME NEW S, NEW source \in Seq(S), NEW dir \in Seq(S)
  PROVE  \E W : /\ Rest(source, dir) = W[Len(source)] /\ W[0] = <<>>
                /\ \A j \in 1..Len(source) :
                     W[j] = IF j \in Kept(source, dir) THEN Append(W[j - 1], source[j])
                            ELSE W[j - 1]
<1> DEFINE n == Len(source)
           keep(j) == j \in BothDiffer(source, dir) \/ j > Len(dir)
           IsLoop(F, k) == F = [j \in 0..k |-> IF j = 0 THEN <<>>
                                               ELSE IF keep(j) THEN Append(F[j - 1], source[j])
                                               ELSE F[j - 1]]
           Loop == CHOOSE F : IsLoop(F, n)
           Done == {k \in Nat : \E F : IsLoop(F, k)}
<1>1. Rest(source, dir) = Loop[n]
  BY Zenon DEF Rest
<1>2. \A j \in 1..n : keep(j) <=> j \in Kept(source, dir)
  BY DEF Kept
<1>3. n \in Nat
  OBVIOUS
<1> HIDE DEF n, keep
<1>4. 0 \in Done
  <2>1. \A j \in 0..0 : j = 0
    OBVIOUS
  <2>2. IsLoop([j \in 0..0 |-> <<>>], 0)
    BY <2>1
  <2> QED
    BY <2>2
<1>5. ASSUME NEW k \in Nat, k \in Done PROVE k + 1 \in Done
  <2>1. PICK F : IsLoop(F, k)
    BY <1>5
  <2> DEFINE G == [j \in 0..(k + 1) |->
                     IF j <= k THEN F[j]
                     ELSE IF keep(j) THEN Append(F[k], source[j]) ELSE F[k]]
  <2>2. ASSUME NEW j \in 0..(k + 1)
        PROVE  G[j] = IF j = 0 THEN <<>>
                      ELSE IF keep(j) THEN Append(G[j - 1], source[j]) ELSE G[j - 1]
    <3>1. CASE j = 0
      BY <2>1, <3>1
    <3>2. CASE j \in 1..k
      <4>1. G[j] = F[j] /\ G[j - 1] = F[j - 1] /\ j \in 0..k /\ j # 0
        BY <3>2
      <4>2. F[j] = IF keep(j) THEN Append(F[j - 1], source[j]) ELSE F[j - 1]
        BY <2>1, <4>1
      <4> QED
        BY <4>1, <4>2
    <3>3. CASE j = k + 1
      <4>1. G[j - 1] = F[k] /\ j # 0 /\ ~(j <= k)
        BY <3>3
      <4> QED
        BY <4>1
    <3> QED
      BY <3>1, <3>2, <3>3
  <2>3. IsLoop(G, k + 1)
    BY <2>2
  <2> HIDE DEF IsLoop, G
  <2>4. \E H : IsLoop(H, k + 1)
    BY <2>3
  <2> QED
    BY <2>4
<1>6. \A k \in Nat : k \in Done
  <2> HIDE DEF Done
  <2> QED
    BY <1>4, <1>5, NatSetInduction
<1>7. IsLoop(Loop, n)
  <2>1. \E F : IsLoop(F, n)
    BY <1>3, <1>6
  <2> QED
    BY <2>1
<1>8. Loop[0] = <<>>
  <2> HIDE DEF Loop
  <2> QED
    BY <1>3, <1>7
<1>9. ASSUME NEW j \in 1..n
      PROVE  Loop[j] = IF keep(j) THEN Append(Loop[j - 1], source[j]) ELSE Loop[j - 1]
  <2>1. j \in 0..n /\ j # 0
    BY <1>3
  <2> HIDE DEF Loop
  <2> QED
    BY <1>7, <2>1
<1> HIDE DEF Loop
<1> QED
  BY <1>1, <1>2, <1>8, <1>9 DEF n

\* Of paths that differ from a certain depth on, the loop keeps all that is
\* below that depth.
LEMMA RestOfAligned ==
  ASSUME NEW S, NEW source \in Seq(S), NEW dir \in Seq(S),
         NEW c \in 0..Len(source), Kept(source, dir) = (c + 1)..Len(source)
  PROVE  Rest(source, dir) = SubSeq(source, c + 1, Len(source))
<1>1. PICK W : /\ Rest(source, dir) = W[Len(source)] /\ W[0] = <<>>
               /\ \A j \in 1..Len(source) :
                    W[j] = IF j \in (c + 1)..Len(source) THEN Append(W[j - 1], source[j])
                           ELSE W[j - 1]
  BY RestLoop
<1> DEFINE Right == {j \in Nat : j <= Len(source) => W[j] = SubSeq(source, c + 1, j)}
<1>2. 0 \in Right
  <2>1. SubSeq(source, c + 1, 0) = <<>>
    BY SubSeqEmpty
  <2> QED
    BY <1>1, <2>1
<1>3. ASSUME NEW j \in Nat, j \in Right PROVE j + 1 \in Right
  <2> SUFFICES ASSUME j + 1 <= Len(source)
               PROVE  W[j + 1] = SubSeq(source, c + 1, j + 1)
    OBVIOUS
  <2>1. W[j] = SubSeq(source, c + 1, j) /\ j + 1 \in 1..Len(source) /\ (j + 1) - 1 = j
    BY <1>3
  <2>2. CASE j + 1 <= c
    <3>1. W[j + 1] = W[j]
      BY <1>1, <2>1, <2>2
    <3>2. SubSeq(source, c + 1, j) = <<>> /\ SubSeq(source, c + 1, j + 1) = <<>>
      BY <2>2, SubSeqEmpty
    <3> QED
      BY <2>1, <3>1, <3>2
  <2>3. CASE ~(j + 1 <= c)
    <3>1. W[j + 1] = Append(SubSeq(source, c + 1, j), source[j + 1])
      <4>1. j + 1 \in (c + 1)..Len(source)
        BY <2>1, <2>3
      <4>2. W[j + 1] = Append(W[(j + 1) - 1], source[j + 1])
        BY <1>1, <2>1, <4>1
      <4> QED
        BY <2>1, <4>2
    <3>2. /\ c + 1 \in 1..Len(source) + 1 /\ j \in c..Len(source)
          /\ j + 1 \in (c + 1)..Len(source) /\ c + 1 \in 1..Len(source)
      BY <2>1, <2>3
    <3>3. SubSeq(source, c + 1, j + 1) = SubSeq(source, c + 1, (j + 1) - 1) \o <<source[j + 1]>>
      BY <3>2, SubSeqRecursiveSecond
    <3>4. \A i \in (c + 1)..j : source[i] \in S
      BY <3>2
    <3>5. SubSeq(source, c + 1, j) \in Seq(S) /\ source[j + 1] \in S
      BY <3>2, <3>4, SubSeqProperties
    <3>6. Append(SubSeq(source, c + 1, j), source[j + 1]) = SubSeq(source, c + 1, j) \o <<source[j + 1]>>
      BY <3>5, AppendIsConcat
    <3> QED
      BY <2>1, <3>1, <3>3, <3>6
  <2> QED
    BY <2>2, <2>3
<1>4. \A j \in Nat : j \in Right
  <2> HIDE DEF Right
  <2> QED
    BY <1>2, <1>3, NatSetInduction
<1>5. Len(source) \in Nat
  OBVIOUS
<1> QED
  BY <1>1, <1>4, <1>5

\* For aligned paths the link leads to the source.
LEMMA AlignedIsRight ==
  ASSUME NEW S, NEW source \in Seq(S), NEW dir \in Seq(S), Aligned(source, dir)
  PROVE  LeadsTo(dir, ConvertAbsRel(source, dir)) = source
<1>1. PICK c \in 0..Len(dir) :
        /\ c <= Len(source)
        /\ \A j \in 1..c : source[j] = dir[j]
        /\ \A j \in (c + 1)..Len(dir) : j <= Len(source) /\ source[j] # dir[j]
  BY DEF Aligned
<1>2. Len(source) \in Nat /\ Len(dir) \in Nat /\ c \in 0..Len(source)
  BY <1>1
<1>3. BothDiffer(source, dir) = (c + 1)..Len(dir)
  BY <1>1, <1>2 DEF BothDiffer
<1>4. Kept(source, dir) = (c + 1)..Len(source)
  BY <1>1, <1>2, <1>3 DEF Kept
<1>5. Ups(source, dir) = Len(dir) - c
  <2>1. Cardinality((c + 1)..Len(dir)) = IF c + 1 > Len(dir) THEN 0 ELSE Len(dir) - (c + 1) + 1
    <3>1. c + 1 \in Int /\ Len(dir) \in Int
      BY <1>2
    <3> QED
      BY <3>1, FS_Interval
  <2> QED
    BY <1>2, <1>3, <2>1 DEF Ups
<1>6. Rest(source, dir) = SubSeq(source, c + 1, Len(source))
  BY <1>2, <1>4, RestOfAligned
<1>7. LeadsTo(dir, ConvertAbsRel(source, dir)) = SubSeq(dir, 1, c) \o SubSeq(source, c + 1, Len(source))
  <2>1. /\ ConvertAbsRel(source, dir).ups = Len(dir) - c
        /\ ConvertAbsRel(source, dir).rest = SubSeq(source, c + 1, Len(source))
    BY <1>5, <1>6 DEF ConvertAbsRel
  <2>2. Len(dir) - c <= Len(dir) /\ Len(dir) - (Len(dir) - c) = c
    BY <1>2
  <2> QED
    BY <2>1, <2>2 DEF LeadsTo
<1>8. SubSeq(dir, 1, c) = SubSeq(source, 1, c)
  <2>1. /\ \A i \in 1..c : dir[i] \in S /\ source[i] \in S
        /\ 1 \in Int /\ c \in Int
    BY <1>2
  <2>2. /\ SubSeq(dir, 1, c) \in Seq(S) /\ SubSeq(source, 1, c) \in Seq(S)
        /\ Len(SubSeq(dir, 1, c)) = (IF 1 <= c THEN c - 1 + 1 ELSE 0)
        /\ Len(SubSeq(source, 1, c)) = (IF 1 <= c THEN c - 1 + 1 ELSE 0)
        /\ \A i \in 1..c - 1 + 1 : SubSeq(dir, 1, c)[i] = dir[1 + i - 1]
        /\ \A i \in 1..c - 1 + 1 : SubSeq(source, 1, c)[i] = source[1 + i - 1]
    BY <2>1, SubSeqProperties
  <2>3. Len(SubSeq(dir, 1, c)) = c /\ Len(SubSeq(source, 1, c)) = c
    BY <1>2, <2>2
  <2>4. \A i \in 1..c : SubSeq(dir, 1, c)[i] = SubSeq(source, 1, c)[i]
    <3>1. \A i \in 1..c : i \in 1..c - 1 + 1 /\ 1 + i - 1 = i
      BY <1>2
    <3> QED
      BY <1>1, <2>2, <3>1
  <2> QED
    BY <2>2, <2>3, <2>4, SeqEqual
<1>9. SubSeq(source, 1, c) \o SubSeq(source, c + 1, Len(source)) = SubSeq(source, 1, Len(source))
  <2>1. 1 \in 1..Len(source) + 1 /\ c \in 1 - 1..Len(source) /\ Len(source) \in c..Len(source)
    BY <1>2
  <2> QED
    BY <2>1, ConcatAdjacentSubSeq
<1> QED
  BY <1>7, <1>8, <1>9, SubSeqFull

\* What the loop keeps of the source.
LEMMA RestLength ==
  ASSUME NEW S, NEW source \in Seq(S), NEW dir \in Seq(S)
  PROVE  Rest(source, dir) \in Seq(S) /\ Len(Rest(source, dir)) = Cardinality(Kept(source, dir))
<1> DEFINE K(j) == {i \in Kept(source, dir) : i <= j}
<1>1. PICK W : /\ Rest(source, dir) = W[Len(source)] /\ W[0] = <<>>
               /\ \A j \in 1..Len(source) :
                    W[j] = IF j \in Kept(source, dir) THEN Append(W[j - 1], source[j])
                           ELSE W[j - 1]
  BY RestLoop
<1>2. Len(source) \in Nat /\ Kept(source, dir) \subseteq 1..Len(source)
  BY DEF Kept
<1>3. IsFiniteSet(Kept(source, dir))
  <2>1. 1 \in Int /\ Len(source) \in Int
    BY <1>2
  <2>2. IsFiniteSet(1..Len(source))
    BY <2>1, FS_Interval
  <2> QED
    BY <1>2, <2>2, FS_Subset
<1>4. \A j \in Nat : IsFiniteSet(K(j))
  BY <1>3, FS_Subset
<1> DEFINE Right == {j \in Nat : j <= Len(source) =>
                                   W[j] \in Seq(S) /\ Len(W[j]) = Cardinality(K(j))}
<1>5. 0 \in Right
  <2>1. K(0) = {}
    BY <1>2
  <2>2. <<>> \in Seq(S) /\ Len(<<>>) = 0
    OBVIOUS
  <2> QED
    BY <1>1, <2>1, <2>2, FS_EmptySet
<1>6. ASSUME NEW j \in Nat, j \in Right PROVE j + 1 \in Right
  <2> SUFFICES ASSUME j + 1 <= Len(source)
               PROVE  W[j + 1] \in Seq(S) /\ Len(W[j + 1]) = Cardinality(K(j + 1))
    OBVIOUS
  <2>1. /\ W[j] \in Seq(S) /\ Len(W[j]) = Cardinality(K(j))
        /\ j + 1 \in 1..Len(source) /\ (j + 1) - 1 = j
    BY <1>2, <1>6
  <2>2. W[j + 1] = IF j + 1 \in Kept(source, dir) THEN Append(W[j], source[j + 1]) ELSE W[j]
    BY <1>1, <2>1
  <2>3. CASE j + 1 \in Kept(source, dir)
    <3>1. K(j + 1) = K(j) \cup {j + 1} /\ j + 1 \notin K(j)
      BY <1>2, <2>3
    <3>2. IsFiniteSet(K(j))
      BY <1>4
    <3> HIDE DEF K
    <3>3. Cardinality(K(j) \cup {j + 1}) = Cardinality(K(j)) + 1
      BY <3>1, <3>2, FS_AddElement
    <3>4. source[j + 1] \in S
      BY <2>1
    <3>5. /\ Append(W[j], source[j + 1]) \in Seq(S)
          /\ Len(Append(W[j], source[j + 1])) = Len(W[j]) + 1
      BY <2>1, <3>4, AppendProperties
    <3> QED
      BY <2>1, <2>2, <2>3, <3>1, <3>3, <3>5
  <2>4. CASE j + 1 \notin Kept(source, dir)
    <3>1. K(j + 1) = K(j)
      BY <1>2, <2>4
    <3> HIDE DEF K
    <3> QED
      BY <2>1, <2>2, <2>4, <3>1
  <2> QED
    BY <2>3, <2>4
<1>7. \A j \in Nat : j \in Right
  <2> HIDE DEF Right
  <2> QED
    BY <1>5, <1>6, NatSetInduction
<1>8. W[Len(source)] \in Seq(S) /\ Len(W[Len(source)]) = Cardinality(K(Len(source)))
  <2>1. Len(source) \in Nat /\ Len(source) <= Len(source)
    BY <1>2
  <2>2. Len(source) \in Right
    <3> HIDE DEF Right
    <3> QED
      BY <1>7, <2>1
  <2> HIDE DEF K
  <2> QED
    BY <2>1, <2>2
<1>9. K(Len(source)) = Kept(source, dir)
  BY <1>2
<1> HIDE DEF K
<1> QED
  BY <1>1, <1>8, <1>9

\* A link that leads to the source has a path that is aligned with it.
LEMMA RightIsAligned ==
  ASSUME NEW S, NEW source \in Seq(S), NEW dir \in Seq(S),
         LeadsTo(dir, ConvertAbsRel(source, dir)) = source
  PROVE  Aligned(source, dir)
<1> DEFINE n == Len(source)
           d == Len(dir)
           B == BothDiffer(source, dir)
           u == Cardinality(B)
           c == d - u
           rest == Rest(source, dir)
<1>1. n \in Nat /\ d \in Nat
  OBVIOUS
<1>2. B \subseteq 1..d /\ \A j \in B : j \in 1..n /\ j \in 1..d /\ source[j] # dir[j]
  BY DEF BothDiffer
<1>3. \A j \in 1..n : j \in 1..d /\ source[j] # dir[j] => j \in B
  BY DEF BothDiffer
<1>4. Kept(source, dir) = B \cup (d + 1)..n
  BY <1>1, <1>2 DEF Kept
<1>5. rest \in Seq(S) /\ Len(rest) = Cardinality(Kept(source, dir))
  BY RestLength
<1>6. source = SubSeq(dir, 1, IF u <= d THEN d - u ELSE 0) \o rest
  BY DEF LeadsTo, ConvertAbsRel, Ups
<1> HIDE DEF n, d, B, rest
<1>7. IsFiniteSet(B) /\ u \in Nat /\ u <= d
  <2>1. 1 \in Int /\ d \in Int
    BY <1>1
  <2>2. IsFiniteSet(1..d) /\ Cardinality(1..d) = IF 1 > d THEN 0 ELSE d - 1 + 1
    BY <2>1, FS_Interval
  <2>3. IsFiniteSet(B) /\ Cardinality(B) <= Cardinality(1..d)
    BY <1>2, <2>2, FS_Subset
  <2>4. Cardinality(B) \in Nat
    BY <2>3, FS_CardinalityType
  <2> QED
    BY <1>1, <2>2, <2>3, <2>4
<1>8. Cardinality(Kept(source, dir)) = u + (IF d < n THEN n - d ELSE 0)
  <2>1. d + 1 \in Int /\ n \in Int
    BY <1>1
  <2>2. IsFiniteSet((d + 1)..n) /\ Cardinality((d + 1)..n) = IF d + 1 > n THEN 0 ELSE n - (d + 1) + 1
    BY <2>1, FS_Interval
  <2>3. B \cap (d + 1)..n = {}
    BY <1>1, <1>2
  <2>4. Cardinality(B \cup (d + 1)..n) =
          Cardinality(B) + Cardinality((d + 1)..n) - Cardinality(B \cap (d + 1)..n)
    BY <1>7, <2>2, FS_Union
  <2>5. Cardinality(B \cap (d + 1)..n) = 0
    BY <2>3, FS_EmptySet
  <2> QED
    BY <1>1, <1>4, <1>7, <2>2, <2>4, <2>5
<1> HIDE DEF u
<1>9. c \in 0..d /\ source = SubSeq(dir, 1, c) \o rest
  BY <1>1, <1>6, <1>7
<1> HIDE DEF c
<1>10. /\ SubSeq(dir, 1, c) \in Seq(S) /\ Len(SubSeq(dir, 1, c)) = c
       /\ \A i \in 1..c : SubSeq(dir, 1, c)[i] = dir[i]
  <2>1. 1 \in Int /\ c \in Int /\ \A i \in 1..c : dir[i] \in S
    BY <1>1, <1>9 DEF d
  <2>2. /\ SubSeq(dir, 1, c) \in Seq(S)
        /\ Len(SubSeq(dir, 1, c)) = (IF 1 <= c THEN c - 1 + 1 ELSE 0)
        /\ \A i \in 1..c - 1 + 1 : SubSeq(dir, 1, c)[i] = dir[1 + i - 1]
    BY <2>1, SubSeqProperties
  <2>3. \A i \in 1..c : i \in 1..c - 1 + 1 /\ 1 + i - 1 = i
    BY <2>1
  <2> QED
    BY <1>9, <2>2, <2>3
<1>11. n = c + Len(rest) /\ \A i \in 1..c : source[i] = dir[i]
  <2>1. /\ Len(SubSeq(dir, 1, c) \o rest) = Len(SubSeq(dir, 1, c)) + Len(rest)
        /\ \A i \in 1..Len(SubSeq(dir, 1, c)) + Len(rest) :
             (SubSeq(dir, 1, c) \o rest)[i] =
               IF i <= Len(SubSeq(dir, 1, c)) THEN SubSeq(dir, 1, c)[i]
               ELSE rest[i - Len(SubSeq(dir, 1, c))]
    BY <1>5, <1>10, ConcatProperties
  <2>2. Len(rest) \in Nat /\ \A i \in 1..c : i \in 1..c + Len(rest) /\ i <= c
    BY <1>5, <1>9
  <2> QED
    BY <1>9, <1>10, <2>1, <2>2 DEF n
<1>12. d <= n
  BY <1>1, <1>5, <1>7, <1>8, <1>11 DEF c
<1>13. B = (c + 1)..d
  <2>1. B \subseteq (c + 1)..d
    <3>1. ASSUME NEW j \in B PROVE j \in (c + 1)..d
      <4>1. j \in 1..d /\ source[j] # dir[j]
        BY <1>2
      <4>2. j \notin 1..c
        BY <1>11, <4>1
      <4> QED
        BY <1>1, <1>9, <4>1, <4>2
    <3> QED
      BY <3>1
  <2>2. c + 1 \in Int /\ d \in Int
    BY <1>1, <1>9
  <2>3. /\ IsFiniteSet((c + 1)..d)
        /\ Cardinality((c + 1)..d) = IF c + 1 > d THEN 0 ELSE d - (c + 1) + 1
    BY <2>2, FS_Interval
  <2>4. Cardinality((c + 1)..d) = u
    BY <1>1, <1>7, <2>3 DEF c
  <2>5. Cardinality((c + 1)..d) = Cardinality(B)
    BY <2>4 DEF u
  <2> QED
    BY <2>1, <2>3, <2>5, FS_Subset
<1>14. /\ c \in 0..d /\ c <= n /\ \A j \in 1..c : source[j] = dir[j]
       /\ \A j \in (c + 1)..d : j <= n /\ source[j] # dir[j]
  BY <1>1, <1>2, <1>9, <1>11, <1>12, <1>13
<1> QED
  BY <1>14 DEF Aligned, n, d

\* convert_abs_rel() gives the right relative path exactly for the pairs of
\* paths whose components all differ from some depth on.
THEOREM RelativePathsAreRight ==
  ASSUME NEW S, NEW source \in Seq(S), NEW dir \in Seq(S)
  PROVE  RightForAligned(source, dir)
BY AlignedIsRight, RightIsAligned DEF RightForAligned

----------------------------------------------------------------------------
(***************************************************************************)
(* The calls of clone_path().                                              *)
(***************************************************************************)

\* Nothing is left to do for p: it is there, or is the root.
Arrived(p) == Visible(p) \/ p = Root

TypeInv == TypeOK /\ Host(host)

\* What the call of a frame waits for.
Awaited(f) == IF f.at = "link" THEN host.link[f.path] ELSE Parent(f.path)

(***************************************************************************)
(* A call has made nothing writable before it comes to the parent's        *)
(* permissions.  A call waits for the one for its parent or for what its   *)
(* link leads to, and when it is on top again, that has arrived.           *)
(***************************************************************************)
FrameInv(k) ==
  LET f == stack[k]
  IN  /\ f.at \in {"start", "parent"} => ~f.relaxed
      /\ f.at \in {"create", "link"} => Arrived(Parent(f.path))
      /\ IF k # Len(stack)
         THEN f.at \in {"parent", "link"} /\ stack[k + 1].path = Awaited(f)
         ELSE f.at \in {"parent", "link"} => Arrived(Awaited(f))

FramesInv == \A k \in 1..Len(stack) : FrameInv(k)

\* What a link that was created leads to has arrived, if the link is right.
LinksInv ==
  \A q \in dest \ host.dest : host.kind[q] = "link" => Arrived(host.link[q])

\* The files before the next one have arrived, the last of them when the
\* calls for it have returned.
FilesInv ==
  phase \in {"run", "ok"} =>
    /\ \A k \in DOMAIN host.files : k < next \/ phase = "ok" =>
         \/ Arrived(host.files[k])
         \/ k = next - 1 /\ stack # <<>> /\ stack[1].path = host.files[k]
    /\ phase = "ok" => stack = <<>>

\* Only an error leaves a file that is not whole.
WholeInv == phase \in {"run", "ok"} => partial = {}

\* DESTROOTDIR is a tree of real paths, in which only links lead astray.
TreeInv ==
  /\ host.dest \subseteq dest
  /\ \A q \in dest : Real(q) = q /\ host.via[q] \subseteq dest
  /\ \A q \in astray : host.kind[q] = "link"

\* A path without links: what it leads through is its parents only.
Plain(p) == Real(p) = p /\ host.kind[p] # "link"

(***************************************************************************)
(* What a call for a plain path found missing is still missing when it     *)
(* comes to create it: all that is done in between is for its parents.     *)
(***************************************************************************)
FreshInv ==
  \A k \in 1..Len(stack) :
    stack[k].at # "start" /\ Plain(stack[k].path) =>
      /\ stack[k].path \notin dest
      /\ \A j \in (k + 1)..Len(stack) :
           Plain(stack[j].path) /\ Len(stack[j].path) < Len(stack[k].path)

\* No reason for an error lies outside of clone_path() or in the links so far.
Straight ==
  /\ \A p \in Paths : host.kind[p] # "missing" /\ (host.kind[p] = "link" => ~Unlinkable(p))
  /\ host.chmodErr = {} /\ host.createErr = {} /\ Root \in host.dest
  /\ \A p \in Used : Real(p) = p

(***************************************************************************)
(* Without such a reason, no link on the way leads elsewhere, and what any *)
(* active call is to create is not there: another call for the same path,  *)
(* between them, would still wait for what the topmost call relies on.     *)
(***************************************************************************)
SoundInv ==
  Straight /\ astray = {} =>
    /\ phase # "error"
    /\ \A k \in 1..Len(stack) :
         /\ Real(stack[k].path) = stack[k].path
         /\ stack[k].at # "start" => stack[k].path \notin dest

\* A link that leads astray got its path when it was created.
AstrayInv ==
  \A q \in astray : \E p \in Paths \ {Root} : Real(p) = q /\ LeadsAstray(p)

CloneInv ==
  /\ TypeInv /\ FramesInv /\ TreeInv /\ FreshInv /\ SoundInv
  /\ PermissionsRestored /\ LinksInv /\ FilesInv /\ WholeInv /\ AstrayInv

----------------------------------------------------------------------------
(***************************************************************************)
(* The stack and the tree.                                                 *)
(***************************************************************************)

\* The topmost call.
LEMMA TopTypes ==
  ASSUME TypeInv, stack # <<>>
  PROVE  /\ stack \in Seq(Frame) /\ Len(stack) \in Nat \ {0} /\ Len(stack) # 0
         /\ Top = stack[Len(stack)] /\ Top \in Frame
         /\ Top.path \in Paths /\ Top.at \in {"start", "parent", "create", "link"}
         /\ Top.relaxed \in BOOLEAN /\ Real(Top.path) \in Paths /\ DirOf(Top.path) \in Paths
<1>1. stack \in Seq(Frame) /\ Len(stack) \in Nat \ {0} /\ Len(stack) # 0
      /\ Top = stack[Len(stack)] /\ Top \in Frame
  BY DEF TypeInv, TypeOK, Top
<1>2. Top.path \in Paths /\ Top.at \in {"start", "parent", "create", "link"}
      /\ Top.relaxed \in BOOLEAN
  BY <1>1 DEF Frame
<1> QED
  BY <1>1, <1>2 DEF Real, DirOf, TypeInv, Host

\* The three stacks a step of a call builds on.
LEMMA StackTypes ==
  ASSUME TypeInv, stack # <<>>, NEW f \in Frame, NEW g \in Frame
  PROVE  /\ Replace(f) \in Seq(Frame) /\ Len(Replace(f)) = Len(stack)
         /\ Replace(f)[Len(stack)] = f
         /\ \A k \in 1..(Len(stack) - 1) : Replace(f)[k] = stack[k]
         /\ Replace(f) \o <<g>> \in Seq(Frame) /\ Len(Replace(f) \o <<g>>) = Len(stack) + 1
         /\ (Replace(f) \o <<g>>)[Len(stack)] = f /\ (Replace(f) \o <<g>>)[Len(stack) + 1] = g
         /\ \A k \in 1..(Len(stack) - 1) : (Replace(f) \o <<g>>)[k] = stack[k]
         /\ Below \in Seq(Frame) /\ Len(Below) = Len(stack) - 1
         /\ \A k \in 1..(Len(stack) - 1) : Below[k] = stack[k]
BY TopTypes, ReplaceAndPush, FrontElements DEF Replace, Below

Creates == CreateLink \/ CreateDir \/ CopyFile

\* The three ways to create a target: it is created, or it is an error.
LEMMA CreateSteps ==
  ASSUME TypeInv, Creates
  PROVE  /\ phase = "run" /\ stack # <<>> /\ Top.at \in {"create", "link"}
         /\ \/ NotCreated
            \/ /\ Created /\ Reachable(Top.path)
               /\ host.kind[Top.path] = "link" => Top.at = "link"
               /\ \/ astray' = astray
                  \/ /\ LeadsAstray(Top.path) /\ Real(Top.path) \notin dest
                     /\ astray' = astray \cup {Real(Top.path)}
BY DEF Creates, CreateLink, CreateDir, CopyFile, At, Is, Exists

\* Files are only added, and none that was there goes astray.
LEMMA TreeSteps ==
  ASSUME TypeInv, [Next]_vars
  PROVE  /\ host' = host /\ dest \subseteq dest'
         /\ astray' \cap dest \subseteq astray /\ astray \subseteq astray'
<1> USE DEF tree
<1>1. CASE Creates
  BY <1>1, CreateSteps DEF NotCreated, Created, Error
<1>2. CASE CopyFails
  BY <1>2 DEF CopyFails, CutShort, Error
<1>3. CASE Next /\ ~Creates /\ ~CopyFails
  BY <1>3 DEF Next, Creates, InstallNext, AllInstalled, Overflow, AlreadyThere, CloneParent,
     NoSource, RelaxFails, RelaxParent, FollowLink, Unimplemented, Error
<1>4. CASE UNCHANGED vars
  BY <1>4 DEF vars
<1> QED
  BY <1>1, <1>2, <1>3, <1>4

\* What has arrived stays there.
LEMMA ArrivedStable ==
  ASSUME TypeInv, [Next]_vars, NEW p, Arrived(p)
  PROVE  Arrived(p)'
<1>1. host' = host /\ dest \subseteq dest' /\ astray' \cap dest \subseteq astray
  BY TreeSteps
<1> QED
  BY <1>1 DEF Arrived, Visible, Reachable, Real

----------------------------------------------------------------------------
(***************************************************************************)
(* A call returns when its file has arrived, and has restored the          *)
(* permissions that it changed.                                            *)
(***************************************************************************)
Returns ==
  /\ phase = "run" /\ phase' = "run" /\ next' = next
  /\ stack # <<>> /\ stack' = Below
  /\ relaxed' = Restored
  /\ dest' \subseteq dest \cup {Real(Top.path)} /\ partial' \subseteq partial
  /\ \A p : p = Top.path => Arrived(p)'

\* Steps that end the calls.
Ends ==
  /\ phase = "run" /\ phase' \in {"error", "panic", "overflow"} /\ next' = next
  /\ stack' = <<>> \/ (stack' = stack /\ dest' = dest /\ phase' # "error")
  /\ relaxed' \subseteq relaxed

\* The steps with which a call returns Ok, or the program ends, in terms of the stack.
LEMMA ReturnSteps ==
  ASSUME TypeInv, FramesInv, AlreadyThere \/ Creates
  PROVE  Returns \/ Ends
<1>1. CASE AlreadyThere
  <2>1. /\ phase = "run" /\ stack # <<>> /\ Top.at = "start" /\ Arrived(Top.path)
        /\ stack' = Below /\ UNCHANGED <<host, tree, next, phase>>
    BY <1>1 DEF AlreadyThere, At, Arrived
  <2>2. ~Top.relaxed
    BY <2>1, TopTypes DEF FramesInv, FrameInv
  <2>3. ASSUME NEW p, p = Top.path PROVE Arrived(p)'
    BY <2>1, <2>3 DEF Arrived, Visible, Reachable, Real, tree
  <2> QED
    BY <2>1, <2>2, <2>3 DEF Returns, Restored, tree
<1>2. CASE Creates
  <2>1. CASE NotCreated
    BY <1>2, <2>1, CreateSteps DEF NotCreated, Error, Ends, Restored
  <2>2. CASE Created /\ Reachable(Top.path)
    <3>1. /\ phase = "run" /\ stack # <<>> /\ host' = host
          /\ dest' = dest \cup {Real(Top.path)}
          /\ astray' \cap dest \subseteq astray
      BY <1>2, <2>2, CreateSteps DEF Created, NotCreated, Error
    <3>2. ASSUME NEW p, p = Top.path PROVE Arrived(p)'
      BY <2>2, <3>1, <3>2 DEF Arrived, Visible, Reachable, Real
    <3> QED
      BY <2>2, <3>1, <3>2 DEF Returns, Created
  <2> QED
    BY <1>2, <2>1, <2>2, CreateSteps
<1> QED
  BY <1>1, <1>2

\* The kinds of steps: a call returns, or all of them end, or a new one is
\* made, or the target's directory is made writable.
LEMMA StepKinds ==
  ASSUME TypeInv, FramesInv, Next
  PROVE  \/ Returns \/ Ends
         \/ InstallNext \/ AllInstalled \/ CloneParent \/ FollowLink \/ RelaxParent
<1>1. CASE AlreadyThere \/ Creates
  BY <1>1, ReturnSteps
<1>2. CASE CopyFails
  BY <1>2 DEF CopyFails, CutShort, Is, At, Error, Ends, Restored
<1>3. CASE Overflow \/ NoSource \/ RelaxFails \/ Unimplemented
  BY <1>3 DEF Overflow, NoSource, RelaxFails, Unimplemented, Is, At, Error, Ends, tree
<1> QED
  BY <1>1, <1>2, <1>3 DEF Next, Creates

----------------------------------------------------------------------------
(***************************************************************************)
(* The inductive invariant holds at the start.                             *)
(***************************************************************************)
LEMMA StartCloneInv ==
  ASSUME Init
  PROVE  CloneInv
<1> USE DEF Init, Start
<1>1. Host(host)
  BY ClonePathAssumption DEF HostsAreTrees
<1>2. TypeInv
  BY <1>1 DEF TypeInv, TypeOK, Host
<1>3. FramesInv
  BY DEF FramesInv
<1>4. PermissionsRestored
  BY DEF PermissionsRestored
<1>5. LinksInv
  BY DEF LinksInv
<1>6. FilesInv /\ WholeInv
  <2>1. \A k \in DOMAIN host.files : ~(k < 1)
    BY <1>1 DEF Host
  <2> QED
    BY <2>1 DEF FilesInv, WholeInv
<1>7. AstrayInv
  BY DEF AstrayInv
<1>8. TreeInv /\ FreshInv /\ SoundInv
  BY <1>1 DEF TreeInv, FreshInv, SoundInv, Host, Real
<1> QED
  BY <1>2, <1>3, <1>4, <1>5, <1>6, <1>7, <1>8 DEF CloneInv

----------------------------------------------------------------------------
(***************************************************************************)
(* Every step preserves it.                                                *)
(***************************************************************************)

\* The tree, and what is writable in it.
LEMMA StepTreeTypes ==
  ASSUME TypeInv, Next
  PROVE  /\ dest' \subseteq Paths /\ partial' \subseteq dest' /\ astray' \subseteq dest'
         /\ relaxed' \subseteq Paths
<1> USE DEF TypeInv, TypeOK
<1>1. CASE Creates
  <2>1. stack # <<>> /\ Real(Top.path) \in Paths
    BY <1>1, CreateSteps, TopTypes
  <2>2. CASE NotCreated
    BY <2>2 DEF NotCreated, Error, Restored
  <2>3. CASE Created /\ astray' \subseteq astray \cup {Real(Top.path)}
    BY <2>1, <2>3 DEF Created, Restored
  <2> QED
    BY <1>1, <2>2, <2>3, CreateSteps
<1>2. CASE CopyFails
  <2>1. stack # <<>> /\ Real(Top.path) \in Paths
    BY <1>2, TopTypes DEF CopyFails, CutShort, Is, At
  <2> QED
    BY <1>2, <2>1 DEF CopyFails, CutShort, Restored
<1>3. CASE RelaxParent
  <2>1. stack # <<>> /\ DirOf(Top.path) \in Paths
    BY <1>3, TopTypes DEF RelaxParent, At
  <2> QED
    BY <1>3, <2>1 DEF RelaxParent
<1>4. CASE Next /\ ~Creates /\ ~CopyFails /\ ~RelaxParent
  <2>1. tree' = tree
    BY <1>4 DEF Next, Creates, InstallNext, AllInstalled, Overflow, AlreadyThere, CloneParent,
       NoSource, RelaxFails, FollowLink, Unimplemented
  <2> QED
    BY <2>1 DEF tree
<1> QED
  BY <1>1, <1>2, <1>3, <1>4

\* A call for the parent, or for what a link leads to.
Calls(f, g) ==
  /\ phase = "run" /\ stack # <<>> /\ stack' = Replace(f) \o <<g>>
  /\ UNCHANGED <<host, tree, next, phase>>
  /\ f \in Frame /\ g \in Frame
  /\ f.path = Top.path /\ f.path # Root /\ f.relaxed = Top.relaxed
  /\ g.at = "start" /\ ~g.relaxed
  /\ \/ f.at = "parent" /\ ~f.relaxed /\ g.path = Parent(Top.path) /\ ~Visible(Top.path)
     \/ /\ f.at = "link" /\ Top.at = "create"
        /\ g.path = host.link[Top.path] /\ host.kind[Top.path] = "link"

\* The steps that call clone_path() again.
LEMMA CallSteps ==
  ASSUME TypeInv, FramesInv, CloneParent \/ FollowLink
  PROVE  \E f, g : Calls(f, g)
<1>1. CASE CloneParent
  <2>1. /\ phase = "run" /\ stack # <<>> /\ Top.at = "start" /\ Top.path # Root
        /\ ~Visible(Top.path) /\ stack' = Replace([Top EXCEPT !.at = "parent"]) \o <<Call(Parent(Top.path))>>
        /\ UNCHANGED <<host, tree, next, phase>>
    BY <1>1 DEF CloneParent, At, ParentCall
  <2>2. Top.path \in Paths /\ Parent(Top.path) \in Paths /\ Top.relaxed \in BOOLEAN
    BY <2>1, TopTypes, ClonePathAssumption DEF HostsAreTrees
  <2>3. ~Top.relaxed
    BY <2>1, TopTypes DEF FramesInv, FrameInv
  <2>4. PICK f : f = [Top EXCEPT !.at = "parent"]
    OBVIOUS
  <2>5. PICK g : g = Call(Parent(Top.path))
    OBVIOUS
  <2>6. f = [path |-> Top.path, at |-> "parent", relaxed |-> Top.relaxed]
    BY <2>1, <2>4, TopTypes DEF Frame
  <2>7. f \in Frame
    BY <2>2, <2>6 DEF Frame
  <2>8. g = [path |-> Parent(Top.path), at |-> "start", relaxed |-> FALSE]
    BY <2>5 DEF Call
  <2>9. g \in Frame
    BY <2>2, <2>8 DEF Frame
  <2>10. stack' = Replace(f) \o <<g>>
    BY <2>1, <2>4, <2>5
  <2>11. Calls(f, g)
    BY <2>1, <2>3, <2>6, <2>7, <2>8, <2>9, <2>10 DEF Calls
  <2> QED
    BY <2>11
<1>2. CASE FollowLink
  <2>1. /\ phase = "run" /\ stack # <<>> /\ Top.at = "create" /\ host.kind[Top.path] = "link"
        /\ stack' = Replace([Top EXCEPT !.at = "link"]) \o <<Call(host.link[Top.path])>>
        /\ UNCHANGED <<host, tree, next, phase>>
    BY <1>2 DEF FollowLink, Is, At, LinkCall
  <2>2. Top.path \in Paths /\ host.link[Top.path] \in Paths /\ Top.relaxed \in BOOLEAN
    BY <2>1, TopTypes DEF TypeInv, Host
  <2>3. Top.path # Root
    BY <2>1, TopTypes DEF TypeInv, TypeOK
  <2>4. PICK f : f = [Top EXCEPT !.at = "link"]
    OBVIOUS
  <2>5. PICK g : g = Call(host.link[Top.path])
    OBVIOUS
  <2>6. f = [path |-> Top.path, at |-> "link", relaxed |-> Top.relaxed]
    BY <2>1, <2>4, TopTypes DEF Frame
  <2>7. f \in Frame
    BY <2>2, <2>6 DEF Frame
  <2>8. g = [path |-> host.link[Top.path], at |-> "start", relaxed |-> FALSE]
    BY <2>5 DEF Call
  <2>9. g \in Frame
    BY <2>2, <2>8 DEF Frame
  <2>10. stack' = Replace(f) \o <<g>>
    BY <2>1, <2>4, <2>5
  <2>11. Calls(f, g)
    BY <2>1, <2>3, <2>6, <2>7, <2>8, <2>9, <2>10 DEF Calls
  <2> QED
    BY <2>11
<1> QED
  BY <1>1, <1>2

\* The call that has looked at its directory.
Relaxes(f) ==
  /\ phase = "run" /\ stack # <<>> /\ stack' = Replace(f)
  /\ UNCHANGED <<host, dest, partial, astray, next, phase>>
  /\ f \in Frame /\ f.path = Top.path /\ f.path # Root /\ f.at = "create"
  /\ Top.at = "parent" /\ ~Top.relaxed
  /\ \/ relaxed' = relaxed
     \/ f.relaxed /\ relaxed' = relaxed \cup {DirOf(Top.path)}

\* The step that gives the parent write permission.
LEMMA RelaxSteps ==
  ASSUME TypeInv, FramesInv, RelaxParent
  PROVE  \E f : Relaxes(f)
<1> DEFINE readonly == Reachable(Top.path) /\ DirOf(Top.path) \in host.readonly \ relaxed
<1>1. /\ phase = "run" /\ stack # <<>> /\ Top.at = "parent"
      /\ stack' = Replace([Top EXCEPT !.at = "create", !.relaxed = readonly])
      /\ relaxed' = IF readonly THEN relaxed \cup {DirOf(Top.path)} ELSE relaxed
      /\ UNCHANGED <<host, dest, partial, astray, next, phase>>
  BY DEF RelaxParent, ReadOnly, At
<1>2. Top.path \in Paths /\ Top \in Frame
  BY <1>1, TopTypes
<1>3. Top.path # Root /\ ~Top.relaxed
  BY <1>1, TopTypes DEF TypeInv, TypeOK, FramesInv, FrameInv
<1>4. readonly \in BOOLEAN
  BY DEF Reachable
<1> HIDE DEF readonly
<1>5. PICK f : f = [Top EXCEPT !.at = "create", !.relaxed = readonly]
  OBVIOUS
<1>6. f = [path |-> Top.path, at |-> "create", relaxed |-> readonly]
  BY <1>2, <1>5 DEF Frame
<1>7. f \in Frame
  BY <1>2, <1>4, <1>6 DEF Frame
<1>8. f.path = Top.path /\ f.at = "create" /\ f.relaxed = readonly
  BY <1>6
<1>9. \/ relaxed' = relaxed
      \/ f.relaxed /\ relaxed' = relaxed \cup {DirOf(Top.path)}
  BY <1>1, <1>4, <1>8
<1>10. Relaxes(f)
  BY <1>1, <1>3, <1>5, <1>7, <1>8, <1>9 DEF Relaxes
<1> QED
  BY <1>10

\* The stack after a call.
LEMMA CallShape ==
  ASSUME TypeInv, NEW f, NEW g, Calls(f, g)
  PROVE  /\ Len(stack) \in Nat \ {0} /\ Len(stack') = Len(stack) + 1
         /\ stack'[Len(stack)] = f /\ stack'[Len(stack) + 1] = g
         /\ \A k \in 1..(Len(stack) - 1) : stack'[k] = stack[k]
<1>1. stack # <<>> /\ f \in Frame /\ g \in Frame /\ stack' = Replace(f) \o <<g>>
  BY DEF Calls
<1>2. /\ Replace(f) \o <<g>> \in Seq(Frame) /\ Len(Replace(f) \o <<g>>) = Len(stack) + 1
      /\ (Replace(f) \o <<g>>)[Len(stack)] = f /\ (Replace(f) \o <<g>>)[Len(stack) + 1] = g
      /\ \A k \in 1..(Len(stack) - 1) : (Replace(f) \o <<g>>)[k] = stack[k]
  BY <1>1, StackTypes, ZenonT(20)
<1>3. Len(stack) \in Nat \ {0}
  BY <1>1, TopTypes
<1> QED
  BY <1>1, <1>2, <1>3, Zenon

\* The stack after the look at the directory.
LEMMA RelaxShape ==
  ASSUME TypeInv, NEW f, Relaxes(f)
  PROVE  /\ Len(stack) \in Nat \ {0} /\ Len(stack') = Len(stack) /\ stack'[Len(stack)] = f
         /\ \A k \in 1..(Len(stack) - 1) : stack'[k] = stack[k]
<1>1. stack # <<>> /\ f \in Frame /\ stack' = Replace(f)
  BY DEF Relaxes
<1> QED
  BY <1>1, StackTypes, TopTypes

\* The stack after a return.
LEMMA ReturnShape ==
  ASSUME TypeInv, Returns
  PROVE  /\ Len(stack) \in Nat \ {0} /\ Len(stack') = Len(stack) - 1
         /\ Top = stack[Len(stack)]
         /\ \A k \in 1..(Len(stack) - 1) : stack'[k] = stack[k]
<1>1. stack # <<>> /\ stack' = Below
  BY DEF Returns
<1>2. Top \in Frame
  BY <1>1, TopTypes
<1>3. /\ Below \in Seq(Frame) /\ Len(Below) = Len(stack) - 1
      /\ \A k \in 1..(Len(stack) - 1) : Below[k] = stack[k]
  BY <1>1, <1>2, StackTypes
<1> QED
  BY <1>1, <1>3, TopTypes

\* The stack holds calls, of which only those for a link wait for one.
LEMMA StepFrameTypes ==
  ASSUME TypeInv, FramesInv, Next
  PROVE  /\ stack' \in Seq(Frame)
         /\ \A k \in 1..Len(stack') :
              /\ stack'[k].at # "start" => stack'[k].path # Root
              /\ stack'[k].at = "link" => host.kind[stack'[k].path] = "link"
<1> DEFINE Fine(f) == /\ f.at # "start" => f.path # Root
                      /\ f.at = "link" => host.kind[f.path] = "link"
<1>1. \A k \in 1..Len(stack) : Fine(stack[k])
  BY DEF TypeInv, TypeOK
<1>2. stack \in Seq(Frame) /\ Len(stack) \in Nat
  BY DEF TypeInv, TypeOK
<1> SUFFICES stack' \in Seq(Frame) /\ \A k \in 1..Len(stack') : Fine(stack'[k])
  OBVIOUS
<1>3. CASE Returns
  <2>1. stack # <<>> /\ stack' = Below
    BY <1>3 DEF Returns
  <2>2. /\ Below \in Seq(Frame) /\ Len(Below) = Len(stack) - 1
        /\ \A k \in 1..(Len(stack) - 1) : Below[k] = stack[k]
    BY <2>1, TopTypes, StackTypes
  <2> HIDE DEF Fine
  <2> QED
    BY <1>1, <1>2, <2>1, <2>2
<1>4. CASE Ends \/ AllInstalled
  <2>1. stack' = <<>> \/ stack' = stack
    BY <1>4 DEF Ends, AllInstalled
  <2>2. CASE stack' = <<>>
    BY <2>2
  <2>3. CASE stack' = stack
    BY <1>1, <1>2, <2>3
  <2> QED
    BY <2>1, <2>2, <2>3
<1>5. CASE InstallNext
  <2>1. PICK g : g = Call(host.files[next])
    OBVIOUS
  <2>2. stack' = <<g>> /\ host.files[next] \in Paths
    BY <1>5, <2>1 DEF InstallNext, TypeInv, TypeOK, Host
  <2>3. g = [path |-> host.files[next], at |-> "start", relaxed |-> FALSE]
    BY <2>1 DEF Call
  <2>4. g \in Frame /\ g.at = "start"
    BY <2>2, <2>3 DEF Frame
  <2>5. Fine(g)
    BY <2>4
  <2> HIDE DEF Fine
  <2> QED
    BY <2>2, <2>4, <2>5
<1>6. CASE CloneParent \/ FollowLink
  <2>1. PICK f, g : Calls(f, g)
    BY <1>6, CallSteps
  <2>2. stack # <<>> /\ f \in Frame /\ g \in Frame /\ stack' = Replace(f) \o <<g>>
    BY <2>1 DEF Calls
  <2>3. Fine(f) /\ Fine(g)
    BY <2>1 DEF Calls
  <2>4. /\ stack' \in Seq(Frame) /\ Len(stack') = Len(stack) + 1
        /\ stack'[Len(stack)] = f /\ stack'[Len(stack) + 1] = g
        /\ \A k \in 1..(Len(stack) - 1) : stack'[k] = stack[k]
    <3>1. Replace(f) \o <<g>> \in Seq(Frame)
      BY <2>2, StackTypes
    <3> QED
      BY <2>1, <2>2, <3>1, CallShape
  <2> HIDE DEF Fine
  <2>5. ASSUME NEW k \in 1..Len(stack') PROVE Fine(stack'[k])
    <3>1. k \in 1..(Len(stack) - 1) \/ k = Len(stack) \/ k = Len(stack) + 1
      BY <1>2, <2>4, <2>5
    <3> QED
      BY <1>1, <1>2, <2>3, <2>4, <3>1
  <2> QED
    BY <2>4, <2>5
<1>7. CASE RelaxParent
  <2>1. PICK f : Relaxes(f)
    BY <1>7, RelaxSteps
  <2>2. stack # <<>> /\ f \in Frame /\ stack' = Replace(f)
    BY <2>1 DEF Relaxes
  <2>3. Fine(f)
    BY <2>1 DEF Relaxes
  <2>4. /\ stack' \in Seq(Frame) /\ Len(stack') = Len(stack) /\ stack'[Len(stack)] = f
        /\ \A k \in 1..(Len(stack) - 1) : stack'[k] = stack[k]
    BY <2>2, StackTypes
  <2> HIDE DEF Fine
  <2>5. ASSUME NEW k \in 1..Len(stack') PROVE Fine(stack'[k])
    <3>1. k \in 1..(Len(stack) - 1) \/ k = Len(stack)
      BY <1>2, <2>4, <2>5
    <3> QED
      BY <1>1, <1>2, <2>3, <2>4, <3>1
  <2> QED
    BY <2>4, <2>5
<1> HIDE DEF Fine
<1> QED
  BY <1>3, <1>4, <1>5, <1>6, <1>7, StepKinds

\* Types, and the host.
LEMMA StepTypeInv ==
  ASSUME TypeInv, FramesInv, [Next]_vars
  PROVE  TypeInv'
<1>1. CASE Next
  <2>1. host' = host
    BY <1>1, TreeSteps
  <2>2. next' \in Nat \ {0} /\ phase' \in {"run", "ok", "error", "panic", "overflow"}
    <3>1. next \in Nat \ {0} /\ phase \in {"run", "ok", "error", "panic", "overflow"}
      BY DEF TypeInv, TypeOK
    <3>2. CASE Returns \/ Ends \/ InstallNext \/ AllInstalled
      BY <3>1, <3>2 DEF Returns, Ends, InstallNext, AllInstalled, Following
    <3>3. CASE CloneParent \/ FollowLink \/ RelaxParent
      BY <3>1, <3>3 DEF CloneParent, FollowLink, RelaxParent
    <3> QED
      BY <1>1, <3>2, <3>3, StepKinds
  <2>3. Host(host)'
    BY <2>1 DEF TypeInv
  <2> QED
    BY <1>1, <2>1, <2>2, <2>3, StepTreeTypes, StepFrameTypes DEF TypeInv, TypeOK
<1>2. CASE UNCHANGED vars
  BY <1>2 DEF vars, tree, TypeInv, TypeOK
<1> QED
  BY <1>1, <1>2

\* What an active call relies on.
LEMMA StepFramesInv ==
  ASSUME TypeInv, FramesInv, [Next]_vars
  PROVE  FramesInv'
<1>1. CASE UNCHANGED vars
  BY <1>1 DEF vars, tree, FramesInv, FrameInv, Awaited, Arrived, Visible, Reachable, Real
<1>2. CASE Next
  <2> DEFINE Awaits(f) == IF f.at = "link" THEN host.link[f.path] ELSE Parent(f.path)
             Here(p) == \A q : q = p => Arrived(q)'
             Waits(k, f) ==
               /\ f.at \in {"start", "parent"} => ~f.relaxed
               /\ f.at \in {"create", "link"} => Here(Parent(f.path))
               /\ IF k # Len(stack')
                  THEN f.at \in {"parent", "link"} /\ stack'[k + 1].path = Awaits(f)
                  ELSE f.at \in {"parent", "link"} => Here(Awaits(f))
  <2>1. host' = host
    BY <1>2, TreeSteps
  <2>2. SUFFICES ASSUME NEW k \in 1..Len(stack'), NEW f, f = stack'[k] PROVE Waits(k, f)
    <3>1. SUFFICES ASSUME NEW j \in 1..Len(stack') PROVE FrameInv(j)'
      BY DEF FramesInv
    <3>2. PICK g : g = stack'[j]
      OBVIOUS
    <3>3. Waits(j, g)
      BY <2>2, <3>2
    <3>4. PICK p, q : p = Parent(g.path) /\ q = Awaits(g)
      OBVIOUS
    <3>5. /\ g.at \in {"create", "link"} => Arrived(p)'
          /\ j = Len(stack') /\ g.at \in {"parent", "link"} => Arrived(q)'
      BY <3>3, <3>4
    <3>6. Awaited(stack[j])' = q
      BY <2>1, <3>2, <3>4 DEF Awaited
    <3>7. /\ stack'[j].at \in {"create", "link"} => Arrived(Parent(stack[j].path))'
          /\ j = Len(stack') /\ stack'[j].at \in {"parent", "link"} => Arrived(Awaited(stack[j]))'
      BY <3>2, <3>4, <3>5, <3>6 DEF Arrived
    <3> QED
      BY <3>2, <3>3, <3>4, <3>6, <3>7 DEF FrameInv
  <2>3. stack \in Seq(Frame) /\ Len(stack) \in Nat
    BY DEF TypeInv, TypeOK
  <2>4. ASSUME NEW p, Arrived(p) PROVE Here(p)
    BY <1>2, <2>4, ArrivedStable
  <2>5. ASSUME NEW j \in 1..Len(stack), NEW g, g = stack[j]
        PROVE  /\ g.at \in {"start", "parent"} => ~g.relaxed
               /\ g.at \in {"create", "link"} => Here(Parent(g.path))
               /\ j # Len(stack) => g.at \in {"parent", "link"} /\ stack[j + 1].path = Awaits(g)
               /\ j = Len(stack) /\ g.at \in {"parent", "link"} => Here(Awaits(g))
    <3>1. FrameInv(j)
      BY DEF FramesInv
    <3>2. Awaited(g) = Awaits(g)
      BY DEF Awaited
    <3> HIDE DEF Awaits, Here
    <3> QED
      BY <2>4, <2>5, <3>1, <3>2 DEF FrameInv
  <2> HIDE DEF Here
  <2>6. ASSUME NEW h, h.path = Top.path, Len(stack') >= Len(stack), k \in 1..(Len(stack) - 1),
               Len(stack) \in Nat \ {0}, stack'[Len(stack)] = h, Top = stack[Len(stack)],
               \A j \in 1..(Len(stack) - 1) : stack'[j] = stack[j]
        PROVE  Waits(k, f)
    <3>1. /\ f = stack[k] /\ k \in 1..Len(stack) /\ k # Len(stack) /\ k # Len(stack')
          /\ (k + 1 \in 1..(Len(stack) - 1) \/ k + 1 = Len(stack))
      BY <2>2, <2>3, <2>6
    <3>2. stack'[k + 1].path = stack[k + 1].path
      BY <2>6, <3>1
    <3> QED
      BY <2>5, <3>1, <3>2
  <2>7. CASE Returns
    <3>1. /\ Len(stack') = Len(stack) - 1 /\ Top = stack[Len(stack)]
          /\ \A j \in 1..(Len(stack) - 1) : stack'[j] = stack[j]
      BY <2>7, ReturnShape
    <3>2. k \in 1..(Len(stack) - 1) /\ k \in 1..Len(stack) /\ k # Len(stack) /\ f = stack[k]
      BY <2>2, <2>3, <3>1
    <3>3. CASE k = Len(stack')
      <4>1. k + 1 = Len(stack)
        BY <2>3, <3>1, <3>3
      <4>2. Top.path = Awaits(f)
        BY <2>5, <3>1, <3>2, <4>1
      <4>3. Here(Top.path)
        BY <2>7 DEF Returns, Here
      <4> QED
        BY <2>5, <3>2, <3>3, <4>2, <4>3
    <3>4. CASE k # Len(stack')
      <4>1. k + 1 \in 1..(Len(stack) - 1)
        BY <2>3, <3>1, <3>2, <3>4
      <4>2. stack'[k + 1] = stack[k + 1]
        BY <3>1, <4>1
      <4> QED
        BY <2>5, <3>2, <3>4, <4>2
    <3> QED
      BY <3>3, <3>4
  <2>8. CASE stack' = <<>>
    BY <2>8
  <2>9. CASE stack' = stack
    BY <2>2, <2>5, <2>9
  <2>10. CASE InstallNext
    <3>1. PICK g : g = Call(host.files[next])
      OBVIOUS
    <3>2. stack' = <<g>> /\ g.at = "start" /\ ~g.relaxed
      BY <2>10, <3>1 DEF InstallNext, Call
    <3>3. k = Len(stack') /\ f = g
      BY <2>2, <3>2
    <3> QED
      BY <3>2, <3>3
  <2>11. CASE CloneParent \/ FollowLink
    <3>1. PICK h, g : Calls(h, g)
      BY <2>11, CallSteps
    <3>2. /\ Len(stack) \in Nat \ {0} /\ Len(stack') = Len(stack) + 1
          /\ stack'[Len(stack)] = h /\ stack'[Len(stack) + 1] = g
          /\ \A j \in 1..(Len(stack) - 1) : stack'[j] = stack[j]
      BY <3>1, CallShape
    <3>3. /\ h.path = Top.path /\ Top = stack[Len(stack)] /\ g.at = "start" /\ ~g.relaxed
          /\ \/ h.at = "parent" /\ ~h.relaxed /\ g.path = Parent(h.path)
             \/ h.at = "link" /\ g.path = host.link[h.path] /\ Top.at = "create"
      BY <3>1, TopTypes DEF Calls
    <3>4. CASE k = Len(stack) + 1
      BY <2>2, <3>2, <3>3, <3>4
    <3>5. CASE k = Len(stack)
      <4>1. Top.at = "create" => Here(Parent(Top.path))
        BY <2>5, <3>2, <3>3
      <4>2. f = h /\ k # Len(stack') /\ stack'[k + 1] = g
        BY <2>2, <3>2, <3>5
      <4> QED
        BY <3>3, <4>1, <4>2
    <3>6. CASE k \in 1..(Len(stack) - 1)
      BY <2>6, <3>2, <3>3, <3>6
    <3> QED
      BY <3>2, <3>4, <3>5, <3>6
  <2>12. CASE RelaxParent
    <3>1. PICK h : Relaxes(h)
      BY <2>12, RelaxSteps
    <3>2. /\ Len(stack) \in Nat \ {0} /\ Len(stack') = Len(stack) /\ stack'[Len(stack)] = h
          /\ \A j \in 1..(Len(stack) - 1) : stack'[j] = stack[j]
      BY <3>1, RelaxShape
    <3>3. h.path = Top.path /\ Top = stack[Len(stack)] /\ h.at = "create" /\ Top.at = "parent"
      BY <3>1, TopTypes DEF Relaxes
    <3>4. CASE k = Len(stack)
      <4>1. Here(Parent(Top.path))
        BY <2>5, <3>2, <3>3
      <4>2. f = h /\ k = Len(stack')
        BY <2>2, <3>2, <3>4
      <4> QED
        BY <3>3, <4>1, <4>2
    <3>5. CASE k \in 1..(Len(stack) - 1)
      BY <2>6, <3>2, <3>3, <3>5
    <3> QED
      BY <3>2, <3>4, <3>5
  <2>13. CASE AllInstalled
    BY <2>9, <2>13 DEF AllInstalled
  <2>14. CASE Ends
    BY <2>8, <2>9, <2>14 DEF Ends
  <2> QED
    BY <1>2, <2>7, <2>10, <2>11, <2>12, <2>13, <2>14, StepKinds
<1> QED
  BY <1>1, <1>2

\* What is there can be seen, if no link on the way leads elsewhere.
LEMMA RealIsVisible ==
  ASSUME TypeInv, TreeInv, NEW p \in Paths, p # Root, p \in dest, Plain(p) \/ astray = {}
  PROVE  Visible(p)
<1>1. host.via[p] \subseteq dest /\ Real(p) = p
  BY DEF TreeInv
<1>2. CASE astray = {}
  BY <1>1, <1>2 DEF Visible, Reachable
<1>3. CASE Plain(p)
  <2>1. host.real[p] = p
    BY <1>1 DEF Real
  <2>2. \A r \in host.via[p] : host.kind[r] # "link"
    BY <2>1 DEF TypeInv, Host
  <2> QED
    BY <1>1, <2>2 DEF Visible, Reachable, TreeInv
<1> QED
  BY <1>2, <1>3

\* The parent of a plain path.
LEMMA PlainParent ==
  ASSUME TypeInv, NEW p \in Paths, p # Root, Plain(p)
  PROVE  Plain(Parent(p)) /\ Len(Parent(p)) < Len(p)
<1>1. Parent(p) \in Paths /\ p \in Seq(STRING)
  BY ClonePathAssumption DEF HostsAreTrees
<1>2. host.real[p] = p
  BY DEF Plain, Real
<1>3. /\ host.real[Parent(p)] = Parent(p) /\ Way(host, Parent(p)) = host.via[p]
      /\ \A r \in host.via[p] : host.kind[r] # "link"
  BY <1>2 DEF TypeInv, Host
<1>4. Len(p) \in Nat \ {0} /\ Len(Parent(p)) = Len(p) - 1
  <2>1. Len(p) \in Nat \ {0}
    BY <1>1 DEF Root
  <2>2. Len(Parent(p)) = Len(p) - 1
    BY <1>1, <2>1, FrontElements DEF Parent
  <2> QED
    BY <2>1, <2>2
<1> QED
  BY <1>3, <1>4 DEF Plain, Real, Way

\* Nothing is created between the test for a plain path and its creation
\* but what is on the way to it.
LEMMA StepFreshInv ==
  ASSUME TypeInv, FramesInv, TreeInv, FreshInv, [Next]_vars
  PROVE  FreshInv'
<1>1. CASE UNCHANGED vars
  BY <1>1 DEF vars, tree, FreshInv, Plain, Real
<1>2. CASE Next
  <2>1. host' = host
    BY <1>2, TreeSteps
  <2>2. SUFFICES ASSUME NEW k \in 1..Len(stack'), stack'[k].at # "start", Plain(stack'[k].path)
                 PROVE  /\ stack'[k].path \notin dest'
                        /\ \A j \in (k + 1)..Len(stack') :
                             Plain(stack'[j].path) /\ Len(stack'[j].path) < Len(stack'[k].path)
    BY <2>1 DEF FreshInv, Plain, Real
  <2>3. stack \in Seq(Frame) /\ Len(stack) \in Nat
    BY DEF TypeInv, TypeOK
  <2>4. ASSUME NEW i \in 1..Len(stack), stack[i].at # "start", Plain(stack[i].path)
        PROVE  /\ stack[i].path \notin dest
               /\ \A j \in (i + 1)..Len(stack) :
                    Plain(stack[j].path) /\ Len(stack[j].path) < Len(stack[i].path)
    BY <2>4 DEF FreshInv
  <2>5. CASE Returns
    <3>1. /\ Len(stack') = Len(stack) - 1 /\ Top = stack[Len(stack)]
          /\ \A j \in 1..(Len(stack) - 1) : stack'[j] = stack[j]
      BY <2>5, ReturnShape
    <3>2. /\ k \in 1..(Len(stack) - 1) /\ k \in 1..Len(stack) /\ stack'[k] = stack[k]
          /\ Len(stack) \in (k + 1)..Len(stack)
      BY <2>2, <2>3, <3>1
    <3>3. /\ stack[k].path \notin dest
          /\ \A j \in (k + 1)..Len(stack) :
               Plain(stack[j].path) /\ Len(stack[j].path) < Len(stack[k].path)
      BY <2>2, <2>4, <3>2
    <3>4. Plain(Top.path) /\ Len(Top.path) < Len(stack[k].path)
      BY <3>1, <3>2, <3>3
    <3>5. Len(stack[k].path) \in Nat
      <4>1. stack[k] \in Frame
        BY <2>3, <3>2
      <4>2. stack[k].path \in Seq(STRING)
        BY <4>1, ClonePathAssumption DEF Frame, HostsAreTrees
      <4> QED
        BY <4>2
    <3>6. stack[k].path # Real(Top.path)
      BY <3>4, <3>5 DEF Plain
    <3>7. stack[k].path \notin dest'
      BY <2>5, <3>3, <3>6 DEF Returns
    <3>8. ASSUME NEW j \in (k + 1)..Len(stack')
          PROVE  j \in (k + 1)..Len(stack) /\ stack'[j] = stack[j]
      BY <2>2, <2>3, <3>1, <3>8
    <3> QED
      BY <3>2, <3>3, <3>7, <3>8
  <2>6. CASE stack' = <<>>
    BY <2>2, <2>6
  <2>7. CASE stack' = stack /\ dest' = dest
    BY <2>2, <2>4, <2>7
  <2>8. CASE InstallNext
    <3>1. PICK g : g = Call(host.files[next])
      OBVIOUS
    <3>2. stack' = <<g>> /\ g.at = "start"
      BY <2>8, <3>1 DEF InstallNext, Call
    <3> QED
      BY <2>2, <3>2
  <2>9. CASE CloneParent \/ FollowLink
    <3>1. PICK f, g : Calls(f, g)
      BY <2>9, CallSteps
    <3>2. /\ Len(stack) \in Nat \ {0} /\ Len(stack') = Len(stack) + 1
          /\ stack'[Len(stack)] = f /\ stack'[Len(stack) + 1] = g
          /\ \A j \in 1..(Len(stack) - 1) : stack'[j] = stack[j]
      BY <3>1, CallShape
    <3>3. /\ f.path = Top.path /\ Top = stack[Len(stack)] /\ g.at = "start" /\ dest' = dest
          /\ Top.path \in Paths /\ Top.path # Root
      BY <3>1, TopTypes DEF Calls, tree
    <3>4. ASSUME Plain(Top.path)
          PROVE  /\ Plain(g.path) /\ Len(g.path) < Len(Top.path) /\ Top.path \notin dest
                 /\ Len(g.path) \in Nat /\ Len(Top.path) \in Nat
      <4>1. g.path = Parent(Top.path) /\ ~Visible(Top.path)
        BY <3>1, <3>4 DEF Calls, Plain
      <4>2. Top.path \in Seq(STRING) /\ g.path \in Seq(STRING)
        BY <3>3, <4>1, ClonePathAssumption DEF HostsAreTrees
      <4>3. Len(g.path) \in Nat /\ Len(Top.path) \in Nat
        BY <4>2
      <4> QED
        BY <3>3, <3>4, <4>1, <4>3, PlainParent, RealIsVisible
    <3>5. CASE k = Len(stack) + 1
      BY <2>2, <3>2, <3>3, <3>5
    <3>6. CASE k = Len(stack)
      <4>1. \A j \in (k + 1)..Len(stack') : j = Len(stack) + 1
        BY <3>2, <3>6
      <4>2. stack'[k] = f
        BY <3>2, <3>6
      <4> QED
        BY <2>2, <3>2, <3>3, <3>4, <4>1, <4>2
    <3>7. CASE k \in 1..(Len(stack) - 1)
      <4>1. stack'[k] = stack[k] /\ k \in 1..Len(stack) /\ Len(stack) \in (k + 1)..Len(stack)
        BY <3>2, <3>7
      <4>2. /\ stack[k].path \notin dest
            /\ \A j \in (k + 1)..Len(stack) :
                 Plain(stack[j].path) /\ Len(stack[j].path) < Len(stack[k].path)
        BY <2>2, <2>4, <4>1
      <4>3. Plain(Top.path) /\ Len(Top.path) < Len(stack[k].path)
        BY <3>3, <4>1, <4>2
      <4>4. Len(stack[k].path) \in Nat
        <5>1. stack[k] \in Frame
          BY <2>3, <4>1
        <5>2. stack[k].path \in Seq(STRING)
          BY <5>1, ClonePathAssumption DEF Frame, HostsAreTrees
        <5> QED
          BY <5>2
      <4>5. ASSUME NEW j \in (k + 1)..Len(stack')
            PROVE  Plain(stack'[j].path) /\ Len(stack'[j].path) < Len(stack[k].path)
        <5>1. j \in (k + 1)..(Len(stack) - 1) \/ j = Len(stack) \/ j = Len(stack) + 1
          <6>1. PICK n : n = Len(stack)
            OBVIOUS
          <6>2. n \in Nat \ {0} /\ k \in 1..(n - 1) /\ j \in (k + 1)..(n + 1)
            BY <3>2, <3>7, <4>5, <6>1
          <6>3. j \in (k + 1)..(n - 1) \/ j = n \/ j = n + 1
            BY <6>2
          <6> QED
            BY <6>1, <6>3
        <5>2. CASE j \in (k + 1)..(Len(stack) - 1)
          <6>1. j \in (k + 1)..Len(stack) /\ j \in 1..(Len(stack) - 1)
            BY <3>2, <3>7, <5>2
          <6> QED
            BY <3>2, <4>2, <6>1
        <5>3. CASE j = Len(stack)
          BY <3>2, <3>3, <4>3, <5>3
        <5>4. CASE j = Len(stack) + 1
          <6>1. Plain(g.path) /\ Len(g.path) < Len(stack[k].path)
            BY <3>4, <4>3, <4>4
          <6> QED
            BY <3>2, <5>4, <6>1
        <5> QED
          BY <5>1, <5>2, <5>3, <5>4
      <4> QED
        BY <3>3, <4>1, <4>2, <4>5
    <3> QED
      BY <2>2, <3>2, <3>5, <3>6, <3>7
  <2>10. CASE RelaxParent
    <3>1. PICK f : Relaxes(f)
      BY <2>10, RelaxSteps
    <3>2. /\ Len(stack) \in Nat \ {0} /\ Len(stack') = Len(stack) /\ stack'[Len(stack)] = f
          /\ \A j \in 1..(Len(stack) - 1) : stack'[j] = stack[j]
      BY <3>1, RelaxShape
    <3>3. /\ f.path = Top.path /\ Top.at = "parent" /\ Top = stack[Len(stack)] /\ dest' = dest
      BY <3>1, TopTypes DEF Relaxes
    <3>4. \A j \in 1..Len(stack) :
            /\ stack'[j].path = stack[j].path
            /\ stack'[j].at # "start" => stack[j].at # "start"
      <4>1. \A j \in 1..Len(stack) : j \in 1..(Len(stack) - 1) \/ j = Len(stack)
        BY <3>2
      <4> QED
        BY <3>2, <3>3, <4>1
    <3>5. k \in 1..Len(stack) /\ \A j \in (k + 1)..Len(stack') : j \in 1..Len(stack)
      BY <2>2, <3>2
    <3> QED
      BY <2>2, <2>4, <3>2, <3>3, <3>4, <3>5
  <2>11. CASE AllInstalled
    BY <2>7, <2>11 DEF AllInstalled, tree
  <2>12. CASE Ends
    BY <2>6, <2>7, <2>12 DEF Ends
  <2> QED
    BY <1>2, <2>5, <2>8, <2>9, <2>10, <2>11, <2>12, StepKinds
<1> QED
  BY <1>1, <1>2

\* What an error is due to.
LEMMA ErrorSteps ==
  ASSUME TypeInv, [Next]_vars, phase' = "error", phase # "error"
  PROVE  /\ stack # <<>> /\ stack' = <<>>
         /\ \/ Top.at = "parent" /\ host.kind[Top.path] = "missing"
            \/ host.chmodErr # {} \/ host.createErr # {}
            \/ /\ Top.at \in {"create", "link"}
               /\ \/ ~Reachable(Top.path) \/ Exists(Top.path)
                  \/ host.kind[Top.path] = "link" /\ Unlinkable(Top.path)
<1>1. CASE NoSource \/ RelaxFails
  BY <1>1 DEF NoSource, RelaxFails, At, Error
<1>2. CASE CopyFails
  BY <1>2 DEF CopyFails, CutShort, Is, At, Error
<1>3. CASE CreateLink
  <2>1. stack # <<>> /\ Top.at = "link"
    BY <1>3 DEF CreateLink, At
  <2>2. host.kind[Top.path] = "link"
    BY <2>1, TopTypes DEF TypeInv, TypeOK
  <2> QED
    BY <1>3, <2>1, <2>2 DEF CreateLink, At, Created, NotCreated, Error
<1>4. CASE CreateDir \/ CopyFile
  BY <1>4 DEF CreateDir, CopyFile, Is, At, Created, NotCreated, Error
<1>5. CASE ~Creates /\ ~CopyFails /\ ~NoSource /\ ~RelaxFails
  BY <1>5 DEF Next, vars, tree, Creates, InstallNext, AllInstalled, Overflow, AlreadyThere,
     CloneParent, RelaxParent, FollowLink, Unimplemented
<1> QED
  BY <1>1, <1>2, <1>3, <1>4, <1>5 DEF Creates

\* Once its parent has arrived, a real path can be reached.
LEMMA RealIsReachable ==
  ASSUME TypeInv, FramesInv, TreeInv, stack # <<>>, Top.at \in {"create", "link"},
         Real(Top.path) = Top.path, astray = {}, Root \in dest
  PROVE  Reachable(Top.path)
<1>1. /\ Top.path \in Paths /\ Top.path # Root /\ Top = stack[Len(stack)]
      /\ Len(stack) \in 1..Len(stack)
  BY TopTypes DEF TypeInv, TypeOK
<1>2. PICK p : p = Parent(Top.path)
  OBVIOUS
<1>3. host.real[p] = p /\ host.via[Top.path] = host.via[p] \cup {p}
  <2>1. host.real[Top.path] = Top.path
    BY DEF Real
  <2>2. host.real[p] = p /\ host.via[Top.path] = Way(host, p)
    BY <1>1, <1>2, <2>1 DEF TypeInv, Host
  <2> QED
    BY <2>2 DEF Way
<1>4. FrameInv(Len(stack))
  BY <1>1 DEF FramesInv
<1>5. Arrived(p)
  BY <1>1, <1>2, <1>4 DEF FrameInv
<1>6. p \in dest
  BY <1>3, <1>5 DEF Arrived, Visible, Real
<1> QED
  BY <1>3, <1>6 DEF TreeInv, Reachable

\* The topmost call, if it is to create its target, is the only one for it.
LEMMA OnlyCall ==
  ASSUME TypeInv, FramesInv, TreeInv, SoundInv, Straight, astray = {}, stack # <<>>,
         Top.at \in {"create", "link"}, host.kind[Top.path] = "link" => Top.at = "link",
         NEW k \in 1..(Len(stack) - 1)
  PROVE  stack[k].path # Top.path
<1> SUFFICES ASSUME stack[k].path = Top.path
             PROVE  FALSE
  OBVIOUS
<1>1. /\ stack \in Seq(Frame) /\ Len(stack) \in Nat \ {0} /\ Len(stack) \in 1..Len(stack)
      /\ Top.path \in Paths /\ Top = stack[Len(stack)]
  BY TopTypes
<1>2. PICK n : n = Len(stack)
  OBVIOUS
<1>3. /\ k \in 1..n /\ k # n /\ k + 1 \in 1..n
  BY <1>1, <1>2
<1>4. /\ Top.path # Root /\ Top.path \notin dest
      /\ Real(stack[k + 1].path) = stack[k + 1].path
      /\ stack[k + 1].at # "start" => stack[k + 1].path \notin dest
  BY <1>1, <1>2, <1>3 DEF SoundInv, TypeInv, TypeOK
<1>5. FrameInv(k) /\ FrameInv(n)
  BY <1>1, <1>2, <1>3 DEF FramesInv
<1>6. PICK p : p = stack[k + 1].path
  OBVIOUS
<1>7. p = Awaited(stack[k]) /\ stack[k].at \in {"parent", "link"}
  BY <1>2, <1>3, <1>5, <1>6 DEF FrameInv
<1>8. Arrived(p)
  <2>1. CASE stack[k].at = "parent"
    BY <1>1, <1>2, <1>5, <1>7, <2>1 DEF FrameInv, Awaited
  <2>2. CASE stack[k].at = "link"
    <3>1. host.kind[Top.path] = "link"
      BY <1>2, <1>3, <2>2 DEF TypeInv, TypeOK
    <3> QED
      BY <1>1, <1>2, <1>5, <1>7, <2>2, <3>1 DEF FrameInv, Awaited
  <2> QED
    BY <1>7, <2>1, <2>2
<1>9. p \in dest
  BY <1>4, <1>6, <1>8 DEF Arrived, Visible, Straight, TreeInv
<1>10. CASE k + 1 = n
  BY <1>1, <1>2, <1>4, <1>6, <1>9, <1>10
<1>11. CASE k + 1 # n
  <2>1. FrameInv(k + 1)
    BY <1>2, <1>3 DEF FramesInv
  <2> QED
    BY <1>2, <1>4, <1>6, <1>9, <1>11, <2>1 DEF FrameInv
<1> QED
  BY <1>10, <1>11

\* Without a reason from outside, every call succeeds.
LEMMA StepSoundInv ==
  ASSUME TypeInv, FramesInv, TreeInv, SoundInv, [Next]_vars
  PROVE  SoundInv'
<1>1. host' = host /\ astray \subseteq astray'
  BY TreeSteps
<1>2. SUFFICES ASSUME Straight, astray = {}
               PROVE  /\ phase' # "error"
                      /\ \A k \in 1..Len(stack') :
                           /\ Real(stack'[k].path) = stack'[k].path
                           /\ stack'[k].at # "start" => stack'[k].path \notin dest'
  <2>1. Straight' = Straight
    BY <1>1 DEF Straight, Used, Unlinkable, RelPathOf, Real
  <2> QED
    BY <1>1, <2>1 DEF SoundInv, Real
<1>3. /\ phase # "error"
      /\ \A k \in 1..Len(stack) :
           /\ Real(stack[k].path) = stack[k].path
           /\ stack[k].at # "start" => stack[k].path \notin dest
  BY <1>2 DEF SoundInv
<1>4. stack \in Seq(Frame) /\ Len(stack) \in Nat
  BY DEF TypeInv, TypeOK
<1>5. phase' # "error"
  <2> SUFFICES ASSUME phase' = "error"
               PROVE  FALSE
    OBVIOUS
  <2>1. stack # <<>>
    BY <1>3, ErrorSteps
  <2>2. Top.path \in Paths /\ Top = stack[Len(stack)] /\ Len(stack) \in 1..Len(stack)
    BY <2>1, TopTypes
  <2>3. host.kind[Top.path] # "missing" /\ host.chmodErr = {} /\ host.createErr = {} /\ Root \in dest
        /\ (host.kind[Top.path] = "link" => ~Unlinkable(Top.path))
    BY <1>2, <2>2 DEF Straight, TreeInv
  <2>4. Top.at \in {"create", "link"} /\ (~Reachable(Top.path) \/ Exists(Top.path))
    BY <1>3, <2>3, ErrorSteps
  <2>5. Real(Top.path) = Top.path /\ Top.path \notin dest
    BY <1>3, <2>2, <2>4
  <2> QED
    BY <1>2, <2>1, <2>3, <2>4, <2>5, RealIsReachable DEF Exists
<1>6. SUFFICES ASSUME NEW k \in 1..Len(stack')
               PROVE  /\ Real(stack'[k].path) = stack'[k].path
                      /\ stack'[k].at # "start" => stack'[k].path \notin dest'
  BY <1>5
<1>7. CASE stack' = stack /\ dest' = dest
  BY <1>3, <1>6, <1>7
<1>8. CASE Creates /\ Created
  <2>1. stack # <<>> /\ Top.at \in {"create", "link"} /\ (host.kind[Top.path] = "link" => Top.at = "link")
    <3>1. /\ phase = "run" /\ stack # <<>> /\ Top.at \in {"create", "link"}
          /\ \/ NotCreated
             \/ host.kind[Top.path] = "link" => Top.at = "link"
      BY <1>8, CreateSteps
    <3>2. ~NotCreated
      BY <1>8, <3>1 DEF Created, NotCreated, Error
    <3> QED
      BY <3>1, <3>2
  <2>2. stack' = Below /\ dest' = dest \cup {Real(Top.path)}
    BY <1>8 DEF Created
  <2>3. /\ Top = stack[Len(stack)] /\ Len(stack) \in 1..Len(stack) /\ Top \in Frame
        /\ Len(Below) = Len(stack) - 1 /\ \A j \in 1..(Len(stack) - 1) : Below[j] = stack[j]
    <3>1. Len(stack) \in Nat \ {0} /\ Top = stack[Len(stack)] /\ Top \in Frame
      BY <2>1, TopTypes
    <3>2. Len(stack) \in 1..Len(stack)
      BY <3>1
    <3> QED
      BY <2>1, <3>1, <3>2, StackTypes
  <2>4. k \in 1..(Len(stack) - 1) /\ k \in 1..Len(stack) /\ stack'[k] = stack[k]
    BY <1>4, <1>6, <2>2, <2>3
  <2>5. stack[k].path # Top.path
    BY <1>2, <2>1, <2>4, OnlyCall
  <2>6. Real(Top.path) = Top.path
    BY <1>3, <2>3
  <2> QED
    BY <1>3, <2>2, <2>4, <2>5, <2>6
<1>9. CASE AlreadyThere
  <2>1. stack # <<>> /\ stack' = Below /\ dest' = dest
    BY <1>9 DEF AlreadyThere, At, tree
  <2>2. /\ Len(Below) = Len(stack) - 1 /\ \A j \in 1..(Len(stack) - 1) : Below[j] = stack[j]
    BY <2>1, TopTypes, StackTypes
  <2>3. k \in 1..(Len(stack) - 1) /\ k \in 1..Len(stack) /\ stack'[k] = stack[k]
    BY <1>4, <1>6, <2>1, <2>2
  <2> QED
    BY <1>3, <2>1, <2>3
<1>10. CASE InstallNext
  <2>1. PICK g : g = Call(host.files[next])
    OBVIOUS
  <2>2. stack' = <<g>> /\ next \in 1..Len(host.files)
    BY <1>10, <2>1 DEF InstallNext, TypeInv, TypeOK, Host
  <2>3. g.path \in Used /\ g.path \in Paths /\ g.at = "start"
    BY <2>1, <2>2 DEF Used, Call, TypeInv, Host
  <2>4. Real(g.path) = g.path
    BY <1>2, <2>3 DEF Straight
  <2> QED
    BY <1>6, <2>2, <2>3, <2>4
<1>11. CASE CloneParent \/ FollowLink
  <2>1. PICK f, g : Calls(f, g)
    BY <1>11, CallSteps
  <2>2. /\ Len(stack) \in Nat \ {0} /\ Len(stack') = Len(stack) + 1
        /\ stack'[Len(stack)] = f /\ stack'[Len(stack) + 1] = g
        /\ \A j \in 1..(Len(stack) - 1) : stack'[j] = stack[j]
    BY <2>1, CallShape
  <2>3. /\ f.path = Top.path /\ Top = stack[Len(stack)] /\ g.at = "start" /\ dest' = dest
        /\ Top.path \in Paths /\ Top.path # Root /\ Len(stack) \in 1..Len(stack)
    BY <2>1, <2>2, TopTypes DEF Calls, tree
  <2>4. Real(Top.path) = Top.path
    BY <1>3, <2>3
  <2>5. Real(g.path) = g.path
    <3>1. CASE g.path = Parent(Top.path)
      BY <2>3, <2>4, <3>1 DEF TypeInv, Host, Real
    <3>2. CASE g.path = host.link[Top.path] /\ host.kind[Top.path] = "link"
      BY <1>2, <2>3, <3>2 DEF Straight, Used
    <3> QED
      BY <2>1, <3>1, <3>2 DEF Calls
  <2>6. Top.path \notin dest
    <3>1. CASE Top.at = "create"
      BY <1>3, <2>3, <3>1
    <3>2. CASE ~Visible(Top.path)
      BY <1>2, <2>3, <3>2, RealIsVisible
    <3> QED
      BY <2>1, <3>1, <3>2 DEF Calls
  <2>7. CASE k \in 1..(Len(stack) - 1)
    BY <1>3, <2>2, <2>3, <2>7
  <2>8. CASE k = Len(stack)
    BY <2>2, <2>3, <2>4, <2>6, <2>8
  <2>9. CASE k = Len(stack) + 1
    BY <2>2, <2>3, <2>5, <2>9
  <2> QED
    BY <1>6, <2>2, <2>7, <2>8, <2>9
<1>12. CASE RelaxParent
  <2>1. PICK f : Relaxes(f)
    BY <1>12, RelaxSteps
  <2>2. /\ Len(stack) \in Nat \ {0} /\ Len(stack') = Len(stack) /\ stack'[Len(stack)] = f
        /\ \A j \in 1..(Len(stack) - 1) : stack'[j] = stack[j]
    BY <2>1, RelaxShape
  <2>3. /\ f.path = Top.path /\ Top.at = "parent" /\ Top = stack[Len(stack)] /\ dest' = dest
    BY <2>1, TopTypes DEF Relaxes
  <2>4. k \in 1..(Len(stack) - 1) \/ k = Len(stack)
    BY <1>6, <2>2
  <2>5. stack'[k].path = stack[k].path /\ (stack'[k].at # "start" => stack[k].at # "start")
    BY <2>2, <2>3, <2>4
  <2> QED
    BY <1>3, <1>6, <2>2, <2>3, <2>5
<1>13. CASE stack' = <<>>
  BY <1>6, <1>13
<1>14. CASE AllInstalled \/ UNCHANGED vars \/ Overflow \/ Unimplemented
  BY <1>7, <1>14 DEF AllInstalled, Overflow, Unimplemented, vars, tree
<1>15. CASE NoSource \/ RelaxFails \/ CopyFails \/ (Creates /\ NotCreated)
  BY <1>13, <1>15 DEF NoSource, RelaxFails, CopyFails, NotCreated, Error
<1> QED
  BY <1>8, <1>9, <1>10, <1>11, <1>12, <1>14, <1>15, CreateSteps DEF Next, Creates

\* A copy that is cut short ruins an installed file only under another name.
LEMMA CutShortIsNew ==
  ASSUME TypeInv, FreshInv, CutShort, NEW q \in (partial' \ partial) \cap dest
  PROVE  Top.path # q
<1> SUFFICES ASSUME Top.path = q
             PROVE  FALSE
  OBVIOUS
<1>1. stack # <<>> /\ Top.at = "create" /\ host.kind[Top.path] = "file" /\ q = Real(Top.path)
  BY DEF CutShort, Is, At
<1>2. Top = stack[Len(stack)] /\ Len(stack) \in Nat \ {0}
  BY <1>1, TopTypes
<1>3. Len(stack) \in 1..Len(stack)
  BY <1>2
<1> QED
  BY <1>1, <1>2, <1>3 DEF FreshInv, Plain

\* A call passes its permission to restore on to no other.
LEMMA StepPermissions ==
  ASSUME TypeInv, FramesInv, PermissionsRestored, [Next]_vars
  PROVE  PermissionsRestored'
<1>1. CASE UNCHANGED vars
  BY <1>1 DEF vars, tree, PermissionsRestored, DirOf
<1>2. CASE Next
  <2>1. host' = host
    BY <1>2, TreeSteps
  <2> DEFINE IsWritable(d) == \E k \in 1..Len(stack) : stack[k].relaxed /\ host.dir[stack[k].path] = d
             StaysWritable(d) == \E k \in 1..Len(stack') : stack'[k].relaxed /\ host.dir[stack'[k].path] = d
  <2>2. SUFFICES ASSUME phase' \in {"run", "ok"}, NEW d \in relaxed' PROVE StaysWritable(d)
    BY <2>1 DEF PermissionsRestored, DirOf
  <2>3. stack \in Seq(Frame) /\ Len(stack) \in Nat
    BY DEF TypeInv, TypeOK
  <2>4. phase \in {"run", "ok"} /\ d \in relaxed => IsWritable(d)
    BY DEF PermissionsRestored, DirOf
  <2>5. CASE Returns
    <3>1. /\ Len(stack') = Len(stack) - 1 /\ Top = stack[Len(stack)]
          /\ \A j \in 1..(Len(stack) - 1) : stack'[j] = stack[j]
      BY <2>5, ReturnShape
    <3>2. d \in relaxed /\ (~Top.relaxed \/ d # host.dir[Top.path]) /\ phase = "run"
      BY <2>5 DEF Returns, Restored, DirOf
    <3>3. PICK k \in 1..Len(stack) : stack[k].relaxed /\ host.dir[stack[k].path] = d
      BY <2>4, <3>2
    <3>4. k # Len(stack)
      BY <3>1, <3>2, <3>3
    <3>5. k \in 1..(Len(stack) - 1) /\ k \in 1..Len(stack')
      BY <2>3, <3>1, <3>4
    <3>6. stack'[k] = stack[k]
      BY <3>1, <3>5
    <3> QED
      BY <3>3, <3>5, <3>6
  <2>6. CASE InstallNext
    <3>1. d \in relaxed /\ stack = <<>> /\ phase = "run"
      BY <2>6 DEF InstallNext, tree
    <3> QED
      BY <2>4, <3>1
  <2>7. CASE AllInstalled
    <3>1. d \in relaxed /\ stack = <<>> /\ phase = "run"
      BY <2>7 DEF AllInstalled, tree
    <3> QED
      BY <2>4, <3>1
  <2>8. CASE CloneParent \/ FollowLink
    <3>1. PICK f, g : Calls(f, g)
      BY <2>8, CallSteps
    <3>2. /\ Len(stack) \in Nat \ {0} /\ Len(stack') = Len(stack) + 1 /\ stack'[Len(stack)] = f
          /\ \A j \in 1..(Len(stack) - 1) : stack'[j] = stack[j]
      BY <3>1, CallShape
    <3>3. /\ f.path = Top.path /\ f.relaxed = Top.relaxed /\ Top = stack[Len(stack)]
          /\ d \in relaxed /\ phase = "run"
      BY <3>1, TopTypes DEF Calls, tree
    <3>4. PICK k \in 1..Len(stack) : stack[k].relaxed /\ host.dir[stack[k].path] = d
      BY <2>4, <3>3
    <3>5. stack'[k].relaxed = stack[k].relaxed /\ stack'[k].path = stack[k].path
      BY <3>2, <3>3
    <3>6. k \in 1..Len(stack')
      BY <3>2
    <3>7. stack'[k].relaxed /\ host.dir[stack'[k].path] = d
      BY <3>4, <3>5
    <3> QED
      BY <3>6, <3>7
  <2>9. CASE RelaxParent
    <3>1. PICK f : Relaxes(f)
      BY <2>9, RelaxSteps
    <3>2. /\ Len(stack) \in Nat \ {0} /\ Len(stack') = Len(stack) /\ stack'[Len(stack)] = f
          /\ \A j \in 1..(Len(stack) - 1) : stack'[j] = stack[j]
      BY <3>1, RelaxShape
    <3>3. f.path = Top.path /\ ~Top.relaxed /\ Top = stack[Len(stack)] /\ phase = "run"
      BY <3>1, TopTypes DEF Relaxes
    <3>6. d \in relaxed \/ (f.relaxed /\ d = host.dir[Top.path])
      BY <2>2, <3>1 DEF Relaxes, DirOf
    <3>4. CASE d \in relaxed
      <4>1. PICK k \in 1..Len(stack) : stack[k].relaxed /\ host.dir[stack[k].path] = d
        BY <2>4, <3>3, <3>4
      <4>2. k # Len(stack)
        BY <3>3, <4>1
      <4>3. stack'[k] = stack[k]
        BY <3>2, <4>2
      <4> QED
        BY <3>2, <4>1, <4>3
    <3>5. CASE f.relaxed /\ d = host.dir[Top.path]
      BY <3>2, <3>3, <3>5
    <3> QED
      BY <3>4, <3>5, <3>6
  <2>10. CASE Ends
    BY <2>2, <2>10 DEF Ends
  <2> QED
    BY <1>2, <2>5, <2>6, <2>7, <2>8, <2>9, <2>10, StepKinds
<1> QED
  BY <1>1, <1>2

\* The bottom frame is the top one, or below it.
LEMMA FirstBelowTop ==
  \A n \in Nat \ {0} : n = 1 \/ 1 \in 1..(n - 1)
OBVIOUS

\* By whatever path a link is created, what it leads to has arrived.
LEMMA SameLink ==
  ASSUME TypeInv, NEW p \in Paths, host.kind[p] = "link", Arrived(host.link[p])
  PROVE  Arrived(host.link[Real(p)])
<1>1. /\ host.real[host.link[Real(p)]] = host.real[host.link[p]]
      /\ host.via[host.link[Real(p)]] \subseteq host.via[host.link[p]]
      /\ host.link[p] = Root => host.link[Real(p)] = Root
  BY DEF TypeInv, Host, Real
<1> QED
  BY <1>1 DEF Arrived, Visible, Reachable, Real

\* A link is created after what it leads to.
LEMMA StepLinksInv ==
  ASSUME TypeInv, FramesInv, LinksInv, [Next]_vars
  PROVE  LinksInv'
<1>1. host' = host
  BY TreeSteps
<1>2. SUFFICES ASSUME NEW q \in dest' \ host.dest, host.kind[q] = "link",
                      NEW p, p = host.link[q]
               PROVE  Arrived(p)'
  <2>1. SUFFICES ASSUME NEW q \in dest' \ host.dest, host.kind[q] = "link"
                 PROVE  Arrived(host.link[q])'
    BY <1>1 DEF LinksInv
  <2>2. PICK p : p = host.link[q]
    OBVIOUS
  <2>3. Arrived(p)'
    BY <1>2, <2>1, <2>2
  <2> QED
    BY <1>1, <2>2, <2>3
<1>3. CASE q \in dest
  <2>1. Arrived(p)
    BY <1>2, <1>3 DEF LinksInv
  <2> QED
    BY <2>1, ArrivedStable
<1>4. CASE q \notin dest
  <2>1. \/ Creates \/ CopyFails
    BY <1>4 DEF Next, vars, tree, Creates, InstallNext, AllInstalled, Overflow, AlreadyThere,
       CloneParent, NoSource, RelaxFails, RelaxParent, FollowLink, Unimplemented, Error
  <2>2. CASE Creates
    <3>1. phase = "run" /\ stack # <<>> /\ Created /\ (host.kind[Top.path] = "link" => Top.at = "link")
      BY <1>4, <2>2, CreateSteps DEF NotCreated
    <3>2. q = Real(Top.path) /\ Top.path \in Paths /\ Top = stack[Len(stack)] /\ Len(stack) \in Nat \ {0}
      BY <1>4, <3>1, TopTypes DEF Created
    <3>3. host.kind[Top.path] = "link"
      BY <1>2, <3>2 DEF TypeInv, Host, Real
    <3>4. Arrived(host.link[Top.path])
      <4>1. FrameInv(Len(stack)) /\ Top.at = "link"
        BY <3>1, <3>2, <3>3 DEF FramesInv
      <4> QED
        BY <3>2, <4>1 DEF FrameInv, Awaited
    <3>5. Arrived(host.link[q])
      BY <3>2, <3>3, <3>4, SameLink
    <3>6. Arrived(p)
      BY <1>2, <3>5
    <3> QED
      BY <3>6, ArrivedStable
  <2>3. CASE CopyFails
    <3>1. stack # <<>> /\ host.kind[Top.path] = "file" /\ q = Real(Top.path)
      BY <1>4, <2>3 DEF CopyFails, CutShort, Is, At
    <3>2. Top.path \in Paths
      BY <3>1, TopTypes
    <3> QED
      BY <1>2, <3>1, <3>2 DEF TypeInv, Host, Real
  <2> QED
    BY <2>1, <2>2, <2>3
<1> QED
  BY <1>3, <1>4

\* The files before the next one have arrived when its turn comes.
LEMMA StepFilesInv ==
  ASSUME TypeInv, FramesInv, FilesInv, [Next]_vars
  PROVE  FilesInv'
<1>1. host' = host
  BY TreeSteps
<1> DEFINE Under(k) == k = next - 1 /\ stack # <<>> /\ stack[1].path = host.files[k]
           UnderNext(k) == k = next' - 1 /\ stack' # <<>> /\ stack'[1].path = host.files[k]
<1>2. SUFFICES ASSUME phase' \in {"run", "ok"}
               PROVE  /\ phase' = "ok" => stack' = <<>>
                      /\ \A k \in DOMAIN host.files : k < next' \/ phase' = "ok" =>
                           (\A p : p = host.files[k] => Arrived(p)') \/ UnderNext(k)
  <2>1. SUFFICES ASSUME phase' \in {"run", "ok"},
                        NEW k \in DOMAIN host.files, k < next' \/ phase' = "ok"
                 PROVE  Arrived(host.files[k])' \/ UnderNext(k)
    BY <1>1, <1>2 DEF FilesInv
  <2>2. PICK p : p = host.files[k]
    OBVIOUS
  <2>3. Arrived(p)' \/ UnderNext(k)
    BY <1>2, <2>1, <2>2
  <2> QED
    BY <1>1, <2>2, <2>3
<1>3. ASSUME phase \in {"run", "ok"}, NEW k \in DOMAIN host.files, k < next \/ phase = "ok"
      PROVE  (\A p : p = host.files[k] => Arrived(p)') \/ Under(k)
  <2>1. Arrived(host.files[k]) \/ Under(k)
    BY <1>3 DEF FilesInv
  <2>2. SUFFICES ASSUME NEW p, p = host.files[k], Arrived(p)
                 PROVE  Arrived(p)'
    BY <2>1
  <2> QED
    BY <2>2, ArrivedStable
<1>4. phase = "ok" => stack = <<>>
  BY DEF FilesInv
<1>5. /\ stack \in Seq(Frame) /\ Len(stack) \in Nat /\ next \in Nat \ {0}
      /\ DOMAIN host.files = 1..Len(host.files) /\ Len(host.files) \in Nat
  BY DEF TypeInv, TypeOK, Host
<1>6. CASE Returns
  <2>1. /\ phase = "run" /\ phase' = "run" /\ next' = next
        /\ \A p : p = Top.path => Arrived(p)'
    BY <1>6 DEF Returns
  <2>2. /\ Len(stack) \in Nat \ {0} /\ Len(stack') = Len(stack) - 1 /\ Top = stack[Len(stack)]
        /\ \A j \in 1..(Len(stack) - 1) : stack'[j] = stack[j]
    BY <1>6, ReturnShape
  <2>3. ASSUME NEW k \in DOMAIN host.files, k < next'
        PROVE  (\A p : p = host.files[k] => Arrived(p)') \/ UnderNext(k)
    <3>1. CASE Under(k) /\ Len(stack) = 1
      BY <2>1, <2>2, <3>1
    <3>2. CASE Under(k) /\ Len(stack) # 1
      <4>1. stack'[1] = stack[1] /\ Len(stack') # 0
        BY <2>2, <3>2
      <4> QED
        BY <2>1, <3>2, <4>1
    <3> QED
      BY <1>3, <2>1, <2>3, <3>1, <3>2
  <2> QED
    BY <1>4, <2>1, <2>3
<1>7. CASE InstallNext
  <2>1. /\ phase = "run" /\ phase' = "run" /\ stack = <<>> /\ next' = next + 1
        /\ stack' = <<Call(host.files[next])>>
    BY <1>7 DEF InstallNext, Following
  <2>2. stack' # <<>> /\ stack'[1].path = host.files[next]
    BY <2>1 DEF Call
  <2>3. ASSUME NEW k \in DOMAIN host.files, k < next'
        PROVE  (\A p : p = host.files[k] => Arrived(p)') \/ UnderNext(k)
    <3>1. CASE k = next
      BY <1>5, <2>1, <2>2, <3>1
    <3>2. CASE k < next
      BY <1>3, <2>1, <3>2
    <3> QED
      BY <1>5, <2>1, <2>3, <3>1, <3>2
  <2> QED
    BY <1>4, <2>1, <2>3
<1>8. CASE AllInstalled
  <2>1. /\ phase = "run" /\ stack = <<>> /\ stack' = <<>>
        /\ next > Len(host.files)
    BY <1>8 DEF AllInstalled
  <2>2. \A k \in DOMAIN host.files : k < next
    BY <1>5, <2>1
  <2> QED
    BY <1>3, <1>4, <2>1, <2>2
<1>9. CASE CloneParent \/ FollowLink
  <2>1. PICK f, g : Calls(f, g)
    BY <1>9, CallSteps
  <2>2. /\ Len(stack) \in Nat \ {0} /\ Len(stack') = Len(stack) + 1 /\ stack'[Len(stack)] = f
        /\ \A j \in 1..(Len(stack) - 1) : stack'[j] = stack[j]
    BY <2>1, CallShape
  <2>3. /\ phase = "run" /\ phase' = "run" /\ next' = next
        /\ f.path = Top.path /\ Top = stack[Len(stack)]
    BY <2>1, TopTypes DEF Calls
  <2>4. stack'[1].path = stack[1].path /\ stack' # <<>>
    <3>1. Len(stack) \in Nat \ {0}
      BY <2>2
    <3>2. Len(stack) = 1 \/ 1 \in 1..(Len(stack) - 1)
      BY <3>1, FirstBelowTop, Zenon
    <3>3. stack'[1].path = stack[1].path
      BY <2>2, <2>3, <3>2
    <3>4. Len(stack') # 0
      BY <2>2
    <3> QED
      BY <3>3, <3>4
  <2> QED
    BY <1>3, <1>4, <2>3, <2>4
<1>10. CASE RelaxParent
  <2>1. PICK f : Relaxes(f)
    BY <1>10, RelaxSteps
  <2>2. /\ Len(stack) \in Nat \ {0} /\ Len(stack') = Len(stack) /\ stack'[Len(stack)] = f
        /\ \A j \in 1..(Len(stack) - 1) : stack'[j] = stack[j]
    BY <2>1, RelaxShape
  <2>3. /\ phase = "run" /\ phase' = "run" /\ next' = next
        /\ f.path = Top.path /\ Top = stack[Len(stack)]
    BY <2>1, TopTypes DEF Relaxes
  <2>4. stack'[1].path = stack[1].path /\ stack' # <<>>
    <3>1. Len(stack) \in Nat \ {0}
      BY <2>2
    <3>2. Len(stack) = 1 \/ 1 \in 1..(Len(stack) - 1)
      BY <3>1, FirstBelowTop, Zenon
    <3>3. stack'[1].path = stack[1].path
      BY <2>2, <2>3, <3>2
    <3>4. Len(stack') # 0
      BY <2>2
    <3> QED
      BY <3>3, <3>4
  <2> QED
    BY <1>3, <1>4, <2>3, <2>4
<1>11. CASE UNCHANGED vars
  <2>1. UNCHANGED <<stack, next, phase>>
    BY <1>11 DEF vars
  <2> QED
    BY <1>2, <1>3, <1>4, <2>1
<1> QED
  BY <1>2, <1>6, <1>7, <1>8, <1>9, <1>10, <1>11, StepKinds DEF Ends

\* A file is cut short only with an error.
LEMMA PartialSteps ==
  ASSUME TypeInv, FramesInv, [Next]_vars, phase' \in {"run", "ok"}
  PROVE  phase \in {"run", "ok"} /\ partial' \subseteq partial
<1>1. CASE Returns \/ InstallNext \/ AllInstalled \/ RelaxParent
  BY <1>1 DEF Returns, InstallNext, AllInstalled, RelaxParent, At, tree
<1>2. CASE CloneParent \/ FollowLink
  BY <1>2 DEF CloneParent, FollowLink, Is, At, tree
<1>3. CASE Ends
  BY <1>3 DEF Ends
<1>4. CASE UNCHANGED vars
  BY <1>4 DEF vars, tree
<1> QED
  BY <1>1, <1>2, <1>3, <1>4, StepKinds

\* And only in the middle of a copy.
LEMMA OnlyCopiesAreCutShort ==
  ASSUME [Next]_vars
  PROVE  partial' \subseteq partial \/ CutShort
BY DEF Next, vars, tree, InstallNext, AllInstalled, Overflow, AlreadyThere, CloneParent, NoSource, RelaxFails,
   RelaxParent, FollowLink, Unimplemented, Error, CreateLink, CreateDir, CopyFile, CopyFails,
   Created, NotCreated

\* So none is left after Ok.
LEMMA StepWholeInv ==
  ASSUME TypeInv, FramesInv, WholeInv, [Next]_vars
  PROVE  WholeInv'
BY PartialSteps DEF WholeInv

\* A target is added where its parents are.
Adds ==
  /\ stack # <<>> /\ Reachable(Top.path)
  /\ dest' = dest \cup {Real(Top.path)}
  /\ \/ astray' = astray
     \/ host.kind[Top.path] = "link" /\ astray' = astray \cup {Real(Top.path)}

LEMMA DestSteps ==
  ASSUME TypeInv, [Next]_vars
  PROVE  UNCHANGED <<dest, astray>> \/ Adds
<1>1. CASE CreateLink
  <2>1. stack # <<>> /\ Top.at = "link"
    BY <1>1 DEF CreateLink, At
  <2>2. host.kind[Top.path] = "link"
    BY <2>1, TopTypes DEF TypeInv, TypeOK
  <2> QED
    BY <1>1, <2>1, <2>2 DEF CreateLink, Created, NotCreated, Adds
<1>2. CASE CreateDir \/ CopyFile
  BY <1>2 DEF CreateDir, CopyFile, Is, At, Created, NotCreated, Adds
<1>3. CASE CopyFails
  BY <1>3 DEF CopyFails, CutShort, Is, At, Adds
<1>4. CASE ~Creates /\ ~CopyFails
  BY <1>4 DEF Next, vars, tree, Creates, InstallNext, AllInstalled, Overflow, AlreadyThere,
     CloneParent, NoSource, RelaxFails, RelaxParent, FollowLink, Unimplemented, Error
<1> QED
  BY <1>1, <1>2, <1>3, <1>4 DEF Creates

\* It stays a tree, in which only links lead astray.
LEMMA AddsToTree ==
  ASSUME TypeInv, TreeInv, host' = host, Adds
  PROVE  TreeInv'
<1>1. /\ dest \subseteq dest'
      /\ \A q \in dest : Real(q) = q /\ host.via[q] \subseteq dest
  BY DEF TreeInv, Adds
<1>2. /\ stack # <<>> /\ Reachable(Top.path)
      /\ dest' = dest \cup {Real(Top.path)}
      /\ \/ astray' = astray
         \/ host.kind[Top.path] = "link" /\ astray' = astray \cup {Real(Top.path)}
  BY DEF Adds
<1>3. ASSUME NEW q \in dest' PROVE Real(q) = q /\ host.via[q] \subseteq dest'
  <2>1. CASE q \in dest
    BY <1>1, <2>1
  <2>2. CASE q \notin dest
    <3>1. stack # <<>> /\ Reachable(Top.path) /\ q = Real(Top.path) /\ dest' = dest \cup {q}
      BY <1>2, <1>3, <2>2
    <3>2. Top.path \in Paths
      BY <3>1, TopTypes
    <3>3. Real(q) = q /\ host.via[q] \subseteq host.via[Top.path]
      BY <3>1, <3>2 DEF TypeInv, Host, Real
    <3>4. host.via[Top.path] \subseteq dest \cup {q}
      BY <3>1 DEF Reachable
    <3> QED
      BY <3>1, <3>3, <3>4
  <2> QED
    BY <2>1, <2>2
<1>4. ASSUME NEW q \in astray' PROVE host.kind[q] = "link"
  <2>1. CASE q \in astray
    BY <2>1 DEF TreeInv
  <2>2. CASE q \notin astray
    <3>1. stack # <<>> /\ host.kind[Top.path] = "link" /\ q = Real(Top.path)
      BY <1>2, <1>4, <2>2
    <3>2. Top.path \in Paths
      BY <3>1, TopTypes
    <3> QED
      BY <3>1, <3>2 DEF TypeInv, Host, Real
  <2> QED
    BY <2>1, <2>2
<1> QED
  BY <1>1, <1>3, <1>4 DEF TreeInv, Real

LEMMA StepTreeInv ==
  ASSUME TypeInv, TreeInv, [Next]_vars
  PROVE  TreeInv'
<1>1. host' = host
  BY TreeSteps
<1>2. CASE UNCHANGED <<dest, astray>>
  BY <1>1, <1>2 DEF TreeInv, Real
<1>3. CASE Adds
  BY <1>1, <1>3, AddsToTree
<1> QED
  BY <1>2, <1>3, DestSteps

\* What clone_path() is called for: a file of the list, a parent, or what a
\* link leads to.
LEMMA StepPaths ==
  ASSUME TypeInv, FramesInv, [Next]_vars, NEW k \in 1..Len(stack')
  PROVE  \/ \E j \in 1..Len(stack) :
              \/ stack'[k].path = stack[j].path
              \/ stack[j].path # Root /\ stack'[k].path = Parent(stack[j].path)
              \/ host.kind[stack[j].path] = "link" /\ stack'[k].path = host.link[stack[j].path]
         \/ \E j \in DOMAIN host.files : stack'[k].path = host.files[j]
<1>1. stack \in Seq(Frame) /\ Len(stack) \in Nat
  BY DEF TypeInv, TypeOK
<1>2. CASE Returns
  <2>1. /\ Len(stack) \in Nat \ {0} /\ Len(stack') = Len(stack) - 1
        /\ \A j \in 1..(Len(stack) - 1) : stack'[j] = stack[j]
    BY <1>2, ReturnShape
  <2>2. k \in 1..(Len(stack) - 1) /\ k \in 1..Len(stack)
    BY <2>1
  <2> QED
    BY <2>1, <2>2
<1>3. CASE stack' = <<>> \/ stack' = stack
  BY <1>3
<1>4. CASE InstallNext
  <2>1. PICK g : g = Call(host.files[next])
    OBVIOUS
  <2>2. stack' = <<g>> /\ next \in DOMAIN host.files
    BY <1>4, <2>1 DEF InstallNext, TypeInv, TypeOK, Host
  <2>3. g.path = host.files[next]
    BY <2>1 DEF Call
  <2> QED
    BY <2>2, <2>3
<1>5. CASE CloneParent \/ FollowLink
  <2>1. PICK f, g : Calls(f, g)
    BY <1>5, CallSteps
  <2>2. /\ Len(stack) \in Nat \ {0} /\ Len(stack') = Len(stack) + 1
        /\ stack'[Len(stack)] = f /\ stack'[Len(stack) + 1] = g
        /\ \A j \in 1..(Len(stack) - 1) : stack'[j] = stack[j]
    BY <2>1, CallShape
  <2>3. /\ f.path = Top.path /\ Top = stack[Len(stack)] /\ Top.path # Root
        /\ \/ g.path = Parent(Top.path)
           \/ g.path = host.link[Top.path] /\ host.kind[Top.path] = "link"
    BY <2>1, TopTypes DEF Calls
  <2>4. Len(stack) \in 1..Len(stack)
    BY <2>2
  <2>5. k \in 1..(Len(stack) - 1) \/ k = Len(stack) \/ k = Len(stack) + 1
    BY <2>2
  <2>6. k \in 1..(Len(stack) - 1) => k \in 1..Len(stack)
    BY <2>2
  <2> QED
    BY <2>2, <2>3, <2>4, <2>5, <2>6
<1>6. CASE RelaxParent
  <2>1. PICK f : Relaxes(f)
    BY <1>6, RelaxSteps
  <2>2. /\ Len(stack) \in Nat \ {0} /\ Len(stack') = Len(stack) /\ stack'[Len(stack)] = f
        /\ \A j \in 1..(Len(stack) - 1) : stack'[j] = stack[j]
    BY <2>1, RelaxShape
  <2>3. f.path = Top.path /\ Top = stack[Len(stack)]
    BY <2>1, TopTypes DEF Relaxes
  <2>4. k \in 1..Len(stack) /\ (k \in 1..(Len(stack) - 1) \/ k = Len(stack))
    BY <2>2
  <2> QED
    BY <2>2, <2>3, <2>4
<1>7. CASE AllInstalled \/ UNCHANGED vars
  BY <1>3, <1>7 DEF AllInstalled, vars
<1> QED
  BY <1>2, <1>3, <1>4, <1>5, <1>6, <1>7, StepKinds DEF Ends

\* The links that lead astray are those that ln_r() made so.
LEMMA StepAstrayInv ==
  ASSUME TypeInv, AstrayInv, [Next]_vars
  PROVE  AstrayInv'
<1>1. host' = host
  BY TreeSteps
<1>2. SUFFICES ASSUME NEW q \in astray'
               PROVE  \E p \in Paths \ {Root} : Real(p) = q /\ LeadsAstray(p)
  BY <1>1 DEF AstrayInv, Real, LeadsAstray, Leads, RelPathOf, DirOf
<1>3. CASE q \in astray
  BY <1>3 DEF AstrayInv
<1>4. CASE q \notin astray
  <2>1. Creates
    BY <1>4 DEF Next, vars, tree, Creates, InstallNext, AllInstalled, Overflow, AlreadyThere,
       CloneParent, NoSource, RelaxFails, RelaxParent, FollowLink, Unimplemented, CopyFails, CutShort, Error
  <2>2. stack # <<>> /\ LeadsAstray(Top.path) /\ q = Real(Top.path)
    BY <1>4, <2>1, CreateSteps DEF NotCreated
  <2>3. Top.at # "start"
    BY <1>4, <2>1 DEF Creates, CreateLink, CreateDir, CopyFile, Is, At
  <2>4. Top.path \in Paths /\ Top = stack[Len(stack)] /\ Len(stack) \in Nat \ {0}
    BY <2>2, TopTypes
  <2>5. Top.path # Root
    BY <2>3, <2>4 DEF TypeInv, TypeOK
  <2> QED
    BY <2>2, <2>4, <2>5
<1> QED
  BY <1>3, <1>4

----------------------------------------------------------------------------
(***************************************************************************)
(* A call for a path that is already worked on.                            *)
(***************************************************************************)

\* The prefixes of a sequence, by its elements.
LEMMA PrefixElements ==
  ASSUME NEW T, NEW s \in Seq(T), NEW t \in Seq(T)
  PROVE  Seqs!IsPrefix(s, t) <=> Len(s) <= Len(t) /\ \A i \in 1..Len(s) : s[i] = t[i]
<1>1. CASE ~(Len(s) <= Len(t))
  BY <1>1 DEF Seqs!IsPrefix
<1>2. CASE Len(s) <= Len(t)
  <2>1. PICK n \in Nat : n = Len(s)
    OBVIOUS
  <2>2. \A i \in 1..n : s[i] \in T /\ t[i] \in T
    BY <1>2, <2>1
  <2>3. PICK a : a = SubSeq(s, 1, n)
    OBVIOUS
  <2>4. PICK b : b = SubSeq(t, 1, n)
    OBVIOUS
  <2>5. /\ a \in Seq(T) /\ Len(a) = IF 1 <= n THEN n - 1 + 1 ELSE 0
        /\ \A i \in 1..(n - 1 + 1) : a[i] = s[1 + i - 1]
    BY <2>1, <2>2, <2>3, SubSeqProperties
  <2>6. /\ b \in Seq(T) /\ Len(b) = IF 1 <= n THEN n - 1 + 1 ELSE 0
        /\ \A i \in 1..(n - 1 + 1) : b[i] = t[1 + i - 1]
    BY <2>1, <2>2, <2>4, SubSeqProperties
  <2>7. /\ Len(a) = n /\ Len(b) = n
        /\ \A i \in 1..n : a[i] = s[i] /\ b[i] = t[i]
    <3>1. \A i \in 1..n : 1 + i - 1 = i /\ i \in 1..(n - 1 + 1)
      BY <2>1
    <3>2. Len(a) = n /\ Len(b) = n
      BY <2>1, <2>5, <2>6
    <3> QED
      BY <2>5, <2>6, <3>1, <3>2
  <2>8. a = b <=> \A i \in 1..n : s[i] = t[i]
    <3>1. ASSUME \A i \in 1..n : s[i] = t[i] PROVE a = b
      <4>1. \A i \in 1..Len(a) : a[i] = b[i]
        BY <2>7, <3>1
      <4> QED
        BY <2>5, <2>6, <2>7, <4>1, SeqEqual
    <3> QED
      BY <2>7, <3>1
  <2> QED
    BY <1>2, <2>1, <2>3, <2>4, <2>8 DEF Seqs!IsPrefix
<1> QED
  BY <1>1, <1>2

\* The parent of a path is the path without its last component.
LEMMA ParentElements ==
  ASSUME NEW p \in Paths, p # Root
  PROVE  /\ p \in Seq(STRING) /\ Parent(p) \in Paths /\ Parent(p) \in Seq(STRING)
         /\ Len(p) \in Nat \ {0} /\ Len(Parent(p)) = Len(p) - 1
         /\ \A i \in 1..(Len(p) - 1) : Parent(p)[i] = p[i]
<1>1. p \in Seq(STRING) /\ Parent(p) \in Paths /\ Parent(p) \in Seq(STRING)
  BY ClonePathAssumption DEF HostsAreTrees
<1>2. Len(p) \in Nat \ {0}
  BY <1>1 DEF Root
<1> QED
  BY <1>1, <1>2, FrontElements DEF Parent

\* A path is a prefix of itself, and a prefix of a prefix of a path one of the path.
LEMMA PrefixOrder ==
  ASSUME NEW a \in Paths, NEW b \in Paths, NEW c \in Paths
  PROVE  /\ Seqs!IsPrefix(a, a)
         /\ Seqs!IsPrefix(a, b) => Len(a) <= Len(b) /\ Len(a) \in Nat /\ Len(b) \in Nat
         /\ Seqs!IsPrefix(a, b) /\ Seqs!IsPrefix(b, c) => Seqs!IsPrefix(a, c)
<1>1. a \in Seq(STRING) /\ b \in Seq(STRING) /\ c \in Seq(STRING)
  BY ClonePathAssumption DEF HostsAreTrees
<1>2. Len(a) \in Nat /\ Len(b) \in Nat /\ Len(c) \in Nat
  BY <1>1
<1>3. Seqs!IsPrefix(a, a)
  BY <1>1, <1>2, PrefixElements
<1>4. Seqs!IsPrefix(a, b) <=> Len(a) <= Len(b) /\ \A i \in 1..Len(a) : a[i] = b[i]
  BY <1>1, PrefixElements
<1>5. Seqs!IsPrefix(b, c) <=> Len(b) <= Len(c) /\ \A i \in 1..Len(b) : b[i] = c[i]
  BY <1>1, PrefixElements
<1>6. Seqs!IsPrefix(a, c) <=> Len(a) <= Len(c) /\ \A i \in 1..Len(a) : a[i] = c[i]
  BY <1>1, PrefixElements
<1>7. ASSUME Seqs!IsPrefix(a, b), Seqs!IsPrefix(b, c) PROVE Seqs!IsPrefix(a, c)
  <2>1. Len(a) <= Len(c) /\ \A i \in 1..Len(a) : i \in 1..Len(b)
    BY <1>2, <1>4, <1>5, <1>7
  <2> QED
    BY <1>4, <1>5, <1>6, <1>7, <2>1
<1> QED
  BY <1>2, <1>3, <1>4, <1>7

\* The prefixes of a path are the path, and the prefixes of its parent.
LEMMA PrefixOfParent ==
  ASSUME NEW a \in Paths, NEW b \in Paths
  PROVE  /\ b # Root => Seqs!IsPrefix(Parent(b), b) /\ ~Seqs!IsPrefix(b, Parent(b))
         /\ Seqs!IsPrefix(a, b) /\ a # b => b # Root /\ Seqs!IsPrefix(a, Parent(b))
<1>1. a \in Seq(STRING) /\ b \in Seq(STRING) /\ Len(a) \in Nat /\ Len(b) \in Nat
  BY ClonePathAssumption DEF HostsAreTrees
<1>2. ASSUME b # Root PROVE Seqs!IsPrefix(Parent(b), b) /\ ~Seqs!IsPrefix(b, Parent(b))
  <2>1. /\ Parent(b) \in Seq(STRING) /\ Len(b) \in Nat \ {0} /\ Len(Parent(b)) = Len(b) - 1
        /\ \A i \in 1..(Len(b) - 1) : Parent(b)[i] = b[i]
    BY <1>2, ParentElements
  <2>2. Len(Parent(b)) <= Len(b) /\ ~(Len(b) <= Len(Parent(b)))
    BY <2>1
  <2>3. Seqs!IsPrefix(Parent(b), b)
    BY <1>1, <2>1, <2>2, PrefixElements
  <2>4. ~Seqs!IsPrefix(b, Parent(b))
    BY <1>1, <2>1, <2>2, PrefixElements
  <2> QED
    BY <2>3, <2>4
<1>3. ASSUME Seqs!IsPrefix(a, b), a # b PROVE b # Root /\ Seqs!IsPrefix(a, Parent(b))
  <2>1. Len(a) <= Len(b) /\ \A i \in 1..Len(a) : a[i] = b[i]
    BY <1>1, <1>3, PrefixElements
  <2>2. Len(a) # Len(b)
    BY <1>1, <1>3, <2>1, SeqEqual
  <2>3. b # Root
    BY <1>1, <2>1, <2>2 DEF Root
  <2>4. /\ Parent(b) \in Seq(STRING) /\ Len(b) \in Nat \ {0} /\ Len(Parent(b)) = Len(b) - 1
        /\ \A i \in 1..(Len(b) - 1) : Parent(b)[i] = b[i]
    BY <2>3, ParentElements
  <2>5. /\ Len(a) <= Len(Parent(b))
        /\ \A i \in 1..Len(a) : i \in 1..(Len(b) - 1)
    BY <1>1, <2>1, <2>2, <2>4
  <2>6. Seqs!IsPrefix(a, Parent(b))
    BY <1>1, <2>1, <2>4, <2>5, PrefixElements
  <2> QED
    BY <2>3, <2>6
<1> QED
  BY <1>2, <1>3

\* What is above a path that has arrived has arrived too.
LEMMA AboveHasArrived ==
  ASSUME TypeInv, NEW p \in Paths, Arrived(p), NEW a \in Paths, Seqs!IsPrefix(a, p)
  PROVE  Arrived(a)
<1>1. ASSUME NEW q \in Paths, q # Root, Arrived(q) PROVE Arrived(Parent(q))
  <2>1. Parent(q) \in Paths
    BY <1>1, ParentElements
  <2>2. Visible(q)
    BY <1>1 DEF Arrived
  <2>3. Way(host, Parent(q)) \subseteq host.via[q]
    BY <1>1 DEF TypeInv, Host
  <2>4. host.via[Parent(q)] \subseteq host.via[q] /\ Real(Parent(q)) \in host.via[q]
    BY <2>3 DEF Way, Real
  <2> QED
    BY <2>2, <2>4 DEF Arrived, Visible, Reachable
<1> DEFINE D == {n \in Nat : \A q \in Paths : Len(q) = n /\ Arrived(q) /\ Seqs!IsPrefix(a, q) => Arrived(a)}
<1>2. 0 \in D
  <2> SUFFICES ASSUME NEW q \in Paths, Len(q) = 0, Arrived(q), Seqs!IsPrefix(a, q) PROVE Arrived(a)
    OBVIOUS
  <2>1. CASE a = q
    BY <2>1
  <2>2. CASE a # q
    <3>1. q # Root
      BY <2>2, PrefixOfParent
    <3> QED
      BY <3>1, ParentElements
  <2> QED
    BY <2>1, <2>2
<1>3. ASSUME NEW n \in Nat, n \in D PROVE n + 1 \in D
  <2> SUFFICES ASSUME NEW q \in Paths, Len(q) = n + 1, Arrived(q), Seqs!IsPrefix(a, q) PROVE Arrived(a)
    OBVIOUS
  <2>1. CASE a = q
    BY <2>1
  <2>2. CASE a # q
    <3>1. q # Root /\ Seqs!IsPrefix(a, Parent(q))
      BY <2>2, PrefixOfParent
    <3>2. Parent(q) \in Paths /\ Len(Parent(q)) = Len(q) - 1
      BY <3>1, ParentElements
    <3>3. Arrived(Parent(q)) /\ Len(Parent(q)) = n
      BY <1>1, <3>1, <3>2
    <3> QED
      BY <1>3, <3>1, <3>2, <3>3
  <2> QED
    BY <2>1, <2>2
<1>4. \A n \in Nat : n \in D
  <2> HIDE DEF D
  <2> QED
    BY <1>2, <1>3, NatSetInduction, Zenon
<1>5. p \in Seq(STRING) /\ Len(p) \in Nat
  BY ClonePathAssumption DEF HostsAreTrees
<1> QED
  BY <1>4, <1>5

(***************************************************************************)
(* Of a call above that has gone past its test for the target: it is not   *)
(* for the directory of a link whose target is awaited, nor for one above, *)
(* since that directory was there when the link was followed.              *)
(***************************************************************************)
AheadInv ==
  \A i, m \in 1..Len(stack) :
    i < m /\ stack[i].at = "link" /\ stack[m].at # "start" =>
      ~Seqs!IsPrefix(stack[m].path, Parent(stack[i].path))

\* A call passes its test for the target only if this is so.
LEMMA StepAheadInv ==
  ASSUME TypeInv, FramesInv, AheadInv, [Next]_vars
  PROVE  AheadInv'
<1>1. CASE UNCHANGED vars
  BY <1>1 DEF vars, AheadInv
<1>2. CASE Next
  <2>1. SUFFICES ASSUME NEW i \in 1..Len(stack'), NEW m \in 1..Len(stack'), i < m,
                        stack'[i].at = "link", stack'[m].at # "start"
                 PROVE  ~Seqs!IsPrefix(stack'[m].path, Parent(stack'[i].path))
    BY DEF AheadInv
  <2>2. stack \in Seq(Frame) /\ Len(stack) \in Nat
    BY DEF TypeInv, TypeOK
  <2>3. ASSUME i \in 1..Len(stack), m \in 1..Len(stack), stack[i].at = "link", stack[m].at # "start"
        PROVE  ~Seqs!IsPrefix(stack[m].path, Parent(stack[i].path))
    BY <2>1, <2>3 DEF AheadInv
  <2>4. CASE Returns
    <3>1. /\ Len(stack') = Len(stack) - 1
          /\ \A j \in 1..(Len(stack) - 1) : stack'[j] = stack[j]
      BY <2>4, ReturnShape
    <3>2. /\ i \in 1..Len(stack) /\ m \in 1..Len(stack)
          /\ stack'[i] = stack[i] /\ stack'[m] = stack[m]
      BY <2>1, <2>2, <3>1
    <3> QED
      BY <2>1, <2>3, <3>2
  <2>5. CASE stack' = <<>>
    BY <2>1, <2>5
  <2>6. CASE stack' = stack
    BY <2>1, <2>3, <2>6
  <2>7. CASE InstallNext
    <3>1. PICK g : g = Call(host.files[next])
      OBVIOUS
    <3>2. Len(stack') = 1
      BY <2>7, <3>1 DEF InstallNext
    <3> QED
      BY <2>1, <3>2
  <2>8. CASE CloneParent \/ FollowLink
    <3>1. PICK f, g : Calls(f, g)
      BY <2>8, CallSteps
    <3>2. /\ Len(stack) \in Nat \ {0} /\ Len(stack') = Len(stack) + 1
          /\ stack'[Len(stack)] = f /\ stack'[Len(stack) + 1] = g
          /\ \A j \in 1..(Len(stack) - 1) : stack'[j] = stack[j]
      BY <3>1, CallShape
    <3>3. /\ f.path = Top.path /\ Top = stack[Len(stack)] /\ g.at = "start"
          /\ Top.path \in Paths /\ Top.path # Root
      BY <3>1, TopTypes DEF Calls
    <3>4. m # Len(stack) + 1
      BY <2>1, <3>2, <3>3
    <3>5. /\ i \in 1..(Len(stack) - 1) /\ i \in 1..Len(stack) /\ m \in 1..Len(stack)
          /\ m \in 1..(Len(stack) - 1) \/ m = Len(stack)
      <4>1. PICK n : n = Len(stack)
        OBVIOUS
      <4>2. n \in Nat \ {0} /\ i \in 1..(n + 1) /\ m \in 1..(n + 1) /\ i < m /\ m # n + 1
        BY <2>1, <3>2, <3>4, <4>1
      <4>3. i \in 1..(n - 1) /\ i \in 1..n /\ m \in 1..n /\ (m \in 1..(n - 1) \/ m = n)
        BY <4>2
      <4> QED
        BY <4>1, <4>3
    <3>6. stack'[i] = stack[i]
      BY <3>2, <3>5
    <3>7. CASE m \in 1..(Len(stack) - 1)
      BY <2>1, <2>3, <3>2, <3>5, <3>6, <3>7
    <3>8. CASE m = Len(stack)
      <4>1. stack'[m].path = stack[m].path /\ stack[m] = Top
        BY <3>2, <3>3, <3>8
      <4>2. CASE Top.at # "start"
        BY <2>1, <2>3, <3>5, <3>6, <4>1, <4>2
      <4>3. CASE Top.at = "start"
        <5>1. ~Visible(Top.path)
          BY <3>1, <4>3 DEF Calls
        <5>2. stack[i] \in Frame
          BY <2>2, <3>5
        <5>3. stack[i].path \in Paths /\ stack[i].path # Root
          BY <2>1, <3>5, <3>6, <5>2 DEF Frame, TypeInv, TypeOK
        <5>4. Parent(stack[i].path) \in Paths
          BY <5>3, ParentElements
        <5>5. Arrived(Parent(stack[i].path))
          BY <2>1, <3>5, <3>6 DEF FramesInv, FrameInv
        <5>6. ASSUME Seqs!IsPrefix(Top.path, Parent(stack[i].path)) PROVE FALSE
          BY <3>3, <5>1, <5>4, <5>5, <5>6, AboveHasArrived DEF Arrived
        <5> QED
          BY <3>6, <4>1, <5>6
      <4> QED
        BY <4>2, <4>3
    <3> QED
      BY <3>5, <3>7, <3>8
  <2>9. CASE RelaxParent
    <3>1. PICK f : Relaxes(f)
      BY <2>9, RelaxSteps
    <3>2. /\ Len(stack) \in Nat \ {0} /\ Len(stack') = Len(stack) /\ stack'[Len(stack)] = f
          /\ \A j \in 1..(Len(stack) - 1) : stack'[j] = stack[j]
      BY <3>1, RelaxShape
    <3>3. f.path = Top.path /\ f.at = "create" /\ Top.at = "parent" /\ Top = stack[Len(stack)]
      BY <3>1, TopTypes DEF Relaxes
    <3>4. \A j \in 1..Len(stack) :
            /\ stack'[j].path = stack[j].path
            /\ stack'[j].at # "start" => stack[j].at # "start"
            /\ stack'[j].at = "link" => stack[j].at = "link"
      <4>1. \A j \in 1..Len(stack) : j \in 1..(Len(stack) - 1) \/ j = Len(stack)
        BY <3>2
      <4> QED
        BY <3>2, <3>3, <4>1
    <3> QED
      BY <2>1, <2>3, <3>2, <3>4
  <2>10. CASE AllInstalled
    BY <2>6, <2>10 DEF AllInstalled
  <2>11. CASE Ends
    BY <2>5, <2>6, <2>11 DEF Ends
  <2> QED
    BY <1>2, <2>4, <2>7, <2>8, <2>9, <2>10, <2>11, StepKinds
<1> QED
  BY <1>1, <1>2

\* A call that waits, and what it waits for.
LEMMA WaitingCall ==
  ASSUME TypeInv, FramesInv, NEW k \in 1..Len(stack)
  PROVE  /\ Len(stack) \in Nat /\ stack[k].path \in Paths /\ Real(stack[k].path) \in Paths
         /\ stack[k].at = "link" => host.kind[stack[k].path] = "link"
         /\ k # Len(stack) =>
              /\ stack[k].at \in {"parent", "link"} /\ stack[k].path # Root
              /\ stack[k + 1].path = Awaited(stack[k])
<1>1. stack \in Seq(Frame) /\ Len(stack) \in Nat
  BY DEF TypeInv, TypeOK
<1>2. stack[k] \in Frame
  BY <1>1
<1>3. stack[k].path \in Paths /\ Real(stack[k].path) \in Paths
  BY <1>2 DEF Frame, TypeInv, Host, Real
<1>4. /\ stack[k].at = "link" => host.kind[stack[k].path] = "link"
      /\ stack[k].at # "start" => stack[k].path # Root
  BY DEF TypeInv, TypeOK
<1>5. k # Len(stack) =>
        stack[k].at \in {"parent", "link"} /\ stack[k + 1].path = Awaited(stack[k])
  BY DEF FramesInv, FrameInv
<1> QED
  BY <1>1, <1>3, <1>4, <1>5

\* Calls for parents only: each one is for a path above the first.
LEMMA ParentChain ==
  ASSUME TypeInv, FramesInv, NEW a \in 1..Len(stack), NEW b \in 1..Len(stack), a <= b,
         \A c \in a..(b - 1) : stack[c].at # "link"
  PROVE  /\ Seqs!IsPrefix(stack[b].path, stack[a].path)
         /\ a # b => Len(stack[b].path) < Len(stack[a].path)
<1> DEFINE Above(c) == /\ Seqs!IsPrefix(stack[c].path, stack[a].path)
                       /\ a # c => Len(stack[c].path) < Len(stack[a].path)
           D == {d \in Nat : a + d <= b => Above(a + d)}
<1>1. PICK n : n = Len(stack)
  OBVIOUS
<1>2. n \in Nat /\ a \in 1..n /\ b \in 1..n /\ stack[a].path \in Paths
  BY <1>1, WaitingCall
<1>3. Above(a)
  BY <1>2, PrefixOrder
<1>4. ASSUME NEW c \in a..(b - 1), Above(c) PROVE Above(c + 1)
  <2>1. c \in 1..n /\ c # n /\ c + 1 \in 1..n /\ a # c + 1
    BY <1>2
  <2>2. /\ stack[c].at = "parent" /\ stack[c].path # Root /\ stack[c].path \in Paths
        /\ stack[c + 1].path = Awaited(stack[c]) /\ stack[c + 1].path \in Paths
    BY <1>1, <1>4, <2>1, WaitingCall
  <2>3. stack[c + 1].path = Parent(stack[c].path)
    BY <2>2 DEF Awaited
  <2>4. Seqs!IsPrefix(stack[c + 1].path, stack[c].path)
    BY <2>2, <2>3, PrefixOfParent
  <2>5. Len(stack[c].path) \in Nat /\ Len(stack[c + 1].path) = Len(stack[c].path) - 1
    BY <2>2, <2>3, ParentElements
  <2>6. Len(stack[c].path) <= Len(stack[a].path) /\ Len(stack[a].path) \in Nat
    BY <1>2, <1>4, <2>2, PrefixOrder
  <2>7. Seqs!IsPrefix(stack[c + 1].path, stack[a].path)
    BY <1>2, <1>4, <2>2, <2>4, PrefixOrder
  <2>8. Len(stack[c + 1].path) < Len(stack[a].path)
    BY <2>5, <2>6
  <2> QED
    BY <2>7, <2>8
<1> HIDE DEF Above
<1>5. 0 \in D
  <2>1. a + 0 = a
    BY <1>2
  <2> QED
    BY <1>3, <2>1
<1>6. ASSUME NEW d \in Nat, d \in D PROVE d + 1 \in D
  <2> SUFFICES ASSUME a + (d + 1) <= b PROVE Above(a + (d + 1))
    OBVIOUS
  <2>1. a + d \in a..(b - 1) /\ a + d <= b /\ (a + d) + 1 = a + (d + 1)
    BY <1>2
  <2>2. Above(a + d)
    BY <1>6, <2>1
  <2>3. Above((a + d) + 1)
    BY <1>4, <2>1, <2>2
  <2> QED
    BY <2>1, <2>3
<1>7. \A d \in Nat : d \in D
  <2> HIDE DEF D
  <2> QED
    BY <1>5, <1>6, NatSetInduction, Zenon
<1>8. b - a \in Nat /\ a + (b - a) = b /\ a + (b - a) <= b
  BY <1>2
<1>9. Above(b)
  BY <1>7, <1>8
<1> QED
  BY <1>9 DEF Above

\* What a link leads through, if it is not on the way to the link.
LEMMA LinkLeadsThrough ==
  ASSUME TypeInv, NEW p \in Paths, host.kind[p] = "link", NEW a \in Paths,
         Seqs!IsPrefix(a, host.link[p]), ~Seqs!IsPrefix(a, Parent(p))
  PROVE  Real(a) \in Way(host, host.link[Real(p)])
BY DEF TypeInv, Host, Real

\* A link that waits for another one can only be followed through the next of them.
LEMMA NextLink ==
  ASSUME TypeInv, FramesInv, AheadInv, NEW a \in 1..Len(stack), NEW b \in 1..Len(stack), a < b,
         stack[a].at = "link", stack[b].at = "link"
  PROVE  \E l \in (a + 1)..b : /\ stack[l].at = "link"
                               /\ Real(stack[l].path) \in Way(host, host.link[Real(stack[a].path)])
<1>1. PICK n : n = Len(stack)
  OBVIOUS
<1>2. n \in Nat /\ a \in 1..n /\ b \in 1..n /\ a # n /\ a + 1 \in 1..n
  BY <1>1, WaitingCall
<1> DEFINE L == {l \in (a + 1)..b : stack[l].at = "link"}
<1>3. b \in L /\ L \in SUBSET Nat
  BY <1>2
<1>4. PICK l \in L : \A c \in L : l <= c
  <2> HIDE DEF L
  <2> QED
    BY <1>3, LeastNatural
<1>5. l \in (a + 1)..b /\ stack[l].at = "link" /\ l \in 1..n /\ a < l /\ a + 1 <= l
  BY <1>2, <1>4
<1>6. \A c \in (a + 1)..(l - 1) : stack[c].at # "link"
  BY <1>2, <1>4, <1>5
<1>7. Seqs!IsPrefix(stack[l].path, stack[a + 1].path)
  BY <1>1, <1>2, <1>5, <1>6, ParentChain
<1>8. /\ stack[a].path \in Paths /\ host.kind[stack[a].path] = "link" /\ stack[l].path \in Paths
      /\ stack[a + 1].path = host.link[stack[a].path]
  BY <1>1, <1>2, <1>5, WaitingCall DEF Awaited
<1>9. ~Seqs!IsPrefix(stack[l].path, Parent(stack[a].path))
  BY <1>1, <1>2, <1>5 DEF AheadInv
<1>10. Real(stack[l].path) \in Way(host, host.link[Real(stack[a].path)])
  BY <1>7, <1>8, <1>9, LinkLeadsThrough
<1> QED
  BY <1>5, <1>10

\* If a call is for a path below a link that waits, some link on the way to
\* it can only be followed through that one.
LEMMA LinkAgain ==
  ASSUME TypeInv, FramesInv, NEW a \in 1..Len(stack), NEW b \in 1..Len(stack), a < b,
         stack[a].at = "link", Seqs!IsPrefix(stack[a].path, stack[b].path)
  PROVE  \E l \in a..(b - 1) : /\ stack[l].at = "link"
                               /\ Real(stack[a].path) \in Way(host, host.link[Real(stack[l].path)])
<1>1. PICK n : n = Len(stack)
  OBVIOUS
<1>2. n \in Nat /\ a \in 1..n /\ b \in 1..n /\ a # n /\ stack[a].path \in Paths
  BY <1>1, WaitingCall
<1> DEFINE M == {m \in (a + 1)..b : Seqs!IsPrefix(stack[a].path, stack[m].path)}
<1>3. b \in M /\ M \in SUBSET Nat
  BY <1>2
<1>4. PICK m \in M : \A c \in M : m <= c
  <2> HIDE DEF M
  <2> QED
    BY <1>3, LeastNatural
<1>5. m \in (a + 1)..b /\ Seqs!IsPrefix(stack[a].path, stack[m].path)
  BY <1>4
<1>6. PICK l : l = m - 1
  OBVIOUS
<1>7. l \in a..(b - 1) /\ l \in 1..n /\ l # n /\ l + 1 = m
  BY <1>2, <1>5, <1>6
<1>8. /\ stack[l].at \in {"parent", "link"} /\ stack[l].path # Root /\ stack[l].path \in Paths
      /\ stack[m].path = Awaited(stack[l])
      /\ stack[l].at = "link" => host.kind[stack[l].path] = "link"
  BY <1>1, <1>7, WaitingCall
<1>9. Parent(stack[l].path) \in Paths
  BY <1>8, ParentElements
<1>10. ~Seqs!IsPrefix(stack[a].path, Parent(stack[l].path))
  <2>1. CASE l = a
    BY <1>8, <2>1, PrefixOfParent
  <2>2. CASE l # a
    <3>1. l \in (a + 1)..b /\ ~(m <= l)
      BY <1>2, <1>5, <1>6, <1>7, <2>2
    <3>2. ~Seqs!IsPrefix(stack[a].path, stack[l].path)
      BY <1>4, <3>1
    <3>3. Seqs!IsPrefix(Parent(stack[l].path), stack[l].path)
      BY <1>8, PrefixOfParent
    <3> QED
      BY <1>2, <1>8, <1>9, <3>2, <3>3, PrefixOrder
  <2> QED
    BY <2>1, <2>2
<1>11. stack[l].at = "link"
  <2> SUFFICES ASSUME stack[l].at = "parent" PROVE FALSE
    BY <1>8
  <2>1. stack[m].path = Parent(stack[l].path)
    BY <1>8 DEF Awaited
  <2> QED
    BY <1>5, <1>10, <2>1
<1>12. stack[m].path = host.link[stack[l].path]
  BY <1>8, <1>11 DEF Awaited
<1>13. Real(stack[a].path) \in Way(host, host.link[Real(stack[l].path)])
  BY <1>2, <1>5, <1>8, <1>10, <1>11, <1>12, LinkLeadsThrough
<1> QED
  BY <1>7, <1>11, <1>13

\* Between two calls for the same path, there are links that lead to each other.
LEMMA CallsForTheSamePath ==
  ASSUME TypeInv, FramesInv, AheadInv, NEW j \in 1..Len(stack), NEW k \in 1..Len(stack), j < k,
         stack[j].path = stack[k].path
  PROVE  LinkCycle
<1>1. PICK n : n = Len(stack)
  OBVIOUS
<1>2. n \in Nat /\ j \in 1..n /\ k \in 1..n /\ stack[j].path \in Paths
  BY <1>1, WaitingCall
<1> DEFINE I == {i \in j..(k - 1) : stack[i].at = "link"}
<1>3. I # {} /\ I \in SUBSET Nat
  <2>1. ASSUME I = {} PROVE FALSE
    <3>1. \A c \in j..(k - 1) : stack[c].at # "link"
      BY <2>1
    <3>2. Len(stack[k].path) < Len(stack[j].path)
      BY <1>2, <3>1, ParentChain
    <3>3. Len(stack[j].path) \in Nat
      BY <1>2, PrefixOrder
    <3> QED
      BY <3>2, <3>3
  <2> QED
    BY <1>2, <2>1
<1>4. PICK i \in I : \A c \in I : i <= c
  <2> HIDE DEF I
  <2> QED
    BY <1>3, LeastNatural
<1>5. i \in j..(k - 1) /\ stack[i].at = "link" /\ i \in 1..n /\ i < k /\ j <= i
  BY <1>2, <1>4
<1>6. \A c \in j..(i - 1) : stack[c].at # "link"
  BY <1>2, <1>4, <1>5
<1>7. Seqs!IsPrefix(stack[i].path, stack[k].path)
  BY <1>1, <1>2, <1>5, <1>6, ParentChain
<1>8. PICK l \in i..(k - 1) : /\ stack[l].at = "link"
                              /\ Real(stack[i].path) \in Way(host, host.link[Real(stack[l].path)])
  BY <1>1, <1>2, <1>5, <1>7, LinkAgain
<1> DEFINE B == {c \in i..l : stack[c].at = "link"}
           links == {Real(stack[c].path) : c \in B}
<1>9. ASSUME NEW c \in B
      PROVE  /\ c \in 1..n /\ c <= l /\ stack[c].at = "link"
             /\ Real(stack[c].path) \in Paths /\ host.kind[Real(stack[c].path)] = "link"
  <2>1. c \in 1..n /\ c <= l /\ stack[c].at = "link"
    BY <1>2, <1>5, <1>8
  <2>2. /\ stack[c].path \in Paths /\ Real(stack[c].path) \in Paths
        /\ host.kind[stack[c].path] = "link"
    BY <1>1, <2>1, WaitingCall
  <2>3. host.kind[Real(stack[c].path)] = "link"
    BY <2>2 DEF TypeInv, Host, Real
  <2> QED
    BY <2>1, <2>2, <2>3
<1>10. i \in B /\ l \in B
  BY <1>2, <1>5, <1>8
<1>11. ASSUME NEW c \in B PROVE Way(host, host.link[Real(stack[c].path)]) \cap links # {}
  <2>1. CASE c = l
    BY <1>8, <1>10, <2>1
  <2>2. CASE c # l
    <3>1. c \in 1..n /\ l \in 1..n /\ c < l /\ c \in i..l
      BY <1>2, <1>5, <1>8, <1>9, <2>2
    <3>2. PICK d \in (c + 1)..l :
            /\ stack[d].at = "link"
            /\ Real(stack[d].path) \in Way(host, host.link[Real(stack[c].path)])
      BY <1>1, <1>8, <1>9, <3>1, NextLink
    <3>3. d \in B
      BY <1>2, <1>5, <3>1, <3>2
    <3> QED
      BY <3>2, <3>3
  <2> QED
    BY <2>1, <2>2
<1> HIDE DEF B
<1>12. links \subseteq {p \in Paths : host.kind[p] = "link"} /\ links # {}
  BY <1>9, <1>10
<1>13. \A p \in links : Way(host, host.link[p]) \cap links # {}
  <2> SUFFICES ASSUME NEW p \in links PROVE Way(host, host.link[p]) \cap links # {}
    OBVIOUS
  <2>1. PICK c \in B : p = Real(stack[c].path)
    OBVIOUS
  <2> HIDE DEF links
  <2> QED
    BY <1>11, <2>1
<1> HIDE DEF links
<1> QED
  BY <1>12, <1>13 DEF LinkCycle

----------------------------------------------------------------------------
(***************************************************************************)
(* The theorems.                                                           *)
(***************************************************************************)
LEMMA CloneInvariant == Spec => []CloneInv
<1>1. CloneInv /\ [Next]_vars => CloneInv'
  BY StepTypeInv, StepFramesInv, StepTreeInv, StepFreshInv, StepSoundInv, StepPermissions,
     StepLinksInv, StepFilesInv, StepWholeInv, StepAstrayInv DEF CloneInv
<1> QED
  BY <1>1, StartCloneInv, PTL DEF Spec

\* The frames of clone_path() are what its branches take them for.
THEOREM CloneTypes == Spec => []TypeOK
<1>1. CloneInv => TypeOK
  BY DEF CloneInv, TypeInv
<1> QED
  BY <1>1, CloneInvariant, PTL

\* clone_path() creates no link that leads to nothing, whatever fails.
THEOREM LinksDoNotDangle == Spec => []NoDanglingLink
<1>1. CloneInv => NoDanglingLink
  BY DEF CloneInv, LinksInv, NoDanglingLink, Arrived
<1> QED
  BY <1>1, CloneInvariant, PTL

\* Ok from install_files() means that every file arrived, and is whole.
THEOREM OkIsMeant == Spec => []OkMeansInstalled
<1>1. CloneInv => OkMeansInstalled
  BY DEF CloneInv, FilesInv, WholeInv, OkMeansInstalled, Arrived, TypeInv, Host
<1> QED
  BY <1>1, CloneInvariant, PTL

\* Without a missing file, a failing copy or a wrong link, an error means that
\* clone_path() was called for a path through a link.
THEOREM CloneErrorsAreExplained == Spec => []ErrorsAreExplained
<1>1. CloneInv => ErrorsAreExplained
  <2> SUFFICES ASSUME CloneInv, ~RealReason, \A p \in Used : Real(p) = p
               PROVE  phase # "error"
    BY DEF ErrorsAreExplained
  <2>1. Straight /\ astray = {}
    BY DEF Straight, RealReason
  <2> QED
    BY <2>1 DEF CloneInv, SoundInv
<1> QED
  BY <1>1, CloneInvariant, PTL

\* clone_path() leaves no directory writable that was not, except on errors.
THEOREM PermissionsAreRestored == Spec => []PermissionsRestored
<1>1. CloneInv => PermissionsRestored
  BY DEF CloneInv
<1> QED
  BY <1>1, CloneInvariant, PTL

\* A link that is aligned with its directory, which no other link was on the
\* way to, leads to what the link on the host leads to.
THEOREM OnlyMisalignedLinksGoAstray == Spec => []AstrayIsMisaligned
<1>1. CloneInv => AstrayIsMisaligned
  <2> SUFFICES ASSUME CloneInv, NEW q \in astray, NEW p \in Paths \ {Root},
                      Real(p) = q, LeadsAstray(p),
                      Aligned(host.link[p], Parent(p)), Parent(p) = DirOf(p)
               PROVE  FALSE
    BY DEF CloneInv, AstrayInv, AstrayIsMisaligned
  <2>1. host.link[p] \in Paths /\ host.link[p] \in Seq(STRING) /\ Parent(p) \in Seq(STRING)
    BY ClonePathAssumption DEF HostsAreTrees, CloneInv, TypeInv, Host
  <2>2. LeadsTo(Parent(p), ConvertAbsRel(host.link[p], Parent(p))) = host.link[p]
    BY <2>1, AlignedIsRight
  <2>3. Leads(p) = host.link[p]
    BY <2>2 DEF Leads, RelPathOf
  <2> QED
    BY <2>1, <2>3 DEF LeadsAstray
<1> QED
  BY <1>1, CloneInvariant, PTL

\* clone_path() has no limit on the links it follows; that it comes back to a
\* path it is working on, and never ends, is due to links of the host that lead to themselves.
THEOREM EndlessRecursionIsTheHosts == Spec => []RecursionMeansCycle
<1>1. Init => AheadInv
  BY DEF Init, Start, AheadInv
<1>2. CloneInv /\ AheadInv /\ [Next]_vars => AheadInv'
  BY StepAheadInv DEF CloneInv
<1>3. CloneInv /\ AheadInv => RecursionMeansCycle
  <2> SUFFICES ASSUME CloneInv, AheadInv, NEW j \in 1..Len(stack), NEW k \in 1..Len(stack),
                      j # k, stack[j].path = stack[k].path
               PROVE  LinkCycle
    BY DEF RecursionMeansCycle
  <2>1. TypeInv /\ FramesInv
    BY DEF CloneInv
  <2>2. PICK n \in Nat : n = Len(stack)
    BY <2>1, WaitingCall
  <2>3. j < k \/ k < j
    BY <2>2
  <2> QED
    BY <2>1, <2>3, CallsForTheSamePath
<1> QED
  BY <1>1, <1>2, <1>3, CloneInvariant, PTL DEF Spec
=============================================================================
