---------------------------- MODULE StringProofs ----------------------------
(***************************************************************************)
(* What the operators of StringHelpers compute, for texts of any length:   *)
(* trimming keeps the rest, replacing is splitting and joining, quoted     *)
(* words come back, and the loops of the code end. A loop is a recursive   *)
(* function, and what it computes is found by the least number of rounds   *)
(* for which it would be wrong.                                            *)
(***************************************************************************)
EXTENDS StringHelpers, SequenceTheorems, WellFoundedInduction, TLAPS

-----------------------------------------------------------------------------
(* Loops. *)

LEMMA LeastOf ==
    ASSUME NEW found \in SUBSET Nat, found # {}
    PROVE  \E i \in found : \A j \in found : i <= j
<1>1. PICK i \in found : \A j \in found : ~(<<j, i>> \in OpToRel(<, Nat))
  BY WFMin, NatLessThanWellFounded, Zenon
<1>2. \A j \in found : ~(j < i)
  BY <1>1 DEF OpToRel
<1>. QED
  BY <1>2

LEMMA GreatestOf ==
    ASSUME NEW n \in Nat, NEW found \in SUBSET (0..n), found # {}
    PROVE  \E i \in found : \A j \in found : i >= j
<1> DEFINE mirrored == {n - i : i \in found}
<1>1. mirrored \in SUBSET Nat /\ mirrored # {}
  <2>1. mirrored \subseteq Nat
    OBVIOUS
  <2>2. mirrored # {}
    <3>1. PICK i : i \in found
      OBVIOUS
    <3>2. n - i \in mirrored
      BY <3>1
    <3>. QED
      BY <3>2
  <2>. QED
    BY <2>1, <2>2
<1> HIDE DEF mirrored
<1>2. PICK k \in mirrored : \A l \in mirrored : k <= l
  BY <1>1, LeastOf
<1>3. PICK i \in found : k = n - i
  BY <1>2 DEF mirrored
<1>4. ASSUME NEW j \in found PROVE i >= j
  <2>1. n - i <= n - j
    BY <1>2, <1>3 DEF mirrored
  <2>. QED
    BY <2>1
<1>. QED
  BY <1>4

\* What holds of 0, and after a round when it did before, always holds.
LEMMA EveryRound ==
    ASSUME NEW N \in SUBSET Nat, 0 \in N, \A n \in N : n + 1 \in N
    PROVE  N = Nat
<1>1. SUFFICES ASSUME Nat \ N # {} PROVE FALSE
  OBVIOUS
<1>2. PICK i \in Nat \ N : \A j \in Nat \ N : i <= j
  <2>1. (Nat \ N) \in SUBSET Nat
    OBVIOUS
  <2>. QED
    BY <1>1, <2>1, LeastOf
<1>3. i # 0 /\ i - 1 \in Nat
  BY <1>2
<1>4. i - 1 \in N
  BY <1>2, <1>3
<1>. QED
  BY <1>2, <1>4

\* What no round leaves, the loop never leaves.
LEMMA LoopStays ==
    ASSUME NEW X, NEW f, f[0] \in X, \A n \in Nat : f[n] \in X => f[n + 1] \in X
    PROVE  \A n \in Nat : f[n] \in X
<1> DEFINE N == {n \in Nat : f[n] \in X}
<1>1. N \in SUBSET Nat /\ 0 \in N
  OBVIOUS
<1>2. \A n \in N : n + 1 \in N
  OBVIOUS
<1>3. N = Nat
  <2> HIDE DEF N
  <2>. QED
    BY <1>1, <1>2, EveryRound
<1>. QED
  BY <1>3

IsLoop(f, X, a, round) ==
    f \in [Nat -> X] /\ f[0] = a /\ \A n \in Nat : f[n + 1] = round[<<n + 1, f[n]>>]

\* A loop whose rounds stay in a set has a value after each of them.
LEMMA LoopExists ==
    ASSUME NEW X, NEW a \in X, NEW round \in [Nat \X X -> X]
    PROVE  \E f : IsLoop(f, X, a, round)
<1> DEFINE Part(n) == {h \in [0..n -> X] : h[0] = a /\ \A i \in 1..n : h[i] = round[<<i, h[i - 1]>>]}
           F(n)    == CHOOSE h : h \in Part(n)
<1>1. \A n \in Nat : Part(n) # {}
  <2> DEFINE N == {n \in Nat : Part(n) # {}}
  <2>1. 0 \in N
    <3>1. [i \in 0..0 |-> a] \in Part(0)
      OBVIOUS
    <3>. QED
      BY <3>1
  <2>2. ASSUME NEW n \in N PROVE n + 1 \in N
    <3>1. PICK h : h \in Part(n)
      OBVIOUS
    <3> DEFINE k == [i \in 0..n + 1 |-> IF i = n + 1 THEN round[<<n + 1, h[n]>>] ELSE h[i]]
    <3>2. k \in [0..n + 1 -> X] /\ k[0] = a
      BY <3>1
    <3>3. ASSUME NEW i \in 1..n + 1 PROVE k[i] = round[<<i, k[i - 1]>>]
      <4>1. n \in Nat /\ h[0] = a /\ \A l \in 1..n : h[l] = round[<<l, h[l - 1]>>]
        BY <3>1
      <4>2. CASE i = n + 1
        <5>1. k[i] = round[<<n + 1, h[n]>>] /\ k[i - 1] = h[n]
          BY <4>1, <4>2
        <5>. QED
          BY <4>2, <5>1
      <4>3. CASE i \in 1..n
        <5>1. k[i] = h[i] /\ k[i - 1] = h[i - 1]
          BY <4>1, <4>3
        <5>. QED
          BY <4>1, <4>3, <5>1
      <4>. QED
        BY <4>1, <4>2, <4>3
    <3>4. k \in Part(n + 1)
      BY <3>2, <3>3
    <3> HIDE DEF Part, k
    <3>. QED
      BY <3>4
  <2>3. N = Nat
    <3>1. N \in SUBSET Nat
      OBVIOUS
    <3> HIDE DEF N
    <3>. QED
      BY <2>1, <2>2, <3>1, EveryRound
  <2>. QED
    BY <2>3
<1>2. \A k \in Nat : \A m, n \in Nat : \A h \in Part(m), g \in Part(n) :
          k <= m /\ k <= n => h[k] = g[k]
  <2> DEFINE Same(k) == \A m, n \in Nat : \A h \in Part(m), g \in Part(n) :
                            k <= m /\ k <= n => h[k] = g[k]
             N == {k \in Nat : Same(k)}
  <2>1. 0 \in N
    OBVIOUS
  <2>2. ASSUME NEW k \in N PROVE k + 1 \in N
    <3>0. k \in Nat /\ Same(k)
      <4> HIDE DEF Same
      <4>. QED
        OBVIOUS
    <3>1. ASSUME NEW m \in Nat, NEW n \in Nat, NEW h \in Part(m), NEW g \in Part(n),
                 k + 1 <= m, k + 1 <= n
          PROVE  h[k + 1] = g[k + 1]
      <4>1. h[k] = g[k]
        <5> HIDE DEF Part
        <5>. QED
          BY <3>0, <3>1
      <4>2. k + 1 \in 1..m /\ k + 1 \in 1..n /\ (k + 1) - 1 = k
        BY <3>0, <3>1
      <4>3. h[k + 1] = round[<<k + 1, h[k]>>] /\ g[k + 1] = round[<<k + 1, g[k]>>]
        BY <4>2
      <4>. QED
        BY <4>1, <4>3
    <3>2. Same(k + 1)
      BY <3>1
    <3> HIDE DEF Same
    <3>. QED
      BY <3>0, <3>2
  <2>3. N = Nat
    <3>1. N \in SUBSET Nat
      OBVIOUS
    <3> HIDE DEF N
    <3>. QED
      BY <2>1, <2>2, <3>1, EveryRound
  <2>. QED
    BY <2>3
<1> DEFINE f == [n \in Nat |-> F(n)[n]]
<1>3. \A n \in Nat : F(n) \in Part(n)
  BY <1>1
<1>4. \A n \in Nat : F(n) \in [0..n -> X] /\ F(n)[0] = a /\ \A i \in 1..n : F(n)[i] = round[<<i, F(n)[i - 1]>>]
  BY <1>3
<1>5. ASSUME NEW n \in Nat, n # 0 PROVE F(n)[n] = round[<<n, F(n - 1)[n - 1]>>]
  <2>1. n - 1 \in Nat /\ n \in 1..n /\ n - 1 <= n
    BY <1>5
  <2>2. F(n)[n] = round[<<n, F(n)[n - 1]>>]
    BY <1>4, <2>1
  <2>3. F(n)[n - 1] = F(n - 1)[n - 1]
    <3> HIDE DEF F, Part
    <3>. QED
      BY <1>2, <1>3, <2>1
  <2>. QED
    BY <2>2, <2>3
<1> HIDE DEF F, Part
<1>6. f \in [Nat -> X]
  BY <1>4
<1>7. f[0] = a
  BY <1>4
<1>8. ASSUME NEW n \in Nat PROVE f[n + 1] = round[<<n + 1, f[n]>>]
  <2>1. n + 1 \in Nat /\ n + 1 # 0 /\ (n + 1) - 1 = n
    OBVIOUS
  <2>. QED
    BY <1>5, <2>1
<1> HIDE DEF f
<1>. QED
  BY <1>6, <1>7, <1>8 DEF IsLoop

-----------------------------------------------------------------------------
(* StringHelpers. *)

\* The operators of sequences, where it does not matter how they are defined.
Cat(s, t)     == s \o t
Part(s, m, n) == SubSeq(s, m, n)
More(s, e)    == Append(s, e)

HeldAt(s, t, i) == SubSeq(s, i, i + Len(t) - 1) = t

LEMMA PartOf ==
    ASSUME NEW A, NEW s \in Seq(A), NEW m \in 1..Len(s) + 1, NEW n \in m - 1..Len(s)
    PROVE  /\ SubSeq(s, m, n) \in Seq(A)
           /\ Len(SubSeq(s, m, n)) = n - m + 1
           /\ \A i \in 1..n - m + 1 : SubSeq(s, m, n)[i] = s[m + i - 1]
<1>1. Len(s) \in Nat /\ m \in Int /\ n \in Int
  BY LenProperties
<1>2. \A i \in m..n : s[i] \in A
  BY <1>1, ElementOfSeq
<1>. QED
  BY <1>1, <1>2, SubSeqProperties

\* Two texts that hold the same characters, from k and from l, have the same part.
LEMMA SamePart ==
    ASSUME NEW A, NEW s \in Seq(A), NEW x \in Seq(A), NEW n \in Nat,
           NEW k \in 1..Len(s) - n + 1, NEW l \in 1..Len(x) - n + 1,
           \A i \in 1..n : x[l + i - 1] = s[k + i - 1]
    PROVE  SubSeq(x, l, l + n - 1) = SubSeq(s, k, k + n - 1)
<1>0. Len(s) \in Nat /\ Len(x) \in Nat
  BY LenProperties
<1> DEFINE m == l + n - 1
           j == k + n - 1
<1>1. /\ k \in 1..Len(s) + 1 /\ j \in k - 1..Len(s) /\ j - k + 1 = n
      /\ l \in 1..Len(x) + 1 /\ m \in l - 1..Len(x) /\ m - l + 1 = n
  BY <1>0
<1> HIDE DEF m, j
<1>2. /\ SubSeq(s, k, j) \in Seq(A) /\ Len(SubSeq(s, k, j)) = n
      /\ \A i \in 1..n : SubSeq(s, k, j)[i] = s[k + i - 1]
  BY <1>1, PartOf
<1>3. /\ SubSeq(x, l, m) \in Seq(A) /\ Len(SubSeq(x, l, m)) = n
      /\ \A i \in 1..n : SubSeq(x, l, m)[i] = x[l + i - 1]
  BY <1>1, PartOf
<1>4. \A i \in 1..n : SubSeq(x, l, m)[i] = SubSeq(s, k, j)[i]
  BY <1>2, <1>3
<1>5. SubSeq(x, l, m) = SubSeq(s, k, j)
  BY <1>2, <1>3, <1>4, SeqEqual
<1>. QED
  BY <1>5 DEF m, j

\* Find() is the least index from which the text holds the other, when there is one.
LEMMA FindFacts ==
    ASSUME NEW A, NEW s \in Seq(A), NEW t \in Seq(A), NEW from \in Nat \ {0}
    PROVE  /\ Find(s, t, from) \in Nat
           /\ Find(s, t, from) # 0 =>
                 /\ Find(s, t, from) \in from..Len(s) - Len(t) + 1
                 /\ HeldAt(s, t, Find(s, t, from))
           /\ \A j \in from..Len(s) - Len(t) + 1 : HeldAt(s, t, j) =>
                 Find(s, t, from) # 0 /\ Find(s, t, from) <= j
<1> DEFINE found == {i \in from..Len(s) - Len(t) + 1 : HeldAt(s, t, i)}
<1>0. Len(s) \in Nat /\ Len(t) \in Nat
  BY LenProperties
<1>1. Find(s, t, from) = IF found = {} THEN 0 ELSE CHOOSE i \in found : \A j \in found : i <= j
  BY DEF Find, HeldAt
<1>2. found \subseteq Nat \ {0}
  BY <1>0
<1>3. CASE found = {}
  BY <1>1, <1>3
<1>4. CASE found # {}
  <2> DEFINE i == CHOOSE i \in found : \A j \in found : i <= j
  <2>1. i \in found /\ \A j \in found : i <= j
    <3>1. found \in SUBSET Nat
      BY <1>2
    <3> HIDE DEF found
    <3>2. \E k \in found : \A j \in found : k <= j
      BY <1>4, <3>1, LeastOf
    <3>. QED
      BY <3>2
  <2>2. Find(s, t, from) = i
    BY <1>1, <1>4
  <2> HIDE DEF i
  <2>. QED
    BY <1>2, <2>1, <2>2
<1>. QED
  BY <1>3, <1>4

\* After a prefix that is done with, the same is found as before it was put there.
LEMMA FindShift ==
    ASSUME NEW A, NEW s \in Seq(A), NEW t \in Seq(A), NEW p \in Seq(A),
           NEW last \in 1..Len(s) + 1
    PROVE  LET x == p \o SubSeq(s, last, Len(s)) IN
           Find(x, t, Len(p) + 1) =
               IF Find(s, t, last) = 0 THEN 0 ELSE Find(s, t, last) - last + 1 + Len(p)
<1> DEFINE x == p \o SubSeq(s, last, Len(s))
           shift == Len(p) + 1 - last
<1>0. Len(s) \in Nat /\ Len(t) \in Nat /\ Len(p) \in Nat /\ last \in Nat \ {0} /\ shift \in Int
  BY LenProperties
<1>1. /\ SubSeq(s, last, Len(s)) \in Seq(A)
      /\ Len(SubSeq(s, last, Len(s))) = Len(s) - last + 1
      /\ \A i \in 1..Len(s) - last + 1 : SubSeq(s, last, Len(s))[i] = s[last + i - 1]
  BY <1>0, PartOf
<1>2. x \in Seq(A) /\ Len(x) = Len(s) + shift
  <2>1. x \in Seq(A) /\ Len(x) = Len(p) + Len(SubSeq(s, last, Len(s)))
    BY <1>1, ConcatProperties
  <2> HIDE DEF x
  <2>. QED
    BY <1>0, <1>1, <2>1
<1>3. \A k \in last..Len(s) : x[k + shift] = s[k]
  <2> SUFFICES ASSUME NEW k \in last..Len(s) PROVE x[k + shift] = s[k]
    OBVIOUS
  <2>1. k + shift \in 1..Len(p) + Len(SubSeq(s, last, Len(s))) /\ ~(k + shift <= Len(p))
        /\ k + shift - Len(p) = k - last + 1 /\ k - last + 1 \in 1..Len(s) - last + 1
        /\ last + (k - last + 1) - 1 = k
    BY <1>0, <1>1
  <2>2. x[k + shift] = SubSeq(s, last, Len(s))[k - last + 1]
    BY <1>1, <2>1, ConcatProperties
  <2>. QED
    BY <1>1, <2>1, <2>2
<1> HIDE DEF x, shift
<1>4. \A k \in last..Len(s) - Len(t) + 1 : HeldAt(x, t, k + shift) <=> HeldAt(s, t, k)
  <2> SUFFICES ASSUME NEW k \in last..Len(s) - Len(t) + 1
               PROVE  SubSeq(x, k + shift, k + shift + Len(t) - 1) = SubSeq(s, k, k + Len(t) - 1)
    BY DEF HeldAt
  <2> DEFINE l == k + shift
  <2>1. k \in 1..Len(s) - Len(t) + 1 /\ l \in 1..Len(x) - Len(t) + 1
    BY <1>0, <1>2 DEF shift
  <2>2. \A i \in 1..Len(t) : x[l + i - 1] = s[k + i - 1]
    <3> SUFFICES ASSUME NEW i \in 1..Len(t) PROVE x[l + i - 1] = s[k + i - 1]
      OBVIOUS
    <3>1. k + i - 1 \in last..Len(s) /\ l + i - 1 = (k + i - 1) + shift
      BY <1>0
    <3>. QED
      BY <1>3, <3>1
  <2> DEFINE n == Len(t)
  <2>3. /\ n \in Nat /\ k \in 1..Len(s) - n + 1 /\ l \in 1..Len(x) - n + 1
        /\ \A i \in 1..n : x[l + i - 1] = s[k + i - 1]
    BY <1>0, <2>1, <2>2
  <2> HIDE DEF l, n
  <2>4. SubSeq(x, l, l + n - 1) = SubSeq(s, k, k + n - 1)
    BY <1>2, <2>3, SamePart, Zenon
  <2>. QED
    BY <2>4 DEF l, n
<1>5. Len(p) + 1 = last + shift /\ Len(p) + 1 \in Nat \ {0}
  BY <1>0 DEF shift
<1> DEFINE i == Find(s, t, last)
           j == Find(x, t, Len(p) + 1)
<1>6. /\ i \in Nat /\ (i # 0 => i \in last..Len(s) - Len(t) + 1 /\ HeldAt(s, t, i))
      /\ \A k \in last..Len(s) - Len(t) + 1 : HeldAt(s, t, k) => i # 0 /\ i <= k
  BY <1>0, FindFacts
<1>7. /\ j \in Nat /\ (j # 0 => j \in Len(p) + 1..Len(x) - Len(t) + 1 /\ HeldAt(x, t, j))
      /\ \A k \in Len(p) + 1..Len(x) - Len(t) + 1 : HeldAt(x, t, k) => j # 0 /\ j <= k
  BY <1>2, <1>5, FindFacts
<1> HIDE DEF i, j
<1>8. i # 0 => j # 0 /\ j <= i + shift
  <2> SUFFICES ASSUME i # 0 PROVE j # 0 /\ j <= i + shift
    OBVIOUS
  <2>1. i + shift \in Len(p) + 1..Len(x) - Len(t) + 1
    BY <1>0, <1>2, <1>5, <1>6
  <2>2. HeldAt(x, t, i + shift)
    BY <1>4, <1>6
  <2>. QED
    BY <1>7, <2>1, <2>2
<1>9. j # 0 => i # 0 /\ i <= j - shift
  <2> SUFFICES ASSUME j # 0 PROVE i # 0 /\ i <= j - shift
    OBVIOUS
  <2>1. j - shift \in last..Len(s) - Len(t) + 1 /\ (j - shift) + shift = j
    BY <1>0, <1>2, <1>5, <1>7
  <2>2. HeldAt(s, t, j - shift)
    BY <1>4, <1>7, <2>1
  <2>. QED
    BY <1>6, <2>1, <2>2
<1>10. j = IF i = 0 THEN 0 ELSE i - last + 1 + Len(p)
  <2>1. CASE i = 0
    BY <1>9, <2>1
  <2>2. CASE i # 0
    <3>1. j = i + shift
      BY <1>0, <1>6, <1>7, <1>8, <1>9, <2>2
    <3>. QED
      BY <1>0, <1>6, <2>2, <3>1 DEF shift
  <2>. QED
    BY <2>1, <2>2
<1>. QED
  BY <1>10 DEF i, j, x

\* FlattenSeq() has a value after each of its elements.
LEMMA FlattenLoop ==
    ASSUME NEW A, NEW ss \in Seq(Seq(A)), Len(ss) # 0
    PROVE  \E f \in [1..Len(ss) -> Seq(A)] :
              /\ FlattenSeq(ss) = f[Len(ss)] /\ f[1] = ss[1]
              /\ \A i \in 2..Len(ss) : f[i] = f[i - 1] \o ss[i]
<1> DEFINE Is(f)  == f = [i \in 1..Len(ss) |-> IF i = 1 THEN ss[i] ELSE f[i - 1] \o ss[i]]
           round  == [pair \in Nat \X Seq(A) |->
                         IF pair[1] \in 1..Len(ss) THEN pair[2] \o ss[pair[1]] ELSE pair[2]]
<1>0. Len(ss) \in Nat \ {0} /\ \A i \in 1..Len(ss) : ss[i] \in Seq(A)
  BY LenProperties, ElementOfSeq
<1>1. \E f : Is(f)
  <2>1. round \in [Nat \X Seq(A) -> Seq(A)]
    <3> SUFFICES ASSUME NEW n \in Nat, NEW v \in Seq(A)
                 PROVE  (IF n \in 1..Len(ss) THEN v \o ss[n] ELSE v) \in Seq(A)
      OBVIOUS
    <3>. QED
      BY <1>0, ConcatProperties
  <2>2. ASSUME NEW n \in 1..Len(ss), NEW v \in Seq(A) PROVE round[<<n, v>>] = v \o ss[n]
    <3>1. <<n, v>> \in Nat \X Seq(A) /\ <<n, v>>[1] = n /\ <<n, v>>[2] = v
      BY <1>0
    <3>. QED
      BY <3>1
  <2> HIDE DEF round
  <2>3. <<>> \in Seq(A)
    OBVIOUS
  <2>4. PICK h : IsLoop(h, Seq(A), <<>>, round)
    BY <2>1, <2>3, LoopExists
  <2>9. h \in [Nat -> Seq(A)] /\ h[0] = <<>> /\ \A n \in Nat : h[n + 1] = round[<<n + 1, h[n]>>]
    BY <2>4 DEF IsLoop
  <2>5. h[0] = <<>> /\ \A n \in 1..Len(ss) : h[n] = h[n - 1] \o ss[n]
    <3>1. h[0] = <<>>
      BY <2>9
    <3>2. ASSUME NEW n \in 1..Len(ss) PROVE h[n] = h[n - 1] \o ss[n]
      <4>1. n - 1 \in Nat /\ (n - 1) + 1 = n
        BY <1>0
      <4>2. h[n] = round[<<n, h[n - 1]>>]
        BY <2>9, <4>1
      <4>3. h[n - 1] \in Seq(A)
        BY <2>9, <4>1
      <4>. QED
        BY <2>2, <4>2, <4>3
    <3>. QED
      BY <3>1, <3>2
  <2>6. h[1] = ss[1]
    <3>1. 1 \in 1..Len(ss) /\ 1 - 1 = 0
      BY <1>0
    <3>2. h[1] = h[0] \o ss[1] /\ ss[1] \in Seq(A)
      BY <1>0, <2>5, <3>1
    <3>. QED
      BY <2>5, <3>2, ConcatEmptySeq
  <2> DEFINE f == [n \in 1..Len(ss) |-> h[n]]
  <2>7. \A i \in 1..Len(ss) : f[i] = IF i = 1 THEN ss[i] ELSE f[i - 1] \o ss[i]
    <3> SUFFICES ASSUME NEW i \in 1..Len(ss), i # 1 PROVE f[i] = f[i - 1] \o ss[i]
      BY <1>0, <2>6
    <3>1. i - 1 \in 1..Len(ss)
      BY <1>0
    <3>. QED
      BY <2>5, <3>1
  <2>8. Is(f)
    <3>1. f = [i \in 1..Len(ss) |-> f[i]]
      OBVIOUS
    <3> HIDE DEF f
    <3>. QED
      BY <2>7, <3>1
  <2>. QED
    BY <2>8
<1> DEFINE f == CHOOSE g : Is(g)
<1>2. FlattenSeq(ss) = f[Len(ss)]
  BY <1>0 DEF FlattenSeq
<1>3. Is(f)
  <2> HIDE DEF Is
  <2>. QED
    BY <1>1
<1> HIDE DEF f
<1>4. /\ DOMAIN f = 1..Len(ss) /\ f[1] = ss[1]
      /\ \A i \in 2..Len(ss) : f[i] = f[i - 1] \o ss[i]
  <2>1. DOMAIN f = 1..Len(ss)
    BY <1>3
  <2>2. f[1] = ss[1]
    BY <1>0, <1>3
  <2>3. ASSUME NEW i \in 2..Len(ss) PROVE f[i] = f[i - 1] \o ss[i]
    <3>1. i \in 1..Len(ss) /\ i # 1
      BY <1>0
    <3>2. f[i] = IF i = 1 THEN ss[i] ELSE f[i - 1] \o ss[i]
      BY <1>3, <3>1
    <3>. QED
      BY <3>1, <3>2
  <2>. QED
    BY <2>1, <2>2, <2>3
<1>5. \A n \in Nat : n + 1 \in 1..Len(ss) => f[n + 1] \in Seq(A)
  <2> DEFINE N == {n \in Nat : n + 1 \in 1..Len(ss) => f[n + 1] \in Seq(A)}
  <2>1. 0 \in N
    BY <1>0, <1>4
  <2>2. ASSUME NEW n \in N PROVE n + 1 \in N
    <3>1. CASE n + 2 \in 1..Len(ss)
      <4>1. n + 1 \in 1..Len(ss) /\ n + 2 \in 2..Len(ss) /\ (n + 2) - 1 = n + 1 /\ (n + 1) + 1 = n + 2
        BY <1>0, <3>1
      <4>2. f[n + 2] = f[n + 1] \o ss[n + 2] /\ f[n + 1] \in Seq(A) /\ ss[n + 2] \in Seq(A)
        BY <1>0, <1>4, <3>1, <4>1
      <4>3. f[n + 2] \in Seq(A)
        BY <4>2, ConcatProperties
      <4>. QED
        BY <4>1, <4>3
    <3>2. CASE n + 2 \notin 1..Len(ss)
      BY <3>2
    <3>. QED
      BY <3>1, <3>2
  <2>3. N = Nat
    <3>1. N \in SUBSET Nat
      OBVIOUS
    <3> HIDE DEF N
    <3>. QED
      BY <2>1, <2>2, <3>1, EveryRound
  <2>. QED
    BY <2>3
<1>6. f \in [1..Len(ss) -> Seq(A)]
  <2>1. f = [i \in 1..Len(ss) |-> f[i]]
    BY <1>3, <1>4
  <2>2. ASSUME NEW i \in 1..Len(ss) PROVE f[i] \in Seq(A)
    <3>1. i - 1 \in Nat /\ (i - 1) + 1 = i
      BY <1>0
    <3>. QED
      BY <1>5, <3>1
  <2>. QED
    BY <2>1, <2>2
<1>. QED
  BY <1>2, <1>4, <1>6

LEMMA FlattenFacts ==
    ASSUME NEW A, NEW ss \in Seq(Seq(A)), NEW x \in Seq(A)
    PROVE  /\ FlattenSeq(ss) \in Seq(A)
           /\ FlattenSeq(Append(ss, x)) = FlattenSeq(ss) \o x
<1> DEFINE tt == Append(ss, x)
<1>0. /\ Len(ss) \in Nat /\ tt \in Seq(Seq(A)) /\ Len(tt) = Len(ss) + 1
      /\ tt[Len(ss) + 1] = x /\ \A i \in 1..Len(ss) : tt[i] = ss[i]
  BY LenProperties, AppendProperties
<1> HIDE DEF tt
<1>1. PICK g \in [1..Len(tt) -> Seq(A)] :
          /\ FlattenSeq(tt) = g[Len(tt)] /\ g[1] = tt[1]
          /\ \A i \in 2..Len(tt) : g[i] = g[i - 1] \o tt[i]
  <2>1. Len(tt) # 0
    BY <1>0
  <2>2. tt \in Seq(Seq(A))
    BY <1>0
  <2>. QED
    BY <2>1, <2>2, FlattenLoop, Zenon
<1>2. CASE Len(ss) = 0
  <2>1. ss = <<>> /\ FlattenSeq(ss) = <<>>
    BY <1>2, EmptySeq DEF FlattenSeq
  <2>2. FlattenSeq(tt) = x
    BY <1>0, <1>1, <1>2
  <2>3. <<>> \in Seq(A) /\ <<>> \o x = x
    BY ConcatEmptySeq
  <2>. QED
    BY <2>1, <2>2, <2>3 DEF tt
<1>3. CASE Len(ss) # 0
  <2>1. PICK f \in [1..Len(ss) -> Seq(A)] :
            /\ FlattenSeq(ss) = f[Len(ss)] /\ f[1] = ss[1]
            /\ \A i \in 2..Len(ss) : f[i] = f[i - 1] \o ss[i]
    BY <1>3, FlattenLoop
  <2> DEFINE N == {n \in Nat : n + 1 <= Len(ss) => g[n + 1] = f[n + 1]}
  <2>2. 0 \in N
    BY <1>0, <1>1, <1>3, <2>1
  <2>3. ASSUME NEW n \in N PROVE n + 1 \in N
    <3> SUFFICES ASSUME n + 2 <= Len(ss) PROVE g[n + 2] = f[n + 2]
      OBVIOUS
    <3>1. /\ n + 2 \in 2..Len(ss) /\ n + 2 \in 2..Len(tt) /\ n + 2 \in 1..Len(ss)
          /\ (n + 2) - 1 = n + 1 /\ n + 1 <= Len(ss)
      BY <1>0
    <3>2. f[n + 2] = f[n + 1] \o ss[n + 2]
      BY <2>1, <3>1
    <3>3. g[n + 2] = g[n + 1] \o tt[n + 2]
      BY <1>1, <3>1
    <3>. QED
      BY <1>0, <3>1, <3>2, <3>3
  <2>4. N = Nat
    <3>1. N \in SUBSET Nat
      OBVIOUS
    <3> HIDE DEF N
    <3>. QED
      BY <2>2, <2>3, <3>1, EveryRound
  <2>5. g[Len(ss)] = f[Len(ss)]
    <3>1. Len(ss) - 1 \in Nat /\ (Len(ss) - 1) + 1 = Len(ss)
      BY <1>0, <1>3
    <3>2. Len(ss) - 1 \in N
      BY <2>4, <3>1
    <3>. QED
      BY <3>1, <3>2
  <2>6. Len(tt) \in 2..Len(tt) /\ Len(tt) - 1 = Len(ss)
    BY <1>0, <1>3
  <2>7. g[Len(tt)] = g[Len(ss)] \o x
    BY <1>0, <1>1, <2>6
  <2>8. f[Len(ss)] \in Seq(A)
    <3>1. Len(ss) \in 1..Len(ss)
      BY <1>0, <1>3
    <3>. QED
      BY <3>1
  <2>. QED
    BY <1>1, <2>1, <2>5, <2>7, <2>8 DEF tt
<1>. QED
  BY <1>2, <1>3

LEMMA FlattenTyped ==
    ASSUME NEW A, NEW ss \in Seq(Seq(A))
    PROVE  FlattenSeq(ss) \in Seq(A)
<1>1. <<>> \in Seq(A)
  OBVIOUS
<1>. QED
  BY <1>1, FlattenFacts

LEMMA FlattenMore ==
    ASSUME NEW A, NEW ss \in Seq(Seq(A)), NEW x \in Seq(A)
    PROVE  FlattenSeq(More(ss, x)) = Cat(FlattenSeq(ss), x)
BY FlattenFacts DEF More, Cat

\* A token and the separator after it, and what join() writes of values then.
Ended(token, separator) == token \o separator
Written(values, separator) == [i \in 1..Len(values) |-> Ended(values[i], separator)]

LEMMA EndedTyped ==
    ASSUME NEW A, NEW q \in Seq(A), NEW r \in Seq(A)
    PROVE  Ended(q, r) \in Seq(A) /\ Len(Ended(q, r)) = Len(q) + Len(r)
BY ConcatProperties DEF Ended

LEMMA WrittenTyped ==
    ASSUME NEW A, NEW values \in Seq(Seq(A)), NEW separator \in Seq(A)
    PROVE  Written(values, separator) \in Seq(Seq(A))
<1>1. Len(values) \in Nat /\ \A i \in 1..Len(values) : values[i] \in Seq(A)
  BY LenProperties, ElementOfSeq
<1>2. \A v \in Seq(A) : Ended(v, separator) \in Seq(A)
  BY EndedTyped
<1>. QED
  BY <1>1, <1>2 DEF Written

LEMMA WrittenMore ==
    ASSUME NEW A, NEW values \in Seq(Seq(A)), NEW y \in Seq(A), NEW separator \in Seq(A), NEW u,
           u = [i \in 1..Len(values) + 1 |->
                   IF i = Len(values) + 1 THEN y ELSE Ended(values[i], separator)]
    PROVE  u = More(Written(values, separator), y)
<1> DEFINE n == Len(values)
           m == Written(values, separator)
<1>0. n \in Nat /\ \A i \in 1..n : values[i] \in Seq(A)
  BY LenProperties, ElementOfSeq
<1>1. \A v \in Seq(A) : Ended(v, separator) \in Seq(A)
  BY EndedTyped
<1>2. m \in Seq(Seq(A)) /\ Len(m) = n /\ \A i \in 1..n : m[i] = Ended(values[i], separator)
  BY <1>0, WrittenTyped DEF Written
<1>3. u \in [1..n + 1 -> Seq(A)] /\ n + 1 \in Nat
  BY <1>0, <1>1
<1>4. u \in Seq(Seq(A)) /\ Len(u) = n + 1
  <2> DEFINE k == n + 1
             B == Seq(A)
  <2>1. u \in [1..k -> B] /\ k \in Nat
    BY <1>3
  <2> HIDE DEF k, B
  <2>2. u \in Seq(B) /\ Len(u) = k
    BY ONLY <2>1
  <2>. QED
    BY <2>2 DEF k, B
<1>5. \A i \in 1..n + 1 : u[i] = IF i = n + 1 THEN y ELSE Ended(values[i], separator)
  OBVIOUS
<1> HIDE DEF n, m
<1> DEFINE w == Append(m, y)
<1>6. w \in Seq(Seq(A)) /\ Len(w) = Len(m) + 1 /\ w[Len(m) + 1] = y /\ \A i \in 1..Len(m) : w[i] = m[i]
  BY <1>2, AppendProperties
<1> HIDE DEF w
<1>7. ASSUME NEW i \in 1..n + 1 PROVE u[i] = w[i]
  <2>1. i = n + 1 \/ (i \in 1..n /\ i # n + 1)
    BY <1>0
  <2>. QED
    BY <1>2, <1>5, <1>6, <2>1
<1>8. Len(w) = Len(u) /\ \A i \in 1..Len(u) : u[i] = w[i]
  BY <1>2, <1>4, <1>6, <1>7
<1>9. u = w
  <2> DEFINE B == Seq(A)
  <2>1. u \in Seq(B) /\ w \in Seq(B)
    BY <1>4, <1>6
  <2> HIDE DEF B
  <2>. QED
    BY <1>8, <2>1, SeqEqual
<1>. QED
  BY <1>9 DEF w, m, More

LEMMA NothingJoined == \A separator : Join(<<>>, separator, TRUE) = <<>>
<1>1. FlattenSeq(<<>>) = <<>>
  BY DEF FlattenSeq
<1>. QED
  BY <1>1 DEF Join

LEMMA JoinIsFlat ==
    ASSUME NEW A, NEW values \in Seq(Seq(A)), NEW separator \in Seq(A)
    PROVE  Join(values, separator, TRUE) = FlattenSeq(Written(values, separator))
<1>1. DOMAIN values = 1..Len(values)
  BY LenProperties
<1>. QED
  BY <1>1 DEF Join, Written, Ended

LEMMA JoinTyped ==
    ASSUME NEW A, NEW values \in Seq(Seq(A)), NEW separator \in Seq(A)
    PROVE  Join(values, separator, TRUE) \in Seq(A)
<1>1. Written(values, separator) \in Seq(Seq(A))
  BY WrittenTyped
<1>2. FlattenSeq(Written(values, separator)) \in Seq(A)
  BY <1>1, FlattenTyped
<1>. QED
  BY <1>2, JoinIsFlat

\* One more value is written after the ones before it and their separators.
LEMMA JoinMore ==
    ASSUME NEW A, NEW values \in Seq(Seq(A)), NEW x \in Seq(A), NEW separator \in Seq(A)
    PROVE  Join(More(values, x), separator, TRUE) =
               Cat(Join(values, separator, TRUE), Ended(x, separator))
<1> DEFINE n    == Len(values)
           more == More(values, x)
           y    == Ended(x, separator)
           u    == [i \in 1..n + 1 |-> IF i = n + 1 THEN y ELSE Ended(values[i], separator)]
<1>1. n \in Nat /\ Len(more) = n + 1 /\ more[n + 1] = x /\ \A i \in 1..n : more[i] = values[i]
  BY LenProperties, AppendProperties DEF More
<1>2. more \in Seq(Seq(A))
  BY AppendProperties DEF More
<1>3. y \in Seq(A)
  BY EndedTyped
<1> HIDE DEF more
<1>4. Written(more, separator) = u
  <2>1. ASSUME NEW i \in 1..n + 1
        PROVE  Ended(more[i], separator) = IF i = n + 1 THEN y ELSE Ended(values[i], separator)
    <3>1. i = n + 1 \/ (i \in 1..n /\ i # n + 1)
      BY <1>1
    <3>. QED
      BY <1>1, <3>1
  <2>. QED
    BY <1>1, <2>1 DEF Written
<1>5. u = More(Written(values, separator), y)
  <2>1. u = [i \in 1..n + 1 |-> IF i = n + 1 THEN y ELSE Ended(values[i], separator)]
    OBVIOUS
  <2> HIDE DEF u, y
  <2>. QED
    BY <1>3, <2>1, WrittenMore
<1> HIDE DEF u, y
<1>6. Join(more, separator, TRUE) = FlattenSeq(Written(more, separator))
  BY <1>2, JoinIsFlat
<1>7. FlattenSeq(More(Written(values, separator), y)) = Cat(FlattenSeq(Written(values, separator)), y)
  <2>1. Written(values, separator) \in Seq(Seq(A))
    BY WrittenTyped
  <2>. QED
    BY <1>3, <2>1, FlattenMore
<1>8. Join(values, separator, TRUE) = FlattenSeq(Written(values, separator))
  BY JoinIsFlat
<1>. QED
  BY <1>4, <1>5, <1>6, <1>7, <1>8 DEF more, y

LEMMA JoinLast ==
    ASSUME NEW A, NEW values \in Seq(Seq(A)), NEW x \in Seq(A), NEW separator \in Seq(A)
    PROVE  Join(More(values, x), separator, FALSE) = Cat(Join(values, separator, TRUE), x)
<1> DEFINE n    == Len(values)
           more == More(values, x)
           u    == [i \in 1..n + 1 |-> IF i = n + 1 THEN x ELSE Ended(values[i], separator)]
<1>1. n \in Nat /\ Len(more) = n + 1 /\ more[n + 1] = x /\ \A i \in 1..n : more[i] = values[i]
  BY LenProperties, AppendProperties DEF More
<1>2. DOMAIN more = 1..n + 1
  <2>1. more \in Seq(Seq(A))
    BY AppendProperties DEF More
  <2>. QED
    BY <1>1, <2>1, LenProperties
<1> HIDE DEF more
<1>3. Join(more, separator, FALSE) = FlattenSeq(u)
  <2> DEFINE v == [i \in DOMAIN more |-> IF i # Len(more) \/ FALSE THEN more[i] \o separator ELSE more[i]]
  <2>1. \A i \in 1..n + 1 : (IF i # Len(more) \/ FALSE THEN more[i] \o separator ELSE more[i]) =
                                IF i = n + 1 THEN x ELSE Ended(values[i], separator)
    <3> SUFFICES ASSUME NEW i \in 1..n + 1
                 PROVE  (IF i # Len(more) \/ FALSE THEN more[i] \o separator ELSE more[i]) =
                            IF i = n + 1 THEN x ELSE Ended(values[i], separator)
      OBVIOUS
    <3>1. CASE i = n + 1
      BY <1>1, <3>1
    <3>2. CASE i # n + 1
      <4>1. i \in 1..n
        BY <1>1, <3>2
      <4>2. more[i] = values[i] /\ i # Len(more)
        BY <1>1, <3>2, <4>1
      <4>. QED
        BY <3>2, <4>2, Zenon DEF Ended
    <3>. QED
      BY <3>1, <3>2
  <2>2. v = u
    BY <1>2, <2>1
  <2>3. Join(more, separator, FALSE) = FlattenSeq(v)
    BY DEF Join
  <2> HIDE DEF u, v
  <2>. QED
    BY <2>2, <2>3
<1>4. u = More(Written(values, separator), x)
  <2>1. u = [i \in 1..n + 1 |-> IF i = n + 1 THEN x ELSE Ended(values[i], separator)]
    OBVIOUS
  <2> HIDE DEF u
  <2>. QED
    BY <2>1, WrittenMore
<1> HIDE DEF u
<1>5. FlattenSeq(More(Written(values, separator), x)) = Cat(FlattenSeq(Written(values, separator)), x)
  <2>1. Written(values, separator) \in Seq(Seq(A))
    BY WrittenTyped
  <2>. QED
    BY <2>1, FlattenMore
<1>6. Join(values, separator, TRUE) = FlattenSeq(Written(values, separator))
  BY JoinIsFlat
<1>. QED
  BY <1>3, <1>4, <1>5, <1>6 DEF more

-----------------------------------------------------------------------------
(* split() and replace(). *)

SplitState(A, s) == [tokens : Seq(Seq(A)), last : 1..Len(s) + 1]

LEMMA SplitRoundStays ==
    ASSUME NEW A, NEW s \in Seq(A), NEW t \in Seq(A), NEW before \in SplitState(A, s)
    PROVE  /\ SplitRound(s, t, before) \in SplitState(A, s)
           /\ Find(s, t, before.last) = 0 => SplitRound(s, t, before) = before
           /\ Find(s, t, before.last) # 0 =>
                 LET next  == Find(s, t, before.last)
                     token == Part(s, before.last, next - 1)
                 IN  /\ next \in before.last..Len(s) - Len(t) + 1
                     /\ token \in Seq(A) /\ Len(token) = next - before.last
                     /\ SplitRound(s, t, before) =
                            [tokens |-> More(before.tokens, token), last |-> next + Len(t)]
<1> DEFINE next  == Find(s, t, before.last)
           token == Part(s, before.last, next - 1)
<1>0. /\ Len(s) \in Nat /\ Len(t) \in Nat
      /\ before.last \in 1..Len(s) + 1 /\ before.tokens \in Seq(Seq(A))
  BY LenProperties DEF SplitState
<1>1. CASE next = 0
  BY <1>1 DEF SplitRound
<1>2. CASE next # 0
  <2>1. next \in before.last..Len(s) - Len(t) + 1
    BY <1>0, <1>2, FindFacts
  <2> DEFINE from == before.last
             to   == next - 1
  <2>2. from \in 1..Len(s) + 1 /\ to \in from - 1..Len(s) /\ to - from + 1 = next - before.last
    BY <1>0, <2>1
  <2> HIDE DEF from, to
  <2>3. SubSeq(s, from, to) \in Seq(A) /\ Len(SubSeq(s, from, to)) = next - before.last
    BY <2>2, PartOf
  <2>4. token \in Seq(A) /\ Len(token) = next - before.last
    BY <2>3 DEF from, to, Part
  <2>5. More(before.tokens, token) \in Seq(Seq(A))
    <3> HIDE DEF token
    <3>. QED
      BY <1>0, <2>4 DEF More
  <2>6. SplitRound(s, t, before) =
            [tokens |-> More(before.tokens, token), last |-> next + Len(t)]
    BY <1>2 DEF SplitRound, Part, More
  <2>7. next + Len(t) \in 1..Len(s) + 1
    BY <1>0, <2>1
  <2>8. [tokens |-> More(before.tokens, token), last |-> next + Len(t)] \in SplitState(A, s)
    <3> HIDE DEF token, next
    <3>. QED
      BY <2>5, <2>7 DEF SplitState
  <2>. QED
    BY <1>2, <2>1, <2>4, <2>6, <2>8
<1>. QED
  BY <1>1, <1>2

IsSplitLoop(loop, A, s, t) ==
    /\ loop[0] = [tokens |-> <<>>, last |-> 1]
    /\ \A n \in Nat : loop[n] \in SplitState(A, s) /\ loop[n + 1] = SplitRound(s, t, loop[n])

\* The loop of split() is what its rounds make of it.
LEMMA SplitRounds ==
    ASSUME NEW A, NEW s \in Seq(A), NEW t \in Seq(A)
    PROVE  IsSplitLoop(SplitLoop(s, t), A, s, t)
<1> DEFINE X     == SplitState(A, s)
           a     == [tokens |-> <<>>, last |-> 1]
           round == [pair \in Nat \X X |-> SplitRound(s, t, pair[2])]
           Is(f) == f = [n \in Nat |-> IF n = 0 THEN a ELSE SplitRound(s, t, f[n - 1])]
           loop  == CHOOSE f : Is(f)
<1>1. a \in X
  <2>1. Len(s) \in Nat /\ <<>> \in Seq(Seq(A))
    BY LenProperties
  <2>. QED
    BY <2>1 DEF SplitState
<1>2. \A x \in X : SplitRound(s, t, x) \in X
  BY SplitRoundStays
<1>3. SplitLoop(s, t) = loop
  BY DEF SplitLoop
<1> HIDE DEF X, a
<1>4. \E f \in [Nat -> X] : Is(f)
  <2>1. round \in [Nat \X X -> X]
    BY <1>2
  <2>2. \A n \in Nat, x \in X : round[<<n, x>>] = SplitRound(s, t, x)
    OBVIOUS
  <2> HIDE DEF round
  <2>3. PICK f : IsLoop(f, X, a, round)
    BY <1>1, <2>1, LoopExists
  <2>4. f \in [Nat -> X] /\ f[0] = a /\ \A n \in Nat : f[n + 1] = round[<<n + 1, f[n]>>]
    BY <2>3 DEF IsLoop
  <2>5. \A n \in Nat : f[n] = IF n = 0 THEN a ELSE SplitRound(s, t, f[n - 1])
    <3> SUFFICES ASSUME NEW n \in Nat, n # 0 PROVE f[n] = SplitRound(s, t, f[n - 1])
      BY <2>4
    <3>1. n - 1 \in Nat /\ (n - 1) + 1 = n
      OBVIOUS
    <3>2. f[n] = round[<<n, f[n - 1]>>] /\ f[n - 1] \in X
      BY <2>4, <3>1
    <3>. QED
      BY <2>2, <3>2
  <2>6. f = [n \in Nat |-> f[n]]
    BY <2>4
  <2>. QED
    BY <2>4, <2>5, <2>6
<1>5. Is(loop)
  <2> HIDE DEF Is
  <2>. QED
    BY <1>4
<1> HIDE DEF loop
<1>6. loop[0] = a
  BY <1>5
<1>7. \A n \in Nat : loop[n + 1] = SplitRound(s, t, loop[n])
  <2> SUFFICES ASSUME NEW n \in Nat PROVE loop[n + 1] = SplitRound(s, t, loop[n])
    OBVIOUS
  <2>1. n + 1 \in Nat /\ n + 1 # 0 /\ (n + 1) - 1 = n
    OBVIOUS
  <2>. QED
    BY <1>5, <2>1
<1>8. \A n \in Nat : loop[n] \in X
  <2>1. loop[0] \in X /\ \A n \in Nat : loop[n] \in X => loop[n + 1] \in X
    BY <1>1, <1>2, <1>6, <1>7
  <2>. QED
    BY <2>1, LoopStays
<1>. QED
  BY <1>3, <1>6, <1>7, <1>8 DEF X, a, IsSplitLoop

ReplaceState(A) == [text : Seq(A), pos : Nat \ {0}]

LEMMA ReplaceRoundStays ==
    ASSUME NEW A, NEW t \in Seq(A), NEW r \in Seq(A), NEW before \in ReplaceState(A)
    PROVE  ReplaceRound(t, r, before) \in ReplaceState(A)
<1> DEFINE text == before.text
           i    == Find(text, t, before.pos)
<1>0. text \in Seq(A) /\ before.pos \in Nat \ {0}
  BY DEF ReplaceState
<1>1. Len(text) \in Nat /\ Len(t) \in Nat /\ Len(r) \in Nat
  BY <1>0, LenProperties
<1>2. ReplaceRound(t, r, before) =
          IF i = 0 THEN before
          ELSE [text |-> SubSeq(text, 1, i - 1) \o r \o SubSeq(text, i + Len(t), Len(text)),
                pos  |-> i + Len(r)]
  BY DEF ReplaceRound
<1>3. CASE i # 0
  <2>1. i \in before.pos..Len(text) - Len(t) + 1
    <3> HIDE DEF text
    <3>. QED
      BY <1>0, <1>3, FindFacts
  <2> HIDE DEF text, i
  <2>2. 1 \in 1..Len(text) + 1 /\ i - 1 \in 1 - 1..Len(text)
        /\ i + Len(t) \in 1..Len(text) + 1 /\ Len(text) \in i + Len(t) - 1..Len(text)
    BY <1>0, <1>1, <2>1
  <2>3. SubSeq(text, 1, i - 1) \in Seq(A) /\ SubSeq(text, i + Len(t), Len(text)) \in Seq(A)
    BY <1>0, <2>2, PartOf
  <2>4. SubSeq(text, 1, i - 1) \o r \o SubSeq(text, i + Len(t), Len(text)) \in Seq(A)
    BY <2>3, ConcatProperties
  <2>5. i + Len(r) \in Nat \ {0}
    BY <1>0, <1>1, <2>1
  <2>. QED
    BY <1>2, <1>3, <2>4, <2>5 DEF ReplaceState
<1>. QED
  BY <1>2, <1>3

IsReplaceLoop(loop, A, s, t, r) ==
    /\ loop[0] = [text |-> s, pos |-> 1]
    /\ \A n \in Nat : loop[n] \in ReplaceState(A) /\ loop[n + 1] = ReplaceRound(t, r, loop[n])

\* The loop of replace() as well.
LEMMA ReplaceRounds ==
    ASSUME NEW A, NEW s \in Seq(A), NEW t \in Seq(A), NEW r \in Seq(A)
    PROVE  IsReplaceLoop(ReplaceLoop(s, t, r), A, s, t, r)
<1> DEFINE X     == ReplaceState(A)
           a     == [text |-> s, pos |-> 1]
           round == [pair \in Nat \X X |-> ReplaceRound(t, r, pair[2])]
           Is(f) == f = [n \in Nat |-> IF n = 0 THEN a ELSE ReplaceRound(t, r, f[n - 1])]
           loop  == CHOOSE f : Is(f)
<1>1. a \in X
  BY DEF ReplaceState
<1>2. \A x \in X : ReplaceRound(t, r, x) \in X
  BY ReplaceRoundStays
<1>3. ReplaceLoop(s, t, r) = loop
  BY DEF ReplaceLoop
<1> HIDE DEF X, a
<1>4. \E f \in [Nat -> X] : Is(f)
  <2>1. round \in [Nat \X X -> X]
    BY <1>2
  <2>2. \A n \in Nat, x \in X : round[<<n, x>>] = ReplaceRound(t, r, x)
    OBVIOUS
  <2> HIDE DEF round
  <2>3. PICK f : IsLoop(f, X, a, round)
    BY <1>1, <2>1, LoopExists
  <2>4. f \in [Nat -> X] /\ f[0] = a /\ \A n \in Nat : f[n + 1] = round[<<n + 1, f[n]>>]
    BY <2>3 DEF IsLoop
  <2>5. \A n \in Nat : f[n] = IF n = 0 THEN a ELSE ReplaceRound(t, r, f[n - 1])
    <3> SUFFICES ASSUME NEW n \in Nat, n # 0 PROVE f[n] = ReplaceRound(t, r, f[n - 1])
      BY <2>4
    <3>1. n - 1 \in Nat /\ (n - 1) + 1 = n
      OBVIOUS
    <3>2. f[n] = round[<<n, f[n - 1]>>] /\ f[n - 1] \in X
      BY <2>4, <3>1
    <3>. QED
      BY <2>2, <3>2
  <2>6. f = [n \in Nat |-> f[n]]
    BY <2>4
  <2>. QED
    BY <2>4, <2>5, <2>6
<1>5. Is(loop)
  <2> HIDE DEF Is
  <2>. QED
    BY <1>4
<1> HIDE DEF loop
<1>6. loop[0] = a
  BY <1>5
<1>7. \A n \in Nat : loop[n + 1] = ReplaceRound(t, r, loop[n])
  <2> SUFFICES ASSUME NEW n \in Nat PROVE loop[n + 1] = ReplaceRound(t, r, loop[n])
    OBVIOUS
  <2>1. n + 1 \in Nat /\ n + 1 # 0 /\ (n + 1) - 1 = n
    OBVIOUS
  <2>. QED
    BY <1>5, <2>1
<1>8. \A n \in Nat : loop[n] \in X
  <2>1. loop[0] \in X /\ \A n \in Nat : loop[n] \in X => loop[n + 1] \in X
    BY <1>1, <1>2, <1>6, <1>7
  <2>. QED
    BY <2>1, LoopStays
<1>. QED
  BY <1>3, <1>6, <1>7, <1>8 DEF X, a, IsReplaceLoop

LEMMA EndedAfter ==
    ASSUME NEW A, NEW p \in Seq(A), NEW q \in Seq(A), NEW r \in Seq(A)
    PROVE  Ended(Cat(p, q), r) = Cat(p, Ended(q, r))
BY ConcatAssociative, SMTT(30) DEF Ended, Cat

\* A text of which the last part follows a prefix.
IsContinued(x, A, s, p, last) ==
    /\ x \in Seq(A) /\ Len(x) = Len(p) + (Len(s) - last + 1)
    /\ \A k \in 1..Len(p) : x[k] = p[k]
    /\ \A k \in last..Len(s) : x[Len(p) + (k - last) + 1] = s[k]

LEMMA Continued ==
    ASSUME NEW A, NEW s \in Seq(A), NEW p \in Seq(A), NEW last \in 1..Len(s) + 1,
           NEW x, x = Cat(p, Part(s, last, Len(s)))
    PROVE  IsContinued(x, A, s, p, last)
<1> DEFINE tail == SubSeq(s, last, Len(s))
<1>0. Len(s) \in Nat /\ Len(p) \in Nat
  BY LenProperties
<1>1. /\ tail \in Seq(A) /\ Len(tail) = Len(s) - last + 1
      /\ \A k \in 1..Len(s) - last + 1 : tail[k] = s[last + k - 1]
  BY <1>0, PartOf
<1>2. x = p \o tail
  BY DEF Cat, Part
<1> HIDE DEF tail
<1>3. /\ x \in Seq(A) /\ Len(x) = Len(p) + Len(tail)
      /\ \A k \in 1..Len(p) + Len(tail) : x[k] = IF k <= Len(p) THEN p[k] ELSE tail[k - Len(p)]
  <2>1. tail \in Seq(A)
    BY <1>1
  <2>. QED
    BY <1>2, <2>1, ConcatProperties
<1>4. \A k \in 1..Len(p) : x[k] = p[k]
  BY <1>0, <1>1, <1>3, SMTT(30)
<1>5. ASSUME NEW k \in last..Len(s) PROVE x[Len(p) + (k - last) + 1] = s[k]
  <2> DEFINE m == Len(p) + (k - last) + 1
             l == k - last + 1
  <2>1. /\ m \in 1..Len(p) + Len(tail) /\ ~(m <= Len(p)) /\ m - Len(p) = l
        /\ l \in 1..Len(s) - last + 1 /\ last + l - 1 = k
    BY <1>0, <1>1
  <2> HIDE DEF m, l
  <2>2. x[m] = tail[l] /\ tail[l] = s[k]
    BY <1>1, <1>3, <2>1
  <2>. QED
    BY <2>2 DEF m
<1>. QED
  BY <1>1, <1>3, <1>4, <1>5 DEF IsContinued

\* The prefix of such a text, with the part up to i.
LEMMA UpTo ==
    ASSUME NEW A, NEW s \in Seq(A), NEW p \in Seq(A), NEW last \in 1..Len(s) + 1,
           NEW x, x = Cat(p, Part(s, last, Len(s))), NEW i \in last..Len(s) + 1
    PROVE  Part(x, 1, Len(p) + (i - last)) = Cat(p, Part(s, last, i - 1))
<1> DEFINE m == Len(p) + (i - last)
           n == i - 1
           q == SubSeq(s, last, n)
           u == SubSeq(x, 1, m)
           v == p \o q
<1>0. Len(s) \in Nat /\ Len(p) \in Nat
  BY LenProperties
<1>1. /\ x \in Seq(A) /\ Len(x) = Len(p) + (Len(s) - last + 1)
      /\ \A k \in 1..Len(p) : x[k] = p[k]
      /\ \A k \in last..Len(s) : x[Len(p) + (k - last) + 1] = s[k]
  <2>1. IsContinued(x, A, s, p, last)
    BY Continued
  <2>. QED
    BY <2>1 DEF IsContinued
<1>2. n \in last - 1..Len(s) /\ m \in 1 - 1..Len(x) /\ m = Len(p) + (n - last + 1) /\ m - 1 + 1 = m
      /\ 1 \in 1..Len(x) + 1 /\ m \in Nat
  BY <1>0, <1>1
<1> HIDE DEF m, n
<1>3. /\ q \in Seq(A) /\ Len(q) = n - last + 1
      /\ \A k \in 1..n - last + 1 : q[k] = s[last + k - 1]
  BY <1>2, PartOf
<1>4. u \in Seq(A) /\ Len(u) = m /\ \A k \in 1..m : u[k] = x[1 + k - 1]
  <2>1. u \in Seq(A) /\ Len(u) = m - 1 + 1 /\ \A k \in 1..m - 1 + 1 : u[k] = x[1 + k - 1]
    BY <1>1, <1>2, PartOf
  <2>. QED
    BY <1>2, <2>1
<1> HIDE DEF q, u
<1>5. /\ v \in Seq(A) /\ Len(v) = Len(p) + Len(q)
      /\ \A k \in 1..Len(p) + Len(q) : v[k] = IF k <= Len(p) THEN p[k] ELSE q[k - Len(p)]
  <2>1. q \in Seq(A)
    BY <1>3
  <2>. QED
    BY <2>1, ConcatProperties
<1> HIDE DEF v
<1>6. ASSUME NEW k \in 1..m PROVE u[k] = v[k]
  <2>1. u[k] = x[k] /\ v[k] = IF k <= Len(p) THEN p[k] ELSE q[k - Len(p)]
    <3>1. 1 + k - 1 = k /\ k \in 1..Len(p) + Len(q)
      BY <1>2, <1>3
    <3>. QED
      BY <1>4, <1>5, <3>1
  <2>2. CASE k <= Len(p)
    <3>1. k \in 1..Len(p)
      BY <1>0, <1>2, <2>2
    <3>. QED
      BY <1>1, <2>1, <2>2, <3>1
  <2>3. CASE ~(k <= Len(p))
    <3> DEFINE l == k - Len(p)
               h == last + l - 1
    <3>1. l \in 1..n - last + 1 /\ h \in last..Len(s) /\ Len(p) + (h - last) + 1 = k
      BY <1>0, <1>2, <2>3
    <3>2. v[k] = q[l]
      BY <2>1, <2>3
    <3>3. q[l] = s[h]
      BY <1>3, <3>1
    <3> HIDE DEF l, h
    <3>4. x[k] = s[h]
      BY <1>1, <3>1
    <3>. QED
      BY <2>1, <3>2, <3>3, <3>4
  <2>. QED
    BY <2>2, <2>3
<1>7. u = v
  <2>1. Len(v) = m
    BY <1>2, <1>3, <1>5
  <2>2. \A k \in 1..Len(u) : u[k] = v[k]
    BY <1>4, <1>6
  <2>. QED
    BY <1>4, <1>5, <2>1, <2>2, SeqEqual
<1>. QED
  BY <1>7 DEF u, v, q, m, n, Cat, Part

\* And its part from i on.
LEMMA RestFrom ==
    ASSUME NEW A, NEW s \in Seq(A), NEW p \in Seq(A), NEW last \in 1..Len(s) + 1,
           NEW x, x = Cat(p, Part(s, last, Len(s))), NEW i \in last..Len(s) + 1
    PROVE  Part(x, Len(p) + (i - last) + 1, Len(x)) = Part(s, i, Len(s))
<1> DEFINE n == Len(s) - i + 1
           l == Len(p) + (i - last) + 1
<1>0. Len(s) \in Nat /\ Len(p) \in Nat
  BY LenProperties
<1>1. /\ x \in Seq(A) /\ Len(x) = Len(p) + (Len(s) - last + 1)
      /\ \A k \in last..Len(s) : x[Len(p) + (k - last) + 1] = s[k]
  <2>1. IsContinued(x, A, s, p, last)
    BY Continued
  <2>. QED
    BY <2>1 DEF IsContinued
<1>2. /\ n \in Nat /\ i \in 1..Len(s) - n + 1 /\ l \in 1..Len(x) - n + 1
      /\ i + n - 1 = Len(s) /\ l + n - 1 = Len(x)
  BY <1>0, <1>1
<1>3. ASSUME NEW k \in 1..n PROVE x[l + k - 1] = s[i + k - 1]
  <2> DEFINE h == i + k - 1
  <2>1. h \in last..Len(s) /\ Len(p) + (h - last) + 1 = l + k - 1
    BY <1>0
  <2> HIDE DEF h, l
  <2>2. x[l + k - 1] = s[h]
    BY <1>1, <2>1
  <2>. QED
    BY <2>2 DEF h
<1> HIDE DEF n, l
<1>4. SubSeq(x, l, l + n - 1) = SubSeq(s, i, i + n - 1)
  BY <1>1, <1>2, <1>3, SamePart, SMTT(30)
<1>. QED
  BY <1>2, <1>4 DEF l, Part

\* What replace() has written is what split() has found joined with the other text,
\* and both have the same left to look at.
Alike(s, r, split, replaced) ==
    LET prefix == Join(split.tokens, r, TRUE)
    IN  /\ replaced.text = Cat(prefix, Part(s, split.last, Len(s)))
        /\ replaced.pos = Len(prefix) + 1

LEMMA RoundsAlike ==
    ASSUME NEW A, NEW s \in Seq(A), NEW t \in Seq(A), NEW r \in Seq(A),
           NEW split \in SplitState(A, s), NEW replaced \in ReplaceState(A),
           Alike(s, r, split, replaced)
    PROVE  Alike(s, r, SplitRound(s, t, split), ReplaceRound(t, r, replaced))
<1> DEFINE tokens == split.tokens
           last   == split.last
           x      == replaced.text
           p      == Join(tokens, r, TRUE)
           i      == Find(s, t, last)
           j      == Find(x, t, replaced.pos)
           q      == Part(s, last, i - 1)
<1>0. Len(s) \in Nat /\ Len(t) \in Nat /\ Len(r) \in Nat
  BY LenProperties
<1>1. tokens \in Seq(Seq(A)) /\ last \in 1..Len(s) + 1 /\ x \in Seq(A)
  BY DEF SplitState, ReplaceState
<1>2. x = Cat(p, Part(s, last, Len(s))) /\ replaced.pos = Len(p) + 1
  BY DEF Alike
<1>3. /\ i = 0 => SplitRound(s, t, split) = split
      /\ i # 0 => /\ i \in last..Len(s) - Len(t) + 1
                  /\ q \in Seq(A) /\ Len(q) = i - last
                  /\ SplitRound(s, t, split) =
                         [tokens |-> More(tokens, q), last |-> i + Len(t)]
  BY SplitRoundStays
<1>4. ReplaceRound(t, r, replaced) =
          IF j = 0 THEN replaced
          ELSE [text |-> Cat(Ended(Part(x, 1, j - 1), r), Part(x, j + Len(t), Len(x))),
                pos  |-> j + Len(r)]
  BY DEF ReplaceRound, Ended, Cat, Part
<1> HIDE DEF tokens, last, x
<1>5. p \in Seq(A)
  BY <1>1, JoinTyped
<1> HIDE DEF p
<1>6. j = IF i = 0 THEN 0 ELSE i - last + 1 + Len(p)
  <2>1. Find(p \o SubSeq(s, last, Len(s)), t, Len(p) + 1) =
            IF i = 0 THEN 0 ELSE i - last + 1 + Len(p)
    BY <1>1, <1>5, FindShift
  <2>. QED
    BY <1>2, <2>1 DEF Cat, Part
<1>7. Len(p) \in Nat
  BY <1>5, LenProperties
<1> HIDE DEF i, j, q
<1>8. CASE i = 0
  BY <1>3, <1>4, <1>6, <1>8
<1>9. CASE i # 0
  <2>1. i \in last..Len(s) - Len(t) + 1 /\ q \in Seq(A) /\ q = Part(s, last, i - 1)
    BY <1>3, <1>9 DEF q
  <2>2. j = i - last + 1 + Len(p) /\ j # 0
    BY <1>0, <1>1, <1>6, <1>7, <1>9, <2>1
  <2>3. Join(More(tokens, q), r, TRUE) = Cat(p, Ended(q, r))
    <3>1. tokens \in Seq(Seq(A)) /\ q \in Seq(A)
      BY <1>1, <2>1
    <3>. QED
      BY <3>1, JoinMore DEF p
  <2>4. Cat(Ended(Part(x, 1, j - 1), r), Part(x, j + Len(t), Len(x))) =
            Cat(Cat(p, Ended(q, r)), Part(s, i + Len(t), Len(s)))
    <3> DEFINE next == i + Len(t)
    <3>1. /\ i \in last..Len(s) + 1 /\ next \in last..Len(s) + 1
          /\ j - 1 = Len(p) + (i - last) /\ j + Len(t) = Len(p) + (next - last) + 1
      BY <1>0, <1>1, <1>7, <2>1, <2>2
    <3> HIDE DEF next
    <3>2. Part(x, 1, Len(p) + (i - last)) = Cat(p, Part(s, last, i - 1))
      BY <1>1, <1>2, <1>5, <3>1, UpTo
    <3>3. Part(x, Len(p) + (next - last) + 1, Len(x)) = Part(s, next, Len(s))
      BY <1>1, <1>2, <1>5, <3>1, RestFrom
    <3>4. Ended(Cat(p, q), r) = Cat(p, Ended(q, r))
      BY <1>5, <2>1, EndedAfter
    <3>. QED
      BY <2>1, <3>1, <3>2, <3>3, <3>4 DEF next
  <2>7. j + Len(r) = Len(Cat(p, Ended(q, r))) + 1
    <3> DEFINE u == Ended(q, r)
    <3>1. u \in Seq(A) /\ Len(u) = Len(q) + Len(r)
      BY <2>1, EndedTyped
    <3> HIDE DEF u
    <3>2. Len(Cat(p, u)) = Len(p) + Len(u)
      BY <1>5, <3>1, ConcatProperties DEF Cat
    <3>3. Len(q) = i - last
      BY <1>3, <1>9 DEF q
    <3>4. Len(Cat(p, u)) = Len(p) + Len(q) + Len(r)
      BY <1>7, <3>1, <3>2
    <3>5. j + Len(r) = Len(Cat(p, u)) + 1
      BY <1>0, <1>1, <1>7, <2>1, <2>2, <3>3, <3>4
    <3>. QED
      BY <3>5 DEF u
  <2>5. /\ SplitRound(s, t, split).tokens = More(tokens, q)
        /\ SplitRound(s, t, split).last = i + Len(t)
    BY <1>3, <1>9
  <2>6. /\ ReplaceRound(t, r, replaced).text =
               Cat(Ended(Part(x, 1, j - 1), r), Part(x, j + Len(t), Len(x)))
        /\ ReplaceRound(t, r, replaced).pos = j + Len(r)
    BY <1>4, <2>2
  <2>. QED
    BY <2>3, <2>4, <2>5, <2>6, <2>7 DEF Alike
<1>. QED
  BY <1>8, <1>9

LEMMA LoopsAlike ==
    ASSUME NEW A, NEW s \in Seq(A), NEW t \in Seq(A), NEW r \in Seq(A), NEW n \in Nat
    PROVE  Alike(s, r, SplitLoop(s, t)[n], ReplaceLoop(s, t, r)[n])
<1> DEFINE S(k) == SplitLoop(s, t)[k]
           R(k) == ReplaceLoop(s, t, r)[k]
           N    == {k \in Nat : Alike(s, r, S(k), R(k))}
<1>0. IsSplitLoop(SplitLoop(s, t), A, s, t) /\ IsReplaceLoop(ReplaceLoop(s, t, r), A, s, t, r)
  BY SplitRounds, ReplaceRounds
<1>1. Alike(s, r, S(0), R(0))
  <2>1. S(0) = [tokens |-> <<>>, last |-> 1] /\ R(0) = [text |-> s, pos |-> 1]
    BY <1>0 DEF IsSplitLoop, IsReplaceLoop
  <2>2. Join(<<>>, r, TRUE) = <<>>
    BY NothingJoined
  <2>3. Cat(<<>>, Part(s, 1, Len(s))) = s /\ Len(<<>>) = 0
    BY SubSeqFull, ConcatEmptySeq DEF Cat, Part
  <2>4. /\ S(0).tokens = <<>> /\ S(0).last = 1 /\ R(0).text = s /\ R(0).pos = 1
    BY <2>1
  <2> HIDE DEF S, R
  <2>5. 0 + 1 = 1
    OBVIOUS
  <2>. QED
    BY <2>2, <2>3, <2>4, <2>5 DEF Alike
<1>2. ASSUME NEW k \in Nat, Alike(s, r, S(k), R(k)) PROVE Alike(s, r, S(k + 1), R(k + 1))
  <2>1. /\ S(k) \in SplitState(A, s) /\ S(k + 1) = SplitRound(s, t, S(k))
        /\ R(k) \in ReplaceState(A) /\ R(k + 1) = ReplaceRound(t, r, R(k))
    BY <1>0 DEF IsSplitLoop, IsReplaceLoop
  <2> HIDE DEF S, R
  <2>. QED
    BY <1>2, <2>1, RoundsAlike
<1> HIDE DEF S, R
<1>3. N = Nat
  <2>1. N \in SUBSET Nat /\ 0 \in N /\ \A k \in N : k + 1 \in N
    BY <1>1, <1>2
  <2> HIDE DEF N
  <2>. QED
    BY <2>1, EveryRound
<1>. QED
  BY <1>3 DEF S, R

\* Replacing a text is splitting at it and joining with the other, for any texts.
LEMMA ReplacedIsSplitAndJoined ==
    ASSUME NEW A, NEW s \in Seq(A), NEW t \in Seq(A), NEW r \in Seq(A), s # <<>>, t # <<>>
    PROVE  Replace(s, t, r) = Join(Split(s, t, TRUE), r, FALSE)
<1> DEFINE n     == Len(s) + 1
           split == SplitLoop(s, t)[n]
           rest  == Part(s, split.last, Len(s))
<1>0. Len(s) \in Nat /\ n \in Nat
  BY LenProperties
<1>1. split \in SplitState(A, s)
  <2>1. IsSplitLoop(SplitLoop(s, t), A, s, t)
    BY SplitRounds
  <2>. QED
    BY <1>0, <2>1 DEF IsSplitLoop
<1>2. split.tokens \in Seq(Seq(A)) /\ split.last \in 1..Len(s) + 1
  BY <1>1 DEF SplitState
<1>3. rest \in Seq(A)
  <2> DEFINE last == split.last
  <2>1. last \in 1..Len(s) + 1 /\ Len(s) \in last - 1..Len(s)
    BY <1>0, <1>2
  <2> HIDE DEF last
  <2>2. SubSeq(s, last, Len(s)) \in Seq(A)
    BY <2>1, PartOf
  <2>. QED
    BY <2>2 DEF last, Part
<1>4. Replace(s, t, r) = Cat(Join(split.tokens, r, TRUE), rest)
  <2>1. Alike(s, r, split, ReplaceLoop(s, t, r)[n])
    BY <1>0, LoopsAlike
  <2>. QED
    BY <2>1 DEF Alike, Replace
<1>5. Split(s, t, TRUE) = More(split.tokens, rest)
  BY DEF Split, More, Part
<1> HIDE DEF split, rest
<1>6. Join(More(split.tokens, rest), r, FALSE) = Cat(Join(split.tokens, r, TRUE), rest)
  BY <1>2, <1>3, JoinLast
<1>. QED
  BY <1>4, <1>5, <1>6

LEMMA TextsTyped ==
    ASSUME NEW s \in Texts
    PROVE  s \in Seq(Characters) /\ Len(s) \in 0..MaxText
<1>1. PICK n \in 0..MaxText : s \in [1..n -> Characters]
  BY DEF Texts
<1>2. n \in Nat
  BY StringAssumption
<1>3. s \in Seq(Characters) /\ Len(s) = n
  BY <1>1, <1>2
<1>. QED
  BY <1>3

\* Replacing a text is splitting at it and joining with the other.
THEOREM ReplacedAsJoined == ReplaceIsSplitAndJoin
<1> SUFFICES ASSUME NEW s \in Texts, NEW t \in Texts \ {<<>>}, NEW r \in Texts, s # <<>>
             PROVE  Replace(s, t, r) = Join(Split(s, t, TRUE), r, FALSE)
  BY DEF ReplaceIsSplitAndJoin
<1>1. s \in Seq(Characters) /\ t \in Seq(Characters) /\ r \in Seq(Characters) /\ t # <<>>
  BY TextsTyped
<1>. QED
  BY <1>1, ReplacedIsSplitAndJoined

-----------------------------------------------------------------------------
(* Trim(). *)

\* A text between two runs of a character.
Padding(c, n) == [k \in 1..n |-> c]

\* i times c, t, and j times c.
IsPadded(s, t, c, i, j) ==
    /\ Len(s) = i + Len(t) + j
    /\ \A k \in 1..Len(s) : s[k] = IF k > i /\ k <= i + Len(t) THEN t[k - i] ELSE c

LEMMA Padded ==
    ASSUME NEW A, NEW s \in Seq(A), NEW t \in Seq(A), NEW c \in A, NEW i \in Nat, NEW j \in Nat,
           IsPadded(s, t, c, i, j)
    PROVE  s = Padding(c, i) \o t \o Padding(c, j)
<1> DEFINE before == Padding(c, i)
           after  == Padding(c, j)
           u      == before \o t
           v      == u \o after
<1>0. /\ Len(t) \in Nat /\ Len(s) \in Nat
      /\ Len(s) = i + Len(t) + j
  BY LenProperties DEF IsPadded
<1>each. \A k \in 1..Len(s) : s[k] = IF k > i /\ k <= i + Len(t) THEN t[k - i] ELSE c
  BY DEF IsPadded
<1>1. before \in Seq(A) /\ Len(before) = i /\ \A k \in 1..i : before[k] = c
  BY DEF Padding
<1>2. after \in Seq(A) /\ Len(after) = j /\ \A k \in 1..j : after[k] = c
  BY DEF Padding
<1> HIDE DEF before, after
<1>3. /\ u \in Seq(A) /\ Len(u) = Len(before) + Len(t)
      /\ \A k \in 1..Len(before) + Len(t) :
            u[k] = IF k <= Len(before) THEN before[k] ELSE t[k - Len(before)]
  <2>1. before \in Seq(A)
    BY <1>1
  <2>. QED
    BY <2>1, ConcatProperties
<1> HIDE DEF u
<1>4. /\ v \in Seq(A) /\ Len(v) = Len(u) + Len(after)
      /\ \A k \in 1..Len(u) + Len(after) :
            v[k] = IF k <= Len(u) THEN u[k] ELSE after[k - Len(u)]
  <2>1. u \in Seq(A) /\ after \in Seq(A)
    BY <1>2, <1>3
  <2>. QED
    BY <2>1, ConcatProperties
<1> HIDE DEF v
<1>5. Len(v) = Len(s)
  BY <1>0, <1>1, <1>2, <1>3, <1>4
<1>6. ASSUME NEW k \in 1..Len(s) PROVE s[k] = v[k]
  <2>0. k \in 1..Len(u) + Len(after) /\ Len(u) = i + Len(t)
    BY <1>0, <1>1, <1>3, <1>4, <1>5
  <2>1. CASE k <= i
    <3>1. /\ k <= Len(u) /\ k \in 1..Len(before) + Len(t) /\ k <= Len(before)
          /\ k \in 1..i /\ ~(k > i)
      BY <1>0, <1>1, <2>0, <2>1
    <3>2. v[k] = u[k] /\ u[k] = before[k] /\ before[k] = c
      BY <1>1, <1>3, <1>4, <2>0, <3>1
    <3>. QED
      BY <1>each, <3>1, <3>2
  <2>2. CASE k > i /\ k <= i + Len(t)
    <3>1. k <= Len(u) /\ k \in 1..Len(before) + Len(t) /\ ~(k <= Len(before))
      BY <1>0, <1>1, <2>0, <2>2
    <3>2. v[k] = u[k] /\ u[k] = t[k - i]
      BY <1>1, <1>3, <1>4, <2>0, <3>1
    <3>. QED
      BY <1>each, <2>2, <3>2
  <2>3. CASE k > i + Len(t)
    <3> DEFINE l == k - Len(u)
    <3>1. ~(k <= Len(u)) /\ l \in 1..j /\ ~(k <= i + Len(t))
      BY <1>0, <2>0, <2>3
    <3> HIDE DEF l
    <3>2. v[k] = after[l] /\ after[l] = c
      BY <1>2, <1>4, <2>0, <3>1 DEF l
    <3>. QED
      BY <1>each, <3>1, <3>2
  <2>. QED
    BY <1>0, <2>1, <2>2, <2>3
<1>7. s = v
  BY <1>4, <1>5, <1>6, SeqEqual
<1>. QED
  BY <1>7 DEF v, u, before, after

\* What is trimmed is the character to trim, and nothing is trimmed but that.
IsTrimmed(s, t, c) ==
    /\ t # <<>> => t[1] # c /\ t[Len(t)] # c
    /\ \E i, j \in 0..Len(s) : s = [k \in 1..i |-> c] \o t \o [k \in 1..j |-> c]

LEMMA TrimFacts ==
    ASSUME NEW A, NEW s \in Seq(A), NEW c \in A
    PROVE  IsTrimmed(s, Trim(s, c), c)
<1> DEFINE kept == {i \in 1..Len(s) : s[i] # c}
           t    == Trim(s, c)
<1>0. Len(s) \in Nat /\ DOMAIN s = 1..Len(s)
  BY LenProperties
<1>1. t = IF kept = {} THEN <<>>
          ELSE SubSeq(s, CHOOSE i \in kept : \A j \in kept : i <= j,
                         CHOOSE i \in kept : \A j \in kept : i >= j)
  BY <1>0 DEF Trim
<1> HIDE DEF t
<1>2. CASE kept = {}
  <2>1. t = <<>> /\ t \in Seq(A) /\ Len(t) = 0
    BY <1>1, <1>2
  <2>2. \A k \in 1..Len(s) : s[k] = c
    BY <1>2
  <2>3. Len(s) = Len(s) + Len(t) + 0
    BY <1>0, <2>1
  <2>4. \A k \in 1..Len(s) : s[k] = IF k > Len(s) /\ k <= Len(s) + Len(t) THEN t[k - Len(s)] ELSE c
    BY <1>0, <2>2
  <2>5. s = [k \in 1..Len(s) |-> c] \o t \o [k \in 1..0 |-> c]
    <3>1. IsPadded(s, t, c, Len(s), 0)
      BY <2>3, <2>4 DEF IsPadded
    <3>2. t \in Seq(A) /\ Len(s) \in Nat /\ 0 \in Nat
      BY <1>0, <2>1
    <3>3. s = Padding(c, Len(s)) \o t \o Padding(c, 0)
      BY <3>1, <3>2, Padded
    <3>. QED
      BY <3>3 DEF Padding
  <2>6. Len(s) \in 0..Len(s) /\ 0 \in 0..Len(s)
    BY <1>0
  <2>. QED
    BY <2>1, <2>5, <2>6 DEF t, IsTrimmed
<1>3. CASE kept # {}
  <2> DEFINE low  == CHOOSE i \in kept : \A j \in kept : i <= j
             high == CHOOSE i \in kept : \A j \in kept : i >= j
  <2>1. low \in kept /\ \A j \in kept : low <= j
    <3>1. kept \in SUBSET Nat
      BY <1>0
    <3> HIDE DEF kept
    <3>2. \E k \in kept : \A j \in kept : k <= j
      BY <1>3, <3>1, LeastOf
    <3>. QED
      BY <3>2
  <2>2. high \in kept /\ \A j \in kept : high >= j
    <3>1. kept \in SUBSET (0..Len(s))
      BY <1>0
    <3> HIDE DEF kept
    <3>2. \E k \in kept : \A j \in kept : k >= j
      BY <1>0, <1>3, <3>1, GreatestOf
    <3>. QED
      BY <3>2
  <2>3. t = SubSeq(s, low, high)
    BY <1>1, <1>3
  <2> HIDE DEF low, high
  <2>4. low \in 1..Len(s) /\ high \in 1..Len(s) /\ low <= high /\ s[low] # c /\ s[high] # c
    BY <2>1, <2>2
  <2>5. \A k \in 1..Len(s) : k < low \/ k > high => s[k] = c
    BY <1>0, <2>1, <2>2, <2>4
  <2> HIDE DEF kept
  <2>6. /\ t \in Seq(A) /\ Len(t) = high - low + 1
        /\ \A k \in 1..high - low + 1 : t[k] = s[low + k - 1]
    <3>1. low \in 1..Len(s) + 1 /\ high \in low - 1..Len(s)
      BY <1>0, <2>4
    <3>. QED
      BY <2>3, <3>1, PartOf
  <2>7. t[1] # c /\ t[Len(t)] # c
    <3>1. 1 \in 1..high - low + 1 /\ Len(t) \in 1..high - low + 1
          /\ low + 1 - 1 = low /\ low + Len(t) - 1 = high
      BY <1>0, <2>4, <2>6
    <3>2. t[1] = s[low] /\ t[Len(t)] = s[high]
      BY <2>6, <3>1
    <3>. QED
      BY <2>4, <3>2
  <2> DEFINE i == low - 1
             j == Len(s) - high
  <2>8. i \in Nat /\ j \in Nat /\ Len(s) = i + Len(t) + j /\ i \in 0..Len(s) /\ j \in 0..Len(s)
    BY <1>0, <2>4, <2>6
  <2>9. \A k \in 1..Len(s) : s[k] = IF k > i /\ k <= i + Len(t) THEN t[k - i] ELSE c
    <3> SUFFICES ASSUME NEW k \in 1..Len(s)
                 PROVE  s[k] = IF k > i /\ k <= i + Len(t) THEN t[k - i] ELSE c
      OBVIOUS
    <3>1. CASE k > i /\ k <= i + Len(t)
      <4> DEFINE l == k - i
      <4>1. l \in 1..high - low + 1 /\ low + l - 1 = k
        BY <1>0, <2>4, <2>6, <3>1
      <4> HIDE DEF l
      <4>2. t[l] = s[k]
        BY <2>6, <4>1
      <4>. QED
        BY <3>1, <4>2 DEF l
    <3>2. CASE ~(k > i /\ k <= i + Len(t))
      <4>1. k < low \/ k > high
        BY <1>0, <2>4, <2>6, <3>2
      <4>. QED
        BY <2>5, <3>2, <4>1
    <3>. QED
      BY <3>1, <3>2
  <2> HIDE DEF i, j
  <2>10. s = [k \in 1..i |-> c] \o t \o [k \in 1..j |-> c]
    <3>1. IsPadded(s, t, c, i, j)
      BY <2>8, <2>9 DEF IsPadded
    <3>2. t \in Seq(A) /\ i \in Nat /\ j \in Nat
      BY <2>6, <2>8
    <3>3. s = Padding(c, i) \o t \o Padding(c, j)
      BY <3>1, <3>2, Padded
    <3>. QED
      BY <3>3 DEF Padding
  <2>. QED
    BY <2>7, <2>8, <2>10 DEF t, IsTrimmed
<1>. QED
  BY <1>2, <1>3

\* Trimming takes away the character at both ends and nothing else.
THEOREM TrimKeepsTheRest == TrimmedIsKept
<1> SUFFICES ASSUME NEW s \in Texts, NEW c \in Characters
             PROVE  /\ Trim(s, c) # <<>> => Trim(s, c)[1] # c /\ Trim(s, c)[Len(Trim(s, c))] # c
                    /\ \E i, j \in 0..MaxText :
                          s = [k \in 1..i |-> c] \o Trim(s, c) \o [k \in 1..j |-> c]
  BY DEF TrimmedIsKept
<1>1. s \in Seq(Characters) /\ Len(s) \in 0..MaxText
  BY TextsTyped
<1>2. IsTrimmed(s, Trim(s, c), c)
  BY <1>1, TrimFacts
<1>3. \A i \in 0..Len(s) : i \in 0..MaxText
  BY <1>1, StringAssumption
<1>. QED
  BY <1>2, <1>3 DEF IsTrimmed

-----------------------------------------------------------------------------
(* splitArgs(). *)

\* One character is found where it is first.
LEMMA FindOne ==
    ASSUME NEW A, NEW s \in Seq(A), NEW q \in A, NEW from \in Nat \ {0}, NEW e \in from..Len(s),
           s[e] = q, \A k \in from..e - 1 : s[k] # q
    PROVE  Find(s, <<q>>, from) = e
<1> DEFINE t == <<q>>
           i == Find(s, t, from)
<1>0. t \in Seq(A) /\ Len(t) = 1 /\ t[1] = q /\ Len(s) \in Nat
  BY LenProperties
<1>1. ASSUME NEW k \in 1..Len(s) PROVE HeldAt(s, t, k) <=> s[k] = q
  <2>1. k \in 1..Len(s) + 1 /\ k \in k - 1..Len(s) /\ k - k + 1 = 1 /\ k + 1 - 1 = k /\ 1 \in 1..1
    BY <1>0
  <2> HIDE DEF t
  <2>2. SubSeq(s, k, k) \in Seq(A) /\ Len(SubSeq(s, k, k)) = 1 /\ SubSeq(s, k, k)[1] = s[k]
    <3>1. /\ SubSeq(s, k, k) \in Seq(A)
          /\ Len(SubSeq(s, k, k)) = k - k + 1
          /\ \A l \in 1..k - k + 1 : SubSeq(s, k, k)[l] = s[k + l - 1]
      BY <2>1, PartOf
    <3>. QED
      BY <2>1, <3>1
  <2> DEFINE u == SubSeq(s, k, k)
  <2>3. k + Len(t) - 1 = k
    BY <1>0
  <2>4. HeldAt(s, t, k) <=> u = t
    BY <2>3 DEF HeldAt
  <2> HIDE DEF u
  <2>5. u = t => u[1] = t[1]
    OBVIOUS
  <2>6. u[1] = t[1] => u = t
    <3> SUFFICES ASSUME u[1] = t[1] PROVE u = t
      OBVIOUS
    <3>1. u \in Seq(A) /\ Len(u) = Len(t) /\ \A l \in 1..Len(u) : u[l] = t[l]
      BY <1>0, <2>2 DEF u
    <3>. QED
      BY <1>0, <3>1, SeqEqual
  <2>7. u[1] = s[k]
    BY <2>2 DEF u
  <2>. QED
    BY <1>0, <2>4, <2>5, <2>6, <2>7
<1>2. /\ i \in Nat /\ (i # 0 => i \in from..Len(s) - Len(t) + 1 /\ HeldAt(s, t, i))
      /\ \A k \in from..Len(s) - Len(t) + 1 : HeldAt(s, t, k) => i # 0 /\ i <= k
  <2> HIDE DEF t
  <2>. QED
    BY <1>0, FindFacts
<1> HIDE DEF i, t
<1>3. e \in 1..Len(s) /\ e \in from..Len(s) - Len(t) + 1
  BY <1>0
<1>4. i # 0 /\ i <= e
  BY <1>1, <1>2, <1>3
<1>5. i \in from..Len(s) /\ i \in 1..Len(s) /\ s[i] = q
  BY <1>0, <1>1, <1>2, <1>4
<1>6. ~(i < e)
  BY <1>0, <1>5
<1>. QED
  BY <1>0, <1>4, <1>5, <1>6 DEF i, t

LEMMA PartEndTyped ==
    ASSUME NEW A, NEW s \in Seq(A), NEW i \in Nat \ {0}
    PROVE  PartEnd(s, i) \in {0} \cup (i..Len(s))
<1>0. Len(s) \in Nat
  BY LenProperties
<1>1. CASE i > Len(s) \/ s[i] = Space
  BY <1>1 DEF PartEnd
<1>2. CASE ~(i > Len(s) \/ s[i] = Space) /\ s[i] \in Quotes
  <2> DEFINE t == <<s[i]>>
             e == Find(s, t, i + 1)
  <2>1. i \in 1..Len(s)
    BY <1>0, <1>2
  <2>2. s[i] \in A
    BY <2>1, ElementOfSeq
  <2>3. t \in Seq(A) /\ Len(t) = 1 /\ i + 1 \in Nat \ {0}
    BY <2>2
  <2> HIDE DEF t
  <2>4. e \in Nat /\ (e # 0 => e \in i + 1..Len(s) - Len(t) + 1)
    BY <2>3, FindFacts
  <2>5. PartEnd(s, i) = e
    BY <1>2 DEF PartEnd, t
  <2> HIDE DEF e
  <2>. QED
    BY <1>0, <2>3, <2>4, <2>5
<1>3. CASE ~(i > Len(s) \/ s[i] = Space) /\ s[i] \notin Quotes
  <2>1. PartEnd(s, i) = i
    BY <1>3 DEF PartEnd
  <2>. QED
    BY <1>0, <1>3, <2>1
<1>. QED
  BY <1>1, <1>2, <1>3

IsMatchLoop(loop, s, first) ==
    /\ loop[0] = first
    /\ \A n \in Nat : loop[n] \in first..Len(s) + 1 /\ loop[n + 1] = MatchRound(s, loop[n])

\* The matching of one alternative after another.
LEMMA MatchRounds ==
    ASSUME NEW A, NEW s \in Seq(A), NEW first \in 1..Len(s) + 1
    PROVE  IsMatchLoop(MatchLoop(s, first), s, first)
<1> DEFINE X     == first..Len(s) + 1
           round == [pair \in Nat \X X |-> MatchRound(s, pair[2])]
           Is(f) == f = [n \in Nat |-> IF n = 0 THEN first ELSE MatchRound(s, f[n - 1])]
           loop  == CHOOSE f : Is(f)
<1>0. Len(s) \in Nat
  BY LenProperties
<1>1. first \in X
  BY <1>0
<1>2. ASSUME NEW x \in X PROVE MatchRound(s, x) \in X
  <2>1. x \in Nat \ {0} /\ first \in Nat
    BY <1>0
  <2>2. PartEnd(s, x) \in {0} \cup (x..Len(s))
    BY <2>1, PartEndTyped
  <2>. QED
    BY <1>0, <2>1, <2>2 DEF MatchRound
<1>3. MatchLoop(s, first) = loop
  BY DEF MatchLoop
<1> HIDE DEF X
<1>4. \E f \in [Nat -> X] : Is(f)
  <2>1. round \in [Nat \X X -> X]
    BY <1>2
  <2>2. \A n \in Nat, x \in X : round[<<n, x>>] = MatchRound(s, x)
    OBVIOUS
  <2> HIDE DEF round
  <2>3. PICK f : IsLoop(f, X, first, round)
    BY <1>1, <2>1, LoopExists
  <2>4. f \in [Nat -> X] /\ f[0] = first /\ \A n \in Nat : f[n + 1] = round[<<n + 1, f[n]>>]
    BY <2>3 DEF IsLoop
  <2>5. \A n \in Nat : f[n] = IF n = 0 THEN first ELSE MatchRound(s, f[n - 1])
    <3> SUFFICES ASSUME NEW n \in Nat, n # 0 PROVE f[n] = MatchRound(s, f[n - 1])
      BY <2>4
    <3>1. n - 1 \in Nat /\ (n - 1) + 1 = n
      OBVIOUS
    <3>2. f[n] = round[<<n, f[n - 1]>>] /\ f[n - 1] \in X
      BY <2>4, <3>1
    <3>. QED
      BY <2>2, <3>2
  <2>6. f = [n \in Nat |-> f[n]]
    BY <2>4
  <2>. QED
    BY <2>4, <2>5, <2>6
<1>5. Is(loop)
  <2> HIDE DEF Is
  <2>. QED
    BY <1>4
<1> HIDE DEF loop
<1>6. loop[0] = first
  BY <1>5
<1>7. \A n \in Nat : loop[n + 1] = MatchRound(s, loop[n])
  <2> SUFFICES ASSUME NEW n \in Nat PROVE loop[n + 1] = MatchRound(s, loop[n])
    OBVIOUS
  <2>1. n + 1 \in Nat /\ n + 1 # 0 /\ (n + 1) - 1 = n
    OBVIOUS
  <2>. QED
    BY <1>5, <2>1
<1>8. \A n \in Nat : loop[n] \in X
  <2>1. loop[0] \in X /\ \A n \in Nat : loop[n] \in X => loop[n + 1] \in X
    BY <1>1, <1>2, <1>6, <1>7
  <2>. QED
    BY <2>1, LoopStays
<1>. QED
  BY <1>3, <1>6, <1>7, <1>8 DEF X, IsMatchLoop

LEMMA MatchEndTyped ==
    ASSUME NEW A, NEW s \in Seq(A), NEW first \in 1..Len(s) + 1
    PROVE  MatchEnd(s, first) \in first - 1..Len(s)
<1>0. Len(s) \in Nat
  BY LenProperties
<1>1. IsMatchLoop(MatchLoop(s, first), s, first)
  BY MatchRounds
<1>2. MatchLoop(s, first)[Len(s)] \in first..Len(s) + 1
  BY <1>0, <1>1 DEF IsMatchLoop
<1>. QED
  BY <1>0, <1>2 DEF MatchEnd

LEMMA UnquotedTyped ==
    ASSUME NEW A, NEW s \in Seq(A)
    PROVE  Unquoted(s) \in Seq(A)
<1>0. Len(s) \in Nat
  BY LenProperties
<1>1. CASE Len(s) < 2
  <2>1. SubSeq(s, 2, Len(s) - 1) = <<>>
    BY <1>0, <1>1
  <2>2. <<>> \in Seq(A)
    OBVIOUS
  <2>. QED
    BY <2>1, <2>2 DEF Unquoted
<1>2. CASE Len(s) >= 2
  <2>1. 2 \in 1..Len(s) + 1 /\ Len(s) - 1 \in 2 - 1..Len(s)
    BY <1>0, <1>2
  <2>2. SubSeq(s, 2, Len(s) - 1) \in Seq(A)
    BY <2>1, PartOf
  <2>. QED
    BY <2>2 DEF Unquoted
<1>. QED
  BY <1>0, <1>1, <1>2

ArgsState(A) == [args : Seq(Seq(A)), rest : Seq(A)]

\* A round takes nothing away, or an argument from what is left.
LEMMA ArgsRoundStays ==
    ASSUME NEW A, NEW before \in ArgsState(A)
    PROVE  /\ ArgsRound(before) \in ArgsState(A)
           /\ ArgsRound(before) = before \/ ArgsRound(before).args # <<>>
<1> DEFINE s      == before.rest
           starts == {i \in DOMAIN s : PartEnd(s, i) # 0}
           first  == CHOOSE i \in starts : \A j \in starts : i <= j
           end    == MatchEnd(s, first)
           part   == Unquoted(SubSeq(s, first, end))
           rest   == SubSeq(s, end + 1, Len(s))
<1>0. s \in Seq(A) /\ before.args \in Seq(Seq(A))
  BY DEF ArgsState
<1>1. Len(s) \in Nat /\ DOMAIN s = 1..Len(s)
  BY <1>0, LenProperties
<1>2. ArgsRound(before) = IF starts = {} THEN before
                          ELSE [args |-> Append(before.args, part), rest |-> rest]
  BY DEF ArgsRound
<1>3. CASE starts = {}
  BY <1>2, <1>3
<1>4. CASE starts # {}
  <2>1. first \in 1..Len(s)
    <3>1. starts \in SUBSET Nat /\ starts \subseteq 1..Len(s)
      BY <1>1
    <3> HIDE DEF starts
    <3>2. \E i \in starts : \A j \in starts : i <= j
      BY <1>4, <3>1, LeastOf
    <3>3. first \in starts
      BY <3>2
    <3>. QED
      BY <3>1, <3>3
  <2> HIDE DEF s, first
  <2>2. end \in first - 1..Len(s)
    <3>1. first \in 1..Len(s) + 1
      BY <1>1, <2>1
    <3>. QED
      BY <1>0, <3>1, MatchEndTyped
  <2> HIDE DEF end
  <2>3. SubSeq(s, first, end) \in Seq(A) /\ rest \in Seq(A)
    <3>1. /\ first \in 1..Len(s) + 1 /\ end + 1 \in 1..Len(s) + 1
          /\ Len(s) \in (end + 1) - 1..Len(s)
      BY <1>1, <2>1, <2>2
    <3>2. SubSeq(s, first, end) \in Seq(A)
      BY <1>0, <2>2, <3>1, PartOf
    <3> DEFINE m == end + 1
    <3>3. m \in 1..Len(s) + 1 /\ Len(s) \in m - 1..Len(s)
      BY <3>1
    <3> HIDE DEF m
    <3>4. SubSeq(s, m, Len(s)) \in Seq(A)
      BY <1>0, <3>3, PartOf
    <3>. QED
      BY <3>2, <3>4 DEF m
  <2>4. part \in Seq(A)
    <3> DEFINE u == SubSeq(s, first, end)
    <3>1. u \in Seq(A)
      BY <2>3
    <3> HIDE DEF u
    <3>2. Unquoted(u) \in Seq(A)
      BY <3>1, UnquotedTyped
    <3>. QED
      BY <3>2 DEF u
  <2> HIDE DEF part, rest
  <2>5. /\ Append(before.args, part) \in Seq(Seq(A)) /\ Append(before.args, part) # <<>>
    BY <1>0, <2>4, AppendProperties
  <2>6. ArgsRound(before) = [args |-> Append(before.args, part), rest |-> rest]
    BY <1>2, <1>4
  <2>. QED
    BY <2>3, <2>5, <2>6 DEF ArgsState
<1>. QED
  BY <1>3, <1>4

IsArgsLoop(loop, A, s) ==
    /\ loop[0] = [args |-> <<>>, rest |-> s]
    /\ \A n \in Nat : loop[n] \in ArgsState(A) /\ loop[n + 1] = ArgsRound(loop[n])

\* The loop of splitArgs() is what its rounds make of it.
LEMMA ArgsRounds ==
    ASSUME NEW A, NEW s \in Seq(A)
    PROVE  IsArgsLoop(ArgsLoop(s), A, s)
<1> DEFINE X     == ArgsState(A)
           a     == [args |-> <<>>, rest |-> s]
           round == [pair \in Nat \X X |-> ArgsRound(pair[2])]
           Is(f) == f = [n \in Nat |-> IF n = 0 THEN a ELSE ArgsRound(f[n - 1])]
           loop  == CHOOSE f : Is(f)
<1>1. a \in X
  BY DEF ArgsState
<1>2. \A x \in X : ArgsRound(x) \in X
  BY ArgsRoundStays
<1>3. ArgsLoop(s) = loop
  BY DEF ArgsLoop
<1> HIDE DEF X, a
<1>4. \E f \in [Nat -> X] : Is(f)
  <2>1. round \in [Nat \X X -> X]
    BY <1>2
  <2>2. \A n \in Nat, x \in X : round[<<n, x>>] = ArgsRound(x)
    OBVIOUS
  <2> HIDE DEF round
  <2>3. PICK f : IsLoop(f, X, a, round)
    BY <1>1, <2>1, LoopExists
  <2>4. f \in [Nat -> X] /\ f[0] = a /\ \A n \in Nat : f[n + 1] = round[<<n + 1, f[n]>>]
    BY <2>3 DEF IsLoop
  <2>5. \A n \in Nat : f[n] = IF n = 0 THEN a ELSE ArgsRound(f[n - 1])
    <3> SUFFICES ASSUME NEW n \in Nat, n # 0 PROVE f[n] = ArgsRound(f[n - 1])
      BY <2>4
    <3>1. n - 1 \in Nat /\ (n - 1) + 1 = n
      OBVIOUS
    <3>2. f[n] = round[<<n, f[n - 1]>>] /\ f[n - 1] \in X
      BY <2>4, <3>1
    <3>. QED
      BY <2>2, <3>2
  <2>6. f = [n \in Nat |-> f[n]]
    BY <2>4
  <2>. QED
    BY <2>4, <2>5, <2>6
<1>5. Is(loop)
  <2> HIDE DEF Is
  <2>. QED
    BY <1>4
<1> HIDE DEF loop
<1>6. loop[0] = a
  BY <1>5
<1>7. \A n \in Nat : loop[n + 1] = ArgsRound(loop[n])
  <2> SUFFICES ASSUME NEW n \in Nat PROVE loop[n + 1] = ArgsRound(loop[n])
    OBVIOUS
  <2>1. n + 1 \in Nat /\ n + 1 # 0 /\ (n + 1) - 1 = n
    OBVIOUS
  <2>. QED
    BY <1>5, <2>1
<1>8. \A n \in Nat : loop[n] \in X
  <2>1. loop[0] \in X /\ \A n \in Nat : loop[n] \in X => loop[n + 1] \in X
    BY <1>1, <1>2, <1>6, <1>7
  <2>. QED
    BY <2>1, LoopStays
<1>. QED
  BY <1>3, <1>6, <1>7, <1>8 DEF X, a, IsArgsLoop

\* A command that is not empty has a program.
LEMMA SomeArgument ==
    ASSUME NEW A, NEW s \in Seq(A), s # <<>>
    PROVE  SplitArgs(s) # <<>>
<1> DEFINE L(k) == ArgsLoop(s)[k]
           N    == {k \in Nat : L(k).args = <<>> => L(k).rest = s}
           end  == L(Len(s))
<1>0. IsArgsLoop(ArgsLoop(s), A, s) /\ Len(s) \in Nat
  BY ArgsRounds, LenProperties
<1>1. /\ L(0) = [args |-> <<>>, rest |-> s]
      /\ \A k \in Nat : L(k) \in ArgsState(A) /\ L(k + 1) = ArgsRound(L(k))
  BY <1>0 DEF IsArgsLoop
<1> HIDE DEF L
<1>2. 0 \in N
  BY <1>1
<1>3. ASSUME NEW k \in N PROVE k + 1 \in N
  <2>1. L(k) \in ArgsState(A) /\ L(k + 1) = ArgsRound(L(k))
    BY <1>1
  <2>2. L(k + 1) = L(k) \/ L(k + 1).args # <<>>
    BY <2>1, ArgsRoundStays
  <2>. QED
    BY <2>2
<1>4. N = Nat
  <2>1. N \in SUBSET Nat
    OBVIOUS
  <2> HIDE DEF N
  <2>. QED
    BY <1>2, <1>3, <2>1, EveryRound
<1>5. end.args = <<>> => end.rest = s
  BY <1>0, <1>4
<1>6. end.args \in Seq(Seq(A)) /\ end.rest \in Seq(A)
  BY <1>0, <1>1 DEF ArgsState
<1>7. SplitArgs(s) = IF end.rest = <<>> THEN end.args ELSE Append(end.args, end.rest)
  BY DEF SplitArgs, L
<1> HIDE DEF end
<1>8. Append(end.args, end.rest) # <<>>
  BY <1>6, AppendProperties
<1>. QED
  BY <1>5, <1>7, <1>8

\* A text holds, after blanks, a word in quotes, and then ends or has a blank.
HoldsQuoted(y, A, p, q, v) ==
    /\ y \in Seq(A) /\ v \in Seq(A) /\ q \in A /\ q \in Quotes /\ q \notin ToSet(v)
    /\ p \in Nat /\ p + Len(v) + 2 \in 1..Len(y)
    /\ \A k \in 1..p : y[k] = Space
    /\ y[p + 1] = q /\ y[p + Len(v) + 2] = q
    /\ \A k \in 1..Len(v) : y[p + 1 + k] = v[k]
    /\ Len(y) = p + Len(v) + 2 \/ y[p + Len(v) + 3] = Space

\* What is matched first is the word in its quotes.
LEMMA QuotedPart ==
    ASSUME NEW A, NEW y, NEW p, NEW q, NEW v, HoldsQuoted(y, A, p, q, v)
    PROVE  PartEnd(y, p + 1) = p + Len(v) + 2
<1> DEFINE n == Len(v)
           e == p + n + 2
           from == p + 2
<1>0. /\ y \in Seq(A) /\ v \in Seq(A) /\ q \in A /\ q \in Quotes /\ q \notin ToSet(v)
      /\ p \in Nat /\ e \in 1..Len(y)
      /\ y[p + 1] = q /\ y[e] = q
      /\ \A k \in 1..n : y[p + 1 + k] = v[k]
  BY DEF HoldsQuoted
<1>1. n \in Nat /\ Len(y) \in Nat /\ DOMAIN v = 1..n
  BY <1>0, LenProperties
<1>2. \A k \in 1..n : v[k] # q
  BY <1>0, <1>1 DEF ToSet
<1> HIDE DEF n
<1>3. ASSUME NEW k \in from..e - 1 PROVE y[k] # q
  <2> DEFINE l == k - p - 1
  <2>1. l \in 1..n /\ p + 1 + l = k
    BY <1>0, <1>1
  <2> HIDE DEF l
  <2>. QED
    BY <1>0, <1>2, <2>1
<1>4. from \in Nat \ {0} /\ e \in from..Len(y)
  BY <1>0, <1>1
<1> HIDE DEF e, from
<1>5. Find(y, <<q>>, from) = e
  BY <1>0, <1>3, <1>4, FindOne
<1>6. q # Space
  BY <1>0 DEF Quotes, DoubleQuote, SingleQuote, Space
<1>7. ~(p + 1 > Len(y)) /\ (p + 1) + 1 = from
  BY <1>0, <1>1, <1>4 DEF from
<1>8. PartEnd(y, p + 1) = Find(y, <<q>>, from)
  BY <1>0, <1>6, <1>7 DEF PartEnd
<1>. QED
  BY <1>5, <1>8 DEF e, n

\* Nothing follows it in the same argument.
LEMMA QuotedMatch ==
    ASSUME NEW A, NEW y, NEW p, NEW q, NEW v, HoldsQuoted(y, A, p, q, v)
    PROVE  MatchEnd(y, p + 1) = p + Len(v) + 2
<1> DEFINE e == p + Len(v) + 2
           f == p + 1
           g(k) == MatchLoop(y, f)[k]
           N == {k \in Nat : g(k + 1) = e + 1}
<1>0. /\ y \in Seq(A) /\ v \in Seq(A) /\ p \in Nat /\ e \in 1..Len(y)
      /\ Len(y) = e \/ y[e + 1] = Space
  <2>1. p + Len(v) + 3 = e + 1
    <3>1. p \in Nat /\ Len(v) \in Nat
      BY LenProperties DEF HoldsQuoted
    <3>. QED
      BY <3>1
  <2>. QED
    BY <2>1 DEF HoldsQuoted
<1>1. Len(v) \in Nat /\ Len(y) \in Nat
  BY <1>0, LenProperties
<1>2. f \in 1..Len(y) + 1
  BY <1>0, <1>1
<1>3. PartEnd(y, f) = e
  BY QuotedPart
<1>4. e # 0 /\ e \in Nat
  BY <1>0, <1>1
<1> HIDE DEF e, f
<1>5. PartEnd(y, e + 1) = 0
  <2>1. e + 1 > Len(y) \/ y[e + 1] = Space
    BY <1>0, <1>1, <1>4
  <2>. QED
    BY <2>1 DEF PartEnd
<1>6. IsMatchLoop(MatchLoop(y, f), y, f)
  BY <1>0, <1>2, MatchRounds
<1>7. g(0) = f /\ \A k \in Nat : g(k + 1) = MatchRound(y, g(k))
  BY <1>6 DEF IsMatchLoop
<1> HIDE DEF g
<1>8. 0 \in N
  <2>1. g(0 + 1) = MatchRound(y, f)
    BY <1>7
  <2>2. MatchRound(y, f) = e + 1
    BY <1>3, <1>4 DEF MatchRound
  <2>. QED
    BY <2>1, <2>2
<1>9. ASSUME NEW k \in N PROVE k + 1 \in N
  <2>1. k + 1 \in Nat /\ g((k + 1) + 1) = MatchRound(y, g(k + 1)) /\ g(k + 1) = e + 1
    BY <1>7
  <2>2. MatchRound(y, e + 1) = e + 1
    BY <1>5 DEF MatchRound
  <2>. QED
    BY <2>1, <2>2
<1>10. N = Nat
  <2>1. N \in SUBSET Nat
    OBVIOUS
  <2> HIDE DEF N
  <2>. QED
    BY <1>8, <1>9, <2>1, EveryRound
<1>11. g(Len(y)) = e + 1
  <2>1. Len(y) - 1 \in Nat /\ (Len(y) - 1) + 1 = Len(y)
    BY <1>0, <1>1, <1>4
  <2>2. Len(y) - 1 \in N
    BY <1>10, <2>1
  <2>. QED
    BY <2>1, <2>2
<1>12. MatchEnd(y, f) = e
  BY <1>4, <1>11 DEF MatchEnd, g
<1>. QED
  BY <1>12 DEF e, f

\* Without its quotes it is the word.
LEMMA QuotedWord ==
    ASSUME NEW A, NEW y, NEW p, NEW q, NEW v, HoldsQuoted(y, A, p, q, v)
    PROVE  Unquoted(Part(y, p + 1, p + Len(v) + 2)) = v
<1> DEFINE n == Len(v)
           f == p + 1
           e == p + n + 2
           u == SubSeq(y, f, e)
           w == SubSeq(u, 2, n + 1)
<1>0. /\ y \in Seq(A) /\ v \in Seq(A) /\ q \in Quotes
      /\ p \in Nat /\ e \in 1..Len(y)
      /\ y[p + 1] = q /\ y[e] = q
      /\ \A k \in 1..n : y[p + 1 + k] = v[k]
  BY DEF HoldsQuoted
<1>1. n \in Nat /\ Len(y) \in Nat
  BY <1>0, LenProperties
<1>2. /\ f \in 1..Len(y) + 1 /\ e \in f - 1..Len(y) /\ e - f + 1 = n + 2
  BY <1>0, <1>1
<1> HIDE DEF f, e
<1>3. /\ u \in Seq(A) /\ Len(u) = n + 2
      /\ \A k \in 1..n + 2 : u[k] = y[f + k - 1]
  <2>1. /\ u \in Seq(A) /\ Len(u) = e - f + 1
        /\ \A k \in 1..e - f + 1 : u[k] = y[f + k - 1]
    BY <1>0, <1>2, PartOf
  <2>. QED
    BY <1>2, <2>1
<1> HIDE DEF u
<1>4. u # <<>> /\ u[1] = q /\ u[Len(u)] = q
  <2>1. 1 \in 1..n + 2 /\ n + 2 \in 1..n + 2 /\ f + 1 - 1 = p + 1 /\ f + (n + 2) - 1 = e
    BY <1>0, <1>1 DEF f, e
  <2>2. u[1] = y[p + 1] /\ u[n + 2] = y[e]
    BY <1>3, <2>1
  <2>3. Len(u) # 0
    BY <1>1, <1>3
  <2>. QED
    BY <1>0, <1>3, <2>2, <2>3
<1>5. Unquoted(u) = w
  <2>1. IsQuotedBy(u, q)
    BY <1>4 DEF IsQuotedBy
  <2>2. Len(u) - 1 = n + 1
    BY <1>1, <1>3
  <2>. QED
    BY <1>0, <2>1, <2>2 DEF Unquoted
<1>6. /\ w \in Seq(A) /\ Len(w) = n
      /\ \A k \in 1..n : w[k] = u[2 + k - 1]
  <2> DEFINE m == n + 1
  <2>1. 2 \in 1..Len(u) + 1 /\ m \in 2 - 1..Len(u) /\ m - 2 + 1 = n
    BY <1>1, <1>3
  <2> HIDE DEF m
  <2>2. /\ SubSeq(u, 2, m) \in Seq(A) /\ Len(SubSeq(u, 2, m)) = m - 2 + 1
        /\ \A k \in 1..m - 2 + 1 : SubSeq(u, 2, m)[k] = u[2 + k - 1]
    BY <1>3, <2>1, PartOf
  <2>. QED
    BY <2>1, <2>2 DEF m
<1> HIDE DEF w
<1>7. ASSUME NEW k \in 1..n PROVE w[k] = v[k]
  <2>1. 2 + k - 1 \in 1..n + 2 /\ f + (2 + k - 1) - 1 = p + 1 + k
    BY <1>0, <1>1 DEF f
  <2>2. w[k] = u[2 + k - 1] /\ u[2 + k - 1] = y[f + (2 + k - 1) - 1]
    BY <1>3, <1>6, <2>1
  <2>. QED
    BY <1>0, <2>1, <2>2
<1>8. w = v
  BY <1>0, <1>6, <1>7, SeqEqual
<1>. QED
  BY <1>5, <1>8 DEF u, f, e, Part

\* So one round takes the word and the quotes away.
LEMMA QuotedRound ==
    ASSUME NEW A, NEW y, NEW p, NEW q, NEW v, HoldsQuoted(y, A, p, q, v), NEW args
    PROVE  ArgsRound([args |-> args, rest |-> y]) =
               [args |-> More(args, v), rest |-> Part(y, p + Len(v) + 3, Len(y))]
<1> DEFINE n      == Len(v)
           f      == p + 1
           e      == p + n + 2
           before == [args |-> args, rest |-> y]
           starts == {i \in DOMAIN y : PartEnd(y, i) # 0}
           first  == CHOOSE i \in starts : \A j \in starts : i <= j
<1>0. /\ y \in Seq(A) /\ v \in Seq(A) /\ p \in Nat /\ e \in 1..Len(y)
      /\ \A k \in 1..p : y[k] = Space
  BY DEF HoldsQuoted
<1>1. n \in Nat /\ Len(y) \in Nat /\ DOMAIN y = 1..Len(y)
  BY <1>0, LenProperties
<1>2. PartEnd(y, f) = e /\ e # 0
  BY <1>0, QuotedPart
<1>3. MatchEnd(y, f) = e
  BY QuotedMatch
<1>4. Unquoted(Part(y, f, e)) = v
  BY QuotedWord
<1>5. f \in starts
  BY <1>0, <1>1, <1>2
<1>6. ASSUME NEW i \in starts PROVE i >= f
  <2>1. i \in 1..Len(y) /\ PartEnd(y, i) # 0
    BY <1>1
  <2>2. ASSUME i \in 1..p PROVE FALSE
    <3>1. y[i] = Space
      BY <1>0, <2>2
    <3>2. PartEnd(y, i) = 0
      BY <3>1 DEF PartEnd
    <3>. QED
      BY <2>1, <3>2
  <2>. QED
    BY <1>0, <1>1, <2>1, <2>2
<1>7. first = f
  <2>1. starts \subseteq Nat
    BY <1>1
  <2>2. f \in Nat
    BY <1>0
  <2> HIDE DEF starts, f
  <2>3. \A j \in starts : f <= j
    BY <1>6, <2>1, <2>2
  <2>4. \E i \in starts : \A j \in starts : i <= j
    BY <1>5, <2>3
  <2>5. first \in starts /\ \A j \in starts : first <= j
    BY <2>4
  <2> HIDE DEF first
  <2>. QED
    BY <1>5, <1>6, <2>1, <2>2, <2>5
<1>8. ArgsRound(before) =
          [args |-> More(args, Unquoted(Part(y, first, MatchEnd(y, first)))),
           rest |-> Part(y, MatchEnd(y, first) + 1, Len(y))]
  <2>1. before.rest = y /\ before.args = args
    OBVIOUS
  <2> HIDE DEF before
  <2>. QED
    BY <1>5, <2>1 DEF ArgsRound, More, Part
<1>9. e + 1 = p + Len(v) + 3
  BY <1>0, <1>1
<1> HIDE DEF first, before, f, e
<1>10. ArgsRound(before) = [args |-> More(args, v), rest |-> Part(y, e + 1, Len(y))]
  BY <1>3, <1>4, <1>7, <1>8
<1>. QED
  BY <1>9, <1>10 DEF before

-----------------------------------------------------------------------------
(* Quoting, joining and splitting again. *)

IsCat(x, A, s, t) ==
    /\ x \in Seq(A) /\ Len(x) = Len(s) + Len(t)
    /\ \A k \in 1..Len(s) : x[k] = s[k]
    /\ \A k \in 1..Len(t) : x[Len(s) + k] = t[k]

LEMMA CatFacts ==
    ASSUME NEW A, NEW s \in Seq(A), NEW t \in Seq(A)
    PROVE  IsCat(Cat(s, t), A, s, t)
<1> DEFINE x == s \o t
<1>0. Len(s) \in Nat /\ Len(t) \in Nat
  BY LenProperties
<1>1. /\ x \in Seq(A) /\ Len(x) = Len(s) + Len(t)
      /\ \A k \in 1..Len(s) + Len(t) : x[k] = IF k <= Len(s) THEN s[k] ELSE t[k - Len(s)]
  BY ConcatProperties
<1> HIDE DEF x
<1>2. \A k \in 1..Len(s) : x[k] = s[k]
  BY <1>0, <1>1
<1>3. ASSUME NEW k \in 1..Len(t) PROVE x[Len(s) + k] = t[k]
  <2> DEFINE l == Len(s) + k
  <2>1. l \in 1..Len(s) + Len(t) /\ ~(l <= Len(s)) /\ l - Len(s) = k
    BY <1>0
  <2> HIDE DEF l
  <2>2. x[l] = t[k]
    BY <1>1, <2>1
  <2>. QED
    BY <2>2 DEF l
<1>4. IsCat(x, A, s, t)
  BY <1>1, <1>2, <1>3 DEF IsCat
<1>. QED
  BY <1>4 DEF x, Cat

IsQuoted(x, A, q, v) ==
    /\ x \in Seq(A) /\ Len(x) = Len(v) + 2
    /\ x[1] = q /\ x[Len(v) + 2] = q
    /\ \A k \in 1..Len(v) : x[k + 1] = v[k]

\* A word that does not hold both kinds of quotes is put into those it does not hold.
LEMMA QuoteFacts ==
    ASSUME NEW A, Quotes \subseteq A, NEW v \in Seq(A), ~(Quotes \subseteq ToSet(v)),
           \A q \in Quotes : ~IsQuotedBy(v, q)
    PROVE  \E q \in Quotes : q \notin ToSet(v) /\ IsQuoted(Quote(v), A, q, v)
<1>1. PICK q \in Quotes : q \notin ToSet(v) /\ Quote(v) = Cat(Cat(<<q>>, v), <<q>>)
  <2>1. CASE DoubleQuote \in ToSet(v)
    <3>1. SingleQuote \in Quotes /\ SingleQuote \notin ToSet(v)
      BY <2>1 DEF Quotes
    <3>2. Quote(v) = <<SingleQuote>> \o v \o <<SingleQuote>>
      BY <2>1 DEF Quote
    <3>. QED
      BY <3>1, <3>2 DEF Cat
  <2>2. CASE DoubleQuote \notin ToSet(v)
    <3>1. DoubleQuote \in Quotes
      BY DEF Quotes
    <3>2. Quote(v) = <<DoubleQuote>> \o v \o <<DoubleQuote>>
      BY <2>2 DEF Quote
    <3>. QED
      BY <2>2, <3>1, <3>2 DEF Cat
  <2>. QED
    BY <2>1, <2>2
<1> DEFINE t == <<q>>
           u == Cat(t, v)
           x == Cat(u, t)
<1>2. t \in Seq(A) /\ Len(t) = 1 /\ t[1] = q /\ Len(v) \in Nat
  BY LenProperties
<1> HIDE DEF t
<1>3. IsCat(u, A, t, v)
  BY <1>2, CatFacts
<1> HIDE DEF u
<1>4. IsCat(x, A, u, t)
  <2>1. u \in Seq(A)
    BY <1>3 DEF IsCat
  <2>. QED
    BY <1>2, <2>1, CatFacts
<1> HIDE DEF x
<1>5. /\ u \in Seq(A) /\ Len(u) = Len(v) + 1 /\ u[1] = q
      /\ \A k \in 1..Len(v) : u[k + 1] = v[k]
  <2>1. \A k \in 1..Len(v) : 1 + k = k + 1
    OBVIOUS
  <2>. QED
    BY <1>2, <1>3, <2>1 DEF IsCat
<1>6. /\ x \in Seq(A) /\ Len(x) = Len(v) + 2
      /\ \A k \in 1..Len(v) + 1 : x[k] = u[k]
      /\ x[Len(v) + 2] = q
  <2>1. Len(u) + 1 = Len(v) + 2 /\ 1 \in 1..Len(t)
    BY <1>2, <1>5
  <2>2. x[Len(u) + 1] = t[1]
    BY <1>4, <2>1 DEF IsCat
  <2>3. x[Len(v) + 2] = q
    BY <1>2, <2>1, <2>2
  <2>. QED
    BY <1>2, <1>4, <1>5, <2>1, <2>3 DEF IsCat
<1>7. \A k \in 1..Len(v) : k + 1 \in 1..Len(v) + 1
  BY <1>2
<1>8. 1 \in 1..Len(v) + 1
  BY <1>2
<1>9. IsQuoted(x, A, q, v)
  BY <1>5, <1>6, <1>7, <1>8 DEF IsQuoted
<1>. QED
  BY <1>1, <1>9 DEF x, u, t

\* Two quoted words with a blank between them.
LEMMA LineFacts ==
    ASSUME NEW A, NEW v \in Seq(A), NEW w \in Seq(A), NEW q \in Quotes, NEW r \in Quotes,
           Quotes \subseteq A, Space \in A, NEW a, NEW b, NEW y,
           IsQuoted(a, A, q, v), IsQuoted(b, A, r, w), q \notin ToSet(v), r \notin ToSet(w),
           y = Cat(Cat(a, <<Space>>), b)
    PROVE  /\ HoldsQuoted(y, A, 0, q, v)
           /\ HoldsQuoted(Part(y, Len(v) + 3, Len(y)), A, 1, r, w)
           /\ Len(Part(y, Len(v) + 3, Len(y))) = Len(w) + 3
<1> DEFINE t == <<Space>>
           c == Cat(a, t)
           n == Len(v)
           m == Len(w)
           l == n + 3
           z == SubSeq(y, l, Len(y))
<1>0. n \in Nat /\ m \in Nat /\ t \in Seq(A) /\ Len(t) = 1 /\ t[1] = Space
  BY LenProperties
<1> HIDE DEF t
<1>1. /\ a \in Seq(A) /\ Len(a) = n + 2 /\ a[1] = q /\ a[n + 2] = q
      /\ \A k \in 1..n : a[k + 1] = v[k]
  BY DEF IsQuoted
<1>2. /\ b \in Seq(A) /\ Len(b) = m + 2 /\ b[1] = r /\ b[m + 2] = r
      /\ \A k \in 1..m : b[k + 1] = w[k]
  BY DEF IsQuoted
<1> HIDE DEF n, m, l
<1>3. IsCat(c, A, a, t)
  BY <1>0, <1>1, CatFacts
<1> HIDE DEF c
<1>4. c \in Seq(A)
  BY <1>3 DEF IsCat
<1>5. IsCat(y, A, c, b)
  <2>1. y = Cat(c, b)
    BY DEF c, t
  <2>. QED
    BY <1>2, <1>4, <2>1, CatFacts
<1>6. Len(c) = n + 3 /\ c[n + 3] = Space /\ \A k \in 1..n + 2 : c[k] = a[k]
  <2>1. Len(a) + 1 = n + 3 /\ 1 \in 1..Len(t) /\ Len(a) + Len(t) = n + 3
    BY <1>0, <1>1
  <2>2. c[Len(a) + 1] = t[1]
    BY <1>3, <2>1 DEF IsCat
  <2>. QED
    BY <1>0, <1>1, <1>3, <2>1, <2>2 DEF IsCat
<1>7. /\ y \in Seq(A) /\ Len(y) = n + m + 5
      /\ \A k \in 1..n + 3 : y[k] = c[k]
      /\ \A k \in 1..m + 2 : y[n + 3 + k] = b[k]
  <2>1. Len(c) + Len(b) = n + m + 5
    BY <1>0, <1>2, <1>6
  <2>. QED
    BY <1>2, <1>5, <1>6, <2>1 DEF IsCat
<1>8. HoldsQuoted(y, A, 0, q, v)
  <2>1. /\ 1 \in 1..n + 2 /\ 1 \in 1..n + 3 /\ n + 2 \in 1..n + 2 /\ n + 2 \in 1..n + 3
        /\ n + 3 \in 1..n + 3 /\ n + 2 \in 1..n + m + 5
    BY <1>0
  <2>2. y[1] = q /\ y[n + 2] = q /\ y[n + 3] = Space
    BY <1>1, <1>6, <1>7, <2>1
  <2>3. ASSUME NEW k \in 1..n PROVE y[0 + 1 + k] = v[k]
    <3>1. k + 1 \in 1..n + 2 /\ k + 1 \in 1..n + 3 /\ 0 + 1 + k = k + 1
      BY <1>0
    <3>2. y[k + 1] = c[k + 1] /\ c[k + 1] = a[k + 1] /\ a[k + 1] = v[k]
      BY <1>1, <1>6, <1>7, <3>1
    <3>. QED
      BY <3>1, <3>2
  <2>4. 0 + n + 2 = n + 2 /\ 0 + n + 3 = n + 3 /\ 0 + 1 = 1 /\ 1..0 = {}
    BY <1>0
  <2>. QED
    BY <1>7, <2>1, <2>2, <2>3, <2>4 DEF HoldsQuoted, n
<1>9. /\ z \in Seq(A) /\ Len(z) = m + 3
      /\ \A k \in 1..m + 3 : z[k] = y[l + k - 1]
  <2>1. l \in 1..Len(y) + 1 /\ Len(y) \in l - 1..Len(y) /\ Len(y) - l + 1 = m + 3
    <3>1. Len(y) = n + m + 5
      BY <1>7
    <3>2. l = n + 3
      BY DEF l
    <3>. QED
      BY <1>0, <3>1, <3>2
  <2>2. /\ z \in Seq(A) /\ Len(z) = Len(y) - l + 1
        /\ \A k \in 1..Len(y) - l + 1 : z[k] = y[l + k - 1]
    BY <1>7, <2>1, PartOf, SMTT(30)
  <2>. QED
    BY <2>1, <2>2
<1> HIDE DEF z
<1>10. z[1] = Space
  <2>1. 1 \in 1..m + 3 /\ l + 1 - 1 = n + 3 /\ n + 3 \in 1..n + 3
    BY <1>0 DEF l
  <2>2. z[1] = y[n + 3]
    BY <1>9, <2>1
  <2>3. y[n + 3] = c[n + 3]
    BY <1>7, <2>1
  <2>. QED
    BY <1>6, <2>2, <2>3
<1>11. ASSUME NEW k \in 1..m + 2 PROVE z[k + 1] = b[k]
  <2>1. k + 1 \in 1..m + 3 /\ l + (k + 1) - 1 = n + 3 + k
    BY <1>0 DEF l
  <2>2. z[k + 1] = y[l + (k + 1) - 1]
    BY <1>9, <2>1
  <2>. QED
    BY <1>7, <2>1, <2>2
<1>12. HoldsQuoted(z, A, 1, r, w)
  <2>1. 1 \in 1..m + 2 /\ m + 2 \in 1..m + 2 /\ m + 3 \in 1..Len(z)
        /\ 1 + 1 \in 1..m + 3 /\ (m + 2) + 1 = m + 3 /\ 1 + m + 2 = m + 3
    BY <1>0, <1>9
  <2>2. z[1 + 1] = r /\ z[m + 3] = r
    BY <1>2, <1>11, <2>1
  <2>3. ASSUME NEW k \in 1..m PROVE z[1 + 1 + k] = w[k]
    <3>1. k + 1 \in 1..m + 2 /\ (k + 1) + 1 = 1 + 1 + k
      BY <1>0
    <3>2. z[(k + 1) + 1] = b[k + 1]
      BY <1>11, <3>1
    <3>. QED
      BY <1>2, <3>1, <3>2
  <2>4. \A k \in 1..1 : z[k] = Space
    BY <1>10
  <2>. QED
    BY <1>9, <2>1, <2>2, <2>3, <2>4 DEF HoldsQuoted, m
<1>. QED
  BY <1>8, <1>9, <1>12 DEF z, l, n, m, Part

LEMMA JoinTwo ==
    ASSUME NEW A, NEW a \in Seq(A), NEW b \in Seq(A), NEW separator \in Seq(A)
    PROVE  Join(<<a, b>>, separator, FALSE) = Cat(Cat(a, separator), b)
<1> DEFINE one == More(<<>>, a)
<1>1. <<>> \in Seq(Seq(A)) /\ one \in Seq(Seq(A)) /\ <<a, b>> = More(one, b)
  BY DEF More
<1>2. Join(one, separator, TRUE) = Ended(a, separator)
  <2>1. Join(one, separator, TRUE) = Cat(Join(<<>>, separator, TRUE), Ended(a, separator))
    BY <1>1, JoinMore
  <2>2. Join(<<>>, separator, TRUE) = <<>>
    BY NothingJoined
  <2> DEFINE u == Ended(a, separator)
  <2>3. u \in Seq(A)
    BY EndedTyped
  <2> HIDE DEF u
  <2>4. Cat(<<>>, u) = u
    BY <2>3, ConcatEmptySeq DEF Cat
  <2>. QED
    BY <2>1, <2>2, <2>4 DEF u
<1> HIDE DEF one
<1>3. Join(More(one, b), separator, FALSE) = Cat(Join(one, separator, TRUE), b)
  BY <1>1, JoinLast
<1>. QED
  BY <1>1, <1>2, <1>3 DEF Ended, Cat

LEMMA MoreOfOne ==
    ASSUME NEW B, NEW e \in B, NEW f \in B
    PROVE  More(<<e>>, f) = <<e, f>>
<1> DEFINE one == <<e>>
           two == <<e, f>>
           u   == Append(one, f)
<1>1. one \in Seq(B) /\ Len(one) = 1 /\ one[1] = e
  OBVIOUS
<1>2. two \in Seq(B) /\ Len(two) = 2 /\ two[1] = e /\ two[2] = f
  OBVIOUS
<1> HIDE DEF one, two
<1>3. u \in Seq(B) /\ Len(u) = 2 /\ u[2] = f /\ u[1] = e
  <2>1. /\ u \in Seq(B) /\ Len(u) = Len(one) + 1 /\ u[Len(one) + 1] = f
        /\ \A i \in 1..Len(one) : u[i] = one[i]
    <3>1. one \in Seq(B)
      BY <1>1
    <3>. QED
      BY ONLY <3>1, f \in B, AppendProperties
  <2> HIDE DEF u
  <2>2. Len(one) + 1 = 2 /\ 1 \in 1..Len(one)
    BY <1>1
  <2>. QED
    BY <1>1, <2>1, <2>2
<1> HIDE DEF u
<1>4. \A i \in 1..2 : u[i] = two[i]
  <2>1. \A i \in 1..2 : i = 1 \/ i = 2
    OBVIOUS
  <2>. QED
    BY <1>2, <1>3, <2>1
<1>5. u = two
  BY <1>2, <1>3, <1>4, SeqEqual
<1>. QED
  BY <1>5 DEF u, one, two, More

\* What is left when nothing is left stays as it is.
LEMMA NothingLeft == \A args : ArgsRound([args |-> args, rest |-> <<>>]) = [args |-> args, rest |-> <<>>]
<1> SUFFICES ASSUME NEW args
             PROVE  ArgsRound([args |-> args, rest |-> <<>>]) = [args |-> args, rest |-> <<>>]
  OBVIOUS
<1> DEFINE before == [args |-> args, rest |-> <<>>]
<1>1. before.rest = <<>>
  OBVIOUS
<1>2. {i \in DOMAIN before.rest : PartEnd(before.rest, i) # 0} = {}
  BY <1>1
<1> HIDE DEF before
<1>3. ArgsRound(before) = before
  BY <1>2 DEF ArgsRound
<1>. QED
  BY <1>3 DEF before

\* Two words that are quoted, joined and split again are the same words.
LEMMA SplitAgain ==
    ASSUME NEW A, NEW v \in Seq(A), NEW w \in Seq(A), Quotes \subseteq A, Space \in A,
           ~(Quotes \subseteq ToSet(v)), \A q \in Quotes : ~IsQuotedBy(v, q),
           ~(Quotes \subseteq ToSet(w)), \A q \in Quotes : ~IsQuotedBy(w, q)
    PROVE  SplitArgs(Join(<<Quote(v), Quote(w)>>, <<Space>>, FALSE)) = <<v, w>>
<1> DEFINE a    == Quote(v)
           b    == Quote(w)
           y    == Cat(Cat(a, <<Space>>), b)
           z    == Part(y, Len(v) + 3, Len(y))
           L(k) == ArgsLoop(y)[k]
           N    == {k \in Nat : L(k + 2) = [args |-> <<v, w>>, rest |-> <<>>]}
<1>1. PICK q \in Quotes : q \notin ToSet(v) /\ IsQuoted(a, A, q, v)
  BY QuoteFacts
<1>2. PICK r \in Quotes : r \notin ToSet(w) /\ IsQuoted(b, A, r, w)
  BY QuoteFacts
<1> HIDE DEF a, b
<1>3. a \in Seq(A) /\ b \in Seq(A) /\ <<Space>> \in Seq(A)
  BY <1>1, <1>2 DEF IsQuoted
<1>4. Join(<<a, b>>, <<Space>>, FALSE) = y
  <2> DEFINE blank == <<Space>>
  <2>1. a \in Seq(A) /\ b \in Seq(A) /\ blank \in Seq(A)
    BY <1>3
  <2> HIDE DEF blank
  <2>2. Join(<<a, b>>, blank, FALSE) = Cat(Cat(a, blank), b)
    BY ONLY <2>1, JoinTwo
  <2>. QED
    BY <2>2 DEF blank
<1>5. HoldsQuoted(y, A, 0, q, v) /\ HoldsQuoted(z, A, 1, r, w) /\ Len(z) = Len(w) + 3
  BY <1>1, <1>2, LineFacts
<1> HIDE DEF y, z
<1>6. y \in Seq(A) /\ Len(y) \in Nat /\ Len(v) \in Nat /\ Len(w) \in Nat
  BY <1>5, LenProperties DEF HoldsQuoted
<1>7. ArgsRound([args |-> <<>>, rest |-> y]) = [args |-> <<v>>, rest |-> z]
  <2>1. ArgsRound([args |-> <<>>, rest |-> y]) =
            [args |-> More(<<>>, v), rest |-> Part(y, 0 + Len(v) + 3, Len(y))]
    BY <1>5, QuotedRound
  <2>2. More(<<>>, v) = <<v>>
    BY DEF More
  <2>3. 0 + Len(v) + 3 = Len(v) + 3
    BY <1>6
  <2>. QED
    BY <2>1, <2>2, <2>3 DEF z
<1>8. ArgsRound([args |-> <<v>>, rest |-> z]) = [args |-> <<v, w>>, rest |-> <<>>]
  <2>1. ArgsRound([args |-> <<v>>, rest |-> z]) =
            [args |-> More(<<v>>, w), rest |-> Part(z, 1 + Len(w) + 3, Len(z))]
    BY <1>5, QuotedRound
  <2>2. More(<<v>>, w) = <<v, w>>
    BY MoreOfOne
  <2>3. Part(z, 1 + Len(w) + 3, Len(z)) = <<>>
    <3> DEFINE m == 1 + Len(w) + 3
    <3>1. m \in Int /\ Len(z) \in Int /\ m > Len(z)
      BY <1>5, <1>6
    <3> HIDE DEF m
    <3>2. SubSeq(z, m, Len(z)) = <<>>
      BY <3>1, SubSeqEmpty
    <3>. QED
      BY <3>2 DEF m, Part
  <2>. QED
    BY <2>1, <2>2, <2>3
<1>9. /\ L(0) = [args |-> <<>>, rest |-> y]
      /\ \A k \in Nat : L(k + 1) = ArgsRound(L(k))
  <2>1. IsArgsLoop(ArgsLoop(y), A, y)
    BY <1>6, ArgsRounds
  <2>. QED
    BY <2>1 DEF IsArgsLoop
<1> HIDE DEF L
<1>10. 0 \in N
  <2>1. L(0 + 1) = ArgsRound(L(0)) /\ L(1 + 1) = ArgsRound(L(1))
    BY <1>9
  <2>2. L(1) = [args |-> <<v>>, rest |-> z]
    BY <1>7, <1>9, <2>1
  <2>. QED
    BY <1>8, <2>1, <2>2
<1>11. ASSUME NEW k \in N PROVE k + 1 \in N
  <2>1. k \in Nat /\ k + 2 \in Nat /\ k + 1 \in Nat /\ (k + 1) + 2 = (k + 2) + 1
    OBVIOUS
  <2>2. L(k + 2) = [args |-> <<v, w>>, rest |-> <<>>]
    OBVIOUS
  <2>3. L((k + 1) + 2) = ArgsRound(L(k + 2))
    BY <1>9, <2>1
  <2>. QED
    BY <2>1, <2>2, <2>3, NothingLeft
<1>12. N = Nat
  <2>1. N \in SUBSET Nat
    OBVIOUS
  <2> HIDE DEF N
  <2>. QED
    BY <1>10, <1>11, <2>1, EveryRound
<1>13. L(Len(y)) = [args |-> <<v, w>>, rest |-> <<>>]
  <2>1. 0 + Len(v) + 2 \in 1..Len(y)
    BY <1>5 DEF HoldsQuoted
  <2>2. Len(y) - 2 \in Nat /\ (Len(y) - 2) + 2 = Len(y)
    BY <1>6, <2>1
  <2>3. Len(y) - 2 \in N
    BY <1>12, <2>2
  <2>. QED
    BY <2>2, <2>3
<1>14. SplitArgs(y) = <<v, w>>
  BY <1>13 DEF SplitArgs, L
<1>. QED
  BY <1>4, <1>14 DEF a, b

\* Words that are quoted, joined and split again are the same words, unless one holds
\* both kinds of quotes or begins and ends with the same one, and every command that is
\* not empty has a program.
THEOREM ArgumentsKept == ArgumentsRoundTrip
<1>1. ASSUME NEW v \in Words, NEW w \in Words,
             \A s \in {v, w} : ~(Quotes \subseteq ToSet(s)) /\ \A q \in Quotes : ~IsQuotedBy(s, q)
      PROVE  Command(Join(<<Quote(v), Quote(w)>>, <<Space>>, FALSE)) =
                 [program |-> v, arguments |-> <<w>>]
  <2> DEFINE A == ToSet(v) \cup ToSet(w) \cup Quotes \cup {Space}
             y == Join(<<Quote(v), Quote(w)>>, <<Space>>, FALSE)
  <2>1. v \in Seq(ToSet(v)) /\ w \in Seq(ToSet(w))
    BY StringAssumption
  <2>2. v \in Seq(A) /\ w \in Seq(A)
    <3>1. ToSet(v) \subseteq A /\ ToSet(w) \subseteq A
      OBVIOUS
    <3> HIDE DEF A
    <3>. QED
      BY <2>1, <3>1, SeqMonotonic
  <2>3. Quotes \subseteq A /\ Space \in A
    OBVIOUS
  <2> HIDE DEF A
  <2>4. /\ ~(Quotes \subseteq ToSet(v)) /\ \A q \in Quotes : ~IsQuotedBy(v, q)
        /\ ~(Quotes \subseteq ToSet(w)) /\ \A q \in Quotes : ~IsQuotedBy(w, q)
    BY <1>1
  <2>5. SplitArgs(y) = <<v, w>>
    BY <2>2, <2>3, <2>4, SplitAgain
  <2> HIDE DEF y
  <2>6. Head(SplitArgs(y)) = v /\ Tail(SplitArgs(y)) = <<w>>
    BY <2>5
  <2>7. Command(y) = [program |-> v, arguments |-> <<w>>]
    BY <2>6 DEF Command
  <2>. QED
    BY <2>7 DEF y
<1>2. ASSUME NEW s \in Texts \ {<<>>} PROVE SplitArgs(s) # <<>>
  <2>1. s \in Seq(Characters) /\ s # <<>>
    BY TextsTyped
  <2>. QED
    BY <2>1, SomeArgument
<1>. QED
  BY <1>1, <1>2 DEF ArgumentsRoundTrip

-----------------------------------------------------------------------------
(* The loops of the code end: the rounds that are counted are enough. *)

\* Every round of split() moves on until the delimiter is not found any more.
LEMMA SplitMoves ==
    ASSUME NEW A, NEW s \in Seq(A), NEW t \in Seq(A), t # <<>>, NEW n \in Nat
    PROVE  SplitLoop(s, t)[n].last >= n + 1 \/ Find(s, t, SplitLoop(s, t)[n].last) = 0
<1> DEFINE S(k) == SplitLoop(s, t)[k]
           N    == {k \in Nat : S(k).last >= k + 1 \/ Find(s, t, S(k).last) = 0}
<1>0. IsSplitLoop(SplitLoop(s, t), A, s, t)
  BY SplitRounds
<1>1. /\ S(0) = [tokens |-> <<>>, last |-> 1]
      /\ \A k \in Nat : S(k) \in SplitState(A, s) /\ S(k + 1) = SplitRound(s, t, S(k))
  BY <1>0 DEF IsSplitLoop
<1>2. Len(s) \in Nat /\ Len(t) \in Nat \ {0}
  BY LenProperties, EmptySeq
<1> HIDE DEF S
<1>3. 0 \in N
  BY <1>1
<1>4. ASSUME NEW k \in N PROVE k + 1 \in N
  <2> DEFINE next == Find(s, t, S(k).last)
  <2>1. k \in Nat /\ S(k) \in SplitState(A, s) /\ S(k + 1) = SplitRound(s, t, S(k))
    BY <1>1
  <2>2. S(k).last \in 1..Len(s) + 1
    BY <2>1 DEF SplitState
  <2>3. CASE next = 0
    <3>1. S(k + 1) = S(k)
      BY <2>1, <2>3, SplitRoundStays
    <3>. QED
      BY <2>1, <2>3, <3>1
  <2>4. CASE next # 0
    <3>1. S(k).last >= k + 1
      BY <2>4
    <3>2. next \in S(k).last..Len(s) - Len(t) + 1
      BY <2>1, <2>4, SplitRoundStays
    <3>3. S(k + 1).last = next + Len(t)
      BY <2>1, <2>4 DEF SplitRound
    <3> HIDE DEF next
    <3>4. S(k + 1).last >= (k + 1) + 1
      BY <1>2, <2>1, <2>2, <3>1, <3>2, <3>3
    <3>. QED
      BY <2>1, <3>4
  <2>. QED
    BY <2>3, <2>4
<1>5. N = Nat
  <2>1. N \in SUBSET Nat
    OBVIOUS
  <2> HIDE DEF N
  <2>. QED
    BY <1>3, <1>4, <2>1, EveryRound
<1>. QED
  BY <1>5 DEF S

\* The loops of split() and replace() end: after one round more than the text is long
\* neither finds what it looks for, whatever the texts are.
THEOREM SearchesEnd ==
    ASSUME NEW A, NEW s \in Seq(A), NEW t \in Seq(A), NEW r \in Seq(A), t # <<>>
    PROVE  /\ Find(s, t, SplitLoop(s, t)[Len(s) + 1].last) = 0
           /\ LET end == ReplaceLoop(s, t, r)[Len(s) + 1] IN Find(end.text, t, end.pos) = 0
<1> DEFINE n     == Len(s) + 1
           split == SplitLoop(s, t)[n]
           end   == ReplaceLoop(s, t, r)[n]
           last  == split.last
           p     == Join(split.tokens, r, TRUE)
<1>0. n \in Nat /\ Len(s) \in Nat
  BY LenProperties
<1>1. split \in SplitState(A, s)
  <2>1. IsSplitLoop(SplitLoop(s, t), A, s, t)
    BY SplitRounds
  <2>. QED
    BY <1>0, <2>1 DEF IsSplitLoop
<1>2. split.tokens \in Seq(Seq(A)) /\ last \in 1..Len(s) + 1
  BY <1>1 DEF SplitState
<1>3. Find(s, t, last) = 0
  <2>1. last >= n + 1 \/ Find(s, t, last) = 0
    BY <1>0, SplitMoves
  <2> HIDE DEF last
  <2>. QED
    BY <1>0, <1>2, <2>1
<1>4. end.text = Cat(p, Part(s, last, Len(s))) /\ end.pos = Len(p) + 1
  <2>1. Alike(s, r, split, end)
    BY <1>0, LoopsAlike
  <2>. QED
    BY <2>1 DEF Alike
<1> HIDE DEF n, split, end
<1>5. p \in Seq(A)
  BY <1>2, JoinTyped
<1> HIDE DEF last, p
<1>6. Find(p \o SubSeq(s, last, Len(s)), t, Len(p) + 1) =
          IF Find(s, t, last) = 0 THEN 0 ELSE Find(s, t, last) - last + 1 + Len(p)
  BY <1>2, <1>5, FindShift
<1>7. Find(end.text, t, end.pos) = 0
  BY <1>3, <1>4, <1>6 DEF Cat, Part
<1>. QED
  BY <1>3, <1>7 DEF last, split, end, n

\* A match goes on until no alternative follows.
LEMMA MatchMoves ==
    ASSUME NEW A, NEW s \in Seq(A), NEW first \in 1..Len(s) + 1, NEW n \in Nat
    PROVE  MatchLoop(s, first)[n] >= first + n \/ PartEnd(s, MatchLoop(s, first)[n]) = 0
<1> DEFINE g(k) == MatchLoop(s, first)[k]
           N    == {k \in Nat : g(k) >= first + k \/ PartEnd(s, g(k)) = 0}
<1>0. IsMatchLoop(MatchLoop(s, first), s, first)
  BY MatchRounds
<1>1. g(0) = first /\ \A k \in Nat : g(k) \in first..Len(s) + 1 /\ g(k + 1) = MatchRound(s, g(k))
  BY <1>0 DEF IsMatchLoop
<1>2. Len(s) \in Nat /\ first \in Nat \ {0}
  BY LenProperties
<1> HIDE DEF g
<1>3. 0 \in N
  BY <1>1, <1>2
<1>4. ASSUME NEW k \in N PROVE k + 1 \in N
  <2>1. k \in Nat /\ g(k) \in first..Len(s) + 1 /\ g(k + 1) = MatchRound(s, g(k))
    BY <1>1
  <2>2. g(k) \in Nat \ {0}
    BY <1>2, <2>1
  <2>3. PartEnd(s, g(k)) \in {0} \cup (g(k)..Len(s))
    BY <2>2, PartEndTyped
  <2>4. CASE PartEnd(s, g(k)) = 0
    <3>1. g(k + 1) = g(k)
      BY <2>1, <2>4 DEF MatchRound
    <3>. QED
      BY <2>1, <2>4, <3>1
  <2>5. CASE PartEnd(s, g(k)) # 0
    <3>1. g(k) >= first + k
      BY <2>5
    <3>2. g(k + 1) = PartEnd(s, g(k)) + 1
      BY <2>1, <2>5 DEF MatchRound
    <3>3. g(k + 1) >= first + (k + 1)
      BY <1>2, <2>1, <2>2, <2>3, <2>5, <3>1, <3>2
    <3>. QED
      BY <2>1, <3>3
  <2>. QED
    BY <2>4, <2>5
<1>5. N = Nat
  <2>1. N \in SUBSET Nat
    OBVIOUS
  <2> HIDE DEF N
  <2>. QED
    BY <1>3, <1>4, <2>1, EveryRound
<1>. QED
  BY <1>5 DEF g

\* What is matched is not empty, and nothing that could be matched follows it.
LEMMA MatchWhole ==
    ASSUME NEW A, NEW s \in Seq(A), NEW first \in 1..Len(s)
    PROVE  /\ PartEnd(s, MatchEnd(s, first) + 1) = 0
           /\ PartEnd(s, first) # 0 => MatchEnd(s, first) >= first
<1> DEFINE loop == MatchLoop(s, first)
           end  == loop[Len(s)]
<1>0. Len(s) \in Nat /\ first \in Nat \ {0} /\ first \in 1..Len(s) + 1
  BY LenProperties
<1>1. loop[0] = first /\ \A k \in Nat : loop[k] \in first..Len(s) + 1 /\ loop[k + 1] = MatchRound(s, loop[k])
  <2>1. IsMatchLoop(loop, s, first)
    BY <1>0, MatchRounds
  <2>. QED
    BY <2>1 DEF IsMatchLoop
<1>2. end >= first + Len(s) \/ PartEnd(s, end) = 0
  BY <1>0, MatchMoves
<1>3. MatchEnd(s, first) = end - 1
  BY DEF MatchEnd
<1> HIDE DEF loop
<1>4. end \in first..Len(s) + 1
  BY <1>0, <1>1
<1> HIDE DEF end
<1>5. PartEnd(s, end) = 0
  <2>1. ASSUME end >= first + Len(s) PROVE PartEnd(s, end) = 0
    <3>1. end > Len(s)
      BY <1>0, <1>4, <2>1
    <3>. QED
      BY <3>1 DEF PartEnd
  <2>. QED
    BY <1>2, <2>1
<1>6. (end - 1) + 1 = end
  BY <1>0, <1>4
<1>7. PartEnd(s, first) # 0 => end # first
  BY <1>5
<1>. QED
  BY <1>0, <1>3, <1>4, <1>5, <1>6, <1>7

\* A round of splitArgs() leaves less than there was, or nothing was matched.
LEMMA ArgsRoundMoves ==
    ASSUME NEW A, NEW before \in ArgsState(A)
    PROVE  ArgsRound(before) = before \/ Len(ArgsRound(before).rest) < Len(before.rest)
<1> DEFINE s      == before.rest
           starts == {i \in DOMAIN s : PartEnd(s, i) # 0}
           first  == CHOOSE i \in starts : \A j \in starts : i <= j
           end    == MatchEnd(s, first)
           m      == end + 1
           args   == Append(before.args, Unquoted(SubSeq(s, first, end)))
           rest   == SubSeq(s, m, Len(s))
<1>0. s \in Seq(A)
  BY DEF ArgsState
<1>1. Len(s) \in Nat /\ DOMAIN s = 1..Len(s)
  BY <1>0, LenProperties
<1>2. ArgsRound(before) = IF starts = {} THEN before ELSE [args |-> args, rest |-> rest]
  BY DEF ArgsRound
<1>3. CASE starts # {}
  <2>1. first \in 1..Len(s) /\ PartEnd(s, first) # 0
    <3>1. starts \in SUBSET Nat
      BY <1>1
    <3>2. \A i \in starts : i \in 1..Len(s) /\ PartEnd(s, i) # 0
      BY <1>1
    <3> HIDE DEF starts
    <3>3. \E i \in starts : \A j \in starts : i <= j
      BY <1>3, <3>1, LeastOf
    <3>4. first \in starts
      BY <3>3
    <3>. QED
      BY <3>2, <3>4
  <2>2. ArgsRound(before).rest = rest
    <3> HIDE DEF starts, args, rest
    <3>. QED
      BY <1>2, <1>3
  <2> HIDE DEF s, first, args
  <2>3. first \in 1..Len(s) + 1
    BY <1>1, <2>1
  <2>4. end \in first - 1..Len(s)
    BY <1>0, <2>3, MatchEndTyped
  <2>5. end >= first
    BY <1>0, <2>1, MatchWhole
  <2> HIDE DEF end
  <2>6. m \in 2..Len(s) + 1 /\ Len(s) \in m - 1..Len(s)
    BY <1>1, <2>1, <2>4, <2>5
  <2> HIDE DEF m
  <2>7. m \in 1..Len(s) + 1
    BY <2>6
  <2>8. Len(rest) = Len(s) - m + 1
    BY <1>0, <2>6, <2>7, PartOf
  <2> HIDE DEF rest
  <2>9. Len(rest) < Len(s)
    BY <1>1, <2>6, <2>8
  <2>. QED
    BY <2>2, <2>9 DEF s
<1>. QED
  BY <1>2, <1>3

\* The loop of splitArgs() ends: after as many rounds as the text is long a further one
\* changes nothing.
THEOREM MatchesEnd ==
    ASSUME NEW A, NEW s \in Seq(A)
    PROVE  ArgsRound(ArgsLoop(s)[Len(s)]) = ArgsLoop(s)[Len(s)]
<1> DEFINE L(k) == ArgsLoop(s)[k]
           N    == {k \in Nat : Len(L(k).rest) <= Len(s) - k \/ ArgsRound(L(k)) = L(k)}
<1>0. IsArgsLoop(ArgsLoop(s), A, s) /\ Len(s) \in Nat
  BY ArgsRounds, LenProperties
<1>1. /\ L(0) = [args |-> <<>>, rest |-> s]
      /\ \A k \in Nat : L(k) \in ArgsState(A) /\ L(k + 1) = ArgsRound(L(k))
  BY <1>0 DEF IsArgsLoop
<1> HIDE DEF L
<1>2. \A k \in Nat : L(k).rest \in Seq(A) /\ Len(L(k).rest) \in Nat
  BY <1>1, LenProperties DEF ArgsState
<1>3. 0 \in N
  BY <1>0, <1>1
<1>4. ASSUME NEW k \in N PROVE k + 1 \in N
  <2>1. k \in Nat /\ k + 1 \in Nat /\ L(k) \in ArgsState(A) /\ L(k + 1) = ArgsRound(L(k))
    BY <1>1
  <2>2. CASE ArgsRound(L(k)) = L(k)
    BY <2>1, <2>2
  <2>3. CASE ArgsRound(L(k)) # L(k)
    <3>1. Len(L(k).rest) <= Len(s) - k
      BY <2>3
    <3>2. Len(L(k + 1).rest) < Len(L(k).rest)
      BY <2>1, <2>3, ArgsRoundMoves
    <3>3. Len(L(k + 1).rest) <= Len(s) - (k + 1)
      BY <1>0, <1>2, <2>1, <3>1, <3>2
    <3>. QED
      BY <2>1, <3>3
  <2>. QED
    BY <2>2, <2>3
<1>5. N = Nat
  <2>1. N \in SUBSET Nat
    OBVIOUS
  <2> HIDE DEF N
  <2>. QED
    BY <1>3, <1>4, <2>1, EveryRound
<1>6. ASSUME NEW k \in Nat, Len(L(k).rest) <= 0 PROVE ArgsRound(L(k)) = L(k)
  <2>1. /\ L(k) \in ArgsState(A) /\ L(k + 1) = ArgsRound(L(k))
        /\ Len(L(k).rest) \in Nat /\ Len(L(k + 1).rest) \in Nat
    <3>1. k + 1 \in Nat
      OBVIOUS
    <3>2. Len(L(k).rest) \in Nat /\ Len(L(k + 1).rest) \in Nat
      BY <1>2, <3>1
    <3>3. L(k) \in ArgsState(A) /\ L(k + 1) = ArgsRound(L(k))
      BY <1>1
    <3>. QED
      BY <3>2, <3>3
  <2>2. ~(Len(ArgsRound(L(k)).rest) < Len(L(k).rest))
    BY <1>6, <2>1
  <2>. QED
    BY <2>1, <2>2, ArgsRoundMoves
<1>7. ArgsRound(L(Len(s))) = L(Len(s))
  <2>1. Len(L(Len(s)).rest) <= 0 \/ ArgsRound(L(Len(s))) = L(Len(s))
    <3>1. Len(s) - Len(s) = 0
      BY <1>0
    <3>. QED
      BY <1>0, <1>5, <3>1
  <2>. QED
    BY <1>0, <1>6, <2>1
<1>. QED
  BY <1>7 DEF L
=============================================================================
