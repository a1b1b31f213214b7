---------------------------- MODULE ReadingProofs ----------------------------
(***************************************************************************)
(* What the readers may be relied on for, for every catalogue of receipts, *)
(* every order in which the log, its index and the store change under      *)
(* them, and any number of late and redelivered leaves: the collapse keeps *)
(* receipts, pages join, slots are true, one verdict is given, alignments  *)
(* are complete, consequences are shown, and a comparison hides nothing.   *)
(***************************************************************************)
EXTENDS DiffProps, FiniteSetTheorems, SequenceTheorems, WellFoundedInduction, TLAPS

-----------------------------------------------------------------------------
(* Sequences of whatever they hold. *)

IsSeq(s) == s \in Seq({s[k] : k \in DOMAIN s})

LEMMA SeqIs ==
    ASSUME NEW S, NEW s \in Seq(S)
    PROVE  IsSeq(s) /\ Len(s) \in Nat /\ DOMAIN s = 1..Len(s)
<1>1. Len(s) \in Nat /\ DOMAIN s = 1..Len(s) /\ s = [k \in 1..Len(s) |-> s[k]]
  OBVIOUS
<1>2. IsSeq(s)
  BY <1>1 DEF IsSeq
<1>3. QED
  BY <1>1, <1>2

LEMMA IsSeqHas ==
    ASSUME NEW s, IsSeq(s)
    PROVE  Len(s) \in Nat /\ DOMAIN s = 1..Len(s)
BY DEF IsSeq

LEMMA AppendIs ==
    ASSUME NEW s, IsSeq(s), NEW x
    PROVE  /\ IsSeq(Append(s, x)) /\ Len(Append(s, x)) = Len(s) + 1
           /\ \A k \in 1..Len(s) : Append(s, x)[k] = s[k]
           /\ Append(s, x)[Len(s) + 1] = x
<1> DEFINE S == {s[k] : k \in DOMAIN s} \cup {x}
<1>1. s \in Seq(S) /\ x \in S
  BY DEF IsSeq
<1>2. Append(s, x) \in Seq(S) /\ Len(Append(s, x)) = Len(s) + 1
  BY <1>1
<1>3. IsSeq(Append(s, x))
  BY <1>2, SeqIs
<1>4. QED
  BY <1>1, <1>2, <1>3

\* The places of a list of M entries that grows by one, and of one of N that
\* loses its head.
LEMMA ShiftedPlaces ==
    ASSUME NEW M \in Nat, NEW N \in Nat, N > 0
    PROVE  /\ 1 \in 1..N /\ \A k \in 1..(N - 1) : k + 1 \in 1..N /\ 1 < k + 1
           /\ \A k \in 1..N : k = 1 \/ (k - 1 \in 1..(N - 1) /\ (k - 1) + 1 = k)
           /\ \A k \in 1..(M + 1) : k = M + 1 \/ k \in 1..M
           /\ M + 1 \in 1..(M + 1) /\ \A k \in 1..M : k \in 1..(M + 1)
  OBVIOUS

LEMMA TailIs ==
    ASSUME NEW s, IsSeq(s), s # << >>
    PROVE  /\ Len(s) > 0 /\ Head(s) = s[1]
           /\ IsSeq(Tail(s)) /\ Len(Tail(s)) = Len(s) - 1
           /\ \A k \in 1..(Len(s) - 1) : Tail(s)[k] = s[k + 1]
<1> DEFINE S == {s[k] : k \in DOMAIN s}
<1>1. s \in Seq(S)
  BY DEF IsSeq
<1>2. Tail(s) \in Seq(S) /\ Len(Tail(s)) = Len(s) - 1 /\ Len(s) > 0
  BY <1>1
<1>3. IsSeq(Tail(s))
  BY <1>2, SeqIs
<1>4. QED
  BY <1>1, <1>2, <1>3

LEMMA ConcatIs ==
    ASSUME NEW s, IsSeq(s), NEW t, IsSeq(t)
    PROVE  /\ IsSeq(s \o t) /\ Len(s \o t) = Len(s) + Len(t)
           /\ \A k \in 1..Len(s) : (s \o t)[k] = s[k]
           /\ \A k \in 1..Len(t) : (s \o t)[Len(s) + k] = t[k]
<1> DEFINE S == {s[k] : k \in DOMAIN s} \cup {t[k] : k \in DOMAIN t}
<1>1. s \in Seq(S) /\ t \in Seq(S)
  BY DEF IsSeq
<1>2. s \o t \in Seq(S) /\ Len(s \o t) = Len(s) + Len(t)
  BY <1>1
<1>3. IsSeq(s \o t)
  BY <1>2, SeqIs
<1>4. QED
  BY <1>1, <1>2, <1>3

LEMMA EmptyIs == IsSeq(<< >>) /\ Len(<< >>) = 0 /\ DOMAIN << >> = {}
BY DEF IsSeq

-----------------------------------------------------------------------------
(* Sets of log indices, and their order. *)

LEMMA LeastIs ==
    ASSUME NEW S \in SUBSET Nat, S # {}
    PROVE  Least(S) \in S /\ \A j \in S : Least(S) <= j
<1> DEFINE R == {ss \in Nat \X Nat : ss[1] < ss[2]}
<1>1. IsWellFoundedOn(R, Nat)
  BY NatLessThanWellFounded DEF OpToRel
<1>2. PICK x \in S : \A y \in S : ~ (<<y, x>> \in R)
  BY <1>1, WFMin
<1>3. ASSUME NEW y \in S PROVE x <= y
  <2>1. x \in Nat /\ y \in Nat
    OBVIOUS
  <2>2. ~(y < x)
    BY <1>2, <2>1
  <2>3. QED
    BY <2>1, <2>2
<1>4. QED
  BY <1>3 DEF Least

\* The rank of a member grows with it.
LEMMA RankGrows ==
    ASSUME NEW S \in SUBSET Nat, IsFiniteSet(S), NEW k \in S, NEW l \in S, k < l
    PROVE  Cardinality({j \in S : j <= k}) < Cardinality({j \in S : j <= l})
<1> DEFINE K == {j \in S : j <= k}
           L == {j \in S : j <= l}
<1>1. k \in Nat /\ l \in Nat
  OBVIOUS
<1>2. K \subseteq L /\ l \in L /\ l \notin K /\ L \subseteq S
  <2>1. \A j \in S : j \in Nat /\ (j <= k => j <= l)
    BY <1>1
  <2>2. l <= l /\ ~(l <= k)
    BY <1>1
  <2>3. QED
    BY <2>1, <2>2
<1> HIDE DEF K, L
<1>3. IsFiniteSet(L) /\ Cardinality(L) \in Nat
  BY <1>2, FS_Subset, FS_CardinalityType
<1>4. IsFiniteSet(K) /\ Cardinality(K) \in Nat /\ Cardinality(K) <= Cardinality(L)
      /\ (Cardinality(K) = Cardinality(L) => K = L)
  BY <1>2, <1>3, FS_Subset, FS_CardinalityType
<1>5. Cardinality(K) < Cardinality(L)
  BY <1>2, <1>3, <1>4
<1>6. QED
  BY <1>5 DEF K, L

\* ByIndex lists a finite set of numbers, each once, from the least on, and a
\* member stands after as many as are below it.
LEMMA ByIndexLists ==
    ASSUME NEW S \in SUBSET Nat, IsFiniteSet(S)
    PROVE  /\ IsSeq(ByIndex(S)) /\ Len(ByIndex(S)) = Cardinality(S) /\ Cardinality(S) \in Nat
           /\ DOMAIN ByIndex(S) = 1..Cardinality(S)
           /\ \A n \in 1..Cardinality(S) : ByIndex(S)[n] \in S
           /\ {ByIndex(S)[n] : n \in DOMAIN ByIndex(S)} = S
           /\ Increasing(ByIndex(S))
           /\ \A k \in S : /\ Cardinality({j \in S : j < k}) + 1 \in 1..Cardinality(S)
                           /\ ByIndex(S)[Cardinality({j \in S : j < k}) + 1] = k
<1> DEFINE rank(k) == Cardinality({j \in S : j <= k})
           N == Cardinality(S)
           f == [k \in S |-> rank(k)]
<1>1. N \in Nat
  BY FS_CardinalityType
<1>2. ASSUME NEW k \in S PROVE rank(k) \in 1..N
  <2> DEFINE K == {j \in S : j <= k}
  <2>1. K \subseteq S /\ k \in K
    OBVIOUS
  <2> HIDE DEF K
  <2>2. IsFiniteSet(K) /\ Cardinality(K) <= N
    BY <2>1, FS_Subset
  <2>3. Cardinality(K) \in Nat /\ Cardinality(K) # 0
    BY <2>1, <2>2, FS_CardinalityType, FS_EmptySet
  <2>4. Cardinality(K) \in 1..N
    BY <2>2, <2>3, <1>1
  <2>5. QED
    BY <2>4 DEF K
<1>3. ASSUME NEW k \in S, NEW l \in S, k < l PROVE rank(k) < rank(l)
  BY <1>3, RankGrows
<1>4. ASSUME NEW k \in S PROVE rank(k) = Cardinality({j \in S : j < k}) + 1
  <2> DEFINE K == {j \in S : j < k}
  <2>1. {j \in S : j <= k} = K \cup {k} /\ k \notin K /\ K \subseteq S
    <3>1. \A j \in S : (j <= k <=> j < k \/ j = k) /\ ~(k < k)
      OBVIOUS
    <3>2. ASSUME NEW j PROVE j \in {i \in S : i <= k} <=> j \in K \cup {k}
      BY <3>1
    <3>3. k \notin K /\ K \subseteq S
      BY <3>1
    <3>4. QED
      BY <3>2, <3>3
  <2> HIDE DEF K
  <2>2. IsFiniteSet(K)
    BY <2>1, FS_Subset
  <2>3. Cardinality(K \cup {k}) = Cardinality(K) + 1
    BY <2>1, <2>2, FS_AddElement
  <2>4. QED
    BY <2>1, <2>3 DEF K
<1> HIDE DEF rank
<1>5. ASSUME NEW k \in S, NEW l \in S, rank(k) = rank(l) PROVE k = l
  <2>1. k \in Nat /\ l \in Nat /\ rank(k) \in Int /\ rank(l) \in Int
    BY <1>2
  <2>2. ~(k < l) /\ ~(l < k)
    BY <1>3, <1>5, <2>1
  <2>3. QED
    BY <2>1, <2>2
<1>6. f \in Injection(S, 1..N)
  BY <1>2, <1>5 DEF Injection, IsInjective
<1>7. IsFiniteSet(1..N) /\ Cardinality(1..N) = N
  BY <1>1, FS_Interval
<1>8. f \in Surjection(S, 1..N)
  BY <1>6, <1>7, FS_Injection
<1>9. ASSUME NEW n \in 1..N
      PROVE  ByIndex(S)[n] \in S /\ rank(ByIndex(S)[n]) = n
  <2>1. \E k \in S : rank(k) = n
    BY <1>8 DEF Surjection
  <2>2. ByIndex(S)[n] = CHOOSE k \in S : rank(k) = n
    BY DEF ByIndex, rank
  <2>3. QED
    BY <2>1, <2>2
<1>10. ByIndex(S) \in [1..N -> S]
  BY <1>9 DEF ByIndex
<1>11. ByIndex(S) \in Seq(S) /\ Len(ByIndex(S)) = N
  BY <1>1, <1>10
<1>12. ASSUME NEW k \in S PROVE rank(k) \in 1..N /\ ByIndex(S)[rank(k)] = k
  BY <1>2, <1>5, <1>9
<1>13. ASSUME NEW m \in 1..N, NEW n \in 1..N, m < n
       PROVE  ByIndex(S)[m] < ByIndex(S)[n]
  <2> DEFINE x == ByIndex(S)[m]
             y == ByIndex(S)[n]
  <2>1. x \in S /\ y \in S /\ rank(x) = m /\ rank(y) = n
    BY <1>9
  <2> HIDE DEF x, y
  <2>2. x \in Nat /\ y \in Nat /\ m \in Int /\ n \in Int
    BY <2>1, <1>1
  <2>3. ~(y < x) /\ x # y
    <3>1. y < x => n < m
      BY <2>1, <1>3
    <3>2. QED
      BY <3>1, <2>1, <2>2, <1>13
  <2>4. x < y
    BY <2>2, <2>3
  <2>5. QED
    BY <2>4 DEF x, y
<1>14. Increasing(ByIndex(S))
  BY <1>10, <1>13 DEF Increasing
<1>15. {ByIndex(S)[n] : n \in DOMAIN ByIndex(S)} = S
  BY <1>10, <1>12
<1>16. QED
  BY <1>1, <1>4, <1>9, <1>10, <1>11, <1>12, <1>14, <1>15, SeqIs

-----------------------------------------------------------------------------
(* The collapse of two surfaces. *)

\* The walk of Collapse: what stands after each leaf.
LEMMA CollapseWalks ==
    ASSUME NEW leaves, IsSeq(leaves)
    PROVE  \E walk : /\ walk[0] = << >>
                     /\ \A n \in 1..Len(leaves) : walk[n] = Fold(walk[n - 1], leaves[n])
                     /\ Collapse(leaves) = walk[Len(leaves)]
<1> DEFINE L == Len(leaves)
           Is(w, m) == w = [n \in 0..m |-> IF n = 0 THEN << >> ELSE Fold(w[n - 1], leaves[n])]
           T == {m \in 0..L : ~ \E w : Is(w, m)}
<1>1. L \in Nat
  BY IsSeqHas
<1>2. T = {}
  <2> SUFFICES ASSUME T # {} PROVE FALSE
    OBVIOUS
  <2>1. T \in SUBSET Nat
    BY <1>1
  <2>2. PICK m \in T : \A j \in T : m <= j
    BY <2>1, LeastIs
  <2>3. m \in 0..L /\ m \in Nat
    BY <1>1
  <2>4. m # 0
    <3>1. Is([n \in 0..0 |-> << >>], 0)
      OBVIOUS
    <3>2. QED
      BY <3>1
  <2>5. m - 1 \in 0..L /\ m - 1 \notin T /\ m - 1 \in Nat
    <3> HIDE DEF T
    <3>1. m - 1 \in 0..L /\ m - 1 \in Nat /\ ~(m <= m - 1)
      BY <1>1, <2>3, <2>4
    <3>2. QED
      BY <2>2, <3>1
  <2>6. PICK w : Is(w, m - 1)
    BY <2>5
  <2> DEFINE v == [n \in 0..m |-> IF n = m THEN Fold(w[m - 1], leaves[m]) ELSE w[n]]
  <2>7. \A n \in 0..(m - 1) : v[n] = w[n] /\ w[n] = IF n = 0 THEN << >> ELSE Fold(w[n - 1], leaves[n])
    <3> HIDE DEF T
    <3>1. \A n \in 0..(m - 1) : n \in 0..m /\ n # m
      BY <2>3
    <3>2. QED
      BY <2>6, <3>1
  <2>8. ASSUME NEW n \in 0..m
        PROVE  v[n] = IF n = 0 THEN << >> ELSE Fold(v[n - 1], leaves[n])
    <3>1. CASE n = m
      <4>1. v[n - 1] = w[m - 1] /\ v[n] = Fold(w[m - 1], leaves[m])
        BY <2>3, <2>4, <2>7, <3>1
      <4>2. QED
        BY <2>4, <3>1, <4>1
    <3>2. CASE n # m
      <4>1. n \in 0..(m - 1) /\ (n # 0 => n - 1 \in 0..(m - 1))
        BY <2>3, <3>2
      <4>2. QED
        BY <2>7, <4>1
    <3>3. QED
      BY <3>1, <3>2
  <2>9. Is(v, m)
    <3> HIDE DEF T
    <3>1. v = [n \in 0..m |-> v[n]]
      OBVIOUS
    <3> HIDE DEF v
    <3>2. QED
      BY <2>8, <3>1
  <2> HIDE DEF v, Is
  <2>10. QED
    BY <2>2, <2>9
<1>3. PICK w : w = CHOOSE u : Is(u, L)
  OBVIOUS
<1>4. Is(w, L)
  BY <1>1, <1>2, <1>3
<1>5. Collapse(leaves) = w[L]
  BY <1>3 DEF Collapse
<1>6. w[0] = << >> /\ \A n \in 1..L : w[n] = Fold(w[n - 1], leaves[n])
  BY <1>1, <1>4
<1>7. QED
  BY <1>5, <1>6

\* What the walk has made of the first n leaves.
Folded(crossings, leaves, n) ==
    /\ IsSeq(crossings)
    /\ \A k \in 1..Len(crossings) :
          /\ IsSeq(crossings[k]) /\ Len(crossings[k]) \in {1, 2}
          /\ \A m \in 1..Len(crossings[k]) : \E i \in 1..n : crossings[k][m] = leaves[i]
          /\ Len(crossings[k]) = 2 =>
                crossings[k][1] < crossings[k][2] /\ SameCrossing(crossings[k][1], crossings[k][2])
    /\ \A i \in 1..n : \E k \in 1..Len(crossings) : \E m \in 1..Len(crossings[k]) : crossings[k][m] = leaves[i]
    /\ \A k, l \in 1..Len(crossings) : \A m \in 1..Len(crossings[k]), h \in 1..Len(crossings[l]) :
          crossings[k][m] = crossings[l][h] => k = l /\ m = h
    /\ \A k, l \in 1..Len(crossings) : k < l => crossings[k][1] < crossings[l][1]
    /\ \A k, l \in 1..Len(crossings) :
          /\ Len(crossings[k]) = 2
          /\ SameCrossing(crossings[l][1], crossings[k][2])
          /\ crossings[l][1] < crossings[k][1]
          => Len(crossings[l]) = 2 /\ crossings[l][2] < crossings[k][2]

\* One leaf more: on a crossing of its own, or behind the oldest open one.
LEMMA FoldGoesOn ==
    ASSUME NEW S \in SUBSET Nat, NEW leaves \in Seq(S), Increasing(leaves),
           NEW n \in 0..(Len(leaves) - 1), NEW cs, Folded(cs, leaves, n)
    PROVE  Folded(Fold(cs, leaves[n + 1]), leaves, n + 1)
<1> DEFINE i == leaves[n + 1]
           fs == Fold(cs, i)
           C == Len(cs)
<1>1. /\ IsSeq(cs) /\ C \in Nat /\ DOMAIN cs = 1..C
      /\ n \in Nat /\ n + 1 \in 1..Len(leaves) /\ i \in Nat /\ 1..n \subseteq 1..(n + 1)
      /\ \A j \in 1..n : leaves[j] \in Nat /\ leaves[j] < i
  <2>1. IsSeq(cs)
    BY DEF Folded
  <2>2. Len(leaves) \in Nat /\ DOMAIN leaves = 1..Len(leaves) /\ n \in Nat /\ n + 1 \in 1..Len(leaves)
    OBVIOUS
  <2>3. \A j \in 1..n : j \in 1..Len(leaves) /\ j < n + 1
    BY <2>2
  <2>4. \A j \in 1..n : leaves[j] \in Nat /\ leaves[j] < leaves[n + 1]
    <3>1. \A a, b \in 1..Len(leaves) : a < b => leaves[a] < leaves[b]
      BY <2>2 DEF Increasing
    <3>2. \A a \in 1..Len(leaves) : leaves[a] \in Nat
      <4>1. \A a \in 1..Len(leaves) : leaves[a] \in S
        OBVIOUS
      <4>2. QED
        BY <4>1
    <3>3. QED
      BY <3>1, <3>2, <2>2, <2>3
  <2>5. i \in Nat /\ 1..n \subseteq 1..(n + 1)
    <3>1. \A j \in 1..n : j \in 1..(n + 1)
      BY <2>2
    <3>2. i \in S
      BY <2>2
    <3>3. QED
      BY <3>1, <3>2
  <2>6. QED
    BY <2>1, <2>2, <2>4, <2>5, IsSeqHas
<1>2. \A k \in 1..C : /\ IsSeq(cs[k]) /\ Len(cs[k]) \in {1, 2} /\ DOMAIN cs[k] = 1..Len(cs[k])
                      /\ 1 \in 1..Len(cs[k]) /\ (Len(cs[k]) = 2 => 2 \in 1..Len(cs[k]))
                      /\ \A m \in 1..Len(cs[k]) : cs[k][m] \in Nat /\ cs[k][m] < i
  <2> TAKE k \in 1..C
  <2>1. IsSeq(cs[k]) /\ Len(cs[k]) \in {1, 2}
    BY DEF Folded
  <2>2. \A m \in 1..Len(cs[k]) : \E j \in 1..n : cs[k][m] = leaves[j]
    BY DEF Folded
  <2>3. \A m \in 1..Len(cs[k]) : cs[k][m] \in Nat /\ cs[k][m] < i
    BY <2>2, <1>1
  <2>4. DOMAIN cs[k] = 1..Len(cs[k])
    BY <2>1, IsSeqHas
  <2>5. 1 \in 1..Len(cs[k]) /\ (Len(cs[k]) = 2 => 2 \in 1..Len(cs[k]))
    <3>1. 1 \in 1..1 /\ 1 \in 1..2 /\ 2 \in 1..2
      OBVIOUS
    <3>2. Len(cs[k]) = 1 \/ Len(cs[k]) = 2
      BY <2>1
    <3>3. QED
      BY <3>1, <3>2
  <2>6. QED
    BY <2>1, <2>3, <2>4, <2>5
<1>3. n + 1 \in 1..(n + 1) /\ leaves[n + 1] = i /\ \A j \in 1..(n + 1) : j = n + 1 \/ j \in 1..n
  BY <1>1
<1>4. CASE Unpaired(cs, i) = {}
  <2>1. fs = Append(cs, <<i>>)
    BY <1>4 DEF Fold
  <2>2. /\ IsSeq(fs) /\ Len(fs) = C + 1 /\ fs[C + 1] = <<i>>
        /\ \A k \in 1..C : fs[k] = cs[k]
    BY <1>1, <2>1, AppendIs
  <2>3. \A k \in 1..(C + 1) : k = C + 1 \/ k \in 1..C
    BY <1>1
  <2>4. IsSeq(<<i>>) /\ Len(<<i>>) = 1 /\ <<i>>[1] = i /\ 1..1 = {1}
    <3>1. <<i>> \in Seq({i}) /\ Len(<<i>>) = 1 /\ <<i>>[1] = i
      OBVIOUS
    <3>2. IsSeq(<<i>>)
      BY <3>1, SeqIs
    <3>3. 1..1 = {1}
      OBVIOUS
    <3>4. QED
      BY <3>1, <3>2, <3>3
  <2> HIDE DEF fs, i
  <2>5. \A k \in 1..Len(fs) : /\ IsSeq(fs[k]) /\ Len(fs[k]) \in {1, 2}
                              /\ \A m \in 1..Len(fs[k]) : \E j \in 1..(n + 1) : fs[k][m] = leaves[j]
                              /\ Len(fs[k]) = 2 => fs[k][1] < fs[k][2] /\ SameCrossing(fs[k][1], fs[k][2])
    <3> TAKE k \in 1..Len(fs)
    <3>1. CASE k = C + 1
      BY <3>1, <2>2, <2>4, <1>3
    <3>2. CASE k \in 1..C
      <4>1. /\ IsSeq(cs[k]) /\ Len(cs[k]) \in {1, 2}
            /\ \A m \in 1..Len(cs[k]) : \E j \in 1..n : cs[k][m] = leaves[j]
            /\ Len(cs[k]) = 2 => cs[k][1] < cs[k][2] /\ SameCrossing(cs[k][1], cs[k][2])
        BY <3>2 DEF Folded
      <4>2. fs[k] = cs[k]
        BY <3>2, <2>2
      <4>3. QED
        BY <4>1, <4>2, <1>1
    <3>3. QED
      BY <3>1, <3>2, <2>2, <2>3
  <2>6. \A j \in 1..(n + 1) : \E k \in 1..Len(fs) : \E m \in 1..Len(fs[k]) : fs[k][m] = leaves[j]
    <3> TAKE j \in 1..(n + 1)
    <3>1. CASE j = n + 1
      <4>1. C + 1 \in 1..Len(fs) /\ 1 \in 1..Len(fs[C + 1]) /\ fs[C + 1][1] = leaves[j]
        BY <3>1, <1>1, <1>3, <2>2, <2>4
      <4>2. QED
        BY <4>1
    <3>2. CASE j \in 1..n
      <4>1. PICK k \in 1..C : \E m \in 1..Len(cs[k]) : cs[k][m] = leaves[j]
        BY <3>2 DEF Folded
      <4>2. k \in 1..Len(fs) /\ fs[k] = cs[k]
        BY <4>1, <2>2, <1>1
      <4>3. QED
        BY <4>1, <4>2
    <3>3. QED
      BY <3>1, <3>2, <1>3
  <2>7. \A k, l \in 1..Len(fs) : \A m \in 1..Len(fs[k]), h \in 1..Len(fs[l]) :
           fs[k][m] = fs[l][h] => k = l /\ m = h
    <3> TAKE k, l \in 1..Len(fs)
    <3> TAKE m \in 1..Len(fs[k]), h \in 1..Len(fs[l])
    <3>1. CASE k \in 1..C /\ l \in 1..C
      <4>1. fs[k] = cs[k] /\ fs[l] = cs[l]
        BY <3>1, <2>2
      <4>2. QED
        BY <3>1, <4>1 DEF Folded
    <3>2. CASE k = C + 1 /\ l = C + 1
      BY <3>2, <2>2, <2>4
    <3>3. CASE k \in 1..C /\ l = C + 1
      <4>1. fs[k][m] < i /\ fs[k][m] \in Nat /\ fs[l][h] = i
        BY <3>3, <1>2, <2>2, <2>4
      <4>2. QED
        BY <4>1, <1>1
    <3>4. CASE k = C + 1 /\ l \in 1..C
      <4>1. fs[l][h] < i /\ fs[l][h] \in Nat /\ fs[k][m] = i
        BY <3>4, <1>2, <2>2, <2>4
      <4>2. QED
        BY <4>1, <1>1
    <3>5. QED
      BY <3>1, <3>2, <3>3, <3>4, <2>2, <2>3
  <2>8. \A k, l \in 1..Len(fs) : k < l => fs[k][1] < fs[l][1]
    <3> TAKE k, l \in 1..Len(fs)
    <3> HAVE k < l
    <3>1. k \in 1..C
      BY <1>1, <2>2
    <3>2. CASE l \in 1..C
      <4>1. fs[k] = cs[k] /\ fs[l] = cs[l]
        BY <3>1, <3>2, <2>2
      <4>2. QED
        BY <3>1, <3>2, <4>1 DEF Folded
    <3>3. CASE l = C + 1
      BY <3>1, <3>3, <1>2, <2>2, <2>4
    <3>4. QED
      BY <3>2, <3>3, <2>2, <2>3
  <2>9. \A k, l \in 1..Len(fs) :
          /\ Len(fs[k]) = 2
          /\ SameCrossing(fs[l][1], fs[k][2])
          /\ fs[l][1] < fs[k][1]
          => Len(fs[l]) = 2 /\ fs[l][2] < fs[k][2]
    <3> TAKE k, l \in 1..Len(fs)
    <3> HAVE Len(fs[k]) = 2 /\ SameCrossing(fs[l][1], fs[k][2]) /\ fs[l][1] < fs[k][1]
    <3>1. k \in 1..C
      <4> SUFFICES ASSUME k = C + 1 PROVE FALSE
        BY <2>2, <2>3
      <4>1. Len(fs[k]) = 1 /\ Len(fs[k]) = 2
        BY <2>2, <2>4
      <4>2. QED
        BY <4>1
    <3>2. l \in 1..C
      <4> SUFFICES ASSUME l = C + 1 PROVE FALSE
        BY <2>2, <2>3
      <4>1. fs[l][1] = i /\ fs[k][1] \in Nat /\ fs[k][1] < i
        BY <3>1, <1>2, <2>2, <2>4
      <4>2. QED
        BY <4>1, <1>1
    <3>3. fs[k] = cs[k] /\ fs[l] = cs[l]
      BY <3>1, <3>2, <2>2
    <3>4. QED
      BY <3>1, <3>2, <3>3 DEF Folded
  <2>10. QED
    BY <2>2, <2>5, <2>6, <2>7, <2>8, <2>9 DEF Folded, fs, i
<1>5. CASE Unpaired(cs, i) # {}
  <2> DEFINE U == Unpaired(cs, i)
             o == Least(U)
  <2>1. U \in SUBSET Nat
    BY <1>1 DEF Unpaired
  <2>2. o \in U /\ \A k \in U : o <= k
    BY <1>5, <2>1, LeastIs
  <2>3. /\ o \in 1..C /\ Len(cs[o]) = 1 /\ SameCrossing(cs[o][1], i)
        /\ \A k \in 1..C : Len(cs[k]) = 1 /\ SameCrossing(cs[k][1], i) => o <= k
    BY <2>2, <1>1 DEF Unpaired
  <2>4. fs = [cs EXCEPT ![o] = Append(cs[o], i)]
    BY <1>5 DEF Fold
  <2>5. /\ IsSeq(Append(cs[o], i)) /\ Len(Append(cs[o], i)) = 2
        /\ Append(cs[o], i)[1] = cs[o][1] /\ Append(cs[o], i)[2] = i
    <3>1. IsSeq(cs[o]) /\ Len(cs[o]) = 1
      BY <1>2, <2>3
    <3>2. PICK s : s = cs[o]
      OBVIOUS
    <3>3. /\ IsSeq(Append(s, i)) /\ Len(Append(s, i)) = Len(s) + 1
          /\ Append(s, i)[1] = s[1] /\ Append(s, i)[2] = i
      BY <3>1, <3>2, AppendIs
    <3>4. QED
      BY <3>1, <3>2, <3>3
  <2>6. /\ IsSeq(fs) /\ Len(fs) = C
        /\ IsSeq(fs[o]) /\ Len(fs[o]) = 2 /\ fs[o][1] = cs[o][1] /\ fs[o][2] = i
        /\ \A k \in 1..C : k # o => fs[k] = cs[k]
    <3>1. fs \in Seq({fs[k] : k \in 1..C}) /\ Len(fs) = C
      <4>1. fs = [k \in 1..C |-> fs[k]]
        BY <1>1, <2>4
      <4>2. QED
        BY <1>1, <4>1
    <3>2. fs[o] = Append(cs[o], i) /\ \A k \in 1..C : k # o => fs[k] = cs[k]
      BY <1>1, <2>3, <2>4
    <3>3. QED
      BY <3>1, <3>2, <2>5, SeqIs
  <2> HIDE DEF fs, i, o, U
  <2>7. \A k \in 1..C : /\ Len(cs[k]) <= Len(fs[k]) /\ fs[k][1] = cs[k][1]
                        /\ \A m \in 1..Len(cs[k]) : m \in 1..Len(fs[k]) /\ fs[k][m] = cs[k][m]
                        /\ \A m \in 1..Len(fs[k]) : m \in 1..Len(cs[k]) \/ (k = o /\ m = 2 /\ fs[k][m] = i)
    <3> TAKE k \in 1..C
    <3>1. CASE k = o
      <4>1. Len(cs[o]) = 1 /\ Len(fs[o]) = 2 /\ 1..1 = {1} /\ 1..2 = {1, 2}
        BY <2>3, <2>6
      <4>2. QED
        BY <3>1, <4>1, <2>6
    <3>2. CASE k # o
      BY <3>2, <2>6, <1>2, SMTT(20)
    <3>3. QED
      BY <3>1, <3>2
  <2>8. \A k \in 1..Len(fs) : /\ IsSeq(fs[k]) /\ Len(fs[k]) \in {1, 2}
                              /\ \A m \in 1..Len(fs[k]) : \E j \in 1..(n + 1) : fs[k][m] = leaves[j]
                              /\ Len(fs[k]) = 2 => fs[k][1] < fs[k][2] /\ SameCrossing(fs[k][1], fs[k][2])
    <3> TAKE k \in 1..Len(fs)
    <3>1. \A m \in 1..Len(fs[k]) : \E j \in 1..(n + 1) : fs[k][m] = leaves[j]
      <4> TAKE m \in 1..Len(fs[k])
      <4>1. CASE m \in 1..Len(cs[k])
        <5>1. \E j \in 1..n : cs[k][m] = leaves[j]
          BY <4>1, <2>6 DEF Folded
        <5>2. QED
          BY <5>1, <4>1, <2>6, <2>7, <1>1
      <4>2. CASE fs[k][m] = i
        BY <4>2, <1>3
      <4>3. QED
        BY <4>1, <4>2, <2>6, <2>7
    <3>2. CASE k = o
      <4>1. fs[k][1] < fs[k][2] /\ SameCrossing(fs[k][1], fs[k][2])
        BY <3>2, <2>3, <2>6, <1>2
      <4>2. QED
        BY <3>1, <3>2, <4>1, <2>6
    <3>3. CASE k # o
      <4>1. /\ IsSeq(cs[k]) /\ Len(cs[k]) \in {1, 2}
            /\ Len(cs[k]) = 2 => cs[k][1] < cs[k][2] /\ SameCrossing(cs[k][1], cs[k][2])
        BY <2>6 DEF Folded
      <4>2. QED
        BY <3>1, <3>3, <4>1, <2>6
    <3>4. QED
      BY <3>2, <3>3
  <2>9. \A j \in 1..(n + 1) : \E k \in 1..Len(fs) : \E m \in 1..Len(fs[k]) : fs[k][m] = leaves[j]
    <3> TAKE j \in 1..(n + 1)
    <3>1. CASE j = n + 1
      <4>1. o \in 1..Len(fs) /\ 2 \in 1..Len(fs[o]) /\ fs[o][2] = leaves[j]
        BY <3>1, <1>3, <2>3, <2>6
      <4>2. QED
        BY <4>1
    <3>2. CASE j \in 1..n
      <4>1. PICK k \in 1..C : \E m \in 1..Len(cs[k]) : cs[k][m] = leaves[j]
        BY <3>2 DEF Folded
      <4>2. QED
        BY <4>1, <2>6, <2>7
    <3>3. QED
      BY <3>1, <3>2, <1>3
  <2>10. \A k, l \in 1..Len(fs) : \A m \in 1..Len(fs[k]), h \in 1..Len(fs[l]) :
           fs[k][m] = fs[l][h] => k = l /\ m = h
    <3> TAKE k, l \in 1..Len(fs)
    <3> TAKE m \in 1..Len(fs[k]), h \in 1..Len(fs[l])
    <3>1. CASE m \in 1..Len(cs[k]) /\ h \in 1..Len(cs[l])
      <4>1. fs[k][m] = cs[k][m] /\ fs[l][h] = cs[l][h]
        BY <3>1, <2>6, <2>7
      <4>2. \A a, b \in 1..C : \A x \in 1..Len(cs[a]), y \in 1..Len(cs[b]) :
              cs[a][x] = cs[b][y] => a = b /\ x = y
        BY DEF Folded
      <4>3. k \in 1..C /\ l \in 1..C
        BY <2>6
      <4>4. cs[k][m] = cs[l][h] => k = l /\ m = h
        BY <3>1, <4>2, <4>3
      <4>5. QED
        BY <4>1, <4>4
    <3>2. CASE m \in 1..Len(cs[k]) /\ l = o /\ h = 2 /\ fs[l][h] = i
      <4>1. fs[k][m] \in Nat /\ fs[k][m] < i
        BY <3>2, <1>2, <2>6, <2>7
      <4>2. QED
        BY <4>1, <3>2, <1>1
    <3>3. CASE k = o /\ m = 2 /\ fs[k][m] = i /\ h \in 1..Len(cs[l])
      <4>1. fs[l][h] \in Nat /\ fs[l][h] < i
        BY <3>3, <1>2, <2>6, <2>7
      <4>2. QED
        BY <4>1, <3>3, <1>1
    <3>4. m \in 1..Len(cs[k]) \/ (k = o /\ m = 2 /\ fs[k][m] = i)
      BY <2>6, <2>7
    <3>5. h \in 1..Len(cs[l]) \/ (l = o /\ h = 2 /\ fs[l][h] = i)
      BY <2>6, <2>7
    <3>6. QED
      BY <3>1, <3>2, <3>3, <3>4, <3>5
  <2>11. \A k, l \in 1..Len(fs) : k < l => fs[k][1] < fs[l][1]
    <3>1. \A k, l \in 1..C : k < l => cs[k][1] < cs[l][1]
      BY DEF Folded
    <3>2. QED
      BY <3>1, <2>6, <2>7
  <2>12. \A k, l \in 1..Len(fs) :
          /\ Len(fs[k]) = 2
          /\ SameCrossing(fs[l][1], fs[k][2])
          /\ fs[l][1] < fs[k][1]
          => Len(fs[l]) = 2 /\ fs[l][2] < fs[k][2]
    <3> TAKE k, l \in 1..Len(fs)
    <3> HAVE Len(fs[k]) = 2 /\ SameCrossing(fs[l][1], fs[k][2]) /\ fs[l][1] < fs[k][1]
    <3>1. k \in 1..C /\ l \in 1..C /\ fs[l][1] = cs[l][1] /\ fs[k][1] = cs[k][1]
      BY <2>6, <2>7
    <3>2. CASE k = o
      <4>1. l # o /\ fs[l] = cs[l]
        <5>1. cs[l][1] \in Nat /\ cs[o][1] \in Nat /\ cs[l][1] < cs[o][1]
          BY <3>1, <3>2, <1>2
        <5>2. l # o
          BY <5>1
        <5>3. QED
          BY <5>2, <3>1, <2>6
      <4>2. l < o
        <5>1. \A u, v \in 1..C : u < v => cs[u][1] < cs[v][1]
          BY DEF Folded
        <5>2. ~(o < l)
          <6>1. cs[l][1] \in Nat /\ cs[o][1] \in Nat /\ cs[l][1] < cs[o][1]
            BY <3>1, <3>2, <1>2
          <6>2. QED
            BY <6>1, <5>1, <3>1, <2>3
        <5>3. QED
          BY <5>2, <4>1, <3>1, <2>3
      <4>3. SameCrossing(cs[l][1], i)
        BY <3>1, <3>2, <2>6
      <4>4. Len(cs[l]) = 2
        <5>1. Len(cs[l]) # 1
          BY <4>2, <4>3, <3>1, <2>3
        <5>2. QED
          BY <5>1, <3>1, <1>2
      <4>5. QED
        BY <4>1, <4>4, <3>1, <3>2, <1>2, <2>6
    <3>3. CASE k # o
      <4>1. fs[k] = cs[k]
        BY <3>1, <3>3, <2>6
      <4>2. Len(cs[l]) = 2 /\ cs[l][2] < cs[k][2]
        BY <3>1, <4>1 DEF Folded
      <4>3. l # o
        BY <4>2, <2>3
      <4>4. QED
        BY <4>1, <4>2, <4>3, <3>1, <2>6
    <3>4. QED
      BY <3>2, <3>3
  <2>13. QED
    BY <2>6, <2>8, <2>9, <2>10, <2>11, <2>12 DEF Folded, fs, i
<1>6. QED
  BY <1>4, <1>5


LEMMA CollapseFolds ==
    ASSUME NEW S \in SUBSET Nat, NEW leaves \in Seq(S), Increasing(leaves)
    PROVE  Folded(Collapse(leaves), leaves, Len(leaves))
<1> DEFINE L == Len(leaves)
<1>1. L \in Nat /\ IsSeq(leaves)
  BY SeqIs
<1>2. PICK walk : /\ walk[0] = << >>
                  /\ \A n \in 1..L : walk[n] = Fold(walk[n - 1], leaves[n])
                  /\ Collapse(leaves) = walk[L]
  BY <1>1, CollapseWalks
<1> DEFINE T == {n \in 0..L : ~Folded(walk[n], leaves, n)}
<1>3. T = {}
  <2> SUFFICES ASSUME T # {} PROVE FALSE
    OBVIOUS
  <2>1. T \in SUBSET Nat
    BY <1>1
  <2>2. PICK m \in T : \A j \in T : m <= j
    BY <2>1, LeastIs
  <2>3. m \in 0..L /\ m \in Nat /\ ~Folded(walk[m], leaves, m)
    BY <1>1
  <2>4. m # 0
    <3>1. 1..0 = {}
      OBVIOUS
    <3>2. IsSeq(<< >>) /\ Len(<< >>) = 0
      BY EmptyIs
    <3>3. Folded(<< >>, leaves, 0)
      BY <3>1, <3>2 DEF Folded
    <3>4. QED
      BY <3>3, <2>3, <1>2
  <2>5. m - 1 \in 0..(L - 1) /\ m - 1 \in 0..L /\ m \in 1..L
    BY <1>1, <2>3, <2>4
  <2>6. Folded(walk[m - 1], leaves, m - 1)
    <3>1. ~(m <= m - 1)
      BY <2>3
    <3>2. m - 1 \notin T
      BY <3>1, <2>2
    <3>3. QED
      BY <3>2, <2>5
  <2> HIDE DEF T
  <2>7. (m - 1) + 1 = m
    BY <2>3
  <2>8. Folded(Fold(walk[m - 1], leaves[(m - 1) + 1]), leaves, (m - 1) + 1)
    BY <2>5, <2>6, FoldGoesOn
  <2>9. Folded(walk[m], leaves, m)
    BY <2>5, <2>7, <2>8, <1>2
  <2>10. QED
    BY <2>3, <2>9
<1>4. L \in 0..L
  BY <1>1
<1>5. QED
  BY <1>2, <1>3, <1>4

\* Folded over a whole run, in the words of CrossingsKeepReceipts.
LEMMA FoldedKeeps ==
    ASSUME NEW S \in SUBSET Nat, NEW leaves \in Seq(S), NEW cs, Folded(cs, leaves, Len(leaves)),
           {leaves[n] : n \in DOMAIN leaves} = S
    PROVE  LET places == UNION {{k} \X DOMAIN cs[k] : k \in DOMAIN cs}
               At(p) == cs[p[1]][p[2]]
               Pairs == {c \in ToSet(cs) : Len(c) > 1}
           IN  /\ {At(p) : p \in places} = S
               /\ \A p, q \in places : At(p) = At(q) => p = q
               /\ Increasing([k \in DOMAIN cs |-> cs[k][1]])
               /\ \A c \in Pairs : Len(c) = 2 /\ c[1] < c[2] /\ SameCrossing(c[1], c[2])
               /\ \A e \in Pairs : \A c \in ToSet(cs) :
                     SameCrossing(c[1], e[2]) /\ c[1] < e[1] => Len(c) = 2 /\ c[2] < e[2]
<1> DEFINE places == UNION {{k} \X DOMAIN cs[k] : k \in DOMAIN cs}
           At(p) == cs[p[1]][p[2]]
           Pairs == {c \in ToSet(cs) : Len(c) > 1}
           C == Len(cs)
           L == Len(leaves)
<1>1. /\ L \in Nat /\ DOMAIN leaves = 1..L
      /\ IsSeq(cs) /\ C \in Nat /\ DOMAIN cs = 1..C
  <2>1. IsSeq(cs)
    BY DEF Folded
  <2>2. QED
    BY <2>1, IsSeqHas
<1>2. \A k \in 1..C : /\ DOMAIN cs[k] = 1..Len(cs[k]) /\ Len(cs[k]) \in {1, 2}
                      /\ Len(cs[k]) = 2 => cs[k][1] < cs[k][2] /\ SameCrossing(cs[k][1], cs[k][2])
  <2>1. \A k \in 1..C : IsSeq(cs[k])
    BY DEF Folded
  <2>2. \A k \in 1..C : DOMAIN cs[k] = 1..Len(cs[k])
    BY <2>1, IsSeqHas
  <2>3. \A k \in 1..C : /\ Len(cs[k]) \in {1, 2}
                        /\ Len(cs[k]) = 2 => cs[k][1] < cs[k][2] /\ SameCrossing(cs[k][1], cs[k][2])
    BY DEF Folded
  <2>4. QED
    BY <2>2, <2>3
<1>3. ASSUME NEW p \in places
      PROVE  p = <<p[1], p[2]>> /\ p[1] \in 1..C /\ p[2] \in 1..Len(cs[p[1]])
  <2>1. PICK k \in DOMAIN cs : p \in {k} \X DOMAIN cs[k]
    OBVIOUS
  <2>2. QED
    BY <2>1, <1>1, <1>2
<1>4. ASSUME NEW k \in 1..C, NEW m \in 1..Len(cs[k])
      PROVE  <<k, m>> \in places /\ At(<<k, m>>) = cs[k][m]
  BY <1>1, <1>2
<1>5. \A c \in ToSet(cs) : \E k \in 1..C : c = cs[k]
  BY <1>1 DEF ToSet
<1>6. \A c \in Pairs : c \in ToSet(cs) /\ Len(c) = 2
  <2> TAKE c \in Pairs
  <2>1. PICK k \in 1..C : c = cs[k]
    BY <1>5
  <2>2. c \in ToSet(cs) /\ Len(c) > 1 /\ (Len(c) = 1 \/ Len(c) = 2)
    BY <2>1, <1>2
  <2>3. ~(1 > 1)
    OBVIOUS
  <2>4. QED
    BY <2>2, <2>3
<1> HIDE DEF places, Pairs
<1>7. {At(p) : p \in places} = S
  <2>1. ASSUME NEW p \in places PROVE At(p) \in S
    <3>1. PICK j \in 1..L : cs[p[1]][p[2]] = leaves[j]
      <4>1. \A k \in 1..C : \A m \in 1..Len(cs[k]) : \E i \in 1..L : cs[k][m] = leaves[i]
        BY DEF Folded
      <4>2. QED
        BY <1>3, <4>1
    <3>2. QED
      BY <3>1, <1>1
  <2>2. ASSUME NEW x \in S PROVE \E p \in places : x = At(p)
    <3>1. PICK j \in 1..L : x = leaves[j]
      BY <1>1
    <3>2. PICK k \in 1..C : \E m \in 1..Len(cs[k]) : cs[k][m] = leaves[j]
      BY DEF Folded
    <3>3. PICK m \in 1..Len(cs[k]) : cs[k][m] = leaves[j]
      BY <3>2
    <3>4. QED
      BY <3>1, <3>3, <1>4
  <2>3. QED
    BY <2>1, <2>2
<1>8. ASSUME NEW p \in places, NEW q \in places, At(p) = At(q) PROVE p = q
  <2>1. p[1] = q[1] /\ p[2] = q[2]
    <3>1. \A k, l \in 1..C : \A m \in 1..Len(cs[k]), h \in 1..Len(cs[l]) :
             cs[k][m] = cs[l][h] => k = l /\ m = h
      BY DEF Folded
    <3>2. QED
      BY <3>1, <1>3, <1>8
  <2>2. QED
    BY <2>1, <1>3
<1>9. Increasing([k \in DOMAIN cs |-> cs[k][1]])
  <2>1. \A k, l \in 1..C : k < l => cs[k][1] < cs[l][1]
    BY DEF Folded
  <2>2. QED
    BY <2>1, <1>1 DEF Increasing
<1>10. \A c \in Pairs : Len(c) = 2 /\ c[1] < c[2] /\ SameCrossing(c[1], c[2])
  BY <1>2, <1>5, <1>6
<1>11. \A e \in Pairs : \A c \in ToSet(cs) :
          SameCrossing(c[1], e[2]) /\ c[1] < e[1] => Len(c) = 2 /\ c[2] < e[2]
  <2>1. \A k, l \in 1..C : /\ Len(cs[k]) = 2
                           /\ SameCrossing(cs[l][1], cs[k][2])
                           /\ cs[l][1] < cs[k][1]
                           => Len(cs[l]) = 2 /\ cs[l][2] < cs[k][2]
    BY DEF Folded
  <2>2. QED
    BY <2>1, <1>5, <1>6
<1>12. QED
  <2> DEFINE Goal == /\ {At(p) : p \in places} = S
                     /\ \A p, q \in places : At(p) = At(q) => p = q
                     /\ Increasing([k \in DOMAIN cs |-> cs[k][1]])
                     /\ \A c \in Pairs : Len(c) = 2 /\ c[1] < c[2] /\ SameCrossing(c[1], c[2])
                     /\ \A e \in Pairs : \A c \in ToSet(cs) :
                           SameCrossing(c[1], e[2]) /\ c[1] < e[1] => Len(c) = 2 /\ c[2] < e[2]
  <2>1. Goal
    BY <1>7, <1>8, <1>9, <1>10, <1>11
  <2>2. QED
    BY <2>1 DEF places, Pairs

-----------------------------------------------------------------------------
(* The log and its index: leaves are only added, and only Follow's backlog is
   not indexed. *)

Events == {"late", "again", "touches", "rehydrates", "reconstructs", "lists"}
Indexed ==
    /\ cast \in Casts
    /\ IsSeq(log) /\ \A i \in 1..Len(log) : log[i].call \in DOMAIN Catalogue
    /\ rows \subseteq 1..Len(log)
    /\ asked \in [Events -> Nat]
    /\ asked.late = 0 => rows = 1..Len(log)
Grows ==
    /\ Len(log) <= Len(log') /\ \A i \in 1..Len(log) : log'[i] = log[i]
    /\ rows \subseteq rows' /\ (asked'.late = 0 => asked.late = 0)

\* The steps, by what they do to the log, the index and the counters.
LEMMA NextIndexes ==
    ASSUME NEW w \in Events, Next
    PROVE  \/ \E n \in DOMAIN cast.leaves : \E leaf \in cast.leaves[n] : Record(leaf[1], leaf[2])
           \/ \E i \in DOMAIN log : Redeliver(i)
           \/ Follow
           \/ /\ UNCHANGED <<cast, log, rows>>
              /\ \/ UNCHANGED asked
                 \/ \E what \in Events \ {"late"} : Asked(what)
<1>1. CASE \E n \in DOMAIN cast.leaves : \E leaf \in cast.leaves[n] :
              n = Recorded + 1 /\ Record(leaf[1], leaf[2])
  BY <1>1
<1>2. CASE \E c \in Contents : \E held \in Contents \cup {"absent", "denied"} : Touch(c, held)
  BY <1>2 DEF Touch, Events
<1>3. CASE \E run \in RunNames : \E onward \in BOOLEAN : OpenRehydrate(run, onward)
  BY <1>3 DEF OpenRehydrate, Events
<1>4. CASE EmitLine \/ CloseRehydrate
  BY <1>4 DEF EmitLine, CloseRehydrate
<1>5. CASE \E run \in RunNames : Reconstruct(run)
  BY <1>5 DEF Reconstruct, Events
<1>6. CASE OpenListing
  BY <1>6 DEF OpenListing, Events
<1>7. CASE ListRun \/ CloseListing
  BY <1>7 DEF ListRun, CloseListing
<1>8. CASE \E runs \in cast.pages : BuildPage(runs)
  BY <1>8 DEF BuildPage
<1>9. CASE Done
  BY <1>9 DEF Done, vars
<1>10. QED
  BY <1>1, <1>2, <1>3, <1>4, <1>5, <1>6, <1>7, <1>8, <1>9 DEF Next

LEMMA IndexedFirst == Init => Indexed
<1> SUFFICES ASSUME Init PROVE Indexed
  OBVIOUS
<1>1. log = << >> /\ rows = {} /\ cast \in Casts /\ asked \in [Events -> Nat]
  BY DEF Init, Events
<1>2. IsSeq(log) /\ Len(log) = 0 /\ 1..0 = {}
  BY <1>1, EmptyIs
<1>3. QED
  BY <1>1, <1>2 DEF Indexed

LEMMA IndexedKept ==
    ASSUME Indexed, [Next]_vars
    PROVE  Indexed' /\ Grows
<1> DEFINE L == Len(log)
<1>1. /\ cast \in Casts /\ IsSeq(log) /\ L \in Nat /\ DOMAIN log = 1..L
      /\ \A i \in 1..L : log[i].call \in DOMAIN Catalogue
      /\ rows \subseteq 1..L /\ asked \in [Events -> Nat]
      /\ asked.late = 0 => rows = 1..L
  BY IsSeqHas DEF Indexed
<1>2. 1..(L + 1) = 1..L \cup {L + 1} /\ L <= L + 1
  BY <1>1
<1>3. ASSUME NEW x, log' = Append(log, x), x.call \in DOMAIN Catalogue
      PROVE  /\ IsSeq(log') /\ Len(log') = L + 1 /\ \A i \in 1..L : log'[i] = log[i]
             /\ \A i \in 1..(L + 1) : log'[i].call \in DOMAIN Catalogue
  <2>1. /\ IsSeq(log') /\ Len(log') = L + 1 /\ log'[L + 1] = x
        /\ \A i \in 1..L : log'[i] = log[i]
    BY <1>1, <1>3, AppendIs
  <2>2. QED
    BY <2>1, <1>1, <1>2, <1>3
<1>4. ASSUME NEW what \in Events, Asked(what)
      PROVE  asked' \in [Events -> Nat] /\ (what # "late" => asked'.late = asked.late) /\ asked'[what] # 0
  BY <1>1, <1>4 DEF Asked, Events
<1>5. ASSUME NEW n \in DOMAIN cast.leaves, NEW leaf \in cast.leaves[n], Record(leaf[1], leaf[2])
      PROVE  Indexed' /\ Grows
  <2>1. leaf[2] \in DOMAIN Catalogue
    <3>1. cast.leaves \in Seq(SUBSET (STRING \X DOMAIN Catalogue))
      BY <1>1, ReadingAssumption DEF Cast
    <3>2. leaf \in STRING \X DOMAIN Catalogue
      BY <3>1
    <3>3. QED
      BY <3>2
  <2> DEFINE x == [run |-> leaf[1], call |-> leaf[2], id |-> Recorded + 1, key |-> StepKey(leaf[1], leaf[2])]
  <2>2. x.call \in DOMAIN Catalogue
    BY <2>1
  <2>3. log' = Append(log, x) /\ cast' = cast
    BY <1>5 DEF Record
  <2> HIDE DEF x
  <2>4. /\ IsSeq(log') /\ Len(log') = L + 1 /\ \A i \in 1..L : log'[i] = log[i]
        /\ \A i \in 1..(L + 1) : log'[i].call \in DOMAIN Catalogue
    BY <2>2, <2>3, <1>3
  <2>5. CASE rows' = rows \cup {L + 1} /\ UNCHANGED asked
    BY <2>3, <2>4, <2>5, <1>1, <1>2 DEF Indexed, Grows
  <2>6. CASE Asked("late") /\ UNCHANGED rows
    <3>1. asked' \in [Events -> Nat] /\ asked'.late # 0
      BY <2>6, <1>4 DEF Events
    <3>2. QED
      BY <2>3, <2>4, <2>6, <3>1, <1>1, <1>2 DEF Indexed, Grows
  <2>7. QED
    BY <2>5, <2>6, <1>5 DEF Record
<1>6. ASSUME NEW i \in DOMAIN log, Redeliver(i) PROVE Indexed' /\ Grows
  <2>1. /\ log' = Append(log, log[i]) /\ rows' = rows \cup {L + 1} /\ cast' = cast /\ Asked("again")
        /\ log[i].call \in DOMAIN Catalogue
    BY <1>1, <1>6 DEF Redeliver
  <2>2. /\ IsSeq(log') /\ Len(log') = L + 1 /\ \A k \in 1..L : log'[k] = log[k]
        /\ \A k \in 1..(L + 1) : log'[k].call \in DOMAIN Catalogue
    BY <2>1, <1>3
  <2>3. asked' \in [Events -> Nat] /\ asked'.late = asked.late
    BY <2>1, <1>4 DEF Events
  <2>4. QED
    BY <2>1, <2>2, <2>3, <1>1, <1>2 DEF Indexed, Grows
<1>7. CASE Follow
  BY <1>1, <1>7 DEF Follow, Indexed, Grows
<1>8. CASE UNCHANGED <<cast, log, rows>> /\ UNCHANGED asked
  BY <1>1, <1>8 DEF Indexed, Grows
<1>9. ASSUME UNCHANGED <<cast, log, rows>>, NEW what \in Events \ {"late"}, Asked(what)
      PROVE  Indexed' /\ Grows
  <2>1. asked' \in [Events -> Nat] /\ asked'.late = asked.late
    BY <1>9, <1>4
  <2>2. QED
    BY <2>1, <1>1, <1>9 DEF Indexed, Grows
<1>10. CASE Next
  BY <1>5, <1>6, <1>7, <1>8, <1>9, <1>10, NextIndexes DEF Events
<1>11. CASE UNCHANGED vars
  BY <1>8, <1>11 DEF vars
<1>12. QED
  BY <1>10, <1>11

LEMMA IndexedHolds == Spec => []Indexed
<1>1. Indexed /\ [Next]_vars => Indexed'
  BY IndexedKept
<1>2. QED
  BY IndexedFirst, <1>1, PTL DEF Spec

-----------------------------------------------------------------------------
(* The leaves of a run, and the rows a reader asks for. *)

LEMMA LeavesAre ==
    ASSUME Indexed, NEW run
    PROVE  /\ RunLeaves(run) \in SUBSET Nat /\ IsFiniteSet(RunLeaves(run))
           /\ RunLeaves(run) \subseteq rows /\ \A i \in RunLeaves(run) : i > 0
<1>1. Len(log) \in Nat /\ rows \subseteq 1..Len(log)
  BY IsSeqHas DEF Indexed
<1>2. IsFiniteSet(1..Len(log))
  BY <1>1, FS_Interval
<1>3. RunLeaves(run) \subseteq rows
  BY DEF RunLeaves
<1>4. RunLeaves(run) \subseteq 1..Len(log)
  BY <1>1, <1>3
<1> HIDE DEF RunLeaves
<1>5. IsFiniteSet(RunLeaves(run))
  BY <1>2, <1>4, FS_Subset
<1>6. \A i \in 1..Len(log) : i \in Nat /\ i > 0
  BY <1>1
<1>7. QED
  BY <1>3, <1>4, <1>5, <1>6

(* However the two surfaces' receipts of a run interleave in the log, the
   collapse keeps each exactly once and pairs like calls oldest with oldest:
   for every catalogue, name rewriting and bound (Collapse). *)
THEOREM CrossingsHold == Spec => []CrossingsKeepReceipts
<1>1. ASSUME Indexed PROVE CrossingsKeepReceipts
  <2> SUFFICES ASSUME NEW run \in RunNames, NEW cs \in {Collapse(RunRows(run))}
               PROVE  LET places == UNION {{k} \X DOMAIN cs[k] : k \in DOMAIN cs}
                          At(p) == cs[p[1]][p[2]]
                          Pairs == {c \in ToSet(cs) : Len(c) > 1}
                      IN  /\ {At(p) : p \in places} = RunLeaves(run)
                          /\ \A p, q \in places : At(p) = At(q) => p = q
                          /\ Increasing([k \in DOMAIN cs |-> cs[k][1]])
                          /\ \A c \in Pairs : Len(c) = 2 /\ c[1] < c[2] /\ SameCrossing(c[1], c[2])
                          /\ \A e \in Pairs : \A c \in ToSet(cs) :
                                SameCrossing(c[1], e[2]) /\ c[1] < e[1] => Len(c) = 2 /\ c[2] < e[2]
    BY DEF CrossingsKeepReceipts
  <2> DEFINE S == RunLeaves(run)
             leaves == RunRows(run)
  <2>1. S \in SUBSET Nat /\ IsFiniteSet(S)
    BY <1>1, LeavesAre
  <2>2. leaves = ByIndex(S)
    BY DEF RunRows
  <2> HIDE DEF S, leaves
  <2>3. /\ leaves \in Seq(S) /\ Increasing(leaves)
        /\ {leaves[n] : n \in DOMAIN leaves} = S
    <3>1. IsSeq(leaves) /\ {leaves[n] : n \in DOMAIN leaves} = S /\ Increasing(leaves)
      BY <2>1, <2>2, ByIndexLists
    <3>2. QED
      BY <3>1 DEF IsSeq
  <2>4. Folded(Collapse(leaves), leaves, Len(leaves))
    BY <2>1, <2>3, CollapseFolds
  <2>5. cs = Collapse(leaves)
    BY DEF leaves
  <2>6. Folded(cs, leaves, Len(leaves))
    BY <2>4, <2>5
  <2>7. LET places == UNION {{k} \X DOMAIN cs[k] : k \in DOMAIN cs}
            At(p) == cs[p[1]][p[2]]
            Pairs == {c \in ToSet(cs) : Len(c) > 1}
        IN  /\ {At(p) : p \in places} = S
            /\ \A p, q \in places : At(p) = At(q) => p = q
            /\ Increasing([k \in DOMAIN cs |-> cs[k][1]])
            /\ \A c \in Pairs : Len(c) = 2 /\ c[1] < c[2] /\ SameCrossing(c[1], c[2])
            /\ \A e \in Pairs : \A c \in ToSet(cs) :
                  SameCrossing(c[1], e[2]) /\ c[1] < e[1] => Len(c) = 2 /\ c[2] < e[2]
    BY <2>1, <2>3, <2>6, FoldedKeeps, SMTT(20)
  <2>8. QED
    BY <2>7 DEF S
<1>2. QED
  BY <1>1, IndexedHolds, PTL

\* The order of a run's leaves, and so the place of each, stays while nothing
\* is left to Follow.
LEMMA PlacesStay ==
    ASSUME Indexed, Indexed', Grows, asked'.late = 0, NEW run, NEW i \in RunLeaves(run)
    PROVE  /\ i \in RunLeaves(run)'
           /\ {j \in RunLeaves(run)' : j < i} = {j \in RunLeaves(run) : j < i}
<1> DEFINE L == Len(log)
<1>1. /\ L \in Nat /\ Len(log') \in Nat /\ L <= Len(log')
      /\ rows = 1..L /\ rows' = 1..Len(log') /\ \A j \in 1..L : log'[j] = log[j]
  BY IsSeqHas DEF Indexed, Grows
<1>2. \A j \in rows : j \in rows' /\ log'[j] = log[j] /\ j \in Nat
  BY <1>1
<1>3. \A j \in rows, m \in rows' : m \in rows \/ m >= j
  BY <1>1
<1>4. ASSUME NEW j \in rows PROVE Canonical(j)' <=> Canonical(j)
  <2>1. Canonical(j)' <=> \A m \in rows' : log'[m].id = log'[j].id => m >= j
    BY <1>2 DEF Canonical
  <2>2. Canonical(j) <=> \A m \in rows : log[m].id = log[j].id => m >= j
    BY DEF Canonical
  <2>3. QED
    BY <2>1, <2>2, <1>2, <1>3
<1>5. ASSUME NEW j \in rows PROVE j \in RunLeaves(run)' <=> j \in RunLeaves(run)
  BY <1>2, <1>4 DEF RunLeaves
<1>6. i \in rows /\ RunLeaves(run) \subseteq rows /\ RunLeaves(run)' \subseteq rows'
  BY DEF RunLeaves
<1>7. ASSUME NEW j \in rows', j < i PROVE j \in rows
  BY <1>1, <1>6, <1>7
<1>8. QED
  BY <1>5, <1>6, <1>7

\* The rows after a cursor: those of the run above it, in order, each at the
\* step that is its place in the run.
NumberedFrom(t, run, after) ==
    /\ IsSeq(t)
    /\ \A k \in 1..Len(t) :
          /\ t[k].at \in RunLeaves(run) /\ t[k].at > after
          /\ t[k].step = Cardinality({j \in RunLeaves(run) : j < t[k].at})
    /\ \A a, b \in 1..Len(t) : a < b => t[a].at < t[b].at
    /\ \A x \in RunLeaves(run) : x > after => \E k \in 1..Len(t) : t[k].at = x

LEMMA NumberedAre ==
    ASSUME Indexed, NEW run, NEW after \in Nat
    PROVE  NumberedFrom(Numbered(run, after), run, after)
<1> DEFINE T == {i \in RunLeaves(run) : i > after}
           left == ByIndex(T)
           t == Numbered(run, after)
<1>1. /\ RunLeaves(run) \in SUBSET Nat /\ IsFiniteSet(RunLeaves(run))
      /\ \A i \in RunLeaves(run) : log[i].run = run
  BY LeavesAre DEF RunLeaves
<1>2. T \in SUBSET Nat /\ IsFiniteSet(T)
  <2>1. T \subseteq RunLeaves(run)
    OBVIOUS
  <2>2. QED
    BY <1>1, <2>1, FS_Subset
<1>3. t = [k \in DOMAIN left |-> [at |-> left[k], step |-> Address(left[k])[2]]]
  BY DEF Numbered, RowsAfter
<1>4. \A x \in T : x \in RunLeaves(run) /\ x > after
  OBVIOUS
<1>5. \A x \in RunLeaves(run) : x > after => x \in T
  OBVIOUS
<1> HIDE DEF T, left, t
<1>6. /\ IsSeq(left) /\ Len(left) \in Nat /\ DOMAIN left = 1..Len(left)
      /\ {left[k] : k \in DOMAIN left} = T /\ Increasing(left)
  BY <1>2, ByIndexLists, IsSeqHas DEF left
<1>7. IsSeq(t) /\ Len(t) = Len(left)
  <2>1. t \in Seq({t[k] : k \in DOMAIN t}) /\ Len(t) = Len(left)
    BY <1>3, <1>6
  <2>2. QED
    BY <2>1 DEF IsSeq
<1>8. ASSUME NEW k \in 1..Len(t)
      PROVE  /\ t[k].at = left[k] /\ t[k].at \in T
             /\ t[k].step = Cardinality({j \in RunLeaves(run) : j < t[k].at})
  <2>1. t[k] = [at |-> left[k], step |-> Address(left[k])[2]] /\ left[k] \in T
    BY <1>3, <1>6, <1>7
  <2>2. log[left[k]].run = run
    BY <2>1, <1>1, <1>4
  <2>3. Address(left[k])[2] = Cardinality({j \in RunLeaves(run) : j < left[k]})
    BY <2>2 DEF Address
  <2>4. QED
    BY <2>1, <2>3
<1>9. \A a, b \in 1..Len(t) : a < b => t[a].at < t[b].at
  BY <1>6, <1>7, <1>8 DEF Increasing
<1>10. \A x \in T : \E k \in 1..Len(t) : t[k].at = x
  BY <1>6, <1>7, <1>8
<1>11. NumberedFrom(t, run, after)
  BY <1>4, <1>5, <1>7, <1>8, <1>9, <1>10 DEF NumberedFrom
<1>12. QED
  BY <1>11 DEF t

-----------------------------------------------------------------------------
(* The pages of `rehydrate`: the lines written and the rows still to write are
   one ascending list, in which what the first page saw is. *)

Placed(x) ==
    /\ x.at \in RunLeaves(read.run)
    /\ x.step = Cardinality({j \in RunLeaves(read.run) : j < x.at})
Paged ==
    /\ DOMAIN read = {"live", "run", "todo", "erased", "known", "first", "lines", "findings"}
    /\ IsSeq(read.lines) /\ IsSeq(read.todo)
    /\ \A k \in 1..Len(read.lines) : read.lines[k].at \in rows
    /\ \A k \in 1..Len(read.todo) : read.todo[k].at \in rows
    /\ \A a, b \in 1..Len(read.lines) : a < b => read.lines[a].at < read.lines[b].at
    /\ \A a, b \in 1..Len(read.todo) : a < b => read.todo[a].at < read.todo[b].at
    /\ \A a \in 1..Len(read.lines), b \in 1..Len(read.todo) : read.lines[a].at < read.todo[b].at
    /\ \A x \in ToSet(read.first) : \/ \E k \in 1..Len(read.lines) : read.lines[k].at = x
                                    \/ \E k \in 1..Len(read.todo) : read.todo[k].at = x
    /\ ~read.live => read.todo = << >>
    /\ asked.late = 0 => /\ \A k \in 1..Len(read.lines) : Placed(read.lines[k])
                         /\ \A k \in 1..Len(read.todo) : Placed(read.todo[k])

LEMMA NextReads ==
    ASSUME Next
    PROVE  \/ UNCHANGED read
           \/ \E run, onward : OpenRehydrate(run, onward)
           \/ EmitLine
           \/ CloseRehydrate
<1>1. CASE \E n \in DOMAIN cast.leaves : \E leaf \in cast.leaves[n] :
              n = Recorded + 1 /\ Record(leaf[1], leaf[2])
  BY <1>1 DEF Record
<1>2. CASE \E i \in DOMAIN log : Redeliver(i)
  BY <1>2 DEF Redeliver
<1>3. CASE Follow
  BY <1>3 DEF Follow
<1>4. CASE \E c \in Contents : \E held \in Contents \cup {"absent", "denied"} : Touch(c, held)
  BY <1>4 DEF Touch
<1>5. CASE \E run \in RunNames : Reconstruct(run)
  BY <1>5 DEF Reconstruct
<1>6. CASE OpenListing \/ ListRun \/ CloseListing
  BY <1>6 DEF OpenListing, ListRun, CloseListing
<1>7. CASE \E runs \in cast.pages : BuildPage(runs)
  BY <1>7 DEF BuildPage
<1>8. CASE Done
  BY <1>8 DEF Done, vars
<1>9. QED
  BY <1>1, <1>2, <1>3, <1>4, <1>5, <1>6, <1>7, <1>8 DEF Next

LEMMA PagedFirst == Init => Paged
<1> SUFFICES ASSUME Init PROVE Paged
  OBVIOUS
<1>1. /\ DOMAIN read = {"live", "run", "todo", "erased", "known", "first", "lines", "findings"}
      /\ read.lines = << >> /\ read.todo = << >> /\ read.first = << >>
  BY DEF Init
<1>2. IsSeq(<< >>) /\ Len(<< >>) = 0 /\ DOMAIN << >> = {} /\ 1..0 = {}
  BY EmptyIs
<1>3. ToSet(read.first) = {}
  BY <1>1, <1>2 DEF ToSet
<1>4. QED
  BY <1>1, <1>2, <1>3 DEF Paged

LEMMA PagedKept ==
    ASSUME Indexed, Indexed', Grows, Paged, [Next]_vars
    PROVE  Paged'
<1> DEFINE M == Len(read.lines)
           N == Len(read.todo)
           PlacedNext(x) == /\ x.at \in RunLeaves(read.run)'
                            /\ x.step = Cardinality({j \in RunLeaves(read.run)' : j < x.at})
<1>1. /\ DOMAIN read = {"live", "run", "todo", "erased", "known", "first", "lines", "findings"}
      /\ IsSeq(read.lines) /\ IsSeq(read.todo) /\ M \in Nat /\ N \in Nat
      /\ DOMAIN read.lines = 1..M /\ DOMAIN read.todo = 1..N
      /\ rows \subseteq rows' /\ rows \subseteq Nat
  <2>1. IsSeq(read.lines) /\ IsSeq(read.todo) /\ rows \subseteq rows' /\ rows \subseteq 1..Len(log)
    BY DEF Paged, Grows, Indexed
  <2>2. Len(log) \in Nat
    BY IsSeqHas DEF Indexed
  <2>3. rows \subseteq Nat
    BY <2>1, <2>2
  <2>4. QED
    BY <2>1, <2>3, IsSeqHas DEF Paged
\* What has its place keeps it.
<1>2. ASSUME asked'.late = 0, NEW x, Placed(x), read'.run = read.run
      PROVE  PlacedNext(x)
  <2>1. PICK run : run = read.run
    OBVIOUS
  <2>2. x.at \in RunLeaves(run) /\ x.step = Cardinality({j \in RunLeaves(run) : j < x.at})
    BY <1>2, <2>1 DEF Placed
  <2>3. /\ x.at \in RunLeaves(run)'
        /\ {j \in RunLeaves(run)' : j < x.at} = {j \in RunLeaves(run) : j < x.at}
    BY <1>2, <2>2, PlacesStay
  <2>4. RunLeaves(read.run)' = RunLeaves(run)'
    BY <1>2, <2>1 DEF RunLeaves
  <2>5. QED
    BY <2>2, <2>3, <2>4
<1>3. ASSUME DOMAIN read' = DOMAIN read, read'.run = read.run, read'.first = read.first,
             read'.lines = read.lines, read'.todo = read.todo, ~read'.live => read.todo = << >>
      PROVE  Paged'
  <2>1. asked'.late = 0 => /\ \A k \in 1..M : PlacedNext(read.lines[k])
                           /\ \A k \in 1..N : PlacedNext(read.todo[k])
    <3> HIDE DEF PlacedNext
    <3>1. QED
      BY <1>2, <1>3 DEF Paged, Grows
  <2>2. /\ \A k \in 1..M : read.lines[k].at \in rows'
        /\ \A k \in 1..N : read.todo[k].at \in rows'
    BY <1>1 DEF Paged
  <2>3. asked'.late = 0 => /\ \A k \in 1..Len(read'.lines) : Placed(read.lines[k])'
                           /\ \A k \in 1..Len(read'.todo) : Placed(read.todo[k])'
    BY <1>3, <2>1 DEF Placed
  <2>4. \A x \in ToSet(read'.first) : \/ \E k \in 1..Len(read'.lines) : read'.lines[k].at = x
                                      \/ \E k \in 1..Len(read'.todo) : read'.todo[k].at = x
    BY <1>3 DEF Paged
  <2>5. /\ \A a, b \in 1..Len(read'.lines) : a < b => read'.lines[a].at < read'.lines[b].at
        /\ \A a, b \in 1..Len(read'.todo) : a < b => read'.todo[a].at < read'.todo[b].at
        /\ \A a \in 1..Len(read'.lines), b \in 1..Len(read'.todo) : read'.lines[a].at < read'.todo[b].at
    BY <1>3 DEF Paged
  <2>6. QED
    BY <1>1, <1>3, <2>2, <2>3, <2>4, <2>5 DEF Paged
<1>4. CASE CloseRehydrate
  BY <1>1, <1>3, <1>4 DEF CloseRehydrate
<1>5. CASE EmitLine
  <2> DEFINE row == Head(read.todo)
             slots == Resolve(row.at, read.erased)
             line == [at |-> row.at, step |-> row.step, slots |-> slots]
  <2>1. /\ read.live /\ read.todo # << >> /\ UNCHANGED <<rows, log, asked>>
        /\ read'.live = read.live /\ read'.run = read.run /\ read'.first = read.first
        /\ read'.todo = Tail(read.todo) /\ read'.lines = Append(read.lines, line)
        /\ DOMAIN read' = DOMAIN read
    BY <1>1, <1>5 DEF EmitLine
  <2>2. /\ row = read.todo[1] /\ N > 0 /\ IsSeq(read'.todo) /\ Len(read'.todo) = N - 1
        /\ \A k \in 1..(N - 1) : read'.todo[k] = read.todo[k + 1]
    BY <1>1, <2>1, TailIs
  <2>3. line.at = row.at /\ line.step = row.step
    OBVIOUS
  <2> HIDE DEF line, row
  <2>4. /\ IsSeq(read'.lines) /\ Len(read'.lines) = M + 1 /\ read'.lines[M + 1] = line
        /\ \A k \in 1..M : read'.lines[k] = read.lines[k]
    BY <1>1, <2>1, AppendIs
  <2>5. /\ 1 \in 1..N /\ \A k \in 1..(N - 1) : k + 1 \in 1..N /\ 1 < k + 1
        /\ \A k \in 1..N : k = 1 \/ (k - 1 \in 1..(N - 1) /\ (k - 1) + 1 = k)
        /\ \A k \in 1..(M + 1) : k = M + 1 \/ k \in 1..M
        /\ M + 1 \in 1..(M + 1) /\ \A k \in 1..M : k \in 1..(M + 1)
    <3>1. M \in Nat /\ N \in Nat /\ N > 0
      BY <1>1, <2>2
    <3> HIDE DEF M, N, slots
    <3>2. QED
      BY <3>1, ShiftedPlaces
  <2>6. row.at \in rows /\ \A k \in 1..(N - 1) : row.at < read'.todo[k].at
    BY <2>2, <2>5 DEF Paged
  <2>7. \A k \in 1..(M + 1) : read'.lines[k].at \in rows'
    BY <2>1, <2>3, <2>4, <2>5, <2>6 DEF Paged
  <2>8. \A k \in 1..(N - 1) : read'.todo[k].at \in rows'
    BY <2>1, <2>2, <2>5 DEF Paged
  <2>9. \A a, b \in 1..(M + 1) : a < b => read'.lines[a].at < read'.lines[b].at
    <3> TAKE a, b \in 1..(M + 1)
    <3> HAVE a < b
    <3>1. a \in 1..M
      BY <1>1, <2>5
    <3>2. CASE b \in 1..M
      BY <2>4, <3>1, <3>2 DEF Paged
    <3>3. CASE b = M + 1
      BY <2>2, <2>3, <2>4, <2>5, <3>1, <3>3 DEF Paged
    <3>4. QED
      BY <2>5, <3>2, <3>3
  <2>10. \A a, b \in 1..(N - 1) : a < b => read'.todo[a].at < read'.todo[b].at
    <3> TAKE a, b \in 1..(N - 1)
    <3> HAVE a < b
    <3>1. a + 1 < b + 1 /\ a + 1 \in 1..N /\ b + 1 \in 1..N
      BY <1>1, <2>5
    <3>2. QED
      BY <2>2, <3>1 DEF Paged
  <2>11. \A a \in 1..(M + 1), b \in 1..(N - 1) : read'.lines[a].at < read'.todo[b].at
    <3> TAKE a \in 1..(M + 1), b \in 1..(N - 1)
    <3>1. CASE a \in 1..M
      <4>1. read'.lines[a] = read.lines[a] /\ read'.todo[b] = read.todo[b + 1] /\ b + 1 \in 1..N
        BY <2>2, <2>4, <2>5, <3>1
      <4>2. read.lines[a].at < read.todo[b + 1].at
        BY <3>1, <4>1 DEF Paged
      <4>3. QED
        BY <4>1, <4>2
    <3>2. CASE a = M + 1
      BY <2>3, <2>4, <2>6, <3>2
    <3>3. QED
      BY <2>5, <3>1, <3>2
  <2>12. ASSUME NEW x \in ToSet(read'.first)
         PROVE  \/ \E k \in 1..(M + 1) : read'.lines[k].at = x
                \/ \E k \in 1..(N - 1) : read'.todo[k].at = x
    <3>1. CASE \E k \in 1..M : read.lines[k].at = x
      BY <2>4, <2>5, <3>1
    <3>2. ASSUME NEW k \in 1..N, read.todo[k].at = x
          PROVE  \/ \E h \in 1..(M + 1) : read'.lines[h].at = x
                 \/ \E h \in 1..(N - 1) : read'.todo[h].at = x
      <4>1. CASE k = 1
        BY <2>2, <2>3, <2>4, <2>5, <3>2, <4>1
      <4>2. CASE k - 1 \in 1..(N - 1) /\ (k - 1) + 1 = k
        BY <2>2, <3>2, <4>2
      <4>3. QED
        BY <2>5, <4>1, <4>2
    <3>3. QED
      BY <2>1, <3>1, <3>2 DEF Paged
  <2>13. ASSUME asked'.late = 0
         PROVE  /\ \A k \in 1..(M + 1) : PlacedNext(read'.lines[k])
                /\ \A k \in 1..(N - 1) : PlacedNext(read'.todo[k])
    <3>1. asked.late = 0
      BY <2>1, <2>13
    <3>2. /\ \A k \in 1..M : Placed(read.lines[k])
          /\ \A k \in 1..N : Placed(read.todo[k])
      BY <3>1 DEF Paged
    <3>3. Placed(line)
      BY <2>2, <2>3, <2>5, <3>2 DEF Placed
    <3>4. \A k \in 1..(M + 1) : Placed(read'.lines[k])
      BY <2>4, <2>5, <3>2, <3>3
    <3>5. \A k \in 1..(N - 1) : Placed(read'.todo[k])
      BY <2>2, <2>5, <3>2
    <3> HIDE DEF PlacedNext
    <3>6. QED
      BY <3>4, <3>5, <1>2, <2>1, <2>13
  <2>14. ~read'.live => read'.todo = << >>
    BY <2>1
  <2>15. QED
    BY <1>1, <2>1, <2>2, <2>4, <2>7, <2>8, <2>9, <2>10, <2>11, <2>12, <2>13, <2>14 DEF Paged, Placed
<1>6. ASSUME NEW run, NEW onward, OpenRehydrate(run, onward) PROVE Paged'
  <2> DEFINE goesOn == onward /\ read.run = run /\ read.lines # << >>
             after == IF goesOn THEN Last(read.lines).at ELSE 0
             t == Numbered(run, after)
  <2>1. /\ ~read.live /\ UNCHANGED <<rows, log>> /\ asked'.late = asked.late
        /\ DOMAIN read' = {"live", "run", "todo", "erased", "known", "first", "lines", "findings"}
        /\ read'.live /\ read'.run = run /\ read'.todo = t
        /\ read'.first = (IF goesOn THEN read.first ELSE RunRows(run))
        /\ read'.lines = (IF goesOn THEN read.lines ELSE << >>)
    <3>1. asked'.late = asked.late
      BY <1>6 DEF OpenRehydrate, Asked, Indexed, Events
    <3>2. QED
      BY <1>6, <3>1 DEF OpenRehydrate
  <2>2. N = 0 /\ 1..0 = {}
    BY <2>1, EmptyIs DEF Paged
  <2>3. goesOn => M \in 1..M /\ after = read.lines[M].at /\ after \in rows
    <3> HAVE goesOn
    <3>1. M # 0
      BY <1>1 DEF IsSeq
    <3>2. M \in 1..M
      BY <1>1, <3>1
    <3>3. QED
      BY <3>2 DEF Last, Paged
  <2>4. after \in Nat
    BY <1>1, <2>3
  <2> HIDE DEF after, goesOn
  <2>5. /\ IsSeq(t)
        /\ \A k \in 1..Len(t) :
              /\ t[k].at \in RunLeaves(run) /\ t[k].at > after
              /\ t[k].step = Cardinality({j \in RunLeaves(run) : j < t[k].at})
        /\ \A a, b \in 1..Len(t) : a < b => t[a].at < t[b].at
        /\ \A x \in RunLeaves(run) : x > after => \E k \in 1..Len(t) : t[k].at = x
    <3>1. NumberedFrom(t, run, after)
      BY <2>4, NumberedAre
    <3> HIDE DEF t
    <3>2. QED
      BY <3>1 DEF NumberedFrom
  <2> HIDE DEF t
  <2>6. RunLeaves(run) \subseteq rows /\ \A i \in RunLeaves(run) : i > 0 /\ i \in Nat
    BY LeavesAre
  <2>7. \A k \in 1..Len(read'.todo) : read'.todo[k].at \in rows'
    BY <2>1, <2>5, <2>6
  <2>8. /\ IsSeq(read'.lines)
        /\ \A k \in 1..Len(read'.lines) : read'.lines[k].at \in rows'
        /\ \A a, b \in 1..Len(read'.lines) : a < b => read'.lines[a].at < read'.lines[b].at
    <3>1. CASE goesOn
      BY <2>1, <3>1 DEF Paged
    <3>2. CASE ~goesOn
      BY <2>1, <2>2, <3>2, EmptyIs
    <3>3. QED
      BY <3>1, <3>2
  <2>9. \A a \in 1..Len(read'.lines), b \in 1..Len(read'.todo) : read'.lines[a].at < read'.todo[b].at
    <3> TAKE a \in 1..Len(read'.lines), b \in 1..Len(read'.todo)
    <3>1. goesOn /\ read'.lines = read.lines
      BY <2>1, <2>2, EmptyIs
    <3>2. read.lines[a].at \in Nat /\ read.lines[a].at <= read.lines[M].at
      <4>1. read.lines[a].at \in rows /\ (a = M \/ a < M)
        BY <1>1, <3>1 DEF Paged
      <4>2. a < M => read.lines[a].at < read.lines[M].at
        BY <1>1, <2>3, <3>1 DEF Paged
      <4>3. read.lines[a].at \in Nat /\ read.lines[M].at \in Nat
        BY <4>1, <1>1, <2>3, <3>1
      <4>4. QED
        BY <4>1, <4>2, <4>3
    <3>3. t[b].at > after /\ t[b].at \in Nat /\ after = read.lines[M].at /\ read'.todo[b] = t[b]
      BY <2>1, <2>3, <2>5, <2>6, <3>1
    <3>4. QED
      BY <2>4, <3>1, <3>2, <3>3
  <2>10. ASSUME NEW x \in ToSet(read'.first)
         PROVE  \/ \E k \in 1..Len(read'.lines) : read'.lines[k].at = x
                \/ \E k \in 1..Len(read'.todo) : read'.todo[k].at = x
    <3>1. CASE goesOn
      BY <2>1, <2>2, <3>1 DEF Paged
    <3>2. CASE ~goesOn
      <4>1. RunLeaves(run) \in SUBSET Nat /\ IsFiniteSet(RunLeaves(run))
        BY LeavesAre
      <4>2. x \in RunLeaves(run)
        <5>1. {ByIndex(RunLeaves(run))[n] : n \in DOMAIN ByIndex(RunLeaves(run))} = RunLeaves(run)
          BY <4>1, ByIndexLists
        <5>2. QED
          BY <5>1, <2>1, <3>2 DEF RunRows, ToSet
      <4>3. after = 0
        BY <3>2 DEF after
      <4>4. QED
        BY <4>2, <4>3, <2>1, <2>5, <2>6
    <3>3. QED
      BY <3>1, <3>2
  <2>11. ASSUME asked'.late = 0
         PROVE  /\ \A k \in 1..Len(read'.lines) : PlacedNext(read'.lines[k])
                /\ \A k \in 1..Len(read'.todo) : PlacedNext(read'.todo[k])
    <3>1. RunLeaves(read.run)' = RunLeaves(run)
      BY <2>1 DEF RunLeaves, Canonical
    <3>2. \A k \in 1..Len(read'.todo) : PlacedNext(read'.todo[k])
      BY <2>1, <2>5, <3>1
    <3>3. CASE goesOn
      <4>1. \A k \in 1..M : Placed(read.lines[k])
        BY <2>1, <2>11 DEF Paged
      <4>2. read'.run = read.run /\ read'.lines = read.lines
        BY <2>1, <3>3 DEF goesOn
      <4> HIDE DEF PlacedNext
      <4>3. \A k \in 1..M : PlacedNext(read.lines[k])
        BY <4>1, <4>2, <1>2, <2>11
      <4>4. QED
        BY <3>2, <4>2, <4>3
    <3>4. CASE ~goesOn
      BY <2>1, <2>2, <3>2, <3>4, EmptyIs
    <3>5. QED
      BY <3>3, <3>4
  <2>12. IsSeq(read'.todo)
    BY <2>1, <2>5
  <2>13. \A a, b \in 1..Len(read'.todo) : a < b => read'.todo[a].at < read'.todo[b].at
    BY <2>1, <2>5
  <2>14. QED
    BY <2>1, <2>7, <2>8, <2>9, <2>10, <2>11, <2>12, <2>13 DEF Paged, Placed
<1>7. CASE UNCHANGED read
  BY <1>3, <1>7 DEF Paged
<1>8. QED
  BY <1>4, <1>5, <1>6, <1>7, NextReads DEF vars

(* The pages of `reconstruct`, the same without the store. *)
Streamed ==
    /\ IsSeq(stream.out)
    /\ \A k \in 1..Len(stream.out) : stream.out[k] \in rows
    /\ \A a, b \in 1..Len(stream.out) : a < b => stream.out[a] < stream.out[b]
    /\ \A x \in ToSet(stream.first) : \E k \in 1..Len(stream.out) : stream.out[k] = x

LEMMA NextStreams ==
    ASSUME Next
    PROVE  UNCHANGED stream \/ \E run : Reconstruct(run)
<1>1. CASE \E n \in DOMAIN cast.leaves : \E leaf \in cast.leaves[n] :
              n = Recorded + 1 /\ Record(leaf[1], leaf[2])
  BY <1>1 DEF Record
<1>2. CASE \E i \in DOMAIN log : Redeliver(i)
  BY <1>2 DEF Redeliver
<1>3. CASE Follow
  BY <1>3 DEF Follow
<1>4. CASE \E c \in Contents : \E held \in Contents \cup {"absent", "denied"} : Touch(c, held)
  BY <1>4 DEF Touch
<1>5. CASE \E run \in RunNames : \E onward \in BOOLEAN : OpenRehydrate(run, onward)
  BY <1>5 DEF OpenRehydrate
<1>6. CASE EmitLine \/ CloseRehydrate \/ OpenListing \/ ListRun \/ CloseListing
  BY <1>6 DEF EmitLine, CloseRehydrate, OpenListing, ListRun, CloseListing
<1>7. CASE \E runs \in cast.pages : BuildPage(runs)
  BY <1>7 DEF BuildPage
<1>8. CASE Done
  BY <1>8 DEF Done, vars
<1>9. QED
  BY <1>1, <1>2, <1>3, <1>4, <1>5, <1>6, <1>7, <1>8 DEF Next

LEMMA StreamedFirst == Init => Streamed
<1> SUFFICES ASSUME Init PROVE Streamed
  OBVIOUS
<1>1. stream.out = << >> /\ stream.first = << >>
  BY DEF Init
<1>2. IsSeq(<< >>) /\ Len(<< >>) = 0 /\ DOMAIN << >> = {} /\ 1..0 = {}
  BY EmptyIs
<1>3. ToSet(stream.first) = {}
  BY <1>1, <1>2 DEF ToSet
<1>4. QED
  BY <1>1, <1>2, <1>3 DEF Streamed

LEMMA StreamedKept ==
    ASSUME Indexed, Grows, Streamed, [Next]_vars
    PROVE  Streamed'
<1>1. rows \subseteq rows' /\ rows \subseteq Nat
  <2>1. Len(log) \in Nat
    BY IsSeqHas DEF Indexed
  <2>2. QED
    BY <2>1 DEF Indexed, Grows
<1>2. CASE UNCHANGED stream
  BY <1>1, <1>2 DEF Streamed
<1>3. ASSUME NEW run, Reconstruct(run) PROVE Streamed'
  <2> DEFINE goesOn == stream.run = run /\ stream.out # << >>
             M == Len(stream.out)
             after == IF goesOn THEN Last(stream.out) ELSE 0
             T == {i \in RunLeaves(run) : i > after}
             next == ByIndex(T)
  <2>1. /\ UNCHANGED rows
        /\ stream'.first = IF goesOn THEN stream.first ELSE next
        /\ stream'.out = IF goesOn THEN stream.out \o next ELSE next
    BY <1>3 DEF Reconstruct, RowsAfter
  <2>2. RunLeaves(run) \in SUBSET Nat /\ IsFiniteSet(RunLeaves(run)) /\ RunLeaves(run) \subseteq rows
    BY LeavesAre
  <2>3. T \subseteq RunLeaves(run) /\ \A i \in T : i > after
    OBVIOUS
  <2>4. IsSeq(stream.out) /\ M \in Nat
    BY IsSeqHas DEF Streamed
  <2>5. goesOn => M \in 1..M /\ after = stream.out[M] /\ after \in rows
    <3> HAVE goesOn
    <3>1. M # 0
      BY <2>4 DEF IsSeq
    <3>2. M \in 1..M
      BY <2>4, <3>1
    <3>3. QED
      BY <3>2 DEF Last, Streamed
  <2>6. after \in Nat
    BY <1>1, <2>5
  <2> HIDE DEF T, next, after, goesOn, M
  <2>7. T \in SUBSET Nat /\ IsFiniteSet(T)
    BY <2>2, <2>3, FS_Subset
  <2>8. /\ IsSeq(next) /\ Len(next) \in Nat /\ DOMAIN next = 1..Len(next)
        /\ \A k \in 1..Len(next) : next[k] \in T
        /\ Increasing(next)
    <3>1. /\ IsSeq(next) /\ Increasing(next)
          /\ {next[k] : k \in DOMAIN next} = T
      BY <2>7, ByIndexLists DEF next
    <3>2. Len(next) \in Nat /\ DOMAIN next = 1..Len(next)
      BY <3>1, IsSeqHas
    <3>3. QED
      BY <3>1, <3>2
  <2>9. \A a, b \in 1..Len(next) : a < b => next[a] < next[b]
    BY <2>8 DEF Increasing
  <2>10. CASE ~goesOn
    BY <2>1, <2>2, <2>3, <2>8, <2>9, <2>10 DEF Streamed, ToSet
  <2>11. CASE goesOn
    <3> DEFINE out == stream.out \o next
    <3>1. /\ IsSeq(out) /\ Len(out) = M + Len(next)
          /\ \A k \in 1..M : out[k] = stream.out[k]
          /\ \A k \in 1..Len(next) : out[M + k] = next[k]
      BY <2>4, <2>8, ConcatIs DEF M
    <3> HIDE DEF out
    <3>2. \A k \in 1..Len(out) : k \in 1..M \/ (k - M \in 1..Len(next) /\ M + (k - M) = k)
      BY <2>4, <2>8, <3>1
    <3>3. \A k \in 1..M : k \in 1..Len(out) /\ out[k] \in rows /\ out[k] \in Nat /\ out[k] <= after
      <4> TAKE k \in 1..M
      <4>1. k \in 1..Len(out) /\ out[k] \in rows
        BY <2>4, <2>8, <3>1 DEF Streamed, M
      <4>2. k = M \/ stream.out[k] < stream.out[M]
        BY <2>4, <2>5, <2>11 DEF Streamed, M
      <4>3. out[k] \in Nat
        BY <4>1, <1>1
      <4>4. QED
        BY <4>1, <4>2, <4>3, <2>5, <2>6, <2>11, <3>1
    <3>4. \A k \in 1..Len(out) : ~(k \in 1..M) => out[k] \in rows /\ out[k] \in Nat /\ out[k] > after
      BY <1>1, <2>2, <2>3, <2>8, <3>1, <3>2
    <3>5. \A a, b \in 1..Len(out) : a < b => out[a] < out[b]
      <4> TAKE a, b \in 1..Len(out)
      <4> HAVE a < b
      <4>1. CASE a \in 1..M /\ b \in 1..M
        BY <3>1, <4>1 DEF Streamed, M
      <4>2. CASE a \in 1..M /\ b \notin 1..M
        BY <3>3, <3>4, <4>2, <2>6
      <4>3. CASE a \notin 1..M /\ b \in 1..M
        BY <4>3, <2>4, <2>8, <3>1
      <4>4. CASE a \notin 1..M /\ b \notin 1..M
        <5>1. a - M \in 1..Len(next) /\ b - M \in 1..Len(next) /\ a - M < b - M
          BY <4>4, <3>1, <3>2, <2>4, <2>8
        <5>2. next[a - M] < next[b - M]
          BY <5>1, <2>9
        <5>3. out[a] = next[a - M] /\ out[b] = next[b - M]
          BY <5>1, <4>4, <3>1, <3>2
        <5>4. QED
          BY <5>2, <5>3
      <4>5. QED
        BY <4>1, <4>2, <4>3, <4>4
    <3>6. ASSUME NEW x \in ToSet(stream.first) PROVE \E k \in 1..Len(out) : out[k] = x
      <4>1. PICK k \in 1..M : stream.out[k] = x
        BY DEF Streamed, M
      <4>2. QED
        BY <4>1, <3>1, <3>3
    <3>7. stream'.out = out /\ stream'.first = stream.first
      BY <2>1, <2>11 DEF out
    <3>8. QED
      BY <2>1, <3>1, <3>3, <3>4, <3>5, <3>6, <3>7 DEF Streamed
  <2>12. QED
    BY <2>10, <2>11
<1>4. QED
  BY <1>2, <1>3, NextStreams DEF vars

(* The pages of a run, read while it grows, join with no receipt twice and
   with all the first page could see, and a step printed on any page is the
   step `behalf why` answers at (rehydrate, Reconstruct, Load). *)
THEOREM PagesJoined == Spec => []PagesJoin
<1>1. Init => Indexed /\ Paged /\ Streamed
  BY IndexedFirst, PagedFirst, StreamedFirst
<1>2. Indexed /\ Paged /\ Streamed /\ [Next]_vars => (Indexed /\ Paged /\ Streamed)'
  BY IndexedKept, PagedKept, StreamedKept
<1>3. ASSUME Indexed, Paged, Streamed PROVE PagesJoin
  <2> DEFINE M == Len(read.lines)
  <2>1. /\ M \in Nat /\ DOMAIN read.lines = 1..M /\ IsSeq(read.lines)
        /\ DOMAIN stream.out = 1..Len(stream.out)
    BY <1>3, IsSeqHas DEF Paged, Streamed
  <2>2. /\ DOMAIN Ats(read.lines) = 1..M
        /\ \A k \in 1..M : Ats(read.lines)[k] = read.lines[k].at
    BY <2>1 DEF Ats
  <2>3. Increasing(Ats(read.lines))
    BY <1>3, <2>2 DEF Increasing, Paged
  <2>4. Increasing(stream.out)
    BY <1>3, <2>1 DEF Increasing, Streamed
  <2>5. ~read.live => ToSet(read.first) \subseteq ToSet(Ats(read.lines))
    <3> SUFFICES ASSUME ~read.live, NEW x \in ToSet(read.first) PROVE x \in ToSet(Ats(read.lines))
      OBVIOUS
    <3>1. Len(read.todo) = 0 /\ 1..0 = {}
      BY <1>3, EmptyIs DEF Paged
    <3>2. PICK k \in 1..M : read.lines[k].at = x
      BY <1>3, <3>1 DEF Paged
    <3>3. QED
      BY <2>2, <3>2 DEF ToSet
  <2>6. ToSet(stream.first) \subseteq ToSet(stream.out)
    BY <1>3, <2>1 DEF Streamed, ToSet
  <2>7. ASSUME asked.late = 0, NEW line \in ToSet(read.lines)
        PROVE  WhyLoad(read.run, line.step) = line.at
    <3>1. PICK k \in 1..M : line = read.lines[k]
      BY <2>1 DEF ToSet
    <3>2. /\ line.at \in RunLeaves(read.run)
          /\ line.step = Cardinality({j \in RunLeaves(read.run) : j < line.at})
      BY <1>3, <2>7, <3>1 DEF Paged, Placed
    <3>3. RunLeaves(read.run) \in SUBSET Nat /\ IsFiniteSet(RunLeaves(read.run))
      BY <1>3, LeavesAre
    <3>4. \A k1 \in RunLeaves(read.run) :
             ByIndex(RunLeaves(read.run))[Cardinality({j \in RunLeaves(read.run) : j < k1}) + 1] = k1
      BY <3>3, ByIndexLists
    <3>5. QED
      BY <3>2, <3>4 DEF WhyLoad, RunRows
  <2>8. QED
    BY <2>3, <2>4, <2>5, <2>6, <2>7 DEF PagesJoin
<1>4. QED
  BY <1>1, <1>2, <1>3, PTL DEF Spec

-----------------------------------------------------------------------------
(* What a receipt holds, and what the notices of the log name. *)

LEMMA Words ==
    /\ NoText # "present" /\ NoText # "deleted" /\ NoText # "dropped-at-capture" /\ NoText # "absent"
    /\ NoText # "verified" /\ NoText # "asserted" /\ NoText # "broken" /\ NoText # "denied"
BY Zenon DEF NoText

LEMMA ReceiptHas ==
    ASSUME Indexed, NEW i \in 1..Len(log), NEW x \in DOMAIN Catalogue[log[i].call]
    PROVE  Receipt(i)[x] = Catalogue[log[i].call][x]
BY DEF Receipt

\* The store holds contents, and what `rehydrate` read of the notices when it
\* began is what those it knew name, and no more.
Erasures ==
    /\ store \in [Contents -> Contents \cup {"absent", "denied"}]
    /\ read.known \subseteq rows
    /\ \A d \in DOMAIN read.erased : \E i \in Notices(rows) : d \in NamedBy(i)
    /\ \A i \in Notices(read.known) : Canonical(i) => NamedBy(i) \subseteq DOMAIN read.erased

LEMMA ErasuresFirst == Init => Erasures
<1> SUFFICES ASSUME Init PROVE Erasures
  OBVIOUS
<1>1. store \in [Contents -> Contents \cup {"absent", "denied"}]
  BY DEF Init
<1>2. read.known = {} /\ read.erased = NoParts
  BY DEF Init
<1>3. DOMAIN NoParts = {}
  BY DEF NoParts
<1>4. Notices(read.known) = {}
  BY <1>2 DEF Notices
<1>5. QED
  BY <1>1, <1>2, <1>3, <1>4 DEF Erasures

\* The notices the lookup reads are those the log names things by.
LEMMA LookupIs ==
    /\ DOMAIN ErasureLookup = UNION {Erases(i) : i \in NoticeRows}
    /\ \A i \in NoticeRows : i \in Notices(rows) /\ Erases(i) = NamedBy(i)
    /\ \A i \in Notices(rows) : Canonical(i) => i \in NoticeRows
BY DEF ErasureLookup, NoticeRows, Erases, NamedBy, Notices

LEMMA ErasuresKept ==
    ASSUME Indexed, Indexed', Grows, Paged, Erasures, [Next]_vars
    PROVE  Erasures'
<1>1. /\ Len(log) \in Nat /\ Len(log) <= Len(log') /\ rows \subseteq 1..Len(log) /\ rows \subseteq rows'
      /\ \A i \in 1..Len(log) : log'[i] = log[i]
  BY IsSeqHas DEF Indexed, Grows
<1>2. ASSUME NEW i \in rows
      PROVE  /\ NamedBy(i)' = NamedBy(i) /\ Receipt(i)' = Receipt(i) /\ (Canonical(i)' => Canonical(i))
  <2>1. log'[i] = log[i] /\ \A j \in rows : j \in rows' /\ log'[j] = log[j]
    BY <1>1
  <2>2. Receipt(i)' = Receipt(i)
    BY <2>1 DEF Receipt
  <2>3. NamedBy(i)' = NamedBy(i)
    BY <2>2 DEF NamedBy
  <2>4. Canonical(i)' => Canonical(i)
    BY <2>1 DEF Canonical
  <2>5. QED
    BY <2>2, <2>3, <2>4
<1>3. /\ \A i \in Notices(rows) : i \in Notices(rows)' /\ i \in rows
      /\ \A known \in SUBSET rows : \A i \in Notices(known)' : i \in Notices(known)
  BY <1>1, <1>2 DEF Notices
<1>4. store' \in [Contents -> Contents \cup {"absent", "denied"}]
  <2>1. ASSUME NEW run, NEW call, Record(run, call) PROVE store' = Put(Kept(call))
    BY <2>1 DEF Record
  <2>2. ASSUME NEW kept PROVE Put(kept) \in [Contents -> Contents \cup {"absent", "denied"}]
    BY DEF Put, Erasures
  <2>3. ASSUME NEW c \in Contents, NEW held \in Contents \cup {"absent", "denied"}, Touch(c, held)
        PROVE  store' \in [Contents -> Contents \cup {"absent", "denied"}]
    BY <2>3 DEF Touch, Erasures
  <2>4. CASE UNCHANGED store
    BY <2>4 DEF Erasures
  <2>5. QED
    BY <2>1, <2>2, <2>3, <2>4 DEF Next, vars, Redeliver, Follow, OpenRehydrate, EmitLine, CloseRehydrate,
                                  Reconstruct, OpenListing, ListRun, CloseListing, BuildPage, Done
<1>5. ASSUME read'.known = read.known, read'.erased = read.erased PROVE Erasures'
  <2>1. read.known \in SUBSET rows /\ \A i \in Notices(read.known) : i \in rows
    BY DEF Erasures, Notices
  <2>2. \A d \in DOMAIN read'.erased : \E i \in Notices(rows)' : d \in NamedBy(i)'
    <3> TAKE d \in DOMAIN read'.erased
    <3>1. PICK i \in Notices(rows) : d \in NamedBy(i)
      BY <1>5 DEF Erasures
    <3>2. QED
      BY <3>1, <1>2, <1>3
  <2>3. ASSUME NEW i \in Notices(read.known)', Canonical(i)'
        PROVE  NamedBy(i)' \subseteq DOMAIN read'.erased
    <3>1. i \in Notices(read.known) /\ i \in rows
      <4>1. i \in read.known /\ i \in rows /\ Receipt(i)'.kind = "erasure_notice"
        BY <2>1, <1>5 DEF Notices
      <4>2. QED
        BY <4>1, <1>2 DEF Notices
    <3>2. QED
      BY <3>1, <2>3, <1>2, <1>5 DEF Erasures
  <2>4. read'.known \subseteq rows'
    BY <1>1, <1>5, <2>1
  <2>5. QED
    BY <1>4, <2>2, <2>3, <2>4 DEF Erasures
<1>6. ASSUME NEW run, NEW onward, OpenRehydrate(run, onward) PROVE Erasures'
  <2>1. UNCHANGED <<log, rows>> /\ read'.known = rows /\ read'.erased = ErasureLookup
    BY <1>6 DEF OpenRehydrate
  <2>2. /\ Notices(rows)' = Notices(rows) /\ Notices(read.known)' = Notices(rows)
        /\ \A i \in rows : NamedBy(i)' = NamedBy(i) /\ (Canonical(i)' => Canonical(i))
    BY <2>1, <1>2 DEF Notices, Receipt
  <2>3. \A d \in DOMAIN read'.erased : \E i \in Notices(rows) : d \in NamedBy(i)
    BY <2>1, LookupIs
  <2>4. \A i \in Notices(rows) : Canonical(i) => NamedBy(i) \subseteq DOMAIN read'.erased
    BY <2>1, LookupIs
  <2>5. Notices(rows) \subseteq rows /\ read'.known \subseteq rows'
    BY <2>1 DEF Notices
  <2>6. QED
    BY <1>4, <2>2, <2>3, <2>4, <2>5 DEF Erasures
<1>7. CASE EmitLine \/ CloseRehydrate
  BY <1>5, <1>7 DEF EmitLine, CloseRehydrate, Paged
<1>8. CASE UNCHANGED read
  BY <1>5, <1>8
<1>9. QED
  BY <1>6, <1>7, <1>8, NextReads DEF vars

\* One slot against the store and what was read of the notices.
LookedUp(slot) ==
    /\ slot.custody \notin {"dropped-with-digest", "vendor-held"}
    /\ Committed(slot) \notin {"dropped-at-capture", "deleted"}

LEMMA ResolveOneIs ==
    ASSUME store \in [Contents -> Contents \cup {"absent", "denied"}],
           NEW slot, slot.digest \in Contents \cup {NoText}, NEW erased
    PROVE  LET s == ResolveOne(slot, erased)
               file == Held(slot)
           IN  /\ ~LookedUp(slot) => s.state \in {Committed(slot), "dropped-at-capture"} /\ ~s.tampered
               /\ s.tampered <=> LookedUp(slot) /\ file \in Contents \ {slot.digest}
               /\ s.tampered => s.state = "unreadable"
               /\ LookedUp(slot) =>
                     /\ s.state = "present" <=> file = slot.digest
                     /\ s.state = "unreadable" <=> file \notin {slot.digest, "absent"}
                     /\ s.state = "deleted" => slot.digest \in DOMAIN erased
                     /\ s.state = "missing" => slot.digest \notin DOMAIN erased
               /\ s.tampered => s.changed = ChangedFields(slot.manifest, file)
<1> DEFINE s == ResolveOne(slot, erased)
           file == Held(slot)
<1>1. /\ "absent" \notin Contents /\ "denied" \notin Contents /\ NoText \notin Contents
      /\ NoText # "absent" /\ NoText # "denied"
  BY Words, ReadingAssumption
<1>2. Committed(slot) # NoText
  BY Words DEF Committed
<1>3. CASE ~LookedUp(slot)
  <2>1. ByRecord(slot) # NoText /\ ByRecord(slot) \in {Committed(slot), "dropped-at-capture"}
    BY Words, <1>2, <1>3 DEF LookedUp, ByRecord
  <2>2. s = Resolved(slot, ByRecord(slot))
    BY <2>1 DEF ResolveOne
  <2>3. s.state = ByRecord(slot) /\ s.tampered = FALSE
    BY <2>2 DEF Resolved
  <2>4. QED
    BY <1>3, <2>1, <2>3
<1>4. CASE LookedUp(slot)
  <2>1. ByRecord(slot) = NoText
    BY <1>4 DEF LookedUp, ByRecord
  <2>2. s = ByStore(slot, erased)
    BY <2>1 DEF ResolveOne
  <2>3. file \in Contents \cup {"absent", "denied"} /\ (slot.digest = NoText => file = "absent")
    BY DEF Held
  <2> HIDE DEF file, s
  <2>4. CASE file = "absent"
    <3>1. s = Gone(slot, erased)
      BY <1>1, <2>2, <2>3, <2>4 DEF ByStore, file
    <3>2. /\ slot.digest \in DOMAIN erased => s.state = "deleted" /\ s.tampered = FALSE
          /\ slot.digest \notin DOMAIN erased => s.state = "missing" /\ s.tampered = FALSE
      BY <3>1 DEF Gone, Resolved
    <3>3. file # slot.digest /\ file \notin Contents
      BY <1>1, <2>4
    <3>4. QED
      BY <1>4, <2>4, <3>2, <3>3 DEF s, file
  <2>5. CASE file = "denied"
    <3>1. s = Resolved(slot, "unreadable")
      BY <1>1, <2>2, <2>3, <2>5 DEF ByStore, file
    <3>2. s.state = "unreadable" /\ s.tampered = FALSE
      BY <3>1 DEF Resolved
    <3>3. file # slot.digest /\ file \notin Contents
      BY <1>1, <2>5
    <3>4. QED
      BY <1>4, <2>5, <3>2, <3>3 DEF s, file
  <2>6. CASE file = slot.digest
    <3>0. file \in Contents /\ file # "absent" /\ file # "denied"
      BY <1>1, <2>3, <2>6
    <3>1. s = Resolved(slot, "present")
      BY <2>2, <2>6, <3>0 DEF ByStore, file
    <3>2. s.state = "present" /\ s.tampered = FALSE
      BY <3>1 DEF Resolved
    <3>4. QED
      BY <1>4, <2>6, <3>0, <3>2 DEF s, file
  <2>7. CASE file \notin {"absent", "denied", slot.digest}
    <3>1. s = [Resolved(slot, "unreadable") EXCEPT
                 !.tampered = TRUE, !.changed = ChangedFields(slot.manifest, file)]
      BY <2>2, <2>7 DEF ByStore, file
    <3>2. /\ s.state = "unreadable" /\ s.tampered = TRUE
          /\ s.changed = ChangedFields(slot.manifest, file)
      BY <3>1 DEF Resolved
    <3>3. QED
      BY <1>4, <2>3, <2>7, <3>2 DEF s, file
  <2>8. QED
    BY <2>4, <2>5, <2>6, <2>7
<1>5. QED
  BY <1>3, <1>4

(* While blobs come and go under it, `rehydrate` says of each slot what the
   store holds as its line is written: tampered only of bytes that are not
   those committed, deleted only with a notice in the log, missing never
   where a notice was indexed before it began; and it counts what it accuses
   (resolveOne, applyErasure, changedFields, rehydrateRows). *)
THEOREM SlotsHold == Spec => SlotsAreTrue
<1> DEFINE Inv == Indexed /\ Paged /\ Erasures
<1>1. Init => Inv
  BY IndexedFirst, PagedFirst, ErasuresFirst
<1>2. Inv /\ [Next]_vars => Inv'
  BY IndexedKept, PagedKept, ErasuresKept
<1>3. ASSUME Inv, Next, Len(read'.lines) > Len(read.lines)
      PROVE  /\ \A k \in DOMAIN Last(read'.lines).slots :
                   SlotIsTrue(Receipt(Last(read'.lines).at).slots[k], Last(read'.lines).slots[k])
             /\ read'.findings = read.findings
                  + Cardinality({k \in DOMAIN Last(read'.lines).slots : Last(read'.lines).slots[k].tampered})
  <2>1. IsSeq(read.lines) /\ IsSeq(read.todo) /\ Len(read.lines) \in Nat /\ Len(<< >>) = 0
    BY <1>3, IsSeqHas, EmptyIs DEF Paged
  <2>2. EmitLine
    <3>1. ~UNCHANGED read
      BY <1>3, <2>1
    <3>2. ASSUME NEW run, NEW onward, OpenRehydrate(run, onward) PROVE FALSE
      <4>1. read'.lines = read.lines \/ read'.lines = << >>
        BY <3>2 DEF OpenRehydrate
      <4>2. QED
        BY <4>1, <1>3, <2>1
    <3>3. ~CloseRehydrate
      BY <1>3, <2>1 DEF CloseRehydrate, Paged
    <3>4. QED
      BY <1>3, <3>1, <3>2, <3>3, NextReads
  <2> DEFINE row == Head(read.todo)
             slots == Resolve(row.at, read.erased)
             line == [at |-> row.at, step |-> row.step, slots |-> slots]
  <2>3. /\ read.todo # << >> /\ read'.lines = Append(read.lines, line)
        /\ read'.findings = read.findings + Findings(slots)
    BY <1>3, <2>2 DEF EmitLine, Paged
  <2>4. line.at = row.at /\ line.slots = slots
    OBVIOUS
  <2>5. row.at \in rows /\ row.at \in 1..Len(log)
    <3>1. row = read.todo[1] /\ 1 \in 1..Len(read.todo)
      BY <2>1, <2>3, TailIs
    <3>2. QED
      BY <1>3, <3>1 DEF Paged, Indexed
  <2>6. slots = [k \in DOMAIN Receipt(row.at).slots |->
                   ResolveOne(Receipt(row.at).slots[k], read.erased)]
    BY DEF Resolve
  <2> HIDE DEF slots, row
  <2>7. Last(read'.lines) = line
    <3> HIDE DEF line
    <3>1. IsSeq(read'.lines) /\ Len(read'.lines) = Len(read.lines) + 1 /\ read'.lines[Len(read.lines) + 1] = line
      BY <2>1, <2>3, AppendIs
    <3>2. QED
      BY <3>1 DEF Last
  <2>8. ASSUME NEW k \in DOMAIN slots
        PROVE  SlotIsTrue(Receipt(row.at).slots[k], slots[k])
    <3> DEFINE slot == Receipt(row.at).slots[k]
               file == Held(slot)
    <3>1. slots[k] = ResolveOne(slot, read.erased) /\ k \in DOMAIN Receipt(row.at).slots
      BY <2>6
    <3>2. slot.digest \in Contents \cup {NoText}
      <4>1. log[row.at].call \in DOMAIN Catalogue
        BY <1>3, <2>5 DEF Indexed
      <4>2. PICK call \in DOMAIN Catalogue : call = log[row.at].call
        BY <4>1
      <4>3. /\ "slots" \in DOMAIN Catalogue[call]
            /\ \A h \in DOMAIN Catalogue[call].slots : Catalogue[call].slots[h].digest \in Contents \cup {NoText}
        BY CatalogueAssumption
      <4>4. Receipt(row.at).slots = Catalogue[call].slots
        BY <1>3, <2>5, <4>2, <4>3, ReceiptHas
      <4>5. QED
        BY <3>1, <4>3, <4>4
    <3> DEFINE s == slots[k]
    <3> HIDE DEF slot
    <3>3. /\ ~LookedUp(slot) => s.state \in {Committed(slot), "dropped-at-capture"} /\ ~s.tampered
          /\ s.tampered <=> LookedUp(slot) /\ file \in Contents \ {slot.digest}
          /\ s.tampered => s.state = "unreadable"
          /\ LookedUp(slot) =>
                /\ s.state = "present" <=> file = slot.digest
                /\ s.state = "unreadable" <=> file \notin {slot.digest, "absent"}
                /\ s.state = "deleted" => slot.digest \in DOMAIN read.erased
                /\ s.state = "missing" => slot.digest \notin DOMAIN read.erased
          /\ s.tampered => s.changed = ChangedFields(slot.manifest, file)
      BY <1>3, <3>1, <3>2, ResolveOneIs DEF Erasures
    <3> HIDE DEF s, file
    <3>4. s.state = "deleted" /\ LookedUp(slot) => \E i \in Notices(rows) : slot.digest \in NamedBy(i)
      BY <1>3, <3>3 DEF Erasures
    <3>5. s.state = "missing" /\ LookedUp(slot) =>
             \A i \in Notices(read.known) : Canonical(i) => slot.digest \notin NamedBy(i)
      BY <1>3, <3>3 DEF Erasures
    <3>6. s.tampered /\ slot.manifest # NoParts =>
             s.changed = {f \in DOMAIN slot.manifest \cup DOMAIN Manifest[file] :
                            ~(/\ f \in DOMAIN slot.manifest \cap DOMAIN Manifest[file]
                              /\ slot.manifest[f] = Manifest[file][f])}
      BY <3>3 DEF ChangedFields
    <3>7. SlotIsTrue(slot, s)
      BY <3>3, <3>4, <3>5, <3>6 DEF SlotIsTrue, LookedUp, file
    <3>8. QED
      BY <3>7 DEF slot, s
  <2>9. QED
    BY <2>3, <2>4, <2>7, <2>8 DEF Findings
<1>4. ASSUME Inv, [Next]_vars
      PROVE  [Len(read'.lines) > Len(read.lines) =>
                LET line == Last(read'.lines)
                IN  /\ \A k \in DOMAIN line.slots : SlotIsTrue(Receipt(line.at).slots[k], line.slots[k])
                    /\ read'.findings = read.findings
                         + Cardinality({k \in DOMAIN line.slots : line.slots[k].tampered})]_vars
  BY <1>3, <1>4
<1>5. QED
  BY <1>1, <1>2, <1>4, PTL DEF Spec, SlotsAreTrue

-----------------------------------------------------------------------------
(* What the listing and the export say of a run. *)

\* Whether a listing that knew these leaves had anything to look for in a run.
Clean(run) == VerdictsOf(RowsAsOf(listing.known, run)) \cap {"asserted", "broken"} = {}
Weighed(summary) == (summary.asserted = 0 /\ summary.broken = 0) <=> Clean(summary.run)
Listed(l) ==
    /\ ToSet(l.rows) \subseteq rows
    /\ l.status = RunStatus(ToSet(l.rows)) /\ l.actions = CountActions(ToSet(l.rows))
    /\ Clean(l.run) => l.label = "verified"
    /\ ~Clean(l.run) =>
          l.label = IF UnverifiedHop(ToSet(l.rows), Broken) THEN "broken"
                      ELSE IF UnverifiedHop(ToSet(l.rows), Asserted) THEN "unverified" ELSE "unattributed"
Shown(p) ==
    /\ ToSet(p.rows) \subseteq rows
    /\ p.status = RunStatus(ToSet(p.rows)) /\ p.actions = CountActions(ToSet(p.rows))
    /\ p.attribution = WeakerOf(ToSet(p.rows)) /\ p.rollup = Rollup(ToSet(p.rows))
Verdicts ==
    /\ DOMAIN listing = {"live", "todo", "known", "out"}
    /\ listing.known \subseteq rows
    /\ IsSeq(listing.todo) /\ IsSeq(listing.out)
    /\ \A s \in ToSet(listing.todo) : Weighed(s)
    /\ \A l \in ToSet(listing.out) : Listed(l)
    /\ \A p \in ToSet(page.runs) : Shown(p)

LEMMA ReceiptsStay ==
    ASSUME Indexed, Grows, NEW i \in rows
    PROVE  i \in rows' /\ log'[i] = log[i] /\ Receipt(i)' = Receipt(i)
<1>1. log'[i] = log[i] /\ i \in rows'
  BY DEF Indexed, Grows
<1>2. QED
  BY <1>1 DEF Receipt

\* What is said of leaves by their receipts stays as the log grows.
LEMMA SayingsStay ==
    ASSUME Indexed, Grows, NEW R \in SUBSET rows
    PROVE  /\ RunStatus(R)' = RunStatus(R) /\ CountActions(R)' = CountActions(R)
           /\ UnverifiedHop(R, Broken)' = UnverifiedHop(R, Broken)
           /\ UnverifiedHop(R, Asserted)' = UnverifiedHop(R, Asserted)
           /\ WeakerOf(R)' = WeakerOf(R) /\ Rollup(R)' = Rollup(R)
           /\ VerdictsOf(R)' = VerdictsOf(R)
           /\ \A run : RowsAsOf(R, run)' = RowsAsOf(R, run) /\ RowsAsOf(R, run) \subseteq R
<1>1. \A i \in R : log'[i] = log[i] /\ Receipt(i)' = Receipt(i)
  BY ReceiptsStay
<1>2. RunStatus(R)' = RunStatus(R)
  BY <1>1 DEF RunStatus, OutcomeStatus
<1>3. CountActions(R)' = CountActions(R)
  <2>1. {i \in R : Receipt(i)'.kind \in ActionKinds} = {i \in R : Receipt(i).kind \in ActionKinds}
    BY <1>1
  <2>2. QED
    BY <2>1 DEF CountActions, ActionKinds
<1>4. /\ UnverifiedHop(R, Broken)' = UnverifiedHop(R, Broken)
      /\ UnverifiedHop(R, Asserted)' = UnverifiedHop(R, Asserted)
  BY <1>1 DEF UnverifiedHop, Broken, Asserted
<1>5. WeakerOf(R)' = WeakerOf(R)
  <2> DEFINE rank == [verified |-> 0, asserted |-> 1, broken |-> 3]
             Of(V) == IF V = {} THEN NoText ELSE CHOOSE v \in V : \A w \in V : rank[w] <= rank[v]
  <2>1. {Receipt(i)'.verdict : i \in R} = {Receipt(i).verdict : i \in R}
    BY <1>1
  <2>2. WeakerOf(R) = Of({Receipt(i).verdict : i \in R} \ {NoText})
    BY DEF WeakerOf, Weakest
  <2>3. WeakerOf(R)' = Of({Receipt(i)'.verdict : i \in R} \ {NoText})
    BY DEF WeakerOf, Weakest, NoText
  <2> HIDE DEF Of
  <2>4. QED
    BY <2>1, <2>2, <2>3
<1>6. Rollup(R)' = Rollup(R)
  <2>1. \A v : {i \in R : Receipt(i)'.kind \in ActionKinds /\ Receipt(i)'.verdict = v}
                 = {i \in R : Receipt(i).kind \in ActionKinds /\ Receipt(i).verdict = v}
    BY <1>1
  <2>2. QED
    BY <2>1, <1>3 DEF Rollup, ActionKinds
<1>7. VerdictsOf(R)' = VerdictsOf(R)
  BY <1>1 DEF VerdictsOf
<1>8. \A run : RowsAsOf(R, run)' = RowsAsOf(R, run) /\ RowsAsOf(R, run) \subseteq R
  BY <1>1 DEF RowsAsOf
<1>9. QED
  BY <1>2, <1>3, <1>4, <1>5, <1>6, <1>7, <1>8

\* The rows of a run are its leaves.
LEMMA RowsAre ==
    ASSUME Indexed, NEW run
    PROVE  ToSet(RunRows(run)) = RunLeaves(run) /\ RunLeaves(run) \subseteq rows
<1>1. RunLeaves(run) \in SUBSET Nat /\ IsFiniteSet(RunLeaves(run)) /\ RunLeaves(run) \subseteq rows
  BY LeavesAre
<1>2. {ByIndex(RunLeaves(run))[n] : n \in DOMAIN ByIndex(RunLeaves(run))} = RunLeaves(run)
  BY <1>1, ByIndexLists
<1>3. QED
  BY <1>1, <1>2 DEF RunRows, ToSet

\* The summary of a run counts an asserted or a broken receipt when there is one.
LEMMA SummaryWeighs ==
    ASSUME Indexed, NEW run
    PROVE  /\ Summary(run).run = run
           /\ (Summary(run).asserted = 0 /\ Summary(run).broken = 0) <=>
                 VerdictsOf(RowsAsOf(rows, run)) \cap {"asserted", "broken"} = {}
<1>1. RunLeaves(run) = RowsAsOf(rows, run)
  BY DEF RunLeaves, RowsAsOf, Canonical
<1>2. IsFiniteSet(RunLeaves(run))
  BY LeavesAre
<1>3. ASSUME NEW v
      PROVE  Tally(run, v) = 0 <=> v \notin VerdictsOf(RunLeaves(run))
  <2> DEFINE T == {i \in RunLeaves(run) : Receipt(i).verdict = v}
  <2>1. T \subseteq RunLeaves(run)
    OBVIOUS
  <2>2. T = {} <=> v \notin VerdictsOf(RunLeaves(run))
    BY DEF VerdictsOf
  <2>3. Tally(run, v) = Cardinality(T)
    BY DEF Tally
  <2> HIDE DEF T
  <2>4. Cardinality(T) = 0 <=> T = {}
    BY <1>2, <2>1, FS_Subset, FS_EmptySet
  <2>5. QED
    BY <2>2, <2>3, <2>4
<1>4. /\ Summary(run).run = run /\ Summary(run).asserted = Tally(run, "asserted")
      /\ Summary(run).broken = Tally(run, "broken")
  BY DEF Summary
<1>5. QED
  BY <1>1, <1>3, <1>4

LEMMA NextLists ==
    ASSUME Next
    PROVE  /\ UNCHANGED listing \/ OpenListing \/ ListRun \/ CloseListing
           /\ UNCHANGED page \/ \E runs \in cast.pages : BuildPage(runs)
<1>1. CASE \E n \in DOMAIN cast.leaves : \E leaf \in cast.leaves[n] :
              n = Recorded + 1 /\ Record(leaf[1], leaf[2])
  BY <1>1 DEF Record
<1>2. CASE \E i \in DOMAIN log : Redeliver(i)
  BY <1>2 DEF Redeliver
<1>3. CASE Follow
  BY <1>3 DEF Follow
<1>4. CASE \E c \in Contents : \E held \in Contents \cup {"absent", "denied"} : Touch(c, held)
  BY <1>4 DEF Touch
<1>5. CASE \E run \in RunNames : \E onward \in BOOLEAN : OpenRehydrate(run, onward)
  BY <1>5 DEF OpenRehydrate
<1>6. CASE EmitLine \/ CloseRehydrate
  BY <1>6 DEF EmitLine, CloseRehydrate
<1>7. CASE \E run \in RunNames : Reconstruct(run)
  BY <1>7 DEF Reconstruct
<1>8. CASE OpenListing \/ ListRun \/ CloseListing
  BY <1>8 DEF OpenListing, ListRun, CloseListing
<1>9. CASE \E runs \in cast.pages : BuildPage(runs)
  BY <1>9 DEF BuildPage
<1>10. CASE Done
  BY <1>10 DEF Done, vars
<1>11. QED
  BY <1>1, <1>2, <1>3, <1>4, <1>5, <1>6, <1>7, <1>8, <1>9, <1>10 DEF Next

LEMMA VerdictsFirst == Init => Verdicts
<1> SUFFICES ASSUME Init PROVE Verdicts
  OBVIOUS
<1>1. /\ DOMAIN listing = {"live", "todo", "known", "out"} /\ listing.known = {}
      /\ listing.todo = << >> /\ listing.out = << >> /\ page.runs = << >>
  BY DEF Init
<1>2. IsSeq(<< >>) /\ DOMAIN << >> = {}
  BY EmptyIs
<1>3. ToSet(listing.todo) = {} /\ ToSet(listing.out) = {} /\ ToSet(page.runs) = {}
  BY <1>1, <1>2 DEF ToSet
<1>4. QED
  BY <1>1, <1>2, <1>3 DEF Verdicts

LEMMA VerdictsKept ==
    ASSUME Indexed, Indexed', Grows, Verdicts, [Next]_vars
    PROVE  Verdicts'
<1>1. /\ DOMAIN listing = {"live", "todo", "known", "out"} /\ listing.known \in SUBSET rows
      /\ IsSeq(listing.todo) /\ IsSeq(listing.out) /\ rows \subseteq rows'
  BY DEF Verdicts, Grows
<1>2. ASSUME NEW run, listing'.known = listing.known PROVE Clean(run)' = Clean(run)
  <2> DEFINE K == listing.known
             R == RowsAsOf(K, run)
  <2>1. RowsAsOf(listing.known, run)' = R /\ R \in SUBSET rows
    <3>1. PICK known : known = listing.known
      OBVIOUS
    <3>2. RowsAsOf(known, run)' = RowsAsOf(known, run) /\ RowsAsOf(known, run) \subseteq known
      BY <1>1, <3>1, SayingsStay
    <3>3. RowsAsOf(listing.known, run)' = RowsAsOf(known, run)'
      BY <1>2, <3>1 DEF RowsAsOf
    <3>4. QED
      BY <1>1, <3>1, <3>2, <3>3
  <2> HIDE DEF R
  <2>2. PICK leaves : leaves = R
    OBVIOUS
  <2>3. VerdictsOf(leaves)' = VerdictsOf(leaves)
    BY <2>1, <2>2, SayingsStay
  <2>4. VerdictsOf(RowsAsOf(listing.known, run))' = VerdictsOf(leaves)'
    BY <2>1, <2>2 DEF VerdictsOf
  <2>5. QED
    BY <2>2, <2>3, <2>4 DEF Clean, R
<1>3. ASSUME NEW x, Weighed(x), listing'.known = listing.known PROVE Weighed(x)'
  <2>1. Clean(x.run)' = Clean(x.run)
    BY <1>2, <1>3
  <2>2. QED
    BY <1>3, <2>1 DEF Weighed
<1>4. ASSUME NEW x, Listed(x), listing'.known = listing.known PROVE Listed(x)'
  <2>1. Clean(x.run)' = Clean(x.run)
    BY <1>2, <1>4
  <2>2. PICK R : R = ToSet(x.rows)
    OBVIOUS
  <2>3. R \in SUBSET rows /\ R \subseteq rows'
    BY <1>1, <1>4, <2>2 DEF Listed
  <2>4. /\ RunStatus(R)' = RunStatus(R) /\ CountActions(R)' = CountActions(R)
        /\ UnverifiedHop(R, Broken)' = UnverifiedHop(R, Broken)
        /\ UnverifiedHop(R, Asserted)' = UnverifiedHop(R, Asserted)
    BY <2>3, SayingsStay
  <2>5. QED
    BY <1>4, <2>1, <2>2, <2>3, <2>4 DEF Listed
<1>5. ASSUME NEW x, Shown(x) PROVE Shown(x)'
  <2>1. PICK R : R = ToSet(x.rows)
    OBVIOUS
  <2>2. R \in SUBSET rows /\ R \subseteq rows'
    BY <1>1, <1>5, <2>1 DEF Shown
  <2>3. /\ RunStatus(R)' = RunStatus(R) /\ CountActions(R)' = CountActions(R)
        /\ WeakerOf(R)' = WeakerOf(R) /\ Rollup(R)' = Rollup(R)
    BY <2>2, SayingsStay
  <2>4. QED
    BY <1>5, <2>1, <2>2, <2>3 DEF Shown
<1>6. ASSUME NEW run
      PROVE  /\ Summary(run).run = run
             /\ (Summary(run).asserted = 0 /\ Summary(run).broken = 0) <=>
                   VerdictsOf(RowsAsOf(rows, run)) \cap {"asserted", "broken"} = {}
  BY SummaryWeighs
\* The listing.
<1> DEFINE Told == /\ DOMAIN listing' = {"live", "todo", "known", "out"}
                   /\ listing'.known \subseteq rows'
                   /\ IsSeq(listing'.todo) /\ IsSeq(listing'.out)
                   /\ \A s \in ToSet(listing'.todo) : Weighed(s)'
                   /\ \A l \in ToSet(listing'.out) : Listed(l)'
<1>7. Told
  <2>1. CASE UNCHANGED listing
    BY <1>1, <1>3, <1>4, <2>1 DEF Verdicts
  <2>2. CASE CloseListing
    BY <1>1, <1>3, <1>4, <2>2 DEF CloseListing, Verdicts
  <2>3. CASE OpenListing
    <3> DEFINE todo == [k \in DOMAIN Runs |-> Summary(Runs[k])]
    <3>1. /\ UNCHANGED <<log, rows>> /\ listing'.known = rows /\ listing'.todo = todo /\ listing'.out = << >>
          /\ DOMAIN listing' = {"live", "todo", "known", "out"}
      BY <2>3 DEF OpenListing
    <3>2. IsSeq(todo)
      <4> DEFINE F == {i \in rows : Canonical(i) /\ i = Least(RunLeaves(log[i].run))}
      <4>1. F \subseteq rows /\ rows \subseteq 1..Len(log) /\ Len(log) \in Nat
        BY IsSeqHas DEF Indexed
      <4>2. IsFiniteSet(F) /\ F \in SUBSET Nat
        <5> HIDE DEF F
        <5>1. IsFiniteSet(1..Len(log)) /\ F \subseteq 1..Len(log)
          BY <4>1, FS_Interval
        <5>2. F \in SUBSET Nat
          BY <4>1, <5>1
        <5>3. QED
          BY <5>1, <5>2, FS_Subset
      <4> HIDE DEF F
      <4>3. DOMAIN ByIndex(F) = 1..Cardinality(F) /\ Cardinality(F) \in Nat
        BY <4>2, ByIndexLists
      <4>4. DOMAIN Runs = 1..Cardinality(F)
        BY <4>3 DEF Runs, F
      <4>5. DOMAIN todo = 1..Cardinality(F) /\ todo = [k \in 1..Cardinality(F) |-> todo[k]]
        BY <4>4
      <4> HIDE DEF todo
      <4>6. QED
        BY <4>3, <4>5 DEF IsSeq
    <3>3. \A s \in ToSet(todo) : Weighed(s)'
      <4> TAKE s \in ToSet(todo)
      <4>1. PICK run : s = Summary(run)
        BY DEF ToSet
      <4>2. RowsAsOf(listing.known, run)' = RowsAsOf(rows, run)
        BY <3>1 DEF RowsAsOf
      <4>3. VerdictsOf(RowsAsOf(listing.known, run))' = VerdictsOf(RowsAsOf(rows, run))
        BY <3>1, <4>2 DEF VerdictsOf, Receipt
      <4>4. s.run = run /\ ((s.asserted = 0 /\ s.broken = 0) <=>
                              VerdictsOf(RowsAsOf(rows, run)) \cap {"asserted", "broken"} = {})
        BY <4>1, <1>6
      <4>5. QED
        BY <4>3, <4>4 DEF Weighed, Clean
    <3>4. IsSeq(<< >>) /\ ToSet(<< >>) = {}
      BY EmptyIs DEF ToSet
    <3>5. QED
      BY <1>1, <3>1, <3>2, <3>3, <3>4
  <2>4. CASE ListRun
    <3> DEFINE summary == Head(listing.todo)
               run == summary.run
               leaves == RunLeaves(run)
               row == [run |-> run, rows |-> RunRows(run), status |-> RunStatus(leaves),
                       actions |-> CountActions(leaves), principal |-> RunPrincipal(leaves),
                       label |-> AttributionLabel(summary, leaves)]
    <3>1. /\ listing.todo # << >> /\ UNCHANGED <<log, rows>> /\ listing'.known = listing.known
          /\ listing'.todo = Tail(listing.todo) /\ listing'.out = Append(listing.out, row)
          /\ DOMAIN listing' = {"live", "todo", "known", "out"}
      BY <1>1, <2>4 DEF ListRun
    <3>2. /\ row.run = run /\ row.rows = RunRows(run) /\ row.status = RunStatus(leaves)
          /\ row.actions = CountActions(leaves) /\ row.label = AttributionLabel(summary, leaves)
      OBVIOUS
    <3>3. ToSet(row.rows) = leaves /\ leaves \subseteq rows
      <4> HIDE DEF row
      <4>1. QED
        BY <3>2, RowsAre
    <3> HIDE DEF row
    <3>4. /\ IsSeq(listing'.todo) /\ ToSet(listing'.todo) \subseteq ToSet(listing.todo)
          /\ summary \in ToSet(listing.todo)
      <4>1. /\ Len(listing.todo) > 0 /\ summary = listing.todo[1]
            /\ IsSeq(Tail(listing.todo)) /\ Len(Tail(listing.todo)) = Len(listing.todo) - 1
            /\ \A k \in 1..(Len(listing.todo) - 1) : Tail(listing.todo)[k] = listing.todo[k + 1]
        BY <1>1, <3>1, TailIs
      <4>2. /\ Len(listing.todo) \in Nat /\ DOMAIN listing.todo = 1..Len(listing.todo)
            /\ DOMAIN Tail(listing.todo) = 1..(Len(listing.todo) - 1)
        BY <1>1, <4>1, IsSeqHas
      <4>3. \A k \in 1..(Len(listing.todo) - 1) : k + 1 \in 1..Len(listing.todo)
        BY <4>2
      <4>4. 1 \in DOMAIN listing.todo
        BY <4>1, <4>2
      <4>5. QED
        BY <3>1, <4>1, <4>2, <4>3, <4>4 DEF ToSet
    <3>5. /\ IsSeq(listing'.out)
          /\ \A l \in ToSet(listing'.out) : l = row \/ l \in ToSet(listing.out)
      <4>1. /\ IsSeq(Append(listing.out, row)) /\ Len(Append(listing.out, row)) = Len(listing.out) + 1
            /\ \A k \in 1..Len(listing.out) : Append(listing.out, row)[k] = listing.out[k]
            /\ Append(listing.out, row)[Len(listing.out) + 1] = row
        BY <1>1, AppendIs
      <4>2. /\ Len(listing.out) \in Nat /\ DOMAIN listing.out = 1..Len(listing.out)
            /\ DOMAIN Append(listing.out, row) = 1..(Len(listing.out) + 1)
        BY <1>1, <4>1, IsSeqHas
      <4>3. \A k \in 1..(Len(listing.out) + 1) : k = Len(listing.out) + 1 \/ k \in 1..Len(listing.out)
        BY <4>2
      <4>4. QED
        BY <3>1, <4>1, <4>2, <4>3 DEF ToSet
    <3>6. Listed(row)
      <4>1. (summary.asserted = 0 /\ summary.broken = 0) <=> Clean(run)
        BY <3>4 DEF Verdicts, Weighed
      <4>2. /\ Clean(run) => row.label = "verified"
            /\ ~Clean(run) => row.label = IF UnverifiedHop(leaves, Broken) THEN "broken"
                                  ELSE IF UnverifiedHop(leaves, Asserted) THEN "unverified" ELSE "unattributed"
        BY <3>2, <4>1 DEF AttributionLabel
      <4>3. QED
        BY <3>2, <3>3, <4>2 DEF Listed
    <3>7. QED
      BY <1>1, <1>3, <1>4, <3>1, <3>4, <3>5, <3>6 DEF Verdicts
  <2>5. QED
    BY <2>1, <2>2, <2>3, <2>4, NextLists DEF vars
\* The export.
<1>8. \A p \in ToSet(page'.runs) : Shown(p)'
  <2>1. CASE UNCHANGED page
    BY <1>5, <2>1 DEF Verdicts
  <2>2. ASSUME NEW runs \in cast.pages, BuildPage(runs)
        PROVE  \A p \in ToSet(page'.runs) : Shown(p)'
    <3>1. page'.runs = [k \in DOMAIN runs |-> PageRun(runs[k])]
      BY <2>2 DEF BuildPage
    <3>2. ASSUME NEW run PROVE Shown(PageRun(run))
      <4> DEFINE p == PageRun(run)
                 leaves == RunLeaves(run)
      <4>1. /\ p.rows = RunRows(run) /\ p.status = RunStatus(leaves) /\ p.actions = CountActions(leaves)
            /\ p.attribution = WeakerOf(leaves) /\ p.rollup = Rollup(leaves)
        BY DEF PageRun
      <4>2. ToSet(p.rows) = leaves /\ leaves \subseteq rows
        BY <4>1, RowsAre
      <4>3. QED
        BY <4>1, <4>2 DEF Shown
    <3>3. \A p \in ToSet(page'.runs) : Shown(p)
      BY <3>1, <3>2 DEF ToSet
    <3>4. QED
      BY <3>3, <1>5
  <2>3. QED
    BY <2>1, <2>2, NextLists DEF vars
<1>9. QED
  BY <1>7, <1>8 DEF Verdicts

\* The weakest verdict of leaves, whichever way the verdicts are ranked.
LEMMA WeakestIs ==
    ASSUME NEW R, \A i \in R : Receipt(i).verdict \in {NoText, "verified", "asserted", "broken"},
           NEW rank, rank["verified"] \in Nat, rank["asserted"] \in Nat, rank["broken"] \in Nat,
           rank["verified"] < rank["asserted"], rank["asserted"] < rank["broken"]
    PROVE  Weakest(R, rank) = IF "broken" \in VerdictsOf(R) THEN "broken"
                                ELSE IF "asserted" \in VerdictsOf(R) THEN "asserted"
                                ELSE IF "verified" \in VerdictsOf(R) THEN "verified" ELSE NoText
<1> DEFINE V == {Receipt(i).verdict : i \in R} \ {NoText}
<1>1. V \subseteq {"verified", "asserted", "broken"}
  OBVIOUS
<1>2. \A v \in {"verified", "asserted", "broken"} : v \in V <=> v \in VerdictsOf(R)
  BY Words DEF VerdictsOf
<1>3. Weakest(R, rank) = IF V = {} THEN NoText
                           ELSE CHOOSE v \in V : \A w \in V : rank[w] <= rank[v]
  BY DEF Weakest
<1> HIDE DEF V
<1>4. ASSUME NEW v \in V, \A w \in V : w = v \/ rank[w] < rank[v]
      PROVE  Weakest(R, rank) = v
  <2>1. \A w \in V : rank[w] \in Nat
    BY <1>1
  <2>2. \A w \in V : (\A u \in V : rank[u] <= rank[w]) <=> w = v
    BY <1>4, <2>1
  <2>3. QED
    BY <1>3, <1>4, <2>2
<1>5. CASE "broken" \in V
  <2>1. \A w \in V : w = "broken" \/ rank[w] < rank["broken"]
    BY <1>1
  <2>2. QED
    BY <1>2, <1>4, <1>5, <2>1
<1>6. CASE "broken" \notin V /\ "asserted" \in V
  <2>1. \A w \in V : w = "asserted" \/ rank[w] < rank["asserted"]
    BY <1>1, <1>6
  <2>2. QED
    BY <1>2, <1>4, <1>6, <2>1
<1>7. CASE "broken" \notin V /\ "asserted" \notin V /\ "verified" \in V
  <2>1. \A w \in V : w = "verified" \/ rank[w] < rank["verified"]
    BY <1>1, <1>7
  <2>2. QED
    BY <1>2, <1>4, <1>7, <2>1
<1>8. CASE "broken" \notin V /\ "asserted" \notin V /\ "verified" \notin V
  <2>1. V = {}
    BY <1>1, <1>8
  <2>2. QED
    BY <1>2, <1>3, <1>8, <2>1
<1>9. QED
  BY <1>5, <1>6, <1>7, <1>8

\* A receipt's verdict, and when a hop of it is broken.
LEMMA VerdictIs ==
    ASSUME Indexed, NEW i \in rows
    PROVE  /\ Receipt(i).verdict \in {NoText, "verified", "asserted", "broken"}
           /\ Receipt(i).verdict = "broken" <=> "broken" \in ToSet(Receipt(i).hops)
<1>1. i \in 1..Len(log) /\ log[i].call \in DOMAIN Catalogue
  BY DEF Indexed
<1>2. PICK call \in DOMAIN Catalogue : call = log[i].call
  BY <1>1
<1>3. /\ {"slots", "verdict", "hops"} \subseteq DOMAIN Catalogue[call]
      /\ Catalogue[call].verdict \in {NoText, "verified", "asserted", "broken"}
      /\ Catalogue[call].verdict = "broken" <=> "broken" \in ToSet(Catalogue[call].hops)
  BY CatalogueAssumption
<1>4. Receipt(i).verdict = Catalogue[call].verdict /\ Receipt(i).hops = Catalogue[call].hops
  BY <1>1, <1>2, <1>3, ReceiptHas
<1>5. QED
  BY <1>3, <1>4

LEMMA RunVerdictIs ==
    ASSUME Indexed, NEW R \in SUBSET rows
    PROVE  /\ WeakerOf(R) = IF "broken" \in VerdictsOf(R) THEN "broken"
                              ELSE IF "asserted" \in VerdictsOf(R) THEN "asserted"
                              ELSE IF "verified" \in VerdictsOf(R) THEN "verified" ELSE NoText
           /\ DiffWeakest(R) = WeakerOf(R)
           /\ UnverifiedHop(R, Broken) <=> "broken" \in VerdictsOf(R)
<1>1. \A i \in R : /\ Receipt(i).verdict \in {NoText, "verified", "asserted", "broken"}
                   /\ Receipt(i).verdict = "broken" <=> "broken" \in ToSet(Receipt(i).hops)
  BY VerdictIs
<1> DEFINE worst == IF "broken" \in VerdictsOf(R) THEN "broken"
                      ELSE IF "asserted" \in VerdictsOf(R) THEN "asserted"
                      ELSE IF "verified" \in VerdictsOf(R) THEN "verified" ELSE NoText
           wide == [verified |-> 0, asserted |-> 1, broken |-> 3]
           narrow == [verified |-> 0, asserted |-> 1, broken |-> 2]
<1>2. /\ wide["verified"] = 0 /\ wide["asserted"] = 1 /\ wide["broken"] = 3
      /\ narrow["verified"] = 0 /\ narrow["asserted"] = 1 /\ narrow["broken"] = 2
  OBVIOUS
<1>3. WeakerOf(R) = Weakest(R, wide) /\ DiffWeakest(R) = Weakest(R, narrow)
  BY DEF WeakerOf, DiffWeakest
<1> HIDE DEF wide, narrow
<1>4. Weakest(R, wide) = worst
  BY <1>1, <1>2, WeakestIs
<1>5. Weakest(R, narrow) = worst
  BY <1>1, <1>2, WeakestIs
<1>6. UnverifiedHop(R, Broken) <=> "broken" \in VerdictsOf(R)
  <2>1. UnverifiedHop(R, Broken) <=>
           \E i \in R : Receipt(i).verdict # "verified" /\ "broken" \in ToSet(Receipt(i).hops)
    BY DEF UnverifiedHop, Broken
  <2>2. QED
    BY <1>1, <2>1 DEF VerdictsOf
<1>7. QED
  BY <1>3, <1>4, <1>5, <1>6

(* `behalf runs` says verified of no run that had an asserted or a broken
   receipt when it began, and the listing, the export and the diff give one
   verdict, one status and one count of actions to the same rows of a run
   (ListRuns, attributionLabel, loadRun, weakest). *)
THEOREM VerdictsAgree == Spec => []OneVerdict
<1> DEFINE Inv == Indexed /\ Verdicts
<1>1. Init => Inv
  BY IndexedFirst, VerdictsFirst
<1>2. Inv /\ [Next]_vars => Inv'
  BY IndexedKept, VerdictsKept
<1>3. ASSUME Inv PROVE OneVerdict
  <2>1. ASSUME NEW l \in ToSet(listing.out)
        PROVE  /\ Listed(l)
               /\ l.label = "verified" <=> Clean(l.run)
               /\ l.label = "broken" <=> ~Clean(l.run) /\ "broken" \in VerdictsOf(ToSet(l.rows))
    <3>1. Listed(l)
      BY <1>3 DEF Verdicts
    <3>2. UnverifiedHop(ToSet(l.rows), Broken) <=> "broken" \in VerdictsOf(ToSet(l.rows))
      BY <1>3, <3>1, RunVerdictIs DEF Listed
    <3>3. QED
      BY <3>1, <3>2 DEF Listed
  <2>2. \A l \in ToSet(listing.out) :
           l.label = "verified" =>
             VerdictsOf(RowsAsOf(listing.known, l.run)) \cap {"asserted", "broken"} = {}
    BY <2>1 DEF Clean
  <2>3. ASSUME NEW p \in ToSet(page.runs)
        PROVE  /\ p.rows = RunRows(p.run) => p.attribution = DiffWeakest(RunLeaves(p.run))
               /\ p.attribution = "verified" => p.rollup.asserted = 0 /\ p.rollup.broken = 0
               /\ \A l \in ToSet(listing.out) :
                     l.run = p.run /\ l.rows = p.rows /\ RowsAsOf(listing.known, l.run) = ToSet(l.rows) =>
                        /\ l.status = p.status /\ l.actions = p.actions
                        /\ l.label = "verified" <=> p.attribution \in {"verified", NoText}
                        /\ l.label = "broken" <=> p.attribution = "broken"
    <3> DEFINE R == ToSet(p.rows)
    <3>1. /\ R \in SUBSET rows /\ p.status = RunStatus(R) /\ p.actions = CountActions(R)
          /\ p.attribution = WeakerOf(R) /\ p.rollup = Rollup(R)
      BY <1>3 DEF Verdicts, Shown
    <3> HIDE DEF R
    <3>2. /\ p.attribution = IF "broken" \in VerdictsOf(R) THEN "broken"
                               ELSE IF "asserted" \in VerdictsOf(R) THEN "asserted"
                               ELSE IF "verified" \in VerdictsOf(R) THEN "verified" ELSE NoText
          /\ DiffWeakest(R) = WeakerOf(R)
      BY <1>3, <3>1, RunVerdictIs
    <3>3. ASSUME p.rows = RunRows(p.run) PROVE p.attribution = DiffWeakest(RunLeaves(p.run))
      <4>1. R = RunLeaves(p.run)
        BY <1>3, <3>3, RowsAre DEF R
      <4>2. QED
        BY <4>1, <3>1, <3>2
    <3>4. ASSUME p.attribution = "verified" PROVE p.rollup.asserted = 0 /\ p.rollup.broken = 0
      <4>1. "broken" \notin VerdictsOf(R) /\ "asserted" \notin VerdictsOf(R)
        BY <3>2, <3>4
      <4>2. /\ {i \in R : Receipt(i).kind \in ActionKinds /\ Receipt(i).verdict = "asserted"} = {}
            /\ {i \in R : Receipt(i).kind \in ActionKinds /\ Receipt(i).verdict = "broken"} = {}
        BY <4>1 DEF VerdictsOf
      <4>3. Cardinality({}) = 0
        BY FS_EmptySet
      <4> DEFINE Of(v) == Cardinality({i \in R : Receipt(i).kind \in ActionKinds /\ Receipt(i).verdict = v})
      <4>4. Of("asserted") = 0 /\ Of("broken") = 0
        BY <4>2, <4>3
      <4>5. p.rollup.asserted = Of("asserted") /\ p.rollup.broken = Of("broken")
        BY <3>1 DEF Rollup
      <4>6. QED
        BY <4>4, <4>5
    <3>5. ASSUME NEW l \in ToSet(listing.out), l.run = p.run, l.rows = p.rows,
                 RowsAsOf(listing.known, l.run) = ToSet(l.rows)
          PROVE  /\ l.status = p.status /\ l.actions = p.actions
                 /\ l.label = "verified" <=> p.attribution \in {"verified", NoText}
                 /\ l.label = "broken" <=> p.attribution = "broken"
      <4>1. ToSet(l.rows) = R
        BY <3>5 DEF R
      <4>2. l.status = p.status /\ l.actions = p.actions
        BY <2>1, <3>1, <4>1 DEF Listed
      <4>3. Clean(l.run) <=> "asserted" \notin VerdictsOf(R) /\ "broken" \notin VerdictsOf(R)
        BY <3>5, <4>1 DEF Clean
      <4>4. l.label = "verified" <=> p.attribution \in {"verified", NoText}
        BY <2>1, <3>2, <4>3, Words
      <4>5. l.label = "broken" <=> p.attribution = "broken"
        BY <2>1, <3>2, <4>1, <4>3, Words
      <4>6. QED
        BY <4>2, <4>4, <4>5
    <3>6. QED
      BY <3>3, <3>4, <3>5
  <2>4. QED
    BY <2>2, <2>3 DEF OneVerdict
<1>4. QED
  BY <1>1, <1>2, <1>3, PTL DEF Spec

-----------------------------------------------------------------------------
(* Walks: recursive functions over 0..n. *)

\* What holds first and goes on from each number to the next holds to the end.
LEMMA UpTo ==
    ASSUME NEW n \in Nat, NEW P, 0 \in P, \A k \in 1..n : k - 1 \in P => k \in P
    PROVE  \A k \in 0..n : k \in P
<1> DEFINE T == (0..n) \ P
<1> SUFFICES ASSUME T # {} PROVE FALSE
  OBVIOUS
<1>1. T \in SUBSET Nat
  OBVIOUS
<1>2. PICK k \in T : \A j \in T : k <= j
  BY <1>1, LeastIs
<1>3. k \in 0..n /\ k \notin P /\ k # 0
  OBVIOUS
<1>4. k \in 1..n /\ k - 1 \in 0..n /\ ~(k <= k - 1)
  BY <1>3
<1>5. k - 1 \in P
  BY <1>2, <1>4
<1>6. QED
  BY <1>3, <1>4, <1>5

\* A walk from a first value, by what goes on from the value before.
Goes(go, n, S) == go \in [(1..n) \X S -> S]
Walks(w, n, S, first, go) ==
    /\ w \in [0..n -> S] /\ w[0] = first
    /\ \A k \in 1..n : w[k] = go[<<k, w[k - 1]>>]

LEMMA WalkIs ==
    ASSUME NEW n \in Nat, NEW S, NEW first \in S, NEW go, Goes(go, n, S)
    PROVE  \E w : Walks(w, n, S, first, go)
<1> DEFINE P == {m \in 0..n : \E w : Walks(w, m, S, first, go)}
<1>1. 0 \in P
  <2> DEFINE w == [k \in 0..0 |-> first]
  <2>1. Walks(w, 0, S, first, go)
    BY DEF Walks
  <2>2. QED
    BY <2>1
<1>2. ASSUME NEW m \in 1..n, m - 1 \in P PROVE m \in P
  <2>1. PICK w : Walks(w, m - 1, S, first, go)
    BY <1>2
  <2>2. m - 1 \in 0..(m - 1) /\ m - 1 \in 0..m /\ 0 \in 0..(m - 1) /\ m \in 0..m /\ m # 0 /\ m \in 0..n
    OBVIOUS
  <2>3. PICK x : x = go[<<m, w[m - 1]>>]
    OBVIOUS
  <2>4. w[m - 1] \in S
    BY <2>1, <2>2 DEF Walks
  <2>5. x \in S
    BY <2>3, <2>4 DEF Goes
  <2> DEFINE v == [k \in 0..m |-> IF k = m THEN x ELSE w[k]]
  <2>6. \A k \in 0..(m - 1) : k \in 0..m /\ k # m /\ v[k] = w[k] /\ w[k] \in S
    BY <2>1 DEF Walks
  <2>7. v \in [0..m -> S] /\ v[0] = first /\ v[m] = x
    BY <2>1, <2>2, <2>5, <2>6 DEF Walks
  <2>8. ASSUME NEW k \in 1..m PROVE v[k] = go[<<k, v[k - 1]>>]
    <3>1. CASE k = m
      BY <3>1, <2>2, <2>3, <2>6, <2>7
    <3>2. CASE k # m
      <4>1. k \in 1..(m - 1) /\ k \in 0..(m - 1) /\ k - 1 \in 0..(m - 1)
        BY <3>2
      <4>2. w[k] = go[<<k, w[k - 1]>>]
        BY <4>1, <2>1 DEF Walks
      <4>3. v[k] = w[k] /\ v[k - 1] = w[k - 1]
        BY <4>1, <2>6
      <4>4. QED
        BY <4>2, <4>3
    <3>3. QED
      BY <3>1, <3>2
  <2> HIDE DEF v
  <2>9. Walks(v, m, S, first, go)
    BY <2>7, <2>8 DEF Walks
  <2>10. QED
    BY <2>2, <2>9
<1> HIDE DEF P
<1>3. \A k \in 0..n : k \in P
  BY <1>1, <1>2, UpTo
<1>4. QED
  BY <1>3 DEF P

-----------------------------------------------------------------------------
(* Pairs that cover a stretch of each run: every step of it once, in order. *)

Pairings == Seq([a : Nat, b : Nat])
Spans(s, n, lo, hi) ==
    /\ \A k \in 1..n : s[k] = 0 \/ s[k] \in (lo + 1)..hi
    /\ \A i \in (lo + 1)..hi : \E k \in 1..n : s[k] = i
    /\ \A k, l \in 1..n : k < l /\ s[k] # 0 /\ s[l] # 0 => s[k] < s[l]
Covers(pairs, la, ha, lb, hb) ==
    /\ pairs \in Pairings
    /\ \A k \in 1..Len(pairs) : pairs[k].a # 0 \/ pairs[k].b # 0
    /\ Spans(SideA(pairs), Len(pairs), la, ha)
    /\ Spans(SideB(pairs), Len(pairs), lb, hb)

LEMMA PairingIs ==
    ASSUME NEW p \in Pairings
    PROVE  /\ IsSeq(p) /\ Len(p) \in Nat /\ DOMAIN p = 1..Len(p)
           /\ \A k \in 1..Len(p) : p[k] \in [a : Nat, b : Nat] /\ p[k].a \in Nat /\ p[k].b \in Nat
<1>1. p \in Seq([a : Nat, b : Nat])
  BY DEF Pairings
<1>2. IsSeq(p) /\ Len(p) \in Nat /\ DOMAIN p = 1..Len(p)
  BY <1>1, SeqIs
<1>3. \A k \in 1..Len(p) : p[k] \in [a : Nat, b : Nat]
  <2>1. PICK S : S = [a : Nat, b : Nat]
    OBVIOUS
  <2>2. p \in Seq(S)
    BY <1>1, <2>1
  <2>3. \A k \in 1..Len(p) : p[k] \in S
    BY <2>2
  <2>4. QED
    BY <2>1, <2>3
<1>4. QED
  BY <1>2, <1>3

LEMMA SpansJoin ==
    ASSUME NEW m \in Nat, NEW n \in Nat, NEW lo \in Nat, NEW mid \in Nat, NEW hi \in Nat,
           lo <= mid, mid <= hi, NEW s, NEW t, NEW u, Spans(s, m, lo, mid), Spans(t, n, mid, hi),
           \A k \in 1..m : u[k] = s[k], \A k \in 1..n : u[m + k] = t[k]
    PROVE  Spans(u, m + n, lo, hi)
<1>1. \A k \in 1..(m + n) : k \in 1..m \/ (k - m \in 1..n /\ k = m + (k - m))
  OBVIOUS
<1>2. \A k \in 1..m : k \in 1..(m + n) /\ u[k] = s[k]
  OBVIOUS
<1>3. \A k \in 1..n : m + k \in 1..(m + n) /\ u[m + k] = t[k]
  OBVIOUS
<1>4. ASSUME NEW k \in 1..(m + n) PROVE u[k] = 0 \/ u[k] \in (lo + 1)..hi
  <2>1. CASE k \in 1..m
    BY <2>1 DEF Spans
  <2>2. CASE k - m \in 1..n /\ k = m + (k - m)
    BY <2>2 DEF Spans
  <2>3. QED
    BY <1>1, <2>1, <2>2
<1>5. ASSUME NEW i \in (lo + 1)..hi PROVE \E k \in 1..(m + n) : u[k] = i
  <2>1. CASE i \in (lo + 1)..mid
    BY <1>2, <2>1 DEF Spans
  <2>2. CASE i \in (mid + 1)..hi
    BY <1>3, <2>2 DEF Spans
  <2>3. QED
    BY <2>1, <2>2
<1>6. ASSUME NEW k \in 1..(m + n), NEW l \in 1..(m + n), k < l, u[k] # 0, u[l] # 0
      PROVE  u[k] < u[l]
  <2>1. CASE k \in 1..m /\ l \in 1..m
    BY <1>6, <2>1 DEF Spans
  <2>2. CASE k \in 1..m /\ l - m \in 1..n /\ l = m + (l - m)
    <3>1. u[k] \in (lo + 1)..mid
      BY <1>6, <2>2 DEF Spans
    <3>2. u[l] \in (mid + 1)..hi
      BY <1>6, <2>2 DEF Spans
    <3>3. QED
      BY <3>1, <3>2
  <2>3. CASE k - m \in 1..n /\ k = m + (k - m) /\ l - m \in 1..n /\ l = m + (l - m)
    <3>1. k - m < l - m
      BY <1>6
    <3>2. u[k] = t[k - m] /\ u[l] = t[l - m]
      BY <2>3
    <3>3. QED
      BY <1>6, <2>3, <3>1, <3>2 DEF Spans
  <2>4. QED
    BY <1>1, <1>6, <2>1, <2>2, <2>3
<1>7. QED
  BY <1>4, <1>5, <1>6 DEF Spans

\* Pairs that cover a stretch, and those that cover the next, cover both.
LEMMA CoversJoin ==
    ASSUME NEW la \in Nat, NEW ma \in Nat, NEW ha \in Nat, NEW lb \in Nat, NEW mb \in Nat, NEW hb \in Nat,
           la <= ma, ma <= ha, lb <= mb, mb <= hb,
           NEW p, Covers(p, la, ma, lb, mb), NEW q, Covers(q, ma, ha, mb, hb)
    PROVE  Covers(p \o q, la, ha, lb, hb)
<1>1. PICK m, n, r : m = Len(p) /\ n = Len(q) /\ r = p \o q
  OBVIOUS
<1>2. /\ p \in Pairings /\ q \in Pairings /\ IsSeq(p) /\ IsSeq(q)
      /\ m \in Nat /\ n \in Nat /\ DOMAIN p = 1..m /\ DOMAIN q = 1..n
  BY <1>1, PairingIs DEF Covers
<1>a. r \in Pairings
  BY <1>1, <1>2 DEF Pairings
<1>3. /\ IsSeq(r) /\ Len(r) = m + n /\ DOMAIN r = 1..(m + n)
      /\ \A k \in 1..m : r[k] = p[k]
      /\ \A k \in 1..n : r[m + k] = q[k]
  BY <1>1, <1>2, ConcatIs, IsSeqHas
<1>4. \A k \in 1..(m + n) : k \in 1..m \/ (k - m \in 1..n /\ k = m + (k - m))
  BY <1>2
<1>5. /\ \A k \in 1..m : k \in 1..(m + n)
      /\ \A k \in 1..n : m + k \in 1..(m + n)
  BY <1>2
<1>6. \A k \in 1..(m + n) : r[k].a # 0 \/ r[k].b # 0
  <2>1. /\ \A k \in 1..m : p[k].a # 0 \/ p[k].b # 0
        /\ \A k \in 1..n : q[k].a # 0 \/ q[k].b # 0
    BY <1>1 DEF Covers
  <2>2. QED
    BY <1>3, <1>4, <2>1, SMTT(20)
<1>7. Spans(SideA(r), m + n, la, ha)
  <2>1. Spans(SideA(p), m, la, ma) /\ Spans(SideA(q), n, ma, ha)
    BY <1>1 DEF Covers
  <2>2. /\ \A k \in 1..m : SideA(r)[k] = SideA(p)[k]
        /\ \A k \in 1..n : SideA(r)[m + k] = SideA(q)[k]
    BY <1>2, <1>3, <1>5 DEF SideA
  <2>3. QED
    BY <1>2, <2>1, <2>2, SpansJoin
<1>8. Spans(SideB(r), m + n, lb, hb)
  <2>1. Spans(SideB(p), m, lb, mb) /\ Spans(SideB(q), n, mb, hb)
    BY <1>1 DEF Covers
  <2>2. /\ \A k \in 1..m : SideB(r)[k] = SideB(p)[k]
        /\ \A k \in 1..n : SideB(r)[m + k] = SideB(q)[k]
    BY <1>2, <1>3, <1>5 DEF SideB
  <2>3. QED
    BY <1>2, <2>1, <2>2, SpansJoin
<1>9. QED
  BY <1>1, <1>a, <1>3, <1>6, <1>7, <1>8 DEF Covers

LEMMA ListIs ==
    ASSUME NEW n \in Nat, NEW p, p = [k \in 1..n |-> p[k]],
           \A k \in 1..n : p[k] \in [a : Nat, b : Nat]
    PROVE  p \in Pairings /\ Len(p) = n /\ DOMAIN p = 1..n
<1>1. p \in [1..n -> [a : Nat, b : Nat]]
  OBVIOUS
<1>2. QED
  BY <1>1 DEF Pairings

LEMMA RunOfBoth ==
    ASSUME NEW n \in Nat, NEW p, p = [k \in 1..n |-> Both(k, k)]
    PROVE  Covers(p, 0, n, 0, n)
<1>1. p \in Pairings /\ Len(p) = n /\ DOMAIN p = 1..n
  <2>1. \A k \in 1..n : p[k] \in [a : Nat, b : Nat]
    BY DEF Both
  <2>2. QED
    BY <2>1, ListIs
<1>2. \A k \in 1..n : p[k].a = k /\ p[k].b = k /\ p[k].a # 0
  BY DEF Both
<1>3. \A k \in 1..n : SideA(p)[k] = k /\ SideB(p)[k] = k
  BY <1>1, <1>2 DEF SideA, SideB
<1>4. \A k \in (0 + 1)..n : k \in 1..n
  OBVIOUS
<1>5. Spans(SideA(p), n, 0, n) /\ Spans(SideB(p), n, 0, n)
  BY <1>3, <1>4 DEF Spans
<1>6. QED
  BY <1>1, <1>2, <1>5 DEF Covers

LEMMA RunOfA ==
    ASSUME NEW n \in Nat, NEW lo \in Nat, NEW j \in Nat, NEW p, p = [k \in 1..n |-> OnlyA(lo + k)]
    PROVE  Covers(p, lo, lo + n, j, j)
<1>1. p \in Pairings /\ Len(p) = n /\ DOMAIN p = 1..n
  <2>1. \A k \in 1..n : p[k] \in [a : Nat, b : Nat]
    BY DEF OnlyA
  <2>2. QED
    BY <2>1, ListIs
<1>2. \A k \in 1..n : p[k].a = lo + k /\ p[k].b = 0 /\ p[k].a # 0
  BY DEF OnlyA
<1>3. \A k \in 1..n : SideA(p)[k] = lo + k /\ SideB(p)[k] = 0
  BY <1>1, <1>2 DEF SideA, SideB
<1>4. \A i \in (lo + 1)..(lo + n) : i - lo \in 1..n /\ i = lo + (i - lo)
  OBVIOUS
<1>5. Spans(SideA(p), n, lo, lo + n)
  <2>1. \A k \in 1..n : lo + k \in (lo + 1)..(lo + n)
    OBVIOUS
  <2>2. \A k, l \in 1..n : k < l => lo + k < lo + l
    OBVIOUS
  <2>3. QED
    BY <1>3, <1>4, <2>1, <2>2 DEF Spans
<1>6. Spans(SideB(p), n, j, j)
  BY <1>3 DEF Spans
<1>7. QED
  BY <1>1, <1>2, <1>5, <1>6 DEF Covers

LEMMA RunOfB ==
    ASSUME NEW n \in Nat, NEW lo \in Nat, NEW i \in Nat, NEW p, p = [k \in 1..n |-> OnlyB(lo + k)]
    PROVE  Covers(p, i, i, lo, lo + n)
<1>1. p \in Pairings /\ Len(p) = n /\ DOMAIN p = 1..n
  <2>1. \A k \in 1..n : p[k] \in [a : Nat, b : Nat]
    BY DEF OnlyB
  <2>2. QED
    BY <2>1, ListIs
<1>2. \A k \in 1..n : p[k].b = lo + k /\ p[k].a = 0 /\ p[k].b # 0
  BY DEF OnlyB
<1>3. \A k \in 1..n : SideB(p)[k] = lo + k /\ SideA(p)[k] = 0
  BY <1>1, <1>2 DEF SideA, SideB
<1>4. \A j \in (lo + 1)..(lo + n) : j - lo \in 1..n /\ j = lo + (j - lo)
  OBVIOUS
<1>5. Spans(SideB(p), n, lo, lo + n)
  <2>1. \A k \in 1..n : lo + k \in (lo + 1)..(lo + n)
    OBVIOUS
  <2>2. \A k, l \in 1..n : k < l => lo + k < lo + l
    OBVIOUS
  <2>3. QED
    BY <1>3, <1>4, <2>1, <2>2 DEF Spans
<1>6. Spans(SideA(p), n, i, i)
  BY <1>3 DEF Spans
<1>7. QED
  BY <1>1, <1>2, <1>5, <1>6 DEF Covers

LEMMA OneCovers ==
    ASSUME NEW i \in Nat, NEW j \in Nat, NEW x
    PROVE  /\ x = Both(i + 1, j + 1) => Covers(<<x>>, i, i + 1, j, j + 1)
           /\ x = OnlyA(i + 1) => Covers(<<x>>, i, i + 1, j, j)
           /\ x = OnlyB(j + 1) => Covers(<<x>>, i, i, j, j + 1)
<1>1. PICK p : p = <<x>>
  OBVIOUS
<1>2. p = [k \in 1..1 |-> x] /\ 1 \in 1..1 /\ \A k \in 1..1 : k = 1
  BY <1>1
<1>3. IsSeq(p) /\ Len(p) = 1 /\ DOMAIN p = 1..1 /\ p[1] = x
  <2>1. p \in Seq({x})
    BY <1>1
  <2>2. IsSeq(p)
    BY <2>1, SeqIs
  <2>3. QED
    BY <1>1, <2>2
<1>a. x \in [a : Nat, b : Nat] => p \in Pairings
  BY <1>1 DEF Pairings
<1>4. SideA(p)[1] = x.a /\ SideB(p)[1] = x.b
  BY <1>2, <1>3 DEF SideA, SideB
<1>5. /\ \A l \in (i + 1)..(i + 1) : l = i + 1
      /\ \A l \in (j + 1)..(j + 1) : l = j + 1
      /\ i + 1 \in (i + 1)..(i + 1) /\ j + 1 \in (j + 1)..(j + 1)
  OBVIOUS
<1>6. x.a = i + 1 => Spans(SideA(p), 1, i, i + 1)
  BY <1>2, <1>4, <1>5 DEF Spans
<1>7. x.b = j + 1 => Spans(SideB(p), 1, j, j + 1)
  BY <1>2, <1>4, <1>5 DEF Spans
<1>8. x.a = 0 => Spans(SideA(p), 1, i, i)
  BY <1>2, <1>4 DEF Spans
<1>9. x.b = 0 => Spans(SideB(p), 1, j, j)
  BY <1>2, <1>4 DEF Spans
<1>10. x.a # 0 \/ x.b # 0 => \A k \in 1..Len(p) : p[k].a # 0 \/ p[k].b # 0
  BY <1>2, <1>3
<1>11. /\ x = Both(i + 1, j + 1) => x.a = i + 1 /\ x.b = j + 1
       /\ x = OnlyA(i + 1) => x.a = i + 1 /\ x.b = 0
       /\ x = OnlyB(j + 1) => x.a = 0 /\ x.b = j + 1
       /\ i + 1 # 0 /\ j + 1 # 0
       /\ x \in {Both(i + 1, j + 1), OnlyA(i + 1), OnlyB(j + 1)} => x \in [a : Nat, b : Nat]
  BY DEF Both, OnlyA, OnlyB
<1>12. QED
  BY <1>1, <1>a, <1>3, <1>6, <1>7, <1>8, <1>9, <1>10, <1>11 DEF Covers

LEMMA NoneCovers ==
    ASSUME NEW i \in Nat, NEW j \in Nat
    PROVE  Covers(<< >>, i, i, j, j)
<1>1. PICK p : p = << >>
  OBVIOUS
<1>2. p \in Pairings /\ Len(p) = 0 /\ 1..0 = {}
  BY <1>1, EmptyIs DEF Pairings
<1>3. Spans(SideA(p), 0, i, i) /\ Spans(SideB(p), 0, j, j)
  BY <1>2 DEF Spans
<1>4. QED
  BY <1>1, <1>2, <1>3 DEF Covers

LEMMA OneSideCovers ==
    ASSUME NEW a, IsSeq(a), NEW b, IsSeq(b)
    PROVE  Covers(OnlyOneSide(a, b), 0, Len(a), 0, Len(b))
<1>1. PICK m, n, p, q : /\ m = Len(a) /\ n = Len(b)
                        /\ p = [k \in 1..m |-> OnlyA(0 + k)] /\ q = [k \in 1..n |-> OnlyB(0 + k)]
  OBVIOUS
<1>2. m \in Nat /\ n \in Nat /\ DOMAIN a = 1..m /\ DOMAIN b = 1..n
  BY <1>1, IsSeqHas
<1>3. Covers(p, 0, 0 + m, 0, 0) /\ Covers(q, m, m, 0, 0 + n)
  BY <1>1, <1>2, RunOfA, RunOfB
<1>4. 0 + m = m /\ 0 + n = n /\ 0 <= m /\ m <= m /\ 0 <= n /\ 0 \in Nat /\ 0 <= 0
  BY <1>2
<1>5. Covers(p \o q, 0, m, 0, n)
  BY <1>2, <1>3, <1>4, CoversJoin
<1>6. p = [i \in DOMAIN a |-> OnlyA(i)] /\ q = [j \in DOMAIN b |-> OnlyB(j)]
  BY <1>1, <1>2 DEF OnlyA, OnlyB
<1>7. QED
  BY <1>1, <1>5, <1>6 DEF OnlyOneSide

LEMMA ZipCovers ==
    ASSUME NEW a, IsSeq(a), NEW b, IsSeq(b)
    PROVE  Covers(ZipPositional(a, b), 0, Len(a), 0, Len(b))
<1>1. PICK l, m, n : l = Len(a) /\ m = Len(b) /\ n = IF m < l THEN m ELSE l
  OBVIOUS
<1>2. l \in Nat /\ m \in Nat /\ n \in Nat /\ l - n \in Nat /\ m - n \in Nat
  BY <1>1, IsSeqHas
<1>3. PICK p, q, r : /\ p = [k \in 1..n |-> Both(k, k)]
                     /\ q = [k \in 1..(l - n) |-> OnlyA(n + k)]
                     /\ r = [k \in 1..(m - n) |-> OnlyB(n + k)]
  OBVIOUS
<1>4. n + (l - n) = l /\ n + (m - n) = m /\ 0 <= n /\ n <= l /\ n <= m /\ 0 \in Nat /\ l <= l /\ n <= n
  BY <1>2
<1>5. Covers(p, 0, n, 0, n)
  BY <1>2, <1>3, RunOfBoth
<1>6. Covers(q, n, n + (l - n), n, n) /\ Covers(r, l, l, n, n + (m - n))
  BY <1>2, <1>3, RunOfA, RunOfB
<1>7. Covers(p \o q, 0, l, 0, n)
  BY <1>2, <1>4, <1>5, <1>6, CoversJoin
<1>8. Covers((p \o q) \o r, 0, l, 0, m)
  BY <1>2, <1>4, <1>6, <1>7, CoversJoin
<1>9. QED
  BY <1>1, <1>3, <1>8 DEF ZipPositional

LEMMA ShiftedCovers ==
    ASSUME NEW n \in Nat, NEW m \in Nat, NEW p, Covers(p, 0, n, 0, m), NEW i \in Nat, NEW j \in Nat
    PROVE  Covers(Shifted(p, i, j), i, i + n, j, j + m)
<1>1. PICK l, q : l = Len(p) /\ q = Shifted(p, i, j)
  OBVIOUS
<1>2. l \in Nat /\ DOMAIN p = 1..l /\ \A k \in 1..l : p[k].a \in Nat /\ p[k].b \in Nat
  BY <1>1, PairingIs DEF Covers
<1>3. /\ \A k \in 1..l : p[k].a # 0 \/ p[k].b # 0
      /\ Spans(SideA(p), l, 0, n) /\ Spans(SideB(p), l, 0, m)
  BY <1>1 DEF Covers
<1>4. q = [k \in 1..l |-> [a |-> IF p[k].a = 0 THEN 0 ELSE p[k].a + i,
                           b |-> IF p[k].b = 0 THEN 0 ELSE p[k].b + j]]
  BY <1>1, <1>2 DEF Shifted
<1>5. q \in Pairings /\ Len(q) = l /\ DOMAIN q = 1..l
  <2>1. \A k \in 1..l : q[k] \in [a : Nat, b : Nat]
    BY <1>2, <1>4
  <2>2. q = [k \in 1..l |-> q[k]]
    BY <1>4
  <2>3. QED
    BY <1>2, <2>1, <2>2, ListIs
<1>6. /\ \A k \in 1..l : SideA(q)[k] = IF SideA(p)[k] = 0 THEN 0 ELSE SideA(p)[k] + i
      /\ \A k \in 1..l : SideB(q)[k] = IF SideB(p)[k] = 0 THEN 0 ELSE SideB(p)[k] + j
      /\ \A k \in 1..l : SideA(p)[k] = p[k].a /\ SideB(p)[k] = p[k].b
      /\ \A k \in 1..l : SideA(q)[k] = q[k].a /\ SideB(q)[k] = q[k].b
  BY <1>2, <1>4, <1>5 DEF SideA, SideB
<1>7. ASSUME NEW s, NEW t, NEW d \in Nat, NEW h \in Nat, Spans(s, l, 0, h),
             \A k \in 1..l : t[k] = IF s[k] = 0 THEN 0 ELSE s[k] + d
      PROVE  Spans(t, l, d, d + h)
  <2>1. ASSUME NEW k \in 1..l PROVE t[k] = 0 \/ t[k] \in (d + 1)..(d + h)
    <3>1. s[k] = 0 \/ s[k] \in (0 + 1)..h
      BY <1>7 DEF Spans
    <3>2. QED
      BY <1>7, <3>1
  <2>2. ASSUME NEW x \in (d + 1)..(d + h) PROVE \E k \in 1..l : t[k] = x
    <3>1. x - d \in (0 + 1)..h /\ x - d # 0 /\ (x - d) + d = x
      OBVIOUS
    <3>2. PICK k \in 1..l : s[k] = x - d
      BY <1>7, <3>1 DEF Spans
    <3>3. QED
      BY <1>7, <3>1, <3>2
  <2>3. ASSUME NEW k \in 1..l, NEW g \in 1..l, k < g, t[k] # 0, t[g] # 0 PROVE t[k] < t[g]
    <3>1. s[k] # 0 /\ s[g] # 0 /\ t[k] = s[k] + d /\ t[g] = s[g] + d
      BY <1>7, <2>3
    <3>2. s[k] < s[g] /\ s[k] \in (0 + 1)..h /\ s[g] \in (0 + 1)..h
      BY <1>7, <2>3, <3>1 DEF Spans
    <3>3. QED
      BY <3>1, <3>2
  <2>4. QED
    BY <2>1, <2>2, <2>3 DEF Spans
<1>8. Spans(SideA(q), l, i, i + n) /\ Spans(SideB(q), l, j, j + m)
  BY <1>3, <1>6, <1>7
<1>9. \A k \in 1..l : q[k].a # 0 \/ q[k].b # 0
  <2>1. \A k \in 1..l : /\ SideA(p)[k] # 0 => SideA(p)[k] \in (0 + 1)..n
                        /\ SideB(p)[k] # 0 => SideB(p)[k] \in (0 + 1)..m
    BY <1>3 DEF Spans
  <2>2. QED
    BY <1>3, <1>6, <2>1
<1>10. QED
  BY <1>1, <1>5, <1>8, <1>9 DEF Covers

LEMMA PartIs ==
    ASSUME NEW a, IsSeq(a), NEW x \in Nat, NEW y \in Nat, x < y, y <= Len(a) + 1
    PROVE  IsSeq(SubSeq(a, x + 1, y - 1)) /\ Len(SubSeq(a, x + 1, y - 1)) = (y - 1) - x
<1>1. PICK S : a \in Seq(S)
  BY DEF IsSeq
<1>2. SubSeq(a, x + 1, y - 1) \in Seq(S) /\ Len(SubSeq(a, x + 1, y - 1)) = (y - 1) - x
  BY <1>1
<1>3. QED
  BY <1>2, SeqIs

-----------------------------------------------------------------------------
(* The table of scores, and what a matching is worth. *)

LEMMA ScoreIs ==
    ASSUME NEW a, NEW b, NEW i \in Int, NEW j \in Int
    PROVE  Score(a, b, i, j) \in Int
<1>1. PICK d, s : d = Distance(i, j) /\ s = Similarity(a[i], b[j], d)
  OBVIOUS
<1>2. d \in Int
  BY <1>1 DEF Distance
<1>3. Proximity(d) \in Int
  BY <1>2 DEF Proximity
<1>4. s \in Int
  BY <1>1, <1>3 DEF Similarity, Certain
<1>5. QED
  BY <1>1, <1>4 DEF Score, Certain

LEMMA BetterIs ==
    ASSUME NEW x \in Int, NEW y \in Int
    PROVE  Better(x, y) \in {x, y} /\ Better(x, y) >= x /\ Better(x, y) >= y /\ Better(x, y) \in Int
BY DEF Better

RowsOf(b) == [0..Len(b) -> Int]
CellOf(a, b, above, i, j, left) ==
    Better(Better(above[j - 1] + Score(a, b, i, j), above[j] + Gap), left + Gap)

LEMMA CellIs ==
    ASSUME NEW a, NEW b, IsSeq(b), NEW i \in Int, NEW above \in RowsOf(b), NEW j \in 1..Len(b), NEW left \in Int
    PROVE  /\ CellOf(a, b, above, i, j, left) \in Int
           /\ CellOf(a, b, above, i, j, left) >= above[j - 1] + Score(a, b, i, j)
           /\ CellOf(a, b, above, i, j, left) >= above[j] + Gap
           /\ CellOf(a, b, above, i, j, left) >= left + Gap
           /\ CellOf(a, b, above, i, j, left)
                \in {above[j - 1] + Score(a, b, i, j), above[j] + Gap, left + Gap}
<1>1. j \in 0..Len(b) /\ j - 1 \in 0..Len(b) /\ j \in Int
  BY IsSeqHas
<1>2. PICK x, y, z : x = above[j - 1] + Score(a, b, i, j) /\ y = above[j] + Gap /\ z = left + Gap
  OBVIOUS
<1>3. above[j - 1] \in Int /\ above[j] \in Int /\ Score(a, b, i, j) \in Int
  BY <1>1, ScoreIs DEF RowsOf
<1>4. x \in Int /\ y \in Int /\ z \in Int
  BY <1>2, <1>3 DEF Gap
<1>5. PICK u : u = Better(x, y)
  OBVIOUS
<1>6. u \in {x, y} /\ u >= x /\ u >= y /\ u \in Int
  BY <1>4, <1>5, BetterIs
<1>7. PICK v : v = Better(u, z)
  OBVIOUS
<1>8. v \in {u, z} /\ v >= u /\ v >= z /\ v \in Int
  BY <1>4, <1>6, <1>7, BetterIs
<1>9. CellOf(a, b, above, i, j, left) = v
  BY <1>2, <1>5, <1>7 DEF CellOf
<1>10. v >= x /\ v >= y /\ v \in {x, y, z}
  BY <1>4, <1>6, <1>8
<1>11. QED
  BY <1>2, <1>8, <1>9, <1>10

LEMMA NextRowIs ==
    ASSUME NEW a, NEW b, IsSeq(b), NEW i \in Int, NEW above \in RowsOf(b)
    PROVE  /\ NextRow(a, b, above, i) \in RowsOf(b)
           /\ NextRow(a, b, above, i)[0] = above[0] + Gap
           /\ \A j \in 1..Len(b) : NextRow(a, b, above, i)[j]
                                     = CellOf(a, b, above, i, j, NextRow(a, b, above, i)[j - 1])
<1> DEFINE B == Len(b)
           C(j, x) == CellOf(a, b, above, i, j, x)
           Is(w) == w = [j \in 0..B |-> IF j = 0 THEN above[0] + Gap ELSE C(j, w[j - 1])]
           go == [c \in (1..B) \X Int |-> C(c[1], c[2])]
<1>1. B \in Nat /\ 0 \in 0..B
  BY IsSeqHas
<1>2. above[0] + Gap \in Int
  BY <1>1 DEF RowsOf, Gap
<1>3. \A j \in 1..B, x \in Int : C(j, x) \in Int
  BY CellIs
<1> HIDE DEF C, B
<1>4. Goes(go, B, Int)
  BY <1>3 DEF Goes
<1>5. PICK w : Walks(w, B, Int, above[0] + Gap, go)
  <2> HIDE DEF go
  <2>1. QED
    BY <1>1, <1>2, <1>4, WalkIs
<1>6. Is(w)
  <2>1. w = [j \in 0..B |-> w[j]] /\ w[0] = above[0] + Gap /\ \A j \in 0..B : w[j] \in Int
    BY <1>5 DEF Walks
  <2>2. ASSUME NEW j \in 1..B PROVE w[j] = C(j, w[j - 1])
    <3>1. j - 1 \in 0..B
      BY <1>1
    <3>2. <<j, w[j - 1]>> \in (1..B) \X Int
      BY <2>1, <3>1
    <3>3. w[j] = go[<<j, w[j - 1]>>]
      BY <1>5 DEF Walks
    <3>4. QED
      BY <3>2, <3>3
  <2>3. ASSUME NEW j \in 0..B PROVE w[j] = IF j = 0 THEN above[0] + Gap ELSE C(j, w[j - 1])
    <3>1. CASE j = 0
      BY <2>1, <3>1
    <3>2. CASE j # 0
      <4>1. j \in 1..B
        BY <1>1, <3>2
      <4>2. QED
        BY <2>2, <3>2, <4>1
    <3>3. QED
      BY <3>1, <3>2
  <2>4. QED
    BY <2>1, <2>3
<1>7. PICK r : r = CHOOSE u : Is(u)
  OBVIOUS
<1>8. Is(r)
  BY <1>6, <1>7
<1>9. NextRow(a, b, above, i) = r
  BY <1>7 DEF NextRow, C, CellOf, B
<1>10. r = [j \in 0..B |-> r[j]] /\ r[0] = above[0] + Gap /\ \A j \in 1..B : r[j] = C(j, r[j - 1])
  BY <1>1, <1>8
<1>11. \A j \in 0..B : r[j] \in Int
  <2> DEFINE P == {j \in 0..B : r[j] \in Int}
  <2>1. 0 \in P
    BY <1>1, <1>2, <1>10
  <2>2. ASSUME NEW j \in 1..B, j - 1 \in P PROVE j \in P
    <3>1. r[j - 1] \in Int /\ j \in 0..B
      BY <1>1, <2>2
    <3>2. r[j] = C(j, r[j - 1])
      BY <1>10
    <3>3. QED
      BY <1>3, <3>1, <3>2
  <2> HIDE DEF P
  <2>3. \A j \in 0..B : j \in P
    BY <1>1, <2>1, <2>2, UpTo
  <2>4. QED
    BY <2>3 DEF P
<1>12. r \in RowsOf(b)
  BY <1>10, <1>11 DEF RowsOf, B
<1>13. QED
  BY <1>9, <1>10, <1>12 DEF B, C

\* What is so of the cells of a filled table.
Table(dp, a, b) ==
    /\ \A i \in 0..Len(a) : dp[i] \in RowsOf(b)
    /\ \A j \in 0..Len(b) : dp[0][j] = j * Gap
    /\ \A i \in 1..Len(a) : dp[i][0] = dp[i - 1][0] + Gap
    /\ \A i \in 1..Len(a), j \in 1..Len(b) : dp[i][j] = CellOf(a, b, dp[i - 1], i, j, dp[i][j - 1])

LEMMA FilledIs ==
    ASSUME NEW a, IsSeq(a), NEW b, IsSeq(b)
    PROVE  Table(Filled(a, b), a, b)
<1> DEFINE A == Len(a)
           B == Len(b)
           Rows == RowsOf(b)
           first == [j \in 0..B |-> j * Gap]
           C(i, x) == NextRow(a, b, x, i)
           Is(w) == w = [i \in 0..A |-> IF i = 0 THEN first ELSE C(i, w[i - 1])]
           go == [c \in (1..A) \X Rows |-> C(c[1], c[2])]
<1>1. A \in Nat /\ B \in Nat /\ 0 \in 0..A
  BY IsSeqHas
<1>2. first \in Rows /\ \A j \in 0..B : first[j] = j * Gap
  BY <1>1 DEF RowsOf, Gap
<1>3. \A i \in 1..A, x \in Rows :
         /\ C(i, x) \in Rows /\ C(i, x)[0] = x[0] + Gap
         /\ \A j \in 1..B : C(i, x)[j] = CellOf(a, b, x, i, j, C(i, x)[j - 1])
  BY NextRowIs
<1> HIDE DEF C, A, B, Rows, first
<1>4. Goes(go, A, Rows)
  BY <1>3 DEF Goes
<1>5. PICK w : Walks(w, A, Rows, first, go)
  <2> HIDE DEF go
  <2>1. QED
    BY <1>1, <1>2, <1>4, WalkIs
<1>6. Is(w)
  <2>1. w = [i \in 0..A |-> w[i]] /\ w[0] = first /\ \A i \in 0..A : w[i] \in Rows
    BY <1>5 DEF Walks
  <2>2. ASSUME NEW i \in 1..A PROVE w[i] = C(i, w[i - 1])
    <3>1. i - 1 \in 0..A
      BY <1>1
    <3>2. <<i, w[i - 1]>> \in (1..A) \X Rows
      BY <2>1, <3>1
    <3>3. w[i] = go[<<i, w[i - 1]>>]
      BY <1>5 DEF Walks
    <3>4. QED
      BY <3>2, <3>3
  <2>3. ASSUME NEW i \in 0..A PROVE w[i] = IF i = 0 THEN first ELSE C(i, w[i - 1])
    <3>1. CASE i = 0
      BY <2>1, <3>1
    <3>2. CASE i # 0
      <4>1. i \in 1..A
        BY <1>1, <3>2
      <4>2. QED
        BY <2>2, <3>2, <4>1
    <3>3. QED
      BY <3>1, <3>2
  <2>4. QED
    BY <2>1, <2>3
<1>7. PICK dp : dp = CHOOSE u : Is(u)
  OBVIOUS
<1>8. Is(dp)
  BY <1>6, <1>7
<1>9. Filled(a, b) = dp
  BY <1>7 DEF Filled, C, A, B, first
<1>10. dp[0] = first /\ \A i \in 1..A : dp[i] = C(i, dp[i - 1])
  BY <1>1, <1>8
<1>11. \A i \in 0..A : dp[i] \in Rows
  <2> DEFINE P == {i \in 0..A : dp[i] \in Rows}
  <2>1. 0 \in P
    BY <1>1, <1>2, <1>10
  <2>2. \A i \in 1..A : i - 1 \in P => i \in P
    BY <1>1, <1>3, <1>10
  <2> HIDE DEF P
  <2>3. \A i \in 0..A : i \in P
    BY <1>1, <2>1, <2>2, UpTo
  <2>4. QED
    BY <2>3 DEF P
<1>12. ASSUME NEW i \in 1..A
       PROVE  /\ dp[i][0] = dp[i - 1][0] + Gap
              /\ \A j \in 1..B : dp[i][j] = CellOf(a, b, dp[i - 1], i, j, dp[i][j - 1])
  <2>1. i - 1 \in 0..A
    BY <1>1
  <2>2. PICK x : x = dp[i - 1]
    OBVIOUS
  <2>3. x \in Rows /\ dp[i] = C(i, x)
    BY <1>10, <1>11, <2>1, <2>2
  <2>4. /\ C(i, x)[0] = x[0] + Gap
        /\ \A j \in 1..B : C(i, x)[j] = CellOf(a, b, x, i, j, C(i, x)[j - 1])
    BY <1>3, <2>3
  <2>5. QED
    BY <2>2, <2>3, <2>4
<1>13. Table(dp, a, b)
  BY <1>2, <1>10, <1>11, <1>12 DEF Table, A, B, Rows
<1>14. QED
  BY <1>9, <1>13

\* A cell by its neighbours.
LEMMA TableCell ==
    ASSUME NEW a, IsSeq(a), NEW b, IsSeq(b), NEW dp, Table(dp, a, b), NEW i \in 1..Len(a), NEW j \in 1..Len(b)
    PROVE  /\ dp[i][j] \in Int /\ dp[i - 1][j - 1] \in Int /\ dp[i - 1][j] \in Int /\ dp[i][j - 1] \in Int
           /\ Score(a, b, i, j) \in Int
           /\ dp[i][j] >= dp[i - 1][j - 1] + Score(a, b, i, j)
           /\ dp[i][j] >= dp[i - 1][j] + Gap
           /\ dp[i][j] >= dp[i][j - 1] + Gap
           /\ dp[i][j] \in {dp[i - 1][j - 1] + Score(a, b, i, j), dp[i - 1][j] + Gap, dp[i][j - 1] + Gap}
<1>1. /\ i \in Int /\ j \in Int /\ i \in 0..Len(a) /\ i - 1 \in 0..Len(a)
      /\ j \in 0..Len(b) /\ j - 1 \in 0..Len(b)
  BY IsSeqHas
<1>2. PICK above, this : above = dp[i - 1] /\ this = dp[i]
  OBVIOUS
<1>3. above \in RowsOf(b) /\ this \in RowsOf(b)
  BY <1>1, <1>2 DEF Table
<1>4. /\ above[j - 1] \in Int /\ above[j] \in Int /\ this[j - 1] \in Int /\ this[j] \in Int
      /\ Score(a, b, i, j) \in Int
  BY <1>1, <1>3, ScoreIs DEF RowsOf
<1>5. this[j] = CellOf(a, b, above, i, j, this[j - 1])
  BY <1>2 DEF Table
<1>6. /\ this[j] >= above[j - 1] + Score(a, b, i, j)
      /\ this[j] >= above[j] + Gap
      /\ this[j] >= this[j - 1] + Gap
      /\ this[j] \in {above[j - 1] + Score(a, b, i, j), above[j] + Gap, this[j - 1] + Gap}
  BY <1>1, <1>3, <1>4, <1>5, CellIs
<1>7. QED
  BY <1>2, <1>4, <1>6

\* Going along a row costs at most the gaps.
LEMMA RowSlides ==
    ASSUME NEW a, IsSeq(a), NEW b, IsSeq(b), NEW dp, Table(dp, a, b),
           NEW i \in 1..Len(a), NEW q \in 0..Len(b), NEW j \in 0..Len(b), q <= j
    PROVE  dp[i][j] \in Int /\ dp[i][q] \in Int /\ dp[i][j] >= dp[i][q] + (j - q) * Gap
<1>1. PICK this, n : this = dp[i] /\ n = j - q
  OBVIOUS
<1>2. n \in Nat /\ Len(b) \in Nat /\ q \in Nat /\ j = q + n /\ i \in 0..Len(a)
  BY <1>1, IsSeqHas
<1>3. \A k \in 0..Len(b) : this[k] \in Int
  BY <1>1, <1>2 DEF Table, RowsOf
<1>4. \A k \in 1..Len(b) : this[k] >= this[k - 1] + Gap
  BY <1>1, TableCell
<1> DEFINE P == {d \in 0..n : this[q + d] >= this[q] + d * Gap}
<1>5. 0 \in P
  BY <1>2, <1>3 DEF Gap
<1>6. ASSUME NEW d \in 1..n, d - 1 \in P PROVE d \in P
  <2>1. q + d \in 1..Len(b) /\ q + (d - 1) \in 0..Len(b) /\ (q + d) - 1 = q + (d - 1) /\ d \in 0..n
    BY <1>2
  <2>2. this[q + d] >= this[q + (d - 1)] + Gap
    BY <1>4, <2>1
  <2>3. this[q + (d - 1)] >= this[q] + (d - 1) * Gap
    BY <1>6
  <2>4. this[q + d] \in Int /\ this[q + (d - 1)] \in Int /\ this[q] \in Int
    BY <1>2, <1>3, <2>1
  <2>5. QED
    <3>1. PICK x, y, z : x = this[q + d] /\ y = this[q + (d - 1)] /\ z = this[q]
      OBVIOUS
    <3>2. x \in Int /\ y \in Int /\ z \in Int /\ x >= y + Gap /\ y >= z + (d - 1) * Gap
      BY <2>2, <2>3, <2>4, <3>1
    <3> HIDE DEF P
    <3>3. x >= z + d * Gap
      BY <3>2 DEF Gap
    <3>4. QED
      BY <2>1, <3>1, <3>3 DEF P
<1> HIDE DEF P
<1>7. n \in P
  <2>1. n \in 0..n
    BY <1>2
  <2>2. QED
    BY <1>2, <1>5, <1>6, <2>1, UpTo
<1>8. QED
  BY <1>1, <1>2, <1>3, <1>7 DEF P

LEMMA GainIs ==
    ASSUME NEW a, NEW b, NEW m, NEW i \in Int, m[i] \in Nat
    PROVE  Gain(a, b, m, i) \in Int
<1>1. PICK s : s = Score(a, b, i, m[i])
  OBVIOUS
<1>2. s \in Int
  BY <1>1, ScoreIs
<1>3. QED
  BY <1>1, <1>2 DEF Gain, Gap

\* What a matching is worth, place by place of the first run.
Sums(sum, a, b, m) ==
    /\ \A i \in 0..Len(a) : sum[i] \in Int
    /\ sum[0] = (Len(a) + Len(b)) * Gap
    /\ \A i \in 1..Len(a) : sum[i] = sum[i - 1] + Gain(a, b, m, i)
    /\ Worth(a, b, m) = sum[Len(a)]

LEMMA WorthSums ==
    ASSUME NEW a, IsSeq(a), NEW b, IsSeq(b), NEW m, \A i \in 1..Len(a) : m[i] \in Nat
    PROVE  \E sum : Sums(sum, a, b, m)
<1> DEFINE A == Len(a)
           none == (Len(a) + Len(b)) * Gap
           G(i) == Gain(a, b, m, i)
           Is(w) == w = [i \in 0..A |-> IF i = 0 THEN none ELSE w[i - 1] + G(i)]
           go == [c \in (1..A) \X Int |-> c[2] + G(c[1])]
<1>1. A \in Nat /\ 0 \in 0..A /\ none \in Int
  BY IsSeqHas DEF Gap
<1>2. \A i \in 1..A : G(i) \in Int
  BY GainIs
<1> HIDE DEF A, none, G
<1>3. Goes(go, A, Int)
  BY <1>2 DEF Goes
<1>4. PICK w : Walks(w, A, Int, none, go)
  <2> HIDE DEF go
  <2>1. QED
    BY <1>1, <1>3, WalkIs
<1>5. Is(w)
  <2>1. w = [i \in 0..A |-> w[i]] /\ w[0] = none /\ \A i \in 0..A : w[i] \in Int
    BY <1>4 DEF Walks
  <2>2. ASSUME NEW i \in 1..A PROVE w[i] = w[i - 1] + G(i)
    <3>1. i - 1 \in 0..A
      BY <1>1
    <3>2. <<i, w[i - 1]>> \in (1..A) \X Int
      BY <2>1, <3>1
    <3>3. w[i] = go[<<i, w[i - 1]>>]
      BY <1>4 DEF Walks
    <3>4. QED
      BY <3>2, <3>3
  <2>3. ASSUME NEW i \in 0..A PROVE w[i] = IF i = 0 THEN none ELSE w[i - 1] + G(i)
    <3>1. CASE i = 0
      BY <2>1, <3>1
    <3>2. CASE i # 0
      <4>1. i \in 1..A
        BY <1>1, <3>2
      <4>2. QED
        BY <2>2, <3>2, <4>1
    <3>3. QED
      BY <3>1, <3>2
  <2>4. QED
    BY <2>1, <2>3
<1>6. PICK sum : sum = CHOOSE u : Is(u)
  OBVIOUS
<1>7. Is(sum)
  BY <1>5, <1>6
<1>8. Worth(a, b, m) = sum[A]
  BY <1>6 DEF Worth, A, none, G
<1>9. sum[0] = none /\ \A i \in 1..A : sum[i] = sum[i - 1] + G(i)
  BY <1>1, <1>7
<1>10. \A i \in 0..A : sum[i] \in Int
  <2> DEFINE P == {i \in 0..A : sum[i] \in Int}
  <2>1. 0 \in P
    BY <1>1, <1>9
  <2>2. \A i \in 1..A : i - 1 \in P => i \in P
    BY <1>1, <1>2, <1>9
  <2> HIDE DEF P
  <2>3. \A i \in 0..A : i \in P
    BY <1>1, <2>1, <2>2, UpTo
  <2>4. QED
    BY <2>3 DEF P
<1>11. QED
  BY <1>8, <1>9, <1>10 DEF Sums, A, none, G

\* No matching is worth more than the table's last cell.
LEMMA TableBounds ==
    ASSUME NEW a, IsSeq(a), NEW b, IsSeq(b), NEW dp, Table(dp, a, b), NEW m \in Matchings(a, b)
    PROVE  Worth(a, b, m) <= dp[Len(a)][Len(b)]
<1> DEFINE A == Len(a)
           B == Len(b)
<1>1. A \in Nat /\ B \in Nat /\ DOMAIN a = 1..A /\ 0 \in 0..A
  BY IsSeqHas
<1>2. /\ \A i \in 1..A : m[i] \in 0..B /\ m[i] \in Nat
      /\ \A k, i \in 1..A : k < i /\ m[k] # 0 /\ m[i] # 0 => m[k] < m[i]
  BY <1>1 DEF Matchings, Rising
<1>3. PICK sum : Sums(sum, a, b, m)
  BY <1>1, <1>2, WorthSums
<1>4. /\ \A i \in 0..A : sum[i] \in Int
      /\ sum[0] = (A + B) * Gap
      /\ \A i \in 1..A : sum[i] = sum[i - 1] + Gain(a, b, m, i)
      /\ Worth(a, b, m) = sum[A]
  BY <1>3 DEF Sums
<1>5. \A i \in 0..A, j \in 0..B : i \in Nat /\ j \in Nat /\ dp[i][j] \in Int
  <2>1. \A i \in 0..A : \A j \in 0..B : dp[i][j] \in Int
    BY DEF Table, RowsOf
  <2>2. QED
    BY <1>1, <2>1
<1>6. \A j \in 0..B : dp[0][j] = j * Gap
  BY DEF Table
<1> HIDE DEF A, B
<1> DEFINE Under(i, j) == sum[i] <= dp[i][j] + (((A + B) - i) - j) * Gap
           Fits(i, j) == \A k \in 1..i : m[k] <= j
           P == {i \in 0..A : \A j \in 0..B : Fits(i, j) => Under(i, j)}
<1>7. 0 \in P
  <2>1. ASSUME NEW j \in 0..B PROVE Under(0, j)
    BY <1>1, <1>4, <1>5, <1>6 DEF Gap
  <2>2. QED
    BY <1>1, <2>1
<1>8. ASSUME NEW i \in 1..A, i - 1 \in P, NEW j \in 0..B, Fits(i, j) PROVE Under(i, j)
  <2>1. i \in 0..A /\ i - 1 \in 0..A /\ i \in Nat /\ i - 1 \in Nat /\ 1..(i - 1) \subseteq 1..i /\ i \in 1..i
    BY <1>1
  <2>2. \A q \in 0..B : Fits(i - 1, q) => Under(i - 1, q)
    BY <1>8
  <2>3. sum[i] = sum[i - 1] + Gain(a, b, m, i) /\ sum[i - 1] \in Int /\ sum[i] \in Int
    BY <1>4, <2>1
  <2>4. j \in Nat /\ dp[i][j] \in Int /\ dp[i - 1][j] \in Int
    BY <1>5, <2>1
  <2>5. CASE m[i] = 0
    <3>1. Gain(a, b, m, i) = 0
      BY <2>5 DEF Gain
    <3>2. Under(i - 1, j)
      BY <1>8, <2>1, <2>2
    <3>3. dp[i][j] >= dp[i - 1][j] + Gap
      <4>1. CASE j = 0
        <5>1. dp[i][0] = dp[i - 1][0] + Gap
          BY DEF Table, A
        <5>2. QED
          BY <2>4, <4>1, <5>1
      <4>2. CASE j # 0
        <5>1. j \in 1..B
          BY <4>2
        <5>2. QED
          BY <5>1, TableCell DEF A, B
      <4>3. QED
        BY <4>1, <4>2
    <3>4. PICK x, y : x = dp[i][j] /\ y = dp[i - 1][j]
      OBVIOUS
    <3>5. sum[i - 1] <= y + (((A + B) - (i - 1)) - j) * Gap /\ x >= y + Gap /\ sum[i] = sum[i - 1]
      BY <2>3, <3>1, <3>2, <3>3, <3>4
    <3>6. sum[i] <= x + (((A + B) - i) - j) * Gap
      BY <1>1, <2>1, <2>3, <2>4, <3>4, <3>5 DEF Gap
    <3>7. QED
      BY <3>4, <3>6
  <2>6. CASE m[i] # 0
    <3>1. PICK q, s : q = m[i] /\ s = Score(a, b, i, q)
      OBVIOUS
    <3>2. q \in 1..B /\ q \in 0..B /\ q - 1 \in 0..B /\ q <= j /\ q \in Nat
      BY <1>1, <1>2, <1>8, <2>1, <2>6, <3>1
    <3>3. Gain(a, b, m, i) = s - 2 * Gap
      BY <2>6, <3>1 DEF Gain
    <3>4. Fits(i - 1, q - 1)
      <4>1. ASSUME NEW k \in 1..(i - 1) PROVE m[k] <= q - 1
        <5>1. k \in 1..A /\ k < i
          BY <1>1, <2>1
        <5>2. m[k] = 0 \/ m[k] < q
          BY <1>2, <2>6, <3>1, <5>1
        <5>3. m[k] \in Nat
          BY <1>2, <5>1
        <5>4. QED
          BY <3>2, <5>2, <5>3
      <4>2. QED
        BY <4>1
    <3>5. Under(i - 1, q - 1)
      BY <2>2, <3>2, <3>4
    <3>6. /\ dp[i][q] >= dp[i - 1][q - 1] + s /\ s \in Int
          /\ dp[i][q] \in Int /\ dp[i - 1][q - 1] \in Int
      BY <3>1, <3>2, TableCell DEF A, B
    <3>7. dp[i][j] >= dp[i][q] + (j - q) * Gap
      BY <3>2, RowSlides DEF A, B
    <3>8. PICK d, e, f : d = dp[i - 1][q - 1] /\ e = dp[i][q] /\ f = dp[i][j]
      OBVIOUS
    <3>9. sum[i - 1] <= d + (((A + B) - (i - 1)) - (q - 1)) * Gap
      BY <3>5, <3>8
    <3>10. /\ sum[i] = sum[i - 1] + (s - 2 * Gap) /\ e >= d + s /\ f >= e + (j - q) * Gap
           /\ d \in Int /\ e \in Int /\ f \in Int /\ s \in Int
      BY <2>3, <2>4, <3>3, <3>6, <3>7, <3>8
    <3>11. sum[i] <= f + (((A + B) - i) - j) * Gap
      BY <1>1, <2>1, <2>3, <2>4, <3>2, <3>9, <3>10 DEF Gap
    <3>12. QED
      BY <3>8, <3>11
  <2>7. QED
    BY <2>5, <2>6
<1>9. \A i \in 1..A : i - 1 \in P => i \in P
  <2>1. \A i \in 1..A : i \in 0..A
    BY <1>1
  <2>2. QED
    BY <1>8, <2>1
<1> HIDE DEF P
<1>10. A \in P
  <2>1. A \in 0..A
    BY <1>1
  <2>2. QED
    BY <1>1, <1>7, <1>9, <2>1, UpTo
<1>11. B \in 0..B /\ Fits(A, B)
  BY <1>1, <1>2
<1>12. Under(A, B)
  BY <1>10, <1>11 DEF P
<1>13. ((A + B) - A) - B = 0 /\ A \in 0..A
  BY <1>1
<1>14. QED
  BY <1>4, <1>5, <1>11, <1>12, <1>13 DEF Gap, A, B

-----------------------------------------------------------------------------
(* The way back through the table. *)

\* A matching holds the pairs placed so far.
Agrees(m, pairs) == \A k \in 1..Len(pairs) : pairs[k].a # 0 => m[pairs[k].a] = pairs[k].b

\* Between two cells a matching gains what the cells differ by, over the gaps.
Owes(a, b, dp, m, p, q, i, j) ==
    \A sum : Sums(sum, a, b, m) =>
                sum[i] - sum[p] = (dp[i][j] - dp[p][q]) - ((i - p) + (j - q)) * Gap

\* Where the way back may be: what it placed covers all from there, and is
\* worth what the last cell holds over this one.
Ways(a, b, dp) ==
    {at \in [i : 0..Len(a), j : 0..Len(b), pairs : Pairings] :
        /\ Covers(at.pairs, at.i, Len(a), at.j, Len(b))
        /\ \A m : Agrees(m, at.pairs) => Owes(a, b, dp, m, at.i, at.j, Len(a), Len(b))}

LEMMA BackOne ==
    ASSUME NEW a, IsSeq(a), NEW b, IsSeq(b), NEW dp, Table(dp, a, b),
           NEW i \in 0..Len(a), NEW j \in 0..Len(b), NEW p \in 0..i, NEW q \in 0..j,
           NEW pairs \in Pairings, Covers(pairs, i, Len(a), j, Len(b)),
           \A m : Agrees(m, pairs) => Owes(a, b, dp, m, i, j, Len(a), Len(b)),
           NEW x, Covers(<<x>>, p, i, q, j),
           \A m : (x.a # 0 => m[x.a] = x.b) => Owes(a, b, dp, m, p, q, i, j)
    PROVE  [i |-> p, j |-> q, pairs |-> <<x>> \o pairs] \in Ways(a, b, dp)
<1> DEFINE A == Len(a)
           B == Len(b)
<1>1. A \in Nat /\ B \in Nat /\ p \in 0..A /\ q \in 0..B /\ p \in Nat /\ q \in Nat /\ i \in Nat /\ j \in Nat
  BY IsSeqHas
<1>2. p <= i /\ i <= A /\ q <= j /\ j <= B /\ A \in 0..A /\ B \in 0..B
  BY <1>1
<1>3. \A u \in 0..A, v \in 0..B : dp[u][v] \in Int
  BY DEF Table, RowsOf
<1> HIDE DEF A, B
<1>4. PICK one, all : one = <<x>> /\ all = one \o pairs
  OBVIOUS
<1>5. Covers(one, p, i, q, j) /\ Covers(pairs, i, A, j, B)
  BY <1>4 DEF A, B
<1>6. Covers(all, p, A, q, B)
  BY <1>1, <1>2, <1>4, <1>5, CoversJoin
<1>7. all \in Pairings
  BY <1>6 DEF Covers
<1>8. ASSUME NEW m, Agrees(m, all) PROVE Owes(a, b, dp, m, p, q, A, B)
  <2>1. one \in Pairings /\ pairs \in Pairings
    BY <1>5 DEF Covers
  <2>2. IsSeq(one) /\ IsSeq(pairs) /\ Len(pairs) \in Nat
    BY <2>1, PairingIs
  <2>3. Len(one) = 1 /\ one[1] = x
    BY <1>4
  <2>4. Len(all) = 1 + Len(pairs) /\ all[1] = x /\ \A k \in 1..Len(pairs) : all[1 + k] = pairs[k]
    <3>1. 1 \in 1..1
      OBVIOUS
    <3>2. QED
      BY <1>4, <2>2, <2>3, <3>1, ConcatIs
  <2>5. \A k \in 1..Len(pairs) : 1 + k \in 1..Len(all)
    BY <2>2, <2>4
  <2>6. 1 \in 1..Len(all)
    BY <2>2, <2>4
  <2>7. Agrees(m, pairs)
    BY <1>8, <2>4, <2>5 DEF Agrees
  <2>8. x.a # 0 => m[x.a] = x.b
    BY <1>8, <2>4, <2>6 DEF Agrees
  <2>9. Owes(a, b, dp, m, i, j, A, B) /\ Owes(a, b, dp, m, p, q, i, j)
    BY <2>7, <2>8 DEF A, B
  <2>10. ASSUME NEW sum, Sums(sum, a, b, m)
         PROVE  sum[A] - sum[p] = (dp[A][B] - dp[p][q]) - ((A - p) + (B - q)) * Gap
    <3>1. sum[A] \in Int /\ sum[i] \in Int /\ sum[p] \in Int
      BY <1>1, <1>2, <2>10 DEF Sums, A
    <3>2. /\ sum[A] - sum[i] = (dp[A][B] - dp[i][j]) - ((A - i) + (B - j)) * Gap
          /\ sum[i] - sum[p] = (dp[i][j] - dp[p][q]) - ((i - p) + (j - q)) * Gap
      BY <2>9, <2>10 DEF Owes
    <3>3. PICK d, e, f : d = dp[A][B] /\ e = dp[i][j] /\ f = dp[p][q]
      OBVIOUS
    <3>4. d \in Int /\ e \in Int /\ f \in Int
      BY <1>1, <1>2, <1>3, <3>3 DEF A, B
    <3>5. /\ sum[A] - sum[i] = (d - e) - ((A - i) + (B - j)) * Gap
          /\ sum[i] - sum[p] = (e - f) - ((i - p) + (j - q)) * Gap
      BY <3>2, <3>3
    <3>6. sum[A] - sum[p] = (d - f) - ((A - p) + (B - q)) * Gap
      <4>1. PICK u, v, w, g, h :
               /\ u = sum[A] /\ v = sum[i] /\ w = sum[p]
               /\ g = (A - i) + (B - j) /\ h = (i - p) + (j - q)
        OBVIOUS
      <4>2. u \in Int /\ v \in Int /\ w \in Int /\ u - v = (d - e) - g * Gap /\ v - w = (e - f) - h * Gap
        BY <3>1, <3>5, <4>1
      <4>3. g \in Int /\ h \in Int /\ (A - p) + (B - q) = g + h
        BY <1>1, <4>1
      <4>4. u - w = (d - f) - (g + h) * Gap
        BY <3>4, <4>2, <4>3 DEF Gap
      <4>5. QED
        BY <4>1, <4>3, <4>4
    <3>7. QED
      BY <3>3, <3>6
  <2>11. QED
    BY <2>10 DEF Owes
<1>9. PICK to : to = [i |-> p, j |-> q, pairs |-> all]
  OBVIOUS
<1>10. to.i = p /\ to.j = q /\ to.pairs = all /\ to \in [i : 0..A, j : 0..B, pairs : Pairings]
  BY <1>1, <1>7, <1>9
<1>11. to \in Ways(a, b, dp)
  BY <1>6, <1>8, <1>10 DEF Ways, A, B
<1>12. QED
  BY <1>4, <1>9, <1>11

\* A step back is one place up, to the left or both, unless at the start.
LEMMA StepBackIs ==
    ASSUME NEW a, IsSeq(a), NEW b, IsSeq(b), NEW dp, Table(dp, a, b), NEW at \in Ways(a, b, dp)
    PROVE  /\ StepBack(a, b, dp, at) \in Ways(a, b, dp)
           /\ at.i \in Nat /\ at.j \in Nat
           /\ \/ at.i + at.j = 0 /\ StepBack(a, b, dp, at) = at
              \/ StepBack(a, b, dp, at).i + StepBack(a, b, dp, at).j < at.i + at.j
<1> DEFINE A == Len(a)
           B == Len(b)
<1>1. PICK i, j, pairs : i = at.i /\ j = at.j /\ pairs = at.pairs
  OBVIOUS
<1>2. i \in 0..A /\ j \in 0..B /\ pairs \in Pairings
  BY <1>1 DEF Ways
<1>3. /\ Covers(pairs, i, A, j, B)
      /\ \A m : Agrees(m, pairs) => Owes(a, b, dp, m, i, j, A, B)
  BY <1>1 DEF Ways
<1>4. A \in Nat /\ B \in Nat /\ i \in Nat /\ j \in Nat /\ i <= A /\ j <= B
  BY <1>2, IsSeqHas
<1>5. \A u \in 0..A, v \in 0..B : dp[u][v] \in Int
  BY DEF Table, RowsOf
<1> DEFINE Before(p, q, x) == [i |-> p, j |-> q, pairs |-> <<x>> \o pairs]
           Diagonal == i > 0 /\ j > 0 /\ dp[i][j] = dp[i - 1][j - 1] + Score(a, b, i, j)
           Up == i > 0 /\ dp[i][j] = dp[i - 1][j] + Gap
<1>6. StepBack(a, b, dp, at) =
         IF i = 0 /\ j = 0 THEN at
           ELSE IF Diagonal THEN Before(i - 1, j - 1, Both(i, j))
           ELSE IF Up THEN Before(i - 1, j, OnlyA(i)) ELSE Before(i, j - 1, OnlyB(j))
  BY <1>1 DEF StepBack
<1>7. \A p, q, x : Before(p, q, x).i = p /\ Before(p, q, x).j = q
  OBVIOUS
<1>8. ASSUME NEW p \in 0..i, NEW q \in 0..j, NEW x, Covers(<<x>>, p, i, q, j),
             \A m : (x.a # 0 => m[x.a] = x.b) => Owes(a, b, dp, m, p, q, i, j)
      PROVE  Before(p, q, x) \in Ways(a, b, dp)
  BY <1>2, <1>3, <1>8, BackOne
<1>9. CASE i = 0 /\ j = 0
  BY <1>1, <1>6, <1>9
<1> HIDE DEF A, B, Before
<1>10. CASE ~(i = 0 /\ j = 0) /\ Diagonal
  <2>1. /\ i \in 1..A /\ j \in 1..B /\ i - 1 \in 0..i /\ j - 1 \in 0..j /\ i - 1 \in 0..A /\ i \in 0..A
        /\ i - 1 \in Nat /\ j - 1 \in Nat /\ (i - 1) + 1 = i /\ (j - 1) + 1 = j /\ i # 0 /\ j # 0
    BY <1>4, <1>10
  <2>2. PICK x : x = Both(i, j)
    OBVIOUS
  <2>3. x.a = i /\ x.b = j
    BY <2>2 DEF Both
  <2>4. Covers(<<x>>, i - 1, i, j - 1, j)
    BY <2>1, <2>2, OneCovers
  <2>5. ASSUME NEW m, x.a # 0 => m[x.a] = x.b PROVE Owes(a, b, dp, m, i - 1, j - 1, i, j)
    <3>1. m[i] = j
      BY <2>1, <2>3, <2>5
    <3>2. PICK s, d, e : s = Score(a, b, i, j) /\ d = dp[i][j] /\ e = dp[i - 1][j - 1]
      OBVIOUS
    <3>3. Gain(a, b, m, i) = s - 2 * Gap
      BY <2>1, <3>1, <3>2 DEF Gain
    <3>4. s \in Int /\ d \in Int /\ e \in Int /\ d = e + s
      BY <1>10, <2>1, <3>2, TableCell DEF A, B
    <3>5. ASSUME NEW sum, Sums(sum, a, b, m) PROVE sum[i] - sum[i - 1] = (d - e) - (1 + 1) * Gap
      <4>1. sum[i] = sum[i - 1] + (s - 2 * Gap) /\ sum[i - 1] \in Int
        BY <2>1, <3>3, <3>5 DEF Sums, A
      <4>2. QED
        BY <3>4, <4>1 DEF Gap
    <3>6. i - (i - 1) = 1 /\ j - (j - 1) = 1
      BY <1>4
    <3>7. QED
      BY <3>2, <3>5, <3>6 DEF Owes
  <2>6. Before(i - 1, j - 1, x) \in Ways(a, b, dp)
    BY <1>8, <2>1, <2>4, <2>5
  <2>7. StepBack(a, b, dp, at) = Before(i - 1, j - 1, x)
    BY <1>6, <1>10, <2>2
  <2>8. (i - 1) + (j - 1) < i + j
    BY <1>4
  <2>9. QED
    BY <1>1, <1>4, <1>7, <2>6, <2>7, <2>8
<1>11. CASE ~(i = 0 /\ j = 0) /\ ~Diagonal /\ Up
  <2>1. /\ i \in 1..A /\ i - 1 \in 0..i /\ j \in 0..j /\ i - 1 \in 0..A /\ i \in 0..A
        /\ i - 1 \in Nat /\ (i - 1) + 1 = i /\ i # 0
    BY <1>4, <1>11
  <2>2. PICK x : x = OnlyA(i)
    OBVIOUS
  <2>3. x.a = i /\ x.b = 0
    BY <2>2 DEF OnlyA
  <2>4. Covers(<<x>>, i - 1, i, j, j)
    BY <1>4, <2>1, <2>2, OneCovers
  <2>5. ASSUME NEW m, x.a # 0 => m[x.a] = x.b PROVE Owes(a, b, dp, m, i - 1, j, i, j)
    <3>1. m[i] = 0
      BY <2>1, <2>3, <2>5
    <3>2. PICK d, e : d = dp[i][j] /\ e = dp[i - 1][j]
      OBVIOUS
    <3>3. Gain(a, b, m, i) = 0
      BY <3>1 DEF Gain
    <3>4. d \in Int /\ e \in Int /\ d = e + Gap
      BY <1>2, <1>5, <1>11, <2>1, <3>2
    <3>5. ASSUME NEW sum, Sums(sum, a, b, m) PROVE sum[i] - sum[i - 1] = (d - e) - (1 + 0) * Gap
      <4>1. sum[i] = sum[i - 1] + 0 /\ sum[i - 1] \in Int
        BY <2>1, <3>3, <3>5 DEF Sums, A
      <4>2. QED
        BY <3>4, <4>1 DEF Gap
    <3>6. i - (i - 1) = 1 /\ j - j = 0
      BY <1>4
    <3>7. QED
      BY <3>2, <3>5, <3>6 DEF Owes
  <2>6. Before(i - 1, j, x) \in Ways(a, b, dp)
    BY <1>8, <2>1, <2>4, <2>5
  <2>7. StepBack(a, b, dp, at) = Before(i - 1, j, x)
    BY <1>6, <1>11, <2>2
  <2>8. (i - 1) + j < i + j
    BY <1>4
  <2>9. QED
    BY <1>1, <1>4, <1>7, <2>6, <2>7, <2>8
<1>12. CASE ~(i = 0 /\ j = 0) /\ ~Diagonal /\ ~Up
  <2>1. j # 0 /\ j > 0
    <3>1. ASSUME j = 0 PROVE FALSE
      <4>1. i \in 1..A /\ i > 0
        BY <1>4, <1>12, <3>1
      <4>2. dp[i][0] = dp[i - 1][0] + Gap
        BY <4>1 DEF Table, A
      <4>3. QED
        BY <1>12, <3>1, <4>1, <4>2
    <3>2. QED
      BY <1>4, <3>1
  <2>2. /\ j \in 1..B /\ j - 1 \in 0..j /\ i \in 0..i /\ j - 1 \in 0..B /\ j \in 0..B /\ i \in 0..A
        /\ j - 1 \in Nat /\ (j - 1) + 1 = j
    BY <1>4, <2>1
  <2>3. PICK x : x = OnlyB(j)
    OBVIOUS
  <2>4. Covers(<<x>>, i, i, j - 1, j)
    BY <1>4, <2>2, <2>3, OneCovers
  <2>5. dp[i][j] = dp[i][j - 1] + Gap
    <3>1. CASE i = 0
      <4>1. dp[0][j] = j * Gap /\ dp[0][j - 1] = (j - 1) * Gap
        BY <2>2 DEF Table, B
      <4>2. QED
        BY <1>4, <3>1, <4>1 DEF Gap
    <3>2. CASE i # 0
      <4>1. i \in 1..A /\ i > 0
        BY <1>4, <3>2
      <4>2. dp[i][j] \in {dp[i - 1][j - 1] + Score(a, b, i, j), dp[i - 1][j] + Gap, dp[i][j - 1] + Gap}
        BY <2>2, <4>1, TableCell DEF A, B
      <4>3. QED
        BY <1>12, <2>1, <4>1, <4>2
    <3>3. QED
      BY <3>1, <3>2
  <2>6. ASSUME NEW m PROVE Owes(a, b, dp, m, i, j - 1, i, j)
    <3>1. PICK d, e : d = dp[i][j] /\ e = dp[i][j - 1]
      OBVIOUS
    <3>2. d \in Int /\ e \in Int /\ d = e + Gap
      BY <1>5, <2>2, <2>5, <3>1
    <3>3. ASSUME NEW sum, Sums(sum, a, b, m) PROVE sum[i] - sum[i] = (d - e) - (0 + 1) * Gap
      <4>1. sum[i] \in Int
        BY <2>2, <3>3 DEF Sums, A
      <4>2. QED
        BY <3>2, <4>1 DEF Gap
    <3>4. i - i = 0 /\ j - (j - 1) = 1
      BY <1>4
    <3>5. QED
      BY <3>1, <3>3, <3>4 DEF Owes
  <2>7. Before(i, j - 1, x) \in Ways(a, b, dp)
    BY <1>8, <2>2, <2>4, <2>6
  <2>8. StepBack(a, b, dp, at) = Before(i, j - 1, x)
    BY <1>6, <1>12, <2>3
  <2>9. i + (j - 1) < i + j
    BY <1>4
  <2>10. QED
    BY <1>1, <1>4, <1>7, <2>7, <2>8, <2>9
<1>13. QED
  BY <1>9, <1>10, <1>11, <1>12

\* What a walk's steps lessen until it is none, is none after as many steps.
LEMMA WayEnds ==
    ASSUME NEW n \in Nat, NEW h, h[0] = n, \A k \in 0..n : h[k] \in Nat,
           \A k \in 1..n : h[k] < h[k - 1] \/ (h[k - 1] = 0 /\ h[k] = 0)
    PROVE  h[n] = 0
<1> DEFINE P == {k \in 0..n : h[k] <= n - k}
<1>1. 0 \in P
  OBVIOUS
<1>2. ASSUME NEW k \in 1..n, k - 1 \in P PROVE k \in P
  <2>1. k \in 0..n /\ k - 1 \in 0..n /\ h[k] \in Nat /\ h[k - 1] \in Nat /\ h[k - 1] <= n - (k - 1)
    BY <1>2
  <2>2. h[k] < h[k - 1] \/ (h[k - 1] = 0 /\ h[k] = 0)
    OBVIOUS
  <2>3. h[k] <= n - k
    BY <2>1, <2>2
  <2>4. QED
    BY <2>1, <2>3
<1> HIDE DEF P
<1>3. n \in P
  BY <1>1, <1>2, UpTo
<1>4. h[n] <= n - n /\ h[n] \in Nat
  BY <1>3 DEF P
<1>5. QED
  BY <1>4

LEMMA MatchedHolds ==
    ASSUME NEW a, IsSeq(a), NEW lb, NEW hb, NEW p, Covers(p, 0, Len(a), lb, hb)
    PROVE  /\ Agrees(Matched(p, a), p)
           /\ \A i \in 1..Len(a) : \E k \in 1..Len(p) : p[k].a = i /\ Matched(p, a)[i] = p[k].b
           /\ \A i \in 1..Len(a) : Matched(p, a)[i] \in Nat
<1>1. PICK n, A, m : n = Len(p) /\ A = Len(a) /\ m = Matched(p, a)
  OBVIOUS
<1>2. /\ n \in Nat /\ DOMAIN p = 1..n /\ A \in Nat /\ DOMAIN a = 1..A
      /\ \A k \in 1..n : p[k].a \in Nat /\ p[k].b \in Nat
  BY <1>1, PairingIs, IsSeqHas DEF Covers
<1>3. Spans(SideA(p), n, 0, A) /\ \A k \in 1..n : SideA(p)[k] = p[k].a
  BY <1>1, <1>2 DEF Covers, SideA
<1>4. \A i \in 1..A : i \in (0 + 1)..A
  OBVIOUS
<1>5. /\ \A k \in 1..n : p[k].a = 0 \/ p[k].a \in 1..A
      /\ \A i \in 1..A : \E k \in 1..n : p[k].a = i
      /\ \A k, l \in 1..n : k < l /\ p[k].a # 0 /\ p[l].a # 0 => p[k].a < p[l].a
  <2>1. PICK s : s = SideA(p)
    OBVIOUS
  <2>2. Spans(s, n, 0, A) /\ \A k \in 1..n : s[k] = p[k].a
    BY <1>3, <2>1
  <2>3. (0 + 1)..A = 1..A
    OBVIOUS
  <2>4. /\ \A k \in 1..n : s[k] = 0 \/ s[k] \in 1..A
        /\ \A i \in 1..A : \E k \in 1..n : s[k] = i
        /\ \A k, l \in 1..n : k < l /\ s[k] # 0 /\ s[l] # 0 => s[k] < s[l]
    BY <2>2, <2>3 DEF Spans
  <2>5. QED
    BY <2>2, <2>4
<1>6. ASSUME NEW k \in 1..n, NEW l \in 1..n, p[k].a = p[l].a, p[k].a # 0 PROVE k = l
  <2>1. PICK x : x = p[k].a
    OBVIOUS
  <2>2. x \in Nat /\ p[k].a = x /\ p[l].a = x /\ x # 0 /\ ~(x < x)
    BY <1>2, <1>6, <2>1
  <2>3. ~(k < l)
    BY <1>5, <2>2
  <2>4. ~(l < k)
    BY <1>5, <2>2
  <2>5. QED
    BY <2>3, <2>4
<1>7. \A i \in 1..A : m[i] = p[CHOOSE k \in 1..n : p[k].a = i].b
  BY <1>1, <1>2 DEF Matched
<1>8. ASSUME NEW i \in 1..A PROVE \E k \in 1..n : p[k].a = i /\ m[i] = p[k].b
  <2>1. PICK k : k = CHOOSE l \in 1..n : p[l].a = i
    OBVIOUS
  <2>2. k \in 1..n /\ p[k].a = i
    BY <1>5, <2>1
  <2>3. QED
    BY <1>7, <2>1, <2>2
<1>9. ASSUME NEW k \in 1..n, p[k].a # 0 PROVE m[p[k].a] = p[k].b
  <2>1. p[k].a \in 1..A
    BY <1>5, <1>9
  <2>2. PICK l \in 1..n : p[l].a = p[k].a /\ m[p[k].a] = p[l].b
    BY <1>8, <2>1
  <2>3. QED
    BY <1>6, <1>9, <2>2
<1>10. \A i \in 1..A : m[i] \in Nat
  BY <1>2, <1>8
<1>11. QED
  BY <1>1, <1>8, <1>9, <1>10 DEF Agrees

\* What the traceback returns covers both runs and is worth the last cell.
LEMMA TracebackIs ==
    ASSUME NEW a, IsSeq(a), NEW b, IsSeq(b), NEW dp, Table(dp, a, b)
    PROVE  /\ Covers(Traceback(a, b, dp), 0, Len(a), 0, Len(b))
           /\ Worth(a, b, Matched(Traceback(a, b, dp), a)) = dp[Len(a)][Len(b)]
<1> DEFINE A == Len(a)
           B == Len(b)
           N == Len(a) + Len(b)
           W == Ways(a, b, dp)
           first == [i |-> Len(a), j |-> Len(b), pairs |-> <<>>]
           C(x) == StepBack(a, b, dp, x)
           Is(w) == w = [k \in 0..N |-> IF k = 0 THEN first ELSE C(w[k - 1])]
           go == [c \in (1..N) \X W |-> C(c[2])]
<1>1. A \in Nat /\ B \in Nat /\ N \in Nat /\ N = A + B /\ 0 \in 0..N /\ 0 \in 0..A /\ 0 \in 0..B
      /\ A \in 0..A /\ B \in 0..B /\ N \in 0..N
  BY IsSeqHas
<1>2. \A u \in 0..A, v \in 0..B : dp[u][v] \in Int
  BY DEF Table, RowsOf
<1>3. first.i = A /\ first.j = B /\ first.pairs = <<>>
  OBVIOUS
<1>4. first \in W
  <2>1. PICK none : none = << >>
    OBVIOUS
  <2>2. Covers(none, A, A, B, B)
    BY <1>1, <2>1, NoneCovers
  <2>3. none \in Pairings
    BY <2>2 DEF Covers
  <2>4. \A m : Owes(a, b, dp, m, A, B, A, B)
    <3>1. PICK x : x = dp[A][B]
      OBVIOUS
    <3>2. x \in Int
      BY <1>1, <1>2, <3>1
    <3>3. ASSUME NEW m, NEW sum, Sums(sum, a, b, m) PROVE sum[A] - sum[A] = (x - x) - ((A - A) + (B - B)) * Gap
      <4>1. sum[A] \in Int
        BY <1>1, <3>3 DEF Sums
      <4>2. QED
        BY <1>1, <3>2, <4>1 DEF Gap
    <3>4. QED
      BY <3>1, <3>3 DEF Owes
  <2>5. first \in [i : 0..A, j : 0..B, pairs : Pairings]
    BY <1>1, <2>1, <2>3
  <2>6. QED
    BY <1>3, <2>1, <2>2, <2>4, <2>5 DEF Ways
<1>5. \A x \in W : /\ C(x) \in W /\ x.i \in Nat /\ x.j \in Nat
                   /\ \/ x.i + x.j = 0 /\ C(x) = x
                      \/ C(x).i + C(x).j < x.i + x.j
  BY StepBackIs
<1> HIDE DEF A, B, N, W, first, C
<1>6. Goes(go, N, W)
  BY <1>5 DEF Goes
<1>7. PICK w : Walks(w, N, W, first, go)
  <2> HIDE DEF go
  <2>1. QED
    BY <1>1, <1>4, <1>6, WalkIs
<1>8. Is(w)
  <2>1. w = [k \in 0..N |-> w[k]] /\ w[0] = first /\ \A k \in 0..N : w[k] \in W
    BY <1>7 DEF Walks
  <2>2. ASSUME NEW k \in 1..N PROVE w[k] = C(w[k - 1])
    <3>1. k - 1 \in 0..N
      BY <1>1
    <3>2. <<k, w[k - 1]>> \in (1..N) \X W
      BY <2>1, <3>1
    <3>3. w[k] = go[<<k, w[k - 1]>>]
      BY <1>7 DEF Walks
    <3>4. QED
      BY <3>2, <3>3
  <2>3. ASSUME NEW k \in 0..N PROVE w[k] = IF k = 0 THEN first ELSE C(w[k - 1])
    <3>1. CASE k = 0
      BY <2>1, <3>1
    <3>2. CASE k # 0
      <4>1. k \in 1..N
        BY <1>1, <3>2
      <4>2. QED
        BY <2>2, <3>2, <4>1
    <3>3. QED
      BY <3>1, <3>2
  <2>4. QED
    BY <2>1, <2>3
<1>9. PICK back : back = CHOOSE u : Is(u)
  OBVIOUS
<1>10. Is(back)
  BY <1>8, <1>9
<1>11. Traceback(a, b, dp) = back[N].pairs
  BY <1>9 DEF Traceback, N, first, C
<1>12. back[0] = first /\ \A k \in 1..N : back[k] = C(back[k - 1])
  BY <1>1, <1>10
<1>13. \A k \in 0..N : back[k] \in W
  <2> DEFINE P == {k \in 0..N : back[k] \in W}
  <2>1. 0 \in P
    BY <1>1, <1>4, <1>12
  <2>2. \A k \in 1..N : k - 1 \in P => k \in P
    BY <1>1, <1>5, <1>12
  <2> HIDE DEF P
  <2>3. \A k \in 0..N : k \in P
    BY <1>1, <2>1, <2>2, UpTo
  <2>4. QED
    BY <2>3 DEF P
<1>14. PICK at : at = back[N]
  OBVIOUS
<1>15. at.i = 0 /\ at.j = 0 /\ at \in W
  <2> DEFINE h == [k \in 0..N |-> back[k].i + back[k].j]
  <2>1. \A k \in 0..N : h[k] = back[k].i + back[k].j /\ h[k] \in Nat
    BY <1>5, <1>13
  <2>2. h[0] = N
    BY <1>1, <1>3, <1>12, <2>1
  <2>3. ASSUME NEW k \in 1..N PROVE h[k] < h[k - 1] \/ (h[k - 1] = 0 /\ h[k] = 0)
    <3>1. k - 1 \in 0..N /\ k \in 0..N
      BY <1>1
    <3>2. PICK x, y : x = back[k - 1] /\ y = back[k]
      OBVIOUS
    <3>3. y = C(x) /\ x \in W /\ h[k - 1] = x.i + x.j /\ h[k] = y.i + y.j
      BY <1>12, <1>13, <2>1, <3>1, <3>2
    <3>4. QED
      BY <1>5, <3>3
  <2> HIDE DEF h
  <2>4. h[N] = 0
    BY <1>1, <2>1, <2>2, <2>3, WayEnds
  <2>5. at \in W /\ at.i + at.j = 0
    BY <1>1, <1>13, <1>14, <2>1, <2>4
  <2>6. at.i \in Nat /\ at.j \in Nat
    BY <1>5, <2>5
  <2>7. QED
    BY <2>5, <2>6
<1>16. PICK p, m : p = at.pairs /\ m = Matched(p, a)
  OBVIOUS
<1>17. Covers(p, 0, A, 0, B) /\ (Agrees(m, p) => Owes(a, b, dp, m, 0, 0, A, B))
  BY <1>15, <1>16 DEF Ways, W, A, B
<1>18. Agrees(m, p) /\ \A i \in 1..A : m[i] \in Nat
  BY <1>16, <1>17, MatchedHolds DEF A
<1>19. PICK sum : Sums(sum, a, b, m)
  BY <1>18, WorthSums DEF A
<1>20. /\ sum[A] \in Int /\ sum[0] \in Int /\ sum[0] = (A + B) * Gap /\ Worth(a, b, m) = sum[A]
  BY <1>1, <1>19 DEF Sums, A, B
<1>21. sum[A] - sum[0] = (dp[A][B] - dp[0][0]) - ((A - 0) + (B - 0)) * Gap
  BY <1>17, <1>18, <1>19 DEF Owes
<1>22. dp[0][0] = 0 * Gap /\ dp[A][B] \in Int
  BY <1>1, <1>2 DEF Table, A, B
<1>23. sum[A] = dp[A][B]
  <2>1. PICK x, y : x = dp[A][B] /\ y = dp[0][0]
    OBVIOUS
  <2>2. sum[A] - sum[0] = (x - y) - ((A - 0) + (B - 0)) * Gap /\ y = 0 /\ x \in Int
    BY <1>21, <1>22, <2>1 DEF Gap
  <2>3. sum[A] = x
    BY <1>1, <1>20, <2>2 DEF Gap
  <2>4. QED
    BY <2>1, <2>3
<1>24. QED
  BY <1>11, <1>14, <1>16, <1>17, <1>20, <1>23 DEF A, B

-----------------------------------------------------------------------------
(* Blocks, and the anchors between them. *)

LEMMA AlignBlockCovers ==
    ASSUME NEW a, IsSeq(a), NEW b, IsSeq(b)
    PROVE  Covers(AlignBlock(a, b), 0, Len(a), 0, Len(b))
<1>1. Covers(OnlyOneSide(a, b), 0, Len(a), 0, Len(b))
  BY OneSideCovers
<1>2. Covers(ZipPositional(a, b), 0, Len(a), 0, Len(b))
  BY ZipCovers
<1>3. Covers(NeedlemanWunsch(a, b), 0, Len(a), 0, Len(b))
  <2>1. PICK dp : dp = Filled(a, b)
    OBVIOUS
  <2>2. Table(dp, a, b)
    BY <2>1, FilledIs
  <2>3. Covers(Traceback(a, b, dp), 0, Len(a), 0, Len(b))
    BY <2>2, TracebackIs
  <2>4. QED
    BY <2>1, <2>3 DEF NeedlemanWunsch
<1>4. AlignBlock(a, b) \in {OnlyOneSide(a, b), NeedlemanWunsch(a, b), ZipPositional(a, b)}
  BY DEF AlignBlock
<1>5. QED
  BY <1>1, <1>2, <1>3, <1>4

LEMMA BlockCovers ==
    ASSUME NEW a, IsSeq(a), NEW b, IsSeq(b), NEW from, NEW to,
           from.a \in Nat, from.b \in Nat, to.a \in Nat, to.b \in Nat,
           from.a < to.a, to.a <= Len(a) + 1, from.b < to.b, to.b <= Len(b) + 1
    PROVE  Covers(Block(a, b, from, to), from.a, to.a - 1, from.b, to.b - 1)
<1>1. PICK i, j, s, t : /\ i = from.a /\ j = from.b
                        /\ s = SubSeq(a, from.a + 1, to.a - 1) /\ t = SubSeq(b, from.b + 1, to.b - 1)
  OBVIOUS
<1>2. IsSeq(s) /\ Len(s) = (to.a - 1) - i /\ IsSeq(t) /\ Len(t) = (to.b - 1) - j
  BY <1>1, PartIs
<1>3. PICK n, m : n = Len(s) /\ m = Len(t)
  OBVIOUS
<1>4. n \in Nat /\ m \in Nat /\ i \in Nat /\ j \in Nat /\ i + n = to.a - 1 /\ j + m = to.b - 1
  <2>1. PICK u, v : u = to.a /\ v = to.b
    OBVIOUS
  <2>2. n \in Nat /\ m \in Nat
    BY <1>2, <1>3, IsSeqHas
  <2>3. /\ i \in Nat /\ j \in Nat /\ u \in Nat /\ v \in Nat
        /\ n = (u - 1) - i /\ m = (v - 1) - j
    BY <1>1, <1>2, <1>3, <2>1
  <2>4. i + n = u - 1 /\ j + m = v - 1
    BY <2>3
  <2>5. QED
    BY <2>1, <2>2, <2>3, <2>4
<1>5. PICK p : p = AlignBlock(s, t)
  OBVIOUS
<1>6. Covers(p, 0, n, 0, m)
  BY <1>2, <1>3, <1>5, AlignBlockCovers
<1>7. Covers(Shifted(p, i, j), i, i + n, j, j + m)
  BY <1>4, <1>6, ShiftedCovers
<1>8. QED
  BY <1>1, <1>4, <1>5, <1>7 DEF Block

\* Anchors rise on both sides, up to a step of the second run.
Rises(chain, a, j) ==
    /\ chain \in Pairings
    /\ \A k \in 1..Len(chain) : chain[k].a \in 1..Len(a) /\ chain[k].b \in 1..j
    /\ \A k, l \in 1..Len(chain) : k < l => chain[k].a < chain[l].a /\ chain[k].b < chain[l].b

LEMMA ChainedRises ==
    ASSUME NEW a, IsSeq(a), NEW b, NEW j \in Nat \ {0}, NEW chain, Rises(chain, a, j - 1)
    PROVE  Rises(Chained(a, b, chain, j), a, j)
<1> DEFINE from == Keyed(a, b[j].key)
           lastA == IF chain = <<>> THEN 0 ELSE chain[Len(chain)].a
           Fits == /\ b[j].key # <<>>
                   /\ \A i \in 1..(j - 1) : b[i].key # b[j].key
                   /\ Cardinality(from) = 1
                   /\ \A i \in from : i > lastA
           i == CHOOSE i \in from : TRUE
<1>1. PICK n, A : n = Len(chain) /\ A = Len(a)
  OBVIOUS
<1>2. /\ chain \in Pairings /\ IsSeq(chain) /\ n \in Nat /\ DOMAIN chain = 1..n
      /\ A \in Nat /\ DOMAIN a = 1..A
  BY <1>1, PairingIs, IsSeqHas DEF Rises
<1>3. /\ \A k \in 1..n : chain[k].a \in 1..A /\ chain[k].b \in 1..(j - 1)
      /\ \A k, l \in 1..n : k < l => chain[k].a < chain[l].a /\ chain[k].b < chain[l].b
  BY <1>1 DEF Rises
<1>4. CASE ~Fits
  <2>1. Chained(a, b, chain, j) = chain
    BY <1>4 DEF Chained
  <2>2. \A k \in 1..n : chain[k].b \in 1..j
    BY <1>3
  <2>3. QED
    BY <1>1, <1>2, <1>3, <2>1, <2>2 DEF Rises
<1>5. CASE Fits
  <2>1. from \subseteq 1..A
    BY <1>2 DEF Keyed
  <2>2. from # {}
    <3>1. Cardinality({}) = 0
      BY FS_EmptySet
    <3>2. Cardinality(from) = 1
      BY <1>5
    <3> HIDE DEF from, Fits
    <3>3. QED
      BY <3>1, <3>2
  <2>3. i \in from
    BY <2>2
  <2>4. i \in 1..A /\ i > lastA
    BY <1>5, <2>1, <2>3
  <2> HIDE DEF i, from
  <2>5. PICK x, next : x = Both(i, j) /\ next = Append(chain, x)
    OBVIOUS
  <2>6. Chained(a, b, chain, j) = next
    BY <1>5, <2>5 DEF Chained, i, from
  <2>7. x.a = i /\ x.b = j /\ x \in [a : Nat, b : Nat]
    BY <1>2, <2>4, <2>5 DEF Both
  <2>8. next \in Pairings
    BY <1>2, <2>5, <2>7 DEF Pairings
  <2>9. Len(next) = n + 1 /\ next[n + 1] = x /\ \A k \in 1..n : next[k] = chain[k]
    BY <1>1, <1>2, <2>5, AppendIs
  <2>10. \A k \in 1..(n + 1) : k \in 1..n \/ k = n + 1
    BY <1>2
  <2>11. ASSUME NEW k \in 1..n PROVE chain[k].a < i
    <3>1. n \in 1..n /\ n > 0
      BY <1>2
    <3>2. chain # <<>>
      <4>1. chain = <<>> => n = 0
        BY <1>1, EmptyIs
      <4>2. QED
        BY <3>1, <4>1
    <3>3. i > chain[n].a
      BY <1>1, <2>4, <3>2
    <3>4. k = n \/ k < n
      BY <1>2
    <3>5. chain[k].a \in 1..A /\ chain[n].a \in 1..A /\ (k < n => chain[k].a < chain[n].a)
      BY <1>3, <3>1
    <3>6. QED
      BY <2>4, <3>3, <3>4, <3>5
  <2>12. \A k \in 1..(n + 1) : next[k].a \in 1..A /\ next[k].b \in 1..j
    BY <1>3, <2>4, <2>7, <2>9, <2>10
  <2>13. ASSUME NEW k \in 1..(n + 1), NEW l \in 1..(n + 1), k < l
         PROVE  next[k].a < next[l].a /\ next[k].b < next[l].b
    <3>1. k \in 1..n
      BY <1>2, <2>13
    <3>2. CASE l \in 1..n
      BY <1>3, <2>9, <2>13, <3>1, <3>2
    <3>3. CASE l = n + 1
      <4>1. next[l].a = i /\ next[l].b = j /\ next[k] = chain[k] /\ chain[k].b \in 1..(j - 1)
        BY <1>3, <2>7, <2>9, <3>1, <3>3
      <4>2. QED
        BY <2>11, <3>1, <4>1
    <3>4. QED
      BY <2>10, <3>2, <3>3
  <2>14. QED
    BY <1>1, <2>6, <2>8, <2>9, <2>12, <2>13 DEF Rises
<1>6. QED
  BY <1>4, <1>5

LEMMA AnchorsRise ==
    ASSUME NEW a, IsSeq(a), NEW b, IsSeq(b)
    PROVE  Rises(AnchorChain(a, b), a, Len(b))
<1> DEFINE B == Len(b)
           C(x, j) == Chained(a, b, x, j)
           Is(w) == w = [j \in 0..B |-> IF j = 0 THEN <<>> ELSE C(w[j - 1], j)]
           S == {x \in Pairings : \E j \in 0..B : Rises(x, a, j)}
           go == [c \in (1..B) \X Pairings |-> IF C(c[2], c[1]) \in Pairings THEN C(c[2], c[1]) ELSE <<>>]
<1>1. B \in Nat /\ 0 \in 0..B /\ B \in 0..B
  BY IsSeqHas
<1>2. PICK none : none = << >>
  OBVIOUS
<1>3. Rises(none, a, 0) /\ none \in Pairings
  <2>1. none \in Pairings /\ Len(none) = 0 /\ 1..0 = {}
    BY <1>2, EmptyIs DEF Pairings
  <2>2. QED
    BY <2>1 DEF Rises
<1>4. \A j \in 1..B : \A x : Rises(x, a, j - 1) => Rises(C(x, j), a, j) /\ C(x, j) \in Pairings
  <2>1. ASSUME NEW j \in 1..B, NEW x, Rises(x, a, j - 1) PROVE Rises(C(x, j), a, j) /\ C(x, j) \in Pairings
    <3>1. j \in Nat \ {0}
      BY <1>1
    <3>2. Rises(C(x, j), a, j)
      BY <2>1, <3>1, ChainedRises
    <3>3. QED
      BY <3>2 DEF Rises
  <2>2. QED
    BY <2>1
<1> HIDE DEF B, C
<1>5. Goes(go, B, Pairings)
  BY <1>2, <1>3 DEF Goes
<1>6. PICK w : Walks(w, B, Pairings, none, go)
  <2> HIDE DEF go
  <2>1. QED
    BY <1>1, <1>3, <1>5, WalkIs
<1>7. w = [j \in 0..B |-> w[j]] /\ w[0] = none /\ \A j \in 0..B : w[j] \in Pairings
  BY <1>6 DEF Walks
<1>8. ASSUME NEW j \in 1..B, Rises(w[j - 1], a, j - 1) PROVE w[j] = C(w[j - 1], j)
  <2>1. j - 1 \in 0..B
    BY <1>1
  <2>2. PICK x : x = w[j - 1]
    OBVIOUS
  <2>3. <<j, x>> \in (1..B) \X Pairings
    BY <1>7, <2>1, <2>2
  <2>4. w[j] = go[<<j, x>>]
    BY <1>6, <2>2 DEF Walks
  <2>5. C(x, j) \in Pairings
    BY <1>4, <1>8, <2>2
  <2>6. go[<<j, x>>] = C(x, j)
    BY <2>3, <2>5
  <2>7. QED
    BY <2>2, <2>4, <2>6
<1>9. \A j \in 0..B : Rises(w[j], a, j)
  <2> DEFINE P == {j \in 0..B : Rises(w[j], a, j)}
  <2>1. 0 \in P
    BY <1>1, <1>3, <1>7
  <2>2. ASSUME NEW j \in 1..B, j - 1 \in P PROVE j \in P
    <3>1. Rises(w[j - 1], a, j - 1) /\ j \in 0..B
      BY <1>1, <2>2
    <3>2. w[j] = C(w[j - 1], j)
      BY <1>8, <3>1
    <3>3. Rises(C(w[j - 1], j), a, j)
      BY <1>4, <3>1
    <3>4. QED
      BY <3>1, <3>2, <3>3
  <2> HIDE DEF P
  <2>3. \A j \in 0..B : j \in P
    BY <1>1, <2>1, <2>2, UpTo
  <2>4. QED
    BY <2>3 DEF P
<1>10. Is(w)
  <2>1. ASSUME NEW j \in 1..B PROVE w[j] = C(w[j - 1], j)
    <3>1. j - 1 \in 0..B
      BY <1>1
    <3>2. QED
      BY <1>8, <1>9, <3>1
  <2>2. ASSUME NEW j \in 0..B PROVE w[j] = IF j = 0 THEN <<>> ELSE C(w[j - 1], j)
    <3>1. CASE j = 0
      BY <1>2, <1>7, <3>1
    <3>2. CASE j # 0
      <4>1. j \in 1..B
        BY <1>1, <3>2
      <4>2. QED
        BY <2>1, <3>2, <4>1
    <3>3. QED
      BY <3>1, <3>2
  <2>3. QED
    BY <1>7, <2>2
<1>11. PICK chain : chain = CHOOSE u : Is(u)
  OBVIOUS
<1>12. Is(chain)
  BY <1>10, <1>11
<1>13. chain[0] = none /\ \A j \in 1..B : chain[j] = C(chain[j - 1], j)
  BY <1>1, <1>2, <1>12
<1>14. \A j \in 0..B : Rises(chain[j], a, j)
  <2> DEFINE P == {j \in 0..B : Rises(chain[j], a, j)}
  <2>1. 0 \in P
    BY <1>1, <1>3, <1>13
  <2>2. ASSUME NEW j \in 1..B, j - 1 \in P PROVE j \in P
    <3>1. Rises(chain[j - 1], a, j - 1) /\ j \in 0..B
      BY <1>1, <2>2
    <3>2. Rises(C(chain[j - 1], j), a, j)
      BY <1>4, <3>1
    <3>3. QED
      BY <1>13, <3>1, <3>2
  <2> HIDE DEF P
  <2>3. \A j \in 0..B : j \in P
    BY <1>1, <2>1, <2>2, UpTo
  <2>4. QED
    BY <2>3 DEF P
<1>15. AnchorChain(a, b) = chain[B]
  BY <1>11 DEF AnchorChain, B, C
<1>16. QED
  BY <1>1, <1>14, <1>15 DEF B

LEMMA AnchoredCovers ==
    ASSUME NEW a, IsSeq(a), NEW b, IsSeq(b)
    PROVE  Covers(AlignAnchored(a, b), 0, Len(a), 0, Len(b))
<1> DEFINE anchors == AnchorChain(a, b)
           n == Len(AnchorChain(a, b))
           After(k) == IF k = 0 THEN Both(0, 0) ELSE anchors[k]
           C(k, x) == x \o Block(a, b, After(k - 1), anchors[k]) \o <<anchors[k]>>
           Is(w) == w = [k \in 0..n |-> IF k = 0 THEN <<>> ELSE C(k, w[k - 1])]
           go == [c \in (1..n) \X Pairings |-> C(c[1], c[2])]
           end == Both(Len(a) + 1, Len(b) + 1)
<1>1. PICK A, B : A = Len(a) /\ B = Len(b)
  OBVIOUS
<1>2. Rises(anchors, a, B)
  BY <1>1, AnchorsRise
<1>3. A \in Nat /\ B \in Nat /\ n \in Nat /\ 0 \in 0..n /\ n \in 0..n
  BY <1>1, <1>2, PairingIs, IsSeqHas DEF Rises
<1>4. /\ \A k \in 1..n : anchors[k] \in [a : Nat, b : Nat] /\ anchors[k].a \in 1..A /\ anchors[k].b \in 1..B
      /\ \A k, l \in 1..n : k < l => anchors[k].a < anchors[l].a /\ anchors[k].b < anchors[l].b
  BY <1>1, <1>2, PairingIs DEF Rises
<1>5. After(0).a = 0 /\ After(0).b = 0
  BY DEF Both
<1>6. \A k \in 1..n : After(k) = anchors[k]
  OBVIOUS
<1> HIDE DEF anchors, n, After
<1>7. \A k \in 0..n : After(k).a \in 0..A /\ After(k).b \in 0..B
  BY <1>3, <1>4, <1>5, <1>6
<1>8. ASSUME NEW k \in 1..n
      PROVE  /\ After(k - 1).a < anchors[k].a /\ After(k - 1).b < anchors[k].b
             /\ Covers(Block(a, b, After(k - 1), anchors[k]),
                       After(k - 1).a, anchors[k].a - 1, After(k - 1).b, anchors[k].b - 1)
  <2>1. k - 1 \in 0..n /\ k - 1 < k
    BY <1>3
  <2>2. After(k - 1).a < anchors[k].a /\ After(k - 1).b < anchors[k].b
    <3>1. CASE k - 1 = 0
      BY <1>4, <1>5, <3>1
    <3>2. CASE k - 1 # 0
      <4>1. k - 1 \in 1..n
        BY <2>1, <3>2
      <4>2. QED
        BY <1>4, <1>6, <2>1, <4>1
    <3>3. QED
      BY <3>1, <3>2
  <2>3. PICK from, to : from = After(k - 1) /\ to = anchors[k]
    OBVIOUS
  <2>4. from.a \in 0..A /\ from.b \in 0..B /\ to.a \in 1..A /\ to.b \in 1..B
    BY <1>4, <1>7, <2>1, <2>3
  <2>5. /\ from.a \in Nat /\ from.b \in Nat /\ to.a \in Nat /\ to.b \in Nat
        /\ to.a <= Len(a) + 1 /\ to.b <= Len(b) + 1
    BY <1>1, <1>3, <2>4
  <2>6. Covers(Block(a, b, from, to), from.a, to.a - 1, from.b, to.b - 1)
    BY <2>2, <2>3, <2>5, BlockCovers
  <2>7. QED
    BY <2>2, <2>3, <2>6
<1>9. ASSUME NEW k \in 1..n, NEW x, Covers(x, 0, After(k - 1).a, 0, After(k - 1).b)
      PROVE  Covers(C(k, x), 0, After(k).a, 0, After(k).b)
  <2>1. PICK p, q, i, j, block, one :
           /\ p = After(k - 1).a /\ q = After(k - 1).b /\ i = anchors[k].a - 1 /\ j = anchors[k].b - 1
           /\ block = Block(a, b, After(k - 1), anchors[k]) /\ one = <<anchors[k]>>
    OBVIOUS
  <2>2. p \in Nat /\ q \in Nat /\ i \in Nat /\ j \in Nat /\ p <= i /\ q <= j
        /\ i + 1 = anchors[k].a /\ j + 1 = anchors[k].b
    <3>1. k - 1 \in 0..n
      BY <1>3
    <3>2. /\ p \in 0..A /\ q \in 0..B /\ anchors[k].a \in 1..A /\ anchors[k].b \in 1..B
          /\ p < anchors[k].a /\ q < anchors[k].b
      BY <1>4, <1>7, <1>8, <2>1, <3>1
    <3>3. QED
      BY <1>3, <2>1, <3>2
  <2>3. Covers(x, 0, p, 0, q) /\ Covers(block, p, i, q, j)
    BY <1>8, <1>9, <2>1
  <2>4. 0 \in Nat /\ 0 <= p /\ 0 <= q /\ 0 <= i /\ 0 <= j /\ i <= i + 1 /\ j <= j + 1
        /\ i + 1 \in Nat /\ j + 1 \in Nat
    BY <2>2
  <2>5. Covers(x \o block, 0, i, 0, j)
    BY <2>2, <2>3, <2>4, CoversJoin
  <2>6. anchors[k] = Both(i + 1, j + 1)
    BY <1>4, <2>2 DEF Both
  <2>7. Covers(one, i, i + 1, j, j + 1)
    BY <2>1, <2>2, <2>6, OneCovers
  <2>8. Covers((x \o block) \o one, 0, i + 1, 0, j + 1)
    BY <2>2, <2>4, <2>5, <2>7, CoversJoin
  <2>9. QED
    BY <1>6, <2>1, <2>2, <2>8
<1>10. PICK none : none = << >>
  OBVIOUS
<1>11. Covers(none, 0, After(0).a, 0, After(0).b) /\ none \in Pairings
  <2>1. Covers(none, 0, 0, 0, 0)
    BY <1>10, NoneCovers
  <2>2. QED
    BY <1>5, <2>1 DEF Covers
<1>12. ASSUME NEW k \in 1..n, NEW x \in Pairings PROVE C(k, x) \in Pairings
  <2>1. PICK block, one : block = Block(a, b, After(k - 1), anchors[k]) /\ one = <<anchors[k]>>
    OBVIOUS
  <2>2. block \in Pairings
    BY <1>8, <2>1 DEF Covers
  <2>3. one \in Pairings
    BY <1>4, <2>1 DEF Pairings
  <2>4. (x \o block) \o one \in Pairings
    BY <2>2, <2>3 DEF Pairings
  <2>5. QED
    BY <2>1, <2>4
<1> HIDE DEF C
<1>13. Goes(go, n, Pairings)
  BY <1>12 DEF Goes
<1>14. PICK w : Walks(w, n, Pairings, none, go)
  <2> HIDE DEF go
  <2>1. QED
    BY <1>3, <1>11, <1>13, WalkIs
<1>15. Is(w)
  <2>1. w = [k \in 0..n |-> w[k]] /\ w[0] = none /\ \A k \in 0..n : w[k] \in Pairings
    BY <1>14 DEF Walks
  <2>2. ASSUME NEW k \in 1..n PROVE w[k] = C(k, w[k - 1])
    <3>1. k - 1 \in 0..n
      BY <1>3
    <3>2. <<k, w[k - 1]>> \in (1..n) \X Pairings
      BY <2>1, <3>1
    <3>3. w[k] = go[<<k, w[k - 1]>>]
      BY <1>14 DEF Walks
    <3>4. QED
      BY <3>2, <3>3
  <2>3. ASSUME NEW k \in 0..n PROVE w[k] = IF k = 0 THEN <<>> ELSE C(k, w[k - 1])
    <3>1. CASE k = 0
      BY <2>1, <3>1, <1>10
    <3>2. CASE k # 0
      <4>1. k \in 1..n
        BY <1>1, <3>2
      <4>2. QED
        BY <2>2, <3>2, <4>1
    <3>3. QED
      BY <3>1, <3>2
  <2>4. QED
    BY <2>1, <2>3
<1>16. PICK joined : joined = CHOOSE u : Is(u)
  OBVIOUS
<1>17. Is(joined)
  BY <1>15, <1>16
<1>18. joined[0] = none /\ \A k \in 1..n : joined[k] = C(k, joined[k - 1])
  BY <1>3, <1>10, <1>17
<1>19. \A k \in 0..n : Covers(joined[k], 0, After(k).a, 0, After(k).b)
  <2> DEFINE P == {k \in 0..n : Covers(joined[k], 0, After(k).a, 0, After(k).b)}
  <2>1. 0 \in P
    BY <1>3, <1>11, <1>18
  <2>2. ASSUME NEW k \in 1..n, k - 1 \in P PROVE k \in P
    <3>1. Covers(joined[k - 1], 0, After(k - 1).a, 0, After(k - 1).b) /\ k \in 0..n
      BY <1>3, <2>2
    <3>2. Covers(C(k, joined[k - 1]), 0, After(k).a, 0, After(k).b)
      BY <1>9, <3>1
    <3>3. QED
      BY <1>18, <3>1, <3>2
  <2> HIDE DEF P
  <2>3. \A k \in 0..n : k \in P
    BY <1>3, <2>1, <2>2, UpTo
  <2>4. QED
    BY <2>3 DEF P
<1>20. PICK p, q, x, last : /\ p = After(n).a /\ q = After(n).b /\ x = joined[n]
                            /\ last = Block(a, b, After(n), end)
  OBVIOUS
<1>21. Covers(x, 0, p, 0, q) /\ p \in 0..A /\ q \in 0..B
  BY <1>3, <1>7, <1>19, <1>20
<1>22. Covers(last, p, A, q, B)
  <2>1. end.a = A + 1 /\ end.b = B + 1
    BY <1>1 DEF Both
  <2>2. /\ p \in Nat /\ q \in Nat /\ end.a \in Nat /\ end.b \in Nat /\ p < end.a /\ q < end.b
        /\ end.a <= Len(a) + 1 /\ end.b <= Len(b) + 1 /\ end.a - 1 = A /\ end.b - 1 = B
    BY <1>1, <1>3, <1>21, <2>1
  <2>3. PICK from, to : from = After(n) /\ to = end
    OBVIOUS
  <2> HIDE DEF end
  <2>4. Covers(Block(a, b, from, to), from.a, to.a - 1, from.b, to.b - 1)
    BY <1>20, <2>2, <2>3, BlockCovers
  <2>5. QED
    BY <1>20, <2>2, <2>3, <2>4
<1>23. Covers(x \o last, 0, A, 0, B)
  BY <1>3, <1>21, <1>22, CoversJoin
<1>24. AlignAnchored(a, b) = joined[n] \o Block(a, b, After(n), end)
  BY <1>16 DEF AlignAnchored, anchors, n, After, C
<1>25. QED
  BY <1>1, <1>20, <1>23, <1>24

-----------------------------------------------------------------------------
(* Whichever tier aligned two runs, the alignment is complete. *)

LEMMA CoversComplete ==
    ASSUME NEW a, IsSeq(a), NEW b, IsSeq(b), NEW p, Covers(p, 0, Len(a), 0, Len(b))
    PROVE  /\ \A k \in DOMAIN p : p[k].a # 0 \/ p[k].b # 0
           /\ EachOnce(SideA(p), Len(a)) /\ EachOnce(SideB(p), Len(b))
           /\ Rising(SideA(p)) /\ Rising(SideB(p))
<1>1. PICK n : n = Len(p)
  OBVIOUS
<1>2. n \in Nat /\ DOMAIN p = 1..n /\ Len(a) \in Nat /\ Len(b) \in Nat
  BY <1>1, PairingIs, IsSeqHas DEF Covers
<1>3. ASSUME NEW s, DOMAIN s = 1..n, NEW hi \in Nat, Spans(s, n, 0, hi)
      PROVE  EachOnce(s, hi) /\ Rising(s)
  <2>1. \A k \in 1..n : s[k] = 0 \/ s[k] \in (0 + 1)..hi
    BY <1>3 DEF Spans
  <2>2. \A k \in DOMAIN s : s[k] \in 0..hi
    BY <1>3, <2>1
  <2>3. Rising(s)
    BY <1>3 DEF Spans, Rising
  <2>4. ASSUME NEW i \in 1..hi PROVE \E k \in DOMAIN s : s[k] = i /\ \A l \in DOMAIN s : s[l] = i => l = k
    <3>1. i \in (0 + 1)..hi /\ i # 0 /\ ~(i < i)
      OBVIOUS
    <3>2. PICK k \in 1..n : s[k] = i
      BY <1>3, <3>1 DEF Spans
    <3>3. ASSUME NEW l \in 1..n, s[l] = i PROVE l = k
      <4>1. ~(k < l) /\ ~(l < k)
        BY <1>3, <2>3, <3>1, <3>2, <3>3 DEF Rising
      <4>2. QED
        BY <4>1
    <3>4. QED
      BY <1>3, <3>2, <3>3
  <2>5. QED
    BY <2>2, <2>3, <2>4 DEF EachOnce
<1>4. DOMAIN SideA(p) = 1..n /\ DOMAIN SideB(p) = 1..n
  BY <1>2 DEF SideA, SideB
<1>5. Spans(SideA(p), n, 0, Len(a)) /\ Spans(SideB(p), n, 0, Len(b))
  BY <1>1 DEF Covers
<1>6. \A k \in 1..n : p[k].a # 0 \/ p[k].b # 0
  BY <1>1 DEF Covers
<1>7. QED
  BY <1>2, <1>3, <1>4, <1>5, <1>6

\* With no step on one side there is one matching.
LEMMA MatchingAlone ==
    ASSUME NEW a, IsSeq(a), NEW b, IsSeq(b), a = << >> \/ b = << >>,
           NEW p, Covers(p, 0, Len(a), 0, Len(b)), NEW m \in Matchings(a, b)
    PROVE  m = Matched(p, a)
<1>1. PICK f : f = Matched(p, a)
  OBVIOUS
<1>2. f = [i \in DOMAIN a |-> f[i]]
  BY <1>1 DEF Matched
<1>3. m \in [DOMAIN a -> 0..Len(b)] /\ DOMAIN a = 1..Len(a) /\ Len(a) \in Nat /\ Len(b) \in Nat
  BY IsSeqHas DEF Matchings
<1>4. CASE a = << >>
  <2>1. DOMAIN a = {}
    BY <1>4, EmptyIs
  <2>2. QED
    BY <1>1, <1>2, <1>3, <2>1
<1>5. CASE b = << >>
  <2>1. Len(b) = 0
    BY <1>5, EmptyIs
  <2>2. ASSUME NEW i \in DOMAIN a PROVE m[i] = 0 /\ f[i] = 0
    <3>1. m[i] \in 0..0
      BY <1>3, <2>1
    <3>2. PICK k \in 1..Len(p) : f[i] = p[k].b
      BY <1>1, <1>3, MatchedHolds
    <3>3. SideB(p)[k] = 0 \/ SideB(p)[k] \in (0 + 1)..0
      BY <2>1 DEF Covers, Spans
    <3>4. SideB(p)[k] = p[k].b
      BY PairingIs DEF SideB, Covers
    <3>5. QED
      BY <3>1, <3>2, <3>3, <3>4
  <2>3. QED
    BY <1>1, <1>2, <1>3, <2>2
<1>6. QED
  BY <1>4, <1>5

\* No matching is worth more than a block's, if the block is not too large.
LEMMA AlignBlockIsBest ==
    ASSUME NEW a, IsSeq(a), NEW b, IsSeq(b), Len(a) * Len(b) <= MaxCells, NEW m \in Matchings(a, b)
    PROVE  Worth(a, b, m) <= Worth(a, b, Matched(AlignBlock(a, b), a))
<1>1. PICK p, f : p = AlignBlock(a, b) /\ f = Matched(p, a)
  OBVIOUS
<1>2. Covers(p, 0, Len(a), 0, Len(b))
  BY <1>1, AlignBlockCovers
<1>3. \A i \in 1..Len(a) : f[i] \in Nat
  BY <1>1, <1>2, MatchedHolds
<1>4. PICK sum : Sums(sum, a, b, f)
  BY <1>3, WorthSums
<1>5. Worth(a, b, f) \in Int
  BY <1>4, IsSeqHas DEF Sums
<1>6. CASE a = << >> \/ b = << >>
  <2>1. m = f
    BY <1>1, <1>2, <1>6, MatchingAlone
  <2>2. QED
    BY <1>1, <1>5, <2>1
<1>7. CASE ~(a = << >> \/ b = << >>)
  <2>1. p = NeedlemanWunsch(a, b)
    BY <1>1, <1>7 DEF AlignBlock
  <2>2. PICK dp : dp = Filled(a, b)
    OBVIOUS
  <2>3. Table(dp, a, b)
    BY <2>2, FilledIs
  <2>4. p = Traceback(a, b, dp)
    BY <2>1, <2>2 DEF NeedlemanWunsch
  <2>5. Worth(a, b, f) = dp[Len(a)][Len(b)]
    BY <1>1, <2>3, <2>4, TracebackIs
  <2>6. Worth(a, b, m) <= dp[Len(a)][Len(b)]
    BY <2>3, TableBounds
  <2>7. QED
    BY <1>1, <2>5, <2>6
<1>8. QED
  BY <1>6, <1>7

LEMMA StepKeysComplete ==
    ASSUME NEW a, IsSeq(a), NEW b, IsSeq(b), KeysLineUp(a, b), NEW p, p = AlignByStepKey(a, b)
    PROVE  /\ \A k \in DOMAIN p : p[k].a # 0 /\ p[k].b # 0 /\ a[p[k].a].key = b[p[k].b].key
           /\ EachOnce(SideA(p), Len(a)) /\ EachOnce(SideB(p), Len(b))
           /\ Rising(SideA(p))
<1>1. PICK n : n = Len(a)
  OBVIOUS
<1>2. n \in Nat /\ DOMAIN a = 1..n /\ DOMAIN b = 1..n /\ Len(b) = n
  BY <1>1, IsSeqHas DEF KeysLineUp
<1>3. /\ \A i, j \in 1..n : a[i].key = a[j].key => i = j
      /\ \A i, j \in 1..n : b[i].key = b[j].key => i = j
      /\ {a[i].key : i \in 1..n} = {b[j].key : j \in 1..n}
  BY <1>2 DEF KeysLineUp, KeysUnique
<1> DEFINE f(i) == CHOOSE j \in 1..n : b[j].key = a[i].key
<1>4. p = [i \in 1..n |-> Both(i, f(i))]
  BY <1>2 DEF AlignByStepKey
<1>5. ASSUME NEW i \in 1..n PROVE f(i) \in 1..n /\ b[f(i)].key = a[i].key
  <2>1. a[i].key \in {b[j].key : j \in 1..n}
    BY <1>3
  <2>2. PICK j \in 1..n : b[j].key = a[i].key
    BY <2>1
  <2>3. QED
    BY <2>2
<1> HIDE DEF f
<1>6. DOMAIN p = 1..n /\ \A k \in 1..n : p[k].a = k /\ p[k].b = f(k)
  BY <1>4 DEF Both
<1>7. /\ DOMAIN SideA(p) = 1..n /\ DOMAIN SideB(p) = 1..n
      /\ \A k \in 1..n : SideA(p)[k] = k /\ SideB(p)[k] = f(k)
  BY <1>6 DEF SideA, SideB
<1>8. \A k \in 1..n : k # 0 /\ k \in 0..n /\ f(k) # 0 /\ f(k) \in 0..n
  BY <1>2, <1>5
<1>9. EachOnce(SideA(p), n)
  BY <1>7, <1>8 DEF EachOnce
<1>10. EachOnce(SideB(p), n)
  <2>1. ASSUME NEW j \in 1..n PROVE \E k \in 1..n : f(k) = j /\ \A l \in 1..n : f(l) = j => l = k
    <3>1. b[j].key \in {a[i].key : i \in 1..n}
      BY <1>3
    <3>2. PICK k \in 1..n : a[k].key = b[j].key
      BY <3>1
    <3>3. f(k) = j
      BY <1>3, <1>5, <3>2
    <3>4. \A l \in 1..n : f(l) = j => l = k
      BY <1>3, <1>5, <3>2
    <3>5. QED
      BY <3>3, <3>4
  <2>2. QED
    BY <1>7, <1>8, <2>1, SMTT(20) DEF EachOnce
<1>11. Rising(SideA(p))
  BY <1>7 DEF Rising
<1>12. \A k \in DOMAIN p : p[k].a # 0 /\ p[k].b # 0 /\ a[p[k].a].key = b[p[k].b].key
  BY <1>5, <1>6, <1>8
<1>13. QED
  BY <1>1, <1>2, <1>9, <1>10, <1>11, <1>12

LEMMA AlignComplete ==
    ASSUME NEW d, IsSeq(d.a), IsSeq(d.b), d.pairs = Align(d.a, d.b), d.aligner = Aligner(d.a, d.b)
    PROVE  Complete(d)
<1>1. PICK a, b, p : a = d.a /\ b = d.b /\ p = d.pairs
  OBVIOUS
<1>2. IsSeq(a) /\ IsSeq(b) /\ p = Align(a, b) /\ d.aligner = Aligner(a, b)
  BY <1>1
<1>3. CASE KeysLineUp(a, b)
  <2>1. Aligner(a, b) = "step-key"
    BY <1>3 DEF Aligner
  <2>2. p = AlignByStepKey(a, b)
    BY <1>2, <2>1 DEF Align
  <2>3. /\ \A k \in DOMAIN p : p[k].a # 0 /\ p[k].b # 0 /\ a[p[k].a].key = b[p[k].b].key
        /\ EachOnce(SideA(p), Len(a)) /\ EachOnce(SideB(p), Len(b))
        /\ Rising(SideA(p))
    BY <1>2, <1>3, <2>2, StepKeysComplete
  <2>4. d.aligner = "step-key" /\ d.aligner # "sequence"
    BY <1>2, <2>1
  <2>5. QED
    BY <1>1, <2>3, <2>4 DEF Complete
<1>4. CASE ~KeysLineUp(a, b) /\ Len(a) * Len(b) <= MaxCells
  <2>1. Aligner(a, b) = "sequence"
    BY <1>4 DEF Aligner
  <2>2. p = AlignBlock(a, b)
    BY <1>2, <2>1 DEF Align
  <2>3. Covers(p, 0, Len(a), 0, Len(b))
    BY <1>2, <2>2, AlignBlockCovers
  <2>4. /\ \A k \in DOMAIN p : p[k].a # 0 \/ p[k].b # 0
        /\ EachOnce(SideA(p), Len(a)) /\ EachOnce(SideB(p), Len(b))
        /\ Rising(SideA(p)) /\ Rising(SideB(p))
    BY <1>2, <2>3, CoversComplete
  <2>5. \A m \in Matchings(a, b) : Worth(a, b, m) <= Worth(a, b, Matched(p, a))
    BY <1>2, <1>4, <2>2, AlignBlockIsBest
  <2>6. d.aligner # "step-key"
    BY <1>2, <2>1
  <2>7. QED
    BY <1>1, <2>4, <2>5, <2>6 DEF Complete
<1>5. CASE ~KeysLineUp(a, b) /\ ~(Len(a) * Len(b) <= MaxCells)
  <2>1. Aligner(a, b) = "blocked"
    BY <1>5 DEF Aligner
  <2>2. p = AlignAnchored(a, b)
    BY <1>2, <2>1 DEF Align
  <2>3. Covers(p, 0, Len(a), 0, Len(b))
    BY <1>2, <2>2, AnchoredCovers
  <2>4. /\ \A k \in DOMAIN p : p[k].a # 0 \/ p[k].b # 0
        /\ EachOnce(SideA(p), Len(a)) /\ EachOnce(SideB(p), Len(b))
        /\ Rising(SideA(p)) /\ Rising(SideB(p))
    BY <1>2, <2>3, CoversComplete
  <2>5. d.aligner # "step-key" /\ d.aligner # "sequence"
    BY <1>2, <2>1
  <2>6. QED
    BY <1>1, <2>4, <2>5 DEF Complete
<1>6. QED
  BY <1>3, <1>4, <1>5

LEMMA NoDiffIsComplete == Complete(NoDiff)
<1>1. PICK none : none = << >>
  OBVIOUS
<1>2. IsSeq(none) /\ Len(none) = 0 /\ DOMAIN none = {} /\ 0 \in Nat
  BY <1>1, EmptyIs
<1>3. Covers(none, 0, Len(none), 0, Len(none))
  BY <1>1, <1>2, NoneCovers
<1>4. /\ \A k \in DOMAIN none : none[k].a # 0 \/ none[k].b # 0
      /\ EachOnce(SideA(none), Len(none)) /\ EachOnce(SideB(none), Len(none))
      /\ Rising(SideA(none)) /\ Rising(SideB(none))
  BY <1>2, <1>3, CoversComplete
<1>5. ASSUME NEW m \in Matchings(none, none)
      PROVE  Worth(none, none, m) <= Worth(none, none, Matched(none, none))
  <2>1. PICK f : f = Matched(none, none)
    OBVIOUS
  <2>2. m = f
    BY <1>1, <1>2, <1>3, <2>1, MatchingAlone
  <2>3. \A i \in 1..Len(none) : f[i] \in Nat
    BY <1>2
  <2>4. PICK sum : Sums(sum, none, none, f)
    BY <1>2, <2>3, WorthSums
  <2>5. Worth(none, none, f) \in Int
    BY <1>2, <2>4 DEF Sums
  <2>6. QED
    BY <2>1, <2>2, <2>5
<1>6. NoDiff.a = none /\ NoDiff.b = none /\ NoDiff.pairs = none /\ NoDiff.aligner = "sequence"
  BY <1>1 DEF NoDiff
<1>7. QED
  BY <1>4, <1>5, <1>6 DEF Complete

LEMMA StepsAre ==
    ASSUME Indexed, NEW run
    PROVE  IsSeq(Steps(run))
<1>1. PICK s, n : s = RunRows(run) /\ n = Len(s)
  OBVIOUS
<1>2. IsSeq(s)
  BY <1>1, LeavesAre, ByIndexLists DEF RunRows
<1>3. n \in Nat /\ DOMAIN s = 1..n
  BY <1>1, <1>2, IsSeqHas
<1>4. Steps(run) = [k \in 1..n |-> Step(Receipt(s[k]))]
  BY <1>1, <1>3 DEF Steps
<1>5. PICK t : t = Steps(run)
  OBVIOUS
<1>6. t \in Seq({t[k] : k \in DOMAIN t})
  BY <1>3, <1>4, <1>5
<1>7. QED
  BY <1>5, <1>6 DEF IsSeq

\* The steps of a run, whose receipts the catalogue lists, have views.
IsStep(x) == /\ x.args \in View /\ x.result \in View
             /\ x.outcome \in View /\ x.output \in View /\ Len(x.output) <= 1
StepsOnly(s) == IsSeq(s) /\ \A k \in 1..Len(s) : IsStep(s[k])

LEMMA StepHasViews ==
    ASSUME NEW r, NEW c, {"op", "target", "idem", "outcome", "slots"} \subseteq DOMAIN c, Viewable(c),
           \A x \in DOMAIN c : r[x] = c[x]
    PROVE  IsStep(Step(r))
<1>1. r.op = c.op /\ r.target = c.target /\ r.idem = c.idem /\ r.outcome = c.outcome /\ r.slots = c.slots
  OBVIOUS
<1>2. /\ ArgsView(c.op, c.target, c.idem, c.slots) \in View /\ ResultView(c.slots, c.outcome) \in View
      /\ OutcomeView(c.outcome) \in View /\ SlotEvidence(c.slots) \in View
  BY DEF Viewable
<1>3. PICK args, result, outcome, output :
         /\ args = ArgsView(r.op, r.target, r.idem, r.slots) /\ result = ResultView(r.slots, r.outcome)
         /\ outcome = OutcomeView(r.outcome) /\ output = SlotEvidence(r.slots)
  OBVIOUS
<1>4. args \in View /\ result \in View /\ outcome \in View /\ output \in View
  BY <1>1, <1>2, <1>3
<1>5. Len(output) <= 1
  <2>1. PICK digest : output = << >> \/ output = <<digest>>
    BY <1>3 DEF SlotEvidence
  <2>2. Len(<< >>) = 0 /\ Len(<<digest>>) = 1
    OBVIOUS
  <2>3. Len(output) = 0 \/ Len(output) = 1
    BY <2>1, <2>2
  <2>4. PICK l \in {0, 1} : l = Len(output)
    BY <2>3
  <2>5. l <= 1
    BY <2>4
  <2>6. QED
    BY <2>4, <2>5
<1>6. /\ Step(r).args = args /\ Step(r).result = result
      /\ Step(r).outcome = outcome /\ Step(r).output = output
  BY <1>3 DEF Step
<1>7. QED
  BY <1>4, <1>5, <1>6 DEF IsStep

LEMMA ReceiptIsStep ==
    ASSUME Indexed, NEW i \in 1..Len(log)
    PROVE  IsStep(Step(Receipt(i)))
<1>1. PICK c : c = Catalogue[log[i].call]
  OBVIOUS
<1>2. {"op", "target", "idem", "outcome", "slots"} \subseteq DOMAIN c /\ Viewable(c)
  BY <1>1, CatalogueAssumption DEF Indexed
<1>3. \A x \in DOMAIN c : Receipt(i)[x] = c[x]
  BY <1>1, ReceiptHas
<1>4. PICK r : r = Receipt(i)
  OBVIOUS
<1>5. QED
  BY <1>2, <1>3, <1>4, StepHasViews

LEMMA StepsHaveViews ==
    ASSUME Indexed, NEW run
    PROVE  StepsOnly(Steps(run))
<1>1. PICK s, n : s = RunRows(run) /\ n = Len(s)
  OBVIOUS
<1>2. IsSeq(s) /\ {s[k] : k \in DOMAIN s} = RunLeaves(run)
  BY <1>1, LeavesAre, ByIndexLists DEF RunRows
<1>3. n \in Nat /\ DOMAIN s = 1..n
  BY <1>1, <1>2, IsSeqHas
<1>4. Steps(run) = [k \in 1..n |-> Step(Receipt(s[k]))]
  BY <1>1, <1>3 DEF Steps
<1>5. \A k \in 1..n : s[k] \in 1..Len(log)
  BY <1>2, <1>3, LeavesAre DEF Indexed
<1>6. \A k \in 1..n : IsStep(Step(Receipt(s[k])))
  BY <1>5, ReceiptIsStep
<1>7. PICK t : t = Steps(run)
  OBVIOUS
<1>8. IsSeq(t) /\ Len(t) = n
  <2>1. IsSeq(t)
    BY <1>7, StepsAre
  <2>2. DOMAIN t = 1..n
    BY <1>4, <1>7
  <2>3. Len(t) \in Nat /\ DOMAIN t = 1..Len(t)
    BY <2>1, IsSeqHas
  <2>4. Len(t) = n
    BY <1>3, <2>2, <2>3
  <2>5. QED
    BY <2>1, <2>4
<1>9. \A k \in 1..n : IsStep(t[k])
  BY <1>4, <1>6, <1>7
<1>10. QED
  BY <1>7, <1>8, <1>9 DEF StepsOnly

\* The diff of a page is none, or what Analyze reads of two runs' steps.
LEMMA PageDiffIs ==
    ASSUME Indexed, [Next]_vars
    PROVE  \/ page'.diff = page.diff
           \/ page'.diff = NoDiff
           \/ \E a, b : /\ IsSeq(a) /\ IsSeq(b) /\ StepsOnly(a) /\ StepsOnly(b)
                        /\ page'.diff = Analyze(a, b)
<1>1. CASE \E runs \in cast.pages : BuildPage(runs)
  <2>1. PICK runs \in cast.pages : BuildPage(runs)
    BY <1>1
  <2>2. PICK a, b, diff :
           /\ a = Steps(runs[1]) /\ b = Steps(Last(runs))
           /\ diff = IF Len(runs) = 2 THEN Analyze(a, b) ELSE NoDiff
           /\ page' = [runs |-> [k \in DOMAIN runs |-> PageRun(runs[k])], diff |-> diff,
                       marks |-> IF Len(runs) = 2 THEN MarkDiffering(diff) ELSE NoMarks]
    BY <2>1 DEF BuildPage
  <2>3. page'.diff = diff
    BY <2>2
  <2>4. IsSeq(a) /\ IsSeq(b) /\ StepsOnly(a) /\ StepsOnly(b)
    BY <2>2, StepsAre, StepsHaveViews
  <2>5. QED
    BY <2>2, <2>3, <2>4
<1>2. CASE ~\E runs \in cast.pages : BuildPage(runs)
  <2>1. page' = page
    BY <1>2 DEF Next, vars, Record, Redeliver, Follow, Touch, OpenRehydrate, EmitLine, CloseRehydrate,
       Reconstruct, OpenListing, ListRun, CloseListing, Done
  <2>2. QED
    BY <2>1
<1>3. QED
  BY <1>1, <1>2

(* Whichever tier aligned the two runs of a page, each step of both is in
   exactly one pair, in the order and with the keys the tier promises; and of
   two runs that were aligned by their sequences no other alignment is worth
   more: for runs of any length, of any steps (Align). *)
THEOREM AlignmentsHold == Spec => []AlignmentIsComplete
<1> DEFINE Inv == Indexed /\ Complete(page.diff)
<1>1. Init => Inv
  <2>1. Init => page.diff = NoDiff
    BY DEF Init
  <2>2. QED
    BY <2>1, IndexedFirst, NoDiffIsComplete
<1>2. Inv /\ [Next]_vars => Inv'
  <2> SUFFICES ASSUME Inv, [Next]_vars PROVE Inv'
    OBVIOUS
  <2>1. Indexed'
    BY IndexedKept
  <2>2. Complete(page'.diff)
    <3>1. CASE page'.diff = page.diff
      BY <3>1
    <3>2. CASE page'.diff = NoDiff
      BY <3>2, NoDiffIsComplete
    <3>3. ASSUME NEW a, NEW b, IsSeq(a), IsSeq(b), page'.diff = Analyze(a, b) PROVE Complete(page'.diff)
      <4>1. PICK d : d = Analyze(a, b)
        OBVIOUS
      <4>2. d.a = a /\ d.b = b /\ d.aligner = Aligner(a, b) /\ d.pairs = Align(a, b)
        BY <4>1 DEF Analyze
      <4>3. Complete(d)
        BY <3>3, <4>2, AlignComplete
      <4>4. QED
        BY <3>3, <4>1, <4>3
    <3>4. QED
      BY <3>1, <3>2, <3>3, PageDiffIs
  <2>3. Complete(page.diff)'
    BY <2>2
  <2>4. QED
    BY <2>1, <2>3
<1>3. Inv => AlignmentIsComplete
  BY DEF AlignmentIsComplete
<1>4. QED
  BY <1>1, <1>2, <1>3, PTL DEF Spec

-----------------------------------------------------------------------------
(* The causal reading. *)

\* A finite list has a best element, by a total order of them.
Ranked(S, R, f, n) ==
    /\ S # {} /\ \A x \in S : \E k \in 1..n : f[k] = x
    /\ \A x \in S : <<x, x>> \in R
    /\ \A x, y \in S : <<x, y>> \in R \/ <<y, x>> \in R
    /\ \A x, y, z \in S : <<x, y>> \in R /\ <<y, z>> \in R => <<x, z>> \in R

LEMMA BestIs ==
    ASSUME NEW S, NEW R, NEW f, NEW n \in Nat, Ranked(S, R, f, n)
    PROVE  \E x \in S : \A y \in S : <<x, y>> \in R
<1>0. /\ S # {} /\ \A x \in S : \E k \in 1..n : f[k] = x
      /\ \A x \in S : <<x, x>> \in R
      /\ \A x, y \in S : <<x, y>> \in R \/ <<y, x>> \in R
      /\ \A x, y, z \in S : <<x, y>> \in R /\ <<y, z>> \in R => <<x, z>> \in R
  BY DEF Ranked
<1> DEFINE Best(x, k) == \A i \in 1..k : f[i] \in S => <<x, f[i]>> \in R
           P == {k \in 0..n : (\E i \in 1..k : f[i] \in S) => \E x \in S : Best(x, k)}
<1>1. 0 \in P
  OBVIOUS
<1>2. ASSUME NEW k \in 1..n, k - 1 \in P PROVE k \in P
  <2>1. k \in 0..n /\ \A i \in 1..k : i \in 1..(k - 1) \/ i = k
    OBVIOUS
  <2>2. (\E i \in 1..(k - 1) : f[i] \in S) => \E x \in S : Best(x, k - 1)
    BY <1>2
  <2>3. ASSUME NEW j \in 1..k, f[j] \in S PROVE \E x \in S : Best(x, k)
    <3>1. CASE f[k] \notin S
      <4>1. j \in 1..(k - 1)
        BY <2>1, <2>3, <3>1
      <4>2. PICK x \in S : Best(x, k - 1)
        BY <2>2, <2>3, <4>1
      <4>3. Best(x, k)
        BY <2>1, <3>1, <4>2
      <4>4. QED
        BY <4>3
    <3>2. CASE f[k] \in S /\ ~\E i \in 1..(k - 1) : f[i] \in S
      <4>1. Best(f[k], k)
        BY <1>0, <2>1, <3>2
      <4>2. QED
        BY <3>2, <4>1
    <3>3. CASE f[k] \in S /\ \E i \in 1..(k - 1) : f[i] \in S
      <4>1. PICK x \in S : Best(x, k - 1)
        BY <2>2, <3>3
      <4>2. CASE <<x, f[k]>> \in R
        <5>1. Best(x, k)
          BY <2>1, <4>1, <4>2
        <5>2. QED
          BY <5>1
      <4>3. CASE <<f[k], x>> \in R
        <5>1. PICK y \in S : y = f[k]
          BY <3>3
        <5>2. Best(y, k)
          BY <1>0, <2>1, <4>1, <4>3, <5>1
        <5>3. QED
          BY <5>2
      <4>4. QED
        BY <1>0, <3>3, <4>2, <4>3
    <3>4. QED
      BY <3>1, <3>2, <3>3
  <2>4. QED
    BY <2>1, <2>3
<1> HIDE DEF P
<1>3. n \in P
  BY <1>1, <1>2, UpTo
<1>4. \E i \in 1..n : f[i] \in S
  BY <1>0
<1>5. PICK x \in S : Best(x, n)
  BY <1>3, <1>4 DEF P
<1>6. QED
  BY <1>0, <1>5

LEMMA LengthsAre ==
    /\ MinLinkLength \in Nat \ {0}
    /\ \A v \in DOMAIN Length : Length[v] \in Nat
    /\ NoText \in DOMAIN Length => Length[NoText] = 0
    /\ Len(Lexical) \in Nat
    /\ \A v \in DOMAIN Length : /\ Rank(v) \in Nat
                                /\ \E i \in 1..Len(Lexical) : Lexical[i] = v
<1>1. /\ MinLinkLength \in Nat \ {0} /\ Length \in [DOMAIN Length -> Nat]
      /\ NoText \in DOMAIN Length => Length[NoText] = 0
      /\ Lexical \in Seq(STRING)
      /\ DOMAIN Length \subseteq {Lexical[i] : i \in DOMAIN Lexical}
  BY CausesAssumption, DiffAssumption DEF ToSet
<1>2. Len(Lexical) \in Nat /\ DOMAIN Lexical = 1..Len(Lexical)
  BY <1>1
<1>3. ASSUME NEW v \in DOMAIN Length
      PROVE  Rank(v) \in Nat /\ \E i \in 1..Len(Lexical) : Lexical[i] = v
  <2>1. \E i \in DOMAIN Lexical : Lexical[i] = v
    BY <1>1
  <2>2. Rank(v) \in DOMAIN Lexical
    BY <2>1 DEF Rank
  <2>3. QED
    BY <1>2, <2>1, <2>2
<1>4. \A v \in DOMAIN Length : Length[v] \in Nat
  BY <1>1
<1>5. QED
  BY <1>1, <1>2, <1>3, <1>4

\* A link's value is one that may link, if there is one.
LEMMA PickLinkIs ==
    ASSUME NEW mine, NEW theirs, NEW used
    PROVE  /\ PickLink(mine, theirs, used) # NoText <=> Linkable(mine, theirs, used) # {}
           /\ PickLink(mine, theirs, used) # NoText =>
                 PickLink(mine, theirs, used) \in Linkable(mine, theirs, used)
<1> DEFINE can == Linkable(mine, theirs, used)
           Over(v, w) == Length[v] > Length[w] \/ (Length[v] = Length[w] /\ Rank(v) <= Rank(w))
           R == {c \in can \X can : Over(c[1], c[2])}
<1>1. \A v \in can : v \in DOMAIN Length /\ Length[v] >= MinLinkLength
  BY DEF Linkable
<1>2. \A v \in can : Length[v] \in Nat /\ Rank(v) \in Nat /\ v # NoText
  <2>1. ASSUME NEW v \in can, v = NoText PROVE FALSE
    <3>1. Length[v] = 0 /\ Length[v] >= MinLinkLength /\ MinLinkLength \in Nat \ {0}
      BY <1>1, <2>1, LengthsAre
    <3>2. QED
      BY <3>1
  <2>2. QED
    BY <1>1, <2>1, LengthsAre
<1>3. CASE can = {}
  BY <1>3 DEF PickLink
<1>4. CASE can # {}
  <2>1. PickLink(mine, theirs, used) = CHOOSE v \in can : \A w \in can : Over(v, w)
    BY <1>4 DEF PickLink
  <2>2. \A v \in can : \E k \in 1..Len(Lexical) : Lexical[k] = v
    BY <1>1, LengthsAre
  <2> HIDE DEF can
  <2>3. /\ \A x \in can : <<x, x>> \in R
        /\ \A x, y \in can : <<x, y>> \in R \/ <<y, x>> \in R
    BY <1>2
  <2>4. \A x, y, z \in can : <<x, y>> \in R /\ <<y, z>> \in R => <<x, z>> \in R
    <3>1. ASSUME NEW x \in can, NEW y \in can, NEW z \in can, Over(x, y), Over(y, z) PROVE Over(x, z)
      <4>1. /\ Length[x] \in Nat /\ Length[y] \in Nat /\ Length[z] \in Nat
            /\ Rank(x) \in Nat /\ Rank(y) \in Nat /\ Rank(z) \in Nat
        BY <1>2
      <4>2. QED
        BY <3>1, <4>1
    <3> HIDE DEF Over
    <3>2. QED
      BY <3>1
  <2> HIDE DEF R
  <2>5. \E v \in can : \A w \in can : <<v, w>> \in R
    <3>1. Ranked(can, R, Lexical, Len(Lexical))
      BY <1>4, <2>2, <2>3, <2>4 DEF Ranked
    <3>2. QED
      BY <3>1, LengthsAre, BestIs
  <2>6. \E v \in can : \A w \in can : Over(v, w)
    BY <2>5 DEF R
  <2> HIDE DEF Over
  <2>7. PickLink(mine, theirs, used) \in can
    BY <2>1, <2>6
  <2>8. QED
    BY <1>2, <1>4, <2>7 DEF can
<1>5. QED
  BY <1>3, <1>4

\* What a change handed over is what its carrier holds, if it carries.
LEMMA ProducedIs ==
    ASSUME NEW c
    PROVE  Produced(c) = IF Carries(c) THEN {[a |-> Carrier(c).a, b |-> Carrier(c).b]} ELSE {}
<1> DEFINE S == Differing(c.a, c.b)
<1>1. CASE c.kind # "reordered"
  <2>1. Carries(c)
    BY <1>1 DEF Carries
  <2>2. Carrier(c).a = Leaves[c.a] /\ Carrier(c).b = Leaves[c.b]
    BY <1>1 DEF Carrier
  <2>3. Produced(c) = {[a |-> Leaves[c.a], b |-> Leaves[c.b]]}
    BY <1>1 DEF Produced
  <2>4. QED
    BY <2>1, <2>2, <2>3
<1>2. CASE c.kind = "reordered"
  <2>1. Carries(c) <=> S # {}
    BY <1>2 DEF Carries
  <2>2. DOMAIN Positions \subseteq Nat
    <3>1. Positions \in Seq(STRING)
      BY DiffAssumption
    <3>2. QED
      BY <3>1
  <2>3. S \in SUBSET Nat
    BY <2>2 DEF Differing
  <2>4. \A i \in DOMAIN Positions : FirstAt(c.a, c.b, i) <=> i \in S /\ \A j \in S : ~(j < i)
    BY DEF FirstAt, Differing
  <2>5. ASSUME NEW i \in DOMAIN Positions PROVE FirstAt(c.a, c.b, i) <=> S # {} /\ i = Least(S)
    <3>1. CASE S = {}
      BY <2>4, <3>1
    <3>2. CASE S # {}
      <4>1. PICK l : l = Least(S)
        OBVIOUS
      <4>2. l \in S /\ \A j \in S : l <= j
        BY <2>3, <3>2, <4>1, LeastIs
      <4>3. \A j \in S : j \in Nat
        BY <2>3
      <4>4. i \in Nat
        BY <2>2
      <4> HIDE DEF S
      <4>5. (i \in S /\ \A j \in S : ~(j < i)) <=> i = l
        BY <4>2, <4>3, <4>4
      <4>6. QED
        BY <2>4, <3>2, <4>1, <4>5
    <3>3. QED
      BY <3>1, <3>2
  <2>6. Least(S) \in DOMAIN Positions \/ S = {}
    <3>1. S # {} => Least(S) \in S
      BY <2>3, LeastIs
    <3>2. S \subseteq DOMAIN Positions
      BY DEF Differing
    <3>3. QED
      BY <3>1, <3>2
  <2> DEFINE At(i) == [a |-> Leaves[c.a.parts[Positions[i]]], b |-> Leaves[c.b.parts[Positions[i]]]]
             Firsts == {i \in DOMAIN Positions : FirstAt(c.a, c.b, i)}
  <2>7. Firsts = IF S # {} THEN {Least(S)} ELSE {}
    <3> HIDE DEF S
    <3>1. QED
      BY <2>5, <2>6
  <2>8. Produced(c) = {At(i) : i \in Firsts}
    BY <1>2 DEF Produced
  <2>9. S # {} => Carrier(c).a = At(Least(S)).a /\ Carrier(c).b = At(Least(S)).b
    BY <1>2 DEF Carrier
  <2>10. \A i : At(i) = [a |-> At(i).a, b |-> At(i).b]
    OBVIOUS
  <2> HIDE DEF At, S, Firsts
  <2>11. QED
    BY <2>1, <2>7, <2>8, <2>9, <2>10
<1>3. QED
  BY <1>1, <1>2

LEMMA HandedIs ==
    ASSUME NEW first, NEW h
    PROVE  h \in Handed(first) <=>
              \E k \in Carrying(first.changes) : /\ h = [a |-> Carrier(first.changes[k]).a,
                                                         b |-> Carrier(first.changes[k]).b]
<1> DEFINE all == 1..Len(first.changes)
           of == OfClass(first.changes, "result")
           c(k) == first.changes[k]
           results == {x \in Changes(first) : x.class = "result"}
           which == IF of = {} THEN all ELSE of
           from == IF results = {} THEN Changes(first) ELSE results
<1>1. Changes(first) = {c(k) : k \in all}
  BY DEF Changes
<1>2. of = {k \in all : c(k).class = "result"}
  BY DEF OfClass
<1>3. Carrying(first.changes) = {k \in which : Carries(c(k))}
  BY DEF Carrying
<1>4. h \in Handed(first) <=> \E x \in from : h \in Produced(x)
  BY DEF Handed
<1> HIDE DEF all, of, c
<1>5. results = {c(k) : k \in of}
  BY <1>1, <1>2
<1>6. from = {c(k) : k \in which}
  BY <1>1, <1>5
<1> HIDE DEF which, from
<1>7. h \in Handed(first) <=> \E k \in which : h \in Produced(c(k))
  BY <1>4, <1>6
<1>8. \A k : h \in Produced(c(k)) <=>
                Carries(c(k)) /\ h = [a |-> Carrier(c(k)).a, b |-> Carrier(c(k)).b]
  BY ProducedIs
<1>9. QED
  BY <1>3, <1>7, <1>8 DEF c

LEMMA LinkByIs ==
    ASSUME NEW change, NEW args
    PROVE  /\ Links(LinkBy(change, args)) <=>
                 /\ Linkable(Carrier(change).a, Carrier(change).b, args.a) # {}
                 /\ Linkable(Carrier(change).b, Carrier(change).a, args.b) # {}
           /\ Links(LinkBy(change, args)) =>
                 /\ LinkBy(change, args).a \in Linkable(Carrier(change).a, Carrier(change).b, args.a)
                 /\ LinkBy(change, args).b \in Linkable(Carrier(change).b, Carrier(change).a, args.b)
<1>1. PICK c, v, w : /\ c = Carrier(change)
                     /\ v = PickLink(c.a, c.b, args.a) /\ w = PickLink(c.b, c.a, args.b)
  OBVIOUS
<1>2. LinkBy(change, args).a = v /\ LinkBy(change, args).b = w
  BY <1>1 DEF LinkBy
<1>3. /\ v # NoText <=> Linkable(c.a, c.b, args.a) # {}
      /\ v # NoText => v \in Linkable(c.a, c.b, args.a)
      /\ w # NoText <=> Linkable(c.b, c.a, args.b) # {}
      /\ w # NoText => w \in Linkable(c.b, c.a, args.b)
  BY <1>1, PickLinkIs
<1>4. /\ v \in Linkable(c.a, c.b, args.a) => v \in c.a
      /\ w \in Linkable(c.b, c.a, args.b) => w \notin c.a
  BY DEF Linkable
<1>5. Links(LinkBy(change, args)) <=> v # NoText /\ w # NoText /\ v # w
  BY <1>2 DEF Links
<1>6. QED
  BY <1>1, <1>2, <1>3, <1>4, <1>5

\* A later difference is linked where it can be shown, and by what shows it.
LEMMA LinksShow ==
    ASSUME NEW first, NEW d
    PROVE  /\ Links(LinkTo(first, d)) <=> Reaches(first, d)
           /\ Links(LinkTo(first, d)) => Shows(first, d, LinkTo(first, d).a, LinkTo(first, d).b)
<1> DEFINE args == ChangedLeaves(d.changes, "arguments")
           by(k) == LinkBy(first.changes[k], args)
           c(k) == Carrier(first.changes[k])
           good == {k \in Carrying(first.changes) : Links(by(k))}
           CanA(k) == Linkable(c(k).a, c(k).b, args.a)
           CanB(k) == Linkable(c(k).b, c(k).a, args.b)
<1>1. /\ \A v : v \in args.a <=> \E x \in Changes(d) : x.class = "arguments" /\ v \in Leaves[x.a]
      /\ \A v : v \in args.b <=> \E x \in Changes(d) : x.class = "arguments" /\ v \in Leaves[x.b]
  BY DEF ChangedLeaves, OfClass, Changes
<1>2. LinkTo(first, d) = IF d.pair.a = 0 \/ d.pair.b = 0 \/ good = {} THEN NoLink ELSE by(Least(good))
  BY DEF LinkTo
<1>3. ~Links(NoLink)
  BY DEF Links, NoLink
<1> HIDE DEF args
<1>4. \A k : /\ Links(by(k)) <=> CanA(k) # {} /\ CanB(k) # {}
             /\ Links(by(k)) => by(k).a \in CanA(k) /\ by(k).b \in CanB(k)
  BY LinkByIs
<1>5. good # {} => Least(good) \in good
  <2>1. Carrying(first.changes) \subseteq 1..Len(first.changes)
    BY DEF Carrying, OfClass
  <2>2. \A k \in 1..Len(first.changes) : k \in Nat
    OBVIOUS
  <2>3. good \in SUBSET Nat
    BY <2>1, <2>2
  <2> HIDE DEF good
  <2>4. QED
    BY <2>3, LeastIs
<1>6. \A k \in Carrying(first.changes), v, w \in DOMAIN Length :
         (d.pair.a # 0 /\ d.pair.b # 0 /\ v \in CanA(k) /\ w \in CanB(k)) => Shows(first, d, v, w)
  <2>1. ASSUME NEW k \in Carrying(first.changes), NEW v \in DOMAIN Length, NEW w \in DOMAIN Length,
               d.pair.a # 0, d.pair.b # 0, v \in CanA(k), w \in CanB(k)
        PROVE  Shows(first, d, v, w)
    <3>1. /\ v \in c(k).a \ c(k).b /\ v \in args.a /\ Length[v] >= MinLinkLength
          /\ w \in c(k).b \ c(k).a /\ w \in args.b /\ Length[w] >= MinLinkLength
      BY <2>1 DEF Linkable
    <3>2. PICK h : h = [a |-> c(k).a, b |-> c(k).b]
      OBVIOUS
    <3>3. h \in Handed(first)
      BY <3>2, HandedIs
    <3>4. v \in h.a \ h.b /\ w \in h.b \ h.a
      BY <3>1, <3>2
    <3>5. /\ \E x \in Changes(d) : x.class = "arguments" /\ v \in Leaves[x.a]
          /\ \E x \in Changes(d) : x.class = "arguments" /\ w \in Leaves[x.b]
      BY <1>1, <3>1
    <3>6. QED
      BY <2>1, <3>1, <3>3, <3>4, <3>5 DEF Shows
  <2>2. QED
    BY <2>1
<1>7. \A v, w \in DOMAIN Length : Shows(first, d, v, w) =>
         /\ d.pair.a # 0 /\ d.pair.b # 0
         /\ \E k \in Carrying(first.changes) : v \in CanA(k) /\ w \in CanB(k)
  <2>1. ASSUME NEW v \in DOMAIN Length, NEW w \in DOMAIN Length, Shows(first, d, v, w)
        PROVE  /\ d.pair.a # 0 /\ d.pair.b # 0
               /\ \E k \in Carrying(first.changes) : v \in CanA(k) /\ w \in CanB(k)
    <3>1. /\ d.pair.a # 0 /\ d.pair.b # 0
          /\ Length[v] >= MinLinkLength /\ Length[w] >= MinLinkLength
          /\ v \in args.a /\ w \in args.b
      BY <1>1, <2>1 DEF Shows
    <3>2. PICK h \in Handed(first) : v \in h.a \ h.b /\ w \in h.b \ h.a
      BY <2>1 DEF Shows
    <3>3. PICK k \in Carrying(first.changes) : h = [a |-> c(k).a, b |-> c(k).b]
      BY <3>2, HandedIs
    <3>4. h.a = c(k).a /\ h.b = c(k).b
      BY <3>3
    <3>5. v \in CanA(k) /\ w \in CanB(k)
      BY <3>1, <3>2, <3>4 DEF Linkable
    <3>6. QED
      BY <3>1, <3>5
  <2>2. QED
    BY <2>1
<1>8. \A k : CanA(k) \subseteq DOMAIN Length /\ CanB(k) \subseteq DOMAIN Length
  BY DEF Linkable
<1>9. good = {k \in Carrying(first.changes) : CanA(k) # {} /\ CanB(k) # {}}
  BY <1>4
<1> HIDE DEF CanA, CanB, by, c
<1>10. CASE d.pair.a = 0 \/ d.pair.b = 0
  BY <1>2, <1>3, <1>7, <1>10 DEF Reaches
<1>11. CASE d.pair.a # 0 /\ d.pair.b # 0 /\ good = {}
  <2>1. ~Links(LinkTo(first, d))
    BY <1>2, <1>3, <1>11
  <2>2. ASSUME NEW v \in DOMAIN Length, NEW w \in DOMAIN Length, Shows(first, d, v, w) PROVE FALSE
    <3>1. PICK k \in Carrying(first.changes) : v \in CanA(k) /\ w \in CanB(k)
      BY <1>7, <2>2
    <3>2. QED
      BY <1>9, <1>11, <3>1
  <2>3. QED
    BY <2>1, <2>2 DEF Reaches
<1>12. CASE d.pair.a # 0 /\ d.pair.b # 0 /\ good # {}
  <2>1. PICK k : k = Least(good)
    OBVIOUS
  <2>2. k \in good /\ LinkTo(first, d) = by(k)
    BY <1>2, <1>5, <1>12, <2>1
  <2>3. k \in Carrying(first.changes) /\ Links(by(k)) /\ by(k).a \in CanA(k) /\ by(k).b \in CanB(k)
    BY <1>4, <2>2
  <2>4. by(k).a \in DOMAIN Length /\ by(k).b \in DOMAIN Length
    BY <1>8, <2>3
  <2>5. Shows(first, d, by(k).a, by(k).b)
    BY <1>6, <1>12, <2>3, <2>4
  <2>6. Reaches(first, d)
    BY <2>4, <2>5 DEF Reaches
  <2>7. QED
    BY <2>2, <2>3, <2>5, <2>6
<1>13. QED
  BY <1>10, <1>11, <1>12

LEMMA RiskIs ==
    ASSUME NEW d, NEW a, NEW b
    PROVE  RiskOf(d, a, b) \in Nat
<1>1. \A class : RiskRank(class) \in Nat
  BY DEF RiskRank
<1>2. PICK x, y : /\ x = IF d.pair.a = 0 THEN 0 ELSE RiskRank(a[d.pair.a].risk)
                  /\ y = IF d.pair.b = 0 THEN 0 ELSE RiskRank(b[d.pair.b].risk)
  OBVIOUS
<1>3. x \in Nat /\ y \in Nat
  BY <1>1, <1>2
<1>4. RiskOf(d, a, b) = IF y > x THEN y ELSE x
  BY <1>2 DEF RiskOf
<1>5. QED
  BY <1>3, <1>4

LEMMA RiskiestIs ==
    ASSUME NEW n \in Nat, NEW which, which \subseteq 1..n, which # {}, NEW differences, NEW a, NEW b
    PROVE  /\ Riskiest(which, differences, a, b) \in which
           /\ \A i \in which :
                 \/ RiskOf(differences[i], a, b) < RiskOf(differences[Riskiest(which, differences, a, b)], a, b)
                 \/ /\ RiskOf(differences[i], a, b) = RiskOf(differences[Riskiest(which, differences, a, b)], a, b)
                    /\ i <= Riskiest(which, differences, a, b)
<1> DEFINE Risk(i) == RiskOf(differences[i], a, b)
           Over(i, j) == Risk(j) < Risk(i) \/ (Risk(j) = Risk(i) /\ j <= i)
           R == {c \in which \X which : Over(c[1], c[2])}
           f == [k \in 1..n |-> k]
<1>1. Riskiest(which, differences, a, b) = CHOOSE i \in which : \A j \in which : Over(i, j)
  BY DEF Riskiest
<1>2. \A i : Risk(i) \in Nat
  BY RiskIs
<1>3. \A i \in which : i \in Nat
  OBVIOUS
<1> HIDE DEF Risk
<1>4. /\ \A i \in which : Over(i, i)
      /\ \A i, j \in which : Over(i, j) \/ Over(j, i)
  BY <1>2, <1>3
<1>5. ASSUME NEW i \in which, NEW j \in which, NEW k \in which, Over(i, j), Over(j, k) PROVE Over(i, k)
  BY <1>2, <1>3, <1>5
<1>6. \A i \in which : \E k \in 1..n : f[k] = i
  OBVIOUS
<1> HIDE DEF Over, f
<1>7. /\ \A i \in which : <<i, i>> \in R
      /\ \A i, j \in which : <<i, j>> \in R \/ <<j, i>> \in R
      /\ \A i, j, k \in which : <<i, j>> \in R /\ <<j, k>> \in R => <<i, k>> \in R
  BY <1>4, <1>5
<1> HIDE DEF R
<1>8. \E i \in which : \A j \in which : <<i, j>> \in R
  <2>1. Ranked(which, R, f, n)
    BY <1>6, <1>7 DEF Ranked
  <2>2. QED
    BY <2>1, BestIs
<1>9. \E i \in which : \A j \in which : Over(i, j)
  BY <1>8 DEF R
<1>10. PICK x : x = Riskiest(which, differences, a, b)
  OBVIOUS
<1>11. x \in which /\ \A j \in which : Over(x, j)
  BY <1>1, <1>9, <1>10
<1>12. \A j \in which : Risk(j) < Risk(x) \/ (Risk(j) = Risk(x) /\ j <= x)
  BY <1>11 DEF Over
<1>13. QED
  BY <1>10, <1>11, <1>12 DEF Risk

LEMMA AlignedAre ==
    ASSUME NEW a, IsSeq(a), NEW b, IsSeq(b)
    PROVE  \E n \in Nat : DOMAIN Align(a, b) = 1..n
<1>1. CASE Aligner(a, b) = "step-key"
  <2>1. DOMAIN Align(a, b) = DOMAIN a
    BY <1>1 DEF Align, AlignByStepKey
  <2>2. QED
    BY <2>1, IsSeqHas
<1>2. CASE Aligner(a, b) # "step-key"
  <2>1. PICK p : p = Align(a, b)
    OBVIOUS
  <2>2. Covers(p, 0, Len(a), 0, Len(b))
    BY <1>2, <2>1, AlignBlockCovers, AnchoredCovers DEF Align
  <2>3. Len(p) \in Nat /\ DOMAIN p = 1..Len(p)
    BY <2>2, PairingIs DEF Covers
  <2>4. QED
    BY <2>1, <2>3
<1>3. QED
  BY <1>1, <1>2

LEMMA CompareLists ==
    ASSUME NEW n \in Nat, NEW pairs, DOMAIN pairs = 1..n, NEW a, NEW b, NEW opaque
    PROVE  IsSeq(Compare(pairs, a, b, opaque))
<1> DEFINE all == [k \in DOMAIN pairs |-> Difference(k, pairs[k], CompareOne(pairs[k], a, b))]
           S == {k \in DOMAIN pairs : all[k].classes # {} /\ all[k].opaque = opaque}
<1>1. PICK kept, out : kept = ByIndex(S) /\ out = [k \in DOMAIN kept |-> all[kept[k]]]
  OBVIOUS
<1>2. Compare(pairs, a, b, opaque) = out
  BY <1>1 DEF Compare, NotIdentical
<1>3. S \in SUBSET Nat /\ IsFiniteSet(S)
  <2>1. S \subseteq 1..n
    OBVIOUS
  <2> HIDE DEF S
  <2>2. IsFiniteSet(1..n)
    BY FS_Interval
  <2>3. IsFiniteSet(S)
    BY <2>1, <2>2, FS_Subset
  <2>4. QED
    BY <2>1, <2>3
<1> HIDE DEF S, all
<1>4. Cardinality(S) \in Nat /\ DOMAIN kept = 1..Cardinality(S)
  BY <1>1, <1>3, ByIndexLists
<1>5. out \in Seq({out[k] : k \in DOMAIN out})
  BY <1>1, <1>4
<1>6. QED
  BY <1>2, <1>5 DEF IsSeq

LEMMA CausalityExplained ==
    ASSUME NEW d, IsSeq(d.differences), d.causality = Causality(d.differences, d.a, d.b)
    PROVE  Explained(d)
<1>1. PICK D, n, a, b, said : /\ D = d.differences /\ n = Len(d.differences) /\ a = d.a /\ b = d.b
                              /\ said = d.causality
  OBVIOUS
<1>2. n \in Nat
  BY <1>1, IsSeqHas
<1> DEFINE later == 2..n
           Risk(i) == RiskOf(D[i], a, b)
           linked == {i \in later : Links(LinkTo(D[1], D[i]))}
           shown == {i \in later : Reaches(D[1], D[i])}
           out == IF linked = {} THEN later ELSE linked
           x == IF later = {} THEN 0 ELSE Riskiest(out, D, a, b)
<1>3. said = [featured |-> x, consequence |-> linked # {},
              link |-> IF linked = {} THEN NoLink ELSE LinkTo(D[1], D[x]),
              suppressed |-> Cardinality(later \ {x})]
  BY <1>1 DEF Causality
<1>4. shown = linked
  BY LinksShow
<1>5. later \subseteq 1..n /\ linked \subseteq later
  BY <1>2
<1>6. later # {} => /\ x \in out
                    /\ \A i \in out : Risk(i) < Risk(x) \/ (Risk(i) = Risk(x) /\ i <= x)
  <2>1. ASSUME later # {}
        PROVE  /\ x \in out
               /\ \A i \in out : Risk(i) < Risk(x) \/ (Risk(i) = Risk(x) /\ i <= x)
    <3>1. PICK which : which = out
      OBVIOUS
    <3>2. which \subseteq 1..n /\ which # {}
      BY <1>5, <2>1, <3>1
    <3>3. x = Riskiest(which, D, a, b)
      BY <2>1, <3>1
    <3> HIDE DEF out, x, later
    <3>4. /\ Riskiest(which, D, a, b) \in which
          /\ \A i \in which : \/ Risk(i) < Risk(Riskiest(which, D, a, b))
                              \/ Risk(i) = Risk(Riskiest(which, D, a, b)) /\ i <= Riskiest(which, D, a, b)
      BY <1>2, <3>2, RiskiestIs
    <3>5. QED
      BY <3>1, <3>3, <3>4
  <2>2. QED
    BY <2>1
<1>7. \A i : Risk(i) \in Nat
  BY RiskIs
<1>8. later # {} => Cardinality(later \ {x}) = n - 2
  <2>1. ASSUME later # {} PROVE Cardinality(later \ {x}) = n - 2
    <3>1. x \in later /\ 2 <= n
      BY <1>2, <1>5, <1>6, <2>1
    <3>2. IsFiniteSet(2..n) /\ Cardinality(2..n) = (n - 2) + 1
      BY <1>2, <3>1, FS_Interval
    <3> HIDE DEF x
    <3>3. Cardinality(later \ {x}) = Cardinality(later) - 1
      BY <3>1, <3>2, FS_RemoveElement
    <3>4. QED
      BY <1>2, <3>2, <3>3
  <2>2. QED
    BY <2>1
<1> HIDE DEF x
<1>9. /\ said.featured = x /\ said.consequence = (linked # {}) /\ said.suppressed = Cardinality(later \ {x})
      /\ linked # {} => said.link = LinkTo(D[1], D[x])
  BY <1>3
<1>10. said.consequence <=> shown # {}
  BY <1>4, <1>9
<1>11. ASSUME linked # {} PROVE Shows(D[1], D[x], said.link.a, said.link.b)
  <2>1. x \in linked
    BY <1>5, <1>6, <1>11
  <2>2. Links(LinkTo(D[1], D[x]))
    BY <2>1
  <2>3. QED
    BY <1>9, <1>11, <2>2, LinksShow
<1>12. ASSUME later # {}
       PROVE  /\ x \in out
              /\ \A i \in out : Risk(i) <= Risk(x)
              /\ \A i \in out : i > x => Risk(i) < Risk(x)
  <2>1. x \in out /\ \A i \in out : Risk(i) < Risk(x) \/ (Risk(i) = Risk(x) /\ i <= x)
    BY <1>6, <1>12
  <2>2. \A i \in out : i \in Nat
    BY <1>2, <1>5
  <2> HIDE DEF out, Risk
  <2>3. QED
    BY <1>7, <2>1, <2>2
<1>13. out = IF shown = {} THEN later ELSE shown
  BY <1>4
<1> HIDE DEF out, linked, Risk
<1>14. /\ said.consequence => Shows(D[1], D[said.featured], said.link.a, said.link.b)
       /\ later # {} => /\ said.featured \in out
                        /\ \A i \in out : Risk(i) <= Risk(said.featured)
                        /\ \A i \in out : i > said.featured => Risk(i) < Risk(said.featured)
                        /\ said.suppressed = n - 2
  BY <1>8, <1>9, <1>11, <1>12
<1> HIDE DEF later, shown
<1>15. QED
  BY <1>1, <1>10, <1>13, <1>14 DEF Explained, later, shown, Risk

LEMMA NoDiffIsExplained == Explained(NoDiff)
<1>1. /\ NoDiff.differences = <<>> /\ NoDiff.causality.consequence = FALSE
  BY DEF NoDiff
<1>2. 2..Len(NoDiff.differences) = {}
  BY <1>1, EmptyIs
<1>3. QED
  BY <1>1, <1>2 DEF Explained

(* A page calls a step a consequence of the first divergence only with a pair
   of values that shows it, of all such steps it features the riskiest, and it
   counts the others: whatever values the steps hold and however they are
   compared (analyzeCausality). *)
THEOREM ConsequencesShown == Spec => []ConsequenceIsShown
<1> DEFINE Inv == Indexed /\ Explained(page.diff)
<1>1. Init => Inv
  <2>1. Init => page.diff = NoDiff
    BY DEF Init
  <2>2. QED
    BY <2>1, IndexedFirst, NoDiffIsExplained
<1>2. Inv /\ [Next]_vars => Inv'
  <2> SUFFICES ASSUME Inv, [Next]_vars PROVE Inv'
    OBVIOUS
  <2>1. Indexed'
    BY IndexedKept
  <2>2. Explained(page'.diff)
    <3>1. CASE page'.diff = page.diff
      BY <3>1
    <3>2. CASE page'.diff = NoDiff
      BY <3>2, NoDiffIsExplained
    <3>3. ASSUME NEW a, NEW b, IsSeq(a), IsSeq(b), page'.diff = Analyze(a, b) PROVE Explained(page'.diff)
      <4>1. PICK d : d = Analyze(a, b)
        OBVIOUS
      <4>2. PICK n \in Nat : DOMAIN Align(a, b) = 1..n
        BY <3>3, AlignedAre
      <4>3. PICK pairs : pairs = Align(a, b)
        OBVIOUS
      <4>4. IsSeq(Compare(pairs, a, b, FALSE))
        BY <4>2, <4>3, CompareLists
      <4>5. /\ d.a = a /\ d.b = b /\ d.differences = Compare(pairs, a, b, FALSE)
            /\ d.causality = Causality(d.differences, d.a, d.b)
        BY <4>1, <4>3 DEF Analyze
      <4>6. Explained(d)
        BY <4>4, <4>5, CausalityExplained
      <4>7. QED
        BY <3>3, <4>1, <4>6
    <3>4. QED
      BY <3>1, <3>2, <3>3, PageDiffIs
  <2>3. Explained(page.diff)'
    BY <2>2
  <2>4. QED
    BY <2>1, <2>3
<1>3. Inv => ConsequenceIsShown
  BY DEF ConsequenceIsShown
<1>4. QED
  BY <1>1, <1>2, <1>3, PTL DEF Spec

-----------------------------------------------------------------------------
(* Functions by recursion on a rank. *)

\* What holds at each place if it holds at all of smaller rank holds at all.
LEMMA RankInduction ==
    ASSUME NEW D, NEW rank \in [D -> Nat], NEW P,
           \A x \in D : (\A y \in D : rank[y] < rank[x] => y \in P) => x \in P
    PROVE  \A x \in D : x \in P
<1> DEFINE T == {rank[x] : x \in D \ P}
<1> SUFFICES ASSUME NEW x \in D, x \notin P PROVE FALSE
  OBVIOUS
<1>1. T \in SUBSET Nat /\ T # {}
  OBVIOUS
<1>2. PICK r \in T : \A s \in T : r <= s
  BY <1>1, LeastIs
<1>3. PICK y \in D \ P : rank[y] = r
  BY <1>2
<1>4. ASSUME NEW z \in D, rank[z] < rank[y] PROVE z \in P
  <2>1. z \notin P => r <= rank[z]
    BY <1>2
  <2>2. rank[z] \in Nat /\ rank[y] \in Nat /\ rank[z] < r
    BY <1>3, <1>4
  <2>3. ~(r <= rank[z])
    BY <1>3, <2>2
  <2>4. QED
    BY <2>1, <2>3
<1>5. QED
  BY <1>3, <1>4

\* The value at x, of what f is at the places of smaller rank.
Deep(go, rank, D, T) ==
    /\ T # {} /\ rank \in [D -> Nat] /\ go \in [[D -> T] \X D -> T]
    /\ \A f, g \in [D -> T] : \A x \in D :
          (\A y \in D : rank[y] < rank[x] => f[y] = g[y]) => go[<<f, x>>] = go[<<g, x>>]
DeepBelow(f, n, go, rank, D, T) ==
    f \in [D -> T] /\ \A x \in D : rank[x] < n => f[x] = go[<<f, x>>]

LEMMA DeepOneMore ==
    ASSUME NEW D, NEW T, NEW rank, NEW go, Deep(go, rank, D, T),
           NEW n \in Nat, NEW f, DeepBelow(f, n, go, rank, D, T)
    PROVE  \E g : DeepBelow(g, n + 1, go, rank, D, T)
<1> DEFINE g == [x \in D |-> IF rank[x] < n THEN f[x] ELSE go[<<f, x>>]]
<1>1. \A x \in D : rank[x] \in Nat /\ f[x] \in T /\ go[<<f, x>>] \in T
  BY DEF Deep, DeepBelow
<1>2. g \in [D -> T] /\ f \in [D -> T]
  BY <1>1 DEF DeepBelow
<1>3. \A x \in D : rank[x] < n => g[x] = f[x]
  OBVIOUS
<1>4. \A x \in D : g[x] = go[<<f, x>>] \/ ~(rank[x] < n + 1)
  BY <1>1 DEF DeepBelow
<1> HIDE DEF g
<1>5. ASSUME NEW x \in D, rank[x] < n + 1 PROVE g[x] = go[<<g, x>>]
  <2>1. ASSUME NEW y \in D, rank[y] < rank[x] PROVE rank[y] < n
    <3>1. rank[x] \in Nat /\ rank[y] \in Nat
      BY <1>1
    <3>2. QED
      BY <1>5, <2>1, <3>1
  <2>2. go[<<f, x>>] = go[<<g, x>>]
    BY <1>2, <1>3, <2>1 DEF Deep
  <2>3. QED
    BY <1>4, <1>5, <2>2
<1>6. QED
  BY <1>2, <1>5 DEF DeepBelow

LEMMA DeepAgree ==
    ASSUME NEW D, NEW T, NEW rank, NEW go, Deep(go, rank, D, T),
           NEW m \in Nat, NEW n \in Nat, m <= n,
           NEW f, DeepBelow(f, m, go, rank, D, T), NEW g, DeepBelow(g, n, go, rank, D, T)
    PROVE  \A x \in D : rank[x] < m => f[x] = g[x]
<1> DEFINE P == {x \in D : rank[x] < m => f[x] = g[x]}
<1>1. rank \in [D -> Nat] /\ f \in [D -> T] /\ g \in [D -> T]
  BY DEF Deep, DeepBelow
<1>2. ASSUME NEW x \in D, \A y \in D : rank[y] < rank[x] => y \in P PROVE x \in P
  <2> SUFFICES ASSUME rank[x] < m PROVE f[x] = g[x]
    OBVIOUS
  <2>1. rank[x] \in Nat /\ \A y \in D : rank[y] \in Nat
    BY <1>1
  <2>2. rank[x] < n
    BY <2>1
  <2>3. \A y \in D : rank[y] < rank[x] => f[y] = g[y]
    BY <1>2, <2>1
  <2>4. f[x] = go[<<f, x>>] /\ g[x] = go[<<g, x>>]
    BY <2>2 DEF DeepBelow
  <2>5. go[<<f, x>>] = go[<<g, x>>]
    BY <1>1, <2>3 DEF Deep
  <2>6. QED
    BY <2>4, <2>5
<1> HIDE DEF P
<1>3. \A x \in D : x \in P
  BY <1>1, <1>2, RankInduction
<1>4. QED
  BY <1>3 DEF P

LEMMA DeepIs ==
    ASSUME NEW D, NEW T, NEW rank, NEW go, Deep(go, rank, D, T)
    PROVE  \E f \in [D -> T] : \A x \in D : f[x] = go[<<f, x>>]
<1> DEFINE Good(f, n) == DeepBelow(f, n, go, rank, D, T)
           P == {n \in Nat : \E f : Good(f, n)}
           F == [n \in Nat |-> CHOOSE f : Good(f, n)]
           h == [x \in D |-> F[rank[x] + 1][x]]
<1>1. 0 \in P
  <2>1. PICK t : t \in T
    BY DEF Deep
  <2>2. PICK f : f = [x \in D |-> t]
    OBVIOUS
  <2>3. f \in [D -> T] /\ \A x \in D : rank[x] \in Nat /\ ~(rank[x] < 0)
    BY <2>1, <2>2 DEF Deep
  <2>4. Good(f, 0)
    BY <2>3 DEF DeepBelow
  <2>5. QED
    BY <2>4
<1>2. ASSUME NEW n \in Nat, n \in P PROVE n + 1 \in P
  BY <1>2, DeepOneMore
<1>3. ASSUME NEW n \in Nat PROVE n \in P
  <2>1. ASSUME NEW k \in 1..n, k - 1 \in P PROVE k \in P
    <3>1. k - 1 \in Nat /\ (k - 1) + 1 = k
      OBVIOUS
    <3>2. (k - 1) + 1 \in P
      BY <1>2, <2>1, <3>1
    <3>3. QED
      BY <3>1, <3>2
  <2> HIDE DEF P
  <2>2. \A k \in 0..n : k \in P
    BY <1>1, <2>1, UpTo
  <2>3. QED
    BY <2>2
<1>4. ASSUME NEW n \in Nat PROVE Good(F[n], n)
  <2>1. \E f : Good(f, n)
    BY <1>3
  <2>2. F[n] = CHOOSE f : Good(f, n)
    OBVIOUS
  <2> HIDE DEF Good, F
  <2>3. QED
    BY <2>1, <2>2
<1> HIDE DEF P, F
<1>5. rank \in [D -> Nat]
  BY DEF Deep
<1>6. \A x \in D : F[rank[x] + 1] \in [D -> T]
  <2>1. \A x \in D : rank[x] + 1 \in Nat
    BY <1>5
  <2>2. QED
    BY <1>4, <2>1 DEF DeepBelow
<1>7. h \in [D -> T]
  BY <1>6
<1>8. ASSUME NEW x \in D PROVE h[x] = go[<<h, x>>]
  <2>1. PICK n \in Nat : n = rank[x] + 1
    BY <1>5
  <2>2. rank[x] < n /\ Good(F[n], n) /\ F[n] \in [D -> T]
    BY <1>4, <1>5, <2>1 DEF DeepBelow
  <2>3. F[n][x] = go[<<F[n], x>>] /\ h[x] = F[n][x]
    BY <2>1, <2>2 DEF DeepBelow
  <2>4. ASSUME NEW y \in D, rank[y] < rank[x] PROVE h[y] = F[n][y]
    <3>1. PICK m \in Nat : m = rank[y] + 1
      BY <1>5
    <3>2. m <= n /\ rank[y] < m
      BY <1>5, <2>1, <2>4, <3>1
    <3>3. Good(F[m], m)
      BY <1>4
    <3>4. \A z \in D : rank[z] < m => F[m][z] = F[n][z]
      BY <2>2, <3>2, <3>3, DeepAgree
    <3>5. h[y] = F[m][y]
      BY <3>1
    <3>6. QED
      BY <3>2, <3>4, <3>5
  <2> HIDE DEF h, Good
  <2>5. go[<<h, x>>] = go[<<F[n], x>>]
    BY <1>7, <2>2, <2>4 DEF Deep
  <2>6. QED
    BY <2>3, <2>5
<1>9. QED
  BY <1>7, <1>8

-----------------------------------------------------------------------------
(* The comparison of two steps. *)

LEMMA InOrderIs ==
    ASSUME NEW S, NEW order \in Seq(S), NEW names
    PROVE  \E out \in Seq(S) :
              /\ InOrder(order, names) = out
              /\ \A k \in 1..Len(out) : out[k] \in names
              /\ \A x \in names : x \in ToSet(order) => \E k \in 1..Len(out) : out[k] = x
<1>1. PICK I, at, out : /\ I = {i \in DOMAIN order : order[i] \in names}
                        /\ at = ByIndex(I) /\ out = [n \in DOMAIN at |-> order[at[n]]]
  OBVIOUS
<1>2. InOrder(order, names) = out
  BY <1>1 DEF InOrder
<1>3. Len(order) \in Nat /\ DOMAIN order = 1..Len(order)
  OBVIOUS
<1>4. I \in SUBSET Nat /\ IsFiniteSet(I)
  <2>1. I \subseteq 1..Len(order)
    BY <1>1, <1>3
  <2>2. IsFiniteSet(1..Len(order))
    BY <1>3, FS_Interval
  <2>3. IsFiniteSet(I)
    BY <2>1, <2>2, FS_Subset
  <2>4. QED
    BY <2>1, <2>3
<1>5. PICK n \in Nat : n = Cardinality(I) /\ DOMAIN at = 1..n
  BY <1>1, <1>4, ByIndexLists
<1>6. (\A k \in 1..n : at[k] \in I) /\ \A i \in I : \E k \in 1..n : at[k] = i
  <2>1. {ByIndex(I)[k] : k \in DOMAIN ByIndex(I)} = I
    BY <1>4, ByIndexLists
  <2>2. {at[k] : k \in 1..n} = I
    BY <1>1, <1>5, <2>1
  <2>3. QED
    BY <2>2
<1>7. out \in Seq(S) /\ Len(out) = n
  <2>1. out = [k \in 1..n |-> order[at[k]]]
    BY <1>1, <1>5
  <2>2. \A k \in 1..n : order[at[k]] \in S
    BY <1>1, <1>6
  <2>3. QED
    BY <2>1, <2>2
<1>8. \A k \in 1..n : out[k] = order[at[k]]
  BY <1>1, <1>5
<1>9. \A k \in 1..n : out[k] \in names
  BY <1>1, <1>6, <1>8
<1>10. ASSUME NEW x \in names, x \in ToSet(order) PROVE \E k \in 1..n : out[k] = x
  <2>1. PICK i \in DOMAIN order : order[i] = x
    BY <1>10 DEF ToSet
  <2>2. PICK k \in 1..n : at[k] = i
    BY <1>1, <1>6, <2>1
  <2>3. QED
    BY <1>8, <2>1, <2>2
<1>11. QED
  BY <1>2, <1>7, <1>9, <1>10

LEMMA PartIn ==
    ASSUME NEW v \in Json, NEW n
    PROVE  /\ Part(v, n) \in Json /\ Depth[v] \in Nat /\ Depth[Part(v, n)] \in Nat
           /\ n \in DOMAIN v.parts <=> Part(v, n) # Absent
           /\ n \in DOMAIN v.parts => Depth[Part(v, n)] < Depth[v]
<1>1. Depth \in [Json -> Nat] /\ Absent \in Json
  BY JsonAssumption
<1>2. CASE n \in DOMAIN v.parts
  <2>1. v.parts[n] \in Json \ {Absent} /\ Depth[v.parts[n]] < Depth[v]
    BY <1>2, JsonAssumption
  <2>2. Part(v, n) = v.parts[n]
    BY <1>2 DEF Part
  <2>3. QED
    BY <1>1, <1>2, <2>1, <2>2
<1>3. CASE n \notin DOMAIN v.parts
  <2>1. Part(v, n) = Absent
    BY <1>3 DEF Part
  <2>2. QED
    BY <1>1, <1>3, <2>1
<1>4. QED
  BY <1>2, <1>3

Spots == [path : Path, a : Json, b : Json]
Below(at, a) == at.a # Absent => Depth[at.a] < Depth[a]
PlaceOf(path, a, b, n) == Place(Append(path, n), Part(a, n), Part(b, n))

LEMMA PartPlacesAre ==
    ASSUME NEW path \in Path, NEW a \in Json, NEW b \in Json, Containers(a, b)
    PROVE  \E places \in Seq(Spots) :
              /\ PartPlaces(path, a, b) = places
              /\ \A k \in 1..Len(places) : Below(places[k], a)
              /\ \A n \in DOMAIN a.parts \cup DOMAIN b.parts :
                    \E k \in 1..Len(places) : places[k] = PlaceOf(path, a, b, n)
<1> DEFINE of == DOMAIN a.parts \cup DOMAIN b.parts
           order == IF a.tag = "object" THEN Lexical ELSE Positions
<1>1. order \in Seq(STRING) /\ of \subseteq ToSet(order)
  <2>1. Lexical \in Seq(STRING) /\ Positions \in Seq(STRING)
    BY DiffAssumption
  <2>2. CASE a.tag = "object"
    <3>1. b.tag = "object"
      BY <2>2 DEF Containers
    <3>2. DOMAIN a.parts \subseteq ToSet(Lexical) /\ DOMAIN b.parts \subseteq ToSet(Lexical)
      BY <2>2, <3>1, JsonAssumption
    <3>3. QED
      BY <2>1, <2>2, <3>2
  <2>3. CASE a.tag # "object"
    <3>1. a.tag = "array" /\ b.tag = "array"
      BY <2>3 DEF Containers
    <3>2. DOMAIN a.parts \subseteq ToSet(Positions) /\ DOMAIN b.parts \subseteq ToSet(Positions)
      BY <3>1, JsonAssumption
    <3>3. QED
      BY <2>1, <2>3, <3>2
  <2>4. QED
    BY <2>2, <2>3
<1>2. PICK names \in Seq(STRING) :
         /\ InOrder(order, of) = names
         /\ \A k \in 1..Len(names) : names[k] \in of
         /\ \A x \in of : x \in ToSet(order) => \E k \in 1..Len(names) : names[k] = x
  <2> HIDE DEF order, of
  <2>1. QED
    BY <1>1, InOrderIs
<1>3. PICK n \in Nat : n = Len(names) /\ DOMAIN names = 1..n
  OBVIOUS
<1>4. PICK places : places = [k \in 1..n |-> PlaceOf(path, a, b, names[k])]
  OBVIOUS
<1>5. PartPlaces(path, a, b) = places
  BY <1>2, <1>3, <1>4 DEF PartPlaces, PlaceOf
<1>6. ASSUME NEW k \in 1..n PROVE places[k] \in Spots /\ Below(places[k], a)
  <2>1. names[k] \in STRING
    BY <1>3
  <2>2. Append(path, names[k]) \in Path
    BY <2>1 DEF Path
  <2>3. /\ Part(a, names[k]) \in Json /\ Part(b, names[k]) \in Json
        /\ Part(a, names[k]) # Absent => Depth[Part(a, names[k])] < Depth[a]
    BY PartIn
  <2>4. places[k] = Place(Append(path, names[k]), Part(a, names[k]), Part(b, names[k]))
    BY <1>4 DEF PlaceOf
  <2>5. QED
    BY <2>2, <2>3, <2>4 DEF Place, Spots, Below
<1>7. places \in Seq(Spots) /\ Len(places) = n
  BY <1>4, <1>6
<1>8. ASSUME NEW x \in of PROVE \E k \in 1..Len(places) : places[k] = PlaceOf(path, a, b, x)
  <2>1. PICK k \in 1..Len(names) : names[k] = x
    BY <1>1, <1>2
  <2>2. k \in 1..n /\ places[k] = PlaceOf(path, a, b, x)
    BY <1>3, <1>4, <2>1
  <2>3. QED
    BY <1>7, <2>2
<1>9. QED
  BY <1>5, <1>6, <1>7, <1>8

AChange == [class : Classes, path : Path, kind : Kinds, a : Json, b : Json]

LEMMA BudgetIs ==
    ASSUME NEW seen \in Seen, seen.changes = << >>
    PROVE  Budget(seen) # 0
<1>1. Len(seen.changes) = 0
  OBVIOUS
<1>2. MaxChanges \in Nat \ {0}
  BY DiffAssumption
<1>3. QED
  BY <1>1, <1>2 DEF Budget

\* A finding that leaves no trace among the changes is noise.
LEMMA AppendChangeIs ==
    ASSUME NEW seen \in Seen, NEW c \in AChange
    PROVE  /\ AppendChange(seen, c) \in Seen
           /\ AppendChange(seen, c).changes = << >> => seen.changes = << >> /\ IsNoise(c.path, c.a, c.b)
<1> DEFINE new == AppendChange(seen, c)
<1>1. /\ seen.changes \in Seq(AChange) /\ seen.noise \in Seq(Path) /\ c.path \in Path
      /\ seen = [changes |-> seen.changes, noise |-> seen.noise]
  BY DEF Seen, AChange
<1>2. CASE IsNoise(c.path, c.a, c.b)
  <2>1. new = [seen EXCEPT !.noise = Append(@, c.path)]
    BY <1>2 DEF AppendChange
  <2>2. Append(seen.noise, c.path) \in Seq(Path)
    BY <1>1
  <2>3. new \in Seen /\ new.changes = seen.changes
    BY <1>1, <2>1, <2>2 DEF Seen, AChange
  <2>4. QED
    BY <1>2, <2>3
<1>3. CASE ~IsNoise(c.path, c.a, c.b) /\ Budget(seen) = 0
  <2>1. new = seen
    BY <1>3 DEF AppendChange
  <2>2. QED
    BY <1>3, <2>1, BudgetIs
<1>4. CASE ~IsNoise(c.path, c.a, c.b) /\ Budget(seen) # 0
  <2>1. new = [seen EXCEPT !.changes = Append(@, c)]
    BY <1>4 DEF AppendChange
  <2>2. Append(seen.changes, c) \in Seq(AChange) /\ Append(seen.changes, c) # << >>
    BY <1>1
  <2>3. new \in Seen /\ new.changes = Append(seen.changes, c)
    BY <1>1, <2>1, <2>2 DEF Seen, AChange
  <2>4. QED
    BY <2>2, <2>3
<1>5. QED
  BY <1>2, <1>3, <1>4

LEMMA ChangeIs ==
    ASSUME NEW class \in Classes, NEW path \in Path, NEW kind \in Kinds, NEW a \in Json, NEW b \in Json
    PROVE  /\ Change(class, path, kind, a, b) \in AChange
           /\ Change(class, path, kind, a, b).path = path
           /\ Change(class, path, kind, a, b).a = a /\ Change(class, path, kind, a, b).b = b
BY DEF Change, AChange

\* Where both sides have something, diff says what is seen then.
HasBoth(at) == at.a # Absent /\ at.b # Absent
Asks(diff, class, at, s) == diff[<<s, class, at.path, at.a, at.b>>]
Answers(diff, class, at) == HasBoth(at) => \A s \in Seen : Asks(diff, class, at, s) \in Seen

LEMMA DiffPlaceIs ==
    ASSUME NEW diff, NEW seen \in Seen, NEW class \in Classes, NEW at \in Spots, Answers(diff, class, at)
    PROVE  /\ DiffPlace(diff, seen, class, at) \in Seen
           /\ HasBoth(at) => DiffPlace(diff, seen, class, at) = Asks(diff, class, at, seen)
           /\ ~HasBoth(at) /\ DiffPlace(diff, seen, class, at).changes = << >> =>
                 seen.changes = << >> /\ IsNoise(at.path, at.a, at.b)
<1>0. at.path \in Path /\ at.a \in Json /\ at.b \in Json
  BY DEF Spots
<1>1. CASE at.b = Absent
  <2>0. PICK kind : kind = "only-in-A" /\ kind \in Kinds
    BY DEF Kinds
  <2>1. PICK c : c = Change(class, at.path, kind, at.a, at.b)
    OBVIOUS
  <2>2. c \in AChange /\ c.path = at.path /\ c.a = at.a /\ c.b = at.b
    BY <1>0, <2>0, <2>1, ChangeIs
  <2>3. DiffPlace(diff, seen, class, at) = AppendChange(seen, c)
    BY <1>1, <2>0, <2>1 DEF DiffPlace
  <2>4. QED
    BY <1>1, <2>2, <2>3, AppendChangeIs DEF HasBoth
<1>2. CASE at.b # Absent /\ at.a = Absent
  <2>0. PICK kind : kind = "only-in-B" /\ kind \in Kinds
    BY DEF Kinds
  <2>1. PICK c : c = Change(class, at.path, kind, at.a, at.b)
    OBVIOUS
  <2>2. c \in AChange /\ c.path = at.path /\ c.a = at.a /\ c.b = at.b
    BY <1>0, <2>0, <2>1, ChangeIs
  <2>3. DiffPlace(diff, seen, class, at) = AppendChange(seen, c)
    BY <1>2, <2>0, <2>1 DEF DiffPlace
  <2>4. QED
    BY <1>2, <2>2, <2>3, AppendChangeIs DEF HasBoth
<1>3. CASE at.b # Absent /\ at.a # Absent
  <2>1. DiffPlace(diff, seen, class, at) = Asks(diff, class, at, seen)
    BY <1>3 DEF DiffPlace, Asks
  <2>2. QED
    BY <1>3, <2>1 DEF HasBoth, Answers
<1>4. QED
  BY <1>1, <1>2, <1>3

\* The walk of DiffPlaces: what is seen after each place.
PlaceWalk(w, diff, seen, class, places) ==
    /\ w \in [0..Len(places) -> Seen] /\ w[0] = seen
    /\ \A k \in 1..Len(places) : w[k] = DiffPlace(diff, w[k - 1], class, places[k])

LEMMA DiffPlacesWalk ==
    ASSUME NEW diff, NEW seen \in Seen, NEW class \in Classes, NEW places \in Seq(Spots),
           \A k \in 1..Len(places) : Answers(diff, class, places[k])
    PROVE  \E w : /\ PlaceWalk(w, diff, seen, class, places)
                  /\ DiffPlaces(diff, seen, class, places) = w[Len(places)]
<1> DEFINE n == Len(places)
           go == [x \in (1..n) \X Seen |-> DiffPlace(diff, x[2], class, places[x[1]])]
           Is(w) == w = [k \in 0..n |-> IF k = 0 THEN seen ELSE DiffPlace(diff, w[k - 1], class, places[k])]
<1>1. n \in Nat /\ \A k \in 1..n : places[k] \in Spots
  OBVIOUS
<1>2. \A k \in 1..n : \A s \in Seen : DiffPlace(diff, s, class, places[k]) \in Seen
  BY <1>1, DiffPlaceIs
<1> HIDE DEF n
<1>3. Goes(go, n, Seen)
  <2>1. \A x \in (1..n) \X Seen : DiffPlace(diff, x[2], class, places[x[1]]) \in Seen
    BY <1>2
  <2>2. QED
    BY <2>1 DEF Goes
<1>4. PICK v : Walks(v, n, Seen, seen, go)
  <2> HIDE DEF go
  <2>1. QED
    BY <1>1, <1>3, WalkIs
<1>5. Is(v)
  <2>1. v \in [0..n -> Seen] /\ v[0] = seen
    BY <1>4 DEF Walks
  <2>2. ASSUME NEW k \in 1..n PROVE v[k] = DiffPlace(diff, v[k - 1], class, places[k])
    <3>1. k - 1 \in 0..n
      BY <1>1
    <3>2. v[k] = go[<<k, v[k - 1]>>] /\ v[k - 1] \in Seen
      BY <1>4, <2>1, <3>1 DEF Walks
    <3>3. QED
      BY <3>2
  <2>3. \A k \in 0..n : v[k] = IF k = 0 THEN seen ELSE DiffPlace(diff, v[k - 1], class, places[k])
    <3>1. \A k \in 0..n : k # 0 => k \in 1..n
      BY <1>1
    <3>2. QED
      BY <2>1, <2>2, <3>1
  <2>4. QED
    BY <2>1, <2>3
<1>6. PICK w : w = CHOOSE u : Is(u)
  OBVIOUS
<1>7. Is(w)
  <2> HIDE DEF Is
  <2>1. QED
    BY <1>5, <1>6
<1>8. DiffPlaces(diff, seen, class, places) = w[n]
  BY <1>6 DEF DiffPlaces, n
<1>9. w[0] = seen /\ \A k \in 1..n : w[k] = DiffPlace(diff, w[k - 1], class, places[k])
  <2>1. 0 \in 0..n /\ \A k \in 1..n : k \in 0..n /\ k # 0
    BY <1>1
  <2>2. QED
    BY <1>7, <2>1
<1>10. \A k \in 0..n : w[k] \in Seen
  <2> DEFINE P == {k \in 0..n : w[k] \in Seen}
  <2>1. 0 \in P
    BY <1>1, <1>9
  <2>2. ASSUME NEW k \in 1..n, k - 1 \in P PROVE k \in P
    <3>1. w[k - 1] \in Seen /\ k \in 0..n
      BY <1>1, <2>2
    <3>2. w[k] \in Seen
      BY <1>2, <1>9, <3>1
    <3>3. QED
      BY <3>1, <3>2
  <2> HIDE DEF P
  <2>3. \A k \in 0..n : k \in P
    BY <1>1, <2>1, <2>2, UpTo
  <2>4. QED
    BY <2>3 DEF P
<1>11. w \in [0..n -> Seen]
  BY <1>7, <1>10
<1>12. QED
  BY <1>8, <1>9, <1>11 DEF PlaceWalk, n

LEMMA DiffPlacesAre ==
    ASSUME NEW diff, NEW seen \in Seen, NEW class \in Classes, NEW places \in Seq(Spots),
           \A k \in 1..Len(places) : Answers(diff, class, places[k])
    PROVE  DiffPlaces(diff, seen, class, places) \in Seen
<1>1. PICK w : /\ PlaceWalk(w, diff, seen, class, places)
               /\ DiffPlaces(diff, seen, class, places) = w[Len(places)]
  BY DiffPlacesWalk
<1>2. Len(places) \in 0..Len(places)
  OBVIOUS
<1>3. QED
  BY <1>1, <1>2 DEF PlaceWalk

\* Two that say the same at these places see the same.
Agree(diff, other, class, at) ==
    HasBoth(at) => \A s \in Seen : Asks(diff, class, at, s) = Asks(other, class, at, s)

LEMMA DiffPlacesAgree ==
    ASSUME NEW diff, NEW other, NEW seen \in Seen, NEW class \in Classes, NEW places \in Seq(Spots),
           \A k \in 1..Len(places) : Answers(diff, class, places[k]) /\ Answers(other, class, places[k])
                                     /\ Agree(diff, other, class, places[k])
    PROVE  DiffPlaces(diff, seen, class, places) = DiffPlaces(other, seen, class, places)
<1>1. PICK v : /\ PlaceWalk(v, diff, seen, class, places)
               /\ DiffPlaces(diff, seen, class, places) = v[Len(places)]
  BY DiffPlacesWalk
<1>2. PICK w : /\ PlaceWalk(w, other, seen, class, places)
               /\ DiffPlaces(other, seen, class, places) = w[Len(places)]
  BY DiffPlacesWalk
<1>3. PICK n \in Nat : n = Len(places)
  OBVIOUS
<1> DEFINE P == {k \in 0..n : v[k] = w[k]}
<1>4. 0 \in P
  BY <1>1, <1>2, <1>3 DEF PlaceWalk
<1>5. ASSUME NEW k \in 1..n, k - 1 \in P PROVE k \in P
  <2>1. places[k] \in Spots /\ k - 1 \in 0..n /\ k \in 0..n
    BY <1>3
  <2>2. PICK s \in Seen : s = v[k - 1] /\ s = w[k - 1]
    BY <1>1, <1>3, <1>5, <2>1 DEF PlaceWalk
  <2>3. v[k] = DiffPlace(diff, s, class, places[k]) /\ w[k] = DiffPlace(other, s, class, places[k])
    BY <1>1, <1>2, <1>3, <2>2 DEF PlaceWalk
  <2>4. DiffPlace(diff, s, class, places[k]) = DiffPlace(other, s, class, places[k])
    <3>1. Agree(diff, other, class, places[k])
      BY <1>3
    <3>2. QED
      BY <3>1 DEF DiffPlace, Agree, HasBoth, Asks
  <2>5. QED
    BY <2>1, <2>3, <2>4
<1> HIDE DEF P
<1>6. \A k \in 0..n : k \in P
  BY <1>4, <1>5, UpTo
<1>7. n \in P
  BY <1>6
<1>8. QED
  BY <1>1, <1>2, <1>3, <1>7 DEF P

\* A place is told unless it leaves what was seen without a change.
Tells(diff, class, at) ==
    \A s \in Seen : DiffPlace(diff, s, class, at).changes = << >> => s.changes = << >>
QuietAt(diff, class, at) == \E s \in Seen : DiffPlace(diff, s, class, at).changes = << >>

LEMMA DiffPlacesTell ==
    ASSUME NEW diff, NEW seen \in Seen, NEW class \in Classes, NEW places \in Seq(Spots),
           \A k \in 1..Len(places) : Answers(diff, class, places[k]) /\ Tells(diff, class, places[k]),
           DiffPlaces(diff, seen, class, places).changes = << >>
    PROVE  seen.changes = << >> /\ \A k \in 1..Len(places) : QuietAt(diff, class, places[k])
<1>1. PICK w : /\ PlaceWalk(w, diff, seen, class, places)
               /\ DiffPlaces(diff, seen, class, places) = w[Len(places)]
  BY DiffPlacesWalk
<1>2. PICK n \in Nat : n = Len(places)
  OBVIOUS
<1>3. /\ w[0] = seen /\ w[n].changes = << >>
      /\ \A k \in 1..n : w[k] = DiffPlace(diff, w[k - 1], class, places[k])
      /\ \A k \in 0..n : w[k] \in Seen
  BY <1>1, <1>2 DEF PlaceWalk
<1>4. ASSUME NEW i \in 0..n PROVE w[i].changes = << >>
  <2> DEFINE P == {k \in 0..n : k < i \/ w[k].changes # << >>}
  <2> SUFFICES ASSUME w[i].changes # << >> PROVE FALSE
    OBVIOUS
  <2>1. 0 \in P
    <3>1. 0 < i \/ 0 = i
      OBVIOUS
    <3>2. QED
      BY <1>2, <3>1
  <2>2. ASSUME NEW k \in 1..n, k - 1 \in P PROVE k \in P
    <3>1. CASE k < i \/ k = i
      BY <3>1
    <3>2. CASE i < k
      <4>1. w[k - 1].changes # << >> /\ k - 1 \in 0..n /\ k \in 0..n
        BY <2>2, <3>2
      <4>2. Tells(diff, class, places[k])
        BY <1>2
      <4>3. w[k].changes # << >>
        BY <1>3, <4>1, <4>2 DEF Tells
      <4>4. QED
        BY <4>1, <4>3
    <3>3. QED
      BY <3>1, <3>2
  <2> HIDE DEF P
  <2>3. \A k \in 0..n : k \in P
    BY <2>1, <2>2, UpTo
  <2>4. n \in P /\ ~(n < i)
    BY <2>3
  <2>5. QED
    BY <1>3, <2>4 DEF P
<1>5. seen.changes = << >>
  BY <1>2, <1>3, <1>4
<1>6. ASSUME NEW k \in 1..n PROVE QuietAt(diff, class, places[k])
  <2>1. k \in 0..n /\ k - 1 \in 0..n
    OBVIOUS
  <2>2. w[k - 1] \in Seen /\ DiffPlace(diff, w[k - 1], class, places[k]).changes = << >>
    BY <1>3, <1>4, <2>1
  <2>3. QED
    BY <2>2 DEF QuietAt
<1>7. QED
  BY <1>2, <1>5, <1>6

-----------------------------------------------------------------------------
(* DiffValue, by recursion on how deep a value nests. *)

Both5 == Seen \X Classes \X Path \X Json \X Json
OfBoth(diff, x) == DiffBoth(diff, x[1], x[2], x[3], x[4], x[5])
DepthOfA == [x \in Both5 |-> Depth[x[4]]]
Lower(a) == {x \in Both5 : Depth[x[4]] < Depth[a]}

LEMMA BelowAsks ==
    ASSUME NEW diff, NEW a \in Json, \A x \in Lower(a) : diff[x] \in Seen,
           NEW class \in Classes, NEW at \in Spots, Below(at, a)
    PROVE  Answers(diff, class, at)
<1>1. at.path \in Path /\ at.a \in Json /\ at.b \in Json
  BY DEF Spots
<1>2. ASSUME HasBoth(at), NEW s \in Seen PROVE Asks(diff, class, at, s) \in Seen
  <2>1. Depth[at.a] < Depth[a]
    BY <1>2 DEF HasBoth, Below
  <2>2. PICK x : x = <<s, class, at.path, at.a, at.b>>
    OBVIOUS
  <2>3. x \in Both5 /\ x[4] = at.a
    BY <1>1, <2>2 DEF Both5
  <2>4. x \in Lower(a)
    BY <2>1, <2>3 DEF Lower
  <2>5. QED
    BY <2>2, <2>4 DEF Asks
<1>3. QED
  BY <1>2 DEF Answers

LEMMA DiffBothIs ==
    ASSUME NEW diff, NEW x \in Both5, \A y \in Lower(x[4]) : diff[y] \in Seen
    PROVE  OfBoth(diff, x) \in Seen
<1>1. PICK s, c, p, a, b : s = x[1] /\ c = x[2] /\ p = x[3] /\ a = x[4] /\ b = x[5]
  OBVIOUS
<1>2. s \in Seen /\ c \in Classes /\ p \in Path /\ a \in Json /\ b \in Json
  BY <1>1 DEF Both5
<1>3. OfBoth(diff, x) = DiffBoth(diff, s, c, p, a, b)
  BY <1>1 DEF OfBoth
<1>4. CASE Budget(s) = 0 \/ a = b
  BY <1>2, <1>3, <1>4 DEF DiffBoth
<1>5. CASE ~(Budget(s) = 0 \/ a = b) /\ Containers(a, b) /\ ~(a.tag = "array" /\ SameMultiset(a, b))
  <2>1. PICK places \in Seq(Spots) :
           PartPlaces(p, a, b) = places /\ \A k \in 1..Len(places) : Below(places[k], a)
    BY <1>2, <1>5, PartPlacesAre
  <2>2. \A k \in 1..Len(places) : places[k] \in Spots
    OBVIOUS
  <2>3. \A k \in 1..Len(places) : Answers(diff, c, places[k])
    BY <1>1, <1>2, <2>1, <2>2, BelowAsks
  <2>4. DiffPlaces(diff, s, c, places) \in Seen
    BY <1>2, <2>3, DiffPlacesAre
  <2>5. DiffBoth(diff, s, c, p, a, b) = DiffPlaces(diff, s, c, places)
    BY <1>5, <2>1 DEF DiffBoth
  <2>6. QED
    BY <1>3, <2>4, <2>5
<1>6. CASE ~(Budget(s) = 0 \/ a = b) /\ ~(Containers(a, b) /\ ~(a.tag = "array" /\ SameMultiset(a, b)))
  <2>1. PICK kind : kind = (IF Containers(a, b) THEN "reordered" ELSE "changed") /\ kind \in Kinds
    BY DEF Kinds
  <2>2. Change(c, p, kind, a, b) \in AChange
    BY <1>2, <2>1, ChangeIs
  <2>3. DiffBoth(diff, s, c, p, a, b) = AppendChange(s, Change(c, p, kind, a, b))
    BY <1>6, <2>1 DEF DiffBoth
  <2>4. QED
    BY <1>2, <1>3, <2>2, <2>3, AppendChangeIs
<1>7. QED
  BY <1>4, <1>5, <1>6

LEMMA DiffBothAgrees ==
    ASSUME NEW diff, NEW other, NEW x \in Both5,
           \A y \in Lower(x[4]) : diff[y] \in Seen /\ other[y] \in Seen /\ diff[y] = other[y]
    PROVE  OfBoth(diff, x) = OfBoth(other, x)
<1>1. PICK s, c, p, a, b : s = x[1] /\ c = x[2] /\ p = x[3] /\ a = x[4] /\ b = x[5]
  OBVIOUS
<1>2. s \in Seen /\ c \in Classes /\ p \in Path /\ a \in Json /\ b \in Json
  BY <1>1 DEF Both5
<1>3. OfBoth(diff, x) = DiffBoth(diff, s, c, p, a, b) /\ OfBoth(other, x) = DiffBoth(other, s, c, p, a, b)
  BY <1>1 DEF OfBoth
<1>4. CASE Containers(a, b)
  <2>1. PICK places \in Seq(Spots) :
           PartPlaces(p, a, b) = places /\ \A k \in 1..Len(places) : Below(places[k], a)
    BY <1>2, <1>4, PartPlacesAre
  <2>2. ASSUME NEW k \in 1..Len(places)
        PROVE  /\ Answers(diff, c, places[k]) /\ Answers(other, c, places[k])
               /\ Agree(diff, other, c, places[k])
    <3>1. PICK at \in Spots : at = places[k]
      OBVIOUS
    <3>2. Answers(diff, c, at) /\ Answers(other, c, at)
      BY <1>1, <1>2, <2>1, <3>1, BelowAsks
    <3>3. ASSUME HasBoth(at), NEW t \in Seen PROVE Asks(diff, c, at, t) = Asks(other, c, at, t)
      <4>1. at.path \in Path /\ at.a \in Json /\ at.b \in Json
        BY DEF Spots
      <4>2. Depth[at.a] < Depth[a]
        BY <2>1, <3>1, <3>3 DEF HasBoth, Below
      <4>3. PICK y : y = <<t, c, at.path, at.a, at.b>>
        OBVIOUS
      <4>4. y \in Both5 /\ y[4] = at.a
        BY <1>2, <4>1, <4>3 DEF Both5
      <4>5. y \in Lower(a)
        BY <4>2, <4>4 DEF Lower
      <4>6. QED
        BY <1>1, <4>3, <4>5 DEF Asks
    <3>4. QED
      BY <3>1, <3>2, <3>3 DEF Agree
  <2>3. DiffPlaces(diff, s, c, PartPlaces(p, a, b)) = DiffPlaces(other, s, c, PartPlaces(p, a, b))
    BY <1>2, <2>1, <2>2, DiffPlacesAgree
  <2>4. QED
    BY <1>3, <2>3 DEF DiffBoth
<1>5. CASE ~Containers(a, b)
  BY <1>3, <1>5 DEF DiffBoth
<1>6. QED
  BY <1>4, <1>5

LEMMA DiffValueIs ==
    \A x \in Both5 : DiffValue[x] \in Seen /\ DiffValue[x] = OfBoth(DiffValue, x)
<1> DEFINE Fun == [Both5 -> Seen]
           go == [z \in Fun \X Both5 |-> OfBoth(z[1], z[2])]
           Is(f) == f = [x \in Both5 |-> OfBoth(f, x)]
<1>1. DepthOfA \in [Both5 -> Nat] /\ \A x \in Both5 : DepthOfA[x] = Depth[x[4]]
  BY JsonAssumption DEF DepthOfA, Both5
<1>2. \A x, y \in Both5 : y \in Lower(x[4]) <=> DepthOfA[y] < DepthOfA[x]
  BY <1>1 DEF Lower
<1>3. \A x \in Both5 : Lower(x[4]) \subseteq Both5
  BY DEF Lower
<1>4. ASSUME NEW f \in Fun, NEW x \in Both5 PROVE OfBoth(f, x) \in Seen
  <2>1. \A y \in Lower(x[4]) : f[y] \in Seen
    BY <1>3
  <2>2. QED
    BY <2>1, DiffBothIs
<1>5. ASSUME NEW f \in Fun, NEW g \in Fun, NEW x \in Both5,
             \A y \in Both5 : DepthOfA[y] < DepthOfA[x] => f[y] = g[y]
      PROVE  OfBoth(f, x) = OfBoth(g, x)
  <2>1. \A y \in Lower(x[4]) : f[y] \in Seen /\ g[y] \in Seen /\ f[y] = g[y]
    BY <1>2, <1>3, <1>5
  <2>2. QED
    BY <2>1, DiffBothAgrees
<1> HIDE DEF Fun
<1>6. go \in [Fun \X Both5 -> Seen]
  <2>1. \A z \in Fun \X Both5 : OfBoth(z[1], z[2]) \in Seen
    BY <1>4
  <2>2. QED
    BY <2>1
<1>7. \A f \in Fun : \A x \in Both5 : go[<<f, x>>] = OfBoth(f, x)
  OBVIOUS
<1> HIDE DEF go
<1>8. Seen # {}
  <2>1. [changes |-> << >>, noise |-> << >>] \in Seen
    BY DEF Seen
  <2>2. QED
    BY <2>1
<1>9. Deep(go, DepthOfA, Both5, Seen)
  BY <1>1, <1>5, <1>6, <1>7, <1>8 DEF Deep, Fun
<1>10. PICK f \in Fun : \A x \in Both5 : f[x] = go[<<f, x>>]
  <2>1. \E f \in [Both5 -> Seen] : \A x \in Both5 : f[x] = go[<<f, x>>]
    BY <1>9, DeepIs
  <2>2. QED
    BY <2>1 DEF Fun
<1>11. Is(f)
  BY <1>7, <1>10 DEF Fun
<1>12. PICK g : g = DiffValue
  OBVIOUS
<1>13. g = CHOOSE h : Is(h)
  BY <1>12 DEF DiffValue, OfBoth, Both5
<1>14. Is(g)
  <2> HIDE DEF Is
  <2>1. QED
    BY <1>11, <1>13
<1>15. \A x \in Both5 : g[x] = OfBoth(g, x)
  BY <1>14
<1> DEFINE P == {x \in Both5 : g[x] \in Seen}
<1>16. ASSUME NEW x \in Both5, \A y \in Both5 : DepthOfA[y] < DepthOfA[x] => y \in P PROVE x \in P
  <2>1. \A y \in Lower(x[4]) : g[y] \in Seen
    BY <1>2, <1>3, <1>16
  <2>2. OfBoth(g, x) \in Seen
    BY <2>1, DiffBothIs
  <2>3. QED
    BY <1>15, <2>2
<1> HIDE DEF P
<1>17. \A x \in Both5 : x \in P
  BY <1>1, <1>16, RankInduction
<1>18. QED
  BY <1>12, <1>15, <1>17 DEF P

-----------------------------------------------------------------------------
(* Where two values differ beyond what every two runs differ in. *)

LEMMA NamesAre ==
    ASSUME NEW a \in Json, NEW b \in Json, Containers(a, b)
    PROVE  \A n \in DOMAIN a.parts \cup DOMAIN b.parts : n \in STRING
<1>1. \A n \in ToSet(Lexical) \cup ToSet(Positions) : n \in STRING
  BY DiffAssumption DEF ToSet
<1>2. \/ a.tag = "object" /\ b.tag = "object"
      \/ a.tag = "array" /\ b.tag = "array"
  BY DEF Containers
<1>3. DOMAIN a.parts \cup DOMAIN b.parts \subseteq ToSet(Lexical) \cup ToSet(Positions)
  BY <1>2, JsonAssumption
<1>4. QED
  BY <1>1, <1>3

PathSets == SUBSET Path
Pair3 == Path \X Json \X Json
BeyondAt(f, path, a, b) ==
    IF a = b \/ PerRun(path, a, b) THEN {}
      ELSE IF a.tag = b.tag /\ a.tag \in {"object", "array"}
             THEN UNION {f[<<Append(path, n), Part(a, n), Part(b, n)>>] :
                           n \in DOMAIN a.parts \cup DOMAIN b.parts}
             ELSE {path}
OfPair(f, x) == BeyondAt(f, x[1], x[2], x[3])
DepthOfPair == [x \in Pair3 |-> Depth[x[2]] + Depth[x[3]]]

LEMMA PartsBelow ==
    ASSUME NEW path \in Path, NEW a \in Json, NEW b \in Json, Containers(a, b),
           NEW n \in DOMAIN a.parts \cup DOMAIN b.parts
    PROVE  /\ <<Append(path, n), Part(a, n), Part(b, n)>> \in Pair3
           /\ DepthOfPair[<<Append(path, n), Part(a, n), Part(b, n)>>] < DepthOfPair[<<path, a, b>>]
<1>1. n \in STRING
  BY NamesAre
<1>2. PICK p, v, w : p = Append(path, n) /\ v = Part(a, n) /\ w = Part(b, n)
  OBVIOUS
<1>3. p \in Path /\ v \in Json /\ w \in Json
  BY <1>1, <1>2, PartIn DEF Path
<1>4. <<p, v, w>> \in Pair3 /\ <<path, a, b>> \in Pair3
  BY <1>3 DEF Pair3
<1>5. /\ DepthOfPair[<<p, v, w>>] = Depth[v] + Depth[w]
      /\ DepthOfPair[<<path, a, b>>] = Depth[a] + Depth[b]
  BY <1>4 DEF DepthOfPair
<1>6. /\ Depth[a] \in Nat /\ Depth[b] \in Nat /\ Depth[v] \in Nat /\ Depth[w] \in Nat
      /\ n \in DOMAIN a.parts => Depth[v] < Depth[a]
      /\ n \in DOMAIN b.parts => Depth[w] < Depth[b]
  BY <1>2, PartIn
<1>7. /\ n \notin DOMAIN a.parts => Depth[v] = 0
      /\ n \notin DOMAIN b.parts => Depth[w] = 0
  BY <1>2, PartIn, JsonAssumption
<1>8. Depth[v] + Depth[w] < Depth[a] + Depth[b]
  BY <1>6, <1>7
<1>9. QED
  BY <1>2, <1>4, <1>5, <1>8

LEMMA BeyondIs ==
    \A x \in Pair3 : BeyondRuns[x] = OfPair(BeyondRuns, x)
<1> DEFINE Fun == [Pair3 -> PathSets]
           go == [z \in Fun \X Pair3 |-> OfPair(z[1], z[2])]
           Is(f) == f = [x \in Pair3 |-> OfPair(f, x)]
<1>1. DepthOfPair \in [Pair3 -> Nat]
  <2>1. \A x \in Pair3 : Depth[x[2]] \in Nat /\ Depth[x[3]] \in Nat
    BY JsonAssumption DEF Pair3
  <2>2. QED
    BY <2>1 DEF DepthOfPair
<1>2. ASSUME NEW f \in Fun, NEW x \in Pair3 PROVE OfPair(f, x) \in PathSets
  <2>1. PICK path, a, b : path = x[1] /\ a = x[2] /\ b = x[3]
    OBVIOUS
  <2>2. path \in Path /\ a \in Json /\ b \in Json /\ OfPair(f, x) = BeyondAt(f, path, a, b)
    BY <2>1 DEF Pair3, OfPair
  <2>3. CASE Containers(a, b)
    <3>1. \A n \in DOMAIN a.parts \cup DOMAIN b.parts :
             f[<<Append(path, n), Part(a, n), Part(b, n)>>] \in PathSets
      BY <2>2, <2>3, PartsBelow
    <3>2. UNION {f[<<Append(path, n), Part(a, n), Part(b, n)>>] : n \in DOMAIN a.parts \cup DOMAIN b.parts}
             \in PathSets
      BY <3>1 DEF PathSets
    <3>3. QED
      BY <2>2, <3>2 DEF BeyondAt, PathSets
  <2>4. CASE ~Containers(a, b)
    BY <2>2, <2>4 DEF BeyondAt, Containers, PathSets
  <2>5. QED
    BY <2>3, <2>4
<1>3. ASSUME NEW f \in Fun, NEW g \in Fun, NEW x \in Pair3,
             \A y \in Pair3 : DepthOfPair[y] < DepthOfPair[x] => f[y] = g[y]
      PROVE  OfPair(f, x) = OfPair(g, x)
  <2>1. PICK path, a, b : path = x[1] /\ a = x[2] /\ b = x[3]
    OBVIOUS
  <2>2. path \in Path /\ a \in Json /\ b \in Json /\ x = <<path, a, b>>
    BY <2>1 DEF Pair3
  <2>3. OfPair(f, x) = BeyondAt(f, path, a, b) /\ OfPair(g, x) = BeyondAt(g, path, a, b)
    BY <2>1 DEF OfPair
  <2>4. CASE Containers(a, b)
    <3>1. \A n \in DOMAIN a.parts \cup DOMAIN b.parts :
             f[<<Append(path, n), Part(a, n), Part(b, n)>>] = g[<<Append(path, n), Part(a, n), Part(b, n)>>]
      BY <1>3, <2>2, <2>4, PartsBelow
    <3>2. UNION {f[<<Append(path, n), Part(a, n), Part(b, n)>>] : n \in DOMAIN a.parts \cup DOMAIN b.parts}
            = UNION {g[<<Append(path, n), Part(a, n), Part(b, n)>>] : n \in DOMAIN a.parts \cup DOMAIN b.parts}
      BY <3>1
    <3>3. QED
      BY <2>3, <3>2 DEF BeyondAt
  <2>5. CASE ~Containers(a, b)
    BY <2>3, <2>5 DEF BeyondAt, Containers
  <2>6. QED
    BY <2>4, <2>5
<1> HIDE DEF Fun
<1>4. go \in [Fun \X Pair3 -> PathSets]
  <2>1. \A z \in Fun \X Pair3 : OfPair(z[1], z[2]) \in PathSets
    BY <1>2
  <2>2. QED
    BY <2>1
<1>5. \A f \in Fun : \A x \in Pair3 : go[<<f, x>>] = OfPair(f, x)
  OBVIOUS
<1> HIDE DEF go
<1>6. PathSets # {}
  BY DEF PathSets
<1>7. Deep(go, DepthOfPair, Pair3, PathSets)
  BY <1>1, <1>3, <1>4, <1>5, <1>6 DEF Deep, Fun
<1>8. PICK f \in Fun : \A x \in Pair3 : f[x] = go[<<f, x>>]
  <2>1. \E f \in [Pair3 -> PathSets] : \A x \in Pair3 : f[x] = go[<<f, x>>]
    BY <1>7, DeepIs
  <2>2. QED
    BY <2>1 DEF Fun
<1>9. Is(f)
  BY <1>5, <1>8 DEF Fun
<1>10. PICK g : g = BeyondRuns
  OBVIOUS
<1>11. g = CHOOSE h : Is(h)
  BY <1>10 DEF BeyondRuns, OfPair, BeyondAt, Pair3
<1>12. Is(g)
  <2> HIDE DEF Is
  <2>1. QED
    BY <1>9, <1>11
<1>13. QED
  BY <1>10, <1>12

LEMMA SameIs ==
    ASSUME NEW path \in Path, NEW a \in Json, NEW b \in Json
    PROVE  SameButPerRun(path, a, b) <=>
              \/ a = b
              \/ PerRun(path, a, b)
              \/ /\ Containers(a, b)
                 /\ \A n \in DOMAIN a.parts \cup DOMAIN b.parts :
                       SameButPerRun(Append(path, n), Part(a, n), Part(b, n))
<1>1. PICK f, all : f = BeyondRuns /\ all = BeyondRuns[<<path, a, b>>]
  OBVIOUS
<1>2. all = BeyondAt(f, path, a, b)
  <2>1. <<path, a, b>> \in Pair3
    BY DEF Pair3
  <2>2. QED
    BY <1>1, <2>1, BeyondIs DEF OfPair
<1>3. SameButPerRun(path, a, b) <=> all = {}
  BY <1>1 DEF SameButPerRun
<1>4. CASE a = b \/ PerRun(path, a, b)
  BY <1>2, <1>3, <1>4 DEF BeyondAt
<1>5. CASE ~(a = b \/ PerRun(path, a, b)) /\ Containers(a, b)
  <2> DEFINE of == DOMAIN a.parts \cup DOMAIN b.parts
             At(n) == f[<<Append(path, n), Part(a, n), Part(b, n)>>]
  <2>1. all = UNION {At(n) : n \in of}
    BY <1>2, <1>5 DEF BeyondAt, Containers
  <2>2. \A n : SameButPerRun(Append(path, n), Part(a, n), Part(b, n)) <=> At(n) = {}
    BY <1>1 DEF SameButPerRun
  <2> HIDE DEF At, of
  <2>3. all = {} <=> \A n \in of : At(n) = {}
    <3>1. ASSUME all = {}, NEW n \in of PROVE At(n) = {}
      BY <2>1, <3>1
    <3>2. ASSUME \A n \in of : At(n) = {} PROVE all = {}
      BY <2>1, <3>2
    <3>3. QED
      BY <3>1, <3>2
  <2>4. QED
    BY <1>3, <1>5, <2>2, <2>3 DEF of
<1>6. CASE ~(a = b \/ PerRun(path, a, b)) /\ ~Containers(a, b)
  <2>1. all = {path}
    BY <1>2, <1>6 DEF BeyondAt, Containers
  <2>2. QED
    BY <1>3, <1>6, <2>1
<1>7. QED
  BY <1>4, <1>5, <1>6

LEMMA NoiseIsPerRun ==
    ASSUME NEW path, NEW a, NEW b, IsNoise(path, a, b)
    PROVE  PerRun(path, a, b)
<1>1. CASE LeafKey(path) \in NoisyFields
  BY <1>1 DEF PerRun
<1>2. CASE ToSet(path) \cap NoisySegments # {}
  <2>1. \E n \in DOMAIN path : path[n] \in NoisySegments
    BY <1>2 DEF ToSet
  <2>2. QED
    BY <2>1 DEF PerRun
<1>3. CASE Volatile(a, b)
  <2>1. a.tag = "atom" /\ b.tag = "atom" /\ Shape[a.is] # "plain" /\ Shape[a.is] = Shape[b.is]
    BY <1>3 DEF Volatile
  <2>2. {a.tag, b.tag} = {"atom"}
    BY <2>1
  <2>3. QED
    BY <2>1, <2>2 DEF PerRun
<1>4. QED
  BY <1>1, <1>2, <1>3 DEF IsNoise

-----------------------------------------------------------------------------
(* What leaves no change is the same but for what is per run. *)

LEMMA ValueAnswers ==
    ASSUME NEW class \in Classes, NEW at \in Spots
    PROVE  Answers(DiffValue, class, at)
<1>1. at.path \in Path /\ at.a \in Json /\ at.b \in Json
  BY DEF Spots
<1>2. ASSUME NEW s \in Seen PROVE Asks(DiffValue, class, at, s) \in Seen
  <2>1. PICK x : x = <<s, class, at.path, at.a, at.b>>
    OBVIOUS
  <2>2. x \in Both5
    BY <1>1, <2>1 DEF Both5
  <2>3. DiffValue[x] \in Seen
    BY <2>2, DiffValueIs
  <2>4. QED
    BY <2>1, <2>3 DEF Asks
<1>3. QED
  BY <1>2 DEF Answers

Quiet(x) == DiffValue[x].changes = << >> => x[1].changes = << >> /\ SameButPerRun(x[3], x[4], x[5])
QuietWhere(class, at) == HasBoth(at) => \A s \in Seen : Quiet(<<s, class, at.path, at.a, at.b>>)

LEMMA PlaceIsQuiet ==
    ASSUME NEW class \in Classes, NEW at \in Spots, QuietWhere(class, at),
           NEW s \in Seen, DiffPlace(DiffValue, s, class, at).changes = << >>
    PROVE  s.changes = << >> /\ SameButPerRun(at.path, at.a, at.b)
<1>1. at.path \in Path /\ at.a \in Json /\ at.b \in Json
  BY DEF Spots
<1>2. Answers(DiffValue, class, at)
  BY ValueAnswers
<1>3. CASE HasBoth(at)
  <2>1. PICK x : x = <<s, class, at.path, at.a, at.b>>
    OBVIOUS
  <2>2. DiffPlace(DiffValue, s, class, at) = DiffValue[x]
    BY <1>2, <1>3, <2>1, DiffPlaceIs DEF Asks
  <2>3. Quiet(x)
    BY <1>3, <2>1 DEF QuietWhere
  <2>4. x[1] = s /\ x[3] = at.path /\ x[4] = at.a /\ x[5] = at.b
    BY <2>1
  <2>5. QED
    BY <2>2, <2>3, <2>4 DEF Quiet
<1>4. CASE ~HasBoth(at)
  <2>1. s.changes = << >> /\ IsNoise(at.path, at.a, at.b)
    BY <1>2, <1>4, DiffPlaceIs
  <2>2. PerRun(at.path, at.a, at.b)
    BY <2>1, NoiseIsPerRun
  <2>3. QED
    BY <1>1, <2>1, <2>2, SameIs
<1>5. QED
  BY <1>3, <1>4

LEMMA PlacesAreQuiet ==
    ASSUME NEW class \in Classes, NEW seen \in Seen, NEW places \in Seq(Spots),
           \A k \in 1..Len(places) : QuietWhere(class, places[k]),
           DiffPlaces(DiffValue, seen, class, places).changes = << >>
    PROVE  /\ seen.changes = << >>
           /\ \A k \in 1..Len(places) : SameButPerRun(places[k].path, places[k].a, places[k].b)
<1>1. \A k \in 1..Len(places) : places[k] \in Spots
  OBVIOUS
<1>2. \A k \in 1..Len(places) : Answers(DiffValue, class, places[k])
  BY <1>1, ValueAnswers
<1>3. \A k \in 1..Len(places) : Tells(DiffValue, class, places[k])
  BY <1>1, PlaceIsQuiet DEF Tells
<1>4. seen.changes = << >> /\ \A k \in 1..Len(places) : QuietAt(DiffValue, class, places[k])
  BY <1>2, <1>3, DiffPlacesTell
<1>5. ASSUME NEW k \in 1..Len(places) PROVE SameButPerRun(places[k].path, places[k].a, places[k].b)
  <2>1. PICK s \in Seen : DiffPlace(DiffValue, s, class, places[k]).changes = << >>
    BY <1>4 DEF QuietAt
  <2>2. QED
    BY <1>1, <2>1, PlaceIsQuiet
<1>6. QED
  BY <1>4, <1>5

LEMMA ValueIsQuiet == \A x \in Both5 : Quiet(x)
<1> DEFINE P == {x \in Both5 : Quiet(x)}
<1>1. DepthOfA \in [Both5 -> Nat] /\ \A x \in Both5 : DepthOfA[x] = Depth[x[4]]
  BY JsonAssumption DEF DepthOfA, Both5
<1>2. ASSUME NEW x \in Both5, \A y \in Both5 : DepthOfA[y] < DepthOfA[x] => y \in P PROVE x \in P
  <2> HIDE DEF P
  <2>1. PICK s, c, p, a, b : s = x[1] /\ c = x[2] /\ p = x[3] /\ a = x[4] /\ b = x[5]
    OBVIOUS
  <2>2. s \in Seen /\ c \in Classes /\ p \in Path /\ a \in Json /\ b \in Json
    BY <2>1 DEF Both5
  <2>3. PICK new : new = DiffBoth(DiffValue, s, c, p, a, b)
    OBVIOUS
  <2>4. DiffValue[x] = new
    BY <2>1, <2>3, DiffValueIs DEF OfBoth
  <2> SUFFICES ASSUME new.changes = << >> PROVE s.changes = << >> /\ SameButPerRun(p, a, b)
    BY <2>1, <2>4 DEF Quiet, P
  <2>5. CASE Budget(s) = 0 \/ a = b
    <3>1. s.changes = << >>
      BY <2>3, <2>5 DEF DiffBoth
    <3>2. a = b
      BY <2>2, <2>5, <3>1, BudgetIs
    <3>3. QED
      BY <2>2, <3>1, <3>2, SameIs
  <2>6. CASE ~(Budget(s) = 0 \/ a = b) /\ Containers(a, b) /\ ~(a.tag = "array" /\ SameMultiset(a, b))
    <3>1. PICK places \in Seq(Spots) :
             /\ PartPlaces(p, a, b) = places
             /\ \A k \in 1..Len(places) : Below(places[k], a)
             /\ \A n \in DOMAIN a.parts \cup DOMAIN b.parts :
                   \E k \in 1..Len(places) : places[k] = PlaceOf(p, a, b, n)
      BY <2>2, <2>6, PartPlacesAre
    <3>2. new = DiffPlaces(DiffValue, s, c, places)
      BY <2>3, <2>6, <3>1 DEF DiffBoth
    <3>3. ASSUME NEW k \in 1..Len(places) PROVE QuietWhere(c, places[k])
      <4>1. PICK at \in Spots : at = places[k]
        OBVIOUS
      <4>2. at.path \in Path /\ at.a \in Json /\ at.b \in Json
        BY DEF Spots
      <4>3. ASSUME HasBoth(at), NEW t \in Seen PROVE Quiet(<<t, c, at.path, at.a, at.b>>)
        <5>1. PICK y : y = <<t, c, at.path, at.a, at.b>>
          OBVIOUS
        <5>2. y \in Both5 /\ y[4] = at.a
          BY <2>2, <4>2, <5>1 DEF Both5
        <5>3. Depth[at.a] < Depth[a]
          BY <3>1, <4>1, <4>3 DEF HasBoth, Below
        <5>4. y \in P
          BY <1>1, <1>2, <2>1, <5>2, <5>3
        <5>5. QED
          BY <5>1, <5>4 DEF P
      <4>4. QED
        BY <4>1, <4>3 DEF QuietWhere
    <3>4. /\ s.changes = << >>
          /\ \A k \in 1..Len(places) : SameButPerRun(places[k].path, places[k].a, places[k].b)
      BY <2>2, <3>2, <3>3, PlacesAreQuiet
    <3>5. ASSUME NEW n \in DOMAIN a.parts \cup DOMAIN b.parts
          PROVE  SameButPerRun(Append(p, n), Part(a, n), Part(b, n))
      <4>1. PICK k \in 1..Len(places) : places[k] = PlaceOf(p, a, b, n)
        BY <3>1
      <4>2. /\ places[k].path = Append(p, n) /\ places[k].a = Part(a, n) /\ places[k].b = Part(b, n)
        BY <4>1 DEF PlaceOf, Place
      <4>3. QED
        BY <3>4, <4>2
    <3>6. QED
      BY <2>2, <2>6, <3>4, <3>5, SameIs
  <2>7. CASE ~(Budget(s) = 0 \/ a = b) /\ ~(Containers(a, b) /\ ~(a.tag = "array" /\ SameMultiset(a, b)))
    <3>1. PICK kind : kind = (IF Containers(a, b) THEN "reordered" ELSE "changed") /\ kind \in Kinds
      BY DEF Kinds
    <3>2. PICK change \in AChange : /\ change = Change(c, p, kind, a, b)
                                   /\ change.path = p /\ change.a = a /\ change.b = b
      BY <2>2, <3>1, ChangeIs
    <3>3. new = AppendChange(s, change)
      BY <2>3, <2>7, <3>1, <3>2 DEF DiffBoth
    <3>4. s.changes = << >> /\ IsNoise(p, a, b)
      BY <2>2, <3>2, <3>3, AppendChangeIs
    <3>5. QED
      BY <2>2, <3>4, NoiseIsPerRun, SameIs
  <2>8. QED
    BY <2>5, <2>6, <2>7
<1> HIDE DEF P
<1>3. \A x \in Both5 : x \in P
  BY <1>1, <1>2, RankInduction
<1>4. QED
  BY <1>3 DEF P

-----------------------------------------------------------------------------
(* Two views. *)

LEMMA ViewIs ==
    ASSUME NEW v \in View
    PROVE  /\ Len(v) \in Nat /\ DOMAIN v = 1..Len(v)
           /\ \A i \in 1..Len(v) : v[i].path \in Path /\ v[i].value \in Json /\ v[i].value # Absent
<1>1. PICK F : F = [path : Path, value : Json \ {Absent}] /\ v \in Seq(F)
  BY DEF View
<1>2. Len(v) \in Nat /\ DOMAIN v = 1..Len(v) /\ \A i \in 1..Len(v) : v[i] \in F
  <2>1. ASSUME NEW G, v \in Seq(G)
        PROVE  Len(v) \in Nat /\ DOMAIN v = 1..Len(v) /\ \A i \in 1..Len(v) : v[i] \in G
    BY <2>1
  <2>2. QED
    BY <1>1, <2>1
<1>3. \A f \in F : f.path \in Path /\ f.value \in Json /\ f.value # Absent
  BY <1>1
<1>4. QED
  BY <1>2, <1>3

LEMMA PathsAre ==
    ASSUME NEW v \in View, NEW path
    PROVE  path \in ToSet(Paths(v)) <=> \E i \in 1..Len(v) : v[i].path = path
<1>1. DOMAIN v = 1..Len(v)
  BY ViewIs
<1>2. Paths(v) = [i \in 1..Len(v) |-> v[i].path]
  BY <1>1 DEF Paths
<1>3. QED
  BY <1>2 DEF ToSet

LEMMA GetIs ==
    ASSUME NEW v \in View, NEW path
    PROVE  /\ Get(v, path) \in Json
           /\ path \notin ToSet(Paths(v)) => Get(v, path) = Absent
           /\ path \in ToSet(Paths(v)) =>
                 \E i \in 1..Len(v) : v[i].path = path /\ Get(v, path) = v[i].value
<1> DEFINE held == {i \in DOMAIN v : v[i].path = path}
<1>1. DOMAIN v = 1..Len(v) /\ \A i \in 1..Len(v) : v[i].value \in Json
  BY ViewIs
<1>2. Get(v, path) = IF held = {} THEN Absent ELSE v[Least(held)].value
  BY DEF Get
<1>3. CASE held = {}
  <2>1. path \notin ToSet(Paths(v))
    BY <1>1, <1>3, PathsAre
  <2>2. Absent \in Json
    BY JsonAssumption
  <2>3. QED
    BY <1>2, <1>3, <2>1, <2>2
<1>4. CASE held # {}
  <2>1. held \in SUBSET Nat
    BY <1>1
  <2>2. Least(held) \in held
    <3> HIDE DEF held
    <3>1. QED
      BY <1>4, <2>1, LeastIs
  <2>3. Least(held) \in 1..Len(v) /\ v[Least(held)].path = path
    BY <1>1, <2>2
  <2>4. path \in ToSet(Paths(v))
    BY <2>3, PathsAre
  <2>5. QED
    BY <1>1, <1>2, <1>4, <2>3, <2>4
<1>5. QED
  BY <1>3, <1>4

\* A place for each field of a, and one for each of b whose path a lacks.
OfA(a, b, i) == Place(a[i].path, a[i].value, Get(b, a[i].path))
OfB(b, i) == Place(b[i].path, Absent, b[i].value)
OnlyIn(a, b) == {i \in DOMAIN b : b[i].path \notin ToSet(Paths(a))}

LEMMA ViewPlacesAre ==
    ASSUME NEW a \in View, NEW b \in View
    PROVE  \E places \in Seq(Spots) :
              /\ ViewPlaces(a, b) = places
              /\ \A i \in 1..Len(a) : \E k \in 1..Len(places) : places[k] = OfA(a, b, i)
              /\ \A i \in OnlyIn(a, b) : \E k \in 1..Len(places) : places[k] = OfB(b, i)
              /\ \A k \in 1..Len(places) :
                    \/ \E i \in 1..Len(a) : places[k] = OfA(a, b, i)
                    \/ \E i \in OnlyIn(a, b) : places[k] = OfB(b, i)
<1>1. /\ Len(a) \in Nat /\ DOMAIN a = 1..Len(a)
      /\ \A i \in 1..Len(a) : a[i].path \in Path /\ a[i].value \in Json
  BY ViewIs
<1>2. /\ Len(b) \in Nat /\ DOMAIN b = 1..Len(b)
      /\ \A i \in 1..Len(b) : b[i].path \in Path /\ b[i].value \in Json
  BY ViewIs
<1>3. PICK S, only : S = OnlyIn(a, b) /\ only = ByIndex(S)
  OBVIOUS
<1>4. S \subseteq 1..Len(b)
  BY <1>2, <1>3 DEF OnlyIn
<1>5. S \in SUBSET Nat /\ IsFiniteSet(S)
  <2>1. IsFiniteSet(1..Len(b))
    BY <1>2, FS_Interval
  <2>2. IsFiniteSet(S)
    BY <1>4, <2>1, FS_Subset
  <2>3. QED
    BY <1>2, <1>4, <2>2
<1>6. /\ {only[k] : k \in DOMAIN only} = S
      /\ DOMAIN only = 1..Cardinality(S) /\ Cardinality(S) \in Nat
  BY <1>3, <1>5, ByIndexLists
<1>7. PICK m \in Nat, n \in Nat : m = Len(a) /\ n = Cardinality(S)
  BY <1>1, <1>6
<1>8. PICK p, q : /\ p = [i \in 1..m |-> OfA(a, b, i)]
                  /\ q = [k \in 1..n |-> OfB(b, only[k])]
  OBVIOUS
<1>9. ViewPlaces(a, b) = p \o q
  BY <1>1, <1>3, <1>6, <1>7, <1>8 DEF ViewPlaces, OfA, OfB, OnlyIn
<1>10. \A i \in 1..m : OfA(a, b, i) \in Spots
  <2>1. \A path : Get(b, path) \in Json
    BY GetIs
  <2>2. QED
    BY <1>1, <1>7, <2>1 DEF OfA, Place, Spots
<1>11. \A k \in 1..n : only[k] \in S
  BY <1>6, <1>7
<1>12. \A k \in 1..n : OfB(b, only[k]) \in Spots
  <2>1. Absent \in Json
    BY JsonAssumption
  <2>2. QED
    BY <1>2, <1>4, <1>11, <2>1 DEF OfB, Place, Spots
<1>13. p \in Seq(Spots) /\ q \in Seq(Spots) /\ Len(p) = m /\ Len(q) = n
  BY <1>8, <1>10, <1>12
<1>14. PICK places : places = p \o q
  OBVIOUS
<1>15. /\ places \in Seq(Spots) /\ Len(places) = m + n
       /\ \A k \in 1..m : k \in 1..(m + n) /\ places[k] = p[k]
       /\ \A k \in 1..n : m + k \in 1..(m + n) /\ places[m + k] = q[k]
  <2>1. ASSUME NEW G, p \in Seq(G), q \in Seq(G)
        PROVE  /\ p \o q \in Seq(G) /\ Len(p \o q) = m + n
               /\ \A k \in 1..m : k \in 1..(m + n) /\ (p \o q)[k] = p[k]
               /\ \A k \in 1..n : m + k \in 1..(m + n) /\ (p \o q)[m + k] = q[k]
    BY <1>13, <2>1
  <2>2. QED
    BY <1>13, <1>14, <2>1
<1>16. ASSUME NEW k \in 1..(m + n)
       PROVE  \/ \E i \in 1..m : places[k] = OfA(a, b, i)
              \/ \E i \in S : places[k] = OfB(b, i)
  <2>1. CASE k \in 1..m
    BY <1>8, <1>15, <2>1
  <2>2. CASE k \notin 1..m
    <3>1. k - m \in 1..n /\ m + (k - m) = k
      BY <2>2
    <3>2. places[k] = q[k - m]
      BY <1>15, <3>1
    <3>3. places[k] = OfB(b, only[k - m]) /\ only[k - m] \in S
      BY <1>8, <1>11, <3>1, <3>2
    <3>4. QED
      BY <3>3
  <2>3. QED
    BY <2>1, <2>2
<1>17. ASSUME NEW i \in 1..m PROVE \E k \in 1..(m + n) : places[k] = OfA(a, b, i)
  BY <1>8, <1>15
<1>18. ASSUME NEW i \in S PROVE \E k \in 1..(m + n) : places[k] = OfB(b, i)
  <2>1. PICK k \in 1..n : only[k] = i
    BY <1>6, <1>7
  <2>2. places[m + k] = OfB(b, i) /\ m + k \in 1..(m + n)
    BY <1>8, <1>15, <2>1
  <2>3. QED
    BY <2>2
<1>19. /\ ViewPlaces(a, b) = places
       /\ \A i \in 1..Len(a) : \E k \in 1..Len(places) : places[k] = OfA(a, b, i)
       /\ \A i \in OnlyIn(a, b) : \E k \in 1..Len(places) : places[k] = OfB(b, i)
  BY <1>3, <1>7, <1>9, <1>14, <1>15, <1>17, <1>18
<1>20. \A k \in 1..Len(places) : \/ \E i \in 1..Len(a) : places[k] = OfA(a, b, i)
                                 \/ \E i \in OnlyIn(a, b) : places[k] = OfB(b, i)
  BY <1>3, <1>7, <1>15, <1>16
<1>21. QED
  BY <1>15, <1>19, <1>20

LEMMA FieldPlaces ==
    ASSUME NEW a \in View, NEW b \in View, NEW path \in ToSet(Paths(a)) \cup ToSet(Paths(b))
    PROVE  \/ \E i \in 1..Len(a) : OfA(a, b, i) = Place(path, Get(a, path), Get(b, path))
           \/ \E i \in OnlyIn(a, b) : OfB(b, i) = Place(path, Get(a, path), Get(b, path))
<1>1. CASE path \in ToSet(Paths(a))
  <2>1. PICK i \in 1..Len(a) : a[i].path = path /\ Get(a, path) = a[i].value
    BY <1>1, GetIs
  <2>2. QED
    BY <2>1 DEF OfA
<1>2. CASE path \notin ToSet(Paths(a))
  <2>1. PICK i \in 1..Len(b) : b[i].path = path /\ Get(b, path) = b[i].value
    BY <1>2, GetIs
  <2>2. i \in DOMAIN b
    BY ViewIs
  <2>3. i \in OnlyIn(a, b)
    BY <1>2, <2>1, <2>2 DEF OnlyIn
  <2>4. Get(a, path) = Absent
    BY <1>2, GetIs
  <2>5. QED
    BY <2>1, <2>3, <2>4 DEF OfB
<1>3. QED
  BY <1>1, <1>2

LEMMA FieldsAreQuiet ==
    ASSUME NEW seen \in Seen, NEW class \in Classes, NEW a \in View, NEW b \in View
    PROVE  /\ DiffFields(seen, class, a, b) \in Seen
           /\ DiffFields(seen, class, a, b).changes = << >> => seen.changes = << >> /\ SameView(a, b)
<1>1. PICK places \in Seq(Spots) :
         /\ ViewPlaces(a, b) = places
         /\ \A i \in 1..Len(a) : \E k \in 1..Len(places) : places[k] = OfA(a, b, i)
         /\ \A i \in OnlyIn(a, b) : \E k \in 1..Len(places) : places[k] = OfB(b, i)
  BY ViewPlacesAre
<1>2. \A k \in 1..Len(places) : places[k] \in Spots
  OBVIOUS
<1>3. DiffFields(seen, class, a, b) = DiffPlaces(DiffValue, seen, class, places)
  BY <1>1 DEF DiffFields
<1>4. DiffFields(seen, class, a, b) \in Seen
  <2>1. \A k \in 1..Len(places) : Answers(DiffValue, class, places[k])
    BY <1>2, ValueAnswers
  <2>2. QED
    BY <1>3, <2>1, DiffPlacesAre
<1>5. ASSUME NEW k \in 1..Len(places) PROVE QuietWhere(class, places[k])
  <2>1. PICK at \in Spots : at = places[k]
    BY <1>2
  <2>2. at.path \in Path /\ at.a \in Json /\ at.b \in Json
    BY DEF Spots
  <2>3. \A s \in Seen : <<s, class, at.path, at.a, at.b>> \in Both5
    BY <2>2 DEF Both5
  <2>4. QED
    BY <2>1, <2>3, ValueIsQuiet DEF QuietWhere
<1>6. ASSUME DiffFields(seen, class, a, b).changes = << >> PROVE seen.changes = << >> /\ SameView(a, b)
  <2>1. /\ seen.changes = << >>
        /\ \A k \in 1..Len(places) : SameButPerRun(places[k].path, places[k].a, places[k].b)
    BY <1>3, <1>5, <1>6, PlacesAreQuiet
  <2>2. ASSUME NEW path \in ToSet(Paths(a)) \cup ToSet(Paths(b))
        PROVE  SameButPerRun(path, Get(a, path), Get(b, path))
    <3>1. PICK at : at = Place(path, Get(a, path), Get(b, path))
      OBVIOUS
    <3>2. PICK k \in 1..Len(places) : places[k] = at
      BY <1>1, <3>1, FieldPlaces
    <3>3. places[k].path = path /\ places[k].a = Get(a, path) /\ places[k].b = Get(b, path)
      BY <3>1, <3>2 DEF Place
    <3>4. QED
      BY <2>1, <3>3
  <2>3. QED
    BY <2>1, <2>2 DEF SameView
<1>7. QED
  BY <1>4, <1>6

\* Of a view of one field, with itself, there is nothing to see.
LEMMA EqualViews ==
    ASSUME NEW seen \in Seen, NEW class \in Classes, NEW a \in View, Len(a) <= 1
    PROVE  DiffFields(seen, class, a, a) = seen
<1>1. PICK places \in Seq(Spots) :
         /\ ViewPlaces(a, a) = places
         /\ \A k \in 1..Len(places) :
               \/ \E i \in 1..Len(a) : places[k] = OfA(a, a, i)
               \/ \E i \in OnlyIn(a, a) : places[k] = OfB(a, i)
  BY ViewPlacesAre
<1>0. ASSUME NEW k \in 1..Len(places)
      PROVE  \E v \in Json \ {Absent} : places[k].a = v /\ places[k].b = v
  <2>1. OnlyIn(a, a) = {}
    <3>1. \A i \in DOMAIN a : a[i].path \in ToSet(Paths(a))
      BY ViewIs, PathsAre
    <3>2. QED
      BY <3>1 DEF OnlyIn
  <2>2. PICK i \in 1..Len(a) : places[k] = OfA(a, a, i)
    BY <1>1, <2>1
  <2>3. Len(a) \in Nat /\ a[i].value \in Json \ {Absent}
    BY ViewIs
  <2>4. PICK j \in 1..Len(a) : Get(a, a[i].path) = a[j].value
    <3>1. a[i].path \in ToSet(Paths(a))
      BY PathsAre
    <3>2. QED
      BY <3>1, GetIs
  <2>5. i = j
    BY <2>3
  <2>6. places[k].a = a[i].value /\ places[k].b = a[i].value
    BY <2>2, <2>4, <2>5 DEF OfA, Place
  <2>7. QED
    BY <2>3, <2>6
<1>2. PICK n \in Nat : n = Len(places) /\ \A k \in 1..n : places[k] \in Spots
  OBVIOUS
<1>3. \A k \in 1..Len(places) : Answers(DiffValue, class, places[k])
  BY <1>2, ValueAnswers
<1>4. PICK w : /\ PlaceWalk(w, DiffValue, seen, class, places)
               /\ DiffPlaces(DiffValue, seen, class, places) = w[n]
  BY <1>2, <1>3, DiffPlacesWalk
<1> DEFINE P == {k \in 0..n : w[k] = seen}
<1>5. 0 \in P
  BY <1>2, <1>4 DEF PlaceWalk
<1>6. ASSUME NEW k \in 1..n, k - 1 \in P PROVE k \in P
  <2>1. w[k] = DiffPlace(DiffValue, seen, class, places[k]) /\ k \in 0..n
    BY <1>2, <1>4, <1>6 DEF PlaceWalk
  <2>2. PICK at \in Spots : at = places[k]
    BY <1>2
  <2>3. at.a = at.b /\ at.a # Absent
    BY <1>0, <1>2, <2>2
  <2>4. at.a = at.b /\ HasBoth(at)
    BY <2>3 DEF HasBoth
  <2>5. at.path \in Path /\ at.a \in Json
    BY DEF Spots
  <2>6. PICK x : x = <<seen, class, at.path, at.a, at.b>>
    OBVIOUS
  <2>7. x \in Both5 /\ x[1] = seen /\ x[4] = x[5]
    BY <2>4, <2>5, <2>6 DEF Both5
  <2>8. DiffValue[x] = seen
    BY <2>7, DiffValueIs DEF OfBoth, DiffBoth
  <2>9. DiffPlace(DiffValue, seen, class, at) = DiffValue[x]
    BY <2>4, <2>6, ValueAnswers, DiffPlaceIs DEF Asks
  <2>10. QED
    BY <2>1, <2>2, <2>8, <2>9
<1> HIDE DEF P
<1>7. \A k \in 0..n : k \in P
  BY <1>5, <1>6, UpTo
<1>8. w[n] = seen
  BY <1>7 DEF P
<1>9. QED
  BY <1>1, <1>4, <1>8 DEF DiffFields

-----------------------------------------------------------------------------
(* Two steps. *)

LEMMA NothingSeenIs == NothingSeen \in Seen
BY DEF NothingSeen, Seen

LEMMA StructuralIs ==
    ASSUME NEW a, NEW b, IsStep(a), IsStep(b)
    PROVE  /\ Structural(a, b) \in Seen
           /\ Structural(a, b).changes = << >> => SameAction(a, b)
<1>1. "outcome" \in Classes /\ "arguments" \in Classes /\ "result" \in Classes
  BY DEF Classes
<1>2. PICK s, t, u : /\ s = DiffFields(NothingSeen, "outcome", a.outcome, b.outcome)
                     /\ t = DiffFields(s, "arguments", a.args, b.args)
                     /\ u = DiffFields(t, "result", a.result, b.result)
  OBVIOUS
<1>3. s \in Seen /\ (s.changes = << >> => SameView(a.outcome, b.outcome))
  BY <1>1, <1>2, NothingSeenIs, FieldsAreQuiet DEF IsStep
<1>4. t \in Seen /\ (t.changes = << >> => s.changes = << >> /\ SameView(a.args, b.args))
  BY <1>1, <1>2, <1>3, FieldsAreQuiet DEF IsStep
<1>5. u \in Seen /\ (u.changes = << >> => t.changes = << >> /\ SameView(a.result, b.result))
  BY <1>1, <1>2, <1>4, FieldsAreQuiet DEF IsStep
<1>6. Structural(a, b) = u
  BY <1>2 DEF Structural
<1>7. QED
  BY <1>3, <1>4, <1>5, <1>6 DEF SameAction

LEMMA ClassesAre ==
    ASSUME NEW s \in Seen
    PROVE  ClassesOf(s.changes) = {} <=> s.changes = << >>
<1>1. PICK c \in Seq(AChange) : c = s.changes
  BY DEF Seen, AChange
<1>2. CASE c = << >>
  <2>1. ToSet(c) = {}
    BY <1>2 DEF ToSet
  <2>2. QED
    BY <1>1, <1>2, <2>1 DEF ClassesOf
<1>3. CASE c # << >>
  <2>1. 1 \in DOMAIN c
    BY <1>3
  <2>2. c[1] \in ToSet(c)
    BY <2>1 DEF ToSet
  <2>3. c[1].class \in ClassesOf(c)
    BY <2>2 DEF ClassesOf
  <2>4. QED
    BY <1>1, <1>3, <2>3
<1>4. QED
  BY <1>2, <1>3

LEMMA ComparePairIs ==
    ASSUME NEW a, NEW b, IsStep(a), IsStep(b), NEW found, found = ComparePair(a, b)
    PROVE  /\ found.opaque \in BOOLEAN
           /\ found.classes = {} \/ found.opaque => SameAction(a, b)
           /\ found.opaque => found.classes # {} /\ a.output # b.output
           /\ found.classes = {} => SameView(a.output, b.output)
<1>1. PICK seen, more, all :
         /\ seen = Structural(a, b) /\ more = DiffFields(seen, "result", a.output, b.output)
         /\ all = IF \E c \in ToSet(seen.changes) : c.class = "result" THEN seen ELSE more
  OBVIOUS
<1>2. seen \in Seen /\ (seen.changes = << >> => SameAction(a, b))
  BY <1>1, StructuralIs
<1>3. /\ more \in Seen
      /\ more.changes = << >> => seen.changes = << >> /\ SameView(a.output, b.output)
  BY <1>1, <1>2, FieldsAreQuiet DEF IsStep, Classes
<1>4. seen.changes = << >> => all = more
  <2>1. seen.changes = << >> => ToSet(seen.changes) = {}
    BY DEF ToSet
  <2>2. QED
    BY <1>1, <2>1
<1>5. all \in Seen /\ (all = seen \/ all = more)
  BY <1>1, <1>2, <1>3
<1>6. all.changes = << >> => seen.changes = << >> /\ SameView(a.output, b.output)
  BY <1>3, <1>4, <1>5
<1>7. /\ found.classes = ClassesOf(all.changes)
      /\ found.opaque = (seen.changes = << >> /\ all.changes # << >>)
  BY <1>1 DEF ComparePair, WithOutput, Finding
<1>8. found.classes = {} <=> all.changes = << >>
  BY <1>5, <1>7, ClassesAre
<1>9. ASSUME seen.changes = << >>, all.changes # << >> PROVE a.output # b.output
  <2>1. a.output = b.output => more = seen
    BY <1>1, <1>2, EqualViews DEF IsStep, Classes
  <2>2. QED
    BY <1>4, <1>9, <2>1
<1>10. QED
  BY <1>2, <1>6, <1>7, <1>8, <1>9

-----------------------------------------------------------------------------
(* The differences of two runs. *)

IndexOf(differences) == {f.index : f \in ToSet(differences)}
Compared(pairs, a, b, k) == CompareOne(pairs[k], a, b)

LEMMA CompareIndexes ==
    ASSUME NEW n \in Nat, NEW pairs, DOMAIN pairs = 1..n, NEW a, NEW b, NEW opaque
    PROVE  \A k : k \in IndexOf(Compare(pairs, a, b, opaque)) <=>
              /\ k \in 1..n /\ Compared(pairs, a, b, k).classes # {}
              /\ Compared(pairs, a, b, k).opaque = opaque
<1> DEFINE all == [k \in DOMAIN pairs |-> Difference(k, pairs[k], CompareOne(pairs[k], a, b))]
           S == {k \in DOMAIN pairs : all[k].classes # {} /\ all[k].opaque = opaque}
<1>1. PICK kept, out : kept = ByIndex(S) /\ out = [k \in DOMAIN kept |-> all[kept[k]]]
  OBVIOUS
<1>2. Compare(pairs, a, b, opaque) = out
  BY <1>1 DEF Compare, NotIdentical
<1>3. \A k \in 1..n : /\ all[k].index = k
                      /\ all[k].classes = Compared(pairs, a, b, k).classes
                      /\ all[k].opaque = Compared(pairs, a, b, k).opaque
  BY DEF Difference, Compared
<1>4. S \subseteq 1..n /\ \A k \in 1..n : k \in S <=> all[k].classes # {} /\ all[k].opaque = opaque
  OBVIOUS
<1> HIDE DEF S, all
<1>5. S \in SUBSET Nat /\ IsFiniteSet(S)
  <2>1. IsFiniteSet(1..n)
    BY FS_Interval
  <2>2. IsFiniteSet(S)
    BY <1>4, <2>1, FS_Subset
  <2>3. QED
    BY <1>4, <2>2
<1>6. {kept[k] : k \in DOMAIN kept} = S
  BY <1>1, <1>5, ByIndexLists
<1>7. \A k \in DOMAIN kept : kept[k] \in 1..n /\ out[k] = all[kept[k]] /\ out[k].index = kept[k]
  BY <1>1, <1>3, <1>4, <1>6
<1>8. DOMAIN out = DOMAIN kept
  BY <1>1
<1>9. IndexOf(out) = S
  <2>1. \A k : k \in IndexOf(out) <=> \E m \in DOMAIN kept : kept[m] = k
    BY <1>7, <1>8 DEF IndexOf, ToSet
  <2>2. \A k : k \in S <=> \E m \in DOMAIN kept : kept[m] = k
    BY <1>6
  <2>3. QED
    BY <2>1, <2>2
<1>10. QED
  BY <1>2, <1>3, <1>4, <1>9

\* What NothingHidden says of a diff.
Told(d, k) ==
    LET p == d.pairs[k]
    IN  IF p.a = 0 \/ p.b = 0 THEN k \in IndexOf(d.differences)
          ELSE /\ k \notin IndexOf(d.differences) => SameAction(d.a[p.a], d.b[p.b])
               /\ k \in IndexOf(d.opaque) => d.a[p.a].output # d.b[p.b].output
               /\ k \notin IndexOf(d.differences) \cup IndexOf(d.opaque) =>
                     SameView(d.a[p.a].output, d.b[p.b].output)
AllTold(d) == \A k \in DOMAIN d.pairs : Told(d, k)

LEMMA AnalyzeTells ==
    ASSUME NEW a, NEW b, StepsOnly(a), StepsOnly(b), NEW d, d = Analyze(a, b)
    PROVE  AllTold(d)
<1>1. PICK pairs : pairs = Align(a, b)
  OBVIOUS
<1>2. /\ d.a = a /\ d.b = b /\ d.pairs = pairs /\ d.aligner = Aligner(a, b)
      /\ d.differences = Compare(pairs, a, b, FALSE) /\ d.opaque = Compare(pairs, a, b, TRUE)
  BY <1>1 DEF Analyze
<1>3. IsSeq(a) /\ IsSeq(b)
  BY DEF StepsOnly
<1>4. PICK n \in Nat : DOMAIN pairs = 1..n
  BY <1>1, <1>3, AlignedAre
<1>5. Complete(d)
  BY <1>1, <1>2, <1>3, AlignComplete
<1>6. ASSUME NEW k \in 1..n PROVE Told(d, k)
  <2>1. PICK p : p = pairs[k]
    OBVIOUS
  <2>2. /\ p.a # 0 \/ p.b # 0
        /\ p.a \in 0..Len(a) /\ p.b \in 0..Len(b)
    BY <1>2, <1>4, <1>5, <2>1 DEF Complete, EachOnce, SideA, SideB
  <2>3. PICK found : found = Compared(pairs, a, b, k)
    OBVIOUS
  <2>4. /\ k \in IndexOf(d.differences) <=> found.classes # {} /\ found.opaque = FALSE
        /\ k \in IndexOf(d.opaque) <=> found.classes # {} /\ found.opaque = TRUE
    <3>1. \A differences, opaque :
             (opaque \in BOOLEAN /\ differences = Compare(pairs, a, b, opaque)) =>
               (k \in IndexOf(differences) <=> found.classes # {} /\ found.opaque = opaque)
      <4> SUFFICES ASSUME NEW differences, NEW opaque \in BOOLEAN, differences = Compare(pairs, a, b, opaque)
                   PROVE  k \in IndexOf(differences) <=> found.classes # {} /\ found.opaque = opaque
        OBVIOUS
      <4>1. \A m : m \in IndexOf(Compare(pairs, a, b, opaque)) <=>
              /\ m \in 1..n /\ Compared(pairs, a, b, m).classes # {}
              /\ Compared(pairs, a, b, m).opaque = opaque
        BY <1>4, CompareIndexes
      <4>2. \A m : m \in IndexOf(differences) <=>
              /\ m \in 1..n /\ Compared(pairs, a, b, m).classes # {}
              /\ Compared(pairs, a, b, m).opaque = opaque
        BY <4>1
      <4>3. QED
        BY <4>2, <2>3
    <3>2. QED
      BY <1>2, <3>1
  <2>5. CASE p.a = 0 \/ p.b = 0
    <3>1. found.classes # {} /\ found.opaque = FALSE
      BY <2>1, <2>3, <2>5 DEF Compared, CompareOne, OneSided
    <3>2. QED
      BY <1>2, <2>1, <2>4, <2>5, <3>1 DEF Told
  <2>6. CASE p.a # 0 /\ p.b # 0
    <3>1. p.a \in 1..Len(a) /\ p.b \in 1..Len(b)
      BY <1>3, <2>2, <2>6, IsSeqHas
    <3>2. PICK x, y : x = a[p.a] /\ y = b[p.b] /\ IsStep(x) /\ IsStep(y)
      BY <3>1 DEF StepsOnly
    <3>3. found = ComparePair(x, y)
      BY <2>1, <2>3, <2>6, <3>2 DEF Compared, CompareOne
    <3>4. /\ found.opaque \in BOOLEAN
          /\ found.classes = {} \/ found.opaque => SameAction(x, y)
          /\ found.opaque => found.classes # {} /\ x.output # y.output
          /\ found.classes = {} => SameView(x.output, y.output)
      BY <3>2, <3>3, ComparePairIs
    <3>5. k \notin IndexOf(d.differences) => SameAction(x, y)
      BY <2>4, <3>4
    <3>6. k \in IndexOf(d.opaque) => x.output # y.output
      BY <2>4, <3>4
    <3>7. k \notin IndexOf(d.differences) \cup IndexOf(d.opaque) => SameView(x.output, y.output)
      BY <2>4, <3>4
    <3>8. QED
      BY <1>2, <2>1, <2>6, <3>2, <3>5, <3>6, <3>7 DEF Told
  <2>7. QED
    BY <2>5, <2>6
<1>7. QED
  BY <1>2, <1>4, <1>6 DEF AllTold

LEMMA NoDiffTells == AllTold(NoDiff)
<1>1. NoDiff.pairs = << >>
  BY DEF NoDiff
<1>2. QED
  BY <1>1, EmptyIs DEF AllTold

(* A pair of steps that a page's diff leaves out differs in nothing but what
   every two runs differ in, an opaque one in its output alone, and a step
   without a counterpart is in it: for JSON values of any depth and width, and
   however small the budget of findings (Compare, diffValue, IsNoise). *)
THEOREM NothingIsHidden == Spec => []NothingHidden
<1> DEFINE Inv == Indexed /\ AllTold(page.diff)
<1>1. Init => Inv
  <2>1. Init => page.diff = NoDiff
    BY DEF Init
  <2>2. QED
    BY <2>1, IndexedFirst, NoDiffTells
<1>2. Inv /\ [Next]_vars => Inv'
  <2> SUFFICES ASSUME Inv, [Next]_vars PROVE Inv'
    OBVIOUS
  <2>1. Indexed'
    BY IndexedKept
  <2>2. AllTold(page'.diff)
    <3>1. CASE page'.diff = page.diff
      BY <3>1
    <3>2. CASE page'.diff = NoDiff
      BY <3>2, NoDiffTells
    <3>3. ASSUME NEW a, NEW b, StepsOnly(a), StepsOnly(b), page'.diff = Analyze(a, b)
          PROVE  AllTold(page'.diff)
      BY <3>3, AnalyzeTells
    <3>4. QED
      BY <3>1, <3>2, <3>3, PageDiffIs
  <2>3. AllTold(page.diff)'
    BY <2>2
  <2>4. QED
    BY <2>1, <2>3
<1>3. Inv => NothingHidden
  <2> SUFFICES ASSUME AllTold(page.diff) PROVE NothingHidden
    OBVIOUS
  <2>1. PICK d : d = page.diff
    OBVIOUS
  <2>2. \A k \in DOMAIN d.pairs : Told(d, k)
    BY <2>1 DEF AllTold
  <2>3. QED
    BY <2>1, <2>2 DEF NothingHidden, Told, IndexOf
<1>4. QED
  BY <1>1, <1>2, <1>3, PTL DEF Spec
=============================================================================
