--------------------------- MODULE FwdEngines_proofs ---------------------------
(***************************************************************************)
(* Theorems about the engines, for every number of buffers and length of a *)
(* burst: no buffer is lost or freed twice, packets keep their order, and  *)
(* the counters add up.                                                    *)
(***************************************************************************)
EXTENDS FwdEngines, Operators_proofs, FiniteSetTheorems, TLAPS

-----------------------------------------------------------------------------
(* Loops: g is the function of a loop that starts at a and of which turn i *)
(* makes F[<<x, i>>] of x.                                                 *)

Turns(n, a, F, g) ==
  g = [i \in 0 .. n |-> IF i = 0 THEN a ELSE F[<<g[i - 1], i>>]]

\* What holds at the beginning and is kept by every turn holds throughout.
LEMMA LoopKeeps ==
  ASSUME NEW n \in Nat, NEW I, NEW g, g[0] \in I[0],
         \A i \in 1 .. n : g[i - 1] \in I[i - 1] => g[i] \in I[i]
  PROVE  \A i \in 0 .. n : g[i] \in I[i]
<1> DEFINE A == {m \in Nat : m <= n => g[m] \in I[m]}
<1>1. 0 \in A
  OBVIOUS
<1>2. ASSUME NEW m \in Nat, m \in A PROVE m + 1 \in A
  <2>1. ASSUME m + 1 <= n PROVE g[m + 1] \in I[m + 1]
    <3>1. m + 1 \in 1 .. n /\ (m + 1) - 1 = m /\ m <= n
      BY <2>1
    <3>2. g[m] \in I[m]
      BY <1>2, <3>1
    <3>3. g[(m + 1) - 1] \in I[(m + 1) - 1] => g[m + 1] \in I[m + 1]
      BY <3>1
    <3> QED
      BY <3>1, <3>2, <3>3
  <2> QED
    BY <2>1
<1> HIDE DEF A
<1>3. Nat \subseteq A
  BY <1>1, <1>2, SetInduction
<1> QED
  BY <1>3 DEF A

\* There is such a function.
LEMMA LoopExists ==
  ASSUME NEW n \in Nat, NEW a, NEW F
  PROVE  \E g : Turns(n, a, F, g)
<1> DEFINE D(g, i) == IF i = 0 THEN a ELSE F[<<g[i - 1], i>>]
           A == {m \in Nat : \E g : Turns(m, a, F, g)}
<1>1. 0 \in A
  <2> DEFINE g == [i \in 0 .. 0 |-> a]
  <2>1. g = [i \in 0 .. 0 |-> D(g, i)]
    OBVIOUS
  <2> HIDE DEF g
  <2>2. Turns(0, a, F, g)
    BY <2>1 DEF Turns
  <2> QED
    BY <2>2
<1>2. ASSUME NEW m \in Nat, m \in A PROVE m + 1 \in A
  <2>1. PICK g : Turns(m, a, F, g)
    BY <1>2
  <2>2. g = [i \in 0 .. m |-> D(g, i)]
    BY <2>1 DEF Turns
  <2> DEFINE h == [i \in 0 .. m + 1 |-> IF i = m + 1 THEN D(g, i) ELSE g[i]]
  <2>3. ASSUME NEW i \in 0 .. m + 1 PROVE h[i] = D(h, i)
    <3>1. \A k \in 0 .. m : h[k] = g[k] /\ k # m + 1
      OBVIOUS
    <3>2. i # 0 => i - 1 \in 0 .. m
      OBVIOUS
    <3>3. D(h, i) = D(g, i)
      <4> HIDE DEF h
      <4>1. CASE i = 0
        BY <4>1
      <4>2. CASE i # 0
        <5>1. h[i - 1] = g[i - 1]
          BY <3>1, <3>2, <4>2
        <5> QED
          BY <4>2, <5>1
      <4> QED
        BY <4>1, <4>2
    <3>4. CASE i = m + 1
      BY <3>3, <3>4
    <3>5. CASE i \in 0 .. m
      <4>1. g[i] = D(g, i)
        BY <2>2, <3>5
      <4> QED
        BY <3>1, <3>3, <3>5, <4>1
    <3> QED
      BY <3>4, <3>5
  <2>4. h = [i \in 0 .. m + 1 |-> D(h, i)]
    <3>1. h = [i \in 0 .. m + 1 |-> h[i]]
      OBVIOUS
    <3> HIDE DEF h
    <3> QED
      BY <2>3, <3>1
  <2> HIDE DEF h
  <2>5. Turns(m + 1, a, F, h)
    BY <2>4 DEF Turns
  <2> QED
    BY <2>5
<1> HIDE DEF A
<1>3. Nat \subseteq A
  BY <1>1, <1>2, SetInduction
<1> QED
  BY <1>3 DEF A

\* The loop ends in what its turns lead to.
LEMMA LoopReaches ==
  ASSUME NEW n \in Nat, NEW a, NEW F, NEW I, a \in I[0],
         \A i \in 1 .. n : \A x \in I[i - 1] : F[<<x, i>>] \in I[i]
  PROVE  \E g : Turns(n, a, F, g) /\ \A i \in 0 .. n : g[i] \in I[i]
<1>1. PICK g : Turns(n, a, F, g)
  BY LoopExists
<1>2. g[0] = a /\ \A i \in 1 .. n : g[i] = F[<<g[i - 1], i>>]
  BY <1>1 DEF Turns
<1>3. \A i \in 0 .. n : g[i] \in I[i]
  BY <1>2, LoopKeeps
<1> QED
  BY <1>1, <1>3

-----------------------------------------------------------------------------
(* The pool.                                                               *)

\* The free buffers, in a list.
LEMMA FreeList ==
  ASSUME NEW mb
  PROVE  LET list == Kept([m \in Mbufs |-> m], FreeMbufs(mb))
         IN  /\ list \in Seq(Mbufs) /\ IsInjective(list)
             /\ Range(list) = FreeMbufs(mb) /\ Len(list) = NbFree(mb)
             /\ IsFiniteSet(FreeMbufs(mb)) /\ NbFree(mb) \in Nat
<1> DEFINE ids  == [m \in Mbufs |-> m]
           list == Kept(ids, FreeMbufs(mb))
<1>1. NbMbufs \in Nat
  BY EnginesAssumption
<1>2. ids \in Seq(Mbufs) /\ Range(ids) = Mbufs /\ IsInjective(ids)
  <2>1. ids = [m \in 1 .. NbMbufs |-> m] /\ \A m \in 1 .. NbMbufs : m \in Mbufs
    BY DEF Mbufs
  <2>2. ids \in Seq(Mbufs)
    BY <1>1, <2>1, IsASeq
  <2> QED
    BY <2>2 DEF Range, IsInjective
<1>3. FreeMbufs(mb) \subseteq Mbufs
  BY DEF FreeMbufs
<1>4. list \in Seq(Mbufs)
  BY <1>2, KeptEmbeds
<1>5. IsInjective(list)
  BY <1>2, KeptInjective
<1>6. Range(list) = FreeMbufs(mb)
  <2>1. Range(list) = Range(ids) \cap FreeMbufs(mb)
    BY <1>2, KeptRange, Zenon
  <2> QED
    BY <1>2, <1>3, <2>1
<1> HIDE DEF list
<1>7. Len(list) \in Nat /\ DOMAIN list = 1 .. Len(list)
  BY <1>4, LenProperties
<1>8. list \in Bijection(1 .. Len(list), FreeMbufs(mb))
  <2>1. list \in [1 .. Len(list) -> FreeMbufs(mb)]
    BY <1>4, <1>6, <1>7, LenProperties DEF Range
  <2>2. list \in Injection(1 .. Len(list), FreeMbufs(mb))
    BY <1>5, <1>7, <2>1 DEF Injection, IsInjective
  <2>3. list \in Surjection(1 .. Len(list), FreeMbufs(mb))
    BY <1>6, <1>7, <2>1 DEF Surjection, Range
  <2> QED
    BY <2>2, <2>3 DEF Bijection
<1>9. IsFiniteSet(1 .. Len(list)) /\ Cardinality(1 .. Len(list)) = Len(list)
  <2>1. 1 \in Int /\ Len(list) \in Int
    BY <1>7
  <2>2. /\ IsFiniteSet(1 .. Len(list))
        /\ Cardinality(1 .. Len(list)) =
             IF 1 > Len(list) THEN 0 ELSE Len(list) - 1 + 1
    BY <2>1, FS_Interval, Zenon
  <2> QED
    BY <1>7, <2>2
<1>10. /\ IsFiniteSet(FreeMbufs(mb))
       /\ Cardinality(FreeMbufs(mb)) = Len(list)
  BY <1>8, <1>9, FS_Bijection DEF ExistsBijection
<1> QED
  BY <1>4, <1>5, <1>6, <1>7, <1>10 DEF list, NbFree

\* The first n of them are n different free buffers.
LEMMA FirstFreeGives ==
  ASSUME NEW mb, NEW n \in 0 .. NbFree(mb)
  PROVE  /\ FirstFree(mb, n) \in Seq(Mbufs) /\ Len(FirstFree(mb, n)) = n
         /\ IsInjective(FirstFree(mb, n))
         /\ Range(FirstFree(mb, n)) \subseteq FreeMbufs(mb)
<1> DEFINE list == Kept([m \in Mbufs |-> m], FreeMbufs(mb))
           s    == SubSeq(list, 1, n)
<1>1. /\ list \in Seq(Mbufs) /\ IsInjective(list)
      /\ Range(list) = FreeMbufs(mb) /\ Len(list) = NbFree(mb)
      /\ NbFree(mb) \in Nat
  BY FreeList
<1>2. FirstFree(mb, n) = s
  BY DEF FirstFree
<1> HIDE DEF list
<1>3. n \in Nat /\ n <= Len(list)
  BY <1>1
<1>4. s \in Seq(Mbufs) /\ Len(s) = n /\ \A i \in 1 .. n : s[i] = list[i]
  <2>1. \A i \in 1 .. n : list[i] \in Mbufs
    BY <1>1, <1>3, ElementOfSeq
  <2>2. /\ SubSeq(list, 1, n) \in Seq(Mbufs)
        /\ Len(SubSeq(list, 1, n)) = IF 1 <= n THEN n - 1 + 1 ELSE 0
        /\ \A i \in 1 .. n - 1 + 1 : SubSeq(list, 1, n)[i] = list[1 + i - 1]
    BY <1>3, <2>1, SubSeqProperties
  <2> QED
    BY <1>3, <2>2
<1> HIDE DEF s
<1>5. DOMAIN s = 1 .. n /\ DOMAIN list = 1 .. Len(list)
  BY <1>1, <1>4, LenProperties
<1>6. IsInjective(s)
  BY <1>1, <1>3, <1>4, <1>5 DEF IsInjective
<1>7. Range(s) \subseteq Range(list)
  BY <1>1, <1>3, <1>4, <1>5 DEF Range
<1> QED
  BY <1>1, <1>2, <1>4, <1>6, <1>7

-----------------------------------------------------------------------------
(* How often a buffer is in a list.                                        *)

At(s, m) == {i \in DOMAIN s : s[i] = m}

\* A list holds a buffer a natural number of times, at most as often as it is long.
LEMMA TimesType ==
  ASSUME NEW s \in Seq(Mbufs)
  PROVE  /\ Times(s) \in [Mbufs -> Nat]
         /\ \A m \in Mbufs : /\ Times(s)[m] = Cardinality(At(s, m))
                             /\ IsFiniteSet(At(s, m))
<1>1. Len(s) \in Nat /\ DOMAIN s = 1 .. Len(s)
  BY LenProperties
<1>2. IsFiniteSet(1 .. Len(s))
  BY <1>1, FS_Interval
<1>3. \A m \in Mbufs : IsFiniteSet(At(s, m))
  <2> SUFFICES ASSUME NEW m \in Mbufs PROVE IsFiniteSet(At(s, m))
    OBVIOUS
  <2>1. At(s, m) \in SUBSET (1 .. Len(s))
    BY <1>1 DEF At
  <2> QED
    BY <1>2, <2>1, FS_Subset
<1>4. \A m \in Mbufs : Cardinality(At(s, m)) \in Nat
  BY <1>3, FS_CardinalityType
<1>5. Times(s) = [m \in Mbufs |-> Cardinality(At(s, m))]
  BY DEF Times, At
<1> QED
  BY <1>3, <1>4, <1>5

\* An empty list holds no buffer.
LEMMA TimesEmpty == \A m \in Mbufs : Times(<<>>)[m] = 0
<1> SUFFICES ASSUME NEW m \in Mbufs PROVE Times(<<>>)[m] = 0
  OBVIOUS
<1>1. At(<<>>, m) = {}
  BY DEF At
<1>2. <<>> \in Seq(Mbufs)
  BY EmptySeq
<1> QED
  BY <1>1, <1>2, TimesType, FS_EmptySet

\* A buffer is in two lists put together as often as in the one and in the other.
LEMMA TimesConcat ==
  ASSUME NEW a \in Seq(Mbufs), NEW b \in Seq(Mbufs), NEW m \in Mbufs
  PROVE  Times(a \o b)[m] = Times(a)[m] + Times(b)[m]
<1> DEFINE s == a \o b
           U == {i \in DOMAIN s : i > Len(a) /\ s[i] = m}
           f == [j \in At(b, m) |-> Len(a) + j]
<1>1. /\ Len(a) \in Nat /\ DOMAIN a = 1 .. Len(a)
      /\ Len(b) \in Nat /\ DOMAIN b = 1 .. Len(b)
  BY LenProperties
<1>2. /\ s \in Seq(Mbufs) /\ Len(s) = Len(a) + Len(b)
      /\ \A i \in 1 .. Len(a) : s[i] = a[i]
      /\ \A i \in 1 .. Len(b) : s[Len(a) + i] = b[i]
  <2>1. s \in Seq(Mbufs) /\ Len(s) = Len(a) + Len(b)
    BY ConcatProperties
  <2>2. \A i \in 1 .. Len(a) : s[i] = a[i]
    BY <1>1, ConcatProperties
  <2>3. ASSUME NEW i \in 1 .. Len(b) PROVE s[Len(a) + i] = b[i]
    <3>1. Len(a) + i \in 1 .. Len(a) + Len(b) /\ ~(Len(a) + i <= Len(a))
          /\ (Len(a) + i) - Len(a) = i
      BY <1>1
    <3> QED
      BY <1>1, <3>1, ConcatProperties
  <2> QED
    BY <2>1, <2>2, <2>3
<1> HIDE DEF s
<1>3. DOMAIN s = 1 .. Len(a) + Len(b)
  BY <1>1, <1>2, LenProperties
<1>4. At(s, m) = At(a, m) \cup U /\ At(a, m) \cap U = {}
  BY <1>1, <1>2, <1>3 DEF At
<1>5. IsFiniteSet(At(a, m)) /\ IsFiniteSet(At(b, m)) /\ IsFiniteSet(At(s, m))
  BY <1>2, TimesType
<1>6. f \in Bijection(At(b, m), U)
  <2>1. \A j \in At(b, m) : j \in 1 .. Len(b) /\ b[j] = m
    BY <1>1 DEF At
  <2>2. f \in [At(b, m) -> U]
    BY <1>1, <1>2, <1>3, <2>1
  <2>3. f \in Injection(At(b, m), U)
    BY <1>1, <2>1, <2>2 DEF Injection, IsInjective
  <2>4. ASSUME NEW i \in U PROVE \E j \in At(b, m) : f[j] = i
    <3>1. i - Len(a) \in 1 .. Len(b) /\ Len(a) + (i - Len(a)) = i
      BY <1>1, <1>3
    <3>2. i - Len(a) \in At(b, m)
      BY <1>1, <1>2, <3>1 DEF At
    <3> QED
      BY <3>1, <3>2
  <2> HIDE DEF f
  <2>5. f \in Surjection(At(b, m), U)
    BY <2>2, <2>4 DEF Surjection
  <2> QED
    BY <2>3, <2>5 DEF Bijection
<1> HIDE DEF U, f
<1>7. IsFiniteSet(U) /\ Cardinality(U) = Cardinality(At(b, m))
  BY <1>5, <1>6, FS_Bijection DEF ExistsBijection
<1>8. Cardinality(At(s, m)) = Cardinality(At(a, m)) + Cardinality(U) - 0
  BY <1>4, <1>5, <1>7, FS_Union, FS_EmptySet
<1>9. Cardinality(At(a, m)) \in Nat /\ Cardinality(U) \in Nat
  BY <1>5, <1>7, FS_CardinalityType
<1>10. /\ Times(a)[m] = Cardinality(At(a, m))
       /\ Times(b)[m] = Cardinality(At(b, m))
       /\ Times(s)[m] = Cardinality(At(s, m))
  BY <1>2, TimesType
<1>11. Times(s)[m] = Times(a)[m] + Times(b)[m]
  BY <1>7, <1>8, <1>9, <1>10
<1> QED
  BY <1>11 DEF s

\* A buffer is in a list, or is not.
LEMMA TimesIn ==
  ASSUME NEW s \in Seq(Mbufs), NEW m \in Mbufs
  PROVE  Times(s)[m] \in Nat /\ (Times(s)[m] > 0 <=> m \in Range(s))
<1>1. Times(s)[m] = Cardinality(At(s, m)) /\ IsFiniteSet(At(s, m))
  BY TimesType
<1>2. Times(s)[m] \in Nat
  BY TimesType
<1>3. Times(s)[m] = 0 <=> At(s, m) = {}
  BY <1>1, FS_EmptySet
<1>4. At(s, m) = {} <=> m \notin Range(s)
  BY DEF At, Range
<1> QED
  BY <1>2, <1>3, <1>4

\* In a list without repetitions, a buffer is there once or not at all.
LEMMA TimesOne ==
  ASSUME NEW s \in Seq(Mbufs), IsInjective(s), NEW m \in Mbufs
  PROVE  Times(s)[m] = IF m \in Range(s) THEN 1 ELSE 0
<1>1. Times(s)[m] = Cardinality(At(s, m)) /\ IsFiniteSet(At(s, m))
  BY TimesType
<1>2. CASE m \in Range(s)
  <2>1. PICK i \in DOMAIN s : s[i] = m
    BY <1>2 DEF Range
  <2>2. At(s, m) = {i}
    BY <2>1 DEF At, IsInjective
  <2> QED
    BY <1>1, <1>2, <2>2, FS_Singleton
<1>3. CASE m \notin Range(s)
  BY <1>3, TimesIn
<1> QED
  BY <1>2, <1>3

\* And the other way round.
LEMMA TimesOnce ==
  ASSUME NEW s \in Seq(Mbufs), \A m \in Mbufs : Times(s)[m] <= 1
  PROVE  IsInjective(s)
<1>1. DOMAIN s = 1 .. Len(s)
  BY LenProperties
<1>2. ASSUME NEW i \in DOMAIN s, NEW j \in DOMAIN s, s[i] = s[j]
      PROVE  i = j
  <2> DEFINE m == s[i]
  <2>1. m \in Mbufs
    BY <1>1, ElementOfSeq
  <2>2. /\ Times(s)[m] = Cardinality(At(s, m)) /\ IsFiniteSet(At(s, m))
        /\ Times(s)[m] \in Nat /\ Times(s)[m] <= 1
    BY <2>1, TimesType
  <2>3. i \in At(s, m) /\ j \in At(s, m)
    BY <1>2 DEF At
  <2> HIDE DEF m
  <2>4. Cardinality(At(s, m)) # 0
    BY <2>2, <2>3, FS_EmptySet
  <2>5. Cardinality(At(s, m)) = 1
    BY <2>2, <2>4
  <2>6. \E x : At(s, m) = {x}
    BY <2>2, <2>5, FS_Singleton
  <2> QED
    BY <2>3, <2>6
<1> QED
  BY <1>2 DEF IsInjective

\* One buffer.
LEMMA TimesUnit ==
  ASSUME NEW x \in Mbufs, NEW m \in Mbufs
  PROVE  /\ <<x>> \in Seq(Mbufs) /\ Len(<<x>>) = 1
         /\ Times(<<x>>)[m] = IF m = x THEN 1 ELSE 0
<1>1. <<x>> \in Seq(Mbufs) /\ IsInjective(<<x>>) /\ Range(<<x>>) = {x}
      /\ Len(<<x>>) = 1
  BY DEF IsInjective, Range
<1> QED
  BY <1>1, TimesOne

\* A part of a list.
LEMMA PartOf ==
  ASSUME NEW T, NEW s \in Seq(T), NEW a \in Nat, NEW b \in Nat,
         1 <= a, a <= b + 1, b <= Len(s)
  PROVE  /\ SubSeq(s, a, b) \in Seq(T) /\ Len(SubSeq(s, a, b)) = b - a + 1
         /\ \A i \in 1 .. b - a + 1 : SubSeq(s, a, b)[i] = s[a + i - 1]
<1>1. \A i \in a .. b : s[i] \in T
  <2> SUFFICES ASSUME NEW i \in a .. b PROVE s[i] \in T
    OBVIOUS
  <2>1. i \in 1 .. Len(s)
    BY LenProperties
  <2> QED
    BY <2>1, ElementOfSeq
<1>2. /\ SubSeq(s, a, b) \in Seq(T)
      /\ Len(SubSeq(s, a, b)) = IF a <= b THEN b - a + 1 ELSE 0
      /\ \A i \in 1 .. b - a + 1 : SubSeq(s, a, b)[i] = s[a + i - 1]
  BY <1>1, SubSeqProperties
<1> QED
  BY <1>2

\* The last elements of a list, cut in two.
LEMMA CutOf ==
  ASSUME NEW T, NEW s \in Seq(T), NEW a \in Nat, NEW c \in Nat,
         1 <= a, a <= c + 1, c <= Len(s)
  PROVE  SubSeq(s, a, Len(s)) = SubSeq(s, a, c) \o SubSeq(s, c + 1, Len(s))
<1>1. /\ Len(s) \in Nat /\ a \in 1 .. Len(s) + 1 /\ c \in a - 1 .. Len(s)
      /\ Len(s) \in c .. Len(s)
  BY LenProperties
<1> QED
  BY <1>1, ConcatAdjacentSubSeq

\* The buffers of the parts are those of the whole.
LEMMA TimesCut ==
  ASSUME NEW s \in Seq(Mbufs), NEW a \in Nat, NEW c \in Nat,
         1 <= a, a <= c + 1, c <= Len(s), NEW m \in Mbufs
  PROVE  Times(SubSeq(s, a, Len(s)))[m]
           = Times(SubSeq(s, a, c))[m] + Times(SubSeq(s, c + 1, Len(s)))[m]
<1>1. SubSeq(s, a, c) \in Seq(Mbufs)
  BY PartOf
<1>2. Len(s) \in Nat /\ c + 1 \in Nat /\ 1 <= c + 1 /\ c + 1 <= Len(s) + 1
  BY LenProperties
<1>3. SubSeq(s, c + 1, Len(s)) \in Seq(Mbufs)
  BY <1>2, PartOf
<1>4. SubSeq(s, a, Len(s)) = SubSeq(s, a, c) \o SubSeq(s, c + 1, Len(s))
  BY CutOf
<1>5. Times(SubSeq(s, a, c) \o SubSeq(s, c + 1, Len(s)))[m]
        = Times(SubSeq(s, a, c))[m] + Times(SubSeq(s, c + 1, Len(s)))[m]
  BY <1>1, <1>3, TimesConcat
<1> QED
  BY <1>4, <1>5

\* A list without repetitions is as long as the set of its elements.
LEMMA LenOfInjective ==
  ASSUME NEW T, NEW s \in Seq(T), IsInjective(s)
  PROVE  IsFiniteSet(Range(s)) /\ Cardinality(Range(s)) = Len(s)
<1>1. Len(s) \in Nat /\ DOMAIN s = 1 .. Len(s) /\ s \in [1 .. Len(s) -> T]
  BY LenProperties
<1>2. s \in Bijection(1 .. Len(s), Range(s))
  <2>1. s \in [1 .. Len(s) -> Range(s)]
    BY <1>1 DEF Range
  <2>2. s \in Injection(1 .. Len(s), Range(s))
    BY <1>1, <2>1 DEF Injection, IsInjective
  <2>3. s \in Surjection(1 .. Len(s), Range(s))
    BY <1>1, <2>1 DEF Surjection, Range
  <2> QED
    BY <2>2, <2>3 DEF Bijection
<1>3. IsFiniteSet(1 .. Len(s)) /\ Cardinality(1 .. Len(s)) = Len(s)
  <2>1. 1 \in Int /\ Len(s) \in Int
    BY <1>1
  <2>2. /\ IsFiniteSet(1 .. Len(s))
        /\ Cardinality(1 .. Len(s)) = IF 1 > Len(s) THEN 0 ELSE Len(s) - 1 + 1
    BY <2>1, FS_Interval, Zenon
  <2> QED
    BY <1>1, <2>2
<1> QED
  BY <1>2, <1>3, FS_Bijection DEF ExistsBijection

\* What is taken out of a list, and what is left, is all of it.
LEMMA KeptBoth ==
  ASSUME NEW s \in Seq(Mbufs), IsInjective(s), NEW S
  PROVE  LET a == Kept(s, S)
             b == Kept(s, Range(s) \ S)
         IN  /\ a \in Seq(Mbufs) /\ b \in Seq(Mbufs)
             /\ IsInjective(a) /\ IsInjective(b)
             /\ Range(a) = Range(s) \cap S /\ Range(b) = Range(s) \ S
             /\ Len(a) + Len(b) = Len(s) /\ Len(a) <= Len(s)
             /\ \A m \in Mbufs : Times(s)[m] = Times(a)[m] + Times(b)[m]
<1> DEFINE a == Kept(s, S)
           b == Kept(s, Range(s) \ S)
<1>1. a \in Seq(Mbufs) /\ b \in Seq(Mbufs)
  BY KeptEmbeds, Zenon
<1>2. IsInjective(a) /\ IsInjective(b)
  BY KeptInjective, Zenon
<1>3. Range(a) = Range(s) \cap S /\ Range(b) = Range(s) \cap (Range(s) \ S)
  BY KeptRange, Zenon
<1>4. Range(b) = Range(s) \ S
  BY <1>3
<1> HIDE DEF a, b
<1>5. /\ IsFiniteSet(Range(a)) /\ Cardinality(Range(a)) = Len(a)
      /\ IsFiniteSet(Range(b)) /\ Cardinality(Range(b)) = Len(b)
      /\ Cardinality(Range(s)) = Len(s)
  BY <1>1, <1>2, LenOfInjective
<1>6. Range(a) \cup Range(b) = Range(s) /\ Range(a) \cap Range(b) = {}
  BY <1>3, <1>4
<1>7. Cardinality(Range(s)) = Len(a) + Len(b) - 0
  <2>1. Cardinality(Range(a) \cup Range(b))
          = Cardinality(Range(a)) + Cardinality(Range(b))
            - Cardinality(Range(a) \cap Range(b))
    BY <1>5, FS_Union
  <2>2. Cardinality({}) = 0
    BY FS_EmptySet
  <2> QED
    BY <1>5, <1>6, <2>1, <2>2
<1>8. Len(a) \in Nat /\ Len(b) \in Nat
  BY <1>1, LenProperties
<1>9. \A m \in Mbufs : Times(s)[m] = Times(a)[m] + Times(b)[m]
  BY <1>1, <1>2, <1>3, <1>4, TimesOne
<1>10. Len(a) + Len(b) = Len(s) /\ Len(a) <= Len(s)
  BY <1>5, <1>7, <1>8
<1> QED
  BY <1>1, <1>2, <1>3, <1>4, <1>9, <1>10 DEF a, b

\* What is left of a list when its first elements are taken out.
LEMMA KeptRest ==
  ASSUME NEW T, NEW s \in Seq(T), NEW S, NEW c \in 0 .. Len(s),
         \A i \in 1 .. Len(s) : s[i] \in S <=> i > c
  PROVE  Kept(s, S) = SubSeq(s, c + 1, Len(s))
<1>1. PICK k : Keeps(s, S, Len(s), k) /\ Kept(s, S) = k[Len(s)]
  BY KeptKeeps
<1>2. Len(s) \in Nat /\ c \in Nat
  BY LenProperties
<1>3. /\ k[0] = <<>>
      /\ \A n \in 1 .. Len(s) :
           k[n] = IF s[n] \in S THEN Append(k[n - 1], s[n]) ELSE k[n - 1]
  <2>1. k = [n \in 0 .. Len(s) |->
               IF n = 0 THEN <<>>
               ELSE IF s[n] \in S THEN Append(k[n - 1], s[n]) ELSE k[n - 1]]
    BY <1>1 DEF Keeps
  <2>2. k[0] = <<>>
    BY <2>1, <1>2
  <2>3. ASSUME NEW n \in 1 .. Len(s)
        PROVE  k[n] = IF s[n] \in S THEN Append(k[n - 1], s[n]) ELSE k[n - 1]
    <3>1. n \in 0 .. Len(s) /\ n # 0
      OBVIOUS
    <3> QED
      BY <2>1, <3>1
  <2> QED
    BY <2>2, <2>3
<1> DEFINE I == [n \in 0 .. Len(s) |->
                   {IF n <= c THEN <<>> ELSE SubSeq(s, c + 1, n)}]
<1>4. k[0] \in I[0]
  BY <1>2, <1>3
<1>5. ASSUME NEW n \in 1 .. Len(s), k[n - 1] \in I[n - 1]
      PROVE  k[n] \in I[n]
  <2>1. n - 1 \in 0 .. Len(s) /\ n \in 0 .. Len(s)
    OBVIOUS
  <2>2. k[n - 1] = IF n - 1 <= c THEN <<>> ELSE SubSeq(s, c + 1, n - 1)
    BY <1>5, <2>1
  <2>3. k[n] = IF n <= c THEN <<>> ELSE SubSeq(s, c + 1, n)
    <3>1. CASE n <= c
      BY <1>2, <1>3, <2>2, <3>1
    <3>2. CASE n > c
      <4>1. k[n] = Append(k[n - 1], s[n])
        BY <1>2, <1>3, <3>2
      <4>2. s[n] \in T
        BY ElementOfSeq
      <4>3. SubSeq(s, c + 1, n) = SubSeq(s, c + 1, n - 1) \o <<s[n]>>
        <5>1. c + 1 \in 1 .. Len(s) /\ n \in c + 1 .. Len(s)
          BY <1>2, <3>2
        <5> QED
          BY <5>1, SubSeqRecursiveSecond
      <4>4. k[n - 1] = SubSeq(s, c + 1, n - 1)
        <5>1. CASE n - 1 > c
          BY <1>2, <2>2, <5>1
        <5>2. CASE n - 1 <= c
          <6>1. n - 1 = c /\ n - 1 < c + 1 /\ n - 1 \in Int /\ c + 1 \in Int
            BY <1>2, <3>2, <5>2
          <6>2. SubSeq(s, c + 1, n - 1) = <<>>
            BY <6>1, SubSeqEmpty
          <6> QED
            BY <2>2, <5>2, <6>2
        <5> QED
          BY <1>2, <5>1, <5>2
      <4>5. SubSeq(s, c + 1, n - 1) \in Seq(T)
        <5>1. n - 1 \in Nat /\ c + 1 \in Nat /\ 1 <= c + 1
              /\ c + 1 <= (n - 1) + 1 /\ n - 1 <= Len(s)
          BY <1>2, <3>2
        <5> QED
          BY <5>1, PartOf
      <4>6. Append(k[n - 1], s[n]) = SubSeq(s, c + 1, n - 1) \o <<s[n]>>
        BY <4>2, <4>4, <4>5, AppendIsConcat
      <4> QED
        BY <1>2, <3>2, <4>1, <4>3, <4>6
    <3> QED
      BY <1>2, <3>1, <3>2
  <2> QED
    BY <2>1, <2>3
<1> HIDE DEF I
<1>6. k[Len(s)] \in I[Len(s)]
  <2>1. \A n \in 1 .. Len(s) : k[n - 1] \in I[n - 1] => k[n] \in I[n]
    BY <1>5
  <2>2. \A n \in 0 .. Len(s) : k[n] \in I[n]
    BY <1>2, <1>4, <2>1, LoopKeeps, Zenon
  <2>3. Len(s) \in 0 .. Len(s)
    BY <1>2
  <2> QED
    BY <2>2, <2>3
<1>7. k[Len(s)] = IF Len(s) <= c THEN <<>> ELSE SubSeq(s, c + 1, Len(s))
  <2>1. Len(s) \in 0 .. Len(s)
    BY <1>2
  <2>2. I[Len(s)] = {IF Len(s) <= c THEN <<>> ELSE SubSeq(s, c + 1, Len(s))}
    BY <2>1 DEF I
  <2> QED
    BY <1>6, <2>2
<1>8. Len(s) <= c => SubSeq(s, c + 1, Len(s)) = <<>>
  BY <1>2, SubSeqEmpty
<1> QED
  BY <1>1, <1>7, <1>8

-----------------------------------------------------------------------------
(* References.  rf says how many references to each buffer there are, those *)
(* of the packets it is a segment of not counted.                          *)

MB == [Mbufs -> [refcnt : Nat, segs : SUBSET Mbufs]]

Acc(mb, rf) ==
  /\ mb \in MB /\ rf \in [Mbufs -> Nat]
  /\ \A m \in Mbufs :
       (\A h \in Mbufs : m \notin mb[h].segs) => mb[m].refcnt = rf[m]
  /\ \A m, h \in Mbufs : m \in mb[h].segs =>
       mb[m].refcnt = 1 /\ rf[m] = 0 /\ mb[m].segs = {}
  /\ \A m, h1, h2 \in Mbufs :
       m \in mb[h1].segs /\ m \in mb[h2].segs => h1 = h2
  /\ \A m \in Mbufs : mb[m].refcnt = 0 => mb[m].segs = {}

\* A buffer to which there is a reference is no segment.
LEMMA AccHead ==
  ASSUME NEW mb, NEW rf, Acc(mb, rf), NEW m \in Mbufs
  PROVE  /\ rf[m] \in Nat /\ mb[m].refcnt \in Nat
         /\ rf[m] > 0 => /\ mb[m].refcnt = rf[m]
                         /\ \A h \in Mbufs : m \notin mb[h].segs
         /\ mb[m].refcnt = 0 => rf[m] = 0
BY DEF Acc, MB

\* Freeing takes the references away.
LEMMA ReleaseAcc ==
  ASSUME NEW mb, NEW rf, Acc(mb, rf), NEW refs \in [Mbufs -> Nat],
         NEW rf2 \in [Mbufs -> Nat],
         \A m \in Mbufs : refs[m] <= rf[m] /\ rf2[m] = rf[m] - refs[m]
  PROVE  /\ Acc(Released(mb, refs), rf2)
         /\ FreeMbufs(mb) \subseteq FreeMbufs(Released(mb, refs))
<1> DEFINE left == [m \in Mbufs |-> mb[m].refcnt - refs[m]]
           gone == {m \in Mbufs : left[m] = 0 /\ mb[m].refcnt > 0}
           put  == {m \in Mbufs : m \in gone \/ \E h \in gone : m \in mb[h].segs}
           new  == Released(mb, refs)
<1>0. /\ new = [m \in Mbufs |->
                  IF m \in put THEN InPool
                  ELSE [refcnt |-> left[m], segs |-> mb[m].segs]]
      /\ left = [m \in Mbufs |-> mb[m].refcnt - refs[m]]
  BY DEF Released
<1>5. \A m \in gone : m \in Mbufs
  OBVIOUS
<1>6. \A m \in Mbufs : m \in put <=> m \in gone \/ \E h \in gone : m \in mb[h].segs
  OBVIOUS
<1>7. \A m \in Mbufs : m \in gone <=> mb[m].refcnt - refs[m] = 0 /\ mb[m].refcnt > 0
  OBVIOUS
<1> HIDE DEF gone, put, new, left
<1>1. /\ \A m \in Mbufs : m \in put => new[m].refcnt = 0 /\ new[m].segs = {}
      /\ \A m \in Mbufs : m \notin put =>
           new[m].refcnt = mb[m].refcnt - refs[m] /\ new[m].segs = mb[m].segs
      /\ new = [m \in Mbufs |-> [refcnt |-> new[m].refcnt, segs |-> new[m].segs]]
  <2>1. ASSUME NEW m \in Mbufs, m \in put
        PROVE  new[m] = [refcnt |-> 0, segs |-> {}]
    BY <1>0, <2>1 DEF InPool
  <2>2. ASSUME NEW m \in Mbufs, m \notin put
        PROVE  new[m] = [refcnt |-> mb[m].refcnt - refs[m], segs |-> mb[m].segs]
    BY <1>0, <2>2
  <2>3. new = [m \in Mbufs |-> new[m]]
    BY <1>0
  <2>4. ASSUME NEW m \in Mbufs
        PROVE  new[m] = [refcnt |-> new[m].refcnt, segs |-> new[m].segs]
    <3>1. CASE m \in put
      BY <2>1, <3>1
    <3>2. CASE m \notin put
      <4>1. \E a, b : new[m] = [refcnt |-> a, segs |-> b]
        BY <2>2, <3>2
      <4> QED
        BY <4>1
    <3> QED
      BY <3>1, <3>2
  <2> QED
    BY <2>1, <2>2, <2>3, <2>4
<1>2. ASSUME NEW m \in Mbufs, NEW h \in Mbufs, m \in mb[h].segs
      PROVE  /\ mb[m].refcnt - refs[m] = 1 /\ rf[m] = 0 /\ refs[m] = 0
             /\ m \notin gone /\ mb[m].segs = {}
             /\ m \in put <=> h \in gone
  <2>1. rf[m] = 0 /\ mb[m].refcnt = 1 /\ mb[m].segs = {}
    BY <1>2 DEF Acc
  <2>2. refs[m] = 0
    BY <2>1
  <2>3. \A g \in Mbufs : m \in mb[g].segs => g = h
    BY <1>2 DEF Acc
  <2>4. mb[m].refcnt - refs[m] = 1
    BY <2>1, <2>2
  <2>5. m \notin gone
    BY <1>7, <2>4
  <2>6. m \in put <=> h \in gone
    BY <1>2, <1>5, <1>6, <2>3, <2>5
  <2> QED
    BY <2>1, <2>2, <2>4, <2>5, <2>6
<1>3. ASSUME NEW m \in Mbufs, \A h \in Mbufs : m \notin mb[h].segs
      PROVE  /\ mb[m].refcnt - refs[m] = rf2[m] /\ mb[m].refcnt = rf[m]
             /\ m \in put <=> m \in gone
             /\ m \in gone => rf2[m] = 0
  <2>1. mb[m].refcnt = rf[m]
    BY <1>3 DEF Acc
  <2>2. rf2[m] = rf[m] - refs[m]
    OBVIOUS
  <2>3. m \in put <=> m \in gone
    BY <1>3, <1>5, <1>6
  <2> QED
    BY <1>7, <2>1, <2>2, <2>3
<1>4. \A m \in Mbufs : /\ mb[m].refcnt \in Nat /\ mb[m].segs \subseteq Mbufs
                       /\ refs[m] \in Nat /\ rf[m] \in Nat
  BY DEF Acc, MB
<1>8. \A m \in Mbufs : mb[m].refcnt - refs[m] \in Nat
  <2> SUFFICES ASSUME NEW m \in Mbufs PROVE mb[m].refcnt - refs[m] \in Nat
    OBVIOUS
  <2>1. CASE \E h \in Mbufs : m \in mb[h].segs
    BY <1>2, <2>1
  <2>2. CASE \A h \in Mbufs : m \notin mb[h].segs
    BY <1>3, <2>2
  <2> QED
    BY <2>1, <2>2
<1>9. new \in MB
  <2> SUFFICES ASSUME NEW m \in Mbufs
               PROVE  new[m].refcnt \in Nat /\ new[m].segs \subseteq Mbufs
    BY <1>1 DEF MB
  <2>1. CASE m \in put
    BY <1>1, <2>1
  <2>2. CASE m \notin put
    BY <1>1, <1>4, <1>8, <2>2
  <2> QED
    BY <2>1, <2>2
<1>10. ASSUME NEW m \in Mbufs, NEW h \in Mbufs
       PROVE  m \in new[h].segs <=> m \in mb[h].segs /\ h \notin gone
  <2>1. CASE h \in put
    <3>1. new[h].segs = {}
      BY <1>1, <2>1
    <3>2. m \in mb[h].segs => h \in gone
      BY <1>2, <1>4, <1>5, <1>6, <2>1
    <3> QED
      BY <3>1, <3>2
  <2>2. CASE h \notin put
    BY <1>1, <1>6, <2>2
  <2> QED
    BY <2>1, <2>2
<1>11. ASSUME NEW m \in Mbufs, NEW h \in Mbufs, m \in new[h].segs
       PROVE  new[m].refcnt = 1 /\ rf2[m] = 0 /\ new[m].segs = {}
  <2>1. m \in mb[h].segs /\ h \notin gone
    BY <1>10, <1>11
  <2>2. m \notin put /\ rf2[m] = 0
    BY <1>2, <2>1
  <2> QED
    BY <1>1, <1>2, <2>1, <2>2
<1>12. ASSUME NEW m \in Mbufs, \A h \in Mbufs : m \notin new[h].segs
       PROVE  new[m].refcnt = rf2[m]
  <2>1. CASE \E h \in Mbufs : m \in mb[h].segs
    <3>1. PICK h \in Mbufs : m \in mb[h].segs
      BY <2>1
    <3>2. h \in gone /\ m \in put /\ rf2[m] = 0
      BY <1>2, <1>10, <1>12, <3>1
    <3> QED
      BY <1>1, <3>2
  <2>2. CASE \A h \in Mbufs : m \notin mb[h].segs
    <3>1. CASE m \in put
      BY <1>1, <1>3, <2>2, <3>1
    <3>2. CASE m \notin put
      BY <1>1, <1>3, <2>2, <3>2
    <3> QED
      BY <3>1, <3>2
  <2> QED
    BY <2>1, <2>2
<1>13. ASSUME NEW m \in Mbufs, NEW h1 \in Mbufs, NEW h2 \in Mbufs,
              m \in new[h1].segs, m \in new[h2].segs
       PROVE  h1 = h2
  <2>1. m \in mb[h1].segs /\ m \in mb[h2].segs
    BY <1>10, <1>13
  <2> QED
    BY <2>1 DEF Acc
<1>14. ASSUME NEW m \in Mbufs, new[m].refcnt = 0
       PROVE  new[m].segs = {}
  <2>1. CASE m \in put
    BY <1>1, <2>1
  <2>2. CASE m \notin put
    <3>1. m \notin gone /\ mb[m].refcnt - refs[m] = 0
      BY <1>1, <1>6, <1>14, <2>2
    <3>2. mb[m].refcnt = 0
      BY <1>4, <1>7, <3>1
    <3>3. mb[m].segs = {}
      BY <3>2 DEF Acc
    <3> QED
      BY <1>1, <2>2, <3>3
  <2> QED
    BY <2>1, <2>2
<1>15. Acc(new, rf2)
  BY <1>9, <1>11, <1>12, <1>13, <1>14 DEF Acc
<1>16. ASSUME NEW m \in Mbufs, mb[m].refcnt = 0 PROVE new[m].refcnt = 0
  <2>1. \A h \in Mbufs : m \notin mb[h].segs
    BY <1>16 DEF Acc
  <2>2. mb[m].refcnt - refs[m] = 0
    BY <1>3, <1>4, <1>16, <2>1
  <2> QED
    BY <1>1, <2>2
<1> QED
  BY <1>15, <1>16 DEF new, FreeMbufs

\* Buffers that are taken from the pool get one reference each.
LEMMA AllocAcc ==
  ASSUME NEW mb, NEW rf, Acc(mb, rf),
         NEW ms \in Seq(Mbufs), IsInjective(ms), Range(ms) \subseteq FreeMbufs(mb),
         NEW rf2 \in [Mbufs -> Nat],
         \A m \in Mbufs : rf2[m] = rf[m] + Times(ms)[m]
  PROVE  /\ Acc(Alloc(mb, ms), rf2)
         /\ FreeMbufs(Alloc(mb, ms)) = FreeMbufs(mb) \ Range(ms)
         /\ NbFree(Alloc(mb, ms)) = NbFree(mb) - Len(ms)
         /\ \A m \in Range(ms) :
              /\ m \in Mbufs /\ rf[m] = 0 /\ rf2[m] = 1
              /\ Alloc(mb, ms)[m].segs = {} /\ Alloc(mb, ms)[m].refcnt = 1
         /\ \A m \in Mbufs : Alloc(mb, ms)[m].segs = mb[m].segs
<1> DEFINE new == Alloc(mb, ms)
<1>1. \A m \in Mbufs : Contains(ms, m) <=> m \in Range(ms)
  BY LenProperties DEF Contains, Range
<1>2. /\ \A m \in Mbufs : m \in Range(ms) =>
            new[m].refcnt = 1 /\ new[m].segs = {}
      /\ \A m \in Mbufs : m \notin Range(ms) => new[m] = mb[m]
      /\ new = [m \in Mbufs |-> IF m \in Range(ms)
                                THEN [refcnt |-> 1, segs |-> {}] ELSE mb[m]]
  <2>1. new = [m \in Mbufs |-> IF m \in Range(ms)
                               THEN [refcnt |-> 1, segs |-> {}] ELSE mb[m]]
    BY <1>1 DEF Alloc
  <2>2. ASSUME NEW m \in Mbufs, m \in Range(ms)
        PROVE  new[m].refcnt = 1 /\ new[m].segs = {}
    <3>1. new[m] = [refcnt |-> 1, segs |-> {}]
      BY <2>1, <2>2
    <3> QED
      BY <3>1
  <2>3. ASSUME NEW m \in Mbufs, m \notin Range(ms) PROVE new[m] = mb[m]
    BY <2>1, <2>3
  <2> QED
    BY <2>1, <2>2, <2>3
<1>3. ASSUME NEW m \in Range(ms)
      PROVE  /\ m \in Mbufs /\ mb[m].refcnt = 0 /\ mb[m].segs = {} /\ rf[m] = 0
             /\ rf2[m] = 1 /\ \A h \in Mbufs : m \notin mb[h].segs
  <2>1. m \in Mbufs /\ mb[m].refcnt = 0
    BY DEF FreeMbufs
  <2>2. mb[m].segs = {} /\ \A h \in Mbufs : m \notin mb[h].segs
    BY <2>1 DEF Acc
  <2>3. rf[m] = 0
    BY <2>1, <2>2 DEF Acc
  <2>4. Times(ms)[m] = 1
    BY <2>1, TimesOne
  <2> QED
    BY <2>1, <2>2, <2>3, <2>4
<1>4. \A m \in Mbufs : m \notin Range(ms) => rf2[m] = rf[m]
  <2> SUFFICES ASSUME NEW m \in Mbufs, m \notin Range(ms) PROVE rf2[m] = rf[m]
    OBVIOUS
  <2>1. Times(ms)[m] = 0 /\ rf[m] \in Nat
    BY TimesOne DEF Acc
  <2> QED
    BY <2>1
<1> HIDE DEF new
<1>5. new \in MB
  BY <1>2 DEF MB, Acc
<1>6. \A m \in Mbufs : new[m].segs = mb[m].segs
  BY <1>2, <1>3
<1>7. Acc(new, rf2)
  <2>1. ASSUME NEW m \in Mbufs, NEW h \in Mbufs, m \in new[h].segs
        PROVE  new[m].refcnt = 1 /\ rf2[m] = 0 /\ new[m].segs = {}
    <3>1. m \in mb[h].segs
      BY <1>6, <2>1
    <3>2. mb[m].refcnt = 1 /\ rf[m] = 0 /\ mb[m].segs = {}
      BY <3>1 DEF Acc
    <3>3. m \notin Range(ms)
      BY <1>3, <3>1
    <3> QED
      BY <1>2, <1>4, <3>2, <3>3
  <2>2. ASSUME NEW m \in Mbufs, \A h \in Mbufs : m \notin new[h].segs
        PROVE  new[m].refcnt = rf2[m]
    <3>1. CASE m \in Range(ms)
      BY <1>2, <1>3, <3>1
    <3>2. CASE m \notin Range(ms)
      <4>1. \A h \in Mbufs : m \notin mb[h].segs
        BY <1>6, <2>2
      <4>2. mb[m].refcnt = rf[m]
        BY <4>1 DEF Acc
      <4> QED
        BY <1>2, <1>4, <3>2, <4>2
    <3> QED
      BY <3>1, <3>2
  <2>3. \A m, h1, h2 \in Mbufs :
          m \in new[h1].segs /\ m \in new[h2].segs => h1 = h2
    BY <1>6 DEF Acc
  <2>4. ASSUME NEW m \in Mbufs, new[m].refcnt = 0 PROVE new[m].segs = {}
    <3>1. m \notin Range(ms)
      BY <1>2, <2>4
    <3>2. mb[m].refcnt = 0
      BY <1>2, <2>4, <3>1
    <3> QED
      BY <1>6, <3>2 DEF Acc
  <2> QED
    BY <1>5, <2>1, <2>2, <2>3, <2>4 DEF Acc
<1>8. FreeMbufs(new) = FreeMbufs(mb) \ Range(ms)
  BY <1>2 DEF FreeMbufs
<1>9. NbFree(new) = NbFree(mb) - Len(ms)
  <2> DEFINE A == FreeMbufs(new)
             B == Range(ms)
  <2>1. IsFiniteSet(A) /\ NbFree(new) \in Nat
    BY FreeList
  <2>2. IsFiniteSet(B) /\ Cardinality(B) = Len(ms) /\ Len(ms) \in Nat
    BY LenOfInjective, LenProperties
  <2>3. A \cup B = FreeMbufs(mb) /\ A \cap B = {}
    BY <1>8
  <2>4. NbFree(new) = Cardinality(A)
    BY DEF NbFree
  <2>5. NbFree(mb) = Cardinality(A \cup B)
    BY <2>3 DEF NbFree
  <2> HIDE DEF A, B
  <2>6. Cardinality(A \cup B)
          = Cardinality(A) + Cardinality(B) - Cardinality(A \cap B)
    BY <2>1, <2>2, FS_Union
  <2>7. Cardinality(A \cap B) = 0
    BY <2>3, FS_EmptySet
  <2> QED
    BY <2>1, <2>2, <2>4, <2>5, <2>6, <2>7
<1> QED
  BY <1>2, <1>3, <1>6, <1>7, <1>8, <1>9 DEF new

\* Buffers that become segments of a packet lose their own reference.
LEMMA ChainAcc ==
  ASSUME NEW mb, NEW rf, Acc(mb, rf), NEW p \in Mbufs, NEW S \in SUBSET Mbufs,
         p \notin S, rf[p] > 0,
         \A m \in S : rf[m] = 1 /\ mb[m].segs = {},
         NEW rf2 \in [Mbufs -> Nat],
         \A m \in Mbufs : rf2[m] = IF m \in S THEN 0 ELSE rf[m]
  PROVE  /\ Acc(Chain(mb, p, S), rf2)
         /\ FreeMbufs(Chain(mb, p, S)) = FreeMbufs(mb)
         /\ NbFree(Chain(mb, p, S)) = NbFree(mb)
         /\ \A m \in Mbufs : Chain(mb, p, S)[m].refcnt = mb[m].refcnt
         /\ \A m \in Mbufs \ {p} : Chain(mb, p, S)[m].segs = mb[m].segs
<1> DEFINE new == Chain(mb, p, S)
<1>1. /\ mb \in MB
      /\ \A m \in Mbufs : /\ mb[m].refcnt \in Nat /\ mb[m].segs \subseteq Mbufs
                          /\ mb[m] = [refcnt |-> mb[m].refcnt, segs |-> mb[m].segs]
  BY DEF Acc, MB
<1>2. UNION {mb[m].segs : m \in S} = {}
  OBVIOUS
<1>3. new = [m \in Mbufs |->
               IF m = p THEN [refcnt |-> mb[p].refcnt, segs |-> mb[p].segs \cup S]
               ELSE mb[m]]
  <2>1. DOMAIN mb = Mbufs
    BY <1>1 DEF MB
  <2>2. new = [mb EXCEPT ![p].segs = mb[p].segs \cup S]
    BY <1>2 DEF Chain
  <2> QED
    BY <1>1, <2>1, <2>2
<1> HIDE DEF new
<1>4. /\ \A m \in Mbufs : new[m].refcnt = mb[m].refcnt
      /\ \A m \in Mbufs : m # p => new[m].segs = mb[m].segs
      /\ new[p].segs = mb[p].segs \cup S
  BY <1>3
<1>5. new \in MB
  <2> SUFFICES ASSUME NEW m \in Mbufs
               PROVE  new[m] \in [refcnt : Nat, segs : SUBSET Mbufs]
    BY <1>3 DEF MB
  <2>1. CASE m = p
    BY <1>1, <1>3, <2>1
  <2>2. CASE m # p
    BY <1>1, <1>3, <2>2 DEF MB
  <2> QED
    BY <2>1, <2>2
<1>6. /\ mb[p].refcnt = rf[p]
      /\ \A h \in Mbufs : p \notin mb[h].segs
      /\ \A m \in S : mb[m].refcnt = 1 /\ \A h \in Mbufs : m \notin mb[h].segs
  BY AccHead
<1>7. ASSUME NEW m \in Mbufs, NEW h \in Mbufs
      PROVE  m \in new[h].segs <=> m \in mb[h].segs \/ (h = p /\ m \in S)
  BY <1>4
<1>8. ASSUME NEW m \in Mbufs, NEW h \in Mbufs, m \in new[h].segs
      PROVE  new[m].refcnt = 1 /\ rf2[m] = 0 /\ new[m].segs = {}
  <2>1. m # p
    BY <1>6, <1>7, <1>8
  <2>2. CASE m \in S
    BY <1>4, <1>6, <2>1, <2>2
  <2>3. CASE m \notin S
    <3>1. m \in mb[h].segs
      BY <1>7, <1>8, <2>3
    <3>2. mb[m].refcnt = 1 /\ rf[m] = 0 /\ mb[m].segs = {}
      BY <3>1 DEF Acc
    <3> QED
      BY <1>4, <2>1, <2>3, <3>2
  <2> QED
    BY <2>2, <2>3
<1>9. ASSUME NEW m \in Mbufs, \A h \in Mbufs : m \notin new[h].segs
      PROVE  new[m].refcnt = rf2[m]
  <2>1. m \notin S /\ \A h \in Mbufs : m \notin mb[h].segs
    BY <1>7, <1>9
  <2>2. mb[m].refcnt = rf[m]
    BY <2>1 DEF Acc
  <2> QED
    BY <1>4, <2>1, <2>2
<1>10. ASSUME NEW m \in Mbufs, NEW h1 \in Mbufs, NEW h2 \in Mbufs,
              m \in new[h1].segs, m \in new[h2].segs
       PROVE  h1 = h2
  <2>1. CASE m \in S
    BY <1>6, <1>7, <1>10, <2>1
  <2>2. CASE m \notin S
    <3>1. m \in mb[h1].segs /\ m \in mb[h2].segs
      BY <1>7, <1>10, <2>2
    <3> QED
      BY <3>1 DEF Acc
  <2> QED
    BY <2>1, <2>2
<1>11. ASSUME NEW m \in Mbufs, new[m].refcnt = 0 PROVE new[m].segs = {}
  <2>1. mb[m].refcnt = 0 /\ m # p
    BY <1>4, <1>6, <1>11
  <2> QED
    BY <1>4, <2>1 DEF Acc
<1>12. Acc(new, rf2)
  BY <1>5, <1>8, <1>9, <1>10, <1>11 DEF Acc
<1>13. FreeMbufs(new) = FreeMbufs(mb)
  BY <1>4 DEF FreeMbufs
<1> QED
  BY <1>4, <1>12, <1>13 DEF new, NbFree

\* A clone is one reference more.
LEMMA CloneAcc ==
  ASSUME NEW mb, NEW rf, Acc(mb, rf), NEW p \in Mbufs, rf[p] > 0,
         NEW rf2 \in [Mbufs -> Nat], NEW new \in MB,
         rf2[p] = rf[p] + 1, new[p].refcnt = mb[p].refcnt + 1,
         \A m \in Mbufs : m # p => rf2[m] = rf[m],
         \A m \in Mbufs : m # p => new[m].refcnt = mb[m].refcnt,
         \A m \in Mbufs : new[m].segs = mb[m].segs
  PROVE  Acc(new, rf2) /\ FreeMbufs(new) = FreeMbufs(mb)
<1> DEFINE r == mb[p].refcnt + 1
<1>1. r \in Nat /\ r # 0 /\ r = rf[p] + 1
  <2>1. mb[p].refcnt = rf[p] /\ rf[p] \in Nat
    BY AccHead
  <2> QED
    BY <2>1
<1> HIDE DEF r
<1>2. /\ \A m \in Mbufs : new[m].segs = mb[m].segs
      /\ \A m \in Mbufs : m # p => new[m].refcnt = mb[m].refcnt
      /\ new[p].refcnt = r
  BY DEF r
<1>3. mb[p].refcnt = rf[p] /\ \A h \in Mbufs : p \notin mb[h].segs
  BY AccHead
<1>4. ASSUME NEW m \in Mbufs, NEW h \in Mbufs, m \in new[h].segs
      PROVE  new[m].refcnt = 1 /\ rf2[m] = 0 /\ new[m].segs = {}
  <2>1. m \in mb[h].segs /\ m # p
    BY <1>2, <1>3, <1>4
  <2>2. mb[m].refcnt = 1 /\ rf[m] = 0 /\ mb[m].segs = {}
    BY <2>1 DEF Acc
  <2> QED
    BY <1>2, <2>1, <2>2
<1>5. ASSUME NEW m \in Mbufs, \A h \in Mbufs : m \notin new[h].segs
      PROVE  new[m].refcnt = rf2[m]
  <2>1. mb[m].refcnt = rf[m]
    BY <1>2, <1>5 DEF Acc
  <2>2. CASE m = p
    BY <1>1, <1>2, <2>1, <2>2 DEF r
  <2>3. CASE m # p
    <3>1. rf2[m] = rf[m]
      BY <2>3
    <3>2. new[m].refcnt = mb[m].refcnt
      BY <1>2, <2>3
    <3> QED
      BY <2>1, <3>1, <3>2
  <2> QED
    BY <2>2, <2>3
<1>6. \A m, h1, h2 \in Mbufs :
        m \in new[h1].segs /\ m \in new[h2].segs => h1 = h2
  BY <1>2 DEF Acc
<1>7. ASSUME NEW m \in Mbufs, new[m].refcnt = 0 PROVE new[m].segs = {}
  <2>1. m # p /\ mb[m].refcnt = 0
    BY <1>1, <1>2, <1>7
  <2> QED
    BY <1>2, <2>1 DEF Acc
<1>8. FreeMbufs(new) = FreeMbufs(mb)
  <2>1. ASSUME NEW m \in Mbufs PROVE new[m].refcnt = 0 <=> mb[m].refcnt = 0
    <3>1. CASE m = p
      BY <1>1, <1>2, <1>3, <3>1
    <3>2. CASE m # p
      BY <1>2, <3>2
    <3> QED
      BY <3>1, <3>2
  <2> QED
    BY <2>1 DEF FreeMbufs
<1> QED
  BY <1>4, <1>5, <1>6, <1>7, <1>8 DEF Acc

\* A list is its first elements, and the others.
LEMMA PartsOf ==
  ASSUME NEW T, NEW s \in Seq(T), NEW c \in 0 .. Len(s)
  PROVE  /\ SubSeq(s, 1, c) \in Seq(T) /\ Len(SubSeq(s, 1, c)) = c
         /\ SubSeq(s, c + 1, Len(s)) \in Seq(T)
         /\ Len(SubSeq(s, c + 1, Len(s))) = Len(s) - c
         /\ s = SubSeq(s, 1, c) \o SubSeq(s, c + 1, Len(s))
<1>1. /\ Len(s) \in Nat /\ c \in Nat /\ c + 1 \in Nat /\ c <= Len(s)
      /\ 1 <= c + 1 /\ c + 1 <= Len(s) + 1 /\ 1 \in Nat /\ 1 <= 1
  BY LenProperties
<1>2. SubSeq(s, 1, c) \in Seq(T) /\ Len(SubSeq(s, 1, c)) = c - 1 + 1
  BY <1>1, PartOf
<1>3. /\ SubSeq(s, c + 1, Len(s)) \in Seq(T)
      /\ Len(SubSeq(s, c + 1, Len(s))) = Len(s) - (c + 1) + 1
  BY <1>1, PartOf
<1>4. SubSeq(s, 1, Len(s)) = SubSeq(s, 1, c) \o SubSeq(s, c + 1, Len(s))
  BY <1>1, CutOf
<1>5. SubSeq(s, 1, Len(s)) = s
  BY SubSeqFull
<1>6. c - 1 + 1 = c /\ Len(s) - (c + 1) + 1 = Len(s) - c
  BY <1>1
<1> QED
  BY <1>2, <1>3, <1>4, <1>5, <1>6

-----------------------------------------------------------------------------
(* The references of a list of packets, on top of others.                  *)

Plus(B, s) == [m \in Mbufs |-> B[m] + Times(s)[m]]

\* The references of a list on top of others are numbers of references.
LEMMA PlusType ==
  ASSUME NEW B \in [Mbufs -> Nat], NEW s \in Seq(Mbufs)
  PROVE  /\ Plus(B, s) \in [Mbufs -> Nat]
         /\ \A m \in Mbufs : /\ Plus(B, s)[m] = B[m] + Times(s)[m]
                             /\ B[m] \in Nat /\ Times(s)[m] \in Nat
<1>1. \A m \in Mbufs : B[m] \in Nat /\ Times(s)[m] \in Nat
  BY TimesType
<1>2. \A m \in Mbufs : B[m] + Times(s)[m] \in Nat
  BY <1>1
<1> QED
  BY <1>1, <1>2 DEF Plus

\* An empty list adds no reference.
LEMMA PlusEmpty ==
  ASSUME NEW B \in [Mbufs -> Nat]
  PROVE  Plus(B, <<>>) = B
<1>1. \A m \in Mbufs : B[m] + Times(<<>>)[m] = B[m]
  BY TimesEmpty
<1> QED
  BY <1>1 DEF Plus

\* Two lists add their references one after the other.
LEMMA PlusConcat ==
  ASSUME NEW B \in [Mbufs -> Nat], NEW a \in Seq(Mbufs), NEW b \in Seq(Mbufs)
  PROVE  Plus(B, a \o b) = Plus(Plus(B, a), b)
<1>1. a \o b \in Seq(Mbufs)
  BY ConcatProperties
<1>2. ASSUME NEW m \in Mbufs
      PROVE  Plus(B, a \o b)[m] = Plus(Plus(B, a), b)[m]
  <2>1. Plus(B, a \o b)[m] = B[m] + Times(a \o b)[m]
    BY <1>1, PlusType
  <2>2. Times(a \o b)[m] = Times(a)[m] + Times(b)[m]
    BY TimesConcat
  <2>3. Plus(B, a) \in [Mbufs -> Nat]
    BY PlusType
  <2>4. Plus(Plus(B, a), b)[m] = Plus(B, a)[m] + Times(b)[m]
    BY <2>3, PlusType
  <2>5. Plus(B, a)[m] = B[m] + Times(a)[m]
    BY PlusType
  <2>6. B[m] \in Nat /\ Times(a)[m] \in Nat /\ Times(b)[m] \in Nat
    BY PlusType
  <2> QED
    BY <2>1, <2>2, <2>4, <2>5, <2>6
<1> QED
  BY <1>2 DEF Plus

\* It does not matter which of two lists is added first.
LEMMA PlusSwap ==
  ASSUME NEW B \in [Mbufs -> Nat], NEW a \in Seq(Mbufs), NEW b \in Seq(Mbufs)
  PROVE  Plus(Plus(B, a), b) = Plus(Plus(B, b), a)
<1>1. ASSUME NEW m \in Mbufs
      PROVE  Plus(Plus(B, a), b)[m] = Plus(Plus(B, b), a)[m]
  <2>1. Plus(B, a) \in [Mbufs -> Nat] /\ Plus(B, b) \in [Mbufs -> Nat]
    BY PlusType
  <2>2. Plus(Plus(B, a), b)[m] = Plus(B, a)[m] + Times(b)[m]
    BY <2>1, PlusType
  <2>3. Plus(Plus(B, b), a)[m] = Plus(B, b)[m] + Times(a)[m]
    BY <2>1, PlusType
  <2>4. Plus(B, a)[m] = B[m] + Times(a)[m] /\ Plus(B, b)[m] = B[m] + Times(b)[m]
    BY PlusType
  <2>5. B[m] \in Nat /\ Times(a)[m] \in Nat /\ Times(b)[m] \in Nat
    BY PlusType
  <2> QED
    BY <2>2, <2>3, <2>4, <2>5
<1> QED
  BY <1>1 DEF Plus

\* Packets taken from the pool.
LEMMA AllocPlus ==
  ASSUME NEW mb, NEW B, Acc(mb, B),
         NEW ms \in Seq(Mbufs), IsInjective(ms), Range(ms) \subseteq FreeMbufs(mb)
  PROVE  /\ Acc(Alloc(mb, ms), Plus(B, ms))
         /\ FreeMbufs(Alloc(mb, ms)) = FreeMbufs(mb) \ Range(ms)
         /\ NbFree(Alloc(mb, ms)) = NbFree(mb) - Len(ms)
         /\ \A m \in Range(ms) :
              /\ m \in Mbufs /\ B[m] = 0 /\ Plus(B, ms)[m] = 1
              /\ Alloc(mb, ms)[m].segs = {} /\ Alloc(mb, ms)[m].refcnt = 1
<1>1. B \in [Mbufs -> Nat]
  BY DEF Acc
<1>2. /\ Plus(B, ms) \in [Mbufs -> Nat]
      /\ \A m \in Mbufs : Plus(B, ms)[m] = B[m] + Times(ms)[m]
  BY <1>1, PlusType
<1> QED
  BY <1>2, AllocAcc

\* Packets given back to it.
LEMMA FreePlus ==
  ASSUME NEW mb, NEW B \in [Mbufs -> Nat], NEW ms \in Seq(Mbufs),
         Acc(mb, Plus(B, ms))
  PROVE  /\ Acc(rte_pktmbuf_free(mb, ms), B)
         /\ FreeMbufs(mb) \subseteq FreeMbufs(rte_pktmbuf_free(mb, ms))
<1>1. Times(ms) \in [Mbufs -> Nat]
  BY TimesType
<1>2. \A m \in Mbufs : /\ Times(ms)[m] <= Plus(B, ms)[m]
                       /\ B[m] = Plus(B, ms)[m] - Times(ms)[m]
  BY PlusType
<1> QED
  BY <1>1, <1>2, ReleaseAcc DEF rte_pktmbuf_free

\* As many free buffers as before, or more.
LEMMA MoreFree ==
  ASSUME NEW mb, NEW mb2, FreeMbufs(mb) \subseteq FreeMbufs(mb2)
  PROVE  NbFree(mb) <= NbFree(mb2) /\ NbFree(mb) \in Nat /\ NbFree(mb2) \in Nat
<1>1. /\ IsFiniteSet(FreeMbufs(mb2)) /\ NbFree(mb) \in Nat /\ NbFree(mb2) \in Nat
      /\ FreeMbufs(mb) \in SUBSET FreeMbufs(mb2)
  BY FreeList
<1>2. Cardinality(FreeMbufs(mb)) <= Cardinality(FreeMbufs(mb2))
  BY <1>1, FS_Subset
<1> QED
  BY <1>1, <1>2 DEF NbFree

-----------------------------------------------------------------------------
(* The loops of txonly.                                                    *)

\* A packet is made of a head, or nothing changes.
LEMMA PrepareAcc ==
  ASSUME NEW mb, NEW rf, Acc(mb, rf), NEW head \in Mbufs, rf[head] > 0,
         NEW avail \in Nat, avail <= NbFree(mb), NEW k \in Nat \ {0}
  PROVE  LET p == pkt_burst_prepare(mb, avail, head, k)
         IN  /\ p.ok \in BOOLEAN /\ p.avail \in Nat
             /\ Acc(p.mb, rf) /\ p.avail <= NbFree(p.mb)
<1> DEFINE p    == pkt_burst_prepare(mb, avail, head, k)
           segs == FirstFree(mb, k - 1)
<1>1. CASE k - 1 > avail
  BY <1>1 DEF pkt_burst_prepare
<1>2. CASE ~(k - 1 > avail)
  <2>1. p = [ok |-> TRUE, avail |-> avail - (k - 1),
             mb |-> Chain(Alloc(mb, segs), head, Range(segs))]
    BY <1>2 DEF pkt_burst_prepare
  <2>2. NbFree(mb) \in Nat
    BY FreeList
  <2>3. k - 1 \in 0 .. NbFree(mb)
    BY <1>2, <2>2
  <2>4. /\ segs \in Seq(Mbufs) /\ Len(segs) = k - 1 /\ IsInjective(segs)
        /\ Range(segs) \subseteq FreeMbufs(mb)
    BY <2>3, FirstFreeGives
  <2> HIDE DEF segs, p
  <2> DEFINE mid == Alloc(mb, segs)
             rf1 == Plus(rf, segs)
  <2>5. /\ Acc(mid, rf1) /\ NbFree(mid) = NbFree(mb) - Len(segs)
        /\ \A m \in Range(segs) : m \in Mbufs /\ rf[m] = 0 /\ rf1[m] = 1
                                  /\ mid[m].segs = {}
    <3>1. /\ Acc(Alloc(mb, segs), Plus(rf, segs))
          /\ NbFree(Alloc(mb, segs)) = NbFree(mb) - Len(segs)
          /\ \A m \in Range(segs) :
               /\ m \in Mbufs /\ rf[m] = 0 /\ Plus(rf, segs)[m] = 1
               /\ Alloc(mb, segs)[m].segs = {} /\ Alloc(mb, segs)[m].refcnt = 1
      BY <2>4, AllocPlus
    <3> QED
      BY <3>1
  <2>6. rf \in [Mbufs -> Nat]
    BY DEF Acc
  <2>7. \A m \in Mbufs : m \notin Range(segs) => rf1[m] = rf[m]
    <3> SUFFICES ASSUME NEW m \in Mbufs, m \notin Range(segs) PROVE rf1[m] = rf[m]
      OBVIOUS
    <3>1. Times(segs)[m] = 0
      BY <2>4, TimesOne
    <3>2. rf1[m] = rf[m] + Times(segs)[m] /\ rf[m] \in Nat
      BY <2>4, <2>6, PlusType
    <3> QED
      BY <3>1, <3>2
  <2>8. head \notin Range(segs)
    BY <2>5
  <2>9. rf1[head] > 0
    BY <2>7, <2>8
  <2>10. Range(segs) \in SUBSET Mbufs
    BY <2>5
  <2>11. \A m \in Mbufs : rf[m] = IF m \in Range(segs) THEN 0 ELSE rf1[m]
    BY <2>5, <2>7
  <2> HIDE DEF mid, rf1
  <2>12. /\ Acc(Chain(mid, head, Range(segs)), rf)
         /\ NbFree(Chain(mid, head, Range(segs))) = NbFree(mid)
    BY <2>5, <2>6, <2>8, <2>9, <2>10, <2>11, ChainAcc
  <2>13. p.ok = TRUE /\ p.avail = avail - (k - 1)
         /\ p.mb = Chain(mid, head, Range(segs))
    BY <2>1 DEF mid
  <2>14. p.avail \in Nat
    BY <1>2, <2>13
  <2>15. p.avail <= NbFree(p.mb)
    BY <2>2, <2>4, <2>5, <2>12, <2>13
  <2> QED
    BY <2>12, <2>13, <2>14, <2>15 DEF p
<1> QED
  BY <1>1, <1>2

BulkTurns(g, avail, nb_segs) ==
  g = [i \in 0 .. NbPktPerBurst |->
         IF i = 0 THEN [mb |-> Alloc(mbuf, FirstFree(mbuf, NbPktPerBurst)),
                        nb |-> 0, more |-> TRUE,
                        avail |-> avail - NbPktPerBurst]
         ELSE MakeOfHead(g[i - 1], i, FirstFree(mbuf, NbPktPerBurst), nb_segs)]

\* With the heads taken in bulk, a burst of new packets is made, and what is
\* not used is back in the pool.
LEMMA BulkAcc ==
  ASSUME NEW B, Acc(mbuf, B), NEW avail \in NbPktPerBurst .. NbFree(mbuf),
         NEW nb_segs \in [1 .. NbPktPerBurst -> 1 .. TxPktNbSegs]
  PROVE  LET made == PreparedInBulk(avail, nb_segs)
         IN  /\ made.pkts \in Seq(Mbufs) /\ Len(made.pkts) <= NbPktPerBurst
             /\ Acc(made.mb, Plus(B, made.pkts))
<1> DEFINE n     == NbPktPerBurst
           heads == FirstFree(mbuf, n)
           a     == [mb |-> Alloc(mbuf, heads), nb |-> 0, more |-> TRUE,
                     avail |-> avail - n]
           rf    == Plus(B, heads)
           X     == [mb : MB, nb : Nat, more : BOOLEAN, avail : Nat]
           J(i)  == {x \in X : /\ Acc(x.mb, rf) /\ x.avail <= NbFree(x.mb)
                               /\ x.nb <= i}
           I     == [i \in 0 .. n |-> J(i)]
           F     == [x \in X \X (1 .. n) |-> MakeOfHead(x[1], x[2], heads, nb_segs)]
<1>1. /\ n \in Nat \ {0} /\ TxPktNbSegs \in Nat \ {0} /\ avail \in Nat
      /\ n <= NbFree(mbuf) /\ NbFree(mbuf) \in Nat /\ avail - n \in Nat
  <2>1. NbFree(mbuf) \in Nat
    BY FreeList
  <2>2. n \in Nat \ {0} /\ TxPktNbSegs \in Nat \ {0}
    BY EnginesAssumption
  <2> QED
    BY <2>1, <2>2
<1>2. /\ heads \in Seq(Mbufs) /\ Len(heads) = n /\ IsInjective(heads)
      /\ Range(heads) \subseteq FreeMbufs(mbuf)
  BY <1>1, FirstFreeGives
<1>3. B \in [Mbufs -> Nat]
  BY DEF Acc
<1> HIDE DEF n, heads
<1>4. /\ Acc(a.mb, rf) /\ NbFree(a.mb) = NbFree(mbuf) - n
      /\ \A m \in Range(heads) : m \in Mbufs /\ rf[m] > 0
  <2>1. /\ Acc(Alloc(mbuf, heads), Plus(B, heads))
        /\ NbFree(Alloc(mbuf, heads)) = NbFree(mbuf) - Len(heads)
        /\ \A m \in Range(heads) :
             /\ m \in Mbufs /\ B[m] = 0 /\ Plus(B, heads)[m] = 1
             /\ Alloc(mbuf, heads)[m].segs = {}
             /\ Alloc(mbuf, heads)[m].refcnt = 1
    BY <1>2, AllocPlus
  <2> QED
    BY <1>2, <2>1
<1>5. a \in I[0]
  <2>1. a.mb \in MB
    BY <1>4 DEF Acc
  <2>2. a \in X
    BY <1>1, <2>1
  <2>3. a.avail <= NbFree(a.mb) /\ a.nb <= 0
    BY <1>1, <1>4
  <2>4. a \in J(0)
    BY <1>4, <2>2, <2>3
  <2> QED
    BY <1>1, <2>4
<1> HIDE DEF rf, a
<1>6. ASSUME NEW i \in 1 .. n, NEW x \in I[i - 1]
      PROVE  MakeOfHead(x, i, heads, nb_segs) \in I[i]
  <2>1. i - 1 \in 0 .. n /\ i \in 0 .. n
    BY <1>1
  <2>2. x \in X /\ Acc(x.mb, rf) /\ x.avail <= NbFree(x.mb) /\ x.nb <= i - 1
    BY <2>1
  <2> DEFINE p == pkt_burst_prepare(x.mb, x.avail, heads[i], nb_segs[i])
             y == MakeOfHead(x, i, heads, nb_segs)
  <2>3. heads[i] \in Mbufs /\ rf[heads[i]] > 0
    <3>1. DOMAIN heads = 1 .. n
      BY <1>2, LenProperties
    <3>2. heads[i] \in Range(heads)
      BY <3>1 DEF Range
    <3> QED
      BY <1>4, <3>2
  <2>4. nb_segs[i] \in Nat \ {0}
    BY <1>1 DEF n
  <2>5. /\ p.ok \in BOOLEAN /\ p.avail \in Nat
        /\ Acc(p.mb, rf) /\ p.avail <= NbFree(p.mb)
    BY <2>2, <2>3, <2>4, PrepareAcc, Zenon
  <2>6. y = IF x.more /\ p.ok
            THEN [mb |-> p.mb, avail |-> p.avail, nb |-> i, more |-> TRUE]
            ELSE [x EXCEPT !.more = FALSE]
    BY DEF MakeOfHead
  <2> HIDE DEF y, p
  <2>7. y \in J(i)
    <3>1. CASE x.more /\ p.ok
      <4>1. p.mb \in MB
        BY <2>5 DEF Acc
      <4>2. y = [mb |-> p.mb, avail |-> p.avail, nb |-> i, more |-> TRUE]
        BY <2>6, <3>1
      <4> QED
        BY <2>5, <4>1, <4>2
    <3>2. CASE ~(x.more /\ p.ok)
      <4>1. y = [x EXCEPT !.more = FALSE]
        BY <2>6, <3>2
      <4>2. y.mb = x.mb /\ y.avail = x.avail /\ y.nb = x.nb /\ y \in X
        BY <2>2, <4>1
      <4>3. y.nb <= i
        BY <2>2, <4>2
      <4> QED
        BY <2>2, <4>2, <4>3
    <3> QED
      BY <3>1, <3>2
  <2> QED
    BY <2>1, <2>7 DEF y
<1>7. \A i \in 0 .. n : I[i] \subseteq X
  OBVIOUS
<1> HIDE DEF X, I
<1>8. \E g : BulkTurns(g, avail, nb_segs)
  <2>1. \A i \in 1 .. n : \A x \in I[i - 1] :
          /\ x \in X /\ F[<<x, i>>] = MakeOfHead(x, i, heads, nb_segs)
    <3> SUFFICES ASSUME NEW i \in 1 .. n, NEW x \in I[i - 1]
                 PROVE  /\ x \in X
                        /\ F[<<x, i>>] = MakeOfHead(x, i, heads, nb_segs)
      OBVIOUS
    <3>1. i - 1 \in 0 .. n
      BY <1>1
    <3>2. x \in X
      BY <1>7, <3>1
    <3> QED
      BY <3>2
  <2> HIDE DEF F
  <2>2. \A i \in 1 .. n : \A x \in I[i - 1] : F[<<x, i>>] \in I[i]
    BY <1>6, <2>1
  <2>3. PICK g : Turns(n, a, F, g) /\ \A i \in 0 .. n : g[i] \in I[i]
    BY <1>1, <1>5, <2>2, LoopReaches
  <2>4. \A i \in 0 .. n : i # 0 =>
          F[<<g[i - 1], i>>] = MakeOfHead(g[i - 1], i, heads, nb_segs)
    <3> SUFFICES ASSUME NEW i \in 0 .. n, i # 0
                 PROVE  F[<<g[i - 1], i>>]
                          = MakeOfHead(g[i - 1], i, heads, nb_segs)
      OBVIOUS
    <3>1. i \in 1 .. n /\ i - 1 \in 0 .. n
      BY <1>1
    <3>2. g[i - 1] \in I[i - 1]
      BY <2>3, <3>1
    <3> QED
      BY <2>1, <3>1, <3>2
  <2>5. g = [i \in 0 .. n |-> IF i = 0 THEN a
                              ELSE MakeOfHead(g[i - 1], i, heads, nb_segs)]
    BY <2>3, <2>4 DEF Turns
  <2>6. BulkTurns(g, avail, nb_segs)
    BY <2>5 DEF BulkTurns, n, heads, a
  <2> QED
    BY <2>6
<1>9. \A g : BulkTurns(g, avail, nb_segs) => g[n] \in I[n]
  <2> SUFFICES ASSUME NEW g, BulkTurns(g, avail, nb_segs) PROVE g[n] \in I[n]
    OBVIOUS
  <2>1. g = [i \in 0 .. n |-> IF i = 0 THEN a
                              ELSE MakeOfHead(g[i - 1], i, heads, nb_segs)]
    BY DEF BulkTurns, n, heads, a
  <2>2. g[0] \in I[0]
    BY <1>1, <1>5, <2>1
  <2>3. \A i \in 1 .. n : g[i - 1] \in I[i - 1] => g[i] \in I[i]
    <3> SUFFICES ASSUME NEW i \in 1 .. n, g[i - 1] \in I[i - 1]
                 PROVE  g[i] \in I[i]
      OBVIOUS
    <3>0. i \in 0 .. n /\ i # 0
      BY <1>1
    <3>1. g[i] = MakeOfHead(g[i - 1], i, heads, nb_segs)
      BY <2>1, <3>0
    <3> QED
      BY <1>6, <3>1
  <2>4. \A i \in 0 .. n : g[i] \in I[i]
    BY <1>1, <2>2, <2>3, LoopKeeps, Zenon
  <2> QED
    BY <1>1, <2>4
<1> DEFINE made[i \in 0 .. NbPktPerBurst] ==
             IF i = 0 THEN [mb |-> Alloc(mbuf, FirstFree(mbuf, NbPktPerBurst)),
                            nb |-> 0, more |-> TRUE,
                            avail |-> avail - NbPktPerBurst]
             ELSE MakeOfHead(made[i - 1], i, FirstFree(mbuf, NbPktPerBurst),
                             nb_segs)
           end  == made[NbPktPerBurst]
           rest == SubSeq(heads, end.nb + 1, n)
           pkts == SubSeq(heads, 1, end.nb)
<1>10. made = CHOOSE g : BulkTurns(g, avail, nb_segs)
  BY DEF BulkTurns
<1>11. PreparedInBulk(avail, nb_segs)
         = [pkts |-> pkts, mb |-> rte_pktmbuf_free(end.mb, rest)]
  BY DEF PreparedInBulk, heads, n
<1> HIDE DEF made
<1>12. BulkTurns(made, avail, nb_segs)
  BY <1>8, <1>10
<1>13. end \in I[n]
  BY <1>9, <1>12 DEF n
<1> HIDE DEF end
<1>14. end.nb \in 0 .. n /\ Acc(end.mb, rf)
  BY <1>1, <1>13 DEF I, X
<1>15. /\ pkts \in Seq(Mbufs) /\ Len(pkts) = end.nb
       /\ rest \in Seq(Mbufs) /\ heads = pkts \o rest
  BY <1>2, <1>14, PartsOf, ZenonT(60)
<1> HIDE DEF pkts, rest
<1>16. rf = Plus(Plus(B, pkts), rest)
  BY <1>3, <1>15, PlusConcat DEF rf
<1>17. Plus(B, pkts) \in [Mbufs -> Nat]
  BY <1>3, <1>15, PlusType
<1>18. Acc(rte_pktmbuf_free(end.mb, rest), Plus(B, pkts))
  BY <1>14, <1>15, <1>16, <1>17, FreePlus
<1> QED
  BY <1>11, <1>14, <1>15, <1>18 DEF n

OneTurns(g, avail, nb_segs) ==
  g = [i \in 0 .. NbPktPerBurst |->
         IF i = 0 THEN [mb |-> mbuf, avail |-> avail, more |-> TRUE, pkts |-> <<>>]
         ELSE MakeOfFree(g[i - 1], i, nb_segs)]

\* The same with the heads taken one by one.
LEMMA OneByOneAcc ==
  ASSUME NEW B, Acc(mbuf, B), NEW avail \in 0 .. NbFree(mbuf),
         NEW nb_segs \in [1 .. NbPktPerBurst -> 1 .. TxPktNbSegs]
  PROVE  LET made == PreparedOneByOne(avail, nb_segs)
         IN  /\ made.pkts \in Seq(Mbufs) /\ Len(made.pkts) <= NbPktPerBurst
             /\ Acc(made.mb, Plus(B, made.pkts))
<1> DEFINE n     == NbPktPerBurst
           a     == [mb |-> mbuf, avail |-> avail, more |-> TRUE, pkts |-> <<>>]
           X     == [mb : MB, avail : Nat, more : BOOLEAN, pkts : Seq(Mbufs)]
           J(i)  == {x \in X : /\ Acc(x.mb, Plus(B, x.pkts)) /\ Len(x.pkts) <= i
                               /\ x.more => x.avail <= NbFree(x.mb)}
           I     == [i \in 0 .. n |-> J(i)]
           F     == [x \in X \X (1 .. n) |-> MakeOfFree(x[1], x[2], nb_segs)]
<1>1. /\ n \in Nat \ {0} /\ TxPktNbSegs \in Nat \ {0} /\ avail \in Nat
      /\ avail <= NbFree(mbuf) /\ NbFree(mbuf) \in Nat
  <2>1. NbFree(mbuf) \in Nat
    BY FreeList
  <2>2. n \in Nat \ {0} /\ TxPktNbSegs \in Nat \ {0}
    BY EnginesAssumption
  <2> QED
    BY <2>1, <2>2
<1>3. B \in [Mbufs -> Nat] /\ mbuf \in MB
  BY DEF Acc
<1> HIDE DEF n
<1>5. a \in I[0]
  <2>1. <<>> \in Seq(Mbufs) /\ Len(<<>>) = 0
    OBVIOUS
  <2>2. a \in X
    BY <1>1, <1>3, <2>1
  <2>3. Acc(a.mb, Plus(B, a.pkts))
    BY <1>3, PlusEmpty
  <2>4. a \in J(0)
    BY <1>1, <2>1, <2>2, <2>3
  <2> QED
    BY <1>1, <2>4
<1> HIDE DEF a
<1>6. ASSUME NEW i \in 1 .. n, NEW x \in I[i - 1]
      PROVE  MakeOfFree(x, i, nb_segs) \in I[i]
  <2>1. i - 1 \in 0 .. n /\ i \in 0 .. n
    BY <1>1
  <2>2. /\ x \in X /\ Acc(x.mb, Plus(B, x.pkts)) /\ Len(x.pkts) <= i - 1
        /\ x.more => x.avail <= NbFree(x.mb)
    BY <2>1
  <2> DEFINE head == FirstFree(x.mb, 1)
             mb   == Alloc(x.mb, head)
             p    == pkt_burst_prepare(mb, x.avail - 1, head[1], nb_segs[i])
             y    == MakeOfFree(x, i, nb_segs)
             rf   == Plus(B, x.pkts)
  <2>3. y = IF ~x.more \/ x.avail = 0 THEN [x EXCEPT !.more = FALSE]
            ELSE IF p.ok
            THEN [mb |-> p.mb, avail |-> p.avail, more |-> TRUE,
                  pkts |-> x.pkts \o head]
            ELSE [x EXCEPT !.mb = rte_pktmbuf_free(mb, head), !.more = FALSE]
    BY DEF MakeOfFree
  <2>4. /\ x.mb \in MB /\ x.avail \in Nat /\ x.more \in BOOLEAN
        /\ x.pkts \in Seq(Mbufs) /\ Len(x.pkts) \in Nat
        /\ rf \in [Mbufs -> Nat]
    BY <1>3, <2>2, PlusType, LenProperties
  <2>5. CASE ~x.more \/ x.avail = 0
    <3>1. y = [x EXCEPT !.more = FALSE]
      BY <2>3, <2>5
    <3> HIDE DEF y
    <3>2. /\ y.mb = x.mb /\ y.avail = x.avail /\ y.pkts = x.pkts
          /\ y.more = FALSE /\ y \in X
      BY <2>2, <3>1
    <3>3. Len(y.pkts) <= i
      BY <2>2, <2>4, <3>2
    <3>4. y \in J(i)
      BY <2>2, <3>2, <3>3
    <3> QED
      BY <2>1, <3>4 DEF y
  <2>6. CASE x.more /\ x.avail # 0
    <3>1. NbFree(x.mb) \in Nat
      BY FreeList
    <3>2. 1 \in 0 .. NbFree(x.mb) /\ x.avail - 1 \in Nat
      BY <2>2, <2>4, <2>6, <3>1
    <3>3. /\ head \in Seq(Mbufs) /\ Len(head) = 1 /\ IsInjective(head)
          /\ Range(head) \subseteq FreeMbufs(x.mb)
      BY <3>2, FirstFreeGives
    <3> HIDE DEF head, y
    <3>4. /\ Acc(mb, Plus(rf, head))
          /\ NbFree(mb) = NbFree(x.mb) - Len(head)
          /\ \A m \in Range(head) : m \in Mbufs /\ Plus(rf, head)[m] = 1
      <4> DEFINE mb0 == x.mb
      <4>1. Acc(mb0, rf) /\ mb = Alloc(mb0, head)
        BY <2>2
      <4>2. Range(head) \subseteq FreeMbufs(mb0) /\ NbFree(mb0) = NbFree(x.mb)
        BY <3>3
      <4> HIDE DEF mb0, mb, rf
      <4>3. /\ Acc(Alloc(mb0, head), Plus(rf, head))
            /\ NbFree(Alloc(mb0, head)) = NbFree(mb0) - Len(head)
            /\ \A m \in Range(head) :
                 /\ m \in Mbufs /\ rf[m] = 0 /\ Plus(rf, head)[m] = 1
                 /\ Alloc(mb0, head)[m].segs = {}
                 /\ Alloc(mb0, head)[m].refcnt = 1
        <5>1. head \in Seq(Mbufs) /\ IsInjective(head)
          BY <3>3
        <5> QED
          BY <4>1, <4>2, <5>1, AllocPlus
      <4> QED
        BY <4>1, <4>2, <4>3
    <3> HIDE DEF mb
    <3>5. head[1] \in Mbufs /\ Plus(rf, head)[head[1]] > 0
      <4>1. DOMAIN head = 1 .. 1
        BY <3>3, LenProperties
      <4>2. head[1] \in Range(head)
        BY <4>1 DEF Range
      <4> QED
        BY <3>4, <4>2
    <3>6. nb_segs[i] \in Nat \ {0}
      BY <1>1 DEF n
    <3>7. x.avail - 1 <= NbFree(mb)
      BY <2>2, <2>4, <2>6, <3>1, <3>3, <3>4
    <3>8. /\ p.ok \in BOOLEAN /\ p.avail \in Nat
          /\ Acc(p.mb, Plus(rf, head)) /\ p.avail <= NbFree(p.mb)
      BY <3>2, <3>4, <3>5, <3>6, <3>7, PrepareAcc, Zenon
    <3> HIDE DEF p, rf
    <3>9. CASE p.ok
      <4>1. y = [mb |-> p.mb, avail |-> p.avail, more |-> TRUE,
                 pkts |-> x.pkts \o head]
        BY <2>3, <2>6, <3>9
      <4>2. /\ x.pkts \o head \in Seq(Mbufs)
            /\ Len(x.pkts \o head) = Len(x.pkts) + Len(head)
        BY <2>4, <3>3, ConcatProperties
      <4>3. Plus(B, x.pkts \o head) = Plus(rf, head)
        BY <1>3, <2>4, <3>3, PlusConcat DEF rf
      <4>4. p.mb \in MB
        BY <3>8 DEF Acc
      <4>5. y \in X
        BY <3>8, <4>1, <4>2, <4>4
      <4>6. Len(y.pkts) <= i
        BY <2>2, <2>4, <3>3, <4>1, <4>2
      <4>7. y \in J(i)
        BY <3>8, <4>1, <4>3, <4>5, <4>6
      <4> QED
        BY <2>1, <4>7 DEF y
    <3>10. CASE ~p.ok
      <4>1. y = [x EXCEPT !.mb = rte_pktmbuf_free(mb, head), !.more = FALSE]
        BY <2>3, <2>6, <3>10
      <4>2. Acc(rte_pktmbuf_free(mb, head), rf)
        BY <2>4, <3>3, <3>4, FreePlus
      <4>3. rte_pktmbuf_free(mb, head) \in MB
        BY <4>2 DEF Acc
      <4>4. /\ y.mb = rte_pktmbuf_free(mb, head) /\ y.pkts = x.pkts
            /\ y.more = FALSE /\ y \in X
        BY <2>2, <4>1, <4>3
      <4>5. Len(y.pkts) <= i
        BY <2>2, <2>4, <4>4
      <4>6. y \in J(i)
        BY <4>2, <4>4, <4>5 DEF rf
      <4> QED
        BY <2>1, <4>6 DEF y
    <3> QED
      BY <3>8, <3>9, <3>10
  <2> QED
    BY <2>4, <2>5, <2>6
<1>7. \A i \in 0 .. n : I[i] \subseteq X
  OBVIOUS
<1> HIDE DEF X, I
<1>8. \E g : OneTurns(g, avail, nb_segs)
  <2>1. \A i \in 1 .. n : \A x \in I[i - 1] :
          /\ x \in X /\ F[<<x, i>>] = MakeOfFree(x, i, nb_segs)
    <3> SUFFICES ASSUME NEW i \in 1 .. n, NEW x \in I[i - 1]
                 PROVE  /\ x \in X
                        /\ F[<<x, i>>] = MakeOfFree(x, i, nb_segs)
      OBVIOUS
    <3>1. i - 1 \in 0 .. n
      BY <1>1
    <3>2. x \in X
      BY <1>7, <3>1
    <3> QED
      BY <3>2
  <2> HIDE DEF F
  <2>2. \A i \in 1 .. n : \A x \in I[i - 1] : F[<<x, i>>] \in I[i]
    BY <1>6, <2>1
  <2>3. PICK g : Turns(n, a, F, g) /\ \A i \in 0 .. n : g[i] \in I[i]
    BY <1>1, <1>5, <2>2, LoopReaches
  <2>4. \A i \in 0 .. n : i # 0 =>
          F[<<g[i - 1], i>>] = MakeOfFree(g[i - 1], i, nb_segs)
    <3> SUFFICES ASSUME NEW i \in 0 .. n, i # 0
                 PROVE  F[<<g[i - 1], i>>] = MakeOfFree(g[i - 1], i, nb_segs)
      OBVIOUS
    <3>1. i \in 1 .. n /\ i - 1 \in 0 .. n
      BY <1>1
    <3>2. g[i - 1] \in I[i - 1]
      BY <2>3, <3>1
    <3> QED
      BY <2>1, <3>1, <3>2
  <2>5. g = [i \in 0 .. n |-> IF i = 0 THEN a
                              ELSE MakeOfFree(g[i - 1], i, nb_segs)]
    BY <2>3, <2>4 DEF Turns
  <2>6. OneTurns(g, avail, nb_segs)
    BY <2>5 DEF OneTurns, n, a
  <2> QED
    BY <2>6
<1>9. \A g : OneTurns(g, avail, nb_segs) => g[n] \in I[n]
  <2> SUFFICES ASSUME NEW g, OneTurns(g, avail, nb_segs) PROVE g[n] \in I[n]
    OBVIOUS
  <2>1. g = [i \in 0 .. n |-> IF i = 0 THEN a
                              ELSE MakeOfFree(g[i - 1], i, nb_segs)]
    BY DEF OneTurns, n, a
  <2>2. g[0] \in I[0]
    BY <1>1, <1>5, <2>1
  <2>3. \A i \in 1 .. n : g[i - 1] \in I[i - 1] => g[i] \in I[i]
    <3> SUFFICES ASSUME NEW i \in 1 .. n, g[i - 1] \in I[i - 1]
                 PROVE  g[i] \in I[i]
      OBVIOUS
    <3>1. i \in 0 .. n /\ i # 0
      BY <1>1
    <3>2. g[i] = MakeOfFree(g[i - 1], i, nb_segs)
      BY <2>1, <3>1
    <3> QED
      BY <1>6, <3>2
  <2>4. \A i \in 0 .. n : g[i] \in I[i]
    BY <1>1, <2>2, <2>3, LoopKeeps, Zenon
  <2> QED
    BY <1>1, <2>4
<1> DEFINE made[i \in 0 .. NbPktPerBurst] ==
             IF i = 0 THEN [mb |-> mbuf, avail |-> avail, more |-> TRUE,
                            pkts |-> <<>>]
             ELSE MakeOfFree(made[i - 1], i, nb_segs)
<1>10. made = CHOOSE g : OneTurns(g, avail, nb_segs)
  BY DEF OneTurns
<1>11. PreparedOneByOne(avail, nb_segs) = made[n]
  BY DEF PreparedOneByOne, n
<1> HIDE DEF made
<1>12. OneTurns(made, avail, nb_segs)
  BY <1>8, <1>10
<1>13. made[n] \in I[n]
  BY <1>9, <1>12
<1>14. /\ made[n].pkts \in Seq(Mbufs) /\ Len(made[n].pkts) <= n
       /\ Acc(made[n].mb, Plus(B, made[n].pkts))
  BY <1>1, <1>13 DEF I, X
<1> QED
  BY <1>11, <1>14 DEF n

-----------------------------------------------------------------------------
(* The loop of flowgen.                                                    *)

\* The smaller of two numbers.
LEMMA MinOf ==
  ASSUME NEW a \in Int, NEW b \in Int
  PROVE  Min({a, b}) = IF a <= b THEN a ELSE b
<1> DEFINE m == IF a <= b THEN a ELSE b
           P(x) == x \in {a, b} /\ \A y \in {a, b} : x =< y
<1>1. P(m)
  OBVIOUS
<1>2. \A x : P(x) => x = m
  OBVIOUS
<1>3. Min({a, b}) = CHOOSE x : P(x)
  BY DEF Min
<1> HIDE DEF P, m
<1>4. Min({a, b}) = m
  BY <1>1, <1>2, <1>3
<1> QED
  BY <1>4 DEF m

FlowTurns(g, mb0, avail) ==
  g = [i \in 0 .. NbPktPerBurst |->
         IF i = 0 THEN [mb |-> mb0, avail |-> avail, more |-> TRUE,
                        pkts |-> <<>>, clones |-> NbClones]
         ELSE Generate(g[i - 1], i)]

\* A burst of new packets and of clones of them: each clone has a reference.
LEMMA GeneratedAcc ==
  ASSUME NEW mb0, NEW B, Acc(mb0, B), NEW avail \in 0 .. NbFree(mb0)
  PROVE  LET made == Generated(mb0, avail)
         IN  /\ made.pkts \in Seq(Mbufs) /\ Len(made.pkts) <= NbPktPerBurst
             /\ Acc(made.mb, Plus(B, made.pkts))
<1> DEFINE n     == NbPktPerBurst
           a     == [mb |-> mb0, avail |-> avail, more |-> TRUE, pkts |-> <<>>,
                     clones |-> NbClones]
           X     == [mb : MB, avail : Nat, more : BOOLEAN, pkts : Seq(Mbufs),
                     clones : Nat]
           J(i)  == {x \in X : /\ Acc(x.mb, Plus(B, x.pkts)) /\ Len(x.pkts) <= i
                               /\ x.more => /\ x.avail <= NbFree(x.mb)
                                            /\ i > 0 => Len(x.pkts) > 0}
           I     == [i \in 0 .. n |-> J(i)]
           F     == [x \in X \X (1 .. n) |-> Generate(x[1], x[2])]
<1>1. /\ n \in Nat \ {0} /\ NbClones \in Nat /\ avail \in Nat
      /\ avail <= NbFree(mb0) /\ NbFree(mb0) \in Nat
      /\ Min({NbClones, n}) \in Nat
  <2>1. NbFree(mb0) \in Nat
    BY FreeList
  <2>2. n \in Nat \ {0} /\ NbClones \in Nat
    BY EnginesAssumption
  <2>3. Min({NbClones, n}) \in Nat
    BY <2>2, MinOf
  <2> QED
    BY <2>1, <2>2, <2>3
<1>3. B \in [Mbufs -> Nat] /\ mb0 \in MB
  BY DEF Acc
<1> HIDE DEF n
<1>5. a \in I[0]
  <2>1. <<>> \in Seq(Mbufs) /\ Len(<<>>) = 0
    OBVIOUS
  <2>2. a \in X
    BY <1>1, <1>3, <2>1
  <2>3. Acc(a.mb, Plus(B, a.pkts))
    BY <1>3, PlusEmpty
  <2>4. a \in J(0)
    BY <1>1, <2>1, <2>2, <2>3
  <2> QED
    BY <1>1, <2>4
<1> HIDE DEF a
<1>6. ASSUME NEW i \in 1 .. n, NEW x \in I[i - 1]
      PROVE  Generate(x, i) \in I[i]
  <2>1. i - 1 \in 0 .. n /\ i \in 0 .. n
    BY <1>1
  <2>2. /\ x \in X /\ Acc(x.mb, Plus(B, x.pkts)) /\ Len(x.pkts) <= i - 1
        /\ x.more => /\ x.avail <= NbFree(x.mb)
                     /\ i - 1 > 0 => Len(x.pkts) > 0
    BY <2>1
  <2> DEFINE pkt  == FirstFree(x.mb, 1)
             y    == Generate(x, i)
             ps   == x.pkts
             rf   == Plus(B, ps)
             mb   == x.mb
             l    == Last(ps)
  <2>3. y = IF ~x.more THEN x
            ELSE IF i > 1 /\ x.clones > 0
            THEN [x EXCEPT !.clones = x.clones - 1, !.pkts = Append(ps, l),
                           !.mb = [mb EXCEPT ![l].refcnt = mb[l].refcnt + 1]]
            ELSE IF x.avail = 0 THEN [x EXCEPT !.more = FALSE]
            ELSE [x EXCEPT !.clones = Min({NbClones, n}),
                           !.pkts = ps \o pkt, !.mb = Alloc(mb, pkt),
                           !.avail = x.avail - 1]
    BY DEF Generate, n
  <2>4. /\ mb \in MB /\ x.avail \in Nat /\ x.more \in BOOLEAN
        /\ x.pkts \in Seq(Mbufs) /\ Len(x.pkts) \in Nat /\ x.clones \in Nat
        /\ rf \in [Mbufs -> Nat] /\ Acc(mb, rf)
    BY <1>3, <2>2, PlusType, LenProperties
  <2>9. ps \in Seq(Mbufs) /\ Len(ps) \in Nat
    BY <2>4
  <2>10. rf \in [Mbufs -> Nat]
    BY <2>4
  <2>11. Acc(mb, rf)
    BY <2>4
  <2>12. x.pkts = ps /\ x.mb = mb
    OBVIOUS
  <2>5. CASE ~x.more
    <3>1. y = x
      BY <2>3, <2>5
    <3>2. Len(x.pkts) <= i
      BY <2>2, <2>4
    <3>3. x \in J(i)
      BY <2>2, <2>5, <3>2
    <3> QED
      BY <2>1, <3>1, <3>3
  <2>6. CASE x.more /\ i > 1 /\ x.clones > 0
    <3> DEFINE mb1 == [mb EXCEPT ![l].refcnt = mb[l].refcnt + 1]
               s   == Append(ps, l)
    <3>1. y = [x EXCEPT !.clones = x.clones - 1, !.pkts = s, !.mb = mb1]
      BY <2>3, <2>6
    <3>2. Len(ps) \in 1 .. Len(ps) /\ i - 1 > 0
      BY <2>2, <2>4, <2>6
    <3> HIDE DEF ps, mb, y
    <3>3. l \in Mbufs /\ Times(ps)[l] > 0
      <4>1. l = ps[Len(ps)] /\ DOMAIN ps = 1 .. Len(ps)
        BY <2>9, LenProperties DEF Last
      <4>2. l \in Mbufs
        BY <2>9, <3>2, <4>1, ElementOfSeq
      <4>3. l \in Range(ps)
        BY <3>2, <4>1 DEF Range
      <4> QED
        BY <2>9, <4>2, <4>3, TimesIn
    <3>4. rf[l] > 0
      <4>1. rf[l] = B[l] + Times(ps)[l] /\ B[l] \in Nat
            /\ Times(ps)[l] \in Nat
        BY <1>3, <2>9, <3>3, PlusType
      <4> QED
        BY <3>3, <4>1
    <3> HIDE DEF l, rf
    <3>15. l \in Mbufs
      BY <3>3
    <3> DEFINE u   == <<l>>
               rf1 == Plus(rf, u)
    <3>8. s = ps \o u /\ s \in Seq(Mbufs) /\ Len(s) = Len(ps) + 1
      BY <2>9, <3>15, AppendIsConcat, AppendProperties
    <3>5. u \in Seq(Mbufs)
      BY <3>15, TimesUnit
    <3>16. \A m \in Mbufs : Times(u)[m] = IF m = l THEN 1 ELSE 0
      BY <3>15, TimesUnit
    <3> HIDE DEF u
    <3>9. Plus(B, s) = rf1
      BY <1>3, <2>9, <3>5, <3>8, PlusConcat DEF rf
    <3>6. rf1 \in [Mbufs -> Nat] /\ \A m \in Mbufs : rf1[m] = rf[m] + Times(u)[m]
      BY <2>10, <3>5, PlusType
    <3> HIDE DEF rf1
    <3>17. \A m \in Mbufs : rf1[m] = rf[m] + IF m = l THEN 1 ELSE 0
      BY <3>6, <3>16
    <3>18. rf1 \in [Mbufs -> Nat]
      BY <3>6
    <3>19. mb1 = [mb EXCEPT ![l].refcnt = mb[l].refcnt + 1]
      OBVIOUS
    <3> HIDE DEF mb1
    <3>20. /\ mb1 \in MB /\ mb1[l].refcnt = mb[l].refcnt + 1
           /\ \A m \in Mbufs : mb1[m].segs = mb[m].segs
           /\ \A m \in Mbufs : m # l => mb1[m].refcnt = mb[m].refcnt
      <4> DEFINE r == mb[l].refcnt + 1
      <4>1. /\ mb = [m \in Mbufs |-> mb[m]]
            /\ mb[l] = [refcnt |-> mb[l].refcnt, segs |-> mb[l].segs]
            /\ mb[l].refcnt \in Nat /\ mb[l].segs \in SUBSET Mbufs
            /\ \A m \in Mbufs : mb[m] \in [refcnt : Nat, segs : SUBSET Mbufs]
        BY <2>11, <3>15 DEF Acc, MB
      <4>2. r \in Nat
        BY <4>1
      <4>3. mb1 = [mb EXCEPT ![l].refcnt = r]
        BY <3>19
      <4> HIDE DEF r
      <4>4. mb1 = [m \in Mbufs |-> IF m = l THEN [refcnt |-> r, segs |-> mb[l].segs]
                                   ELSE mb[m]]
        <5>1. mb1 = [m \in Mbufs |-> IF m = l THEN [mb[l] EXCEPT !.refcnt = r]
                                     ELSE mb[m]]
          BY <4>1, <4>3
        <5>2. [mb[l] EXCEPT !.refcnt = r] = [refcnt |-> r, segs |-> mb[l].segs]
          <6>1. mb[l] \in [refcnt : Nat, segs : SUBSET Mbufs]
            BY <3>15, <4>1
          <6> QED
            BY <6>1
        <5> QED
          BY <5>1, <5>2
      <4>5. mb1 \in MB
        BY <4>1, <4>2, <4>4 DEF MB
      <4>6. /\ mb1[l] = [refcnt |-> r, segs |-> mb[l].segs]
            /\ \A m \in Mbufs : m # l => mb1[m] = mb[m]
        BY <3>15, <4>4
      <4>7. \A m \in Mbufs : mb1[m].segs = mb[m].segs
        BY <4>6
      <4> QED
        BY <4>5, <4>6, <4>7 DEF r
    <3>21. rf1[l] = rf[l] + 1 /\ \A m \in Mbufs : m # l => rf1[m] = rf[m]
      BY <2>10, <3>15, <3>17
    <3>7. Acc(mb1, rf1) /\ FreeMbufs(mb1) = FreeMbufs(mb)
      BY <2>11, <3>4, <3>15, <3>18, <3>20, <3>21, CloneAcc
    <3>10. mb1 \in MB /\ NbFree(mb1) = NbFree(mb)
      BY <3>7 DEF Acc, NbFree
    <3> HIDE DEF s
    <3>11. /\ y.mb = mb1 /\ y.pkts = s /\ y.avail = x.avail /\ y.more = x.more
           /\ y \in X
      <4>1. x.clones - 1 \in Nat
        BY <2>4, <2>6
      <4>2. x \in X /\ s \in Seq(Mbufs) /\ mb1 \in MB
        BY <2>2, <3>8, <3>10
      <4> QED
        BY <3>1, <4>1, <4>2
    <3>12. Len(y.pkts) <= i /\ Len(y.pkts) > 0
      BY <2>2, <2>4, <2>12, <3>8, <3>11
    <3>13. x.avail <= NbFree(mb1)
      BY <2>2, <2>6, <3>10 DEF mb
    <3>14. y \in J(i)
      BY <3>7, <3>9, <3>11, <3>12, <3>13
    <3> QED
      BY <2>1, <3>14 DEF y
  <2>7. CASE x.more /\ ~(i > 1 /\ x.clones > 0) /\ x.avail = 0
    <3>1. y = [x EXCEPT !.more = FALSE]
      BY <2>3, <2>7
    <3> HIDE DEF y
    <3>2. y.mb = x.mb /\ y.pkts = x.pkts /\ y.more = FALSE /\ y \in X
      BY <2>2, <3>1
    <3>3. Len(y.pkts) <= i
      BY <2>2, <2>4, <3>2
    <3>4. y \in J(i)
      BY <2>2, <3>2, <3>3
    <3> QED
      BY <2>1, <3>4 DEF y
  <2>8. CASE x.more /\ ~(i > 1 /\ x.clones > 0) /\ x.avail # 0
    <3> DEFINE s   == ps \o pkt
               mb1 == Alloc(mb, pkt)
    <3>1. y = [x EXCEPT !.clones = Min({NbClones, n}), !.pkts = s, !.mb = mb1,
                        !.avail = x.avail - 1]
      BY <2>3, <2>8
    <3>2. NbFree(mb) \in Nat
      BY FreeList
    <3>3. 1 \in 0 .. NbFree(mb) /\ x.avail - 1 \in Nat
      BY <2>2, <2>4, <2>8, <3>2
    <3>4. /\ pkt \in Seq(Mbufs) /\ Len(pkt) = 1 /\ IsInjective(pkt)
          /\ Range(pkt) \subseteq FreeMbufs(mb)
      BY <3>3, FirstFreeGives
    <3> HIDE DEF pkt, y, mb, rf, ps
    <3>5. Acc(mb1, Plus(rf, pkt)) /\ NbFree(mb1) = NbFree(mb) - Len(pkt)
      <4>1. /\ pkt \in Seq(Mbufs) /\ IsInjective(pkt)
            /\ Range(pkt) \subseteq FreeMbufs(mb) /\ Acc(mb, rf)
        BY <2>4, <3>4
      <4> QED
        BY <4>1, AllocPlus
    <3> HIDE DEF mb1
    <3>6. s \in Seq(Mbufs) /\ Len(s) = Len(ps) + 1
      <4>1. pkt \in Seq(Mbufs)
        BY <3>4
      <4>2. s \in Seq(Mbufs) /\ Len(s) = Len(ps) + Len(pkt)
        BY <2>9, <4>1, ConcatProperties
      <4> QED
        BY <3>4, <4>2
    <3>7. Plus(B, s) = Plus(rf, pkt)
      BY <1>3, <2>9, <3>4, PlusConcat DEF rf
    <3>8. mb1 \in MB
      BY <3>5 DEF Acc
    <3> HIDE DEF s
    <3>9. /\ y.mb = mb1 /\ y.pkts = s /\ y.avail = x.avail - 1
          /\ y.more = x.more /\ y \in X
      BY <1>1, <2>2, <2>4, <3>1, <3>3, <3>6, <3>8
    <3>10. Len(y.pkts) <= i /\ Len(y.pkts) > 0
      BY <2>2, <2>4, <2>12, <3>6, <3>9
    <3>11. x.avail - 1 <= NbFree(mb1)
      <4>1. x.avail <= NbFree(mb)
        BY <2>2, <2>8 DEF mb
      <4> QED
        BY <2>4, <3>2, <3>4, <3>5, <4>1
    <3>12. y \in J(i)
      BY <3>5, <3>7, <3>9, <3>10, <3>11
    <3> QED
      BY <2>1, <3>12 DEF y
  <2> QED
    BY <2>4, <2>5, <2>6, <2>7, <2>8
<1>7. \A i \in 0 .. n : I[i] \subseteq X
  OBVIOUS
<1> HIDE DEF X, I
<1>8. \E g : FlowTurns(g, mb0, avail)
  <2>1. \A i \in 1 .. n : \A x \in I[i - 1] :
          /\ x \in X /\ F[<<x, i>>] = Generate(x, i)
    <3> SUFFICES ASSUME NEW i \in 1 .. n, NEW x \in I[i - 1]
                 PROVE  /\ x \in X
                        /\ F[<<x, i>>] = Generate(x, i)
      OBVIOUS
    <3>1. i - 1 \in 0 .. n
      BY <1>1
    <3>2. x \in X
      BY <1>7, <3>1
    <3> QED
      BY <3>2
  <2> HIDE DEF F
  <2>2. \A i \in 1 .. n : \A x \in I[i - 1] : F[<<x, i>>] \in I[i]
    BY <1>6, <2>1
  <2>3. PICK g : Turns(n, a, F, g) /\ \A i \in 0 .. n : g[i] \in I[i]
    BY <1>1, <1>5, <2>2, LoopReaches
  <2>4. \A i \in 0 .. n : i # 0 =>
          F[<<g[i - 1], i>>] = Generate(g[i - 1], i)
    <3> SUFFICES ASSUME NEW i \in 0 .. n, i # 0
                 PROVE  F[<<g[i - 1], i>>] = Generate(g[i - 1], i)
      OBVIOUS
    <3>1. i \in 1 .. n /\ i - 1 \in 0 .. n
      BY <1>1
    <3>2. g[i - 1] \in I[i - 1]
      BY <2>3, <3>1
    <3> QED
      BY <2>1, <3>1, <3>2
  <2>5. g = [i \in 0 .. n |-> IF i = 0 THEN a
                              ELSE Generate(g[i - 1], i)]
    BY <2>3, <2>4 DEF Turns
  <2>6. FlowTurns(g, mb0, avail)
    BY <2>5 DEF FlowTurns, n, a
  <2> QED
    BY <2>6
<1>9. \A g : FlowTurns(g, mb0, avail) => g[n] \in I[n]
  <2> SUFFICES ASSUME NEW g, FlowTurns(g, mb0, avail) PROVE g[n] \in I[n]
    OBVIOUS
  <2>1. g = [i \in 0 .. n |-> IF i = 0 THEN a
                              ELSE Generate(g[i - 1], i)]
    BY DEF FlowTurns, n, a
  <2>2. g[0] \in I[0]
    BY <1>1, <1>5, <2>1
  <2>3. \A i \in 1 .. n : g[i - 1] \in I[i - 1] => g[i] \in I[i]
    <3> SUFFICES ASSUME NEW i \in 1 .. n, g[i - 1] \in I[i - 1]
                 PROVE  g[i] \in I[i]
      OBVIOUS
    <3>1. i \in 0 .. n /\ i # 0
      BY <1>1
    <3>2. g[i] = Generate(g[i - 1], i)
      BY <2>1, <3>1
    <3> QED
      BY <1>6, <3>2
  <2>4. \A i \in 0 .. n : g[i] \in I[i]
    BY <1>1, <2>2, <2>3, LoopKeeps, Zenon
  <2> QED
    BY <1>1, <2>4
<1> DEFINE made[i \in 0 .. NbPktPerBurst] ==
             IF i = 0 THEN [mb |-> mb0, avail |-> avail, more |-> TRUE,
                            pkts |-> <<>>, clones |-> NbClones]
             ELSE Generate(made[i - 1], i)
<1>10. made = CHOOSE g : FlowTurns(g, mb0, avail)
  BY DEF FlowTurns
<1>11. Generated(mb0, avail) = made[n]
  BY DEF Generated, n
<1> HIDE DEF made
<1>12. FlowTurns(made, mb0, avail)
  BY <1>8, <1>10
<1>13. made[n] \in I[n]
  BY <1>9, <1>12
<1>14. /\ made[n].pkts \in Seq(Mbufs) /\ Len(made[n].pkts) <= n
       /\ Acc(made[n].mb, Plus(B, made[n].pkts))
  BY <1>1, <1>13 DEF I, X
<1> QED
  BY <1>11, <1>14 DEF n

-----------------------------------------------------------------------------
(* The loops of csum: packets of ms that were treated are in pkts, those   *)
(* from number i on are still to be treated.                               *)

\* Sums agree when parts of them do.
LEMMA SumsAgree ==
  ASSUME NEW b \in Nat, NEW g \in Nat, NEW r \in Nat, NEW o \in Nat, NEW u \in Nat,
         NEW l \in Nat, g + o = u + l
  PROVE  (b + g) + (r + o) = (b + l) + (r + u)
OBVIOUS

\* What accounts for all references is itself a count of references.
LEMMA AccType ==
  ASSUME NEW mb, NEW rf, Acc(mb, rf)
  PROVE  mb \in MB /\ rf \in [Mbufs -> Nat]
BY DEF Acc

Carried(B, pkts, rest) == Plus(Plus(B, pkts), rest)

\* What a loop has treated, and has still to treat, are numbers of references.
LEMMA CarriedType ==
  ASSUME NEW B \in [Mbufs -> Nat], NEW pkts \in Seq(Mbufs), NEW rest \in Seq(Mbufs)
  PROVE  /\ Carried(B, pkts, rest) \in [Mbufs -> Nat]
         /\ \A m \in Mbufs :
              /\ Carried(B, pkts, rest)[m] = B[m] + Times(pkts)[m] + Times(rest)[m]
              /\ B[m] \in Nat /\ Times(pkts)[m] \in Nat /\ Times(rest)[m] \in Nat
<1>1. /\ Plus(B, pkts) \in [Mbufs -> Nat]
      /\ \A m \in Mbufs : /\ Plus(B, pkts)[m] = B[m] + Times(pkts)[m]
                          /\ B[m] \in Nat /\ Times(pkts)[m] \in Nat
  BY PlusType
<1>2. /\ Plus(Plus(B, pkts), rest) \in [Mbufs -> Nat]
      /\ \A m \in Mbufs :
           /\ Plus(Plus(B, pkts), rest)[m] = Plus(B, pkts)[m] + Times(rest)[m]
           /\ Times(rest)[m] \in Nat
  BY <1>1, PlusType
<1> QED
  BY <1>1, <1>2 DEF Carried

\* A packet goes on as it is.
LEMMA CarriedPass ==
  ASSUME NEW B \in [Mbufs -> Nat], NEW pkts \in Seq(Mbufs), NEW m \in Mbufs,
         NEW rest \in Seq(Mbufs)
  PROVE  Carried(B, pkts, <<m>> \o rest) = Carried(B, Append(pkts, m), rest)
<1> DEFINE u == <<m>>
<1>1. u \in Seq(Mbufs)
  BY TimesUnit
<1>2. Append(pkts, m) = pkts \o u
  BY AppendIsConcat
<1> HIDE DEF u
<1>3. Plus(B, pkts) \in [Mbufs -> Nat]
  BY PlusType
<1>4. Plus(Plus(B, pkts), u \o rest) = Plus(Plus(Plus(B, pkts), u), rest)
  BY <1>1, <1>3, PlusConcat
<1>5. Plus(B, pkts \o u) = Plus(Plus(B, pkts), u)
  BY <1>1, PlusConcat
<1> QED
  BY <1>2, <1>4, <1>5 DEF Carried, u

\* New packets take the place of a packet, which is freed.
LEMMA CarriedReplace ==
  ASSUME NEW B \in [Mbufs -> Nat], NEW pkts \in Seq(Mbufs), NEW m \in Mbufs,
         NEW rest \in Seq(Mbufs), NEW new \in Seq(Mbufs), NEW mb,
         Acc(mb, Plus(Carried(B, pkts, <<m>> \o rest), new))
  PROVE  /\ Acc(rte_pktmbuf_free(mb, <<m>>), Carried(B, pkts \o new, rest))
         /\ FreeMbufs(mb) \subseteq FreeMbufs(rte_pktmbuf_free(mb, <<m>>))
<1> DEFINE u  == <<m>>
           P  == pkts \o new
           C0 == Carried(B, pkts, u \o rest)
           C  == Plus(C0, new)
           D0 == Carried(B, P, rest)
           D  == Plus(D0, u)
<1>1. u \in Seq(Mbufs)
  BY TimesUnit
<1> HIDE DEF u
<1>2. u \o rest \in Seq(Mbufs) /\ P \in Seq(Mbufs)
  BY <1>1, ConcatProperties
<1>3. /\ C0 \in [Mbufs -> Nat] /\ D0 \in [Mbufs -> Nat]
      /\ \A k \in Mbufs :
           /\ C0[k] = B[k] + Times(pkts)[k] + Times(u \o rest)[k]
           /\ D0[k] = B[k] + Times(P)[k] + Times(rest)[k]
           /\ B[k] \in Nat /\ Times(pkts)[k] \in Nat /\ Times(rest)[k] \in Nat
  BY <1>2, CarriedType, ZenonT(60)
<1>4. \A k \in Mbufs : /\ Times(u \o rest)[k] = Times(u)[k] + Times(rest)[k]
                       /\ Times(P)[k] = Times(pkts)[k] + Times(new)[k]
  BY <1>1, TimesConcat
<1> HIDE DEF C0, D0, P
<1>5. /\ C \in [Mbufs -> Nat] /\ D \in [Mbufs -> Nat]
      /\ \A k \in Mbufs :
           /\ C[k] = C0[k] + Times(new)[k] /\ D[k] = D0[k] + Times(u)[k]
           /\ Times(new)[k] \in Nat /\ Times(u)[k] \in Nat
  BY <1>1, <1>3, PlusType
<1> HIDE DEF C, D
<1>6. ASSUME NEW k \in Mbufs PROVE C[k] = D[k]
  <2>1. /\ C[k] = (B[k] + Times(pkts)[k] + (Times(u)[k] + Times(rest)[k]))
                  + Times(new)[k]
        /\ D[k] = (B[k] + (Times(pkts)[k] + Times(new)[k]) + Times(rest)[k])
                  + Times(u)[k]
    BY <1>3, <1>4, <1>5
  <2>2. /\ B[k] \in Nat /\ Times(pkts)[k] \in Nat /\ Times(u)[k] \in Nat
        /\ Times(rest)[k] \in Nat /\ Times(new)[k] \in Nat
    BY <1>3, <1>5
  <2> QED
    BY <2>1, <2>2, SMTT(60)
<1>7. C = D
  BY <1>5, <1>6
<1>8. Acc(mb, C)
  BY DEF C, C0, u
<1>9. Acc(mb, Plus(D0, u))
  BY <1>7, <1>8 DEF D
<1>10. /\ Acc(rte_pktmbuf_free(mb, u), D0)
       /\ FreeMbufs(mb) \subseteq FreeMbufs(rte_pktmbuf_free(mb, u))
  BY <1>1, <1>3, <1>9, FreePlus
<1> QED
  BY <1>10 DEF D0, P, u

\* A packet is freed.
LEMMA CarriedDrop ==
  ASSUME NEW B \in [Mbufs -> Nat], NEW pkts \in Seq(Mbufs), NEW m \in Mbufs,
         NEW rest \in Seq(Mbufs), NEW mb, Acc(mb, Carried(B, pkts, <<m>> \o rest))
  PROVE  /\ Acc(rte_pktmbuf_free(mb, <<m>>), Carried(B, pkts, rest))
         /\ FreeMbufs(mb) \subseteq FreeMbufs(rte_pktmbuf_free(mb, <<m>>))
<1> DEFINE C == Carried(B, pkts, <<m>> \o rest)
           e == <<>>
<1>1. C \in [Mbufs -> Nat]
  BY DEF Acc
<1> HIDE DEF C
<1>2. Plus(C, e) = C
  BY <1>1, PlusEmpty
<1>3. e \in Seq(Mbufs) /\ pkts \o e = pkts
  BY ConcatEmptySeq
<1>4. Acc(mb, Plus(C, e))
  BY <1>2 DEF C
<1> HIDE DEF e
<1>5. /\ Acc(rte_pktmbuf_free(mb, <<m>>), Carried(B, pkts \o e, rest))
      /\ FreeMbufs(mb) \subseteq FreeMbufs(rte_pktmbuf_free(mb, <<m>>))
  BY <1>3, <1>4, CarriedReplace DEF C
<1> QED
  BY <1>3, <1>5

\* The call has a reference to the next packet.
LEMMA CarriedNext ==
  ASSUME NEW B \in [Mbufs -> Nat], NEW pkts \in Seq(Mbufs), NEW m \in Mbufs,
         NEW rest \in Seq(Mbufs)
  PROVE  Carried(B, pkts, <<m>> \o rest)[m] > 0
<1> DEFINE u == <<m>>
           w == u \o rest
<1>1. u \in Seq(Mbufs) /\ Times(u)[m] = 1
  BY TimesUnit
<1> HIDE DEF u
<1>2. w \in Seq(Mbufs) /\ Times(w)[m] = Times(u)[m] + Times(rest)[m]
  BY <1>1, TimesConcat, ConcatProperties
<1> HIDE DEF w
<1>3. Times(rest)[m] \in Nat
  BY TimesIn
<1>4. /\ Carried(B, pkts, w)[m] = B[m] + Times(pkts)[m] + Times(w)[m]
      /\ B[m] \in Nat /\ Times(pkts)[m] \in Nat
  BY <1>2, CarriedType
<1>5. Carried(B, pkts, w)[m] > 0
  BY <1>1, <1>2, <1>3, <1>4
<1> QED
  BY <1>5 DEF w, u

\* The packets that are left begin with the next one.
LEMMA NextOf ==
  ASSUME NEW T, NEW s \in Seq(T), NEW i \in 1 .. Len(s)
  PROVE  /\ s[i] \in T /\ SubSeq(s, i + 1, Len(s)) \in Seq(T)
         /\ SubSeq(s, i, Len(s)) = <<s[i]>> \o SubSeq(s, i + 1, Len(s))
<1>1. /\ Len(s) \in Nat /\ i \in Nat /\ 1 <= i /\ i <= Len(s)
      /\ Len(s) \in i .. Len(s) /\ i \in i .. Len(s)
  BY LenProperties
<1>2. /\ i + 1 \in Nat /\ 1 <= i + 1 /\ i + 1 <= Len(s) + 1 /\ i <= i + 1
  BY <1>1
<1>3. s[i] \in T
  BY <1>1, ElementOfSeq
<1>4. SubSeq(s, i + 1, Len(s)) \in Seq(T)
  BY <1>1, <1>2, PartOf
<1>5. SubSeq(s, i, Len(s)) = SubSeq(s, i, i) \o SubSeq(s, i + 1, Len(s))
  BY <1>1, <1>2, CutOf
<1>6. SubSeq(s, i, i) = <<s[i]>>
  <2> DEFINE u == SubSeq(s, i, i)
  <2>1. /\ u \in Seq(T) /\ Len(u) = i - i + 1
        /\ \A j \in 1 .. i - i + 1 : u[j] = s[i + j - 1]
    BY <1>1, <1>2, PartOf
  <2> HIDE DEF u
  <2>2. Len(u) = 1 /\ u[1] = s[i]
    <3>1. i - i + 1 = 1 /\ i + 1 - 1 = i
      BY <1>1
    <3> QED
      BY <2>1, <3>1
  <2>3. u = <<s[i]>>
    BY <2>1, <2>2
  <2> QED
    BY <2>3 DEF u
<1> QED
  BY <1>3, <1>4, <1>5, <1>6

\* A packet that is copied is another packet, in new buffers; a packet that
\* is not copied is as it was, and no buffer is lost.
LEMMA CopyAcc ==
  ASSUME NEW mb, NEW rf, Acc(mb, rf), NEW m \in Mbufs, rf[m] > 0,
         NEW nb_seg \in Nat \ {0}, NEW copied
  PROVE  LET c == pkt_copy_split(mb, m, nb_seg, copied)
         IN  \/ c.p = m /\ Acc(c.mb, rf)
             \/ c.p \in Mbufs /\ c.p # m /\ Acc(c.mb, Plus(rf, <<c.p>>))
<1> DEFINE k  == Min({nb_seg, NbFree(mb)})
           md == FirstFree(mb, k)
           ok == copied /\ Len(md) = nb_seg
           c  == pkt_copy_split(mb, m, nb_seg, copied)
<1>1. NbFree(mb) \in Nat /\ nb_seg \in Nat /\ nb_seg # 0
  BY FreeList
<1>2. k \in 0 .. NbFree(mb)
  <2>1. k = IF nb_seg <= NbFree(mb) THEN nb_seg ELSE NbFree(mb)
    BY <1>1, MinOf
  <2> HIDE DEF k
  <2> QED
    BY <1>1, <2>1
<1> HIDE DEF k
<1>3. /\ md \in Seq(Mbufs) /\ IsInjective(md) /\ Range(md) \subseteq FreeMbufs(mb)
  BY <1>2, FirstFreeGives
<1>4. c = IF ok THEN [mb |-> Chain(Alloc(mb, md), md[1], Range(Tail(md))), p |-> md[1]]
          ELSE [mb |-> rte_pktmbuf_free(Alloc(mb, md), md), p |-> m]
  BY DEF pkt_copy_split, k
<1> DEFINE mid == Alloc(mb, md)
           rf1 == Plus(rf, md)
<1> HIDE DEF md, c
<1>5. /\ Acc(mid, rf1)
      /\ \A h \in Range(md) :
           h \in Mbufs /\ rf[h] = 0 /\ rf1[h] = 1 /\ mid[h].segs = {}
  <2>1. /\ Acc(Alloc(mb, md), Plus(rf, md))
        /\ \A h \in Range(md) :
             /\ h \in Mbufs /\ rf[h] = 0 /\ Plus(rf, md)[h] = 1
             /\ Alloc(mb, md)[h].segs = {} /\ Alloc(mb, md)[h].refcnt = 1
    BY <1>3, AllocPlus
  <2> QED
    BY <2>1
<1>6. rf \in [Mbufs -> Nat]
  BY DEF Acc
<1>7. CASE ~ok
  <2>1. c.p = m /\ c.mb = rte_pktmbuf_free(mid, md)
    BY <1>4, <1>7
  <2>2. Acc(mid, Plus(rf, md))
    BY <1>5
  <2> HIDE DEF mid
  <2>3. Acc(rte_pktmbuf_free(mid, md), rf)
    BY <1>3, <1>6, <2>2, FreePlus
  <2> QED
    BY <2>1, <2>3 DEF c
<1>8. CASE ok
  <2> DEFINE p == md[1]
             S == Range(Tail(md))
             u == <<p>>
  <2>1. Len(md) \in Nat /\ Len(md) # 0 /\ 1 \in 1 .. Len(md)
        /\ DOMAIN md = 1 .. Len(md) /\ md # <<>>
    BY <1>1, <1>3, <1>8, LenProperties
  <2>2. p \in Mbufs /\ p \in Range(md)
    BY <1>3, <2>1, ElementOfSeq DEF Range
  <2>3. /\ S \subseteq Range(md) /\ p \notin S
        /\ \A h \in Range(md) : h = p \/ h \in S
    <3>1. /\ Tail(md) \in Seq(Mbufs) /\ Len(Tail(md)) = Len(md) - 1
          /\ \A i \in 1 .. Len(Tail(md)) : Tail(md)[i] = md[i + 1]
      BY <1>3, <2>1, HeadTailProperties
    <3>2. DOMAIN Tail(md) = 1 .. Len(md) - 1
      BY <3>1, LenProperties
    <3>3. \A i \in 1 .. Len(md) - 1 : i + 1 \in 1 .. Len(md) /\ i + 1 # 1
      BY <2>1
    <3>4. S \subseteq Range(md)
      BY <2>1, <3>1, <3>2, <3>3 DEF Range
    <3>5. p \notin S
      BY <1>3, <2>1, <3>1, <3>2, <3>3 DEF Range, IsInjective
    <3>6. ASSUME NEW h \in Range(md), h # p PROVE h \in S
      <4>1. PICK i \in 1 .. Len(md) : h = md[i]
        BY <2>1 DEF Range
      <4>2. i - 1 \in 1 .. Len(md) - 1 /\ (i - 1) + 1 = i
        BY <2>1, <3>6, <4>1
      <4>3. Tail(md)[i - 1] = h
        BY <3>1, <4>1, <4>2
      <4> QED
        BY <3>2, <4>2, <4>3 DEF Range
    <3> QED
      BY <3>4, <3>5, <3>6
  <2>4. c.p = p /\ c.mb = Chain(mid, p, S)
    BY <1>4, <1>8
  <2>5. u \in Seq(Mbufs) /\ \A h \in Mbufs : Times(u)[h] = IF h = p THEN 1 ELSE 0
    BY <2>2, TimesUnit
  <2>6. rf[p] = 0 /\ rf1[p] = 1 /\ p # m
    BY <1>5, <2>2
  <2> HIDE DEF p, S, u
  <2> DEFINE rf2 == Plus(rf, u)
  <2>7. rf2 \in [Mbufs -> Nat] /\ \A h \in Mbufs : rf2[h] = rf[h] + Times(u)[h]
    BY <1>6, <2>5, PlusType
  <2> HIDE DEF rf2
  <2>8. \A h \in Mbufs : h \notin Range(md) => rf1[h] = rf[h]
    <3> SUFFICES ASSUME NEW h \in Mbufs, h \notin Range(md) PROVE rf1[h] = rf[h]
      OBVIOUS
    <3>1. Times(md)[h] = 0
      BY <1>3, TimesOne
    <3>2. rf1[h] = rf[h] + Times(md)[h] /\ rf[h] \in Nat
      BY <1>3, <1>6, PlusType
    <3> QED
      BY <3>1, <3>2
  <2> HIDE DEF mid, rf1
  <2>9. ASSUME NEW h \in Mbufs PROVE rf2[h] = IF h \in S THEN 0 ELSE rf1[h]
    <3>1. rf[h] \in Nat
      BY <1>6
    <3>2. CASE h = p
      BY <2>3, <2>5, <2>6, <2>7, <3>2
    <3>3. CASE h # p
      <4>1. rf2[h] = rf[h]
        BY <2>5, <2>7, <3>1, <3>3
      <4>2. h \in S => rf[h] = 0
        BY <1>5, <2>3
      <4>3. h \notin S => rf1[h] = rf[h]
        BY <2>3, <2>8, <3>3
      <4> QED
        BY <4>1, <4>2, <4>3
    <3> QED
      BY <3>2, <3>3
  <2>10. S \in SUBSET Mbufs /\ \A h \in S : rf1[h] = 1 /\ mid[h].segs = {}
    BY <1>5, <2>3
  <2>11. rf1[p] > 0 /\ p \notin S /\ Acc(mid, rf1)
    BY <1>5, <2>3, <2>6
  <2>12. Acc(Chain(mid, p, S), rf2)
    BY <2>2, <2>7, <2>9, <2>10, <2>11, ChainAcc
  <2>13. c.p \in Mbufs /\ c.p # m /\ Acc(c.mb, Plus(rf, <<c.p>>))
    BY <2>2, <2>4, <2>6, <2>12 DEF rf2, u
  <2> QED
    BY <2>13 DEF c
<1> QED
  BY <1>7, <1>8

SplitTurns(g, mb0, ms, nb_seg, copied) ==
  g = [i \in 0 .. Len(ms) |->
         IF i = 0 THEN [mb |-> mb0, pkts |-> <<>>]
         ELSE Split(g[i - 1], ms[i], nb_seg, copied)]

\* A burst whose packets were copied, or not, is a burst of as many packets.
LEMMA SplitAcc ==
  ASSUME NEW mb0, NEW B \in [Mbufs -> Nat], NEW ms \in Seq(Mbufs),
         Acc(mb0, Plus(B, ms)), NEW nb_seg \in Nat \ {0}, NEW copied
  PROVE  LET done == SplitAll(mb0, ms, nb_seg, copied)
         IN  /\ done.pkts \in Seq(Mbufs) /\ Len(done.pkts) = Len(ms)
             /\ Acc(done.mb, Plus(B, done.pkts))
<1> DEFINE n       == Len(ms)
           a       == [mb |-> mb0, pkts |-> <<>>]
           X       == [mb : MB, pkts : Seq(Mbufs)]
           rest(i) == SubSeq(ms, i + 1, Len(ms))
           J(i)    == {x \in X : /\ Acc(x.mb, Carried(B, x.pkts, rest(i)))
                                 /\ Len(x.pkts) = i}
           I       == [i \in 0 .. n |-> J(i)]
           F       == [x \in X \X (1 .. n) |-> Split(x[1], ms[x[2]], nb_seg, copied)]
<1>1. n \in Nat
  BY LenProperties
<1>5. a \in I[0]
  <2>1. <<>> \in Seq(Mbufs) /\ Len(<<>>) = 0
    OBVIOUS
  <2>2. rest(0) = ms
    BY <1>1
  <2>3. Carried(B, <<>>, ms) = Plus(B, ms)
    BY PlusEmpty DEF Carried
  <2>4. mb0 \in MB
    BY DEF Acc
  <2>5. a \in X /\ Acc(a.mb, Carried(B, a.pkts, rest(0))) /\ Len(a.pkts) = 0
    BY <2>1, <2>2, <2>3, <2>4
  <2> QED
    BY <1>1, <2>5
<1> HIDE DEF a
<1>6. ASSUME NEW i \in 1 .. n, NEW x \in I[i - 1]
      PROVE  Split(x, ms[i], nb_seg, copied) \in I[i]
  <2>1. i - 1 \in 0 .. n /\ i \in 0 .. n /\ i - 1 + 1 = i
    BY <1>1
  <2>2. /\ x \in X /\ Acc(x.mb, Carried(B, x.pkts, SubSeq(ms, i, Len(ms))))
        /\ Len(x.pkts) = i - 1
    BY <2>1
  <2> DEFINE ps == x.pkts
             mb == x.mb
             r  == rest(i)
             m  == ms[i]
             u  == <<m>>
             c  == pkt_copy_split(mb, m, nb_seg, m \in copied)
             rf == Carried(B, ps, u \o r)
             q  == c.p
             y  == Split(x, m, nb_seg, copied)
  <2>3. m \in Mbufs /\ r \in Seq(Mbufs) /\ SubSeq(ms, i, Len(ms)) = u \o r
    BY NextOf
  <2>4. ps \in Seq(Mbufs) /\ Len(ps) = i - 1 /\ Acc(mb, rf)
    BY <2>2, <2>3
  <2>5. y = [pkts |-> Append(ps, q),
             mb |-> IF q = m THEN c.mb ELSE rte_pktmbuf_free(c.mb, u)]
    BY DEF Split
  <2> HIDE DEF r, ps, mb, m, y
  <2>6. u \in Seq(Mbufs) /\ \A k \in Mbufs : Times(u)[k] = IF k = m THEN 1 ELSE 0
    BY <2>3, TimesUnit
  <2>7. rf[m] > 0
    BY <2>3, <2>4, CarriedNext
  <2> HIDE DEF rf
  <2> DEFINE cp == m \in copied
  <2>8. \/ q = m /\ Acc(c.mb, rf)
        \/ q \in Mbufs /\ q # m /\ Acc(c.mb, Plus(rf, <<q>>))
    <3>1. c = pkt_copy_split(mb, m, nb_seg, cp)
      OBVIOUS
    <3> HIDE DEF cp, c
    <3>2. LET d == pkt_copy_split(mb, m, nb_seg, cp)
          IN  \/ d.p = m /\ Acc(d.mb, rf)
              \/ d.p \in Mbufs /\ d.p # m /\ Acc(d.mb, Plus(rf, <<d.p>>))
      BY <2>3, <2>4, <2>7, CopyAcc
    <3> QED
      BY <3>1, <3>2
  <2> HIDE DEF c, q
  <2>9. q \in Mbufs
    BY <2>3, <2>8
  <2> DEFINE s == Append(ps, q)
  <2>10. s \in Seq(Mbufs) /\ Len(s) = i
    <3>1. s \in Seq(Mbufs) /\ Len(s) = Len(ps) + 1
      BY <2>4, <2>9, AppendProperties
    <3> QED
      BY <2>1, <2>4, <3>1
  <2>11. Acc(y.mb, Carried(B, s, r))
    <3>1. CASE q = m
      <4>1. y.mb = c.mb
        BY <2>5, <3>1
      <4>2. Acc(c.mb, rf)
        BY <2>8, <3>1
      <4>3. Carried(B, ps, <<m>> \o r) = Carried(B, Append(ps, m), r)
        BY <2>3, <2>4, CarriedPass, ZenonT(60)
      <4> QED
        BY <3>1, <4>1, <4>2, <4>3 DEF rf
    <3>2. CASE q # m
      <4> DEFINE v == <<q>>
      <4>1. y.mb = rte_pktmbuf_free(c.mb, <<m>>)
        BY <2>5, <3>2
      <4>2. Acc(c.mb, Plus(Carried(B, ps, <<m>> \o r), v))
        BY <2>8, <3>2 DEF rf
      <4>3. v \in Seq(Mbufs) /\ Append(ps, q) = ps \o v
        BY <2>4, <2>9, TimesUnit, AppendIsConcat
      <4> HIDE DEF v
      <4>4. Acc(rte_pktmbuf_free(c.mb, <<m>>), Carried(B, ps \o v, r))
        BY <2>3, <2>4, <4>2, <4>3, CarriedReplace
      <4> QED
        BY <4>1, <4>3, <4>4
    <3> QED
      BY <3>1, <3>2
  <2>12. y.pkts = s /\ y.mb \in MB /\ y = [pkts |-> y.pkts, mb |-> y.mb]
    <3>1. y.mb \in MB
      BY <2>11 DEF Acc
    <3> QED
      BY <2>5, <3>1
  <2> HIDE DEF s
  <2>13. y \in X /\ Acc(y.mb, Carried(B, y.pkts, rest(i))) /\ Len(y.pkts) = i
    BY <2>10, <2>11, <2>12 DEF r
  <2> QED
    BY <2>1, <2>13 DEF y, m
<1>7. \A i \in 0 .. n : I[i] \subseteq X
  OBVIOUS
<1> HIDE DEF X, I
<1>8. \E g : SplitTurns(g, mb0, ms, nb_seg, copied)
  <2>1. \A i \in 1 .. n : \A x \in I[i - 1] :
          /\ x \in X /\ F[<<x, i>>] = Split(x, ms[i], nb_seg, copied)
    <3> SUFFICES ASSUME NEW i \in 1 .. n, NEW x \in I[i - 1]
                 PROVE  /\ x \in X
                        /\ F[<<x, i>>] = Split(x, ms[i], nb_seg, copied)
      OBVIOUS
    <3>1. i - 1 \in 0 .. n
      BY <1>1
    <3>2. x \in X
      BY <1>7, <3>1
    <3> QED
      BY <3>2
  <2> HIDE DEF F
  <2>2. \A i \in 1 .. n : \A x \in I[i - 1] : F[<<x, i>>] \in I[i]
    BY <1>6, <2>1
  <2>3. PICK g : Turns(n, a, F, g) /\ \A i \in 0 .. n : g[i] \in I[i]
    BY <1>1, <1>5, <2>2, LoopReaches
  <2>4. \A i \in 0 .. n : i # 0 =>
          F[<<g[i - 1], i>>] = Split(g[i - 1], ms[i], nb_seg, copied)
    <3> SUFFICES ASSUME NEW i \in 0 .. n, i # 0
                 PROVE  F[<<g[i - 1], i>>] = Split(g[i - 1], ms[i], nb_seg, copied)
      OBVIOUS
    <3>1. i \in 1 .. n /\ i - 1 \in 0 .. n
      BY <1>1
    <3>2. g[i - 1] \in I[i - 1]
      BY <2>3, <3>1
    <3> QED
      BY <2>1, <3>1, <3>2
  <2>5. g = [i \in 0 .. n |-> IF i = 0 THEN a
                              ELSE Split(g[i - 1], ms[i], nb_seg, copied)]
    BY <2>3, <2>4 DEF Turns
  <2>6. SplitTurns(g, mb0, ms, nb_seg, copied)
    BY <2>5 DEF SplitTurns, n, a
  <2> QED
    BY <2>6
<1>9. \A g : SplitTurns(g, mb0, ms, nb_seg, copied) => g[n] \in I[n]
  <2> SUFFICES ASSUME NEW g, SplitTurns(g, mb0, ms, nb_seg, copied) PROVE g[n] \in I[n]
    OBVIOUS
  <2>1. g = [i \in 0 .. n |-> IF i = 0 THEN a
                              ELSE Split(g[i - 1], ms[i], nb_seg, copied)]
    BY DEF SplitTurns, n, a
  <2>2. g[0] \in I[0]
    BY <1>1, <1>5, <2>1
  <2>3. \A i \in 1 .. n : g[i - 1] \in I[i - 1] => g[i] \in I[i]
    <3> SUFFICES ASSUME NEW i \in 1 .. n, g[i - 1] \in I[i - 1]
                 PROVE  g[i] \in I[i]
      OBVIOUS
    <3>1. i \in 0 .. n /\ i # 0
      BY <1>1
    <3>2. g[i] = Split(g[i - 1], ms[i], nb_seg, copied)
      BY <2>1, <3>1
    <3> QED
      BY <1>6, <3>2
  <2>4. \A i \in 0 .. n : g[i] \in I[i]
    BY <1>1, <2>2, <2>3, LoopKeeps, Zenon
  <2> QED
    BY <1>1, <2>4
<1> DEFINE done[i \in 0 .. Len(ms)] ==
             IF i = 0 THEN [mb |-> mb0, pkts |-> <<>>]
             ELSE Split(done[i - 1], ms[i], nb_seg, copied)
<1>10. done = CHOOSE g : SplitTurns(g, mb0, ms, nb_seg, copied)
  BY DEF SplitTurns
<1>11. SplitAll(mb0, ms, nb_seg, copied) = done[n]
  BY DEF SplitAll, n
<1> HIDE DEF done
<1>12. SplitTurns(done, mb0, ms, nb_seg, copied)
  BY <1>8, <1>10
<1>13. done[n] \in I[n]
  BY <1>9, <1>12
<1>14. /\ done[n].pkts \in Seq(Mbufs) /\ Len(done[n].pkts) = n
       /\ Acc(done[n].mb, Carried(B, done[n].pkts, rest(n)))
  BY <1>1, <1>13 DEF I, X
<1>15. rest(n) = <<>>
  BY <1>1
<1>16. Acc(done[n].mb, Plus(B, done[n].pkts))
  <2>1. Plus(B, done[n].pkts) \in [Mbufs -> Nat]
    BY <1>14, PlusType
  <2>2. Carried(B, done[n].pkts, <<>>) = Plus(B, done[n].pkts)
    BY <2>1, PlusEmpty DEF Carried
  <2> QED
    BY <1>14, <1>15, <2>2
<1> QED
  BY <1>11, <1>14, <1>16 DEF n

GsoTurns(g, mb0, ms, ret) ==
  g = [i \in 0 .. Len(ms) |->
         IF i = 0 THEN [mb |-> mb0, pkts |-> <<>>]
         ELSE Segment(g[i - 1], ms[i], ret)]

\* A burst whose packets were cut in two fits into the array of GSO.
LEMMA GsoAcc ==
  ASSUME NEW mb0, NEW B \in [Mbufs -> Nat], NEW ms \in Seq(Mbufs),
         Acc(mb0, Plus(B, ms)), NEW ret
  PROVE  LET done == GsoSegments(mb0, ms, ret)
         IN  /\ done.pkts \in Seq(Mbufs) /\ Len(done.pkts) <= GsoMaxPktBurst
             /\ Acc(done.mb, Plus(B, done.pkts))
<1> DEFINE n       == Len(ms)
           a       == [mb |-> mb0, pkts |-> <<>>]
           X       == [mb : MB, pkts : Seq(Mbufs)]
           rest(i) == SubSeq(ms, i + 1, Len(ms))
           J(i)    == {x \in X : /\ Acc(x.mb, Carried(B, x.pkts, rest(i)))
                                 /\ Len(x.pkts) <= GsoMaxPktBurst}
           I       == [i \in 0 .. n |-> J(i)]
           F       == [x \in X \X (1 .. n) |-> Segment(x[1], ms[x[2]], ret)]
<1>1. n \in Nat /\ GsoMaxPktBurst \in Nat
  BY LenProperties, EnginesAssumption
<1>5. a \in I[0]
  <2>1. <<>> \in Seq(Mbufs) /\ Len(<<>>) = 0
    OBVIOUS
  <2>2. rest(0) = ms
    BY <1>1
  <2>3. Carried(B, <<>>, ms) = Plus(B, ms)
    BY PlusEmpty DEF Carried
  <2>4. mb0 \in MB
    BY DEF Acc
  <2>5. /\ a \in X /\ Acc(a.mb, Carried(B, a.pkts, rest(0)))
    BY <2>1, <2>2, <2>3, <2>4
  <2>6. a.pkts = <<>> /\ Len(<<>>) <= GsoMaxPktBurst
    BY <1>1, <2>1
  <2> QED
    BY <1>1, <2>5, <2>6
<1> HIDE DEF a
<1>6. ASSUME NEW i \in 1 .. n, NEW x \in I[i - 1]
      PROVE  Segment(x, ms[i], ret) \in I[i]
  <2>1. i - 1 \in 0 .. n /\ i \in 0 .. n /\ i - 1 + 1 = i
    BY <1>1
  <2>2. /\ x \in X /\ Acc(x.mb, Carried(B, x.pkts, SubSeq(ms, i, Len(ms))))
        /\ Len(x.pkts) <= GsoMaxPktBurst
    BY <2>1
  <2> DEFINE ps   == x.pkts
             mb   == x.mb
             r    == rest(i)
             m    == ms[i]
             u    == <<m>>
             rf   == Carried(B, ps, u \o r)
             new  == FirstFree(mb, 2)
             room == GsoMaxPktBurst - Len(ps)
             y    == Segment(x, m, ret)
  <2>3. m \in Mbufs /\ r \in Seq(Mbufs) /\ SubSeq(ms, i, Len(ms)) = u \o r
    BY NextOf
  <2>4. /\ ps \in Seq(Mbufs) /\ Len(ps) \in Nat /\ Len(ps) <= GsoMaxPktBurst
        /\ Acc(mb, rf) /\ x = [pkts |-> ps, mb |-> mb] /\ mb \in MB
    BY <2>2, <2>3, LenProperties
  <2>5. \/ /\ room >= 2 /\ NbFree(mb) >= 2
           /\ y = [pkts |-> ps \o new,
                   mb |-> rte_pktmbuf_free(Alloc(mb, new), u)]
        \/ /\ room >= 1 /\ y = [x EXCEPT !.pkts = Append(ps, m)]
        \/ y = [x EXCEPT !.mb = rte_pktmbuf_free(mb, u)]
    BY DEF Segment
  <2> HIDE DEF r, ps, mb, m, y, rf
  <2> SUFFICES y \in X /\ Acc(y.mb, Carried(B, y.pkts, r))
               /\ Len(y.pkts) <= GsoMaxPktBurst
    BY <2>1 DEF y, m, r
  <2>6. CASE /\ room >= 2 /\ NbFree(mb) >= 2
             /\ y = [pkts |-> ps \o new,
                     mb |-> rte_pktmbuf_free(Alloc(mb, new), u)]
    <3>1. NbFree(mb) \in Nat
      BY FreeList
    <3>2. 2 \in 0 .. NbFree(mb)
      BY <2>6, <3>1
    <3>3. /\ new \in Seq(Mbufs) /\ Len(new) = 2 /\ IsInjective(new)
          /\ Range(new) \subseteq FreeMbufs(mb)
      BY <3>2, FirstFreeGives
    <3> DEFINE mid == Alloc(mb, new)
               s   == ps \o new
    <3>4. y.pkts = s /\ y.mb = rte_pktmbuf_free(mid, <<m>>)
          /\ y = [pkts |-> y.pkts, mb |-> y.mb]
      BY <2>6
    <3> HIDE DEF new
    <3>5. Acc(mid, Plus(rf, new))
      BY <2>4, <3>3, AllocPlus
    <3>6. s \in Seq(Mbufs) /\ Len(s) = Len(ps) + Len(new)
      BY <2>4, <3>3, ConcatProperties
    <3> HIDE DEF mid
    <3>7. Acc(mid, Plus(Carried(B, ps, <<m>> \o r), new))
      BY <3>5 DEF rf
    <3>8. Acc(rte_pktmbuf_free(mid, <<m>>), Carried(B, ps \o new, r))
      BY <2>3, <2>4, <3>3, <3>7, CarriedReplace
    <3>9. Len(y.pkts) <= GsoMaxPktBurst
      BY <1>1, <2>4, <2>6, <3>3, <3>4, <3>6
    <3>12. y.pkts = ps \o new
      BY <3>4
    <3>10. Acc(y.mb, Carried(B, y.pkts, r)) /\ y.mb \in MB
      <4>1. Acc(y.mb, Carried(B, y.pkts, r))
        BY <3>4, <3>8, <3>12
      <4> QED
        BY <4>1, AccType
    <3> HIDE DEF s
    <3>11. y \in X
      BY <3>4, <3>6, <3>10
    <3> QED
      BY <3>9, <3>10, <3>11
  <2>7. CASE room >= 1 /\ y = [x EXCEPT !.pkts = Append(ps, m)]
    <3> DEFINE s == Append(ps, m)
    <3>1. s \in Seq(Mbufs) /\ Len(s) = Len(ps) + 1
      BY <2>3, <2>4, AppendProperties
    <3>2. Carried(B, ps, <<m>> \o r) = Carried(B, s, r)
      BY <2>3, <2>4, CarriedPass
    <3> HIDE DEF s
    <3>3. y = [pkts |-> s, mb |-> mb]
      BY <2>4, <2>7 DEF s
    <3>4. y.pkts = s /\ y.mb = mb /\ y \in X
      BY <2>4, <3>1, <3>3
    <3>5. Acc(y.mb, Carried(B, y.pkts, r))
      BY <2>4, <3>2, <3>4 DEF rf
    <3>6. Len(y.pkts) <= GsoMaxPktBurst
      BY <1>1, <2>4, <2>7, <3>1, <3>4
    <3> QED
      BY <3>4, <3>5, <3>6
  <2>8. CASE y = [x EXCEPT !.mb = rte_pktmbuf_free(mb, u)]
    <3> DEFINE mid == rte_pktmbuf_free(mb, u)
    <3>1. Acc(mb, Carried(B, ps, <<m>> \o r))
      BY <2>4 DEF rf
    <3>2. Acc(rte_pktmbuf_free(mb, <<m>>), Carried(B, ps, r))
      BY <2>3, <2>4, <3>1, CarriedDrop
    <3>6. Acc(mid, Carried(B, ps, r))
      BY <3>2
    <3>4. y = [pkts |-> ps, mb |-> mid]
      BY <2>4, <2>8
    <3> HIDE DEF mid
    <3>7. mid \in MB
      BY <3>6, AccType
    <3>3. Acc(mid, Carried(B, ps, r)) /\ mid \in MB
      BY <3>6, <3>7
    <3>5. y.pkts = ps /\ y.mb = mid /\ y \in X
      BY <2>4, <3>3, <3>4
    <3> QED
      BY <2>4, <3>3, <3>5
  <2> QED
    BY <2>5, <2>6, <2>7, <2>8
<1>7. \A i \in 0 .. n : I[i] \subseteq X
  OBVIOUS
<1> HIDE DEF X, I
<1>8. \E g : GsoTurns(g, mb0, ms, ret)
  <2>1. \A i \in 1 .. n : \A x \in I[i - 1] :
          /\ x \in X /\ F[<<x, i>>] = Segment(x, ms[i], ret)
    <3> SUFFICES ASSUME NEW i \in 1 .. n, NEW x \in I[i - 1]
                 PROVE  /\ x \in X
                        /\ F[<<x, i>>] = Segment(x, ms[i], ret)
      OBVIOUS
    <3>1. i - 1 \in 0 .. n
      BY <1>1
    <3>2. x \in X
      BY <1>7, <3>1
    <3> QED
      BY <3>2
  <2> HIDE DEF F
  <2>2. \A i \in 1 .. n : \A x \in I[i - 1] : F[<<x, i>>] \in I[i]
    BY <1>6, <2>1
  <2>3. PICK g : Turns(n, a, F, g) /\ \A i \in 0 .. n : g[i] \in I[i]
    BY <1>1, <1>5, <2>2, LoopReaches
  <2>4. \A i \in 0 .. n : i # 0 =>
          F[<<g[i - 1], i>>] = Segment(g[i - 1], ms[i], ret)
    <3> SUFFICES ASSUME NEW i \in 0 .. n, i # 0
                 PROVE  F[<<g[i - 1], i>>] = Segment(g[i - 1], ms[i], ret)
      OBVIOUS
    <3>1. i \in 1 .. n /\ i - 1 \in 0 .. n
      BY <1>1
    <3>2. g[i - 1] \in I[i - 1]
      BY <2>3, <3>1
    <3> QED
      BY <2>1, <3>1, <3>2
  <2>5. g = [i \in 0 .. n |-> IF i = 0 THEN a
                              ELSE Segment(g[i - 1], ms[i], ret)]
    BY <2>3, <2>4 DEF Turns
  <2>6. GsoTurns(g, mb0, ms, ret)
    BY <2>5 DEF GsoTurns, n, a
  <2> QED
    BY <2>6
<1>9. \A g : GsoTurns(g, mb0, ms, ret) => g[n] \in I[n]
  <2> SUFFICES ASSUME NEW g, GsoTurns(g, mb0, ms, ret) PROVE g[n] \in I[n]
    OBVIOUS
  <2>1. g = [i \in 0 .. n |-> IF i = 0 THEN a
                              ELSE Segment(g[i - 1], ms[i], ret)]
    BY DEF GsoTurns, n, a
  <2>2. g[0] \in I[0]
    BY <1>1, <1>5, <2>1
  <2>3. \A i \in 1 .. n : g[i - 1] \in I[i - 1] => g[i] \in I[i]
    <3> SUFFICES ASSUME NEW i \in 1 .. n, g[i - 1] \in I[i - 1]
                 PROVE  g[i] \in I[i]
      OBVIOUS
    <3>1. i \in 0 .. n /\ i # 0
      BY <1>1
    <3>2. g[i] = Segment(g[i - 1], ms[i], ret)
      BY <2>1, <3>1
    <3> QED
      BY <1>6, <3>2
  <2>4. \A i \in 0 .. n : g[i] \in I[i]
    BY <1>1, <2>2, <2>3, LoopKeeps, Zenon
  <2> QED
    BY <1>1, <2>4
<1> DEFINE done[i \in 0 .. Len(ms)] ==
             IF i = 0 THEN [mb |-> mb0, pkts |-> <<>>]
             ELSE Segment(done[i - 1], ms[i], ret)
<1>10. done = CHOOSE g : GsoTurns(g, mb0, ms, ret)
  BY DEF GsoTurns
<1>11. GsoSegments(mb0, ms, ret) = done[n]
  BY DEF GsoSegments, n
<1> HIDE DEF done
<1>12. GsoTurns(done, mb0, ms, ret)
  BY <1>8, <1>10
<1>13. done[n] \in I[n]
  BY <1>9, <1>12
<1>14. /\ done[n].pkts \in Seq(Mbufs) /\ Len(done[n].pkts) <= GsoMaxPktBurst
       /\ Acc(done[n].mb, Carried(B, done[n].pkts, rest(n)))
  BY <1>1, <1>13 DEF I, X
<1>15. rest(n) = <<>>
  BY <1>1
<1>16. Acc(done[n].mb, Plus(B, done[n].pkts))
  <2>1. Plus(B, done[n].pkts) \in [Mbufs -> Nat]
    BY <1>14, PlusType
  <2>2. Carried(B, done[n].pkts, <<>>) = Plus(B, done[n].pkts)
    BY <2>1, PlusEmpty DEF Carried
  <2> QED
    BY <1>14, <1>15, <2>2
<1> QED
  BY <1>11, <1>14, <1>16 DEF n

\* Packets that GRO merges become segments of the first that is kept.
LEMMA GroAcc ==
  ASSUME NEW mb, NEW B, Acc(mb, B), NEW ms \in Seq(Mbufs), IsInjective(ms),
         Range(ms) \subseteq FreeMbufs(mb), NEW kept \in SUBSET Range(ms), kept # {}
  PROVE  LET t == GroBurst(Alloc(mb, ms), ms, kept)
         IN  /\ t.pkts \in Seq(Mbufs) /\ Len(t.pkts) <= Len(ms)
             /\ Acc(t.mb, Plus(B, t.pkts))
<1> DEFINE t      == GroBurst(Alloc(mb, ms), ms, kept)
           pkts   == Kept(ms, kept)
           merged == Range(ms) \ kept
           mb0    == Alloc(mb, ms)
           rf     == Plus(B, ms)
           rf2    == Plus(B, pkts)
           p      == pkts[1]
<1>1. t = [pkts |-> pkts,
           mb |-> IF merged = {} THEN mb0 ELSE Chain(mb0, p, merged)]
  BY DEF GroBurst
<1>2. B \in [Mbufs -> Nat]
  BY AccType
<1>3. /\ pkts \in Seq(Mbufs) /\ IsInjective(pkts)
      /\ Range(pkts) = Range(ms) \cap kept /\ Len(pkts) <= Len(ms)
  BY KeptBoth
<1>4. Range(pkts) = kept
  BY <1>3
<1>5. /\ Acc(mb0, rf)
      /\ \A m \in Range(ms) :
           m \in Mbufs /\ B[m] = 0 /\ rf[m] = 1 /\ mb0[m].segs = {}
  <2>1. /\ Acc(Alloc(mb, ms), Plus(B, ms))
        /\ \A m \in Range(ms) :
             /\ m \in Mbufs /\ B[m] = 0 /\ Plus(B, ms)[m] = 1
             /\ Alloc(mb, ms)[m].segs = {} /\ Alloc(mb, ms)[m].refcnt = 1
    BY AllocPlus
  <2> QED
    BY <2>1
<1> HIDE DEF pkts, mb0, t
<1>6. /\ rf \in [Mbufs -> Nat] /\ rf2 \in [Mbufs -> Nat]
      /\ \A m \in Mbufs : /\ rf[m] = B[m] + Times(ms)[m]
                          /\ rf2[m] = B[m] + Times(pkts)[m] /\ B[m] \in Nat
  BY <1>2, <1>3, PlusType
<1>7. \A m \in Mbufs : /\ Times(ms)[m] = IF m \in Range(ms) THEN 1 ELSE 0
                       /\ Times(pkts)[m] = IF m \in kept THEN 1 ELSE 0
  BY <1>3, <1>4, TimesOne
<1> HIDE DEF rf, rf2
<1>8. ASSUME NEW m \in Mbufs PROVE rf2[m] = IF m \in merged THEN 0 ELSE rf[m]
  <2>1. /\ rf[m] = B[m] + Times(ms)[m] /\ rf2[m] = B[m] + Times(pkts)[m]
        /\ B[m] \in Nat
    BY <1>6
  <2>2. CASE m \in merged
    <3>1. B[m] = 0 /\ Times(pkts)[m] = 0
      BY <1>5, <1>7, <2>2
    <3> QED
      BY <2>1, <2>2, <3>1
  <2>3. CASE m \notin merged
    <3>1. Times(pkts)[m] = Times(ms)[m]
      BY <1>7, <2>3
    <3> QED
      BY <2>1, <2>3, <3>1
  <2> QED
    BY <2>2, <2>3
<1>9. CASE merged = {}
  <2>1. \A m \in Mbufs : rf2[m] = rf[m]
    BY <1>8, <1>9
  <2>2. rf2 = rf
    BY <1>6, <2>1
  <2>3. t.pkts = pkts /\ t.mb = mb0
    BY <1>1, <1>9
  <2>4. Acc(t.mb, rf2)
    BY <1>5, <2>2, <2>3
  <2> QED
    BY <1>3, <2>3, <2>4 DEF t, rf2
<1>10. CASE merged # {}
  <2>1. Len(pkts) \in Nat /\ DOMAIN pkts = 1 .. Len(pkts)
    BY <1>3, LenProperties
  <2>2. Len(pkts) # 0
    <3>1. PICK m : m \in kept
      OBVIOUS
    <3>2. m \in Range(pkts)
      BY <1>4, <3>1
    <3>3. PICK i \in DOMAIN pkts : pkts[i] = m
      BY <3>2 DEF Range
    <3> QED
      BY <2>1, <3>3
  <2>3. 1 \in DOMAIN pkts
    BY <2>1, <2>2
  <2>4. p \in Range(pkts)
    BY <2>3 DEF Range
  <2>5. p \in kept /\ p \in Range(ms) /\ p \notin merged
    BY <1>4, <2>4
  <2>6. p \in Mbufs /\ rf[p] = 1
    BY <1>5, <2>5
  <2>7. merged \in SUBSET Mbufs /\ \A m \in merged : rf[m] = 1 /\ mb0[m].segs = {}
    BY <1>5
  <2>8. t.pkts = pkts /\ t.mb = Chain(mb0, p, merged)
    BY <1>1, <1>10
  <2>9. rf[p] > 0
    BY <2>6
  <2>10. Acc(mb0, rf) /\ rf2 \in [Mbufs -> Nat] /\ p \in Mbufs /\ p \notin merged
    BY <1>5, <1>6, <2>5, <2>6
  <2> HIDE DEF p, merged
  <2>11. \A m \in Mbufs : rf2[m] = IF m \in merged THEN 0 ELSE rf[m]
    BY <1>8
  <2>12. Acc(Chain(mb0, p, merged), rf2)
    BY <2>7, <2>9, <2>10, <2>11, ChainAcc, SMTT(60)
  <2> QED
    BY <1>3, <2>8, <2>12 DEF t, rf2
<1> QED
  BY <1>9, <1>10

\* What GRO keeps in its table and what goes on are the packets that came
\* and those that were in the table; and those that go on fit into the array.
LEMMA TableAcc ==
  ASSUME NEW mb, NEW B \in [Mbufs -> Nat], NEW ms \in Seq(Mbufs), IsInjective(ms),
         gro \in Seq(Mbufs), gro_times \in 0 .. GroFlushCycles - 1,
         Len(ms) <= MaxPktBurst, NEW kept \in SUBSET Range(ms),
         Acc(mb, Plus(Plus(B, gro), ms))
  PROVE  LET t == GroTable(ms, kept)
         IN  /\ t.pkts \in Seq(Mbufs) /\ Len(t.pkts) <= MaxPktBurst
             /\ t.gro \in Seq(Mbufs) /\ t.gro_times \in 0 .. GroFlushCycles - 1
             /\ Acc(mb, Plus(Plus(B, t.gro), t.pkts))
<1> DEFINE t     == GroTable(ms, kept)
           rest  == Kept(ms, kept)
           other == Kept(ms, Range(ms) \ kept)
           held  == gro \o other
           flush == gro_times + 1 >= GroFlushCycles
           lim   == Min({Len(held), MaxPktBurst - Len(rest)})
           nb    == IF flush THEN lim ELSE 0
           out   == SubSeq(held, 1, nb)
           left  == SubSeq(held, nb + 1, Len(held))
           pkts  == rest \o out
<1>1. t = [pkts |-> pkts, gro |-> left,
           gro_times |-> IF flush THEN 0 ELSE gro_times + 1]
  BY DEF GroTable
<1>2. MaxPktBurst \in Nat /\ GroFlushCycles \in Nat \ {0}
  BY EnginesAssumption
<1>3. /\ rest \in Seq(Mbufs) /\ other \in Seq(Mbufs) /\ Len(rest) <= Len(ms)
      /\ \A m \in Mbufs : Times(ms)[m] = Times(rest)[m] + Times(other)[m]
  BY KeptBoth
<1> HIDE DEF rest, other, t
<1>4. held \in Seq(Mbufs) /\ Len(held) \in Nat /\ Len(rest) \in Nat /\ Len(ms) \in Nat
  BY <1>3, ConcatProperties, LenProperties
<1>5. \A m \in Mbufs : Times(held)[m] = Times(gro)[m] + Times(other)[m]
  BY <1>3, TimesConcat
<1> HIDE DEF held
<1>6. MaxPktBurst - Len(rest) \in Nat
  BY <1>2, <1>3, <1>4
<1>7. lim = IF Len(held) <= MaxPktBurst - Len(rest) THEN Len(held)
            ELSE MaxPktBurst - Len(rest)
  <2> DEFINE room == MaxPktBurst - Len(rest)
  <2>1. room \in Int /\ Len(held) \in Int
    BY <1>4, <1>6
  <2> HIDE DEF room
  <2>2. Min({Len(held), room}) = IF Len(held) <= room THEN Len(held) ELSE room
    BY <2>1, MinOf
  <2> QED
    BY <2>2 DEF room
<1> HIDE DEF lim
<1>8. nb \in 0 .. Len(held) /\ nb <= MaxPktBurst - Len(rest)
  BY <1>4, <1>6, <1>7
<1> HIDE DEF nb
<1>9. /\ out \in Seq(Mbufs) /\ Len(out) = nb
      /\ left \in Seq(Mbufs) /\ held = out \o left
  BY <1>4, <1>8, PartsOf, ZenonT(60)
<1> HIDE DEF out, left
<1>10. \A m \in Mbufs : Times(held)[m] = Times(out)[m] + Times(left)[m]
  BY <1>9, TimesConcat
<1>11. /\ pkts \in Seq(Mbufs) /\ Len(pkts) = Len(rest) + Len(out)
       /\ \A m \in Mbufs : Times(pkts)[m] = Times(rest)[m] + Times(out)[m]
  BY <1>3, <1>9, ConcatProperties, TimesConcat
<1> HIDE DEF pkts
<1>12. Len(pkts) <= MaxPktBurst
  BY <1>2, <1>4, <1>8, <1>9, <1>11
<1> DEFINE P0 == Plus(B, gro)
           P  == Plus(P0, ms)
           Q0 == Plus(B, left)
           Q  == Plus(Q0, pkts)
<1>13. /\ P0 \in [Mbufs -> Nat] /\ Q0 \in [Mbufs -> Nat]
       /\ \A m \in Mbufs : /\ P0[m] = B[m] + Times(gro)[m]
                           /\ Q0[m] = B[m] + Times(left)[m]
                           /\ B[m] \in Nat
  BY <1>9, PlusType
<1> HIDE DEF P0, Q0
<1>14. /\ P \in [Mbufs -> Nat] /\ Q \in [Mbufs -> Nat]
       /\ \A m \in Mbufs : /\ P[m] = P0[m] + Times(ms)[m]
                           /\ Q[m] = Q0[m] + Times(pkts)[m]
  BY <1>11, <1>13, PlusType
<1> HIDE DEF P, Q
<1>15. ASSUME NEW m \in Mbufs PROVE P[m] = Q[m]
  <2>1. /\ Times(rest)[m] \in Nat /\ Times(other)[m] \in Nat /\ Times(gro)[m] \in Nat
        /\ Times(out)[m] \in Nat /\ Times(left)[m] \in Nat /\ B[m] \in Nat
    BY <1>3, <1>9, <1>13, TimesIn
  <2>2. /\ P[m] = (B[m] + Times(gro)[m]) + (Times(rest)[m] + Times(other)[m])
        /\ Q[m] = (B[m] + Times(left)[m]) + (Times(rest)[m] + Times(out)[m])
        /\ Times(gro)[m] + Times(other)[m] = Times(out)[m] + Times(left)[m]
    BY <1>3, <1>5, <1>10, <1>11, <1>13, <1>14
  <2> DEFINE b == B[m]
             g == Times(gro)[m]
             r == Times(rest)[m]
             o == Times(other)[m]
             u == Times(out)[m]
             l == Times(left)[m]
  <2>3. P[m] = (b + g) + (r + o) /\ Q[m] = (b + l) + (r + u) /\ g + o = u + l
    BY <2>2
  <2>4. b \in Nat /\ g \in Nat /\ r \in Nat /\ o \in Nat /\ u \in Nat /\ l \in Nat
    BY <2>1
  <2> HIDE DEF b, g, r, o, u, l
  <2>5. (b + g) + (r + o) = (b + l) + (r + u)
    BY ONLY <2>3, <2>4, SumsAgree
  <2> QED
    BY <2>3, <2>5
<1>16. P = Q
  BY <1>14, <1>15
<1>17. Acc(mb, P)
  BY DEF P, P0
<1>18. Acc(mb, Plus(Plus(B, left), pkts))
  BY <1>16, <1>17 DEF Q, Q0
<1>19. (IF flush THEN 0 ELSE gro_times + 1) \in 0 .. GroFlushCycles - 1
  BY <1>2
<1>20. /\ t.pkts = pkts /\ t.gro = left
       /\ t.gro_times \in 0 .. GroFlushCycles - 1
  <2> HIDE DEF flush
  <2> QED
    BY <1>1, <1>19
<1> QED
  BY <1>9, <1>11, <1>12, <1>18, <1>20 DEF t

\* What the checksum engine makes of a burst, save with the table of GRO: a
\* burst that fits into the array it is sent from.
LEMMA TreatedAcc ==
  ASSUME NEW B, Acc(mbuf, B), NEW ms \in Seq(Mbufs), IsInjective(ms),
         Range(ms) \subseteq FreeMbufs(mbuf), ms # <<>>, Len(ms) <= MaxPktBurst,
         mode.option \in {"none", "split", "gro_burst", "gso"},
         NEW t \in Treated(Alloc(mbuf, ms), ms)
  PROVE  /\ t.pkts \in Seq(Mbufs)
         /\ Len(t.pkts) <= IF mode.option = "gso" THEN GsoMaxPktBurst
                           ELSE MaxPktBurst
         /\ Acc(t.mb, Plus(B, t.pkts))
<1> DEFINE mb0 == Alloc(mbuf, ms)
           option == mode.option
<1>1. TxPktNbSegs \in Nat \ {0}
  BY EnginesAssumption
<1>2. B \in [Mbufs -> Nat] /\ Acc(mb0, Plus(B, ms))
  BY AccType, AllocPlus
<1>3. CASE option = "none"
  <2>1. Treated(mb0, ms) = {[mb |-> mb0, pkts |-> ms]}
    BY <1>3 DEF Treated
  <2>2. t = [mb |-> mb0, pkts |-> ms]
    BY <2>1
  <2> HIDE DEF mb0
  <2> QED
    BY <1>2, <1>3, <2>2
<1>4. CASE option = "split"
  <2>1. Treated(mb0, ms)
          = {SplitAll(mb0, ms, nb_seg, copied) :
               nb_seg \in 1 .. TxPktNbSegs, copied \in SUBSET Range(ms)}
    BY <1>4 DEF Treated
  <2>2. PICK nb_seg \in 1 .. TxPktNbSegs, copied \in SUBSET Range(ms) :
          t = SplitAll(mb0, ms, nb_seg, copied)
    BY <2>1
  <2>3. nb_seg \in Nat \ {0}
    BY <1>1
  <2> HIDE DEF mb0
  <2>4. /\ t.pkts \in Seq(Mbufs) /\ Len(t.pkts) = Len(ms)
        /\ Acc(t.mb, Plus(B, t.pkts))
    BY <1>2, <2>2, <2>3, SplitAcc
  <2> QED
    BY <1>4, <2>4
<1>5. CASE option = "gro_burst"
  <2>1. Treated(mb0, ms)
          = {GroBurst(mb0, ms, kept) : kept \in (SUBSET Range(ms)) \ {{}}}
    BY <1>5 DEF Treated
  <2>2. PICK kept \in SUBSET Range(ms) : kept # {} /\ t = GroBurst(mb0, ms, kept)
    <3>1. t \in {GroBurst(mb0, ms, kept) : kept \in (SUBSET Range(ms)) \ {{}}}
      BY <2>1
    <3>2. PICK kept \in (SUBSET Range(ms)) \ {{}} : t = GroBurst(mb0, ms, kept)
      BY <3>1
    <3> QED
      BY <3>2
  <2>3. /\ t.pkts \in Seq(Mbufs) /\ Len(t.pkts) <= Len(ms)
        /\ Acc(t.mb, Plus(B, t.pkts))
    BY <2>2, GroAcc
  <2>4. Len(t.pkts) \in Nat /\ Len(ms) \in Nat /\ MaxPktBurst \in Nat
    BY <2>3, LenProperties, EnginesAssumption
  <2>5. Len(t.pkts) <= MaxPktBurst
    BY <2>3, <2>4
  <2> QED
    BY <1>5, <2>3, <2>5
<1>6. CASE option = "gso"
  <2>1. Treated(mb0, ms)
          = {GsoSegments(mb0, ms, ret) :
               ret \in [Range(ms) -> {"cut", "whole", "refused"}]}
    BY <1>6 DEF Treated
  <2>2. PICK ret \in [Range(ms) -> {"cut", "whole", "refused"}] :
          t = GsoSegments(mb0, ms, ret)
    BY <2>1
  <2> HIDE DEF mb0
  <2>3. /\ t.pkts \in Seq(Mbufs) /\ Len(t.pkts) <= GsoMaxPktBurst
        /\ Acc(t.mb, Plus(B, t.pkts))
    BY <1>2, <2>2, GsoAcc
  <2> QED
    BY <1>6, <2>3
<1> QED
  BY <1>3, <1>4, <1>5, <1>6

-----------------------------------------------------------------------------
(* The runs of the shared receive queue.                                   *)

\* forward_sub_burst counts list many packets list there are in the run.
LEMMA CountedOf ==
  ASSUME NEW P, NEW list \in Seq(P), NEW port \in P, NEW nb \in Nat,
         NEW run, run.counted = list, run.port = port, run.nb = nb
  PROVE  /\ Counted(run) \in Seq(P) /\ Len(Counted(run)) = Len(list) + nb
         /\ \A j \in 1 .. Len(list) : Counted(run)[j] = list[j]
         /\ \A j \in Len(list) + 1 .. Len(list) + nb : Counted(run)[j] = port
<1> DEFINE more == [i \in 1 .. nb |-> port]
           s    == list \o more
<1>1. Counted(run) = s
  BY DEF Counted
<1>2. Len(list) \in Nat
  BY LenProperties
<1>3. more \in Seq(P) /\ Len(more) = nb /\ \A i \in 1 .. nb : more[i] = port
  BY IsASeq
<1> HIDE DEF more
<1>6. /\ s \in Seq(P) /\ Len(s) = Len(list) + nb
      /\ \A i \in 1 .. Len(list) + nb :
           s[i] = IF i <= Len(list) THEN list[i] ELSE more[i - Len(list)]
  <2>1. /\ list \o more \in Seq(P) /\ Len(list \o more) = Len(list) + Len(more)
        /\ \A i \in 1 .. Len(list) + Len(more) : (list \o more)[i] =
             IF i <= Len(list) THEN list[i] ELSE more[i - Len(list)]
    BY <1>3, ConcatProperties, ZenonT(60)
  <2> QED
    BY <1>3, <2>1
<1>4. /\ s \in Seq(P) /\ Len(s) = Len(list) + nb
      /\ \A j \in 1 .. Len(list) : s[j] = list[j]
      /\ \A i \in 1 .. nb : s[Len(list) + i] = port
  <2> HIDE DEF s
  <2>1. ASSUME NEW j \in 1 .. Len(list) PROVE s[j] = list[j]
    BY <1>2, <1>6
  <2>2. ASSUME NEW i \in 1 .. nb PROVE s[Len(list) + i] = port
    <3>1. /\ Len(list) + i \in 1 .. Len(list) + nb /\ ~(Len(list) + i <= Len(list))
          /\ Len(list) + i - Len(list) = i
      BY <1>2
    <3> QED
      BY <1>3, <1>6, <3>1
  <2> QED
    BY <1>6, <2>1, <2>2
<1> HIDE DEF s
<1>5. ASSUME NEW j \in Len(list) + 1 .. Len(list) + nb PROVE s[j] = port
  <2>1. j - Len(list) \in 1 .. nb /\ Len(list) + (j - Len(list)) = j
    BY <1>2
  <2> QED
    BY <1>4, <2>1
<1> QED
  BY <1>1, <1>4, <1>5

RunTurns(g, ports) ==
  g = [i \in 0 .. Len(ports) - 1 |->
         IF i = 0 THEN [counted |-> <<>>, port |-> ports[1], nb |-> 0]
         ELSE CutBefore(g[i - 1], i, ports)]

\* Each packet of the burst is counted, and for the port it came from, unless
\* it is the last one.
LEMMA CountedForEach ==
  ASSUME NEW P, NEW ports \in Seq(P), ports # <<>>
  PROVE  /\ CountedFor(ports) \in Seq(P) /\ Len(CountedFor(ports)) = Len(ports)
         /\ \A j \in 1 .. Len(ports) - 1 : CountedFor(ports)[j] = ports[j]
<1> DEFINE n    == Len(ports) - 1
           a    == [counted |-> <<>>, port |-> ports[1], nb |-> 0]
           X    == [counted : Seq(P), port : P, nb : Nat]
           J(i) == {x \in X : /\ Len(x.counted) + x.nb = i
                              /\ \A j \in 1 .. Len(x.counted) : x.counted[j] = ports[j]
                              /\ \A j \in Len(x.counted) + 1 .. i : ports[j] = x.port
                              /\ i = 0 => x.port = ports[1]}
           I    == [i \in 0 .. n |-> J(i)]
           F    == [x \in X \X (1 .. n) |-> CutBefore(x[1], x[2], ports)]
<1>1. n \in Nat /\ Len(ports) = n + 1 /\ \A j \in 1 .. n + 1 : ports[j] \in P
  <2>1. Len(ports) \in Nat /\ Len(ports) # 0
    BY LenProperties, EmptySeq
  <2>2. \A j \in 1 .. Len(ports) : ports[j] \in P
    BY ElementOfSeq
  <2> QED
    BY <2>1, <2>2
<1> HIDE DEF n
<1>5. a \in I[0]
  <2>1. <<>> \in Seq(P) /\ Len(<<>>) = 0
    OBVIOUS
  <2>2. ports[1] \in P
    BY <1>1
  <2>3. a \in X /\ a.counted = <<>> /\ a.nb = 0 /\ a.port = ports[1]
    BY <2>1, <2>2
  <2>4. a \in J(0)
    BY <2>1, <2>3
  <2> QED
    BY <1>1, <2>4
<1> HIDE DEF a
<1>6. ASSUME NEW i \in 1 .. n, NEW x \in I[i - 1]
      PROVE  CutBefore(x, i, ports) \in I[i]
  <2>1. i - 1 \in 0 .. n /\ i \in 0 .. n /\ i \in 1 .. n + 1
    BY <1>1
  <2> DEFINE list   == x.counted
             port == x.port
             nb   == x.nb
             y    == CutBefore(x, i, ports)
  <2>2. /\ list \in Seq(P) /\ Len(list) \in Nat /\ nb \in Nat /\ port \in P
        /\ x = [counted |-> list, port |-> port, nb |-> nb]
        /\ Len(list) + nb = i - 1
        /\ \A j \in 1 .. Len(list) : list[j] = ports[j]
        /\ \A j \in Len(list) + 1 .. i - 1 : ports[j] = port
        /\ i - 1 = 0 => port = ports[1]
    BY <2>1, LenProperties
  <2>3. y = IF i > 1 /\ port # ports[i]
            THEN [counted |-> Counted(x), port |-> ports[i], nb |-> 1]
            ELSE [x EXCEPT !.nb = nb + 1]
    BY DEF CutBefore
  <2>4. x.counted = list /\ x.port = port /\ x.nb = nb
    OBVIOUS
  <2> HIDE DEF list, port, nb, y
  <2> SUFFICES y \in J(i)
    BY <2>1 DEF y
  <2>5. CASE i > 1 /\ port # ports[i]
    <3> DEFINE c == Counted(x)
    <3>1. /\ c \in Seq(P) /\ Len(c) = Len(list) + nb
          /\ \A j \in 1 .. Len(list) : c[j] = list[j]
          /\ \A j \in Len(list) + 1 .. Len(list) + nb : c[j] = port
      BY <2>2, <2>4, CountedOf
    <3>2. y = [counted |-> c, port |-> ports[i], nb |-> 1]
      BY <2>3, <2>5
    <3> HIDE DEF c
    <3>3. ports[i] \in P
      BY <1>1, <2>1
    <3>4. y \in X /\ y.counted = c /\ y.port = ports[i] /\ y.nb = 1
      BY <3>1, <3>2, <3>3
    <3>5. Len(c) = i - 1 /\ Len(c) + 1 = i
      BY <2>1, <2>2, <3>1
    <3>6. ASSUME NEW j \in 1 .. Len(c) PROVE c[j] = ports[j]
      <4>1. CASE j \in 1 .. Len(list)
        BY <2>2, <3>1, <4>1
      <4>2. CASE j \in Len(list) + 1 .. i - 1
        BY <2>2, <3>1, <4>2
      <4> QED
        BY <2>2, <3>5, <4>1, <4>2
    <3>7. \A j \in Len(c) + 1 .. i : ports[j] = ports[i]
      BY <2>1, <3>5
    <3>8. i # 0
      BY <2>1
    <3> QED
      BY <3>4, <3>5, <3>6, <3>7, <3>8
  <2>6. CASE ~(i > 1 /\ port # ports[i])
    <3>1. y = [counted |-> list, port |-> port, nb |-> nb + 1]
      BY <2>2, <2>3, <2>6
    <3>2. y \in X /\ y.counted = list /\ y.port = port /\ y.nb = nb + 1
      BY <2>2, <3>1
    <3>3. port = ports[i]
      BY <2>1, <2>2, <2>6
    <3>4. Len(list) + (nb + 1) = i /\ i # 0
      BY <2>1, <2>2
    <3>5. ASSUME NEW j \in Len(list) + 1 .. i PROVE ports[j] = port
      <4>1. CASE j = i
        BY <3>3, <4>1
      <4>2. CASE j # i
        <5>1. j \in Len(list) + 1 .. i - 1
          BY <2>1, <2>2, <4>2
        <5> QED
          BY <2>2, <5>1
      <4> QED
        BY <4>1, <4>2
    <3> QED
      BY <2>2, <3>2, <3>4, <3>5
  <2> QED
    BY <2>5, <2>6
<1>7. \A i \in 0 .. n : I[i] \subseteq X
  OBVIOUS
<1> HIDE DEF X, I
<1>8. \E g : RunTurns(g, ports)
  <2>1. \A i \in 1 .. n : \A x \in I[i - 1] :
          /\ x \in X /\ F[<<x, i>>] = CutBefore(x, i, ports)
    <3> SUFFICES ASSUME NEW i \in 1 .. n, NEW x \in I[i - 1]
                 PROVE  /\ x \in X
                        /\ F[<<x, i>>] = CutBefore(x, i, ports)
      OBVIOUS
    <3>1. i - 1 \in 0 .. n
      BY <1>1
    <3>2. x \in X
      BY <1>7, <3>1
    <3> QED
      BY <3>2
  <2> HIDE DEF F
  <2>2. \A i \in 1 .. n : \A x \in I[i - 1] : F[<<x, i>>] \in I[i]
    BY <1>6, <2>1
  <2>3. PICK g : Turns(n, a, F, g) /\ \A i \in 0 .. n : g[i] \in I[i]
    BY <1>1, <1>5, <2>2, LoopReaches
  <2>4. \A i \in 0 .. n : i # 0 =>
          F[<<g[i - 1], i>>] = CutBefore(g[i - 1], i, ports)
    <3> SUFFICES ASSUME NEW i \in 0 .. n, i # 0
                 PROVE  F[<<g[i - 1], i>>] = CutBefore(g[i - 1], i, ports)
      OBVIOUS
    <3>1. i \in 1 .. n /\ i - 1 \in 0 .. n
      BY <1>1
    <3>2. g[i - 1] \in I[i - 1]
      BY <2>3, <3>1
    <3> QED
      BY <2>1, <3>1, <3>2
  <2>5. g = [i \in 0 .. n |-> IF i = 0 THEN a
                              ELSE CutBefore(g[i - 1], i, ports)]
    BY <2>3, <2>4 DEF Turns
  <2>6. RunTurns(g, ports)
    BY <2>5 DEF RunTurns, n, a
  <2> QED
    BY <2>6
<1>9. \A g : RunTurns(g, ports) => g[n] \in I[n]
  <2> SUFFICES ASSUME NEW g, RunTurns(g, ports) PROVE g[n] \in I[n]
    OBVIOUS
  <2>1. g = [i \in 0 .. n |-> IF i = 0 THEN a
                              ELSE CutBefore(g[i - 1], i, ports)]
    BY DEF RunTurns, n, a
  <2>2. g[0] \in I[0]
    BY <1>1, <1>5, <2>1
  <2>3. \A i \in 1 .. n : g[i - 1] \in I[i - 1] => g[i] \in I[i]
    <3> SUFFICES ASSUME NEW i \in 1 .. n, g[i - 1] \in I[i - 1]
                 PROVE  g[i] \in I[i]
      OBVIOUS
    <3>1. i \in 0 .. n /\ i # 0
      BY <1>1
    <3>2. g[i] = CutBefore(g[i - 1], i, ports)
      BY <2>1, <3>1
    <3> QED
      BY <1>6, <3>2
  <2>4. \A i \in 0 .. n : g[i] \in I[i]
    BY <1>1, <2>2, <2>3, LoopKeeps, Zenon
  <2> QED
    BY <1>1, <2>4
<1> DEFINE run[i \in 0 .. Len(ports) - 1] ==
             IF i = 0 THEN [counted |-> <<>>, port |-> ports[1], nb |-> 0]
             ELSE CutBefore(run[i - 1], i, ports)
           end  == run[n]
           last == [end EXCEPT !.nb = @ + 1]
<1>10. run = CHOOSE g : RunTurns(g, ports)
  BY DEF RunTurns
<1>11. CountedFor(ports) = Counted(last)
  BY DEF CountedFor, n
<1> HIDE DEF run
<1>12. RunTurns(run, ports)
  BY <1>8, <1>10
<1>13. run[n] \in I[n]
  BY <1>9, <1>12
<1> HIDE DEF end
<1>14. /\ end \in X /\ end.counted \in Seq(P) /\ end.port \in P /\ end.nb \in Nat
       /\ Len(end.counted) + end.nb = n /\ Len(end.counted) \in Nat
       /\ \A j \in 1 .. Len(end.counted) : end.counted[j] = ports[j]
       /\ \A j \in Len(end.counted) + 1 .. n : ports[j] = end.port
  BY <1>1, <1>13, LenProperties DEF I, X, end
<1> DEFINE list   == end.counted
           port == end.port
           k    == end.nb + 1
<1>15. /\ last.counted = list /\ last.port = port /\ last.nb = k /\ k \in Nat
       /\ Len(list) + k = n + 1
  BY <1>1, <1>14 DEF X
<1>16. list \in Seq(P) /\ port \in P
  BY <1>14
<1> HIDE DEF list, port, k, last
<1> DEFINE c == Counted(last)
<1>17. /\ c \in Seq(P) /\ Len(c) = Len(list) + k
       /\ \A j \in 1 .. Len(list) : c[j] = list[j]
       /\ \A j \in Len(list) + 1 .. Len(list) + k : c[j] = port
  BY <1>15, <1>16, CountedOf
<1> HIDE DEF c
<1>18. ASSUME NEW j \in 1 .. n PROVE c[j] = ports[j]
  <2>1. CASE j \in 1 .. Len(list)
    BY <1>14, <1>17, <2>1 DEF list
  <2>2. CASE j \notin 1 .. Len(list)
    <3>1. j \in Len(list) + 1 .. n /\ j \in Len(list) + 1 .. Len(list) + k
      BY <1>1, <1>14, <1>15, <2>2 DEF list
    <3> QED
      BY <1>14, <1>17, <3>1 DEF list, port
  <2> QED
    BY <2>1, <2>2
<1> QED
  BY <1>1, <1>11, <1>15, <1>17, <1>18 DEF c, n

-----------------------------------------------------------------------------
(* The numbers of the flows.                                               *)

\* A multiple of b is no number between two multiples of b.
LEMMA NoMultiple ==
  ASSUME NEW b \in Nat \ {0}, NEW k \in Int, b * k < b, -b < b * k
  PROVE  k = 0
<1>1. CASE k >= 1
  <2>1. b * k >= b
    BY <1>1, SMTT(30)
  <2> QED
    BY <2>1
<1>2. CASE k <= -1
  <2>1. b * k <= -b
    BY <1>2, SMTT(30)
  <2> QED
    BY <2>1
<1> QED
  BY <1>1, <1>2

\* Giving numbers back, after the division, is as if they had not been taken.
LEMMA ModBack ==
  ASSUME NEW a \in Nat, NEW b \in Nat \ {0}, NEW d \in 0 .. a
  PROVE  ((a % b) - d) % b = (a - d) % b
<1> DEFINE q1 == a \div b
           r  == a % b
           x  == r - d
           q2 == x \div b
           s  == x % b
           c  == a - d
           q3 == c \div b
           t  == c % b
<1>1. q1 \in Int /\ r \in 0 .. b - 1 /\ a = b * q1 + r
  OBVIOUS
<1> HIDE DEF q1, r
<1>2. x \in Int /\ c \in Int /\ c = b * q1 + x
  BY <1>1
<1> HIDE DEF x, c
<1>3. q2 \in Int /\ s \in 0 .. b - 1 /\ x = b * q2 + s
  BY <1>2
<1>4. q3 \in Int /\ t \in 0 .. b - 1 /\ c = b * q3 + t
  BY <1>2
<1> HIDE DEF q2, s, q3, t
<1> DEFINE k == q1 + q2 - q3
<1>5. k \in Int /\ b * k = b * q1 + b * q2 - b * q3
  BY <1>1, <1>3, <1>4
<1>6. b * q1 \in Int /\ b * q2 \in Int /\ b * q3 \in Int
  BY <1>1, <1>3, <1>4
<1> HIDE DEF k
<1>7. b * k = t - s
  BY <1>2, <1>3, <1>4, <1>5, <1>6
<1>8. b * k < b /\ -b < b * k
  BY <1>3, <1>4, <1>7
<1>9. k = 0
  BY <1>5, <1>8, NoMultiple
<1>10. t = s
  BY <1>3, <1>4, <1>7, <1>9
<1> QED
  BY <1>10 DEF s, t, x, c, r

\* Taking numbers, and none of them.
LEMMA ModType ==
  ASSUME NEW a \in Nat, NEW b \in Nat \ {0}
  PROVE  a % b \in 0 .. b - 1
OBVIOUS

-----------------------------------------------------------------------------
(* The inductive invariant.                                                *)

Sending == pc \in {"transmit", "retry", "finish"}
InOrder == mode.engine \in Plain \cup {"icmpecho", "noisy"}

(* The references of the call, the ring, the table and the driver are those *)
(* that the buffers count.                                                 *)
Held(d, a, b, c) == Plus(d, a \o b \o c)
MemoryOK == Acc(mbuf, Held(driver, InHand, fifo, gro))

(* Only the noisy engine has a ring, and goes on after its burst.          *)
RingOK ==
  /\ mode.engine # "noisy" \/ mode.option = "none" => fifo = <<>>
  /\ pc \in {"flush", "drain"} => mode.engine = "noisy"

(* A packet that is to be sent in order is there once.                     *)
OnceOK == InOrder => IsInjective(arrived)

CountsOK ==
  /\ {counts.rx, counts.tx, counts.dropped, counts.came, counts.discarded,
      counts.handed, counts.first[1], counts.first[2]} \subseteq Nat
  /\ counts = [rx |-> counts.rx, tx |-> counts.tx, dropped |-> counts.dropped,
               came |-> counts.came, discarded |-> counts.discarded,
               handed |-> counts.handed, misplaced |-> counts.misplaced,
               first |-> counts.first]

(* While packets are sent: what the call has counted, and which numbers it *)
(* has taken.                                                              *)
CallOK ==
  /\ pc = "transmit" => nb_tx = 0 /\ retry = 0
  /\ Sending =>
       /\ counts.handed = nb_tx /\ counts.tx = 0 /\ counts.dropped = 0
       /\ mode.engine # "noisy" => counts.came = Len(burst) + counts.discarded
       /\ mode.engine = "flowgen" =>
            next_flow = (counts.first[1] + Len(burst)) % NbFlows
       /\ mode.engine = "txonly" =>
            ip_var = (counts.first[2] + Len(burst)) % IpVarRange

EnginesInv ==
  /\ TypeOK /\ MemoryOK /\ RingOK /\ OnceOK /\ OrderKept
  /\ CountsOK /\ CallOK /\ CountersBalance /\ FlowsBackedOut

-----------------------------------------------------------------------------
(* What every step needs.                                                  *)

\* The references of four parts are added.
LEMMA HeldSum ==
  ASSUME NEW d \in [Mbufs -> Nat], NEW a \in Seq(Mbufs), NEW b \in Seq(Mbufs),
         NEW c \in Seq(Mbufs)
  PROVE  /\ Held(d, a, b, c) \in [Mbufs -> Nat]
         /\ \A m \in Mbufs :
              /\ Held(d, a, b, c)[m]
                   = d[m] + Times(a)[m] + Times(b)[m] + Times(c)[m]
              /\ d[m] \in Nat /\ Times(a)[m] \in Nat /\ Times(b)[m] \in Nat
              /\ Times(c)[m] \in Nat
<1> DEFINE ab  == a \o b
           abc == ab \o c
           H   == Held(d, a, b, c)
<1>1. ab \in Seq(Mbufs) /\ \A m \in Mbufs : Times(ab)[m] = Times(a)[m] + Times(b)[m]
  BY ConcatProperties, TimesConcat
<1>2. H = Plus(d, abc)
  BY DEF Held
<1> HIDE DEF ab, H
<1>3. /\ abc \in Seq(Mbufs)
      /\ \A m \in Mbufs : Times(abc)[m] = Times(ab)[m] + Times(c)[m]
  BY <1>1, ConcatProperties, TimesConcat
<1> HIDE DEF abc
<1>4. /\ Plus(d, abc) \in [Mbufs -> Nat]
      /\ \A m \in Mbufs : Plus(d, abc)[m] = d[m] + Times(abc)[m] /\ d[m] \in Nat
  BY <1>3, PlusType
<1>5. \A m \in Mbufs : /\ Times(a)[m] \in Nat /\ Times(b)[m] \in Nat
                       /\ Times(c)[m] \in Nat
  BY TimesIn
<1>6. ASSUME NEW m \in Mbufs
      PROVE  H[m] = d[m] + Times(a)[m] + Times(b)[m] + Times(c)[m]
  <2> DEFINE w == d[m]
             x == Times(a)[m]
             y == Times(b)[m]
             z == Times(c)[m]
  <2>1. w \in Nat /\ x \in Nat /\ y \in Nat /\ z \in Nat
    BY <1>4, <1>5
  <2>2. H[m] = w + ((x + y) + z)
    BY <1>1, <1>2, <1>3, <1>4
  <2> HIDE DEF w, x, y, z
  <2>3. H[m] = w + x + y + z
    BY <2>1, <2>2
  <2> QED
    BY <2>3 DEF w, x, y, z
<1> QED
  BY <1>2, <1>4, <1>5, <1>6 DEF H

\* The packets of the call on top of those of the ring and the table.
LEMMA HeldHand ==
  ASSUME NEW d \in [Mbufs -> Nat], NEW a \in Seq(Mbufs), NEW b \in Seq(Mbufs),
         NEW c \in Seq(Mbufs)
  PROVE  Plus(Held(d, <<>>, b, c), a) = Held(d, a, b, c)
<1> DEFINE e == <<>>
<1>1. e \in Seq(Mbufs) /\ \A m \in Mbufs : Times(e)[m] = 0
  BY TimesEmpty
<1> HIDE DEF e
<1> DEFINE P == Held(d, e, b, c)
           Q == Plus(P, a)
           R == Held(d, a, b, c)
<1> HIDE DEF P, R
<1>2. /\ P \in [Mbufs -> Nat]
      /\ \A m \in Mbufs :
           /\ P[m] = d[m] + Times(e)[m] + Times(b)[m] + Times(c)[m]
           /\ d[m] \in Nat /\ Times(e)[m] \in Nat /\ Times(b)[m] \in Nat
           /\ Times(c)[m] \in Nat
  <2>1. e \in Seq(Mbufs)
    BY <1>1
  <2> QED
    BY <2>1, HeldSum DEF P
<1>3. /\ R \in [Mbufs -> Nat]
      /\ \A m \in Mbufs :
           /\ R[m] = d[m] + Times(a)[m] + Times(b)[m] + Times(c)[m]
           /\ d[m] \in Nat /\ Times(a)[m] \in Nat /\ Times(b)[m] \in Nat
           /\ Times(c)[m] \in Nat
  BY HeldSum, ZenonT(60) DEF R
<1>4. Q \in [Mbufs -> Nat] /\ \A m \in Mbufs : Q[m] = P[m] + Times(a)[m]
  BY <1>2, PlusType
<1> HIDE DEF Q
<1>5. ASSUME NEW m \in Mbufs PROVE Q[m] = R[m]
  <2> DEFINE x == d[m]
             y == Times(b)[m]
             z == Times(c)[m]
             w == Times(a)[m]
  <2>1. x \in Nat /\ y \in Nat /\ z \in Nat /\ w \in Nat
    BY <1>2, <1>3
  <2>2. Q[m] = x + 0 + y + z + w /\ R[m] = x + w + y + z
    BY <1>1, <1>2, <1>3, <1>4
  <2> HIDE DEF x, y, z, w
  <2> QED
    BY <2>1, <2>2
<1>6. Q = R
  BY <1>3, <1>4, <1>5
<1> QED
  BY <1>6 DEF Q, R, P, e

\* What is received: new buffers, no more than fit into the burst.
LEMMA BurstsOf ==
  ASSUME NEW ms \in Bursts
  PROVE  /\ ms \in Seq(Mbufs) /\ IsInjective(ms)
         /\ Range(ms) \subseteq FreeMbufs(mbuf)
         /\ Len(ms) \in Nat /\ Len(ms) <= NbPktPerBurst /\ Len(ms) <= MaxPktBurst
         /\ Len(ms) <= GsoMaxPktBurst
         /\ mode.engine = "noisy" => Len(ms) <= (RingCapacity + 1) \div 2
<1> DEFINE half == (RingCapacity + 1) \div 2
           free == NbFree(mbuf)
           size == BurstSize
           lim  == Min({size, free})
<1>1. /\ NbPktPerBurst \in Nat /\ MaxPktBurst \in Nat /\ RingCapacity \in Nat
      /\ NbPktPerBurst <= MaxPktBurst /\ GsoMaxPktBurst \in Nat
      /\ MaxPktBurst <= GsoMaxPktBurst
  BY EnginesAssumption
<1>2. half \in Nat
  BY <1>1
<1>3. free \in Nat
  BY FreeList
<1> HIDE DEF half, free
<1>4. /\ size \in Nat /\ size <= NbPktPerBurst
      /\ mode.engine = "noisy" => size <= half
  <2>1. Min({NbPktPerBurst, half}) = IF NbPktPerBurst <= half THEN NbPktPerBurst
                                     ELSE half
    BY <1>1, <1>2, MinOf
  <2>2. size = IF mode.engine = "noisy" THEN Min({NbPktPerBurst, half})
               ELSE NbPktPerBurst
    BY DEF BurstSize, half
  <2> HIDE DEF size
  <2> QED
    BY <1>1, <1>2, <2>1, <2>2
<1> HIDE DEF size
<1>5. lim = IF size <= free THEN size ELSE free
  BY <1>3, <1>4, MinOf
<1>6. PICK n \in 0 .. lim : ms = FirstFree(mbuf, n)
  BY DEF Bursts, size, free
<1> HIDE DEF lim
<1>7. n \in 0 .. NbFree(mbuf) /\ n <= size
  BY <1>3, <1>4, <1>5, <1>6 DEF free
<1>8. /\ ms \in Seq(Mbufs) /\ Len(ms) = n /\ IsInjective(ms)
      /\ Range(ms) \subseteq FreeMbufs(mbuf)
  BY <1>6, <1>7, FirstFreeGives
<1>9. /\ Len(ms) \in Nat /\ Len(ms) <= NbPktPerBurst /\ Len(ms) <= MaxPktBurst
      /\ Len(ms) <= GsoMaxPktBurst
  BY <1>1, <1>4, <1>7, <1>8
<1>10. mode.engine = "noisy" => Len(ms) <= half
  BY <1>2, <1>4, <1>7, <1>8
<1> QED
  BY <1>8, <1>9, <1>10 DEF half

\* The settings of a stream.
LEMMA ModesOf ==
  ASSUME mode \in Modes
  PROVE  /\ mode.engine = "csum" =>
              mode.option \in {"none", "split", "gro_burst", "gro_table", "gso"}
         /\ mode.engine # "csum" => mode.option \in {"none", "fifo", "fifo_flush"}
         /\ mode.engine \notin {"csum", "noisy"} => mode.option = "none"
         /\ mode.engine \in {"noisy", "ieee1588", "shared_rxq"} =>
              mode.retry_enabled = FALSE
  BY DEF Modes, Plain

-----------------------------------------------------------------------------
(* The steps.                                                              *)

Room == IF mode.option = "gso" THEN GsoMaxPktBurst ELSE MaxPktBurst

Counted0(rx, came, discarded) ==
  [rx |-> rx, tx |-> 0, dropped |-> 0, came |-> came, discarded |-> discarded,
   handed |-> 0, misplaced |-> {}, first |-> <<next_flow, ip_var>>]

\* A call begins, and has pkts to send or returns.  It keeps the invariant
\* when the references are right and the numbers of the flows are taken.
LEMMA CallBegins ==
  ASSUME EnginesInv, pc = "idle",
         NEW pkts \in Seq(Mbufs), Len(pkts) <= Room,
         NEW prepared \in 0 .. Len(pkts), NEW rx \in Nat, NEW discarded \in Nat,
         Send(pkts, prepared) \/ (pkts = <<>> /\ Return),
         mode' = mode, driver' = driver, fifo' = fifo,
         mode.engine = "noisy" => mode.option = "none",
         gro' \in Seq(Mbufs), gro_times' \in 0 .. GroFlushCycles - 1,
         Acc(mbuf', Held(driver, pkts, fifo, gro')),
         next_flow' = IF mode.engine = "flowgen"
                      THEN (next_flow + Len(pkts)) % NbFlows ELSE next_flow,
         ip_var' = IF mode.engine = "txonly"
                   THEN (ip_var + Len(pkts)) % IpVarRange ELSE ip_var,
         counts' = Counted0(rx, Len(pkts) + discarded, discarded),
         arrived' \in Seq(Mbufs), InOrder => arrived' = pkts /\ IsInjective(pkts)
  PROVE  EnginesInv'
<1> DEFINE n == Len(pkts)
<1>1. n \in Nat /\ 0 \in 0 .. n
  BY LenProperties
<1>2. /\ TypeOK /\ RingOK
  BY DEF EnginesInv
<1>3. /\ NbFlows \in Nat \ {0} /\ IpVarRange \in Nat \ {0} /\ TxRetryNum \in Nat
      /\ 0 \in 0 .. TxRetryNum
  BY EnginesAssumption
<1>4. next_flow \in 0 .. NbFlows - 1 /\ ip_var \in 0 .. IpVarRange - 1
  BY <1>2 DEF TypeOK
<1>5. next_flow' \in 0 .. NbFlows - 1 /\ ip_var' \in 0 .. IpVarRange - 1
  <2> DEFINE a == next_flow + Len(pkts)
             b == ip_var + Len(pkts)
  <2>1. a \in Nat /\ b \in Nat
    <3>1. next_flow \in Nat /\ ip_var \in Nat /\ Len(pkts) \in Nat
      BY <1>1, <1>3, <1>4
    <3> QED
      BY <3>1
  <2>2. /\ next_flow' = IF mode.engine = "flowgen" THEN a % NbFlows ELSE next_flow
        /\ ip_var' = IF mode.engine = "txonly" THEN b % IpVarRange ELSE ip_var
    OBVIOUS
  <2> HIDE DEF a, b
  <2>3. a % NbFlows \in 0 .. NbFlows - 1 /\ b % IpVarRange \in 0 .. IpVarRange - 1
    BY <1>3, <2>1, ModType
  <2> QED
    BY <1>4, <2>2, <2>3
<1>6. /\ burst' = pkts /\ nb_tx' = 0 /\ nb_prep' \in 0 .. n /\ retry' = 0
      /\ pc' = "transmit" \/ (pc' = "idle" /\ n = 0)
  <2>1. CASE Send(pkts, prepared)
    BY <2>1 DEF Send
  <2>2. CASE pkts = <<>> /\ Return
    BY <1>1, <2>2 DEF Return
  <2> QED
    BY <2>1, <2>2
<1>7. mbuf' \in MB
  BY AccType
<1>8. TypeOK'
  <2>1. /\ mode \in Modes /\ driver \in [Mbufs -> Nat]
        /\ fifo \in Seq(Mbufs) /\ Len(fifo) <= RingCapacity
    BY <1>2 DEF TypeOK
  <2>2. Len(pkts) <= IF mode'.option = "gso" THEN GsoMaxPktBurst ELSE MaxPktBurst
    BY DEF Room
  <2>3. /\ pc' \in {"idle", "transmit", "retry", "finish", "flush", "drain"}
        /\ nb_tx' \in 0 .. Len(burst') /\ nb_prep' \in 0 .. Len(burst')
        /\ retry' \in 0 .. TxRetryNum
    BY <1>1, <1>3, <1>6
  <2> QED
    BY <1>5, <1>6, <1>7, <2>1, <2>2, <2>3 DEF TypeOK, MB
<1>9. InHand' = pkts
  <2>1. CASE pc' = "transmit"
    <3>1. InHand' = SubSeq(pkts, 0 + 1, Len(pkts))
      BY <1>6, <2>1 DEF InHand
    <3> QED
      BY <1>1, <3>1
  <2>2. CASE pc' = "idle" /\ n = 0
    <3>1. InHand' = <<>>
      BY <2>2 DEF InHand
    <3>2. pkts = <<>>
      BY <2>2, EmptySeq
    <3> QED
      BY <3>1, <3>2
  <2> QED
    BY <1>6, <2>1, <2>2
<1>10. MemoryOK'
  BY <1>9 DEF MemoryOK
<1>11. RingOK'
  BY <1>2, <1>6 DEF RingOK
<1>12. (InOrder' <=> InOrder)
  BY DEF InOrder
<1>13. OnceOK'
  BY <1>12 DEF OnceOK
<1>14. OrderKept'
  <2>1. CASE InOrder
    <3>1. fifo = <<>>
      BY <1>2 DEF RingOK
    <3>2. pkts \o <<>> = pkts
      BY ConcatEmptySeq
    <3> QED
      BY <1>9, <2>1, <3>1, <3>2 DEF OrderKept
  <2>2. CASE ~InOrder
    BY <2>2 DEF OrderKept, InOrder
  <2> QED
    BY <2>1, <2>2
<1> DEFINE c == counts'
<1>15. /\ c.rx = rx /\ c.tx = 0 /\ c.dropped = 0 /\ c.came = n + discarded
       /\ c.discarded = discarded /\ c.handed = 0 /\ c.misplaced = {}
       /\ c.first[1] = next_flow /\ c.first[2] = ip_var
       /\ c = [rx |-> c.rx, tx |-> c.tx, dropped |-> c.dropped,
               came |-> c.came, discarded |-> c.discarded,
               handed |-> c.handed, misplaced |-> c.misplaced,
               first |-> c.first]
  BY DEF Counted0
<1> HIDE DEF c
<1>16. CountsOK'
  <2>2. next_flow \in Nat /\ ip_var \in Nat /\ n + discarded \in Nat
    BY <1>1, <1>3, <1>4
  <2> HIDE DEF n
  <2>1. {c.rx, c.tx, c.dropped, c.came, c.discarded, c.handed,
         c.first[1], c.first[2]} \subseteq Nat
    BY <1>15, <2>2
  <2> QED
    BY <1>15, <2>1 DEF CountsOK, c
<1>17. CallOK'
  BY <1>6, <1>15 DEF CallOK, Sending, c
<1>18. CountersBalance'
  <2>1. CountedByPort'
    BY <1>15 DEF CountedByPort, c
  <2>2. pc' = "idle" => c.tx = c.handed /\ c.came = c.tx + c.dropped + c.discarded
    BY <1>1, <1>6, <1>15
  <2> QED
    BY <2>1, <2>2 DEF CountersBalance, c
<1>19. FlowsBackedOut'
  BY <1>6, <1>15 DEF FlowsBackedOut, c
<1> QED
  BY <1>8, <1>10, <1>11, <1>13, <1>14, <1>16, <1>17, <1>18, <1>19 DEF EnginesInv

\* Between two calls.
LEMMA Between ==
  ASSUME EnginesInv, pc = "idle"
  PROVE  /\ mode \in Modes /\ driver \in [Mbufs -> Nat]
         /\ fifo \in Seq(Mbufs) /\ gro \in Seq(Mbufs) /\ arrived \in Seq(Mbufs)
         /\ gro_times \in 0 .. GroFlushCycles - 1
         /\ Held(driver, <<>>, fifo, gro) \in [Mbufs -> Nat]
         /\ Acc(mbuf, Held(driver, <<>>, fifo, gro))
         /\ InHand = <<>>
<1>1. TypeOK /\ MemoryOK
  BY DEF EnginesInv
<1>2. InHand = <<>>
  BY DEF InHand
<1>3. Acc(mbuf, Held(driver, <<>>, fifo, gro))
  BY <1>1, <1>2 DEF MemoryOK
<1> QED
  BY <1>1, <1>2, <1>3, AccType DEF TypeOK

\* The packets that a call makes of what it received, on top of the rest.
LEMMA InTheHand ==
  ASSUME EnginesInv, pc = "idle", NEW mb, NEW pkts \in Seq(Mbufs),
         Acc(mb, Plus(Held(driver, <<>>, fifo, gro), pkts))
  PROVE  Acc(mb, Held(driver, pkts, fifo, gro))
<1>1. /\ driver \in [Mbufs -> Nat] /\ fifo \in Seq(Mbufs) /\ gro \in Seq(Mbufs)
  BY Between
<1>2. Plus(Held(driver, <<>>, fifo, gro), pkts) = Held(driver, pkts, fifo, gro)
  BY <1>1, HeldHand
<1> QED
  BY <1>2

\* A call that has nothing to send.
LEMMA NothingInHand ==
  ASSUME EnginesInv, pc = "idle", NEW mb,
         Acc(mb, Held(driver, <<>>, fifo, gro)), NEW pkts, pkts = <<>>
  PROVE  Acc(mb, Held(driver, pkts, fifo, gro))
OBVIOUS

\* The counters of a call that begins.
LEMMA CountsBegin ==
  ASSUME NEW rx, NEW discarded
  PROVE  /\ Counts(rx, discarded) = Counted0(rx, rx, discarded)
         /\ \A k : [Counts(rx, discarded) EXCEPT !.came = k]
                     = Counted0(rx, k, discarded)
<1>1. Counts(rx, discarded) = Counted0(rx, rx, discarded)
  <2> DEFINE f  == <<next_flow, ip_var>>
             n  == NoCounts
             n1 == [n EXCEPT !.rx = rx]
             n2 == [n1 EXCEPT !.came = rx]
             n3 == [n2 EXCEPT !.discarded = discarded]
             n4 == [n3 EXCEPT !.first = f]
  <2>1. Counts(rx, discarded) = n4
    <3> HIDE DEF f, n
    <3>1. Counts(rx, discarded)
            = [n EXCEPT !.rx = rx, !.came = rx, !.discarded = discarded, !.first = f]
      BY DEF Counts, f, n
    <3> QED
      BY <3>1
  <2>2. n1 = [rx |-> rx, tx |-> 0, dropped |-> 0, came |-> 0, discarded |-> 0,
              handed |-> 0, misplaced |-> {}, first |-> <<0, 0>>]
    BY DEF NoCounts
  <2> HIDE DEF n1, f
  <2>3. n2 = [rx |-> rx, tx |-> 0, dropped |-> 0, came |-> rx, discarded |-> 0,
              handed |-> 0, misplaced |-> {}, first |-> <<0, 0>>]
    BY <2>2
  <2> HIDE DEF n2
  <2>4. n3 = [rx |-> rx, tx |-> 0, dropped |-> 0, came |-> rx,
              discarded |-> discarded,
              handed |-> 0, misplaced |-> {}, first |-> <<0, 0>>]
    BY <2>3
  <2> HIDE DEF n3
  <2>5. n4 = [rx |-> rx, tx |-> 0, dropped |-> 0, came |-> rx,
              discarded |-> discarded, handed |-> 0, misplaced |-> {}, first |-> f]
    BY <2>4
  <2> QED
    BY <2>1, <2>5 DEF Counted0, f
<1>2. ASSUME NEW k
      PROVE  [Counted0(rx, rx, discarded) EXCEPT !.came = k]
               = Counted0(rx, k, discarded)
  BY DEF Counted0
<1> QED
  BY <1>1, <1>2

\* Packets are sent as they came.
LEMMA ForwardStep ==
  ASSUME EnginesInv, Begin(Plain), Forward
  PROVE  EnginesInv'
<1>1. pc = "idle" /\ mode.engine \in Plain
  BY DEF Begin
<1>2. PICK ms \in Bursts :
        /\ mbuf' = Alloc(mbuf, ms)
        /\ arrived' = ms
        /\ counts' = Counts(Len(ms), 0)
        /\ IF ms = <<>> THEN Return ELSE Send(ms, Len(ms))
        /\ UNCHANGED <<mode, driver, fifo, table, flows>>
  BY DEF Forward
<1>3. /\ ms \in Seq(Mbufs) /\ IsInjective(ms) /\ Range(ms) \subseteq FreeMbufs(mbuf)
      /\ Len(ms) \in Nat /\ Len(ms) <= MaxPktBurst
  BY BurstsOf
<1>4. /\ mode \in Modes /\ gro \in Seq(Mbufs)
      /\ gro_times \in 0 .. GroFlushCycles - 1
      /\ Acc(mbuf, Held(driver, <<>>, fifo, gro))
  BY <1>1, Between
<1>5. mode.option = "none" /\ Len(ms) <= Room
  BY <1>1, <1>3, <1>4, ModesOf DEF Plain, Room
<1>6. Acc(Alloc(mbuf, ms), Plus(Held(driver, <<>>, fifo, gro), ms))
  BY <1>3, <1>4, AllocPlus
<1>7. Acc(Alloc(mbuf, ms), Held(driver, ms, fifo, gro))
  BY <1>1, <1>3, <1>6, InTheHand
<1>8. /\ mode' = mode /\ driver' = driver /\ fifo' = fifo /\ gro' = gro
      /\ gro_times' = gro_times /\ next_flow' = next_flow /\ ip_var' = ip_var
  BY <1>2 DEF table, flows
<1>9. Acc(mbuf', Held(driver, ms, fifo, gro'))
  BY <1>2, <1>7, <1>8
<1>10. counts' = Counted0(Len(ms), Len(ms) + 0, 0)
  <2>1. Len(ms) + 0 = Len(ms)
    BY <1>3
  <2> QED
    BY <1>2, <2>1, CountsBegin
<1>11. Send(ms, Len(ms)) \/ (ms = <<>> /\ Return)
  BY <1>2
<1>12. /\ Len(ms) \in 0 .. Len(ms) /\ 0 \in Nat /\ mode.engine # "noisy"
       /\ mode.engine # "flowgen" /\ mode.engine # "txonly"
  BY <1>1, <1>3 DEF Plain
<1> QED
  BY <1>1, <1>2, <1>3, <1>4, <1>5, <1>8, <1>9, <1>10, <1>11, <1>12, CallBegins

\* What is received is freed at once.
LEMMA ReceiveStep ==
  ASSUME EnginesInv, pkt_burst_receive
  PROVE  EnginesInv'
<1>1. /\ pc = "idle" /\ mode.engine = "rxonly" /\ Return
      /\ mode' = mode /\ driver' = driver /\ fifo' = fifo /\ gro' = gro
      /\ gro_times' = gro_times /\ next_flow' = next_flow /\ ip_var' = ip_var
      /\ arrived' = arrived
  BY DEF pkt_burst_receive, Begin, table, flows
<1>2. PICK ms \in Bursts :
        /\ mbuf' = rte_pktmbuf_free(Alloc(mbuf, ms), ms)
        /\ counts' = Counts(Len(ms), Len(ms))
  BY DEF pkt_burst_receive
<1>3. /\ ms \in Seq(Mbufs) /\ IsInjective(ms) /\ Range(ms) \subseteq FreeMbufs(mbuf)
      /\ Len(ms) \in Nat
  BY BurstsOf
<1> DEFINE B == Held(driver, <<>>, fifo, gro)
<1>4. /\ mode \in Modes /\ gro \in Seq(Mbufs) /\ arrived \in Seq(Mbufs)
      /\ gro_times \in 0 .. GroFlushCycles - 1
      /\ B \in [Mbufs -> Nat] /\ Acc(mbuf, B)
  BY <1>1, Between
<1>5. Acc(mbuf', B)
  <2> HIDE DEF B
  <2>1. Acc(Alloc(mbuf, ms), Plus(B, ms))
    BY <1>3, <1>4, AllocPlus
  <2> QED
    BY <1>2, <1>3, <1>4, <2>1, FreePlus
<1> DEFINE pkts == <<>>
<1>6. /\ pkts \in Seq(Mbufs) /\ Len(pkts) = 0 /\ Len(pkts) <= Room
      /\ 0 \in 0 .. Len(pkts)
  BY EnginesAssumption DEF Room
<1>7. Acc(mbuf', Held(driver, pkts, fifo, gro'))
  BY <1>1, <1>5
<1> HIDE DEF B
<1>8. counts' = Counted0(Len(ms), Len(pkts) + Len(ms), Len(ms))
  <2>1. Len(pkts) + Len(ms) = Len(ms)
    BY <1>3, <1>6
  <2> QED
    BY <1>2, <2>1, CountsBegin
<1>9. pkts = <<>> /\ Return
  BY <1>1
<1>10. /\ mode.engine # "noisy" /\ mode.engine # "flowgen" /\ mode.engine # "txonly"
       /\ ~InOrder
  BY <1>1 DEF InOrder, Plain
<1> HIDE DEF pkts
<1> QED
  BY <1>1, <1>3, <1>4, <1>6, <1>7, <1>8, <1>9, <1>10, CallBegins

\* The replies are sent in the order of the requests.
LEMMA ReplyStep ==
  ASSUME EnginesInv, reply_to_icmp_echo_rqsts
  PROVE  EnginesInv'
<1>1. /\ pc = "idle" /\ mode.engine = "icmpecho"
      /\ mode' = mode /\ driver' = driver /\ fifo' = fifo /\ gro' = gro
      /\ gro_times' = gro_times /\ next_flow' = next_flow /\ ip_var' = ip_var
  BY DEF reply_to_icmp_echo_rqsts, Begin, table, flows
<1>20. PICK ms \in Bursts : \E requests \in SUBSET Range(ms) :
          LET replies == Kept(ms, requests)
              others  == Kept(ms, Range(ms) \ requests)
          IN  /\ mbuf' = rte_pktmbuf_free(Alloc(mbuf, ms), others)
              /\ arrived' = replies
              /\ counts' = Counts(Len(ms), Len(others))
              /\ IF replies = <<>> THEN Return ELSE Send(replies, Len(replies))
  BY DEF reply_to_icmp_echo_rqsts
<1>2. PICK requests \in SUBSET Range(ms) :
        LET replies == Kept(ms, requests)
            others  == Kept(ms, Range(ms) \ requests)
        IN  /\ mbuf' = rte_pktmbuf_free(Alloc(mbuf, ms), others)
            /\ arrived' = replies
            /\ counts' = Counts(Len(ms), Len(others))
            /\ IF replies = <<>> THEN Return ELSE Send(replies, Len(replies))
  BY <1>20
<1> DEFINE pkts   == Kept(ms, requests)
           others == Kept(ms, Range(ms) \ requests)
<1>3. /\ ms \in Seq(Mbufs) /\ IsInjective(ms) /\ Range(ms) \subseteq FreeMbufs(mbuf)
      /\ Len(ms) \in Nat /\ Len(ms) <= MaxPktBurst
  BY BurstsOf
<1> DEFINE B == Held(driver, <<>>, fifo, gro)
<1>4. /\ mode \in Modes /\ gro \in Seq(Mbufs)
      /\ gro_times \in 0 .. GroFlushCycles - 1
      /\ B \in [Mbufs -> Nat] /\ Acc(mbuf, B)
  BY <1>1, Between
<1>5. /\ pkts \in Seq(Mbufs) /\ others \in Seq(Mbufs) /\ IsInjective(pkts)
      /\ Len(pkts) + Len(others) = Len(ms) /\ Len(pkts) <= Len(ms)
      /\ \A m \in Mbufs : Times(ms)[m] = Times(pkts)[m] + Times(others)[m]
  BY <1>3, KeptBoth
<1>6. /\ mbuf' = rte_pktmbuf_free(Alloc(mbuf, ms), others)
      /\ arrived' = pkts /\ counts' = Counts(Len(ms), Len(others))
      /\ IF pkts = <<>> THEN Return ELSE Send(pkts, Len(pkts))
  BY <1>2
<1> HIDE DEF B, pkts, others
<1>7. Len(pkts) \in Nat /\ Len(others) \in Nat
  BY <1>5, LenProperties
<1>8. Acc(mbuf', Plus(B, pkts))
  <2>1. Acc(Alloc(mbuf, ms), Plus(B, ms))
    BY <1>3, <1>4, AllocPlus
  <2> DEFINE P == Plus(B, pkts)
             Q == Plus(P, others)
             R == Plus(B, ms)
  <2>2. P \in [Mbufs -> Nat] /\ \A m \in Mbufs : P[m] = B[m] + Times(pkts)[m]
    BY <1>4, <1>5, PlusType
  <2>3. /\ R \in [Mbufs -> Nat]
        /\ \A m \in Mbufs : R[m] = B[m] + Times(ms)[m] /\ B[m] \in Nat
    BY <1>3, <1>4, PlusType
  <2> HIDE DEF P, R
  <2>4. Q \in [Mbufs -> Nat] /\ \A m \in Mbufs : Q[m] = P[m] + Times(others)[m]
    BY <1>5, <2>2, PlusType
  <2> HIDE DEF Q
  <2>5. ASSUME NEW m \in Mbufs PROVE Q[m] = R[m]
    <3> DEFINE x == B[m]
               y == Times(pkts)[m]
               z == Times(others)[m]
    <3>1. x \in Nat /\ y \in Nat /\ z \in Nat
      BY <1>5, <2>3, TimesIn
    <3>2. Q[m] = (x + y) + z /\ R[m] = x + (y + z)
      BY <1>5, <2>2, <2>3, <2>4
    <3> HIDE DEF x, y, z
    <3> QED
      BY <3>1, <3>2
  <2>6. Q = R
    BY <2>3, <2>4, <2>5
  <2>7. Acc(Alloc(mbuf, ms), Plus(P, others))
    BY <2>1, <2>6 DEF Q, R
  <2>8. Acc(rte_pktmbuf_free(Alloc(mbuf, ms), others), P)
    BY <1>5, <2>2, <2>7, FreePlus
  <2> QED
    BY <1>6, <2>8 DEF P
<1>9. Acc(mbuf', Held(driver, pkts, fifo, gro'))
  <2>1. Acc(mbuf', Plus(Held(driver, <<>>, fifo, gro), pkts))
    BY <1>8 DEF B
  <2>2. Acc(mbuf', Held(driver, pkts, fifo, gro))
    BY <1>1, <1>5, <2>1, InTheHand
  <2> QED
    BY <1>1, <2>2
<1>10. counts' = Counted0(Len(ms), Len(pkts) + Len(others), Len(others))
  BY <1>5, <1>6, CountsBegin
<1>11. Send(pkts, Len(pkts)) \/ (pkts = <<>> /\ Return)
  BY <1>6
<1>12. mode.option = "none" /\ Len(pkts) <= Room
  <2>1. mode.option = "none"
    BY <1>1, <1>4, ModesOf
  <2>2. Len(pkts) <= MaxPktBurst
    BY <1>3, <1>5, <1>7, EnginesAssumption
  <2> QED
    BY <2>1, <2>2 DEF Room
<1>13. /\ Len(pkts) \in 0 .. Len(pkts) /\ mode.engine # "noisy"
       /\ mode.engine # "flowgen" /\ mode.engine # "txonly"
  BY <1>1, <1>7
<1> QED
  BY <1>1, <1>3, <1>4, <1>5, <1>6, <1>7, <1>9, <1>10, <1>11, <1>12, <1>13, CallBegins

\* Packets are made, each with the next number of a flow.
LEMMA TransmitStep ==
  ASSUME EnginesInv, pkt_burst_transmit
  PROVE  EnginesInv'
<1>1. /\ pc = "idle" /\ mode.engine = "txonly"
      /\ mode' = mode /\ driver' = driver /\ fifo' = fifo /\ gro' = gro
      /\ gro_times' = gro_times /\ next_flow' = next_flow /\ arrived' = arrived
  BY DEF pkt_burst_transmit, Begin, table
<1>2. PICK avail \in 0 .. NbFree(mbuf) :
        \E nb_segs \in [1 .. NbPktPerBurst -> 1 .. TxPktNbSegs] :
         LET made == IF avail >= NbPktPerBurst THEN PreparedInBulk(avail, nb_segs)
                     ELSE PreparedOneByOne(avail, nb_segs)
             nb   == Len(made.pkts)
         IN  /\ mbuf' = made.mb
             /\ ip_var' = (ip_var + nb) % IpVarRange
             /\ counts' = [Counts(0, 0) EXCEPT !.came = nb]
             /\ IF nb = 0 THEN Return ELSE Send(made.pkts, nb)
  BY DEF pkt_burst_transmit
<1>3. PICK nb_segs \in [1 .. NbPktPerBurst -> 1 .. TxPktNbSegs] :
         LET made == IF avail >= NbPktPerBurst THEN PreparedInBulk(avail, nb_segs)
                     ELSE PreparedOneByOne(avail, nb_segs)
             nb   == Len(made.pkts)
         IN  /\ mbuf' = made.mb
             /\ ip_var' = (ip_var + nb) % IpVarRange
             /\ counts' = [Counts(0, 0) EXCEPT !.came = nb]
             /\ IF nb = 0 THEN Return ELSE Send(made.pkts, nb)
  BY <1>2
<1> DEFINE bulk == PreparedInBulk(avail, nb_segs)
           one  == PreparedOneByOne(avail, nb_segs)
           made == IF avail >= NbPktPerBurst THEN bulk ELSE one
           pkts == made.pkts
           B    == Held(driver, <<>>, fifo, gro)
<1>4. /\ mode \in Modes /\ gro \in Seq(Mbufs) /\ arrived \in Seq(Mbufs)
      /\ gro_times \in 0 .. GroFlushCycles - 1
      /\ B \in [Mbufs -> Nat] /\ Acc(mbuf, B)
  BY <1>1, Between
<1>5. /\ mbuf' = made.mb
      /\ ip_var' = (ip_var + Len(pkts)) % IpVarRange
      /\ counts' = [Counts(0, 0) EXCEPT !.came = Len(pkts)]
      /\ IF Len(pkts) = 0 THEN Return ELSE Send(pkts, Len(pkts))
  BY <1>3
<1>6. NbFree(mbuf) \in Nat /\ NbPktPerBurst \in Nat /\ MaxPktBurst \in Nat
      /\ NbPktPerBurst <= MaxPktBurst
  BY FreeList, EnginesAssumption
<1>7. /\ pkts \in Seq(Mbufs) /\ Len(pkts) <= NbPktPerBurst
      /\ Acc(made.mb, Plus(B, pkts))
  <2> HIDE DEF B
  <2>1. CASE avail >= NbPktPerBurst
    <3>1. avail \in NbPktPerBurst .. NbFree(mbuf)
      BY <1>6, <2>1
    <3>2. /\ bulk.pkts \in Seq(Mbufs) /\ Len(bulk.pkts) <= NbPktPerBurst
          /\ Acc(bulk.mb, Plus(B, bulk.pkts))
      BY <1>4, <3>1, BulkAcc
    <3>3. made = bulk
      BY <2>1
    <3> HIDE DEF made, bulk
    <3> QED
      BY <3>2, <3>3
  <2>2. CASE ~(avail >= NbPktPerBurst)
    <3>2. /\ one.pkts \in Seq(Mbufs) /\ Len(one.pkts) <= NbPktPerBurst
          /\ Acc(one.mb, Plus(B, one.pkts))
      BY <1>4, OneByOneAcc
    <3>3. made = one
      BY <2>2
    <3> HIDE DEF made, one
    <3> QED
      BY <3>2, <3>3
  <2> QED
    BY <2>1, <2>2
<1> HIDE DEF made, bulk, one
<1>8. Acc(mbuf', Plus(Held(driver, <<>>, fifo, gro), pkts))
  BY <1>5, <1>7
<1> HIDE DEF B, pkts
<1>9. Acc(mbuf', Held(driver, pkts, fifo, gro'))
  <2>1. Acc(mbuf', Held(driver, pkts, fifo, gro))
    BY <1>1, <1>7, <1>8, InTheHand
  <2> QED
    BY <1>1, <2>1
<1>10. Len(pkts) \in Nat /\ (Len(pkts) = 0 => pkts = <<>>)
  BY <1>7, LenProperties, EmptySeq
<1>11. counts' = Counted0(0, Len(pkts) + 0, 0)
  <2>1. Len(pkts) + 0 = Len(pkts)
    BY <1>10
  <2> QED
    BY <1>5, <2>1, CountsBegin
<1>12. Send(pkts, Len(pkts)) \/ (pkts = <<>> /\ Return)
  BY <1>5, <1>10
<1>13. mode.option = "none" /\ Len(pkts) <= Room
  <2>1. mode.option = "none"
    BY <1>1, <1>4, ModesOf
  <2>2. Len(pkts) <= MaxPktBurst
    BY <1>6, <1>7, <1>10
  <2> QED
    BY <2>1, <2>2 DEF Room
<1>14. /\ Len(pkts) \in 0 .. Len(pkts) /\ mode.engine # "noisy" /\ 0 \in Nat
       /\ mode.engine # "flowgen" /\ ~InOrder
  BY <1>1, <1>10 DEF InOrder, Plain
<1> QED
  BY <1>1, <1>4, <1>5, <1>7, <1>9, <1>11, <1>12, <1>13, <1>14, CallBegins

\* What is received is freed, and packets of the next flows are made.
LEMMA FlowGenStep ==
  ASSUME EnginesInv, pkt_burst_flow_gen
  PROVE  EnginesInv'
<1>1. /\ pc = "idle" /\ mode.engine = "flowgen"
      /\ mode' = mode /\ driver' = driver /\ fifo' = fifo /\ gro' = gro
      /\ gro_times' = gro_times /\ ip_var' = ip_var /\ arrived' = arrived
  BY DEF pkt_burst_flow_gen, Begin, table
<1>2. PICK ms \in Bursts : \E avail \in 0 .. NbFree(mbuf) :
       LET made == Generated(rte_pktmbuf_free(Alloc(mbuf, ms), ms), avail)
           nb   == Len(made.pkts)
       IN  /\ mbuf' = made.mb
           /\ next_flow' = (next_flow + nb) % NbFlows
           /\ counts' = [Counts(Len(ms), Len(ms)) EXCEPT !.came = @ + nb]
           /\ Send(made.pkts, nb)
  BY DEF pkt_burst_flow_gen
<1>3. PICK avail \in 0 .. NbFree(mbuf) :
       LET made == Generated(rte_pktmbuf_free(Alloc(mbuf, ms), ms), avail)
           nb   == Len(made.pkts)
       IN  /\ mbuf' = made.mb
           /\ next_flow' = (next_flow + nb) % NbFlows
           /\ counts' = [Counts(Len(ms), Len(ms)) EXCEPT !.came = @ + nb]
           /\ Send(made.pkts, nb)
  BY <1>2
<1> DEFINE mb0  == rte_pktmbuf_free(Alloc(mbuf, ms), ms)
           made == Generated(mb0, avail)
           pkts == made.pkts
           B    == Held(driver, <<>>, fifo, gro)
<1>4. /\ mode \in Modes /\ gro \in Seq(Mbufs) /\ arrived \in Seq(Mbufs)
      /\ gro_times \in 0 .. GroFlushCycles - 1
      /\ B \in [Mbufs -> Nat] /\ Acc(mbuf, B)
  BY <1>1, Between
<1>5. /\ mbuf' = made.mb
      /\ next_flow' = (next_flow + Len(pkts)) % NbFlows
      /\ counts' = [Counts(Len(ms), Len(ms)) EXCEPT !.came = @ + Len(pkts)]
      /\ Send(pkts, Len(pkts))
  BY <1>3
<1>6. NbFree(mbuf) \in Nat /\ NbPktPerBurst \in Nat /\ MaxPktBurst \in Nat
      /\ NbPktPerBurst <= MaxPktBurst
  BY FreeList, EnginesAssumption
<1>7. /\ ms \in Seq(Mbufs) /\ IsInjective(ms) /\ Range(ms) \subseteq FreeMbufs(mbuf)
      /\ Len(ms) \in Nat
  BY BurstsOf
<1> HIDE DEF B
<1>8. Acc(mb0, B) /\ avail \in 0 .. NbFree(mb0)
  <2>1. Acc(Alloc(mbuf, ms), Plus(B, ms))
    BY <1>4, <1>7, AllocPlus
  <2>3. Acc(mb0, B)
    BY <1>4, <1>7, <2>1, FreePlus
  <2> HIDE DEF mb0
  <2>4. FreeMbufs(mbuf) \subseteq FreeMbufs(mb0)
    <3> SUFFICES ASSUME NEW m \in FreeMbufs(mbuf), m \notin FreeMbufs(mb0)
                 PROVE  FALSE
      OBVIOUS
    <3>1. m \in Mbufs /\ mbuf[m].refcnt = 0
      BY DEF FreeMbufs
    <3>2. Times(ms)[m] = IF m \in Range(ms) THEN 1 ELSE 0
      BY <1>7, <3>1, TimesOne
    <3>3. m \in Range(ms) <=> Contains(ms, m)
      BY <1>7 DEF Range, Contains
    <3> DEFINE a == Alloc(mbuf, ms)
               t == Times(ms)
               r == Released(a, t)
    <3>4. a[m] = IF m \in Range(ms) THEN [refcnt |-> 1, segs |-> {}] ELSE mbuf[m]
      BY <3>1, <3>3 DEF Alloc
    <3> HIDE DEF a
    <3>5. a[m].refcnt - t[m] = 0
      BY <3>1, <3>2, <3>4
    <3> HIDE DEF t
    <3>6. r[m] = InPool \/ r[m] = [refcnt |-> a[m].refcnt - t[m], segs |-> a[m].segs]
      BY <3>1 DEF Released
    <3> HIDE DEF r
    <3>7. r[m].refcnt = 0
      BY <3>5, <3>6 DEF InPool
    <3>8. r = mb0
      BY DEF r, t, a, mb0, rte_pktmbuf_free
    <3> QED
      BY <3>1, <3>7, <3>8 DEF FreeMbufs
  <2>5. NbFree(mbuf) <= NbFree(mb0) /\ NbFree(mb0) \in Nat
    BY <2>4, MoreFree
  <2>6. avail \in 0 .. NbFree(mb0)
    BY <1>6, <2>5
  <2> QED
    BY <2>3, <2>6
<1> HIDE DEF mb0
<1>9. /\ pkts \in Seq(Mbufs) /\ Len(pkts) <= NbPktPerBurst
      /\ Acc(made.mb, Plus(B, pkts))
  BY <1>8, GeneratedAcc
<1> HIDE DEF made
<1>10. Acc(mbuf', Plus(Held(driver, <<>>, fifo, gro), pkts))
  BY <1>5, <1>9 DEF B
<1> HIDE DEF pkts
<1>11. Acc(mbuf', Held(driver, pkts, fifo, gro'))
  <2>1. Acc(mbuf', Held(driver, pkts, fifo, gro))
    BY <1>1, <1>9, <1>10, InTheHand
  <2> QED
    BY <1>1, <2>1
<1>12. Len(pkts) \in Nat
  BY <1>9, LenProperties
<1>13. counts' = Counted0(Len(ms), Len(pkts) + Len(ms), Len(ms))
  <2> DEFINE n == Len(ms)
             k == Len(pkts)
             c == Counted0(n, n, n)
  <2>1. Counts(n, n) = c
    BY CountsBegin
  <2>2. counts' = [c EXCEPT !.came = @ + k]
    BY <1>5, <2>1
  <2>3. n \in Nat /\ k \in Nat
    BY <1>7, <1>12
  <2> HIDE DEF n, k
  <2>4. c.came = n
    BY DEF Counted0
  <2> HIDE DEF c
  <2>5. counts' = [c EXCEPT !.came = k + n]
    BY <2>2, <2>3, <2>4
  <2>6. [c EXCEPT !.came = k + n] = Counted0(n, k + n, n)
    BY DEF c, Counted0
  <2>7. counts' = Counted0(n, k + n, n)
    BY <2>5, <2>6
  <2> QED
    BY <2>7 DEF n, k
<1>14. mode.option = "none" /\ Len(pkts) <= Room
  <2>1. mode.option = "none"
    BY <1>1, <1>4, ModesOf
  <2>2. Len(pkts) <= MaxPktBurst
    BY <1>6, <1>9, <1>12
  <2> QED
    BY <2>1, <2>2 DEF Room
<1>15. /\ Len(pkts) \in 0 .. Len(pkts) /\ mode.engine # "noisy"
       /\ mode.engine # "txonly" /\ ~InOrder
  BY <1>1, <1>12 DEF InOrder, Plain
<1>16. Send(pkts, Len(pkts))
  BY <1>5
<1> QED
  BY <1>1, <1>4, <1>5, <1>7, <1>9, <1>11, <1>13, <1>14, <1>15, <1>16, CallBegins

\* A checksum call that received nothing, or treats its packets at once.
LEMMA TreatStep ==
  ASSUME EnginesInv, Begin({"csum"}), NEW ms \in Bursts,
         UNCHANGED <<mode, driver, fifo, flows, arrived>>,
         mode.option # "gro_table", NEW t \in Treated(Alloc(mbuf, ms), ms),
         ms # <<>>, mbuf' = t.mb, UNCHANGED table,
         counts' = [Counts(Len(ms), 0) EXCEPT !.came = Len(t.pkts)],
         \E prepared \in 0 .. Len(t.pkts) : Send(t.pkts, prepared)
  PROVE  EnginesInv'
<1>1. /\ pc = "idle" /\ mode.engine = "csum"
      /\ mode' = mode /\ driver' = driver /\ fifo' = fifo /\ gro' = gro
      /\ gro_times' = gro_times /\ next_flow' = next_flow /\ ip_var' = ip_var
      /\ arrived' = arrived
  BY DEF Begin, table, flows
<1> DEFINE B    == Held(driver, <<>>, fifo, gro)
           pkts == t.pkts
<1>2. /\ mode \in Modes /\ gro \in Seq(Mbufs) /\ arrived \in Seq(Mbufs)
      /\ gro_times \in 0 .. GroFlushCycles - 1
      /\ B \in [Mbufs -> Nat] /\ Acc(mbuf, B)
  BY <1>1, Between
<1>3. /\ ms \in Seq(Mbufs) /\ IsInjective(ms) /\ Range(ms) \subseteq FreeMbufs(mbuf)
      /\ Len(ms) \in Nat /\ Len(ms) <= MaxPktBurst
  BY BurstsOf
<1>4. mode.option \in {"none", "split", "gro_burst", "gso"}
  BY <1>1, <1>2, ModesOf
<1> HIDE DEF B
<1>5. /\ pkts \in Seq(Mbufs)
      /\ Len(pkts) <= IF mode.option = "gso" THEN GsoMaxPktBurst ELSE MaxPktBurst
      /\ Acc(t.mb, Plus(B, pkts))
  BY <1>2, <1>3, <1>4, TreatedAcc
<1>6. PICK prepared \in 0 .. Len(pkts) : Send(pkts, prepared)
  OBVIOUS
<1>7. counts' = [Counts(Len(ms), 0) EXCEPT !.came = Len(pkts)]
  OBVIOUS
<1>8. Acc(mbuf', Plus(Held(driver, <<>>, fifo, gro), pkts))
  BY <1>5 DEF B
<1> HIDE DEF pkts
<1>9. Acc(mbuf', Held(driver, pkts, fifo, gro'))
  <2>1. Acc(mbuf', Held(driver, pkts, fifo, gro))
    BY <1>1, <1>5, <1>8, InTheHand
  <2> QED
    BY <1>1, <2>1
<1>10. Len(pkts) \in Nat
  BY <1>5, LenProperties
<1>11. counts' = Counted0(Len(ms), Len(pkts) + 0, 0)
  <2>1. Len(pkts) + 0 = Len(pkts)
    BY <1>10
  <2> QED
    BY <1>7, <2>1, CountsBegin
<1>12. Len(pkts) <= Room
  BY <1>5 DEF Room
<1>13. /\ mode.engine # "noisy" /\ mode.engine # "flowgen" /\ 0 \in Nat
       /\ mode.engine # "txonly" /\ ~InOrder
  BY <1>1 DEF InOrder, Plain
<1> QED
  BY <1>1, <1>2, <1>3, <1>5, <1>6, <1>9, <1>11, <1>12, <1>13, CallBegins

\* A checksum call that puts packets into the table of the core, and may take
\* older ones out.
LEMMA GroTableStep ==
  ASSUME EnginesInv, Begin({"csum"}), NEW ms \in Bursts,
         UNCHANGED <<mode, driver, fifo, flows, arrived>>,
         NEW kept \in SUBSET Range(ms), NEW t, t = GroTable(ms, kept),
         mbuf' = Alloc(mbuf, ms), gro' = t.gro, gro_times' = t.gro_times,
         counts' = [Counts(Len(ms), 0) EXCEPT !.came = Len(t.pkts)],
         \E prepared \in 0 .. Len(t.pkts) : Send(t.pkts, prepared)
  PROVE  EnginesInv'
<1>1. /\ pc = "idle" /\ mode.engine = "csum"
      /\ mode' = mode /\ driver' = driver /\ fifo' = fifo
      /\ next_flow' = next_flow /\ ip_var' = ip_var
      /\ arrived' = arrived
  BY DEF Begin, flows
<1> DEFINE pkts == t.pkts
           none == <<>>
<1>2. /\ mode \in Modes /\ gro \in Seq(Mbufs) /\ arrived \in Seq(Mbufs)
      /\ gro_times \in 0 .. GroFlushCycles - 1 /\ driver \in [Mbufs -> Nat]
      /\ Acc(mbuf, Held(driver, <<>>, fifo, gro))
  BY <1>1, Between
<1>3. /\ ms \in Seq(Mbufs) /\ IsInjective(ms) /\ Range(ms) \subseteq FreeMbufs(mbuf)
      /\ Len(ms) \in Nat /\ Len(ms) <= MaxPktBurst /\ MaxPktBurst <= GsoMaxPktBurst
      /\ MaxPktBurst \in Nat /\ GsoMaxPktBurst \in Nat
  BY BurstsOf, EnginesAssumption
<1>4. fifo = none
  <2>1. RingOK
    BY DEF EnginesInv
  <2> QED
    BY <1>1, <2>1 DEF RingOK
<1>5. ASSUME NEW g \in Seq(Mbufs)
      PROVE  Held(driver, <<>>, fifo, g) = Plus(driver, g)
  <2>1. <<>> \o <<>> \o g = g
    BY ConcatEmptySeq
  <2> QED
    BY <1>4, <2>1 DEF Held
<1>6. Acc(mbuf, Plus(driver, gro))
  BY <1>2, <1>5
<1>7. Acc(Alloc(mbuf, ms), Plus(Plus(driver, gro), ms))
  <2> DEFINE G == Plus(driver, gro)
  <2> HIDE DEF G
  <2>1. Acc(mbuf, G)
    BY <1>6 DEF G
  <2>2. Acc(Alloc(mbuf, ms), Plus(G, ms))
    BY <1>3, <2>1, AllocPlus
  <2> QED
    BY <2>2 DEF G
<1>8. LET u == GroTable(ms, kept)
      IN  /\ u.pkts \in Seq(Mbufs) /\ Len(u.pkts) <= MaxPktBurst
          /\ u.gro \in Seq(Mbufs) /\ u.gro_times \in 0 .. GroFlushCycles - 1
          /\ Acc(Alloc(mbuf, ms), Plus(Plus(driver, u.gro), u.pkts))
  BY <1>2, <1>3, <1>7, TableAcc
<1>9. /\ pkts \in Seq(Mbufs) /\ Len(pkts) <= MaxPktBurst
      /\ gro' \in Seq(Mbufs) /\ gro_times' \in 0 .. GroFlushCycles - 1
      /\ Acc(mbuf', Plus(Plus(driver, gro'), pkts))
  BY <1>8
<1>10. PICK prepared \in 0 .. Len(pkts) : Send(pkts, prepared)
  OBVIOUS
<1>11. counts' = [Counts(Len(ms), 0) EXCEPT !.came = Len(pkts)]
  OBVIOUS
<1> DEFINE g == gro'
<1> HIDE DEF pkts, g
<1>12. Acc(mbuf', Held(driver, pkts, fifo, gro'))
  <2>1. fifo \in Seq(Mbufs) /\ g \in Seq(Mbufs)
    BY <1>1, <1>9, Between DEF g
  <2>2. Plus(Held(driver, <<>>, fifo, g), pkts) = Held(driver, pkts, fifo, g)
    BY <1>2, <1>9, <2>1, HeldHand, SMTT(60)
  <2>3. Held(driver, <<>>, fifo, g) = Plus(driver, g)
    BY <1>5, <2>1
  <2>4. Acc(mbuf', Plus(Plus(driver, g), pkts))
    BY <1>9 DEF g
  <2>5. Acc(mbuf', Held(driver, pkts, fifo, g))
    BY <2>2, <2>3, <2>4
  <2> QED
    BY <2>5 DEF g
<1>13. Len(pkts) \in Nat
  BY <1>9, LenProperties
<1>14. counts' = Counted0(Len(ms), Len(pkts) + 0, 0)
  <2>1. Len(pkts) + 0 = Len(pkts)
    BY <1>13
  <2> QED
    BY <1>11, <2>1, CountsBegin
<1>15. Len(pkts) <= Room
  BY <1>3, <1>9, <1>13 DEF Room
<1>16. /\ mode.engine # "noisy" /\ mode.engine # "flowgen" /\ 0 \in Nat
       /\ mode.engine # "txonly" /\ ~InOrder
  BY <1>1 DEF InOrder, Plain
<1> QED
  BY <1>1, <1>2, <1>3, <1>9, <1>10, <1>12, <1>14, <1>15, <1>16, CallBegins

\* The checksum engine.
LEMMA ChecksumStep ==
  ASSUME EnginesInv, pkt_burst_checksum_forward
  PROVE  EnginesInv'
<1>1. Begin({"csum"}) /\ UNCHANGED <<mode, driver, fifo, flows, arrived>>
  BY DEF pkt_burst_checksum_forward
<1>2. PICK ms \in Bursts :
       LET mb0 == Alloc(mbuf, ms)
       IN  IF ms = <<>> THEN Return /\ counts' = Counts(0, 0) /\ UNCHANGED <<mbuf, table>>
           ELSE IF mode.option = "gro_table"
           THEN \E kept \in SUBSET Range(ms) :
                  LET t == GroTable(ms, kept)
                  IN  /\ mbuf' = mb0 /\ gro' = t.gro /\ gro_times' = t.gro_times
                      /\ counts' = [Counts(Len(ms), 0) EXCEPT !.came = Len(t.pkts)]
                      /\ \E prepared \in 0 .. Len(t.pkts) : Send(t.pkts, prepared)
           ELSE \E t \in Treated(mb0, ms) :
                  /\ mbuf' = t.mb /\ UNCHANGED table
                  /\ counts' = [Counts(Len(ms), 0) EXCEPT !.came = Len(t.pkts)]
                  /\ \E prepared \in 0 .. Len(t.pkts) : Send(t.pkts, prepared)
  BY DEF pkt_burst_checksum_forward
<1>3. CASE ms = <<>>
  <2>1. Return /\ counts' = Counts(0, 0) /\ mbuf' = mbuf /\ UNCHANGED table
    BY <1>2, <1>3
  <2>2. /\ pc = "idle" /\ mode.engine = "csum"
        /\ mode' = mode /\ driver' = driver /\ fifo' = fifo /\ gro' = gro
        /\ gro_times' = gro_times /\ next_flow' = next_flow /\ ip_var' = ip_var
        /\ arrived' = arrived
    BY <1>1, <2>1 DEF Begin, table, flows
  <2>3. /\ gro \in Seq(Mbufs) /\ arrived \in Seq(Mbufs)
        /\ gro_times \in 0 .. GroFlushCycles - 1
        /\ Acc(mbuf, Held(driver, <<>>, fifo, gro))
    BY <2>2, Between
  <2> DEFINE pkts == <<>>
  <2>4. Acc(mbuf', Held(driver, pkts, fifo, gro'))
    BY <2>1, <2>2, <2>3
  <2>5. /\ pkts \in Seq(Mbufs) /\ Len(pkts) = 0 /\ Len(pkts) <= Room
        /\ 0 \in 0 .. Len(pkts) /\ 0 \in Nat /\ pkts = <<>>
    BY EnginesAssumption DEF Room
  <2> HIDE DEF pkts
  <2>6. counts' = Counted0(0, Len(pkts) + 0, 0)
    <3>1. Len(pkts) + 0 = 0
      BY <2>5
    <3> QED
      BY <2>1, <3>1, CountsBegin
  <2>7. /\ mode.engine # "noisy" /\ mode.engine # "flowgen"
        /\ mode.engine # "txonly" /\ ~InOrder
    BY <2>2 DEF InOrder, Plain
  <2> QED
    BY <2>1, <2>2, <2>3, <2>4, <2>5, <2>6, <2>7, CallBegins
<1>4. CASE ms # <<>> /\ mode.option = "gro_table"
  <2>1. PICK kept \in SUBSET Range(ms) :
          LET t == GroTable(ms, kept)
          IN  /\ mbuf' = Alloc(mbuf, ms) /\ gro' = t.gro /\ gro_times' = t.gro_times
              /\ counts' = [Counts(Len(ms), 0) EXCEPT !.came = Len(t.pkts)]
              /\ \E prepared \in 0 .. Len(t.pkts) : Send(t.pkts, prepared)
    BY <1>2, <1>4
  <2> DEFINE t == GroTable(ms, kept)
  <2>2. /\ mbuf' = Alloc(mbuf, ms) /\ gro' = t.gro /\ gro_times' = t.gro_times
        /\ counts' = [Counts(Len(ms), 0) EXCEPT !.came = Len(t.pkts)]
        /\ \E prepared \in 0 .. Len(t.pkts) : Send(t.pkts, prepared)
    BY <2>1
  <2>3. t = GroTable(ms, kept)
    OBVIOUS
  <2> HIDE DEF t
  <2> QED
    BY <1>1, <2>2, <2>3, GroTableStep
<1>5. CASE ms # <<>> /\ mode.option # "gro_table"
  <2>1. PICK t \in Treated(Alloc(mbuf, ms), ms) :
          /\ mbuf' = t.mb /\ UNCHANGED table
          /\ counts' = [Counts(Len(ms), 0) EXCEPT !.came = Len(t.pkts)]
          /\ \E prepared \in 0 .. Len(t.pkts) : Send(t.pkts, prepared)
    BY <1>2, <1>5
  <2> QED
    BY <1>1, <1>5, <2>1, TreatStep
<1> QED
  BY <1>3, <1>4, <1>5

\* A call that does all it does at once keeps the invariant, when it counts
\* what it did.
LEMMA CallEnds ==
  ASSUME EnginesInv, pc = "idle", mode.engine \in {"ieee1588", "shared_rxq"},
         Return, UNCHANGED <<mode, fifo, table, flows, arrived>>,
         driver' \in [Mbufs -> Nat],
         Acc(mbuf', Held(driver', <<>>, fifo, gro)),
         NEW rx \in Nat, NEW tx \in Nat, NEW dropped \in Nat, NEW came \in Nat,
         NEW discarded \in Nat, NEW handed \in Nat, NEW misplaced \in SUBSET {came},
         mode.engine = "shared_rxq" =>
           tx = handed /\ came = tx + dropped + discarded,
         counts' = [rx |-> rx, tx |-> tx, dropped |-> dropped, came |-> came,
                    discarded |-> discarded, handed |-> handed,
                    misplaced |-> misplaced, first |-> <<next_flow, ip_var>>]
  PROVE  EnginesInv'
<1>1. /\ mode' = mode /\ fifo' = fifo /\ gro' = gro
      /\ gro_times' = gro_times /\ next_flow' = next_flow /\ ip_var' = ip_var
      /\ arrived' = arrived /\ pc' = "idle" /\ burst' = <<>> /\ nb_prep' = 0
      /\ nb_tx' = 0 /\ retry' = 0
  BY DEF table, flows, Return
<1>2. TypeOK /\ RingOK
  BY DEF EnginesInv
<1>3. mbuf' \in MB
  BY AccType
<1>4. TypeOK'
  <2>1. /\ mode \in Modes /\ fifo \in Seq(Mbufs) /\ Len(fifo) <= RingCapacity
        /\ gro \in Seq(Mbufs) /\ gro_times \in 0 .. GroFlushCycles - 1
        /\ next_flow \in 0 .. NbFlows - 1 /\ ip_var \in 0 .. IpVarRange - 1
        /\ arrived \in Seq(Mbufs)
    BY <1>2 DEF TypeOK
  <2>2. <<>> \in Seq(Mbufs) /\ Len(<<>>) = 0
    OBVIOUS
  <2>3. /\ GsoMaxPktBurst \in Nat /\ MaxPktBurst \in Nat /\ TxRetryNum \in Nat
    BY EnginesAssumption
  <2> QED
    BY <1>1, <1>3, <2>1, <2>2, <2>3 DEF TypeOK, MB
<1>5. InHand' = <<>>
  BY <1>1 DEF InHand
<1>6. MemoryOK'
  BY <1>1, <1>5 DEF MemoryOK
<1>7. RingOK'
  BY <1>1, <1>2 DEF RingOK
<1>8. ~InOrder' /\ OnceOK' /\ OrderKept'
  BY <1>1 DEF InOrder, OnceOK, OrderKept, Plain
<1> DEFINE c == counts'
<1>9. /\ c.rx = rx /\ c.tx = tx /\ c.dropped = dropped /\ c.came = came
      /\ c.discarded = discarded /\ c.handed = handed /\ c.misplaced = misplaced
      /\ c.first[1] = next_flow /\ c.first[2] = ip_var
      /\ c = [rx |-> c.rx, tx |-> c.tx, dropped |-> c.dropped,
              came |-> c.came, discarded |-> c.discarded,
              handed |-> c.handed, misplaced |-> c.misplaced,
              first |-> c.first]
  OBVIOUS
<1> HIDE DEF c
<1>10. next_flow \in Nat /\ ip_var \in Nat
  <2>1. /\ next_flow \in 0 .. NbFlows - 1 /\ ip_var \in 0 .. IpVarRange - 1
    BY <1>2 DEF TypeOK
  <2> QED
    BY <2>1
<1>11. CountsOK'
  <2>1. {c.rx, c.tx, c.dropped, c.came, c.discarded, c.handed,
         c.first[1], c.first[2]} \subseteq Nat
    BY <1>9, <1>10
  <2> QED
    BY <1>9, <2>1 DEF CountsOK, c
<1>12. CallOK'
  BY <1>1 DEF CallOK, Sending
<1>13. CountersBalance'
  <2>1. CountedByPort'
    BY <1>9 DEF CountedByPort, c
  <2>2. mode.engine \notin {"noisy", "ieee1588"} =>
          c.tx = c.handed /\ c.came = c.tx + c.dropped + c.discarded
    BY <1>9
  <2> QED
    BY <1>1, <2>1, <2>2 DEF CountersBalance, c
<1>14. FlowsBackedOut'
  BY <1>1 DEF FlowsBackedOut
<1> QED
  BY <1>4, <1>6, <1>7, <1>8, <1>11, <1>12, <1>13, <1>14 DEF EnginesInv

\* A packet goes back where it came from, or is freed.
LEMMA PtpStep ==
  ASSUME EnginesInv, ieee1588_packet_fwd
  PROVE  EnginesInv'
<1>1. /\ pc = "idle" /\ mode.engine = "ieee1588" /\ Return
      /\ UNCHANGED <<mode, fifo, table, flows, arrived>>
  BY DEF ieee1588_packet_fwd, Begin
<1>2. PICK n \in 0 .. Min({1, NbFree(mbuf)}), sync \in BOOLEAN, sent \in BOOLEAN :
       LET ms   == FirstFree(mbuf, n)
           left == IF sync /\ sent THEN <<>> ELSE ms
           out  == IF sync /\ sent THEN ms ELSE <<>>
       IN  /\ mbuf' = rte_pktmbuf_free(Alloc(mbuf, ms), left)
           /\ driver' = Handed(out)
           /\ counts' = [Counts(n, IF sync THEN 0 ELSE n) EXCEPT
                !.tx = IF sync THEN n ELSE 0,
                !.dropped = IF sync THEN Len(left) ELSE 0,
                !.handed = Len(out)]
  BY DEF ieee1588_packet_fwd
<1> DEFINE ms   == FirstFree(mbuf, n)
           left == IF sync /\ sent THEN <<>> ELSE ms
           out  == IF sync /\ sent THEN ms ELSE <<>>
           B    == Held(driver, <<>>, fifo, gro)
<1>3. /\ mbuf' = rte_pktmbuf_free(Alloc(mbuf, ms), left)
      /\ driver' = Handed(out)
      /\ counts' = [Counts(n, IF sync THEN 0 ELSE n) EXCEPT
                !.tx = IF sync THEN n ELSE 0,
                !.dropped = IF sync THEN Len(left) ELSE 0,
                !.handed = Len(out)]
  BY <1>2
<1>4. n \in Nat /\ n \in 0 .. NbFree(mbuf)
  <2>1. NbFree(mbuf) \in Nat
    BY FreeList
  <2>2. Min({1, NbFree(mbuf)}) = IF 1 <= NbFree(mbuf) THEN 1 ELSE NbFree(mbuf)
    BY <2>1, MinOf
  <2> QED
    BY <2>1, <2>2
<1>5. /\ driver \in [Mbufs -> Nat] /\ fifo \in Seq(Mbufs) /\ gro \in Seq(Mbufs)
      /\ B \in [Mbufs -> Nat] /\ Acc(mbuf, B)
  BY <1>1, Between
<1>6. /\ ms \in Seq(Mbufs) /\ IsInjective(ms) /\ Range(ms) \subseteq FreeMbufs(mbuf)
  BY <1>4, FirstFreeGives
<1> HIDE DEF B, ms
<1>7. Acc(Alloc(mbuf, ms), Plus(B, ms))
  BY <1>5, <1>6, AllocPlus
<1>8. /\ left \in Seq(Mbufs) /\ out \in Seq(Mbufs)
      /\ \/ left = <<>> /\ out = ms
         \/ left = ms /\ out = <<>>
  BY <1>6
<1> HIDE DEF left, out
<1> DEFINE d2 == Handed(out)
           B2 == Held(d2, <<>>, fifo, gro)
<1>9. d2 \in [Mbufs -> Nat] /\ d2 = Plus(driver, out)
  <2>1. d2 = Plus(driver, out)
    BY DEF Handed, Plus
  <2> HIDE DEF d2
  <2> QED
    BY <1>5, <1>8, <2>1, PlusType
<1> HIDE DEF d2
<1>10. B2 \in [Mbufs -> Nat] /\ Plus(B2, left) = Plus(B, ms)
  <2> DEFINE e == <<>>
  <2>1. e \in Seq(Mbufs) /\ \A m \in Mbufs : Times(e)[m] = 0
    BY TimesEmpty
  <2>2. (left = e /\ out = ms) \/ (left = ms /\ out = e)
    BY <1>8
  <2> DEFINE H2 == Held(d2, e, fifo, gro)
             H1 == Held(driver, e, fifo, gro)
  <2>3. B2 = H2 /\ B = H1
    BY DEF B
  <2> HIDE DEF e, B2
  <2>30. e \in Seq(Mbufs) /\ d2 \in [Mbufs -> Nat] /\ driver \in [Mbufs -> Nat]
         /\ fifo \in Seq(Mbufs) /\ gro \in Seq(Mbufs)
    BY <1>5, <1>9, <2>1
  <2>31. /\ H2 \in [Mbufs -> Nat]
         /\ \A m \in Mbufs :
              /\ H2[m] = d2[m] + Times(e)[m] + Times(fifo)[m] + Times(gro)[m]
              /\ d2[m] \in Nat /\ Times(e)[m] \in Nat /\ Times(fifo)[m] \in Nat
              /\ Times(gro)[m] \in Nat
    <3> HIDE DEF H2
    <3> QED
      BY <2>30, HeldSum DEF H2
  <2>32. /\ H1 \in [Mbufs -> Nat]
         /\ \A m \in Mbufs :
              /\ H1[m] = driver[m] + Times(e)[m] + Times(fifo)[m] + Times(gro)[m]
              /\ driver[m] \in Nat /\ Times(e)[m] \in Nat /\ Times(fifo)[m] \in Nat
              /\ Times(gro)[m] \in Nat
    <3> HIDE DEF H1
    <3> QED
      BY <2>30, HeldSum, ZenonT(60) DEF H1
  <2> HIDE DEF H1, H2
  <2>4. /\ B2 \in [Mbufs -> Nat]
        /\ \A m \in Mbufs :
             /\ B2[m] = d2[m] + Times(e)[m] + Times(fifo)[m] + Times(gro)[m]
             /\ d2[m] \in Nat
    BY <2>3, <2>31
  <2>5. /\ \A m \in Mbufs :
             /\ B[m] = driver[m] + Times(e)[m] + Times(fifo)[m] + Times(gro)[m]
             /\ driver[m] \in Nat /\ Times(fifo)[m] \in Nat /\ Times(gro)[m] \in Nat
    BY <2>3, <2>32
  <2> DEFINE P == Plus(B2, left)
             Q == Plus(B, ms)
  <2>6. /\ P \in [Mbufs -> Nat]
        /\ \A m \in Mbufs : P[m] = B2[m] + Times(left)[m]
    BY <1>8, <2>4, PlusType
  <2>7. /\ Q \in [Mbufs -> Nat]
        /\ \A m \in Mbufs : Q[m] = B[m] + Times(ms)[m]
    BY <1>5, <1>6, PlusType
  <2>8. \A m \in Mbufs : d2[m] = driver[m] + Times(out)[m]
    BY <1>5, <1>8, <1>9, PlusType
  <2> HIDE DEF P, Q
  <2>9. ASSUME NEW m \in Mbufs PROVE P[m] = Q[m]
    <3> DEFINE w == driver[m]
               x == Times(fifo)[m]
               y == Times(gro)[m]
               z == Times(ms)[m]
               l == Times(left)[m]
               o == Times(out)[m]
    <3>1. w \in Nat /\ x \in Nat /\ y \in Nat /\ z \in Nat
      BY <1>6, <2>5, TimesIn
    <3>2. (l = 0 /\ o = z) \/ (l = z /\ o = 0)
      BY <2>1, <2>2
    <3>3. P[m] = ((w + o) + 0 + x + y) + l /\ Q[m] = (w + 0 + x + y) + z
      BY <2>1, <2>4, <2>5, <2>6, <2>7, <2>8
    <3> HIDE DEF w, x, y, z, l, o
    <3> QED
      BY <3>1, <3>2, <3>3
  <2>10. P = Q
    BY <2>6, <2>7, <2>9
  <2> QED
    BY <2>4, <2>10 DEF P, Q
<1> HIDE DEF B2
<1>11. Acc(Alloc(mbuf, ms), Plus(B2, left))
  BY <1>7, <1>10
<1>12. Acc(rte_pktmbuf_free(Alloc(mbuf, ms), left), B2)
  BY <1>8, <1>10, <1>11, FreePlus
<1>13. driver' \in [Mbufs -> Nat] /\ Acc(mbuf', Held(driver', <<>>, fifo, gro))
  BY <1>3, <1>9, <1>12 DEF B2, d2
<1> DEFINE discarded == IF sync THEN 0 ELSE n
           tx      == IF sync THEN n ELSE 0
           dropped == IF sync THEN Len(left) ELSE 0
           handed  == Len(out)
           none    == {}
<1>14. /\ discarded \in Nat /\ tx \in Nat /\ dropped \in Nat /\ handed \in Nat
  BY <1>4, <1>8, LenProperties
<1>15. counts' = [Counts(n, discarded) EXCEPT !.tx = tx, !.dropped = dropped,
                                             !.handed = handed]
  BY <1>3
<1>16. Counts(n, discarded) = Counted0(n, n, discarded)
  BY CountsBegin
<1>17. none \in SUBSET {n}
  OBVIOUS
<1> HIDE DEF discarded, tx, dropped, handed
<1>18. counts' = [rx |-> n, tx |-> tx, dropped |-> dropped, came |-> n,
                  discarded |-> discarded, handed |-> handed,
                  misplaced |-> none, first |-> <<next_flow, ip_var>>]
  <2> DEFINE f  == <<next_flow, ip_var>>
             c0 == Counted0(n, n, discarded)
             c1 == [c0 EXCEPT !.tx = tx]
             c2 == [c1 EXCEPT !.dropped = dropped]
             c3 == [c2 EXCEPT !.handed = handed]
  <2>1. c0 = [rx |-> n, tx |-> 0, dropped |-> 0, came |-> n,
              discarded |-> discarded, handed |-> 0,
              misplaced |-> none, first |-> f]
    BY DEF Counted0
  <2>2. counts' = [c0 EXCEPT !.tx = tx, !.dropped = dropped, !.handed = handed]
    BY <1>15, <1>16
  <2> HIDE DEF c0, f, none
  <2>3. counts' = c3
    BY <2>2
  <2>4. c1 = [rx |-> n, tx |-> tx, dropped |-> 0, came |-> n,
              discarded |-> discarded, handed |-> 0,
              misplaced |-> none, first |-> f]
    BY <2>1
  <2> HIDE DEF c1
  <2>5. c2 = [rx |-> n, tx |-> tx, dropped |-> dropped, came |-> n,
              discarded |-> discarded, handed |-> 0,
              misplaced |-> none, first |-> f]
    BY <2>4
  <2> HIDE DEF c2
  <2>6. c3 = [rx |-> n, tx |-> tx, dropped |-> dropped, came |-> n,
              discarded |-> discarded, handed |-> handed,
              misplaced |-> none, first |-> f]
    BY <2>5
  <2> QED
    BY <2>3, <2>6 DEF f
<1>19. mode.engine \in {"ieee1588", "shared_rxq"} /\ mode.engine # "shared_rxq"
  BY <1>1
<1> HIDE DEF none
<1> QED
  BY <1>1, <1>4, <1>13, <1>14, <1>17, <1>18, <1>19, CallEnds

\* Every packet of a shared receive queue is counted, and is freed.
LEMMA SharedStep ==
  ASSUME EnginesInv, shared_rxq_fwd
  PROVE  EnginesInv'
<1>1. /\ pc = "idle" /\ mode.engine = "shared_rxq" /\ Return
      /\ UNCHANGED <<mode, fifo, table, flows, arrived>> /\ driver' = driver
  BY DEF shared_rxq_fwd, Begin
<1>2. PICK ms \in Bursts : \E ports \in [DOMAIN ms -> SharedPorts] :
       LET port_of == IF ms = <<>> THEN <<>> ELSE CountedFor(ports)
           known   == {i \in DOMAIN port_of : port_of[i] \in StreamPorts}
       IN  /\ mbuf' = rte_pktmbuf_free(Alloc(mbuf, ms), SubSeq(ms, 1, Len(port_of)))
           /\ counts' = [Counts(Len(ms), Cardinality(known)) EXCEPT
                !.rx = Cardinality(known),
                !.dropped = Len(port_of) - Cardinality(known),
                !.misplaced = {i \in DOMAIN ms : port_of[i] # ports[i]}]
  BY DEF shared_rxq_fwd
<1>3. PICK ports \in [DOMAIN ms -> SharedPorts] :
       LET port_of == IF ms = <<>> THEN <<>> ELSE CountedFor(ports)
           known   == {i \in DOMAIN port_of : port_of[i] \in StreamPorts}
       IN  /\ mbuf' = rte_pktmbuf_free(Alloc(mbuf, ms), SubSeq(ms, 1, Len(port_of)))
           /\ counts' = [Counts(Len(ms), Cardinality(known)) EXCEPT
                !.rx = Cardinality(known),
                !.dropped = Len(port_of) - Cardinality(known),
                !.misplaced = {i \in DOMAIN ms : port_of[i] # ports[i]}]
  BY <1>2
<1> DEFINE port_of == IF ms = <<>> THEN <<>> ELSE CountedFor(ports)
           known   == {i \in DOMAIN port_of : port_of[i] \in StreamPorts}
           k       == Cardinality(known)
           n       == Len(ms)
           wrong   == {i \in DOMAIN ms : port_of[i] # ports[i]}
           dropped == Len(port_of) - k
           B       == Held(driver, <<>>, fifo, gro)
<1>4. /\ mbuf' = rte_pktmbuf_free(Alloc(mbuf, ms), SubSeq(ms, 1, Len(port_of)))
      /\ counts' = [Counts(n, k) EXCEPT !.rx = k, !.dropped = dropped,
                                        !.misplaced = wrong]
  BY <1>3
<1>5. /\ ms \in Seq(Mbufs) /\ IsInjective(ms) /\ Range(ms) \subseteq FreeMbufs(mbuf)
      /\ n \in Nat /\ DOMAIN ms = 1 .. n /\ (n = 0 => ms = <<>>)
  BY BurstsOf, EmptySeq, LenProperties
<1>6. /\ port_of \in Seq(SharedPorts) /\ Len(port_of) = n /\ wrong \subseteq {n}
  <2>1. CASE ms = <<>>
    <3>1. port_of = <<>> /\ n = 0 /\ wrong = {}
      BY <1>5, <2>1
    <3> QED
      BY <3>1
  <2>2. CASE ms # <<>>
    <3>1. ports \in Seq(SharedPorts) /\ Len(ports) = n /\ n # 0
      BY <1>5, <2>2
    <3>2. ports # <<>>
      BY <3>1
    <3>3. /\ CountedFor(ports) \in Seq(SharedPorts)
          /\ Len(CountedFor(ports)) = Len(ports)
          /\ \A j \in 1 .. Len(ports) - 1 : CountedFor(ports)[j] = ports[j]
      BY <3>1, <3>2, CountedForEach
    <3>4. port_of = CountedFor(ports)
      BY <2>2
    <3> HIDE DEF port_of
    <3>5. ASSUME NEW i \in 1 .. n, i # n PROVE port_of[i] = ports[i]
      <4>1. i \in 1 .. Len(ports) - 1
        <5> HIDE DEF n
        <5>1. n \in Nat
          BY <1>5
        <5> QED
          BY <3>1, <3>5, <5>1
      <4> QED
        BY <3>3, <3>4, <4>1
    <3> QED
      BY <1>5, <3>1, <3>3, <3>4, <3>5
  <2> QED
    BY <2>1, <2>2
<1> HIDE DEF port_of
<1>7. k \in Nat /\ dropped \in Nat /\ n = 0 + dropped + k
  <2>1. IsFiniteSet(1 .. n) /\ Cardinality(1 .. n) = n
    <3>1. IsFiniteSet(1 .. n) /\ Cardinality(1 .. n) = (IF 1 > n THEN 0 ELSE n - 1 + 1)
      BY <1>5, FS_Interval
    <3> QED
      BY <1>5, <3>1
  <2>2. known \subseteq 1 .. n
    BY <1>6
  <2> HIDE DEF known
  <2>3. k <= n /\ IsFiniteSet(known)
    BY <2>1, <2>2, FS_Subset
  <2>4. k \in Nat
    BY <2>3, FS_CardinalityType
  <2> HIDE DEF k, n
  <2> QED
    BY <1>5, <1>6, <2>3, <2>4 DEF n
<1> HIDE DEF known, k, dropped, wrong
<1>8. /\ B \in [Mbufs -> Nat] /\ Acc(mbuf, B) /\ driver \in [Mbufs -> Nat]
  BY <1>1, Between
<1> HIDE DEF B
<1>9. Acc(mbuf', B)
  <2>1. Acc(Alloc(mbuf, ms), Plus(B, ms))
    BY <1>5, <1>8, AllocPlus
  <2>2. SubSeq(ms, 1, Len(port_of)) = ms
    BY <1>5, <1>6
  <2>3. Acc(rte_pktmbuf_free(Alloc(mbuf, ms), ms), B)
    BY <1>5, <1>8, <2>1, FreePlus
  <2> QED
    BY <1>4, <2>2, <2>3
<1>10. driver' \in [Mbufs -> Nat] /\ Acc(mbuf', Held(driver', <<>>, fifo, gro))
  BY <1>1, <1>8, <1>9 DEF B
<1> DEFINE zero == 0
<1>11. counts' = [rx |-> k, tx |-> zero, dropped |-> dropped, came |-> n,
                  discarded |-> k, handed |-> zero,
                  misplaced |-> wrong, first |-> <<next_flow, ip_var>>]
  <2> DEFINE f  == <<next_flow, ip_var>>
             c0 == Counted0(n, n, k)
             c1 == [c0 EXCEPT !.rx = k]
             c2 == [c1 EXCEPT !.dropped = dropped]
             c3 == [c2 EXCEPT !.misplaced = wrong]
  <2>1. c0 = [rx |-> n, tx |-> zero, dropped |-> zero, came |-> n,
              discarded |-> k, handed |-> zero, misplaced |-> {}, first |-> f]
    BY DEF Counted0
  <2>2. counts' = [c0 EXCEPT !.rx = k, !.dropped = dropped, !.misplaced = wrong]
    BY <1>4, CountsBegin
  <2> HIDE DEF c0, f, n, zero
  <2>3. counts' = c3
    BY <2>2
  <2>4. c1 = [rx |-> k, tx |-> zero, dropped |-> zero, came |-> n,
              discarded |-> k, handed |-> zero, misplaced |-> {}, first |-> f]
    BY <2>1
  <2> HIDE DEF c1
  <2>5. c2 = [rx |-> k, tx |-> zero, dropped |-> dropped, came |-> n,
              discarded |-> k, handed |-> zero, misplaced |-> {}, first |-> f]
    BY <2>4
  <2> HIDE DEF c2
  <2>6. c3 = [rx |-> k, tx |-> zero, dropped |-> dropped, came |-> n,
              discarded |-> k, handed |-> zero, misplaced |-> wrong, first |-> f]
    BY <2>5
  <2> QED
    BY <2>3, <2>6 DEF f
<1>12. zero \in Nat /\ n = zero + dropped + k /\ wrong \in SUBSET {n}
       /\ mode.engine \in {"ieee1588", "shared_rxq"} /\ zero = zero
  BY <1>1, <1>6, <1>7
<1> HIDE DEF n, zero
<1>13. n \in Nat
  BY <1>5 DEF n
<1> QED
  BY <1>1, <1>7, <1>10, <1>11, <1>12, <1>13, CallEnds

\* A call of the noisy engine that has a ring keeps the invariant when what it
\* sends, before what is in the ring, is all that arrived.
LEMMA RingBegins ==
  ASSUME EnginesInv, pc = "idle", mode.engine = "noisy", mode.option # "none",
         UNCHANGED <<mode, driver, table, flows>>,
         NEW out \in Seq(Mbufs), Len(out) <= MaxPktBurst,
         (out = <<>> /\ GoFlush) \/ Send(out, Len(out)),
         fifo' \in Seq(Mbufs), Len(fifo') <= RingCapacity,
         Acc(mbuf', Held(driver, out, fifo', gro)),
         arrived' = out \o fifo', IsInjective(arrived'),
         NEW rx \in Nat, counts' = Counted0(rx, rx, 0)
  PROVE  EnginesInv'
<1> DEFINE n == Len(out)
<1>1. n \in Nat /\ 0 \in 0 .. n /\ n \in 0 .. n
  BY LenProperties
<1>2. TypeOK /\ RingOK
  BY DEF EnginesInv
<1>3. /\ mode' = mode /\ driver' = driver /\ gro' = gro
      /\ gro_times' = gro_times /\ next_flow' = next_flow /\ ip_var' = ip_var
  BY DEF table, flows
<1>4. /\ mode \in Modes /\ driver \in [Mbufs -> Nat]
      /\ gro \in Seq(Mbufs) /\ gro_times \in 0 .. GroFlushCycles - 1
      /\ next_flow \in 0 .. NbFlows - 1 /\ ip_var \in 0 .. IpVarRange - 1
      /\ burst \in Seq(Mbufs)
      /\ Len(burst) <= IF mode.option = "gso" THEN GsoMaxPktBurst ELSE MaxPktBurst
      /\ nb_tx \in 0 .. Len(burst) /\ nb_prep \in 0 .. Len(burst)
      /\ retry \in 0 .. TxRetryNum
  BY <1>2 DEF TypeOK
<1>5. mode.option # "gso" /\ TxRetryNum \in Nat /\ 0 \in 0 .. TxRetryNum
  <2>1. TxRetryNum \in Nat /\ 0 \in 0 .. TxRetryNum
    BY EnginesAssumption
  <2>2. mode.option \in {"none", "fifo", "fifo_flush"}
    BY <1>4, ModesOf
  <2> QED
    BY <2>1, <2>2
<1>6. \/ pc' = "flush" /\ UNCHANGED call /\ out = <<>>
      \/ /\ pc' = "transmit" /\ burst' = out /\ nb_prep' = n /\ nb_tx' = 0
         /\ retry' = 0
  BY DEF GoFlush, Send
<1>7. mbuf' \in MB
  BY AccType
<1>8. arrived' \in Seq(Mbufs)
  BY ConcatProperties
<1>9. TypeOK'
  <2>1. CASE pc' = "flush" /\ UNCHANGED call
    BY <1>3, <1>4, <1>7, <1>8, <2>1 DEF TypeOK, MB, call
  <2>2. CASE /\ pc' = "transmit" /\ burst' = out /\ nb_prep' = n /\ nb_tx' = 0
             /\ retry' = 0
    BY <1>1, <1>3, <1>4, <1>5, <1>7, <1>8, <2>2 DEF TypeOK, MB
  <2> QED
    BY <1>6, <2>1, <2>2
<1>10. InHand' = out
  <2>1. CASE pc' = "flush" /\ out = <<>>
    BY <2>1 DEF InHand
  <2>2. CASE pc' = "transmit" /\ burst' = out /\ nb_tx' = 0
    <3>1. InHand' = SubSeq(out, 0 + 1, Len(out))
      BY <2>2 DEF InHand
    <3> QED
      BY <1>1, <3>1
  <2> QED
    BY <1>6, <2>1, <2>2
<1>11. MemoryOK'
  BY <1>3, <1>10 DEF MemoryOK
<1>12. RingOK'
  BY <1>3, <1>6 DEF RingOK
<1>13. OnceOK' /\ OrderKept'
  BY <1>10 DEF OnceOK, OrderKept
<1> DEFINE c == counts'
<1>14. /\ c.rx = rx /\ c.tx = 0 /\ c.dropped = 0 /\ c.came = rx
       /\ c.discarded = 0 /\ c.handed = 0 /\ c.misplaced = {}
       /\ c.first[1] = next_flow /\ c.first[2] = ip_var
       /\ c = [rx |-> c.rx, tx |-> c.tx, dropped |-> c.dropped,
               came |-> c.came, discarded |-> c.discarded,
               handed |-> c.handed, misplaced |-> c.misplaced,
               first |-> c.first]
  BY DEF Counted0
<1> HIDE DEF c
<1>15. CountsOK'
  <2>1. next_flow \in Nat /\ ip_var \in Nat
    BY <1>4
  <2>2. {c.rx, c.tx, c.dropped, c.came, c.discarded, c.handed,
         c.first[1], c.first[2]} \subseteq Nat
    BY <1>14, <2>1
  <2> QED
    BY <1>14, <2>2 DEF CountsOK, c
<1>16. CallOK'
  BY <1>3, <1>6, <1>14 DEF CallOK, Sending, c
<1>17. CountersBalance'
  BY <1>6, <1>14 DEF CountersBalance, CountedByPort, c
<1>18. FlowsBackedOut'
  BY <1>6 DEF FlowsBackedOut
<1> QED
  BY <1>9, <1>11, <1>12, <1>13, <1>15, <1>16, <1>17, <1>18 DEF EnginesInv

\* The noisy engine takes a burst: all of it is in the ring, or pushes as many
\* of the oldest packets out.
LEMMA NoisyStep ==
  ASSUME EnginesInv, pkt_burst_noisy_vnf
  PROVE  EnginesInv'
<1>1. /\ pc = "idle" /\ mode.engine = "noisy"
      /\ UNCHANGED <<mode, driver, table, flows>>
      /\ mode' = mode /\ driver' = driver /\ gro' = gro
      /\ gro_times' = gro_times /\ next_flow' = next_flow /\ ip_var' = ip_var
  BY DEF pkt_burst_noisy_vnf, Begin, table, flows
<1>2. PICK ms \in Bursts :
       /\ mbuf' = Alloc(mbuf, ms)
       /\ arrived' = arrived \o ms
       /\ counts' = Counts(Len(ms), 0)
       /\ IF mode.option = "none"
          THEN /\ IF ms = <<>> THEN Return ELSE Send(ms, Len(ms))
               /\ UNCHANGED fifo
          ELSE IF ~Overflow(ms) THEN GoFlush /\ fifo' = fifo \o ms
          ELSE LET pushed == PushThrough(ms)
               IN  /\ fifo' = pushed.fifo
                   /\ IF pushed.out = <<>> THEN GoFlush
                      ELSE Send(pushed.out, Len(pushed.out))
  BY DEF pkt_burst_noisy_vnf
<1> DEFINE B == Held(driver, <<>>, fifo, gro)
           n == Len(ms)
<1>3. /\ ms \in Seq(Mbufs) /\ IsInjective(ms) /\ Range(ms) \subseteq FreeMbufs(mbuf)
      /\ n \in Nat /\ n <= MaxPktBurst /\ n <= (RingCapacity + 1) \div 2
  BY <1>1, BurstsOf
<1>4. /\ mode \in Modes /\ gro \in Seq(Mbufs) /\ fifo \in Seq(Mbufs)
      /\ gro_times \in 0 .. GroFlushCycles - 1 /\ driver \in [Mbufs -> Nat]
      /\ B \in [Mbufs -> Nat] /\ Acc(mbuf, B) /\ InHand = <<>>
  BY <1>1, Between
<1>5. arrived = fifo /\ IsInjective(fifo)
  <2>1. InOrder /\ OrderKept /\ OnceOK
    BY <1>1 DEF InOrder, EnginesInv
  <2>2. arrived = <<>> \o fifo /\ IsInjective(arrived)
    BY <1>1, <1>4, <2>1 DEF OrderKept, OnceOK
  <2>3. <<>> \o fifo = fifo
    BY <1>4, ConcatEmptySeq
  <2> QED
    BY <2>2, <2>3
<1>6. Len(fifo) <= RingCapacity /\ RingCapacity \in Nat
  <2>1. TypeOK
    BY DEF EnginesInv
  <2> QED
    BY <2>1, EnginesAssumption DEF TypeOK
<1>7. Len(fifo) \in Nat
  BY <1>4, LenProperties
<1> HIDE DEF B
<1>8. /\ Acc(mbuf', Plus(B, ms)) /\ \A m \in Range(ms) : m \in Mbufs /\ B[m] = 0
  BY <1>2, <1>3, <1>4, AllocPlus
<1> DEFINE e   == <<>>
           all == fifo \o ms
<1>9. e \in Seq(Mbufs) /\ \A m \in Mbufs : Times(e)[m] = 0
  BY TimesEmpty
<1>10. B = Held(driver, e, fifo, gro)
  BY DEF B
<1> HIDE DEF e
<1>11. all \in Seq(Mbufs) /\ Len(all) = Len(fifo) + n
       /\ \A m \in Mbufs : Times(all)[m] = Times(fifo)[m] + Times(ms)[m]
  BY <1>3, <1>4, ConcatProperties, TimesConcat
<1> HIDE DEF all, n
<1>12. \A m \in Mbufs :
         /\ B[m] = driver[m] + Times(e)[m] + Times(fifo)[m] + Times(gro)[m]
         /\ driver[m] \in Nat /\ Times(fifo)[m] \in Nat /\ Times(gro)[m] \in Nat
  <2> DEFINE H == Held(driver, e, fifo, gro)
  <2>1. /\ H \in [Mbufs -> Nat]
        /\ \A m \in Mbufs :
             /\ H[m] = driver[m] + Times(e)[m] + Times(fifo)[m] + Times(gro)[m]
             /\ driver[m] \in Nat /\ Times(e)[m] \in Nat /\ Times(fifo)[m] \in Nat
             /\ Times(gro)[m] \in Nat
    <3> HIDE DEF H
    <3> QED
      BY <1>4, <1>9, HeldSum DEF H
  <2>2. B = H
    BY <1>10
  <2> HIDE DEF H
  <2> QED
    BY <2>1, <2>2
<1>13. \A m \in Mbufs : Plus(B, ms)[m] = B[m] + Times(ms)[m] /\ Times(ms)[m] \in Nat
  BY <1>3, <1>4, PlusType
<1>14. IsInjective(all)
  <2>1. ASSUME NEW m \in Mbufs PROVE Times(all)[m] <= 1
    <3> DEFINE x == driver[m]
               y == Times(fifo)[m]
               z == Times(gro)[m]
               w == Times(ms)[m]
    <3>1. x \in Nat /\ y \in Nat /\ z \in Nat /\ Times(all)[m] = y + w
      BY <1>11, <1>12
    <3>2. m \in Range(ms) => x + 0 + y + z = 0
      <4>1. m \in Range(ms) => B[m] = 0
        BY <1>8
      <4>2. B[m] = x + 0 + y + z
        BY <1>9, <1>12
      <4> QED
        BY <4>1, <4>2
    <3>3. w = IF m \in Range(ms) THEN 1 ELSE 0
      BY <1>3, TimesOne
    <3>4. y = IF m \in Range(fifo) THEN 1 ELSE 0
      BY <1>4, <1>5, TimesOne
    <3> HIDE DEF x, y, z, w
    <3>5. y + w <= 1
      BY <3>1, <3>2, <3>3, <3>4
    <3> QED
      BY <3>1, <3>5
  <2> QED
    BY <1>11, <2>1, TimesOnce
<1>141. Acc(mbuf', Held(driver, fifo, ms, gro))
  <2> DEFINE P == Plus(B, ms)
             Q == Held(driver, fifo, ms, gro)
  <2>1. P \in [Mbufs -> Nat]
    BY <1>3, <1>4, PlusType
  <2>2. /\ Q \in [Mbufs -> Nat]
        /\ \A m \in Mbufs :
             /\ Q[m] = driver[m] + Times(fifo)[m] + Times(ms)[m] + Times(gro)[m]
             /\ driver[m] \in Nat /\ Times(fifo)[m] \in Nat /\ Times(ms)[m] \in Nat
             /\ Times(gro)[m] \in Nat
    <3>1. /\ ms \in Seq(Mbufs) /\ fifo \in Seq(Mbufs) /\ gro \in Seq(Mbufs)
          /\ driver \in [Mbufs -> Nat]
      BY <1>3, <1>4
    <3> QED
      BY ONLY <3>1, HeldSum, ZenonT(60) DEF Q
  <2>4. \A m \in Mbufs : P[m] = B[m] + Times(ms)[m]
    BY <1>13
  <2>5. Acc(mbuf', P)
    BY <1>8
  <2> HIDE DEF P, Q
  <2>6. ASSUME NEW m \in Mbufs PROVE P[m] = Q[m]
    <3> DEFINE x == driver[m]
               y == Times(fifo)[m]
               z == Times(gro)[m]
               w == Times(ms)[m]
    <3>1. x \in Nat /\ y \in Nat /\ z \in Nat /\ w \in Nat
      BY <2>2
    <3>2. P[m] = (x + 0 + y + z) + w /\ Q[m] = x + y + w + z
      BY <1>9, <1>12, <2>2, <2>4
    <3> HIDE DEF x, y, z, w
    <3> QED
      BY <3>1, <3>2
  <2>7. P = Q
    BY <2>1, <2>2, <2>6
  <2> QED
    BY <2>5, <2>7 DEF Q

\* The same references, however the packets are cut between the call and the ring.
<1>15. ASSUME NEW out \in Seq(Mbufs), NEW ring \in Seq(Mbufs), out \o ring = all
       PROVE  Acc(mbuf', Held(driver, out, ring, gro))
  <2>1. Held(driver, out, ring, gro) = Held(driver, fifo, ms, gro)
    BY <1>15 DEF Held, all
  <2> QED
    BY <1>141, <2>1
<1>16. counts' = Counted0(n, n, 0)
  BY <1>2, CountsBegin DEF n
<1>17. arrived' = all
  BY <1>2, <1>5 DEF all
<1>18. CASE mode.option = "none"
  <2>1. fifo = <<>>
    <3>1. RingOK
      BY DEF EnginesInv
    <3> QED
      BY <1>18, <3>1 DEF RingOK
  <2>2. all = ms /\ ms \o <<>> = ms
    BY <1>3, <2>1, ConcatEmptySeq DEF all
  <2>3. Acc(mbuf', Held(driver, ms, <<>>, gro))
    <3>1. ms \o e = all
      BY <2>2 DEF e
    <3>2. Acc(mbuf', Held(driver, ms, e, gro))
      BY <1>3, <1>9, <1>15, <3>1
    <3> QED
      BY <3>2 DEF e
  <2>4. Acc(mbuf', Held(driver, ms, fifo, gro'))
    BY <1>1, <2>1, <2>3
  <2>5. fifo' = fifo /\ (Send(ms, Len(ms)) \/ (ms = <<>> /\ Return))
    BY <1>2, <1>18
  <2>6. counts' = Counted0(n, Len(ms) + 0, 0)
    <3>1. Len(ms) + 0 = n
      BY <1>3 DEF n
    <3> QED
      BY <1>16, <3>1
  <2>7. /\ Len(ms) <= Room /\ Len(ms) \in 0 .. Len(ms) /\ 0 \in Nat
        /\ mode.engine # "flowgen" /\ mode.engine # "txonly"
    BY <1>1, <1>3, <1>18 DEF Room, n
  <2>8. arrived' = ms /\ IsInjective(ms) /\ arrived' \in Seq(Mbufs)
    BY <1>3, <1>17, <2>2
  <2> QED
    BY <1>1, <1>3, <1>4, <1>18, <2>4, <2>5, <2>6, <2>7, <2>8, CallBegins
<1>19. CASE mode.option # "none" /\ ~Overflow(ms)
  <2>1. GoFlush /\ fifo' = all
    BY <1>2, <1>19 DEF all
  <2>2. Len(all) <= RingCapacity
    BY <1>3, <1>6, <1>7, <1>11, <1>19 DEF Overflow, n
  <2>3. e \o all = all /\ e = <<>>
    BY <1>11, ConcatEmptySeq DEF e
  <2>4. Acc(mbuf', Held(driver, e, all, gro))
    BY <1>9, <1>11, <1>15, <2>3
  <2>5. fifo' \in Seq(Mbufs) /\ Len(fifo') <= RingCapacity
    BY <1>11, <2>1, <2>2
  <2>6. arrived' = e \o fifo' /\ IsInjective(arrived')
    BY <1>14, <1>17, <2>1, <2>3
  <2>7. Acc(mbuf', Held(driver, e, fifo', gro))
    BY <2>1, <2>4
  <2>8. Len(e) <= MaxPktBurst
    BY EnginesAssumption DEF e
  <2> QED
    BY <1>1, <1>3, <1>9, <1>16, <1>19, <2>1, <2>3, <2>5, <2>6, <2>7, <2>8, RingBegins
<1>20. CASE mode.option # "none" /\ Overflow(ms)
  <2>1. n <= Len(fifo)
    <3>1. RingCapacity - Len(fifo) < n
      BY <1>20 DEF Overflow, n
    <3> DEFINE half == (RingCapacity + 1) \div 2
    <3>2. half \in Nat /\ half + half <= RingCapacity + 1
      BY <1>6
    <3> HIDE DEF half
    <3>3. n <= half
      BY <1>3 DEF n, half
    <3> QED
      BY <1>3, <1>6, <1>7, <3>1, <3>2, <3>3
  <2> DEFINE out  == SubSeq(fifo, 1, n)
             rest == SubSeq(fifo, n + 1, Len(fifo))
             ring == rest \o ms
  <2>2. /\ PushThrough(ms).out = out /\ PushThrough(ms).fifo = ring
    <3> DEFINE k == Len(fifo)
    <3>1. Min({n, k}) = n
      <4> HIDE DEF k
      <4>1. n \in Int /\ k \in Int /\ n <= k
        BY <1>3, <1>7, <2>1 DEF k, n
      <4> QED
        BY <4>1, MinOf
    <3>2. Min({Len(ms), Len(fifo)}) = n
      BY <3>1 DEF n
    <3>3. SubSeq(ms, 1, n) = ms
      BY <1>3 DEF n
    <3> QED
      BY <3>2, <3>3 DEF PushThrough
  <2>3. n \in 0 .. Len(fifo)
    BY <1>3, <1>7, <2>1 DEF n
  <2>4. /\ out \in Seq(Mbufs) /\ Len(out) = n
        /\ rest \in Seq(Mbufs) /\ Len(rest) = Len(fifo) - n
        /\ fifo = out \o rest
    BY <1>4, <2>3, PartsOf, ZenonT(60)
  <2> HIDE DEF out, rest
  <2>5. ring \in Seq(Mbufs) /\ Len(ring) = (Len(fifo) - n) + n /\ out \o ring = all
    <3>1. out \o (rest \o ms) = (out \o rest) \o ms
      BY <1>3, <2>4, ConcatAssociative, SMTT(60)
    <3> QED
      BY <1>3, <2>4, <3>1, ConcatProperties DEF all, n
  <2> HIDE DEF ring
  <2>6. Acc(mbuf', Held(driver, out, ring, gro))
    BY <1>15, <2>4, <2>5
  <2>7. fifo' = ring /\ ((out = <<>> /\ GoFlush) \/ Send(out, Len(out)))
    BY <1>2, <1>20, <2>2
  <2>8. Len(ring) <= RingCapacity
    BY <1>3, <1>6, <1>7, <2>5 DEF n
  <2>9. fifo' \in Seq(Mbufs) /\ Len(fifo') <= RingCapacity
        /\ arrived' = out \o fifo' /\ IsInjective(arrived')
    BY <1>14, <1>17, <2>5, <2>7, <2>8
  <2>10. Acc(mbuf', Held(driver, out, fifo', gro))
    BY <2>6, <2>7
  <2>11. Len(out) <= MaxPktBurst
    BY <1>3, <2>4 DEF n
  <2> QED
    BY <1>1, <1>3, <1>16, <1>20, <2>4, <2>7, <2>9, <2>10, <2>11, RingBegins
<1> QED
  BY <1>18, <1>19, <1>20

\* The packets at the front are taken out of a line.
LEMMA TakenFirst ==
  ASSUME NEW a \in Seq(Mbufs), NEW b \in Seq(Mbufs), IsInjective(a \o b)
  PROVE  Without(a \o b, a) = b /\ IsInjective(b)
<1> DEFINE s == a \o b
           S == Mbufs \ Range(a)
           c == Len(a)
           d == Len(b)
<1>1. c \in Nat /\ d \in Nat /\ DOMAIN a = 1 .. c /\ DOMAIN b = 1 .. d
  BY LenProperties
<1>2. /\ s \in Seq(Mbufs) /\ Len(s) = c + d /\ DOMAIN s = 1 .. Len(s)
      /\ \A i \in 1 .. Len(s) : s[i] = IF i <= c THEN a[i] ELSE b[i - c]
  BY ConcatProperties, LenProperties
<1>3. IsInjective(s)
  OBVIOUS
<1>4. /\ \A i \in 1 .. c : a[i] \in Range(a) /\ a[i] \in Mbufs
      /\ \A x \in Range(a) : \E i \in 1 .. c : x = a[i]
      /\ \A i \in 1 .. d : b[i] \in Mbufs
  BY <1>1, ElementOfSeq DEF Range
<1> HIDE DEF s, c, d
<1>5. \A i \in 1 .. Len(s) : s[i] \in S <=> i > c
  <2> SUFFICES ASSUME NEW i \in 1 .. Len(s) PROVE s[i] \in S <=> i > c
    OBVIOUS
  <2>1. CASE i <= c
    <3>1. i \in 1 .. c
      BY <1>1, <1>2, <2>1
    <3>2. s[i] = a[i] /\ a[i] \in Range(a)
      BY <1>2, <1>4, <2>1, <3>1
    <3>3. ~(i > c)
      BY <1>1, <2>1, <3>1
    <3> QED
      BY <3>2, <3>3
  <2>2. CASE ~(i <= c)
    <3>1. i > c /\ i - c \in 1 .. d
      BY <1>1, <1>2, <2>2
    <3>2. s[i] = b[i - c] /\ s[i] \in Mbufs
      BY <1>2, <1>4, <2>2, <3>1
    <3>3. s[i] \notin Range(a)
      <4> SUFFICES ASSUME s[i] \in Range(a) PROVE FALSE
        OBVIOUS
      <4>1. PICK j \in 1 .. c : s[i] = a[j]
        BY <1>4
      <4>2. j \in 1 .. Len(s) /\ j <= c
        BY <1>1, <1>2
      <4>3. s[j] = s[i]
        BY <1>2, <4>1, <4>2
      <4>4. j = i
        BY <1>2, <1>3, <4>2, <4>3 DEF IsInjective
      <4> QED
        BY <2>2, <4>2, <4>4
    <3> QED
      BY <3>1, <3>2, <3>3
  <2> QED
    BY <2>1, <2>2
<1>6. c \in 0 .. Len(s)
  BY <1>1, <1>2
<1> HIDE DEF S
<1>7. Kept(s, S) = SubSeq(s, c + 1, Len(s))
  BY <1>2, <1>5, <1>6, KeptRest
<1>8. SubSeq(s, c + 1, Len(s)) = b
  <2> DEFINE t == SubSeq(s, c + 1, Len(s))
  <2>1. /\ t \in Seq(Mbufs) /\ Len(t) = Len(s) - (c + 1) + 1
        /\ \A i \in 1 .. Len(s) - (c + 1) + 1 : t[i] = s[c + 1 + i - 1]
    <3> DEFINE f == c + 1
               l == Len(s)
    <3>1. f \in Nat /\ l \in Nat /\ 1 <= f /\ f <= l + 1 /\ l <= Len(s)
      BY <1>1, <1>2
    <3> HIDE DEF f, l
    <3>2. /\ SubSeq(s, f, l) \in Seq(Mbufs) /\ Len(SubSeq(s, f, l)) = l - f + 1
          /\ \A i \in 1 .. l - f + 1 : SubSeq(s, f, l)[i] = s[f + i - 1]
      BY <1>2, <3>1, PartOf
    <3> QED
      BY <3>2 DEF f, l
  <2> HIDE DEF t
  <2>2. Len(t) = d
    BY <1>1, <1>2, <2>1
  <2>3. ASSUME NEW i \in 1 .. d PROVE t[i] = b[i]
    <3>1. /\ c + 1 + i - 1 \in 1 .. Len(s) /\ ~(c + 1 + i - 1 <= c)
          /\ (c + 1 + i - 1) - c = i /\ i \in 1 .. Len(s) - (c + 1) + 1
      BY <1>1, <1>2
    <3>2. t[i] = s[c + 1 + i - 1]
      BY <2>1, <3>1
    <3> QED
      BY <1>2, <3>1, <3>2
  <2>4. t = b
    BY <1>1, <2>1, <2>2, <2>3, SeqEqual DEF d
  <2> QED
    BY <2>4 DEF t
<1>9. Without(s, a) = b
  BY <1>7, <1>8 DEF Without, S
<1>10. IsInjective(b)
  <2> SUFFICES ASSUME NEW i \in 1 .. d, NEW j \in 1 .. d, b[i] = b[j] PROVE i = j
    BY <1>1 DEF IsInjective
  <2> DEFINE p == i + c
             q == j + c
  <2>1. /\ p \in 1 .. Len(s) /\ q \in 1 .. Len(s) /\ p - c = i /\ q - c = j
        /\ ~(p <= c) /\ ~(q <= c)
    BY <1>1, <1>2
  <2> HIDE DEF p, q
  <2>2. s[p] = s[q]
    BY <1>2, <2>1
  <2>3. p = q
    BY <1>2, <1>3, <2>1, <2>2 DEF IsInjective
  <2> QED
    BY <2>1, <2>3
<1> QED
  BY <1>9, <1>10 DEF s

\* What is left of a line are buffers.
LEMMA WithoutType ==
  ASSUME NEW line \in Seq(Mbufs), NEW ms
  PROVE  Without(line, ms) \in Seq(Mbufs)
BY KeptEmbeds DEF Without

\* Packets go from the hands of the call to the driver.
LEMMA HeldGiven ==
  ASSUME NEW d, NEW part, NEW rest, NEW b, NEW c, NEW mb,
         d \in [Mbufs -> Nat], part \in Seq(Mbufs), rest \in Seq(Mbufs),
         b \in Seq(Mbufs), c \in Seq(Mbufs),
         Acc(mb, Held(d, part \o rest, b, c))
  PROVE  Acc(mb, Held(Plus(d, part), rest, b, c))
<1> DEFINE e  == Plus(d, part)
           pr == part \o rest
<1>0. e \in [Mbufs -> Nat]
  BY PlusType
<1>1. \A m \in Mbufs : e[m] = d[m] + Times(part)[m]
  BY PlusType
<1>2. pr \in Seq(Mbufs)
      /\ \A m \in Mbufs : Times(pr)[m] = Times(part)[m] + Times(rest)[m]
  BY ConcatProperties, TimesConcat
<1> HIDE DEF e, pr
<1>3. /\ Held(e, rest, b, c) \in [Mbufs -> Nat]
      /\ \A m \in Mbufs :
           /\ Held(e, rest, b, c)[m]
                = e[m] + Times(rest)[m] + Times(b)[m] + Times(c)[m]
           /\ e[m] \in Nat /\ Times(rest)[m] \in Nat /\ Times(b)[m] \in Nat
           /\ Times(c)[m] \in Nat
  <2>1. /\ e \in [Mbufs -> Nat] /\ rest \in Seq(Mbufs) /\ b \in Seq(Mbufs)
        /\ c \in Seq(Mbufs)
    BY <1>0
  <2> QED
    BY ONLY <2>1, HeldSum, ZenonT(60)
<1>4. /\ Held(d, pr, b, c) \in [Mbufs -> Nat]
      /\ \A m \in Mbufs :
           /\ Held(d, pr, b, c)[m]
                = d[m] + Times(pr)[m] + Times(b)[m] + Times(c)[m]
           /\ d[m] \in Nat /\ Times(pr)[m] \in Nat /\ Times(b)[m] \in Nat
           /\ Times(c)[m] \in Nat
  <2>1. /\ d \in [Mbufs -> Nat] /\ pr \in Seq(Mbufs) /\ b \in Seq(Mbufs)
        /\ c \in Seq(Mbufs)
    BY <1>2
  <2> QED
    BY ONLY <2>1, HeldSum, ZenonT(60)
<1> DEFINE P == Held(e, rest, b, c)
           Q == Held(d, pr, b, c)
<1> HIDE DEF P, Q
<1>5. ASSUME NEW m \in Mbufs PROVE P[m] = Q[m]
  <2> DEFINE w == d[m]
             x == Times(part)[m]
             y == Times(rest)[m]
             z == Times(b)[m]
             v == Times(c)[m]
  <2>1. w \in Nat /\ x \in Nat /\ y \in Nat /\ z \in Nat /\ v \in Nat
    BY <1>4, TimesIn
  <2>2. P[m] = (w + x) + y + z + v /\ Q[m] = w + (x + y) + z + v
    BY <1>1, <1>2, <1>3, <1>4 DEF P, Q
  <2> HIDE DEF w, x, y, z, v
  <2> QED
    BY <2>1, <2>2
<1>6. P = Q
  BY <1>3, <1>4, <1>5 DEF P, Q
<1> QED
  BY <1>6 DEF P, Q, e, pr

\* The driver takes packets from the front of the burst.
LEMMA GiveStep ==
  ASSUME EnginesInv, Sending, NEW last \in nb_tx .. Len(burst),
         Give(nb_tx + 1, last), pc' \in {"retry", "finish"},
         retry' \in 0 .. TxRetryNum,
         UNCHANGED <<mode, mbuf, burst, nb_prep, fifo, table, flows>>
  PROVE  EnginesInv'
<1>1. /\ TypeOK /\ MemoryOK /\ RingOK /\ OnceOK /\ OrderKept /\ CountsOK
      /\ CallOK /\ CountersBalance
  BY DEF EnginesInv
<1>2. /\ mode' = mode /\ mbuf' = mbuf /\ burst' = burst /\ nb_prep' = nb_prep
      /\ fifo' = fifo /\ gro' = gro /\ gro_times' = gro_times
      /\ next_flow' = next_flow /\ ip_var' = ip_var
  BY DEF table, flows
<1> DEFINE part == SubSeq(burst, nb_tx + 1, last)
           rest == SubSeq(burst, last + 1, Len(burst))
           hand == part \o rest
<1>3. /\ driver' = Handed(part) /\ nb_tx' = last
      /\ arrived' = Without(arrived, part)
      /\ counts' = [counts EXCEPT !.handed = @ + Len(part)]
  BY DEF Give
<1>4. /\ mode \in Modes /\ mbuf \in MB /\ driver \in [Mbufs -> Nat]
      /\ burst \in Seq(Mbufs) /\ nb_tx \in 0 .. Len(burst)
      /\ nb_prep \in 0 .. Len(burst) /\ fifo \in Seq(Mbufs)
      /\ gro \in Seq(Mbufs) /\ arrived \in Seq(Mbufs)
      /\ Len(burst) <= IF mode.option = "gso" THEN GsoMaxPktBurst ELSE MaxPktBurst
  BY <1>1 DEF TypeOK, MB
<1>5. Len(burst) \in Nat
  BY <1>4, LenProperties
<1>6. last \in Nat /\ nb_tx \in Nat /\ nb_tx <= last /\ last <= Len(burst)
      /\ last \in 0 .. Len(burst)
  BY <1>4, <1>5
<1>7. /\ part \in Seq(Mbufs) /\ Len(part) = last - nb_tx /\ rest \in Seq(Mbufs)
      /\ SubSeq(burst, nb_tx + 1, Len(burst)) = hand
  <2> DEFINE a == nb_tx + 1
  <2>1. /\ a \in Nat /\ 1 <= a /\ a <= last + 1 /\ last <= Len(burst)
        /\ last - a + 1 = last - nb_tx
    BY <1>6
  <2> HIDE DEF a
  <2>2. SubSeq(burst, a, last) \in Seq(Mbufs)
        /\ Len(SubSeq(burst, a, last)) = last - a + 1
    BY <1>4, <1>6, <2>1, PartOf
  <2>3. SubSeq(burst, a, Len(burst))
          = SubSeq(burst, a, last) \o SubSeq(burst, last + 1, Len(burst))
    BY <1>4, <1>6, <2>1, CutOf
  <2>4. SubSeq(burst, last + 1, Len(burst)) \in Seq(Mbufs)
    BY <1>4, <1>6, PartsOf
  <2> QED
    BY <2>1, <2>2, <2>3, <2>4 DEF a
<1> HIDE DEF part, rest
<1>8. InHand = hand /\ InHand' = rest
  <2>1. InHand = SubSeq(burst, nb_tx + 1, Len(burst))
    BY DEF InHand, Sending
  <2>2. InHand' = SubSeq(burst', nb_tx' + 1, Len(burst'))
    BY DEF InHand
  <2> QED
    BY <1>2, <1>3, <1>7, <2>1, <2>2 DEF rest
<1>9. driver' = Plus(driver, part) /\ Plus(driver, part) \in [Mbufs -> Nat]
  <2>1. driver' = Plus(driver, part)
    BY <1>3 DEF Handed, Plus
  <2> QED
    BY <1>4, <1>7, <2>1, PlusType
<1>10. MemoryOK'
  <2>1. /\ driver \in [Mbufs -> Nat] /\ part \in Seq(Mbufs) /\ rest \in Seq(Mbufs)
        /\ fifo \in Seq(Mbufs) /\ gro \in Seq(Mbufs)
    BY <1>4, <1>7
  <2>2. Acc(mbuf, Held(driver, part \o rest, fifo, gro))
    BY <1>1, <1>8 DEF MemoryOK
  <2>3. Acc(mbuf, Held(Plus(driver, part), rest, fifo, gro))
    BY ONLY <2>1, <2>2, HeldGiven
  <2>4. Acc(mbuf', Held(driver', rest, fifo', gro'))
    BY <1>2, <1>9, <2>3
  <2> QED
    BY <1>8, <2>4 DEF MemoryOK
<1>11. arrived' \in Seq(Mbufs)
  BY <1>3, <1>4, WithoutType
<1>12. OnceOK' /\ OrderKept'
  <2>1. CASE InOrder
    <3> DEFINE later == rest \o fifo
    <3>1. later \in Seq(Mbufs) /\ arrived = part \o later /\ IsInjective(arrived)
      <4>1. arrived = hand \o fifo /\ IsInjective(arrived)
        BY <1>1, <1>8, <2>1 DEF OrderKept, OnceOK, InOrder
      <4>2. (part \o rest) \o fifo = part \o (rest \o fifo)
        <5>1. part \in Seq(Mbufs) /\ rest \in Seq(Mbufs) /\ fifo \in Seq(Mbufs)
          BY <1>4, <1>7
        <5> QED
          BY ONLY <5>1, ConcatAssociative, SMTT(60)
      <4> QED
        BY <1>4, <1>7, <4>1, <4>2, ConcatProperties
    <3> HIDE DEF later
    <3>2. IsInjective(part \o later)
      BY <3>1
    <3>3. Without(part \o later, part) = later /\ IsInjective(later)
      BY <1>7, <3>1, <3>2, TakenFirst
    <3>4. arrived' = later
      BY <1>3, <3>1, <3>3
    <3>5. arrived' = InHand' \o fifo'
      BY <1>2, <1>8, <3>4 DEF later
    <3> QED
      BY <3>3, <3>4, <3>5 DEF OnceOK, OrderKept
  <2>2. CASE ~InOrder
    BY <1>2, <2>2 DEF InOrder, OnceOK, OrderKept
  <2> QED
    BY <2>1, <2>2
<1>13. TypeOK'
  <2>1. /\ gro_times \in 0 .. GroFlushCycles - 1
        /\ next_flow \in 0 .. NbFlows - 1 /\ ip_var \in 0 .. IpVarRange - 1
        /\ Len(fifo) <= RingCapacity
    BY <1>1 DEF TypeOK
  <2>2. mbuf' \in MB /\ driver' \in [Mbufs -> Nat]
    BY <1>2, <1>4, <1>9
  <2> QED
    BY <1>2, <1>3, <1>4, <1>6, <1>11, <2>1, <2>2 DEF TypeOK, MB
<1>14. RingOK'
  BY <1>1, <1>2 DEF RingOK
<1> DEFINE c  == counts
           c2 == counts'
<1>15. /\ {c.rx, c.tx, c.dropped, c.came, c.discarded, c.handed, c.first[1],
           c.first[2]} \subseteq Nat
       /\ c = [rx |-> c.rx, tx |-> c.tx, dropped |-> c.dropped, came |-> c.came,
               discarded |-> c.discarded, handed |-> c.handed,
               misplaced |-> c.misplaced, first |-> c.first]
  BY <1>1 DEF CountsOK
<1>16. c.handed = nb_tx
  BY <1>1 DEF CallOK
<1>17. c2 = [c EXCEPT !.handed = last]
  <2>1. c2 = [c EXCEPT !.handed = @ + Len(part)]
    BY <1>3
  <2> HIDE DEF c, c2
  <2>2. c.handed + Len(part) = last
    BY <1>6, <1>7, <1>16
  <2> QED
    BY <2>1, <2>2
<1> HIDE DEF c, c2
<1>18. /\ c2.rx = c.rx /\ c2.tx = c.tx /\ c2.dropped = c.dropped
       /\ c2.came = c.came /\ c2.discarded = c.discarded /\ c2.handed = last
       /\ c2.misplaced = c.misplaced /\ c2.first = c.first
       /\ c2 = [rx |-> c2.rx, tx |-> c2.tx, dropped |-> c2.dropped,
                came |-> c2.came, discarded |-> c2.discarded,
                handed |-> c2.handed, misplaced |-> c2.misplaced,
                first |-> c2.first]
  <2>1. c2 = [rx |-> c.rx, tx |-> c.tx, dropped |-> c.dropped, came |-> c.came,
              discarded |-> c.discarded, handed |-> last,
              misplaced |-> c.misplaced, first |-> c.first]
    BY <1>15, <1>17
  <2> QED
    BY <2>1
<1>19. CountsOK'
  <2>1. {c2.rx, c2.tx, c2.dropped, c2.came, c2.discarded, c2.handed,
         c2.first[1], c2.first[2]} \subseteq Nat
    BY <1>6, <1>15, <1>18
  <2> QED
    BY <1>18, <2>1 DEF CountsOK, c2
<1>20. CallOK'
  <2>1. /\ counts.tx = 0 /\ counts.dropped = 0
        /\ mode.engine # "noisy" => counts.came = Len(burst) + counts.discarded
        /\ mode.engine = "flowgen" =>
             next_flow = (counts.first[1] + Len(burst)) % NbFlows
        /\ mode.engine = "txonly" =>
             ip_var = (counts.first[2] + Len(burst)) % IpVarRange
    BY <1>1 DEF CallOK
  <2> QED
    BY <1>2, <1>3, <1>18, <2>1 DEF CallOK, c, c2
<1>21. CountersBalance'
  <2>1. CountedByPort
    BY <1>1 DEF CountersBalance
  <2> QED
    BY <1>18, <2>1 DEF CountersBalance, CountedByPort, c, c2
<1>22. FlowsBackedOut'
  BY DEF FlowsBackedOut
<1> QED
  BY <1>10, <1>12, <1>13, <1>14, <1>19, <1>20, <1>21, <1>22 DEF EnginesInv

\* The first call of rte_eth_tx_burst.
LEMMA TransmitBurstStep ==
  ASSUME EnginesInv, TransmitBurst
  PROVE  EnginesInv'
<1>1. pc = "transmit" /\ TypeOK /\ CallOK
  BY DEF TransmitBurst, EnginesInv
<1>2. PICK n \in 0 .. nb_prep : Give(1, n)
  BY DEF TransmitBurst
<1>3. Sending /\ nb_tx = 0
  BY <1>1 DEF Sending, CallOK
<1>4. /\ burst \in Seq(Mbufs) /\ nb_prep \in 0 .. Len(burst)
      /\ retry \in 0 .. TxRetryNum
  BY <1>1 DEF TypeOK
<1>5. Len(burst) \in Nat
  BY <1>4, LenProperties
<1>6. n \in nb_tx .. Len(burst) /\ nb_tx + 1 = 1
  BY <1>3, <1>4, <1>5
<1>7. Give(nb_tx + 1, n)
  BY <1>2, <1>6
<1>8. /\ pc' \in {"retry", "finish"} /\ retry' \in 0 .. TxRetryNum
      /\ UNCHANGED <<mode, mbuf, burst, nb_prep, fifo, table, flows>>
  BY <1>4 DEF TransmitBurst
<1> QED
  BY <1>3, <1>6, <1>7, <1>8, GiveStep

\* A retry, or the end of the retries.
LEMMA RetryStep ==
  ASSUME EnginesInv, Retry
  PROVE  EnginesInv'
<1>1. pc = "retry" /\ TypeOK
      /\ UNCHANGED <<mode, mbuf, burst, nb_prep, fifo, table, flows>>
  BY DEF Retry, EnginesInv
<1>2. Sending
  BY <1>1 DEF Sending
<1>3. retry \in 0 .. TxRetryNum /\ TxRetryNum \in Nat
  BY <1>1, EnginesAssumption DEF TypeOK
<1>4. CASE nb_tx < Len(burst) /\ retry < TxRetryNum
  <2>1. /\ \E last \in nb_tx .. Len(burst) : Give(nb_tx + 1, last)
        /\ retry' = retry + 1 /\ pc' = pc
    BY <1>4 DEF Retry
  <2>2. PICK last \in nb_tx .. Len(burst) : Give(nb_tx + 1, last)
    BY <2>1
  <2>3. retry' \in 0 .. TxRetryNum /\ pc' \in {"retry", "finish"}
    BY <1>1, <1>3, <1>4, <2>1
  <2> QED
    BY <1>1, <1>2, <2>2, <2>3, GiveStep
<1>5. CASE ~(nb_tx < Len(burst) /\ retry < TxRetryNum)
  <2>1. pc' = "finish" /\ UNCHANGED <<driver, nb_tx, retry, arrived, counts>>
    BY <1>5 DEF Retry
  <2>2. /\ mode' = mode /\ mbuf' = mbuf /\ burst' = burst /\ nb_prep' = nb_prep
        /\ fifo' = fifo /\ gro' = gro /\ gro_times' = gro_times
        /\ next_flow' = next_flow /\ ip_var' = ip_var
        /\ driver' = driver /\ nb_tx' = nb_tx /\ retry' = retry
        /\ arrived' = arrived /\ counts' = counts
    BY <1>1, <2>1 DEF table, flows
  <2>3. /\ MemoryOK /\ RingOK /\ OnceOK /\ OrderKept /\ CountsOK
        /\ CallOK /\ CountersBalance
    BY DEF EnginesInv
  <2>4. InHand' = InHand
    BY <1>1, <2>1, <2>2 DEF InHand
  <2>5. TypeOK'
    BY <1>1, <2>1, <2>2 DEF TypeOK
  <2>6. MemoryOK'
    BY <2>2, <2>3, <2>4 DEF MemoryOK
  <2>7. RingOK' /\ OnceOK' /\ OrderKept'
    BY <2>1, <2>2, <2>3, <2>4 DEF RingOK, OnceOK, OrderKept, InOrder
  <2>8. CountsOK'
    BY <2>2, <2>3 DEF CountsOK
  <2>9. CallOK'
    BY <1>2, <2>1, <2>2, <2>3 DEF CallOK, Sending
  <2>10. CountersBalance' /\ FlowsBackedOut'
    BY <2>1, <2>2, <2>3 DEF CountersBalance, CountedByPort, FlowsBackedOut
  <2> QED
    BY <2>5, <2>6, <2>7, <2>8, <2>9, <2>10 DEF EnginesInv
<1> QED
  BY <1>4, <1>5

\* What was not sent is freed, and the call counts what it did.
LEMMA FreeUnsentStep ==
  ASSUME EnginesInv, FreeUnsent
  PROVE  EnginesInv'
<1> DEFINE unsent == SubSeq(burst, nb_tx + 1, Len(burst))
           k      == Len(unsent)
           ring   == mode.engine = "noisy" /\ mode.option # "none"
           c      == counts
           c2     == counts'
<1>1. /\ TypeOK /\ MemoryOK /\ RingOK /\ OnceOK /\ OrderKept /\ CountsOK
      /\ CallOK /\ CountersBalance
  BY DEF EnginesInv
<1>2. /\ pc = "finish" /\ mode' = mode /\ driver' = driver /\ fifo' = fifo
      /\ gro' = gro /\ gro_times' = gro_times
      /\ mbuf' = rte_pktmbuf_free(mbuf, unsent)
      /\ arrived' = Without(arrived, unsent)
      /\ BackOut(k)
      /\ IF ring THEN pc' = "flush" /\ UNCHANGED call ELSE Return
  BY DEF FreeUnsent, table
<1>3. c2 = [c EXCEPT
           !.tx = IF ring THEN @ ELSE @ + nb_tx,
           !.dropped = IF mode.engine = "noisy" THEN @ ELSE @ + k]
  BY DEF FreeUnsent
<1>4. /\ mode \in Modes /\ mbuf \in MB /\ driver \in [Mbufs -> Nat]
      /\ burst \in Seq(Mbufs) /\ nb_tx \in 0 .. Len(burst)
      /\ nb_prep \in 0 .. Len(burst) /\ fifo \in Seq(Mbufs)
      /\ gro \in Seq(Mbufs) /\ arrived \in Seq(Mbufs)
      /\ Len(burst) <= IF mode.option = "gso" THEN GsoMaxPktBurst ELSE MaxPktBurst
      /\ retry \in 0 .. TxRetryNum /\ gro_times \in 0 .. GroFlushCycles - 1
      /\ next_flow \in 0 .. NbFlows - 1 /\ ip_var \in 0 .. IpVarRange - 1
      /\ Len(fifo) <= RingCapacity
  BY <1>1 DEF TypeOK, MB
<1>5. Len(burst) \in Nat
  BY <1>4, LenProperties
<1>6. /\ unsent \in Seq(Mbufs) /\ k = Len(burst) - nb_tx
  BY <1>4, PartsOf
<1>7. InHand = unsent /\ Sending
  BY <1>2 DEF InHand, Sending
<1> HIDE DEF unsent, k
<1>8. k \in 0 .. Len(burst) /\ nb_tx \in Nat /\ Len(burst) - k = nb_tx
  BY <1>4, <1>5, <1>6
<1>9. InHand' = <<>> /\ pc' \in {"idle", "flush"} /\ (pc' = "flush" <=> ring)
  <2>1. pc' \in {"idle", "flush"} /\ (pc' = "flush" <=> ring)
    BY <1>2 DEF Return
  <2> QED
    BY <2>1 DEF InHand
<1>10. MemoryOK'
  <2> DEFINE B == Held(driver, <<>>, fifo, gro)
  <2>1. Acc(mbuf, Held(driver, unsent, fifo, gro))
    BY <1>1, <1>7 DEF MemoryOK
  <2>2. Plus(B, unsent) = Held(driver, unsent, fifo, gro)
    BY <1>4, <1>6, HeldHand
  <2>3. B \in [Mbufs -> Nat]
    <3> DEFINE e == <<>>
    <3>1. e \in Seq(Mbufs)
      OBVIOUS
    <3> HIDE DEF e
    <3>2. /\ driver \in [Mbufs -> Nat] /\ fifo \in Seq(Mbufs) /\ gro \in Seq(Mbufs)
      BY <1>4
    <3>3. /\ Held(driver, e, fifo, gro) \in [Mbufs -> Nat]
          /\ \A m \in Mbufs :
              /\ Held(driver, e, fifo, gro)[m]
                   = driver[m] + Times(e)[m] + Times(fifo)[m] + Times(gro)[m]
              /\ driver[m] \in Nat /\ Times(e)[m] \in Nat /\ Times(fifo)[m] \in Nat
              /\ Times(gro)[m] \in Nat
      BY ONLY <3>1, <3>2, HeldSum
    <3> QED
      BY <3>3 DEF e
  <2> HIDE DEF B
  <2>4. Acc(mbuf, Plus(B, unsent))
    BY <2>1, <2>2
  <2>5. Acc(mbuf', B)
    BY <1>2, <1>6, <2>3, <2>4, FreePlus
  <2> QED
    BY <1>2, <1>9, <2>5 DEF MemoryOK, B
<1>11. arrived' \in Seq(Mbufs)
  BY <1>2, <1>4, WithoutType
<1>12. OnceOK' /\ OrderKept'
  <2>1. CASE InOrder
    <3>1. arrived = unsent \o fifo /\ IsInjective(arrived)
      BY <1>1, <1>7, <2>1 DEF OrderKept, OnceOK, InOrder
    <3>2. IsInjective(unsent \o fifo)
      BY <3>1
    <3>3. Without(unsent \o fifo, unsent) = fifo /\ IsInjective(fifo)
      BY <1>4, <1>6, <3>2, TakenFirst
    <3>4. arrived' = fifo
      BY <1>2, <3>1, <3>3
    <3>5. <<>> \o fifo = fifo
      BY <1>4, ConcatEmptySeq
    <3>6. arrived' = InHand' \o fifo' /\ IsInjective(arrived')
      BY <1>2, <1>9, <3>3, <3>4, <3>5
    <3> QED
      BY <3>6 DEF OnceOK, OrderKept
  <2>2. CASE ~InOrder
    BY <1>2, <2>2 DEF InOrder, OnceOK, OrderKept
  <2> QED
    BY <2>1, <2>2
<1>13. /\ {c.rx, c.tx, c.dropped, c.came, c.discarded, c.handed, c.first[1],
           c.first[2]} \subseteq Nat
       /\ c = [rx |-> c.rx, tx |-> c.tx, dropped |-> c.dropped, came |-> c.came,
               discarded |-> c.discarded, handed |-> c.handed,
               misplaced |-> c.misplaced, first |-> c.first]
  BY <1>1 DEF CountsOK
<1>14. /\ c.handed = nb_tx /\ c.tx = 0 /\ c.dropped = 0
       /\ mode.engine # "noisy" => c.came = Len(burst) + c.discarded
       /\ mode.engine = "flowgen" =>
            next_flow = (c.first[1] + Len(burst)) % NbFlows
       /\ mode.engine = "txonly" =>
            ip_var = (c.first[2] + Len(burst)) % IpVarRange
  BY <1>1, <1>7 DEF CallOK
<1> DEFINE tx      == IF ring THEN 0 ELSE nb_tx
           dropped == IF mode.engine = "noisy" THEN 0 ELSE k
<1> HIDE DEF ring
<1>15. c2 = [c EXCEPT !.tx = tx, !.dropped = dropped]
  <2>1. c.tx + nb_tx = nb_tx /\ c.dropped + k = k
    BY <1>8, <1>14
  <2> HIDE DEF c, c2
  <2> QED
    BY <1>3, <1>14, <2>1
<1>16. tx \in Nat /\ dropped \in Nat
  BY <1>8
<1> HIDE DEF c, c2, tx, dropped
<1>17. /\ c2.rx = c.rx /\ c2.tx = tx /\ c2.dropped = dropped
       /\ c2.came = c.came /\ c2.discarded = c.discarded /\ c2.handed = c.handed
       /\ c2.misplaced = c.misplaced /\ c2.first = c.first
       /\ c2 = [rx |-> c2.rx, tx |-> c2.tx, dropped |-> c2.dropped,
                came |-> c2.came, discarded |-> c2.discarded,
                handed |-> c2.handed, misplaced |-> c2.misplaced,
                first |-> c2.first]
  <2> DEFINE c1 == [c EXCEPT !.tx = tx]
  <2>1. c1 = [rx |-> c.rx, tx |-> tx, dropped |-> c.dropped, came |-> c.came,
              discarded |-> c.discarded, handed |-> c.handed,
              misplaced |-> c.misplaced, first |-> c.first]
    BY <1>13
  <2>2. c2 = [c1 EXCEPT !.dropped = dropped]
    BY <1>15
  <2> HIDE DEF c1
  <2>3. c2 = [rx |-> c.rx, tx |-> tx, dropped |-> dropped, came |-> c.came,
              discarded |-> c.discarded, handed |-> c.handed,
              misplaced |-> c.misplaced, first |-> c.first]
    BY <2>1, <2>2
  <2> QED
    BY <2>3
<1>18. CountsOK'
  <2>1. {c2.rx, c2.tx, c2.dropped, c2.came, c2.discarded, c2.handed,
         c2.first[1], c2.first[2]} \subseteq Nat
    BY <1>13, <1>16, <1>17
  <2> QED
    BY <1>17, <2>1 DEF CountsOK, c2
<1>19. CallOK'
  BY <1>9 DEF CallOK, Sending
<1>20. CountersBalance'
  <2>1. CountedByPort
    BY <1>1 DEF CountersBalance
  <2>2. CountedByPort'
    BY <1>17, <2>1 DEF CountedByPort, c, c2
  <2>3. ASSUME mode.engine # "noisy"
        PROVE  c2.tx = c2.handed /\ c2.came = c2.tx + c2.dropped + c2.discarded
    <3>1. tx = nb_tx /\ dropped = k
      BY <2>3 DEF tx, dropped, ring
    <3>2. c.came = Len(burst) + c.discarded /\ c.discarded \in Nat
      BY <1>13, <1>14, <2>3
    <3> QED
      BY <1>5, <1>8, <1>14, <1>17, <3>1, <3>2
  <2> QED
    BY <1>2, <2>2, <2>3 DEF CountersBalance, c2
<1>21. NbFlows \in Nat \ {0} /\ IpVarRange \in Nat \ {0}
  BY EnginesAssumption
<1>22. /\ next_flow' \in 0 .. NbFlows - 1
       /\ mode.engine = "flowgen" => next_flow' = (c.first[1] + nb_tx) % NbFlows
  <2>1. CASE mode.engine = "flowgen"
    <3> DEFINE f == c.first[1]
               n == Len(burst)
               y == next_flow'
               a == f + n
               r == f + nb_tx
    <3>1. y = (next_flow - k) % NbFlows
      BY <1>2, <2>1 DEF BackOut
    <3>2. f \in Nat /\ n \in Nat /\ k \in 0 .. n /\ next_flow = (f + n) % NbFlows
          /\ n - k = nb_tx /\ nb_tx \in Nat
      BY <1>5, <1>8, <1>13, <1>14, <2>1
    <3> HIDE DEF f, n, y
    <3>3. a \in Nat /\ k \in 0 .. a /\ r \in Nat /\ a - k = r
      BY <3>2
    <3>4. next_flow = a % NbFlows
      BY <3>2
    <3> HIDE DEF a, r
    <3>5. NbFlows \in Nat \ {0}
      BY <1>21
    <3>6. ((a % NbFlows) - k) % NbFlows = (a - k) % NbFlows
      BY ONLY <3>3, <3>5, ModBack
    <3>7. r % NbFlows \in 0 .. NbFlows - 1
      BY ONLY <3>3, <3>5, ModType
    <3>8. y = r % NbFlows
      BY <3>1, <3>3, <3>4, <3>6
    <3> QED
      BY <3>7, <3>8 DEF f, y, r
  <2>2. CASE mode.engine # "flowgen"
    BY <1>2, <1>4, <2>2 DEF BackOut
  <2> QED
    BY <2>1, <2>2
<1>23. /\ ip_var' \in 0 .. IpVarRange - 1
       /\ mode.engine = "txonly" => ip_var' = (c.first[2] + nb_tx) % IpVarRange
  <2>1. CASE mode.engine = "txonly"
    <3> DEFINE f == c.first[2]
               n == Len(burst)
               y == ip_var'
               a == f + n
               r == f + nb_tx
    <3>1. y = (ip_var - k) % IpVarRange
      BY <1>2, <2>1 DEF BackOut
    <3>2. f \in Nat /\ n \in Nat /\ k \in 0 .. n /\ ip_var = (f + n) % IpVarRange
          /\ n - k = nb_tx /\ nb_tx \in Nat
      BY <1>5, <1>8, <1>13, <1>14, <2>1
    <3> HIDE DEF f, n, y
    <3>3. a \in Nat /\ k \in 0 .. a /\ r \in Nat /\ a - k = r
      BY <3>2
    <3>4. ip_var = a % IpVarRange
      BY <3>2
    <3> HIDE DEF a, r
    <3>5. IpVarRange \in Nat \ {0}
      BY <1>21
    <3>6. ((a % IpVarRange) - k) % IpVarRange = (a - k) % IpVarRange
      BY ONLY <3>3, <3>5, ModBack
    <3>7. r % IpVarRange \in 0 .. IpVarRange - 1
      BY ONLY <3>3, <3>5, ModType
    <3>8. y = r % IpVarRange
      BY <3>1, <3>3, <3>4, <3>6
    <3> QED
      BY <3>7, <3>8 DEF f, y, r
  <2>2. CASE mode.engine # "txonly"
    BY <1>2, <1>4, <2>2 DEF BackOut
  <2> QED
    BY <2>1, <2>2
<1>24. FlowsBackedOut'
  BY <1>2, <1>14, <1>17, <1>22, <1>23 DEF FlowsBackedOut, c2
<1>25. RingOK'
  BY <1>1, <1>2, <1>9 DEF RingOK, ring
<1>26. TypeOK'
  <2>1. mbuf' \in MB
    BY <1>10, AccType DEF MemoryOK
  <2>2. /\ burst' \in Seq(Mbufs) /\ nb_tx' \in 0 .. Len(burst')
        /\ nb_prep' \in 0 .. Len(burst') /\ retry' \in 0 .. TxRetryNum
        /\ Len(burst') <= IF mode.option = "gso" THEN GsoMaxPktBurst ELSE MaxPktBurst
    <3>1. CASE UNCHANGED call
      BY <1>4, <3>1 DEF call
    <3>2. CASE Return
      <4>1. MaxPktBurst \in Nat /\ GsoMaxPktBurst \in Nat /\ TxRetryNum \in Nat
        BY EnginesAssumption
      <4>2. <<>> \in Seq(Mbufs) /\ Len(<<>>) = 0
        OBVIOUS
      <4> QED
        BY <3>2, <4>1, <4>2 DEF Return
    <3> QED
      BY <1>2, <3>1, <3>2
  <2> QED
    BY <1>2, <1>4, <1>9, <1>11, <1>22, <1>23, <2>1, <2>2 DEF TypeOK, MB
<1> QED
  BY <1>10, <1>12, <1>18, <1>19, <1>20, <1>24, <1>25, <1>26 DEF EnginesInv

\* The noisy engine goes on, or returns.
LEMMA FlushStep ==
  ASSUME EnginesInv, Flush
  PROVE  EnginesInv'
<1>1. /\ TypeOK /\ MemoryOK /\ RingOK /\ OnceOK /\ OrderKept /\ CountsOK
      /\ CountersBalance
  BY DEF EnginesInv
<1>2. /\ pc = "flush" /\ mode' = mode /\ mbuf' = mbuf /\ driver' = driver
      /\ fifo' = fifo /\ gro' = gro /\ gro_times' = gro_times
      /\ next_flow' = next_flow /\ ip_var' = ip_var /\ counts' = counts
      /\ arrived' = arrived
      /\ Return \/ (pc' = "drain" /\ UNCHANGED call)
  BY DEF Flush, memory, table, flows
<1>3. mode.engine = "noisy"
  BY <1>1, <1>2 DEF RingOK
<1>4. pc' \in {"idle", "drain"}
  BY <1>2 DEF Return
<1>5. InHand' = InHand
  BY <1>2, <1>4 DEF InHand
<1>6. TypeOK'
  <2>1. CASE pc' = "drain" /\ UNCHANGED call
    BY <1>1, <1>2, <2>1 DEF TypeOK, call
  <2>2. CASE Return
    <3>1. MaxPktBurst \in Nat /\ GsoMaxPktBurst \in Nat /\ TxRetryNum \in Nat
      BY EnginesAssumption
    <3>2. <<>> \in Seq(Mbufs) /\ Len(<<>>) = 0
      OBVIOUS
    <3>3. /\ burst' \in Seq(Mbufs) /\ nb_tx' \in 0 .. Len(burst')
          /\ nb_prep' \in 0 .. Len(burst') /\ retry' \in 0 .. TxRetryNum
          /\ Len(burst') <= IF mode.option = "gso" THEN GsoMaxPktBurst
                            ELSE MaxPktBurst
      BY <2>2, <3>1, <3>2 DEF Return
    <3> QED
      BY <1>1, <1>2, <1>4, <3>3 DEF TypeOK
  <2> QED
    BY <1>2, <2>1, <2>2
<1>7. MemoryOK' /\ OnceOK' /\ OrderKept' /\ CountsOK'
  BY <1>1, <1>2, <1>5 DEF MemoryOK, OnceOK, OrderKept, InOrder, CountsOK
<1>8. RingOK'
  BY <1>1, <1>2, <1>3 DEF RingOK
<1>9. CallOK'
  BY <1>4 DEF CallOK, Sending
<1>10. CountersBalance' /\ FlowsBackedOut'
  BY <1>1, <1>2, <1>3 DEF CountersBalance, CountedByPort, FlowsBackedOut
<1> QED
  BY <1>6, <1>7, <1>8, <1>9, <1>10 DEF EnginesInv

\* Packets at the front of the ring go to the driver or are freed.
LEMMA DrainStep ==
  ASSUME EnginesInv, Drain
  PROVE  EnginesInv'
<1>1. /\ TypeOK /\ MemoryOK /\ RingOK /\ OnceOK /\ OrderKept /\ CountsOK
      /\ CountersBalance
  BY DEF EnginesInv
<1>2. /\ pc = "drain" /\ mode' = mode
      /\ gro' = gro /\ gro_times' = gro_times
      /\ next_flow' = next_flow /\ ip_var' = ip_var /\ counts' = counts
  BY DEF Drain, table, flows
<1>3. mode.engine = "noisy" /\ InOrder
  BY <1>1, <1>2 DEF RingOK, InOrder
<1>4. /\ mode \in Modes /\ mbuf \in MB /\ driver \in [Mbufs -> Nat]
      /\ fifo \in Seq(Mbufs) /\ gro \in Seq(Mbufs) /\ Len(fifo) <= RingCapacity
      /\ arrived \in Seq(Mbufs)
  BY <1>1 DEF TypeOK, MB
<1>5. InHand = <<>> /\ arrived = fifo /\ IsInjective(fifo)
  <2>1. InHand = <<>>
    BY <1>2 DEF InHand
  <2>2. arrived = <<>> \o fifo /\ IsInjective(arrived)
    BY <1>1, <1>3, <2>1 DEF OrderKept, OnceOK, InOrder
  <2>3. <<>> \o fifo = fifo
    BY <1>4, ConcatEmptySeq
  <2> QED
    BY <2>1, <2>2, <2>3
<1>6. Acc(mbuf, Held(driver, <<>>, fifo, gro))
  BY <1>1, <1>5 DEF MemoryOK
<1>7. CASE fifo = <<>>
  <2>1. /\ Return /\ mbuf' = mbuf /\ driver' = driver /\ fifo' = fifo
        /\ arrived' = arrived
    BY <1>7 DEF Drain, memory
  <2>2. pc' = "idle"
    BY <2>1 DEF Return
  <2>3. InHand' = InHand
    BY <1>5, <2>2 DEF InHand
  <2>4. TypeOK'
    <3>1. MaxPktBurst \in Nat /\ GsoMaxPktBurst \in Nat /\ TxRetryNum \in Nat
      BY EnginesAssumption
    <3>2. <<>> \in Seq(Mbufs) /\ Len(<<>>) = 0
      OBVIOUS
    <3>3. /\ burst' \in Seq(Mbufs) /\ nb_tx' \in 0 .. Len(burst')
          /\ nb_prep' \in 0 .. Len(burst') /\ retry' \in 0 .. TxRetryNum
          /\ Len(burst') <= IF mode.option = "gso" THEN GsoMaxPktBurst
                            ELSE MaxPktBurst
      BY <2>1, <3>1, <3>2 DEF Return
    <3> QED
      BY <1>1, <1>2, <2>1, <2>2, <3>3 DEF TypeOK
  <2>5. MemoryOK' /\ OnceOK' /\ OrderKept' /\ CountsOK'
    BY <1>1, <1>2, <2>1, <2>3 DEF MemoryOK, OnceOK, OrderKept, InOrder, CountsOK
  <2>6. RingOK' /\ CallOK'
    BY <1>1, <1>2, <2>1, <2>2 DEF RingOK, CallOK, Sending
  <2>7. CountersBalance' /\ FlowsBackedOut'
    BY <1>1, <1>2, <1>3 DEF CountersBalance, CountedByPort, FlowsBackedOut
  <2> QED
    BY <2>4, <2>5, <2>6, <2>7 DEF EnginesInv
<1>8. CASE fifo # <<>>
  <2> DEFINE nb  == Min({MaxPktBurst, Len(fifo)})
             out == SubSeq(fifo, 1, nb)
             later == SubSeq(fifo, nb + 1, Len(fifo))
  <2>1. /\ \E sent \in 0 .. nb :
                /\ driver' = Handed(SubSeq(out, 1, sent))
                /\ mbuf' = rte_pktmbuf_free(mbuf, SubSeq(out, sent + 1, nb))
        /\ fifo' = later
        /\ arrived' = Without(arrived, out)
        /\ UNCHANGED <<pc, call>>
    BY <1>8 DEF Drain
  <2>2. PICK sent \in 0 .. nb :
                /\ driver' = Handed(SubSeq(out, 1, sent))
                /\ mbuf' = rte_pktmbuf_free(mbuf, SubSeq(out, sent + 1, nb))
    BY <2>1
  <2>3. nb \in 0 .. Len(fifo)
    <3> DEFINE k == Len(fifo)
    <3>1. k \in Nat /\ MaxPktBurst \in Nat
      BY <1>4, LenProperties, EnginesAssumption
    <3> HIDE DEF k
    <3>2. Min({MaxPktBurst, k}) = IF MaxPktBurst <= k THEN MaxPktBurst ELSE k
      BY <3>1, MinOf
    <3>3. Min({MaxPktBurst, k}) \in 0 .. k
      BY <3>1, <3>2
    <3> QED
      BY <3>3 DEF k
  <2> HIDE DEF nb
  <2>4. /\ out \in Seq(Mbufs) /\ Len(out) = nb
        /\ later \in Seq(Mbufs) /\ Len(later) = Len(fifo) - nb
        /\ fifo = out \o later
    BY <1>4, <2>3, PartsOf, ZenonT(60)
  <2> HIDE DEF out, later
  <2>5. Len(fifo) \in Nat /\ nb \in Nat /\ sent \in 0 .. Len(out)
    BY <1>4, <2>3, <2>4, LenProperties
  <2> DEFINE given == SubSeq(out, 1, sent)
             freed == SubSeq(out, sent + 1, Len(out))
  <2>6. /\ given \in Seq(Mbufs) /\ freed \in Seq(Mbufs) /\ out = given \o freed
    BY <2>4, <2>5, PartsOf
  <2>7. driver' = Handed(given) /\ mbuf' = rte_pktmbuf_free(mbuf, freed)
    BY <2>2, <2>4
  <2> HIDE DEF given, freed
  <2>8. Len(later) <= RingCapacity
    <3>1. RingCapacity \in Nat
      BY EnginesAssumption
    <3> QED
      BY <1>4, <2>3, <2>4, <2>5, <3>1
  <2> DEFINE e  == <<>>
             d2 == Plus(driver, given)
             B2 == Held(d2, e, later, gro)
             B  == Held(driver, e, fifo, gro)
  <2>9. e \in Seq(Mbufs) /\ \A m \in Mbufs : Times(e)[m] = 0
    BY TimesEmpty
  <2>10. /\ d2 \in [Mbufs -> Nat]
         /\ \A m \in Mbufs : /\ d2[m] = driver[m] + Times(given)[m]
                             /\ driver[m] \in Nat /\ Times(given)[m] \in Nat
    BY <1>4, <2>6, PlusType
  <2>11. Acc(mbuf, B)
    BY <1>6
  <2>12. driver' = d2
    BY <2>7 DEF Handed, Plus
  <2> HIDE DEF e, d2
  <2>13. /\ B2 \in [Mbufs -> Nat]
         /\ \A m \in Mbufs :
              /\ B2[m] = d2[m] + Times(e)[m] + Times(later)[m] + Times(gro)[m]
              /\ d2[m] \in Nat /\ Times(e)[m] \in Nat /\ Times(later)[m] \in Nat
              /\ Times(gro)[m] \in Nat
    <3>1. /\ d2 \in [Mbufs -> Nat] /\ e \in Seq(Mbufs) /\ later \in Seq(Mbufs)
          /\ gro \in Seq(Mbufs)
      BY <1>4, <2>4, <2>9, <2>10
    <3> QED
      BY ONLY <3>1, HeldSum, ZenonT(60) DEF B2
  <2>14. /\ B \in [Mbufs -> Nat]
         /\ \A m \in Mbufs :
              /\ B[m] = driver[m] + Times(e)[m] + Times(fifo)[m] + Times(gro)[m]
              /\ driver[m] \in Nat /\ Times(e)[m] \in Nat /\ Times(fifo)[m] \in Nat
              /\ Times(gro)[m] \in Nat
    <3>1. /\ driver \in [Mbufs -> Nat] /\ e \in Seq(Mbufs) /\ fifo \in Seq(Mbufs)
          /\ gro \in Seq(Mbufs)
      BY <1>4, <2>9
    <3> QED
      BY ONLY <3>1, HeldSum, ZenonT(60) DEF B
  <2> HIDE DEF B, B2
  <2>15. /\ Plus(B2, freed) \in [Mbufs -> Nat]
         /\ \A m \in Mbufs : Plus(B2, freed)[m] = B2[m] + Times(freed)[m]
    BY <2>6, <2>13, PlusType
  <2>16. \A m \in Mbufs : Times(fifo)[m] = Times(out)[m] + Times(later)[m]
    BY <2>4, TimesConcat
  <2>17. \A m \in Mbufs : Times(out)[m] = Times(given)[m] + Times(freed)[m]
    BY <2>6, TimesConcat
  <2>18. \A m \in Mbufs : Times(freed)[m] \in Nat
    BY <2>6, TimesIn
  <2> DEFINE P == Plus(B2, freed)
  <2>19. Acc(mbuf, P)
    <3> HIDE DEF P
    <3>1. ASSUME NEW m \in Mbufs PROVE P[m] = B[m]
      <4> DEFINE w == driver[m]
                 x == Times(given)[m]
                 y == Times(later)[m]
                 z == Times(gro)[m]
                 v == Times(freed)[m]
      <4>1. w \in Nat /\ x \in Nat /\ y \in Nat /\ z \in Nat /\ v \in Nat
        BY <2>10, <2>13, <2>18
      <4>2. P[m] = ((w + x) + 0 + y + z) + v /\ B[m] = w + 0 + ((x + v) + y) + z
        BY <2>9, <2>10, <2>13, <2>14, <2>15, <2>16, <2>17 DEF P
      <4> HIDE DEF w, x, y, z, v
      <4> QED
        BY <4>1, <4>2
    <3>2. P \in [Mbufs -> Nat]
      BY <2>15 DEF P
    <3>3. P = B
      BY <2>14, <3>1, <3>2
    <3> QED
      BY <2>11, <3>3
  <2>20. Acc(mbuf', B2)
    BY <2>6, <2>7, <2>13, <2>19, FreePlus
  <2>21. InHand' = <<>> /\ pc' = "drain"
    BY <1>2, <2>1 DEF InHand
  <2>22. MemoryOK'
    BY <1>2, <2>1, <2>12, <2>20, <2>21 DEF MemoryOK, B2, e
  <2>23. arrived' = later /\ IsInjective(later)
    <3>1. IsInjective(out \o later)
      BY <1>5, <2>4
    <3>2. Without(out \o later, out) = later /\ IsInjective(later)
      BY <2>4, <3>1, TakenFirst
    <3> QED
      BY <1>5, <2>1, <2>4, <3>2
  <2>24. OnceOK' /\ OrderKept'
    <3>1. <<>> \o later = later
      BY <2>4, ConcatEmptySeq
    <3>2. arrived' = InHand' \o fifo' /\ IsInjective(arrived')
      BY <2>1, <2>21, <2>23, <3>1
    <3> QED
      BY <3>2 DEF OnceOK, OrderKept
  <2>25. TypeOK'
    <3>1. mbuf' \in MB /\ driver' \in [Mbufs -> Nat] /\ fifo' \in Seq(Mbufs)
          /\ Len(fifo') <= RingCapacity /\ arrived' \in Seq(Mbufs)
      BY <2>1, <2>4, <2>8, <2>10, <2>12, <2>20, <2>23, AccType
    <3> QED
      BY <1>1, <1>2, <2>1, <3>1 DEF TypeOK, MB, call
  <2>26. RingOK' /\ CallOK' /\ CountsOK'
    BY <1>1, <1>2, <1>3, <1>8, <2>21 DEF RingOK, CallOK, Sending, CountsOK
  <2>27. CountersBalance' /\ FlowsBackedOut'
    BY <1>1, <1>2, <1>3, <2>21 DEF CountersBalance, CountedByPort, FlowsBackedOut
  <2> QED
    BY <2>22, <2>24, <2>25, <2>26, <2>27 DEF EnginesInv
<1> QED
  BY <1>7, <1>8

\* The driver gives back the references that it has.
LEMMA TxCompleteStep ==
  ASSUME EnginesInv, TxComplete
  PROVE  EnginesInv'
<1> DEFINE zero == [m \in Mbufs |-> 0]
<1>1. /\ TypeOK /\ MemoryOK /\ RingOK /\ OnceOK /\ OrderKept /\ CountsOK
      /\ CallOK /\ CountersBalance /\ FlowsBackedOut
  BY DEF EnginesInv
<1>2. /\ driver' = zero /\ mbuf' = Released(mbuf, driver)
      /\ UNCHANGED <<mode, pc, call, fifo, table, flows, counts, arrived>>
  BY DEF TxComplete
<1>3. /\ mode' = mode /\ pc' = pc /\ burst' = burst /\ nb_prep' = nb_prep
      /\ nb_tx' = nb_tx /\ retry' = retry /\ fifo' = fifo /\ gro' = gro
      /\ gro_times' = gro_times /\ next_flow' = next_flow /\ ip_var' = ip_var
      /\ counts' = counts /\ arrived' = arrived
  BY <1>2 DEF call, table, flows
<1>4. InHand' = InHand
  BY <1>3 DEF InHand
<1>5. /\ driver \in [Mbufs -> Nat] /\ fifo \in Seq(Mbufs) /\ gro \in Seq(Mbufs)
      /\ burst \in Seq(Mbufs) /\ nb_tx \in 0 .. Len(burst)
  BY <1>1 DEF TypeOK
<1> DEFINE hand == InHand
<1>6. hand \in Seq(Mbufs)
  <2>1. SubSeq(burst, nb_tx + 1, Len(burst)) \in Seq(Mbufs)
    BY <1>5, PartsOf
  <2> QED
    BY <2>1 DEF InHand
<1>7. zero \in [Mbufs -> Nat] /\ \A m \in Mbufs : zero[m] = 0
  OBVIOUS
<1> HIDE DEF zero, hand
<1> DEFINE rf  == Held(driver, hand, fifo, gro)
           rf2 == Held(zero, hand, fifo, gro)
<1>8. /\ rf \in [Mbufs -> Nat]
      /\ \A m \in Mbufs :
           /\ rf[m] = driver[m] + Times(hand)[m] + Times(fifo)[m] + Times(gro)[m]
           /\ driver[m] \in Nat /\ Times(hand)[m] \in Nat /\ Times(fifo)[m] \in Nat
           /\ Times(gro)[m] \in Nat
  <2>1. /\ driver \in [Mbufs -> Nat] /\ hand \in Seq(Mbufs) /\ fifo \in Seq(Mbufs)
        /\ gro \in Seq(Mbufs)
    BY <1>5, <1>6
  <2> QED
    BY ONLY <2>1, HeldSum, ZenonT(60) DEF rf
<1>9. /\ rf2 \in [Mbufs -> Nat]
      /\ \A m \in Mbufs :
           /\ rf2[m] = zero[m] + Times(hand)[m] + Times(fifo)[m] + Times(gro)[m]
           /\ zero[m] \in Nat /\ Times(hand)[m] \in Nat /\ Times(fifo)[m] \in Nat
           /\ Times(gro)[m] \in Nat
  <2>1. /\ zero \in [Mbufs -> Nat] /\ hand \in Seq(Mbufs) /\ fifo \in Seq(Mbufs)
        /\ gro \in Seq(Mbufs)
    BY <1>5, <1>6, <1>7
  <2> QED
    BY ONLY <2>1, HeldSum, ZenonT(60) DEF rf2
<1>10. Acc(mbuf, rf)
  BY <1>1 DEF MemoryOK, hand
<1> HIDE DEF rf, rf2
<1>11. \A m \in Mbufs : driver[m] <= rf[m] /\ rf2[m] = rf[m] - driver[m]
  <2> SUFFICES ASSUME NEW m \in Mbufs
               PROVE  driver[m] <= rf[m] /\ rf2[m] = rf[m] - driver[m]
    OBVIOUS
  <2> DEFINE w == driver[m]
             x == Times(hand)[m]
             y == Times(fifo)[m]
             z == Times(gro)[m]
  <2>1. w \in Nat /\ x \in Nat /\ y \in Nat /\ z \in Nat
        /\ rf[m] = w + x + y + z /\ rf2[m] = 0 + x + y + z
    BY <1>7, <1>8, <1>9
  <2> HIDE DEF x, y, z, w
  <2>2. w <= rf[m] /\ rf2[m] = rf[m] - w
    BY <2>1
  <2> QED
    BY <2>2 DEF w
<1>12. Acc(Released(mbuf, driver), rf2)
  BY <1>5, <1>9, <1>10, <1>11, ReleaseAcc
<1>13. MemoryOK'
  BY <1>2, <1>3, <1>4, <1>12 DEF MemoryOK, rf2, hand
<1>14. TypeOK'
  <2>1. mbuf' \in MB /\ driver' \in [Mbufs -> Nat]
    BY <1>2, <1>7, <1>12, AccType
  <2> QED
    BY <1>1, <1>3, <2>1 DEF TypeOK, MB
<1>15. RingOK' /\ OnceOK' /\ OrderKept' /\ CountsOK'
  BY <1>1, <1>3, <1>4 DEF RingOK, OnceOK, OrderKept, InOrder, CountsOK
<1>16. CallOK' /\ CountersBalance' /\ FlowsBackedOut'
  BY <1>1, <1>3 DEF CallOK, Sending, CountersBalance, CountedByPort, FlowsBackedOut
<1> QED
  BY <1>13, <1>14, <1>15, <1>16 DEF EnginesInv

\* At first all buffers are in the pool.
LEMMA InitInv ==
  ASSUME Init
  PROVE  EnginesInv
<1> DEFINE pool == [m \in Mbufs |-> InPool]
           zero == [m \in Mbufs |-> 0]
<1>1. /\ mode \in Modes /\ pc = "idle" /\ burst = <<>> /\ nb_prep = 0
      /\ nb_tx = 0 /\ retry = 0 /\ mbuf = pool /\ driver = zero
      /\ fifo = <<>> /\ gro = <<>> /\ gro_times = 0 /\ next_flow = 0
      /\ ip_var = 0 /\ counts = NoCounts /\ arrived = <<>>
  BY DEF Init
<1>2. InHand = <<>>
  BY <1>1 DEF InHand
<1>3. zero \in [Mbufs -> Nat] /\ \A m \in Mbufs : zero[m] = 0
  OBVIOUS
<1>4. pool \in MB /\ \A m \in Mbufs : pool[m].refcnt = 0 /\ pool[m].segs = {}
  BY DEF MB, InPool
<1> HIDE DEF zero, pool
<1>5. Acc(pool, zero)
  BY <1>3, <1>4 DEF Acc
<1>6. Held(zero, <<>>, <<>>, <<>>) = zero
  <2>1. <<>> \o <<>> \o <<>> = <<>>
    OBVIOUS
  <2>2. Plus(zero, <<>>) = zero
    BY <1>3, PlusEmpty
  <2> QED
    BY <2>1, <2>2 DEF Held
<1>7. MemoryOK
  BY <1>1, <1>2, <1>5, <1>6 DEF MemoryOK
<1>8. TypeOK
  <2>1. /\ NbFlows \in Nat \ {0} /\ IpVarRange \in Nat \ {0} /\ TxRetryNum \in Nat
        /\ GroFlushCycles \in Nat \ {0} /\ RingCapacity \in Nat
        /\ MaxPktBurst \in Nat /\ GsoMaxPktBurst \in Nat
    BY EnginesAssumption
  <2>2. /\ 0 \in 0 .. NbFlows - 1 /\ 0 \in 0 .. IpVarRange - 1 /\ 0 \in 0 .. TxRetryNum
        /\ 0 \in 0 .. GroFlushCycles - 1
    BY <2>1
  <2>3. <<>> \in Seq(Mbufs) /\ Len(<<>>) = 0
    OBVIOUS
  <2> QED
    BY <1>1, <1>3, <1>4, <2>1, <2>2, <2>3 DEF TypeOK, MB
<1>9. RingOK /\ CallOK
  BY <1>1 DEF RingOK, CallOK, Sending
<1>10. OnceOK
  <2>1. IsInjective(<<>>)
    BY DEF IsInjective
  <2> QED
    BY <1>1, <2>1 DEF OnceOK
<1>11. OrderKept
  BY <1>1, <1>2 DEF OrderKept
<1>12. CountsOK
  BY <1>1 DEF CountsOK, NoCounts
<1>13. CountersBalance
  BY <1>1 DEF CountersBalance, CountedByPort, NoCounts
<1>14. FlowsBackedOut
  <2>1. (0 + 0) % NbFlows = 0 /\ (0 + 0) % IpVarRange = 0
    BY EnginesAssumption
  <2> QED
    BY <1>1, <2>1 DEF FlowsBackedOut, NoCounts
<1> QED
  BY <1>7, <1>8, <1>9, <1>10, <1>11, <1>12, <1>13, <1>14 DEF EnginesInv

\* Every step keeps the invariant.
LEMMA NextInv ==
  ASSUME EnginesInv, [Next]_vars
  PROVE  EnginesInv'
<1>1. CASE UNCHANGED vars
  <2>1. /\ mode' = mode /\ pc' = pc /\ mbuf' = mbuf /\ driver' = driver
        /\ burst' = burst /\ nb_prep' = nb_prep
        /\ nb_tx' = nb_tx /\ retry' = retry /\ fifo' = fifo /\ gro' = gro
        /\ gro_times' = gro_times /\ next_flow' = next_flow /\ ip_var' = ip_var
        /\ counts' = counts /\ arrived' = arrived
    BY <1>1 DEF vars, memory, call, table, flows
  <2>2. /\ TypeOK /\ MemoryOK /\ RingOK /\ OnceOK /\ OrderKept /\ CountsOK
        /\ CallOK /\ CountersBalance /\ FlowsBackedOut
    BY DEF EnginesInv
  <2>3. InHand' = InHand
    BY <2>1 DEF InHand
  <2>4. TypeOK' /\ MemoryOK'
    BY <2>1, <2>2, <2>3 DEF TypeOK, MemoryOK
  <2>5. RingOK' /\ OnceOK' /\ OrderKept' /\ CountsOK'
    BY <2>1, <2>2, <2>3 DEF RingOK, OnceOK, OrderKept, InOrder, CountsOK
  <2>6. CallOK' /\ CountersBalance' /\ FlowsBackedOut'
    BY <2>1, <2>2 DEF CallOK, Sending, CountersBalance, CountedByPort, FlowsBackedOut
  <2> QED
    BY <2>4, <2>5, <2>6 DEF EnginesInv
<1>2. CASE packet_fwd
  <2>1. CASE \/ pkt_burst_io_forward \/ pkt_burst_mac_forward
             \/ pkt_burst_mac_swap \/ pkt_burst_5tuple_swap
    <3>1. Begin(Plain) /\ Forward
      BY <2>1 DEF pkt_burst_io_forward, pkt_burst_mac_forward,
           pkt_burst_mac_swap, pkt_burst_5tuple_swap, Begin, Plain
    <3> QED
      BY <3>1, ForwardStep
  <2>2. CASE pkt_burst_receive
    BY <2>2, ReceiveStep
  <2>3. CASE reply_to_icmp_echo_rqsts
    BY <2>3, ReplyStep
  <2>4. CASE ieee1588_packet_fwd
    BY <2>4, PtpStep
  <2>5. CASE shared_rxq_fwd
    BY <2>5, SharedStep
  <2>6. CASE pkt_burst_transmit
    BY <2>6, TransmitStep
  <2>7. CASE pkt_burst_flow_gen
    BY <2>7, FlowGenStep
  <2>8. CASE pkt_burst_checksum_forward
    BY <2>8, ChecksumStep
  <2>9. CASE pkt_burst_noisy_vnf
    BY <2>9, NoisyStep
  <2> QED
    BY <1>2, <2>1, <2>2, <2>3, <2>4, <2>5, <2>6, <2>7, <2>8, <2>9 DEF packet_fwd
<1>3. CASE GoOn
  <2>1. CASE TransmitBurst
    BY <2>1, TransmitBurstStep
  <2>2. CASE Retry
    BY <2>2, RetryStep
  <2>3. CASE FreeUnsent
    BY <2>3, FreeUnsentStep
  <2>4. CASE Flush
    BY <2>4, FlushStep
  <2>5. CASE Drain
    BY <2>5, DrainStep
  <2> QED
    BY <1>3, <2>1, <2>2, <2>3, <2>4, <2>5 DEF GoOn
<1>4. CASE TxComplete
  BY <1>4, TxCompleteStep
<1> QED
  BY <1>1, <1>2, <1>3, <1>4 DEF Next

\* The invariant accounts for every buffer: a segment has the one reference of
\* its packet, every other buffer those of the call, the ring, the table and
\* the driver.
LEMMA InvAccounts ==
  ASSUME EnginesInv
  PROVE  MbufsAccounted
<1> SUFFICES ASSUME NEW m \in Mbufs PROVE mbuf[m].refcnt = References(m)
  BY DEF MbufsAccounted
<1> DEFINE rf   == Held(driver, InHand, fifo, gro)
           of   == {h \in Mbufs : m \in mbuf[h].segs}
           ours == driver[m] + Times(InHand \o fifo \o gro)[m]
<1>1. Acc(mbuf, rf)
  BY DEF EnginesInv, MemoryOK
<1>2. rf[m] = ours
  BY DEF Held, Plus
<1>3. References(m) = ours + Cardinality(of)
  BY DEF References
<1>4. rf \in [Mbufs -> Nat] /\ mbuf \in MB
  BY <1>1, AccType
<1> HIDE DEF rf, of, ours
<1>5. rf[m] \in Nat /\ mbuf[m].refcnt \in Nat
  BY <1>4 DEF MB
<1>6. CASE of = {}
  <2>1. \A h \in Mbufs : m \notin mbuf[h].segs
    BY <1>6 DEF of
  <2>2. mbuf[m].refcnt = rf[m]
    BY <1>1, <2>1 DEF Acc
  <2>3. Cardinality(of) = 0
    BY <1>6, FS_EmptySet
  <2> QED
    BY <1>2, <1>3, <1>5, <2>2, <2>3
<1>7. CASE of # {}
  <2>1. PICK h \in Mbufs : m \in mbuf[h].segs
    BY <1>7 DEF of
  <2>2. mbuf[m].refcnt = 1 /\ rf[m] = 0
    BY <1>1, <2>1 DEF Acc
  <2>3. \A g \in Mbufs : m \in mbuf[g].segs => g = h
    BY <1>1, <2>1 DEF Acc
  <2>4. of = {h}
    BY <2>1, <2>3 DEF of
  <2>5. Cardinality(of) = 1
    BY <2>4, FS_Singleton
  <2> QED
    BY <1>2, <1>3, <2>2, <2>5
<1> QED
  BY <1>6, <1>7

\* The inductive invariant holds.
THEOREM EnginesInvariant == Spec => []EnginesInv
<1>1. Init => EnginesInv
  BY InitInv
<1>2. EnginesInv /\ [Next]_vars => EnginesInv'
  BY NextInv
<1> QED
  BY <1>1, <1>2, PTL DEF Spec

\* The variables keep their types: no burst is longer than its array, the ring
\* holds no more than its capacity, and the numbers of the flows stay in range.
THEOREM EngineTypes == Spec => []TypeOK
<1>1. EnginesInv => TypeOK
  BY DEF EnginesInv
<1> QED
  BY <1>1, EnginesInvariant, PTL

\* Whatever engine runs, however the device answers and whenever the driver
\* gives buffers back, no buffer is lost, freed twice or sent after it was freed.
THEOREM NoMbufLost == Spec => []MbufsAccounted
<1>1. EnginesInv => MbufsAccounted
  BY InvAccounts
<1> QED
  BY <1>1, EnginesInvariant, PTL

\* The engines that send packets as they come keep them in the order of their
\* arrival, the ring of the noisy engine included.
THEOREM OrderStaysKept == Spec => []OrderKept
<1>1. EnginesInv => OrderKept
  BY DEF EnginesInv
<1> QED
  BY <1>1, EnginesInvariant, PTL

\* When a call has ended each packet that came is counted once, as sent, as
\* dropped or as consumed by the engine.
THEOREM CountersStayBalanced == Spec => []CountersBalance
<1>1. EnginesInv => CountersBalance
  BY DEF EnginesInv
<1> QED
  BY <1>1, EnginesInvariant, PTL

\* The numbers of the flows have gone on by the packets that were sent, no
\* more: those of the packets that were dropped are used again.
THEOREM FlowsStayBackedOut == Spec => []FlowsBackedOut
<1>1. EnginesInv => FlowsBackedOut
  BY DEF EnginesInv
<1> QED
  BY <1>1, EnginesInvariant, PTL
===============================================================================
