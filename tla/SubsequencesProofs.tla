------------------------- MODULE SubsequencesProofs -------------------------
(***************************************************************************)
(* What KeepIn does to a longer and to a shorter sequence, the members of a *)
(* queue as a set, the order of a sort, and sums.  KeepIn and SumOf are     *)
(* recursive functions over the prefixes of a sequence: each fact is an     *)
(* induction over their length, stated for a set of lengths.                *)
(***************************************************************************)
EXTENDS Subsequences, SequencesExt, WellFoundedInduction, FiniteSetTheorems, TLAPS

\* A set of natural numbers that is not empty has a least element.
LEMMA LeastElement ==
  ASSUME NEW T \in SUBSET Nat, T # {}
  PROVE  \E n \in T : \A m \in T : n <= m
<1> DEFINE R == {pair \in Nat \X Nat : pair[1] < pair[2]}
<1>1. IsWellFoundedOn(R, Nat)
  BY NatLessThanWellFounded DEF OpToRel
<1>2. \E x \in T : \A y \in T : ~ (<<y, x>> \in R)
  <2> HIDE DEF R
  <2> QED BY <1>1, WFMin
<1>3. \A x, y \in T : <<y, x>> \notin R => x <= y
  OBVIOUS
<1> HIDE DEF R
<1> QED BY <1>2, <1>3

\* Induction up to n: a set that has 0, and with each number the next, has all.
LEMMA UpTo ==
  ASSUME NEW n \in Nat, NEW T, 0 \in T,
         \A k \in Nat : k < n /\ k \in T => k + 1 \in T
  PROVE  \A k \in 0..n : k \in T
<1> DEFINE Missing == {k \in Nat : k <= n /\ k \notin T}
<1>1. Missing = {}
  <2> SUFFICES ASSUME Missing # {} PROVE FALSE
    OBVIOUS
  <2>1. PICK k \in Missing : \A m \in Missing : k <= m
    <3> HIDE DEF Missing
    <3>1. Missing \in SUBSET Nat
      BY DEF Missing
    <3> QED BY <3>1, LeastElement
  <2>2. k \in Nat /\ k # 0 /\ k <= n /\ k \notin T
    BY <2>1
  <2>3. k - 1 \in Nat /\ k - 1 < n /\ k - 1 < k /\ (k - 1) + 1 = k
    BY <2>2
  <2>4. k - 1 \notin Missing
    <3> HIDE DEF Missing
    <3>1. \A m \in Missing : m >= k
      BY <2>1, <2>2 DEF Missing
    <3> QED BY <2>2, <2>3, <3>1
  <2>5. k - 1 \in T
    BY <2>3, <2>4
  <2> QED BY <2>2, <2>3, <2>5
<1> QED BY <1>1

\* The recursion is well defined.
LEMMA KeptExists ==
  ASSUME NEW q, NEW S, Len(q) \in Nat
  PROVE  \E g : g = [i \in 0..Len(q) |-> IF i = 0 THEN <<>> ELSE WithMember(g[i - 1], q[i], S)]
<1> DEFINE Solves(g, m) ==
             g = [i \in 0..m |-> IF i = 0 THEN <<>> ELSE WithMember(g[i - 1], q[i], S)]
           T == {m \in Nat : \E g : Solves(g, m)}
<1>1. 0 \in T
  <2> DEFINE g == [i \in 0..0 |-> <<>>]
  <2>1. Solves(g, 0)
    OBVIOUS
  <2> HIDE DEF g, Solves
  <2> QED BY <2>1
<1>2. ASSUME NEW k \in Nat, k \in T PROVE k + 1 \in T
  <2>1. PICK g : Solves(g, k)
    BY <1>2
  <2> DEFINE h == [i \in 0..(k + 1) |-> IF i = k + 1 THEN WithMember(g[k], q[k + 1], S) ELSE g[i]]
  <2>2. \A i \in 0..k : h[i] = g[i]
    OBVIOUS
  <2>3. ASSUME NEW i \in 0..(k + 1)
        PROVE  h[i] = IF i = 0 THEN <<>> ELSE WithMember(h[i - 1], q[i], S)
    <3>1. CASE i = k + 1
      <4>1. h[i] = WithMember(g[k], q[k + 1], S)
        BY <3>1
      <4>2. i # 0 /\ i - 1 = k /\ k \in 0..k
        BY <3>1
      <4> HIDE DEF h
      <4> QED BY <4>1, <4>2, <2>2, <3>1
    <3>2. CASE i # k + 1
      <4>1. i \in 0..k /\ (i # 0 => i - 1 \in 0..k)
        BY <3>2
      <4>2. g[i] = IF i = 0 THEN <<>> ELSE WithMember(g[i - 1], q[i], S)
        <5> HIDE DEF h
        <5> QED BY <2>1, <4>1, Zenon
      <4> HIDE DEF h, Solves
      <4> QED BY <4>1, <4>2, <2>2
    <3> QED BY <3>1, <3>2
  <2>4. Solves(h, k + 1)
    BY <2>3
  <2> HIDE DEF h, Solves
  <2> QED BY <2>4
<1>3. \A k \in 0..Len(q) : k \in T
  <2> HIDE DEF T
  <2> QED BY <1>1, <1>2, UpTo
<1>4. Len(q) \in T
  <2> HIDE DEF T
  <2> QED BY <1>3
<1> QED BY <1>4

\* The equations of what is kept.
LEMMA KeptEquations ==
  ASSUME NEW q, NEW S, Len(q) \in Nat
  PROVE  /\ KeptOf(q, S)[0] = <<>>
         /\ \A n \in Nat : n < Len(q) =>
               KeptOf(q, S)[n + 1] = WithMember(KeptOf(q, S)[n], q[n + 1], S)
<1> DEFINE kept == KeptOf(q, S)
<1>1. kept = [i \in 0..Len(q) |-> IF i = 0 THEN <<>> ELSE WithMember(kept[i - 1], q[i], S)]
  <2>1. \E g : g = [i \in 0..Len(q) |-> IF i = 0 THEN <<>> ELSE WithMember(g[i - 1], q[i], S)]
    BY KeptExists, Zenon
  <2> QED BY <2>1, Zenon DEF KeptOf
<1> HIDE DEF kept
<1>2. \A i \in 0..Len(q) : kept[i] = IF i = 0 THEN <<>> ELSE WithMember(kept[i - 1], q[i], S)
  BY <1>1, Zenon
<1>3. kept[0] = <<>>
  <2>1. 0 \in 0..Len(q)
    OBVIOUS
  <2> QED BY <1>2, <2>1
<1>4. ASSUME NEW n \in Nat, n < Len(q)
      PROVE  kept[n + 1] = WithMember(kept[n], q[n + 1], S)
  <2>1. n + 1 \in 0..Len(q) /\ n + 1 # 0 /\ (n + 1) - 1 = n
    BY <1>4
  <2> QED BY <1>2, <2>1
<1> QED BY <1>3, <1>4 DEF kept

\* Nothing is kept of the empty sequence.
LEMMA KeepInEmpty == ASSUME NEW S PROVE KeepIn(<<>>, S) = <<>>
<1>1. Len(<<>>) = 0
  OBVIOUS
<1> QED BY <1>1, KeptEquations DEF KeepIn

\* What is kept is a sequence of elements that S has.
LEMMA KeepInType ==
  ASSUME NEW U, NEW q \in Seq(U), NEW S
  PROVE  KeepIn(q, S) \in Seq(U \cap S)
<1> DEFINE kept == KeptOf(q, S)
           T == {n \in Nat : n <= Len(q) => kept[n] \in Seq(U \cap S)}
<1>1. /\ kept[0] = <<>> /\ Len(q) \in Nat
      /\ \A n \in Nat : n < Len(q) => kept[n + 1] = WithMember(kept[n], q[n + 1], S)
  BY KeptEquations
<1> HIDE DEF kept
<1>2. 0 \in T
  <2>1. <<>> \in Seq(U \cap S)
    OBVIOUS
  <2>2. kept[0] \in Seq(U \cap S)
    BY <1>1, <2>1
  <2> QED BY <2>2
<1>3. ASSUME NEW k \in Nat, k < Len(q), k \in T PROVE k + 1 \in T
  <2>1. kept[k] \in Seq(U \cap S) /\ kept[k + 1] = WithMember(kept[k], q[k + 1], S)
    BY <1>1, <1>3
  <2>2. q[k + 1] \in U
    BY <1>3
  <2>3. kept[k + 1] \in Seq(U \cap S)
    BY <2>1, <2>2 DEF WithMember
  <2> QED BY <2>3
<1>4. \A k \in 0..Len(q) : k \in T
  <2> HIDE DEF T
  <2> QED BY <1>1, <1>2, <1>3, UpTo
<1>5. kept[Len(q)] \in Seq(U \cap S)
  BY <1>1, <1>4
<1> QED BY <1>5 DEF KeepIn, kept

\* An element appended is kept, if S has it.
LEMMA KeepInAppend ==
  ASSUME NEW U, NEW q \in Seq(U), NEW e \in U, NEW S
  PROVE  KeepIn(Append(q, e), S) = WithMember(KeepIn(q, S), e, S)
<1> DEFINE longer == Append(q, e)
           kept == KeptOf(q, S)
           keptLonger == KeptOf(longer, S)
           T == {n \in Nat : n <= Len(q) => keptLonger[n] = kept[n]}
<1>1. /\ Len(q) \in Nat /\ Len(longer) = Len(q) + 1 /\ longer[Len(q) + 1] = e
      /\ \A n \in Nat : n < Len(q) => longer[n + 1] = q[n + 1]
  OBVIOUS
<1> HIDE DEF longer
<1>2. /\ kept[0] = <<>>
      /\ \A n \in Nat : n < Len(q) => kept[n + 1] = WithMember(kept[n], q[n + 1], S)
  BY KeptEquations
<1>3. /\ keptLonger[0] = <<>>
      /\ \A n \in Nat : n < Len(q) + 1 =>
            keptLonger[n + 1] = WithMember(keptLonger[n], longer[n + 1], S)
  <2>1. Len(longer) \in Nat
    BY <1>1
  <2> QED BY <1>1, <2>1, KeptEquations
<1> HIDE DEF kept, keptLonger
<1>4. 0 \in T
  BY <1>2, <1>3
<1>5. ASSUME NEW k \in Nat, k < Len(q), k \in T PROVE k + 1 \in T
  <2>1. keptLonger[k] = kept[k] /\ k < Len(q) + 1
    BY <1>1, <1>5
  <2>2. keptLonger[k + 1] = kept[k + 1]
    BY <1>1, <1>2, <1>3, <1>5, <2>1
  <2> QED BY <2>2
<1>6. \A k \in 0..Len(q) : k \in T
  <2> HIDE DEF T
  <2> QED BY <1>1, <1>4, <1>5, UpTo
<1>7. keptLonger[Len(q)] = kept[Len(q)]
  BY <1>1, <1>6
<1>8. keptLonger[Len(q) + 1] = WithMember(kept[Len(q)], e, S)
  BY <1>1, <1>3, <1>7
<1> QED BY <1>1, <1>8 DEF KeepIn, kept, keptLonger, longer

\* Appending to the second of two sequences appends to both.
LEMMA AppendAfter ==
  ASSUME NEW U, NEW a \in Seq(U), NEW b \in Seq(U), NEW e \in U
  PROVE  a \o Append(b, e) = Append(a \o b, e)
OBVIOUS

\* The first element comes first, if S has it.
LEMMA KeepInHead ==
  ASSUME NEW U, NEW q \in Seq(U), q # <<>>, NEW S
  PROVE  KeepIn(q, S) = WithMember(<<>>, Head(q), S) \o KeepIn(Tail(q), S)
<1> DEFINE rest == Tail(q)
           first == WithMember(<<>>, Head(q), S)
           kept == KeptOf(q, S)
           keptRest == KeptOf(rest, S)
           T == {n \in Nat : n <= Len(rest) =>
                    keptRest[n] \in Seq(U) /\ kept[n + 1] = first \o keptRest[n]}
<1>1. /\ Len(q) \in Nat /\ Len(rest) \in Nat /\ Len(q) = Len(rest) + 1
      /\ rest \in Seq(U) /\ q[1] = Head(q) /\ Head(q) \in U
      /\ \A n \in Nat : n < Len(rest) => rest[n + 1] = q[n + 2] /\ rest[n + 1] \in U
  OBVIOUS
<1> HIDE DEF rest
<1>2. first \in Seq(U)
  BY <1>1 DEF WithMember
<1>3. /\ kept[0] = <<>>
      /\ \A n \in Nat : n < Len(rest) + 1 => kept[n + 1] = WithMember(kept[n], q[n + 1], S)
  BY <1>1, KeptEquations
<1>4. /\ keptRest[0] = <<>>
      /\ \A n \in Nat : n < Len(rest) =>
            keptRest[n + 1] = WithMember(keptRest[n], rest[n + 1], S)
  BY <1>1, KeptEquations
<1>5. kept[1] = first
  <2>1. 0 < Len(rest) + 1 /\ 0 + 1 = 1
    BY <1>1
  <2>2. kept[0 + 1] = WithMember(kept[0], q[0 + 1], S)
    BY <1>3, <2>1
  <2> QED BY <1>1, <1>3, <2>1, <2>2
<1> HIDE DEF kept, keptRest, first
<1>6. 0 \in T
  <2>1. <<>> \in Seq(U) /\ first \o <<>> = first
    BY <1>2
  <2>2. keptRest[0] \in Seq(U) /\ kept[0 + 1] = first \o keptRest[0]
    BY <1>4, <1>5, <2>1
  <2> QED BY <2>2
<1>7. ASSUME NEW k \in Nat, k < Len(rest), k \in T PROVE k + 1 \in T
  <2>1. keptRest[k] \in Seq(U) /\ kept[k + 1] = first \o keptRest[k]
    BY <1>7
  <2>2. keptRest[k + 1] = WithMember(keptRest[k], rest[k + 1], S)
    BY <1>4, <1>7
  <2>3. k + 1 \in Nat /\ k + 1 < Len(rest) + 1 /\ (k + 1) + 1 = k + 2
    BY <1>1, <1>7
  <2>4. kept[k + 2] = WithMember(kept[k + 1], q[k + 2], S)
    BY <1>3, <2>3
  <2>5. rest[k + 1] = q[k + 2] /\ rest[k + 1] \in U
    BY <1>1, <1>7
  <2>6. keptRest[k + 1] \in Seq(U)
    BY <2>1, <2>2, <2>5 DEF WithMember
  <2>7. kept[k + 2] = first \o keptRest[k + 1]
    <3>1. first \o Append(keptRest[k], rest[k + 1]) = Append(first \o keptRest[k], rest[k + 1])
      <4>1. \A a, b \in Seq(U) : \A e \in U : a \o Append(b, e) = Append(a \o b, e)
        BY AppendAfter
      <4>2. keptRest[k] \in Seq(U) /\ rest[k + 1] \in U
        BY <2>1, <2>5
      <4> QED BY <1>2, <4>1, <4>2, Zenon
    <3>2. CASE rest[k + 1] \in S
      BY <2>1, <2>2, <2>4, <2>5, <3>1, <3>2 DEF WithMember
    <3>3. CASE rest[k + 1] \notin S
      BY <2>1, <2>2, <2>4, <2>5, <3>3 DEF WithMember
    <3> QED BY <3>2, <3>3
  <2> QED BY <2>3, <2>6, <2>7
<1>8. \A k \in 0..Len(rest) : k \in T
  <2> HIDE DEF T
  <2> QED BY <1>1, <1>6, <1>7, UpTo
<1>9. kept[Len(rest) + 1] = first \o keptRest[Len(rest)]
  BY <1>1, <1>8
<1> QED BY <1>1, <1>9 DEF KeepIn, kept, keptRest, first, rest

\* No more is kept than there is.
LEMMA KeepInLength ==
  ASSUME NEW U, NEW q \in Seq(U), NEW S
  PROVE  Len(KeepIn(q, S)) <= Len(q)
<1> DEFINE kept == KeptOf(q, S)
           T == {n \in Nat : n <= Len(q) => kept[n] \in Seq(U) /\ Len(kept[n]) <= n}
<1>1. /\ kept[0] = <<>> /\ Len(q) \in Nat
      /\ \A n \in Nat : n < Len(q) => kept[n + 1] = WithMember(kept[n], q[n + 1], S)
  BY KeptEquations
<1> HIDE DEF kept
<1>2. 0 \in T
  <2>1. <<>> \in Seq(U) /\ Len(<<>>) = 0
    OBVIOUS
  <2>2. kept[0] \in Seq(U) /\ Len(kept[0]) <= 0
    BY <1>1, <2>1
  <2> QED BY <2>2
<1>3. ASSUME NEW k \in Nat, k < Len(q), k \in T PROVE k + 1 \in T
  <2>1. /\ kept[k] \in Seq(U) /\ Len(kept[k]) <= k
        /\ kept[k + 1] = WithMember(kept[k], q[k + 1], S)
    BY <1>1, <1>3
  <2>2. q[k + 1] \in U
    BY <1>3
  <2>3. kept[k + 1] \in Seq(U) /\ Len(kept[k + 1]) <= k + 1
    BY <2>1, <2>2 DEF WithMember
  <2> QED BY <2>3
<1>4. \A k \in 0..Len(q) : k \in T
  <2> HIDE DEF T
  <2> QED BY <1>1, <1>2, <1>3, UpTo
<1>5. Len(kept[Len(q)]) <= Len(q)
  BY <1>1, <1>4
<1> QED BY <1>5 DEF KeepIn, kept

\* What is related from earlier to later elements still is among those kept.
LEMMA KeepInRelated ==
  ASSUME NEW U, NEW q \in Seq(U), NEW S, NEW R,
         \A i, j \in 1..Len(q) : i < j => <<q[i], q[j]>> \in R
  PROVE  LET kept == KeepIn(q, S)
         IN  \A i, j \in 1..Len(kept) : i < j => <<kept[i], kept[j]>> \in R
<1> DEFINE kept == KeptOf(q, S)
           Places(p, n) == \A i \in 1..Len(p) : \E k \in 1..n : p[i] = q[k]
           Related(p) == \A i, j \in 1..Len(p) : i < j => <<p[i], p[j]>> \in R
           T == {n \in Nat : n <= Len(q) => kept[n] \in Seq(U) /\ Places(kept[n], n) /\ Related(kept[n])}
<1>1. /\ kept[0] = <<>> /\ Len(q) \in Nat
      /\ \A n \in Nat : n < Len(q) => kept[n + 1] = WithMember(kept[n], q[n + 1], S)
  BY KeptEquations
<1> HIDE DEF kept
<1>2. 0 \in T
  <2>1. <<>> \in Seq(U) /\ Len(<<>>) = 0
    OBVIOUS
  <2>2. kept[0] \in Seq(U) /\ Places(kept[0], 0) /\ Related(kept[0])
    BY <1>1, <2>1
  <2> QED BY <2>2
<1>3. ASSUME NEW n \in Nat, n < Len(q), n \in T PROVE n + 1 \in T
  <2>1. /\ kept[n] \in Seq(U) /\ Places(kept[n], n) /\ Related(kept[n])
        /\ kept[n + 1] = WithMember(kept[n], q[n + 1], S)
    <3>1. n <= Len(q)
      BY <1>1, <1>3
    <3> HIDE DEF Places, Related
    <3>2. kept[n] \in Seq(U) /\ Places(kept[n], n) /\ Related(kept[n])
      BY <1>3, <3>1
    <3> QED BY <1>1, <1>3, <3>2
  <2>2. q[n + 1] \in U /\ n + 1 \in 1..Len(q)
    BY <1>1, <1>3
  <2>3. CASE q[n + 1] \notin S
    <3>1. kept[n + 1] = kept[n]
      BY <2>1, <2>3 DEF WithMember
    <3>2. Places(kept[n], n + 1)
      BY <2>1
    <3> HIDE DEF Places, Related
    <3> QED BY <2>1, <3>1, <3>2
  <2>4. CASE q[n + 1] \in S
    <3> DEFINE p == kept[n]
               longer == Append(p, q[n + 1])
    <3>1. /\ kept[n + 1] = longer /\ longer \in Seq(U)
          /\ Len(p) \in Nat /\ Len(longer) = Len(p) + 1 /\ longer[Len(p) + 1] = q[n + 1]
          /\ \A i \in 1..Len(p) : longer[i] = p[i]
      BY <2>1, <2>2, <2>4 DEF WithMember
    <3> HIDE DEF p, longer
    <3>2. Places(p, n) /\ Related(p)
      BY <2>1 DEF p
    <3>3. Places(longer, n + 1)
      BY <3>1, <3>2
    <3>4. ASSUME NEW i \in 1..Len(longer), NEW j \in 1..Len(longer), i < j
          PROVE  <<longer[i], longer[j]>> \in R
      <4>1. i \in 1..Len(p) /\ longer[i] = p[i]
        BY <3>1, <3>4
      <4>2. CASE j \in 1..Len(p)
        BY <3>1, <3>2, <3>4, <4>1, <4>2
      <4>3. CASE j = Len(p) + 1
        <5>1. PICK k \in 1..n : p[i] = q[k]
          BY <3>2, <4>1
        <5>2. k \in 1..Len(q) /\ k < n + 1
          BY <1>1, <1>3
        <5>3. <<q[k], q[n + 1]>> \in R
          BY <2>2, <5>2
        <5>4. longer[i] = q[k] /\ longer[j] = q[n + 1]
          BY <3>1, <4>1, <4>3, <5>1
        <5> QED BY <5>3, <5>4
      <4> QED BY <3>1, <4>2, <4>3
    <3>5. Related(longer)
      BY <3>4
    <3> HIDE DEF Places, Related
    <3> QED BY <3>1, <3>3, <3>5
  <2> QED BY <2>3, <2>4
<1>4. \A n \in 0..Len(q) : n \in T
  <2> HIDE DEF T
  <2> QED BY <1>1, <1>2, <1>3, UpTo
<1>5. Related(kept[Len(q)])
  BY <1>1, <1>4
<1> QED BY <1>5 DEF KeepIn, kept

\* An element posted is kept, if S has it.
LEMMA KeepInPost ==
  ASSUME NEW U, NEW q \in Seq(U), NEW e \in U, NEW S
  PROVE  /\ KeepIn(q \o <<e>>, S) = WithMember(KeepIn(q, S), e, S)
         /\ KeepIn(q \o <<e>>, S) = IF e \in S THEN KeepIn(q, S) \o <<e>> ELSE KeepIn(q, S)
<1>1. q \o <<e>> = Append(q, e)
  OBVIOUS
<1>2. KeepIn(q \o <<e>>, S) = WithMember(KeepIn(q, S), e, S)
  BY <1>1, KeepInAppend
<1>3. KeepIn(q, S) \in Seq(U)
  <2>1. KeepIn(q, S) \in Seq(U \cap S)
    BY KeepInType
  <2> QED BY <2>1
<1>4. Append(KeepIn(q, S), e) = KeepIn(q, S) \o <<e>>
  BY <1>3
<1> QED BY <1>2, <1>4 DEF WithMember

\* Two elements are posted one after the other.
LEMMA PostTwo ==
  ASSUME NEW U, NEW q \in Seq(U), NEW e \in U, NEW f \in U
  PROVE  /\ q \o <<e>> \in Seq(U)
         /\ q \o <<e, f>> = (q \o <<e>>) \o <<f>>
<1> DEFINE first == Append(q, e)
<1>1. first \in Seq(U) /\ q \o <<e>> = first
  OBVIOUS
<1>2. q \o <<e, f>> = Append(first, f)
  OBVIOUS
<1> HIDE DEF first
<1>3. Append(first, f) = first \o <<f>>
  BY <1>1
<1> QED BY <1>1, <1>2, <1>3

\* Two elements posted that S has are kept.
LEMMA KeepInPostTwo ==
  ASSUME NEW U, NEW q \in Seq(U), NEW S, NEW e \in U, NEW f \in U, e \in S, f \in S
  PROVE  KeepIn(q \o <<e, f>>, S) = KeepIn(q, S) \o <<e, f>>
<1>1. /\ q \o <<e>> \in Seq(U) /\ q \o <<e, f>> = (q \o <<e>>) \o <<f>>
      /\ KeepIn(q, S) \in Seq(U)
      /\ KeepIn(q, S) \o <<e, f>> = (KeepIn(q, S) \o <<e>>) \o <<f>>
  <2>1. \A p \in Seq(U) : /\ p \o <<e>> \in Seq(U)
                          /\ p \o <<e, f>> = (p \o <<e>>) \o <<f>>
    BY PostTwo
  <2>2. KeepIn(q, S) \in Seq(U)
    <3>1. KeepIn(q, S) \in Seq(U \cap S)
      BY KeepInType
    <3> QED BY <3>1
  <2> QED BY <2>1, <2>2, Zenon
<1>2. ASSUME NEW p \in Seq(U), NEW x \in U, x \in S
      PROVE  KeepIn(p \o <<x>>, S) = KeepIn(p, S) \o <<x>>
  <2>1. KeepIn(p \o <<x>>, S) = IF x \in S THEN KeepIn(p, S) \o <<x>> ELSE KeepIn(p, S)
    BY KeepInPost
  <2> QED BY <1>2, <2>1, Zenon
<1>3. /\ KeepIn(q \o <<e>>, S) = KeepIn(q, S) \o <<e>>
      /\ KeepIn((q \o <<e>>) \o <<f>>, S) = KeepIn(q \o <<e>>, S) \o <<f>>
  BY <1>1, <1>2, Zenon
<1> QED BY <1>1, <1>3, Zenon

\* The first element is taken away: from what is kept as well, if S has it.
LEMMA KeepInTail ==
  ASSUME NEW U, NEW q \in Seq(U), q # <<>>, NEW S
  PROVE  /\ Head(q) \in S => /\ KeepIn(q, S) # <<>>
                              /\ Head(KeepIn(q, S)) = Head(q)
                              /\ Tail(KeepIn(q, S)) = KeepIn(Tail(q), S)
                              /\ Len(KeepIn(q, S)) = Len(KeepIn(Tail(q), S)) + 1
         /\ Head(q) \notin S => KeepIn(q, S) = KeepIn(Tail(q), S)
<1> DEFINE rest == KeepIn(Tail(q), S)
<1>1. Head(q) \in U /\ Tail(q) \in Seq(U)
  OBVIOUS
<1>2. rest \in Seq(U)
  <2>1. rest \in Seq(U \cap S)
    BY <1>1, KeepInType
  <2> QED BY <2>1
<1>3. KeepIn(q, S) = WithMember(<<>>, Head(q), S) \o rest
  BY KeepInHead
<1> HIDE DEF rest
<1>4. CASE Head(q) \in S
  <2>1. KeepIn(q, S) = <<Head(q)>> \o rest
    BY <1>3, <1>4 DEF WithMember
  <2> QED BY <1>1, <1>2, <1>4, <2>1 DEF rest
<1>5. CASE Head(q) \notin S
  <2>1. KeepIn(q, S) = <<>> \o rest
    BY <1>3, <1>5 DEF WithMember
  <2> QED BY <1>2, <1>5, <2>1 DEF rest
<1> QED BY <1>4, <1>5

\* Nothing is kept only if S has none of the elements.
LEMMA NothingKept ==
  ASSUME NEW U, NEW q \in Seq(U), NEW S, Len(KeepIn(q, S)) = 0
  PROVE  \A x \in ToSet(q) : x \notin S
<1> DEFINE kept == KeptOf(q, S)
           T == {n \in Nat : n <= Len(q) =>
                    /\ kept[n] \in Seq(U)
                    /\ Len(kept[n]) = 0 => \A i \in 1..n : q[i] \notin S}
<1>1. /\ kept[0] = <<>> /\ Len(q) \in Nat
      /\ \A n \in Nat : n < Len(q) => kept[n + 1] = WithMember(kept[n], q[n + 1], S)
  BY KeptEquations
<1> HIDE DEF kept
<1>2. 0 \in T
  <2>1. <<>> \in Seq(U) /\ \A i \in 1..0 : FALSE
    OBVIOUS
  <2>2. kept[0] \in Seq(U) /\ \A i \in 1..0 : q[i] \notin S
    BY <1>1, <2>1
  <2> QED BY <2>2
<1>3. ASSUME NEW k \in Nat, k < Len(q), k \in T PROVE k + 1 \in T
  <2>1. /\ kept[k] \in Seq(U)
        /\ Len(kept[k]) = 0 => \A i \in 1..k : q[i] \notin S
        /\ kept[k + 1] = WithMember(kept[k], q[k + 1], S)
    BY <1>1, <1>3
  <2>2. q[k + 1] \in U
    BY <1>3
  <2>3. CASE q[k + 1] \in S
    <3>1. kept[k + 1] \in Seq(U) /\ Len(kept[k + 1]) # 0
      BY <2>1, <2>2, <2>3 DEF WithMember
    <3> QED BY <3>1
  <2>4. CASE q[k + 1] \notin S
    <3>1. kept[k + 1] = kept[k]
      BY <2>1, <2>4 DEF WithMember
    <3>2. \A i \in 1..(k + 1) : i \in 1..k \/ i = k + 1
      OBVIOUS
    <3> QED BY <2>1, <2>4, <3>1, <3>2
  <2> QED BY <2>3, <2>4
<1>4. \A k \in 0..Len(q) : k \in T
  <2> HIDE DEF T
  <2> QED BY <1>1, <1>2, <1>3, UpTo
<1>5. Len(kept[Len(q)]) = 0 => \A i \in 1..Len(q) : q[i] \notin S
  BY <1>1, <1>4
<1> QED BY <1>5 DEF KeepIn, kept, ToSet

\* What is kept are the elements that S has, all of them.
LEMMA MembersKept ==
  ASSUME NEW U, NEW q \in Seq(U), NEW S
  PROVE  Range(KeepIn(q, S)) = Range(q) \cap S
<1> DEFINE kept == KeptOf(q, S)
           Has(p, x) == \E k \in 1..Len(p) : p[k] = x
           T == {n \in Nat : n <= Len(q) =>
                    kept[n] \in Seq(U) /\ \A i \in 1..n : q[i] \in S => Has(kept[n], q[i])}
<1>1. /\ kept[0] = <<>> /\ Len(q) \in Nat
      /\ \A n \in Nat : n < Len(q) => kept[n + 1] = WithMember(kept[n], q[n + 1], S)
  BY KeptEquations
<1> HIDE DEF kept
<1>2. 0 \in T
  <2>1. <<>> \in Seq(U) /\ \A i \in 1..0 : FALSE
    OBVIOUS
  <2>2. kept[0] \in Seq(U)
    BY <1>1, <2>1
  <2> QED BY <2>1, <2>2
<1>3. ASSUME NEW k \in Nat, k < Len(q), k \in T PROVE k + 1 \in T
  <2>1. /\ kept[k] \in Seq(U)
        /\ \A i \in 1..k : q[i] \in S => Has(kept[k], q[i])
        /\ kept[k + 1] = WithMember(kept[k], q[k + 1], S)
    BY <1>1, <1>3
  <2>2. q[k + 1] \in U
    BY <1>3
  <2>3. \A i \in 1..(k + 1) : i \in 1..k \/ i = k + 1
    OBVIOUS
  <2>4. CASE q[k + 1] \in S
    <3>1. kept[k + 1] = Append(kept[k], q[k + 1])
      BY <2>1, <2>4 DEF WithMember
    <3>2. \A p \in Seq(U), e \in U : /\ Append(p, e) \in Seq(U) /\ Has(Append(p, e), e)
                                    /\ \A x : Has(p, x) => Has(Append(p, e), x)
      <4> SUFFICES ASSUME NEW p \in Seq(U), NEW e \in U
                   PROVE  /\ Append(p, e) \in Seq(U) /\ Has(Append(p, e), e)
                          /\ \A x : Has(p, x) => Has(Append(p, e), x)
        OBVIOUS
      <4>1. Len(p) + 1 \in 1..Len(Append(p, e)) /\ Append(p, e)[Len(p) + 1] = e
        OBVIOUS
      <4> QED BY <4>1
    <3> HIDE DEF Has
    <3>3. kept[k + 1] \in Seq(U) /\ Has(kept[k + 1], q[k + 1]) /\ \A x : Has(kept[k], x) => Has(kept[k + 1], x)
      BY <2>1, <2>2, <3>1, <3>2
    <3>4. ASSUME NEW i \in 1..(k + 1), q[i] \in S PROVE Has(kept[k + 1], q[i])
      BY <2>1, <2>3, <3>3, <3>4
    <3> QED BY <3>3, <3>4
  <2>5. CASE q[k + 1] \notin S
    <3>1. kept[k + 1] = kept[k]
      BY <2>1, <2>5 DEF WithMember
    <3> QED BY <2>1, <2>3, <2>5, <3>1
  <2> QED BY <2>4, <2>5
<1>4. \A k \in 0..Len(q) : k \in T
  <2> HIDE DEF T
  <2> QED BY <1>1, <1>2, <1>3, UpTo
<1>5. \A i \in 1..Len(q) : q[i] \in S => Has(kept[Len(q)], q[i])
  BY <1>1, <1>4
<1>6. q \in Seq(Range(q)) /\ Range(q) = {q[i] : i \in 1..Len(q)}
  BY DEF Range
<1>7. KeepIn(q, S) \in Seq(Range(q) \cap S)
  BY <1>6, KeepInType
<1>8. Range(KeepIn(q, S)) \subseteq Range(q) \cap S
  BY <1>7 DEF Range
<1>9. ASSUME NEW x \in Range(q) \cap S PROVE x \in Range(KeepIn(q, S))
  <2>1. PICK i \in 1..Len(q) : q[i] = x
    BY <1>6
  <2>2. PICK k \in 1..Len(KeepIn(q, S)) : KeepIn(q, S)[k] = x
    BY <1>5, <2>1 DEF KeepIn, kept
  <2>3. k \in DOMAIN KeepIn(q, S)
    BY <1>7
  <2> QED BY <2>2, <2>3 DEF Range
<1> QED BY <1>8, <1>9

-----------------------------------------------------------------------------
(* Queues as sets of messages. *)

\* Appending a message adds exactly that message.
LEMMA ToSetAppend ==
  ASSUME NEW S, NEW q \in Seq(S), NEW m \in S
  PROVE  /\ Append(q, m) \in Seq(S)
         /\ ToSet(Append(q, m)) = ToSet(q) \cup {m}
<1>1. Append(q, m) \in Seq(S)
  OBVIOUS
<1>2. ASSUME NEW x \in ToSet(Append(q, m)) PROVE x \in ToSet(q) \cup {m}
  BY <1>2 DEF ToSet
<1>3. ASSUME NEW x \in ToSet(q) PROVE x \in ToSet(Append(q, m))
  <2>1. PICK i \in 1..Len(q) : q[i] = x
    BY <1>3 DEF ToSet
  <2>2. i \in 1..Len(Append(q, m)) /\ Append(q, m)[i] = x
    BY <2>1
  <2> QED BY <2>2 DEF ToSet
<1>4. m \in ToSet(Append(q, m))
  <2>1. Len(q) + 1 \in 1..Len(Append(q, m)) /\ Append(q, m)[Len(q) + 1] = m
    OBVIOUS
  <2> QED BY <2>1 DEF ToSet
<1> QED BY <1>1, <1>2, <1>3, <1>4

\* Taking the first message removes no other one from what is left.
LEMMA ToSetTail ==
  ASSUME NEW S, NEW q \in Seq(S), q # <<>>
  PROVE  /\ Tail(q) \in Seq(S)
         /\ ToSet(Tail(q)) \subseteq ToSet(q)
         /\ ToSet(q) = ToSet(Tail(q)) \cup {Head(q)}
         /\ Head(q) \in S
<1>1. Tail(q) \in Seq(S) /\ Len(q) \in Nat \ {0} /\ Len(Tail(q)) = Len(q) - 1
  OBVIOUS
<1>2. ASSUME NEW x \in ToSet(Tail(q)) PROVE x \in ToSet(q)
  <2>1. PICK i \in 1..Len(Tail(q)) : Tail(q)[i] = x
    BY <1>2 DEF ToSet
  <2>2. i + 1 \in 1..Len(q) /\ q[i + 1] = x
    BY <1>1, <2>1
  <2> QED BY <2>2 DEF ToSet
<1>3. Head(q) \in ToSet(q) /\ Head(q) \in S
  <2>1. 1 \in 1..Len(q) /\ q[1] = Head(q)
    BY <1>1
  <2> QED BY <2>1 DEF ToSet
<1>4. ASSUME NEW x \in ToSet(q), x # Head(q) PROVE x \in ToSet(Tail(q))
  <2>1. PICK i \in 1..Len(q) : q[i] = x
    BY <1>4 DEF ToSet
  <2>2. i # 1
    BY <1>4, <2>1
  <2>3. i - 1 \in 1..Len(Tail(q))
    BY <1>1, <2>1, <2>2
  <2>4. Tail(q)[i - 1] = x
    BY <1>1, <2>1, <2>3
  <2>5. \E j \in 1..Len(Tail(q)) : Tail(q)[j] = x
    BY <2>3, <2>4
  <2>6. DOMAIN Tail(q) = 1..Len(Tail(q))
    BY <1>1
  <2> QED BY <2>5, <2>6, Zenon DEF ToSet
<1> QED BY <1>1, <1>2, <1>3, <1>4

\* An empty queue holds no message.
LEMMA ToSetEmpty == ToSet(<<>>) = {}
BY DEF ToSet

\* Posting one event adds exactly that event.
LEMMA ToSetPost ==
  ASSUME NEW S, NEW q \in Seq(S), NEW m \in S
  PROVE  /\ q \o <<m>> \in Seq(S)
         /\ ToSet(q \o <<m>>) = ToSet(q) \cup {m}
<1> DEFINE longer == Append(q, m)
<1>1. q \o <<m>> = longer
  OBVIOUS
<1>2. longer \in Seq(S) /\ ToSet(longer) = ToSet(q) \cup {m}
  BY ToSetAppend
<1> HIDE DEF longer
<1> QED BY <1>1, <1>2

\* Posting two events adds both.
LEMMA ToSetPostTwo ==
  ASSUME NEW S, NEW q \in Seq(S), NEW m \in S, NEW n \in S
  PROVE  /\ q \o <<m, n>> \in Seq(S)
         /\ ToSet(q \o <<m, n>>) = ToSet(q) \cup {m, n}
<1> DEFINE first == Append(q, m)
<1>1. first \in Seq(S) /\ ToSet(first) = ToSet(q) \cup {m}
  BY ToSetAppend
<1>2. q \o <<m, n>> = Append(first, n)
  OBVIOUS
<1> HIDE DEF first
<1>3. Append(first, n) \in Seq(S) /\ ToSet(Append(first, n)) = ToSet(first) \cup {n}
  BY <1>1, ToSetAppend
<1> QED BY <1>1, <1>2, <1>3

-----------------------------------------------------------------------------
(* The order of a sort *)

\* A finite set has more members than one within it that lacks one of them.
LEMMA Fewer ==
  ASSUME NEW S, IsFiniteSet(S), NEW T \in SUBSET S, NEW x \in S, x \notin T
  PROVE  /\ IsFiniteSet(T)
         /\ Cardinality(T) \in Nat /\ Cardinality(S) \in Nat /\ Cardinality(T) < Cardinality(S)
<1>1. IsFiniteSet(T) /\ Cardinality(T) <= Cardinality(S) /\ (Cardinality(S) = Cardinality(T) => S = T)
  BY FS_Subset
<1>2. S # T
  OBVIOUS
<1>3. Cardinality(T) \in Nat /\ Cardinality(S) \in Nat
  BY <1>1, FS_CardinalityType
<1> QED BY <1>1, <1>2, <1>3

\* A number before another has fewer before it.
LEMMA PlacesBeforeGrow ==
  ASSUME NEW n \in Nat, NEW key \in [1..n -> Int], NEW a \in 1..n, NEW b \in 1..n,
         Precedes(key, a, b)
  PROVE  PlacesBefore(key, a) < PlacesBefore(key, b)
<1> DEFINE Above(i) == {j \in 1..n : Precedes(key, j, i)}
<1>1. DOMAIN key = 1..n /\ \A i \in 1..n : key[i] \in Int
  OBVIOUS
<1>2. IsFiniteSet(1..n)
  BY FS_Interval
<1>3. IsFiniteSet(Above(b)) /\ Cardinality(Above(b)) \in Nat
  BY <1>2, FS_Subset, FS_CardinalityType
<1>4. Above(a) \in SUBSET Above(b)
  BY <1>1 DEF Precedes
<1>5. a \in Above(b) /\ a \notin Above(a)
  BY <1>1 DEF Precedes
<1>6. PlacesBefore(key, a) = Cardinality(Above(a)) /\ PlacesBefore(key, b) = Cardinality(Above(b))
  BY <1>1 DEF PlacesBefore
<1> HIDE DEF Above
<1>7. /\ Cardinality(Above(a)) \in Nat /\ Cardinality(Above(b)) \in Nat
      /\ Cardinality(Above(a)) < Cardinality(Above(b))
  BY <1>3, <1>4, <1>5, Fewer
<1> QED BY <1>6, <1>7

\* For every place there is a number with that many before it.
LEMMA PlacesBeforeReached ==
  ASSUME NEW n \in Nat, NEW key \in [1..n -> Int], NEW k \in 1..n
  PROVE  \E i \in 1..n : PlacesBefore(key, i) = k - 1
<1> DEFINE places == [i \in 1..n |-> PlacesBefore(key, i) + 1]
<1>1. DOMAIN key = 1..n /\ \A i \in 1..n : key[i] \in Int
  OBVIOUS
<1>2. IsFiniteSet(1..n) /\ Cardinality(1..n) = n
  BY FS_Interval
<1>3. ASSUME NEW i \in 1..n PROVE PlacesBefore(key, i) \in 0..(n - 1)
  <2> DEFINE Above == {j \in 1..n : Precedes(key, j, i)}
  <2>1. Above \in SUBSET (1..n) /\ i \notin Above
    BY <1>1 DEF Precedes
  <2>2. PlacesBefore(key, i) = Cardinality(Above)
    BY <1>1 DEF PlacesBefore
  <2> HIDE DEF Above
  <2>3. /\ IsFiniteSet(Above) /\ Cardinality(Above) \in Nat
        /\ Cardinality(Above) < n
    BY <1>2, <2>1, Fewer
  <2> QED BY <2>2, <2>3
<1>4. ASSUME NEW i \in 1..n, NEW j \in 1..n, i # j PROVE PlacesBefore(key, i) # PlacesBefore(key, j)
  <2>1. key[i] \in Int /\ key[j] \in Int /\ i \in Int /\ j \in Int
    BY <1>1
  <2>2. Precedes(key, i, j) \/ Precedes(key, j, i)
    BY <1>4, <2>1 DEF Precedes
  <2>3. PlacesBefore(key, i) \in Int /\ PlacesBefore(key, j) \in Int
    BY <1>3
  <2>4. PlacesBefore(key, i) < PlacesBefore(key, j) \/ PlacesBefore(key, j) < PlacesBefore(key, i)
    BY <2>2, PlacesBeforeGrow
  <2> QED BY <2>3, <2>4
<1>5. places \in [1..n -> 1..n]
  BY <1>3
<1>6. places \in Injection(1..n, 1..n)
  <2>1. ASSUME NEW i \in 1..n, NEW j \in 1..n, places[i] = places[j] PROVE i = j
    BY <1>3, <1>4, <2>1
  <2> QED BY <1>5, <2>1 DEF Injection, IsInjective
<1>7. places \in Surjection(1..n, 1..n)
  <2> HIDE DEF places
  <2> QED BY <1>2, <1>6, FS_Injection
<1>8. PICK i \in 1..n : places[i] = k
  <2> HIDE DEF places
  <2> QED BY <1>7, ZenonT(30) DEF Surjection
<1> QED BY <1>3, <1>8

\* A sort visits every place, none twice, and the numbers never fall.
LEMMA SortedPlacesRise ==
  ASSUME NEW n \in Nat, NEW key \in [1..n -> Int]
  PROVE  /\ SortedPlaces(key) \in [1..n -> 1..n]
         /\ \A i \in 1..n : \E k \in 1..n : SortedPlaces(key)[k] = i
         /\ \A k, l \in 1..n : k < l =>
               /\ SortedPlaces(key)[k] # SortedPlaces(key)[l]
               /\ key[SortedPlaces(key)[k]] <= key[SortedPlaces(key)[l]]
<1> DEFINE place == SortedPlaces(key)
<1>1. DOMAIN key = 1..n /\ \A i \in 1..n : key[i] \in Int
  OBVIOUS
<1>2. ASSUME NEW k \in 1..n
      PROVE  place[k] \in 1..n /\ PlacesBefore(key, place[k]) = k - 1
  <2>1. place[k] = CHOOSE i \in 1..n : PlacesBefore(key, i) = k - 1
    BY <1>1 DEF SortedPlaces
  <2>2. \E i \in 1..n : PlacesBefore(key, i) = k - 1
    BY PlacesBeforeReached
  <2> HIDE DEF place
  <2> QED BY <2>1, <2>2
<1>3. place \in [1..n -> 1..n]
  <2>1. place = [k \in 1..n |-> place[k]]
    BY <1>1 DEF SortedPlaces
  <2> HIDE DEF place
  <2> QED BY <1>2, <2>1
<1> HIDE DEF place
<1>4. ASSUME NEW k \in 1..n, NEW l \in 1..n, k < l
      PROVE  place[k] # place[l] /\ key[place[k]] <= key[place[l]]
  <2> DEFINE a == place[k]
             b == place[l]
  <2>1. a \in 1..n /\ b \in 1..n /\ PlacesBefore(key, a) = k - 1 /\ PlacesBefore(key, b) = l - 1
    BY <1>2
  <2> HIDE DEF a, b
  <2>2. ~(PlacesBefore(key, b) < PlacesBefore(key, a)) /\ a # b
    BY <1>4, <2>1
  <2>3. ~Precedes(key, b, a)
    BY <2>1, <2>2, PlacesBeforeGrow
  <2>4. key[a] <= key[b]
    BY <1>1, <2>1, <2>3 DEF Precedes
  <2> QED BY <2>2, <2>4 DEF a, b
<1>5. \A i \in 1..n : \E k \in 1..n : place[k] = i
  <2>1. IsFiniteSet(1..n) /\ Cardinality(1..n) = n
    BY FS_Interval
  <2>2. ASSUME NEW i \in 1..n, NEW j \in 1..n, place[i] = place[j] PROVE i = j
    BY <1>4, <2>2
  <2>3. place \in Injection(1..n, 1..n)
    BY <1>3, <2>2 DEF Injection, IsInjective
  <2>4. place \in Surjection(1..n, 1..n)
    BY <2>1, <2>3, FS_Injection
  <2> QED BY <2>4 DEF Surjection
<1> QED BY <1>3, <1>4, <1>5 DEF place

-----------------------------------------------------------------------------
(* Sums *)

\* The recursion of a sum is well defined.
LEMMA SumsExist ==
  ASSUME NEW q, Len(q) \in Nat
  PROVE  \E g : g = [i \in 0..Len(q) |-> IF i = 0 THEN 0 ELSE g[i - 1] + q[i]]
<1> DEFINE Solves(g, m) == g = [i \in 0..m |-> IF i = 0 THEN 0 ELSE g[i - 1] + q[i]]
           T == {m \in Nat : \E g : Solves(g, m)}
<1>1. 0 \in T
  <2> DEFINE g == [i \in 0..0 |-> 0]
  <2>1. Solves(g, 0)
    OBVIOUS
  <2> HIDE DEF g, Solves
  <2> QED BY <2>1
<1>2. ASSUME NEW k \in Nat, k \in T PROVE k + 1 \in T
  <2>1. PICK g : Solves(g, k)
    BY <1>2
  <2> DEFINE h == [i \in 0..(k + 1) |-> IF i = k + 1 THEN g[k] + q[k + 1] ELSE g[i]]
  <2>2. \A i \in 0..k : h[i] = g[i]
    OBVIOUS
  <2>3. ASSUME NEW i \in 0..(k + 1)
        PROVE  h[i] = IF i = 0 THEN 0 ELSE h[i - 1] + q[i]
    <3>1. CASE i = k + 1
      <4>1. h[i] = g[k] + q[k + 1]
        BY <3>1
      <4>2. i # 0 /\ i - 1 = k /\ k \in 0..k
        BY <3>1
      <4> HIDE DEF h
      <4> QED BY <4>1, <4>2, <2>2, <3>1
    <3>2. CASE i # k + 1
      <4>1. i \in 0..k /\ (i # 0 => i - 1 \in 0..k)
        BY <3>2
      <4>2. g[i] = IF i = 0 THEN 0 ELSE g[i - 1] + q[i]
        <5> HIDE DEF h
        <5> QED BY <2>1, <4>1, Zenon
      <4> HIDE DEF h, Solves
      <4> QED BY <4>1, <4>2, <2>2
    <3> QED BY <3>1, <3>2
  <2>4. Solves(h, k + 1)
    BY <2>3
  <2> HIDE DEF h, Solves
  <2> QED BY <2>4
<1>3. \A k \in 0..Len(q) : k \in T
  <2> HIDE DEF T
  <2> QED BY <1>1, <1>2, UpTo
<1>4. Len(q) \in T
  <2> HIDE DEF T
  <2> QED BY <1>3
<1> QED BY <1>4

\* A sum lies between as many times the least and the greatest of its terms.
LEMMA SumBetween ==
  ASSUME NEW q, Len(q) \in Nat, NEW low \in Int, NEW high \in Int,
         \A i \in 1..Len(q) : q[i] \in Int /\ low <= q[i] /\ q[i] <= high
  PROVE  SumOf(q) \in Int /\ Len(q) * low <= SumOf(q) /\ SumOf(q) <= Len(q) * high
<1> DEFINE sum == SumsOf(q)
           n == Len(q)
           T == {k \in Nat : k <= n => sum[k] \in Int /\ k * low <= sum[k] /\ sum[k] <= k * high}
<1>1. sum = [i \in 0..n |-> IF i = 0 THEN 0 ELSE sum[i - 1] + q[i]]
  <2>1. sum = CHOOSE g : g = [i \in 0..n |-> IF i = 0 THEN 0 ELSE g[i - 1] + q[i]]
    BY DEF SumsOf
  <2> HIDE DEF sum
  <2> QED BY <2>1, SumsExist, Zenon
<1> HIDE DEF sum
<1>2. sum[0] = 0 /\ \A k \in Nat : k < n => sum[k + 1] = sum[k] + q[k + 1]
  <2>1. \A i \in 0..n : sum[i] = IF i = 0 THEN 0 ELSE sum[i - 1] + q[i]
    BY <1>1, Zenon
  <2>2. \A k \in Nat : k < n => k + 1 \in 0..n /\ k + 1 # 0 /\ (k + 1) - 1 = k
    OBVIOUS
  <2>3. 0 \in 0..n
    OBVIOUS
  <2> HIDE DEF n
  <2> QED BY <2>1, <2>2, <2>3
<1>3. 0 \in T
  BY <1>2
<1>4. ASSUME NEW k \in Nat, k < n, k \in T PROVE k + 1 \in T
  <2>1. q[k + 1] \in Int /\ low <= q[k + 1] /\ q[k + 1] <= high
    BY <1>4
  <2>2. sum[k] \in Int /\ k * low <= sum[k] /\ sum[k] <= k * high /\ sum[k + 1] = sum[k] + q[k + 1]
    BY <1>2, <1>4
  <2>3. (k + 1) * low = k * low + low /\ (k + 1) * high = k * high + high
    OBVIOUS
  <2> QED BY <2>1, <2>2, <2>3
<1>5. n \in T
  <2> HIDE DEF T
  <2>1. \A k \in 0..n : k \in T
    BY <1>3, <1>4, UpTo
  <2> QED BY <2>1
<1> QED BY <1>5 DEF SumOf, sum
=============================================================================
