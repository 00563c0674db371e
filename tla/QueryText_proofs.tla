-------------------------- MODULE QueryText_proofs --------------------------
(***************************************************************************)
(* Proofs about QueryText, for any streams of well-formed messages and any *)
(* way to cut them into buffers.                                           *)
(***************************************************************************)
EXTENDS QueryText, SequenceTheorems, WellFoundedInduction, TLAPS

-----------------------------------------------------------------------------
(* Induction: a set of naturals that is not empty has a least element, and *)
(* a function may be defined from its value at the number before.          *)

LEMMA LeastNumber ==
    ASSUME NEW T \in SUBSET Nat, T # {}
    PROVE  \E m \in T : \A n \in T : m <= n
<1> DEFINE Less == {ss \in Nat \X Nat : ss[1] < ss[2]}
<1>1. IsWellFoundedOn(Less, Nat)
  BY NatLessThanWellFounded, Zenon DEF OpToRel
<1>2. \A m \in Nat, n \in Nat : <<n, m>> \in Less <=> n < m
  OBVIOUS
<1> HIDE DEF Less
<1>3. PICK m \in T : \A n \in T : ~ (<<n, m>> \in Less)
  BY <1>1, WFMin
<1>4. ASSUME NEW n \in T PROVE m <= n
  <2>1. m \in Nat /\ n \in Nat
    OBVIOUS
  <2>2. ~ (n < m)
    BY <1>2, <1>3, <2>1, Zenon
  <2> QED BY <2>1, <2>2
<1> QED BY <1>4

\* A set of naturals with 0 that has with each number the next one has all.
LEMMA AllNumbers ==
    ASSUME NEW T, 0 \in T, \A n \in Nat : n \in T => n + 1 \in T
    PROVE  Nat \subseteq T
<1> DEFINE Rest == Nat \ T
<1>1. SUFFICES ASSUME Rest # {} PROVE FALSE
  OBVIOUS
<1>2. PICK m \in Rest : \A n \in Rest : m <= n
  BY <1>1, LeastNumber
<1>3. m \in Nat /\ m # 0
  BY <1>2
<1>4. m - 1 \in Nat /\ ~ (m <= m - 1) /\ (m - 1) + 1 = m
  BY <1>3
<1>5. m - 1 \in T
  BY <1>2, <1>4
<1>6. m \in T
  BY <1>4, <1>5
<1> QED BY <1>2, <1>6

-----------------------------------------------------------------------------
(* FlattenSeq.                                                             *)

\* The function that FlattenSeq is computed with.
IsFlatten(f, seqs) ==
    f = [i \in 1..Len(seqs) |-> IF i = 1 THEN seqs[i] ELSE f[i - 1] \o seqs[i]]

\* There is such a function.
LEMMA FlattenExists ==
    ASSUME NEW S, NEW seqs \in Seq(Seq(S))
    PROVE  \E f : IsFlatten(f, seqs)
<1> DEFINE Works(f, n) ==
              /\ f \in [1..n -> Seq(S)]
              /\ \A i \in 1..n : f[i] = IF i = 1 THEN seqs[i] ELSE f[i - 1] \o seqs[i]
           T == {n \in Nat : n <= Len(seqs) => \E f : Works(f, n)}
<1>0. Len(seqs) \in Nat /\ \A i \in 1..Len(seqs) : seqs[i] \in Seq(S)
  BY LenProperties, ElementOfSeq
<1>1. 0 \in T
  <2>1. Works([i \in 1..0 |-> <<>>], 0)
    OBVIOUS
  <2> HIDE DEF Works
  <2> QED BY <2>1
<1>2. ASSUME NEW n \in Nat, n \in T PROVE n + 1 \in T
  <2>1. SUFFICES ASSUME n + 1 <= Len(seqs) PROVE \E f : Works(f, n + 1)
    <3> HIDE DEF Works
    <3> QED OBVIOUS
  <2>2. PICK f : Works(f, n)
    <3> HIDE DEF Works
    <3> QED BY <1>0, <1>2, <2>1
  <2> DEFINE last == IF n = 0 THEN seqs[1] ELSE f[n] \o seqs[n + 1]
             g == [i \in 1..(n + 1) |-> IF i = n + 1 THEN last ELSE f[i]]
  <2>3. last \in Seq(S)
    <3>1. CASE n = 0
      BY <1>0, <2>1, <3>1
    <3>2. CASE n # 0
      <4>1. f[n] \in Seq(S) /\ seqs[n + 1] \in Seq(S)
        BY <1>0, <2>1, <2>2, <3>2
      <4> QED BY <3>2, <4>1, ConcatProperties
    <3> QED BY <3>1, <3>2
  <2>4. g \in [1..(n + 1) -> Seq(S)]
    <3> HIDE DEF last
    <3> QED BY <2>2, <2>3
  <2>5. ASSUME NEW i \in 1..(n + 1)
        PROVE  g[i] = IF i = 1 THEN seqs[i] ELSE g[i - 1] \o seqs[i]
    <3>1. CASE i = n + 1
      <4>1. n # 0 => g[i - 1] = f[n]
        BY <3>1
      <4> QED BY <3>1, <4>1
    <3>2. CASE i # n + 1
      <4>1. i \in 1..n /\ g[i] = f[i]
        BY <3>2
      <4>2. i # 1 => i - 1 \in 1..n /\ g[i - 1] = f[i - 1]
        BY <4>1
      <4> HIDE DEF g
      <4> QED BY <2>2, <4>1, <4>2
    <3> QED BY <3>1, <3>2
  <2>6. Works(g, n + 1)
    <3> HIDE DEF g
    <3> QED BY <2>4, <2>5
  <2> QED BY <2>6
<1>3. Len(seqs) \in T
  <2> HIDE DEF T
  <2> QED BY <1>0, <1>1, <1>2, AllNumbers
<1>4. PICK f : Works(f, Len(seqs))
  <2> HIDE DEF Works
  <2> QED BY <1>0, <1>3
<1> QED BY <1>4 DEF IsFlatten

LEMMA FlattenIs ==
    ASSUME NEW S, NEW seqs \in Seq(Seq(S)), seqs # <<>>
    PROVE  \E f : IsFlatten(f, seqs) /\ FlattenSeq(seqs) = f[Len(seqs)]
<1> DEFINE f == CHOOSE f : IsFlatten(f, seqs)
<1>1. IsFlatten(f, seqs)
  BY FlattenExists
<1>2. Len(seqs) # 0
  BY EmptySeq
<1>3. FlattenSeq(seqs) = f[Len(seqs)]
  BY <1>2 DEF FlattenSeq, IsFlatten
<1> QED BY <1>1, <1>3

\* What the function has, at each position.
LEMMA FlattenStep ==
    ASSUME NEW f, NEW seqs, IsFlatten(f, seqs), NEW i \in 1..Len(seqs)
    PROVE  f[i] = IF i = 1 THEN seqs[i] ELSE f[i - 1] \o seqs[i]
<1> DEFINE body == [j \in 1..Len(seqs) |-> IF j = 1 THEN seqs[j] ELSE f[j - 1] \o seqs[j]]
<1>1. f = body
  BY DEF IsFlatten
<1>2. body[i] = IF i = 1 THEN seqs[i] ELSE f[i - 1] \o seqs[i]
  OBVIOUS
<1> HIDE DEF body
<1> QED BY <1>1, <1>2

\* Two sequences that begin alike are flattened alike, that far.
LEMMA FlattenAgrees ==
    ASSUME NEW f, NEW s, IsFlatten(f, s), NEW g, NEW t, IsFlatten(g, t),
           Len(s) \in Nat, Len(t) \in Nat, Len(s) <= Len(t),
           \A i \in 1..Len(s) : s[i] = t[i]
    PROVE  \A i \in 1..Len(s) : f[i] = g[i]
<1> DEFINE T == {n \in Nat : n \in 1..Len(s) => f[n] = g[n]}
<1>1. 0 \in T
  OBVIOUS
<1>2. ASSUME NEW n \in Nat, n \in T PROVE n + 1 \in T
  <2>1. SUFFICES ASSUME n + 1 \in 1..Len(s) PROVE f[n + 1] = g[n + 1]
    OBVIOUS
  <2>2. /\ f[n + 1] = IF n + 1 = 1 THEN s[n + 1] ELSE f[(n + 1) - 1] \o s[n + 1]
        /\ g[n + 1] = IF n + 1 = 1 THEN t[n + 1] ELSE g[(n + 1) - 1] \o t[n + 1]
    BY <2>1, FlattenStep
  <2>3. (n + 1) - 1 = n /\ s[n + 1] = t[n + 1] /\ (n + 1 # 1 => f[n] = g[n])
    BY <1>2, <2>1
  <2> QED BY <2>2, <2>3
<1>3. Nat \subseteq T
  <2> HIDE DEF T
  <2> QED BY <1>1, <1>2, AllNumbers
<1> QED BY <1>3

LEMMA FlattenTyped ==
    ASSUME NEW S, NEW seqs \in Seq(Seq(S))
    PROVE  FlattenSeq(seqs) \in Seq(S)
<1>1. CASE seqs = <<>>
  BY <1>1, EmptySeq DEF FlattenSeq
<1>2. CASE seqs # <<>>
  <2>1. PICK f : IsFlatten(f, seqs) /\ FlattenSeq(seqs) = f[Len(seqs)]
    BY <1>2, FlattenIs
  <2>2. PICK k \in Nat : k = Len(seqs)
    BY LenProperties
  <2>3. \A i \in 1..k : seqs[i] \in Seq(S)
    BY <2>2, ElementOfSeq
  <2> DEFINE T == {n \in Nat : n \in 1..k => f[n] \in Seq(S)}
  <2>4. 0 \in T
    OBVIOUS
  <2>5. ASSUME NEW n \in Nat, n \in T PROVE n + 1 \in T
    <3>1. SUFFICES ASSUME n + 1 \in 1..k PROVE f[n + 1] \in Seq(S)
      OBVIOUS
    <3>2. f[n + 1] = IF n + 1 = 1 THEN seqs[n + 1] ELSE f[(n + 1) - 1] \o seqs[n + 1]
      BY <2>1, <2>2, <3>1, FlattenStep
    <3>3. (n + 1) - 1 = n /\ seqs[n + 1] \in Seq(S) /\ (n + 1 # 1 => f[n] \in Seq(S))
      BY <2>3, <2>5, <3>1
    <3> QED BY <3>2, <3>3, ConcatProperties
  <2>6. k \in T
    <3> HIDE DEF T
    <3> QED BY <2>4, <2>5, AllNumbers
  <2>7. k \in 1..k
    BY <1>2, <2>2, EmptySeq
  <2> QED BY <2>1, <2>2, <2>6, <2>7
<1> QED BY <1>1, <1>2

\* One more sequence at the end.
LEMMA FlattenAppend ==
    ASSUME NEW S, NEW seqs \in Seq(Seq(S)), NEW x \in Seq(S)
    PROVE  FlattenSeq(Append(seqs, x)) = FlattenSeq(seqs) \o x
<1> DEFINE more == Append(seqs, x)
<1>1. PICK k \in Nat : k = Len(seqs)
  BY LenProperties
<1>2. /\ more \in Seq(Seq(S)) /\ more # <<>> /\ Len(more) = k + 1
      /\ (\A i \in 1..k : more[i] = seqs[i]) /\ more[k + 1] = x
  BY <1>1, AppendProperties
<1> HIDE DEF more
<1>3. PICK g : IsFlatten(g, more) /\ FlattenSeq(more) = g[k + 1]
  BY <1>2, FlattenIs
<1>4. g[k + 1] = IF k + 1 = 1 THEN more[k + 1] ELSE g[(k + 1) - 1] \o more[k + 1]
  <2>1. k + 1 \in 1..Len(more)
    BY <1>2
  <2> QED BY <1>3, <2>1, FlattenStep
<1>5. CASE seqs = <<>>
  <2>1. k = 0
    BY <1>1, <1>5
  <2>2. FlattenSeq(seqs) = <<>>
    BY <1>5 DEF FlattenSeq
  <2>3. FlattenSeq(more) = x
    BY <1>2, <1>3, <1>4, <2>1
  <2> QED BY <2>2, <2>3, ConcatEmptySeq DEF more
<1>6. CASE seqs # <<>>
  <2>1. PICK f : IsFlatten(f, seqs) /\ FlattenSeq(seqs) = f[k]
    BY <1>1, <1>6, FlattenIs
  <2>2. k \in 1..k /\ k + 1 # 1 /\ (k + 1) - 1 = k
    BY <1>1, <1>6, EmptySeq
  <2>3. \A i \in 1..k : f[i] = g[i]
    <3>1. /\ Len(seqs) \in Nat /\ Len(more) \in Nat /\ Len(seqs) <= Len(more)
          /\ \A i \in 1..Len(seqs) : seqs[i] = more[i]
      BY <1>1, <1>2
    <3> QED BY <1>1, <1>3, <2>1, <3>1, FlattenAgrees
  <2>4. f[k] = g[k]
    BY <2>2, <2>3
  <2> QED BY <1>2, <1>3, <1>4, <2>1, <2>2, <2>4 DEF more
<1> QED BY <1>5, <1>6

\* Two sequences of sequences one behind the other.
LEMMA FlattenConcat ==
    ASSUME NEW S, NEW s \in Seq(Seq(S)), NEW t \in Seq(Seq(S))
    PROVE  FlattenSeq(s \o t) = FlattenSeq(s) \o FlattenSeq(t)
<1> DEFINE B == Seq(S)
           Joins(u) == FlattenSeq(s \o u) = FlattenSeq(s) \o FlattenSeq(u)
           T == {n \in Nat : \A u \in Seq(B) : Len(u) = n => Joins(u)}
<1>1. 0 \in T
  <2>1. SUFFICES ASSUME NEW u \in Seq(B), Len(u) = 0 PROVE Joins(u)
    OBVIOUS
  <2>2. u = <<>>
    BY <2>1, EmptySeq
  <2>3. FlattenSeq(u) = <<>>
    BY <2>2 DEF FlattenSeq
  <2>4. s \o u = s
    BY <2>2, ConcatEmptySeq
  <2>5. FlattenSeq(s) \o <<>> = FlattenSeq(s)
    BY FlattenTyped, ConcatEmptySeq
  <2> QED BY <2>3, <2>4, <2>5
<1>2. ASSUME NEW n \in Nat, n \in T PROVE n + 1 \in T
  <2>1. SUFFICES ASSUME NEW u \in Seq(B), Len(u) = n + 1 PROVE Joins(u)
    OBVIOUS
  <2>2. u # <<>>
    BY <2>1
  <2>3. PICK v \in Seq(B), x \in B : u = Append(v, x)
    BY <2>2, SequenceEmptyOrAppend
  <2>4. Len(v) = n
    BY <2>1, <2>3, AppendProperties, LenProperties
  <2>5. FlattenSeq(s \o v) = FlattenSeq(s) \o FlattenSeq(v)
    BY <1>2, <2>4
  <2>6. s \o u = Append(s \o v, x)
    BY <2>3
  <2>7. FlattenSeq(s \o u) = FlattenSeq(s \o v) \o x
    BY <2>6, FlattenAppend, ConcatProperties
  <2>8. FlattenSeq(u) = FlattenSeq(v) \o x
    BY <2>3, FlattenAppend
  <2>9. (FlattenSeq(s) \o FlattenSeq(v)) \o x = FlattenSeq(s) \o (FlattenSeq(v) \o x)
    <3>1. FlattenSeq(s) \in Seq(S) /\ FlattenSeq(v) \in Seq(S) /\ x \in Seq(S)
      BY FlattenTyped
    <3> QED BY <3>1, ConcatAssociative
  <2> QED BY <2>5, <2>7, <2>8, <2>9
<1>3. Len(t) \in Nat
  BY LenProperties
<1>4. Len(t) \in T
  <2> HIDE DEF T
  <2> QED BY <1>1, <1>2, <1>3, AllNumbers
<1> QED BY <1>4

\* A sequence of one; one more at the front.
LEMMA FlattenFirst ==
    ASSUME NEW S, NEW x \in Seq(S), NEW t \in Seq(Seq(S))
    PROVE  FlattenSeq(<<x>>) = x /\ FlattenSeq(<<x>> \o t) = x \o FlattenSeq(t)
<1>1. FlattenSeq(<<x>>) = x
  <2>1. <<>> \in Seq(Seq(S)) /\ <<x>> = Append(<<>>, x) /\ FlattenSeq(<<>>) = <<>>
    BY EmptySeq DEF FlattenSeq
  <2>2. FlattenSeq(<<x>>) = <<>> \o x
    BY <2>1, FlattenAppend
  <2> QED BY <2>2, ConcatEmptySeq
<1>2. <<x>> \in Seq(Seq(S))
  OBVIOUS
<1>3. FlattenSeq(<<x>> \o t) = FlattenSeq(<<x>>) \o FlattenSeq(t)
  BY <1>2, FlattenConcat
<1> QED BY <1>1, <1>3

-----------------------------------------------------------------------------
(* Reading numbers.                                                        *)

\* The function a number is computed with from its digits, the highest first.
IsValue(f, n, d) ==
    f = [i \in 0..n |-> IF i = 0 THEN 0 ELSE f[i - 1] * 256 + d[i]]

LEMMA ValueExists ==
    ASSUME NEW n \in Nat, NEW d \in [1..n -> Nat]
    PROVE  \E f \in [0..n -> Nat] : IsValue(f, n, d)
<1> DEFINE Works(f, k) ==
              /\ f \in [0..k -> Nat]
              /\ \A i \in 0..k : f[i] = IF i = 0 THEN 0 ELSE f[i - 1] * 256 + d[i]
           T == {k \in Nat : k <= n => \E f : Works(f, k)}
<1>1. 0 \in T
  <2>1. Works([i \in 0..0 |-> 0], 0)
    OBVIOUS
  <2> HIDE DEF Works
  <2> QED BY <2>1
<1>2. ASSUME NEW k \in Nat, k \in T PROVE k + 1 \in T
  <2>1. SUFFICES ASSUME k + 1 <= n PROVE \E f : Works(f, k + 1)
    <3> HIDE DEF Works
    <3> QED OBVIOUS
  <2>2. PICK f : Works(f, k)
    <3> HIDE DEF Works
    <3> QED BY <1>2, <2>1
  <2>3. PICK last \in Nat : last = f[k] * 256 + d[k + 1]
    <3>1. f[k] \in Nat /\ d[k + 1] \in Nat
      BY <2>1, <2>2
    <3> QED BY <3>1
  <2> DEFINE g == [i \in 0..(k + 1) |-> IF i = k + 1 THEN last ELSE f[i]]
  <2>4. g \in [0..(k + 1) -> Nat]
    BY <2>2, <2>3
  <2>5. ASSUME NEW i \in 0..(k + 1)
        PROVE  g[i] = IF i = 0 THEN 0 ELSE g[i - 1] * 256 + d[i]
    <3>1. CASE i = k + 1
      <4>1. g[i - 1] = f[k] /\ g[i] = last /\ i # 0
        BY <3>1
      <4> HIDE DEF g
      <4> QED BY <2>3, <3>1, <4>1
    <3>2. CASE i # k + 1
      <4>1. i \in 0..k /\ g[i] = f[i]
        BY <3>2
      <4>2. i # 0 => g[i - 1] = f[i - 1]
        BY <4>1
      <4> HIDE DEF g
      <4> QED BY <2>2, <4>1, <4>2
    <3> QED BY <3>1, <3>2
  <2>6. Works(g, k + 1)
    <3> HIDE DEF g
    <3> QED BY <2>4, <2>5
  <2> QED BY <2>6
<1>3. n \in T
  <2> HIDE DEF T
  <2> QED BY <1>1, <1>2, AllNumbers
<1>4. PICK f : Works(f, n)
  <2> HIDE DEF Works
  <2> QED BY <1>3
<1> QED BY <1>4 DEF IsValue

LEMMA ValueStep ==
    ASSUME NEW n \in Nat, NEW d, NEW f, IsValue(f, n, d), NEW i \in 0..n
    PROVE  f[i] = IF i = 0 THEN 0 ELSE f[i - 1] * 256 + d[i]
<1> DEFINE body == [j \in 0..n |-> IF j = 0 THEN 0 ELSE f[j - 1] * 256 + d[j]]
<1>1. f = body
  BY DEF IsValue
<1>2. body[i] = IF i = 0 THEN 0 ELSE f[i - 1] * 256 + d[i]
  OBVIOUS
<1> HIDE DEF body
<1> QED BY <1>1, <1>2

\* A byte of a buffer is a number, also behind its end.
LEMMA AtTyped ==
    ASSUME NEW buffer \in Seq(Nat), NEW pos \in Nat
    PROVE  At(buffer, pos) \in Nat
<1>1. CASE pos < Len(buffer)
  <2>1. pos + 1 \in 1..Len(buffer)
    BY <1>1, LenProperties
  <2> QED BY <1>1, <2>1, ElementOfSeq DEF At
<1>2. CASE ~ (pos < Len(buffer))
  BY <1>2 DEF At
<1> QED BY <1>1, <1>2

\* The function that readLEInt uses, for any number of bytes.
LEValues(f, buffer, pos, size) ==
    /\ f[0] = 0
    /\ \A i \in 1..size : f[i] = f[i - 1] * 256 + At(buffer, pos + size - i)

LEMMA ReadLEIs ==
    ASSUME NEW buffer \in Seq(Nat), NEW pos \in Nat, NEW size \in Nat
    PROVE  \E f : LEValues(f, buffer, pos, size) /\ readLEInt(buffer, pos, size) = f[size]
<1> DEFINE d == [i \in 1..size |-> At(buffer, pos + size - i)]
           Value(f) == f = [i \in 0..size |->
                              IF i = 0 THEN 0 ELSE f[i - 1] * 256 + At(buffer, pos + size - i)]
           value == CHOOSE f : Value(f)
<1>1. d \in [1..size -> Nat]
  BY AtTyped
<1>2. \A f : IsValue(f, size, d) => Value(f)
  <2>1. \A f : [i \in 0..size |-> IF i = 0 THEN 0 ELSE f[i - 1] * 256 + d[i]]
               = [i \in 0..size |->
                    IF i = 0 THEN 0 ELSE f[i - 1] * 256 + At(buffer, pos + size - i)]
    OBVIOUS
  <2> HIDE DEF d
  <2> QED BY <2>1 DEF IsValue
<1>3. \E f : Value(f)
  <2> HIDE DEF Value, d
  <2> QED BY <1>1, <1>2, ValueExists
<1>4. Value(value)
  <2> HIDE DEF Value
  <2> QED BY <1>3
<1>5. readLEInt(buffer, pos, size) = value[size]
  BY DEF readLEInt
<1>6. ASSUME NEW f, Value(f) PROVE LEValues(f, buffer, pos, size)
  BY <1>6 DEF LEValues
<1> HIDE DEF value, Value
<1> QED BY <1>4, <1>5, <1>6

\* What extract_packets reads: the three bytes of a length.
LEMMA ReadLE3 ==
    ASSUME NEW buffer \in Seq(Nat), NEW pos \in Nat
    PROVE  /\ readLEInt(buffer, pos, 3) \in Nat
           /\ readLEInt(buffer, pos, 3) =
                (At(buffer, pos + 2) * 256 + At(buffer, pos + 1)) * 256 + At(buffer, pos)
<1>1. PICK f : LEValues(f, buffer, pos, 3) /\ readLEInt(buffer, pos, 3) = f[3]
  BY ReadLEIs
<1>2. /\ f[1] = f[0] * 256 + At(buffer, pos + 2)
      /\ f[2] = f[1] * 256 + At(buffer, pos + 1)
      /\ f[3] = f[2] * 256 + At(buffer, pos)
  <2>1. f[1] = f[1 - 1] * 256 + At(buffer, pos + 3 - 1)
    BY <1>1 DEF LEValues
  <2>2. f[2] = f[2 - 1] * 256 + At(buffer, pos + 3 - 2)
    BY <1>1 DEF LEValues
  <2>3. f[3] = f[3 - 1] * 256 + At(buffer, pos + 3 - 3)
    BY <1>1 DEF LEValues
  <2>4. pos + 3 - 1 = pos + 2 /\ pos + 3 - 2 = pos + 1 /\ pos + 3 - 3 = pos
    OBVIOUS
  <2> QED BY <2>1, <2>2, <2>3, <2>4
<1>3. PICK a \in Nat, b \in Nat, c \in Nat :
         a = At(buffer, pos) /\ b = At(buffer, pos + 1) /\ c = At(buffer, pos + 2)
  <2>1. pos + 1 \in Nat /\ pos + 2 \in Nat
    OBVIOUS
  <2>2. At(buffer, pos) \in Nat /\ At(buffer, pos + 1) \in Nat /\ At(buffer, pos + 2) \in Nat
    BY <2>1, AtTyped
  <2> QED BY <2>2
<1>4. f[1] = c /\ f[2] = c * 256 + b /\ f[3] = (c * 256 + b) * 256 + a
  BY <1>1, <1>2, <1>3 DEF LEValues
<1>5. (c * 256 + b) * 256 + a \in Nat
  OBVIOUS
<1>6. readLEInt(buffer, pos, 3) = (c * 256 + b) * 256 + a
  BY <1>1, <1>4
<1> QED BY <1>3, <1>5, <1>6

-----------------------------------------------------------------------------
(* extract_packets().                                                      *)

\* One turn of its loop: the piece at a position, and the next position.
Piece(buffer, pos) == Substr(buffer, pos, readLEInt(buffer, pos, 3) + 4)
After(buffer, pos) == pos + 4 + readLEInt(buffer, pos, 3)

LEMMA AfterTyped ==
    ASSUME NEW buffer \in Seq(Nat), NEW pos \in Nat
    PROVE  After(buffer, pos) \in Nat /\ After(buffer, pos) >= pos + 4
<1>1. PICK n \in Nat : n = readLEInt(buffer, pos, 3)
  BY ReadLE3
<1> QED BY <1>1 DEF After

\* A piece goes from its position to the next one, or to the end.
LEMMA PieceIs ==
    ASSUME NEW buffer \in Seq(Nat), NEW pos \in Nat
    PROVE  /\ Piece(buffer, pos) = SubSeq(buffer, pos + 1,
                 IF After(buffer, pos) < Len(buffer) THEN After(buffer, pos) ELSE Len(buffer))
           /\ Piece(buffer, pos) \in Seq(Nat)
           /\ pos < Len(buffer) => Piece(buffer, pos) # <<>>
<1>1. PICK n \in Nat : n = readLEInt(buffer, pos, 3)
  BY ReadLE3
<1>2. PICK k \in Nat : k = Len(buffer)
  BY LenProperties
<1>3. pos + (n + 4) = pos + 4 + n
  OBVIOUS
<1>4. PICK to \in 0..k : /\ to = IF After(buffer, pos) < Len(buffer)
                                  THEN After(buffer, pos) ELSE Len(buffer)
                         /\ pos < k => to >= pos + 1
  BY <1>1, <1>2 DEF After
<1>5. Piece(buffer, pos) = SubSeq(buffer, pos + 1, to)
  BY <1>1, <1>2, <1>3, <1>4 DEF Piece, Substr, After
<1>6. \A i \in (pos + 1)..to : buffer[i] \in Nat
  BY <1>2, ElementOfSeq
<1>7. /\ SubSeq(buffer, pos + 1, to) \in Seq(Nat)
      /\ Len(SubSeq(buffer, pos + 1, to)) = IF pos + 1 <= to THEN to - (pos + 1) + 1 ELSE 0
  BY <1>6, SubSeqProperties
<1>8. ASSUME pos < k PROVE SubSeq(buffer, pos + 1, to) # <<>>
  <2>1. Len(SubSeq(buffer, pos + 1, to)) # 0
    BY <1>4, <1>7, <1>8
  <2>2. Len(<<>>) = 0
    OBVIOUS
  <2> QED BY <2>1, <2>2, Zenon
<1> QED BY <1>2, <1>4, <1>5, <1>7, <1>8

\* The function that extract_packets is computed with.
IsFrom(f, buffer) ==
    f = [pos \in Nat |-> IF pos >= Len(buffer) THEN <<>>
                         ELSE <<Piece(buffer, pos)>> \o f[After(buffer, pos)]]

Turn(f, buffer, pos) ==
    f[pos] = IF pos >= Len(buffer) THEN <<>>
             ELSE <<Piece(buffer, pos)>> \o f[After(buffer, pos)]

\* The position grows with each turn: there is such a function.
LEMMA FromExists ==
    ASSUME NEW buffer \in Seq(Nat)
    PROVE  \E f \in [Nat -> Seq(Seq(Nat))] : IsFrom(f, buffer)
<1> DEFINE V == Seq(Seq(Nat))
           Works(f, k) == /\ f \in [Nat -> V]
                          /\ \A pos \in Nat : pos + k >= Len(buffer) => Turn(f, buffer, pos)
           T == {k \in Nat : \E f : Works(f, k)}
<1>0. Len(buffer) \in Nat
  BY LenProperties
<1>1. 0 \in T
  <2>1. <<>> \in V
    BY EmptySeq
  <2>2. [pos \in Nat |-> <<>>] \in [Nat -> V]
    BY <2>1
  <2>3. Works([pos \in Nat |-> <<>>], 0)
    BY <1>0, <2>2 DEF Turn
  <2> HIDE DEF Works
  <2> QED BY <2>3
<1>2. ASSUME NEW k \in Nat, k \in T PROVE k + 1 \in T
  <2>1. PICK f : Works(f, k)
    <3> HIDE DEF Works
    <3> QED BY <1>2
  <2> DEFINE New(pos) == IF pos >= Len(buffer) THEN <<>>
                         ELSE <<Piece(buffer, pos)>> \o f[After(buffer, pos)]
             g == [pos \in Nat |-> IF pos + k + 1 = Len(buffer) THEN New(pos) ELSE f[pos]]
  <2>2. \A pos \in Nat : New(pos) \in V
    <3>1. TAKE pos \in Nat
    <3>2. Piece(buffer, pos) \in Seq(Nat) /\ After(buffer, pos) \in Nat
      BY PieceIs, AfterTyped
    <3>3. <<Piece(buffer, pos)>> \in V /\ f[After(buffer, pos)] \in V
      BY <2>1, <3>2
    <3> QED BY <3>3, EmptySeq, ConcatProperties
  <2>3. g \in [Nat -> V]
    <3> HIDE DEF New, V
    <3> QED BY <2>1, <2>2 DEF V
  <2>4. ASSUME NEW pos \in Nat, pos + (k + 1) >= Len(buffer) PROVE Turn(g, buffer, pos)
    <3>1. PICK next \in Nat : next = After(buffer, pos) /\ next >= pos + 4
      BY AfterTyped
    <3>2. g[next] = f[next]
      BY <1>0, <2>4, <3>1
    <3>3. g[pos] = New(pos)
      <4>1. CASE pos + k + 1 = Len(buffer)
        BY <4>1
      <4>2. CASE pos + k + 1 # Len(buffer)
        <5>1. pos + k >= Len(buffer)
          BY <1>0, <2>4, <4>2
        <5>2. f[pos] = New(pos)
          BY <2>1, <5>1 DEF Turn
        <5> QED BY <4>2, <5>2
      <4> QED BY <4>1, <4>2
    <3> HIDE DEF g
    <3> QED BY <3>1, <3>2, <3>3 DEF Turn
  <2>5. Works(g, k + 1)
    <3> HIDE DEF g
    <3> QED BY <2>3, <2>4
  <2> HIDE DEF Works
  <2> QED BY <2>5
<1>3. Len(buffer) \in T
  <2> HIDE DEF T
  <2> QED BY <1>0, <1>1, <1>2, AllNumbers
<1>4. PICK f : Works(f, Len(buffer))
  <2> HIDE DEF Works
  <2> QED BY <1>3
<1>5. \A pos \in Nat : Turn(f, buffer, pos)
  BY <1>0, <1>4
<1>6. IsFrom(f, buffer)
  BY <1>4, <1>5 DEF IsFrom, Turn
<1> QED BY <1>4, <1>6

\* extract_packets() is the first value of a function that obeys each turn.
LEMMA ExtractIs ==
    ASSUME NEW buffer \in Seq(Nat)
    PROVE  \E f : /\ extract_packets(buffer) = f[0]
                  /\ \A pos \in Nat : Turn(f, buffer, pos)
<1> DEFINE f == CHOOSE f : IsFrom(f, buffer)
<1>1. IsFrom(f, buffer)
  BY FromExists
<1>2. extract_packets(buffer) = f[0]
  BY DEF extract_packets, IsFrom, Piece, After
<1> HIDE DEF f
<1>3. ASSUME NEW pos \in Nat PROVE Turn(f, buffer, pos)
  <2> DEFINE body == [p \in Nat |-> IF p >= Len(buffer) THEN <<>>
                                    ELSE <<Piece(buffer, p)>> \o f[After(buffer, p)]]
  <2>1. f = body
    BY <1>1 DEF IsFrom
  <2>2. body[pos] = IF pos >= Len(buffer) THEN <<>>
                    ELSE <<Piece(buffer, pos)>> \o f[After(buffer, pos)]
    OBVIOUS
  <2> HIDE DEF body
  <2> QED BY <2>1, <2>2 DEF Turn
<1> QED BY <1>2, <1>3

\* From each position on, the pieces are the rest of the buffer, and none is
\* empty.
LEMMA PiecesFrom ==
    ASSUME NEW buffer \in Seq(Nat), NEW f, \A pos \in Nat : Turn(f, buffer, pos)
    PROVE  \A pos \in Nat : /\ f[pos] \in Seq(Seq(Nat) \ {<<>>})
                            /\ FlattenSeq(f[pos]) = SubSeq(buffer, pos + 1, Len(buffer))
<1> DEFINE Done(pos) == /\ f[pos] \in Seq(Seq(Nat) \ {<<>>})
                        /\ FlattenSeq(f[pos]) = SubSeq(buffer, pos + 1, Len(buffer))
           T == {k \in Nat : \A pos \in Nat : pos + k >= Len(buffer) => Done(pos)}
<1>0. PICK L \in Nat : L = Len(buffer)
  BY LenProperties
<1>1. ASSUME NEW pos \in Nat, pos >= L PROVE Done(pos)
  <2>1. f[pos] = <<>>
    BY <1>0, <1>1 DEF Turn
  <2>2. FlattenSeq(<<>>) = <<>>
    BY DEF FlattenSeq
  <2>3. SubSeq(buffer, pos + 1, L) = <<>>
    BY <1>1, SubSeqEmpty
  <2> QED BY <1>0, <2>1, <2>2, <2>3, EmptySeq
<1>2. ASSUME NEW k \in Nat, k \in T PROVE k + 1 \in T
  <2>1. SUFFICES ASSUME NEW pos \in Nat, pos + (k + 1) >= L PROVE Done(pos)
    BY <1>0
  <2>2. CASE pos >= L
    BY <1>1, <2>2
  <2>3. CASE pos < L
    <3>1. PICK next \in Nat : next = After(buffer, pos) /\ next >= pos + 4
      BY AfterTyped
    <3>2. f[pos] = <<Piece(buffer, pos)>> \o f[next]
      <4>1. Turn(f, buffer, pos) /\ ~ (pos >= Len(buffer))
        BY <1>0, <2>3
      <4> QED BY <3>1, <4>1 DEF Turn
    <3>3. Done(next)
      <4>1. next + k >= Len(buffer)
        BY <1>0, <2>1, <3>1
      <4> HIDE DEF Done
      <4> QED BY <1>2, <4>1
    <3>4. Piece(buffer, pos) \in Seq(Nat) \ {<<>>}
      BY <1>0, <2>3, PieceIs
    <3>5. f[pos] \in Seq(Seq(Nat) \ {<<>>})
      <4>1. <<Piece(buffer, pos)>> \in Seq(Seq(Nat) \ {<<>>})
        BY <3>4
      <4> QED BY <3>2, <3>3, <4>1, ConcatProperties
    <3>6. FlattenSeq(f[pos]) = Piece(buffer, pos) \o SubSeq(buffer, next + 1, L)
      <4>1. f[next] \in Seq(Seq(Nat))
        BY <3>3, SeqMonotonic
      <4>2. FlattenSeq(<<Piece(buffer, pos)>> \o f[next]) = Piece(buffer, pos) \o FlattenSeq(f[next])
        BY <3>4, <4>1, FlattenFirst
      <4> QED BY <1>0, <3>2, <3>3, <4>2
    <3>7. Piece(buffer, pos) \o SubSeq(buffer, next + 1, L) = SubSeq(buffer, pos + 1, L)
      <4>1. CASE next < L
        <5>1. Piece(buffer, pos) = SubSeq(buffer, pos + 1, next)
          BY <1>0, <3>1, <4>1, PieceIs
        <5>2. pos + 1 \in 1..(Len(buffer) + 1) /\ next \in ((pos + 1) - 1)..Len(buffer)
              /\ L \in next..Len(buffer)
          BY <1>0, <2>3, <3>1, <4>1
        <5> QED BY <5>1, <5>2, ConcatAdjacentSubSeq
      <4>2. CASE ~ (next < L)
        <5>1. Piece(buffer, pos) = SubSeq(buffer, pos + 1, L)
          BY <1>0, <3>1, <4>2, PieceIs
        <5>2. SubSeq(buffer, next + 1, L) = <<>>
          BY <4>2, SubSeqEmpty
        <5> QED BY <3>4, <5>1, <5>2, ConcatEmptySeq
      <4> QED BY <4>1, <4>2
    <3> QED BY <1>0, <3>5, <3>6, <3>7
  <2> QED BY <2>2, <2>3
<1>3. 0 \in T
  <2> HIDE DEF Done
  <2> QED BY <1>0, <1>1
<1>4. L \in T
  <2> HIDE DEF T
  <2> QED BY <1>2, <1>3, AllNumbers
<1> HIDE DEF Done
<1>5. \A pos \in Nat : Done(pos)
  BY <1>0, <1>4
<1> QED BY <1>5 DEF Done

\* What extract_packets() makes of any buffer, whatever its bytes are: pieces
\* that are not empty and that are the buffer.
LEMMA ExtractKeepsBytes ==
    ASSUME NEW buffer \in Seq(Nat)
    PROVE  /\ extract_packets(buffer) \in Seq(Seq(Nat) \ {<<>>})
           /\ FlattenSeq(extract_packets(buffer)) = buffer
<1>1. PICK f : /\ extract_packets(buffer) = f[0]
               /\ \A pos \in Nat : Turn(f, buffer, pos)
  BY ExtractIs
<1>2. /\ f[0] \in Seq(Seq(Nat) \ {<<>>})
      /\ FlattenSeq(f[0]) = SubSeq(buffer, 0 + 1, Len(buffer))
  BY <1>1, PiecesFrom
<1> QED BY <1>1, <1>2, SubSeqFull

-----------------------------------------------------------------------------
(* The bytes of a message.                                                 *)

\* The byte of a number at a position.
Digit(n, i) == CASE i = 1 -> n % 256
                 [] i = 2 -> (n \div 256) % 256
                 [] i = 3 -> (n \div (256 * 256)) % 256
                 [] i = 4 -> (n \div (256 * 256 * 256)) % 256
                 [] OTHER -> 0

LEMMA DigitTyped ==
    ASSUME NEW n \in Nat, NEW i \in Nat
    PROVE  Digit(n, i) \in Nat
<1>1. /\ n % 256 \in Nat /\ (n \div 256) % 256 \in Nat
      /\ (n \div (256 * 256)) % 256 \in Nat
      /\ (n \div (256 * 256 * 256)) % 256 \in Nat
  OBVIOUS
<1> QED BY <1>1 DEF Digit

LEMMA LEBytesTyped ==
    ASSUME NEW n \in Nat, NEW size \in Nat
    PROVE  /\ LEBytes(n, size) \in Seq(Nat) /\ Len(LEBytes(n, size)) = size
           /\ \A i \in 1..size : LEBytes(n, size)[i] = Digit(n, i)
<1>1. LEBytes(n, size) = [i \in 1..size |-> Digit(n, i)]
  BY DEF LEBytes, Digit
<1>2. \A i \in 1..size : Digit(n, i) \in Nat
  BY DigitTyped
<1> QED BY <1>1, <1>2

LEMMA BEBytesTyped ==
    ASSUME NEW n \in Nat
    PROVE  /\ BEBytes(n) \in Seq(Nat) /\ Len(BEBytes(n)) = 4
           /\ \A i \in 1..4 : BEBytes(n)[i] = Digit(n, 5 - i)
<1>1. /\ Len(LEBytes(n, 4)) = 4
      /\ \A i \in 1..4 : LEBytes(n, 4)[i] = Digit(n, i)
  BY LEBytesTyped
<1>2. BEBytes(n) = [i \in 1..4 |-> LEBytes(n, 4)[(4 - i) + 1]]
  BY <1>1 DEF BEBytes, Reverse
<1>3. \A i \in 1..4 : (4 - i) + 1 \in 1..4 /\ (4 - i) + 1 = 5 - i /\ 5 - i \in Nat
  OBVIOUS
<1>4. \A i \in 1..4 : LEBytes(n, 4)[(4 - i) + 1] = Digit(n, 5 - i) /\ Digit(n, 5 - i) \in Nat
  BY <1>1, <1>3, DigitTyped
<1> QED BY <1>2, <1>4

LEMMA TextTyped ==
    ASSUME NEW n \in Nat
    PROVE  Text(n) \in Seq(Nat) /\ Len(Text(n)) = n /\ \A i \in 1..n : Text(n)[i] # 0
<1>1. \A i \in 1..n : 65 + (i % 26) \in Nat /\ 65 + (i % 26) # 0
  OBVIOUS
<1> QED BY <1>1 DEF Text

\* The length of a length encoded integer, by its size.
EncLength(size) == IF size = 1 THEN 1 ELSE size + 1

LEMMA LenEncIntTyped ==
    ASSUME NEW n \in Nat, NEW size \in {1, 2, 3, 8}
    PROVE  LenEncInt(n, size) \in Seq(Nat) /\ Len(LenEncInt(n, size)) = EncLength(size)
<1>1. CASE size = 1
  BY <1>1 DEF LenEncInt, EncLength
<1>2. ASSUME NEW k \in Nat, NEW b \in Nat
      PROVE  <<b>> \o LEBytes(n, k) \in Seq(Nat) /\ Len(<<b>> \o LEBytes(n, k)) = k + 1
  <2>1. LEBytes(n, k) \in Seq(Nat) /\ Len(LEBytes(n, k)) = k
    BY LEBytesTyped
  <2>2. <<b>> \in Seq(Nat) /\ Len(<<b>>) = 1
    OBVIOUS
  <2> QED BY <2>1, <2>2, ConcatProperties
<1>3. CASE size = 2
  <2>1. LenEncInt(n, size) = <<252>> \o LEBytes(n, 2)
    BY <1>3 DEF LenEncInt
  <2>2. /\ <<252>> \o LEBytes(n, 2) \in Seq(Nat)
        /\ Len(<<252>> \o LEBytes(n, 2)) = 2 + 1
    BY <1>2
  <2>3. EncLength(size) = 2 + 1
    BY <1>3 DEF EncLength
  <2> QED BY <2>1, <2>2, <2>3, Zenon
<1>4. CASE size = 3
  <2>1. LenEncInt(n, size) = <<253>> \o LEBytes(n, 3)
    BY <1>4 DEF LenEncInt
  <2>2. /\ <<253>> \o LEBytes(n, 3) \in Seq(Nat)
        /\ Len(<<253>> \o LEBytes(n, 3)) = 3 + 1
    BY <1>2
  <2>3. EncLength(size) = 3 + 1
    BY <1>4 DEF EncLength
  <2> QED BY <2>1, <2>2, <2>3, Zenon
<1>5. CASE size = 8
  <2>1. LenEncInt(n, size) = <<254>> \o LEBytes(n, 8)
    BY <1>5 DEF LenEncInt
  <2>2. /\ <<254>> \o LEBytes(n, 8) \in Seq(Nat)
        /\ Len(<<254>> \o LEBytes(n, 8)) = 8 + 1
    BY <1>2
  <2>3. EncLength(size) = 8 + 1
    BY <1>5 DEF EncLength
  <2> QED BY <2>1, <2>2, <2>3, Zenon
<1> QED BY <1>1, <1>3, <1>4, <1>5

Param == [name : 0..250, value : Nat]

LEMMA ParametersTyped ==
    ASSUME NEW params \in Seq(Param)
    PROVE  Parameters(params) \in Seq(Nat)
<1>1. CASE params = <<>>
  BY <1>1, EmptySeq DEF Parameters
<1>2. CASE params # <<>>
  <2>1. PICK k \in Nat : k = Len(params) /\ DOMAIN params = 1..k
    BY LenProperties
  <2> DEFINE bits   == [i \in 1..((Len(params) + 7) \div 8) |-> 0]
             Name(i) == <<1, 0>> \o LenEncInt(params[i].name, 1) \o Text(params[i].name)
             names  == [i \in DOMAIN params |-> Name(i)]
             values == [i \in DOMAIN params |-> Text(params[i].value)]
  <2>2. bits \in Seq(Nat)
    <3>1. (k + 7) \div 8 \in Nat
      OBVIOUS
    <3> QED BY <2>1, <3>1
  <2>3. \A i \in 1..k : params[i].name \in Nat /\ params[i].value \in Nat
    <3>1. \A i \in 1..k : params[i] \in Param
      BY <2>1, ElementOfSeq
    <3>2. \A p \in Param : p.name \in 0..250 /\ p.value \in Nat
      BY DEF Param
    <3>3. 0..250 \subseteq Nat
      OBVIOUS
    <3> QED BY <3>1, <3>2, <3>3, Zenon
  <2>4. ASSUME NEW i \in 1..k PROVE Name(i) \in Seq(Nat)
    <3>1. /\ LenEncInt(params[i].name, 1) \in Seq(Nat) /\ Text(params[i].name) \in Seq(Nat)
      <4>1. params[i].name \in Nat /\ 1 \in {1, 2, 3, 8}
        BY <2>3
      <4> QED BY <4>1, LenEncIntTyped, TextTyped
    <3>2. <<1, 0>> \in Seq(Nat)
      OBVIOUS
    <3> QED BY <3>1, <3>2, ConcatProperties
  <2>5. names \in Seq(Seq(Nat))
    <3> HIDE DEF Name
    <3> QED BY <2>1, <2>4
  <2>6. values \in Seq(Seq(Nat))
    <3>1. \A i \in 1..k : Text(params[i].value) \in Seq(Nat)
      BY <2>3, TextTyped
    <3> QED BY <2>1, <3>1
  <2>7. Parameters(params) = bits \o <<1>> \o FlattenSeq(names) \o FlattenSeq(values)
    BY <1>2 DEF Parameters
  <2> HIDE DEF bits, names, values
  <2>8. <<1>> \in Seq(Nat)
    OBVIOUS
  <2>9. FlattenSeq(names) \in Seq(Nat) /\ FlattenSeq(values) \in Seq(Nat)
    BY <2>5, <2>6, FlattenTyped
  <2> QED BY <2>2, <2>7, <2>8, <2>9, ConcatProperties
<1> QED BY <1>1, <1>2

\* The messages, by their type.
LEMMA MessageKinds ==
    ASSUME NEW m \in Messages
    PROVE  /\ m.type \in {"query", "prepare", "Query", "Parse"}
           /\ m.type = "query" =>
                 /\ m.attributes \in BOOLEAN /\ m.size \in {1, 2, 3, 8}
                 /\ m.setSize \in {1, 2, 3, 8} /\ m.params \in Seq(Param)
           /\ m.type = "Parse" => m.name \in Nat
           /\ m.text \in Seq(Nat)
<1>0. \A x \in Seq(Byte) : x \in Seq(Nat)
  <2>1. Byte \subseteq Nat
    BY DEF Byte
  <2> QED BY <2>1, SeqMonotonic
<1>1. CASE m \in [type : {"query"}, attributes : BOOLEAN, size : {1, 2, 3, 8},
                  setSize : {1, 2, 3, 8}, params : Seq(Param), text : Seq(Byte)]
  BY <1>0, <1>1
<1>2. CASE m \in [type : {"prepare"}, attributes : BOOLEAN, text : Seq(Byte)]
  BY <1>0, <1>2
<1>3. CASE m \in [type : {"Query"}, text : Seq(Byte)]
  BY <1>0, <1>3
<1>4. CASE m \in [type : {"Parse"}, name : Nat, text : Seq(Byte)]
  BY <1>0, <1>4
<1> QED BY <1>1, <1>2, <1>3, <1>4, Zenon DEF Messages, Param

LEMMA BodyTyped ==
    ASSUME NEW m \in Messages
    PROVE  Body(m) \in Seq(Nat)
<1>0. /\ <<COM_QUERY>> \in Seq(Nat) /\ <<COM_STMT_PREPARE>> \in Seq(Nat)
      /\ <<0>> \in Seq(Nat) /\ <<0, 0, 0>> \in Seq(Nat) /\ m.text \in Seq(Nat)
  BY MessageKinds DEF COM_QUERY, COM_STMT_PREPARE
<1>1. CASE m.type = "query" /\ m.attributes
  <2>1. m.size \in {1, 2, 3, 8} /\ m.setSize \in {1, 2, 3, 8} /\ m.params \in Seq(Param)
    BY <1>1, MessageKinds
  <2>2. Len(m.params) \in Nat /\ 1 \in Nat
    BY <2>1, LenProperties
  <2>3. /\ LenEncInt(Len(m.params), m.size) \in Seq(Nat)
        /\ LenEncInt(1, m.setSize) \in Seq(Nat)
        /\ Parameters(m.params) \in Seq(Nat)
    BY <2>1, <2>2, LenEncIntTyped, ParametersTyped
  <2>4. Body(m) = <<COM_QUERY>> \o LenEncInt(Len(m.params), m.size)
                  \o LenEncInt(1, m.setSize) \o Parameters(m.params) \o m.text
    BY <1>1 DEF Body
  <2> QED BY <1>0, <2>3, <2>4, ConcatProperties
<1>2. CASE m.type = "query" /\ ~ m.attributes
  <2>1. Body(m) = <<COM_QUERY>> \o m.text
    BY <1>2 DEF Body
  <2> QED BY <1>0, <2>1, ConcatProperties
<1>3. CASE m.type = "prepare"
  <2>1. Body(m) = <<COM_STMT_PREPARE>> \o m.text
    BY <1>3 DEF Body
  <2> QED BY <1>0, <2>1, ConcatProperties
<1>4. CASE m.type = "Query"
  <2>1. Body(m) = m.text \o <<0>>
    BY <1>4 DEF Body
  <2> QED BY <1>0, <2>1, ConcatProperties
<1>5. CASE m.type = "Parse"
  <2>1. Body(m) = Text(m.name) \o <<0>> \o m.text \o <<0, 0, 0>>
    BY <1>5 DEF Body
  <2>2. Text(m.name) \in Seq(Nat)
    BY <1>5, MessageKinds, TextTyped
  <2> QED BY <1>0, <2>1, <2>2, ConcatProperties
<1> QED BY <1>1, <1>2, <1>3, <1>4, <1>5, MessageKinds

\* A message's bytes: four of a header and the body, or one, four and the body.
LEMMA BytesTyped ==
    ASSUME NEW m \in Messages
    PROVE  /\ Bytes(m) \in Seq(Nat) /\ Bytes(m) # <<>>
           /\ Body(m) \in Seq(Nat)
           /\ IsMySQL(m) => /\ Bytes(m) = (LEBytes(Len(Body(m)), 3) \o <<0>>) \o Body(m)
                            /\ LEBytes(Len(Body(m)), 3) \o <<0>> \in Seq(Nat)
           /\ ~ IsMySQL(m) => /\ BEBytes(Len(Body(m)) + 4) \in Seq(Nat)
                              /\ Bytes(m) = <<IF m.type = "Query" THEN MsgTypeQuery ELSE MsgTypeParse>>
                                            \o BEBytes(Len(Body(m)) + 4) \o Body(m)
<1>1. PICK n \in Nat : n = Len(Body(m))
  BY BodyTyped, LenProperties
<1>2. Body(m) \in Seq(Nat)
  BY BodyTyped
<1>3. /\ LEBytes(n, 3) \in Seq(Nat) /\ BEBytes(n + 4) \in Seq(Nat) /\ <<0>> \in Seq(Nat)
      /\ <<MsgTypeQuery>> \in Seq(Nat) /\ <<MsgTypeParse>> \in Seq(Nat)
  <2>1. LEBytes(n, 3) \in Seq(Nat)
    BY LEBytesTyped
  <2>2. n + 4 \in Nat
    OBVIOUS
  <2>3. BEBytes(n + 4) \in Seq(Nat)
    BY <2>2, BEBytesTyped
  <2> QED BY <2>1, <2>3 DEF MsgTypeQuery, MsgTypeParse
<1>4. \A h \in Seq(Nat), x \in Seq(Nat) : h # <<>> => h \o x \in Seq(Nat) /\ h \o x # <<>>
  BY ConcatProperties, ConcatEqualIffEmpty
<1>5. CASE IsMySQL(m)
  <2>1. Bytes(m) = (LEBytes(n, 3) \o <<0>>) \o Body(m)
    BY <1>1, <1>5 DEF IsMySQL, Bytes
  <2>2. LEBytes(n, 3) \o <<0>> \in Seq(Nat) /\ LEBytes(n, 3) \o <<0>> # <<>>
    <3>1. <<0>> # <<>>
      OBVIOUS
    <3> QED BY <1>3, <3>1, ConcatProperties, ConcatEqualIffEmpty
  <2>3. Bytes(m) \in Seq(Nat) /\ Bytes(m) # <<>>
    BY <1>2, <1>4, <2>1, <2>2
  <2> QED BY <1>1, <1>2, <1>5, <2>1, <2>2, <2>3
<1>6. CASE ~ IsMySQL(m)
  <2> DEFINE h == <<IF m.type = "Query" THEN MsgTypeQuery ELSE MsgTypeParse>>
  <2>1. m.type \in {"Query", "Parse"}
    BY <1>6, MessageKinds DEF IsMySQL
  <2>2. Bytes(m) = h \o BEBytes(n + 4) \o Body(m)
    BY <1>1, <2>1 DEF Bytes
  <2>3. h \in Seq(Nat) /\ h # <<>>
    BY DEF MsgTypeQuery, MsgTypeParse
  <2> HIDE DEF h
  <2>4. Bytes(m) \in Seq(Nat) /\ Bytes(m) # <<>>
    <3>1. h \o BEBytes(n + 4) \in Seq(Nat) /\ h \o BEBytes(n + 4) # <<>>
      BY <1>3, <1>4, <2>3
    <3> QED BY <1>2, <1>4, <2>2, <3>1
  <2> QED BY <1>1, <1>2, <1>3, <1>6, <2>2, <2>4 DEF h
<1> QED BY <1>5, <1>6

-----------------------------------------------------------------------------
(* The bytes of a stream.                                                  *)

\* The messages of a stream as sequences of bytes.
Parts(s) == [i \in DOMAIN s |-> Bytes(s[i])]

LEMMA PartsTyped ==
    ASSUME NEW s \in Seq(Messages)
    PROVE  /\ Parts(s) \in Seq(Seq(Nat)) /\ Len(Parts(s)) = Len(s)
           /\ \A i \in 1..Len(s) : Parts(s)[i] = Bytes(s[i]) /\ Bytes(s[i]) \in Seq(Nat)
           /\ AllBytes(s) = FlattenSeq(Parts(s)) /\ AllBytes(s) \in Seq(Nat)
<1>1. PICK k \in Nat : k = Len(s) /\ DOMAIN s = 1..k
  BY LenProperties
<1>2. \A i \in 1..k : Bytes(s[i]) \in Seq(Nat)
  <2>1. \A i \in 1..k : s[i] \in Messages
    BY <1>1, ElementOfSeq
  <2> QED BY <2>1, BytesTyped
<1>3. Parts(s) = [i \in 1..k |-> Bytes(s[i])]
  BY <1>1 DEF Parts
<1>4. Parts(s) \in Seq(Seq(Nat)) /\ Len(Parts(s)) = k
  BY <1>2, <1>3
<1>5. AllBytes(s) = FlattenSeq(Parts(s))
  BY DEF AllBytes, Parts
<1> QED BY <1>1, <1>2, <1>3, <1>4, <1>5, FlattenTyped

\* The messages up to a number, then those up to a higher one.
LEMMA PartsSplit ==
    ASSUME NEW s \in Seq(Messages), NEW i \in 0..Len(s), NEW j \in i..Len(s)
    PROVE  /\ SubSeq(s, i + 1, j) \in Seq(Messages) /\ Len(SubSeq(s, i + 1, j)) = j - i
           /\ \A n \in 1..(j - i) : SubSeq(s, i + 1, j)[n] = s[i + n]
           /\ Parts(SubSeq(s, 1, j)) = Parts(SubSeq(s, 1, i)) \o Parts(SubSeq(s, i + 1, j))
           /\ AllBytes(SubSeq(s, 1, j)) = AllBytes(SubSeq(s, 1, i)) \o AllBytes(SubSeq(s, i + 1, j))
<1>1. PICK k \in Nat : k = Len(s)
  BY LenProperties
<1>2. \A n \in 1..k : s[n] \in Messages
  BY <1>1, ElementOfSeq
<1>3. ASSUME NEW a \in 0..k, NEW b \in a..k
      PROVE  /\ SubSeq(s, a + 1, b) \in Seq(Messages) /\ Len(SubSeq(s, a + 1, b)) = b - a
             /\ \A n \in 1..(b - a) : SubSeq(s, a + 1, b)[n] = s[a + n]
  <2>1. \A n \in (a + 1)..b : s[n] \in Messages
    BY <1>2
  <2>2. a + 1 \in Int /\ b \in Int
    OBVIOUS
  <2>3. /\ SubSeq(s, a + 1, b) \in Seq(Messages)
        /\ Len(SubSeq(s, a + 1, b)) = IF a + 1 <= b THEN b - (a + 1) + 1 ELSE 0
        /\ \A n \in 1..(b - (a + 1) + 1) : SubSeq(s, a + 1, b)[n] = s[(a + 1) + n - 1]
    BY <2>1, <2>2, SubSeqProperties
  <2>4. /\ (IF a + 1 <= b THEN b - (a + 1) + 1 ELSE 0) = b - a
        /\ b - (a + 1) + 1 = b - a
        /\ \A n \in Nat : (a + 1) + n - 1 = a + n
    OBVIOUS
  <2> QED BY <2>3, <2>4
<1>4. i \in 0..k /\ j \in i..k /\ 0 \in 0..k /\ i \in 0..k /\ j \in 0..k /\ 0 + 1 = 1
  BY <1>1
<1> DEFINE a == SubSeq(s, 1, i)
           b == SubSeq(s, i + 1, j)
           c == SubSeq(s, 1, j)
<1>5. /\ a \in Seq(Messages) /\ Len(a) = i /\ \A n \in 1..i : a[n] = s[n]
  <2>1. /\ SubSeq(s, 0 + 1, i) \in Seq(Messages) /\ Len(SubSeq(s, 0 + 1, i)) = i - 0
        /\ \A n \in 1..(i - 0) : SubSeq(s, 0 + 1, i)[n] = s[0 + n]
    BY <1>3, <1>4
  <2> QED BY <1>4, <2>1
<1>6. /\ b \in Seq(Messages) /\ Len(b) = j - i /\ \A n \in 1..(j - i) : b[n] = s[i + n]
  BY <1>3, <1>4
<1>7. /\ c \in Seq(Messages) /\ Len(c) = j /\ \A n \in 1..j : c[n] = s[n]
  <2>1. /\ SubSeq(s, 0 + 1, j) \in Seq(Messages) /\ Len(SubSeq(s, 0 + 1, j)) = j - 0
        /\ \A n \in 1..(j - 0) : SubSeq(s, 0 + 1, j)[n] = s[0 + n]
    BY <1>3, <1>4
  <2> QED BY <1>4, <2>1
<1> HIDE DEF a, b, c
<1>8. Parts(c) = Parts(a) \o Parts(b)
  <2>1. /\ Parts(a) \in Seq(Seq(Nat)) /\ Len(Parts(a)) = i
        /\ \A n \in 1..i : Parts(a)[n] = Bytes(s[n])
    BY <1>5, PartsTyped
  <2>2. /\ Parts(b) \in Seq(Seq(Nat)) /\ Len(Parts(b)) = j - i
        /\ \A n \in 1..(j - i) : Parts(b)[n] = Bytes(s[i + n])
    BY <1>6, PartsTyped
  <2>3. /\ Parts(c) \in Seq(Seq(Nat)) /\ Len(Parts(c)) = j
        /\ \A n \in 1..j : Parts(c)[n] = Bytes(s[n])
    BY <1>7, PartsTyped
  <2>4. /\ Parts(a) \o Parts(b) \in Seq(Seq(Nat))
        /\ Len(Parts(a) \o Parts(b)) = i + (j - i)
        /\ \A n \in 1..(i + (j - i)) : (Parts(a) \o Parts(b))[n] =
               IF n <= i THEN Parts(a)[n] ELSE Parts(b)[n - i]
    BY <2>1, <2>2, ConcatProperties
  <2>5. i + (j - i) = j
    BY <1>4
  <2>6. ASSUME NEW n \in 1..j PROVE Parts(c)[n] = (Parts(a) \o Parts(b))[n]
    <3>1. CASE n <= i
      <4>1. n \in 1..i
        BY <1>4, <3>1
      <4> QED BY <2>1, <2>3, <2>4, <2>5, <3>1, <4>1
    <3>2. CASE ~ (n <= i)
      <4>1. PICK q \in 1..(j - i) : q = n - i /\ i + q = n
        BY <1>4, <3>2
      <4>2. (Parts(a) \o Parts(b))[n] = Parts(b)[q]
        BY <2>4, <2>5, <3>2, <4>1
      <4>3. Parts(b)[q] = Bytes(s[n]) /\ Parts(c)[n] = Bytes(s[n])
        BY <2>2, <2>3, <4>1
      <4> QED BY <4>2, <4>3
    <3> QED BY <3>1, <3>2
  <2> QED BY <2>3, <2>4, <2>5, <2>6, SeqEqual
<1>9. AllBytes(c) = AllBytes(a) \o AllBytes(b)
  <2>1. FlattenSeq(Parts(a) \o Parts(b)) = FlattenSeq(Parts(a)) \o FlattenSeq(Parts(b))
    BY <1>5, <1>6, PartsTyped, FlattenConcat
  <2>2. /\ AllBytes(a) = FlattenSeq(Parts(a)) /\ AllBytes(b) = FlattenSeq(Parts(b))
        /\ AllBytes(c) = FlattenSeq(Parts(c))
    BY <1>5, <1>6, <1>7, PartsTyped
  <2> QED BY <1>8, <2>1, <2>2
<1> QED BY <1>6, <1>8, <1>9 DEF a, b, c

\* A message ends within the stream.
LEMMA BorderInside ==
    ASSUME NEW s \in Seq(Messages), NEW b \in Borders(s)
    PROVE  /\ \E j \in 1..Len(s) : b = Len(AllBytes(SubSeq(s, 1, j)))
           /\ b \in 0..Len(AllBytes(s))
<1>1. PICK k \in Nat : k = Len(s)
  BY LenProperties
<1>2. PICK j \in 1..k : b = Len(AllBytes(SubSeq(s, 1, j)))
  BY <1>1 DEF Borders
<1>3. j \in 0..Len(s) /\ k \in j..Len(s) /\ 0 \in 0..Len(s) /\ j \in 0..Len(s)
  BY <1>1
<1>4. AllBytes(SubSeq(s, 1, k)) = AllBytes(SubSeq(s, 1, j)) \o AllBytes(SubSeq(s, j + 1, k))
  BY <1>3, PartsSplit
<1>5. SubSeq(s, 1, k) = s
  BY <1>1, SubSeqFull
<1>6. AllBytes(SubSeq(s, 1, j)) \in Seq(Nat) /\ AllBytes(SubSeq(s, j + 1, k)) \in Seq(Nat)
  <2>1. SubSeq(s, j + 1, k) \in Seq(Messages)
    BY <1>3, PartsSplit
  <2>2. SubSeq(s, 0 + 1, j) \in Seq(Messages)
    <3>1. j \in 0..Len(s)
      BY <1>1
    <3> QED BY <1>3, <3>1, PartsSplit
  <2>3. SubSeq(s, 1, j) \in Seq(Messages)
    BY <2>2
  <2> QED BY <2>1, <2>3, PartsTyped
<1>7. PICK p \in Nat, q \in Nat : /\ p = Len(AllBytes(SubSeq(s, 1, j)))
                                  /\ q = Len(AllBytes(SubSeq(s, j + 1, k)))
  BY <1>6, LenProperties
<1>8. Len(AllBytes(s)) = p + q
  <2>1. Len(AllBytes(SubSeq(s, 1, j)) \o AllBytes(SubSeq(s, j + 1, k)))
        = Len(AllBytes(SubSeq(s, 1, j))) + Len(AllBytes(SubSeq(s, j + 1, k)))
    BY <1>6, ConcatProperties
  <2> QED BY <1>4, <1>5, <1>7, <2>1, Zenon
<1> QED BY <1>1, <1>2, <1>7, <1>8

-----------------------------------------------------------------------------
(* One buffer.                                                             *)

\* What the proofs need of the state: the pieces have bytes, none is empty.
Held ==
    /\ stream \in Streams
    /\ taken \in 0..Len(AllBytes(stream))
    /\ pieces \in Seq(Seq(Nat) \ {<<>>})

\* The parts of HandleBuffer: the bytes up to a position, the calls they are
\* cut into, and what each of them logs.
Read(to) == SubSeq(AllBytes(stream), taken + 1, to)

Calls(buffer) == IF IsMySQL(stream[1]) THEN extract_packets(buffer) ELSE <<buffer>>

Logs(call) == IF IsMySQL(stream[1]) THEN MySQLLogs(Capable(stream), call)
                                    ELSE PostgreSQLLogs(call)

Texts(calls) == [i \in DOMAIN calls |-> Logs(calls[i])]

ReadsTo(to) ==
    /\ stream \in CutStreams \/ to \in Borders(stream)
    /\ taken' = to
    /\ pieces' = pieces \o Calls(Read(to))
    /\ logged' = logged \o FlattenSeq(Texts(Calls(Read(to))))
    /\ uncut' = (uncut /\ to \in Borders(stream))
    /\ stream' = stream

LEMMA StreamTyped ==
    ASSUME stream \in Streams
    PROVE  stream \in Seq(Messages) /\ AllBytes(stream) \in Seq(Nat)
BY StreamsAssumption, PartsTyped

LEMMA BufferRead ==
    ASSUME Held, HandleBuffer
    PROVE  \E to \in (taken + 1)..Len(AllBytes(stream)) :
              /\ ReadsTo(to)
              /\ Read(to) \in Seq(Nat) /\ Len(Read(to)) = to - taken
              /\ Calls(Read(to)) \in Seq(Seq(Nat) \ {<<>>})
              /\ FlattenSeq(Calls(Read(to))) = Read(to)
<1>1. PICK k \in Nat : k = Len(AllBytes(stream)) /\ taken \in 0..k
  BY StreamTyped, LenProperties DEF Held
<1>2. PICK to \in IF stream \in CutStreams THEN (taken + 1)..k
                                          ELSE {b \in Borders(stream) : b > taken} :
            ReadsTo(to)
  BY <1>1 DEF HandleBuffer, ReadsTo, Read, Calls, Texts, Logs
<1>3. to \in (taken + 1)..k
  <2>1. CASE stream \in CutStreams
    BY <1>2, <2>1
  <2>2. CASE stream \notin CutStreams
    <3>1. to \in Borders(stream) /\ to > taken
      BY <1>2, <2>2
    <3>2. to \in 0..k
      BY <1>1, <3>1, StreamTyped, BorderInside DEF Held
    <3> QED BY <1>1, <3>1, <3>2
  <2> QED BY <2>1, <2>2
<1>4. Read(to) \in Seq(Nat) /\ Len(Read(to)) = to - taken
  <2>1. \A i \in (taken + 1)..to : AllBytes(stream)[i] \in Nat
    BY <1>1, <1>3, StreamTyped, ElementOfSeq DEF Held
  <2>2. taken + 1 \in Int /\ to \in Int /\ taken + 1 <= to /\ to - (taken + 1) + 1 = to - taken
    BY <1>1, <1>3
  <2> QED BY <2>1, <2>2, SubSeqProperties DEF Read
<1>5. /\ Calls(Read(to)) \in Seq(Seq(Nat) \ {<<>>})
      /\ FlattenSeq(Calls(Read(to))) = Read(to)
  <2>1. CASE IsMySQL(stream[1])
    BY <1>4, <2>1, ExtractKeepsBytes DEF Calls
  <2>2. CASE ~ IsMySQL(stream[1])
    <3>1. Calls(Read(to)) = <<Read(to)>>
      BY <2>2 DEF Calls
    <3>2. Read(to) # <<>>
      <4>1. Len(Read(to)) # 0
        BY <1>1, <1>3, <1>4
      <4>2. Len(<<>>) = 0
        OBVIOUS
      <4> QED BY <4>1, <4>2, Zenon
    <3>3. <<Read(to)>> \in Seq(Seq(Nat) \ {<<>>})
      BY <1>4, <3>2
    <3>4. FlattenSeq(<<Read(to)>>) = Read(to)
      BY <1>4, FlattenFirst, EmptySeq
    <3> QED BY <3>1, <3>3, <3>4
  <2> QED BY <2>1, <2>2
<1> QED BY <1>1, <1>2, <1>3, <1>4, <1>5

LEMMA HeldInductive == Held /\ [Next]_vars => Held'
<1> SUFFICES ASSUME Held, [Next]_vars PROVE Held'
  OBVIOUS
<1>1. CASE HandleBuffer
  <2>1. PICK to \in (taken + 1)..Len(AllBytes(stream)) :
              ReadsTo(to) /\ Calls(Read(to)) \in Seq(Seq(Nat) \ {<<>>})
    BY <1>1, BufferRead
  <2>2. Len(AllBytes(stream)) \in Nat
    BY StreamTyped, LenProperties DEF Held
  <2>3. pieces \o Calls(Read(to)) \in Seq(Seq(Nat) \ {<<>>})
    BY <2>1, ConcatProperties DEF Held
  <2>4. to \in 0..Len(AllBytes(stream))
    BY <2>1, <2>2 DEF Held
  <2> QED BY <2>1, <2>3, <2>4 DEF Held, ReadsTo
<1>2. CASE UNCHANGED vars
  BY <1>2 DEF vars, Held
<1> QED BY <1>1, <1>2 DEF Next

LEMMA HeldAlways == Spec => []Held
<1>1. Init => Held
  <2> SUFFICES ASSUME Init PROVE Held
    OBVIOUS
  <2>1. Len(AllBytes(stream)) \in Nat
    BY StreamTyped, LenProperties DEF Init
  <2> QED BY <2>1, EmptySeq DEF Init, Held
<1> QED BY <1>1, HeldInductive, PTL DEF Spec

-----------------------------------------------------------------------------
(* No byte is lost.                                                        *)

\* However a stream is cut into buffers, and whatever lengths extract_packets()
\* reads in the middle of a packet, what the handler is called with is what
\* was read: no byte is lost, repeated or moved.
THEOREM PiecesMakeTheStream == Spec => []PiecesMakeStream
<1>1. Init => PiecesMakeStream
  <2> SUFFICES ASSUME Init PROVE PiecesMakeStream
    OBVIOUS
  <2>1. FlattenSeq(<<>>) = <<>>
    BY DEF FlattenSeq
  <2>2. SubSeq(AllBytes(stream), 1, 0) = <<>>
    BY SubSeqEmpty
  <2> QED BY <2>1, <2>2 DEF Init, PiecesMakeStream
<1>2. Held /\ PiecesMakeStream /\ [Next]_vars => PiecesMakeStream'
  <2> SUFFICES ASSUME Held, PiecesMakeStream, [Next]_vars PROVE PiecesMakeStream'
    OBVIOUS
  <2>1. CASE HandleBuffer
    <3> DEFINE A == AllBytes(stream)
    <3>1. PICK to \in (taken + 1)..Len(A) :
                 /\ ReadsTo(to) /\ Calls(Read(to)) \in Seq(Seq(Nat) \ {<<>>})
                 /\ FlattenSeq(Calls(Read(to))) = Read(to)
      BY <2>1, BufferRead
    <3>2. A \in Seq(Nat) /\ Len(A) \in Nat /\ taken \in 0..Len(A)
      BY StreamTyped, LenProperties DEF Held
    <3>3. pieces \in Seq(Seq(Nat)) /\ Calls(Read(to)) \in Seq(Seq(Nat))
      BY <3>1, SeqMonotonic DEF Held
    <3>4. FlattenSeq(pieces \o Calls(Read(to))) = FlattenSeq(pieces) \o FlattenSeq(Calls(Read(to)))
      BY <3>3, FlattenConcat
    <3>5. SubSeq(A, 1, taken) \o SubSeq(A, taken + 1, to) = SubSeq(A, 1, to)
      <4>1. 1 \in 1..(Len(A) + 1) /\ taken \in (1 - 1)..Len(A) /\ to \in taken..Len(A)
        BY <3>1, <3>2
      <4> HIDE DEF A
      <4> QED BY <3>2, <4>1, ConcatAdjacentSubSeq
    <3>6. FlattenSeq(pieces \o Calls(Read(to))) = SubSeq(A, 1, to)
      BY <3>1, <3>4, <3>5 DEF PiecesMakeStream, Read
    <3>7. pieces' = pieces \o Calls(Read(to)) /\ taken' = to /\ stream' = stream
      BY <3>1 DEF ReadsTo
    <3>8. AllBytes(stream)' = A
      BY <3>7 DEF AllBytes
    <3> HIDE DEF A
    <3> QED BY <3>6, <3>7, <3>8 DEF PiecesMakeStream
  <2>2. CASE UNCHANGED vars
    BY <2>2 DEF vars, PiecesMakeStream, AllBytes
  <2> QED BY <2>1, <2>2 DEF Next
<1> QED BY <1>1, <1>2, HeldAlways, PTL DEF Spec

-----------------------------------------------------------------------------
(* Whole packets.                                                          *)

\* A MySQL packet: the first three bytes tell how many follow the header.
IsPacket(b) ==
    /\ b \in Seq(Nat) /\ Len(b) \in Nat /\ Len(b) >= 4
    /\ (b[3] * 256 + b[2]) * 256 + b[1] = Len(b) - 4

\* The bytes of a number make the number again.
LEMMA DigitsMake ==
    ASSUME NEW n \in Nat, n + 1 < 256 * 256 * 256
    PROVE  (Digit(n, 3) * 256 + Digit(n, 2)) * 256 + Digit(n, 1) = n
<1>1. /\ Digit(n, 1) = n % 256 /\ Digit(n, 2) = (n \div 256) % 256
      /\ Digit(n, 3) = (n \div (256 * 256)) % 256
  BY DEF Digit
<1>2. PICK q \in Nat, a \in 0..255 : n = 256 * q + a /\ q = n \div 256 /\ a = n % 256
  OBVIOUS
<1>3. PICK r \in Nat, b \in 0..255 : q = 256 * r + b /\ r = q \div 256 /\ b = q % 256
  OBVIOUS
<1>4. n = 256 * (256 * r + b) + a
  <2>1. n = 256 * q + a /\ q = 256 * r + b
    BY <1>2, <1>3
  <2> QED BY <2>1
<1>5. n \div (256 * 256) = r /\ r < 256 /\ (r * 256 + b) * 256 + a = n
  BY <1>4
<1>6. r % 256 = r
  BY <1>5
<1>7. Digit(n, 3) = r /\ Digit(n, 2) = b /\ Digit(n, 1) = a
  <2> DEFINE Low(x) == x % 256
             Rest(x) == x \div 256
             High == n \div (256 * 256)
  <2>1. Digit(n, 1) = Low(n) /\ Digit(n, 2) = Low(Rest(n)) /\ Digit(n, 3) = Low(High)
    BY <1>1
  <2>2. q = Rest(n) /\ a = Low(n)
    BY <1>2
  <2>3. b = Low(q)
    BY <1>3
  <2>4. High = r /\ Low(r) = r
    BY <1>5, <1>6
  <2> HIDE DEF Low, Rest, High
  <2> QED BY ONLY <2>1, <2>2, <2>3, <2>4, Zenon
<1> QED BY <1>5, <1>7

LEMMA CommandIsPacket ==
    ASSUME NEW m \in Messages, IsMySQL(m), Fits(m)
    PROVE  IsPacket(Bytes(m))
<1>1. PICK n \in Nat : n = Len(Body(m)) /\ n + 1 < 256 * 256 * 256
  BY BytesTyped, LenProperties DEF Fits
<1> DEFINE h == LEBytes(n, 3)
           g == h \o <<0>>
<1>2. /\ h \in Seq(Nat) /\ Len(h) = 3
      /\ h[1] = Digit(n, 1) /\ h[2] = Digit(n, 2) /\ h[3] = Digit(n, 3)
  <2>1. h \in Seq(Nat) /\ Len(h) = 3 /\ \A i \in 1..3 : h[i] = Digit(n, i)
    BY LEBytesTyped
  <2> HIDE DEF h
  <2> QED BY <2>1
<1>3. <<0>> \in Seq(Nat) /\ Len(<<0>>) = 1
  OBVIOUS
<1>4. Bytes(m) = g \o Body(m) /\ Bytes(m) \in Seq(Nat) /\ Body(m) \in Seq(Nat)
  BY <1>1, BytesTyped
<1> HIDE DEF h
<1>5. /\ g \in Seq(Nat) /\ Len(g) = 4
      /\ \A i \in 1..4 : g[i] = IF i <= 3 THEN h[i] ELSE <<0>>[i - 3]
  <2>1. /\ g \in Seq(Nat) /\ Len(g) = Len(h) + Len(<<0>>)
        /\ \A i \in 1..(Len(h) + Len(<<0>>)) : g[i] =
               IF i <= Len(h) THEN h[i] ELSE <<0>>[i - Len(h)]
    BY <1>2, <1>3, ConcatProperties
  <2>2. Len(h) + Len(<<0>>) = 4 /\ Len(h) = 3
    BY <1>2, <1>3
  <2> HIDE DEF g
  <2> QED BY <2>1, <2>2, Zenon
<1> HIDE DEF g
<1>6. /\ Len(Bytes(m)) = 4 + n
      /\ \A i \in 1..(4 + n) : Bytes(m)[i] = IF i <= 4 THEN g[i] ELSE Body(m)[i - 4]
  <2>1. /\ Len(g \o Body(m)) = Len(g) + Len(Body(m))
        /\ \A i \in 1..(Len(g) + Len(Body(m))) : (g \o Body(m))[i] =
               IF i <= Len(g) THEN g[i] ELSE Body(m)[i - Len(g)]
    BY <1>4, <1>5, ConcatProperties
  <2> QED BY <1>1, <1>4, <1>5, <2>1, Zenon
<1>7. Bytes(m)[1] = h[1] /\ Bytes(m)[2] = h[2] /\ Bytes(m)[3] = h[3]
  <2>1. 1 \in 1..(4 + n) /\ 2 \in 1..(4 + n) /\ 3 \in 1..(4 + n)
    OBVIOUS
  <2>2. Bytes(m)[1] = g[1] /\ Bytes(m)[2] = g[2] /\ Bytes(m)[3] = g[3]
    BY <1>6, <2>1
  <2> QED BY <1>5, <2>2
<1>8. (h[3] * 256 + h[2]) * 256 + h[1] = n
  BY <1>1, <1>2, DigitsMake
<1>9. (4 + n) - 4 = n /\ 4 + n \in Nat /\ 4 + n >= 4
  OBVIOUS
<1> QED BY <1>4, <1>6, <1>7, <1>8, <1>9 DEF IsPacket

\* Bytes between others.
LEMMA MiddleIs ==
    ASSUME NEW x \in Seq(Nat), NEW b \in Seq(Nat), NEW y \in Seq(Nat)
    PROVE  /\ (x \o b) \o y \in Seq(Nat) /\ Len((x \o b) \o y) = (Len(x) + Len(b)) + Len(y)
           /\ Len(x \o b) = Len(x) + Len(b)
           /\ \A p \in 1..Len(b) : ((x \o b) \o y)[Len(x) + p] = b[p]
           /\ SubSeq((x \o b) \o y, Len(x) + 1, Len(x) + Len(b)) = b
<1>0. PICK i \in Nat, j \in Nat, k \in Nat : i = Len(x) /\ j = Len(b) /\ k = Len(y)
  BY LenProperties
<1> DEFINE u == x \o b
           buffer == u \o y
<1>1. /\ u \in Seq(Nat) /\ Len(u) = i + j
      /\ \A p \in 1..(i + j) : u[p] = IF p <= i THEN x[p] ELSE b[p - i]
  BY <1>0, ConcatProperties
<1> HIDE DEF u
<1>2. /\ buffer \in Seq(Nat) /\ Len(buffer) = (i + j) + k
      /\ \A p \in 1..((i + j) + k) : buffer[p] = IF p <= i + j THEN u[p] ELSE y[p - (i + j)]
  <2>1. /\ buffer \in Seq(Nat) /\ Len(buffer) = Len(u) + Len(y)
        /\ \A p \in 1..(Len(u) + Len(y)) : buffer[p] =
               IF p <= Len(u) THEN u[p] ELSE y[p - Len(u)]
    <3>1. u \in Seq(Nat)
      BY <1>1
    <3> QED BY <3>1, ConcatProperties, Zenon
  <2> HIDE DEF buffer
  <2> QED BY <1>0, <1>1, <2>1, Zenon
<1> HIDE DEF buffer
<1>3. \A p \in 1..j : buffer[i + p] = b[p]
  <2>1. TAKE p \in 1..j
  <2>2. i + p \in 1..((i + j) + k) /\ i + p <= i + j /\ i + p \in 1..(i + j)
        /\ ~ (i + p <= i) /\ (i + p) - i = p
    OBVIOUS
  <2>3. buffer[i + p] = u[i + p]
    BY <1>2, <2>2
  <2>4. u[i + p] = b[(i + p) - i]
    BY <1>1, <2>2
  <2> QED BY <2>2, <2>3, <2>4
<1>4. SubSeq(buffer, i + 1, i + j) = b
  <2>1. \A p \in (i + 1)..(i + j) : buffer[p] \in Nat
    <3>1. \A p \in (i + 1)..(i + j) : p \in 1..Len(buffer)
      BY <1>2
    <3> QED BY <1>2, <3>1, ElementOfSeq
  <2>2. /\ SubSeq(buffer, i + 1, i + j) \in Seq(Nat)
        /\ Len(SubSeq(buffer, i + 1, i + j)) = j
        /\ \A p \in 1..j : SubSeq(buffer, i + 1, i + j)[p] = buffer[(i + 1) + p - 1]
    <3>1. /\ i + 1 \in Int /\ i + j \in Int /\ (i + j) - (i + 1) + 1 = j
          /\ (IF i + 1 <= i + j THEN (i + j) - (i + 1) + 1 ELSE 0) = j
      OBVIOUS
    <3> QED BY <2>1, <3>1, SubSeqProperties
  <2>3. \A p \in 1..j : SubSeq(buffer, i + 1, i + j)[p] = b[p]
    <3>1. \A p \in 1..j : (i + 1) + p - 1 = i + p
      OBVIOUS
    <3> QED BY <1>3, <2>2, <3>1
  <2> QED BY <1>0, <2>2, <2>3, SeqEqual
<1> QED BY <1>0, <1>1, <1>2, <1>3, <1>4, Zenon DEF buffer, u

\* A packet behind any bytes and before any others is found as it is.
LEMMA PacketFound ==
    ASSUME NEW x \in Seq(Nat), NEW b, IsPacket(b), NEW y \in Seq(Nat)
    PROVE  /\ After((x \o b) \o y, Len(x)) = Len(x \o b)
           /\ Piece((x \o b) \o y, Len(x)) = b
           /\ Len(x) < Len((x \o b) \o y)
<1> DEFINE buffer == (x \o b) \o y
<1>1. b \in Seq(Nat)
  BY DEF IsPacket
<1>2. PICK i \in Nat, j \in Nat, k \in Nat : i = Len(x) /\ j = Len(b) /\ k = Len(y) /\ j >= 4
  BY <1>1, LenProperties DEF IsPacket
<1>3. /\ buffer \in Seq(Nat) /\ Len(buffer) = (i + j) + k /\ Len(x \o b) = i + j
      /\ \A p \in 1..j : buffer[i + p] = b[p]
      /\ SubSeq(buffer, i + 1, i + j) = b
  <2>1. /\ buffer \in Seq(Nat) /\ Len(buffer) = (Len(x) + Len(b)) + Len(y)
        /\ Len(x \o b) = Len(x) + Len(b)
        /\ \A p \in 1..Len(b) : buffer[Len(x) + p] = b[p]
        /\ SubSeq(buffer, Len(x) + 1, Len(x) + Len(b)) = b
    BY <1>1, MiddleIs
  <2> HIDE DEF buffer
  <2> QED BY <1>2, <2>1, Zenon
<1> HIDE DEF buffer
<1>4. /\ At(buffer, i) = b[1] /\ At(buffer, i + 1) = b[2] /\ At(buffer, i + 2) = b[3]
  <2>1. i < Len(buffer) /\ i + 1 < Len(buffer) /\ i + 2 < Len(buffer)
    BY <1>2, <1>3
  <2>2. /\ At(buffer, i) = buffer[i + 1] /\ At(buffer, i + 1) = buffer[(i + 1) + 1]
        /\ At(buffer, i + 2) = buffer[(i + 2) + 1]
    BY <2>1 DEF At
  <2>3. (i + 1) + 1 = i + 2 /\ (i + 2) + 1 = i + 3
    OBVIOUS
  <2>4. buffer[i + 1] = b[1] /\ buffer[i + 2] = b[2] /\ buffer[i + 3] = b[3]
    BY <1>2, <1>3
  <2> QED BY <2>2, <2>3, <2>4
<1>5. readLEInt(buffer, i, 3) = j - 4
  <2>1. readLEInt(buffer, i, 3) = (At(buffer, i + 2) * 256 + At(buffer, i + 1)) * 256 + At(buffer, i)
    BY <1>3, ReadLE3
  <2> QED BY <1>2, <1>4, <2>1 DEF IsPacket
<1>6. After(buffer, i) = i + j
  BY <1>2, <1>5 DEF After
<1>7. Piece(buffer, i) = b
  <2>1. Piece(buffer, i) = SubSeq(buffer, i + 1,
              IF After(buffer, i) < Len(buffer) THEN After(buffer, i) ELSE Len(buffer))
    BY <1>3, PieceIs
  <2>2. (IF After(buffer, i) < Len(buffer) THEN After(buffer, i) ELSE Len(buffer)) = i + j
    <3>1. Len(buffer) = (i + j) + k
      BY <1>3
    <3>2. (IF i + j < (i + j) + k THEN i + j ELSE (i + j) + k) = i + j
      OBVIOUS
    <3> QED BY <1>6, <3>1, <3>2, Zenon
  <2> QED BY <1>3, <2>1, <2>2, Zenon
<1>8. i < (i + j) + k
  BY <1>2
<1> QED BY <1>2, <1>3, <1>6, <1>7, <1>8, Zenon DEF buffer

LEMMA ConcatByteSeqs ==
    ASSUME NEW x \in Seq(Nat), NEW y \in Seq(Nat), NEW z \in Seq(Nat)
    PROVE  (x \o y) \o z = x \o (y \o z)
<1>1. PICK S : S = Nat
  OBVIOUS
<1>2. x \in Seq(S) /\ y \in Seq(S) /\ z \in Seq(S)
  BY <1>1, Zenon
<1> QED BY <1>2, ConcatAssociative

\* A buffer of whole packets comes apart into these packets.
LEMMA ExtractFindsPackets ==
    ASSUME NEW packets \in Seq(Seq(Nat)), \A i \in 1..Len(packets) : IsPacket(packets[i])
    PROVE  extract_packets(FlattenSeq(packets)) = packets
<1> DEFINE buffer == FlattenSeq(packets)
           AllPackets(bs) == \A i \in 1..Len(bs) : IsPacket(bs[i])
<1>1. buffer \in Seq(Nat)
  BY FlattenTyped
<1>2. PICK f : /\ extract_packets(buffer) = f[0]
               /\ \A pos \in Nat : Turn(f, buffer, pos)
  <2> HIDE DEF buffer
  <2> QED BY <1>1, ExtractIs
<1> DEFINE Found(x, bs) == AllPackets(bs) /\ buffer = x \o FlattenSeq(bs) => f[Len(x)] = bs
           T == {n \in Nat : \A x \in Seq(Nat), bs \in Seq(Seq(Nat)) : Len(bs) = n => Found(x, bs)}
<1>3. 0 \in T
  <2> SUFFICES ASSUME NEW x \in Seq(Nat), NEW bs \in Seq(Seq(Nat)), Len(bs) = 0,
                      buffer = x \o FlattenSeq(bs)
               PROVE  f[Len(x)] = bs
    <3> HIDE DEF buffer
    <3> QED OBVIOUS
  <2>1. bs = <<>> /\ FlattenSeq(bs) = <<>>
    BY EmptySeq DEF FlattenSeq
  <2>2. buffer = x
    BY <2>1, ConcatEmptySeq
  <2>3. Len(x) \in Nat
    BY LenProperties
  <2> HIDE DEF buffer
  <2>4. Turn(f, buffer, Len(x)) /\ Len(x) >= Len(buffer)
    BY <1>2, <2>2, <2>3
  <2> QED BY <2>1, <2>4 DEF Turn
<1>4. ASSUME NEW n \in Nat, n \in T PROVE n + 1 \in T
  <2> SUFFICES ASSUME NEW x \in Seq(Nat), NEW bs \in Seq(Seq(Nat)), Len(bs) = n + 1
               PROVE  Found(x, bs)
    <3> HIDE DEF Found
    <3> QED OBVIOUS
  <2> SUFFICES ASSUME AllPackets(bs), buffer = x \o FlattenSeq(bs)
               PROVE  f[Len(x)] = bs
    <3> HIDE DEF buffer, AllPackets
    <3> QED OBVIOUS
  <2> DEFINE b == bs[1]
             rest == SubSeq(bs, 2, n + 1)
  <2>1. b \in Seq(Nat) /\ IsPacket(b)
    <3>1. 1 \in 1..Len(bs)
      OBVIOUS
    <3>2. bs[1] \in Seq(Nat)
      BY <3>1, ElementOfSeq
    <3>3. IsPacket(bs[1])
      BY <3>1, Zenon
    <3> QED BY <3>2, <3>3, Zenon
  <2>2. rest \in Seq(Seq(Nat)) /\ Len(rest) = n /\ AllPackets(rest)
    <3>1. \A i \in 2..(n + 1) : bs[i] \in Seq(Nat)
      BY ElementOfSeq
    <3>2. /\ rest \in Seq(Seq(Nat)) /\ Len(rest) = n
          /\ \A i \in 1..n : rest[i] = bs[2 + i - 1]
      <4>1. (n + 1) - 2 + 1 = n /\ (2 <= n + 1 \/ n = 0)
        OBVIOUS
      <4> QED BY <3>1, <4>1, SubSeqProperties
    <3>3. \A i \in 1..n : 2 + i - 1 \in 1..Len(bs)
      OBVIOUS
    <3> HIDE DEF rest
    <3> QED BY <3>2, <3>3
  <2>3. bs = <<b>> \o rest
    <3>1. 1 \in 1..Len(bs) /\ n + 1 \in 1..Len(bs)
      OBVIOUS
    <3>2. SubSeq(bs, 1, n + 1) = <<bs[1]>> \o SubSeq(bs, 1 + 1, n + 1)
      BY <3>1, SubSeqRecursiveFirst
    <3>3. SubSeq(bs, 1, n + 1) = bs
      BY SubSeqFull
    <3> QED BY <3>2, <3>3
  <2> HIDE DEF b, rest, AllPackets
  <2>4. FlattenSeq(bs) = b \o FlattenSeq(rest) /\ FlattenSeq(rest) \in Seq(Nat)
    BY <2>1, <2>2, <2>3, FlattenFirst, FlattenTyped
  <2>5. buffer = (x \o b) \o FlattenSeq(rest)
    <3>1. PICK y \in Seq(Nat) : y = FlattenSeq(rest)
      BY <2>4
    <3>2. b \in Seq(Nat)
      BY <2>1
    <3>3. (x \o b) \o y = x \o (b \o y)
      BY <3>2, ConcatByteSeqs
    <3> QED BY <2>4, <3>1, <3>3, Zenon
  <2>6. x \o b \in Seq(Nat) /\ Len(x) \in Nat
    BY <2>1, ConcatProperties, LenProperties
  <2> HIDE DEF buffer
  <2>7. f[Len(x \o b)] = rest
    BY <1>4, <2>2, <2>5, <2>6
  <2>8. /\ After(buffer, Len(x)) = Len(x \o b) /\ Piece(buffer, Len(x)) = b
        /\ Len(x) < Len(buffer)
    <3>1. /\ After((x \o b) \o FlattenSeq(rest), Len(x)) = Len(x \o b)
          /\ Piece((x \o b) \o FlattenSeq(rest), Len(x)) = b
          /\ Len(x) < Len((x \o b) \o FlattenSeq(rest))
      BY <2>1, <2>4, PacketFound
    <3> QED BY <2>5, <3>1, Zenon
  <2>9. Turn(f, buffer, Len(x)) /\ ~ (Len(x) >= Len(buffer))
    BY <1>1, <1>2, <2>6, <2>8, LenProperties
  <2> QED BY <2>3, <2>7, <2>8, <2>9 DEF Turn
<1>5. Len(packets) \in Nat
  BY LenProperties
<1>6. Len(packets) \in T
  <2> HIDE DEF T
  <2> QED BY <1>3, <1>4, <1>5, AllNumbers
<1>7. buffer = <<>> \o FlattenSeq(packets) /\ <<>> \in Seq(Nat) /\ Len(<<>>) = 0
  BY <1>1, ConcatEmptySeq, EmptySeq
<1>8. f[Len(<<>>)] = packets
  <2>1. Found(<<>>, packets)
    <3> HIDE DEF Found
    <3> QED BY <1>6, <1>7
  <2> HIDE DEF buffer
  <2> QED BY <1>7, <2>1
<1> QED BY <1>2, <1>7, <1>8

\* While every buffer ended with a message, the handler has been called once
\* for each of the first messages, and these are what was read.
Whole ==
    uncut /\ IsMySQL(stream[1]) =>
        \E k \in 0..Len(stream) : /\ pieces = Parts(SubSeq(stream, 1, k))
                                  /\ taken = Len(AllBytes(SubSeq(stream, 1, k)))

\* The first messages of a stream are messages; fewer have no more bytes.
LEMMA FirstMessages ==
    ASSUME NEW s \in Seq(Messages), NEW i \in 0..Len(s)
    PROVE  /\ SubSeq(s, 1, i) \in Seq(Messages) /\ Len(SubSeq(s, 1, i)) = i
           /\ \A n \in 1..i : SubSeq(s, 1, i)[n] = s[n]
           /\ AllBytes(SubSeq(s, 1, i)) \in Seq(Nat)
           /\ Len(AllBytes(SubSeq(s, 1, i))) \in Nat
<1>1. Len(s) \in Nat
  BY LenProperties
<1>2. 0 \in 0..Len(s) /\ i \in 0..Len(s) /\ 0 + 1 = 1 /\ i - 0 = i
  BY <1>1
<1>3. /\ SubSeq(s, 0 + 1, i) \in Seq(Messages) /\ Len(SubSeq(s, 0 + 1, i)) = i - 0
      /\ \A n \in 1..(i - 0) : SubSeq(s, 0 + 1, i)[n] = s[0 + n]
  BY <1>2, PartsSplit
<1>4. \A n \in 1..i : 0 + n = n
  OBVIOUS
<1>5. /\ SubSeq(s, 1, i) \in Seq(Messages) /\ Len(SubSeq(s, 1, i)) = i
      /\ \A n \in 1..i : SubSeq(s, 1, i)[n] = s[n]
  BY <1>2, <1>3, <1>4
<1> QED BY <1>5, PartsTyped, LenProperties

LEMMA FewerBytes ==
    ASSUME NEW s \in Seq(Messages), NEW i \in 0..Len(s), NEW j \in i..Len(s)
    PROVE  Len(AllBytes(SubSeq(s, 1, i))) <= Len(AllBytes(SubSeq(s, 1, j)))
<1>1. /\ SubSeq(s, i + 1, j) \in Seq(Messages)
      /\ AllBytes(SubSeq(s, 1, j)) = AllBytes(SubSeq(s, 1, i)) \o AllBytes(SubSeq(s, i + 1, j))
  BY PartsSplit
<1>2. AllBytes(SubSeq(s, i + 1, j)) \in Seq(Nat) /\ AllBytes(SubSeq(s, 1, i)) \in Seq(Nat)
  BY <1>1, PartsTyped, FirstMessages
<1>3. PICK p \in Nat, q \in Nat : /\ p = Len(AllBytes(SubSeq(s, 1, i)))
                                  /\ q = Len(AllBytes(SubSeq(s, i + 1, j)))
  BY <1>2, LenProperties
<1>4. Len(AllBytes(SubSeq(s, 1, i)) \o AllBytes(SubSeq(s, i + 1, j)))
      = Len(AllBytes(SubSeq(s, 1, i))) + Len(AllBytes(SubSeq(s, i + 1, j)))
  BY <1>2, ConcatProperties
<1>5. Len(AllBytes(SubSeq(s, 1, j))) = p + q
  BY <1>1, <1>3, <1>4, Zenon
<1> QED BY <1>3, <1>5

\* The bytes of the messages behind the i-th up to the j-th.
LEMMA MessagesBetween ==
    ASSUME NEW s \in Seq(Messages), NEW i \in 0..Len(s), NEW j \in i..Len(s)
    PROVE  SubSeq(AllBytes(s), Len(AllBytes(SubSeq(s, 1, i))) + 1, Len(AllBytes(SubSeq(s, 1, j))))
           = AllBytes(SubSeq(s, i + 1, j))
<1> DEFINE a == AllBytes(SubSeq(s, 1, i))
           b == AllBytes(SubSeq(s, i + 1, j))
           c == AllBytes(SubSeq(s, j + 1, Len(s)))
<1>1. Len(s) \in Nat
  BY LenProperties
<1>2. j \in 0..Len(s) /\ Len(s) \in j..Len(s)
  BY <1>1
<1>3. AllBytes(SubSeq(s, 1, j)) = a \o b /\ b \in Seq(Nat)
  BY PartsSplit, PartsTyped
<1>4. AllBytes(SubSeq(s, 1, Len(s))) = AllBytes(SubSeq(s, 1, j)) \o c /\ c \in Seq(Nat)
  BY <1>2, PartsSplit, PartsTyped
<1>5. a \in Seq(Nat)
  BY FirstMessages
<1>6. AllBytes(s) = (a \o b) \o c
  BY <1>3, <1>4, SubSeqFull
<1> HIDE DEF a, b, c
<1>7. /\ SubSeq((a \o b) \o c, Len(a) + 1, Len(a) + Len(b)) = b
      /\ Len(a \o b) = Len(a) + Len(b)
  BY <1>3, <1>4, <1>5, MiddleIs
<1>8. SubSeq(AllBytes(s), Len(a) + 1, Len(AllBytes(SubSeq(s, 1, j)))) = b
  BY <1>3, <1>6, <1>7, Zenon
<1> QED BY <1>8 DEF a, b

LEMMA WholeInductive == Held /\ Whole /\ [Next]_vars => Whole'
<1> SUFFICES ASSUME Held, Whole, [Next]_vars PROVE Whole'
  OBVIOUS
<1>1. CASE HandleBuffer
  <2>1. PICK to \in (taken + 1)..Len(AllBytes(stream)) : ReadsTo(to)
    BY <1>1, BufferRead
  <2>2. stream' = stream /\ taken' = to /\ pieces' = pieces \o Calls(Read(to))
        /\ uncut' = (uncut /\ to \in Borders(stream))
    BY <2>1 DEF ReadsTo
  <2> SUFFICES ASSUME uncut', IsMySQL(stream[1])
               PROVE  \E k \in 0..Len(stream) :
                          /\ pieces' = Parts(SubSeq(stream, 1, k))
                          /\ taken' = Len(AllBytes(SubSeq(stream, 1, k)))
    <3>1. /\ IsMySQL(stream[1])' = IsMySQL(stream[1])
          /\ \A k : /\ Parts(SubSeq(stream, 1, k))' = Parts(SubSeq(stream, 1, k))
                    /\ AllBytes(SubSeq(stream, 1, k))' = AllBytes(SubSeq(stream, 1, k))
      BY <2>2 DEF IsMySQL, Parts, AllBytes
    <3> QED BY <2>2, <3>1 DEF Whole
  <2>3. stream \in Seq(Messages) /\ Len(stream) \in Nat /\ stream \in Streams
    BY StreamTyped, LenProperties DEF Held
  <2>4. PICK k \in 0..Len(stream) : /\ pieces = Parts(SubSeq(stream, 1, k))
                                    /\ taken = Len(AllBytes(SubSeq(stream, 1, k)))
    BY <2>2 DEF Whole
  <2>5. PICK j \in 1..Len(stream) : to = Len(AllBytes(SubSeq(stream, 1, j)))
    BY <2>2, <2>3, BorderInside
  <2>6. taken \in Nat /\ to \in Nat /\ to > taken
    <3>1. Len(AllBytes(stream)) \in Nat
      BY StreamTyped, LenProperties DEF Held
    <3> QED BY <2>1, <3>1 DEF Held
  <2>7. j \in k..Len(stream)
    <3>1. SUFFICES ASSUME j < k PROVE FALSE
      BY <2>3, <2>4, <2>5
    <3>2. j \in 0..Len(stream) /\ k \in j..Len(stream)
      BY <2>3, <2>4, <2>5, <3>1
    <3>3. Len(AllBytes(SubSeq(stream, 1, j))) <= Len(AllBytes(SubSeq(stream, 1, k)))
      BY <2>3, <3>2, FewerBytes
    <3> QED BY <2>4, <2>5, <2>6, <3>3
  <2> DEFINE mid == SubSeq(stream, k + 1, j)
  <2>8. /\ mid \in Seq(Messages) /\ Len(mid) = j - k /\ j - k \in Nat
        /\ \A n \in 1..(j - k) : mid[n] = stream[k + n]
        /\ Parts(SubSeq(stream, 1, j)) = Parts(SubSeq(stream, 1, k)) \o Parts(mid)
    <3>1. j - k \in Nat
      BY <2>3, <2>4, <2>7
    <3>2. stream \in Seq(Messages)
      BY <2>3
    <3> QED BY <2>7, <3>1, <3>2, PartsSplit
  <2>9. Read(to) = AllBytes(mid)
    <3>1. SubSeq(AllBytes(stream), Len(AllBytes(SubSeq(stream, 1, k))) + 1,
                 Len(AllBytes(SubSeq(stream, 1, j)))) = AllBytes(mid)
      BY <2>3, <2>4, <2>7, MessagesBetween
    <3> QED BY <2>4, <2>5, <3>1, Zenon DEF Read
  <2> HIDE DEF mid
  <2>10. Calls(Read(to)) = Parts(mid)
    <3>1. Parts(mid) \in Seq(Seq(Nat)) /\ Len(Parts(mid)) = j - k
          /\ AllBytes(mid) = FlattenSeq(Parts(mid))
      BY <2>8, PartsTyped
    <3>2. ASSUME NEW n \in 1..(j - k) PROVE IsPacket(Parts(mid)[n])
      <4>1. Parts(mid)[n] = Bytes(mid[n]) /\ mid[n] = stream[k + n]
        BY <2>8, PartsTyped
      <4>2. k + n \in DOMAIN stream /\ stream[k + n] \in Messages
        <5>1. k + n \in 1..Len(stream)
          BY <2>3, <2>4, <2>5
        <5> QED BY <2>3, <5>1, LenProperties, ElementOfSeq
      <4>3. Fits(stream[k + n]) /\ IsMySQL(stream[k + n])
        BY <2>3, <4>2, StreamsAssumption
      <4> QED BY <4>1, <4>2, <4>3, CommandIsPacket
    <3>3. extract_packets(FlattenSeq(Parts(mid))) = Parts(mid)
      BY <3>1, <3>2, ExtractFindsPackets
    <3> QED BY <2>9, <3>1, <3>3 DEF Calls
  <2>11. pieces' = Parts(SubSeq(stream, 1, j))
    BY <2>2, <2>4, <2>8, <2>10
  <2>12. j \in 0..Len(stream)
    BY <2>3, <2>5
  <2> QED BY <2>2, <2>5, <2>11, <2>12
<1>2. CASE UNCHANGED vars
  <2>1. stream' = stream /\ taken' = taken /\ pieces' = pieces /\ uncut' = uncut
    BY <1>2 DEF vars
  <2>2. Whole' = Whole
    BY <2>1 DEF Whole, Parts, AllBytes, IsMySQL
  <2> QED BY <2>2
<1> QED BY <1>1, <1>2 DEF Next

\* A buffer that ends with a packet comes apart into the packets it has: while
\* that has been so, the handler was called with each of the client's packets,
\* in their order.
THEOREM PacketsComeApart == Spec => []PiecesArePackets
<1>1. Init => Whole
  <2> SUFFICES ASSUME Init PROVE Whole
    OBVIOUS
  <2>1. stream \in Seq(Messages) /\ Len(stream) \in Nat
    BY StreamTyped, LenProperties DEF Init
  <2>2. SubSeq(stream, 1, 0) = <<>>
    BY SubSeqEmpty
  <2>3. Parts(<<>>) = <<>> /\ AllBytes(<<>>) = <<>>
    <3>1. Parts(<<>>) = <<>>
      BY DEF Parts
    <3>2. AllBytes(<<>>) = FlattenSeq(<<>>)
      BY <3>1 DEF Parts, AllBytes
    <3> QED BY <3>1, <3>2 DEF FlattenSeq
  <2>4. Len(<<>>) = 0 /\ 0 \in 0..Len(stream)
    BY <2>1
  <2> QED BY <2>2, <2>3, <2>4 DEF Init, Whole
<1>2. Held /\ Whole => PiecesArePackets
  <2> SUFFICES ASSUME Held, Whole, uncut, IsMySQL(stream[1]), NEW i \in DOMAIN pieces
               PROVE  i <= Len(stream) /\ pieces[i] = Bytes(stream[i])
    BY DEF PiecesArePackets, OneByOne
  <2>1. PICK k \in 0..Len(stream) : pieces = Parts(SubSeq(stream, 1, k))
    BY DEF Whole
  <2>2. stream \in Seq(Messages) /\ Len(stream) \in Nat
    BY StreamTyped, LenProperties DEF Held
  <2>3. /\ SubSeq(stream, 1, k) \in Seq(Messages) /\ Len(SubSeq(stream, 1, k)) = k
        /\ \A n \in 1..k : SubSeq(stream, 1, k)[n] = stream[n]
    BY <2>1, <2>2, FirstMessages
  <2>4. /\ pieces \in Seq(Seq(Nat)) /\ Len(pieces) = k
        /\ \A n \in 1..k : pieces[n] = Bytes(SubSeq(stream, 1, k)[n])
    BY <2>1, <2>3, PartsTyped
  <2>5. i \in 1..k
    BY <2>4, LenProperties
  <2> QED BY <2>1, <2>2, <2>3, <2>4, <2>5
<1> QED BY <1>1, <1>2, HeldAlways, WholeInductive, PTL DEF Spec

-----------------------------------------------------------------------------
(* Finding the text.                                                       *)

\* The byte at a position within a middle part.
LEMMA AtMiddle ==
    ASSUME NEW x \in Seq(Nat), NEW b \in Seq(Nat), NEW y \in Seq(Nat), NEW q \in 0..(Len(b) - 1)
    PROVE  At((x \o b) \o y, Len(x) + q) = b[q + 1]
<1> DEFINE buffer == (x \o b) \o y
<1>1. PICK i \in Nat, j \in Nat, k \in Nat : i = Len(x) /\ j = Len(b) /\ k = Len(y)
  BY LenProperties
<1>2. /\ Len(buffer) = (Len(x) + Len(b)) + Len(y)
      /\ \A p \in 1..Len(b) : buffer[Len(x) + p] = b[p]
  BY MiddleIs
<1> HIDE DEF buffer
<1>3. i + q < Len(buffer) /\ (i + q) + 1 = i + (q + 1) /\ q + 1 \in 1..j
  BY <1>1, <1>2
<1>4. At(buffer, i + q) = buffer[(i + q) + 1]
  BY <1>3 DEF At
<1>5. buffer[i + (q + 1)] = b[q + 1]
  BY <1>1, <1>2, <1>3
<1> QED BY <1>1, <1>3, <1>4, <1>5 DEF buffer

\* std::string::find finds the first NUL byte.
LEMMA FindNulIs ==
    ASSUME NEW buffer \in Seq(Nat), NEW pos \in Nat, NEW e \in Nat, pos <= e, e < Len(buffer),
           At(buffer, e) = 0, \A p \in pos..(e - 1) : At(buffer, p) # 0
    PROVE  FindNul(buffer, pos) = e
<1>1. PICK n \in Nat : n = Len(buffer)
  BY LenProperties
<1> DEFINE nul == {p \in pos..(Len(buffer) - 1) : At(buffer, p) = 0}
           First(p) == \A q \in nul : p <= q
<1>2. e \in nul
  BY <1>1
<1>3. \A q \in nul : q \in Nat /\ e <= q
  BY <1>1
<1>4. FindNul(buffer, pos) = CHOOSE p \in nul : First(p)
  BY <1>2 DEF FindNul
<1> HIDE DEF nul
<1>5. First(e)
  BY <1>3
<1>6. \A p \in nul : First(p) => p = e
  BY <1>2, <1>3
<1> HIDE DEF First
<1> QED BY <1>2, <1>4, <1>5, <1>6

LEMMA FindNulNone ==
    ASSUME NEW buffer \in Seq(Nat), NEW pos \in Nat,
           \A p \in pos..(Len(buffer) - 1) : At(buffer, p) # 0
    PROVE  FindNul(buffer, pos) = Len(buffer)
<1>1. {p \in pos..(Len(buffer) - 1) : At(buffer, p) = 0} = {}
  OBVIOUS
<1> QED BY <1>1 DEF FindNul

NoNul(text) == \A i \in 1..Len(text) : text[i] # 0

\* readCString() of a text without NUL bytes at the end of a buffer.
LEMMA ReadLastText ==
    ASSUME NEW x \in Seq(Nat), NEW text \in Seq(Nat), NoNul(text)
    PROVE  readCString(x \o text, Len(x)) = text
<1> DEFINE buffer == x \o text
<1>1. PICK i \in Nat, n \in Nat : i = Len(x) /\ n = Len(text)
  BY LenProperties
<1>2. <<>> \in Seq(Nat) /\ Len(<<>>) = 0
  BY EmptySeq
<1>3. /\ buffer \in Seq(Nat) /\ Len(buffer) = Len(x) + Len(text)
      /\ buffer \o <<>> = buffer
  BY ConcatProperties, ConcatEmptySeq
<1>4. /\ \A q \in 0..(Len(text) - 1) : At(buffer \o <<>>, Len(x) + q) = text[q + 1]
      /\ SubSeq(buffer \o <<>>, Len(x) + 1, Len(x) + Len(text)) = text
  BY <1>2, AtMiddle, MiddleIs
<1> HIDE DEF buffer
<1>5. ASSUME NEW p \in i..(Len(buffer) - 1) PROVE At(buffer, p) # 0
  <2>1. PICK q \in 0..(n - 1) : p = i + q
    <3>1. Len(buffer) = i + n
      BY <1>1, <1>3
    <3>2. p - i \in 0..(n - 1) /\ p = i + (p - i)
      BY <3>1
    <3> QED BY <3>2
  <2>2. At(buffer, i + q) = text[q + 1]
    <3>1. q \in 0..(Len(text) - 1)
      BY <1>1
    <3>2. At(buffer \o <<>>, Len(x) + q) = text[q + 1]
      BY <1>4, <3>1
    <3> QED BY <1>1, <1>3, <3>2, Zenon
  <2>3. q + 1 \in 1..Len(text)
    BY <1>1
  <2> QED BY <2>1, <2>2, <2>3 DEF NoNul
<1>6. FindNul(buffer, i) = i + n
  BY <1>1, <1>3, <1>5, FindNulNone
<1>7. readCString(buffer, i) = SubSeq(buffer, i + 1, i + n)
  <2>1. i + ((i + n) - i) = i + n /\ ~ (i + n < i + n) /\ Len(buffer) = i + n
    BY <1>1, <1>3
  <2> QED BY <1>6, <2>1 DEF readCString, Substr
<1> QED BY <1>1, <1>3, <1>4, <1>7 DEF buffer

\* Bytes that are all 0 are read as 0.
LEMMA ReadZero ==
    ASSUME NEW buffer \in Seq(Nat), NEW pos \in Nat, NEW size \in Nat,
           \A q \in 0..(size - 1) : At(buffer, pos + q) = 0
    PROVE  readLEInt(buffer, pos, size) = 0
<1>1. PICK f : LEValues(f, buffer, pos, size) /\ readLEInt(buffer, pos, size) = f[size]
  BY ReadLEIs
<1> DEFINE T == {n \in Nat : n <= size => f[n] = 0}
<1>2. 0 \in T
  BY <1>1 DEF LEValues
<1>3. ASSUME NEW n \in Nat, n \in T PROVE n + 1 \in T
  <2>1. SUFFICES ASSUME n + 1 <= size PROVE f[n + 1] = 0
    OBVIOUS
  <2>2. f[n + 1] = f[(n + 1) - 1] * 256 + At(buffer, pos + size - (n + 1))
    BY <1>1, <2>1 DEF LEValues
  <2>3. PICK q \in 0..(size - 1) : q = size - (n + 1)
    BY <2>1
  <2>4. pos + size - (n + 1) = pos + q /\ (n + 1) - 1 = n
    BY <2>3
  <2>5. At(buffer, pos + size - (n + 1)) = 0 /\ f[n] = 0
    <3>1. At(buffer, pos + q) = 0
      OBVIOUS
    <3>2. n <= size
      BY <2>1
    <3>3. f[n] = 0
      BY <1>3, <3>2
    <3> QED BY <2>4, <3>1, <3>3
  <2> QED BY <2>2, <2>4, <2>5
<1>4. size \in T
  <2> HIDE DEF T
  <2> QED BY <1>2, <1>3, AllNumbers
<1> QED BY <1>1, <1>4

\* The first byte of a length encoded integer tells its size; the others are
\* the number's.
Lead(n, size) == CASE size = 1 -> n [] size = 2 -> 252 [] size = 3 -> 253 [] size = 8 -> 254

LEMMA LenEncIntBytes ==
    ASSUME NEW n \in Nat, NEW size \in {1, 2, 3, 8}
    PROVE  /\ LenEncInt(n, size)[1] = Lead(n, size)
           /\ size # 1 => \A q \in 1..size : LenEncInt(n, size)[q + 1] = Digit(n, q)
<1>1. CASE size = 1
  BY <1>1 DEF LenEncInt, Lead
<1> DEFINE Starts(z, b, k) == z[1] = b /\ \A q \in 1..k : z[q + 1] = Digit(n, q)
<1>2. ASSUME NEW k \in Nat, NEW b \in Nat PROVE Starts(<<b>> \o LEBytes(n, k), b, k)
  <2> DEFINE e == LEBytes(n, k)
             z == <<b>> \o e
  <2>1. e \in Seq(Nat) /\ Len(e) = k /\ \A q \in 1..k : e[q] = Digit(n, q)
    BY LEBytesTyped
  <2>2. <<b>> \in Seq(Nat) /\ Len(<<b>>) = 1 /\ <<b>>[1] = b
    OBVIOUS
  <2> HIDE DEF e
  <2>3. \A i \in 1..(Len(<<b>>) + Len(e)) : z[i] = IF i <= Len(<<b>>) THEN <<b>>[i]
                                                   ELSE e[i - Len(<<b>>)]
    BY <2>1, <2>2, ConcatProperties
  <2>4. \A i \in 1..(1 + k) : z[i] = IF i <= 1 THEN <<b>>[i] ELSE e[i - 1]
    <3> HIDE DEF z
    <3> QED BY <2>1, <2>2, <2>3, Zenon
  <2> HIDE DEF z
  <2>5. z[1] = b
    BY <2>2, <2>4
  <2>6. ASSUME NEW q \in 1..k PROVE z[q + 1] = Digit(n, q)
    <3>1. q + 1 \in 1..(1 + k) /\ ~ (q + 1 <= 1) /\ (q + 1) - 1 = q
      OBVIOUS
    <3>2. z[q + 1] = e[(q + 1) - 1]
      BY <2>4, <3>1
    <3> QED BY <2>1, <3>1, <3>2
  <2> QED BY <2>5, <2>6 DEF z, e
<1>3. CASE size = 2
  <2>1. LenEncInt(n, size) = <<252>> \o LEBytes(n, 2) /\ Lead(n, size) = 252
    BY <1>3 DEF LenEncInt, Lead
  <2>2. Starts(LenEncInt(n, size), 252, 2)
    <3> HIDE DEF Starts
    <3>1. PICK b \in Nat, k \in Nat : b = 252 /\ k = 2
      OBVIOUS
    <3>2. Starts(<<b>> \o LEBytes(n, k), b, k)
      BY <1>2
    <3> QED BY <2>1, <3>1, <3>2
  <2> QED BY <1>3, <2>1, <2>2
<1>4. CASE size = 3
  <2>1. LenEncInt(n, size) = <<253>> \o LEBytes(n, 3) /\ Lead(n, size) = 253
    BY <1>4 DEF LenEncInt, Lead
  <2>2. Starts(LenEncInt(n, size), 253, 3)
    <3> HIDE DEF Starts
    <3>1. PICK b \in Nat, k \in Nat : b = 253 /\ k = 3
      OBVIOUS
    <3>2. Starts(<<b>> \o LEBytes(n, k), b, k)
      BY <1>2
    <3> QED BY <2>1, <3>1, <3>2
  <2> QED BY <1>4, <2>1, <2>2
<1>5. CASE size = 8
  <2>1. LenEncInt(n, size) = <<254>> \o LEBytes(n, 8) /\ Lead(n, size) = 254
    BY <1>5 DEF LenEncInt, Lead
  <2>2. Starts(LenEncInt(n, size), 254, 8)
    <3> HIDE DEF Starts
    <3>1. PICK b \in Nat, k \in Nat : b = 254 /\ k = 8
      OBVIOUS
    <3>2. Starts(<<b>> \o LEBytes(n, k), b, k)
      BY <1>2
    <3> QED BY <2>1, <3>1, <3>2
  <2> QED BY <1>5, <2>1, <2>2
<1> QED BY <1>1, <1>3, <1>4, <1>5

\* A buffer with a length encoded integer.
HasEncodedInt(buffer, x, n, size, y) == buffer = (x \o LenEncInt(n, size)) \o y

\* What the code does with a length encoded integer that it meets: it steps
\* behind it, and reads 0 where 0 was written.
LEMMA EncodedIntMet ==
    ASSUME NEW x \in Seq(Nat), NEW n \in {0, 1}, NEW size \in {1, 2, 3, 8}, NEW y \in Seq(Nat),
           NEW buffer, HasEncodedInt(buffer, x, n, size, y)
    PROVE  /\ Skip(buffer, Len(x)) = Len(x) + EncLength(size)
           /\ n = 0 => readMySQLLengthEncodedInt(buffer, Len(x)) = 0
<1> DEFINE e == LenEncInt(n, size)
<1>1. PICK i \in Nat : i = Len(x)
  BY LenProperties
<1>2. e \in Seq(Nat) /\ Len(e) = EncLength(size)
  <2>1. n \in Nat
    OBVIOUS
  <2> QED BY <2>1, LenEncIntTyped, Zenon
<1>3. e[1] = Lead(n, size) /\ (size # 1 => \A q \in 1..size : e[q + 1] = Digit(n, q))
  <2>1. n \in Nat
    OBVIOUS
  <2> QED BY <2>1, LenEncIntBytes, Zenon
<1>4. buffer \in Seq(Nat) /\ \A q \in 0..(Len(e) - 1) : At(buffer, Len(x) + q) = e[q + 1]
  <2> HIDE DEF e
  <2>1. (x \o e) \o y \in Seq(Nat)
    BY <1>2, MiddleIs
  <2>2. \A q \in 0..(Len(e) - 1) : At((x \o e) \o y, Len(x) + q) = e[q + 1]
    BY <1>2, AtMiddle
  <2>3. buffer = (x \o e) \o y
    BY DEF e, HasEncodedInt
  <2> QED BY <2>1, <2>2, <2>3, Zenon
<1> HIDE DEF e
<1>5. At(buffer, i) = Lead(n, size)
  <2>1. 0 \in 0..(Len(e) - 1)
    BY <1>2 DEF EncLength
  <2>2. At(buffer, Len(x) + 0) = e[0 + 1]
    BY <1>4, <2>1
  <2> QED BY <1>1, <1>3, <2>2
<1>6. readMySQLEncodedLength(buffer, i) = size
  BY <1>5 DEF readMySQLEncodedLength, Lead
<1>7. Skip(buffer, i) = i + EncLength(size)
  BY <1>6 DEF Skip, EncLength
<1>8. ASSUME n = 0 PROVE readMySQLLengthEncodedInt(buffer, i) = 0
  <2>1. CASE size = 1
    BY <1>5, <1>6, <1>8, <2>1 DEF readMySQLLengthEncodedInt, Lead
  <2>2. CASE size # 1
    <3>1. readMySQLLengthEncodedInt(buffer, i) = readLEInt(buffer, i + 1, size)
      BY <1>6, <2>2 DEF readMySQLLengthEncodedInt
    <3>2. ASSUME NEW q \in 0..(size - 1) PROVE At(buffer, (i + 1) + q) = 0
      <4>1. (i + 1) + q = i + (q + 1) /\ q + 1 \in 0..(Len(e) - 1) /\ q + 1 \in 1..size
        BY <1>2, <2>2 DEF EncLength
      <4>2. At(buffer, Len(x) + (q + 1)) = e[(q + 1) + 1]
        BY <1>4, <4>1
      <4>3. e[(q + 1) + 1] = Digit(0, q + 1)
        BY <1>3, <1>8, <2>2, <4>1
      <4>4. Digit(0, q + 1) = 0
        <5>1. /\ 0 % 256 = 0 /\ (0 \div 256) % 256 = 0 /\ (0 \div (256 * 256)) % 256 = 0
              /\ (0 \div (256 * 256 * 256)) % 256 = 0
          OBVIOUS
        <5> QED BY <5>1 DEF Digit
      <4> QED BY <1>1, <4>1, <4>2, <4>3, <4>4
    <3>3. size \in Nat /\ i + 1 \in Nat
      OBVIOUS
    <3>4. readLEInt(buffer, i + 1, size) = 0
      BY <1>4, <3>2, <3>3, ReadZero
    <3> QED BY <3>1, <3>4
  <2> QED BY <2>1, <2>2
<1> QED BY <1>1, <1>7, <1>8

-----------------------------------------------------------------------------
(* What CMySQLHandler logs.                                                *)

\* The command is the byte behind the header.
LEMMA CommandByte ==
    ASSUME NEW h \in Seq(Nat), Len(h) = 4, NEW c \in Nat, NEW w \in Seq(Nat)
    PROVE  /\ h \o <<c>> \in Seq(Nat) /\ Len(h \o <<c>>) = 5
           /\ h \o (<<c>> \o w) = (h \o <<c>>) \o w
           /\ At((h \o <<c>>) \o w, 4) = c
<1>1. <<c>> \in Seq(Nat) /\ Len(<<c>>) = 1 /\ <<c>>[1] = c
  OBVIOUS
<1>2. PICK b \in Seq(Nat) : b = <<c>>
  BY <1>1
<1>3. h \o b \in Seq(Nat) /\ Len(h \o b) = 4 + 1 /\ h \o (b \o w) = (h \o b) \o w
  <2>1. Len(b) = 1
    BY <1>1, <1>2, Zenon
  <2>2. h \o b \in Seq(Nat) /\ Len(h \o b) = Len(h) + Len(b)
    BY ConcatProperties
  <2>3. (h \o b) \o w = h \o (b \o w)
    BY ConcatByteSeqs
  <2> QED BY <2>1, <2>2, <2>3, Zenon
<1>4. At((h \o b) \o w, 4) = c
  <2>1. 0 \in 0..(Len(b) - 1)
    <3>1. Len(b) = 1
      BY <1>1, <1>2, Zenon
    <3> QED BY <3>1
  <2>2. At((h \o b) \o w, Len(h) + 0) = b[0 + 1]
    BY <2>1, AtMiddle
  <2>3. b[1] = c
    BY <1>1, <1>2, Zenon
  <2> QED BY <2>2, <2>3
<1> QED BY <1>2, <1>3, <1>4

\* The text of a command behind its first byte.
LEMMA PlainText ==
    ASSUME NEW h \in Seq(Nat), Len(h) = 4, NEW c \in Nat, NEW text \in Seq(Nat),
           NoNul(text)
    PROVE  /\ At(h \o (<<c>> \o text), 4) = c
           /\ readCString(h \o (<<c>> \o text), 4 + 1) = text
<1>1. PICK g \in Seq(Nat) : g = h \o <<c>> /\ Len(g) = 5
  BY CommandByte
<1>2. h \o (<<c>> \o text) = g \o text /\ At(g \o text, 4) = c
  BY <1>1, CommandByte
<1>3. readCString(g \o text, Len(g)) = text
  BY ReadLastText
<1>4. readCString(g \o text, 4 + 1) = text
  BY <1>1, <1>3
<1> QED BY <1>2, <1>4, Zenon

\* A command in its parts, grouped in the ways it is read.
Regrouped(h, cs, p, q, text) ==
    /\ h \o (((cs \o p) \o q) \o text) = (((h \o cs) \o p) \o q) \o text
    /\ h \o ((((cs \o p) \o q) \o <<>>) \o text) = (((h \o cs) \o p) \o q) \o text
    /\ (((h \o cs) \o p) \o q) \o text = ((h \o cs) \o p) \o (q \o text)
    /\ ((h \o cs) \o p) \o (q \o text) = (h \o cs) \o (p \o (q \o text))

LEMMA RegroupParts ==
    ASSUME NEW h \in Seq(Nat), NEW cs \in Seq(Nat), NEW p \in Seq(Nat), NEW q \in Seq(Nat),
           NEW text \in Seq(Nat)
    PROVE  Regrouped(h, cs, p, q, text)
<1> DEFINE Cat(x, y) == x \o y
<1>1. \A x, y \in Seq(Nat) : Cat(x, y) \in Seq(Nat)
  BY ConcatProperties
<1>2. \A x, y, z \in Seq(Nat) : Cat(Cat(x, y), z) = Cat(x, Cat(y, z))
  BY ConcatByteSeqs
<1>3. \A x \in Seq(Nat) : Cat(x, <<>>) = x
  BY ConcatEmptySeq
<1> HIDE DEF Cat
<1>4. /\ Cat(cs, p) \in Seq(Nat) /\ Cat(Cat(cs, p), q) \in Seq(Nat) /\ Cat(q, text) \in Seq(Nat)
      /\ Cat(h, cs) \in Seq(Nat) /\ Cat(Cat(h, cs), p) \in Seq(Nat)
      /\ Cat(p, Cat(q, text)) \in Seq(Nat)
  BY <1>1
<1>5. Cat(Cat(Cat(cs, p), q), <<>>) = Cat(Cat(cs, p), q)
  BY <1>3, <1>4
<1>6. Cat(Cat(Cat(cs, p), q), text) = Cat(Cat(cs, p), Cat(q, text))
  BY <1>2, <1>4
<1>7. Cat(Cat(cs, p), Cat(q, text)) = Cat(cs, Cat(p, Cat(q, text)))
  BY <1>2, <1>4
<1>8. Cat(Cat(h, cs), Cat(p, Cat(q, text))) = Cat(h, Cat(cs, Cat(p, Cat(q, text))))
  BY <1>2, <1>4
<1>9. Cat(Cat(Cat(h, cs), p), Cat(q, text)) = Cat(Cat(h, cs), Cat(p, Cat(q, text)))
  BY <1>2, <1>4
<1>10. Cat(Cat(Cat(Cat(h, cs), p), q), text) = Cat(Cat(Cat(h, cs), p), Cat(q, text))
  BY <1>2, <1>4
<1>11. Cat(h, Cat(Cat(Cat(Cat(cs, p), q), <<>>), text)) = Cat(Cat(Cat(Cat(h, cs), p), q), text)
  BY <1>5, <1>6, <1>7, <1>8, <1>9, <1>10
<1>12. Cat(h, Cat(Cat(Cat(cs, p), q), text)) = Cat(Cat(Cat(Cat(h, cs), p), q), text)
  BY <1>6, <1>7, <1>8, <1>9, <1>10
<1> QED BY <1>9, <1>10, <1>11, <1>12, Zenon DEF Cat, Regrouped

\* A query without query attributes.
HasNoAttributes(buffer, h, c, size, setSize, text) ==
    buffer = h \o ((((<<c>> \o LenEncInt(0, size)) \o LenEncInt(1, setSize)) \o <<>>) \o text)

FindsText(buffer, c, text) ==
    At(buffer, 4) = c /\ extract_query_from_query_command(TRUE, buffer, 4) = text

\* The text of a query behind the counts of no query attributes.
LEMMA AttributesText ==
    ASSUME NEW h \in Seq(Nat), Len(h) = 4, NEW c \in Nat, NEW text \in Seq(Nat),
           NoNul(text), NEW size \in {1, 2, 3, 8}, NEW setSize \in {1, 2, 3, 8},
           NEW buffer, HasNoAttributes(buffer, h, c, size, setSize, text)
    PROVE  FindsText(buffer, c, text)
<1>0. 0 \in Nat /\ 1 \in Nat /\ 0 \in {0, 1} /\ 1 \in {0, 1}
  OBVIOUS
<1>1. PICK cs \in Seq(Nat) : cs = <<c>>
  <2>1. <<c>> \in Seq(Nat)
    OBVIOUS
  <2> QED BY <2>1
<1>2. PICK g \in Seq(Nat) : g = h \o cs /\ Len(g) = 5
  BY <1>1, CommandByte
<1>3. /\ LenEncInt(0, size) \in Seq(Nat) /\ Len(LenEncInt(0, size)) = EncLength(size)
      /\ LenEncInt(1, setSize) \in Seq(Nat) /\ Len(LenEncInt(1, setSize)) = EncLength(setSize)
      /\ EncLength(size) \in Nat /\ EncLength(setSize) \in Nat
  <2>1. EncLength(size) \in Nat /\ EncLength(setSize) \in Nat
    BY DEF EncLength
  <2> QED BY <1>0, <2>1, LenEncIntTyped
<1>4. PICK p \in Seq(Nat), q \in Seq(Nat) : p = LenEncInt(0, size) /\ q = LenEncInt(1, setSize)
  BY <1>3, Zenon
<1>a. PICK qt \in Seq(Nat), gp \in Seq(Nat) : qt = q \o text /\ gp = g \o p
  BY ConcatProperties
<1>b. PICK gpq \in Seq(Nat), pqt \in Seq(Nat) : gpq = gp \o q /\ pqt = p \o qt
  BY ConcatProperties
<1>5. buffer = g \o pqt /\ buffer = gp \o qt /\ buffer = gpq \o text
  <2>1. buffer = h \o ((((cs \o p) \o q) \o <<>>) \o text)
    BY <1>1, <1>4, Zenon DEF HasNoAttributes
  <2>2. Regrouped(h, cs, p, q, text)
    BY RegroupParts
  <2> QED BY <1>2, <1>a, <1>b, <2>1, <2>2, Zenon DEF Regrouped
<1>6. At(buffer, 4) = c
  <2>1. At((h \o <<c>>) \o pqt, 4) = c
    <3>1. Len(h) = 4 => At((h \o <<c>>) \o pqt, 4) = c
      BY CommandByte
    <3> QED BY <3>1
  <2> QED BY <1>1, <1>2, <1>5, <2>1, Zenon
<1>7. /\ Skip(buffer, 5) = 5 + EncLength(size)
      /\ readMySQLLengthEncodedInt(buffer, 5) = 0
  <2>1. HasEncodedInt(buffer, g, 0, size, qt)
    BY <1>4, <1>5, <1>a, Zenon DEF HasEncodedInt
  <2>2. /\ Skip(buffer, Len(g)) = Len(g) + EncLength(size)
        /\ readMySQLLengthEncodedInt(buffer, Len(g)) = 0
    BY <1>0, <2>1, EncodedIntMet
  <2> QED BY <1>2, <2>2
<1>8. Len(gp) = 5 + EncLength(size)
  <2>1. Len(g \o p) = Len(g) + Len(p)
    BY ConcatProperties
  <2> QED BY <1>2, <1>3, <1>4, <1>a, <2>1, Zenon
<1>9. Skip(buffer, 5 + EncLength(size)) = (5 + EncLength(size)) + EncLength(setSize)
  <2>1. HasEncodedInt(buffer, gp, 1, setSize, text)
    BY <1>4, <1>5, <1>b, Zenon DEF HasEncodedInt
  <2>2. Skip(buffer, Len(gp)) = Len(gp) + EncLength(setSize)
    BY <1>0, <2>1, EncodedIntMet
  <2> QED BY <1>8, <2>2, Zenon
<1>10. Len(gpq) = (5 + EncLength(size)) + EncLength(setSize)
  <2>1. Len(gp \o q) = Len(gp) + Len(q)
    BY ConcatProperties
  <2> QED BY <1>3, <1>4, <1>8, <1>b, <2>1, Zenon
<1>11. readCString(buffer, (5 + EncLength(size)) + EncLength(setSize)) = text
  <2>1. readCString(gpq \o text, Len(gpq)) = text
    BY ReadLastText
  <2> QED BY <1>5, <1>10, <2>1, Zenon
<1>12. SkipParameters(buffer, (5 + EncLength(size)) + EncLength(setSize), 0)
       = (5 + EncLength(size)) + EncLength(setSize)
  BY DEF SkipParameters
<1>13. 4 + 1 = 5
  OBVIOUS
<1>14. extract_query_from_query_command(TRUE, buffer, 4)
       = readCString(buffer, (5 + EncLength(size)) + EncLength(setSize))
  BY <1>7, <1>9, <1>12, <1>13, Zenon DEF extract_query_from_query_command
<1> QED BY <1>6, <1>11, <1>14, Zenon DEF FindsText

\* Which of the two ways to find the text is taken.
LEMMA QueryCall ==
    ASSUME NEW attributes, NEW buffer, At(buffer, 4) = COM_QUERY
    PROVE  MySQLLogs(attributes, buffer) = <<extract_query_from_query_command(attributes, buffer, 4)>>
<1>1. COM_QUERY # COM_STMT_PREPARE
  BY DEF COM_QUERY, COM_STMT_PREPARE
<1> QED BY <1>1 DEF MySQLLogs

LEMMA PrepareCall ==
    ASSUME NEW attributes, NEW buffer, At(buffer, 4) # COM_QUERY, At(buffer, 4) = COM_STMT_PREPARE
    PROVE  MySQLLogs(attributes, buffer) = <<extract_query_from_prepare_command(buffer, 4)>>
BY DEF MySQLLogs

\* Of a regular command, CMySQLHandler logs the text it carries.
LEMMA CommandLogged ==
    ASSUME NEW m \in Messages, IsMySQL(m), Regular(m), NEW attributes \in BOOLEAN,
           m.type = "query" => attributes = m.attributes
    PROVE  MySQLLogs(attributes, Bytes(m)) = <<m.text>>
<1>1. PICK h \in Seq(Nat) : Len(h) = 4 /\ Bytes(m) = h \o Body(m)
  <2> DEFINE g == LEBytes(Len(Body(m)), 3)
  <2>1. Len(Body(m)) \in Nat
    BY BodyTyped, LenProperties
  <2>2. g \in Seq(Nat) /\ Len(g) = 3
    BY <2>1, LEBytesTyped
  <2>3. <<0>> \in Seq(Nat) /\ Len(<<0>>) = 1
    OBVIOUS
  <2>4. Bytes(m) = (g \o <<0>>) \o Body(m)
    BY BytesTyped
  <2> HIDE DEF g
  <2>5. g \o <<0>> \in Seq(Nat) /\ Len(g \o <<0>>) = 4
    <3>1. g \o <<0>> \in Seq(Nat) /\ Len(g \o <<0>>) = Len(g) + Len(<<0>>)
      BY <2>2, <2>3, ConcatProperties
    <3> QED BY <2>2, <2>3, <3>1
  <2> QED BY <2>4, <2>5
<1>2. m.text \in Seq(Nat) /\ NoNul(m.text)
  <2>1. m.text \in Seq(Nat) /\ m.type # "Query"
    BY MessageKinds DEF IsMySQL
  <2>2. DOMAIN m.text = 1..Len(m.text)
    BY <2>1, LenProperties
  <2> QED BY <2>1, <2>2 DEF Regular, NoNul
<1>3. CASE m.type = "prepare"
  <2>1. Bytes(m) = h \o (<<22>> \o m.text)
    BY <1>1, <1>3 DEF Body, COM_STMT_PREPARE
  <2>2. /\ At(h \o (<<22>> \o m.text), 4) = 22
        /\ readCString(h \o (<<22>> \o m.text), 4 + 1) = m.text
    BY <1>1, <1>2, PlainText
  <2>3. At(Bytes(m), 4) = 22 /\ readCString(Bytes(m), 4 + 1) = m.text
    BY <2>1, <2>2, Zenon
  <2>4. At(Bytes(m), 4) # COM_QUERY /\ At(Bytes(m), 4) = COM_STMT_PREPARE
    BY <2>3 DEF COM_QUERY, COM_STMT_PREPARE
  <2>5. MySQLLogs(attributes, Bytes(m)) = <<extract_query_from_prepare_command(Bytes(m), 4)>>
    BY <2>4, PrepareCall
  <2> QED BY <2>3, <2>5 DEF extract_query_from_prepare_command
<1>4. CASE m.type = "query" /\ ~ m.attributes
  <2>1. Bytes(m) = h \o (<<3>> \o m.text)
    BY <1>1, <1>4 DEF Body, COM_QUERY
  <2>2. /\ At(h \o (<<3>> \o m.text), 4) = 3
        /\ readCString(h \o (<<3>> \o m.text), 4 + 1) = m.text
    BY <1>1, <1>2, PlainText
  <2>3. At(Bytes(m), 4) = 3 /\ readCString(Bytes(m), 4 + 1) = m.text
    BY <2>1, <2>2, Zenon
  <2>4. attributes = FALSE
    BY <1>4, Zenon
  <2>5. extract_query_from_query_command(FALSE, Bytes(m), 4) = m.text
    BY <2>3, Zenon DEF extract_query_from_query_command
  <2>6. MySQLLogs(attributes, Bytes(m)) = <<extract_query_from_query_command(attributes, Bytes(m), 4)>>
    BY <2>3, QueryCall DEF COM_QUERY
  <2> QED BY <2>4, <2>5, <2>6, Zenon
<1>5. CASE m.type = "query" /\ m.attributes
  <2>1. m.size \in {1, 2, 3, 8} /\ m.setSize \in {1, 2, 3, 8} /\ m.params = <<>>
    BY <1>5, MessageKinds DEF Regular
  <2>2. Len(m.params) = 0 /\ Parameters(m.params) = <<>>
    BY <2>1 DEF Parameters
  <2>3. Body(m) = (((<<3>> \o LenEncInt(0, m.size)) \o LenEncInt(1, m.setSize)) \o <<>>) \o m.text
    <3>1. Body(m) = (((<<COM_QUERY>> \o LenEncInt(Len(m.params), m.size))
                      \o LenEncInt(1, m.setSize)) \o Parameters(m.params)) \o m.text
      BY <1>5 DEF Body
    <3>2. COM_QUERY = 3
      BY DEF COM_QUERY
    <3> QED BY <2>2, <3>1, <3>2, Zenon
  <2>4. Bytes(m) = h \o ((((<<3>> \o LenEncInt(0, m.size)) \o LenEncInt(1, m.setSize)) \o <<>>)
                         \o m.text)
    BY <1>1, <2>3, Zenon
  <2>5. /\ At(Bytes(m), 4) = 3
        /\ extract_query_from_query_command(TRUE, Bytes(m), 4) = m.text
    <3>1. 3 \in Nat
      OBVIOUS
    <3>2. PICK sz \in {1, 2, 3, 8}, st \in {1, 2, 3, 8}, text \in Seq(Nat) :
             sz = m.size /\ st = m.setSize /\ text = m.text
      BY <1>2, <2>1
    <3>3. HasNoAttributes(Bytes(m), h, 3, sz, st, text)
      BY <2>4, <3>2, Zenon DEF HasNoAttributes
    <3>4. NoNul(text)
      BY <1>2, <3>2, Zenon
    <3>5. /\ At(Bytes(m), 4) = 3
          /\ extract_query_from_query_command(TRUE, Bytes(m), 4) = text
      <4>1. PICK c \in Nat : c = 3
        BY <3>1
      <4>2. HasNoAttributes(Bytes(m), h, c, sz, st, text) /\ Len(h) = 4
        BY <1>1, <3>3, <4>1, Zenon
      <4>3. FindsText(Bytes(m), c, text)
        BY <3>4, <4>2, AttributesText
      <4> QED BY <4>1, <4>3, Zenon DEF FindsText
    <3> QED BY <3>2, <3>5, Zenon
  <2>6. attributes = TRUE
    BY <1>5, Zenon
  <2>7. MySQLLogs(attributes, Bytes(m)) = <<extract_query_from_query_command(attributes, Bytes(m), 4)>>
    BY <2>5, QueryCall DEF COM_QUERY
  <2> QED BY <2>5, <2>6, <2>7, Zenon
<1> QED BY <1>3, <1>4, <1>5, MessageKinds, Zenon DEF IsMySQL

-----------------------------------------------------------------------------
(* What CPostgreSQLHandler logs.                                           *)

BEValues(f, buffer, pos) ==
    /\ f[0] = 0
    /\ \A i \in 1..4 : f[i] = f[i - 1] * 256 + At(buffer, pos + i - 1)

LEMMA ReadBEIs ==
    ASSUME NEW buffer \in Seq(Nat), NEW pos \in Nat
    PROVE  \E f : BEValues(f, buffer, pos) /\ readBEInt32(buffer, pos) = f[4]
<1> DEFINE d == [i \in 1..4 |-> At(buffer, pos + i - 1)]
           Value(f) == f = [i \in 0..4 |->
                              IF i = 0 THEN 0 ELSE f[i - 1] * 256 + At(buffer, pos + i - 1)]
           value == CHOOSE f : Value(f)
<1>1. d \in [1..4 -> Nat]
  BY AtTyped
<1>2. \A f : IsValue(f, 4, d) => Value(f)
  <2>1. \A f : [i \in 0..4 |-> IF i = 0 THEN 0 ELSE f[i - 1] * 256 + d[i]]
               = [i \in 0..4 |-> IF i = 0 THEN 0 ELSE f[i - 1] * 256 + At(buffer, pos + i - 1)]
    OBVIOUS
  <2> HIDE DEF d
  <2> QED BY <2>1 DEF IsValue
<1>3. \E f : Value(f)
  <2> HIDE DEF Value, d
  <2>1. 4 \in Nat
    OBVIOUS
  <2> QED BY <1>1, <1>2, <2>1, ValueExists
<1>4. Value(value)
  <2> HIDE DEF Value
  <2> QED BY <1>3
<1>5. readBEInt32(buffer, pos) = value[4]
  BY DEF readBEInt32
<1>6. ASSUME NEW f, Value(f) PROVE BEValues(f, buffer, pos)
  BY <1>6 DEF BEValues
<1> HIDE DEF value, Value
<1> QED BY <1>4, <1>5, <1>6

FourBytes(buffer, pos, a, b, c, d) ==
    /\ At(buffer, pos) = a /\ At(buffer, pos + 1) = b
    /\ At(buffer, pos + 2) = c /\ At(buffer, pos + 3) = d

BEMade(v, a, b, c, d) == v = ((a * 256 + b) * 256 + c) * 256 + d

LEMMA ReadBE4 ==
    ASSUME NEW buffer \in Seq(Nat), NEW pos \in Nat, NEW a \in Nat, NEW b \in Nat, NEW c \in Nat,
           NEW d \in Nat, FourBytes(buffer, pos, a, b, c, d)
    PROVE  BEMade(readBEInt32(buffer, pos), a, b, c, d)
<1>1. PICK f : BEValues(f, buffer, pos) /\ readBEInt32(buffer, pos) = f[4]
  BY ReadBEIs
<1>2. pos + 1 - 1 = pos /\ pos + 2 - 1 = pos + 1 /\ pos + 3 - 1 = pos + 2 /\ pos + 4 - 1 = pos + 3
  OBVIOUS
<1>3. /\ f[1] = f[1 - 1] * 256 + At(buffer, pos + 1 - 1)
      /\ f[2] = f[2 - 1] * 256 + At(buffer, pos + 2 - 1)
      /\ f[3] = f[3 - 1] * 256 + At(buffer, pos + 3 - 1)
      /\ f[4] = f[4 - 1] * 256 + At(buffer, pos + 4 - 1)
  BY <1>1 DEF BEValues
<1>4. f[0] = 0
  BY <1>1 DEF BEValues
<1>5. f[1] = a
  BY <1>2, <1>3, <1>4 DEF FourBytes
<1>6. f[2] = a * 256 + b
  BY <1>2, <1>3, <1>5 DEF FourBytes
<1>7. f[3] = (a * 256 + b) * 256 + c
  BY <1>2, <1>3, <1>6 DEF FourBytes
<1>8. f[4] = ((a * 256 + b) * 256 + c) * 256 + d
  BY <1>2, <1>3, <1>7 DEF FourBytes
<1> QED BY <1>1, <1>8 DEF BEMade

LEMMA FourDigitsMake ==
    ASSUME NEW n \in Nat, n \div (256 * 256 * 256) < 128
    PROVE  BEMade(n, Digit(n, 4), Digit(n, 3), Digit(n, 2), Digit(n, 1))
<1>1. /\ Digit(n, 1) = n % 256 /\ Digit(n, 2) = (n \div 256) % 256
      /\ Digit(n, 3) = (n \div (256 * 256)) % 256
      /\ Digit(n, 4) = (n \div (256 * 256 * 256)) % 256
  BY DEF Digit
<1>2. PICK q \in Nat, a \in 0..255 : n = 256 * q + a /\ q = n \div 256 /\ a = n % 256
  OBVIOUS
<1>3. PICK r \in Nat, b \in 0..255 : q = 256 * r + b /\ r = q \div 256 /\ b = q % 256
  OBVIOUS
<1>4. PICK s \in Nat, c \in 0..255 : r = 256 * s + c /\ s = r \div 256 /\ c = r % 256
  OBVIOUS
<1>5. n = 256 * (256 * r + b) + a
  <2>1. n = 256 * q + a /\ q = 256 * r + b
    BY <1>2, <1>3
  <2> QED BY <2>1
<1>6. n = 256 * (256 * (256 * s + c) + b) + a
  <2>1. r = 256 * s + c
    BY <1>4
  <2> QED BY <1>5, <2>1
<1>7. n \div (256 * 256) = r
  BY <1>5
<1>8. n \div (256 * 256 * 256) = s
  <2>1. PICK z \in Nat : z = 256 * (256 * c + b) + a
    OBVIOUS
  <2>2. z < 256 * 256 * 256
    BY <2>1
  <2>3. n = (256 * 256 * 256) * s + z
    BY <1>6, <2>1
  <2> QED BY <2>2, <2>3
<1>9. s < 128 /\ s % 256 = s
  BY <1>8
<1>10. Digit(n, 4) = s /\ Digit(n, 3) = c /\ Digit(n, 2) = b /\ Digit(n, 1) = a
  <2>1. Digit(n, 4) = s
    BY <1>1, <1>8, <1>9, Zenon
  <2>2. Digit(n, 3) = c
    <3>1. Digit(n, 3) = (n \div (256 * 256)) % 256
      BY <1>1
    <3>2. (n \div (256 * 256)) % 256 = r % 256
      BY <1>7
    <3>3. r % 256 = c
      BY <1>4
    <3> QED BY <3>1, <3>2, <3>3
  <2>3. Digit(n, 2) = b
    <3>1. Digit(n, 2) = (n \div 256) % 256
      BY <1>1
    <3>2. (n \div 256) % 256 = q % 256
      BY <1>2
    <3>3. q % 256 = b
      BY <1>3
    <3> QED BY <3>1, <3>2, <3>3
  <2>4. Digit(n, 1) = a
    BY <1>1, <1>2, Zenon
  <2> QED BY <2>1, <2>2, <2>3, <2>4
<1>11. ((s * 256 + c) * 256 + b) * 256 + a = n
  BY <1>6
<1> QED BY <1>10, <1>11 DEF BEMade

LEMMA AtFront ==
    ASSUME NEW x \in Seq(Nat), NEW y \in Seq(Nat), 0 < Len(x)
    PROVE  At(x \o y, 0) = x[1]
<1>1. Len(x) \in Nat /\ Len(y) \in Nat
  BY LenProperties
<1>2. /\ Len(x \o y) = Len(x) + Len(y)
      /\ \A i \in 1..(Len(x) + Len(y)) :
            (x \o y)[i] = IF i <= Len(x) THEN x[i] ELSE y[i - Len(x)]
  BY ConcatProperties
<1>3. 0 < Len(x \o y) /\ 1 \in 1..(Len(x) + Len(y)) /\ 1 <= Len(x) /\ 0 + 1 = 1
  BY <1>1, <1>2
<1> QED BY <1>2, <1>3 DEF At

\* What a message of PostgreSQL starts with: its type, and the length of what
\* follows the type.
HeaderRead(h, c, n, w) ==
    /\ h \in Seq(Nat) /\ Len(h) = 5
    /\ At(h \o w, 0) = c /\ readBEInt32(h \o w, 1) = n /\ At(h \o w, 4) = n % 256

LEMMA HeaderIsRead ==
    ASSUME NEW c \in Nat, NEW n \in Nat, n \div (256 * 256 * 256) < 128, NEW w \in Seq(Nat)
    PROVE  HeaderRead(<<c>> \o BEBytes(n), c, n, w)
<1>1. PICK cs \in Seq(Nat) : cs = <<c>> /\ Len(cs) = 1 /\ cs[1] = c
  <2>1. <<c>> \in Seq(Nat) /\ Len(<<c>>) = 1 /\ <<c>>[1] = c
    OBVIOUS
  <2> QED BY <2>1
<1>2. PICK be \in Seq(Nat) : be = BEBytes(n) /\ Len(be) = 4 /\ \A i \in 1..4 : be[i] = Digit(n, 5 - i)
  BY BEBytesTyped
<1>3. PICK h \in Seq(Nat) : h = cs \o be /\ Len(h) = 5
  <2>1. cs \o be \in Seq(Nat) /\ Len(cs \o be) = Len(cs) + Len(be)
    BY ConcatProperties
  <2>2. Len(cs) + Len(be) = 5
    BY <1>1, <1>2
  <2> QED BY <2>1, <2>2, Zenon
<1>4. PICK buffer \in Seq(Nat) : buffer = h \o w
  BY ConcatProperties
<1>5. At(buffer, 0) = c
  <2>0. \A x \in Seq(Nat), y \in Seq(Nat) : 0 < Len(x) => At(x \o y, 0) = x[1]
    BY AtFront
  <2>1. PICK y \in Seq(Nat) : y = be \o w
    BY ConcatProperties
  <2>2. cs \o y = buffer
    <3>1. (cs \o be) \o w = cs \o (be \o w)
      BY ConcatByteSeqs
    <3> QED BY <1>3, <1>4, <2>1, <3>1, Zenon
  <2>3. 0 < Len(cs)
    BY <1>1
  <2>4. At(cs \o y, 0) = cs[1]
    BY <2>0, <2>3
  <2> QED BY <1>1, <2>2, <2>4, Zenon
<1>6. \A q \in 0..3 : At(buffer, 1 + q) = Digit(n, 4 - q)
  <2> SUFFICES ASSUME NEW q \in 0..3 PROVE At(buffer, 1 + q) = Digit(n, 4 - q)
    OBVIOUS
  <2>1. q \in 0..(Len(be) - 1)
    BY <1>2
  <2>2. At((cs \o be) \o w, Len(cs) + q) = be[q + 1]
    BY <2>1, AtMiddle
  <2>3. be[q + 1] = Digit(n, 5 - (q + 1))
    BY <1>2
  <2>4. 5 - (q + 1) = 4 - q
    OBVIOUS
  <2> QED BY <1>1, <1>3, <1>4, <2>2, <2>3, <2>4, Zenon
<1>7. /\ At(buffer, 1) = Digit(n, 4) /\ At(buffer, 1 + 1) = Digit(n, 3)
      /\ At(buffer, 1 + 2) = Digit(n, 2) /\ At(buffer, 1 + 3) = Digit(n, 1)
  <2>1. At(buffer, 1 + 0) = Digit(n, 4 - 0) /\ At(buffer, 1 + 1) = Digit(n, 4 - 1)
    BY <1>6
  <2>2. At(buffer, 1 + 2) = Digit(n, 4 - 2) /\ At(buffer, 1 + 3) = Digit(n, 4 - 3)
    BY <1>6
  <2> QED BY <2>1, <2>2
<1>8. PICK a \in Nat, b \in Nat, d \in Nat, e \in Nat :
         a = Digit(n, 4) /\ b = Digit(n, 3) /\ d = Digit(n, 2) /\ e = Digit(n, 1)
  BY DigitTyped
<1>9. BEMade(readBEInt32(buffer, 1), a, b, d, e)
  <2>1. PICK pos \in Nat : pos = 1
    OBVIOUS
  <2>2. FourBytes(buffer, pos, a, b, d, e)
    BY <1>7, <1>8, <2>1, Zenon DEF FourBytes
  <2>3. BEMade(readBEInt32(buffer, pos), a, b, d, e)
    BY <2>2, ReadBE4
  <2> QED BY <2>1, <2>3, Zenon
<1>10. readBEInt32(buffer, 1) = n
  <2>1. BEMade(n, a, b, d, e)
    BY <1>8, FourDigitsMake
  <2> QED BY <1>9, <2>1 DEF BEMade
<1>11. At(buffer, 4) = n % 256
  <2>1. Digit(n, 1) = n % 256
    BY DEF Digit
  <2> QED BY <1>7, <2>1
<1> QED BY <1>1, <1>2, <1>3, <1>4, <1>5, <1>10, <1>11, Zenon DEF HeaderRead

\* A Query message: the text, and the NUL byte behind it.
LEMMA QueryMessageText ==
    ASSUME NEW h \in Seq(Nat), Len(h) = 5, NEW text \in Seq(Nat), NEW z \in Seq(Nat), Len(z) = 1
    PROVE  Substr(h \o (text \o z), 5, Len(text)) = text
<1>1. PICK t \in Nat : t = Len(text)
  BY LenProperties
<1>2. h \o (text \o z) = (h \o text) \o z
  BY ConcatByteSeqs
<1>3. /\ Len((h \o text) \o z) = (Len(h) + Len(text)) + Len(z)
      /\ SubSeq((h \o text) \o z, Len(h) + 1, Len(h) + Len(text)) = text
  BY MiddleIs
<1>4. PICK buffer : buffer = (h \o text) \o z
  OBVIOUS
<1>5. Len(buffer) = (5 + t) + 1 /\ SubSeq(buffer, 5 + 1, 5 + t) = text
  BY <1>1, <1>3, <1>4, Zenon
<1>6. 5 + t < Len(buffer)
  BY <1>5
<1>7. Substr(buffer, 5, t) = SubSeq(buffer, 5 + 1, 5 + t)
  BY <1>6 DEF Substr
<1> QED BY <1>1, <1>2, <1>4, <1>5, <1>7, Zenon

\* A part of a buffer is read at its position.
MadeOf(buffer, x, b, y) == buffer = (x \o b) \o y

PartAt(buffer, i, b) ==
    /\ \A q \in 0..(Len(b) - 1) : At(buffer, i + q) = b[q + 1]
    /\ SubSeq(buffer, i + 1, i + Len(b)) = b

LEMMA PartIsRead ==
    ASSUME NEW x \in Seq(Nat), NEW b \in Seq(Nat), NEW y \in Seq(Nat), NEW buffer,
           MadeOf(buffer, x, b, y)
    PROVE  PartAt(buffer, Len(x), b)
<1>1. \A q \in 0..(Len(b) - 1) : At((x \o b) \o y, Len(x) + q) = b[q + 1]
  BY AtMiddle
<1>2. SubSeq((x \o b) \o y, Len(x) + 1, Len(x) + Len(b)) = b
  BY MiddleIs
<1> QED BY <1>1, <1>2, Zenon DEF MadeOf, PartAt

\* A Parse message: the name of a statement, the text, and more, each behind
\* a NUL byte.  The search starts at the last byte of the length.
IsParse(buffer, h, name, z, text, y) ==
    buffer = h \o (((name \o z) \o text) \o y)

LEMMA ParseTextIs ==
    ASSUME NEW h \in Seq(Nat), NEW name \in Seq(Nat), NEW z \in Seq(Nat), NEW text \in Seq(Nat),
           NEW y \in Seq(Nat), Len(h) = 5, Len(z) = 1, z[1] = 0, 0 < Len(y), y[1] = 0,
           NoNul(name), NoNul(text),
           NEW buffer, IsParse(buffer, h, name, z, text, y), At(buffer, 4) # 0
    PROVE  ParseText(buffer) = text
<1>1. PICK k \in Nat, t \in Nat, l \in Nat : k = Len(name) /\ t = Len(text) /\ l = Len(y)
  BY LenProperties
<1>2. PICK a \in Seq(Nat), ty \in Seq(Nat) : a = h \o name /\ ty = text \o y
  BY ConcatProperties
<1>3. PICK b \in Seq(Nat), zty \in Seq(Nat) : b = a \o z /\ zty = z \o ty
  BY ConcatProperties
<1>4. PICK e \in Seq(Nat) : e = <<>>
  BY EmptySeq
<1>5. PICK c \in Seq(Nat) : c = b \o text
  BY ConcatProperties
<1>6. buffer = c \o y /\ buffer = b \o ty /\ buffer = a \o zty
  <2>1. Regrouped(h, name, z, text, y)
    BY RegroupParts
  <2> QED BY <1>2, <1>3, <1>5, <2>1, Zenon DEF Regrouped, IsParse
<1>7. Len(a) = 5 + k
  <2>1. Len(h \o name) = Len(h) + Len(name)
    BY ConcatProperties
  <2> QED BY <1>1, <1>2, <2>1, Zenon
<1>8. Len(b) = (5 + k) + 1
  <2>1. Len(a \o z) = Len(a) + Len(z)
    BY ConcatProperties
  <2> QED BY <1>3, <1>7, <2>1, Zenon
<1>9. Len(c) = ((5 + k) + 1) + t
  <2>1. Len(b \o text) = Len(b) + Len(text)
    BY ConcatProperties
  <2> QED BY <1>1, <1>5, <1>8, <2>1, Zenon
<1>10. buffer \in Seq(Nat) /\ Len(buffer) = (((5 + k) + 1) + t) + l
  <2>1. c \o y \in Seq(Nat) /\ Len(c \o y) = Len(c) + Len(y)
    BY ConcatProperties
  <2> QED BY <1>1, <1>6, <1>9, <2>1, Zenon
<1>11. PartAt(buffer, 5, name) /\ PartAt(buffer, 5 + k, z)
  <2>1. MadeOf(buffer, h, name, zty) /\ MadeOf(buffer, a, z, ty)
    BY <1>2, <1>3, <1>6, Zenon DEF MadeOf
  <2>2. PartAt(buffer, Len(h), name)
    BY <2>1, PartIsRead
  <2>3. PartAt(buffer, Len(a), z)
    BY <2>1, PartIsRead
  <2> QED BY <1>7, <2>2, <2>3, Zenon
<1>12. PICK s \in Nat : s = (5 + k) + 1
  OBVIOUS
<1>13. PartAt(buffer, s, text) /\ PartAt(buffer, s + t, y)
  <2>1. buffer \o <<>> = buffer
    BY <1>10, ConcatEmptySeq
  <2>2. MadeOf(buffer, b, text, y) /\ MadeOf(buffer, c, y, e)
    BY <1>4, <1>5, <1>6, <2>1, Zenon DEF MadeOf
  <2>3. PartAt(buffer, Len(b), text)
    BY <2>2, PartIsRead
  <2>4. PartAt(buffer, Len(c), y)
    BY <2>2, PartIsRead
  <2> QED BY <1>8, <1>9, <1>12, <2>3, <2>4, Zenon
<1>14. FindNul(buffer, 4) = 5 + k
  <2>1. At(buffer, 5 + k) = 0
    <3>1. 0 \in 0..(Len(z) - 1)
      OBVIOUS
    <3>2. At(buffer, (5 + k) + 0) = z[0 + 1]
      BY <1>11, <3>1 DEF PartAt
    <3>3. (5 + k) + 0 = 5 + k /\ 0 + 1 = 1
      OBVIOUS
    <3> QED BY <3>2, <3>3, Zenon
  <2>2. ASSUME NEW p \in 4..((5 + k) - 1) PROVE At(buffer, p) # 0
    <3>1. CASE p = 4
      BY <3>1
    <3>2. CASE p # 4
      <4>1. PICK q \in 0..(k - 1) : p = 5 + q
        <5>1. p - 5 \in 0..(k - 1) /\ p = 5 + (p - 5)
          BY <3>2
        <5> QED BY <5>1
      <4>2. q \in 0..(Len(name) - 1) /\ q + 1 \in 1..Len(name)
        BY <1>1
      <4>3. At(buffer, 5 + q) = name[q + 1]
        BY <1>11, <4>2, Zenon DEF PartAt
      <4>4. name[q + 1] # 0
        BY <4>2, Zenon DEF NoNul
      <4> QED BY <4>1, <4>3, <4>4, Zenon
    <3> QED BY <3>1, <3>2
  <2>3. 4 \in Nat /\ 5 + k \in Nat /\ 4 <= 5 + k /\ 5 + k < Len(buffer)
    BY <1>10
  <2> QED BY <1>10, <2>1, <2>2, <2>3, FindNulIs
<1>15. FindNul(buffer, s) = s + t
  <2>1. At(buffer, s + t) = 0
    <3>1. 0 \in 0..(Len(y) - 1)
      BY <1>1
    <3>2. At(buffer, (s + t) + 0) = y[0 + 1]
      BY <1>13, <3>1 DEF PartAt
    <3>3. (s + t) + 0 = s + t /\ 0 + 1 = 1
      OBVIOUS
    <3> QED BY <3>2, <3>3, Zenon
  <2>2. ASSUME NEW p \in s..((s + t) - 1) PROVE At(buffer, p) # 0
    <3>1. PICK q \in 0..(t - 1) : p = s + q
      <4>1. p - s \in 0..(t - 1) /\ p = s + (p - s)
        OBVIOUS
      <4> QED BY <4>1
    <3>2. q \in 0..(Len(text) - 1) /\ q + 1 \in 1..Len(text)
      BY <1>1
    <3>3. At(buffer, s + q) = text[q + 1]
      BY <1>13, <3>2, Zenon DEF PartAt
    <3>4. text[q + 1] # 0
      BY <3>2, Zenon DEF NoNul
    <3> QED BY <3>1, <3>3, <3>4, Zenon
  <2>3. s + t \in Nat /\ s <= s + t /\ s + t < Len(buffer)
    <3>1. 0 < l
      BY <1>1
    <3>2. Len(buffer) = (s + t) + l
      BY <1>10, <1>12, Zenon
    <3> QED BY <3>1, <3>2
  <2> QED BY <1>10, <2>1, <2>2, <2>3, FindNulIs
<1>16. Substr(buffer, s, (s + t) - s) = text
  <2>1. SubSeq(buffer, s + 1, s + t) = text
    BY <1>1, <1>13, Zenon DEF PartAt
  <2>2. s + t < Len(buffer)
    BY <1>1, <1>10, <1>12
  <2>3. s + ((s + t) - s) = s + t
    OBVIOUS
  <2> QED BY <2>1, <2>2, <2>3, Zenon DEF Substr
<1>17. (IF FindNul(buffer, 4) = Len(buffer) THEN 0 ELSE FindNul(buffer, 4) + 1) = s
  <2>1. 5 + k # Len(buffer)
    BY <1>10
  <2> QED BY <1>12, <1>14, <2>1, Zenon
<1> QED BY <1>15, <1>16, <1>17, Zenon DEF ParseText

LEMMA QueryMessageCall ==
    ASSUME NEW buffer, At(buffer, 0) = MsgTypeQuery
    PROVE  PostgreSQLLogs(buffer) = <<Substr(buffer, 5, getMessageBodyLength(buffer) - 1)>>
<1>1. MsgTypeQuery # MsgTypeParse
  BY DEF MsgTypeQuery, MsgTypeParse
<1> QED BY <1>1 DEF PostgreSQLLogs

LEMMA ParseMessageCall ==
    ASSUME NEW buffer, At(buffer, 0) # MsgTypeQuery, At(buffer, 0) = MsgTypeParse
    PROVE  PostgreSQLLogs(buffer) = <<ParseText(buffer)>>
BY DEF PostgreSQLLogs

\* Of a regular message, CPostgreSQLHandler logs the text it carries.
LEMMA MessageLogged ==
    ASSUME NEW m \in Messages, ~ IsMySQL(m), Fits(m), Regular(m)
    PROVE  PostgreSQLLogs(Bytes(m)) = <<m.text>>
<1>1. PICK text \in Seq(Nat), body \in Seq(Nat) : text = m.text /\ body = Body(m)
  BY MessageKinds, BodyTyped
<1>2. PICK n \in Nat : n = Len(body) + 4 /\ n \div (256 * 256 * 256) < 128
  BY <1>1, LenProperties DEF Fits
<1>3. m.type \in {"Query", "Parse"}
  BY MessageKinds DEF IsMySQL
<1>4. CASE m.type = "Query"
  <2>1. PICK z \in Seq(Nat) : z = <<0>> /\ Len(z) = 1
    <3>1. <<0>> \in Seq(Nat) /\ Len(<<0>>) = 1
      OBVIOUS
    <3> QED BY <3>1
  <2>2. body = text \o z
    BY <1>1, <1>4, <2>1 DEF Body
  <2>3. PICK h : h = <<81>> \o BEBytes(n)
    OBVIOUS
  <2>4. Bytes(m) = h \o body
    <3>1. Bytes(m) = (<<MsgTypeQuery>> \o BEBytes(Len(Body(m)) + 4)) \o Body(m)
      BY <1>4 DEF Bytes
    <3> QED BY <1>1, <1>2, <2>3, <3>1, Zenon DEF MsgTypeQuery
  <2>5. HeaderRead(h, 81, n, body)
    <3>1. PICK c \in Nat : c = 81
      OBVIOUS
    <3>2. HeaderRead(<<c>> \o BEBytes(n), c, n, body)
      BY <1>2, HeaderIsRead
    <3> QED BY <2>3, <3>1, <3>2, Zenon
  <2>6. Len(body) = Len(text) + 1
    <3>1. Len(text \o z) = Len(text) + Len(z)
      BY ConcatProperties
    <3> QED BY <2>1, <2>2, <3>1, Zenon
  <2>7. h \in Seq(Nat) /\ Len(h) = 5 /\ At(Bytes(m), 0) = 81 /\ readBEInt32(Bytes(m), 1) = n
    BY <2>4, <2>5, Zenon DEF HeaderRead
  <2>8. Substr(h \o (text \o z), 5, Len(text)) = text
    <3>1. PICK g \in Seq(Nat) : g = h
      BY <2>7
    <3>2. Len(g) = 5 /\ Len(z) = 1
      BY <2>1, <2>7, <3>1, Zenon
    <3>3. Substr(g \o (text \o z), 5, Len(text)) = text
      BY <3>2, QueryMessageText
    <3> QED BY <3>1, <3>3, Zenon
  <2>9. getMessageBodyLength(Bytes(m)) - 1 = Len(text)
    <3>1. PICK k \in Nat : k = Len(text)
      BY LenProperties
    <3>2. n = (k + 1) + 4
      BY <1>2, <2>6, <3>1, Zenon
    <3>3. (n - 4) - 1 = k
      BY <3>2
    <3> QED BY <2>7, <3>1, <3>3, Zenon DEF getMessageBodyLength
  <2>10. At(Bytes(m), 0) = MsgTypeQuery
    BY <2>7 DEF MsgTypeQuery
  <2>11. PostgreSQLLogs(Bytes(m)) = <<Substr(Bytes(m), 5, getMessageBodyLength(Bytes(m)) - 1)>>
    BY <2>10, QueryMessageCall
  <2> QED BY <1>1, <2>2, <2>4, <2>8, <2>9, <2>11, Zenon
<1>5. CASE m.type = "Parse"
  <2>1. PICK z \in Seq(Nat) : z = <<0>> /\ Len(z) = 1 /\ z[1] = 0
    <3>1. <<0>> \in Seq(Nat) /\ Len(<<0>>) = 1 /\ <<0>>[1] = 0
      OBVIOUS
    <3> QED BY <3>1
  <2>2. PICK y \in Seq(Nat) : y = <<0, 0, 0>> /\ 0 < Len(y) /\ y[1] = 0
    <3>1. <<0, 0, 0>> \in Seq(Nat) /\ 0 < Len(<<0, 0, 0>>) /\ <<0, 0, 0>>[1] = 0
      OBVIOUS
    <3> QED BY <3>1
  <2>3. PICK name \in Seq(Nat) : name = Text(m.name) /\ NoNul(name)
    <3>1. m.name \in Nat
      BY <1>5, MessageKinds
    <3> QED BY <3>1, TextTyped DEF NoNul
  <2>4. body = ((name \o z) \o text) \o y
    <3>1. Body(m) = ((Text(m.name) \o <<0>>) \o m.text) \o <<0, 0, 0>>
      BY <1>5 DEF Body
    <3> QED BY <1>1, <2>1, <2>2, <2>3, <3>1, Zenon
  <2>5. PICK h : h = <<80>> \o BEBytes(n)
    OBVIOUS
  <2>6. Bytes(m) = h \o body
    <3>1. Bytes(m) = (<<MsgTypeParse>> \o BEBytes(Len(Body(m)) + 4)) \o Body(m)
      BY <1>5 DEF Bytes
    <3> QED BY <1>1, <1>2, <2>5, <3>1, Zenon DEF MsgTypeParse
  <2>7. HeaderRead(h, 80, n, body)
    <3>1. PICK c \in Nat : c = 80
      OBVIOUS
    <3>2. HeaderRead(<<c>> \o BEBytes(n), c, n, body)
      BY <1>2, HeaderIsRead
    <3> QED BY <2>5, <3>1, <3>2, Zenon
  <2>8. h \in Seq(Nat) /\ Len(h) = 5 /\ At(Bytes(m), 0) = 80 /\ At(Bytes(m), 4) = n % 256
    BY <2>6, <2>7, Zenon DEF HeaderRead
  <2>9. At(Bytes(m), 4) # 0
    <3>1. n % 256 # 0
      BY <1>1, <1>2, <1>5 DEF Regular
    <3> QED BY <2>8, <3>1, Zenon
  <2>10. NoNul(text)
    <3>1. DOMAIN text = 1..Len(text)
      BY LenProperties
    <3>2. \A i \in DOMAIN m.text : m.text[i] # 0
      BY <1>5 DEF Regular
    <3> QED BY <1>1, <3>1, <3>2, Zenon DEF NoNul
  <2>11. IsParse(Bytes(m), h, name, z, text, y)
    BY <2>4, <2>6, Zenon DEF IsParse
  <2>12. ParseText(Bytes(m)) = text
    <3>1. PICK g \in Seq(Nat) : g = h
      BY <2>8
    <3>2. Len(g) = 5 /\ Len(z) = 1 /\ z[1] = 0 /\ 0 < Len(y) /\ y[1] = 0 /\ NoNul(name)
      BY <2>1, <2>2, <2>3, <2>8, <3>1, Zenon
    <3>3. IsParse(Bytes(m), g, name, z, text, y)
      BY <2>11, <3>1, Zenon
    <3> QED BY <2>9, <2>10, <3>2, <3>3, ParseTextIs
  <2>13. PostgreSQLLogs(Bytes(m)) = <<ParseText(Bytes(m))>>
    <3>1. At(Bytes(m), 0) # MsgTypeQuery /\ At(Bytes(m), 0) = MsgTypeParse
      BY <2>8 DEF MsgTypeQuery, MsgTypeParse
    <3> QED BY <3>1, ParseMessageCall
  <2> QED BY <1>1, <2>12, <2>13, Zenon
<1> QED BY <1>3, <1>4, <1>5

-----------------------------------------------------------------------------
(* Every query is logged.                                                  *)

\* A call that logs one text each.
SinglesJoin(k, f) == FlattenSeq([i \in 1..k |-> <<f[i]>>]) = [i \in 1..k |-> f[i]]

LEMMA SinglesFlatten ==
    ASSUME NEW S, NEW k \in Nat, NEW f, \A i \in 1..k : f[i] \in S
    PROVE  SinglesJoin(k, f)
<1> DEFINE Singles(n) == [i \in 1..n |-> <<f[i]>>]
           Firsts(n) == [i \in 1..n |-> f[i]]
           T == {n \in Nat : n <= k => FlattenSeq(Singles(n)) = Firsts(n)}
<1>1. 0 \in T
  <2>1. Singles(0) = <<>> /\ Firsts(0) = <<>>
    OBVIOUS
  <2>2. FlattenSeq(<<>>) = <<>>
    BY DEF FlattenSeq
  <2> HIDE DEF Singles, Firsts
  <2> QED BY <2>1, <2>2
<1>2. ASSUME NEW n \in Nat, n \in T PROVE n + 1 \in T
  <2>1. SUFFICES ASSUME n + 1 <= k PROVE FlattenSeq(Singles(n + 1)) = Firsts(n + 1)
    <3> HIDE DEF Singles, Firsts
    <3> QED OBVIOUS
  <2>2. \A i \in 1..(n + 1) : f[i] \in S
    BY <2>1
  <2>3. Singles(n) \in Seq(Seq(S)) /\ <<f[n + 1]>> \in Seq(S) /\ Firsts(n) \in Seq(S)
    <3>1. \A i \in 1..(n + 1) : <<f[i]>> \in Seq(S)
      BY <2>2
    <3> QED BY <2>2, <3>1
  <2>4. Singles(n + 1) = Append(Singles(n), <<f[n + 1]>>)
    OBVIOUS
  <2>5. Firsts(n + 1) = Firsts(n) \o <<f[n + 1]>>
    OBVIOUS
  <2>6. FlattenSeq(Singles(n)) = Firsts(n)
    <3>1. n <= k
      BY <2>1
    <3> HIDE DEF Singles, Firsts
    <3> QED BY <1>2, <3>1
  <2> HIDE DEF Singles, Firsts
  <2>7. FlattenSeq(Append(Singles(n), <<f[n + 1]>>)) = FlattenSeq(Singles(n)) \o <<f[n + 1]>>
    BY <2>3, FlattenAppend
  <2> QED BY <2>4, <2>5, <2>6, <2>7, Zenon
<1>3. k \in T
  <2> HIDE DEF T
  <2> QED BY <1>1, <1>2, AllNumbers
<1> QED BY <1>3 DEF SinglesJoin

LEMMA FirstsJoin ==
    ASSUME NEW S, NEW k \in Nat, NEW c \in Nat, NEW f, \A i \in 1..(k + c) : f[i] \in S
    PROVE  [i \in 1..k |-> f[i]] \o [i \in 1..c |-> f[k + i]] = [i \in 1..(k + c) |-> f[i]]
OBVIOUS

LEMMA SameTruth ==
    ASSUME NEW a \in BOOLEAN, NEW b \in BOOLEAN, a <=> b
    PROVE  a = b
BY Zenon

\* Of each of the client's messages the handler logs the text it carries.
LEMMA OneLogged ==
    ASSUME Held, \A i \in DOMAIN stream : Regular(stream[i]), NEW j \in DOMAIN stream
    PROVE  Logs(Bytes(stream[j])) = <<stream[j].text>> /\ stream[j].text \in Seq(Nat)
<1>1. PICK m : m = stream[j]
  OBVIOUS
<1>2. stream \in Seq(Messages) /\ stream # <<>> /\ 1 \in DOMAIN stream
  <2>1. stream \in Seq(Messages) /\ stream # <<>>
    BY StreamsAssumption DEF Held
  <2> QED BY <2>1
<1>3. m \in Messages /\ Regular(m)
  <2>1. DOMAIN stream = 1..Len(stream)
    BY <1>2, LenProperties
  <2>2. stream[j] \in Messages
    BY <1>2, <2>1, ElementOfSeq
  <2> QED BY <1>1, <2>2
<1>4. Fits(m) /\ (IsMySQL(m) <=> IsMySQL(stream[1]))
  BY <1>1, StreamsAssumption DEF Held
<1>5. m.text \in Seq(Nat)
  BY <1>3, MessageKinds
<1>6. CASE IsMySQL(stream[1])
  <2>1. Logs(Bytes(m)) = MySQLLogs(Capable(stream), Bytes(m))
    BY <1>6 DEF Logs
  <2>2. Capable(stream) \in BOOLEAN
    BY DEF Capable
  <2>3. ASSUME m.type = "query" PROVE Capable(stream) = m.attributes
    <3>1. m.attributes \in BOOLEAN
      BY <1>3, <2>3, MessageKinds
    <3>2. \A i \in DOMAIN stream : IsMySQL(stream[i]) /\ stream[i].attributes = m.attributes
      BY <1>1, <1>6, StreamsAssumption DEF Held
    <3>3. Capable(stream) <=> m.attributes
      BY <1>2, <3>2, Zenon DEF Capable
    <3> QED BY <2>2, <3>1, <3>3, SameTruth
  <2>4. MySQLLogs(Capable(stream), Bytes(m)) = <<m.text>>
    BY <1>3, <1>4, <1>6, <2>2, <2>3, CommandLogged, Zenon
  <2> QED BY <1>1, <1>5, <2>1, <2>4, Zenon
<1>7. CASE ~ IsMySQL(stream[1])
  <2>1. Logs(Bytes(m)) = PostgreSQLLogs(Bytes(m))
    BY <1>7 DEF Logs
  <2>2. PostgreSQLLogs(Bytes(m)) = <<m.text>>
    BY <1>3, <1>4, <1>7, MessageLogged
  <2> QED BY <1>1, <1>5, <2>1, <2>2, Zenon
<1> QED BY <1>6, <1>7

\* What a buffer's calls log when each is one of the client's messages.
LEMMA CallsLogged ==
    ASSUME Held, \A i \in DOMAIN stream : Regular(stream[i]),
           NEW calls \in Seq(Seq(Nat)), NEW k \in Nat,
           \A i \in 1..Len(calls) : k + i \in DOMAIN stream /\ calls[i] = Bytes(stream[k + i])
    PROVE  FlattenSeq(Texts(calls)) = [i \in 1..Len(calls) |-> stream[k + i].text]
<1>1. PICK c \in Nat : c = Len(calls) /\ DOMAIN calls = 1..c
  BY LenProperties
<1> DEFINE f == [i \in 1..c |-> stream[k + i].text]
<1>2. ASSUME NEW i \in 1..c
      PROVE  Logs(calls[i]) = <<stream[k + i].text>> /\ stream[k + i].text \in Seq(Nat)
  <2>1. k + i \in DOMAIN stream /\ calls[i] = Bytes(stream[k + i])
    BY <1>1
  <2>2. PICK j \in DOMAIN stream : j = k + i
    BY <2>1
  <2>3. Logs(Bytes(stream[j])) = <<stream[j].text>> /\ stream[j].text \in Seq(Nat)
    BY OneLogged
  <2> QED BY <2>1, <2>2, <2>3, Zenon
<1>3. \A i \in 1..c : f[i] = stream[k + i].text
  OBVIOUS
<1>4. [i \in 1..c |-> f[i]] = f
  OBVIOUS
<1>5. Texts(calls) = [i \in 1..c |-> <<stream[k + i].text>>]
  <2>1. Texts(calls) = [i \in 1..c |-> Logs(calls[i])]
    BY <1>1 DEF Texts
  <2> QED BY <1>2, <2>1
<1>6. [i \in 1..c |-> <<stream[k + i].text>>] = [i \in 1..c |-> <<f[i]>>]
  OBVIOUS
<1>7. \A i \in 1..c : f[i] \in Seq(Nat)
  BY <1>2, <1>3
<1>8. f = [i \in 1..Len(calls) |-> stream[k + i].text]
  BY <1>1
<1> HIDE DEF f
<1>9. FlattenSeq([i \in 1..c |-> <<f[i]>>]) = [i \in 1..c |-> f[i]]
  <2>1. PICK S : S = Seq(Nat)
    OBVIOUS
  <2>2. \A i \in 1..c : f[i] \in S
    BY <1>7, <2>1, Zenon
  <2>3. SinglesJoin(c, f)
    BY <2>2, SinglesFlatten
  <2> QED BY <2>3, Zenon DEF SinglesJoin
<1> QED BY <1>4, <1>5, <1>6, <1>8, <1>9, Zenon

\* While the handler has been called with each message by itself, and the
\* messages are such that the code finds the query in them, the log has the
\* text of each, in their order, to the last byte.
THEOREM QueriesAreLogged == Spec => []LogsTheQueries
<1>1. Init => LogsTheQueries
  <2> SUFFICES ASSUME Init PROVE LogsTheQueries
    OBVIOUS
  <2>1. [i \in DOMAIN pieces |-> stream[i].text] = <<>>
    BY DEF Init
  <2> QED BY <2>1 DEF Init, LogsTheQueries
<1>2. Held /\ LogsTheQueries /\ [Next]_vars => LogsTheQueries'
  <2> SUFFICES ASSUME Held, LogsTheQueries, [Next]_vars PROVE LogsTheQueries'
    OBVIOUS
  <2>1. CASE HandleBuffer
    <3> SUFFICES ASSUME OneByOne', (\A i \in DOMAIN stream : Regular(stream[i]))'
                 PROVE  (logged = [i \in DOMAIN pieces |-> stream[i].text])'
      BY DEF LogsTheQueries
    <3>1. PICK to \in (taken + 1)..Len(AllBytes(stream)) :
              ReadsTo(to) /\ Calls(Read(to)) \in Seq(Seq(Nat) \ {<<>>})
      BY <2>1, BufferRead
    <3>2. PICK calls \in Seq(Seq(Nat)) : calls = Calls(Read(to))
      BY <3>1, SeqMonotonic
    <3>3. /\ pieces' = pieces \o calls /\ stream' = stream
          /\ logged' = logged \o FlattenSeq(Texts(calls))
      BY <3>1, <3>2 DEF ReadsTo
    <3>4. \A i \in DOMAIN stream : Regular(stream[i])
      BY <3>3 DEF Regular, Body, Parameters
    <3>5. pieces \in Seq(Seq(Nat)) /\ stream \in Seq(Messages)
      BY StreamTyped, SeqMonotonic DEF Held
    <3>6. PICK k \in Nat, c \in Nat : k = Len(pieces) /\ c = Len(calls)
      BY <3>5, LenProperties
    <3>7. /\ DOMAIN pieces = 1..k /\ DOMAIN pieces' = 1..(k + c)
          /\ \A i \in 1..k : pieces'[i] = pieces[i]
          /\ \A i \in 1..c : pieces'[k + i] = calls[i]
      BY <3>3, <3>5, <3>6
    <3>8. \A i \in 1..(k + c) : i \in DOMAIN stream /\ pieces'[i] = Bytes(stream[i])
      BY <3>3, <3>5, <3>7 DEF OneByOne
    <3>9. logged = [i \in 1..k |-> stream[i].text]
      <4>1. OneByOne
        BY <3>5, <3>7, <3>8 DEF OneByOne
      <4> QED BY <3>4, <3>7, <4>1 DEF LogsTheQueries
    <3>10. FlattenSeq(Texts(calls)) = [i \in 1..c |-> stream[k + i].text]
      <4>1. ASSUME NEW i \in 1..Len(calls)
            PROVE  k + i \in DOMAIN stream /\ calls[i] = Bytes(stream[k + i])
        BY <3>6, <3>7, <3>8
      <4>2. FlattenSeq(Texts(calls)) = [i \in 1..Len(calls) |-> stream[k + i].text]
        BY <3>4, <4>1, CallsLogged
      <4> QED BY <3>6, <4>2
    <3>11. [i \in 1..k |-> stream[i].text] \o [i \in 1..c |-> stream[k + i].text]
           = [i \in 1..(k + c) |-> stream[i].text]
      <4> DEFINE f == [i \in 1..(k + c) |-> stream[i].text]
      <4>1. \A i \in 1..(k + c) : f[i] = stream[i].text /\ stream[i].text \in Seq(Nat)
        BY <3>4, <3>8, OneLogged
      <4>2. /\ [i \in 1..k |-> stream[i].text] = [i \in 1..k |-> f[i]]
            /\ [i \in 1..c |-> stream[k + i].text] = [i \in 1..c |-> f[k + i]]
            /\ [i \in 1..(k + c) |-> stream[i].text] = [i \in 1..(k + c) |-> f[i]]
        OBVIOUS
      <4>3. \A i \in 1..(k + c) : f[i] \in Seq(Nat)
        BY <4>1, Zenon
      <4> HIDE DEF f
      <4>4. [i \in 1..k |-> f[i]] \o [i \in 1..c |-> f[k + i]] = [i \in 1..(k + c) |-> f[i]]
        BY <4>3, FirstsJoin
      <4> QED BY <4>2, <4>4, Zenon
    <3>12. logged' = [i \in 1..(k + c) |-> stream[i].text]
      BY <3>3, <3>9, <3>10, <3>11, Zenon
    <3> QED BY <3>3, <3>7, <3>12
  <2>2. CASE UNCHANGED vars
    <3>1. stream' = stream /\ pieces' = pieces /\ logged' = logged
      BY <2>2 DEF vars
    <3>2. OneByOne' => OneByOne
      BY <3>1 DEF OneByOne
    <3>3. (\A i \in DOMAIN stream : Regular(stream[i]))' => \A i \in DOMAIN stream : Regular(stream[i])
      BY <3>1 DEF Regular, Body, Parameters
    <3> QED BY <3>1, <3>2, <3>3 DEF LogsTheQueries
  <2> QED BY <2>1, <2>2 DEF Next
<1> QED BY <1>1, <1>2, HeldAlways, PTL DEF Spec

-----------------------------------------------------------------------------
(* Type correctness.                                                       *)

\* Joining sequences of at most one element.
LEMMA AtMostOneEach ==
    ASSUME NEW S, NEW seqs \in Seq(Seq(S)), \A i \in 1..Len(seqs) : Len(seqs[i]) <= 1
    PROVE  Len(FlattenSeq(seqs)) <= Len(seqs)
<1>1. PICK k \in Nat : k = Len(seqs)
  BY LenProperties
<1> DEFINE Firsts(n) == [i \in 1..n |-> seqs[i]]
           T == {n \in Nat : n <= k => Len(FlattenSeq(Firsts(n))) <= n}
<1>2. \A i \in 1..k : seqs[i] \in Seq(S)
  BY <1>1, ElementOfSeq
<1>3. 0 \in T
  <2>1. Firsts(0) = <<>> /\ Len(<<>>) = 0
    OBVIOUS
  <2>2. FlattenSeq(<<>>) = <<>>
    BY DEF FlattenSeq
  <2> HIDE DEF Firsts
  <2> QED BY <2>1, <2>2
<1>4. ASSUME NEW n \in Nat, n \in T PROVE n + 1 \in T
  <2>1. SUFFICES ASSUME n + 1 <= k PROVE Len(FlattenSeq(Firsts(n + 1))) <= n + 1
    <3> HIDE DEF Firsts
    <3> QED OBVIOUS
  <2>2. PICK x \in Seq(S) : x = seqs[n + 1] /\ Len(x) <= 1
    BY <1>1, <1>2, <2>1
  <2>3. PICK before \in Seq(Seq(S)) : before = Firsts(n) /\ Append(before, x) = Firsts(n + 1)
    <3>1. \A i \in 1..n : seqs[i] \in Seq(S)
      BY <1>2, <2>1
    <3>2. Firsts(n) \in Seq(Seq(S))
      BY <3>1
    <3>3. Append(Firsts(n), x) = Firsts(n + 1)
      BY <2>2, <3>1
    <3> HIDE DEF Firsts
    <3> QED BY <3>2, <3>3
  <2>4. Len(FlattenSeq(before)) <= n
    <3>1. n <= k
      BY <2>1
    <3> HIDE DEF Firsts
    <3> QED BY <1>4, <2>3, <3>1
  <2> HIDE DEF Firsts
  <2>5. PICK flat \in Seq(S) : flat = FlattenSeq(before)
    BY FlattenTyped
  <2>6. FlattenSeq(Append(before, x)) = FlattenSeq(before) \o x
    BY FlattenAppend
  <2>7. Len(flat \o x) = Len(flat) + Len(x) /\ Len(flat) \in Nat /\ Len(x) \in Nat
    BY ConcatProperties, LenProperties
  <2>8. Len(flat \o x) <= n + 1
    BY <2>2, <2>4, <2>5, <2>7
  <2> QED BY <2>3, <2>5, <2>6, <2>8, Zenon
<1>5. k \in T
  <2> HIDE DEF T
  <2> QED BY <1>3, <1>4, AllNumbers
<1>6. Firsts(k) = seqs
  BY <1>1
<1> HIDE DEF Firsts
<1> QED BY <1>1, <1>5, <1>6

\* One call logs at most one text.
LEMMA OneTextPerCall ==
    ASSUME NEW call
    PROVE  Logs(call) = <<>> \/ \E x : Logs(call) = <<x>>
<1>1. CASE IsMySQL(stream[1])
  <2>1. Logs(call) = MySQLLogs(Capable(stream), call)
    BY <1>1 DEF Logs
  <2> QED BY <2>1 DEF MySQLLogs
<1>2. CASE ~ IsMySQL(stream[1])
  <2>1. Logs(call) = PostgreSQLLogs(call)
    BY <1>2 DEF Logs
  <2> QED BY <2>1 DEF PostgreSQLLogs
<1> QED BY <1>1, <1>2

LEMMA TextsTyped ==
    ASSUME NEW calls \in Seq(Seq(Nat))
    PROVE  \E S : FlattenSeq(Texts(calls)) \in Seq(S) /\ Len(FlattenSeq(Texts(calls))) <= Len(calls)
<1>1. PICK c \in Nat : c = Len(calls) /\ DOMAIN calls = 1..c
  BY LenProperties
<1> DEFINE S == {Logs(calls[i])[1] : i \in 1..c}
<1>2. ASSUME NEW i \in 1..c PROVE Logs(calls[i]) \in Seq(S) /\ Len(Logs(calls[i])) <= 1
  <2>1. CASE Logs(calls[i]) = <<>>
    BY <2>1
  <2>2. CASE \E x : Logs(calls[i]) = <<x>>
    <3>1. PICK x : Logs(calls[i]) = <<x>>
      BY <2>2
    <3>2. x = Logs(calls[i])[1]
      BY <3>1
    <3>3. x \in S
      BY <3>2
    <3> HIDE DEF S
    <3>4. <<x>> \in Seq(S) /\ Len(<<x>>) <= 1
      BY <3>3
    <3> QED BY <3>1, <3>4
  <2> QED BY <2>1, <2>2, OneTextPerCall
<1>3. Texts(calls) = [i \in 1..c |-> Logs(calls[i])]
  BY <1>1 DEF Texts
<1> HIDE DEF S
<1>4. PICK ts \in Seq(Seq(S)) : ts = Texts(calls) /\ Len(ts) = c /\ \A i \in 1..c : Len(ts[i]) <= 1
  BY <1>2, <1>3
<1>5. FlattenSeq(ts) \in Seq(S) /\ Len(FlattenSeq(ts)) <= Len(ts)
  <2>1. \A i \in 1..Len(ts) : Len(ts[i]) <= 1
    BY <1>4
  <2> QED BY <2>1, FlattenTyped, AtMostOneEach
<1> QED BY <1>1, <1>4, <1>5

\* What TypeOK needs: that the log is a sequence, and no longer than the calls.
LogKept ==
    /\ uncut \in BOOLEAN
    /\ \E S : logged \in Seq(S)
    /\ Len(logged) <= Len(pieces)

LEMMA LogKeptInductive == Held /\ LogKept /\ [Next]_vars => LogKept'
<1> SUFFICES ASSUME Held, LogKept, [Next]_vars PROVE LogKept'
  OBVIOUS
<1>1. CASE HandleBuffer
  <2>1. PICK to \in (taken + 1)..Len(AllBytes(stream)) :
            ReadsTo(to) /\ Calls(Read(to)) \in Seq(Seq(Nat) \ {<<>>})
    BY <1>1, BufferRead
  <2>2. PICK calls \in Seq(Seq(Nat)) : calls = Calls(Read(to))
    BY <2>1, SeqMonotonic
  <2>3. /\ pieces' = pieces \o calls
        /\ logged' = logged \o FlattenSeq(Texts(calls))
    BY <2>1, <2>2 DEF ReadsTo
  <2>4. uncut' \in BOOLEAN
    BY <2>1, Zenon DEF ReadsTo
  <2>5. PICK A : logged \in Seq(A)
    BY DEF LogKept
  <2>6. PICK B : /\ FlattenSeq(Texts(calls)) \in Seq(B)
                 /\ Len(FlattenSeq(Texts(calls))) <= Len(calls)
    BY TextsTyped
  <2>7. PICK more : more = FlattenSeq(Texts(calls))
    OBVIOUS
  <2>8. logged \in Seq(A \cup B) /\ more \in Seq(A \cup B)
    <3>1. A \subseteq A \cup B /\ B \subseteq A \cup B
      OBVIOUS
    <3> QED BY <2>5, <2>6, <2>7, <3>1, SeqMonotonic
  <2>9. /\ logged \o more \in Seq(A \cup B) /\ Len(logged \o more) = Len(logged) + Len(more)
        /\ Len(logged) \in Nat /\ Len(more) \in Nat
    BY <2>8, ConcatProperties, LenProperties
  <2>10. pieces \in Seq(Seq(Nat))
    BY SeqMonotonic DEF Held
  <2>11. /\ Len(pieces \o calls) = Len(pieces) + Len(calls)
         /\ Len(pieces) \in Nat /\ Len(calls) \in Nat
    BY <2>10, ConcatProperties, LenProperties
  <2>12. Len(logged) <= Len(pieces) /\ Len(more) <= Len(calls)
    BY <2>6, <2>7 DEF LogKept
  <2>13. Len(logged \o more) <= Len(pieces \o calls)
    BY <2>9, <2>11, <2>12
  <2> QED BY <2>3, <2>4, <2>7, <2>9, <2>13, Zenon DEF LogKept
<1>2. CASE UNCHANGED vars
  BY <1>2 DEF vars, LogKept
<1> QED BY <1>1, <1>2 DEF Next

\* The type invariant: what was read is within the stream, no call is empty,
\* and there is at most one text in the log for each call.
THEOREM QueryTextTypeCorrect == Spec => []TypeOK
<1>1. Init => LogKept
  <2> SUFFICES ASSUME Init PROVE LogKept
    OBVIOUS
  <2>1. <<>> \in Seq(Nat) /\ Len(<<>>) <= Len(<<>>)
    BY EmptySeq
  <2> QED BY <2>1, Zenon DEF Init, LogKept
<1>2. Held /\ LogKept => TypeOK
  <2> SUFFICES ASSUME Held, LogKept PROVE TypeOK
    OBVIOUS
  <2>1. ASSUME NEW i \in DOMAIN pieces PROVE pieces[i] # <<>>
    <3>1. DOMAIN pieces = 1..Len(pieces) /\ pieces \in Seq(Seq(Nat) \ {<<>>})
      BY LenProperties DEF Held
    <3>2. pieces[i] \in Seq(Nat) \ {<<>>}
      BY <3>1, ElementOfSeq
    <3> QED BY <3>2
  <2> QED BY <2>1 DEF Held, LogKept, TypeOK
<1> QED BY <1>1, <1>2, HeldAlways, LogKeptInductive, PTL DEF Spec
=============================================================================
